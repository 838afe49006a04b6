--------------------------- MODULE PlatformParts ---------------------------
(***************************************************************************)
(* What the service does beside accounts and queues: plan limits, feature  *)
(* sync requests, OAuth codes, users, members and credentials of an        *)
(* organization, the audit log, notifications and the life of the process. *)
(* None of these reads what another writes, except for rows whose deletion *)
(* or suspension each of them models itself, as each models what a restart *)
(* interrupts; so a behaviour here follows one of them, chosen at the      *)
(* start, while the others rest in their initial states.  The plan limits  *)
(* are the variables and the Next of PlanQuota itself.                     *)
(***************************************************************************)
EXTENDS PlanQuota

CONSTANTS
    Parts,                                           \* which to explore
    Handlers, Syncs, Keys,                           \* FeatureSync
    Codes, Uris,                                     \* OAuthCode
    Accounts,                                        \* OrgUsers
    Orgs, Home, Tokens, Ttl,                         \* OrgAccess
    MaxFlight,                                       \* OrgAccess, Credentials
    Users, Logs, Plans, MaxDisturbances,             \* AuditRetention
    Admins, Notices, MaxRepeat,                      \* Notifications
    Clients, Signals                                 \* Lifecycle

VARIABLES
    part,
    appActive, status, features, catalogue, origin, syncPc, sync, todo, decisions,
    removed, torn,
    app, uris, user, code, boundTo, expired, codePc, uri, own, granted,
    row, here, verified, active, userPc, ownRow, answered, stranded,
    member, claim, left, rolePc, read, flight, since,
    keyKind, keyRow, ownerActive, keyPc, keyFlight, sinceValid, sinceActive,
    exists, plan, log, owner, age, purgePc, plansLeft, found, least, disturbed,
    admins, subs, call, dispatched, addressed, toMail, rows, unread, mails, failed,
    overtaken, want,
    phase, http, serving, worker, busy, db, redis, shut, closing, refused, cut

syncVars == <<appActive, status, features, catalogue, origin, syncPc, sync, todo,
              decisions, removed, torn>>
codeVars == <<app, uris, user, code, boundTo, expired, codePc, uri, own, granted>>
usersVars == <<row, here, verified, active, userPc, ownRow, answered, stranded>>
memberVars == <<member, claim, left, rolePc, read, flight, since>>
keyVars == <<keyKind, keyRow, ownerActive, keyPc, keyFlight, sinceValid, sinceActive>>
auditVars == <<exists, plan, log, owner, age, purgePc, plansLeft, found, least, disturbed>>
noticeVars == <<admins, subs, call, dispatched, addressed, toMail, rows, unread, mails,
                failed, overtaken, want>>
processVars == <<phase, http, serving, worker, busy, db, redis, shut, closing, refused, cut>>
platformVars == <<part, vars, syncVars, codeVars, usersVars, memberVars, keyVars, auditVars,
                  noticeVars, processVars>>

FS == INSTANCE FeatureSync WITH pc <- syncPc, HandlersMayFail <- TRUE
OC == INSTANCE OAuthCode WITH
    pc <- codePc, Requests <- Handlers, RequestsMayFail <- TRUE
OU == INSTANCE OrgUsers WITH
    pc <- userPc, own <- ownRow, Requests <- Handlers, RequestsMayFail <- TRUE
OA == INSTANCE OrgAccess WITH pc <- rolePc, Requests <- Handlers, AccessTtl <- Ttl
CR == INSTANCE Credentials WITH
    kind <- keyKind, row <- keyRow, active <- ownerActive, pc <- keyPc, flight <- keyFlight,
    Requests <- Handlers
AR == INSTANCE AuditRetention WITH pc <- purgePc, todo <- plansLeft
NO == INSTANCE Notifications WITH
    exists <- admins, Requests <- {"subscribe"}, Calls <- Notices, QueriesMayFail <- TRUE
LC == INSTANCE Lifecycle

\* What each part takes for granted of its constants.
ASSUME SyncConstants == FS!SyncAssumption
ASSUME CodeConstants == OC!CodesAssumption
ASSUME UserConstants == OU!UsersAssumption
ASSUME AccessConstants == OA!AccessAssumption
ASSUME KeyConstants == CR!CredentialsAssumption
ASSUME AuditConstants == AR!RetentionAssumption
ASSUME NoticeConstants == NO!NotificationsAssumption

PlatformInit ==
    /\ part \in Parts
    /\ Init
    /\ FS!Init /\ OC!Init /\ OU!Init /\ OA!Init /\ CR!Init /\ AR!Init /\ NO!Init /\ LC!Init
    /\ part # "keys" => keyKind = "key"
    /\ part # "audit" => \A u, v \in Users : plan[u] = plan[v] /\ plan[u] = AR!Longest

PlatformNext ==
    /\ \/ /\ part = "limits" /\ Next
          /\ UNCHANGED <<syncVars, codeVars, usersVars, memberVars, keyVars, auditVars,
                         noticeVars, processVars>>
       \/ /\ part = "sync" /\ FS!Next
          /\ UNCHANGED <<vars, codeVars, usersVars, memberVars, keyVars, auditVars,
                         noticeVars, processVars>>
       \/ /\ part = "codes" /\ OC!Next
          /\ UNCHANGED <<vars, syncVars, usersVars, memberVars, keyVars, auditVars,
                         noticeVars, processVars>>
       \/ /\ part = "users" /\ OU!Next
          /\ UNCHANGED <<vars, syncVars, codeVars, memberVars, keyVars, auditVars,
                         noticeVars, processVars>>
       \/ /\ part = "members" /\ OA!Next
          /\ UNCHANGED <<vars, syncVars, codeVars, usersVars, keyVars, auditVars,
                         noticeVars, processVars>>
       \/ /\ part = "keys" /\ CR!Next
          /\ UNCHANGED <<vars, syncVars, codeVars, usersVars, memberVars, auditVars,
                         noticeVars, processVars>>
       \/ /\ part = "audit" /\ AR!Next
          /\ UNCHANGED <<vars, syncVars, codeVars, usersVars, memberVars, keyVars,
                         noticeVars, processVars>>
       \/ /\ part = "notices" /\ NO!Next
          /\ UNCHANGED <<vars, syncVars, codeVars, usersVars, memberVars, keyVars,
                         auditVars, processVars>>
       \/ /\ part = "process" /\ LC!Next
          /\ UNCHANGED <<vars, syncVars, codeVars, usersVars, memberVars, keyVars,
                         auditVars, noticeVars>>
    /\ UNCHANGED part

PlatformSpec == PlatformInit /\ [][PlatformNext]_platformVars

\* The fairness of the parts with a promise to keep.
PlatformFairSpec ==
    /\ PlatformSpec
    /\ WF_auditVars(part = "audit" /\ AR!Cleanup)
    /\ WF_auditVars(part = "audit" /\ AR!Tick)
    /\ WF_processVars(part = "process" /\ LC!ForceExit)

-----------------------------------------------------------------------------
\* The properties are those of the modules, under the same names; those of
\* PlanQuota are at hand as they are.

\* Every variable of the parts keeps its type.
PlatformTypeOK ==
    /\ TypeOK /\ FS!TypeOK /\ OC!TypeOK /\ OU!TypeOK /\ OA!TypeOK
    /\ CR!TypeOK /\ AR!TypeOK /\ NO!TypeOK /\ LC!TypeOK

\* Only overlapping handlers decide a sync request more than once.
DecisionsBounded == FS!DecisionsBounded

\* The features of an approved request are in force as a whole.
ApprovedInForce == FS!ApprovedInForce

\* A rejected request leaves no feature behind.
RejectedLeavesNothing == FS!RejectedLeavesNothing

\* Only overlapping exchanges use an authorization code more than once.
GrantsBounded == OC!GrantsBounded

\* No code stays usable whose tokens are out, or whose app is gone.
GrantedCodesAreSpent == OC!GrantedCodesAreSpent

\* A user of an organization is unverified only when registration failed.
UnverifiedOnlyByFailure == OU!UnverifiedOnlyByFailure

\* An account is handed to one registration, of its own organization.
RegistrationsBounded == OU!RegistrationsBounded

\* The role of a removed member lapses with the tokens that carry it.
AdminRightLapses == OA!AdminRightLapses

\* A revoked secret, or one of a suspended owner, is used by requests under
\* way only.
SecretLapses == CR!SecretLapses

\* No log is purged before the retention of its user's plan is over.
NothingPurgedEarly == AR!NothingPurgedEarly

\* Logs past their retention are purged by a later run.
PurgedEventually == AR!PurgedEventually

\* A call notifies everyone it names, or nobody.
NotifiesAllOrNobody == NO!NotifiesAllOrNobody

\* An event is lost to its subscribers only if one was deleted meanwhile.
LostOnlyIfOvertaken == NO!LostOnlyIfOvertaken

\* A graceful exit cuts off nothing that was under way.
CleanExit == LC!CleanExit

\* A request being served has its stores.
StoresOutliveRequests == LC!StoresOutliveRequests

\* A process that got a signal ends.
ShutdownEnds == LC!ShutdownEnds

=============================================================================
