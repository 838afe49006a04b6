-------------------------- MODULE RolePermissions --------------------------
(***************************************************************************)
(* One user's permissions in one app: the roles and direct features that   *)
(* acl.service.ts changes, the copy of the resolved permissions that       *)
(* issueTokens puts into an access token, and what the service does about  *)
(* copies that a change makes outdated: it signs the user out, and it      *)
(* counts up the version of the role, which the token carries too.         *)
(*                                                                         *)
(* A change is several queries.  Administrators' requests and logins       *)
(* overlap between them.                                                   *)
(***************************************************************************)
EXTENDS Integers, FiniteSets

CONSTANTS
    Roles,            \* roles of the app
    Features,         \* its features
    Admins,           \* administrators' requests being served at the same time
    Tokens,           \* access tokens that can be issued to the user
    None,             \* no role
    MaxTime,          \* bound on the clock
    MaxVersion,       \* bound on the versions of a role
    MaxRows,          \* bound on the UserApp rows
    RequestsMayFail   \* may a request end at any await (error, restart)?

ASSUME RolesAssumption ==
    /\ None \notin Roles
    /\ MaxTime \in Nat \ {0}
    /\ MaxVersion \in Nat \ {0} /\ MaxRows \in Nat \ {0}
    /\ RequestsMayFail \in BOOLEAN

VARIABLES
    now,            \* Math.floor(Date.now() / 1000)
    present,        \* the roles that have not been deleted
    version,        \* appRole.version of each
    grants,         \* its features
    access,         \* the UserApp row: none, active, inactive
    rowNo,          \* which UserApp row it is (a new one has a new id)
    holds,          \* its role
    direct,         \* the direct features: none, granted, denied
    revokeBefore,   \* the user's revocation instant; 0: never signed out
    apc,            \* where each administrator's request stands
    task,           \* what it does
    role,           \* the role it does that to
    seen,           \* the version (or the row) it has read
    listed,         \* does it have to sign the user out?
    stage,          \* none, read (permissions resolved), issued
    copy,           \* the permission in the token
    readAt, iat,    \* when it was resolved, and the token signed
    unended         \* history: outdated by a change that no sign-out follows

roleVars == <<present, version, grants>>
userVars == <<access, rowNo, holds, direct>>
adminVars == <<apc, task, role, seen, listed>>
tokenVars == <<stage, copy, readAt, iat>>
vars == <<now, roleVars, userVars, revokeBefore, adminVars, tokenVars, unended>>

RoleTasks == {"updateRole", "setRoleFeatures", "deleteRole"}
UserTasks == {"updateUserAppAccess", "removeUserFromApp", "setUserDirectFeatures"}

TypeOK ==
    /\ now \in 1..MaxTime /\ revokeBefore \in 0..MaxTime
    /\ present \in SUBSET Roles
    /\ version \in [Roles -> 1..MaxVersion]
    /\ grants \in [Roles -> SUBSET Features]
    /\ access \in {"none", "active", "inactive"}
    /\ rowNo \in 1..MaxRows
    /\ holds \in present \cup {None}
    /\ direct \in [Features -> {"none", "granted", "denied"}]
    /\ apc \in [Admins -> {"idle", "set", "bump", "holders", "change", "signOut", "delete"}]
    /\ task \in [Admins -> RoleTasks \cup UserTasks \cup {"none"}]
    /\ role \in [Admins -> Roles \cup {None}]
    /\ seen \in [Admins -> Nat]
    /\ listed \in [Admins -> BOOLEAN]
    /\ stage \in [Tokens -> {"none", "read", "issued"}]
    /\ copy \in [Tokens -> [role : Roles \cup {None}, version : 0..MaxVersion,
                          features : SUBSET Features]]
    /\ readAt \in [Tokens -> 0..MaxTime] /\ iat \in [Tokens -> 0..MaxTime]
    /\ unended \in SUBSET Tokens

NoCopy == [role |-> None, version |-> 0, features |-> {}]

Init ==
    /\ now = 1 /\ revokeBefore = 0
    /\ present = Roles
    /\ version = [r \in Roles |-> 1]
    /\ grants \in [Roles -> SUBSET Features]
    /\ access \in {"none", "active"} /\ rowNo = 1
    /\ holds \in IF access = "none" THEN {None} ELSE Roles
    /\ direct = [f \in Features |-> "none"]
    /\ apc = [a \in Admins |-> "idle"]
    /\ task = [a \in Admins |-> "none"]
    /\ role = [a \in Admins |-> None]
    /\ seen = [a \in Admins |-> 0]
    /\ listed = [a \in Admins |-> FALSE]
    /\ stage = [t \in Tokens |-> "none"]
    /\ copy = [t \in Tokens |-> NoCopy]
    /\ readAt = [t \in Tokens |-> 0] /\ iat = [t \in Tokens |-> 0]
    /\ unended = {}

-----------------------------------------------------------------------------
\* resolveUserPermissions: the role's features, and the direct ones over them.
Effective ==
    IF access # "active" THEN {}
    ELSE {f \in Features :
             \/ direct[f] = "granted"
             \/ direct[f] = "none" /\ holds # None /\ f \in grants[holds]}

Resolved ==
    [role |-> holds,
     version |-> IF holds = None THEN 0 ELSE version[holds],
     features |-> Effective]

\* A token, or one about to be signed, that grants what the user has not got.
Outdated == {t \in Tokens : stage[t] # "none" /\ ~(copy[t].features \subseteq Effective)}

\* verifyTokenInternal accepts a token of or after the revocation instant;
\* how long it lives is left out.
Accepted(t) == stage[t] = "issued" /\ iat[t] >= revokeBefore

\* permissionsStale in getUserPermissionsForApp.  (A token without a copy for
\* the app is never called stale, and never grants too much.)
Stale(t) == access = "active" /\ copy[t].version # Resolved.version

Goto(a, label) == apc' = [apc EXCEPT ![a] = label]

\* The response is sent, or an error is.
Finish(a) ==
    /\ Goto(a, "idle")
    /\ task' = [task EXCEPT ![a] = "none"]
    /\ role' = [role EXCEPT ![a] = None]
    /\ seen' = [seen EXCEPT ![a] = 0]
    /\ listed' = [listed EXCEPT ![a] = FALSE]

-----------------------------------------------------------------------------
\* updateRole, setRoleFeatures, deleteRole: findRoleById comes first.
FindRole(a, r, o) ==
    /\ apc[a] = "idle" /\ o \in RoleTasks
    /\ r \in present /\ version[r] < MaxVersion
    /\ Goto(a, CASE o = "updateRole" -> "bump"
                 [] o = "setRoleFeatures" -> "set"
                 [] o = "deleteRole" -> "holders")
    /\ task' = [task EXCEPT ![a] = o]
    /\ role' = [role EXCEPT ![a] = r]
    /\ seen' = [seen EXCEPT ![a] = version[r]]
    /\ UNCHANGED <<now, roleVars, userVars, revokeBefore, listed, tokenVars, unended>>

\* appRepository.setRoleFeatures, one transaction; an error if the role is gone.
SetRoleFeatures(a) ==
    /\ apc[a] = "set"
    /\ \/ /\ role[a] \in present
          /\ \E F \in SUBSET Features : grants' = [grants EXCEPT ![role[a]] = F]
          /\ Goto(a, "bump")
          /\ UNCHANGED <<task, role, seen, listed>>
       \/ role[a] \notin present /\ Finish(a) /\ UNCHANGED grants
    /\ UNCHANGED <<now, present, version, userVars, revokeBefore, tokenVars, unended>>

\* The version read at first plus one, whatever the version is by now.
Bump(a) ==
    /\ apc[a] = "bump"
    /\ \/ /\ role[a] \in present
          /\ version' = [version EXCEPT ![role[a]] = seen[a] + 1]
          /\ Goto(a, "holders")
          /\ UNCHANGED <<task, role, seen, listed, unended>>
       \/ /\ role[a] \notin present /\ Finish(a)
          /\ unended' = unended \cup Outdated
          /\ UNCHANGED version
    /\ UNCHANGED <<now, present, grants, userVars, revokeBefore, tokenVars>>

\* invalidateRoleUsers asks who holds the role now ...
Holders(a) ==
    /\ apc[a] = "holders"
    /\ listed' = [listed EXCEPT ![a] = access = "active" /\ holds = role[a]]
    /\ Goto(a, "signOut")
    /\ UNCHANGED <<now, roleVars, userVars, revokeBefore, task, role, seen, tokenVars,
                   unended>>

\* Mutant: the sign-out carries the second before.
SignOutEarly(a) ==
    /\ apc[a] = "signOut"
    /\ revokeBefore' = IF listed[a] THEN now - 1 ELSE revokeBefore
    /\ IF task[a] = "deleteRole"
       THEN Goto(a, "delete") /\ UNCHANGED <<task, role, seen, listed>>
       ELSE Finish(a)
    /\ UNCHANGED <<now, roleVars, userVars, tokenVars, unended>>

\* ... and invalidateUserSession ends the sessions of those.
SignOut(a) ==
    /\ apc[a] = "signOut"
    /\ revokeBefore' = IF listed[a] THEN now ELSE revokeBefore
    /\ IF task[a] = "deleteRole"
       THEN Goto(a, "delete") /\ UNCHANGED <<task, role, seen, listed>>
       ELSE Finish(a)
    /\ UNCHANGED <<now, roleVars, userVars, tokenVars, unended>>

\* Mutant: the UserApp rows go on naming the role.
DeleteRoleOnly(a) ==
    /\ apc[a] = "delete"
    /\ UNCHANGED <<now, version, userVars, revokeBefore, tokenVars>>
    /\ present' = present \ {role[a]}
    /\ grants' = [grants EXCEPT ![role[a]] = {}]
    /\ Finish(a)
    /\ unended' = unended \cup Outdated'

\* The row goes last; the schema clears it from the UserApp rows.
DeleteRole(a) ==
    /\ apc[a] = "delete"
    /\ UNCHANGED <<now, version, access, rowNo, direct, revokeBefore, tokenVars>>
    /\ present' = present \ {role[a]}
    /\ holds' = IF holds = role[a] THEN None ELSE holds
    /\ grants' = [grants EXCEPT ![role[a]] = {}]
    /\ Finish(a)
    /\ unended' = unended \cup Outdated'

-----------------------------------------------------------------------------
\* assignUserToApp: a new row, for which nobody is signed out.
AssignUserToApp(r) ==
    /\ access = "none" /\ rowNo < MaxRows
    /\ access' = "active" /\ rowNo' = rowNo + 1
    /\ holds' = r
    /\ UNCHANGED <<now, roleVars, direct, revokeBefore, adminVars, tokenVars, unended>>

\* The operations on a UserApp row: findUserApp comes first.
FindUserApp(a, o) ==
    /\ apc[a] = "idle" /\ o \in UserTasks
    /\ access # "none"
    /\ Goto(a, "change")
    /\ task' = [task EXCEPT ![a] = o]
    /\ seen' = [seen EXCEPT ![a] = rowNo]
    /\ listed' = [listed EXCEPT ![a] = TRUE]
    /\ UNCHANGED <<now, roleVars, userVars, revokeBefore, role, tokenVars, unended>>

\* updateUserApp: another role, or none, or (in)active; an error without a row.
UpdateUserApp(a) ==
    /\ apc[a] = "change" /\ task[a] = "updateUserAppAccess"
    /\ UNCHANGED <<now, roleVars, rowNo, direct, revokeBefore, tokenVars, unended>>
    /\ \/ /\ access # "none"
          /\ access' \in {"active", "inactive"}
          /\ holds' \in present \cup {None}
          /\ Goto(a, "signOut")
          /\ UNCHANGED <<task, role, seen, listed>>
       \/ access = "none" /\ Finish(a) /\ UNCHANGED <<access, holds>>

\* deleteUserApp takes the direct features with it.
DeleteUserApp(a) ==
    /\ apc[a] = "change" /\ task[a] = "removeUserFromApp"
    /\ UNCHANGED <<now, roleVars, rowNo, revokeBefore, tokenVars, unended>>
    /\ \/ /\ access # "none"
          /\ access' = "none" /\ holds' = None
          /\ direct' = [f \in Features |-> "none"]
          /\ Goto(a, "signOut")
          /\ UNCHANGED <<task, role, seen, listed>>
       \/ access = "none" /\ Finish(a) /\ UNCHANGED <<access, holds, direct>>

\* setUserDirectFeatures replaces those of the row it found.  If that row is
\* gone, there is nothing to clear, and no row to give new ones to.
SetDirectFeatures(a) ==
    /\ apc[a] = "change" /\ task[a] = "setUserDirectFeatures"
    /\ UNCHANGED <<now, roleVars, access, rowNo, holds, revokeBefore, tokenVars, unended>>
    /\ \/ /\ access # "none" /\ seen[a] = rowNo
          /\ direct' \in [Features -> {"none", "granted", "denied"}]
          /\ Goto(a, "signOut") /\ UNCHANGED <<task, role, seen, listed>>
       \/ /\ access = "none" \/ seen[a] # rowNo
          /\ \/ Finish(a)
             \/ Goto(a, "signOut") /\ UNCHANGED <<task, role, seen, listed>>
          /\ UNCHANGED direct

\* removeFeature: the schema clears it from roles and users.  Nobody is signed
\* out.  (It may be added again under the same key.)
RemoveFeature(f) ==
    /\ UNCHANGED <<now, present, version, access, rowNo, holds, revokeBefore, adminVars,
                   tokenVars>>
    /\ grants' = [r \in Roles |-> grants[r] \ {f}]
    /\ direct' = [direct EXCEPT ![f] = "none"]
    /\ unended' = unended \cup Outdated'

-----------------------------------------------------------------------------
\* issueTokens: the permissions are resolved ...
Resolve(t) ==
    /\ stage[t] = "none"
    /\ stage' = [stage EXCEPT ![t] = "read"]
    /\ copy' = [copy EXCEPT ![t] = IF access = "active" THEN Resolved ELSE NoCopy]
    /\ readAt' = [readAt EXCEPT ![t] = now]
    /\ UNCHANGED <<now, roleVars, userVars, revokeBefore, adminVars, iat, unended>>

\* ... and signed once the queries have returned.
Sign(t) ==
    /\ stage[t] = "read"
    /\ stage' = [stage EXCEPT ![t] = "issued"]
    /\ iat' = [iat EXCEPT ![t] = now]
    /\ UNCHANGED <<now, roleVars, userVars, revokeBefore, adminVars, copy, readAt,
                   unended>>

Tick ==
    /\ now < MaxTime
    /\ now' = now + 1
    /\ UNCHANGED <<roleVars, userVars, revokeBefore, adminVars, tokenVars, unended>>

\* A query fails, or the process restarts.  What has been changed stays so, and
\* the sign-out or the new version it was to bring does not come.
Fail(a) ==
    /\ RequestsMayFail
    /\ apc[a] # "idle"
    /\ IF apc[a] \in {"bump", "holders", "signOut"} /\ task[a] # "deleteRole"
       THEN unended' = unended \cup Outdated ELSE UNCHANGED unended
    /\ Finish(a)
    /\ UNCHANGED <<now, roleVars, userVars, revokeBefore, tokenVars>>

Continue(a) ==
    \/ SetRoleFeatures(a) \/ Bump(a) \/ Holders(a) \/ SignOut(a) \/ DeleteRole(a)
    \/ UpdateUserApp(a) \/ DeleteUserApp(a) \/ SetDirectFeatures(a)

Next ==
    \/ \E a \in Admins :
          \/ \E r \in Roles, o \in RoleTasks : FindRole(a, r, o)
          \/ \E o \in UserTasks : FindUserApp(a, o)
          \/ Continue(a) \/ Fail(a)
    \/ \E r \in present \cup {None} : AssignUserToApp(r)
    \/ \E f \in Features : RemoveFeature(f)
    \/ \E t \in Tokens : Resolve(t) \/ Sign(t)
    \/ Tick

Spec == Init /\ [][Next]_vars

-----------------------------------------------------------------------------
Quiet == \A a \in Admins : apc[a] = "idle"

\* Once no change is under way, a token that still grants what the user has
\* lost was resolved before the last sign-out and signed after it, whichever
\* changes of roles, access and direct features overlapped.  The exceptions are
\* the changes that end no session: removing a feature, deleting a role (whose
\* sign-out comes first), and a change that failed before its sign-out.
OutdatedOnlyInFlight ==
    Quiet => \A t \in Outdated \ unended : Accepted(t) => readAt[t] <= revokeBefore

=============================================================================
