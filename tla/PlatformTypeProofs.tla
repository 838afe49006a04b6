------------------------- MODULE PlatformTypeProofs -------------------------
(***************************************************************************)
(* The types of PlatformParts, part by part, for any values of the         *)
(* constants.  Those of the plan limits, of the members and of the secrets *)
(* follow from what PlanQuotaProofs and OrganizationProofs have proved;    *)
(* each of the others is an invariant by itself.                           *)
(***************************************************************************)
EXTENDS PlanQuotaProofs, PlatformProofs, OrganizationProofs

\* Sync requests.
LEMMA SyncTypes == FS!TypeOK /\ (FS!Next \/ UNCHANGED syncVars) => FS!TypeOK'
<1> SUFFICES ASSUME FS!TypeOK, FS!Next \/ UNCHANGED syncVars PROVE FS!TypeOK'
  OBVIOUS
<1> USE DEF FS!TypeOK, FS!Goto, FS!Finish, FS!appVars, FS!syncVars, FS!handlerVars, FS!history
<1>1. ASSUME NEW h \in Handlers, NEW ks \in SUBSET Keys, FS!FindActiveApp(h, ks)
      PROVE  FS!TypeOK'
  BY <1>1 DEF FS!FindActiveApp
<1>2. ASSUME NEW h \in Handlers, NEW r \in Syncs, NEW label \in {"upsert", "reject"},
             FS!FindPending(h, r, label)
      PROVE  FS!TypeOK'
  BY <1>2 DEF FS!FindPending
<1>3. ASSUME NEW h \in Handlers, FS!CreateSyncRequest(h) PROVE FS!TypeOK'
  <2>1. PICK r \in Syncs : /\ status[r] = "unused"
                           /\ status' = [status EXCEPT ![r] = "pending"]
                           /\ features' = [features EXCEPT ![r] = todo[h]]
    BY <1>3 DEF FS!CreateSyncRequest
  <2>2. /\ syncPc' = [syncPc EXCEPT ![h] = "idle"] /\ sync' = [sync EXCEPT ![h] = {}]
        /\ todo' = [todo EXCEPT ![h] = {}]
        /\ UNCHANGED <<appActive, catalogue, origin, decisions, removed, torn>>
    BY <1>3 DEF FS!CreateSyncRequest
  <2>3. ASSUME NEW g \in Handlers, NEW q \in Syncs, q \in sync'[g]
        PROVE  /\ syncPc'[g] \in {"upsert", "reject"}
               /\ status'[q] # "unused" /\ todo'[g] \subseteq features'[q]
    <3>1. g # h /\ q \in sync[g]
      BY <2>2, <2>3
    <3>2. q # r
      BY <2>1, <3>1
    <3> QED BY <2>1, <2>2, <3>1, <3>2
  <2>4. status' \in [Syncs -> {"unused", "pending", "approved", "rejected"}]
        /\ features' \in [Syncs -> SUBSET Keys]
    BY <2>1
  <2>5. /\ syncPc' \in [Handlers -> {"idle", "submit", "upsert", "reject"}]
        /\ sync' \in [Handlers -> SUBSET Syncs] /\ todo' \in [Handlers -> SUBSET Keys]
    BY <2>2
  <2>6. /\ appActive' \in BOOLEAN /\ catalogue' \in SUBSET Keys
        /\ origin' \in [Keys -> SUBSET Syncs] /\ decisions' \in [Syncs -> Nat]
        /\ removed' \in [Syncs -> SUBSET Keys] /\ torn' \in SUBSET Syncs
    BY <2>2
  <2> QED BY ONLY <2>3, <2>4, <2>5, <2>6 DEF FS!TypeOK
<1>4. ASSUME NEW h \in Handlers, FS!UpsertFeature(h) PROVE FS!TypeOK'
  BY <1>4 DEF FS!UpsertFeature
<1>5. ASSUME NEW h \in Handlers, FS!Approve(h) \/ FS!Reject(h) PROVE FS!TypeOK'
  <2>1. decisions' \in [Syncs -> Nat]
    BY <1>5 DEF FS!Approve, FS!Reject, FS!Decide
  <2>2. status' \in [Syncs -> {"unused", "pending", "approved", "rejected"}]
        /\ \A r \in Syncs : status[r] # "unused" => status'[r] # "unused"
    BY <1>5 DEF FS!Approve, FS!Reject, FS!Decide
  <2> QED BY <1>5, <2>1, <2>2 DEF FS!Approve, FS!Reject, FS!Decide
<1>6. ASSUME NEW h \in Handlers, FS!Fail(h) PROVE FS!TypeOK'
  BY <1>6 DEF FS!Fail
<1>7. ASSUME NEW k \in Keys, FS!AddFeature(k) \/ FS!UpdateFeature(k) \/ FS!RemoveFeature(k)
      PROVE  FS!TypeOK'
  BY <1>7 DEF FS!AddFeature, FS!UpdateFeature, FS!RemoveFeature
<1>8. ASSUME NEW on \in BOOLEAN, FS!SetAppActive(on) PROVE FS!TypeOK'
  BY <1>8 DEF FS!SetAppActive
<1>9. CASE UNCHANGED syncVars BY <1>9 DEF syncVars
<1> QED
  BY <1>1, <1>2, <1>3, <1>4, <1>5, <1>6, <1>7, <1>8, <1>9 DEF FS!Next, FS!Continue

\* Authorization codes.
LEMMA CodeTypes == OC!TypeOK /\ (OC!Next \/ UNCHANGED codeVars) => OC!TypeOK'
<1> SUFFICES ASSUME OC!TypeOK, OC!Next \/ UNCHANGED codeVars PROVE OC!TypeOK'
  OBVIOUS
<1> USE DEF OC!TypeOK, OC!Goto, OC!Finish, OC!appVars, OC!codeVars, OC!requestVars
<1>1. ASSUME NEW p \in Handlers, NEW u \in Uris, OC!FindClient(p, u) \/ OC!Authenticate(p, u)
      PROVE  OC!TypeOK'
  BY <1>1 DEF OC!FindClient, OC!Authenticate
<1>2. ASSUME NEW p \in Handlers, OC!FindUser(p) \/ OC!Fail(p) PROVE OC!TypeOK'
  <2>1. CASE OC!FindUser(p)
    BY <2>1 DEF OC!FindUser
  <2>2. CASE OC!Fail(p)
    BY <2>2 DEF OC!Fail
  <2> QED BY <1>2, <2>1, <2>2
<1>3. ASSUME NEW p \in Handlers, OC!CreateAuthCode(p) PROVE OC!TypeOK'
  BY <1>3 DEF OC!CreateAuthCode
<1>4. ASSUME NEW p \in Handlers, NEW c \in Codes, OC!FindAuthCode(p, c) PROVE OC!TypeOK'
  <2>1. CASE OC!Acceptable(c, uri[p])
    BY <1>4, <2>1 DEF OC!FindAuthCode, OC!Acceptable
  <2>2. CASE ~OC!Acceptable(c, uri[p])
    BY <1>4, <2>2 DEF OC!FindAuthCode
  <2> QED BY <2>1, <2>2
<1>5. ASSUME NEW p \in Handlers, OC!MarkAuthCodeUsed(p) PROVE OC!TypeOK'
  BY <1>5 DEF OC!MarkAuthCodeUsed
<1>6. ASSUME NEW p \in Handlers, OC!Grant(p) PROVE OC!TypeOK'
  <2>1. granted' \in [Codes -> Nat]
    BY <1>6 DEF OC!Grant
  <2> QED BY <1>6, <2>1 DEF OC!Grant
<1>7. ASSUME NEW us \in SUBSET Uris, OC!UpdateApp(us) PROVE OC!TypeOK'
  BY <1>7 DEF OC!UpdateApp
<1>8. CASE OC!DeleteApp BY <1>8 DEF OC!DeleteApp
<1>9. ASSUME NEW state \in {"active", "inactive", "deleted"}, OC!SetUser(state)
      PROVE  OC!TypeOK'
  BY <1>9 DEF OC!SetUser
<1>10. ASSUME NEW c \in Codes, OC!Expire(c) PROVE OC!TypeOK'
  BY <1>10 DEF OC!Expire
<1>11. CASE UNCHANGED codeVars BY <1>11 DEF codeVars
<1> QED
  BY <1>1, <1>2, <1>3, <1>4, <1>5, <1>6, <1>7, <1>8, <1>9, <1>10, <1>11
  DEF OC!Next, OC!Continue

\* Users of an organization: the unique email leaves room for one row at most.
LEMMA UserTypes == OU!TypeOK /\ (OU!Next \/ UNCHANGED usersVars) => OU!TypeOK'
<1> SUFFICES ASSUME OU!TypeOK, OU!Next \/ UNCHANGED usersVars PROVE OU!TypeOK'
  OBVIOUS
<1> USE DEF OU!TypeOK, OU!Goto, OU!Finish, OU!rowVars, OU!requestVars, OU!Present
<1>1. ASSUME NEW p \in Handlers, OU!FindInOrg(p) \/ OU!FindToLogin(p) \/ OU!Compare(p)
      PROVE  OU!TypeOK'
  BY <1>1 DEF OU!FindInOrg, OU!FindToLogin, OU!Compare
<1>2. ASSUME NEW p \in Handlers, OU!Create(p) PROVE OU!TypeOK'
  BY <1>2 DEF OU!Create, OU!NewRow
<1>3. ASSUME NEW p \in Handlers, OU!Activate(p) PROVE OU!TypeOK'
  <2>1. answered' \in [Accounts -> Nat]
    BY <1>3 DEF OU!Activate
  <2> QED BY <1>3, <2>1 DEF OU!Activate
<1>4. ASSUME NEW p \in Handlers, OU!Fail(p) PROVE OU!TypeOK'
  BY <1>4 DEF OU!Fail
<1>5. ASSUME NEW i \in Accounts, OU!RegisterElsewhere(i) PROVE OU!TypeOK'
  BY <1>5 DEF OU!RegisterElsewhere, OU!NewRow
<1>6. ASSUME NEW i \in Accounts, OU!Verify(i) \/ OU!Delete(i) PROVE OU!TypeOK'
  BY <1>6 DEF OU!Verify, OU!Delete
<1>7. ASSUME NEW i \in Accounts, NEW on \in BOOLEAN, OU!SetActive(i, on) PROVE OU!TypeOK'
  BY <1>7 DEF OU!SetActive
<1>8. CASE UNCHANGED usersVars BY <1>8 DEF usersVars
<1> QED
  BY <1>1, <1>2, <1>3, <1>4, <1>5, <1>6, <1>7, <1>8 DEF OU!Next, OU!Continue

\* The process, given how its server, its workers and its shutdowns stand.
LEMMA ProcessTypes ==
    ProcessInv /\ ProcessInv' /\ LC!TypeOK /\ (LC!Next \/ UNCHANGED processVars) => LC!TypeOK'
<1> SUFFICES ASSUME ProcessInv, ProcessInv', LC!TypeOK, LC!Next \/ UNCHANGED processVars
             PROVE  LC!TypeOK'
  OBVIOUS
<1>1. /\ http' \in {"none", "listening", "closing", "closed"}
      /\ serving' \in SUBSET Clients
      /\ db' \in BOOLEAN /\ redis' \in BOOLEAN /\ refused' \in BOOLEAN
      /\ cut' \in SUBSET (Clients \cup LC!Workers)
  <2> USE DEF LC!TypeOK, LC!workerVars, LC!stores, LC!shutVars, LC!Exit
  <2>1. CASE LC!ConnectDatabase \/ LC!ConnectRedis \/ LC!Die \/ LC!Restart
    BY <2>1 DEF LC!ConnectDatabase, LC!ConnectRedis, LC!Die, LC!Restart
  <2>2. CASE LC!ServerClosed \/ LC!ForceExit
    BY <2>2 DEF LC!ServerClosed, LC!ForceExit
  <2>3. ASSUME NEW r \in Clients, LC!Arrive(r) \/ LC!Respond(r)
        PROVE  UNCHANGED <<http, LC!stores, refused, cut>> /\ serving' \in SUBSET Clients
    BY <2>3 DEF LC!Arrive, LC!Respond
  <2>4. ASSUME NEW w \in LC!Workers, LC!TakeJobs(w) \/ LC!FinishJobs(w)
        PROVE  UNCHANGED <<http, LC!stores, refused, cut, serving>>
    BY <2>4 DEF LC!TakeJobs, LC!FinishJobs
  <2>5. ASSUME NEW s \in Signals,
               LC!Signal(s) \/ LC!CloseWorker(s) \/ LC!WorkerClosed(s) \/ LC!CloseFails(s)
                  \/ LC!DisconnectDatabase(s) \/ LC!DisconnectRedis(s) \/ LC!ExitCleanly(s)
        PROVE  /\ http' \in {"none", "listening", "closing", "closed"}
               /\ serving' \in SUBSET Clients
               /\ db' \in BOOLEAN /\ redis' \in BOOLEAN /\ refused' \in BOOLEAN
               /\ cut' \in SUBSET (Clients \cup LC!Workers)
    BY <2>5 DEF LC!Signal, LC!CloseWorker, LC!WorkerClosed, LC!CloseFails,
       LC!DisconnectDatabase, LC!DisconnectRedis, LC!ExitCleanly
  <2>6. CASE UNCHANGED processVars BY <2>6 DEF processVars
  <2> QED BY <2>1, <2>2, <2>3, <2>4, <2>5, <2>6 DEF LC!Next
<1>2. /\ phase' \in {"database", "redis", "up", "exit0", "exit1"}
      /\ worker' \in [LC!Workers -> {"none", "running", "closing", "closed"}]
      /\ busy' \in SUBSET LC!Workers
      /\ shut' \in [Signals -> {"none", "deaf", "waiting", "closing"}]
      /\ closing' \in [Signals -> LC!Workers \cup {"end"}]
      /\ phase' \in {"database", "redis"} => http' = "none" /\ busy' = {}
  BY DEF ProcessInv, LC!Workers
<1> QED BY <1>1, <1>2 DEF LC!TypeOK

\* The audit log: nobody's entry outlives him as his own, and ages stop one
\* past the longest retention.
LEMMA AuditTypes == AR!TypeOK /\ (AR!Next \/ UNCHANGED auditVars) => AR!TypeOK'
<1> SUFFICES ASSUME AR!TypeOK, AR!Next \/ UNCHANGED auditVars PROVE AR!TypeOK'
  OBVIOUS
<1>p. Plans \subseteq Nat /\ Plans # {} /\ MaxDisturbances \in Nat /\ AR!Longest \in Nat
  BY AuditConstants, LongestIs DEF AR!RetentionAssumption
<1> USE DEF AR!TypeOK, AR!userVars, AR!logVars, AR!runVars, AR!NextPlan
<1>1. CASE AR!FindUsers
  BY <1>1 DEF AR!FindUsers
<1>2. ASSUME NEW ls, AR!Purge(ls)
      PROVE  /\ log' \in [Logs -> {"unwritten", "kept", "purged"}]
             /\ owner' \in [Logs -> SUBSET Users]
             /\ \A l \in Logs : owner'[l] \subseteq exists
             /\ age' \in [Logs -> 0..(AR!Longest + 1)]
  BY <1>2, <1>p DEF AR!Purge
<1>3. CASE AR!DeleteLogs
  <2> DEFINE ls == {l \in AR!PastCutoff(AR!Min(plansLeft)) : owner[l] \cap found # {}}
  <2>1. /\ AR!Purge(ls)
        /\ purgePc' = "users" /\ plansLeft' = plansLeft \ {AR!Min(plansLeft)} /\ found' = {}
        /\ UNCHANGED <<exists, plan, least, disturbed>>
    BY <1>3 DEF AR!DeleteLogs
  <2> HIDE DEF ls
  <2> QED BY <1>2, <2>1
<1>3a. CASE AR!DeleteOrphans
  <2> DEFINE ls == {l \in AR!PastCutoff(AR!Longest) : owner[l] = {}}
  <2>1. /\ AR!Purge(ls)
        /\ purgePc' = "idle" /\ UNCHANGED <<exists, plan, plansLeft, found, least, disturbed>>
    BY <1>3a DEF AR!DeleteOrphans
  <2> HIDE DEF ls
  <2> QED BY <1>2, <2>1
<1>4. CASE AR!QueryFails
  <2>1. /\ disturbed < MaxDisturbances /\ disturbed' = disturbed + 1
        /\ UNCHANGED <<exists, plan, log, owner, age, least>>
    BY <1>4 DEF AR!QueryFails, AR!Disturb
  <2>2. disturbed' \in 0..MaxDisturbances
    BY <2>1, <1>p
  <2>3. \/ purgePc' = "idle" /\ UNCHANGED <<plansLeft, found>>
        \/ purgePc' = "users" /\ plansLeft' = plansLeft \ {AR!Min(plansLeft)} /\ found' = {}
    BY <1>4 DEF AR!QueryFails
  <2> QED BY <2>1, <2>2, <2>3
<1>5. CASE AR!Restart
  BY <1>5, <1>p DEF AR!Restart, AR!Disturb
<1>6. CASE AR!Tick
  <2>1. ASSUME NEW l \in Logs
        PROVE  AR!Min({age[l] + 1, AR!Longest + 1}) \in 0..(AR!Longest + 1)
    <3>1. /\ age[l] + 1 \in Int /\ AR!Longest + 1 \in Int
          /\ age[l] + 1 >= 0 /\ AR!Longest + 1 >= 0
      BY <1>p
    <3>2. /\ AR!Min({age[l] + 1, AR!Longest + 1}) \in {age[l] + 1, AR!Longest + 1}
          /\ AR!Min({age[l] + 1, AR!Longest + 1}) <= AR!Longest + 1
      BY ONLY <3>1, LesserOfTwo
    <3> QED BY <3>1, <3>2
  <2>2. age' \in [Logs -> 0..(AR!Longest + 1)]
    BY <1>6, <1>p, <2>1 DEF AR!Tick
  <2> QED BY <1>6, <2>2 DEF AR!Tick
<1>7. ASSUME NEW u \in Users, NEW days \in Plans, AR!SetPlan(u, days) PROVE AR!TypeOK'
  <2>p. least[u] \in Plans
    OBVIOUS
  <2>1. least[u] \in Int /\ days \in Int
    <3> HIDE DEF AR!TypeOK
    <3>1. least[u] \in Nat /\ days \in Nat
      BY <2>p, <1>p
    <3> QED BY <3>1
  <2>2. AR!Min({least[u], days}) \in {least[u], days}
    BY ONLY <2>1, LesserOfTwo
  <2>3. AR!Min({least[u], days}) \in Plans
    BY <2>p, <2>2
  <2>4. /\ disturbed < MaxDisturbances /\ disturbed' = disturbed + 1
        /\ plan' = [plan EXCEPT ![u] = days]
        /\ least' = [least EXCEPT ![u] = AR!Min({least[u], days})]
        /\ UNCHANGED <<exists, log, owner, age, purgePc, plansLeft, found>>
    BY <1>7 DEF AR!SetPlan, AR!Disturb
  <2>5. disturbed' \in 0..MaxDisturbances
    BY <2>4, <1>p
  <2>6. plan' \in [Users -> Plans] /\ least' \in [Users -> Plans]
    BY <2>3, <2>4
  <2> QED BY <2>4, <2>5, <2>6
<1>8. ASSUME NEW u \in Users, AR!DeleteUser(u) PROVE AR!TypeOK'
  BY <1>8 DEF AR!DeleteUser
<1>9. ASSUME NEW l \in Logs, NEW us, AR!Log(l, us) PROVE AR!TypeOK'
  BY <1>9 DEF AR!Log
<1>10. CASE UNCHANGED auditVars
  BY <1>10 DEF auditVars
<1> QED
  BY <1>1, <1>3, <1>3a, <1>4, <1>5, <1>6, <1>7, <1>8, <1>9, <1>10 DEF AR!Next, AR!Cleanup

\* Notifications: subscriptions and unread notifications are of administrators
\* who are there.
LEMMA NoticeTypes == NO!TypeOK /\ (NO!Next \/ UNCHANGED noticeVars) => NO!TypeOK'
<1> SUFFICES ASSUME NO!TypeOK, NO!Next \/ UNCHANGED noticeVars PROVE NO!TypeOK'
  OBVIOUS
<1> USE DEF NO!TypeOK, NO!callVars
<1>1. ASSUME NEW d \in Notices, NEW names \in [Admins -> Nat], NO!Address(d, names),
             dispatched' \in SUBSET Notices
      PROVE  NO!TypeOK'
  BY <1>1 DEF NO!Address
<1>2. ASSUME NEW d \in Notices, NO!FindSubscribedAdminIds(d) PROVE NO!TypeOK'
  <2> DEFINE names == [a \in Admins |-> IF \E s \in NO!Scopes : <<a, s>> \in subs THEN 1 ELSE 0]
  <2>1. names \in [Admins -> Nat]
    OBVIOUS
  <2>2. NO!Address(d, names) /\ dispatched' = dispatched \cup {d}
    BY <1>2 DEF NO!FindSubscribedAdminIds
  <2> HIDE DEF names
  <2>3. dispatched' \in SUBSET Notices
    BY <2>2
  <2> QED BY <1>1, <2>1, <2>2, <2>3
<1>3. ASSUME NEW d \in Notices, NEW names \in [Admins -> 0..MaxRepeat], NO!SendDirect(d, names)
      PROVE  NO!TypeOK'
  <2>1. names \in [Admins -> Nat]
    BY NoticeConstants DEF NO!NotificationsAssumption
  <2>2. NO!Address(d, names) /\ dispatched' \in SUBSET Notices
    BY <1>3 DEF NO!SendDirect
  <2> QED BY <1>1, <2>1, <2>2
<1>4. ASSUME NEW d \in Notices, NO!CreateMany(d) PROVE NO!TypeOK'
  <2> DEFINE named == {a \in Admins : addressed[d][a] > 0}
  <2>1. CASE \A a \in Admins : addressed[d][a] > 0 => a \in admins
    <3>1. /\ call' = [call EXCEPT ![d] = "mail"]
          /\ rows' = [rows EXCEPT ![d] = addressed[d]]
          /\ toMail' = [toMail EXCEPT ![d] = addressed[d]]
          /\ unread' = [unread EXCEPT ![d] = named]
          /\ UNCHANGED <<admins, subs, dispatched, addressed, mails, failed, overtaken, want>>
      BY <1>4, <2>1 DEF NO!CreateMany
    <3>2. addressed[d] \in [Admins -> Nat]
      OBVIOUS
    <3>3. /\ call' \in [Notices -> {"new", "create", "mail", "done", "lost"}]
          /\ rows' \in [Notices -> [Admins -> Nat]]
          /\ toMail' \in [Notices -> [Admins -> Nat]]
      BY <3>1, <3>2
    <3>4. named \subseteq admins
      BY <2>1
    <3>5. unread' \in [Notices -> SUBSET admins]
      BY <3>1, <3>4
    <3>6. ASSUME NEW c \in Notices PROVE unread'[c] \subseteq {a \in Admins : rows'[c][a] > 0}
      <4>1. CASE c = d BY <4>1, <3>1
      <4>2. CASE c # d
        <5>1. unread'[c] = unread[c] /\ rows'[c] = rows[c]
          BY <4>2, <3>1
        <5> QED BY <5>1
      <4> QED BY <4>1, <4>2
    <3> QED BY <3>1, <3>3, <3>5, <3>6
  <2>2. CASE ~ \A a \in Admins : addressed[d][a] > 0 => a \in admins
    <3>1. /\ call' = [call EXCEPT ![d] = "lost"]
          /\ UNCHANGED <<rows, toMail, unread, admins, subs, dispatched, addressed, mails,
                         failed, overtaken, want>>
      BY <1>4, <2>2 DEF NO!CreateMany
    <3> QED BY <3>1
  <2> QED BY <2>1, <2>2
<1>m. ASSUME NEW d \in Notices, NEW a \in Admins, toMail[d][a] > 0,
             toMail' = [toMail EXCEPT ![d][a] = @ - 1],
             call' = [call EXCEPT ![d] = IF toMail'[d] = NO!Nobody THEN "done" ELSE "mail"]
      PROVE  /\ toMail' \in [Notices -> [Admins -> Nat]]
             /\ call' \in [Notices -> {"new", "create", "mail", "done", "lost"}]
  <2>1. toMail[d] \in [Admins -> Nat] /\ toMail[d][a] \in Nat
    OBVIOUS
  <2>2. toMail[d][a] - 1 \in Nat
    BY <2>1, <1>m
  <2>3. [toMail[d] EXCEPT ![a] = toMail[d][a] - 1] \in [Admins -> Nat]
    BY <2>1, <2>2
  <2>4. toMail' = [toMail EXCEPT ![d] = [toMail[d] EXCEPT ![a] = toMail[d][a] - 1]]
    BY <1>m
  <2> QED BY <2>3, <2>4, <1>m
<1>5. ASSUME NEW d \in Notices, NEW a \in Admins, NO!SendEmailToAdmin(d, a) PROVE NO!TypeOK'
  <2>1. /\ toMail[d][a] > 0
        /\ toMail' = [toMail EXCEPT ![d][a] = @ - 1]
        /\ mails' = [mails EXCEPT ![d][a] = @ + IF a \in admins THEN 1 ELSE 0]
        /\ call' = [call EXCEPT ![d] = IF toMail'[d] = NO!Nobody THEN "done" ELSE "mail"]
        /\ UNCHANGED <<admins, subs, dispatched, addressed, rows, unread, failed, overtaken, want>>
    BY <1>5 DEF NO!SendEmailToAdmin
  <2> DEFINE sent == mails[d][a] + IF a \in admins THEN 1 ELSE 0
  <2>2. mails[d] \in [Admins -> Nat] /\ mails[d][a] \in Nat
    OBVIOUS
  <2>3. sent \in Nat
    BY <2>2
  <2>4. mails' = [mails EXCEPT ![d] = [mails[d] EXCEPT ![a] = sent]]
    BY <2>1
  <2> HIDE DEF sent
  <2>5. [mails[d] EXCEPT ![a] = sent] \in [Admins -> Nat]
    BY <2>2, <2>3
  <2>6. mails' \in [Notices -> [Admins -> Nat]]
    BY <2>4, <2>5
  <2> QED BY <1>m, <2>1, <2>6
<1>6. ASSUME NEW d \in Notices, NO!QueryFails(d) PROVE NO!TypeOK'
  <2>1. /\ failed' = failed \cup {d}
        /\ UNCHANGED <<admins, subs, dispatched, addressed, rows, unread, mails, overtaken, want>>
    BY <1>6 DEF NO!QueryFails
  <2>2. CASE call' = [call EXCEPT ![d] = "lost"] /\ UNCHANGED toMail
    BY <2>1, <2>2
  <2>3. ASSUME NEW a \in Admins, toMail[d][a] > 0,
               toMail' = [toMail EXCEPT ![d][a] = @ - 1],
               call' = [call EXCEPT ![d] = IF toMail'[d] = NO!Nobody THEN "done" ELSE "mail"]
        PROVE  NO!TypeOK'
    BY <1>m, <2>1, <2>3
  <2>4. \/ call' = [call EXCEPT ![d] = "lost"] /\ UNCHANGED toMail
        \/ \E a \in Admins :
              /\ toMail[d][a] > 0
              /\ toMail' = [toMail EXCEPT ![d][a] = @ - 1]
              /\ call' = [call EXCEPT ![d] = IF toMail'[d] = NO!Nobody THEN "done" ELSE "mail"]
    <3> HIDE DEF NO!TypeOK
    <3> QED BY <1>6 DEF NO!QueryFails
  <2> HIDE DEF NO!TypeOK
  <2> QED BY <2>2, <2>3, <2>4
<1>7. ASSUME NEW p \in {"subscribe"}, NEW as \in SUBSET Admins, NEW s \in NO!Scopes,
             NO!FindMissing(p, as, s)
      PROVE  NO!TypeOK'
  <2>1. /\ want' = [want EXCEPT ![p] = {<<a, s>> : a \in as} \ subs]
        /\ UNCHANGED <<admins, subs, call, dispatched, addressed, toMail, rows, unread, mails,
                       failed, overtaken>>
    BY <1>7 DEF NO!FindMissing
  <2>2. {<<a, s>> : a \in as} \ subs \subseteq Admins \X NO!Scopes
    <3> HIDE DEF NO!TypeOK
    <3>1. \A a \in as : <<a, s>> \in Admins \X NO!Scopes
      BY ZenonT(30)
    <3> QED BY ONLY <3>1
  <2>3. want' \in [{"subscribe"} -> SUBSET (Admins \X NO!Scopes)]
    BY <2>1, <2>2
  <2> QED BY <2>1, <2>3
<1>8. ASSUME NEW p \in {"subscribe"}, NO!InsertSubs(p) PROVE NO!TypeOK'
  BY <1>8 DEF NO!InsertSubs
<1>9. ASSUME NEW a \in Admins, NEW ds \in SUBSET Notices, NO!MarkRead(a, ds) PROVE NO!TypeOK'
  BY <1>9 DEF NO!MarkRead
<1>10. ASSUME NEW a \in Admins, NEW s \in NO!Scopes, NO!DeleteSub(a, s) PROVE NO!TypeOK'
  BY <1>10 DEF NO!DeleteSub
<1>11. ASSUME NEW a \in Admins, NO!DeleteAdmin(a) PROVE NO!TypeOK'
  BY <1>11 DEF NO!DeleteAdmin
<1>12. CASE UNCHANGED noticeVars
  BY <1>12 DEF noticeVars
<1> QED
  BY <1>2, <1>3, <1>4, <1>5, <1>6, <1>7, <1>8, <1>9, <1>10, <1>11, <1>12 DEF NO!Next

-----------------------------------------------------------------------------
\* Of the members and the secrets the invariants of OrganizationProofs say all
\* but what a secret is for.
PlatformTypes ==
    /\ TypeOK /\ FS!TypeOK /\ OC!TypeOK /\ OU!TypeOK /\ AR!TypeOK /\ NO!TypeOK /\ LC!TypeOK
    /\ keyKind \in {"key", "secret"}

LEMMA PlatformTypesInit == PlatformInit => PlatformTypes
<1> SUFFICES ASSUME PlatformInit PROVE PlatformTypes
  OBVIOUS
<1>1. TypeOK
  BY QuotaInit DEF PlatformInit
<1>2. FS!TypeOK
  BY DEF PlatformInit, FS!Init, FS!TypeOK
<1>3. OC!TypeOK
  BY DEF PlatformInit, OC!Init, OC!TypeOK
<1>4. OU!TypeOK
  BY DEF PlatformInit, OU!Init, OU!TypeOK, OU!Present
<1>5. AR!TypeOK
  BY AuditConstants, LongestIs DEF PlatformInit, AR!Init, AR!TypeOK, AR!RetentionAssumption
<1>6. NO!TypeOK
  BY DEF PlatformInit, NO!Init, NO!TypeOK, NO!Nobody
<1>7. LC!TypeOK
  BY DEF PlatformInit, LC!Init, LC!Start, LC!TypeOK, LC!Workers
<1>8. keyKind \in {"key", "secret"}
  BY DEF PlatformInit, CR!Init
<1> QED BY <1>1, <1>2, <1>3, <1>4, <1>5, <1>6, <1>7, <1>8 DEF PlatformTypes

LEMMA PlatformTypesStep ==
    /\ ProcessInv /\ ProcessInv' /\ PlatformTypes /\ [PlatformNext]_platformVars
    => PlatformTypes'
<1> SUFFICES ASSUME ProcessInv, ProcessInv', PlatformTypes, [PlatformNext]_platformVars
             PROVE  PlatformTypes'
  OBVIOUS
<1>1. /\ Next \/ UNCHANGED vars
      /\ FS!Next \/ UNCHANGED syncVars
      /\ OC!Next \/ UNCHANGED codeVars
      /\ OU!Next \/ UNCHANGED usersVars
      /\ CR!Next \/ UNCHANGED keyVars
      /\ AR!Next \/ UNCHANGED auditVars
      /\ NO!Next \/ UNCHANGED noticeVars
      /\ LC!Next \/ UNCHANGED processVars
  BY DEF PlatformNext, platformVars
<1>2. TypeOK' /\ FS!TypeOK' /\ OC!TypeOK' /\ OU!TypeOK' /\ AR!TypeOK' /\ NO!TypeOK' /\ LC!TypeOK'
  BY <1>1, TypeStep, SyncTypes, CodeTypes, UserTypes, AuditTypes, NoticeTypes, ProcessTypes
  DEF PlatformTypes
<1>3. keyKind' = keyKind
  BY <1>1
  DEF CR!Next, keyVars, CR!rowVars, CR!SetRow, CR!AuthenticateKey, CR!AuthenticateSecret,
      CR!FindOwner, CR!Act, CR!CreateKey, CR!UpdateKey, CR!RevokeKey, CR!ExpireKey,
      CR!RegenerateSecret, CR!SetActive, CR!Tick
<1> QED BY <1>2, <1>3 DEF PlatformTypes

\* The variables of every part keep their types, and what is counted keeps its
\* bounds, for any number of handlers, users, codes, tokens, logs and calls.
THEOREM PlatformTypeCorrect == PlatformSpec => []PlatformTypeOK
<1>1. PlatformTypes /\ MembersInv /\ KeysInv => PlatformTypeOK
  <2> SUFFICES ASSUME PlatformTypes, MembersInv, KeysInv PROVE PlatformTypeOK
    OBVIOUS
  <2>1. OA!TypeOK
    BY DEF MembersInv, OA!TypeOK
  <2>2. CR!TypeOK
    BY DEF PlatformTypes, KeysInv, CR!TypeOK, CR!Valid
  <2> QED BY <2>1, <2>2 DEF PlatformTypes, PlatformTypeOK
<1> QED
  BY <1>1, PlatformTypesInit, PlatformTypesStep, ProcessInvariant, MembersInvariant,
     KeysInvariant, PTL DEF PlatformSpec

=============================================================================
