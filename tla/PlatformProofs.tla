--------------------------- MODULE PlatformProofs ---------------------------
(***************************************************************************)
(* Theorems about the parts of PlatformParts, for any number of handlers,  *)
(* sync requests, codes, accounts, clients and signals.  For each part: an *)
(* invariant that says what its steps rely on, a lemma that they keep it,  *)
(* and the theorems that follow.  A step of the platform is a step of one  *)
(* part or leaves that part alone.                                         *)
(***************************************************************************)
EXTENDS PlatformParts, FiniteSetTheorems, TLAPS

-----------------------------------------------------------------------------
\* The process.  Requests are served by an open server only, which has its
\* stores, and no callback runs before it has closed; closeQueues leaves no
\* worker behind that has jobs, unless one fails to close.
Past(s) == IF closing[s] = "end" THEN {"email", "webhook"}
           ELSE IF closing[s] = "webhook" THEN {"email"} ELSE {}

ProcessInv ==
    /\ phase \in {"database", "redis", "up", "exit0", "exit1"}
    /\ worker \in [{"email", "webhook"} -> {"none", "running", "closing", "closed"}]
    /\ busy \in SUBSET {"email", "webhook"}
    /\ shut \in [Signals -> {"none", "deaf", "waiting", "closing"}]
    /\ closing \in [Signals -> {"email", "webhook", "end"}]
    /\ phase # "up" => http = "none"
    /\ serving # {} => http \in {"listening", "closing"}
    /\ phase = "redis" => db = TRUE
    /\ http \in {"listening", "closing"} => db = TRUE /\ redis = TRUE
    /\ \A s \in Signals :
          /\ shut[s] = "closing" => http \in {"closed", "none"}
          /\ phase \in {"database", "redis"} => shut[s] # "closing" /\ closing[s] = "email"
    /\ phase # "up" => busy = {}
    /\ \A w \in busy : worker[w] \in {"running", "closing"}
    /\ ~refused => \A s \in Signals : \A w \in Past(s) : worker[w] \in {"none", "closed"}
    /\ phase = "exit0" /\ ~refused => cut = {}

LEMMA ProcessInit == LC!Init => ProcessInv
BY DEF LC!Init, LC!Start, LC!Workers, ProcessInv, Past

LEMMA ProcessStep == ProcessInv /\ [LC!Next]_processVars => ProcessInv'
<1> SUFFICES ASSUME ProcessInv, [LC!Next]_processVars PROVE ProcessInv'
  OBVIOUS
<1> USE DEF ProcessInv, Past, LC!Workers, LC!workerVars, LC!stores, LC!shutVars, LC!Shutting,
            LC!Running
<1>1. CASE LC!ConnectDatabase BY <1>1 DEF LC!ConnectDatabase
<1>2. CASE LC!ConnectRedis BY <1>2 DEF LC!ConnectRedis
<1>3. CASE LC!Die BY <1>3 DEF LC!Die, LC!Exit
<1>4. CASE LC!Restart BY <1>4 DEF LC!Restart
<1>5. CASE LC!ServerClosed BY <1>5 DEF LC!ServerClosed
<1>6. CASE LC!ForceExit BY <1>6 DEF LC!ForceExit, LC!Exit
<1>7. ASSUME NEW r \in Clients, LC!Arrive(r) \/ LC!Respond(r) PROVE ProcessInv'
  BY <1>7 DEF LC!Arrive, LC!Respond
<1>8. ASSUME NEW w \in LC!Workers, LC!TakeJobs(w) \/ LC!FinishJobs(w) PROVE ProcessInv'
  BY <1>8 DEF LC!TakeJobs, LC!FinishJobs
<1>9. ASSUME NEW s \in Signals, LC!Signal(s) PROVE ProcessInv'
  BY <1>9 DEF LC!Signal
<1>10. ASSUME NEW s \in Signals, LC!CloseWorker(s) PROVE ProcessInv'
  BY <1>10 DEF LC!CloseWorker
<1>11. ASSUME NEW s \in Signals, LC!WorkerClosed(s) PROVE ProcessInv'
  BY <1>11 DEF LC!WorkerClosed, LC!After
<1>12. ASSUME NEW s \in Signals, LC!CloseFails(s) PROVE ProcessInv'
  BY <1>12 DEF LC!CloseFails
<1>13. ASSUME NEW s \in Signals, LC!DisconnectDatabase(s) \/ LC!DisconnectRedis(s)
       PROVE  ProcessInv'
  BY <1>13 DEF LC!DisconnectDatabase, LC!DisconnectRedis
<1>14. ASSUME NEW s \in Signals, LC!ExitCleanly(s) PROVE ProcessInv'
  BY <1>14 DEF LC!ExitCleanly, LC!Exit
<1>15. CASE UNCHANGED processVars BY <1>15 DEF processVars
<1> QED
  BY <1>1, <1>2, <1>3, <1>4, <1>5, <1>6, <1>7, <1>8, <1>9, <1>10, <1>11, <1>12, <1>13,
     <1>14, <1>15 DEF LC!Next

\* A step of the platform is one of the process, or not its business.
LEMMA ProcessInvariant == PlatformSpec => []ProcessInv
<1>1. PlatformInit => ProcessInv
  BY ProcessInit DEF PlatformInit
<1>2. [PlatformNext]_platformVars => [LC!Next]_processVars
  BY DEF PlatformNext, platformVars
<1> QED BY <1>1, <1>2, ProcessStep, PTL DEF PlatformSpec

\* Whatever the number of signals and requests, no request is served without
\* its stores.
THEOREM StoresSafe == PlatformSpec => []StoresOutliveRequests
<1>1. ProcessInv => StoresOutliveRequests
  BY DEF ProcessInv, StoresOutliveRequests, LC!StoresOutliveRequests
<1> QED BY <1>1, ProcessInvariant, PTL

\* Whatever the number of signals that run shutdown at once, a process that
\* ends with code 0 has cut off neither a request nor a job.
THEOREM ShutdownIsClean == PlatformSpec => []CleanExit
<1>1. ProcessInv => CleanExit
  BY DEF ProcessInv, CleanExit, LC!CleanExit
<1> QED BY <1>1, ProcessInvariant, PTL

-----------------------------------------------------------------------------
\* Users of an organization.  A row is handed to the registration that created
\* it, which activates it before anyone else can have been answered with it.
Activating(i) == {p \in Handlers : userPc[p] = "activate" /\ i \in ownRow[p]}

UsersInv ==
    /\ row \in [Accounts -> {"unused", "present", "deleted"}]
    /\ here \in SUBSET Accounts
    /\ userPc \in [Handlers -> {"idle", "create", "activate", "compare"}]
    /\ ownRow \in [Handlers -> SUBSET Accounts]
    /\ answered \in [Accounts -> Nat]
    /\ \A i \in Accounts :
          /\ row[i] = "unused" => i \notin here /\ answered[i] = 0 /\ Activating(i) = {}
          /\ Activating(i) # {} => i \in here /\ answered[i] = 0
          /\ \A p, q \in Activating(i) : p = q
          /\ answered[i] <= (IF i \in here THEN 1 ELSE 0)
          /\ row[i] = "present" /\ i \in here =>
                i \in verified \/ i \in stranded \/ Activating(i) # {}

LEMMA UsersInit == OU!Init => UsersInv
BY DEF OU!Init, UsersInv, Activating

LEMMA UsersStep == UsersInv /\ [OU!Next]_usersVars => UsersInv'
<1> SUFFICES ASSUME UsersInv, [OU!Next]_usersVars PROVE UsersInv'
  OBVIOUS
<1> USE DEF UsersInv, Activating, OU!Goto, OU!Finish, OU!rowVars, OU!requestVars, OU!Present
<1>1. ASSUME NEW p \in Handlers, OU!FindInOrg(p) \/ OU!FindToLogin(p) \/ OU!Compare(p)
      PROVE  UsersInv'
  BY <1>1 DEF OU!FindInOrg, OU!FindToLogin, OU!Compare
<1>2. ASSUME NEW p \in Handlers, OU!Create(p) PROVE UsersInv'
  BY <1>2 DEF OU!Create, OU!NewRow
<1>3. ASSUME NEW p \in Handlers, OU!Activate(p) PROVE UsersInv'
  BY <1>3 DEF OU!Activate
<1>4. ASSUME NEW p \in Handlers, OU!Fail(p) PROVE UsersInv'
  BY <1>4 DEF OU!Fail
<1>5. ASSUME NEW i \in Accounts, OU!RegisterElsewhere(i) PROVE UsersInv'
  BY <1>5 DEF OU!RegisterElsewhere, OU!NewRow
<1>6. ASSUME NEW i \in Accounts, OU!Verify(i) \/ OU!Delete(i) PROVE UsersInv'
  BY <1>6 DEF OU!Verify, OU!Delete
<1>7. ASSUME NEW i \in Accounts, NEW on \in BOOLEAN, OU!SetActive(i, on) PROVE UsersInv'
  BY <1>7 DEF OU!SetActive
<1>8. CASE UNCHANGED usersVars BY <1>8 DEF usersVars
<1> QED
  BY <1>1, <1>2, <1>3, <1>4, <1>5, <1>6, <1>7, <1>8 DEF OU!Next, OU!Continue

LEMMA UsersInvariant == PlatformSpec => []UsersInv
<1>1. PlatformInit => UsersInv
  BY UsersInit DEF PlatformInit
<1>2. [PlatformNext]_platformVars => [OU!Next]_usersVars
  BY DEF PlatformNext, platformVars
<1> QED BY <1>1, <1>2, UsersStep, PTL DEF PlatformSpec

\* Whatever the number of registrations at once, an account is handed to one
\* of them at most, and to one of its own organization.
THEOREM AccountsHandedOnce == PlatformSpec => []RegistrationsBounded
<1>1. UsersInv => RegistrationsBounded
  BY DEF UsersInv, RegistrationsBounded, OU!RegistrationsBounded
<1> QED BY <1>1, UsersInvariant, PTL

\* Whatever the number of registrations, suspensions and deletions, only a
\* registration that failed half-way leaves an account unverified.
THEOREM AccountsVerified == PlatformSpec => []UnverifiedOnlyByFailure
<1>1. UsersInv => UnverifiedOnlyByFailure
  BY DEF UsersInv, Activating, UnverifiedOnlyByFailure, OU!UnverifiedOnlyByFailure, OU!Present
<1> QED BY <1>1, UsersInvariant, PTL

-----------------------------------------------------------------------------
\* Handlers are finitely many, and so is each part of them.
LEMMA PartOfHandlers ==
    ASSUME NEW S \in SUBSET Handlers
    PROVE  /\ IsFiniteSet(S)
           /\ Cardinality(S) \in Nat /\ Cardinality(Handlers) \in Nat
           /\ Cardinality(S) <= Cardinality(Handlers)
<1>1. IsFiniteSet(Handlers)
  BY CodeConstants DEF OC!CodesAssumption, OC!IsFiniteSet, IsFiniteSet
<1>2. IsFiniteSet(S) /\ Cardinality(S) <= Cardinality(Handlers)
  BY <1>1, FS_Subset
<1> QED BY <1>1, <1>2, FS_CardinalityType

\* A handler that has left them makes them fewer.
LEMMA HandlerLeft ==
    ASSUME NEW S \in SUBSET Handlers, NEW p \in S
    PROVE  Cardinality(S \ {p}) = Cardinality(S) - 1
BY PartOfHandlers, FS_RemoveElement

\* Authorization codes.  An exchange adds to the grants of a code only after
\* it was counted among those that found it live.
Exchanging(c) == {p \in Handlers : c \in own[p]}

CodesInv ==
    /\ code \in [Codes -> {"unused", "live", "used", "erased"}]
    /\ codePc \in [Handlers -> {"idle", "user", "insert", "code", "mark", "owner"}]
    /\ own \in [Handlers -> SUBSET Codes]
    /\ granted \in [Codes -> Nat]
    /\ app \in {"present", "deleted"}
    /\ \A p \in Handlers : own[p] # {} => codePc[p] \in {"mark", "owner"}
    /\ \A p \in Handlers : codePc[p] = "owner" => \A c \in own[p] : code[c] \in {"used", "erased"}
    /\ \A c \in Codes : code[c] \in {"unused", "live"} => granted[c] = 0
    /\ \A c \in Codes : code[c] = "unused" => Exchanging(c) = {}
    /\ app = "deleted" => \A c \in Codes : code[c] \in {"unused", "erased"}

GrantsPromised ==
    \A c \in Codes : code[c] \in {"used", "erased"} =>
        granted[c] + Cardinality(Exchanging(c)) <= Cardinality(Handlers)

LEMMA CodesInit == OC!Init => CodesInv /\ GrantsPromised
BY DEF OC!Init, CodesInv, Exchanging, GrantsPromised

LEMMA CodesStep == CodesInv /\ [OC!Next]_codeVars => CodesInv'
<1> SUFFICES ASSUME CodesInv, [OC!Next]_codeVars PROVE CodesInv'
  OBVIOUS
<1> USE DEF CodesInv, Exchanging, OC!Goto, OC!Finish, OC!appVars, OC!codeVars, OC!requestVars
<1>1. ASSUME NEW p \in Handlers, NEW u \in Uris, OC!FindClient(p, u) \/ OC!Authenticate(p, u)
      PROVE  CodesInv'
  BY <1>1 DEF OC!FindClient, OC!Authenticate
<1>2. ASSUME NEW p \in Handlers, OC!FindUser(p) \/ OC!Fail(p) PROVE CodesInv'
  BY <1>2 DEF OC!FindUser, OC!Fail
<1>3. ASSUME NEW p \in Handlers, OC!CreateAuthCode(p) PROVE CodesInv'
  BY <1>3 DEF OC!CreateAuthCode
<1>4. ASSUME NEW p \in Handlers, OC!MarkAuthCodeUsed(p) PROVE CodesInv'
  BY <1>4 DEF OC!MarkAuthCodeUsed
<1>5. ASSUME NEW p \in Handlers, OC!Grant(p) PROVE CodesInv'
  BY <1>5 DEF OC!Grant
<1>6. ASSUME NEW p \in Handlers, NEW c \in Codes, OC!FindAuthCode(p, c) PROVE CodesInv'
  BY <1>6 DEF OC!FindAuthCode, OC!Acceptable
<1>7. ASSUME NEW us \in SUBSET Uris, OC!UpdateApp(us) PROVE CodesInv'
  BY <1>7 DEF OC!UpdateApp
<1>8. CASE OC!DeleteApp BY <1>8 DEF OC!DeleteApp
<1>9. ASSUME NEW state \in {"active", "inactive", "deleted"}, OC!SetUser(state) PROVE CodesInv'
  BY <1>9 DEF OC!SetUser
<1>10. ASSUME NEW c \in Codes, OC!Expire(c) PROVE CodesInv'
  BY <1>10 DEF OC!Expire
<1>11. CASE UNCHANGED codeVars BY <1>11 DEF codeVars
<1> QED
  BY <1>1, <1>2, <1>3, <1>4, <1>5, <1>6, <1>7, <1>8, <1>9, <1>10, <1>11
  DEF OC!Next, OC!Continue

\* Marking a code moves nobody; granting it moves one from those exchanging.
LEMMA GrantsStep == CodesInv /\ GrantsPromised /\ [OC!Next]_codeVars => GrantsPromised'
<1> SUFFICES ASSUME CodesInv, GrantsPromised, [OC!Next]_codeVars, NEW c \in Codes,
                    code'[c] \in {"used", "erased"}
             PROVE  (granted[c] + Cardinality(Exchanging(c)) <= Cardinality(Handlers))'
  BY DEF GrantsPromised
<1>c. /\ Exchanging(c) \in SUBSET Handlers /\ Exchanging(c)' \in SUBSET Handlers
      /\ Cardinality(Exchanging(c)) \in Nat /\ Cardinality(Exchanging(c)') \in Nat
      /\ Cardinality(Handlers) \in Nat
      /\ Cardinality(Exchanging(c)) <= Cardinality(Handlers)
  <2>1. Exchanging(c) \in SUBSET Handlers /\ Exchanging(c)' \in SUBSET Handlers
    BY DEF Exchanging
  <2> QED BY <2>1, PartOfHandlers
<1>g. granted[c] \in Nat /\ granted[c] + Cardinality(Exchanging(c)) <= Cardinality(Handlers)
  <2>1. granted[c] \in Nat /\ (code[c] \in {"unused", "live"} => granted[c] = 0)
        /\ code[c] \in {"unused", "live", "used", "erased"}
    BY DEF CodesInv
  <2> QED BY <2>1, <1>c DEF GrantsPromised
\* A handler that ends leaves no more behind that exchange the code.
<1>f. ASSUME NEW p \in Handlers, own' = [own EXCEPT ![p] = {}]
      PROVE  /\ Exchanging(c)' = Exchanging(c) \ {p}
             /\ Cardinality(Exchanging(c)') <= Cardinality(Exchanging(c))
             /\ c \in own[p] => Cardinality(Exchanging(c)') = Cardinality(Exchanging(c)) - 1
  <2>1. Exchanging(c)' = Exchanging(c) \ {p}
    BY <1>f DEF Exchanging, CodesInv
  <2>2. CASE p \in Exchanging(c)
    BY <2>1, <2>2, <1>c, HandlerLeft
  <2>3. CASE p \notin Exchanging(c)
    <3>1. Exchanging(c)' = Exchanging(c) /\ c \notin own[p]
      BY <2>1, <2>3 DEF Exchanging
    <3> QED BY <2>1, <3>1, <1>c
  <2> QED BY <2>1, <2>2, <2>3
<1> USE DEF OC!Goto, OC!Finish, OC!appVars, OC!codeVars, OC!requestVars
<1>1. ASSUME NEW p \in Handlers, granted' = granted, own' = [own EXCEPT ![p] = {}]
      PROVE  (granted[c] + Cardinality(Exchanging(c)) <= Cardinality(Handlers))'
  <2>1. Cardinality(Exchanging(c)') <= Cardinality(Exchanging(c))
    BY <1>1, <1>f
  <2> QED BY <1>1, <2>1, <1>c, <1>g
<1>2. ASSUME NEW p \in Handlers, NEW d \in Codes, OC!FindAuthCode(p, d)
      PROVE  (granted[c] + Cardinality(Exchanging(c)) <= Cardinality(Handlers))'
  <2>1. CASE OC!Finish(p)
    BY <1>1, <1>2, <2>1 DEF OC!FindAuthCode
  <2>2. CASE OC!Acceptable(d, uri[p]) /\ own' = [own EXCEPT ![p] = {d}]
    <3>1. granted[d] = 0 /\ code[d] = "live" /\ granted' = granted /\ code' = code
      BY <1>2, <2>2 DEF OC!FindAuthCode, OC!Acceptable, CodesInv
    <3>2. c # d
      BY <3>1
    <3>3. Exchanging(c)' \in SUBSET Exchanging(c)
      BY <2>2, <3>2 DEF Exchanging, CodesInv
    <3>4. Cardinality(Exchanging(c)') <= Cardinality(Exchanging(c))
      BY <3>3, <1>c, PartOfHandlers, FS_Subset
    <3> QED BY <3>1, <3>4, <1>c, <1>g
  <2> QED BY <1>2, <2>1, <2>2 DEF OC!FindAuthCode
<1>3. ASSUME NEW p \in Handlers, OC!MarkAuthCodeUsed(p)
      PROVE  (granted[c] + Cardinality(Exchanging(c)) <= Cardinality(Handlers))'
  <2>1. CASE OC!Finish(p)
    BY <1>1, <1>3, <2>1 DEF OC!MarkAuthCodeUsed
  <2>2. CASE own' = [own EXCEPT ![p] = own[p]]
    <3>1. Exchanging(c)' = Exchanging(c)
      BY <2>2 DEF Exchanging, CodesInv
    <3> QED BY <1>3, <3>1, <1>g DEF OC!MarkAuthCodeUsed
  <2> QED BY <1>3, <2>1, <2>2 DEF OC!MarkAuthCodeUsed
<1>4. ASSUME NEW p \in Handlers, OC!Grant(p)
      PROVE  (granted[c] + Cardinality(Exchanging(c)) <= Cardinality(Handlers))'
  <2>1. own' = [own EXCEPT ![p] = {}]
    BY <1>4 DEF OC!Grant
  <2>2. granted'[c] = granted[c] + IF c \in own[p] /\ user # "deleted" THEN 1 ELSE 0
    BY <1>4 DEF OC!Grant
  <2>3. /\ Cardinality(Exchanging(c)') <= Cardinality(Exchanging(c))
        /\ c \in own[p] => Cardinality(Exchanging(c)') = Cardinality(Exchanging(c)) - 1
    BY <2>1, <1>f
  <2>4. CASE c \in own[p] /\ user # "deleted"
    BY <2>2, <2>3, <2>4, <1>c, <1>g
  <2>5. CASE ~(c \in own[p] /\ user # "deleted")
    BY <2>2, <2>3, <2>5, <1>c, <1>g
  <2> QED BY <2>4, <2>5
<1>5. ASSUME NEW p \in Handlers, NEW u \in Uris, OC!FindClient(p, u) \/ OC!Authenticate(p, u)
      PROVE  (granted[c] + Cardinality(Exchanging(c)) <= Cardinality(Handlers))'
  BY <1>1, <1>5 DEF OC!FindClient, OC!Authenticate
<1>6. ASSUME NEW p \in Handlers, OC!FindUser(p) \/ OC!CreateAuthCode(p) \/ OC!Fail(p)
      PROVE  (granted[c] + Cardinality(Exchanging(c)) <= Cardinality(Handlers))'
  BY <1>1, <1>6 DEF OC!FindUser, OC!CreateAuthCode, OC!Fail
<1>7. ASSUME UNCHANGED <<own, granted>>
      PROVE  (granted[c] + Cardinality(Exchanging(c)) <= Cardinality(Handlers))'
  BY <1>7, <1>g DEF Exchanging
<1>8. CASE OC!DeleteApp BY <1>7, <1>8 DEF OC!DeleteApp
<1>9. ASSUME NEW us \in SUBSET Uris, OC!UpdateApp(us)
      PROVE  (granted[c] + Cardinality(Exchanging(c)) <= Cardinality(Handlers))'
  BY <1>7, <1>9 DEF OC!UpdateApp
<1>10. ASSUME NEW state, OC!SetUser(state)
      PROVE  (granted[c] + Cardinality(Exchanging(c)) <= Cardinality(Handlers))'
  BY <1>7, <1>10 DEF OC!SetUser
<1>11. ASSUME NEW d \in Codes, OC!Expire(d)
      PROVE  (granted[c] + Cardinality(Exchanging(c)) <= Cardinality(Handlers))'
  BY <1>7, <1>11 DEF OC!Expire
<1>12. CASE UNCHANGED codeVars BY <1>7, <1>12 DEF codeVars
<1> QED
  BY <1>2, <1>3, <1>4, <1>5, <1>6, <1>8, <1>9, <1>10, <1>11, <1>12 DEF OC!Next, OC!Continue

LEMMA CodesInvariant == PlatformSpec => [](CodesInv /\ GrantsPromised)
<1>1. PlatformInit => CodesInv /\ GrantsPromised
  BY CodesInit DEF PlatformInit
<1>2. [PlatformNext]_platformVars => [OC!Next]_codeVars
  BY DEF PlatformNext, platformVars
<1> QED BY <1>1, <1>2, CodesStep, GrantsStep, PTL DEF PlatformSpec

\* Whatever the number of codes and of requests at once, a code is exchanged
\* no more often than requests run at the same time.
THEOREM GrantsSafe == PlatformSpec => []GrantsBounded
<1>1. CodesInv /\ GrantsPromised => GrantsBounded
  <2> SUFFICES ASSUME CodesInv, GrantsPromised, NEW c \in Codes
               PROVE  granted[c] <= Cardinality(Handlers)
    BY DEF GrantsBounded, OC!GrantsBounded, OC!Cardinality, Cardinality
  <2>1. Cardinality(Exchanging(c)) \in Nat /\ Cardinality(Handlers) \in Nat
    BY PartOfHandlers DEF Exchanging
  <2> QED BY <2>1 DEF CodesInv, GrantsPromised
<1> QED BY <1>1, CodesInvariant, PTL

\* Whatever fails and whatever overlaps, a code whose tokens are out is used
\* up, and an app that is gone leaves no code.
THEOREM CodesSpent == PlatformSpec => []GrantedCodesAreSpent
<1>1. CodesInv => GrantedCodesAreSpent
  BY DEF CodesInv, GrantedCodesAreSpent, OC!GrantedCodesAreSpent
<1> QED BY <1>1, CodesInvariant, PTL

-----------------------------------------------------------------------------
\* Sync requests.  An approval under way has in force what it has upserted; a
\* decision is written only by a handler that was counted among those that
\* found the request pending.
SyncInv ==
    /\ status \in [Syncs -> {"unused", "pending", "approved", "rejected"}]
    /\ features \in [Syncs -> SUBSET Keys]
    /\ syncPc \in [Handlers -> {"idle", "submit", "upsert", "reject"}]
    /\ sync \in [Handlers -> SUBSET Syncs]
    /\ todo \in [Handlers -> SUBSET Keys]
    /\ decisions \in [Syncs -> Nat]
    /\ removed \in [Syncs -> SUBSET Keys]
    /\ \A h \in Handlers : sync[h] # {} => syncPc[h] \in {"upsert", "reject"}
    /\ \A r \in Syncs : status[r] = "unused" => \A h \in Handlers : r \notin sync[h]
    /\ \A r \in Syncs : status[r] \in {"unused", "pending"} => decisions[r] = 0
    /\ \A h \in Handlers : syncPc[h] = "upsert" =>
          \A r \in sync[h] : features[r] \ todo[h] \subseteq catalogue \cup removed[r]
    /\ \A r \in Syncs : status[r] = "approved" => features[r] \subseteq catalogue \cup removed[r]

DecisionsPromised ==
    \A r \in Syncs : status[r] \in {"approved", "rejected"} =>
        decisions[r] + Cardinality(FS!Deciding(r)) <= Cardinality(Handlers)

LEMMA SyncInit == FS!Init => SyncInv /\ DecisionsPromised
BY DEF FS!Init, SyncInv, DecisionsPromised

LEMMA SyncStep == SyncInv /\ [FS!Next]_syncVars => SyncInv'
<1> SUFFICES ASSUME SyncInv, [FS!Next]_syncVars PROVE SyncInv'
  OBVIOUS
<1> USE DEF SyncInv, FS!Goto, FS!Finish, FS!appVars, FS!syncVars, FS!handlerVars, FS!history
<1>1. ASSUME NEW h \in Handlers, NEW ks \in SUBSET Keys, FS!FindActiveApp(h, ks) PROVE SyncInv'
  BY <1>1 DEF FS!FindActiveApp
<1>2. ASSUME NEW h \in Handlers, NEW r \in Syncs, NEW label \in {"upsert", "reject"},
             FS!FindPending(h, r, label)
      PROVE  SyncInv'
  BY <1>2 DEF FS!FindPending
<1>3. ASSUME NEW h \in Handlers, FS!CreateSyncRequest(h) PROVE SyncInv'
  BY <1>3 DEF FS!CreateSyncRequest
<1>4. ASSUME NEW h \in Handlers, FS!UpsertFeature(h) PROVE SyncInv'
  BY <1>4 DEF FS!UpsertFeature
<1>5. ASSUME NEW h \in Handlers, FS!Approve(h) PROVE SyncInv'
  BY <1>5 DEF FS!Approve, FS!Decide
<1>6. ASSUME NEW h \in Handlers, FS!Reject(h) PROVE SyncInv'
  BY <1>6 DEF FS!Reject, FS!Decide
<1>7. ASSUME NEW h \in Handlers, FS!Fail(h) PROVE SyncInv'
  BY <1>7 DEF FS!Fail
<1>8. ASSUME NEW k \in Keys, FS!AddFeature(k) \/ FS!UpdateFeature(k) PROVE SyncInv'
  BY <1>8 DEF FS!AddFeature, FS!UpdateFeature
<1>9. ASSUME NEW k \in Keys, FS!RemoveFeature(k) PROVE SyncInv'
  BY <1>9 DEF FS!RemoveFeature
<1>10. ASSUME NEW on \in BOOLEAN, FS!SetAppActive(on) PROVE SyncInv'
  BY <1>10 DEF FS!SetAppActive
<1>11. CASE UNCHANGED syncVars BY <1>11 DEF syncVars
<1> QED
  BY <1>1, <1>2, <1>3, <1>4, <1>5, <1>6, <1>7, <1>8, <1>9, <1>10, <1>11
  DEF FS!Next, FS!Continue

\* Nobody joins those that decide a request once it is decided, and a decision
\* takes its handler out of them.
LEMMA DecisionsStep == SyncInv /\ DecisionsPromised /\ [FS!Next]_syncVars => DecisionsPromised'
<1> SUFFICES ASSUME SyncInv, DecisionsPromised, [FS!Next]_syncVars, NEW r \in Syncs,
                    status'[r] \in {"approved", "rejected"}
             PROVE  (decisions[r] + Cardinality(FS!Deciding(r)) <= Cardinality(Handlers))'
  BY DEF DecisionsPromised
<1>c. /\ FS!Deciding(r) \in SUBSET Handlers /\ FS!Deciding(r)' \in SUBSET Handlers
      /\ Cardinality(FS!Deciding(r)) \in Nat /\ Cardinality(FS!Deciding(r)') \in Nat
      /\ Cardinality(Handlers) \in Nat
      /\ Cardinality(FS!Deciding(r)) <= Cardinality(Handlers)
  <2>1. FS!Deciding(r) \in SUBSET Handlers /\ FS!Deciding(r)' \in SUBSET Handlers
    BY DEF FS!Deciding
  <2> QED BY <2>1, PartOfHandlers
<1>d. decisions[r] \in Nat
      /\ decisions[r] + Cardinality(FS!Deciding(r)) <= Cardinality(Handlers)
  <2>1. decisions[r] \in Nat /\ (status[r] \in {"unused", "pending"} => decisions[r] = 0)
        /\ status[r] \in {"unused", "pending", "approved", "rejected"}
    BY DEF SyncInv
  <2> QED BY <2>1, <1>c DEF DecisionsPromised
\* A handler that ends leaves no more behind that decide the request.
<1>f. ASSUME NEW h \in Handlers, sync' = [sync EXCEPT ![h] = {}]
      PROVE  /\ Cardinality(FS!Deciding(r)') <= Cardinality(FS!Deciding(r))
             /\ r \in sync[h] =>
                   Cardinality(FS!Deciding(r)') = Cardinality(FS!Deciding(r)) - 1
  <2>1. FS!Deciding(r)' = FS!Deciding(r) \ {h}
    BY <1>f DEF FS!Deciding, SyncInv
  <2>2. CASE h \in FS!Deciding(r)
    BY <2>1, <2>2, <1>c, HandlerLeft
  <2>3. CASE h \notin FS!Deciding(r)
    <3>1. FS!Deciding(r)' = FS!Deciding(r) /\ r \notin sync[h]
      BY <2>1, <2>3 DEF FS!Deciding
    <3> QED BY <3>1, <1>c
  <2> QED BY <2>2, <2>3
<1> USE DEF FS!Goto, FS!Finish, FS!appVars, FS!syncVars, FS!handlerVars, FS!history
<1>1. ASSUME NEW h \in Handlers, decisions' = decisions, sync' = [sync EXCEPT ![h] = {}]
      PROVE  (decisions[r] + Cardinality(FS!Deciding(r)) <= Cardinality(Handlers))'
  <2>1. Cardinality(FS!Deciding(r)') <= Cardinality(FS!Deciding(r))
    BY <1>1, <1>f
  <2> QED BY <1>1, <2>1, <1>c, <1>d
<1>2. ASSUME UNCHANGED <<sync, decisions>>
      PROVE  (decisions[r] + Cardinality(FS!Deciding(r)) <= Cardinality(Handlers))'
  BY <1>2, <1>d DEF FS!Deciding
<1>3. ASSUME NEW h \in Handlers, NEW decision, sync' = [sync EXCEPT ![h] = {}],
             FS!Decide(h, decision)
      PROVE  (decisions[r] + Cardinality(FS!Deciding(r)) <= Cardinality(Handlers))'
  <2>1. decisions'[r] = decisions[r] + IF r \in sync[h] THEN 1 ELSE 0
    BY <1>3 DEF FS!Decide
  <2>2. /\ Cardinality(FS!Deciding(r)') <= Cardinality(FS!Deciding(r))
        /\ r \in sync[h] => Cardinality(FS!Deciding(r)') = Cardinality(FS!Deciding(r)) - 1
    BY <1>3, <1>f
  <2>3. CASE r \in sync[h] BY <2>1, <2>2, <2>3, <1>c, <1>d
  <2>4. CASE r \notin sync[h] BY <2>1, <2>2, <2>4, <1>c, <1>d
  <2> QED BY <2>3, <2>4
<1>4. ASSUME NEW h \in Handlers, NEW ks \in SUBSET Keys, FS!FindActiveApp(h, ks)
      PROVE  (decisions[r] + Cardinality(FS!Deciding(r)) <= Cardinality(Handlers))'
  BY <1>1, <1>4 DEF FS!FindActiveApp
<1>5. ASSUME NEW h \in Handlers, NEW q \in Syncs, NEW label, FS!FindPending(h, q, label)
      PROVE  (decisions[r] + Cardinality(FS!Deciding(r)) <= Cardinality(Handlers))'
  <2>1. r # q /\ decisions' = decisions /\ sync' = [sync EXCEPT ![h] = {q}]
    BY <1>5 DEF FS!FindPending
  <2>2. FS!Deciding(r)' \in SUBSET FS!Deciding(r)
    BY <2>1 DEF FS!Deciding, SyncInv
  <2>3. Cardinality(FS!Deciding(r)') <= Cardinality(FS!Deciding(r))
    BY <2>2, <1>c, PartOfHandlers, FS_Subset
  <2> QED BY <2>1, <2>3, <1>c, <1>d
<1>6. ASSUME NEW h \in Handlers, FS!CreateSyncRequest(h) \/ FS!Fail(h)
      PROVE  (decisions[r] + Cardinality(FS!Deciding(r)) <= Cardinality(Handlers))'
  BY <1>1, <1>6 DEF FS!CreateSyncRequest, FS!Fail
<1>7. ASSUME NEW h \in Handlers, FS!UpsertFeature(h)
      PROVE  (decisions[r] + Cardinality(FS!Deciding(r)) <= Cardinality(Handlers))'
  <2>1. sync' = sync /\ decisions' = decisions
    BY <1>7 DEF FS!UpsertFeature, SyncInv
  <2> QED BY <2>1, <1>2
<1>8. ASSUME NEW h \in Handlers, FS!Approve(h) \/ FS!Reject(h)
      PROVE  (decisions[r] + Cardinality(FS!Deciding(r)) <= Cardinality(Handlers))'
  BY <1>3, <1>8 DEF FS!Approve, FS!Reject, FS!Decide
<1>9. ASSUME NEW k \in Keys, FS!AddFeature(k) \/ FS!UpdateFeature(k) \/ FS!RemoveFeature(k)
      PROVE  (decisions[r] + Cardinality(FS!Deciding(r)) <= Cardinality(Handlers))'
  BY <1>2, <1>9 DEF FS!AddFeature, FS!UpdateFeature, FS!RemoveFeature
<1>10. ASSUME NEW on, FS!SetAppActive(on)
      PROVE  (decisions[r] + Cardinality(FS!Deciding(r)) <= Cardinality(Handlers))'
  BY <1>2, <1>10 DEF FS!SetAppActive
<1>11. CASE UNCHANGED syncVars BY <1>2, <1>11 DEF syncVars
<1> QED
  BY <1>4, <1>5, <1>6, <1>7, <1>8, <1>9, <1>10, <1>11 DEF FS!Next, FS!Continue

LEMMA SyncInvariant == PlatformSpec => [](SyncInv /\ DecisionsPromised)
<1>1. PlatformInit => SyncInv /\ DecisionsPromised
  BY SyncInit DEF PlatformInit
<1>2. [PlatformNext]_platformVars => [FS!Next]_syncVars
  BY DEF PlatformNext, platformVars
<1> QED BY <1>1, <1>2, SyncStep, DecisionsStep, PTL DEF PlatformSpec

\* Whatever the number of sync requests and of handlers, a request is decided
\* no more often than handlers run at the same time.
THEOREM DecisionsSafe == PlatformSpec => []DecisionsBounded
<1>1. SyncInv /\ DecisionsPromised => DecisionsBounded
  <2> SUFFICES ASSUME SyncInv, DecisionsPromised, NEW r \in Syncs
               PROVE  decisions[r] <= Cardinality(Handlers)
    BY DEF DecisionsBounded, FS!DecisionsBounded, FS!Cardinality, Cardinality
  <2>1. Cardinality(FS!Deciding(r)) \in Nat /\ Cardinality(Handlers) \in Nat
    BY PartOfHandlers DEF FS!Deciding
  <2> QED BY <2>1 DEF SyncInv, DecisionsPromised
<1> QED BY <1>1, SyncInvariant, PTL

\* Whatever the lists and the interleaving of approvals, rejections, removals
\* and failures, an approved request is in force as a whole.
THEOREM ApprovalInForce == PlatformSpec => []ApprovedInForce
<1>1. SyncInv => ApprovedInForce
  BY DEF SyncInv, ApprovedInForce, FS!ApprovedInForce
<1> QED BY <1>1, SyncInvariant, PTL

\* Of a request that is not torn: an approval has been alone with it from its
\* beginning, and what the request has left in the catalogue is an approval's,
\* one that succeeded or one under way.
TornInv ==
    /\ catalogue \in SUBSET Keys
    /\ origin \in [Keys -> SUBSET Syncs]
    /\ \A r \in Syncs : r \notin torn =>
          /\ \A g \in FS!Approving(r), h \in FS!Deciding(r) : g = h
          /\ status[r] = "approved" => FS!Deciding(r) = {}
          /\ status[r] = "rejected" => FS!Approving(r) = {}
          /\ status[r] # "approved" /\ FS!Approving(r) = {} => FS!From(r) = {}

LEMMA TornStep == SyncInv /\ TornInv /\ [FS!Next]_syncVars => TornInv'
<1> SUFFICES ASSUME SyncInv, TornInv, [FS!Next]_syncVars PROVE TornInv'
  OBVIOUS
<1> USE DEF SyncInv, TornInv, FS!Approving, FS!Deciding, FS!From, FS!Goto, FS!Finish,
            FS!appVars, FS!syncVars, FS!handlerVars, FS!history
<1>1. ASSUME NEW h \in Handlers, NEW ks \in SUBSET Keys, FS!FindActiveApp(h, ks) PROVE TornInv'
  BY <1>1 DEF FS!FindActiveApp
<1>2. ASSUME NEW h \in Handlers, NEW r \in Syncs, NEW label \in {"upsert", "reject"},
             FS!FindPending(h, r, label)
      PROVE  TornInv'
  BY <1>2 DEF FS!FindPending
<1>3. ASSUME NEW h \in Handlers, FS!CreateSyncRequest(h) PROVE TornInv'
  BY <1>3 DEF FS!CreateSyncRequest
<1>4. ASSUME NEW h \in Handlers, FS!UpsertFeature(h) PROVE TornInv'
  BY <1>4 DEF FS!UpsertFeature
<1>5. ASSUME NEW h \in Handlers, FS!Approve(h) PROVE TornInv'
  BY <1>5 DEF FS!Approve, FS!Decide
<1>6. ASSUME NEW h \in Handlers, FS!Reject(h) PROVE TornInv'
  BY <1>6 DEF FS!Reject, FS!Decide
<1>7. ASSUME NEW h \in Handlers, FS!Fail(h) PROVE TornInv'
  BY <1>7 DEF FS!Fail
<1>8. ASSUME NEW k \in Keys, FS!AddFeature(k) \/ FS!UpdateFeature(k) \/ FS!RemoveFeature(k)
      PROVE  TornInv'
  BY <1>8 DEF FS!AddFeature, FS!UpdateFeature, FS!RemoveFeature
<1>9. ASSUME NEW on \in BOOLEAN, FS!SetAppActive(on) PROVE TornInv'
  BY <1>9 DEF FS!SetAppActive
<1>10. CASE UNCHANGED syncVars BY <1>10 DEF syncVars
<1> QED
  BY <1>1, <1>2, <1>3, <1>4, <1>5, <1>6, <1>7, <1>8, <1>9, <1>10 DEF FS!Next, FS!Continue

\* Whatever the lists, the number of handlers and the interleaving, a rejected
\* request that no approval was torn from leaves no feature behind.
THEOREM RejectionSafe == PlatformSpec => []RejectedLeavesNothing
<1>1. PlatformInit => TornInv
  BY DEF PlatformInit, FS!Init, TornInv, FS!Approving, FS!Deciding, FS!From
<1>2. [PlatformNext]_platformVars => [FS!Next]_syncVars
  BY DEF PlatformNext, platformVars
<1>3. SyncInv /\ TornInv => RejectedLeavesNothing
  BY DEF TornInv, RejectedLeavesNothing, FS!RejectedLeavesNothing
<1> QED BY <1>1, <1>2, <1>3, TornStep, SyncInvariant, PTL DEF PlatformSpec

=============================================================================
