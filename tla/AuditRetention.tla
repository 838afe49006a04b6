--------------------------- MODULE AuditRetention ---------------------------
(***************************************************************************)
(* The audit log and its daily cleanup.  For each plan, in the order of    *)
(* the enum (which is that of their retention), the cleanup reads the      *)
(* users of organizations on that plan and deletes their logs past the     *)
(* plan's retention; logs without a user go after the longest one.  Users  *)
(* are deleted and organizations change plans between the queries.         *)
(***************************************************************************)
EXTENDS Integers, FiniteSetsExt

CONSTANTS
    Users,
    Logs,             \* entries that can be written
    Plans,            \* the plans, each as its logRetentionDays
    MaxDisturbances   \* bound on plan changes, failed queries and restarts

RetentionAssumption ==
    /\ Plans \subseteq Nat /\ Plans # {} /\ IsFiniteSet(Plans)
    /\ MaxDisturbances \in Nat

Longest == Max(Plans)

VARIABLES
    exists,      \* the users that have not been deleted
    plan,        \* the plan of each user's organization
    log,         \* of each entry: unwritten, kept or purged
    owner,       \* its userId: a set of at most one
    age,         \* days since it was written, up to one past the longest
    pc,          \* where the cleanup stands
    todo,        \* the plans it has still to treat
    found,       \* the users it has found for the first of these
    least,       \* history: the shortest retention of each user in this run
    disturbed    \* how many disturbances there have been

userVars == <<exists, plan>>
logVars == <<log, owner, age>>
runVars == <<pc, todo, found>>
vars == <<userVars, logVars, runVars, least, disturbed>>

TypeOK ==
    /\ exists \in SUBSET Users
    /\ plan \in [Users -> Plans] /\ least \in [Users -> Plans]
    /\ log \in [Logs -> {"unwritten", "kept", "purged"}]
    /\ owner \in [Logs -> SUBSET Users]
    /\ \A l \in Logs : owner[l] \subseteq exists
    /\ age \in [Logs -> 0..(Longest + 1)]
    /\ pc \in {"idle", "users", "logs"}
    /\ todo \in SUBSET Plans
    /\ found \in SUBSET Users
    /\ pc = "logs" => todo # {}
    /\ disturbed \in 0..MaxDisturbances

\* startAuditLogCleanup runs at once.
Init ==
    /\ exists = Users
    /\ plan \in [Users -> Plans] /\ least = plan
    /\ log = [l \in Logs |-> "unwritten"]
    /\ owner = [l \in Logs |-> {}]
    /\ age = [l \in Logs |-> 0]
    /\ pc = "users" /\ todo = Plans /\ found = {}
    /\ disturbed = 0

-----------------------------------------------------------------------------
Purge(ls) ==
    /\ log' = [l \in Logs |-> IF l \in ls THEN "purged" ELSE log[l]]
    /\ owner' = [l \in Logs |-> IF l \in ls THEN {} ELSE owner[l]]
    /\ age' = [l \in Logs |-> IF l \in ls THEN 0 ELSE age[l]]

\* deleteMany: createdAt lies before the cutoff.
PastCutoff(days) == {l \in Logs : log[l] = "kept" /\ age[l] > days}

NextPlan == pc' = "users" /\ todo' = todo \ {Min(todo)} /\ found' = {}

\* Mutant: a plan nobody is on ends the run.
ReturnWithoutUsers ==
    /\ pc = "users" /\ todo # {}
    /\ LET users == {u \in exists : plan[u] = Min(todo)} IN
           IF users = {} THEN pc' = "idle" /\ todo' = {} /\ found' = {}
           ELSE pc' = "logs" /\ found' = users /\ UNCHANGED todo
    /\ UNCHANGED <<userVars, logVars, least, disturbed>>

\* The users on the next plan; a plan nobody is on is passed over.
FindUsers ==
    /\ pc = "users" /\ todo # {}
    /\ LET users == {u \in exists : plan[u] = Min(todo)} IN
           IF users = {} THEN NextPlan
           ELSE pc' = "logs" /\ found' = users /\ UNCHANGED todo
    /\ UNCHANGED <<userVars, logVars, least, disturbed>>

\* Mutant: the logs are selected by their age alone.
DeleteOlder ==
    /\ pc = "logs"
    /\ Purge(PastCutoff(Min(todo)))
    /\ NextPlan
    /\ UNCHANGED <<userVars, least, disturbed>>

\* The logs of these users, whatever plan they are on by now; those of a user
\* deleted since have no userId any more.
DeleteLogs ==
    /\ pc = "logs"
    /\ Purge({l \in PastCutoff(Min(todo)) : owner[l] \cap found # {}})
    /\ NextPlan
    /\ UNCHANGED <<userVars, least, disturbed>>

\* At the end those without a user.
DeleteOrphans ==
    /\ pc = "users" /\ todo = {}
    /\ Purge({l \in PastCutoff(Longest) : owner[l] = {}})
    /\ pc' = "idle"
    /\ UNCHANGED <<userVars, todo, found, least, disturbed>>

-----------------------------------------------------------------------------
Disturb == disturbed < MaxDisturbances /\ disturbed' = disturbed + 1

\* A query fails: the plan, or the entries without a user, wait for tomorrow.
QueryFails ==
    /\ pc # "idle"
    /\ Disturb
    /\ IF todo = {} THEN pc' = "idle" /\ UNCHANGED <<todo, found>> ELSE NextPlan
    /\ UNCHANGED <<userVars, logVars, least>>

\* The process restarts, and its cleanup starts again.
Restart ==
    /\ Disturb
    /\ pc' = "users" /\ todo' = Plans /\ found' = {}
    /\ least' = plan
    /\ UNCHANGED <<userVars, logVars>>

\* The operator of the service moves an organization to another plan.
SetPlan(u, days) ==
    /\ u \in exists /\ plan[u] # days
    /\ Disturb
    /\ plan' = [plan EXCEPT ![u] = days]
    /\ least' = [least EXCEPT ![u] = Min({@, days})]
    /\ UNCHANGED <<exists, logVars, runVars>>

\* deleteUser: the schema keeps the user's logs, without the user.
DeleteUser(u) ==
    /\ u \in exists
    /\ exists' = exists \ {u}
    /\ owner' = [l \in Logs |-> owner[l] \ {u}]
    /\ UNCHANGED <<plan, log, age, runVars, least, disturbed>>

\* log writes an entry; one of a user who is gone is refused, and dropped.
Log(l, us) ==
    /\ log[l] = "unwritten"
    /\ us \subseteq exists
    /\ log' = [log EXCEPT ![l] = "kept"]
    /\ owner' = [owner EXCEPT ![l] = us]
    /\ UNCHANGED <<userVars, age, runVars, least, disturbed>>

\* A day passes and the timer fires.  Bound: a run takes less than a day.
Tick ==
    /\ pc = "idle"
    /\ age' = [l \in Logs |-> IF log[l] = "kept" THEN Min({age[l] + 1, Longest + 1}) ELSE 0]
    /\ pc' = "users" /\ todo' = Plans /\ found' = {}
    /\ least' = plan
    /\ UNCHANGED <<userVars, log, owner, disturbed>>

Cleanup == FindUsers \/ DeleteLogs \/ DeleteOrphans

Next ==
    \/ Cleanup \/ QueryFails \/ Restart \/ Tick
    \/ \E u \in Users : DeleteUser(u) \/ \E days \in Plans : SetPlan(u, days)
    \/ \E l \in Logs, us \in {{}} \cup {{u} : u \in Users} : Log(l, us)

Spec == Init /\ [][Next]_vars

FairSpec == Spec /\ WF_vars(Cleanup) /\ WF_vars(Tick)

-----------------------------------------------------------------------------
\* An entry is purged only once it is older than a retention its user had
\* during the run that purges it, or, without a user, than the longest one;
\* whoever changes plans or is deleted between the queries of that run.
NothingPurgedEarly ==
    [][\A l \in Logs :
          log[l] = "kept" /\ log'[l] = "purged" =>
              IF owner[l] = {} THEN age[l] > Longest
              ELSE \E u \in owner[l] : age[l] > least[u]]_vars

Overdue(l) ==
    /\ log[l] = "kept"
    /\ age[l] > IF owner[l] = {} THEN Longest ELSE plan[CHOOSE u \in owner[l] : TRUE]

\* An entry past its retention does not stay so: once the failures, restarts
\* and plan changes are over, a daily run purges it.
PurgedEventually == \A l \in Logs : Overdue(l) ~> ~Overdue(l)

=============================================================================
