----------------------------- MODULE PlanQuota -----------------------------
(***************************************************************************)
(* The plan limits of one organization.  API keys, webhooks and OAuth apps *)
(* are counted in one query and created in another; API calls are counted  *)
(* in Redis, by day: enforceApiCallQuota reads the counter of today, and a *)
(* request it lets pass adds one to the counter of today, which by then    *)
(* may be another one.                                                     *)
(***************************************************************************)
EXTENDS Integers, FiniteSets

CONSTANTS
    Requests,       \* requests being served at the same time
    Kinds,          \* kinds of limited resources
    Max,            \* PLAN_LIMITS: how many of each kind
    MaxCalls,       \* maxApiCallsPerDay
    MaxDay,         \* bound on the days
    MaxBlind        \* bound on the calls admitted while Redis does not answer

ASSUME LimitsAssumption ==
    /\ IsFiniteSet(Requests) /\ Requests # {}
    /\ Max \in [Kinds -> Nat]
    /\ MaxCalls \in Nat
    /\ MaxDay \in Nat
    /\ MaxBlind \in Nat

Days == 0..MaxDay

VARIABLES
    count,      \* rows of each kind
    day,        \* the UTC day
    calls,      \* the Redis counter of each day
    pc,         \* where each request stands
    kind,       \* what it creates
    blind       \* history: calls admitted because Redis did not answer

vars == <<count, day, calls, pc, kind, blind>>

TypeOK ==
    /\ count \in [Kinds -> Nat]
    /\ day \in Days
    /\ calls \in [Days -> Nat]
    /\ pc \in [Requests -> {"idle", "create", "call"}]
    /\ kind \in [Requests -> SUBSET Kinds]
    /\ blind \in 0..MaxBlind
    /\ \A p \in Requests : kind[p] # {} <=> pc[p] = "create"

Init ==
    /\ count = [k \in Kinds |-> 0]
    /\ day = 0
    /\ calls = [d \in Days |-> 0]
    /\ pc = [p \in Requests |-> "idle"]
    /\ kind = [p \in Requests |-> {}]
    /\ blind = 0

Goto(p, label) == pc' = [pc EXCEPT ![p] = label]

-----------------------------------------------------------------------------
\* Mutant: the limit itself is let through.
CountOneMore(p, k) ==
    /\ pc[p] = "idle"
    /\ count[k] <= Max[k]
    /\ Goto(p, "create")
    /\ kind' = [kind EXCEPT ![p] = {k}]
    /\ UNCHANGED <<count, day, calls, blind>>

\* countByOrg, and the test against the limit of the plan.
CountByOrg(p, k) ==
    /\ pc[p] = "idle"
    /\ count[k] < Max[k]
    /\ Goto(p, "create")
    /\ kind' = [kind EXCEPT ![p] = {k}]
    /\ UNCHANGED <<count, day, calls, blind>>

\* The row is created, or the query fails.
Create(p) ==
    /\ pc[p] = "create"
    /\ \/ count' = [k \in Kinds |-> count[k] + (IF k \in kind[p] THEN 1 ELSE 0)]
       \/ UNCHANGED count
    /\ Goto(p, "idle")
    /\ kind' = [kind EXCEPT ![p] = {}]
    /\ UNCHANGED <<day, calls, blind>>

\* Mutant: a deletion that finds no row lowers the count all the same.
DeleteAny(k) ==
    /\ count' = [count EXCEPT ![k] = @ - 1]
    /\ UNCHANGED <<day, calls, pc, kind, blind>>

\* revoke, delete, deleteApp: one row less.
Delete(k) ==
    /\ count[k] > 0
    /\ count' = [count EXCEPT ![k] = @ - 1]
    /\ UNCHANGED <<day, calls, pc, kind, blind>>

-----------------------------------------------------------------------------
\* Mutant: the limit itself is let through.
ReadCallsOneMore(p) ==
    /\ pc[p] = "idle"
    /\ calls[day] <= MaxCalls
    /\ Goto(p, "call")
    /\ UNCHANGED <<count, day, calls, kind, blind>>

\* getApiCallsToday; an error reads as no calls.
ReadCalls(p) ==
    /\ pc[p] = "idle"
    /\ \/ calls[day] < MaxCalls /\ UNCHANGED blind
       \/ MaxCalls > 0 /\ blind < MaxBlind /\ blind' = blind + 1
    /\ Goto(p, "call")
    /\ UNCHANGED <<count, day, calls, kind>>

\* incrementApiCalls goes out with the key of the day it is then; an error is
\* ignored.
CountCall(p) ==
    /\ pc[p] = "call"
    /\ \/ calls' = [calls EXCEPT ![day] = @ + 1]
       \/ UNCHANGED calls
    /\ Goto(p, "idle")
    /\ UNCHANGED <<count, day, kind, blind>>

Midnight ==
    /\ day < MaxDay
    /\ day' = day + 1
    /\ UNCHANGED <<count, calls, pc, kind, blind>>

Next ==
    \/ \E p \in Requests :
          \/ \E k \in Kinds : CountByOrg(p, k)
          \/ Create(p) \/ ReadCalls(p) \/ CountCall(p)
    \/ \E k \in Kinds : Delete(k)
    \/ Midnight

Spec == Init /\ [][Next]_vars

-----------------------------------------------------------------------------
\* A limit is exceeded only by requests that had all counted before the first
\* of them created: by fewer than run at the same time.
OvershootBounded ==
    \A k \in Kinds : count[k] < Max[k] + Cardinality(Requests)

\* The same holds for the calls of a day, also when some of them passed the
\* test on the day before and are counted on this one; calls admitted without
\* a reading come on top.
CallsOvershootBounded ==
    \A d \in Days : calls[d] < MaxCalls + Cardinality(Requests) + blind

=============================================================================
