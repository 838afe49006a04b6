-------------------------- MODULE PlanQuotaProofs --------------------------
(***************************************************************************)
(* Theorems about PlanQuota, for any limits, any kinds of resources and    *)
(* any number of requests at once.                                         *)
(*                                                                         *)
(* A count says too little to be inductive.  What stays below the limit    *)
(* plus the requests at once is the count together with the requests that  *)
(* have passed its test and are still to add to it.                        *)
(***************************************************************************)
EXTENDS PlanQuota, FiniteSetTheorems, TLAPS

Creating(k) == {p \in Requests : k \in kind[p]}
Calling == {p \in Requests : pc[p] = "call"}

Promised ==
    \A k \in Kinds : count[k] + Cardinality(Creating(k)) < Max[k] + Cardinality(Requests)

CallsPromised ==
    /\ calls[day] + Cardinality(Calling) < MaxCalls + Cardinality(Requests) + blind
    /\ Calling # {} => MaxCalls > 0
    /\ \A d \in Days : d > day => calls[d] = 0

USE LimitsAssumption

-----------------------------------------------------------------------------
\* Of the requests at once, those at some point are finitely many and no more
\* than all.
LEMMA PartOfRequests ==
    ASSUME NEW S \in SUBSET Requests
    PROVE  /\ IsFiniteSet(S)
           /\ Cardinality(S) \in Nat /\ Cardinality(Requests) \in Nat
           /\ Cardinality(S) <= Cardinality(Requests)
           /\ Cardinality(Requests) > 0
<1>1. IsFiniteSet(S) /\ Cardinality(S) <= Cardinality(Requests)
  BY FS_Subset DEF LimitsAssumption
<1>2. Cardinality(S) \in Nat /\ Cardinality(Requests) \in Nat
  BY <1>1, FS_CardinalityType DEF LimitsAssumption
<1>3. Cardinality(Requests) # 0
  BY FS_EmptySet DEF LimitsAssumption
<1> QED BY <1>1, <1>2, <1>3

\* One request less.
LEMMA OneLess ==
    ASSUME NEW S \in SUBSET Requests, NEW p \in S
    PROVE  Cardinality(S \ {p}) = Cardinality(S) - 1
BY FS_RemoveElement, PartOfRequests

-----------------------------------------------------------------------------
\* Nothing has been created and nothing counted.
LEMMA QuotaInit == Init => TypeOK /\ Promised /\ CallsPromised
<1> SUFFICES ASSUME Init PROVE TypeOK /\ Promised /\ CallsPromised
  OBVIOUS
<1>1. TypeOK
  BY DEF Init, TypeOK, Days, LimitsAssumption
<1>2. Cardinality({}) = 0 /\ Cardinality(Requests) \in Nat /\ Cardinality(Requests) > 0
  BY FS_EmptySet, PartOfRequests
<1>3. Promised
  <2> SUFFICES ASSUME NEW k \in Kinds
               PROVE  count[k] + Cardinality(Creating(k)) < Max[k] + Cardinality(Requests)
    BY DEF Promised
  <2>1. Creating(k) = {} BY DEF Init, Creating
  <2>2. count[k] = 0 /\ Max[k] \in Nat BY DEF Init, LimitsAssumption
  <2> QED BY <1>2, <2>1, <2>2
<1>4. CallsPromised
  <2>1. Calling = {} BY DEF Init, Calling
  <2>2. calls[day] = 0 /\ blind = 0 /\ \A d \in Days : calls[d] = 0
    BY DEF Init, Days, LimitsAssumption
  <2> QED BY <1>2, <2>1, <2>2 DEF CallsPromised, LimitsAssumption
<1> QED BY <1>1, <1>3, <1>4

\* Every step keeps the types.
LEMMA TypeStep == TypeOK /\ [Next]_vars => TypeOK'
<1> SUFFICES ASSUME TypeOK, [Next]_vars PROVE TypeOK'
  OBVIOUS
<1> USE DEF TypeOK, Goto
<1>1. ASSUME NEW p \in Requests, NEW k \in Kinds, CountByOrg(p, k) PROVE TypeOK'
  BY <1>1 DEF CountByOrg
<1>2. ASSUME NEW p \in Requests, Create(p) PROVE TypeOK'
  <2>1. count' \in [Kinds -> Nat] BY <1>2 DEF Create
  <2> QED BY <1>2, <2>1 DEF Create
<1>3. ASSUME NEW p \in Requests, ReadCalls(p) PROVE TypeOK'
  BY <1>3 DEF ReadCalls, LimitsAssumption
<1>4. ASSUME NEW p \in Requests, CountCall(p) PROVE TypeOK'
  BY <1>4 DEF CountCall, Days
<1>5. ASSUME NEW k \in Kinds, Delete(k) PROVE TypeOK'
  BY <1>5 DEF Delete
<1>6. CASE Midnight
  BY <1>6 DEF Midnight, Days, LimitsAssumption
<1>7. CASE UNCHANGED vars
  BY <1>7 DEF vars
<1> QED BY <1>1, <1>2, <1>3, <1>4, <1>5, <1>6, <1>7 DEF Next

-----------------------------------------------------------------------------
\* A request adds to the rows only what it was counted for.
LEMMA PromisedStep == TypeOK /\ Promised /\ [Next]_vars => Promised'
<1> SUFFICES ASSUME TypeOK, Promised, [Next]_vars, NEW k \in Kinds
             PROVE  (count[k] + Cardinality(Creating(k)) < Max[k] + Cardinality(Requests))'
  BY DEF Promised
<1>k. /\ count[k] \in Nat /\ Max[k] \in Nat
      /\ count[k] + Cardinality(Creating(k)) < Max[k] + Cardinality(Requests)
  BY DEF TypeOK, Promised, LimitsAssumption
<1>c. /\ Creating(k) \in SUBSET Requests /\ Creating(k)' \in SUBSET Requests
      /\ Cardinality(Creating(k)) \in Nat /\ Cardinality(Requests) \in Nat
      /\ Cardinality(Creating(k)') \in Nat
      /\ Cardinality(Creating(k)') <= Cardinality(Requests)
  <2>1. Creating(k) \in SUBSET Requests /\ Creating(k)' \in SUBSET Requests
    BY DEF Creating
  <2> QED BY <2>1, PartOfRequests
<1>1. ASSUME NEW p \in Requests, NEW l \in Kinds, CountByOrg(p, l)
      PROVE  (count[k] + Cardinality(Creating(k)) < Max[k] + Cardinality(Requests))'
  <2>1. CASE l = k
    BY <1>1, <2>1, <1>k, <1>c DEF CountByOrg
  <2>2. CASE l # k
    <3>1. Creating(k)' = Creating(k)
      BY <1>1, <2>2 DEF CountByOrg, Creating, TypeOK
    <3> QED BY <1>1, <3>1, <1>k DEF CountByOrg
  <2> QED BY <2>1, <2>2
<1>2. ASSUME NEW p \in Requests, Create(p)
      PROVE  (count[k] + Cardinality(Creating(k)) < Max[k] + Cardinality(Requests))'
  <2>1. Creating(k)' = Creating(k) \ {p}
    BY <1>2 DEF Create, Creating, TypeOK
  <2>2. CASE k \in kind[p]
    <3>1. Cardinality(Creating(k)') = Cardinality(Creating(k)) - 1
      BY <2>1, <2>2, <1>c, OneLess DEF Creating
    <3>2. count'[k] <= count[k] + 1 /\ count'[k] \in Nat
      BY <1>2, <2>2, <1>k DEF Create
    <3> QED BY <3>1, <3>2, <1>k, <1>c
  <2>3. CASE k \notin kind[p]
    <3>1. Creating(k)' = Creating(k)
      BY <2>1, <2>3 DEF Creating
    <3>2. count'[k] = count[k]
      BY <1>2, <2>3, <1>k DEF Create
    <3> QED BY <3>1, <3>2, <1>k
  <2> QED BY <2>2, <2>3
<1>3. ASSUME NEW p \in Requests, ReadCalls(p) \/ CountCall(p)
      PROVE  (count[k] + Cardinality(Creating(k)) < Max[k] + Cardinality(Requests))'
  BY <1>3, <1>k DEF ReadCalls, CountCall, Creating
<1>4. ASSUME NEW l \in Kinds, Delete(l)
      PROVE  (count[k] + Cardinality(Creating(k)) < Max[k] + Cardinality(Requests))'
  <2>1. Creating(k)' = Creating(k) BY <1>4 DEF Delete, Creating
  <2>2. count'[k] <= count[k] /\ count'[k] \in Int
    BY <1>4, <1>k DEF Delete, TypeOK
  <2> QED BY <2>1, <2>2, <1>k, <1>c
<1>5. CASE Midnight \/ UNCHANGED vars
  BY <1>5, <1>k DEF Midnight, vars, Creating
<1> QED BY <1>1, <1>2, <1>3, <1>4, <1>5 DEF Next

\* The call counter: the same, and at midnight the new counter starts at zero
\* with at most all requests on their way to it.
LEMMA CallsPromisedStep == TypeOK /\ CallsPromised /\ [Next]_vars => CallsPromised'
<1> SUFFICES ASSUME TypeOK, CallsPromised, [Next]_vars PROVE CallsPromised'
  OBVIOUS
<1>t. /\ day \in Days /\ day \in Nat /\ calls[day] \in Nat /\ blind \in Nat /\ MaxCalls \in Nat
      /\ Days \subseteq Nat
  BY DEF TypeOK, Days, LimitsAssumption
<1>c. /\ Calling \in SUBSET Requests /\ Calling' \in SUBSET Requests
      /\ Cardinality(Calling) \in Nat /\ Cardinality(Requests) \in Nat
      /\ Cardinality(Calling') \in Nat
      /\ Cardinality(Calling') <= Cardinality(Requests)
      /\ Cardinality(Requests) > 0
  <2>1. Calling \in SUBSET Requests /\ Calling' \in SUBSET Requests
    BY DEF Calling
  <2> QED BY <2>1, PartOfRequests
<1>1. ASSUME NEW p \in Requests, NEW k \in Kinds, CountByOrg(p, k) PROVE CallsPromised'
  <2>1. Calling' = Calling BY <1>1 DEF CountByOrg, Goto, Calling, TypeOK
  <2> QED BY <1>1, <2>1 DEF CountByOrg, CallsPromised
<1>2. ASSUME NEW p \in Requests, Create(p) PROVE CallsPromised'
  <2>1. Calling' = Calling BY <1>2 DEF Create, Goto, Calling, TypeOK
  <2> QED BY <1>2, <2>1 DEF Create, CallsPromised
<1>3. ASSUME NEW p \in Requests, ReadCalls(p) PROVE CallsPromised'
  <2>1. CASE calls[day] < MaxCalls /\ UNCHANGED blind
    BY <1>3, <2>1, <1>t, <1>c DEF ReadCalls, CallsPromised
  <2>2. CASE MaxCalls > 0 /\ blind < MaxBlind /\ blind' = blind + 1
    <3>1. Calling' = Calling \cup {p} /\ p \notin Calling
      BY <1>3 DEF ReadCalls, Goto, Calling, TypeOK
    <3>2. Cardinality(Calling') = Cardinality(Calling) + 1
      BY <3>1, <1>c, PartOfRequests, FS_AddElement
    <3> QED BY <1>3, <2>2, <3>2, <1>t, <1>c DEF ReadCalls, CallsPromised
  <2> QED BY <1>3, <2>1, <2>2 DEF ReadCalls
<1>4. ASSUME NEW p \in Requests, CountCall(p) PROVE CallsPromised'
  <2>1. Calling' = Calling \ {p} /\ p \in Calling
    BY <1>4 DEF CountCall, Goto, Calling, TypeOK
  <2>2. Cardinality(Calling') = Cardinality(Calling) - 1
    BY <2>1, <1>c, OneLess
  <2>3. calls'[day] <= calls[day] + 1 /\ calls'[day] \in Nat
    BY <1>4, <1>t DEF CountCall, TypeOK
  <2>4. \A d \in Days : d > day => calls'[d] = 0
    BY <1>4, <1>t DEF CountCall, CallsPromised, TypeOK
  <2> QED BY <1>4, <2>1, <2>2, <2>3, <2>4, <1>t, <1>c DEF CountCall, CallsPromised
<1>5. ASSUME NEW k \in Kinds, Delete(k) PROVE CallsPromised'
  BY <1>5 DEF Delete, CallsPromised, Calling
<1>6. CASE Midnight
  <2>1. Calling' = Calling BY <1>6 DEF Midnight, Calling
  <2>2. day' \in Days /\ day' > day
    BY <1>6, <1>t DEF Midnight, Days, LimitsAssumption
  <2>3. calls'[day'] = 0
    BY <1>6, <2>2 DEF Midnight, CallsPromised
  <2>4. Calling' = {} => Cardinality(Calling') = 0
    BY FS_EmptySet
  <2>5. (calls[day] + Cardinality(Calling) < MaxCalls + Cardinality(Requests) + blind)'
    BY <1>6, <2>1, <2>3, <2>4, <1>t, <1>c DEF Midnight, CallsPromised
  <2>6. \A d \in Days : d > day' => calls'[d] = 0
    BY <1>6, <2>2, <1>t DEF Midnight, CallsPromised
  <2> QED BY <1>6, <2>1, <2>5, <2>6 DEF CallsPromised
<1>7. CASE UNCHANGED vars
  BY <1>7 DEF vars, CallsPromised, Calling
<1> QED BY <1>1, <1>2, <1>3, <1>4, <1>5, <1>6, <1>7 DEF Next

\* Counters of other days no longer change, and the bound never falls.
LEMMA OvershootStep ==
    TypeOK /\ CallsPromised /\ CallsPromised' /\ CallsOvershootBounded /\ [Next]_vars
        => CallsOvershootBounded'
<1> SUFFICES ASSUME TypeOK, CallsPromised', CallsOvershootBounded, [Next]_vars, TypeOK',
                    NEW d \in Days
             PROVE  calls'[d] < MaxCalls + Cardinality(Requests) + blind'
  BY TypeStep DEF CallsOvershootBounded
<1>t. /\ day' \in Days /\ calls'[d] \in Nat /\ calls[d] \in Nat /\ blind \in Nat /\ blind' \in Nat
      /\ MaxCalls \in Nat /\ Cardinality(Requests) \in Nat
      /\ calls[d] < MaxCalls + Cardinality(Requests) + blind
  BY PartOfRequests DEF TypeOK, CallsOvershootBounded, LimitsAssumption
<1>1. CASE d = day'
  <2>1. Cardinality(Calling') \in Nat
    BY PartOfRequests DEF Calling
  <2> QED BY <1>1, <2>1, <1>t DEF CallsPromised
<1>2. CASE d # day'
  <2>1. calls'[d] = calls[d]
    BY <1>2 DEF Next, CountByOrg, Create, ReadCalls, CountCall, Delete, Midnight, vars, TypeOK
  <2>2. blind' >= blind
    BY <1>t DEF Next, CountByOrg, Create, ReadCalls, CountCall, Delete, Midnight, vars
  <2> QED BY <2>1, <2>2, <1>t
<1> QED BY <1>1, <1>2

-----------------------------------------------------------------------------
QuotaInv == TypeOK /\ Promised /\ CallsPromised /\ CallsOvershootBounded

\* The strengthened invariant holds always.
LEMMA QuotaInvariant == Spec => []QuotaInv
<1>1. Init => QuotaInv
  <2> SUFFICES ASSUME Init PROVE CallsOvershootBounded
    BY QuotaInit DEF QuotaInv
  <2>1. Cardinality(Requests) \in Nat /\ Cardinality(Requests) > 0
    BY PartOfRequests
  <2> QED BY <2>1 DEF Init, CallsOvershootBounded, LimitsAssumption
<1>2. QuotaInv /\ [Next]_vars => QuotaInv'
  BY TypeStep, PromisedStep, CallsPromisedStep, OvershootStep DEF QuotaInv
<1> QED BY <1>1, <1>2, PTL DEF Spec

\* The counters and requests of the quota keep their types.
THEOREM TypeCorrect == Spec => []TypeOK
<1>1. QuotaInv => TypeOK
  BY DEF QuotaInv
<1> QED BY <1>1, QuotaInvariant, PTL

\* Whatever overlaps, an organization exceeds the limit of a resource by less
\* than the number of requests that run at once.
THEOREM LimitsSafe == Spec => []OvershootBounded
<1>1. QuotaInv => OvershootBounded
  <2> SUFFICES ASSUME QuotaInv, NEW k \in Kinds
               PROVE  count[k] < Max[k] + Cardinality(Requests)
    BY DEF OvershootBounded
  <2>1. Cardinality(Creating(k)) \in Nat /\ Cardinality(Requests) \in Nat
    BY PartOfRequests DEF Creating
  <2> QED BY <2>1 DEF QuotaInv, Promised, TypeOK, LimitsAssumption
<1> QED BY <1>1, QuotaInvariant, PTL

\* The calls of a day exceed the quota by less than the number of requests that
\* run at once and those that Redis let through unread.
THEOREM CallsSafe == Spec => []CallsOvershootBounded
<1>1. QuotaInv => CallsOvershootBounded
  BY DEF QuotaInv
<1> QED BY <1>1, QuotaInvariant, PTL

=============================================================================
