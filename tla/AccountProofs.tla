---------------------------- MODULE AccountProofs ----------------------------
(***************************************************************************)
(* Theorems about the lockout, the mailed links and the password history   *)
(* of AccountParts, for any number of requests, of links, of rows and of   *)
(* allowed attempts, and about the types of these and of the cached        *)
(* profile.  What is bounded is no count by itself but the count together  *)
(* with what the requests under way are about to add to it.  The lockout   *)
(* and the links share the account's flags, on which neither of their      *)
(* invariants depends.  The sessions have TokenSessionsProofs.             *)
(***************************************************************************)
EXTENDS AccountParts, Sequences, FiniteSetTheorems, TLAPS

\* The assumptions on the constants, in the terms of this module.
LEMMA Constants ==
    /\ MaxAttempts \in Nat \ {0} /\ Lockout \in Nat \ {0} /\ MaxLost \in Nat
    /\ IsFiniteSet(LoginRequests) /\ IsFiniteSet(Requests) /\ IsFiniteSet(Tokens)
    /\ None \notin Tokens
    /\ Limit \in Nat \ {0} /\ MaxChanges \in Nat
    /\ UserTtl \in Nat \ {0} /\ MaxUpdates \in Nat /\ None \notin UC!Rows
BY LockoutConstants, TokensConstants, HistoryConstants, CacheConstants
   DEF LL!LockoutAssumption, OT!TokensAssumption, PH!HistoryAssumption, UC!CacheAssumption,
       LL!IsFiniteSet, OT!IsFiniteSet, IsFiniteSet

\* Sizes of the parts of a finite set, and of a part one smaller or larger.
LEMMA Sizes ==
    ASSUME NEW S, IsFiniteSet(S), NEW T \in SUBSET S
    PROVE  /\ Cardinality(S) \in Nat /\ Cardinality(T) \in Nat
           /\ Cardinality(T) <= Cardinality(S)
           /\ \A x \in T : Cardinality(T \ {x}) = Cardinality(T) - 1
           /\ \A x \in S \ T : Cardinality(T \cup {x}) = Cardinality(T) + 1
<1>1. IsFiniteSet(T) /\ Cardinality(T) <= Cardinality(S)
  BY FS_Subset
<1> QED BY <1>1, FS_CardinalityType, FS_RemoveElement, FS_AddElement

-----------------------------------------------------------------------------
\* The lockout.
Locking == {p \in LoginRequests : loginPc[p] = "lock"}

LockoutInv ==
    /\ attempts \in Nat
    /\ lockLeft \in 0..Lockout
    /\ loginPc \in [LoginRequests -> LL!Labels]
    /\ pending \in [LoginRequests -> 0..Lockout]
    /\ lost \in Nat
    /\ attempts < MaxAttempts + lost + Cardinality(Locking)
    /\ lockLeft > 0 => \A p \in LoginRequests : loginPc[p] \in LL!PastTest => p \in spared

LEMMA LockoutInit == LL!Init => LockoutInv
<1> SUFFICES ASSUME LL!Init PROVE LockoutInv
  OBVIOUS
<1>1. Cardinality(Locking) \in Nat
  BY Constants, Sizes DEF Locking
<1> QED BY <1>1, Constants DEF LL!Init, LockoutInv, LL!Labels, LL!PastTest

LEMMA LockoutStep == LockoutInv /\ (LL!Next \/ UNCHANGED lockoutVars) => LockoutInv'
<1> SUFFICES ASSUME LockoutInv, LL!Next \/ UNCHANGED lockoutVars PROVE LockoutInv'
  OBVIOUS
<1> USE DEF LL!Goto, LL!Finish, LL!rowVars, LL!Labels, LL!PastTest
<1>c. /\ Locking \in SUBSET LoginRequests /\ Locking' \in SUBSET LoginRequests
      /\ Cardinality(Locking) \in Nat /\ Cardinality(Locking') \in Nat
      /\ MaxAttempts \in Nat \ {0} /\ Lockout \in Nat \ {0}
  <2>1. Locking \in SUBSET LoginRequests /\ Locking' \in SUBSET LoginRequests
    BY DEF Locking
  <2> QED BY <2>1, Constants, Sizes
<1>1. ASSUME NEW p \in LoginRequests, LL!Lookup(p) \/ LL!ForceLookup(p) \/ LL!Compare(p)
      PROVE  LockoutInv'
  <2>1. Locking' = Locking
    BY <1>1 DEF LL!Lookup, LL!ForceLookup, LL!Compare, Locking, LockoutInv
  <2> QED BY <1>1, <2>1, <1>c DEF LL!Lookup, LL!ForceLookup, LL!Compare, LockoutInv
<1>2. ASSUME NEW p \in LoginRequests, LL!Increment(p) PROVE LockoutInv'
  <2>1. CASE attempts' >= MaxAttempts
    <3>1. Locking' = Locking \cup {p} /\ p \in LoginRequests \ Locking
      BY <1>2, <2>1 DEF LL!Increment, Locking, LockoutInv
    <3>2. Cardinality(Locking') = Cardinality(Locking) + 1
      BY <3>1, <1>c, Constants, Sizes
    <3> QED BY <1>2, <2>1, <3>2, <1>c DEF LL!Increment, LockoutInv
  <2>2. CASE ~(attempts' >= MaxAttempts)
    <3>1. attempts' < MaxAttempts + lost' + Cardinality(Locking')
      BY <1>2, <2>2, <1>c DEF LL!Increment, LockoutInv
    <3> QED BY <1>2, <2>2, <3>1, <1>c DEF LL!Increment, LockoutInv
  <2> QED BY <2>1, <2>2
<1>3. ASSUME NEW p \in LoginRequests, LL!Lock(p) PROVE LockoutInv'
  BY <1>3, <1>c DEF LL!Lock, LockoutInv
<1>4. ASSUME NEW p \in LoginRequests, LL!Reset(p) \/ LL!ForceActivate(p) PROVE LockoutInv'
  BY <1>4, <1>c DEF LL!Reset, LL!ForceActivate, LockoutInv
<1>5. ASSUME NEW p \in LoginRequests, LL!Fail(p) PROVE LockoutInv'
  <2>1. Locking' = Locking \ {p}
    BY <1>5 DEF LL!Fail, Locking, LockoutInv
  <2>2. attempts' < MaxAttempts + lost' + Cardinality(Locking')
    <3>1. CASE p \in Locking
      <4>1. Cardinality(Locking') = Cardinality(Locking) - 1
        BY <2>1, <3>1, <1>c, Constants, Sizes
      <4>2. attempts' = attempts /\ lost' = lost + 1
        BY <1>5, <3>1 DEF LL!Fail, Locking
      <4> QED BY <4>1, <4>2, <1>c DEF LockoutInv
    <3>2. CASE p \notin Locking
      <4>1. Locking' = Locking /\ attempts' = attempts /\ lost' = lost
        BY <1>5, <2>1, <3>2 DEF LL!Fail, Locking
      <4> QED BY <4>1 DEF LockoutInv
    <3> QED BY <3>1, <3>2
  <2>3. lost' \in Nat
    BY <1>5 DEF LL!Fail, LockoutInv
  <2> QED BY <1>5, <2>2, <2>3, <1>c DEF LL!Fail, LockoutInv
<1>6. CASE LL!VerifyEmail \/ LL!SetActive(TRUE) \/ LL!SetActive(FALSE) \/ UNCHANGED lockoutVars
  <2>1. UNCHANGED lockoutVars
    BY <1>6 DEF LL!VerifyEmail, LL!SetActive, lockoutVars
  <2> QED BY <2>1 DEF LockoutInv, Locking, lockoutVars
<1>7. CASE LL!Tick
  <2>1. Locking' = Locking
    BY <1>7 DEF LL!Tick, Locking
  <2>2. \A n \in 0..Lockout : LL!Less(n) \in 0..Lockout /\ (LL!Less(n) > 0 => n > 0)
    BY <1>c DEF LL!Less
  <2> QED BY <1>7, <2>1, <2>2 DEF LL!Tick, LockoutInv
<1> QED
  BY <1>1, <1>2, <1>3, <1>4, <1>5, <1>6, <1>7 DEF LL!Next, LL!Continue

LEMMA LockoutInvariant == Spec => []LockoutInv
<1>1. Init => LockoutInv
  BY LockoutInit DEF Init
<1>2. [Next]_vars => LL!Next \/ UNCHANGED lockoutVars
  BY DEF Next, vars
<1> QED BY <1>1, <1>2, LockoutStep, PTL DEF Spec

\* For any limit and any number of logins at once, none of the failures that
\* call for a lock is overlooked.
THEOREM LockoutSafe == Spec => []AttemptsBounded
<1>1. LockoutInv => AttemptsBounded
  BY DEF LockoutInv, Locking, AttemptsBounded, LL!AttemptsBounded, LL!Cardinality, Cardinality
<1> QED BY <1>1, LockoutInvariant, PTL

\* However many logins run at once, none that starts while the lock lasts gets
\* past the test.
THEOREM LockKeepsOut == Spec => []LockStopsLaterLogins
<1>1. LockoutInv => LockStopsLaterLogins
  BY DEF LockoutInv, LockStopsLaterLogins, LL!LockStopsLaterLogins
<1> QED BY <1>1, LockoutInvariant, PTL

-----------------------------------------------------------------------------
\* The mailed links: those that are about to be inserted count as open, and
\* those about to be marked as redeemed.
Inserting(k) == {p \in Requests : linkPc[p] = "insert" /\ goal[p] = k}
Marking(t) == {p \in Requests : linkPc[p] = "mark" /\ tok[p] = t}

LinksInv ==
    /\ row \in [Tokens -> {"unused", "live", "used", "erased"}]
    /\ purpose \in [Tokens -> OT!Purposes \cup {"none"}]
    /\ linkPc \in [Requests -> OT!Labels]
    /\ goal \in [Requests -> OT!Purposes \cup {"none"}]
    /\ tok \in [Requests -> Tokens \cup {None}]
    /\ redeemed \in [Tokens -> Nat]
    /\ \A p \in Requests : linkPc[p] = "mark" => tok[p] \in Tokens /\ row[tok[p]] # "unused"
    /\ \A t \in Tokens : row[t] \in {"unused", "live"} => redeemed[t] = 0

LinksPromised ==
    \A k \in OT!Purposes :
        Cardinality(OT!Live(k)) + Cardinality(Inserting(k)) <= Cardinality(Requests)

MarksPromised ==
    \A t \in Tokens : redeemed[t] + Cardinality(Marking(t)) <= Cardinality(Requests)

\* The sets counted are finite.
LEMMA LinkSizes ==
    /\ \A k : /\ OT!Live(k) \in SUBSET Tokens /\ Cardinality(OT!Live(k)) \in Nat
              /\ Inserting(k) \in SUBSET Requests /\ Cardinality(Inserting(k)) \in Nat
              /\ Cardinality(Inserting(k)) <= Cardinality(Requests)
    /\ \A t : /\ Marking(t) \in SUBSET Requests /\ Cardinality(Marking(t)) \in Nat
              /\ Cardinality(Marking(t)) <= Cardinality(Requests)
    /\ Cardinality(Requests) \in Nat
<1>1. /\ \A k : OT!Live(k) \in SUBSET Tokens /\ Inserting(k) \in SUBSET Requests
      /\ \A t : Marking(t) \in SUBSET Requests
  BY DEF OT!Live, Inserting, Marking
<1> QED BY <1>1, Constants, Sizes

LEMMA LinksInit == OT!Init => LinksInv /\ LinksPromised /\ MarksPromised
<1> SUFFICES ASSUME OT!Init PROVE LinksInv /\ LinksPromised /\ MarksPromised
  OBVIOUS
<1>1. \A k : OT!Live(k) = {} /\ Inserting(k) = {}
  BY DEF OT!Init, OT!Live, Inserting
<1>2. \A t : Marking(t) = {}
  BY DEF OT!Init, Marking
<1>3. Cardinality({}) = 0 /\ Cardinality(Requests) \in Nat
  BY LinkSizes, FS_EmptySet
<1>4. LinksInv
  BY DEF OT!Init, LinksInv, OT!Labels, OT!Purposes
<1>5. LinksPromised
  BY <1>1, <1>3 DEF LinksPromised
<1>6. MarksPromised
  BY <1>2, <1>3 DEF MarksPromised, OT!Init
<1> QED BY <1>4, <1>5, <1>6

LEMMA LinksStep == LinksInv /\ (OT!Next \/ UNCHANGED linkVars) => LinksInv'
<1> SUFFICES ASSUME LinksInv, OT!Next \/ UNCHANGED linkVars PROVE LinksInv'
  OBVIOUS
<1> USE DEF LinksInv, OT!Goto, OT!Advance, OT!Finish, OT!Enter, OT!Labels, OT!Redeeming,
            OT!Purposes, OT!accountVars, OT!tokenVars, OT!requestVars
<1>1. ASSUME NEW p \in Requests,
             OT!RegisterLookup(p) \/ OT!Resend(p) \/ OT!Forgot(p) \/ OT!ForceLookup(p)
      PROVE  LinksInv'
  BY <1>1 DEF OT!RegisterLookup, OT!Resend, OT!Forgot, OT!ForceLookup
<1>2. ASSUME NEW p \in Requests, NEW t \in Tokens, OT!Lookup(p, t) PROVE LinksInv'
  BY <1>2 DEF OT!Lookup
<1>3. ASSUME NEW p \in Requests, OT!Create(p) PROVE LinksInv'
  BY <1>3 DEF OT!Create
<1>4. ASSUME NEW p \in Requests, OT!Invalidate(p) \/ OT!Sweep(p) PROVE LinksInv'
  BY <1>4 DEF OT!Invalidate, OT!Sweep, OT!MarkAllUsed, OT!Live
<1>5. ASSUME NEW p \in Requests, OT!Insert(p) PROVE LinksInv'
  BY <1>5 DEF OT!Insert
<1>6. ASSUME NEW p \in Requests, OT!MarkUsed(p) PROVE LinksInv'
  BY <1>6 DEF OT!MarkUsed
<1>7. ASSUME NEW p \in Requests,
             OT!Owner(p) \/ OT!MarkVerified(p) \/ OT!SetPassword(p) \/ OT!ForceActivate(p)
                \/ OT!Fail(p)
      PROVE  LinksInv'
  BY <1>7 DEF OT!Owner, OT!MarkVerified, OT!SetPassword, OT!ForceActivate, OT!Fail
<1>8. CASE OT!Delete BY <1>8 DEF OT!Delete
<1>9. ASSUME NEW t \in Tokens, OT!Expire(t) PROVE LinksInv'
  BY <1>9 DEF OT!Expire
<1>10. CASE OT!SetActive(TRUE) \/ OT!SetActive(FALSE) BY <1>10 DEF OT!SetActive
<1>11. CASE UNCHANGED linkVars BY <1>11 DEF linkVars
<1> QED
  BY <1>1, <1>2, <1>3, <1>4, <1>5, <1>6, <1>7, <1>8, <1>9, <1>10, <1>11
  DEF OT!Next, OT!Begin, OT!Continue

\* A link is opened by a request that was about to, and whoever is about to
\* has closed all the others of its kind.
LEMMA LinksPromisedStep ==
    LinksInv /\ LinksPromised /\ (OT!Next \/ UNCHANGED linkVars) => LinksPromised'
<1> SUFFICES ASSUME LinksInv, LinksPromised, OT!Next \/ UNCHANGED linkVars,
                    NEW k \in OT!Purposes
             PROVE  (Cardinality(OT!Live(k)) + Cardinality(Inserting(k)) <= Cardinality(Requests))'
  BY DEF LinksPromised, OT!Purposes
<1>n. k # "none"
  BY DEF OT!Purposes
<1>c. /\ OT!Live(k) \in SUBSET Tokens /\ Inserting(k) \in SUBSET Requests
      /\ Cardinality(OT!Live(k)) \in Nat /\ Cardinality(Inserting(k)) \in Nat
      /\ Cardinality(OT!Live(k)') \in Nat /\ Cardinality(Inserting(k)') \in Nat
      /\ Cardinality(Inserting(k)') <= Cardinality(Requests) /\ Cardinality(Requests) \in Nat
      /\ Cardinality(OT!Live(k)) + Cardinality(Inserting(k)) <= Cardinality(Requests)
  <2>1. OT!Live(k)' \in SUBSET Tokens /\ Inserting(k)' \in SUBSET Requests
    BY DEF OT!Live, Inserting
  <2>2. Cardinality(OT!Live(k)') \in Nat /\ Cardinality(Inserting(k)') \in Nat
        /\ Cardinality(Inserting(k)') <= Cardinality(Requests)
    BY <2>1, Constants, Sizes
  <2> QED BY <2>2, LinkSizes DEF LinksPromised
\* A step that opens no link and lets nobody set out to open one.
<1>q. ASSUME OT!Live(k)' \subseteq OT!Live(k), Inserting(k)' \subseteq Inserting(k)
      PROVE  (Cardinality(OT!Live(k)) + Cardinality(Inserting(k)) <= Cardinality(Requests))'
  <2>1. Cardinality(OT!Live(k)') <= Cardinality(OT!Live(k))
        /\ Cardinality(Inserting(k)') <= Cardinality(Inserting(k))
    <3>1. IsFiniteSet(OT!Live(k)) /\ IsFiniteSet(Inserting(k))
      BY <1>c, Constants, FS_Subset
    <3> QED BY <1>q, <3>1, FS_Subset
  <2> QED BY <2>1, <1>c
<1> USE DEF OT!Goto, OT!Advance, OT!Finish, OT!Enter, OT!accountVars, OT!tokenVars,
            OT!requestVars
<1>1. ASSUME NEW p \in Requests,
             OT!RegisterLookup(p) \/ OT!Resend(p) \/ OT!Forgot(p) \/ OT!ForceLookup(p)
                \/ OT!Create(p) \/ OT!MarkUsed(p) \/ OT!Owner(p) \/ OT!MarkVerified(p)
                \/ OT!SetPassword(p) \/ OT!ForceActivate(p) \/ OT!Sweep(p) \/ OT!Fail(p)
      PROVE  (Cardinality(OT!Live(k)) + Cardinality(Inserting(k)) <= Cardinality(Requests))'
  <2>1. Inserting(k)' \subseteq Inserting(k)
    BY <1>1 DEF OT!RegisterLookup, OT!Resend, OT!Forgot, OT!ForceLookup, OT!Create,
       OT!MarkUsed, OT!Owner, OT!MarkVerified, OT!SetPassword, OT!ForceActivate, OT!Sweep,
       OT!Fail, Inserting, LinksInv
  <2>2. OT!Live(k)' \subseteq OT!Live(k)
    BY <1>1 DEF OT!RegisterLookup, OT!Resend, OT!Forgot, OT!ForceLookup, OT!Create,
       OT!MarkUsed, OT!Owner, OT!MarkVerified, OT!SetPassword, OT!ForceActivate, OT!Sweep,
       OT!Fail, OT!MarkAllUsed, OT!Live, LinksInv
  <2> QED BY <2>1, <2>2, <1>q
<1>2. ASSUME NEW p \in Requests, NEW t \in Tokens, OT!Lookup(p, t) PROVE (Cardinality(OT!Live(k)) + Cardinality(Inserting(k)) <= Cardinality(Requests))'
  <2>1. Inserting(k)' \subseteq Inserting(k) /\ OT!Live(k)' = OT!Live(k)
    BY <1>2 DEF OT!Lookup, Inserting, OT!Live, LinksInv
  <2> QED BY <2>1, <1>q
<1>3. ASSUME NEW p \in Requests, OT!Invalidate(p) PROVE (Cardinality(OT!Live(k)) + Cardinality(Inserting(k)) <= Cardinality(Requests))'
  <2>1. CASE goal[p] = k
    <3>1. OT!Live(k)' = {}
      BY <1>3, <2>1 DEF OT!Invalidate, OT!MarkAllUsed, OT!Live
    <3> QED BY <3>1, <1>c, FS_EmptySet
  <2>2. CASE goal[p] # k
    <3>1. Inserting(k)' \subseteq Inserting(k) /\ OT!Live(k)' \subseteq OT!Live(k)
      BY <1>3, <2>2 DEF OT!Invalidate, OT!MarkAllUsed, OT!Live, Inserting, LinksInv
    <3> QED BY <3>1, <1>q
  <2> QED BY <2>1, <2>2
<1>4. ASSUME NEW p \in Requests, OT!Insert(p) PROVE (Cardinality(OT!Live(k)) + Cardinality(Inserting(k)) <= Cardinality(Requests))'
  <2>1. Inserting(k)' = Inserting(k) \ {p}
    BY <1>4, <1>n DEF OT!Insert, Inserting, LinksInv
  <2>2. CASE OT!Live(k)' = OT!Live(k)
    BY <2>1, <2>2, <1>q
  <2>3. CASE OT!Live(k)' # OT!Live(k)
    <3>1. PICK t \in Tokens : /\ row[t] = "unused" /\ row' = [row EXCEPT ![t] = "live"]
                              /\ purpose' = [purpose EXCEPT ![t] = goal[p]]
      BY <1>4, <2>3 DEF OT!Insert, OT!Live
    <3>2. CASE goal[p] = k
      <4>1. OT!Live(k)' = OT!Live(k) \cup {t} /\ t \in Tokens \ OT!Live(k)
        BY <3>1, <3>2 DEF OT!Live, LinksInv
      <4>2. p \in Inserting(k)
        BY <1>4, <3>2 DEF OT!Insert, Inserting
      <4>3. Cardinality(OT!Live(k)') = Cardinality(OT!Live(k)) + 1
        BY <4>1, <1>c, Constants, Sizes
      <4>4. Cardinality(Inserting(k)') = Cardinality(Inserting(k)) - 1
        BY <2>1, <4>2, <1>c, Constants, Sizes
      <4> QED BY <4>3, <4>4, <1>c
    <3>3. CASE goal[p] # k
      <4>1. OT!Live(k)' \subseteq OT!Live(k)
        BY <3>1, <3>3 DEF OT!Live, LinksInv
      <4> QED BY <2>1, <4>1, <1>q
    <3> QED BY <3>2, <3>3
  <2> QED BY <2>2, <2>3
<1>5. CASE OT!Delete \/ OT!SetActive(TRUE) \/ OT!SetActive(FALSE) \/ UNCHANGED linkVars
  <2>1. Inserting(k)' \subseteq Inserting(k) /\ OT!Live(k)' \subseteq OT!Live(k)
    BY <1>5 DEF OT!Delete, OT!SetActive, linkVars, Inserting, OT!Live, LinksInv
  <2> QED BY <2>1, <1>q
<1>6. ASSUME NEW t \in Tokens, OT!Expire(t) PROVE (Cardinality(OT!Live(k)) + Cardinality(Inserting(k)) <= Cardinality(Requests))'
  <2>1. Inserting(k)' = Inserting(k) /\ OT!Live(k)' = OT!Live(k)
    BY <1>6 DEF OT!Expire, Inserting, OT!Live
  <2> QED BY <2>1, <1>q
<1> QED
  BY <1>1, <1>2, <1>3, <1>4, <1>5, <1>6 DEF OT!Next, OT!Begin, OT!Continue

\* A link is redeemed by a request that had found it alive, and none finds it
\* alive once it has been redeemed.
LEMMA MarksPromisedStep ==
    LinksInv /\ MarksPromised /\ (OT!Next \/ UNCHANGED linkVars) => MarksPromised'
<1> SUFFICES ASSUME LinksInv, MarksPromised, OT!Next \/ UNCHANGED linkVars, NEW t \in Tokens
             PROVE  (redeemed[t] + Cardinality(Marking(t)) <= Cardinality(Requests))'
  BY DEF MarksPromised
<1>c. /\ Marking(t) \in SUBSET Requests /\ redeemed[t] \in Nat
      /\ Cardinality(Marking(t)) \in Nat /\ Cardinality(Marking(t)') \in Nat
      /\ Cardinality(Marking(t)') <= Cardinality(Requests) /\ Cardinality(Requests) \in Nat
      /\ redeemed[t] + Cardinality(Marking(t)) <= Cardinality(Requests)
  <2>1. Marking(t)' \in SUBSET Requests
    BY DEF Marking
  <2>2. Cardinality(Marking(t)') \in Nat /\ Cardinality(Marking(t)') <= Cardinality(Requests)
    BY <2>1, Constants, Sizes
  <2> QED BY <2>2, LinkSizes DEF MarksPromised, LinksInv
\* A step that neither redeems nor finds the link.
<1>q. ASSUME redeemed'[t] = redeemed[t], Marking(t)' \subseteq Marking(t)
      PROVE  (redeemed[t] + Cardinality(Marking(t)) <= Cardinality(Requests))'
  <2>1. IsFiniteSet(Marking(t))
    BY <1>c, Constants, FS_Subset
  <2>2. Cardinality(Marking(t)') <= Cardinality(Marking(t))
    BY <1>q, <2>1, FS_Subset
  <2> QED BY <1>q, <2>2, <1>c
<1> USE DEF OT!Goto, OT!Advance, OT!Finish, OT!Enter, OT!accountVars, OT!tokenVars,
            OT!requestVars
<1>1. ASSUME NEW p \in Requests,
             OT!RegisterLookup(p) \/ OT!Resend(p) \/ OT!Forgot(p) \/ OT!ForceLookup(p)
                \/ OT!Create(p) \/ OT!Invalidate(p) \/ OT!Insert(p) \/ OT!Owner(p)
                \/ OT!MarkVerified(p) \/ OT!SetPassword(p) \/ OT!ForceActivate(p)
                \/ OT!Sweep(p) \/ OT!Fail(p)
      PROVE  (redeemed[t] + Cardinality(Marking(t)) <= Cardinality(Requests))'
  <2>1. redeemed' = redeemed
    BY <1>1 DEF OT!RegisterLookup, OT!Resend, OT!Forgot, OT!ForceLookup, OT!Create,
       OT!Invalidate, OT!Insert, OT!Owner, OT!MarkVerified, OT!SetPassword,
       OT!ForceActivate, OT!Sweep, OT!Fail
  <2>2. Marking(t)' \subseteq Marking(t)
    BY <1>1 DEF OT!RegisterLookup, OT!Resend, OT!Forgot, OT!ForceLookup, OT!Create,
       OT!Invalidate, OT!Insert, OT!Owner, OT!MarkVerified, OT!SetPassword,
       OT!ForceActivate, OT!Sweep, OT!Fail, Marking, LinksInv
  <2> QED BY <2>1, <2>2, <1>q
<1>2. ASSUME NEW p \in Requests, NEW u \in Tokens, OT!Lookup(p, u) PROVE (redeemed[t] + Cardinality(Marking(t)) <= Cardinality(Requests))'
  <2>1. CASE u = t
    <3>1. redeemed'[t] = 0
      BY <1>2, <2>1 DEF OT!Lookup, LinksInv
    <3> QED BY <3>1, <1>c
  <2>2. CASE u # t
    <3>1. redeemed' = redeemed /\ Marking(t)' \subseteq Marking(t)
      BY <1>2, <2>2 DEF OT!Lookup, Marking, LinksInv
    <3> QED BY <3>1, <1>q
  <2> QED BY <2>1, <2>2
<1>3. ASSUME NEW p \in Requests, OT!MarkUsed(p) PROVE (redeemed[t] + Cardinality(Marking(t)) <= Cardinality(Requests))'
  <2>1. CASE tok[p] = t /\ row[t] # "erased"
    <3>1. Marking(t)' = Marking(t) \ {p} /\ p \in Marking(t)
      BY <1>3, <2>1 DEF OT!MarkUsed, Marking, LinksInv
    <3>2. Cardinality(Marking(t)') = Cardinality(Marking(t)) - 1
      BY <3>1, <1>c, Constants, Sizes
    <3>3. redeemed'[t] = redeemed[t] + 1
      BY <1>3, <2>1 DEF OT!MarkUsed, LinksInv
    <3> QED BY <3>2, <3>3, <1>c
  <2>2. CASE ~(tok[p] = t /\ row[t] # "erased")
    <3>1. redeemed'[t] = redeemed[t] /\ Marking(t)' \subseteq Marking(t)
      BY <1>3, <2>2 DEF OT!MarkUsed, Marking, LinksInv
    <3> QED BY <3>1, <1>q
  <2> QED BY <2>1, <2>2
<1>4. CASE OT!Delete \/ OT!SetActive(TRUE) \/ OT!SetActive(FALSE) \/ UNCHANGED linkVars
  <2>1. redeemed' = redeemed /\ Marking(t)' = Marking(t)
    BY <1>4 DEF OT!Delete, OT!SetActive, linkVars, Marking
  <2> QED BY <2>1, <1>q
<1>5. ASSUME NEW u \in Tokens, OT!Expire(u) PROVE (redeemed[t] + Cardinality(Marking(t)) <= Cardinality(Requests))'
  <2>1. redeemed' = redeemed /\ Marking(t)' = Marking(t)
    BY <1>5 DEF OT!Expire, Marking
  <2> QED BY <2>1, <1>q
<1> QED
  BY <1>1, <1>2, <1>3, <1>4, <1>5 DEF OT!Next, OT!Begin, OT!Continue

LEMMA LinksInvariant == Spec => [](LinksInv /\ LinksPromised /\ MarksPromised)
<1>1. Init => LinksInv /\ LinksPromised /\ MarksPromised
  BY LinksInit DEF Init
<1>2. [Next]_vars => OT!Next \/ UNCHANGED linkVars
  BY DEF Next, vars
<1> QED BY <1>1, <1>2, LinksStep, LinksPromisedStep, MarksPromisedStep, PTL DEF Spec

\* However many links are asked for at once, the open ones of a kind never
\* outnumber the requests.
THEOREM LinksSafe == Spec => []LiveLinksBounded
<1>1. LinksPromised => LiveLinksBounded
  <2> SUFFICES ASSUME LinksPromised, NEW k \in OT!Purposes
               PROVE  Cardinality(OT!Live(k)) <= Cardinality(Requests)
    BY DEF LiveLinksBounded, OT!LiveLinksBounded, OT!Cardinality, Cardinality
  <2> QED BY LinkSizes DEF LinksPromised
<1> QED BY <1>1, LinksInvariant, PTL

\* However many requests present a link, only those that had all found it
\* before the first of them marked it redeem it.
THEOREM RedemptionSafe == Spec => []RedemptionsBounded
<1>1. LinksInv /\ MarksPromised => RedemptionsBounded
  <2> SUFFICES ASSUME LinksInv, MarksPromised, NEW t \in Tokens
               PROVE  redeemed[t] <= Cardinality(Requests)
    BY DEF RedemptionsBounded, OT!RedemptionsBounded, OT!Cardinality, Cardinality
  <2> QED BY LinkSizes DEF MarksPromised, LinksInv
<1> QED BY <1>1, LinksInvariant, PTL

-----------------------------------------------------------------------------
\* The password history.  A transaction finds what to trim before it commits,
\* and others commit in between.  What is bounded is the table as it would be
\* if any of the transactions that are about to commit did.
Committing == {p \in Requests : changePc[p] = "commit"}

Kept(S) == (kept \cup UNION {ownRow[p] : p \in S}) \ UNION {doomed[p] : p \in S}

Updating == {p \in Requests : changePc[p] = "update"}

RowsApart ==
    /\ \A p \in Requests : \A m, n \in ownRow[p] : m = n
    /\ \A p, q \in Requests :
          p # q => ownRow[p] \cap ownRow[q] = {} /\ doomed[p] \cap ownRow[q] = {}

ChangesBounded == Len(past) + Cardinality(Updating) <= MaxChanges

HistoryInv == PH!TypeOK /\ RowsApart /\ ChangesBounded

HistoryPromised ==
    \A S \in SUBSET Committing : Cardinality(Kept(S)) < Limit + Cardinality(Requests)

\* A set of naturals that is bounded has a greatest member.
LEMMA GreatestBelow ==
    ASSUME NEW N \in Nat, NEW S \in SUBSET (1..N), S # {}
    PROVE  \E m \in S : \A n \in S : n <= m
<1> DEFINE Distances == {N - n : n \in S}
<1>1. PICK d \in Distances : \A e \in Distances : ~(<<e, d>> \in OpToRel(<, Nat))
  <2>1. \A n \in S : N - n \in Nat
    OBVIOUS
  <2>2. Distances \subseteq Nat /\ Distances # {}
    BY <2>1
  <2> HIDE DEF Distances
  <2> QED BY <2>2, NatLessThanWellFounded, WFMin
<1>2. PICK m \in S : d = N - m
  OBVIOUS
<1>3. ASSUME NEW n \in S PROVE n <= m
  <2>1. N - n \in Distances /\ N - n \in Nat /\ N - m \in Nat
    OBVIOUS
  <2>2. ~(N - n < N - m)
    BY <1>1, <1>2, <2>1 DEF OpToRel
  <2> QED BY <2>2
<1> QED BY <1>3

\* Of the rows of a table, at most L have fewer than L older ones.
LEMMA OldestFew ==
    ASSUME NEW N \in Nat, NEW T \in SUBSET (1..N), NEW L \in Nat \ {0}
    PROVE  Cardinality({n \in T : Cardinality(PH!Older(T, n)) < L}) <= L
<1> DEFINE K == {n \in T : Cardinality(PH!Older(T, n)) < L}
<1>1. IsFiniteSet(T)
  <2>1. IsFiniteSet(1..N)
    BY FS_Interval
  <2> QED BY <2>1, FS_Subset
<1>2. CASE K = {}
  BY <1>2, FS_EmptySet
<1>3. CASE K # {}
  <2>1. PICK m \in K : \A n \in K : n <= m
    <3>1. K \in SUBSET (1..N)
      OBVIOUS
    <3> HIDE DEF K
    <3> QED BY <1>3, <3>1, GreatestBelow
  <2> DEFINE O == PH!Older(T, m)
  <2>o. O = {n \in T : n < m}
    BY DEF PH!Older
  <2>2. m \in T /\ O \in SUBSET T /\ m \notin O /\ K \subseteq O \cup {m}
    <3>1. m \in T /\ O \in SUBSET T /\ m \notin O
      BY <2>o
    <3>2. ASSUME NEW n \in K PROVE n \in O \cup {m}
      <4>1. n \in T /\ n <= m /\ n \in Nat /\ m \in Nat
        BY <2>1
      <4> QED BY <2>o, <4>1
    <3> QED BY <3>1, <3>2
  <2>3. Cardinality(O) < L
    BY <2>1
  <2>4. O \cup {m} \in SUBSET T /\ m \in T \ O
    BY <2>2
  <2> HIDE DEF K, O
  <2>5. Cardinality(O \cup {m}) = Cardinality(O) + 1 /\ Cardinality(O) \in Nat
    BY <1>1, <2>2, <2>4, Sizes
  <2>6. IsFiniteSet(O \cup {m}) /\ Cardinality(K) <= Cardinality(O \cup {m})
        /\ Cardinality(K) \in Nat
    BY <1>1, <2>2, <2>4, FS_Subset, FS_CardinalityType
  <2>7. Cardinality(K) <= L
    BY <2>3, <2>5, <2>6
  <2> QED BY <2>7 DEF K
<1> QED BY <1>2, <1>3

\* Open transactions have a row each.
LEMMA OwnFew ==
    ASSUME HistoryInv, NEW S \in SUBSET Committing
    PROVE  /\ IsFiniteSet(UNION {ownRow[p] : p \in S})
           /\ Cardinality(UNION {ownRow[p] : p \in S}) <= Cardinality(S)
<1> DEFINE T == UNION {ownRow[p] : p \in S}
           f == [p \in S |-> CHOOSE n : n \in ownRow[p]]
<1>1. \A p \in S : ownRow[p] # {} /\ p \in Requests
  BY DEF Committing, HistoryInv, PH!TypeOK
<1>2. \A p \in S : f[p] \in ownRow[p] /\ \A n \in ownRow[p] : n = f[p]
  BY <1>1 DEF HistoryInv, RowsApart
<1>3. f \in Surjection(S, T)
  <2>1. f \in [S -> T]
    BY <1>2
  <2>2. \A n \in T : \E p \in S : f[p] = n
    BY <1>2
  <2> QED BY <2>1, <2>2 DEF Surjection
<1>4. IsFiniteSet(S)
  BY Constants, FS_Subset DEF Committing
<1> HIDE DEF T, f
<1>5. IsFiniteSet(T) /\ Cardinality(T) <= Cardinality(S)
  BY <1>3, <1>4, FS_Surjection
<1> QED BY <1>5 DEF T

\* Whatever commits, the table is finite.
LEMMA KeptFinite ==
    ASSUME HistoryInv, NEW S \in SUBSET Committing
    PROVE  IsFiniteSet(Kept(S)) /\ Cardinality(Kept(S)) \in Nat
<1>1. IsFiniteSet(kept)
  <2>1. kept \subseteq 1..Len(made) /\ Len(made) \in Nat
    BY DEF HistoryInv, PH!TypeOK
  <2>2. IsFiniteSet(1..Len(made))
    BY <2>1, FS_Interval
  <2> QED BY <2>1, <2>2, FS_Subset
<1>2. IsFiniteSet(kept \cup UNION {ownRow[p] : p \in S})
  BY <1>1, OwnFew, FS_Union
<1>3. Kept(S) \subseteq kept \cup UNION {ownRow[p] : p \in S}
  BY DEF Kept
<1> QED BY <1>2, <1>3, FS_Subset, FS_CardinalityType

LEMMA HistoryInit == PH!Init => HistoryInv /\ HistoryPromised
<1> SUFFICES ASSUME PH!Init PROVE HistoryInv /\ HistoryPromised
  OBVIOUS
<1>1. Committing = {} /\ Updating = {}
  BY DEF PH!Init, Committing, Updating
<1>2. Cardinality({}) = 0 /\ Len(past) = 0 /\ Cardinality(Requests) \in Nat
  BY Constants, FS_EmptySet, FS_CardinalityType DEF PH!Init
<1>3. PH!TypeOK
  BY Constants DEF PH!Init, PH!TypeOK
<1>4. RowsApart
  BY DEF PH!Init, RowsApart
<1>5. ChangesBounded
  BY <1>1, <1>2, Constants DEF ChangesBounded
<1>6. \A S \in SUBSET Committing : Kept(S) = {}
  BY <1>1 DEF PH!Init, Kept
<1>7. HistoryPromised
  <2>1. 0 < Limit + Cardinality(Requests)
    BY <1>2, Constants
  <2> QED BY <1>2, <1>6, <2>1 DEF HistoryPromised
<1> QED BY <1>3, <1>4, <1>5, <1>7 DEF HistoryInv

\* The passwords set, counted with those about to be, stay within the bound;
\* rows of open transactions are seen by nobody else and trimmed by nobody.
LEMMA HistoryStep == HistoryInv /\ (PH!Next \/ UNCHANGED historyVars) => HistoryInv'
<1> SUFFICES ASSUME HistoryInv, PH!Next \/ UNCHANGED historyVars PROVE HistoryInv'
  OBVIOUS
<1>c. /\ Updating \in SUBSET Requests /\ Updating' \in SUBSET Requests
      /\ Cardinality(Updating) \in Nat /\ Cardinality(Updating') \in Nat
      /\ MaxChanges \in Nat /\ Len(past) \in Nat
      /\ Len(past) + Cardinality(Updating) <= MaxChanges
  <2>1. Updating \in SUBSET Requests /\ Updating' \in SUBSET Requests
    BY DEF Updating
  <2>2. Len(past) \in Nat
    BY DEF HistoryInv, PH!TypeOK
  <2> QED BY <2>1, <2>2, Constants, Sizes DEF HistoryInv, ChangesBounded
<1>u. ASSUME past' = past, Updating' \subseteq Updating PROVE ChangesBounded'
  <2>1. IsFiniteSet(Updating)
    BY <1>c, Constants, FS_Subset
  <2>2. Cardinality(Updating') <= Cardinality(Updating)
    BY <1>u, <2>1, FS_Subset
  <2> QED BY <1>u, <2>2, <1>c DEF ChangesBounded
<1>t. PH!TypeOK /\ RowsApart
  BY DEF HistoryInv
<1> USE DEF PH!TypeOK, PH!Goto, PH!Finish
<1>1. ASSUME NEW p \in Requests, NEW w \in Passwords, PH!Check(p, w) PROVE HistoryInv'
  <2>1. Updating' = Updating \cup {p} /\ p \in Requests \ Updating
    BY <1>1, <1>t DEF PH!Check, Updating
  <2>2. Cardinality(Updating') = Cardinality(Updating) + 1
    BY <2>1, <1>c, Constants, Sizes
  <2>3. Len(past) + Cardinality(Updating) < MaxChanges /\ past' = past
    BY <1>1 DEF PH!Check, PH!ChangeLeft, PH!Cardinality, Cardinality, Updating
  <2>4. ChangesBounded'
    BY <2>2, <2>3, <1>c DEF ChangesBounded
  <2>5. PH!TypeOK' /\ RowsApart'
    BY <1>1, <1>t DEF PH!Check, RowsApart
  <2> QED BY <2>4, <2>5 DEF HistoryInv
<1>2. ASSUME NEW p \in Requests, PH!Update(p) PROVE HistoryInv'
  <2>1. Updating' = Updating \ {p} /\ p \in Updating
    BY <1>2, <1>t DEF PH!Update, Updating
  <2>2. Cardinality(Updating') = Cardinality(Updating) - 1
    BY <2>1, <1>c, Constants, Sizes
  <2>3. Len(past') = Len(past) + 1 /\ past' \in Seq(Passwords)
    BY <1>2, <1>t DEF PH!Update
  <2>4. ChangesBounded' /\ Len(past') <= MaxChanges
    BY <2>2, <2>3, <1>c DEF ChangesBounded
  <2>5. PH!TypeOK' /\ RowsApart'
    BY <1>2, <2>3, <2>4, <1>t DEF PH!Update, RowsApart
  <2> QED BY <2>4, <2>5 DEF HistoryInv
<1>3. ASSUME NEW p \in Requests, PH!Insert(p) PROVE HistoryInv'
  <2>1. Updating' \subseteq Updating /\ past' = past
    BY <1>3, <1>t DEF PH!Insert, Updating
  <2>2. /\ made' \in Seq(Passwords)
        /\ DOMAIN made \subseteq DOMAIN made'
        /\ Len(made) + 1 \in DOMAIN made' /\ Len(made) + 1 \notin DOMAIN made
    BY <1>3, <1>t DEF PH!Insert
  <2>3. PH!TypeOK'
    BY <1>3, <2>2, <1>t DEF PH!Insert
  <2>4. RowsApart'
    BY <1>3, <2>2, <1>t DEF PH!Insert, RowsApart
  <2> QED BY <2>1, <2>3, <2>4, <1>u DEF HistoryInv
<1>4. ASSUME NEW p \in Requests, PH!Trim(p) PROVE HistoryInv'
  <2>1. Updating' \subseteq Updating /\ past' = past
    BY <1>4, <1>t DEF PH!Trim, Updating
  <2>2. doomed'[p] \subseteq kept \cup ownRow[p]
    BY <1>4, <1>t DEF PH!Trim, PH!SeenBy
  <2>3. PH!TypeOK'
    BY <1>4, <2>2, <1>t DEF PH!Trim
  <2>4. RowsApart'
    BY <1>4, <2>2, <1>t DEF PH!Trim, RowsApart
  <2> QED BY <2>1, <2>3, <2>4, <1>u DEF HistoryInv
<1>5. ASSUME NEW p \in Requests, PH!Commit(p) PROVE HistoryInv'
  <2>1. Updating' \subseteq Updating /\ past' = past
    BY <1>5, <1>t DEF PH!Commit, Updating
  <2>2. PH!TypeOK'
    BY <1>5, <1>t DEF PH!Commit, PH!SeenBy, RowsApart
  <2>3. RowsApart'
    BY <1>5, <1>t DEF PH!Commit, RowsApart
  <2> QED BY <2>1, <2>2, <2>3, <1>u DEF HistoryInv
<1>6. ASSUME NEW p \in Requests, PH!Fail(p) PROVE HistoryInv'
  <2>1. Updating' \subseteq Updating /\ past' = past
    BY <1>6, <1>t DEF PH!Fail, Updating
  <2>2. PH!TypeOK' /\ RowsApart'
    BY <1>6, <1>t DEF PH!Fail, RowsApart
  <2> QED BY <2>1, <2>2, <1>u DEF HistoryInv
<1>7. CASE UNCHANGED historyVars
  BY <1>7 DEF historyVars, HistoryInv, RowsApart, ChangesBounded, Updating
<1> QED BY <1>1, <1>2, <1>3, <1>4, <1>5, <1>6, <1>7 DEF PH!Next

\* Whoever is about to commit has left at most Limit of the rows it saw, and
\* what the others add is one row each.
LEMMA HistoryPromisedStep ==
    HistoryInv /\ HistoryPromised /\ (PH!Next \/ UNCHANGED historyVars) => HistoryPromised'
<1> SUFFICES ASSUME HistoryInv, HistoryPromised, PH!Next \/ UNCHANGED historyVars,
                    NEW S \in SUBSET (Committing')
             PROVE  Cardinality(Kept(S)') < Limit + Cardinality(Requests)
  BY DEF HistoryPromised
<1> USE DEF PH!Goto, PH!Finish
\* The table would be as it would have been had R committed.
<1>q. ASSUME NEW R \in SUBSET Committing, Kept(S)' \subseteq Kept(R)
      PROVE  Cardinality(Kept(S)') < Limit + Cardinality(Requests)
  <2>1. IsFiniteSet(Kept(R)) /\ Cardinality(Kept(R)) \in Nat
    BY KeptFinite
  <2>2. Cardinality(Kept(S)') <= Cardinality(Kept(R)) /\ Cardinality(Kept(S)') \in Nat
    BY <1>q, <2>1, FS_Subset, FS_CardinalityType
  <2>3. Cardinality(Requests) \in Nat /\ Limit \in Nat
    BY Constants, FS_CardinalityType
  <2> QED BY <2>1, <2>2, <2>3 DEF HistoryPromised
<1>1. ASSUME NEW p \in Requests,
             (\E w \in Passwords : PH!Check(p, w)) \/ PH!Update(p) \/ PH!Insert(p) \/ PH!Fail(p)
      PROVE  Cardinality(Kept(S)') < Limit + Cardinality(Requests)
  <2>1. S \in SUBSET Committing /\ p \notin S /\ kept' = kept
    BY <1>1 DEF PH!Check, PH!Update, PH!Insert, PH!Fail, Committing, HistoryInv, PH!TypeOK
  <2>2. \A q \in S : ownRow'[q] = ownRow[q] /\ doomed'[q] = doomed[q]
    BY <1>1, <2>1
    DEF PH!Check, PH!Update, PH!Insert, PH!Fail, Committing, HistoryInv, PH!TypeOK
  <2>3. Kept(S)' = Kept(S)
    BY <2>1, <2>2 DEF Kept
  <2> QED BY <2>1, <2>3, <1>q
<1>2. ASSUME NEW p \in Requests, PH!Commit(p)
      PROVE  Cardinality(Kept(S)') < Limit + Cardinality(Requests)
  <2>1. S \cup {p} \in SUBSET Committing /\ p \notin S
        /\ kept' = (kept \cup ownRow[p]) \ doomed[p]
    BY <1>2 DEF PH!Commit, PH!SeenBy, Committing, HistoryInv, PH!TypeOK
  <2>2. \A q \in S : ownRow'[q] = ownRow[q] /\ doomed'[q] = doomed[q]
                     /\ doomed[p] \cap ownRow[q] = {}
    BY <1>2, <2>1 DEF PH!Commit, Committing, HistoryInv, RowsApart, PH!TypeOK
  <2>3. Kept(S)' \subseteq Kept(S \cup {p})
    BY <2>1, <2>2 DEF Kept
  <2> QED BY <2>1, <2>3, <1>q
<1>3. ASSUME NEW p \in Requests, PH!Trim(p)
      PROVE  Cardinality(Kept(S)') < Limit + Cardinality(Requests)
  <2>1. kept' = kept /\ ownRow' = ownRow /\ S \ {p} \in SUBSET Committing
        /\ \A q \in S \ {p} : doomed'[q] = doomed[q]
    BY <1>3 DEF PH!Trim, Committing, HistoryInv, PH!TypeOK
  <2>2. CASE p \notin S
    <3>1. Kept(S)' = Kept(S \ {p})
      BY <2>1, <2>2 DEF Kept
    <3> QED BY <2>1, <3>1, <1>q
  <2>3. CASE p \in S
    <3> DEFINE T == PH!SeenBy(p)
               K == {n \in T : Cardinality(PH!Older(T, n)) < Limit}
               R == UNION {ownRow[q] : q \in S \ {p}}
    <3>1. T \in SUBSET (1..Len(made)) /\ Len(made) \in Nat
      BY DEF HistoryInv, PH!TypeOK, PH!SeenBy
    <3>2. Cardinality(K) <= Limit
      BY <3>1, OldestFew, Constants
    <3>3. IsFiniteSet(K) /\ Cardinality(K) \in Nat
      <4>1. IsFiniteSet(1..Len(made))
        BY <3>1, FS_Interval
      <4>2. K \subseteq 1..Len(made)
        BY <3>1
      <4> QED BY <4>1, <4>2, FS_Subset, FS_CardinalityType
    <3>4. IsFiniteSet(R) /\ Cardinality(R) \in Nat /\ Cardinality(R) < Cardinality(Requests)
          /\ Cardinality(Requests) \in Nat
      <4>1. IsFiniteSet(R) /\ Cardinality(R) <= Cardinality(S \ {p})
        BY <2>1, OwnFew
      <4>2. S \in SUBSET Requests /\ S \ {p} \in SUBSET Requests
        BY DEF Committing
      <4>3. Cardinality(S \ {p}) = Cardinality(S) - 1 /\ Cardinality(S) <= Cardinality(Requests)
            /\ Cardinality(S) \in Nat /\ Cardinality(Requests) \in Nat
        BY <2>3, <4>2, Constants, Sizes
      <4> QED BY <4>1, <4>3, FS_CardinalityType
    <3>5. Kept(S)' \subseteq K \cup R
      <4>1. doomed'[p] = {n \in T : Cardinality(PH!Older(T, n)) >= Limit}
        BY <1>3 DEF PH!Trim, HistoryInv, PH!TypeOK, PH!Cardinality, Cardinality
      <4>2. \A n \in T : Cardinality(PH!Older(T, n)) \in Nat
        <5>1. IsFiniteSet(1..Len(made))
          BY <3>1, FS_Interval
        <5>2. IsFiniteSet(T)
          BY <3>1, <5>1, FS_Subset
        <5> QED BY <5>2, FS_Subset, FS_CardinalityType DEF PH!Older
      <4>3. T \ doomed'[p] \subseteq K
        BY <4>1, <4>2, Constants
      <4>4. T = kept \cup ownRow[p]
        BY DEF PH!SeenBy
      <4> QED BY <2>1, <2>3, <4>3, <4>4 DEF Kept
    <3> HIDE DEF T, K, R
    <3>6. IsFiniteSet(K \cup R) /\ Cardinality(K \cup R) <= Cardinality(K) + Cardinality(R)
          /\ Cardinality(K \cup R) \in Nat
      <4>1. Cardinality(K \cap R) \in Nat
        BY <3>3, FS_Intersection, FS_CardinalityType
      <4> QED BY <3>3, <3>4, <4>1, FS_Union, FS_CardinalityType
    <3>7. Cardinality(Kept(S)') <= Cardinality(K \cup R) /\ Cardinality(Kept(S)') \in Nat
      BY <3>5, <3>6, FS_Subset, FS_CardinalityType
    <3> QED BY <3>2, <3>3, <3>4, <3>6, <3>7, Constants
  <2> QED BY <2>2, <2>3
<1>4. CASE UNCHANGED historyVars
  <2>1. S \in SUBSET Committing /\ Kept(S)' = Kept(S)
    BY <1>4 DEF historyVars, Committing, Kept
  <2> QED BY <2>1, <1>q
<1> QED BY <1>1, <1>2, <1>3, <1>4 DEF PH!Next

LEMMA HistoryInvariant == Spec => [](HistoryInv /\ HistoryPromised)
<1>1. Init => HistoryInv /\ HistoryPromised
  BY HistoryInit DEF Init
<1>2. [Next]_vars => PH!Next \/ UNCHANGED historyVars
  BY DEF Next, vars
<1> QED BY <1>1, <1>2, HistoryStep, HistoryPromisedStep, PTL DEF Spec

\* However many requests change the password at once, each of which trims the
\* table without seeing what the others add, the history exceeds its limit by
\* less than their number.
THEOREM HistorySafe == Spec => []HistoryBounded
<1>1. HistoryPromised => HistoryBounded
  <2> SUFFICES ASSUME HistoryPromised
               PROVE  Cardinality(kept) < Limit + Cardinality(Requests)
    BY DEF HistoryBounded, PH!HistoryBounded, PH!Cardinality, Cardinality
  <2>1. Kept({}) = kept
    BY DEF Kept
  <2>2. Cardinality(Kept({})) < Limit + Cardinality(Requests)
    BY DEF HistoryPromised
  <2> QED BY <2>1, <2>2
<1> QED BY <1>1, HistoryInvariant, PTL

-----------------------------------------------------------------------------
\* The types.  The flags are written by the lockout and by the links, and each
\* keeps theirs with the help of its own invariant above.
FlagsTyped == isVerified \in BOOLEAN /\ isActive \in BOOLEAN

LockoutTyped ==
    /\ sawVerified \in [LoginRequests -> BOOLEAN]
    /\ spared \in SUBSET LoginRequests
    /\ lost <= MaxLost

\* A request knows what it was sent for as long as it has to, and so does a
\* link that can be presented.
LinksTyped ==
    /\ account \in {"none", "present", "deleted"}
    /\ expired \in SUBSET Tokens
    /\ \A t \in Tokens : row[t] = "live" => purpose[t] \in OT!Purposes
    /\ \A p \in Requests :
          /\ linkPc[p] \in {"create", "invalidate", "insert"} => goal[p] \in OT!Purposes
          /\ linkPc[p] \in OT!Redeeming => tok[p] \in Tokens /\ goal[p] \in OT!Purposes

LEMMA LockoutTypes ==
    LockoutInv /\ FlagsTyped /\ LockoutTyped /\ LL!Next => FlagsTyped' /\ LockoutTyped'
<1> SUFFICES ASSUME LockoutInv, FlagsTyped, LockoutTyped, LL!Next
             PROVE  FlagsTyped' /\ LockoutTyped'
  OBVIOUS
<1> USE DEF FlagsTyped, LockoutTyped, LL!Goto, LL!Finish, LL!rowVars
<1>c. lost \in Nat /\ MaxLost \in Nat
  BY Constants DEF LockoutInv
<1>1. ASSUME NEW p \in LoginRequests,
             LL!Lookup(p) \/ LL!ForceLookup(p) \/ LL!Compare(p) \/ LL!Increment(p)
      PROVE  FlagsTyped' /\ LockoutTyped'
  BY <1>1 DEF LL!Lookup, LL!ForceLookup, LL!Compare, LL!Increment
<1>2. ASSUME NEW p \in LoginRequests, LL!Lock(p) \/ LL!Reset(p) \/ LL!ForceActivate(p)
      PROVE  FlagsTyped' /\ LockoutTyped'
  <2>1. lost' <= MaxLost
    BY <1>2, <1>c DEF LL!Lock, LL!Reset, LL!ForceActivate
  <2>2. sawVerified' \in [LoginRequests -> BOOLEAN] /\ spared' \in SUBSET LoginRequests
    BY <1>2 DEF LL!Lock, LL!Reset, LL!ForceActivate
  <2>3. FlagsTyped'
    BY <1>2 DEF LL!Lock, LL!Reset, LL!ForceActivate
  <2> QED BY <2>1, <2>2, <2>3
<1>3. ASSUME NEW p \in LoginRequests, LL!Fail(p) PROVE FlagsTyped' /\ LockoutTyped'
  BY <1>3, <1>c DEF LL!Fail
<1>4. CASE LL!VerifyEmail \/ LL!SetActive(TRUE) \/ LL!SetActive(FALSE) \/ LL!Tick
  BY <1>4 DEF LL!VerifyEmail, LL!SetActive, LL!Tick
<1> QED BY <1>1, <1>2, <1>3, <1>4 DEF LL!Next, LL!Continue

LEMMA LinksTypes ==
    LinksInv /\ FlagsTyped /\ LinksTyped /\ OT!Next => FlagsTyped' /\ LinksTyped'
<1> SUFFICES ASSUME LinksInv, FlagsTyped, LinksTyped, OT!Next
             PROVE  FlagsTyped' /\ LinksTyped'
  OBVIOUS
<1> USE DEF LinksInv, FlagsTyped, LinksTyped, OT!Goto, OT!Advance, OT!Finish, OT!Enter,
            OT!Labels, OT!Redeeming, OT!Purposes, OT!accountVars, OT!tokenVars, OT!requestVars
<1>1. ASSUME NEW p \in Requests,
             OT!RegisterLookup(p) \/ OT!Resend(p) \/ OT!Forgot(p) \/ OT!ForceLookup(p)
      PROVE  FlagsTyped' /\ LinksTyped'
  BY <1>1 DEF OT!RegisterLookup, OT!Resend, OT!Forgot, OT!ForceLookup
<1>2. ASSUME NEW p \in Requests, NEW t \in Tokens, OT!Lookup(p, t)
      PROVE  FlagsTyped' /\ LinksTyped'
  BY <1>2 DEF OT!Lookup
<1>3. ASSUME NEW p \in Requests, OT!Create(p) PROVE FlagsTyped' /\ LinksTyped'
  BY <1>3 DEF OT!Create
<1>4. ASSUME NEW p \in Requests, OT!Invalidate(p) \/ OT!Sweep(p)
      PROVE  FlagsTyped' /\ LinksTyped'
  BY <1>4 DEF OT!Invalidate, OT!Sweep, OT!MarkAllUsed, OT!Live
<1>5. ASSUME NEW p \in Requests, OT!Insert(p) PROVE FlagsTyped' /\ LinksTyped'
  BY <1>5 DEF OT!Insert
<1>6. ASSUME NEW p \in Requests, OT!MarkUsed(p) PROVE FlagsTyped' /\ LinksTyped'
  BY <1>6 DEF OT!MarkUsed
<1>7. ASSUME NEW p \in Requests,
             OT!MarkVerified(p) \/ OT!SetPassword(p) \/ OT!ForceActivate(p) \/ OT!Fail(p)
      PROVE  FlagsTyped' /\ LinksTyped'
  <2>1. FlagsTyped'
    BY <1>7 DEF OT!MarkVerified, OT!SetPassword, OT!ForceActivate, OT!Fail
  <2>2. LinksTyped'
    BY <1>7 DEF OT!MarkVerified, OT!SetPassword, OT!ForceActivate, OT!Fail
  <2> QED BY <2>1, <2>2
<1>8. ASSUME NEW p \in Requests, OT!Owner(p) PROVE FlagsTyped' /\ LinksTyped'
  BY <1>8 DEF OT!Owner
<1>9. CASE OT!Delete BY <1>9 DEF OT!Delete
<1>10. ASSUME NEW t \in Tokens, OT!Expire(t) PROVE FlagsTyped' /\ LinksTyped'
  BY <1>10 DEF OT!Expire
<1>11. CASE OT!SetActive(TRUE) \/ OT!SetActive(FALSE) BY <1>11 DEF OT!SetActive
<1> QED
  BY <1>1, <1>2, <1>3, <1>4, <1>5, <1>6, <1>7, <1>8, <1>9, <1>10, <1>11
  DEF OT!Next, OT!Begin, OT!Continue

LEMMA CacheTypes == UC!TypeOK /\ (UC!Next \/ UNCHANGED cacheVars) => UC!TypeOK'
<1> SUFFICES ASSUME UC!TypeOK, UC!Next \/ UNCHANGED cacheVars PROVE UC!TypeOK'
  OBVIOUS
<1>c. UserTtl \in Nat \ {0} /\ MaxUpdates \in Nat /\ None \notin UC!Rows
  BY Constants
<1> USE DEF UC!TypeOK, UC!Goto
<1>1. ASSUME NEW p \in Requests,
             UC!GetCached(p) \/ UC!Find(p) \/ UC!Set(p) \/ UC!Bust(p) \/ UC!Delete(p)
                \/ UC!Fail(p)
      PROVE  UC!TypeOK'
  BY <1>1, <1>c
  DEF UC!GetCached, UC!Find, UC!Set, UC!Bust, UC!Delete, UC!Fail
<1>2. ASSUME NEW p \in Requests, UC!Update(p) PROVE UC!TypeOK'
  <2>1. profile' \in UC!Rows
    BY <1>2, <1>c DEF UC!Update, UC!Rows
  <2> QED BY <1>2, <2>1 DEF UC!Update
<1>3. CASE UC!Login
  <2>1. profile' \in UC!Rows
    BY <1>3, <1>c DEF UC!Login, UC!Rows
  <2> QED BY <1>3, <2>1 DEF UC!Login
<1>4. CASE UC!Tick
  BY <1>4, <1>c DEF UC!Tick
<1>5. CASE UNCHANGED cacheVars
  BY <1>5 DEF cacheVars
<1> QED BY <1>1, <1>2, <1>3, <1>4, <1>5 DEF UC!Next, UC!Continue

TypesInv == FlagsTyped /\ LockoutTyped /\ LinksTyped /\ UC!TypeOK

LEMMA TypesInit == Init => TypesInv
<1> SUFFICES ASSUME Init PROVE TypesInv
  OBVIOUS
<1>1. FlagsTyped /\ LockoutTyped
  <2>1. lost <= MaxLost
    BY Constants DEF Init, LL!Init
  <2> QED BY <2>1 DEF Init, LL!Init, FlagsTyped, LockoutTyped
<1>2. LinksTyped
  BY DEF Init, OT!Init, LinksTyped, OT!Redeeming
<1>3. UC!TypeOK
  BY Constants DEF Init, UC!Init, UC!TypeOK, UC!Rows
<1> QED BY <1>1, <1>2, <1>3 DEF TypesInv

LEMMA TypesStep == LockoutInv /\ LinksInv /\ TypesInv /\ [Next]_vars => TypesInv'
<1> SUFFICES ASSUME LockoutInv, LinksInv, TypesInv, [Next]_vars PROVE TypesInv'
  OBVIOUS
<1>1. UC!TypeOK'
  BY CacheTypes DEF TypesInv, Next, vars
<1>2. CASE LL!Next /\ UNCHANGED linkVars
  BY <1>1, <1>2, LockoutTypes DEF TypesInv, LinksTyped, linkVars
<1>3. CASE OT!Next /\ UNCHANGED lockoutVars
  BY <1>1, <1>3, LinksTypes DEF TypesInv, LockoutTyped, lockoutVars
<1>4. CASE UNCHANGED <<flagVars, lockoutVars, linkVars>>
  BY <1>1, <1>4
  DEF TypesInv, FlagsTyped, LockoutTyped, LinksTyped, flagVars, lockoutVars, linkVars
<1> QED BY <1>2, <1>3, <1>4 DEF Next, vars

\* The variables of all these protocols keep their types, and the counters
\* their bounds, for any number of requests, of logins and of links.
THEOREM TypeCorrect == Spec => []TypeOK
<1>1. LockoutInv /\ LinksInv /\ HistoryInv /\ TypesInv => TypeOK
  <2> SUFFICES ASSUME LockoutInv, LinksInv, HistoryInv, TypesInv PROVE TypeOK
    OBVIOUS
  <2>1. LL!TypeOK
    BY Constants DEF LockoutInv, TypesInv, FlagsTyped, LockoutTyped, LL!TypeOK
  <2>2. OT!TypeOK
    BY DEF LinksInv, TypesInv, FlagsTyped, LinksTyped, OT!TypeOK
  <2>3. PH!TypeOK /\ UC!TypeOK
    BY DEF HistoryInv, TypesInv
  <2> QED BY <2>1, <2>2, <2>3 DEF TypeOK
<1> QED
  BY <1>1, LockoutInvariant, LinksInvariant, HistoryInvariant, TypesInit, TypesStep, PTL
  DEF Spec

=============================================================================
