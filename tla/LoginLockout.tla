---------------------------- MODULE LoginLockout ----------------------------
(***************************************************************************)
(* The lockout of one account: AuthService.login reads the users row once, *)
(* compares the password, and only then writes the failure counter and the *)
(* lock, each in a query of its own.  Logins of the same account run at    *)
(* the same time, so what one decides from the row it read may be out of   *)
(* date when it writes.                                                    *)
(*                                                                         *)
(* Times are kept as ticks left rather than as dates: lockedUntil > now    *)
(* reads lockLeft > 0.                                                     *)
(***************************************************************************)
EXTENDS Integers, FiniteSets

CONSTANTS
    Requests,         \* requests being served at the same time
    MaxAttempts,      \* MAX_LOGIN_ATTEMPTS
    Lockout,          \* LOCKOUT_DURATION_MINUTES, in ticks
    MaxLost           \* bound on the locks lost to failures in a row

LockoutAssumption ==
    /\ MaxAttempts \in Nat \ {0}
    /\ Lockout \in Nat \ {0}
    /\ MaxLost \in Nat
    /\ IsFiniteSet(Requests)

VARIABLES
    isVerified, isActive,   \* the users row ...
    attempts,               \* ... failedLoginAttempts
    lockLeft,               \* ... ticks until lockedUntil; 0: past or null
    pc,                     \* where each request stands
    sawVerified,            \* isVerified in the row the request read
    pending,                \* ticks until the lockedUntil it is about to write
    spared,                 \* history: past the lock test when the lock was set
    lost                    \* history: locks lost to failures since the last reset

rowVars == <<isVerified, isActive, attempts, lockLeft>>
vars == <<rowVars, pc, sawVerified, pending, spared, lost>>

\* A login that has passed the lock test.
PastTest == {"compare", "increment", "lock", "reset"}
Labels == PastTest \cup {"idle", "force"}

TypeOK ==
    /\ isVerified \in BOOLEAN /\ isActive \in BOOLEAN
    /\ attempts \in Nat
    /\ lockLeft \in 0..Lockout
    /\ pc \in [Requests -> Labels]
    /\ sawVerified \in [Requests -> BOOLEAN]
    /\ pending \in [Requests -> 0..Lockout]
    /\ spared \in SUBSET Requests
    /\ lost \in 0..MaxLost

Init ==
    /\ isVerified = FALSE /\ isActive = FALSE
    /\ attempts = 0
    /\ lockLeft = 0
    /\ pc = [p \in Requests |-> "idle"]
    /\ sawVerified = [p \in Requests |-> FALSE]
    /\ pending = [p \in Requests |-> 0]
    /\ spared = {}
    /\ lost = 0

Goto(p, label) == pc' = [pc EXCEPT ![p] = label]

Finish(p) ==
    /\ Goto(p, "idle")
    /\ sawVerified' = [sawVerified EXCEPT ![p] = FALSE]
    /\ pending' = [pending EXCEPT ![p] = 0]
    /\ spared' = spared \ {p}

-----------------------------------------------------------------------------
\* Mutant: only a lock about to expire turns the login away.
LookupLocked(p) ==
    /\ pc[p] = "idle"
    /\ ~(isVerified /\ ~isActive)
    /\ lockLeft = 0 \/ lockLeft > 1
    /\ Goto(p, "compare")
    /\ sawVerified' = [sawVerified EXCEPT ![p] = isVerified]
    /\ UNCHANGED <<rowVars, pending, spared, lost>>

\* findByEmail; a suspended account and a locked one are turned away.
Lookup(p) ==
    /\ pc[p] = "idle"
    /\ ~(isVerified /\ ~isActive)
    /\ lockLeft = 0
    /\ Goto(p, "compare")
    /\ sawVerified' = [sawVerified EXCEPT ![p] = isVerified]
    /\ UNCHANGED <<rowVars, pending, spared, lost>>

\* comparePassword; the right password of an unverified account ends in 403.
Compare(p) ==
    /\ pc[p] = "compare"
    /\ \/ /\ Goto(p, "increment")
          /\ UNCHANGED <<sawVerified, pending, spared>>
       \/ /\ sawVerified[p]
          /\ Goto(p, "reset")
          /\ UNCHANGED <<sawVerified, pending, spared>>
       \/ ~sawVerified[p] /\ Finish(p)
    /\ UNCHANGED <<rowVars, lost>>

\* Mutant: the lock comes one failure late.
IncrementLate(p) ==
    /\ pc[p] = "increment"
    /\ attempts' = attempts + 1
    /\ IF attempts' > MaxAttempts
       THEN /\ Goto(p, "lock")
            /\ pending' = [pending EXCEPT ![p] = Lockout]
            /\ UNCHANGED <<sawVerified, spared>>
       ELSE Finish(p)
    /\ UNCHANGED <<isVerified, isActive, lockLeft, lost>>

\* incrementFailedLoginAttempts is atomic and returns the new count, from
\* which login decides; it takes the end of the lockout from the clock now.
Increment(p) ==
    /\ pc[p] = "increment"
    /\ attempts' = attempts + 1
    /\ IF attempts' >= MaxAttempts
       THEN /\ Goto(p, "lock")
            /\ pending' = [pending EXCEPT ![p] = Lockout]
            /\ UNCHANGED <<sawVerified, spared>>
       ELSE Finish(p)
    /\ UNCHANGED <<isVerified, isActive, lockLeft, lost>>

\* lockAccount sets the lock and starts the count over.
Lock(p) ==
    /\ pc[p] = "lock"
    /\ lockLeft' = pending[p]
    /\ attempts' = 0
    /\ Goto(p, "idle")
    /\ sawVerified' = [sawVerified EXCEPT ![p] = FALSE]
    /\ pending' = [pending EXCEPT ![p] = 0]
    /\ spared' = {q \in Requests \ {p} : pc[q] \in PastTest}
    /\ lost' = 0
    /\ UNCHANGED <<isVerified, isActive>>

\* resetLoginAttempts clears count and lock; issueTokens follows.
Reset(p) ==
    /\ pc[p] = "reset"
    /\ attempts' = 0
    /\ lockLeft' = 0
    /\ lost' = 0
    /\ Finish(p)
    /\ UNCHANGED <<isVerified, isActive>>

-----------------------------------------------------------------------------
\* forceActivateUser finds the user unverified ...
ForceLookup(p) ==
    /\ pc[p] = "idle"
    /\ ~isVerified
    /\ Goto(p, "force")
    /\ UNCHANGED <<rowVars, sawVerified, pending, spared, lost>>

\* ... checks the admin's password and writes the row.
ForceActivate(p) ==
    /\ pc[p] = "force"
    /\ isVerified' = TRUE /\ isActive' = TRUE
    /\ attempts' = 0 /\ lockLeft' = 0
    /\ lost' = 0
    /\ Finish(p)

VerifyEmail ==
    /\ ~isVerified
    /\ isVerified' = TRUE /\ isActive' = TRUE
    /\ UNCHANGED <<attempts, lockLeft, pc, sawVerified, pending, spared, lost>>

\* suspendUser and activateUser leave count and lock alone.
SetActive(on) ==
    /\ isActive' = on
    /\ UNCHANGED <<isVerified, attempts, lockLeft, pc, sawVerified, pending, spared, lost>>

\* A query fails or the process restarts.
Fail(p) ==
    /\ pc[p] # "idle"
    /\ IF pc[p] = "lock"
       THEN lost < MaxLost /\ lost' = lost + 1
       ELSE UNCHANGED lost
    /\ Finish(p)
    /\ UNCHANGED rowVars

Less(n) == IF n > 0 THEN n - 1 ELSE 0

Tick ==
    /\ lockLeft > 0 \/ \E p \in Requests : pending[p] > 0
    /\ lockLeft' = Less(lockLeft)
    /\ pending' = [p \in Requests |-> Less(pending[p])]
    /\ UNCHANGED <<isVerified, isActive, attempts, pc, sawVerified, spared, lost>>

Continue(p) == Compare(p) \/ Increment(p) \/ Lock(p) \/ Reset(p) \/ ForceActivate(p)

Next ==
    \/ \E p \in Requests : Lookup(p) \/ ForceLookup(p) \/ Continue(p) \/ Fail(p)
    \/ VerifyEmail
    \/ SetActive(TRUE) \/ SetActive(FALSE)
    \/ Tick

Spec == Init /\ [][Next]_vars

\* The event loop resumes every request, and time passes.
FairSpec == Spec /\ WF_vars(Tick) /\ \A p \in Requests : WF_vars(Continue(p))

-----------------------------------------------------------------------------
\* The counter passes the limit only by guesses that were under way at the
\* same time, each of which is about to lock the account or was to and failed;
\* when there is none, fewer than MaxAttempts failures stand against it.  So no
\* interleaving skips the lock that a failure calls for.
AttemptsBounded ==
    attempts < MaxAttempts + lost + Cardinality({p \in Requests : pc[p] = "lock"})

\* While the lock lasts, the only logins still running are those that had
\* passed the lock test before it was set.
LockStopsLaterLogins ==
    lockLeft > 0 => {p \in Requests : pc[p] \in PastTest} \subseteq spared

\* Timed release: guesses made while an account is locked cannot keep it
\* locked for ever.
TimedRelease == lockLeft > 0 ~> lockLeft = 0

\* "Auto-lock after N failures; timed release": only the passing of time, or
\* an administrator, ends a lockout.
OnlyTimeUnlocks ==
    [][lockLeft > 1 /\ lockLeft' = 0 => \E p \in Requests : ForceActivate(p)]_vars

=============================================================================
