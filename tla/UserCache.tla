----------------------------- MODULE UserCache -----------------------------
(***************************************************************************)
(* The cached profile of one user.  getMe answers from Redis, and on a     *)
(* miss reads the row and caches it for five minutes; whoever updates the  *)
(* row deletes the key afterwards.  Row and key are read and written by    *)
(* awaits of their own, and login updates the row without a word to the    *)
(* cache.                                                                  *)
(***************************************************************************)
EXTENDS Integers

CONSTANTS
    Requests,      \* requests being served at the same time
    None,          \* no entry, nothing read
    UserTtl,       \* USER_TTL_SECONDS, in ticks
    MaxUpdates,    \* bound on the updates of the row
    RedisMayFail,  \* may a Redis command fail (and be logged only)?
    RequestsMayFail  \* may a request end at any await (error, restart)?

\* A row by its contents: how often the profile (updateMe and the
\* administrator's operations) and the login data have been written.
Rows == [profile : 0..MaxUpdates, logins : 0..MaxUpdates]

CacheAssumption ==
    /\ UserTtl \in Nat \ {0}
    /\ MaxUpdates \in Nat
    /\ RedisMayFail \in BOOLEAN /\ RequestsMayFail \in BOOLEAN
    /\ None \notin Rows

VARIABLES
    row,       \* the users row, or None once it is deleted
    cache,     \* the value of the user's key, or None
    ttlLeft,   \* ticks until the key expires
    pc,        \* where each request stands
    got        \* the row a getMe has read

vars == <<row, cache, ttlLeft, pc, got>>

TypeOK ==
    /\ row \in Rows \cup {None}
    /\ cache \in Rows \cup {None}
    /\ ttlLeft \in 0..UserTtl
    /\ cache = None <=> ttlLeft = 0
    /\ pc \in [Requests -> {"idle", "find", "set", "bust"}]
    /\ got \in [Requests -> Rows \cup {None}]
    /\ \A p \in Requests : got[p] # None <=> pc[p] = "set"

Init ==
    /\ row = [profile |-> 0, logins |-> 0]
    /\ cache = None /\ ttlLeft = 0
    /\ pc = [p \in Requests |-> "idle"]
    /\ got = [p \in Requests |-> None]

Goto(p, label) == pc' = [pc EXCEPT ![p] = label]

-----------------------------------------------------------------------------
\* getMe: a hit is the answer, a miss or a failed GET leads to the row.
GetCached(p) ==
    /\ pc[p] = "idle"
    /\ cache = None \/ RedisMayFail
    /\ Goto(p, "find")
    /\ UNCHANGED <<row, cache, ttlLeft, got>>

Find(p) ==
    /\ pc[p] = "find"
    /\ got' = [got EXCEPT ![p] = row]
    /\ Goto(p, IF row = None THEN "idle" ELSE "set")
    /\ UNCHANGED <<row, cache, ttlLeft>>

\* Mutant: the key is written without an expiry.
SetForever(p) ==
    /\ pc[p] = "set"
    /\ cache' = got[p] /\ ttlLeft' = 0
    /\ Goto(p, "idle")
    /\ got' = [got EXCEPT ![p] = None]
    /\ UNCHANGED row

\* setUser writes what was read, for UserTtl from now.
Set(p) ==
    /\ pc[p] = "set"
    /\ \/ cache' = got[p] /\ ttlLeft' = UserTtl
       \/ RedisMayFail /\ UNCHANGED <<cache, ttlLeft>>
    /\ Goto(p, "idle")
    /\ got' = [got EXCEPT ![p] = None]
    /\ UNCHANGED row

-----------------------------------------------------------------------------
\* updateMe, suspendUser, updateUser and the other writers of the profile.
Update(p) ==
    /\ pc[p] = "idle"
    /\ row # None
    /\ row.profile < MaxUpdates
    /\ row' = [row EXCEPT !.profile = @ + 1]
    /\ Goto(p, "bust")
    /\ UNCHANGED <<cache, ttlLeft, got>>

Delete(p) ==
    /\ pc[p] = "idle"
    /\ row # None
    /\ row' = None
    /\ Goto(p, "bust")
    /\ UNCHANGED <<cache, ttlLeft, got>>

\* invalidateUser.
Bust(p) ==
    /\ pc[p] = "bust"
    /\ \/ cache' = None /\ ttlLeft' = 0
       \/ RedisMayFail /\ UNCHANGED <<cache, ttlLeft>>
    /\ Goto(p, "idle")
    /\ UNCHANGED <<row, got>>

\* resetLoginAttempts sets lastLoginAt, and nobody deletes the key.
Login ==
    /\ row # None
    /\ row.logins < MaxUpdates
    /\ row' = [row EXCEPT !.logins = @ + 1]
    /\ UNCHANGED <<cache, ttlLeft, pc, got>>

\* Redis drops the key when its time is up.
Tick ==
    /\ ttlLeft > 0
    /\ ttlLeft' = ttlLeft - 1
    /\ cache' = IF ttlLeft = 1 THEN None ELSE cache
    /\ UNCHANGED <<row, pc, got>>

\* A query fails, or the process restarts, before the key is deleted.
Fail(p) ==
    /\ RequestsMayFail
    /\ pc[p] # "idle"
    /\ Goto(p, "idle")
    /\ got' = [got EXCEPT ![p] = None]
    /\ UNCHANGED <<row, cache, ttlLeft>>

Continue(p) == Find(p) \/ Set(p) \/ Bust(p)

Next ==
    \/ \E p \in Requests :
          GetCached(p) \/ Update(p) \/ Delete(p) \/ Continue(p) \/ Fail(p)
    \/ Login \/ Tick

Spec == Init /\ [][Next]_vars

\* The event loop resumes every request, and time passes.
FairSpec == Spec /\ WF_vars(Tick) /\ \A p \in Requests : WF_vars(Continue(p))

-----------------------------------------------------------------------------
Current == cache \in {None, row}

\* Whatever overlaps, fails or forgets to delete the key, a profile that is no
\* longer updated is in the end served as it is, or not from the cache at all.
CacheConverges == <>[]Current

\* "Cached user object (busted on update)": with no update under way, the
\* profile that is served from the cache is the one of the row.
ProfileBustedOnUpdate ==
    (\A p \in Requests : pc[p] # "bust") /\ cache # None =>
        row # None /\ cache.profile = row.profile

\* "Cached user object (busted on update)", for the login data it contains.
LoginBustedOnUpdate ==
    (\A p \in Requests : pc[p] # "bust") /\ cache # None /\ row # None =>
        cache.logins = row.logins

=============================================================================
