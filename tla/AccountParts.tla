---------------------------- MODULE AccountParts ----------------------------
(***************************************************************************)
(* Five protocols of an account: the lockout, the mailed links, the        *)
(* password history, the cached profile and, for the one property that is  *)
(* not checked in TokenSessions itself, the sessions.  What one does       *)
(* cannot affect the properties of another, so a behaviour here follows    *)
(* one of them, chosen at the start, while the others rest in their        *)
(* initial states.                                                         *)
(*                                                                         *)
(* A protocol reads the account's flags where it depends on them; the two  *)
(* that do share the variables isVerified and isActive.                    *)
(***************************************************************************)
EXTENDS Integers, FiniteSets, TLC

CONSTANTS
    Parts,                                          \* which of the five to explore
    Requests, LoginRequests, None,                  \* see the five modules
    MaxAttempts, Lockout, MaxLost,
    Tokens, LinkRequestsMayFail,
    Passwords, Limit, MaxChanges,
    UserTtl, MaxUpdates,
    Grants, AccessTtl, RefreshTtl, RevocationTtl, MaxTime,
    RedisMayFail, RequestsMayFail,
    SessionOps                  \* bound: what bearers of access tokens ask for

VARIABLES
    part,
    isVerified, isActive,
    attempts, lockLeft, loginPc, sawVerified, pending, spared, lost,
    account, row, purpose, expired, linkPc, goal, tok, redeemed,
    past, made, kept, changePc, new, ownRow, doomed,
    profile, cache, ttlLeft, readPc, got,
    now, user, refresh, iat, parent, blacklist, revokeBefore, revokeUntil,
    sessionPc, op, own, body, fresh, ended, stale

flagVars == <<isVerified, isActive>>
lockoutVars == <<attempts, lockLeft, loginPc, sawVerified, pending, spared, lost>>
linkVars == <<account, row, purpose, expired, linkPc, goal, tok, redeemed>>
historyVars == <<past, made, kept, changePc, new, ownRow, doomed>>
cacheVars == <<profile, cache, ttlLeft, readPc, got>>
sessionVars == <<now, user, refresh, iat, parent, blacklist, revokeBefore, revokeUntil,
                 sessionPc, op, own, body, fresh, ended, stale>>
vars == <<part, flagVars, lockoutVars, linkVars, historyVars, cacheVars, sessionVars>>

LL == INSTANCE LoginLockout WITH Requests <- LoginRequests, pc <- loginPc
OT == INSTANCE OneTimeTokens WITH pc <- linkPc, RequestsMayFail <- LinkRequestsMayFail
PH == INSTANCE PasswordHistory WITH pc <- changePc, own <- ownRow
UC == INSTANCE UserCache WITH row <- profile, pc <- readPc
TS == INSTANCE TokenSessions WITH account <- user, pc <- sessionPc,
    RedisMayFail <- FALSE, RequestsMayFail <- FALSE

\* What each protocol takes for granted of its constants.
ASSUME LockoutConstants == LL!LockoutAssumption
ASSUME TokensConstants == OT!TokensAssumption
ASSUME HistoryConstants == PH!HistoryAssumption
ASSUME CacheConstants == UC!CacheAssumption

Init ==
    /\ part \in Parts
    /\ LL!Init /\ OT!Init /\ PH!Init /\ UC!Init /\ TS!Init

Next ==
    /\ \/ /\ part = "lockout" /\ LL!Next
          /\ UNCHANGED <<linkVars, historyVars, cacheVars, sessionVars>>
       \/ /\ part = "links" /\ OT!Next
          /\ UNCHANGED <<lockoutVars, historyVars, cacheVars, sessionVars>>
       \/ /\ part = "history" /\ PH!Next
          /\ UNCHANGED <<flagVars, lockoutVars, linkVars, cacheVars, sessionVars>>
       \/ /\ part = "cache" /\ UC!Next
          /\ UNCHANGED <<flagVars, lockoutVars, linkVars, historyVars, sessionVars>>
       \/ /\ part = "sessions" /\ TS!Next
          /\ \A p \in Requests : op'[p] \in SessionOps \cup {"none"}
          /\ UNCHANGED <<flagVars, lockoutVars, linkVars, historyVars, cacheVars>>
    /\ UNCHANGED part

Spec == Init /\ [][Next]_vars

\* The fairness of each protocol: a protocol at rest has nothing to continue.
FairSpec ==
    /\ Spec
    /\ WF_<<flagVars, lockoutVars>>(part = "lockout" /\ LL!Tick)
    /\ \A p \in LoginRequests :
          WF_<<flagVars, lockoutVars>>(part = "lockout" /\ LL!Continue(p))
    /\ WF_cacheVars(part = "cache" /\ UC!Tick)
    /\ \A p \in Requests :
          /\ WF_<<flagVars, linkVars>>(part = "links" /\ OT!Continue(p))
          /\ WF_cacheVars(part = "cache" /\ UC!Continue(p))
          /\ WF_sessionVars(part = "sessions" /\ TS!Continue(p))

\* Tokens, passwords and concurrent logins may be given the same names: no
\* behaviour mentions two of these kinds.
Symmetry == Permutations(Requests) \cup Permutations(Tokens)

-----------------------------------------------------------------------------
\* The properties are those of the modules, under the same names.

\* Every variable keeps its type; those of the sessions are TokenSessions' to
\* state.
TypeOK == LL!TypeOK /\ OT!TypeOK /\ PH!TypeOK /\ UC!TypeOK

\* No interleaving of failed logins skips the lock.
AttemptsBounded == LL!AttemptsBounded

\* While a lock lasts, only logins that had passed the test before it run.
LockStopsLaterLogins == LL!LockStopsLaterLogins

\* Guesses cannot keep an account locked for ever.
TimedRelease == LL!TimedRelease

\* Open links of a kind never outnumber the requests at once.
LiveLinksBounded == OT!LiveLinksBounded

\* Only requests that overlap can redeem the same link.
RedemptionsBounded == OT!RedemptionsBounded

\* An accepted verification link verifies the account.
RedemptionTakesEffect == OT!RedemptionTakesEffect

\* The history exceeds its limit by less than the number of requests at once.
HistoryBounded == PH!HistoryBounded

\* Once the profile is left alone, the cache ends up equal to it or empty.
CacheConverges == UC!CacheConverges

\* The revocation of a password change, a reset or a suspension under way reaches
\* every access token issued before it.
RevocationTakesHold == TS!RevocationTakesHold

=============================================================================
