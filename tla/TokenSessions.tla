--------------------------- MODULE TokenSessions ---------------------------
(***************************************************************************)
(* The sessions of one account: the access and refresh tokens that         *)
(* auth.service.ts and token.service.ts issue, rotate and revoke, the      *)
(* Redis keys of cache.service.ts that end access tokens early, and the    *)
(* authenticate middleware that reads those keys.                          *)
(*                                                                         *)
(* One Node process serves many requests at once, and a request gives way  *)
(* to the others at every await.  An action is the code between two awaits *)
(* together with the query or command it waits for; pc says which await a  *)
(* request stands at.  Nothing here crosses accounts (every row and key is *)
(* selected by user id or by token), so one account is modelled.           *)
(***************************************************************************)
EXTENDS Integers, FiniteSets

CONSTANTS
    Grants,            \* names of token pairs (one access, one refresh token)
    Requests,          \* requests being served at the same time
    None,              \* no token
    AccessTtl,         \* ACCESS_TOKEN_EXPIRY, in clock ticks
    RefreshTtl,        \* REFRESH_TTL_SECONDS
    RevocationTtl,     \* lifetime of the revoke_before key
    MaxTime,           \* bound on the clock
    RedisMayFail,      \* may a Redis command fail (the cache fails open)?
    RequestsMayFail    \* may a request end at any await (error, restart)?

ASSUME NoneAssumption == None \notin Grants
ASSUME FiniteAssumption == IsFiniteSet(Grants) /\ IsFiniteSet(Requests)
ASSUME TtlAssumption ==
    /\ AccessTtl \in Nat \ {0}
    /\ RefreshTtl \in Nat \ {0}
    /\ RevocationTtl \in Nat
    /\ MaxTime \in Nat
\* "Keep for 30 days (longer than any token TTL)", cache.service.ts
ASSUME RevocationOutlivesAccess == RevocationTtl >= AccessTtl
ASSUME FaultAssumption ==
    RedisMayFail \in BOOLEAN /\ RequestsMayFail \in BOOLEAN

VARIABLES
    now,          \* Math.floor(Date.now() / 1000)
    account,      \* the users row: active, suspended (isActive false), deleted
    refresh,      \* the refresh token row of each grant
    iat,          \* issue time of each grant's two tokens
    parent,       \* the refresh token a grant was exchanged for
    blacklist,    \* expiry of the access token's blacklist key; 0: no key
    revokeBefore, \* value of the account's revoke_before key
    revokeUntil,  \* expiry of that key; 0: never set
    pc,           \* where each request stands
    op,           \* what the bearer of an access token asks for
    own,          \* the grant whose access token it bears
    body,         \* the grant whose refresh token it carries in its body
    fresh,        \* the grant it is about to issue
    ended,        \* history: access tokens an operation has put an end to
    stale         \* history: was the bearer token ended when presented?

tokenVars == <<account, refresh, iat, parent>>
redisVars == <<blacklist, revokeBefore, revokeUntil>>
requestVars == <<pc, op, own, body, fresh>>
historyVars == <<ended, stale>>
vars == <<now, tokenVars, redisVars, requestVars, historyVars>>

BearerOps == {"access", "logout", "logoutAll", "changePassword"}
Issuing == {"rotate", "owner", "sign", "store"}
Admitted == {"serve", "logout", "logoutFind", "logoutRevoke", "logoutAll",
             "changePassword"}
Labels == {"idle", "blacklist", "cutoff", "revokeAll", "cut"}
             \cup Issuing \cup Admitted

TypeOK ==
    /\ now \in 0..MaxTime
    /\ account \in {"active", "suspended", "deleted"}
    /\ refresh \in [Grants -> {"unused", "reserved", "live", "revoked", "erased"}]
    /\ iat \in [Grants -> Nat]
    /\ parent \in [Grants -> Grants \cup {None}]
    /\ blacklist \in [Grants -> Nat]
    /\ revokeBefore \in Nat /\ revokeUntil \in Nat
    /\ pc \in [Requests -> Labels]
    /\ op \in [Requests -> BearerOps \cup {"none"}]
    /\ own \in [Requests -> Grants \cup {None}]
    /\ body \in [Requests -> Grants \cup {None}]
    /\ fresh \in [Requests -> Grants \cup {None}]
    /\ ended \in SUBSET Grants
    /\ stale \in [Requests -> BOOLEAN]

Init ==
    /\ now = 0
    /\ account = "active"
    /\ refresh = [g \in Grants |-> "unused"]
    /\ iat = [g \in Grants |-> 0]
    /\ parent = [g \in Grants |-> None]
    /\ blacklist = [g \in Grants |-> 0]
    /\ revokeBefore = 0 /\ revokeUntil = 0
    /\ pc = [p \in Requests |-> "idle"]
    /\ op = [p \in Requests |-> "none"]
    /\ own = [p \in Requests |-> None]
    /\ body = [p \in Requests |-> None]
    /\ fresh = [p \in Requests |-> None]
    /\ ended = {}
    /\ stale = [p \in Requests |-> FALSE]

-----------------------------------------------------------------------------
\* A grant reaches the client once its refresh row is stored.
Delivered(g) == refresh[g] \in {"live", "revoked", "erased"}

AccessExpiry(g) == iat[g] + AccessTtl

\* Mutant: a key that dies a second before its token.
ShortRemainingTtl(g) == IF AccessExpiry(g) > now THEN AccessExpiry(g) - now - 1 ELSE 0

\* getTokenRemainingTtl: seconds left, never negative.
RemainingTtl(g) == IF AccessExpiry(g) > now THEN AccessExpiry(g) - now ELSE 0

\* isAccessTokenRevoked: the jti is blacklisted, or the token was issued
\* strictly before the account's revocation instant.
Blacklisted(g) == blacklist[g] > now
BeforeCutoff(g) == revokeUntil > now /\ iat[g] < revokeBefore
Refused(g) == Blacklisted(g) \/ BeforeCutoff(g)

Goto(p, label) == pc' = [pc EXCEPT ![p] = label]

\* The handler has no more use for the bearer token.
Dismiss(p) ==
    /\ op' = [op EXCEPT ![p] = "none"]
    /\ own' = [own EXCEPT ![p] = None]
    /\ stale' = [stale EXCEPT ![p] = FALSE]

\* The response is sent, or an error is.
Finish(p) ==
    /\ Goto(p, "idle")
    /\ Dismiss(p)
    /\ body' = [body EXCEPT ![p] = None]
    /\ fresh' = [fresh EXCEPT ![p] = None]

\* A request that ends without handing out the grant it was to issue.
Drop(p) ==
    IF fresh[p] = None
    THEN UNCHANGED <<refresh, iat, parent>>
    ELSE /\ refresh' = [refresh EXCEPT ![fresh[p]] = "unused"]
         /\ iat' = [iat EXCEPT ![fresh[p]] = 0]
         /\ parent' = [parent EXCEPT ![fresh[p]] = None]

-----------------------------------------------------------------------------
\* Issuing: login, and the exchange of a refresh token.

\* A request sets out to issue a grant; g names the pair it will make.
Reserve(p, g) ==
    /\ refresh[g] = "unused"
    /\ refresh' = [refresh EXCEPT ![g] = "reserved"]
    /\ fresh' = [fresh EXCEPT ![p] = g]

\* login has found the account, not suspended and not locked, and the
\* password right; it goes on with that snapshot of the users row.
LoginLookup(p) ==
    /\ pc[p] = "idle"
    /\ account = "active"
    /\ \E g \in Grants : Reserve(p, g)
    /\ Goto(p, "sign")
    /\ UNCHANGED <<now, account, iat, parent, redisVars, op, own, body, historyVars>>

\* verifyRefreshToken, then findRefreshToken and the tests on the row read.
RefreshLookup(p, r) ==
    /\ pc[p] = "idle"
    /\ refresh[r] = "live"
    /\ now < iat[r] + RefreshTtl
    /\ \E g \in Grants : Reserve(p, g)
    /\ Goto(p, "rotate")
    /\ body' = [body EXCEPT ![p] = r]
    /\ UNCHANGED <<now, account, iat, parent, redisVars, op, own, historyVars>>

\* Mutant: the exchange leaves the row of the old token as it is.
RotateWithoutRevoking(p) ==
    /\ pc[p] = "rotate"
    /\ Goto(p, "owner")
    /\ UNCHANGED <<now, tokenVars, redisVars, op, own, body, fresh, historyVars>>

\* revokeRefreshToken updates the row by id, whatever it now holds; the
\* update of a row that is gone fails.
Rotate(p) ==
    /\ pc[p] = "rotate"
    /\ IF refresh[body[p]] = "erased"
       THEN Finish(p) /\ Drop(p) /\ UNCHANGED ended
       ELSE /\ refresh' = [refresh EXCEPT ![body[p]] = "revoked"]
            /\ Goto(p, "owner")
            /\ UNCHANGED <<iat, parent, op, own, body, fresh, historyVars>>
    /\ UNCHANGED <<now, account, redisVars>>

\* refreshTokens rejects an account that is inactive or no longer there.
CheckOwner(p) ==
    /\ pc[p] = "owner"
    /\ IF account # "active"
       THEN Finish(p) /\ Drop(p) /\ UNCHANGED ended
       ELSE /\ Goto(p, "sign")
            /\ UNCHANGED <<refresh, iat, parent, op, own, body, fresh, historyVars>>
    /\ UNCHANGED <<now, account, redisVars>>

\* issueTokens: permissions and membership are resolved, both JWTs signed.
Sign(p) ==
    /\ pc[p] = "sign"
    /\ iat' = [iat EXCEPT ![fresh[p]] = now]
    /\ parent' = [parent EXCEPT ![fresh[p]] = body[p]]
    /\ Goto(p, "store")
    /\ UNCHANGED <<now, account, refresh, redisVars, op, own, body, fresh, historyVars>>

\* createRefreshToken; with the account gone the insert has no user to refer
\* to and fails.  The response then carries both tokens.
Store(p) ==
    /\ pc[p] = "store"
    /\ Finish(p)
    /\ IF account = "deleted"
       THEN Drop(p)
       ELSE /\ refresh' = [refresh EXCEPT ![fresh[p]] = "live"]
            /\ UNCHANGED <<iat, parent>>
    /\ UNCHANGED <<now, account, redisVars, ended>>

-----------------------------------------------------------------------------
\* The authenticate middleware.

\* A request bears the access token of g, unexpired; a logout also carries a
\* refresh token r, of any grant the client holds.
Present(p, g, o, r) ==
    /\ pc[p] = "idle"
    /\ Delivered(g)
    /\ now < AccessExpiry(g)
    /\ IF o = "logout" THEN r \in Grants /\ Delivered(r) ELSE r = None
    /\ Goto(p, "blacklist")
    /\ op' = [op EXCEPT ![p] = o]
    /\ own' = [own EXCEPT ![p] = g]
    /\ body' = [body EXCEPT ![p] = r]
    /\ stale' = [stale EXCEPT ![p] = g \in ended]
    /\ UNCHANGED <<now, tokenVars, redisVars, fresh, ended>>

\* isAccessTokenBlacklisted; a Redis error reads as "not blacklisted".
CheckBlacklist(p) ==
    /\ pc[p] = "blacklist"
    /\ \/ Blacklisted(own[p]) /\ Finish(p) /\ UNCHANGED ended
       \/ /\ ~Blacklisted(own[p]) \/ RedisMayFail
          /\ Goto(p, "cutoff")
          /\ UNCHANGED <<op, own, body, fresh, historyVars>>
    /\ UNCHANGED <<now, tokenVars, redisVars>>

\* getUserRevocationTime; a Redis error reads as "no revocation".
CheckCutoff(p) ==
    /\ pc[p] = "cutoff"
    /\ \/ BeforeCutoff(own[p]) /\ Finish(p) /\ UNCHANGED ended
       \/ /\ ~BeforeCutoff(own[p]) \/ RedisMayFail
          /\ Goto(p, IF op[p] = "access" THEN "serve" ELSE op[p])
          /\ UNCHANGED <<op, own, body, fresh, historyVars>>
    /\ UNCHANGED <<now, tokenVars, redisVars>>

\* Any other route behind authenticate.
Serve(p) ==
    /\ pc[p] = "serve"
    /\ Finish(p)
    /\ UNCHANGED <<now, tokenVars, redisVars, ended>>

-----------------------------------------------------------------------------
\* Revocation.

\* blacklistAccessToken: no key for a token that has expired meanwhile.
Blacklist(g) ==
    \/ /\ RemainingTtl(g) > 0
       /\ blacklist' = [blacklist EXCEPT ![g] = now + RemainingTtl(g)]
    \/ /\ RemainingTtl(g) = 0 \/ RedisMayFail
       /\ UNCHANGED blacklist

\* Mutant: the instant lies a second back, to spare tokens just issued.
EarlyRevocationTime ==
    \/ revokeBefore' = now - 1 /\ revokeUntil' = now + RevocationTtl
    \/ RedisMayFail /\ UNCHANGED <<revokeBefore, revokeUntil>>

\* setUserRevocationTime: the instant is taken and the command sent at once.
SetRevocationTime ==
    \/ revokeBefore' = now /\ revokeUntil' = now + RevocationTtl
    \/ RedisMayFail /\ UNCHANGED <<revokeBefore, revokeUntil>>

Older == {g \in Grants : Delivered(g) /\ iat[g] < now}

\* logout runs both branches of its Promise.all: the blacklist command goes
\* out at once, while the other branch looks the refresh token up.
Logout(p) ==
    /\ pc[p] = "logout"
    /\ Blacklist(own[p])
    /\ ended' = ended \cup {own[p]}
    /\ Goto(p, "logoutFind")
    /\ UNCHANGED <<now, tokenVars, revokeBefore, revokeUntil, op, own, body, fresh,
                   stale>>

\* TokenService.revokeRefreshToken reads the row ...
LogoutFind(p) ==
    /\ pc[p] = "logoutFind"
    /\ IF refresh[body[p]] = "live"
       THEN Goto(p, "logoutRevoke") /\ UNCHANGED <<op, own, body, fresh, historyVars>>
       ELSE Finish(p) /\ UNCHANGED ended
    /\ UNCHANGED <<now, tokenVars, redisVars>>

\* ... and revokes it in a second query.
LogoutRevoke(p) ==
    /\ pc[p] = "logoutRevoke"
    /\ Finish(p)
    /\ refresh' = [refresh EXCEPT ![body[p]] = IF @ = "erased" THEN @ ELSE "revoked"]
    /\ UNCHANGED <<now, account, iat, parent, redisVars, ended>>

\* logoutAll takes the instant first and sends both Redis commands at once;
\* the query of the third branch completes in RevokeAll.
LogoutAll(p) ==
    /\ pc[p] = "logoutAll"
    /\ SetRevocationTime
    /\ Blacklist(own[p])
    /\ ended' = ended \cup Older \cup {own[p]}
    /\ Goto(p, "revokeAll")
    /\ UNCHANGED <<now, tokenVars, op, own, body, fresh, stale>>

\* changePassword, up to the new hash being written.
ChangePassword(p) ==
    /\ pc[p] = "changePassword"
    /\ Goto(p, IF account = "deleted" THEN "idle" ELSE "revokeAll")
    /\ Dismiss(p)
    /\ UNCHANGED <<now, tokenVars, redisVars, body, fresh, ended>>

\* resetPassword, its token consumed, up to the new hash being written.
ResetPassword(p) ==
    /\ pc[p] = "idle"
    /\ account # "deleted"
    /\ Goto(p, "revokeAll")
    /\ UNCHANGED <<now, tokenVars, redisVars, op, own, body, fresh, historyVars>>

\* suspendUser, and updateUser when it clears isActive.
Suspend(p) ==
    /\ pc[p] = "idle"
    /\ account # "deleted"
    /\ account' = "suspended"
    /\ Goto(p, "revokeAll")
    /\ UNCHANGED <<now, refresh, iat, parent, redisVars, op, own, body, fresh, historyVars>>

\* Mutant: no live refresh token, nothing more to revoke.
RevokeAllUnlessNone(p) ==
    /\ pc[p] = "revokeAll"
    /\ refresh' = [g \in Grants |-> IF refresh[g] = "live" THEN "revoked" ELSE refresh[g]]
    /\ Goto(p, IF op[p] = "logoutAll" \/ \A g \in Grants : refresh[g] # "live"
               THEN "idle" ELSE "cut")
    /\ Dismiss(p)
    /\ UNCHANGED <<now, account, iat, parent, redisVars, body, fresh, ended>>

\* revokeAllUserRefreshTokens; the password and suspension paths go on to set
\* the revocation time, logoutAll has done so.
RevokeAll(p) ==
    /\ pc[p] = "revokeAll"
    /\ refresh' = [g \in Grants |-> IF refresh[g] = "live" THEN "revoked" ELSE refresh[g]]
    /\ Goto(p, IF op[p] = "logoutAll" THEN "idle" ELSE "cut")
    /\ Dismiss(p)
    /\ UNCHANGED <<now, account, iat, parent, redisVars, body, fresh, ended>>

Cut(p) ==
    /\ pc[p] = "cut"
    /\ SetRevocationTime
    /\ ended' = ended \cup Older
    /\ Finish(p)
    /\ UNCHANGED <<now, tokenVars, blacklist>>

-----------------------------------------------------------------------------
\* Administration, time and failures.

\* Mutant: activation lifts the revocation the suspension had written.
ActivateAfresh ==
    /\ account = "suspended"
    /\ account' = "active"
    /\ revokeBefore' = 0 /\ revokeUntil' = 0
    /\ UNCHANGED <<now, refresh, iat, parent, blacklist, requestVars, historyVars>>

\* activateUser, and updateUser when it sets isActive.
Activate ==
    /\ account = "suspended"
    /\ account' = "active"
    /\ UNCHANGED <<now, refresh, iat, parent, redisVars, requestVars, historyVars>>

\* deleteUser: the rows go with the account, no Redis key is written.
Delete ==
    /\ account # "deleted"
    /\ account' = "deleted"
    /\ refresh' = [g \in Grants |-> IF Delivered(g) THEN "erased" ELSE refresh[g]]
    /\ UNCHANGED <<now, iat, parent, redisVars, requestVars, historyVars>>

\* A query fails, or the process restarts: the request goes no further, and
\* what it has written stays.
Fail(p) ==
    /\ RequestsMayFail
    /\ pc[p] # "idle"
    /\ Finish(p)
    /\ Drop(p)
    /\ UNCHANGED <<now, account, redisVars, ended>>

Tick ==
    /\ now < MaxTime
    /\ now' = now + 1
    /\ UNCHANGED <<tokenVars, redisVars, requestVars, historyVars>>

\* The next await of a request already admitted to the process.
Continue(p) ==
    \/ Rotate(p) \/ CheckOwner(p) \/ Sign(p) \/ Store(p)
    \/ CheckBlacklist(p) \/ CheckCutoff(p) \/ Serve(p)
    \/ Logout(p) \/ LogoutFind(p) \/ LogoutRevoke(p) \/ LogoutAll(p)
    \/ ChangePassword(p) \/ RevokeAll(p) \/ Cut(p)

Begin(p) ==
    \/ LoginLookup(p)
    \/ \E r \in Grants : RefreshLookup(p, r)
    \/ \E g \in Grants, o \in BearerOps, r \in Grants \cup {None} : Present(p, g, o, r)
    \/ ResetPassword(p)
    \/ Suspend(p)

Next ==
    \/ \E p \in Requests : Begin(p) \/ Continue(p) \/ Fail(p)
    \/ Activate \/ Delete \/ Tick

Spec == Init /\ [][Next]_vars

\* Node's event loop resumes every request whose query has been answered.
FairSpec == Spec /\ \A p \in Requests : WF_vars(Continue(p))

-----------------------------------------------------------------------------
\* A refresh token that has been exchanged is dead from the moment its
\* successor's tokens are signed: the order revoke, check owner, issue in
\* refreshTokens leaves no state in which both could be redeemed.
RotationRetiresParent ==
    \A g \in Grants : parent[g] # None => refresh[parent[g]] \in {"revoked", "erased"}

\* The authenticate middleware lets nobody in on an unexpired access token
\* that a logout, a logout-all, a password change or a suspension had ended
\* before the token was presented, although it reads the two Redis keys at
\* different moments, both keys expire, and the second is overwritten.
NoEntryOnceEnded ==
    \A p \in Requests :
        pc[p] \in Admitted /\ now < AccessExpiry(own[p]) => ~stale[p]

\* What that rests on: the keys refuse an access token from the moment an
\* operation has ended it for as long as it would be valid, although each key
\* expires by itself and one revocation overwrites the other's.
EndedRefused == \A g \in ended : now < AccessExpiry(g) => Refused(g)

\* The revocation instant of an account never moves back, whichever of its
\* concurrent logout-all, password and suspension requests writes last: a
\* later write with an earlier instant would readmit ended tokens.
RevocationNeverMovesBack == [][revokeBefore' >= revokeBefore]_vars

\* A password change, a reset or a suspension that has come as far as revoking
\* the refresh tokens sooner or later shuts out, or outlives, every access
\* token issued before that second.  (logoutAll has set its instant by then.)
RevocationTakesHold ==
    \A p \in Requests, g \in Grants :
        pc[p] = "revokeAll" /\ op[p] # "logoutAll" /\ g \in Older
            ~> Refused(g) \/ now >= AccessExpiry(g)

\* Each use of a refresh token consumes it: no two grants are ever issued in
\* exchange for the same one.
RotationSingleUse ==
    \A g, h \in Grants : parent[g] # None /\ parent[g] = parent[h] => g = h

\* What holds of it in spite of overlapping exchanges: a refresh token is
\* exchanged no more often than requests are served at once.
SuccessorsBounded ==
    \A r \in Grants :
        Cardinality({g \in Grants : parent[g] = r}) <= Cardinality(Requests)

\* "Revoke all sessions": from the moment logout-all has written its instant,
\* no unexpired access token the account's clients already hold is admitted.
LogoutAllEndsAccess ==
    [][\A p \in Requests : LogoutAll(p) =>
            \A g \in Grants : Delivered(g) /\ now < AccessExpiry(g) => Refused(g)']_vars

=============================================================================
