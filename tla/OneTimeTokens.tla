--------------------------- MODULE OneTimeTokens ---------------------------
(***************************************************************************)
(* The links one account is mailed: email verification and password reset. *)
(* Both kinds live in tables of their own and follow one protocol, spread  *)
(* over auth.service.ts, token.service.ts and token.repository.ts: a new   *)
(* link first marks the account's earlier links used and is then inserted, *)
(* a link is redeemed by reading its row, marking it used, reading the     *)
(* account and only then writing the account.  Each of these is a query of *)
(* its own, outside any transaction, and requests overlap freely.          *)
(***************************************************************************)
EXTENDS Integers, FiniteSets

CONSTANTS
    Tokens,           \* links that can be mailed
    Requests,         \* requests being served at the same time
    None,             \* no token
    RequestsMayFail   \* may a request end at any await (error, restart)?

TokensAssumption ==
    /\ IsFiniteSet(Tokens) /\ IsFiniteSet(Requests)
    /\ None \notin Tokens
    /\ RequestsMayFail \in BOOLEAN

VARIABLES
    account,                \* the users row: none yet, present, deleted
    isVerified, isActive,   \* its two flags
    row,                    \* the row of each token
    purpose,                \* the table the row is in
    expired,                \* tokens past their expiresAt
    pc,                     \* where each request stands
    goal,                   \* the purpose a request issues or redeems for
    tok,                    \* the token it redeems
    redeemed                \* history: how often each token was redeemed

accountVars == <<account, isVerified, isActive>>
tokenVars == <<row, purpose, expired>>
requestVars == <<pc, goal, tok>>
vars == <<accountVars, tokenVars, requestVars, redeemed>>

Purposes == {"verify", "reset"}
Redeeming == {"mark", "owner", "markVerified", "setPassword"}
Labels == Redeeming \cup {"idle", "create", "invalidate", "insert", "force", "sweep"}

TypeOK ==
    /\ account \in {"none", "present", "deleted"}
    /\ isVerified \in BOOLEAN /\ isActive \in BOOLEAN
    /\ row \in [Tokens -> {"unused", "live", "used", "erased"}]
    /\ purpose \in [Tokens -> Purposes \cup {"none"}]
    /\ expired \in SUBSET Tokens
    /\ pc \in [Requests -> Labels]
    /\ goal \in [Requests -> Purposes \cup {"none"}]
    /\ tok \in [Requests -> Tokens \cup {None}]
    /\ \A p \in Requests : pc[p] \in Redeeming => tok[p] \in Tokens /\ goal[p] \in Purposes
    /\ redeemed \in [Tokens -> Nat]

Init ==
    /\ account = "none"
    /\ isVerified = FALSE /\ isActive = FALSE
    /\ row = [t \in Tokens |-> "unused"]
    /\ purpose = [t \in Tokens |-> "none"]
    /\ expired = {}
    /\ pc = [p \in Requests |-> "idle"]
    /\ goal = [p \in Requests |-> "none"]
    /\ tok = [p \in Requests |-> None]
    /\ redeemed = [t \in Tokens |-> 0]

-----------------------------------------------------------------------------
Goto(p, label) == pc' = [pc EXCEPT ![p] = label]

\* A request sets out: where it goes, for what purpose, with which token.
Enter(p, label, k, t) ==
    /\ pc[p] = "idle"
    /\ Goto(p, label)
    /\ goal' = [goal EXCEPT ![p] = k]
    /\ tok' = [tok EXCEPT ![p] = t]

Advance(p, label) == Goto(p, label) /\ UNCHANGED <<goal, tok>>

Finish(p) ==
    /\ Goto(p, "idle")
    /\ goal' = [goal EXCEPT ![p] = "none"]
    /\ tok' = [tok EXCEPT ![p] = None]

Live(k) == {t \in Tokens : row[t] = "live" /\ purpose[t] = k}

\* updateMany where the user's rows are unused: mark them used.
MarkAllUsed(k) == row' = [t \in Tokens |-> IF t \in Live(k) THEN "used" ELSE row[t]]

\* Bound: a request sets out to mail a link only while one is left for it.
LinkLeft ==
    Cardinality({p \in Requests : pc[p] \in {"create", "invalidate", "insert"}})
        < Cardinality({t \in Tokens : row[t] = "unused"})

-----------------------------------------------------------------------------
\* Issuing a link.

\* register: no account has this email yet ...
RegisterLookup(p) ==
    /\ account = "none"
    /\ LinkLeft
    /\ Enter(p, "create", "verify", None)
    /\ UNCHANGED <<accountVars, tokenVars, redeemed>>

\* ... the users row is created, unless another registration came first and
\* the unique email refuses this one.
Create(p) ==
    /\ pc[p] = "create"
    /\ \/ /\ account = "none"
          /\ account' = "present"
          /\ Advance(p, "invalidate")
       \/ /\ account # "none"
          /\ Finish(p)
          /\ UNCHANGED account
    /\ UNCHANGED <<isVerified, isActive, tokenVars, redeemed>>

\* resendVerificationEmail does nothing for an account already verified.
Resend(p) ==
    /\ account = "present" /\ ~isVerified
    /\ LinkLeft
    /\ Enter(p, "invalidate", "verify", None)
    /\ UNCHANGED <<accountVars, tokenVars, redeemed>>

\* forgotPassword does nothing for an account that is not active.
Forgot(p) ==
    /\ account = "present" /\ isActive
    /\ LinkLeft
    /\ Enter(p, "invalidate", "reset", None)
    /\ UNCHANGED <<accountVars, tokenVars, redeemed>>

\* Mutant: a new reset link leaves the earlier ones alone.
InvalidateVerificationOnly(p) ==
    /\ pc[p] = "invalidate"
    /\ IF goal[p] = "verify" THEN MarkAllUsed("verify") ELSE UNCHANGED row
    /\ Advance(p, "insert")
    /\ UNCHANGED <<accountVars, purpose, expired, redeemed>>

\* createEmailVerificationToken and createPasswordResetToken: first the
\* earlier links are marked used ...
Invalidate(p) ==
    /\ pc[p] = "invalidate"
    /\ MarkAllUsed(goal[p])
    /\ Advance(p, "insert")
    /\ UNCHANGED <<accountVars, purpose, expired, redeemed>>

\* ... then the new one is inserted, which fails once the account is gone.
Insert(p) ==
    /\ pc[p] = "insert"
    /\ Finish(p)
    /\ IF account = "deleted"
       THEN UNCHANGED tokenVars
       ELSE \E t \in Tokens :
                /\ row[t] = "unused"
                /\ row' = [row EXCEPT ![t] = "live"]
                /\ purpose' = [purpose EXCEPT ![t] = goal[p]]
                /\ UNCHANGED expired
    /\ UNCHANGED <<accountVars, redeemed>>

-----------------------------------------------------------------------------
\* Redeeming a link: verifyEmail and resetPassword.

\* Mutant: a link no row is found for is not refused.
LookupAny(p, t) ==
    /\ row[t] \in {"live", "unused"}
    /\ t \notin expired
    /\ Enter(p, "mark", purpose[t], t)
    /\ UNCHANGED <<accountVars, tokenVars, redeemed>>

\* consume...Token finds the row, unused and not expired ...
Lookup(p, t) ==
    /\ row[t] = "live"
    /\ t \notin expired
    /\ Enter(p, "mark", purpose[t], t)
    /\ UNCHANGED <<accountVars, tokenVars, redeemed>>

\* Mutant: a reset link is not marked used.
MarkVerificationUsed(p) ==
    /\ pc[p] = "mark"
    /\ row' = [row EXCEPT ![tok[p]] = IF goal[p] = "verify" THEN "used" ELSE @]
    /\ redeemed' = [redeemed EXCEPT ![tok[p]] = @ + 1]
    /\ Advance(p, "owner")
    /\ UNCHANGED <<accountVars, purpose, expired>>

\* ... and marks it used by id, whatever the row holds by then.
MarkUsed(p) ==
    /\ pc[p] = "mark"
    /\ IF row[tok[p]] = "erased"
       THEN Finish(p) /\ UNCHANGED <<row, redeemed>>
       ELSE /\ row' = [row EXCEPT ![tok[p]] = "used"]
            /\ redeemed' = [redeemed EXCEPT ![tok[p]] = @ + 1]
            /\ Advance(p, "owner")
    /\ UNCHANGED <<accountVars, purpose, expired>>

\* Mutant: an active account is taken for a verified one.
OwnerActive(p) ==
    /\ pc[p] = "owner"
    /\ \/ account = "deleted" /\ Finish(p)
       \/ account # "deleted" /\ goal[p] = "verify" /\ isActive /\ Finish(p)
       \/ account # "deleted" /\ goal[p] = "verify" /\ ~isActive /\ Advance(p, "markVerified")
       \/ account # "deleted" /\ goal[p] = "reset" /\ Advance(p, "setPassword")
    /\ UNCHANGED <<accountVars, tokenVars, redeemed>>

\* findById: the account may be gone, or verified by now.  A reset may end at
\* the password history.
Owner(p) ==
    /\ pc[p] = "owner"
    /\ \/ account = "deleted" /\ Finish(p)
       \/ account # "deleted" /\ goal[p] = "verify" /\ isVerified /\ Finish(p)
       \/ account # "deleted" /\ goal[p] = "verify" /\ ~isVerified /\ Advance(p, "markVerified")
       \/ account # "deleted" /\ goal[p] = "reset" /\ (Finish(p) \/ Advance(p, "setPassword"))
    /\ UNCHANGED <<accountVars, tokenVars, redeemed>>

\* markEmailVerified sets both flags, though the account may have been
\* verified, and suspended, since it was read.
MarkVerified(p) ==
    /\ pc[p] = "markVerified"
    /\ Finish(p)
    /\ IF account = "deleted"
       THEN UNCHANGED <<isVerified, isActive>>
       ELSE isVerified' = TRUE /\ isActive' = TRUE
    /\ UNCHANGED <<account, tokenVars, redeemed>>

\* updatePassword touches neither flag nor link.
SetPassword(p) ==
    /\ pc[p] = "setPassword"
    /\ Finish(p)
    /\ UNCHANGED <<accountVars, tokenVars, redeemed>>

-----------------------------------------------------------------------------
\* Administration.

\* forceActivateUser finds the account unverified ...
ForceLookup(p) ==
    /\ account = "present" /\ ~isVerified
    /\ Enter(p, "force", "none", None)
    /\ UNCHANGED <<accountVars, tokenVars, redeemed>>

\* ... checks the administrator's password and writes both flags ...
ForceActivate(p) ==
    /\ pc[p] = "force"
    /\ IF account = "deleted"
       THEN Finish(p) /\ UNCHANGED <<isVerified, isActive>>
       ELSE isVerified' = TRUE /\ isActive' = TRUE /\ Advance(p, "sweep")
    /\ UNCHANGED <<account, tokenVars, redeemed>>

\* ... and takes the verification links back.
Sweep(p) ==
    /\ pc[p] = "sweep"
    /\ MarkAllUsed("verify")
    /\ Finish(p)
    /\ UNCHANGED <<accountVars, purpose, expired, redeemed>>

\* suspendUser, activateUser and updateUser set isActive, verified or not.
SetActive(on) ==
    /\ account = "present"
    /\ isActive' = on
    /\ UNCHANGED <<account, isVerified, tokenVars, requestVars, redeemed>>

\* deleteUser: the account's tokens go with it.
Delete ==
    /\ account = "present"
    /\ account' = "deleted"
    /\ row' = [t \in Tokens |-> IF row[t] = "unused" THEN "unused" ELSE "erased"]
    /\ UNCHANGED <<isVerified, isActive, purpose, expired, requestVars, redeemed>>

Expire(t) ==
    /\ row[t] = "live" /\ t \notin expired
    /\ expired' = expired \cup {t}
    /\ UNCHANGED <<accountVars, row, purpose, requestVars, redeemed>>

\* A query fails, or the process restarts.
Fail(p) ==
    /\ RequestsMayFail
    /\ pc[p] # "idle"
    /\ Finish(p)
    /\ UNCHANGED <<accountVars, tokenVars, redeemed>>

Continue(p) ==
    \/ Create(p) \/ Invalidate(p) \/ Insert(p)
    \/ MarkUsed(p) \/ Owner(p) \/ MarkVerified(p) \/ SetPassword(p)
    \/ ForceActivate(p) \/ Sweep(p)

Begin(p) ==
    \/ RegisterLookup(p) \/ Resend(p) \/ Forgot(p) \/ ForceLookup(p)
    \/ \E t \in Tokens : Lookup(p, t)

Next ==
    \/ \E p \in Requests : Begin(p) \/ Continue(p) \/ Fail(p)
    \/ SetActive(TRUE) \/ SetActive(FALSE) \/ Delete
    \/ \E t \in Tokens : Expire(t)

Spec == Init /\ [][Next]_vars

\* Node's event loop resumes every request whose query has been answered.
FairSpec == Spec /\ \A p \in Requests : WF_vars(Continue(p))

-----------------------------------------------------------------------------
\* However requests for a new link interleave, each leaves at most one link
\* alive: never more links of a kind are open than requests run at once.
LiveLinksBounded ==
    \A k \in Purposes : Cardinality(Live(k)) <= Cardinality(Requests)

\* Only requests that had all read a link before the first of them marked it
\* can redeem it: every later one is refused, also when the link has been
\* taken back and redeemed in either order.
RedemptionsBounded == \A t \in Tokens : redeemed[t] <= Cardinality(Requests)

\* A verification link that has been accepted does verify the account, or the
\* account is gone: the link is spent before the account is written, and
\* nothing hands it back.
RedemptionTakesEffect ==
    \A p \in Requests :
        pc[p] = "mark" /\ goal[p] = "verify" ~> isVerified \/ account = "deleted"

\* "Invalidate any previous tokens for this user": of the links of a kind, at
\* most one is alive.
PreviousLinksInvalid ==
    \A k \in Purposes : \A s, t \in Live(k) : s = t

\* "Verification token is one-time-use", "Reset token is one-time-use".
OneTimeUse == \A t \in Tokens : redeemed[t] <= 1

=============================================================================
