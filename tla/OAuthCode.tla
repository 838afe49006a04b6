----------------------------- MODULE OAuthCode -----------------------------
(***************************************************************************)
(* The authorization codes of one OAuth app and one user.  authorize       *)
(* checks the app, then the user, then inserts a code; exchangeCode checks *)
(* the app, then the code, marks it used by id, reads the user and signs   *)
(* tokens.  Each is a query of its own, and requests overlap freely.       *)
(***************************************************************************)
EXTENDS Integers, FiniteSets

CONSTANTS
    Codes,            \* codes that can be handed out
    Requests,         \* requests being served at the same time
    Uris,             \* redirect URIs
    RequestsMayFail   \* may a request end at any await (error, restart)?

CodesAssumption ==
    /\ IsFiniteSet(Requests)
    /\ RequestsMayFail \in BOOLEAN

VARIABLES
    app,        \* the OAuthApp row: present or deleted
    uris,       \* its redirectUris
    user,       \* the user: active, inactive or deleted
    code,       \* the row of each code
    boundTo,    \* the redirect URI it was created for
    expired,    \* the codes past their 120 seconds
    pc,         \* where each request stands
    uri,        \* the redirect URI it came with: a set of at most one
    own,        \* the code it exchanges: a set of at most one
    granted     \* history: how often each code was exchanged for tokens

appVars == <<app, uris, user>>
codeVars == <<code, boundTo, expired>>
requestVars == <<pc, uri, own>>
vars == <<appVars, codeVars, requestVars, granted>>

TypeOK ==
    /\ app \in {"present", "deleted"}
    /\ uris \in SUBSET Uris
    /\ user \in {"active", "inactive", "deleted"}
    /\ code \in [Codes -> {"unused", "live", "used", "erased"}]
    /\ boundTo \in [Codes -> SUBSET Uris]
    /\ expired \in SUBSET Codes
    /\ pc \in [Requests -> {"idle", "user", "insert", "code", "mark", "owner"}]
    /\ uri \in [Requests -> SUBSET Uris]
    /\ own \in [Requests -> SUBSET Codes]
    /\ \A p \in Requests : own[p] # {} <=> pc[p] \in {"mark", "owner"}
    /\ \A p \in Requests, c \in Codes : c \in own[p] => code[c] # "unused"
    /\ granted \in [Codes -> Nat]

Init ==
    /\ app = "present" /\ uris = Uris /\ user = "active"
    /\ code = [c \in Codes |-> "unused"]
    /\ boundTo = [c \in Codes |-> {}]
    /\ expired = {}
    /\ pc = [p \in Requests |-> "idle"]
    /\ uri = [p \in Requests |-> {}]
    /\ own = [p \in Requests |-> {}]
    /\ granted = [c \in Codes |-> 0]

-----------------------------------------------------------------------------
Goto(p, label, us, cs) ==
    /\ pc' = [pc EXCEPT ![p] = label]
    /\ uri' = [uri EXCEPT ![p] = us]
    /\ own' = [own EXCEPT ![p] = cs]

Finish(p) == Goto(p, "idle", {}, {})

\* authorize: the client exists and has registered the redirect URI ...
FindClient(p, u) ==
    /\ pc[p] = "idle"
    /\ app = "present" /\ u \in uris
    /\ Goto(p, "user", {u}, {})
    /\ UNCHANGED <<appVars, codeVars, granted>>

\* ... the user is active and knows the password ...
FindUser(p) ==
    /\ pc[p] = "user"
    /\ IF user = "active" THEN Goto(p, "insert", uri[p], {}) ELSE Finish(p)
    /\ UNCHANGED <<appVars, codeVars, granted>>

\* Mutant: a code does not depend on its app.
InsertAnyway(p) ==
    /\ pc[p] = "insert"
    /\ \E c \in Codes :
          /\ code[c] = "unused"
          /\ code' = [code EXCEPT ![c] = "live"]
          /\ boundTo' = [boundTo EXCEPT ![c] = uri[p]]
    /\ Finish(p)
    /\ UNCHANGED <<appVars, expired, granted>>

\* ... and the code is inserted, which fails once the app is gone; that the
\* user is gone, or the URI no longer registered, does not matter any more.
CreateAuthCode(p) ==
    /\ pc[p] = "insert"
    /\ IF app = "deleted"
       THEN UNCHANGED <<code, boundTo>>
       ELSE \E c \in Codes :
                /\ code[c] = "unused"
                /\ code' = [code EXCEPT ![c] = "live"]
                /\ boundTo' = [boundTo EXCEPT ![c] = uri[p]]
    /\ Finish(p)
    /\ UNCHANGED <<appVars, expired, granted>>

-----------------------------------------------------------------------------
\* exchangeCode: the client exists and presents its secret ...
Authenticate(p, u) ==
    /\ pc[p] = "idle"
    /\ app = "present"
    /\ Goto(p, "code", {u}, {})
    /\ UNCHANGED <<appVars, codeVars, granted>>

Acceptable(c, us) ==
    /\ code[c] = "live" /\ c \notin expired
    /\ boundTo[c] = us

\* Mutant: a code that is not live is accepted.
AcceptSpent(p, c) ==
    /\ pc[p] = "code"
    /\ IF code[c] # "unused" /\ boundTo[c] = uri[p]
       THEN Goto(p, "mark", {}, {c})
       ELSE Finish(p)
    /\ UNCHANGED <<appVars, codeVars, granted>>

\* ... the code presented has a row, unused, not expired, created for this
\* client, redirect URI and verifier ...
FindAuthCode(p, c) ==
    /\ pc[p] = "code"
    /\ IF Acceptable(c, uri[p]) THEN Goto(p, "mark", {}, {c}) ELSE Finish(p)
    /\ UNCHANGED <<appVars, codeVars, granted>>

\* ... it is marked used by id, whether or not it is by now ...
MarkAuthCodeUsed(p) ==
    /\ pc[p] = "mark"
    /\ IF app = "deleted"
       THEN Finish(p) /\ UNCHANGED code
       ELSE /\ code' = [c \in Codes |-> IF c \in own[p] THEN "used" ELSE code[c]]
            /\ Goto(p, "owner", {}, own[p])
    /\ UNCHANGED <<appVars, boundTo, expired, granted>>

\* ... and the user, who may have been suspended since, gets tokens.
Grant(p) ==
    /\ pc[p] = "owner"
    /\ granted' = [c \in Codes |->
                     granted[c] + IF c \in own[p] /\ user # "deleted" THEN 1 ELSE 0]
    /\ Finish(p)
    /\ UNCHANGED <<appVars, codeVars>>

-----------------------------------------------------------------------------
\* updateApp writes redirectUris as a whole.
UpdateApp(us) ==
    /\ app = "present"
    /\ uris # us
    /\ uris' = us
    /\ UNCHANGED <<app, user, codeVars, requestVars, granted>>

\* deleteApp: the codes go with the app.
DeleteApp ==
    /\ app = "present"
    /\ app' = "deleted"
    /\ code' = [c \in Codes |-> IF code[c] = "unused" THEN "unused" ELSE "erased"]
    /\ UNCHANGED <<uris, user, boundTo, expired, requestVars, granted>>

\* suspendUser, activateUser, deleteUser: the codes stay.
SetUser(state) ==
    /\ user \notin {"deleted", state}
    /\ user' = state
    /\ UNCHANGED <<app, uris, codeVars, requestVars, granted>>

Expire(c) ==
    /\ code[c] = "live" /\ c \notin expired
    /\ expired' = expired \cup {c}
    /\ UNCHANGED <<appVars, code, boundTo, requestVars, granted>>

\* A query fails, or the process restarts.
Fail(p) ==
    /\ RequestsMayFail
    /\ pc[p] # "idle"
    /\ Finish(p)
    /\ UNCHANGED <<appVars, codeVars, granted>>

Continue(p) ==
    \/ FindUser(p) \/ CreateAuthCode(p) \/ MarkAuthCodeUsed(p) \/ Grant(p)
    \/ \E c \in Codes : FindAuthCode(p, c)

Next ==
    \/ \E p \in Requests :
          \/ \E u \in Uris : FindClient(p, u) \/ Authenticate(p, u)
          \/ Continue(p) \/ Fail(p)
    \/ \E us \in SUBSET Uris : UpdateApp(us)
    \/ DeleteApp
    \/ \E state \in {"active", "inactive", "deleted"} : SetUser(state)
    \/ \E c \in Codes : Expire(c)

Spec == Init /\ [][Next]_vars

-----------------------------------------------------------------------------
\* A code is exchanged only by requests that had all found it unused before
\* the first of them marked it; every later one is refused.
GrantsBounded == \A c \in Codes : granted[c] <= Cardinality(Requests)

\* Tokens leave the server only after the mark is in the database, so that no
\* failure in between leaves a code usable whose tokens are out; and an app
\* that is gone has no code left to exchange, also when authorize had checked
\* it before.
GrantedCodesAreSpent ==
    /\ \A c \in Codes : granted[c] > 0 => code[c] \in {"used", "erased"}
    /\ app = "deleted" => \A c \in Codes : code[c] # "live"

\* "Authorization code already used": no code is exchanged twice.
OneTimeCode == \A c \in Codes : granted[c] <= 1

=============================================================================
