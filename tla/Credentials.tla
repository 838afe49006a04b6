---------------------------- MODULE Credentials ----------------------------
(***************************************************************************)
(* Requests that come with a secret instead of a session: an API key of an *)
(* organization (X-Authy-Key), or the secret of an organization or an app. *)
(* The secret is hashed and its row looked up, the owner's status is       *)
(* tested, and the request goes on with what it read.  For an API key the  *)
(* owner is read in a second query; for the others the status is in the    *)
(* row that holds the hash.                                                *)
(***************************************************************************)
EXTENDS Integers, FiniteSets

CONSTANTS
    Requests,      \* requests being served at the same time
    MaxFlight      \* bound on the ticks a request takes

CredentialsAssumption == MaxFlight \in Nat

VARIABLES
    kind,          \* which it is: an API key or a secret of its owner
    row,           \* the row with its hash: live, expired or gone
    active,        \* its owner (organization, app) is ACTIVE
    pc,            \* where each request stands
    flight,        \* the ticks since it came
    sinceValid,    \* history: ticks since the secret was last valid ...
    sinceActive    \* ... and since the owner was last active

vars == <<kind, row, active, pc, flight, sinceValid, sinceActive>>

Linger == MaxFlight + 1
Valid == row = "live"

TypeOK ==
    /\ kind \in {"key", "secret"}
    /\ row \in {"live", "expired", "gone"} /\ active \in BOOLEAN
    /\ pc \in [Requests -> {"idle", "owner", "act"}]
    /\ flight \in [Requests -> 0..MaxFlight]
    /\ sinceValid \in 0..Linger /\ sinceActive \in 0..Linger
    /\ Valid => sinceValid = 0
    /\ active => sinceActive = 0

Init ==
    /\ kind \in {"key", "secret"}
    /\ row = "live" /\ active = TRUE
    /\ pc = [p \in Requests |-> "idle"]
    /\ flight = [p \in Requests |-> 0]
    /\ sinceValid = 0 /\ sinceActive = 0

-----------------------------------------------------------------------------
Goto(p, label) == pc' = [pc EXCEPT ![p] = label]
rowVars == <<kind, row, active, sinceValid, sinceActive>>

\* authenticateKey: the row of the hash, unless it has expired.
AuthenticateKey(p) ==
    /\ kind = "key" /\ pc[p] = "idle"
    /\ Valid
    /\ Goto(p, "owner")
    /\ UNCHANGED <<rowVars, flight>>

\* authenticateOrgSecret, findActiveAppBySecretHash: the row of the hash, if
\* the organization or app is active.
AuthenticateSecret(p) ==
    /\ kind = "secret" /\ pc[p] = "idle"
    /\ Valid /\ active
    /\ Goto(p, "act")
    /\ UNCHANGED <<rowVars, flight>>

\* Mutant: the organization is not tested.
FindOwnerAny(p) ==
    /\ pc[p] = "owner"
    /\ Goto(p, "act")
    /\ UNCHANGED <<rowVars, flight>>

\* authenticateOrgApiKey: the organization of the key, unless suspended.
FindOwner(p) ==
    /\ pc[p] = "owner"
    /\ Goto(p, IF active THEN "act" ELSE "idle")
    /\ flight' = [flight EXCEPT ![p] = IF active THEN @ ELSE 0]
    /\ UNCHANGED rowVars

\* The handler runs and answers, or fails.
Act(p) ==
    /\ pc[p] = "act"
    /\ Goto(p, "idle")
    /\ flight' = [flight EXCEPT ![p] = 0]
    /\ UNCHANGED rowVars

-----------------------------------------------------------------------------
SetRow(new) ==
    /\ row' = new
    /\ sinceValid' = IF new = "live" THEN 0 ELSE sinceValid
    /\ UNCHANGED <<kind, active, sinceActive, pc, flight>>

\* create hands out another key, which is followed from then on.
CreateKey == kind = "key" /\ row = "gone" /\ SetRow("live")

\* update moves expiresAt, back or forth.
UpdateKey ==
    /\ kind = "key"
    /\ \/ row = "live" /\ SetRow("expired")
       \/ row = "expired" /\ SetRow("live")

RevokeKey == kind = "key" /\ row # "gone" /\ SetRow("gone")

\* expiresAt is reached.
ExpireKey == kind = "key" /\ row = "live" /\ SetRow("expired")

\* regenerateSecret and regenerateAppSecret overwrite the hash.
RegenerateSecret == kind = "secret" /\ row = "live" /\ SetRow("gone")

\* suspendOrg and reactivateOrg, suspendApp and reactivateApp.
SetActive(on) ==
    /\ active # on
    /\ active' = on
    /\ sinceActive' = IF on THEN 0 ELSE sinceActive
    /\ UNCHANGED <<kind, row, sinceValid, pc, flight>>

\* Bound: no request takes longer than MaxFlight.
Tick ==
    /\ \A p \in Requests : pc[p] # "idle" => flight[p] < MaxFlight
    /\ flight' = [p \in Requests |-> IF pc[p] = "idle" THEN 0 ELSE flight[p] + 1]
    /\ sinceValid' = IF Valid \/ sinceValid = Linger THEN sinceValid ELSE sinceValid + 1
    /\ sinceActive' = IF active \/ sinceActive = Linger THEN sinceActive ELSE sinceActive + 1
    /\ UNCHANGED <<kind, row, active, pc>>

Next ==
    \/ \E p \in Requests :
          AuthenticateKey(p) \/ AuthenticateSecret(p) \/ FindOwner(p) \/ Act(p)
    \/ CreateKey \/ UpdateKey \/ RevokeKey \/ ExpireKey \/ RegenerateSecret
    \/ \E on \in BOOLEAN : SetActive(on)
    \/ Tick

Spec == Init /\ [][Next]_vars

-----------------------------------------------------------------------------
Acting == \E p \in Requests : pc[p] = "act"

SecretRight == INSTANCE RevocableRight WITH
    held <- Valid, since <- sinceValid, usable <- Acting
OwnerRight == INSTANCE RevocableRight WITH
    held <- active, since <- sinceActive, usable <- Acting

\* Once a secret is revoked, replaced or expired, or its owner suspended,
\* only requests act that were being served at that moment: each of the two
\* rights lapses within the time of one request, though they are read apart.
SecretLapses == SecretRight!Spec /\ OwnerRight!Spec

=============================================================================
