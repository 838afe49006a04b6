-------------------------- MODULE PermissionCheck --------------------------
(***************************************************************************)
(* POST /check and /check/batch for one user and one calling organization. *)
(* The features come from Redis, or else from the UserApp row with the id  *)
(* asked for, and are then stored in Redis.  Neither OAuth tokens nor      *)
(* Authy's own have a roleVersion of their own, so the version in the key  *)
(* is always 0 and there is one key; nothing calls                         *)
(* invalidatePermissionsForUser.                                           *)
(***************************************************************************)
EXTENDS Integers, FiniteSets

CONSTANTS
    Apps,          \* ids of the organization's apps
    Org,           \* the organization's id
    Features,
    Requests,      \* requests being served at the same time
    PermTtl,       \* PERM_TTL_SECONDS, in clock ticks
    MaxFlight      \* bound on the ticks a request takes

\* Ids of apps and organizations are random UUIDs.
CheckAssumption ==
    /\ Org \notin Apps
    /\ PermTtl \in Nat \ {0} /\ MaxFlight \in Nat

\* What a request answers was resolved by one that may have taken MaxFlight
\* to store it, lay in Redis for PermTtl, and was answered after MaxFlight.
Linger == PermTtl + 2 * MaxFlight + 1

VARIABLES
    effective,     \* the user's features in each app
    cached,        \* the value of the key in Redis: a set of at most one
    left,          \* the ticks it has still to live
    pc,            \* where each request stands
    asked,         \* the features it asks for
    features,      \* those it has found
    flight,        \* the ticks since it came
    since          \* history: ticks since each feature was last lacking

vars == <<effective, cached, left, pc, asked, features, flight, since>>

Held(f) == \E a \in Apps : f \in effective[a]

TypeOK ==
    /\ effective \in [Apps -> SUBSET Features]
    /\ cached \in SUBSET SUBSET Features
    /\ left \in 0..PermTtl
    /\ cached = {} <=> left = 0
    /\ pc \in [Requests -> {"idle", "resolve", "store", "answer"}]
    /\ asked \in [Requests -> SUBSET Features]
    /\ features \in [Requests -> SUBSET Features]
    /\ flight \in [Requests -> 0..MaxFlight]
    /\ since \in [Features -> 0..Linger]

Init ==
    /\ effective \in [Apps -> SUBSET Features]
    /\ cached = {} /\ left = 0
    /\ pc = [p \in Requests |-> "idle"]
    /\ asked = [p \in Requests |-> {}]
    /\ features = [p \in Requests |-> {}]
    /\ flight = [p \in Requests |-> 0]
    /\ since = [f \in Features |-> 0]

-----------------------------------------------------------------------------
Goto(p, label, fs) ==
    /\ pc' = [pc EXCEPT ![p] = label]
    /\ features' = [features EXCEPT ![p] = fs]

\* getPermissions; an error reads as a miss.
GetPermissions(p, fs) ==
    /\ pc[p] = "idle"
    /\ fs # {}
    /\ asked' = [asked EXCEPT ![p] = fs]
    /\ \/ Goto(p, "resolve", {})
       \/ \E found \in cached : Goto(p, "answer", found)
    /\ UNCHANGED <<effective, cached, left, flight, since>>

\* resolveUserPermissionsForApp: the features of the row for this app id.
ResolvedFor(id) == UNION {effective[a] : a \in Apps \cap {id}}

\* check and batchCheck hand it the organization of the API key.
Resolve(p) ==
    /\ pc[p] = "resolve"
    /\ Goto(p, "store", ResolvedFor(Org))
    /\ UNCHANGED <<effective, cached, left, asked, flight, since>>

\* setPermissions; an error is ignored.
SetPermissions(p) ==
    /\ pc[p] = "store"
    /\ \/ cached' = {features[p]} /\ left' = PermTtl
       \/ UNCHANGED <<cached, left>>
    /\ Goto(p, "answer", features[p])
    /\ UNCHANGED <<effective, asked, flight, since>>

Answer(p) ==
    /\ pc[p] = "answer"
    /\ Goto(p, "idle", {})
    /\ asked' = [asked EXCEPT ![p] = {}]
    /\ flight' = [flight EXCEPT ![p] = 0]
    /\ UNCHANGED <<effective, cached, left, since>>

\* Roles, direct features and access change.
Change(a, fs) ==
    /\ effective[a] # fs
    /\ effective' = [effective EXCEPT ![a] = fs]
    /\ since' = [f \in Features |-> IF Held(f) /\ Held(f)' THEN since[f] ELSE 0]
    /\ UNCHANGED <<cached, left, pc, asked, features, flight>>

\* Bound: no request takes longer than MaxFlight.
Tick ==
    /\ \A p \in Requests : pc[p] # "idle" => flight[p] < MaxFlight
    /\ flight' = [p \in Requests |-> IF pc[p] = "idle" THEN 0 ELSE flight[p] + 1]
    /\ left' = IF left > 0 THEN left - 1 ELSE 0
    /\ cached' = IF left > 1 THEN cached ELSE {}
    /\ since' = [f \in Features |-> IF Held(f) /\ since[f] < Linger THEN since[f] + 1
                                    ELSE since[f]]
    /\ UNCHANGED <<effective, pc, asked, features>>

Next ==
    \/ \E p \in Requests :
          \/ \E fs \in SUBSET Features : GetPermissions(p, fs)
          \/ Resolve(p) \/ SetPermissions(p) \/ Answer(p)
    \/ \E a \in Apps, fs \in SUBSET Features : Change(a, fs)
    \/ Tick

Spec == Init /\ [][Next]_vars

-----------------------------------------------------------------------------
\* "The check API lets any system instantly verify whether a user has access
\* to a feature key, with Redis-cached results (60-second TTL)": whoever has
\* had a feature in an app of the calling organization for longer than a
\* result is cached is not refused it.
GrantedFeatureAllowed ==
    \A p \in Requests :
        pc[p] = "answer" => \A f \in asked[p] \ features[p] : since[f] < Linger

=============================================================================
