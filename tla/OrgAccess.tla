----------------------------- MODULE OrgAccess -----------------------------
(***************************************************************************)
(* The organization role of one user.  issueTokens reads one of the user's *)
(* memberships and signs its role into the access token, next to the       *)
(* organization of the users row; requireOrgAdmin looks at the token only. *)
(* Removing a member ends no token.                                        *)
(***************************************************************************)
EXTENDS Integers, FiniteSets

CONSTANTS
    Orgs,         \* organizations
    Home,         \* the organization of the users row
    Tokens,       \* access tokens at a time
    Requests,     \* logins and refreshes being served at the same time
    AccessTtl,    \* ACCESS_TOKEN_EXPIRY, in clock ticks
    MaxFlight     \* bound on the ticks a login spends between read and sign

AccessAssumption ==
    /\ Home \in Orgs
    /\ AccessTtl \in Nat \ {0} /\ MaxFlight \in Nat

Linger == AccessTtl + MaxFlight
\* OWNER is let in wherever ADMIN is, and stands with it.
Roles == {"none", "MEMBER", "ADMIN"}

VARIABLES
    member,     \* the user's role in each organization
    claim,      \* the orgRole of each token
    left,       \* the ticks each token has still to live
    pc,         \* where each login stands
    read,       \* the role it has read
    flight,     \* the ticks since it read it
    since       \* history: ticks since the user was last an admin of each

tokenVars == <<claim, left>>
requestVars == <<pc, read, flight>>
vars == <<member, tokenVars, requestVars, since>>

TypeOK ==
    /\ member \in [Orgs -> Roles]
    /\ claim \in [Tokens -> Roles]
    /\ left \in [Tokens -> 0..AccessTtl]
    /\ pc \in [Requests -> {"idle", "sign"}]
    /\ read \in [Requests -> Roles]
    /\ flight \in [Requests -> 0..MaxFlight]
    /\ since \in [Orgs -> 0..Linger]
    /\ \A o \in Orgs : member[o] = "ADMIN" => since[o] = 0

Init ==
    /\ member = [o \in Orgs |-> "none"]
    /\ claim = [t \in Tokens |-> "none"]
    /\ left = [t \in Tokens |-> 0]
    /\ pc = [p \in Requests |-> "idle"]
    /\ read = [p \in Requests |-> "none"]
    /\ flight = [p \in Requests |-> 0]
    /\ since = [o \in Orgs |-> Linger]

-----------------------------------------------------------------------------
\* findMemberByUserId returns any one of the memberships.
Memberships == {o \in Orgs : member[o] # "none"}
RolesFound == IF Memberships = {} THEN {"none"} ELSE {member[o] : o \in Memberships}

\* issueTokens, of a login or a refresh: the membership is read ...
FindMember(p) ==
    /\ pc[p] = "idle"
    /\ pc' = [pc EXCEPT ![p] = "sign"]
    /\ \E r \in RolesFound : read' = [read EXCEPT ![p] = r]
    /\ UNCHANGED <<member, tokenVars, flight, since>>

\* Mutant: the role of the token that is refreshed is signed again.
SignOldRole(p) ==
    /\ pc[p] = "sign"
    /\ pc' = [pc EXCEPT ![p] = "idle"]
    /\ \E t \in Tokens :
          /\ claim' = [claim EXCEPT ![t] = IF left[t] > 0 THEN @ ELSE read[p]]
          /\ left' = [left EXCEPT ![t] = AccessTtl]
    /\ read' = [read EXCEPT ![p] = "none"]
    /\ flight' = [flight EXCEPT ![p] = 0]
    /\ UNCHANGED <<member, since>>

\* ... and the tokens are signed, once the permissions have been resolved.
Sign(p) ==
    /\ pc[p] = "sign"
    /\ pc' = [pc EXCEPT ![p] = "idle"]
    /\ \E t \in Tokens :
          /\ claim' = [claim EXCEPT ![t] = read[p]]
          /\ left' = [left EXCEPT ![t] = AccessTtl]
    /\ read' = [read EXCEPT ![p] = "none"]
    /\ flight' = [flight EXCEPT ![p] = 0]
    /\ UNCHANGED <<member, since>>

\* requireOrgAdmin.
Admits(t) == left[t] > 0 /\ claim[t] = "ADMIN"

\* addMember: the unique key refuses a second row.
AddMember(o, r) ==
    /\ member[o] = "none"
    /\ member' = [member EXCEPT ![o] = r]
    /\ since' = [since EXCEPT ![o] = IF r = "ADMIN" THEN 0 ELSE @]
    /\ UNCHANGED <<tokenVars, requestVars>>

\* removeMember; the user's tokens stay.
RemoveMember(o) ==
    /\ member[o] # "none"
    /\ member' = [member EXCEPT ![o] = "none"]
    /\ UNCHANGED <<tokenVars, requestVars, since>>

\* Bound: no login takes longer than MaxFlight from its read to its tokens.
Tick ==
    /\ \A p \in Requests : pc[p] = "sign" => flight[p] < MaxFlight
    /\ flight' = [p \in Requests |-> IF pc[p] = "sign" THEN flight[p] + 1 ELSE flight[p]]
    /\ left' = [t \in Tokens |-> IF left[t] > 0 THEN left[t] - 1 ELSE 0]
    /\ claim' = [t \in Tokens |-> IF left[t] > 1 THEN claim[t] ELSE "none"]
    /\ since' = [o \in Orgs |-> IF member[o] = "ADMIN" \/ since[o] = Linger
                                THEN since[o] ELSE since[o] + 1]
    /\ UNCHANGED <<member, pc, read>>

Next ==
    \/ \E p \in Requests : FindMember(p) \/ Sign(p)
    \/ \E o \in Orgs : RemoveMember(o) \/ \E r \in Roles \ {"none"} : AddMember(o, r)
    \/ Tick

Spec == Init /\ [][Next]_vars

-----------------------------------------------------------------------------
\* The right to administer some organization, as the tokens hand it on.
Right == INSTANCE RevocableRight WITH
    held <- \E o \in Orgs : member[o] = "ADMIN",
    since <- CHOOSE n \in {since[o] : o \in Orgs} : \A o \in Orgs : n <= since[o],
    usable <- \E t \in Tokens : Admits(t)

\* Who was removed from the last organization he administered passes
\* requireOrgAdmin no longer than a token lives after its role was read:
\* neither a refresh nor a login that overlaps the removal prolongs that.
AdminRightLapses == Right!Spec

\* requireOrgAdmin "controls access to a specific organization's management
\* routes", for members of "the target organization": whoever passes it on
\* the routes of the organization in the token was an administrator of that
\* one.
AdminOfTargetOrg == (\E t \in Tokens : Admits(t)) => since[Home] < Linger

=============================================================================
