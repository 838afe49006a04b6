------------------------------ MODULE OrgUsers ------------------------------
(***************************************************************************)
(* End users an organization registers and logs in over the Org API.  A    *)
(* registration looks the email up within the organization, hashes the     *)
(* password, creates the users row unverified and inactive and activates   *)
(* it in a second query.  The email is unique over all organizations, and  *)
(* no query concerns two emails, so one email is modelled: its rows are    *)
(* the accounts, of which at most one exists at a time.                    *)
(***************************************************************************)
EXTENDS Integers, FiniteSets

CONSTANTS
    Accounts,         \* ids of rows that can be created for the email
    Requests,         \* requests being served at the same time
    RequestsMayFail   \* may a request end at any await (error, restart)?

UsersAssumption == RequestsMayFail \in BOOLEAN

VARIABLES
    row,         \* of each account: unused, present or deleted
    here,        \* the accounts of this organization; others are elsewhere
    verified,    \* isVerified
    active,      \* isActive
    pc,          \* where each request stands
    own,         \* the account it activates or compares: a set of at most one
    answered,    \* history: for how many registrations each account was returned
    stranded     \* history: accounts whose registration failed half-way

rowVars == <<row, here, verified, active>>
requestVars == <<pc, own>>
vars == <<rowVars, requestVars, answered, stranded>>

Present == {i \in Accounts : row[i] = "present"}

TypeOK ==
    /\ row \in [Accounts -> {"unused", "present", "deleted"}]
    /\ here \in SUBSET Accounts
    /\ verified \in SUBSET Accounts /\ active \in SUBSET Accounts
    /\ pc \in [Requests -> {"idle", "create", "activate", "compare"}]
    /\ own \in [Requests -> SUBSET Accounts]
    /\ \A p \in Requests : own[p] # {} <=> pc[p] \in {"activate", "compare"}
    /\ \A i, j \in Present : i = j
    /\ answered \in [Accounts -> Nat]
    /\ stranded \in SUBSET Accounts

Init ==
    /\ row = [i \in Accounts |-> "unused"]
    /\ here = {} /\ verified = {} /\ active = {}
    /\ pc = [p \in Requests |-> "idle"]
    /\ own = [p \in Requests |-> {}]
    /\ answered = [i \in Accounts |-> 0]
    /\ stranded = {}

-----------------------------------------------------------------------------
Goto(p, label, is) ==
    /\ pc' = [pc EXCEPT ![p] = label]
    /\ own' = [own EXCEPT ![p] = is]

Finish(p) == Goto(p, "idle", {})

\* A new row: neither verified nor active.
NewRow(i, o) ==
    /\ row[i] = "unused"
    /\ row' = [row EXCEPT ![i] = "present"]
    /\ here' = here \cup (IF o THEN {i} ELSE {})

\* orgRegisterUser: the organization has no user of this email ...
FindInOrg(p) ==
    /\ pc[p] = "idle"
    /\ Present \cap here = {}
    /\ Goto(p, "create", {})
    /\ UNCHANGED <<rowVars, answered, stranded>>

\* Mutant: a row that exists is taken for the one created.
CreateOrTake(p) ==
    /\ pc[p] = "create"
    /\ \/ \E i \in Accounts : Present = {} /\ NewRow(i, TRUE) /\ Goto(p, "activate", {i})
       \/ Present # {} /\ Goto(p, "activate", Present) /\ UNCHANGED <<row, here>>
    /\ UNCHANGED <<verified, active, answered, stranded>>

\* ... the row is created, which the unique email refuses when there is one
\* by now, or always was, in another organization ...
Create(p) ==
    /\ pc[p] = "create"
    /\ \/ \E i \in Accounts : Present = {} /\ NewRow(i, TRUE) /\ Goto(p, "activate", {i})
       \/ Present # {} /\ Finish(p) /\ UNCHANGED <<row, here>>
    /\ UNCHANGED <<verified, active, answered, stranded>>

\* Mutant: only isActive is written.
ActivateOnly(p) ==
    /\ pc[p] = "activate"
    /\ active' = active \cup (own[p] \cap Present)
    /\ answered' = [i \in Accounts |->
                      answered[i] + IF i \in own[p] \cap Present THEN 1 ELSE 0]
    /\ Finish(p)
    /\ UNCHANGED <<row, here, verified, stranded>>

\* ... and verified and activated by id.
Activate(p) ==
    /\ pc[p] = "activate"
    /\ verified' = verified \cup (own[p] \cap Present)
    /\ active' = active \cup (own[p] \cap Present)
    /\ answered' = [i \in Accounts |->
                      answered[i] + IF i \in own[p] \cap Present THEN 1 ELSE 0]
    /\ Finish(p)
    /\ UNCHANGED <<row, here, stranded>>

\* orgLoginUser: a user of the organization, active; the comparison of the
\* password and the audit record follow.
FindToLogin(p) ==
    /\ pc[p] = "idle"
    /\ Present \cap here \cap active # {}
    /\ Goto(p, "compare", Present \cap here)
    /\ UNCHANGED <<rowVars, answered, stranded>>

Compare(p) ==
    /\ pc[p] = "compare"
    /\ Finish(p)
    /\ UNCHANGED <<rowVars, answered, stranded>>

-----------------------------------------------------------------------------
\* register creates the row in the default organization.
RegisterElsewhere(i) ==
    /\ Present = {}
    /\ NewRow(i, FALSE)
    /\ UNCHANGED <<verified, active, requestVars, answered, stranded>>

\* verifyEmail and forceActivateUser finish a row left unverified: /auth mails
\* a link to the address of any unverified account.
Verify(i) ==
    /\ i \in Present \ verified
    /\ verified' = verified \cup {i} /\ active' = active \cup {i}
    /\ UNCHANGED <<row, here, requestVars, answered, stranded>>

\* suspendUser, activateUser.
SetActive(i, on) ==
    /\ i \in Present
    /\ i \in active <=> ~on
    /\ active' = IF on THEN active \cup {i} ELSE active \ {i}
    /\ UNCHANGED <<row, here, verified, requestVars, answered, stranded>>

Delete(i) ==
    /\ i \in Present
    /\ row' = [row EXCEPT ![i] = "deleted"]
    /\ UNCHANGED <<here, verified, active, requestVars, answered, stranded>>

\* A query fails, or the process restarts.
Fail(p) ==
    /\ RequestsMayFail
    /\ pc[p] # "idle"
    /\ stranded' = IF pc[p] = "activate" THEN stranded \cup own[p] ELSE stranded
    /\ Finish(p)
    /\ UNCHANGED <<rowVars, answered>>

Continue(p) == Create(p) \/ Activate(p) \/ Compare(p)

Next ==
    \/ \E p \in Requests : FindInOrg(p) \/ FindToLogin(p) \/ Continue(p) \/ Fail(p)
    \/ \E i \in Accounts :
          \/ RegisterElsewhere(i) \/ Verify(i) \/ Delete(i)
          \/ \E on \in BOOLEAN : SetActive(i, on)

Spec == Init /\ [][Next]_vars

-----------------------------------------------------------------------------
\* An account of the organization that has not been verified belongs to a
\* registration under way or to one that failed between its two writes: no
\* interleaving of registrations, deletions and suspensions leaves another.
UnverifiedOnlyByFailure ==
    \A i \in Present \cap here :
        i \in verified \/ i \in stranded
            \/ \E p \in Requests : pc[p] = "activate" /\ i \in own[p]

\* Concurrent registrations of one email: each account is handed to at most
\* one of them, and nobody gets an account of another organization.
RegistrationsBounded ==
    \A i \in Accounts : answered[i] <= (IF i \in here THEN 1 ELSE 0)

=============================================================================
