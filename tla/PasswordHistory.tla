-------------------------- MODULE PasswordHistory --------------------------
(***************************************************************************)
(* Password reuse prevention: register, changePassword and resetPassword   *)
(* of auth.service.ts over getPasswordHistory and addPasswordHistory of    *)
(* user.repository.ts.  The history is read before the password is         *)
(* written, and written after it by a transaction that inserts a row and   *)
(* then trims the table.  Postgres runs that at READ COMMITTED: each query *)
(* sees the rows committed when it starts, and the transaction's own.      *)
(***************************************************************************)
EXTENDS Integers, Sequences, FiniteSets

CONSTANTS
    Passwords,       \* passwords the user may choose
    Requests,        \* requests being served at the same time
    None,            \* no request
    Limit,           \* PASSWORD_HISTORY_LIMIT
    MaxChanges,      \* bound on the passwords set
    RequestsMayFail  \* may a request end at any await (error, restart)?

HistoryAssumption ==
    /\ None \notin Requests /\ IsFiniteSet(Requests)
    /\ Limit \in Nat \ {0}
    /\ MaxChanges \in Nat
    /\ RequestsMayFail \in BOOLEAN

VARIABLES
    past,        \* the passwords of the users row so far; the last is in force
    made,        \* the passwordHistory rows ever created, in order of createdAt
    kept,        \* those that are in the table and committed, by their places
    pc,          \* where each request stands
    new,         \* the password a request sets: a set of at most one
    own,         \* the row its open transaction has made: a set of at most one
    doomed       \* the rows its transaction has found to trim

vars == <<past, made, kept, pc, new, own, doomed>>

\* The rows a query of p sees, and the passwords that rows record.
SeenBy(p) == kept \cup own[p]
Recorded(ns) == {made[n] : n \in ns}

\* Rows older and newer than row n.
Older(ns, n) == {k \in ns : k < n}
Newer(ns, n) == {k \in ns : k > n}

\* A transaction has one row in the table until it commits or rolls back.
TypeOK ==
    /\ past \in Seq(Passwords) /\ Len(past) <= MaxChanges
    /\ made \in Seq(Passwords)
    /\ kept \in SUBSET DOMAIN made
    /\ pc \in [Requests -> {"idle", "update", "insert", "trim", "commit"}]
    /\ new \in [Requests -> SUBSET Passwords]
    /\ own \in [Requests -> SUBSET DOMAIN made]
    /\ doomed \in [Requests -> SUBSET DOMAIN made]
    /\ \A p \in Requests : own[p] # {} <=> pc[p] \in {"trim", "commit"}
    /\ \A p \in Requests : own[p] \cap kept = {}

Init ==
    /\ past = <<>>
    /\ made = <<>>
    /\ kept = {}
    /\ pc = [p \in Requests |-> "idle"]
    /\ new = [p \in Requests |-> {}]
    /\ own = [p \in Requests |-> {}]
    /\ doomed = [p \in Requests |-> {}]

Goto(p, label) == pc' = [pc EXCEPT ![p] = label]

Finish(p) ==
    /\ Goto(p, "idle")
    /\ new' = [new EXCEPT ![p] = {}]
    /\ own' = [own EXCEPT ![p] = {}]
    /\ doomed' = [doomed EXCEPT ![p] = {}]

-----------------------------------------------------------------------------
\* The newest Limit rows, as getPasswordHistory reads them.
Reach == {n \in kept : Cardinality(Newer(kept, n)) < Limit}

\* Bound: requests set out only while their passwords fit into past.
ChangeLeft ==
    Len(past) + Cardinality({p \in Requests : pc[p] = "update"}) < MaxChanges

\* enforcePasswordHistory lets through a password that none of the rows read
\* records.  Registration writes the first password without reading any.
Check(p, w) ==
    /\ pc[p] = "idle"
    /\ ChangeLeft
    /\ w \notin Recorded(Reach)
    /\ Goto(p, "update")
    /\ new' = [new EXCEPT ![p] = {w}]
    /\ UNCHANGED <<past, made, kept, own, doomed>>

\* updatePassword, or the creation of the users row.
Update(p) ==
    /\ pc[p] = "update"
    /\ \E w \in new[p] : past' = Append(past, w)
    /\ Goto(p, "insert")
    /\ UNCHANGED <<made, kept, new, own, doomed>>

\* addPasswordHistory: the row is created ...
Insert(p) ==
    /\ pc[p] = "insert"
    /\ \E w \in new[p] : made' = Append(made, w)
    /\ own' = [own EXCEPT ![p] = {Len(made) + 1}]
    /\ Goto(p, "trim")
    /\ UNCHANGED <<past, kept, new, doomed>>

\* Mutant: one row too many is kept.
TrimOneLess(p) ==
    /\ pc[p] = "trim"
    /\ doomed' = [doomed EXCEPT ![p] =
                     {n \in SeenBy(p) : Cardinality(Older(SeenBy(p), n)) > Limit}]
    /\ Goto(p, "commit")
    /\ UNCHANGED <<past, made, kept, new, own>>

\* ... the rows beyond the limit are looked up, oldest first ...
Trim(p) ==
    /\ pc[p] = "trim"
    /\ doomed' = [doomed EXCEPT ![p] =
                     {n \in SeenBy(p) : Cardinality(Older(SeenBy(p), n)) >= Limit}]
    /\ Goto(p, "commit")
    /\ UNCHANGED <<past, made, kept, new, own>>

\* ... and deleted, and the transaction commits.
Commit(p) ==
    /\ pc[p] = "commit"
    /\ kept' = SeenBy(p) \ doomed[p]
    /\ Finish(p)
    /\ UNCHANGED <<past, made>>

\* A query fails, or the process restarts: an open transaction rolls back.
Fail(p) ==
    /\ RequestsMayFail
    /\ pc[p] # "idle"
    /\ Finish(p)
    /\ UNCHANGED <<past, made, kept>>

Next ==
    \E p \in Requests :
        \/ \E w \in Passwords : Check(p, w)
        \/ Update(p) \/ Insert(p) \/ Trim(p) \/ Commit(p) \/ Fail(p)

Spec == Init /\ [][Next]_vars

-----------------------------------------------------------------------------
\* The history stays bounded although no transaction sees what the others are
\* adding: it exceeds the limit by less than the number of requests at once.
HistoryBounded == Cardinality(kept) < Limit + Cardinality(Requests)

\* "Last N hashes to prevent reuse": with no change under way, the last Limit
\* passwords set are on record.
LastPasswordsOnRecord ==
    (\A p \in Requests : pc[p] = "idle") =>
        \A i \in DOMAIN past : i > Len(past) - Limit => past[i] \in Recorded(kept)

=============================================================================
