---------------------------- MODULE FeatureSync ----------------------------
(***************************************************************************)
(* The feature catalogue of one app and the requests to change it.  The    *)
(* app submits a list of features; an administrator finds the request      *)
(* pending and approves or rejects it.  An approval upserts the features   *)
(* one query at a time and then writes the decision, a rejection writes    *)
(* the decision; neither looks again whether the request is still pending. *)
(***************************************************************************)
EXTENDS Integers, FiniteSets

CONSTANTS
    Handlers,         \* requests to the server being served at the same time
    Syncs,            \* sync requests the app may submit
    Keys,             \* feature keys
    HandlersMayFail   \* may a handler end at any await (error, restart)?

SyncAssumption ==
    /\ IsFiniteSet(Handlers) /\ IsFiniteSet(Keys)
    /\ HandlersMayFail \in BOOLEAN

VARIABLES
    appActive,   \* the app's status is ACTIVE
    status,      \* of each sync request
    features,    \* its list of keys
    catalogue,   \* the keys with a row in Feature
    origin,      \* history: who last wrote the row: a sync request, or nobody
    pc,          \* where each handler stands
    sync,        \* the sync request it decides: a set of at most one
    todo,        \* the keys it has still to upsert, or to submit
    decisions,   \* history: how often each request was decided
    removed,     \* history: keys taken out since the request was submitted
    torn         \* history: requests whose approval failed or overlapped a decision

appVars == <<appActive, catalogue, origin>>
syncVars == <<status, features>>
handlerVars == <<pc, sync, todo>>
history == <<decisions, removed, torn>>
vars == <<appVars, syncVars, handlerVars, history>>

TypeOK ==
    /\ appActive \in BOOLEAN
    /\ status \in [Syncs -> {"unused", "pending", "approved", "rejected"}]
    /\ features \in [Syncs -> SUBSET Keys]
    /\ catalogue \in SUBSET Keys
    /\ origin \in [Keys -> SUBSET Syncs]
    /\ pc \in [Handlers -> {"idle", "submit", "upsert", "reject"}]
    /\ sync \in [Handlers -> SUBSET Syncs]
    /\ todo \in [Handlers -> SUBSET Keys]
    /\ \A h \in Handlers, r \in Syncs :
          r \in sync[h] => /\ pc[h] \in {"upsert", "reject"}
                           /\ status[r] # "unused" /\ todo[h] \subseteq features[r]
    /\ decisions \in [Syncs -> Nat]
    /\ removed \in [Syncs -> SUBSET Keys]
    /\ torn \in SUBSET Syncs

Init ==
    /\ appActive = TRUE
    /\ status = [r \in Syncs |-> "unused"]
    /\ features = [r \in Syncs |-> {}]
    /\ catalogue = {}
    /\ origin = [k \in Keys |-> {}]
    /\ pc = [h \in Handlers |-> "idle"]
    /\ sync = [h \in Handlers |-> {}]
    /\ todo = [h \in Handlers |-> {}]
    /\ decisions = [r \in Syncs |-> 0]
    /\ removed = [r \in Syncs |-> {}]
    /\ torn = {}

-----------------------------------------------------------------------------
Goto(h, label, rs, ks) ==
    /\ pc' = [pc EXCEPT ![h] = label]
    /\ sync' = [sync EXCEPT ![h] = rs]
    /\ todo' = [todo EXCEPT ![h] = ks]

Finish(h) == Goto(h, "idle", {}, {})

\* The handlers at work on request r.
Deciding(r) == {h \in Handlers : r \in sync[h]}
Approving(r) == {h \in Deciding(r) : pc[h] = "upsert"}

\* The rows whose text is the one request r submitted.
From(r) == {k \in catalogue : r \in origin[k]}

\* submitFeatureSync: the secret belongs to an active app ...
FindActiveApp(h, ks) ==
    /\ pc[h] = "idle"
    /\ appActive
    /\ ks # {}
    /\ Goto(h, "submit", {}, ks)
    /\ UNCHANGED <<appVars, syncVars, history>>

\* ... and the request is created, whatever has become of the app.  The
\* notification that follows fails without failing the request.
CreateSyncRequest(h) ==
    /\ pc[h] = "submit"
    /\ \E r \in Syncs :
          /\ status[r] = "unused"
          /\ status' = [status EXCEPT ![r] = "pending"]
          /\ features' = [features EXCEPT ![r] = todo[h]]
    /\ Finish(h)
    /\ UNCHANGED <<appVars, history>>

\* Mutant: a decided request may be decided again.
FindDecided(h, r, label) ==
    /\ pc[h] = "idle"
    /\ status[r] # "unused"
    /\ Goto(h, label, {r}, IF label = "upsert" THEN features[r] ELSE {})
    /\ torn' = torn \cup {q \in {r} : Deciding(q) # {} /\ "upsert" \in
                              {label} \cup {pc[g] : g \in Deciding(q)}}
    /\ UNCHANGED <<appVars, syncVars, decisions, removed>>

\* approveSyncRequest and rejectSyncRequest find the request pending.
FindPending(h, r, label) ==
    /\ pc[h] = "idle"
    /\ status[r] = "pending"
    /\ Goto(h, label, {r}, IF label = "upsert" THEN features[r] ELSE {})
    /\ torn' = torn \cup {q \in {r} : Deciding(q) # {} /\ "upsert" \in
                              {label} \cup {pc[g] : g \in Deciding(q)}}
    /\ UNCHANGED <<appVars, syncVars, decisions, removed>>

\* An approval writes one feature after the other, in the order of the list.
UpsertFeature(h) ==
    /\ pc[h] = "upsert"
    /\ \E k \in todo[h] :
          /\ catalogue' = catalogue \cup {k}
          /\ origin' = [origin EXCEPT ![k] = sync[h]]
          /\ Goto(h, "upsert", sync[h], todo[h] \ {k})
    /\ UNCHANGED <<appActive, syncVars, history>>

\* updateSyncRequest writes the decision by id.
Decide(h, decision) ==
    /\ status' = [r \in Syncs |-> IF r \in sync[h] THEN decision ELSE status[r]]
    /\ decisions' = [r \in Syncs |-> decisions[r] + IF r \in sync[h] THEN 1 ELSE 0]
    /\ Finish(h)
    /\ UNCHANGED <<appVars, features, removed, torn>>

\* Mutant: the decision is written while features are still to be upserted.
ApproveEarly(h) ==
    /\ pc[h] = "upsert"
    /\ Cardinality(todo[h]) <= 1
    /\ Decide(h, "approved")

\* The loop has ended.  The audit record that follows fails silently.
Approve(h) ==
    /\ pc[h] = "upsert"
    /\ todo[h] = {}
    /\ Decide(h, "approved")

Reject(h) ==
    /\ pc[h] = "reject"
    /\ Decide(h, "rejected")

-----------------------------------------------------------------------------
\* Administration of the app.  Each of these reads the row and writes it by
\* id; what is read decides only whether the write is refused, so that a
\* write that comes late is one that comes at that time.

\* addFeature: the unique key refuses a second row.
AddFeature(k) ==
    /\ k \notin catalogue
    /\ catalogue' = catalogue \cup {k}
    /\ origin' = [origin EXCEPT ![k] = {}]
    /\ UNCHANGED <<appActive, syncVars, handlerVars, history>>

\* updateFeature writes the row's text.
UpdateFeature(k) ==
    /\ k \in catalogue
    /\ origin' = [origin EXCEPT ![k] = {}]
    /\ UNCHANGED <<appActive, catalogue, syncVars, handlerVars, history>>

RemoveFeature(k) ==
    /\ k \in catalogue
    /\ catalogue' = catalogue \ {k}
    /\ origin' = [origin EXCEPT ![k] = {}]
    /\ removed' = [r \in Syncs |-> IF status[r] = "unused" THEN {} ELSE removed[r] \cup {k}]
    /\ UNCHANGED <<appActive, syncVars, handlerVars, decisions, torn>>

\* suspendApp and reactivateApp.
SetAppActive(on) ==
    /\ appActive # on
    /\ appActive' = on
    /\ UNCHANGED <<catalogue, origin, syncVars, handlerVars, history>>

\* A query fails or the process restarts: what has been upserted stays.
Fail(h) ==
    /\ HandlersMayFail
    /\ pc[h] # "idle"
    /\ torn' = IF pc[h] = "upsert" THEN torn \cup sync[h] ELSE torn
    /\ Finish(h)
    /\ UNCHANGED <<appVars, syncVars, decisions, removed>>

Continue(h) == CreateSyncRequest(h) \/ UpsertFeature(h) \/ Approve(h) \/ Reject(h)

Next ==
    \/ \E h \in Handlers :
          \/ \E ks \in SUBSET Keys : FindActiveApp(h, ks)
          \/ \E r \in Syncs, label \in {"upsert", "reject"} : FindPending(h, r, label)
          \/ Continue(h) \/ Fail(h)
    \/ \E k \in Keys : AddFeature(k) \/ UpdateFeature(k) \/ RemoveFeature(k)
    \/ \E on \in BOOLEAN : SetAppActive(on)

Spec == Init /\ [][Next]_vars

-----------------------------------------------------------------------------
\* "Sync request is no longer pending": a request is decided only by
\* handlers that all found it pending before the first of them wrote, hence
\* never more often than handlers run at once.
DecisionsBounded == \A r \in Syncs : decisions[r] <= Cardinality(Handlers)

\* An approved request is in force as a whole: every feature it lists has a
\* row, unless an administrator has removed it since, though the features are
\* written one by one and other approvals and rejections run in between.
ApprovedInForce ==
    \A r \in Syncs :
        status[r] = "approved" => features[r] \subseteq catalogue \cup removed[r]

\* A rejected request leaves nothing in the catalogue, unless an approval of
\* it failed half-way or ran at the same time as the rejection.
RejectedLeavesNothing ==
    \A r \in Syncs : status[r] = "rejected" /\ r \notin torn => From(r) = {}

\* The request is decided once.
DecidedOnce == \A r \in Syncs : decisions[r] <= 1

=============================================================================
