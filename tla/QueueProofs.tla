----------------------------- MODULE QueueProofs -----------------------------
(***************************************************************************)
(* Theorems about the two queues, for any number of jobs, attempts and     *)
(* crashes and any concurrency of the workers: the safety of the contract, *)
(* which both refine, and what the log of the webhook deliveries says.     *)
(*                                                                         *)
(* The invariant accounts for every send: a failed attempt, an             *)
(* interruption, the try under way or the one that completed the job.      *)
(***************************************************************************)
EXTENDS Queues, FiniteSetTheorems, TLAPS

Stages == {"idle", "post", "body", "log", "settle", "send"}
Sent(j) == stage[j] \in {"body", "log", "settle"}
InHand(j) == Sent(j) \/ state[j] = "completed"

QueueInv ==
    /\ queue \in {"webhook", "email"}
    /\ state \in [Jobs -> {"none", "waiting", "active", "delayed", "completed", "failed"}]
    /\ attemptsMade \in [Jobs -> Nat] /\ stalls \in [Jobs -> Nat] /\ sends \in [Jobs -> Nat]
    /\ stage \in [Jobs -> Stages] /\ held \in SUBSET Jobs
    /\ answer \in [Jobs -> {"none", "sent", "error"}]
    /\ \A j \in Jobs :
          /\ j \in held <=> stage[j] # "idle"
          /\ j \in held => state[j] = "active"
          /\ state[j] \notin {"completed", "failed"} => attemptsMade[j] < MaxAttempts
          /\ sends[j] <= attemptsMade[j] + Interruptions[j] + (IF InHand(j) THEN 1 ELSE 0)
          /\ queue = "webhook" /\ Sent(j) => sends[j] > 0
          /\ queue = "email" /\ Sent(j) /\ answer[j] = "sent" => sends[j] > 0

\* The interruptions of a job, one by one.
LEMMA Interrupted ==
    /\ Interruptions = [j \in Jobs |->
                          stalls[j] + (IF state[j] = "active" /\ j \notin held THEN 1 ELSE 0)]
    /\ W!Interruptions = Interruptions
BY DEF Interruptions, W!Interruptions

LEMMA QueuesStart == Init => QueueInv
<1> SUFFICES ASSUME Init PROVE QueueInv
  OBVIOUS
<1>1. \A j \in Jobs : Interruptions[j] = 0
  BY DEF Init, W!Init, W!QueueInit, Interruptions
<1> QED
  BY <1>1, QueueAssumption
  DEF Init, W!Init, W!QueueInit, E!Init, QueueInv, Stages, Sent, InHand

LEMMA WebhookStep == QueueInv /\ Webhooks => QueueInv'
<1> SUFFICES ASSUME QueueInv, Webhooks PROVE QueueInv'
  OBVIOUS
<1> USE QueueAssumption
    DEF Webhooks, QueueInv, Interruptions, Stages, Sent, InHand, W!hookVars, W!queueVars,
        queueVars, W!MoveTo, W!GotoStage
<1>1. ASSUME NEW j \in Jobs, W!SendTest(j) PROVE QueueInv'
  BY <1>1 DEF W!SendTest, W!Add
<1>2. ASSUME NEW j \in Jobs, W!Start(j) PROVE QueueInv'
  BY <1>2 DEF W!Start, W!Take
<1>3. ASSUME NEW j \in Jobs, W!Post(j) PROVE QueueInv'
  BY <1>3 DEF W!Post, W!Outcomes, W!Answered
<1>4. ASSUME NEW j \in Jobs, W!ReadBody(j) PROVE QueueInv'
  BY <1>4 DEF W!ReadBody
<1>5. ASSUME NEW j \in Jobs, W!Log(j) PROVE QueueInv'
  BY <1>5 DEF W!Log
<1>6. ASSUME NEW j \in Jobs, W!Settle(j) PROVE QueueInv'
  <2>1. CASE W!Complete(j) BY <1>6, <2>1 DEF W!Settle, W!Complete
  <2>2. CASE W!Retry(j) BY <1>6, <2>2 DEF W!Settle, W!Retry
  <2> QED BY <1>6, <2>1, <2>2 DEF W!Settle
<1>7. CASE W!DeleteWebhook BY <1>7 DEF W!DeleteWebhook
<1>8. CASE W!ProcessDies BY <1>8 DEF W!ProcessDies, W!Crash
<1>9. ASSUME NEW j \in Jobs, W!Promote(j), UNCHANGED W!hookVars PROVE QueueInv'
  BY <1>9 DEF W!Promote
<1>10. ASSUME NEW j \in Jobs, W!Stall(j), UNCHANGED W!hookVars PROVE QueueInv'
  BY <1>10 DEF W!Stall
<1>11. ASSUME W!Close \/ W!Exit \/ W!Restart, UNCHANGED W!hookVars PROVE QueueInv'
  BY <1>11 DEF W!Close, W!Exit, W!Restart
<1> QED
  BY <1>1, <1>2, <1>3, <1>4, <1>5, <1>6, <1>7, <1>8, <1>9, <1>10, <1>11
  DEF W!Next, W!Process, W!Queue

LEMMA EmailStep == QueueInv /\ Emails => QueueInv'
<1> SUFFICES ASSUME QueueInv, Emails PROVE QueueInv'
  OBVIOUS
<1> USE QueueAssumption
    DEF Emails, QueueInv, Interruptions, Stages, Sent, InHand, E!mailVars, E!queueVars, hookVars,
        queueVars, E!MoveTo, E!Stage
<1>1. ASSUME NEW j \in Jobs, E!EnqueueEmail(j) PROVE QueueInv'
  BY <1>1 DEF E!EnqueueEmail, E!Add
<1>2. ASSUME NEW j \in Jobs, E!Start(j) PROVE QueueInv'
  BY <1>2 DEF E!Start, E!Take
<1>3. ASSUME NEW j \in Jobs, E!SendMail(j) PROVE QueueInv'
  BY <1>3 DEF E!SendMail
<1>4. ASSUME NEW j \in Jobs, E!Settle(j) PROVE QueueInv'
  <2>1. CASE E!Complete(j) BY <1>4, <2>1 DEF E!Settle, E!Complete
  <2>2. CASE E!Retry(j) BY <1>4, <2>2 DEF E!Settle, E!Retry
  <2> QED BY <1>4, <2>1, <2>2 DEF E!Settle
<1>5. CASE E!ProcessDies BY <1>5 DEF E!ProcessDies, E!Crash
<1>6. ASSUME NEW j \in Jobs, E!Promote(j), UNCHANGED E!mailVars PROVE QueueInv'
  BY <1>6 DEF E!Promote
<1>7. ASSUME NEW j \in Jobs, E!Stall(j), UNCHANGED E!mailVars PROVE QueueInv'
  BY <1>7 DEF E!Stall
<1>8. ASSUME E!Close \/ E!Exit \/ E!Restart, UNCHANGED E!mailVars PROVE QueueInv'
  BY <1>8 DEF E!Close, E!Exit, E!Restart
<1> QED
  BY <1>1, <1>2, <1>3, <1>4, <1>5, <1>6, <1>7, <1>8 DEF E!Next, E!Queue

LEMMA QueueInvariant == Spec => []QueueInv
<1>1. QueueInv /\ UNCHANGED vars => QueueInv'
  BY DEF QueueInv, Interruptions, Stages, Sent, InHand, vars, queueVars, restVars
<1>2. QueueInv /\ [Next]_vars => QueueInv'
  BY <1>1, WebhookStep, EmailStep DEF Next
<1> QED BY <1>2, QueuesStart, PTL DEF Spec

-----------------------------------------------------------------------------
\* The contract sees of a queue what becomes of its jobs.
Seen(s) == CASE s = "none" -> "none"
             [] s = "completed" -> "done"
             [] s = "failed" -> "dropped"
             [] OTHER -> "open"

LEMMA Views ==
    /\ Phase = [j \in Jobs |-> Seen(state[j])]
    /\ Phase' = [j \in Jobs |-> Seen(state'[j])]
    /\ Interruptions = [j \in Jobs |->
                          stalls[j] + (IF state[j] = "active" /\ j \notin held THEN 1 ELSE 0)]
    /\ Interruptions' = [j \in Jobs |->
                          stalls'[j] + (IF state'[j] = "active" /\ j \notin held' THEN 1 ELSE 0)]
    /\ Seen("none") = "none" /\ Seen("completed") = "done" /\ Seen("failed") = "dropped"
    /\ Seen("waiting") = "open" /\ Seen("active") = "open" /\ Seen("delayed") = "open"
BY DEF Phase, Seen, Interruptions

Step == Contract!Next \/ UNCHANGED Contract!vars

\* A webhook worker and its queue do what the contract allows.
LEMMA WebhookContract == QueueInv /\ Webhooks => Step
<1> SUFFICES ASSUME QueueInv, Webhooks PROVE Step
  OBVIOUS
<1> USE QueueAssumption, Views
    DEF Webhooks, QueueInv, Stages, Sent, W!hookVars, W!queueVars, W!MoveTo, W!GotoStage,
        Contract!vars
<1>1. ASSUME NEW j \in Jobs, W!SendTest(j) PROVE Contract!Submit(j)
  BY <1>1 DEF W!SendTest, W!Add, Contract!Submit
<1>2. ASSUME NEW j \in Jobs, W!Start(j) PROVE UNCHANGED Contract!vars
  BY <1>2 DEF W!Start, W!Take
<1>3. ASSUME NEW j \in Jobs, W!Post(j) PROVE Contract!Send(j)
  BY <1>3 DEF W!Post, InHand, Contract!Send
<1>4. ASSUME NEW j \in Jobs, W!ReadBody(j) \/ W!Log(j) PROVE UNCHANGED Contract!vars
  BY <1>4 DEF W!ReadBody, W!Log
<1>5. ASSUME NEW j \in Jobs, W!Settle(j), W!Complete(j) PROVE Contract!Succeed(j)
  BY <1>5 DEF W!Settle, W!Complete, Contract!Succeed
<1>6. ASSUME NEW j \in Jobs, W!Settle(j), W!Retry(j) PROVE Contract!FailTry(j)
  BY <1>6 DEF W!Settle, W!Retry, Contract!FailTry
<1>7. CASE W!DeleteWebhook BY <1>7 DEF W!DeleteWebhook, Step
<1>8. CASE W!ProcessDies
  <2>1. Contract!Interrupt(held)
    BY <1>8 DEF W!ProcessDies, W!Crash, Contract!Interrupt
  <2> QED BY <2>1 DEF Step, Contract!Next
<1>9. ASSUME NEW j \in Jobs, W!Promote(j) PROVE UNCHANGED Contract!vars
  BY <1>9 DEF W!Promote
<1>10. ASSUME NEW j \in Jobs, W!Stall(j) PROVE Step
  <2>1. CASE stalls'[j] > 1
    <3>1. Contract!GiveUp(j)
      BY <1>10, <2>1 DEF W!Stall, Contract!GiveUp
    <3> QED BY <3>1 DEF Step, Contract!Next
  <2>2. CASE ~(stalls'[j] > 1)
    <3>1. UNCHANGED Contract!vars
      BY <1>10, <2>2 DEF W!Stall
    <3> QED BY <3>1 DEF Step
  <2> QED BY <2>1, <2>2
<1>11. CASE W!Close \/ W!Exit \/ W!Restart
  BY <1>11 DEF W!Close, W!Exit, W!Restart, Step
<1>12. ASSUME NEW j \in Jobs, W!Settle(j) PROVE W!Complete(j) \/ W!Retry(j)
  BY <1>12 DEF W!Settle
<1> QED
  BY <1>1, <1>2, <1>3, <1>4, <1>5, <1>6, <1>7, <1>8, <1>9, <1>10, <1>11, <1>12
  DEF W!Next, W!Process, W!Queue, Step, Contract!Next

\* So do the email worker and its queue.
LEMMA EmailContract == QueueInv /\ Emails => Step
<1> SUFFICES ASSUME QueueInv, Emails PROVE Step
  OBVIOUS
<1> USE QueueAssumption, Views
    DEF Emails, QueueInv, Stages, Sent, E!mailVars, E!queueVars, E!MoveTo, E!Stage,
        Contract!vars
<1>1. ASSUME NEW j \in Jobs, E!EnqueueEmail(j) PROVE Contract!Submit(j)
  BY <1>1 DEF E!EnqueueEmail, E!Add, Contract!Submit
<1>2. ASSUME NEW j \in Jobs, E!Start(j) PROVE UNCHANGED Contract!vars
  BY <1>2 DEF E!Start, E!Take
<1>3. ASSUME NEW j \in Jobs, E!SendMail(j) PROVE Contract!Send(j) \/ UNCHANGED Contract!vars
  BY <1>3 DEF E!SendMail, InHand, Contract!Send
<1>4. ASSUME NEW j \in Jobs, E!Settle(j) PROVE Contract!Succeed(j) \/ Contract!FailTry(j)
  <2>1. CASE answer[j] = "sent"
    BY <1>4, <2>1 DEF E!Settle, E!Complete, Contract!Succeed
  <2>2. CASE answer[j] # "sent"
    BY <1>4, <2>2 DEF E!Settle, E!Retry, Contract!FailTry
  <2> QED BY <2>1, <2>2
<1>5. CASE E!ProcessDies
  <2>1. Contract!Interrupt(held)
    BY <1>5 DEF E!ProcessDies, E!Crash, Contract!Interrupt
  <2> QED BY <2>1 DEF Step, Contract!Next
<1>6. ASSUME NEW j \in Jobs, E!Promote(j) PROVE UNCHANGED Contract!vars
  BY <1>6 DEF E!Promote
<1>7. ASSUME NEW j \in Jobs, E!Stall(j) PROVE Step
  <2>1. CASE stalls'[j] > 1
    <3>1. Contract!GiveUp(j)
      BY <1>7, <2>1 DEF E!Stall, Contract!GiveUp
    <3> QED BY <3>1 DEF Step, Contract!Next
  <2>2. CASE ~(stalls'[j] > 1)
    <3>1. UNCHANGED Contract!vars
      BY <1>7, <2>2 DEF E!Stall
    <3> QED BY <3>1 DEF Step
  <2> QED BY <2>1, <2>2
<1>8. CASE E!Close \/ E!Exit \/ E!Restart
  BY <1>8 DEF E!Close, E!Exit, E!Restart, Step
<1> QED
  BY <1>1, <1>2, <1>3, <1>4, <1>5, <1>6, <1>7, <1>8 DEF E!Next, E!Queue, Step, Contract!Next

\* Whatever the number of jobs, attempts and crashes, each queue keeps the
\* contract: a job is repeated only on account of a failure or an interruption,
\* and given up only after all its attempts or a second interruption.
THEOREM QueuesKeepSafety == Spec => Contract!Safety
<1>1. Init => Contract!Init
  BY Views DEF Init, W!Init, W!QueueInit, Contract!Init
<1>2. QueueInv /\ [Next]_vars => [Contract!Next]_(Contract!vars)
  <2>1. UNCHANGED vars => UNCHANGED Contract!vars
    BY Views DEF vars, queueVars, Contract!vars
  <2> QED BY <2>1, WebhookContract, EmailContract DEF Next, Step
<1> QED BY <1>1, <1>2, QueueInvariant, PTL DEF Spec, Contract!Safety

-----------------------------------------------------------------------------
(***************************************************************************)
(* The log of the deliveries.  A 2xx answer that the worker has seen is    *)
(* accounted for by the try under way, the completion of the job or an     *)
(* interruption; what a try has been told it may put on record; and no try *)
(* is settled before its row.                                              *)
(***************************************************************************)
Accounted(j) ==
    confirmed[j] <= Interruptions[j]
                       + (IF (Sent(j) /\ outcome[j] = "ok") \/ state[j] = "completed" THEN 1 ELSE 0)

OnRecord(j) == W!Logged(j) \/ j \in unlogged

HookInv ==
    /\ confirmed \in [Jobs -> Nat]
    /\ outcome \in [Jobs -> {"none", "ok", "status", "network", "unheard"}]
    /\ \A r \in log : r.delivery \in Jobs /\ (r.success => confirmed[r.delivery] > 0)
    /\ touched => \E j \in Jobs : confirmed[j] > 0
    /\ \A j \in Jobs : Sent(j) /\ outcome[j] = "ok" => confirmed[j] > 0
    /\ \A j \in Jobs : Accounted(j)
    /\ webhook => \A j \in Jobs :
          stage[j] = "settle" \/ state[j] = "completed" \/ attemptsMade[j] > 0 => OnRecord(j)

DeliveriesInv ==
    /\ queue = "webhook" => HookInv
    /\ queue = "email" => confirmed = [j \in Jobs |-> 0] /\ log = {} /\ ~touched

LEMMA DeliveriesStart == Init => DeliveriesInv
BY DEF Init, W!Init, W!QueueInit, DeliveriesInv, HookInv, Accounted, Interruptions, Sent,
       OnRecord, W!Logged

LEMMA DeliveriesStep == QueueInv /\ DeliveriesInv /\ Webhooks => DeliveriesInv'
<1> SUFFICES ASSUME QueueInv, HookInv, Webhooks PROVE HookInv' /\ queue' = "webhook"
  BY DEF DeliveriesInv, Webhooks
<1> USE QueueAssumption
    DEF Webhooks, QueueInv, HookInv, Accounted, OnRecord, W!Logged, Interruptions, Stages, Sent,
        W!hookVars, W!queueVars, queueVars, W!MoveTo, W!GotoStage
<1>1. ASSUME NEW j \in Jobs, W!SendTest(j) PROVE HookInv'
  BY <1>1 DEF W!SendTest, W!Add
<1>2. ASSUME NEW j \in Jobs, W!Start(j) PROVE HookInv'
  BY <1>2 DEF W!Start, W!Take
<1>3. ASSUME NEW j \in Jobs, W!Post(j) PROVE HookInv'
  BY <1>3 DEF W!Post, W!Outcomes, W!Answered
<1>4. ASSUME NEW j \in Jobs, W!ReadBody(j) PROVE HookInv'
  BY <1>4 DEF W!ReadBody
<1>5. ASSUME NEW j \in Jobs, W!Log(j) PROVE HookInv'
  <2>1. /\ stage[j] = "log" /\ stage' = [stage EXCEPT ![j] = "settle"]
        /\ UNCHANGED <<queueVars, sends, webhook, outcome, touched, confirmed>>
    BY <1>5 DEF W!Log
  <2> DEFINE row == [delivery |-> j, attempt |-> attemptsMade[j] + 1,
                     success |-> outcome[j] = "ok"]
  <2>2. /\ row.delivery = j
        /\ row.success => confirmed[j] > 0
    <3>1. row.success = (outcome[j] = "ok") OBVIOUS
    <3>2. outcome[j] = "ok" => confirmed[j] > 0 BY <2>1
    <3> QED BY <3>1, <3>2
  <2>3. \/ log' = log \cup {row} /\ UNCHANGED unlogged
        \/ UNCHANGED log /\ unlogged' = unlogged \cup {j}
        \/ UNCHANGED <<log, unlogged>> /\ (webhook => \E r \in log : r.delivery = j)
    BY <1>5 DEF W!Log
  <2> HIDE DEF row
  <2>4. /\ \A r \in log' : r.delivery \in Jobs /\ (r.success => confirmed'[r.delivery] > 0)
        /\ log \subseteq log' /\ unlogged \subseteq unlogged'
        /\ webhook => OnRecord(j)'
    <3>1. CASE log' = log \cup {row} /\ UNCHANGED unlogged BY <2>1, <2>2, <3>1
    <3>2. CASE UNCHANGED log /\ unlogged' = unlogged \cup {j} BY <2>1, <3>2
    <3>3. CASE UNCHANGED <<log, unlogged>> /\ (webhook => \E r \in log : r.delivery = j)
      BY <2>1, <3>3
    <3> QED BY <2>3, <3>1, <3>2, <3>3
  <2>5. \A k \in Jobs : Accounted(k)' /\ (Sent(k)' /\ outcome'[k] = "ok" => confirmed'[k] > 0)
    BY <2>1
  <2> QED BY <2>1, <2>4, <2>5
<1>6. ASSUME NEW j \in Jobs, W!Settle(j) PROVE HookInv'
  <2>1. CASE W!Complete(j) /\ outcome[j] = "ok" BY <1>6, <2>1 DEF W!Settle, W!Complete
  <2>2. CASE W!Retry(j) /\ outcome[j] # "ok"
    <3>1. touched' => touched BY <1>6, <2>2 DEF W!Settle
    <3>2. \A k \in Jobs : Accounted(k)' BY <1>6, <2>2 DEF W!Settle, W!Retry
    <3>3. \A k \in Jobs :
           (stage[k] = "settle" \/ state[k] = "completed" \/ attemptsMade[k] > 0)'
              => stage[k] = "settle" \/ state[k] = "completed" \/ attemptsMade[k] > 0
      BY <1>6, <2>2 DEF W!Settle, W!Retry
    <3> QED BY <1>6, <2>2, <3>1, <3>2, <3>3 DEF W!Settle, W!Retry
  <2> QED BY <1>6, <2>1, <2>2 DEF W!Settle
<1>7. CASE W!DeleteWebhook BY <1>7 DEF W!DeleteWebhook
<1>8. CASE W!ProcessDies BY <1>8 DEF W!ProcessDies, W!Crash
<1>9. ASSUME NEW j \in Jobs, W!Promote(j), UNCHANGED W!hookVars PROVE HookInv'
  BY <1>9 DEF W!Promote
<1>10. ASSUME NEW j \in Jobs, W!Stall(j), UNCHANGED W!hookVars PROVE HookInv'
  BY <1>10 DEF W!Stall
<1>11. ASSUME W!Close \/ W!Exit \/ W!Restart, UNCHANGED W!hookVars PROVE HookInv'
  BY <1>11 DEF W!Close, W!Exit, W!Restart
<1> QED
  BY <1>1, <1>2, <1>3, <1>4, <1>5, <1>6, <1>7, <1>8, <1>9, <1>10, <1>11
  DEF W!Next, W!Process, W!Queue

LEMMA DeliveriesInvariant == Spec => [](QueueInv /\ DeliveriesInv)
<1>1. DeliveriesInv /\ UNCHANGED vars => DeliveriesInv'
  BY DEF DeliveriesInv, HookInv, Accounted, OnRecord, W!Logged, Interruptions, Sent, vars,
         queueVars, restVars, hookVars
<1>2. DeliveriesInv /\ QueueInv /\ Emails => DeliveriesInv'
  BY DEF DeliveriesInv, Emails, hookVars, QueueInv
<1>3. QueueInv /\ DeliveriesInv /\ [Next]_vars => DeliveriesInv'
  BY <1>1, <1>2, DeliveriesStep DEF Next
<1> QED BY <1>3, DeliveriesStart, QueueInvariant, PTL DEF Spec

\* A 2xx answer that the worker has seen ends the delivery, unless the process
\* goes down before it is reported: whatever else an endpoint has accepted and
\* gets again, its answer went unheard.
THEOREM RepeatsExplained == Spec => []RepeatsHaveCause
<1>1. QueueInv /\ DeliveriesInv => RepeatsHaveCause
  BY DEF QueueInv, DeliveriesInv, HookInv, Accounted, Sent, RepeatsHaveCause,
         W!RepeatsHaveCause, Interruptions, W!Interruptions
<1> QED BY <1>1, DeliveriesInvariant, PTL

\* What the log or lastDeliveredAt says was delivered, was answered with a 2xx
\* status that the worker has seen.
THEOREM SuccessReal == Spec => []SuccessOnRecordIsReal
<1>1. QueueInv /\ DeliveriesInv => SuccessOnRecordIsReal
  BY DEF QueueInv, DeliveriesInv, HookInv, SuccessOnRecordIsReal, W!SuccessOnRecordIsReal
<1> QED BY <1>1, DeliveriesInvariant, PTL

\* A delivery tried and settled is on record, unless the webhook is gone or
\* Postgres refused the row.
THEOREM SettledLogged == Spec => []SettledIsOnRecord
<1>1. QueueInv /\ DeliveriesInv => SettledIsOnRecord
  BY DEF QueueInv, DeliveriesInv, HookInv, OnRecord, SettledIsOnRecord, W!SettledIsOnRecord,
         W!Logged
<1> QED BY <1>1, DeliveriesInvariant, PTL

-----------------------------------------------------------------------------
(***************************************************************************)
(* The types, with the bounds on slots, attempts, stalls and crashes.  A   *)
(* job in hand is held, so whatever takes another finds a slot free; it    *)
(* is active, so it has an attempt left and has stalled once at most.      *)
(***************************************************************************)
SlotsInv ==
    /\ worker \in {"up", "closing", "down"}
    /\ crashes \in 0..MaxCrashes /\ (worker = "closing" => crashes < MaxCrashes)
    /\ IsFiniteSet(held) /\ Cardinality(held) <= Concurrency
    /\ \A j \in Jobs : /\ attemptsMade[j] <= MaxAttempts /\ stalls[j] <= 2
                       /\ state[j] # "failed" => stalls[j] <= 1

StagesInv ==
    /\ queue = "webhook" => stage \in [Jobs -> {"idle", "post", "body", "log", "settle"}]
    /\ queue = "email" => stage \in [Jobs -> {"idle", "send", "settle"}]

Row == [delivery : Jobs, attempt : 1..MaxAttempts, success : BOOLEAN]

RowsInv ==
    /\ webhook \in BOOLEAN /\ touched \in BOOLEAN
    /\ outcome \in [Jobs -> {"none", "ok", "status", "network", "unheard"}]
    /\ confirmed \in [Jobs -> Nat]
    /\ log \in SUBSET Row
    /\ unlogged \in SUBSET Jobs

TypedInv == SlotsInv /\ StagesInv /\ RowsInv

LEMMA TypedStart == Init => TypedInv
<1> SUFFICES ASSUME Init PROVE TypedInv
  OBVIOUS
<1>1. SlotsInv
  <2>1. held = {} /\ worker = "up" /\ crashes = 0 BY DEF Init, W!Init, W!QueueInit
  <2>2. IsFiniteSet(held) /\ Cardinality(held) = 0 BY <2>1, FS_EmptySet
  <2> QED BY <2>1, <2>2, QueueAssumption DEF Init, W!Init, W!QueueInit, SlotsInv
<1>2. StagesInv BY DEF Init, W!Init, E!Init, StagesInv
<1>3. RowsInv BY DEF Init, W!Init, RowsInv
<1> QED BY <1>1, <1>2, <1>3 DEF TypedInv

\* Both workers share the bounds of the queue.
LEMMA Slots ==
    ASSUME QueueInv, SlotsInv, NEW j \in Jobs
    PROVE  /\ Add(j) => SlotsInv'
           /\ Take(j) => SlotsInv'
           /\ stage[j] # "idle" /\ Complete(j) => SlotsInv'
           /\ stage[j] # "idle" /\ Retry(j) => SlotsInv'
           /\ Promote(j) => SlotsInv'
           /\ Stall(j) => SlotsInv'
<1>1. /\ IsFiniteSet(held \cup {j})
      /\ Cardinality(held) < Concurrency => Cardinality(held \cup {j}) <= Concurrency
  <2>1. IsFiniteSet(held) BY DEF SlotsInv
  <2>2. Cardinality(held \cup {j}) = IF j \in held THEN Cardinality(held) ELSE Cardinality(held) + 1
    BY <2>1, FS_AddElement
  <2>3. Cardinality(held) \in Nat BY <2>1, FS_CardinalityType
  <2> QED BY <2>1, <2>2, <2>3, FS_AddElement, QueueAssumption
<1>2. IsFiniteSet(held \ {j}) /\ Cardinality(held \ {j}) <= Concurrency
  <2>1. IsFiniteSet(held) BY DEF SlotsInv
  <2>2. Cardinality(held \ {j}) = IF j \in held THEN Cardinality(held) - 1 ELSE Cardinality(held)
    BY <2>1, FS_RemoveElement
  <2>3. Cardinality(held) \in Nat BY <2>1, FS_CardinalityType
  <2> QED BY <2>1, <2>2, <2>3, FS_RemoveElement, QueueAssumption DEF SlotsInv
<1> USE QueueAssumption DEF QueueInv, SlotsInv, MoveTo
<1>3. ASSUME Add(j) PROVE SlotsInv' BY <1>3 DEF Add
<1>4. ASSUME Take(j) PROVE SlotsInv' BY <1>1, <1>2, <1>4 DEF Take
<1>5. ASSUME stage[j] # "idle", Complete(j) PROVE SlotsInv' BY <1>1, <1>2, <1>5 DEF Complete
<1>6. ASSUME stage[j] # "idle", Retry(j) PROVE SlotsInv' BY <1>1, <1>2, <1>6 DEF Retry
<1>7. ASSUME Promote(j) PROVE SlotsInv' BY <1>7 DEF Promote
<1>8. ASSUME Stall(j) PROVE SlotsInv' BY <1>8 DEF Stall
<1> QED BY <1>3, <1>4, <1>5, <1>6, <1>7, <1>8

LEMMA SlotsOfProcess ==
    ASSUME QueueInv, SlotsInv, Close \/ Exit \/ Restart \/ Crash
    PROVE  SlotsInv'
<1>1. CASE Close BY <1>1, QueueAssumption DEF SlotsInv, Close
<1>2. CASE Exit BY <1>2, QueueAssumption DEF SlotsInv, Exit
<1>3. CASE Restart BY <1>3 DEF SlotsInv, Restart
<1>4. CASE Crash
  <2>1. IsFiniteSet(held') /\ Cardinality(held') = 0 BY <1>4, FS_EmptySet DEF Crash
  <2> QED BY <1>4, <2>1, QueueAssumption DEF SlotsInv, Crash
<1> QED BY <1>1, <1>2, <1>3, <1>4

LEMMA TypedWebhooks == QueueInv /\ TypedInv /\ Webhooks => TypedInv'
<1> SUFFICES ASSUME QueueInv, TypedInv, Webhooks PROVE SlotsInv' /\ StagesInv' /\ RowsInv'
  BY DEF TypedInv
<1> USE DEF W!queueVars, queueVars, W!GotoStage, Webhooks
<1>1. SlotsInv'
  <2> USE DEF TypedInv
  <2>1. ASSUME NEW j \in Jobs,
               W!SendTest(j) \/ W!Start(j) \/ W!Process(j) \/ W!ReadBody(j)
        PROVE  SlotsInv'
    <3>1. CASE W!SendTest(j) BY <3>1, Slots DEF W!SendTest, W!Add, Add, W!MoveTo, MoveTo
    <3>2. CASE W!Start(j)
      BY <3>2, Slots DEF W!Start, W!Take, Take, W!MoveTo, MoveTo, W!Cardinality, Cardinality
    <3>3. CASE W!Settle(j)
      BY <3>3, Slots DEF W!Settle, W!Complete, Complete, W!Retry, Retry, W!MoveTo, MoveTo
    <3>4. CASE W!Post(j) \/ W!ReadBody(j) \/ W!Log(j)
      BY <3>4 DEF W!Post, W!ReadBody, W!Log, SlotsInv
    <3> QED BY <2>1, <3>1, <3>2, <3>3, <3>4 DEF W!Process
  <2>2. CASE W!DeleteWebhook BY <2>2 DEF W!DeleteWebhook, SlotsInv
  <2>3. CASE W!ProcessDies
    BY <2>3, SlotsOfProcess DEF W!ProcessDies, W!Crash, Crash
  <2>4. CASE W!Queue
    <3>1. CASE W!Close \/ W!Exit \/ W!Restart
      BY <3>1, SlotsOfProcess
      DEF W!Close, Close, W!Exit, Exit, W!Restart, Restart
    <3>2. ASSUME NEW j \in Jobs, W!Promote(j) \/ W!Stall(j) PROVE SlotsInv'
      BY <3>2, Slots DEF W!Promote, Promote, W!Stall, Stall, W!MoveTo, MoveTo
    <3> QED BY <2>4, <3>1, <3>2 DEF W!Queue
  <2> QED BY <2>1, <2>2, <2>3, <2>4 DEF W!Next
<1>2. StagesInv'
  BY DEF TypedInv, StagesInv, W!Next, W!Process, W!Queue, W!hookVars, W!SendTest, W!Start,
         W!Post, W!ReadBody, W!Log, W!Settle, W!DeleteWebhook, W!ProcessDies
<1>3. RowsInv'
  <2> USE DEF TypedInv, RowsInv
  <2>1. ASSUME NEW j \in Jobs, W!Log(j) PROVE RowsInv'
    <3> DEFINE row == [delivery |-> j, attempt |-> attemptsMade[j] + 1,
                       success |-> outcome[j] = "ok"]
    <3>1. attemptsMade[j] + 1 \in 1..MaxAttempts
      BY <2>1, QueueAssumption DEF W!Log, QueueInv
    <3>2. row \in Row BY <3>1 DEF Row
    <3>3. log' = log \/ log' = log \cup {row} BY <2>1 DEF W!Log
    <3>4. unlogged' = unlogged \/ unlogged' = unlogged \cup {j} BY <2>1 DEF W!Log
    <3>5. UNCHANGED <<webhook, touched, outcome, confirmed>> BY <2>1 DEF W!Log
    <3> HIDE DEF row
    <3> QED BY <3>2, <3>3, <3>4, <3>5
  <2>2. ASSUME NEW j \in Jobs, W!Settle(j) PROVE RowsInv'
    <3>1. touched' \in BOOLEAN BY <2>2, Zenon DEF W!Settle
    <3>2. outcome' = [outcome EXCEPT ![j] = "none"] BY <2>2 DEF W!Settle
    <3>3. UNCHANGED <<webhook, log, confirmed, unlogged>> BY <2>2 DEF W!Settle
    <3> QED BY <3>1, <3>2, <3>3
  <2>3. ASSUME NEW j \in Jobs, W!Post(j) PROVE RowsInv'
    BY <2>3 DEF W!Post, W!Outcomes, W!Answered
  <2>4. ASSUME NEW j \in Jobs, W!SendTest(j) \/ W!Start(j) \/ W!ReadBody(j) PROVE RowsInv'
    BY <2>4 DEF W!SendTest, W!Start, W!ReadBody, W!hookVars
  <2>5. ASSUME W!DeleteWebhook \/ W!ProcessDies \/ W!Queue PROVE RowsInv'
    BY <2>5 DEF W!DeleteWebhook, W!ProcessDies, W!Queue, W!hookVars
  <2> QED BY <2>1, <2>2, <2>3, <2>4, <2>5 DEF W!Next, W!Process
<1> QED BY <1>1, <1>2, <1>3

LEMMA TypedEmails == QueueInv /\ TypedInv /\ Emails => TypedInv'
<1> SUFFICES ASSUME QueueInv, TypedInv, Emails PROVE SlotsInv' /\ StagesInv' /\ RowsInv'
  BY DEF TypedInv
<1> USE DEF E!queueVars, queueVars, E!Stage, Emails, TypedInv
<1>1. SlotsInv'
  <2>1. ASSUME NEW j \in Jobs, E!EnqueueEmail(j) \/ E!Start(j) \/ E!SendMail(j) \/ E!Settle(j)
        PROVE  SlotsInv'
    <3>1. CASE E!EnqueueEmail(j) BY <3>1, Slots DEF E!EnqueueEmail, E!Add, Add, E!MoveTo, MoveTo
    <3>2. CASE E!Start(j)
      BY <3>2, Slots DEF E!Start, E!Take, Take, E!MoveTo, MoveTo, E!Cardinality, Cardinality
    <3>3. CASE E!Settle(j)
      BY <3>3, Slots DEF E!Settle, E!Complete, Complete, E!Retry, Retry, E!MoveTo, MoveTo
    <3>4. CASE E!SendMail(j) BY <3>4 DEF E!SendMail, SlotsInv
    <3> QED BY <2>1, <3>1, <3>2, <3>3, <3>4
  <2>2. CASE E!ProcessDies
    BY <2>2, SlotsOfProcess DEF E!ProcessDies, E!Crash, Crash
  <2>3. CASE E!Queue
    <3>1. CASE E!Close \/ E!Exit \/ E!Restart
      BY <3>1, SlotsOfProcess DEF E!Close, Close, E!Exit, Exit, E!Restart, Restart
    <3>2. ASSUME NEW j \in Jobs, E!Promote(j) \/ E!Stall(j) PROVE SlotsInv'
      BY <3>2, Slots DEF E!Promote, Promote, E!Stall, Stall, E!MoveTo, MoveTo
    <3> QED BY <2>3, <3>1, <3>2 DEF E!Queue
  <2> QED BY <2>1, <2>2, <2>3 DEF E!Next
<1>2. StagesInv'
  BY DEF StagesInv, E!Next, E!Queue, E!mailVars, E!EnqueueEmail, E!Start, E!SendMail, E!Settle,
         E!ProcessDies
<1>3. RowsInv' BY DEF RowsInv, hookVars
<1> QED BY <1>1, <1>2, <1>3

\* The variables of both queues keep their types; the slots, the attempts and
\* the stalls their bounds.
THEOREM TypeCorrect == Spec => []TypeOK
<1>1. QueueInv /\ TypedInv /\ [Next]_vars => TypedInv'
  <2>1. TypedInv /\ UNCHANGED vars => TypedInv'
    BY DEF TypedInv, SlotsInv, StagesInv, RowsInv, vars, queueVars, restVars, hookVars
  <2> QED BY <2>1, TypedWebhooks, TypedEmails DEF Next
<1>2. QueueInv /\ TypedInv => TypeOK
  <2> SUFFICES ASSUME QueueInv, TypedInv PROVE TypeOK
    OBVIOUS
  <2>1. QueueTypeOK
    BY QueueAssumption DEF QueueInv, TypedInv, SlotsInv, QueueTypeOK, Settled
  <2>2. CASE queue = "webhook"
    BY <2>1, <2>2
    DEF TypeOK, W!TypeOK, W!QueueTypeOK, QueueTypeOK, W!Settled, Settled, W!Cardinality,
        Cardinality, W!Outcomes, W!Answered, Row, QueueInv, TypedInv, StagesInv, RowsInv
  <2>3. CASE queue = "email"
    BY <2>1, <2>3
    DEF TypeOK, E!TypeOK, E!QueueTypeOK, QueueTypeOK, E!Settled, Settled, E!Cardinality,
        Cardinality, QueueInv, TypedInv, StagesInv
  <2> QED BY <2>2, <2>3 DEF QueueInv
<1> QED BY <1>1, <1>2, TypedStart, QueueInvariant, PTL DEF Spec

=============================================================================
