-------------------------- MODULE WebhookDelivery --------------------------
(***************************************************************************)
(* Deliveries to one webhook: WebhookService.sendTest enqueues a job, and  *)
(* processWebhookJob of webhook-worker.service.ts posts it, logs the       *)
(* attempt to WebhookDelivery and tells the queue, by returning or by      *)
(* throwing, how the attempt ended.  The queue is JobQueue.                *)
(***************************************************************************)
EXTENDS JobQueue

CONSTANT LogMayFail   \* may Postgres refuse to log a delivery?

VARIABLES
    webhook,    \* is the orgWebhook row there?
    stage,      \* where the processor of each job stands
    outcome,    \* how the attempt went
    log,        \* rows of WebhookDelivery
    touched,    \* does the webhook have a lastDeliveredAt?
    confirmed,  \* history: 2xx answers to each job that reached the worker
    unlogged    \* history: jobs of which Postgres refused a row it had room for

hookVars == <<webhook, stage, outcome, log, touched, confirmed, unlogged>>
vars == <<queueVars, sends, hookVars>>

\* A 2xx answer that arrives, another status, a request that the endpoint did not
\* accept or that never reached it, and one that it did accept although the
\* answer came too late or over a connection that broke.
Outcomes == {"ok", "status", "network", "unheard"}
Answered(o) == o \in {"ok", "status"}

TypeOK ==
    /\ QueueTypeOK
    /\ webhook \in BOOLEAN
    /\ stage \in [Jobs -> {"idle", "post", "body", "log", "settle"}]
    /\ \A j \in Jobs : stage[j] # "idle" <=> j \in held
    /\ outcome \in [Jobs -> Outcomes \cup {"none"}]
    /\ log \in SUBSET [delivery : Jobs, attempt : 1..MaxAttempts, success : BOOLEAN]
    /\ touched \in BOOLEAN
    /\ confirmed \in [Jobs -> Nat]
    /\ unlogged \in SUBSET Jobs

Init ==
    /\ QueueInit
    /\ webhook = TRUE
    /\ stage = [j \in Jobs |-> "idle"]
    /\ outcome = [j \in Jobs |-> "none"]
    /\ log = {}
    /\ touched = FALSE
    /\ confirmed = [j \in Jobs |-> 0]
    /\ unlogged = {}

GotoStage(j, s) == stage' = [stage EXCEPT ![j] = s]

-----------------------------------------------------------------------------
\* sendTest finds the webhook, and gives the job a deliveryId of its own.
SendTest(j) ==
    /\ webhook
    /\ Add(j)
    /\ UNCHANGED hookVars

\* DELETE /webhooks/:id takes the deliveries with it, but not the jobs.
DeleteWebhook ==
    /\ webhook
    /\ webhook' = FALSE
    /\ log' = {} /\ touched' = FALSE /\ unlogged' = {}
    /\ UNCHANGED <<queueVars, sends, stage, outcome, confirmed>>

Start(j) ==
    /\ Take(j)
    /\ GotoStage(j, "post")
    /\ UNCHANGED <<webhook, outcome, log, touched, confirmed, unlogged>>

\* fetch: the headers arrive, or it fails or is aborted after ten seconds, which
\* tells the worker nothing of what the endpoint has done.
Post(j) ==
    /\ stage[j] = "post"
    /\ sends' = [sends EXCEPT ![j] = @ + 1]
    /\ \E o \in Outcomes :
          /\ outcome' = [outcome EXCEPT ![j] = o]
          /\ GotoStage(j, IF Answered(o) THEN "body" ELSE "log")
          /\ confirmed' = [confirmed EXCEPT ![j] = IF o = "ok" THEN @ + 1 ELSE @]
    /\ UNCHANGED <<queueVars, webhook, log, touched, unlogged>>

\* response.text(), by now without the timer; an error reads as no text.
ReadBody(j) ==
    /\ stage[j] = "body"
    /\ GotoStage(j, "log")
    /\ UNCHANGED <<queueVars, sends, webhook, outcome, log, touched, confirmed, unlogged>>

Logged(j) == \E r \in log : r.delivery = j

\* Mutant: any answer at all counts as success.
LogAnswered(j) ==
    /\ stage[j] = "log"
    /\ IF webhook /\ ~Logged(j)
       THEN log' = log \cup {[delivery |-> j, attempt |-> attemptsMade[j] + 1,
                              success |-> Answered(outcome[j])]}
       ELSE UNCHANGED log
    /\ GotoStage(j, "settle")
    /\ UNCHANGED <<queueVars, sends, webhook, outcome, touched, confirmed, unlogged>>

\* Mutant: an attempt that succeeds is not worth a row.
LogFailuresOnly(j) ==
    /\ stage[j] = "log"
    /\ IF webhook /\ ~Logged(j) /\ outcome[j] # "ok"
       THEN log' = log \cup {[delivery |-> j, attempt |-> attemptsMade[j] + 1,
                              success |-> FALSE]}
       ELSE UNCHANGED log
    /\ GotoStage(j, "settle")
    /\ UNCHANGED <<queueVars, sends, webhook, outcome, touched, confirmed, unlogged>>

\* The finally block: createDelivery inserts a row, unless the deliveryId has
\* one, the webhook is gone or the query fails; each of these is only logged.
Log(j) ==
    /\ stage[j] = "log"
    /\ IF webhook /\ ~Logged(j)
       THEN \/ /\ log' = log \cup {[delivery |-> j, attempt |-> attemptsMade[j] + 1,
                                   success |-> outcome[j] = "ok"]}
               /\ UNCHANGED unlogged
            \/ LogMayFail /\ unlogged' = unlogged \cup {j} /\ UNCHANGED log
       ELSE UNCHANGED <<log, unlogged>>
    /\ GotoStage(j, "settle")
    /\ UNCHANGED <<queueVars, sends, webhook, outcome, touched, confirmed>>

\* Mutant: a first attempt is retried whatever the answer was.
SettleAlwaysRetry(j) ==
    /\ stage[j] = "settle"
    /\ IF outcome[j] = "ok" /\ attemptsMade[j] > 0 THEN Complete(j) ELSE Retry(j)
    /\ GotoStage(j, "idle")
    /\ outcome' = [outcome EXCEPT ![j] = "none"]
    /\ UNCHANGED <<webhook, log, touched, confirmed, unlogged>>

\* The processor returns after a 2xx answer, for which it sets lastDeliveredAt
\* without waiting (an error is ignored), and throws otherwise.
Settle(j) ==
    /\ stage[j] = "settle"
    /\ IF outcome[j] = "ok" THEN Complete(j) ELSE Retry(j)
    /\ GotoStage(j, "idle")
    /\ \/ touched' = (touched \/ (webhook /\ outcome[j] = "ok"))
       \/ UNCHANGED touched
    /\ outcome' = [outcome EXCEPT ![j] = "none"]
    /\ UNCHANGED <<webhook, log, confirmed, unlogged>>

\* What a processor had in hand is lost with the process.
ProcessDies ==
    /\ Crash
    /\ stage' = [j \in Jobs |-> "idle"]
    /\ outcome' = [j \in Jobs |-> "none"]
    /\ UNCHANGED <<webhook, log, touched, confirmed, unlogged>>

Process(j) == Post(j) \/ Log(j) \/ Settle(j)

Queue ==
    /\ Close \/ Exit \/ Restart \/ \E j \in Jobs : Promote(j) \/ Stall(j)
    /\ UNCHANGED hookVars

Next ==
    \/ \E j \in Jobs : SendTest(j) \/ Start(j) \/ Process(j) \/ ReadBody(j)
    \/ DeleteWebhook \/ Queue \/ ProcessDies

Spec == Init /\ [][Next]_vars

\* The worker goes on with the jobs it holds, takes waiting ones in order (so
\* none is passed over for ever), and the process is started again.  Nothing
\* obliges an endpoint to finish its answer.
Fairness ==
    /\ \A j \in Jobs :
          /\ WF_vars(Process(j))
          /\ SF_vars(Start(j))
          /\ WF_vars(Promote(j) /\ UNCHANGED hookVars)
          /\ WF_vars(Stall(j) /\ UNCHANGED hookVars)
    /\ WF_vars((Restart \/ Exit) /\ UNCHANGED hookVars)

FairSpec == Spec /\ Fairness

-----------------------------------------------------------------------------
\* A delivery on record as successful was answered with a 2xx status, and a
\* webhook has a lastDeliveredAt only if something was delivered to it.
SuccessOnRecordIsReal ==
    /\ \A r \in log : r.success => confirmed[r.delivery] > 0
    /\ touched => \E j \in Jobs : confirmed[j] > 0

\* A 2xx answer that reaches the worker ends the delivery, unless the process
\* goes down before it is reported.  So an endpoint gets again what it has
\* accepted, or the queue gives it up, only because the answer went unheard or
\* on account of an interruption, and one interruption excuses one repeat.
RepeatsHaveCause ==
    \A j \in Jobs :
        confirmed[j] <= Interruptions[j]
                           + (IF state[j] \in {"active", "completed"} THEN 1 ELSE 0)

\* A delivery that the queue has settled after trying it is on record, unless
\* the webhook is gone or Postgres refused a row.
SettledIsOnRecord ==
    webhook => \A j \in Jobs :
        state[j] = "completed" \/ attemptsMade[j] > 0 => Logged(j) \/ j \in unlogged

\* "All attempts (success or failure) are logged to WebhookDelivery".
AttemptsAreLogged ==
    webhook => \A j \in Jobs :
        state[j] \in {"delayed", "completed", "failed"} =>
            Cardinality({r \in log : r.delivery = j}) >= sends[j]

\* "Uses native fetch with a 10-second AbortController timeout": every
\* delivery is settled, whatever its endpoint does.
EveryDeliverySettles == Contract!Settles

=============================================================================
