------------------------------- MODULE Queues -------------------------------
(***************************************************************************)
(* The two queues of the process.  Each has a worker, a set of jobs and a  *)
(* Redis key space of its own, and the processor of one never touches what *)
(* the other works on, so a behaviour here follows one of them, chosen at  *)
(* the start.  The variables of JobQueue and the stages of the processor   *)
(* are those of the queue followed.                                        *)
(***************************************************************************)
EXTENDS JobQueue

CONSTANT LogMayFail     \* see WebhookDelivery

ASSUME LogAssumption == LogMayFail \in BOOLEAN

VARIABLES
    queue,      \* the queue followed: webhook or email
    stage,
    webhook, outcome, log, touched, confirmed, unlogged,    \* see WebhookDelivery
    answer                                                  \* see EmailDelivery

hookVars == <<webhook, outcome, log, touched, confirmed, unlogged>>
restVars == <<queue, stage, hookVars, answer>>
vars == <<queueVars, sends, restVars>>

W == INSTANCE WebhookDelivery
E == INSTANCE EmailDelivery

Init ==
    /\ queue \in {"webhook", "email"}
    /\ W!Init /\ E!Init

Webhooks == queue = "webhook" /\ W!Next /\ UNCHANGED <<queue, answer>>
Emails == queue = "email" /\ E!Next /\ UNCHANGED <<queue, hookVars>>

Next == Webhooks \/ Emails

Spec == Init /\ [][Next]_vars

\* What the two modules assume of the worker, the process and the other side:
\* endpoints finish what they answer, the SMTP connection times out.
FairSpec ==
    /\ Spec
    /\ \A j \in Jobs :
          /\ WF_vars(queue = "webhook" /\ (W!Process(j) \/ W!ReadBody(j))
                        /\ UNCHANGED <<queue, answer>>)
          /\ WF_vars(queue = "email" /\ (E!SendMail(j) \/ E!Settle(j))
                        /\ UNCHANGED <<queue, hookVars>>)
          /\ SF_vars(queue = "webhook" /\ W!Start(j) /\ UNCHANGED <<queue, answer>>)
          /\ SF_vars(queue = "email" /\ E!Start(j) /\ UNCHANGED <<queue, hookVars>>)
          /\ WF_vars((Promote(j) \/ Stall(j)) /\ UNCHANGED restVars)
    /\ WF_vars((Restart \/ Exit) /\ UNCHANGED restVars)

-----------------------------------------------------------------------------
\* The properties are those of the modules, under the same names.

\* Every variable keeps its type.
TypeOK == IF queue = "webhook" THEN W!TypeOK ELSE E!TypeOK

\* What the log says was delivered, was delivered.
SuccessOnRecordIsReal == W!SuccessOnRecordIsReal

\* An accepted delivery is sent again, or given up, only because its answer went
\* unheard or on account of an interruption.
RepeatsHaveCause == W!RepeatsHaveCause

\* What was tried and settled is on record.
SettledIsOnRecord == queue = "webhook" => W!SettledIsOnRecord

\* Both queues keep the contract: at least once or given up, no repeat without
\* a failure or an interruption, and every job is settled in the end.
KeepsContract == Contract!Spec

=============================================================================
