--------------------------- MODULE EmailDelivery ---------------------------
(***************************************************************************)
(* The emails: services enqueue them without waiting (void enqueueEmail),  *)
(* and processEmailJob of email.service.ts hands each to the SMTP server.  *)
(* Without SMTP settings a mail is only logged, which counts as sent.      *)
(***************************************************************************)
EXTENDS JobQueue

VARIABLES
    stage,      \* where the processor of each job stands
    answer      \* what the SMTP server said

vars == <<queueVars, sends, stage, answer>>
mailVars == <<stage, answer>>

TypeOK ==
    /\ QueueTypeOK
    /\ stage \in [Jobs -> {"idle", "send", "settle"}]
    /\ \A j \in Jobs : stage[j] # "idle" <=> j \in held
    /\ answer \in [Jobs -> {"none", "sent", "error"}]

Init ==
    /\ QueueInit
    /\ stage = [j \in Jobs |-> "idle"]
    /\ answer = [j \in Jobs |-> "none"]

Stage(j, s, a) ==
    /\ stage' = [stage EXCEPT ![j] = s]
    /\ answer' = [answer EXCEPT ![j] = a]

EnqueueEmail(j) == Add(j) /\ UNCHANGED mailVars

Start(j) == Take(j) /\ Stage(j, "send", "none")

\* sendMail; an error may come before or after the server took the mail.
SendMail(j) ==
    /\ stage[j] = "send"
    /\ \E a \in {"sent", "error"} : Stage(j, "settle", a)
    /\ \/ sends' = [sends EXCEPT ![j] = @ + 1]
       \/ answer'[j] = "error" /\ UNCHANGED sends
    /\ UNCHANGED queueVars

\* processEmailJob returns, or lets the error through.
Settle(j) ==
    /\ stage[j] = "settle"
    /\ IF answer[j] = "sent" THEN Complete(j) ELSE Retry(j)
    /\ Stage(j, "idle", "none")

ProcessDies ==
    /\ Crash
    /\ stage' = [j \in Jobs |-> "idle"]
    /\ answer' = [j \in Jobs |-> "none"]

Queue ==
    /\ Close \/ Exit \/ Restart \/ \E j \in Jobs : Promote(j) \/ Stall(j)
    /\ UNCHANGED mailVars

Next ==
    \/ \E j \in Jobs : EnqueueEmail(j) \/ Start(j) \/ SendMail(j) \/ Settle(j)
    \/ Queue \/ ProcessDies

Spec == Init /\ [][Next]_vars

=============================================================================
