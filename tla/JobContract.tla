---------------------------- MODULE JobContract ----------------------------
(***************************************************************************)
(* What whoever enqueues an email or a webhook delivery may count on: the  *)
(* job is carried out at least once or given up, it is given up only after *)
(* MaxAttempts failed tries or a second interruption of the process, and   *)
(* it is repeated only on account of a failure or an interruption.  How    *)
(* the queue brings that about (states, worker, backoff) is hidden.        *)
(***************************************************************************)
EXTENDS Integers

CONSTANTS Jobs, MaxAttempts

VARIABLES
    phase,          \* none, open, done or dropped
    sends,          \* times the job has been carried out
    failures,       \* tries that ended in an error
    interruptions   \* times the process went down during a try

vars == <<phase, sends, failures, interruptions>>

Init ==
    /\ phase = [j \in Jobs |-> "none"]
    /\ sends = [j \in Jobs |-> 0]
    /\ failures = [j \in Jobs |-> 0]
    /\ interruptions = [j \in Jobs |-> 0]

Submit(j) ==
    /\ phase[j] = "none"
    /\ phase' = [phase EXCEPT ![j] = "open"]
    /\ UNCHANGED <<sends, failures, interruptions>>

\* At most one send is not yet accounted for.
Send(j) ==
    /\ phase[j] = "open"
    /\ sends[j] <= failures[j] + interruptions[j]
    /\ sends' = [sends EXCEPT ![j] = @ + 1]
    /\ UNCHANGED <<phase, failures, interruptions>>

Succeed(j) ==
    /\ phase[j] = "open" /\ sends[j] > 0
    /\ phase' = [phase EXCEPT ![j] = "done"]
    /\ UNCHANGED <<sends, failures, interruptions>>

FailTry(j) ==
    /\ phase[j] = "open"
    /\ failures' = [failures EXCEPT ![j] = @ + 1]
    /\ phase' = [phase EXCEPT ![j] = IF failures'[j] = MaxAttempts THEN "dropped" ELSE "open"]
    /\ UNCHANGED <<sends, interruptions>>

Interrupt(S) ==
    /\ \A j \in S : phase[j] = "open"
    /\ interruptions' =
          [j \in Jobs |-> interruptions[j] + (IF j \in S THEN 1 ELSE 0)]
    /\ UNCHANGED <<phase, sends, failures>>

GiveUp(j) ==
    /\ phase[j] = "open" /\ interruptions[j] > 1
    /\ phase' = [phase EXCEPT ![j] = "dropped"]
    /\ UNCHANGED <<sends, failures, interruptions>>

Next ==
    \/ \E j \in Jobs : Submit(j) \/ Send(j) \/ Succeed(j) \/ FailTry(j) \/ GiveUp(j)
    \/ \E S \in SUBSET Jobs : Interrupt(S)

\* Every job is settled in the end.
Settles == \A j \in Jobs : phase[j] = "open" ~> phase[j] \in {"done", "dropped"}

Safety == Init /\ [][Next]_vars
Spec == Safety /\ Settles

=============================================================================
