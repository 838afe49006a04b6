------------------------------ MODULE JobQueue ------------------------------
(***************************************************************************)
(* A BullMQ queue as queue.service.ts sets it up and shuts it down: the    *)
(* email queue and the webhook queue are two of these.  BullMQ itself is a *)
(* library; of it only what the source relies on is modelled: jobs survive *)
(* the process in Redis, an attempt that throws is tried again after a     *)
(* delay until the attempts are used up, and a job whose worker has gone   *)
(* is found stalled and runs again, once (maxStalledCount is left at 1).   *)
(* What a job does is the subject of the modules that extend this one.     *)
(***************************************************************************)
EXTENDS Integers, FiniteSets

CONSTANTS
    Jobs,          \* jobs that can be enqueued
    MaxAttempts,   \* attempts of the defaultJobOptions
    Concurrency,   \* jobs the worker runs at once
    MaxCrashes     \* bound on the times the process goes down

ASSUME QueueAssumption ==
    /\ MaxAttempts \in Nat \ {0}
    /\ Concurrency \in Nat \ {0}
    /\ MaxCrashes \in Nat
    /\ IsFiniteSet(Jobs)

VARIABLES
    state,          \* BullMQ's state of each job
    attemptsMade,   \* attempts that have failed
    stalls,         \* times the job was found stalled
    held,           \* jobs the running worker is working on
    worker,         \* up, closing (takes no more jobs), down
    crashes,        \* times the process has gone down
    sends           \* history: times each job has been carried out

queueVars == <<state, attemptsMade, stalls, held, worker, crashes>>

Settled == {"completed", "failed"}

QueueTypeOK ==
    /\ state \in [Jobs -> {"none", "waiting", "active", "delayed"} \cup Settled]
    /\ attemptsMade \in [Jobs -> 0..MaxAttempts]
    /\ stalls \in [Jobs -> 0..2]
    /\ held \in SUBSET {j \in Jobs : state[j] = "active"}
    /\ Cardinality(held) <= Concurrency
    /\ worker \in {"up", "closing", "down"}
    /\ crashes \in 0..MaxCrashes
    /\ sends \in [Jobs -> Nat]

QueueInit ==
    /\ state = [j \in Jobs |-> "none"]
    /\ attemptsMade = [j \in Jobs |-> 0]
    /\ stalls = [j \in Jobs |-> 0]
    /\ held = {}
    /\ worker = "up"
    /\ crashes = 0
    /\ sends = [j \in Jobs |-> 0]

MoveTo(j, s) == state' = [state EXCEPT ![j] = s]

\* enqueueEmail, enqueueWebhook; an error is logged and the job never is.
Add(j) ==
    /\ state[j] = "none" /\ worker # "down"
    /\ MoveTo(j, "waiting")
    /\ UNCHANGED <<attemptsMade, stalls, held, worker, crashes, sends>>

\* Mutant: the worker takes jobs without regard to its concurrency.
TakeUnlimited(j) ==
    /\ worker = "up" /\ state[j] = "waiting"
    /\ MoveTo(j, "active")
    /\ held' = held \cup {j}
    /\ UNCHANGED <<attemptsMade, stalls, worker, crashes, sends>>

Take(j) ==
    /\ worker = "up" /\ state[j] = "waiting"
    /\ Cardinality(held) < Concurrency
    /\ MoveTo(j, "active")
    /\ held' = held \cup {j}
    /\ UNCHANGED <<attemptsMade, stalls, worker, crashes, sends>>

\* The processor returns ...
Complete(j) ==
    /\ MoveTo(j, "completed")
    /\ held' = held \ {j}
    /\ UNCHANGED <<attemptsMade, stalls, worker, crashes, sends>>

\* Mutant: the attempts are counted from the first retry.
RetryOneMore(j) ==
    /\ MoveTo(j, IF attemptsMade[j] >= MaxAttempts THEN "failed" ELSE "delayed")
    /\ attemptsMade' = [attemptsMade EXCEPT ![j] = @ + 1]
    /\ held' = held \ {j}
    /\ UNCHANGED <<stalls, worker, crashes, sends>>

\* ... or throws.
Retry(j) ==
    /\ attemptsMade' = [attemptsMade EXCEPT ![j] = @ + 1]
    /\ MoveTo(j, IF attemptsMade'[j] < MaxAttempts THEN "delayed" ELSE "failed")
    /\ held' = held \ {j}
    /\ UNCHANGED <<stalls, worker, crashes, sends>>

\* The backoff has passed.
Promote(j) ==
    /\ state[j] = "delayed" /\ worker # "down"
    /\ MoveTo(j, "waiting")
    /\ UNCHANGED <<attemptsMade, stalls, held, worker, crashes, sends>>

\* An active job that no worker holds runs again, but not a second time.
Stall(j) ==
    /\ worker = "up" /\ state[j] = "active" /\ j \notin held
    /\ stalls' = [stalls EXCEPT ![j] = @ + 1]
    /\ MoveTo(j, IF stalls'[j] > 1 THEN "failed" ELSE "waiting")
    /\ UNCHANGED <<attemptsMade, held, worker, crashes, sends>>

\* closeQueues: the worker waits for the jobs it holds, then the process ends.
Close ==
    /\ worker = "up" /\ crashes < MaxCrashes
    /\ worker' = "closing"
    /\ UNCHANGED <<state, attemptsMade, stalls, held, crashes, sends>>

Exit ==
    /\ worker = "closing" /\ held = {}
    /\ worker' = "down" /\ crashes' = crashes + 1
    /\ UNCHANGED <<state, attemptsMade, stalls, held, sends>>

\* The process dies, or shutdown's ten seconds run out first.
Crash ==
    /\ worker # "down" /\ crashes < MaxCrashes
    /\ worker' = "down" /\ crashes' = crashes + 1
    /\ held' = {}
    /\ UNCHANGED <<state, attemptsMade, stalls, sends>>

\* The container is restarted, and bootstrap starts the worker.
Restart ==
    /\ worker = "down"
    /\ worker' = "up"
    /\ UNCHANGED <<state, attemptsMade, stalls, held, crashes, sends>>

-----------------------------------------------------------------------------
\* The contract, seen through the queue: what is active without a worker has
\* been interrupted, although the queue is yet to find out.
Phase ==
    [j \in Jobs |->
        CASE state[j] = "none" -> "none"
          [] state[j] = "completed" -> "done"
          [] state[j] = "failed" -> "dropped"
          [] OTHER -> "open"]

Interruptions ==
    [j \in Jobs |-> stalls[j] + (IF state[j] = "active" /\ j \notin held THEN 1 ELSE 0)]

Contract == INSTANCE JobContract
                WITH phase <- Phase, failures <- attemptsMade, interruptions <- Interruptions

=============================================================================
