------------------------------ MODULE Lifecycle ------------------------------
(***************************************************************************)
(* The life of the process.  bootstrap connects to the stores, starts the  *)
(* workers and listens.  A signal makes shutdown stop the server, wait for *)
(* its requests, and then close the queues and disconnect the stores at    *)
(* the same time; ten seconds after a signal the process ends in any case. *)
(* A second signal runs shutdown a second time beside the first, and one   *)
(* that comes while bootstrap waits finds no server to close.  The         *)
(* container starts the process again.  A worker stands for all the jobs   *)
(* it runs at once.                                                        *)
(***************************************************************************)
EXTENDS Integers, FiniteSets

CONSTANTS
    Clients,      \* requests to the server being served at the same time
    Signals       \* signals one process may get

Workers == {"email", "webhook"}
\* closeQueues closes one after the other.
After == [w \in Workers |-> IF w = "email" THEN "webhook" ELSE "end"]

VARIABLES
    phase,      \* what bootstrap waits for, if it does, or how it ended
    http,       \* the server: none, listening, closing, closed
    serving,    \* the requests it is serving
    worker,     \* each worker: none, running, closing, closed
    busy,       \* the workers with jobs in progress
    db, redis,  \* the clients of the stores: connected or not
    shut,       \* where the callback of each signal's shutdown stands
    closing,    \* the worker it is at in closeQueues, or the end
    refused,    \* history: a worker failed to close
    cut         \* history: what was under way when the process ended

stores == <<db, redis>>
workerVars == <<worker, busy>>
shutVars == <<shut, closing, refused>>
vars == <<phase, http, serving, workerVars, stores, shutVars, cut>>

TypeOK ==
    /\ phase \in {"database", "redis", "up", "exit0", "exit1"}
    /\ http \in {"none", "listening", "closing", "closed"}
    /\ serving \in SUBSET Clients
    /\ worker \in [Workers -> {"none", "running", "closing", "closed"}]
    /\ busy \in SUBSET Workers
    /\ db \in BOOLEAN /\ redis \in BOOLEAN
    /\ shut \in [Signals -> {"none", "deaf", "waiting", "closing"}]
    /\ closing \in [Signals -> Workers \cup {"end"}]
    /\ refused \in BOOLEAN
    /\ cut \in SUBSET (Clients \cup Workers)
    /\ phase \in {"database", "redis"} => http = "none" /\ busy = {}

Running == phase \in {"database", "redis", "up"}
Shutting(s) == phase = "up" /\ shut[s] = "closing"

Start ==
    /\ phase = "database" /\ http = "none" /\ serving = {}
    /\ worker = [w \in Workers |-> "none"] /\ busy = {}
    /\ db = FALSE /\ redis = FALSE
    /\ shut = [s \in Signals |-> "none"]
    /\ closing = [s \in Signals |-> "email"]
    /\ refused = FALSE

Init == Start /\ cut = {}

-----------------------------------------------------------------------------
\* process.exit: what is under way is cut off.
Exit(code) ==
    /\ phase' = code
    /\ cut' = serving \cup busy
    /\ serving' = {} /\ busy' = {} /\ http' = "none"
    /\ UNCHANGED <<worker, stores, shutVars>>

ConnectDatabase ==
    /\ phase = "database"
    /\ phase' = "redis" /\ db' = TRUE
    /\ UNCHANGED <<http, serving, workerVars, redis, shutVars, cut>>

\* Once Redis is connected, bootstrap runs to its end: each worker starts or
\* is done without, and the server listens.
ConnectRedis ==
    /\ phase = "redis"
    /\ phase' = "up" /\ redis' = TRUE
    /\ worker' \in [Workers -> {"none", "running"}]
    /\ http' = "listening"
    /\ UNCHANGED <<serving, busy, db, shutVars, cut>>

\* A connection that fails, a port that is taken, anything uncaught.
Die == Running /\ Exit("exit1")

\* The container is started again.
Restart ==
    /\ ~Running
    /\ phase' = "database"
    /\ worker' = [w \in Workers |-> "none"]
    /\ db' = FALSE /\ redis' = FALSE
    /\ shut' = [s \in Signals |-> "none"]
    /\ closing' = [s \in Signals |-> "email"]
    /\ refused' = FALSE /\ cut' = {}
    /\ UNCHANGED <<http, serving, busy>>

-----------------------------------------------------------------------------
\* Connections that are open carry requests to a closing server too.
Arrive(r) ==
    /\ http \in {"listening", "closing"} /\ r \notin serving
    /\ serving' = serving \cup {r}
    /\ UNCHANGED <<phase, http, workerVars, stores, shutVars, cut>>

Respond(r) ==
    /\ r \in serving
    /\ serving' = serving \ {r}
    /\ UNCHANGED <<phase, http, workerVars, stores, shutVars, cut>>

TakeJobs(w) ==
    /\ phase = "up" /\ worker[w] = "running" /\ w \notin busy
    /\ busy' = busy \cup {w}
    /\ UNCHANGED <<phase, http, serving, worker, stores, shutVars, cut>>

FinishJobs(w) ==
    /\ w \in busy
    /\ busy' = busy \ {w}
    /\ UNCHANGED <<phase, http, serving, worker, stores, shutVars, cut>>

-----------------------------------------------------------------------------
\* Mutant: shutdown goes on before the server is closed.
SignalAtOnce(s) ==
    /\ Running /\ shut[s] = "none"
    /\ shut' = [shut EXCEPT ![s] = IF http = "none" THEN "deaf" ELSE "closing"]
    /\ http' = IF http = "listening" THEN "closing" ELSE http
    /\ UNCHANGED <<phase, serving, workerVars, stores, closing, refused, cut>>

\* shutdown closes the server, if there is one; its callback waits for the
\* close, or follows at once when the server has closed before.
Signal(s) ==
    /\ Running /\ shut[s] = "none"
    /\ shut' = [shut EXCEPT ![s] = CASE http = "none" -> "deaf"
                                     [] http = "closed" -> "closing"
                                     [] OTHER -> "waiting"]
    /\ http' = IF http = "listening" THEN "closing" ELSE http
    /\ UNCHANGED <<phase, serving, workerVars, stores, closing, refused, cut>>

\* The last connection ends, and every callback that waits for it runs.
ServerClosed ==
    /\ http = "closing" /\ serving = {}
    /\ http' = "closed"
    /\ shut' = [s \in Signals |-> IF shut[s] = "waiting" THEN "closing" ELSE shut[s]]
    /\ UNCHANGED <<phase, serving, workerVars, stores, closing, refused, cut>>

\* closeQueues asks the next worker to close ...
CloseWorker(s) ==
    /\ Shutting(s) /\ closing[s] \in Workers
    /\ worker[closing[s]] = "running"
    /\ worker' = [worker EXCEPT ![closing[s]] = "closing"]
    /\ UNCHANGED <<phase, http, serving, busy, stores, shutVars, cut>>

\* Mutant: the jobs of the worker are not waited for.
WorkerClosedAtOnce(s) ==
    /\ Shutting(s) /\ closing[s] \in Workers
    /\ worker[closing[s]] # "running"
    /\ worker' = [worker EXCEPT ![closing[s]] = IF @ = "none" THEN @ ELSE "closed"]
    /\ closing' = [closing EXCEPT ![s] = After[@]]
    /\ UNCHANGED <<phase, http, serving, busy, stores, shut, refused, cut>>

\* ... waits for its jobs, whoever asked it first, and goes on ...
WorkerClosed(s) ==
    /\ Shutting(s) /\ closing[s] \in Workers \ busy
    /\ worker[closing[s]] # "running"
    /\ worker' = [worker EXCEPT ![closing[s]] = IF @ = "none" THEN @ ELSE "closed"]
    /\ closing' = [closing EXCEPT ![s] = After[@]]
    /\ UNCHANGED <<phase, http, serving, busy, stores, shut, refused, cut>>

\* ... and leaves the rest alone when the worker fails to close.
CloseFails(s) ==
    /\ Shutting(s) /\ closing[s] \in Workers
    /\ worker[closing[s]] = "closing"
    /\ closing' = [closing EXCEPT ![s] = "end"]
    /\ refused' = TRUE
    /\ UNCHANGED <<phase, http, serving, workerVars, stores, shut, cut>>

DisconnectDatabase(s) ==
    /\ Shutting(s) /\ db
    /\ db' = FALSE
    /\ UNCHANGED <<phase, http, serving, workerVars, redis, shutVars, cut>>

DisconnectRedis(s) ==
    /\ Shutting(s) /\ redis
    /\ redis' = FALSE
    /\ UNCHANGED <<phase, http, serving, workerVars, db, shutVars, cut>>

\* All three are done.
ExitCleanly(s) ==
    /\ Shutting(s) /\ closing[s] = "end" /\ ~db /\ ~redis
    /\ Exit("exit0")

\* Mutant: the timer is set by the callback.
ForceExitOnceClosing ==
    /\ \E s \in Signals : Shutting(s)
    /\ Exit("exit1")

\* The ten seconds since a signal are over.
ForceExit ==
    /\ Running /\ \E s \in Signals : shut[s] # "none"
    /\ Exit("exit1")

Next ==
    \/ ConnectDatabase \/ ConnectRedis \/ Die \/ Restart \/ ServerClosed \/ ForceExit
    \/ \E r \in Clients : Arrive(r) \/ Respond(r)
    \/ \E w \in Workers : TakeJobs(w) \/ FinishJobs(w)
    \/ \E s \in Signals :
          \/ Signal(s) \/ CloseWorker(s) \/ WorkerClosed(s) \/ CloseFails(s)
          \/ DisconnectDatabase(s) \/ DisconnectRedis(s) \/ ExitCleanly(s)

Spec == Init /\ [][Next]_vars

FairSpec == Spec /\ WF_vars(ForceExit)

-----------------------------------------------------------------------------
\* A process that ends with code 0 has cut off no request and no job, also
\* when a second signal runs the shutdown twice at once, unless a worker
\* failed to close.
CleanExit == phase = "exit0" /\ ~refused => cut = {}

\* Whatever the signals and wherever they find bootstrap, a request that is
\* being served has its stores connected.
StoresOutliveRequests == serving # {} => db /\ redis

\* A process that got a signal ends, though requests keep coming in or a
\* store never answers.
ShutdownEnds == (\E s \in Signals : shut[s] # "none") ~> ~Running

=============================================================================
