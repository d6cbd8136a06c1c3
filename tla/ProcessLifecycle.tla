-------------------------- MODULE ProcessLifecycle --------------------------
(***************************************************************************)
(* The life of one process: server.ts (with or without the inline worker)  *)
(* or worker.ts. It boots, serves requests and chunk jobs, and on SIGTERM  *)
(* or SIGINT drains what is in flight, closes the queue and the database   *)
(* pool in that order and exits, under a timer that exits anyway. A job or *)
(* a request waits for a courier and may hang for as long as it likes.     *)
(*                                                                         *)
(*   role       "api", "inline" (the API with WORKER_INLINE) or "worker"   *)
(*   state      "booting", "up", "exited"                                  *)
(*   exit       its exit code: "0", or "error" for any other and for a kill*)
(*   announced  has "API listening" been logged?                           *)
(*   listening  does the HTTP server accept connections?                   *)
(*   conns      the connections: "none", "idle" (keep-alive), "busy", or   *)
(*              "left" by a client whose request is still being handled    *)
(*   worker     superviseWorker's current worker: "none", "taking" jobs,   *)
(*              or "closing"                                               *)
(*   late       was that worker created after close() had been called?     *)
(*   jobs       the jobs it has; orphans, those of workers it replaced     *)
(*   waits      the jobs that the close() of each signal waits for         *)
(*   steps      where the shutdown each signal started is, "none" if none  *)
(*   forced     the signals whose forced-exit timer is armed               *)
(*   queue      is the BullMQ queue open?                                  *)
(*   pool       the database pool: "open", "ending", "ended"               *)
(*                                                                         *)
(* When superviseWorker replaces its worker is the subject of              *)
(* WorkerSupervisor; worker.close() of BullMQ does not fail.               *)
(***************************************************************************)
EXTENDS Naturals

CONSTANTS
  Roles,   \* the entry points to consider
  Conns,   \* HTTP connections
  Slots,   \* names of jobs the process is running, free again afterwards
  Signals  \* the signals an orchestrator sends, SIGTERM and SIGINT

ASSUME LifecycleAssumption == Roles \subseteq {"api", "inline", "worker"}

VARIABLES role, state, exit, announced, listening, conns,
          worker, late, jobs, orphans, waits, steps, forced, queue, pool

http  == <<announced, listening, conns>>
work  == <<worker, late, jobs, orphans, waits>>
stores == <<queue, pool>>
vars  == <<role, state, exit, http, work, steps, forced, stores>>

(* The connections whose client waits for an answer, and the open ones.     *)
Busy == {c \in Conns : conns[c] = "busy"}

Connected == {c \in Conns : conns[c] \in {"idle", "busy"}}

Exit(how) == state' = "exited" /\ exit' = how

-----------------------------------------------------------------------------
(* Boot *)

(* loadConfig or createContainer throws: nothing has been started.          *)
BootFails ==
  /\ state = "booting"
  /\ Exit("error")
  /\ UNCHANGED <<role, http, work, steps, forced, stores>>

(* Mutant: the API always runs the worker.                                  *)
StartWorkerAlways == worker' = "taking"

StartWorker == worker' = IF role = "api" THEN "none" ELSE "taking"

(* Express calls the callback of listen when the port is bound and when it  *)
(* cannot be bound; the callback does not look at its argument.             *)
Boot ==
  /\ state = "booting"
  /\ state' = "up"
  /\ StartWorker
  /\ IF role = "worker"
       THEN UNCHANGED <<announced, listening>>
       ELSE announced' = TRUE /\ listening' \in BOOLEAN
  /\ UNCHANGED <<role, exit, conns, late, jobs, orphans, waits, steps, forced, stores>>

-----------------------------------------------------------------------------
(* Requests and jobs (external: clients, the queue, the couriers) *)

Accept(c) ==
  /\ state = "up" /\ listening /\ conns[c] = "none"
  /\ conns' = [conns EXCEPT ![c] = "busy"]
  /\ UNCHANGED <<role, state, exit, announced, listening, work, steps, forced, stores>>

(* A keep-alive connection carries another request.                         *)
Reuse(c) ==
  /\ state = "up" /\ conns[c] = "idle"
  /\ conns' = [conns EXCEPT ![c] = "busy"]
  /\ UNCHANGED <<role, state, exit, announced, listening, work, steps, forced, stores>>

(* The handler ends. The response is sent and the connection kept or        *)
(* closed; with the client gone it goes nowhere.                            *)
Respond(c) ==
  /\ state = "up"
  /\ \E next \in {"idle", "none"} :
       /\ conns[c] = "busy" \/ (conns[c] = "left" /\ next = "none")
       /\ conns' = [conns EXCEPT ![c] = next]
  /\ UNCHANGED <<role, state, exit, announced, listening, work, steps, forced, stores>>

(* A client disconnects; a handler that is serving it is not told.          *)
HangUp(c) ==
  /\ state = "up" /\ c \in Connected
  /\ conns' = [conns EXCEPT ![c] = IF c \in Busy THEN "left" ELSE "none"]
  /\ UNCHANGED <<role, state, exit, announced, listening, work, steps, forced, stores>>

TakeJob(j) ==
  /\ state = "up" /\ worker = "taking" /\ j \notin jobs \cup orphans
  /\ jobs' = jobs \cup {j}
  /\ UNCHANGED <<role, state, exit, http, worker, late, orphans, waits, steps, forced, stores>>

FinishJob(j) ==
  /\ state = "up" /\ j \in jobs \cup orphans
  /\ jobs' = jobs \ {j} /\ orphans' = orphans \ {j}
  /\ waits' = [s \in Signals |-> waits[s] \ {j}]
  /\ UNCHANGED <<role, state, exit, http, worker, late, steps, forced, stores>>

(* A check of superviseWorker, which may have begun before close(), puts a  *)
(* new worker in place and closes the old one by force: the jobs the old    *)
(* one took since the check counted them run on. Whether the force cuts     *)
(* short a close() that is waiting for them is left to BullMQ.              *)
Replace ==
  /\ state = "up" /\ worker # "none" /\ queue
  /\ worker' = "taking"
  /\ late' = (late \/ worker = "closing")
  /\ jobs' = {} /\ orphans' = orphans \cup jobs
  /\ waits' \in {waits, [s \in Signals |-> {}]}
  /\ UNCHANGED <<role, state, exit, http, steps, forced, stores>>

-----------------------------------------------------------------------------
(* Shutdown *)

ShuttingDown == \E s \in Signals : steps[s] # "none"

(* server.ts: the first signal counts. The timer is armed, idle connections *)
(* are closed and no new ones accepted; the inline worker goes on.          *)
SignalServer(s) ==
  /\ state = "up" /\ role # "worker" /\ ~ShuttingDown
  /\ steps' = [steps EXCEPT ![s] = "drain"]
  /\ forced' = forced \cup {s}
  /\ listening' = FALSE
  /\ conns' = [c \in Conns |-> IF conns[c] = "idle" THEN "none" ELSE conns[c]]
  /\ UNCHANGED <<role, state, exit, announced, work, stores>>

(* close() of superviseWorker closes the worker of the moment, which takes  *)
(* no more jobs, and waits for those it has.                                *)
CloseWorker(s) ==
  /\ worker' = IF worker = "taking" THEN "closing" ELSE worker
  /\ waits' = [waits EXCEPT ![s] = jobs]
  /\ UNCHANGED <<late, jobs, orphans>>

(* worker.ts: every signal starts a shutdown of its own.                    *)
SignalWorker(s) ==
  /\ state = "up" /\ role = "worker" /\ steps[s] = "none"
  /\ steps' = [steps EXCEPT ![s] = "worker"]
  /\ forced' = forced \cup {s}
  /\ CloseWorker(s)
  /\ UNCHANGED <<role, state, exit, http, stores>>

(* Mutant: the timer is cleared as soon as the HTTP server is closed.       *)
DrainedClearsTimer(s) ==
  /\ state = "up" /\ steps[s] = "drain"
  /\ Connected = {}
  /\ steps' = [steps EXCEPT ![s] = "worker"]
  /\ CloseWorker(s)
  /\ forced' = forced \ {s}
  /\ UNCHANGED <<role, state, exit, http, stores>>

(* Mutant: close() is called and its callback not waited for.               *)
DrainedAtOnce(s) ==
  /\ state = "up" /\ steps[s] = "drain"
  /\ steps' = [steps EXCEPT ![s] = "worker"]
  /\ CloseWorker(s)
  /\ UNCHANGED <<role, state, exit, http, forced, stores>>

(* The callback of httpServer.close: every connection has ended. Handlers   *)
(* whose client has left are not waited for.                                *)
Drained(s) ==
  /\ state = "up" /\ steps[s] = "drain" /\ Connected = {}
  /\ steps' = [steps EXCEPT ![s] = "worker"]
  /\ CloseWorker(s)
  /\ UNCHANGED <<role, state, exit, http, forced, stores>>

(* Mutant: the worker is told to close and its jobs are not waited for.     *)
WorkerClosedAtOnce(s) ==
  /\ state = "up" /\ steps[s] = "worker"
  /\ steps' = [steps EXCEPT ![s] = "queue"]
  /\ UNCHANGED <<role, state, exit, http, work, forced, stores>>

(* worker.close() has waited for its jobs; container.shutdown starts.       *)
WorkerClosed(s) ==
  /\ state = "up" /\ steps[s] = "worker" /\ waits[s] = {}
  /\ steps' = [steps EXCEPT ![s] = "queue"]
  /\ UNCHANGED <<role, state, exit, http, work, forced, stores>>

(* bulkQueue.close() is done, disconnect and pool.end() are called. A pool  *)
(* that is ended twice rejects the second call.                             *)
QueueClosed(s) ==
  /\ state = "up" /\ steps[s] = "queue"
  /\ queue' = FALSE
  /\ pool' = IF pool = "open" THEN "ending" ELSE pool
  /\ steps' = [steps EXCEPT ![s] = IF pool = "open" THEN "pool" ELSE "end"]
  /\ UNCHANGED <<role, state, exit, http, work, forced>>

(* pool.end() waits for clients that are in use, which ProbedProcess has.   *)
PoolEnded(s) ==
  /\ state = "up" /\ steps[s] = "pool"
  /\ pool' = "ended"
  /\ steps' = [steps EXCEPT ![s] = "end"]
  /\ UNCHANGED <<role, state, exit, http, work, forced, queue>>

(* Closing the queue or the pool throws: the error is logged, the rest is   *)
(* skipped.                                                                 *)
CloseFails(s) ==
  /\ state = "up" /\ steps[s] \in {"queue", "pool"}
  /\ steps' = [steps EXCEPT ![s] = "end"]
  /\ UNCHANGED <<role, state, exit, http, work, forced, stores>>

ExitCleanly(s) ==
  /\ state = "up" /\ steps[s] = "end"
  /\ forced' = forced \ {s}
  /\ Exit("0")
  /\ UNCHANGED <<role, http, work, steps, stores>>

ForcedExit(s) ==
  /\ state = "up" /\ s \in forced
  /\ Exit("error")
  /\ UNCHANGED <<role, http, work, steps, forced, stores>>

(* An uncaught exception that is not operational, or SIGKILL.               *)
Crash ==
  /\ state = "up"
  /\ Exit("error")
  /\ UNCHANGED <<role, http, work, steps, forced, stores>>

-----------------------------------------------------------------------------
Init ==
  /\ role \in Roles
  /\ state = "booting" /\ exit = "none"
  /\ announced = FALSE /\ listening = FALSE
  /\ conns = [c \in Conns |-> "none"]
  /\ worker = "none" /\ late = FALSE /\ jobs = {} /\ orphans = {}
  /\ waits = [s \in Signals |-> {}]
  /\ steps = [s \in Signals |-> "none"]
  /\ forced = {}
  /\ queue = TRUE /\ pool = "open"

Serve ==
  \/ \E c \in Conns : Accept(c) \/ Reuse(c) \/ Respond(c) \/ HangUp(c)
  \/ \E j \in Slots : TakeJob(j) \/ FinishJob(j)
  \/ Replace

Shutdown(s) ==
  \/ SignalServer(s) \/ SignalWorker(s)
  \/ Drained(s) \/ WorkerClosed(s) \/ QueueClosed(s) \/ PoolEnded(s) \/ CloseFails(s)
  \/ ExitCleanly(s) \/ ForcedExit(s)

Next == BootFails \/ Boot \/ Serve \/ (\E s \in Signals : Shutdown(s)) \/ Crash

Spec == Init /\ [][Next]_vars

-----------------------------------------------------------------------------
(* Properties *)

TypeOK ==
  /\ role \in Roles
  /\ state \in {"booting", "up", "exited"}
  /\ (state = "exited" /\ exit \in {"0", "error"}) \/ (state # "exited" /\ exit = "none")
  /\ announced \in BOOLEAN /\ listening \in BOOLEAN
  /\ conns \in [Conns -> {"none", "idle", "busy", "left"}]
  /\ worker \in {"none", "taking", "closing"} /\ late \in BOOLEAN
  /\ jobs \subseteq Slots /\ orphans \subseteq Slots
  /\ waits \in [Signals -> SUBSET Slots]
  /\ steps \in [Signals -> {"none", "drain", "worker", "queue", "pool", "end"}]
  /\ forced \subseteq Signals
  /\ queue \in BOOLEAN /\ pool \in {"open", "ending", "ended"}
  /\ role = "api" => worker = "none"
  /\ role = "worker" => listening = FALSE /\ announced = FALSE

(* The jobs of a worker that was in place when close() was called.          *)
Waited == IF late THEN {} ELSE jobs

(* Work that somebody waits for is not dropped unnoticed. A process that    *)
(* exits with 0 left no client without its answer and no job of the worker  *)
(* that close() found in place; and while such a client waits or such a job *)
(* runs, the queue and the database are not being closed, however the drain *)
(* of connections, the worker, its replacement and a second signal          *)
(* interleave. What else is cut off is cut off by a forced exit or a crash, *)
(* and the exit code says so. Two kinds of work are not waited for, and a   *)
(* clean exit may drop them: a handler whose client has left, for           *)
(* httpServer.close counts connections (server.ts:74), and a job of a       *)
(* worker that superviseWorker replaced, or created after close()           *)
(* (queue/index.ts:133).                                                    *)
InFlightIsKept ==
  /\ exit = "0" => Busy = {} /\ Waited = {}
  /\ Busy # {} \/ Waited # {} => queue /\ pool = "open"

(* Once a signal was heard the process ends, whether or not connections     *)
(* close, jobs end and stores answer: "The bound is what keeps a deploy     *)
(* from stalling on one bad call" (worker.ts:60; server.ts:63 alike).       *)
SignalEndsProcess == ShuttingDown ~> state = "exited"

=============================================================================
