-------------------------- MODULE WorkerSupervisor --------------------------
(***************************************************************************)
(* superviseWorker: a timer looks at the depth of the queue and replaces   *)
(* the BullMQ worker when jobs wait and none is active at two consecutive  *)
(* checks. A check is asynchronous and the timer does not wait for it, so  *)
(* checks overlap each other, the worker's own reads and close().          *)
(*                                                                         *)
(*   redis    is Redis reachable?                                          *)
(*   outages  outages so far                                               *)
(*   waiting  jobs waiting                                                 *)
(*   added    jobs added so far                                            *)
(*   orphans  active jobs whose worker was closed by force                 *)
(*   worker   the supervisor's current worker                              *)
(*   status   what each worker does: a "deaf" one believes it is reading   *)
(*            the queue, a "closing" one takes no more jobs                *)
(*   holds    does it have a job?                                          *)
(*   stalledChecks, closing   the supervisor's variables                   *)
(*   check    where each check is, and what it has read                    *)
(*   closed   has close() returned, and which worker did it close?         *)
(***************************************************************************)
EXTENDS Naturals, FiniteSets

CONSTANTS
  WorkerIds,   \* names for workers, free again once closed
  Checks,      \* checks that can be under way at a time
  MaxJobs,     \* bound on the jobs added
  MaxOutages   \* bound on the outages of Redis

ASSUME SupervisorAssumption ==
  IsFiniteSet(WorkerIds) /\ MaxJobs \in Nat /\ MaxOutages \in Nat

VARIABLES redis, outages, waiting, added, orphans, worker, status, holds,
          stalledChecks, closing, check, closed

queue   == <<redis, outages, waiting, added, orphans>>
workers == <<status, holds>>
vars == <<queue, worker, workers, stalledChecks, closing, check, closed>>

NoCheck == [at |-> "none", waiting |-> 0, active |-> 0, previous |-> {}]

Held == {w \in WorkerIds : holds[w]}

Active == Cardinality(Held) + orphans

(* A name that no worker has that is current or still being closed.         *)
Free(w) ==
  /\ w # worker /\ status[w] = "none"
  /\ \A k \in Checks : w \notin check[k].previous

-----------------------------------------------------------------------------
(* The queue and its workers (external) *)

AddJob ==
  /\ redis /\ added < MaxJobs
  /\ added' = added + 1 /\ waiting' = waiting + 1
  /\ UNCHANGED <<redis, outages, orphans, worker, workers, stalledChecks, closing, check, closed>>

Take(w) ==
  /\ redis /\ waiting > 0 /\ status[w] = "reading" /\ ~holds[w]
  /\ waiting' = waiting - 1
  /\ holds' = [holds EXCEPT ![w] = TRUE]
  /\ UNCHANGED <<redis, outages, added, orphans, worker, status, stalledChecks, closing, check, closed>>

Finish(w) ==
  /\ redis /\ holds[w]
  /\ holds' = [holds EXCEPT ![w] = FALSE]
  /\ UNCHANGED <<queue, worker, status, stalledChecks, closing, check, closed>>

(* A job of a worker closed by force is stalled: a reading worker puts it   *)
(* back.                                                                    *)
Requeue ==
  /\ redis /\ orphans > 0 /\ \E w \in WorkerIds : status[w] = "reading"
  /\ orphans' = orphans - 1 /\ waiting' = waiting + 1
  /\ UNCHANGED <<redis, outages, added, worker, workers, stalledChecks, closing, check, closed>>

(* Workers that were in a blocking read may come back deaf.                 *)
Outage ==
  /\ redis /\ outages < MaxOutages
  /\ redis' = FALSE /\ outages' = outages + 1
  /\ \E deaf \in SUBSET {w \in WorkerIds : status[w] = "reading" /\ ~holds[w]} :
       status' = [w \in WorkerIds |-> IF w \in deaf THEN "deaf" ELSE status[w]]
  /\ UNCHANGED <<waiting, added, orphans, worker, holds, stalledChecks, closing, check, closed>>

Restore ==
  /\ ~redis
  /\ redis' = TRUE
  /\ UNCHANGED <<outages, waiting, added, orphans, worker, workers, stalledChecks, closing, check, closed>>

-----------------------------------------------------------------------------
(* The supervisor *)

(* The timer fires; close() clears it.                                      *)
Tick(k) ==
  /\ ~closing /\ check[k] = NoCheck
  /\ check' = [check EXCEPT ![k].at = "waiting"]
  /\ UNCHANGED <<queue, worker, workers, stalledChecks, closing, closed>>

(* getWaitingCount, then getActiveCount.                                    *)
ReadWaiting(k) ==
  /\ redis /\ check[k].at = "waiting"
  /\ check' = [check EXCEPT ![k].at = "active", ![k].waiting = waiting]
  /\ UNCHANGED <<queue, worker, workers, stalledChecks, closing, closed>>

ReadActive(k) ==
  /\ redis /\ check[k].at = "active"
  /\ check' = [check EXCEPT ![k].at = "decide", ![k].active = Active]
  /\ UNCHANGED <<queue, worker, workers, stalledChecks, closing, closed>>

CheckFails(k) ==
  /\ ~redis /\ check[k].at \in {"waiting", "active"}
  /\ check' = [check EXCEPT ![k] = NoCheck]
  /\ UNCHANGED <<queue, worker, workers, stalledChecks, closing, closed>>

SeesStall(k) == check[k].waiting > 0 /\ check[k].active = 0

NotStalled(k) ==
  /\ check[k].at = "decide" /\ ~SeesStall(k)
  /\ stalledChecks' = 0
  /\ check' = [check EXCEPT ![k] = NoCheck]
  /\ UNCHANGED <<queue, worker, workers, closing, closed>>

(* Mutant: the count starts again at every check.                           *)
FirstStallForgotten(k) ==
  /\ check[k].at = "decide" /\ SeesStall(k) /\ stalledChecks = 0
  /\ stalledChecks' = 0
  /\ check' = [check EXCEPT ![k] = NoCheck]
  /\ UNCHANGED <<queue, worker, workers, closing, closed>>

FirstStall(k) ==
  /\ check[k].at = "decide" /\ SeesStall(k) /\ stalledChecks = 0
  /\ stalledChecks' = 1
  /\ check' = [check EXCEPT ![k] = NoCheck]
  /\ UNCHANGED <<queue, worker, workers, closing, closed>>

(* Mutant: the worker to close is read after the new one is in place.       *)
ReplaceClosesNew(k) ==
  /\ check[k].at = "decide" /\ SeesStall(k) /\ stalledChecks = 1
  /\ \E new \in {w \in WorkerIds : Free(w)} :
       /\ worker' = new
       /\ status' = [status EXCEPT ![new] = "closing"]
       /\ check' = [check EXCEPT ![k].at = "close", ![k].previous = {new}]
  /\ stalledChecks' = 0
  /\ UNCHANGED <<queue, holds, closing, closed>>

(* Mutant: the count goes on after a replacement.                           *)
ReplaceKeepsCounting(k) ==
  /\ check[k].at = "decide" /\ SeesStall(k) /\ stalledChecks >= 1
  /\ \E new \in {w \in WorkerIds : Free(w)} :
       /\ worker' = new
       /\ status' = [status EXCEPT ![new] = "reading",
                                   ![worker] = IF @ = "none" THEN @ ELSE "closing"]
       /\ check' = [check EXCEPT ![k].at = "close", ![k].previous = {worker}]
  /\ stalledChecks' = stalledChecks + 1
  /\ UNCHANGED <<queue, holds, closing, closed>>

(* The second check in a row: a new worker, and a forced close of the one   *)
(* before, which takes no job from then on. closing is not looked at again. *)
Replace(k) ==
  /\ check[k].at = "decide" /\ SeesStall(k) /\ stalledChecks = 1
  /\ \E new \in {w \in WorkerIds : Free(w)} :
       /\ worker' = new
       /\ status' = [status EXCEPT ![new] = "reading",
                                   ![worker] = IF @ = "none" THEN @ ELSE "closing"]
       /\ check' = [check EXCEPT ![k].at = "close", ![k].previous = {worker}]
  /\ stalledChecks' = 0
  /\ UNCHANGED <<queue, holds, closing, closed>>

(* previous.close(true) does not wait for a job.                            *)
PreviousClosed(k) ==
  /\ check[k].at = "close"
  /\ \E w \in check[k].previous :
       /\ status' = [status EXCEPT ![w] = "none"]
       /\ holds' = [holds EXCEPT ![w] = FALSE]
       /\ orphans' = IF holds[w] THEN orphans + 1 ELSE orphans
  /\ check' = [check EXCEPT ![k] = NoCheck]
  /\ UNCHANGED <<redis, outages, waiting, added, worker, stalledChecks, closing, closed>>

(* close: the worker of the moment is closed and its job waited for.        *)
Close ==
  /\ ~closing
  /\ closing' = TRUE
  /\ closed' = [done |-> FALSE, target |-> {worker}]
  /\ status' = [status EXCEPT ![worker] = "closing"]
  /\ UNCHANGED <<queue, worker, holds, stalledChecks, check>>

Closed ==
  /\ closing /\ ~closed.done
  /\ \A w \in closed.target : ~holds[w]
  /\ closed' = [closed EXCEPT !.done = TRUE]
  /\ status' = [w \in WorkerIds |-> IF w \in closed.target THEN "none" ELSE status[w]]
  /\ UNCHANGED <<queue, worker, holds, stalledChecks, closing, check>>

-----------------------------------------------------------------------------
Init ==
  /\ redis = TRUE /\ outages = 0 /\ waiting = 0 /\ added = 0 /\ orphans = 0
  /\ worker \in WorkerIds
  /\ status = [w \in WorkerIds |-> IF w = worker THEN "reading" ELSE "none"]
  /\ holds = [w \in WorkerIds |-> FALSE]
  /\ stalledChecks = 0 /\ closing = FALSE
  /\ check = [k \in Checks |-> NoCheck]
  /\ closed = [done |-> FALSE, target |-> {}]

TakeJob == \E w \in WorkerIds : Take(w)

Check(k) ==
  \/ Tick(k) \/ ReadWaiting(k) \/ ReadActive(k) \/ CheckFails(k)
  \/ NotStalled(k) \/ FirstStall(k) \/ Replace(k) \/ PreviousClosed(k)

Next ==
  \/ AddJob \/ Requeue \/ Outage \/ Restore \/ Close \/ Closed
  \/ TakeJob \/ \E w \in WorkerIds : Finish(w)
  \/ \E k \in Checks : Check(k)

Spec == Init /\ [][Next]_vars

(* The timer fires for ever, Redis comes back and answers, jobs end, BullMQ *)
(* requeues stalled ones, and as long as some worker reads the queue (a new *)
(* one starts with a read) a waiting job is taken.                          *)
FairSpec ==
  /\ Spec
  /\ WF_vars(Restore) /\ WF_vars(Requeue)
  /\ WF_vars(TakeJob) /\ \A w \in WorkerIds : WF_vars(Finish(w))
  /\ \A k \in Checks : WF_vars(Check(k))

-----------------------------------------------------------------------------
(* Properties *)

TypeOK ==
  /\ redis \in BOOLEAN /\ closing \in BOOLEAN
  /\ outages \in 0..MaxOutages /\ added \in 0..MaxJobs
  /\ waiting \in 0..MaxJobs /\ orphans \in 0..MaxJobs
  /\ worker \in WorkerIds
  /\ status \in [WorkerIds -> {"none", "reading", "deaf", "closing"}]
  /\ holds \in [WorkerIds -> BOOLEAN]
  /\ stalledChecks \in 0..1
  /\ check \in [Checks -> [at : {"none", "waiting", "active", "decide", "close"},
                           waiting : 0..MaxJobs, active : 0..MaxJobs,
                           previous : SUBSET WorkerIds]]
  /\ closed \in [done : BOOLEAN, target : SUBSET WorkerIds]

(* Checks that overlap leave no worker behind: at any time at most one      *)
(* worker is not being closed, the one the supervisor holds and close()     *)
(* would close.                                                             *)
OneWorker ==
  \A w \in WorkerIds : status[w] \in {"reading", "deaf"} => w = worker

(* "jobs waiting with nothing active" (libraries/queue/index.ts:97) is what *)
(* the supervisor is there to end: until it is closed, the queue does not   *)
(* stay so, deaf workers and outages notwithstanding.                       *)
ConsumptionResumes == waiting > 0 /\ Active = 0 ~> Active > 0 \/ closing

(* A supervised worker "stops consuming once closed"                        *)
(* (tests/integration/worker-supervisor.test.ts:64).                        *)
StopsConsumingOnceClosed ==
  closed.done => \A w \in WorkerIds : status[w] # "reading"

=============================================================================
