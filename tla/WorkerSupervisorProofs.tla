----------------------- MODULE WorkerSupervisorProofs -----------------------
(***************************************************************************)
(* What TLAPS proves about WorkerSupervisor, for every number of workers,  *)
(* overlapping checks, jobs and outages.                                   *)
(***************************************************************************)
EXTENDS WorkerSupervisor, FiniteSetTheorems, TLAPS

-----------------------------------------------------------------------------
(* Where the jobs are *)

CheckRecord ==
  [at : {"none", "waiting", "active", "decide", "close"},
   waiting : 0..MaxJobs, active : 0..MaxJobs, previous : SUBSET WorkerIds]

(* No job is in two places: what waits, what a worker holds and what a      *)
(* worker closed by force left behind was all added.                        *)
JobsAreCounted == waiting + orphans + Cardinality(Held) <= added

(* The reads of a check stay in range only because the jobs are counted.    *)
TypeInv == TypeOK /\ JobsAreCounted

(* The set of the workers that hold a job, and its size.                    *)
LEMMA HeldFacts ==
  ASSUME NEW f \in [WorkerIds -> BOOLEAN]
  PROVE  /\ IsFiniteSet({w \in WorkerIds : f[w]})
         /\ Cardinality({w \in WorkerIds : f[w]}) \in Nat
BY SupervisorAssumption, FS_Subset, FS_CardinalityType

LEMMA HeldTaken ==
  ASSUME holds \in [WorkerIds -> BOOLEAN], NEW w \in WorkerIds, ~holds[w],
         holds' = [holds EXCEPT ![w] = TRUE]
  PROVE  Cardinality(Held') = Cardinality(Held) + 1
<1>1. Held' = Held \cup {w} /\ w \notin Held
  BY DEF Held
<1>2. IsFiniteSet(Held)
  BY HeldFacts DEF Held
<1>3. QED
  BY <1>1, <1>2, FS_AddElement

LEMMA HeldGiven ==
  ASSUME holds \in [WorkerIds -> BOOLEAN], NEW w \in WorkerIds, holds[w],
         holds' = [holds EXCEPT ![w] = FALSE]
  PROVE  Cardinality(Held') = Cardinality(Held) - 1
<1>1. Held' = Held \ {w} /\ w \in Held
  BY DEF Held
<1>2. IsFiniteSet(Held)
  BY HeldFacts DEF Held
<1>3. QED
  BY <1>1, <1>2, FS_RemoveElement

LEMMA ActiveInRange ==
  ASSUME TypeInv
  PROVE  Active \in 0..MaxJobs /\ Cardinality(Held) \in Nat
<1>1. Cardinality(Held) \in Nat
  BY HeldFacts DEF TypeInv, TypeOK, Held
<1>2. QED
  BY <1>1, SupervisorAssumption DEF TypeInv, TypeOK, JobsAreCounted, Active

LEMMA InitTypeInv == Init => TypeInv
<1> SUFFICES ASSUME Init PROVE TypeInv
  OBVIOUS
<1>1. Held = {} /\ Cardinality(Held) = 0
  BY FS_EmptySet DEF Init, Held
<1>2. JobsAreCounted
  BY <1>1 DEF Init, JobsAreCounted
<1>3. check \in [Checks -> CheckRecord]
  BY SupervisorAssumption DEF Init, NoCheck, CheckRecord
<1>4. status \in [WorkerIds -> {"none", "reading", "deaf", "closing"}]
  BY DEF Init
<1>5. closed \in [done : BOOLEAN, target : SUBSET WorkerIds]
  BY DEF Init
<1>6. TypeOK
  <2>1. /\ redis = TRUE /\ closing = FALSE /\ worker \in WorkerIds /\ stalledChecks = 0
        /\ outages = 0 /\ added = 0 /\ waiting = 0 /\ orphans = 0
        /\ holds \in [WorkerIds -> BOOLEAN]
    BY DEF Init
  <2>2. redis \in BOOLEAN /\ closing \in BOOLEAN
    BY <2>1
  <2>3. /\ outages \in 0..MaxOutages /\ added \in 0..MaxJobs
        /\ waiting \in 0..MaxJobs /\ orphans \in 0..MaxJobs
        /\ stalledChecks \in 0..1
    BY <2>1, SupervisorAssumption
  <2>4. QED
    BY <1>3, <1>4, <1>5, <2>1, <2>2, <2>3 DEF TypeOK, CheckRecord
<1>7. QED
  BY <1>2, <1>6 DEF TypeInv

-----------------------------------------------------------------------------
(* The queue and its workers keep the types *)

LEMMA QueueTypeInv ==
  ASSUME TypeInv,
         \/ AddJob \/ Requeue \/ Outage \/ Restore \/ TakeJob
         \/ \E w \in WorkerIds : Finish(w)
  PROVE  TypeInv'
<1>0. holds \in [WorkerIds -> BOOLEAN] /\ Cardinality(Held) \in Nat
  BY ActiveInRange DEF TypeInv, TypeOK
<1>1. CASE AddJob
  BY <1>0, <1>1, SupervisorAssumption
     DEF AddJob, TypeInv, TypeOK, JobsAreCounted, Held, workers
<1>2. CASE Requeue
  BY <1>0, <1>2, SupervisorAssumption
     DEF Requeue, TypeInv, TypeOK, JobsAreCounted, Held, workers
<1>3. CASE Outage
  <2>1. status' \in [WorkerIds -> {"none", "reading", "deaf", "closing"}]
    BY <1>3 DEF Outage, TypeInv, TypeOK
  <2>2. /\ outages' \in 0..MaxOutages
        /\ redis' = FALSE
    <3>1. outages' = outages + 1 /\ outages < MaxOutages /\ redis' = FALSE
      BY <1>3 DEF Outage
    <3>2. QED
      BY <3>1, SupervisorAssumption DEF TypeInv, TypeOK
  <2>3. UNCHANGED <<waiting, added, orphans, worker, holds, stalledChecks, closing, check, closed>>
    BY <1>3 DEF Outage
  <2>4. JobsAreCounted'
    BY <2>3 DEF TypeInv, JobsAreCounted, Held
  <2>5. TypeOK'
    BY <2>1, <2>2, <2>3 DEF TypeInv, TypeOK
  <2>6. QED
    BY <2>4, <2>5 DEF TypeInv
<1>4. CASE Restore
  BY <1>4 DEF Restore, TypeInv, TypeOK, JobsAreCounted, Held, workers
<1>5. ASSUME NEW w \in WorkerIds, Take(w)
      PROVE  TypeInv'
  <2>1. Cardinality(Held') = Cardinality(Held) + 1
    BY <1>0, <1>5, HeldTaken DEF Take
  <2>2. JobsAreCounted'
    BY <1>0, <1>5, <2>1, SupervisorAssumption DEF Take, TypeInv, TypeOK, JobsAreCounted
  <2>3. TypeOK'
    BY <1>5, SupervisorAssumption DEF Take, TypeInv, TypeOK
  <2>4. QED
    BY <2>2, <2>3 DEF TypeInv
<1>6. ASSUME NEW w \in WorkerIds, Finish(w)
      PROVE  TypeInv'
  <2>1. Cardinality(Held') = Cardinality(Held) - 1
    BY <1>0, <1>6, HeldGiven DEF Finish
  <2>2. JobsAreCounted'
    BY <1>0, <1>6, <2>1, SupervisorAssumption DEF Finish, queue, TypeInv, TypeOK, JobsAreCounted
  <2>3. TypeOK'
    BY <1>6 DEF Finish, queue, TypeInv, TypeOK
  <2>4. QED
    BY <2>2, <2>3 DEF TypeInv
<1>7. QED
  BY <1>1, <1>2, <1>3, <1>4, <1>5, <1>6 DEF TakeJob

-----------------------------------------------------------------------------
(* So does the supervisor *)

(* A step of check k that leaves the queue and the jobs alone.              *)
LEMMA CheckTypeInv ==
  ASSUME TypeInv, NEW k \in Checks, Check(k)
  PROVE  TypeInv'
<1>0. /\ holds \in [WorkerIds -> BOOLEAN] /\ Cardinality(Held) \in Nat
      /\ Active \in 0..MaxJobs /\ check \in [Checks -> CheckRecord]
      /\ NoCheck \in CheckRecord /\ MaxJobs \in Nat
  BY ActiveInRange, SupervisorAssumption DEF TypeInv, TypeOK, CheckRecord, NoCheck
<1>1. ASSUME UNCHANGED <<queue, holds, closing, closed>>,
             worker' \in WorkerIds, stalledChecks' \in 0..1,
             status' \in [WorkerIds -> {"none", "reading", "deaf", "closing"}],
             check' \in [Checks -> CheckRecord]
      PROVE  TypeInv'
  BY <1>1 DEF TypeInv, TypeOK, JobsAreCounted, Held, queue, CheckRecord
<1>2. CASE Tick(k)
  BY <1>0, <1>1, <1>2 DEF Tick, TypeInv, TypeOK, workers, CheckRecord
<1>3. CASE ReadWaiting(k)
  BY <1>0, <1>1, <1>3 DEF ReadWaiting, TypeInv, TypeOK, workers, CheckRecord
<1>4. CASE ReadActive(k)
  BY <1>0, <1>1, <1>4 DEF ReadActive, TypeInv, TypeOK, workers, CheckRecord
<1>5. CASE CheckFails(k) \/ NotStalled(k) \/ FirstStall(k)
  BY <1>0, <1>1, <1>5 DEF CheckFails, NotStalled, FirstStall, TypeInv, TypeOK, workers
<1>6. CASE Replace(k)
  <2>1. PICK new \in WorkerIds :
          /\ worker' = new
          /\ status' = [status EXCEPT ![new] = "reading",
                                      ![worker] = IF @ = "none" THEN @ ELSE "closing"]
          /\ check' = [check EXCEPT ![k].at = "close", ![k].previous = {worker}]
    BY <1>6 DEF Replace
  <2>2. status' \in [WorkerIds -> {"none", "reading", "deaf", "closing"}]
    BY <2>1 DEF TypeInv, TypeOK
  <2>3. check' \in [Checks -> CheckRecord]
    BY <1>0, <2>1 DEF TypeInv, TypeOK, CheckRecord
  <2>4. QED
    BY <1>1, <1>6, <2>1, <2>2, <2>3 DEF Replace
<1>7. CASE PreviousClosed(k)
  <2>1. PICK w \in WorkerIds :
          /\ status' = [status EXCEPT ![w] = "none"]
          /\ holds' = [holds EXCEPT ![w] = FALSE]
          /\ orphans' = IF holds[w] THEN orphans + 1 ELSE orphans
    BY <1>0, <1>7 DEF PreviousClosed, CheckRecord
  <2>2. orphans' + Cardinality(Held') = orphans + Cardinality(Held)
    <3>1. CASE holds[w]
      <4>1. Cardinality(Held') = Cardinality(Held) - 1
        BY <1>0, <2>1, <3>1, HeldGiven
      <4>2. QED
        BY <1>0, <2>1, <3>1, <4>1 DEF TypeInv, TypeOK
    <3>2. CASE ~holds[w]
      <4>1. holds' = holds
        BY <1>0, <2>1, <3>2
      <4>2. QED
        BY <2>1, <3>2, <4>1 DEF Held
    <3>3. QED
      BY <3>1, <3>2
  <2>3. holds' \in [WorkerIds -> BOOLEAN] /\ Cardinality(Held') \in Nat
    BY <1>0, <2>1, HeldFacts DEF Held
  <2>4. orphans' \in Nat /\ waiting' = waiting /\ added' = added
    BY <1>7, <2>1 DEF PreviousClosed, TypeInv, TypeOK
  <2>5. JobsAreCounted' /\ orphans' \in 0..MaxJobs
    BY <1>0, <2>2, <2>3, <2>4 DEF TypeInv, TypeOK, JobsAreCounted
  <2>6. TypeOK'
    BY <1>0, <1>7, <2>1, <2>3, <2>5 DEF PreviousClosed, TypeInv, TypeOK, CheckRecord
  <2>7. QED
    BY <2>5, <2>6 DEF TypeInv
<1>8. QED
  BY <1>2, <1>3, <1>4, <1>5, <1>6, <1>7 DEF Check

LEMMA CloseTypeInv ==
  ASSUME TypeInv, Close \/ Closed
  PROVE  TypeInv'
<1>1. CASE Close
  BY <1>1 DEF Close, TypeInv, TypeOK, JobsAreCounted, Held, queue
<1>2. CASE Closed
  BY <1>2 DEF Closed, TypeInv, TypeOK, JobsAreCounted, Held, queue
<1>3. QED
  BY <1>1, <1>2

LEMMA NextTypeInv == TypeInv /\ [Next]_vars => TypeInv'
<1> SUFFICES ASSUME TypeInv, [Next]_vars PROVE TypeInv'
  OBVIOUS
<1>1. CASE UNCHANGED vars
  BY <1>1 DEF vars, queue, workers, TypeInv, TypeOK, JobsAreCounted, Held
<1>2. QED
  BY <1>1, QueueTypeInv, CheckTypeInv, CloseTypeInv DEF Next

(* Every variable keeps its type; the depth a check reads never exceeds the *)
(* number of jobs that were added, though workers are closed by force under *)
(* their jobs.                                                              *)
THEOREM SupervisorTypes == Spec => []TypeOK
<1>1. TypeInv => TypeOK
  BY DEF TypeInv
<1>2. QED
  BY InitTypeInv, NextTypeInv, <1>1, PTL DEF Spec

-----------------------------------------------------------------------------
(* One worker *)

LEMMA NextOneWorker ==
  ASSUME TypeInv, OneWorker, [Next]_vars
  PROVE  OneWorker'
<1> SUFFICES ASSUME NEW w \in WorkerIds, status'[w] \in {"reading", "deaf"}
             PROVE  w = worker'
  BY DEF OneWorker
<1>0. /\ status \in [WorkerIds -> {"none", "reading", "deaf", "closing"}]
      /\ worker \in WorkerIds
      /\ status[w] \in {"reading", "deaf"} => w = worker
  BY DEF TypeInv, TypeOK, OneWorker
<1>1. CASE Outage
  BY <1>0, <1>1 DEF Outage
<1>2. CASE AddJob \/ Requeue \/ Restore \/ TakeJob \/ UNCHANGED vars
  BY <1>0, <1>2 DEF AddJob, Requeue, Restore, TakeJob, Take, workers, vars
<1>3. CASE \E v \in WorkerIds : Finish(v)
  BY <1>0, <1>3 DEF Finish
<1>4. CASE Close \/ Closed
  BY <1>0, <1>4 DEF Close, Closed
<1>5. ASSUME NEW k \in Checks, Check(k)
      PROVE  w = worker'
  <2>1. CASE Replace(k)
    <3>1. PICK new \in WorkerIds :
            /\ Free(new) /\ worker' = new
            /\ status' = [status EXCEPT ![new] = "reading",
                                        ![worker] = IF @ = "none" THEN @ ELSE "closing"]
      BY <2>1 DEF Replace
    <3>2. w # worker
      BY <1>0, <3>1 DEF Free
    <3>3. QED
      BY <1>0, <3>1, <3>2
  <2>2. CASE PreviousClosed(k)
    BY <1>0, <2>2 DEF PreviousClosed
  <2>3. QED
    BY <1>0, <1>5, <2>1, <2>2
       DEF Check, Tick, ReadWaiting, ReadActive, CheckFails, NotStalled, FirstStall, workers
<1>6. QED
  BY <1>1, <1>2, <1>3, <1>4, <1>5 DEF Next

(* However many checks overlap, with close() and with each other, at most   *)
(* one worker is not being closed: the one the supervisor holds.            *)
THEOREM OneWorkerAtATime == Spec => []OneWorker
<1>1. Init => OneWorker
  BY DEF Init, OneWorker
<1>2. TypeInv /\ OneWorker /\ [Next]_vars => (TypeInv /\ OneWorker)'
  BY NextTypeInv, NextOneWorker
<1>3. QED
  BY InitTypeInv, <1>1, <1>2, PTL DEF Spec

=============================================================================
