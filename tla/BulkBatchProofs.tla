--------------------------- MODULE BulkBatchProofs ---------------------------
(***************************************************************************)
(* What TLAPS proves about the items and the verdict of a batch, and that  *)
(* it keeps BatchContract. A job at its first attempt has one worker, so a *)
(* chunk that completes settled its orders whatever becomes of locks. The  *)
(* rest needs that no worker loses the lock of a job it is still working   *)
(* on (~LocksExpire): then every job has one worker at a time, the chunks  *)
(* of a batch share no order, and each step from the row to the verdict    *)
(* finds what the step before it left.                                     *)
(***************************************************************************)
EXTENDS BulkOrdersProofs

-----------------------------------------------------------------------------
(* The invariant of chunks *)

Chunk(b, k) == ToSet(jobs[b][k].orders)
Settled == {"SUCCEEDED", "FAILED", "DUPLICATE"}
Untouched == {"ABSENT", "PENDING"}

(* An order is at one place of a submission: to be reserved, to be queued   *)
(* at a courier or in a chunk; the item of one to be queued is PENDING.     *)
Queued(b) == UNION {ToSet(sub[b].queued[c]) : c \in Registry}

SubmissionOK(b) ==
  /\ \A i, j \in sub[b].todo : i # j => sub[b].entries[i].order # sub[b].entries[j].order
  /\ \A i \in sub[b].todo : sub[b].seeds[sub[b].entries[i].order] = "none"
  /\ \A c \in Registry : Distinct(sub[b].queued[c])
  /\ \A c, d \in Registry : \A o \in ToSet(sub[b].queued[c]) :
       o \in ToSet(sub[b].queued[d]) => c = d
  /\ \A o \in Queued(b) :
       sub[b].seeds[o] = "PENDING" /\ (sub[b].at = "enqueueing" => items[b][o] = "PENDING")
  /\ \A o \in Orders : sub[b].seeds[o] \in {"none", "PENDING", "DUPLICATE"}
  /\ sub[b].at \in {"none", "reserving"} =>
       jobs[b] = <<>> /\ batch[b] = "none" /\ \A o \in Orders : items[b][o] = "none"

ChunkOK(b, k) ==
  /\ Distinct(jobs[b][k].orders)
  /\ \A o \in Chunk(b, k) :
       /\ o \notin Queued(b) /\ sub[b].seeds[o] = "PENDING"
       /\ items[b][o] \in {"PENDING", "SUCCEEDED", "FAILED"}
  /\ \A l \in DOMAIN jobs[b] : \A o \in Chunk(b, k) : o \in Chunk(b, l) => l = k

(* A settled item has a row that is neither absent nor PENDING.             *)
RowsOK ==
  \A b \in Batches, o \in Orders :
    /\ items[b][o] \in Settled \/ sub[b].seeds[o] = "DUPLICATE" => rows[o].status \notin Untouched
    /\ sub[b].seeds[o] = "PENDING" => rows[o].status # "ABSENT"

(* While a chunk is worked on, its orders are split into those that still   *)
(* have to be read, called and recorded and those whose row is not PENDING. *)
Reading == {"read", "call", "row", "item"}
Read(w) == ToSet(work[w].rows) \cup DOMAIN work[w].answers

Splits(w, chunk) ==
  /\ ToSet(work[w].unread) \cup Read(w) \subseteq chunk
  /\ Distinct(work[w].unread) /\ Distinct(work[w].rows)
  /\ ToSet(work[w].unread) \cap ToSet(work[w].rows) = {}
  /\ ToSet(work[w].rows) \cap DOMAIN work[w].answers = {}
  /\ work[w].at \in {"read", "call"} => DOMAIN work[w].answers = {}

Covers(w, chunk) ==
  \A o \in chunk : \/ rows[o].status # "PENDING"
                   \/ work[w].at = "read" /\ o \in ToSet(work[w].unread)
                   \/ o \in Read(w)

SlotOK(w) ==
  LET chunk == ToSet(JobOf(w).orders) IN
    /\ work[w].at \in Reading => Splits(w, chunk) /\ Covers(w, chunk)
    /\ work[w].at = "item" =>
         /\ work[w].order \subseteq DOMAIN work[w].answers
         /\ \A o \in work[w].order : rows[o].status \notin Untouched /\ work[w].order = {o}
    /\ work[w].at \in {"count", "update", "done"} => \A o \in chunk : rows[o].status # "PENDING"

ChunkInv ==
  /\ TypeInv /\ RowsOK
  /\ \A b \in Batches : SubmissionOK(b)
  /\ \A b \in Batches : \A k \in DOMAIN jobs[b] : ChunkOK(b, k)
  /\ \A w \in Workers : SlotOK(w)

(* While locks hold, a worker that works on a job owns it, and the items of *)
(* the orders it has in hand are PENDING.                                   *)
Exclusive == \A w \in Workers : work[w].at # "idle" => Owns(w)

InHandPending(w) ==
  work[w].at \in Reading => \A o \in Read(w) : items[BatchOf(w)][o] = "PENDING"

LockedInv == ChunkInv /\ Exclusive /\ \A w \in Workers : InHandPending(w)

-----------------------------------------------------------------------------
(* What steps do to rows, jobs and items *)

LEMMA ItemStatusTypes ==
  ASSUME TypeInv, NEW b \in Batches, NEW o \in Orders
  PROVE  items[b][o] \in ItemStatus \cup {"none"} /\ sub[b].seeds[o] \in ItemStatus \cup {"none"}
<1>1. sub[b] \in Sub
  BY DEF TypeInv, SubOK
<1>2. QED
  BY <1>1 DEF TypeInv, TablesOK, Sub

(* A request inserts the row or writes its courier's answer.                *)
LEMMA HttpRows ==
  ASSUME TypeInv, Http
  PROVE  \/ rows' = rows
         \/ \E p : rows[p].status = "ABSENT" /\ InsertRow(p)
         \/ \E p \in HttpOrders : \E answer \in Answers :
              rows' = [rows EXCEPT ![p] = RowAfter(@, answer)]
<1>1. ASSUME NEW o \in Orders, NEW c \in Registry, HttpBegin(o, c)
      PROVE  rows' = rows \/ (rows[o].status = "ABSENT" /\ InsertRow(o))
  BY <1>1 DEF HttpBegin
<1>2. ASSUME NEW q \in http, HttpEnd(q)
      PROVE  /\ q.order \in HttpOrders /\ q.answer \in Answers
             /\ rows' = [rows EXCEPT ![q.order] = RowAfter(@, q.answer)]
  BY <1>2 DEF HttpEnd, TypeInv, TablesOK, Request
<1>3. ASSUME NEW q \in http, HttpCall(q) \/ HttpDies(q)
      PROVE  rows' = rows
  BY <1>3 DEF HttpCall, HttpDies, tables
<1>4. QED
  BY <1>1, <1>2, <1>3 DEF Http

(* A row that was touched stays touched, and no row disappears.             *)
LEMMA RowsForward ==
  ASSUME TypeInv, [Next]_vars, NEW o \in Orders
  PROVE  /\ rows[o].status \notin Untouched => rows'[o].status \notin Untouched
         /\ rows[o].status # "ABSENT" => rows'[o].status # "ABSENT"
<1>1. rows \in [Orders -> Row]
  BY DEF TypeInv, TablesOK
<1>2. ASSUME NEW p, rows[p].status = "ABSENT", InsertRow(p)
      PROVE  /\ rows[o].status \notin Untouched => rows'[o].status \notin Untouched
             /\ rows[o].status # "ABSENT" => rows'[o].status # "ABSENT"
  BY <1>1, <1>2 DEF InsertRow, Row, Untouched
<1>3. ASSUME NEW p \in Orders, NEW answer \in Answers,
             rows' = [rows EXCEPT ![p] = RowAfter(@, answer)]
      PROVE  /\ rows[o].status \notin Untouched => rows'[o].status \notin Untouched
             /\ rows[o].status # "ABSENT" => rows'[o].status # "ABSENT"
  BY <1>1, <1>3, RowAfterType DEF Untouched
<1>4. ASSUME NEW b \in Batches, Submission(b) \/ SubmitDies(b)
      PROVE  rows' = rows \/ \E p : rows[p].status = "ABSENT" /\ InsertRow(p)
  BY <1>4 DEF Submission, SubmitDies, Reserve, CreateBatch, Enqueue, Accepted
<1>5. ASSUME NEW w \in Workers, Pick(w) \/ Step(w) \/ WorkerDies(w) \/ LoseLock(w), ~RecordRow(w)
      PROVE  rows' = rows
  BY <1>5 DEF Pick, PickJob, Step, ReadRow, Start, CallCourier, CallFails, RecordItem, CountItems,
              UpdateBatch, Throw, CompleteJob, FailJob, WorkerDies, EndJob, LoseLock, tables
<1>6. ASSUME NEW w \in Workers, RecordRow(w)
      PROVE  \E p \in Orders : \E answer \in Answers :
               rows' = [rows EXCEPT ![p] = RowAfter(@, answer)]
  BY <1>6, AnswerType DEF RecordRow
<1>7. ASSUME Http
      PROVE  \/ rows' = rows
             \/ \E p : rows[p].status = "ABSENT" /\ InsertRow(p)
             \/ \E p \in Orders : \E answer \in Answers :
                  rows' = [rows EXCEPT ![p] = RowAfter(@, answer)]
  BY <1>7, HttpRows, BulkAssumption
<1>8. CASE UNCHANGED vars \/ Stalled
  BY <1>8 DEF vars, Stalled, StalledCheck, tables
<1>9. QED
  BY <1>2, <1>3, <1>4, <1>5, <1>6, <1>7, <1>8 DEF Next, Http

(* A worker that does not end its job keeps it.                             *)
LEMMA StepKeepsJob ==
  ASSUME TypeInv, NEW w \in Workers, Step(w), ~CompleteJob(w), ~FailJob(w)
  PROVE  /\ work[w].at # "idle" /\ work'[w].job = work[w].job
         /\ \A v \in Workers : v # w => work'[v] = work[v]
<1>1. work \in [Workers -> Task]
  BY DEF TypeInv, WorkOK
<1>2. work[w].at # "idle"
  BY DEF Step, ReadRow, Start, CallCourier, CallFails, RecordRow, RecordItem, CountItems,
         UpdateBatch, Throw
<1>3. CASE ReadRow(w) \/ Start(w) \/ CallFails(w) \/ CountItems(w) \/ UpdateBatch(w) \/ Throw(w)
  BY <1>1, <1>2, <1>3 DEF ReadRow, Start, CallFails, CountItems, UpdateBatch, Throw, Go, Task
<1>4. ASSUME NEW t, t.job = work[w].job, work' = [work EXCEPT ![w] = t]
      PROVE  work'[w].job = work[w].job /\ \A v \in Workers : v # w => work'[v] = work[v]
  BY <1>1, <1>4
<1>5. CASE CallCourier(w)
  <2>1. PICK answers :
          work' = [work EXCEPT ![w].at = "row", ![w].answers = answers,
                               ![w].rows = IF Natively(w) THEN <<>> ELSE Tail(@)]
    BY <1>5 DEF CallCourier
  <2> DEFINE t == [work[w] EXCEPT !.at = "row", !.answers = answers,
                                  !.rows = IF Natively(w) THEN <<>> ELSE Tail(@)]
  <2>2. work' = [work EXCEPT ![w] = t]
    BY <1>1, <2>1
  <2>3. t.job = work[w].job
    BY <1>1 DEF Task
  <2> HIDE DEF t
  <2>4. QED
    BY <1>2, <1>4, <2>2, <2>3
<1>6. CASE RecordRow(w)
  <2>1. PICK o \in DOMAIN work[w].answers :
          work' = [work EXCEPT ![w].order = {o},
                               ![w].at = IF work[w].answers[o] = "down" THEN "threw" ELSE "item"]
    BY <1>6 DEF RecordRow
  <2> DEFINE t == [work[w] EXCEPT !.order = {o},
                                  !.at = IF work[w].answers[o] = "down" THEN "threw" ELSE "item"]
  <2>2. work' = [work EXCEPT ![w] = t]
    BY <1>1, <2>1
  <2>3. t.job = work[w].job
    BY <1>1 DEF Task
  <2> HIDE DEF t
  <2>4. QED
    BY <1>2, <1>4, <2>2, <2>3
<1>7. CASE RecordItem(w)
  BY <1>2, <1>7, RecordItemEffect
<1>8. QED
  BY <1>3, <1>5, <1>6, <1>7 DEF Step

(* Who works on a job after a step worked on it before, or has picked it.   *)
LEMMA HoldsOn ==
  ASSUME TypeInv, [Next]_vars, NEW w \in Workers, work'[w].at # "idle"
  PROVE  \/ work[w].at # "idle" /\ work'[w].job = work[w].job
         \/ \E b \in Batches : \E k \in DOMAIN jobs[b] :
              PickJob(w, b, k) /\ work'[w].job = <<b, k>>
<1>1. work \in [Workers -> Task]
  BY DEF TypeInv, WorkOK
<1>2. ASSUME NEW v \in Workers, CompleteJob(v) \/ FailJob(v) \/ WorkerDies(v)
      PROVE  work'[w] = work[w]
  <2>1. work' = [work EXCEPT ![v] = Idle]
    BY <1>2 DEF CompleteJob, FailJob, WorkerDies, EndJob
  <2>2. QED
    BY <1>1, <2>1 DEF Idle
<1>3. ASSUME NEW v \in Workers, Step(v), ~CompleteJob(v), ~FailJob(v)
      PROVE  work[w].at # "idle" /\ work'[w].job = work[w].job
  BY <1>3, StepKeepsJob
<1>4. ASSUME NEW v \in Workers, Pick(v)
      PROVE  \/ work'[w] = work[w]
             \/ \E b \in Batches : \E k \in DOMAIN jobs[b] :
                  PickJob(w, b, k) /\ work'[w].job = <<b, k>>
  <2>1. PICK b \in Batches : \E k \in DOMAIN jobs[b] : PickJob(v, b, k)
    BY <1>4 DEF Pick, JobIds
  <2>2. PICK k \in DOMAIN jobs[b] : PickJob(v, b, k)
    BY <2>1
  <2>3. work' = [work EXCEPT ![v] = TaskFor(b, k)]
    BY <2>2, QueueJobs
  <2>4. work'[v].job = <<b, k>> /\ \A u \in Workers : u # v => work'[u] = work[u]
    BY <1>1, <2>3 DEF TaskFor, Idle
  <2>5. QED
    BY <2>2, <2>4
<1>5. \/ work' = work
      \/ \E v \in Workers : Pick(v) \/ Step(v) \/ WorkerDies(v)
  BY DEF vars, Next, Submission, SubmitDies, Reserve, CreateBatch, Enqueue, Accepted,
         Stalled, StalledCheck, HttpBegin, HttpCall, HttpEnd, HttpDies, LoseLock
<1>6. QED
  BY <1>2, <1>3, <1>4, <1>5

(* Two workers hold two jobs.                                               *)
LEMMA HoldersDiffer ==
  ASSUME Exclusive, NEW v \in Workers, NEW w \in Workers, v # w,
         work[v].at # "idle", work[w].at # "idle"
  PROVE  work[v].job # work[w].job
BY DEF Exclusive, Owns, JobOf

LEMMA NextExclusive ==
  ASSUME ~LocksExpire, TypeInv, Exclusive, [Next]_vars
  PROVE  Exclusive'
<1>1. work \in [Workers -> Task]
  BY DEF TypeInv, WorkOK
<1>2. ASSUME NEW v \in Workers, work'[v].at # "idle", work'[v].job = work[v].job,
             work[v].at # "idle", jobs' = jobs
      PROVE  Owns(v)'
  BY <1>2 DEF Exclusive, Owns, JobOf
<1>3. ASSUME jobs' = jobs, \A v \in Workers : work'[v].at # "idle" =>
                             work[v].at # "idle" /\ work'[v].job = work[v].job
      PROVE  Exclusive'
  BY <1>2, <1>3 DEF Exclusive
(* One job changes, and no busy worker but w, which is let go or gets it,   *)
(* has anything to do with it.                                              *)
<1>4. ASSUME NEW c \in Batches, NEW l \in DOMAIN jobs[c], NEW j \in Job, GoodJob(j),
             jobs' = [jobs EXCEPT ![c][l] = j],
             \A v \in Workers : work'[v].at # "idle" =>
               \/ work'[v].job = <<c, l>> /\ j.owner = {v}
               \/ work'[v] = work[v] /\ work[v].job # <<c, l>>
      PROVE  Exclusive'
  <2>1. /\ \A d \in Batches, m \in Nat : jobs'[d][m] = IF d = c /\ m = l THEN j ELSE jobs[d][m]
        /\ l \in Nat
    BY <1>4, JobStep, LenProperties DEF TypeInv, JobsOK
  <2>2. ASSUME NEW v \in Workers, work'[v].at # "idle"
        PROVE  Owns(v)'
    <3>1. CASE work'[v].job = <<c, l>> /\ j.owner = {v}
      BY <2>1, <3>1 DEF Owns, JobOf
    <3>2. CASE work'[v] = work[v] /\ work[v].job # <<c, l>>
      <4>1. PICK d \in Batches : \E m \in DOMAIN jobs[d] :
              work[v].job = <<d, m>> /\ JobOf(v) = jobs[d][m] /\ m \in Nat
        BY <2>2, <3>2, HeldJob
      <4>2. PICK m \in DOMAIN jobs[d] :
              work[v].job = <<d, m>> /\ JobOf(v) = jobs[d][m] /\ m \in Nat
        BY <4>1
      <4>3. jobs'[d][m] = jobs[d][m] /\ jobs[d][m].owner = {v}
        BY <2>1, <2>2, <3>2, <4>2 DEF Exclusive, Owns
      <4>4. QED
        BY <3>2, <4>2, <4>3 DEF Owns, JobOf
    <3>3. QED
      BY <1>4, <2>2, <3>1, <3>2
  <2>3. QED
    BY <2>2 DEF Exclusive
<1>5. CASE UNCHANGED vars
  BY <1>3, <1>5 DEF vars
<1>6. ASSUME NEW b \in Batches, Submission(b) \/ SubmitDies(b)
      PROVE  Exclusive'
  <2>1. work' = work
    BY <1>6 DEF Submission, SubmitDies, Reserve, CreateBatch, Enqueue, Accepted
  <2>2. ASSUME NEW v \in Workers, work'[v].at # "idle"
        PROVE  Owns(v)'
    <3>1. PICK d \in Batches : \E m \in DOMAIN jobs[d] :
            work[v].job = <<d, m>> /\ JobOf(v) = jobs[d][m]
      BY <2>1, <2>2, HeldJob
    <3>2. PICK m \in DOMAIN jobs[d] : work[v].job = <<d, m>> /\ JobOf(v) = jobs[d][m]
      BY <3>1
    <3>3. jobs'[d][m] = jobs[d][m]
      <4>1. CASE Enqueue(b)
        <5>1. PICK j : jobs' = [jobs EXCEPT ![b] = Append(@, j)]
          BY <4>1 DEF Enqueue
        <5>2. jobs'[d] = jobs[d] \/ jobs'[d] = Append(jobs[d], j)
          BY <5>1 DEF TypeInv, JobsOK
        <5>3. jobs[d] \in Seq(Job) /\ m \in 1..Len(jobs[d])
          BY LenProperties DEF TypeInv, JobsOK
        <5>4. QED
          BY <5>2, <5>3
      <4>2. CASE ~Enqueue(b)
        BY <1>6, <4>2 DEF Submission, SubmitDies, Reserve, CreateBatch, Accepted
      <4>3. QED
        BY <4>1, <4>2
    <3>4. QED
      BY <2>1, <2>2, <3>2, <3>3 DEF Exclusive, Owns, JobOf
  <2>3. QED
    BY <2>2 DEF Exclusive
<1>7. ASSUME NEW w \in Workers, CompleteJob(w) \/ FailJob(w) \/ WorkerDies(w)
      PROVE  Exclusive'
  <2>1. work[w].at # "idle"
    BY <1>7, EndingJob
  <2>2. PICK c \in Batches : \E l \in DOMAIN jobs[c] :
          work[w].job = <<c, l>> /\ JobOf(w) = jobs[c][l]
    BY <2>1, HeldJob
  <2>3. PICK l \in DOMAIN jobs[c] : work[w].job = <<c, l>> /\ JobOf(w) = jobs[c][l]
    BY <2>2
  <2>4. Owns(w)
    BY <2>1 DEF Exclusive
  <2>5. PICK j : EndJob(w, j) /\ (Owns(w) => j \in Job /\ GoodJob(j))
    BY <1>7, EndingJob
  <2>6. jobs' = [jobs EXCEPT ![c][l] = j] /\ work' = [work EXCEPT ![w] = Idle]
    BY <2>3, <2>4, <2>5 DEF EndJob
  <2>7. \A v \in Workers : work'[v].at # "idle" => v # w /\ work'[v] = work[v]
    BY <1>1, <2>6 DEF Idle
  <2>8. \A v \in Workers : work'[v].at # "idle" => work[v].job # <<c, l>>
    BY <2>1, <2>3, <2>7, HoldersDiffer
  <2>9. QED
    BY <1>4, <2>4, <2>5, <2>6, <2>7, <2>8
<1>8. ASSUME NEW w \in Workers, Pick(w)
      PROVE  Exclusive'
  <2>1. PICK c \in Batches : \E l \in DOMAIN jobs[c] : PickJob(w, c, l)
    BY <1>8 DEF Pick, JobIds
  <2>2. PICK l \in DOMAIN jobs[c] : PickJob(w, c, l)
    BY <2>1
  <2>3. /\ jobs' = [jobs EXCEPT ![c][l] = Picked(w, c, l)]
        /\ work' = [work EXCEPT ![w] = TaskFor(c, l)]
        /\ Picked(w, c, l) \in Job /\ GoodJob(Picked(w, c, l))
    BY <2>2, QueueJobs
  <2>4. jobs[c][l].state = "waiting" /\ GoodJob(jobs[c][l]) /\ jobs[c][l] \in Job
    BY <2>2, ElementOfSeq, LenProperties DEF PickJob, TypeInv, JobsOK
  <2>5. jobs[c][l].owner = {}
    BY <2>4 DEF GoodJob
  <2>6. Picked(w, c, l).owner = {w} /\ TaskFor(c, l).job = <<c, l>>
    BY <2>4 DEF Picked, TaskFor, Idle, Job
  <2>7. \A v \in Workers : work'[v] = IF v = w THEN TaskFor(c, l) ELSE work[v]
    BY <1>1, <2>3
  <2>8. \A v \in Workers : work[v].at # "idle" => work[v].job # <<c, l>>
    BY <2>5 DEF Exclusive, Owns, JobOf
  <2>9. \A v \in Workers : work'[v].at # "idle" =>
          \/ work'[v].job = <<c, l>> /\ Picked(w, c, l).owner = {v}
          \/ work'[v] = work[v] /\ work[v].job # <<c, l>>
    BY <2>6, <2>7, <2>8
  <2>10. QED
    BY <1>4, <2>3, <2>9
<1>9. ASSUME Stalled
      PROVE  Exclusive'
  <2>1. PICK c \in Batches : \E l \in DOMAIN jobs[c] : StalledCheck(c, l)
    BY <1>9 DEF Stalled, JobIds
  <2>2. PICK l \in DOMAIN jobs[c] : StalledCheck(c, l)
    BY <2>1
  <2>3. /\ jobs' = [jobs EXCEPT ![c][l] = PutBack(c, l)]
        /\ PutBack(c, l) \in Job /\ GoodJob(PutBack(c, l))
    BY <2>2, QueueJobs
  <2>4. work' = work /\ jobs[c][l].owner = {}
    BY <2>2 DEF StalledCheck
  <2>5. \A v \in Workers : work[v].at # "idle" => work[v].job # <<c, l>>
    BY <2>4 DEF Exclusive, Owns, JobOf
  <2>6. QED
    BY <1>4, <2>3, <2>4, <2>5
<1>10. ASSUME NEW w \in Workers, Step(w), ~CompleteJob(w), ~FailJob(w)
       PROVE  Exclusive'
  <2>1. jobs' = jobs
    BY <1>10 DEF Step, ReadRow, Start, CallCourier, CallFails, RecordRow, RecordItem, CountItems,
                 UpdateBatch, Throw
  <2>2. QED
    BY <1>3, <1>10, <2>1, StepKeepsJob
<1>11. ASSUME Http
       PROVE  Exclusive'
  <2>1. jobs' = jobs /\ work' = work
    BY <1>11 DEF Http, HttpBegin, HttpCall, HttpEnd, HttpDies
  <2>2. QED
    BY <1>3, <2>1
<1>12. ASSUME NEW w \in Workers, LoseLock(w)
       PROVE  FALSE
  BY <1>12 DEF LoseLock
<1>13. QED
  BY <1>5, <1>6, <1>7, <1>8, <1>9, <1>10, <1>11, <1>12 DEF Next, Http

(* What can happen to an item: it is created, or its outcome is recorded by *)
(* a worker whose chunk it belongs to.                                      *)
LEMMA ItemSteps ==
  ASSUME ChunkInv, [Next]_vars, NEW b \in Batches, NEW o \in Orders, items'[b][o] # items[b][o]
  PROVE  \/ CreateBatch(b) /\ items[b][o] = "none" /\ items'[b][o] = sub[b].seeds[o]
         \/ \E w \in Workers :
              /\ RecordItem(w) /\ BatchOf(w) = b /\ work[w].order = {o}
              /\ o \in DOMAIN work[w].answers
              /\ items'[b][o] \in {"SUCCEEDED", "FAILED"}
              /\ rows[o].status \notin Untouched
<1> USE DEF ChunkInv
<1>1. items \in [Batches -> [Orders -> ItemStatus \cup {"none"}]]
  BY DEF TypeInv, TablesOK
<1>2. ASSUME NEW c \in Batches, CreateBatch(c)
      PROVE  CreateBatch(b) /\ items[b][o] = "none" /\ items'[b][o] = sub[b].seeds[o]
  <2>1. c = b /\ items'[b][o] = sub[b].seeds[o] /\ sub[b].at = "reserving"
    BY <1>1, <1>2 DEF CreateBatch
  <2>2. QED
    BY <1>2, <2>1 DEF SubmissionOK
<1>3. ASSUME NEW w \in Workers, RecordItem(w)
      PROVE  /\ BatchOf(w) = b /\ work[w].order = {o}
             /\ o \in DOMAIN work[w].answers
             /\ items'[b][o] \in {"SUCCEEDED", "FAILED"}
             /\ rows[o].status \notin Untouched
  <2>1. PICK p \in work[w].order :
          LET left == Restrict(work[w].answers, DOMAIN work[w].answers \ {p}) IN
          /\ p \in Orders /\ work[w].at = "item"
          /\ \A c \in Batches, q \in Orders :
               items'[c][q] = IF c = BatchOf(w) /\ q = p THEN ItemAfter(work[w].answers[p])
                              ELSE items[c][q]
          /\ work'[w].order = {} /\ work'[w].answers = left
          /\ DOMAIN left = DOMAIN work[w].answers \ {p}
          /\ \A q \in DOMAIN left : left[q] = work[w].answers[q]
          /\ work'[w].at = IF left # <<>> THEN "row"
                           ELSE IF work[w].rows # <<>> THEN "call" ELSE "count"
          /\ work'[w].rows = work[w].rows /\ work'[w].unread = work[w].unread
          /\ work'[w].job = work[w].job /\ work'[w].verdict = work[w].verdict
          /\ work'[w].adapter = work[w].adapter
          /\ \A v \in Workers : v # w => work'[v] = work[v]
    BY <1>3, RecordItemEffect
  <2>2. p = o /\ b = BatchOf(w) /\ items'[b][o] = ItemAfter(work[w].answers[o])
    BY <2>1
  <2>3. /\ work[w].order = {o} /\ o \in DOMAIN work[w].answers
        /\ rows[o].status \notin Untouched
    BY <2>1, <2>2 DEF SlotOK
  <2>4. QED
    BY <2>2, <2>3 DEF ItemAfter
<1>4. CASE UNCHANGED items
  BY <1>4
<1>5. \/ UNCHANGED items
      \/ \E c \in Batches : CreateBatch(c)
      \/ \E w \in Workers : RecordItem(w)
  BY DEF vars, Next, Submission, SubmitDies, Reserve, Enqueue, Accepted, Pick, PickJob, Step,
         ReadRow, Start, CallCourier, CallFails, RecordRow, CountItems, UpdateBatch, Throw,
         CompleteJob, FailJob, WorkerDies, EndJob, LoseLock, Stalled, StalledCheck, tables,
         HttpBegin, HttpCall, HttpEnd, HttpDies
<1>6. QED
  BY <1>2, <1>3, <1>4, <1>5

LEMMA InitChunks == Init => ChunkInv
<1> SUFFICES ASSUME Init PROVE ChunkInv
  OBVIOUS
<1>1. TypeInv
  BY InitType
<1>2. /\ \A w \in Workers : work[w].at = "idle"
      /\ \A b \in Batches : jobs[b] = <<>> /\ batch[b] = "none"
      /\ \A b \in Batches, o \in Orders : items[b][o] = "none"
  BY DEF Init, Idle
<1>3. \A w \in Workers : SlotOK(w)
  BY <1>2 DEF SlotOK, Reading
<1>4. PICK requests \in Submissions :
        sub = [b \in Batches |->
                 [at |-> IF b \in DOMAIN requests THEN "reserving" ELSE "none",
                  entries |-> IF b \in DOMAIN requests THEN requests[b] ELSE <<>>,
                  todo |-> IF b \in DOMAIN requests THEN accepted(requests[b]) ELSE {},
                  queued |-> [c \in Registry |-> <<>>],
                  seeds |-> [o \in Orders |-> "none"]]]
  BY DEF Init
<1>5. ASSUME NEW b \in Batches
      PROVE  SubmissionOK(b)
  <2>1. /\ sub[b].queued = [c \in Registry |-> <<>>]
        /\ \A o \in Orders : sub[b].seeds[o] = "none"
    BY <1>4
  <2>2. \A i \in sub[b].todo : sub[b].entries[i].order \in Orders
    BY <1>1, AcceptedEntry DEF TypeInv, SubOK
  <2>3. ASSUME NEW i \in sub[b].todo, NEW j \in sub[b].todo, i # j
        PROVE  sub[b].entries[i].order # sub[b].entries[j].order
    <3>1. /\ b \in DOMAIN requests /\ sub[b].entries = requests[b]
          /\ sub[b].todo = accepted(requests[b])
      BY <1>4
    <3>2. i \in Nat /\ j \in Nat /\ i >= 1 /\ j >= 1
      <4>1. requests[b] \in Seq(Entry)
        BY <3>1, BulkAssumption DEF Entry
      <4>2. DOMAIN requests[b] = 1..Len(requests[b]) /\ Len(requests[b]) \in Nat
        BY <4>1, LenProperties
      <4>3. QED
        BY <3>1, <4>2 DEF accepted
    <3>3. i \in 1..(j - 1) \/ j \in 1..(i - 1)
      BY <2>3, <3>2
    <3>4. QED
      BY <3>1, <3>3 DEF accepted
  <2>4. \A c \in Registry : Distinct(sub[b].queued[c]) /\ ToSet(sub[b].queued[c]) = {}
    BY <2>1 DEF Distinct, ToSet
  <2>5. QED
    BY <1>2, <2>1, <2>2, <2>3, <2>4 DEF SubmissionOK, Queued
<1>6. RowsOK
  <2>1. \A b \in Batches, o \in Orders : sub[b].seeds[o] = "none"
    BY <1>4
  <2>2. QED
    BY <1>2, <2>1 DEF RowsOK, Settled
<1>7. QED
  BY <1>1, <1>2, <1>3, <1>5, <1>6 DEF ChunkInv

(* The steps of a submission keep what they say of its orders, its chunks   *)
(* and their rows.                                                          *)
Submitted(b) == SubmissionOK(b) /\ \A k \in DOMAIN jobs[b] : ChunkOK(b, k)

LEMMA ReserveChunks ==
  ASSUME ChunkInv, TypeInv', NEW b \in Batches, Reserve(b)
  PROVE  Submitted(b)' /\ RowsOK'
<1> USE DEF ChunkInv
<1>1. PICK i \in sub[b].todo : \E o \in Orders, c \in Registry :
        /\ i \in DOMAIN sub[b].entries /\ o = sub[b].entries[i].order
        /\ rows' = IF rows[o].status = "ABSENT" THEN [rows EXCEPT ![o].status = "PENDING"]
                   ELSE rows
        /\ \A d \in Batches : d # b => sub'[d] = sub[d]
        /\ sub'[b].at = sub[b].at /\ sub'[b].entries = sub[b].entries
        /\ sub'[b].todo = sub[b].todo \ {i}
        /\ \A d \in Registry :
             sub'[b].queued[d] = IF d = c /\ Fresh(o) THEN Append(sub[b].queued[d], o)
                                 ELSE sub[b].queued[d]
        /\ \A p \in Orders :
             sub'[b].seeds[p] = IF p # o THEN sub[b].seeds[p]
                                ELSE IF Fresh(o) THEN "PENDING" ELSE "DUPLICATE"
  BY ReserveEffect
<1>2. PICK o \in Orders, c \in Registry :
        /\ i \in DOMAIN sub[b].entries /\ o = sub[b].entries[i].order
        /\ rows' = IF rows[o].status = "ABSENT" THEN [rows EXCEPT ![o].status = "PENDING"]
                   ELSE rows
        /\ \A d \in Batches : d # b => sub'[d] = sub[d]
        /\ sub'[b].at = sub[b].at /\ sub'[b].entries = sub[b].entries
        /\ sub'[b].todo = sub[b].todo \ {i}
        /\ \A d \in Registry :
             sub'[b].queued[d] = IF d = c /\ Fresh(o) THEN Append(sub[b].queued[d], o)
                                 ELSE sub[b].queued[d]
        /\ \A p \in Orders :
             sub'[b].seeds[p] = IF p # o THEN sub[b].seeds[p]
                                ELSE IF Fresh(o) THEN "PENDING" ELSE "DUPLICATE"
  BY <1>1
<1>3. sub[b].at = "reserving" /\ jobs' = jobs /\ items' = items /\ batch' = batch
  BY DEF Reserve
<1>4. /\ SubmissionOK(b)
      /\ \A d \in Registry : /\ sub[b].queued[d] \in Seq(Orders)
                             /\ ToSet(sub[b].queued[d]) \subseteq Orders
  <2>1. \A d \in Registry : sub[b].queued[d] \in Seq(Orders)
    BY DEF TypeInv, SubOK, Sub
  <2>2. QED
    BY <2>1, ElementOfSeq, LenProperties DEF ToSet
<1>5. sub[b].seeds[o] = "none" /\ \A d \in Registry : o \notin ToSet(sub[b].queued[d])
  <2>1. sub[b].seeds[o] = "none"
    BY <1>2, <1>4 DEF SubmissionOK
  <2>2. QED
    BY <1>4, <2>1 DEF SubmissionOK, Queued
<1>6. \A d \in Registry :
        /\ Distinct(sub'[b].queued[d])
        /\ ToSet(sub'[b].queued[d]) = IF d = c /\ Fresh(o) THEN ToSet(sub[b].queued[d]) \cup {o}
                                      ELSE ToSet(sub[b].queued[d])
  <2>1. \A d \in Registry : Distinct(sub[b].queued[d])
    BY <1>4 DEF SubmissionOK
  <2>2. /\ ToSet(Append(sub[b].queued[c], o)) = ToSet(sub[b].queued[c]) \cup {o}
        /\ Distinct(Append(sub[b].queued[c], o))
    BY <1>4, <1>5, <2>1, AppendParts
  <2>3. QED
    BY <1>2, <2>1, <2>2
<1>7. \A j \in sub'[b].todo : j \in sub[b].todo /\ sub[b].entries[j].order # o
  BY <1>2, <1>4 DEF SubmissionOK
<1>8. \A j \in sub'[b].todo : sub[b].entries[j].order \in Orders
  BY <1>7, AcceptedEntry DEF TypeInv, SubOK
<1>9. SubmissionOK(b)'
  <2>1. \A j \in sub'[b].todo : sub'[b].seeds[sub'[b].entries[j].order] = "none"
    BY <1>2, <1>4, <1>7, <1>8 DEF SubmissionOK
  <2>2. \A p \in Queued(b)' : sub'[b].seeds[p] = "PENDING"
    <3>1. \A p \in Queued(b) : p \in Orders /\ sub[b].seeds[p] = "PENDING"
      BY <1>4 DEF SubmissionOK, Queued
    <3>2. \A p \in Queued(b) : sub'[b].seeds[p] = "PENDING"
      BY <1>2, <1>5, <3>1
    <3>3. Fresh(o) => sub'[b].seeds[o] = "PENDING"
      BY <1>2
    <3>4. ASSUME NEW p \in Queued(b)'
          PROVE  p \in Queued(b) \/ (p = o /\ Fresh(o))
      <4>1. PICK d \in Registry : p \in ToSet(sub'[b].queued[d])
        BY <3>4 DEF Queued
      <4>2. QED
        BY <1>6, <4>1 DEF Queued
    <3>5. QED
      BY <3>2, <3>3, <3>4
  <2>7. \A d, e \in Registry : \A p \in ToSet(sub'[b].queued[d]) :
          p \in ToSet(sub'[b].queued[e]) => d = e
    <3>1. \A d, e \in Registry : \A p \in ToSet(sub[b].queued[d]) :
            p \in ToSet(sub[b].queued[e]) => d = e
      BY <1>4 DEF SubmissionOK
    <3>2. ASSUME NEW d \in Registry, NEW p \in ToSet(sub'[b].queued[d])
          PROVE  p \in ToSet(sub[b].queued[d]) \/ (p = o /\ d = c)
      BY <1>6
    <3>3. QED
      BY <1>5, <3>1, <3>2
  <2>3. \A p \in Orders : sub'[b].seeds[p] \in {"none", "PENDING", "DUPLICATE"}
    <3>1. \A p \in Orders : sub[b].seeds[p] \in {"none", "PENDING", "DUPLICATE"}
      BY <1>4 DEF SubmissionOK
    <3>2. QED
      BY <1>2, <3>1
  <2>4. \A j, l \in sub'[b].todo : j # l =>
          sub'[b].entries[j].order # sub'[b].entries[l].order
    <3>1. \A j, l \in sub[b].todo : j # l => sub[b].entries[j].order # sub[b].entries[l].order
      BY <1>4 DEF SubmissionOK
    <3>2. sub'[b].entries = sub[b].entries
      BY <1>2
    <3>3. QED
      BY <1>7, <3>1, <3>2
  <2>5. /\ sub'[b].at = "reserving" /\ jobs'[b] = <<>> /\ batch'[b] = "none"
        /\ \A p \in Orders : items'[b][p] = "none"
    <3>1. jobs[b] = <<>> /\ batch[b] = "none" /\ \A p \in Orders : items[b][p] = "none"
      BY <1>3, <1>4 DEF SubmissionOK
    <3>2. sub'[b].at = "reserving"
      BY <1>2, <1>3
    <3>3. QED
      BY <1>3, <3>1, <3>2
  <2>6. QED
    BY <1>6, <2>1, <2>2, <2>3, <2>4, <2>5, <2>7 DEF SubmissionOK
<1>10. DOMAIN jobs'[b] = {}
  BY <1>3, <1>4 DEF SubmissionOK
<1>11. RowsOK'
  <2>1. rows \in [Orders -> Row]
    BY DEF TypeInv, TablesOK
  <2>2. /\ rows'[o].status = IF rows[o].status = "ABSENT" THEN "PENDING" ELSE rows[o].status
        /\ \A p \in Orders : p # o => rows'[p] = rows[p]
    BY <1>2, <2>1 DEF Row
  <2>3. Fresh(o) <=> rows[o].status \in Untouched
    BY DEF Fresh, Untouched
  <2>4. ASSUME NEW d \in Batches, NEW p \in Orders
        PROVE  /\ items'[d][p] \in Settled \/ sub'[d].seeds[p] = "DUPLICATE"
                    => rows'[p].status \notin Untouched
               /\ sub'[d].seeds[p] = "PENDING" => rows'[p].status # "ABSENT"
    <3>1. CASE p # o
      <4>1. sub'[d].seeds[p] = sub[d].seeds[p]
        BY <1>2, <3>1
      <4>2. QED
        BY <1>3, <2>2, <3>1, <4>1 DEF RowsOK
    <3>2. CASE p = o /\ d = b
      <4>1. items'[d][p] = "none"
        BY <1>3, <1>4, <3>2 DEF SubmissionOK
      <4>2. /\ Fresh(o) => rows'[o].status = "PENDING" /\ sub'[b].seeds[o] = "PENDING"
            /\ ~Fresh(o) => rows'[o].status \notin Untouched /\ sub'[b].seeds[o] = "DUPLICATE"
        BY <1>2, <2>2, <2>3 DEF Untouched
      <4>3. QED
        BY <3>2, <4>1, <4>2 DEF Settled, Untouched
    <3>3. CASE p = o /\ d # b
      BY <1>2, <1>3, <2>2, <3>3 DEF RowsOK, Untouched
    <3>4. QED
      BY <3>1, <3>2, <3>3
  <2>5. QED
    BY <2>4 DEF RowsOK
<1>12. QED
  BY <1>9, <1>10, <1>11 DEF Submitted

LEMMA CreateChunks ==
  ASSUME ChunkInv, TypeInv', NEW b \in Batches, CreateBatch(b)
  PROVE  Submitted(b)' /\ RowsOK'
<1> USE DEF ChunkInv
<1>1. sub[b] \in Sub /\ items \in [Batches -> [Orders -> ItemStatus \cup {"none"}]]
  BY DEF TypeInv, TablesOK, SubOK
<1>2. /\ sub[b].at = "reserving" /\ jobs' = jobs /\ rows' = rows
      /\ items'[b] = sub[b].seeds /\ \A c \in Batches : c # b => items'[c] = items[c]
      /\ sub' = [sub EXCEPT ![b].at = "enqueueing"]
  BY <1>1 DEF CreateBatch
<1>3. /\ sub'[b].at = "enqueueing" /\ sub'[b].queued = sub[b].queued
      /\ sub'[b].entries = sub[b].entries /\ sub'[b].todo = sub[b].todo
      /\ \A c \in Batches : sub'[c].seeds = sub[c].seeds
  BY <1>1, <1>2 DEF TypeInv, SubOK, Sub
<1>4. SubmissionOK(b) /\ DOMAIN jobs'[b] = {}
  BY <1>2 DEF SubmissionOK
<1>5. SubmissionOK(b)'
  <2>1. Queued(b)' = Queued(b)
    BY <1>3 DEF Queued
  <2>2. QED
    BY <1>2, <1>3, <1>4, <2>1 DEF SubmissionOK, Queued
<1>6. RowsOK'
  <2>1. \A o \in Orders : sub[b].seeds[o] \in Settled => sub[b].seeds[o] = "DUPLICATE"
    BY <1>4 DEF SubmissionOK, Settled
  <2>2. QED
    BY <1>2, <1>3, <2>1 DEF RowsOK
<1>7. QED
  BY <1>4, <1>5, <1>6 DEF Submitted

LEMMA EnqueueChunks ==
  ASSUME ChunkInv, TypeInv', NEW b \in Batches, Enqueue(b)
  PROVE  Submitted(b)' /\ RowsOK'
<1> USE DEF ChunkInv
<1>1. sub[b] \in Sub /\ jobs[b] \in Seq(Job)
  BY DEF TypeInv, SubOK, JobsOK
<1>2. PICK c \in Registry : \E n \in 1..Len(sub[b].queued[c]) :
        LET left == sub[b].queued[c]
            j == ChunkJob(c, SubSeq(left, 1, n))
        IN /\ left \in Seq(Orders) /\ left # <<>>
           /\ jobs' = [jobs EXCEPT ![b] = Append(@, j)]
           /\ \A d \in Batches : d # b => sub'[d] = sub[d]
           /\ sub'[b].at = sub[b].at /\ sub'[b].entries = sub[b].entries
           /\ sub'[b].todo = sub[b].todo /\ sub'[b].seeds = sub[b].seeds
           /\ \A d \in Registry :
                sub'[b].queued[d] = IF d = c THEN SubSeq(left, n + 1, Len(left))
                                    ELSE sub[b].queued[d]
  BY EnqueueEffect
<1> DEFINE queued == sub[b].queued[c]
<1>3. PICK n \in 1..Len(queued) :
        /\ queued \in Seq(Orders)
        /\ jobs' = [jobs EXCEPT ![b] = Append(@, ChunkJob(c, SubSeq(queued, 1, n)))]
        /\ \A d \in Batches : d # b => sub'[d] = sub[d]
        /\ sub'[b].at = sub[b].at /\ sub'[b].entries = sub[b].entries
        /\ sub'[b].todo = sub[b].todo /\ sub'[b].seeds = sub[b].seeds
        /\ \A d \in Registry :
             sub'[b].queued[d] = IF d = c THEN SubSeq(queued, n + 1, Len(queued))
                                 ELSE sub[b].queued[d]
  BY <1>2
<1> DEFINE front == SubSeq(queued, 1, n)
           rest == SubSeq(queued, n + 1, Len(queued))
           job == ChunkJob(c, front)
<1>4. SubmissionOK(b)
  OBVIOUS
<1>5. /\ front \in Seq(Orders) /\ ToSet(front) \subseteq ToSet(queued)
      /\ ToSet(rest) \subseteq ToSet(queued)
      /\ Distinct(front) /\ Distinct(rest) /\ ToSet(front) \cap ToSet(rest) = {}
  <2>1. Distinct(queued)
    BY <1>4 DEF SubmissionOK
  <2> HIDE DEF queued
  <2>2. QED
    BY <1>3, <2>1, CutParts
<1>6. /\ sub[b].at = "enqueueing" /\ rows' = rows /\ items' = items /\ batch' = batch
      /\ jobs' = [jobs EXCEPT ![b] = Append(@, job)]
      /\ \A d \in Batches : sub'[d].seeds = sub[d].seeds
  BY <1>3 DEF Enqueue
<1>7. \A d \in Registry :
         ToSet(sub'[b].queued[d]) = IF d = c THEN ToSet(rest) ELSE ToSet(sub[b].queued[d])
  BY <1>3
<1>8. Queued(b)' \subseteq Queued(b) /\ ToSet(queued) \subseteq Queued(b)
  BY <1>5, <1>7 DEF Queued
<1>9. \A o \in ToSet(front) : o \notin Queued(b)'
  <2> SUFFICES ASSUME NEW o \in ToSet(front), NEW d \in Registry, o \in ToSet(sub'[b].queued[d])
               PROVE  FALSE
    BY DEF Queued
  <2>1. CASE d = c
    BY <1>5, <1>7, <2>1
  <2>2. CASE d # c
    <3>1. o \in ToSet(sub[b].queued[d]) /\ o \in ToSet(sub[b].queued[c])
      BY <1>5, <1>7, <2>2
    <3>2. QED
      BY <1>4, <2>2, <3>1 DEF SubmissionOK
  <2>3. QED
    BY <2>1, <2>2
<1>10. SubmissionOK(b)'
  <2>1. \A d \in Registry : Distinct(sub'[b].queued[d])
    <3>1. \A d \in Registry : Distinct(sub[b].queued[d])
      BY <1>4 DEF SubmissionOK
    <3>2. QED
      BY <1>3, <1>5, <3>1
  <2>2. \A d, e \in Registry : \A o \in ToSet(sub'[b].queued[d]) :
          o \in ToSet(sub'[b].queued[e]) => d = e
    <3>1. \A d \in Registry : ToSet(sub'[b].queued[d]) \subseteq ToSet(sub[b].queued[d])
      BY <1>5, <1>7
    <3>2. QED
      BY <1>4, <3>1 DEF SubmissionOK
  <2>3. ~(sub'[b].at \in {"none", "reserving"})
    BY <1>3, <1>6
  <2>4. \A o \in Queued(b)' : sub'[b].seeds[o] = "PENDING" /\ items'[b][o] = "PENDING"
    BY <1>4, <1>6, <1>8 DEF SubmissionOK
  <2>5. /\ \A i, j \in sub[b].todo :
             i # j => sub[b].entries[i].order # sub[b].entries[j].order
        /\ \A i \in sub[b].todo : sub[b].seeds[sub[b].entries[i].order] = "none"
        /\ \A o \in Orders : sub[b].seeds[o] \in {"none", "PENDING", "DUPLICATE"}
    BY <1>4 DEF SubmissionOK
  <2>6. /\ sub'[b].todo = sub[b].todo /\ sub'[b].entries = sub[b].entries
        /\ sub'[b].seeds = sub[b].seeds
    BY <1>3
  <2>7. /\ \A i, j \in sub'[b].todo :
             i # j => sub'[b].entries[i].order # sub'[b].entries[j].order
        /\ \A i \in sub'[b].todo : sub'[b].seeds[sub'[b].entries[i].order] = "none"
        /\ \A o \in Orders : sub'[b].seeds[o] \in {"none", "PENDING", "DUPLICATE"}
    BY <2>5, <2>6
  <2>8. QED
    BY <2>1, <2>2, <2>3, <2>4, <2>7 DEF SubmissionOK
<1> HIDE DEF rest, front, queued
<1>11. /\ DOMAIN jobs'[b] = 1..Len(jobs[b]) + 1 /\ DOMAIN jobs[b] = 1..Len(jobs[b])
       /\ \A k \in DOMAIN jobs[b] : jobs'[b][k] = jobs[b][k]
       /\ jobs'[b][Len(jobs[b]) + 1].orders = front
  <2>1. jobs'[b] = Append(jobs[b], job)
    BY <1>6 DEF TypeInv, JobsOK
  <2>2. Len(jobs[b]) \in Nat /\ DOMAIN jobs[b] = 1..Len(jobs[b])
    BY <1>1, LenProperties
  <2>3. jobs'[b] \in Seq(Job)
    BY DEF TypeInv, JobsOK
  <2>4. DOMAIN jobs'[b] = 1..Len(jobs'[b]) /\ Len(jobs'[b]) = Len(jobs[b]) + 1
    BY <1>1, <2>1, <2>3, LenProperties
  <2>5. jobs'[b][Len(jobs[b]) + 1] = job
    BY <1>1, <2>1, <2>2
  <2>6. \A k \in DOMAIN jobs[b] : jobs'[b][k] = jobs[b][k]
    BY <1>1, <2>1, <2>2
  <2>7. job.orders = front
    BY DEF ChunkJob
  <2>8. QED
    BY <2>2, <2>4, <2>5, <2>6, <2>7
<1> DEFINE new == Len(jobs[b]) + 1
<1>12. /\ \A k \in DOMAIN jobs'[b] : k \in DOMAIN jobs[b] \/ k = new
       /\ new \notin DOMAIN jobs[b]
       /\ \A k \in DOMAIN jobs[b] : Chunk(b, k)' = Chunk(b, k)
       /\ \A k \in DOMAIN jobs'[b] : k = new => Chunk(b, k)' = ToSet(front)
  <2>1. Len(jobs[b]) \in Nat
    BY <1>1, LenProperties
  <2>2. /\ \A k \in DOMAIN jobs'[b] : k \in DOMAIN jobs[b] \/ k = new
        /\ new \notin DOMAIN jobs[b]
    <3>1. \A k \in 1..(Len(jobs[b]) + 1) : k \in 1..Len(jobs[b]) \/ k = Len(jobs[b]) + 1
      BY <2>1
    <3>2. QED
      BY <1>11, <2>1, <3>1
  <2>3. ASSUME NEW k \in DOMAIN jobs[b]
        PROVE  Chunk(b, k)' = Chunk(b, k)
    <3>1. jobs'[b][k].orders = jobs[b][k].orders
      BY <1>11
    <3>2. QED
      BY <3>1 DEF Chunk
  <2>4. ASSUME NEW k \in DOMAIN jobs'[b], k = new
        PROVE  Chunk(b, k)' = ToSet(front)
    <3>1. jobs'[b][k].orders = front
      BY <1>11, <2>4
    <3>2. QED
      BY <3>1 DEF Chunk
  <2>5. QED
    BY <2>2, <2>3, <2>4
<1>13. \A o \in ToSet(front) : sub[b].seeds[o] = "PENDING" /\ items[b][o] = "PENDING"
  BY <1>4, <1>5, <1>6, <1>8 DEF SubmissionOK
<1>14. \A k \in DOMAIN jobs[b] : \A o \in Chunk(b, k) : o \notin ToSet(front)
  BY <1>5, <1>8 DEF ChunkOK
<1> HIDE DEF new
<1>15. ASSUME NEW k \in DOMAIN jobs'[b], NEW l \in DOMAIN jobs'[b],
              NEW o \in Chunk(b, k)', o \in Chunk(b, l)'
       PROVE  l = k
  <2>1. CASE k \in DOMAIN jobs[b] /\ l \in DOMAIN jobs[b]
    <3>1. o \in Chunk(b, k) /\ o \in Chunk(b, l)
      BY <1>12, <1>15, <2>1
    <3>2. ChunkOK(b, k)
      BY <2>1
    <3>3. QED
      BY <2>1, <3>1, <3>2 DEF ChunkOK
  <2>2. CASE k = new /\ l \in DOMAIN jobs[b]
    <3>1. o \in ToSet(front) /\ o \in Chunk(b, l)
      BY <1>12, <1>15, <2>2
    <3>2. QED
      BY <1>14, <2>2, <3>1
  <2>3. CASE l = new /\ k \in DOMAIN jobs[b]
    <3>1. o \in ToSet(front) /\ o \in Chunk(b, k)
      BY <1>12, <1>15, <2>3
    <3>2. QED
      BY <1>14, <2>3, <3>1
  <2>4. QED
    BY <1>12, <1>15, <2>1, <2>2, <2>3
<1>16. ASSUME NEW k \in DOMAIN jobs'[b]
       PROVE  /\ Distinct(jobs'[b][k].orders)
              /\ \A o \in Chunk(b, k)' :
                   /\ o \notin Queued(b)' /\ sub'[b].seeds[o] = "PENDING"
                   /\ items'[b][o] \in {"PENDING", "SUCCEEDED", "FAILED"}
  <2>1. CASE k \in DOMAIN jobs[b]
    <3>1. ChunkOK(b, k)
      BY <2>1
    <3>2. Chunk(b, k)' = Chunk(b, k) /\ jobs'[b][k] = jobs[b][k]
      BY <1>11, <1>12, <2>1
    <3>3. \A o \in Chunk(b, k) : o \notin Queued(b)'
      BY <1>8, <3>1 DEF ChunkOK
    <3>4. QED
      BY <1>6, <3>1, <3>2, <3>3 DEF ChunkOK
  <2>2. CASE k = new
    <3>1. jobs'[b][k].orders = front
      BY <1>11, <2>2 DEF new
    <3>2. Chunk(b, k)' = ToSet(front)
      BY <1>12, <2>2
    <3>3. sub'[b].seeds = sub[b].seeds /\ items' = items /\ Distinct(front)
      BY <1>5, <1>6
    <3>4. QED
      BY <1>13, <1>9, <3>1, <3>2, <3>3
  <2>3. QED
    BY <1>12, <2>1, <2>2
<1>17. \A k \in DOMAIN jobs'[b] : ChunkOK(b, k)'
  BY <1>15, <1>16 DEF ChunkOK
<1>18. RowsOK'
  BY <1>6 DEF RowsOK
<1>19. QED
  BY <1>10, <1>17, <1>18 DEF Submitted

(* What a step of anybody else leaves of submission b.                      *)
LEMMA OthersAndSubmission ==
  ASSUME ChunkInv, [Next]_vars, NEW b \in Batches,
         ~Reserve(b), ~CreateBatch(b), ~Enqueue(b)
  PROVE  /\ ~Accepted(b) /\ ~SubmitDies(b) => sub'[b] = sub[b]
         /\ batch'[b] # batch[b] => \E w \in Workers : UpdateBatch(w) /\ BatchOf(w) = b
<1>1. sub \in [Batches -> Sub] /\ batch \in [Batches -> BatchStatus \cup {"none"}]
  BY DEF ChunkInv, TypeInv, TablesOK, SubOK
<1>2. ASSUME NEW c \in Batches, Submission(c) \/ SubmitDies(c)
      PROVE  /\ c # b => sub'[b] = sub[b]
             /\ batch'[b] = batch[b]
             /\ c = b => Accepted(b) \/ SubmitDies(b)
  <2>1. c # b => sub'[b] = sub[b]
    BY <1>1, <1>2 DEF Submission, SubmitDies, Reserve, CreateBatch, Enqueue, Accepted
  <2>2. batch'[b] = batch[b]
    BY <1>1, <1>2 DEF Submission, SubmitDies, Reserve, CreateBatch, Enqueue, Accepted
  <2>3. QED
    BY <1>2, <2>1, <2>2 DEF Submission
<1>3. ASSUME NEW w \in Workers, UpdateBatch(w)
      PROVE  sub' = sub /\ (batch'[b] # batch[b] => BatchOf(w) = b)
  BY <1>1, <1>3 DEF UpdateBatch
<1>4. \/ sub' = sub /\ batch' = batch
      \/ \E c \in Batches : Submission(c) \/ SubmitDies(c)
      \/ \E w \in Workers : UpdateBatch(w)
  BY DEF vars, Next, Pick, PickJob, Step, ReadRow, Start, CallCourier, CallFails, RecordRow,
         RecordItem, CountItems, Throw, CompleteJob, FailJob, WorkerDies, EndJob, LoseLock,
         Stalled, StalledCheck, tables, HttpBegin, HttpCall, HttpEnd, HttpDies
<1>5. QED
  BY <1>2, <1>3, <1>4

(* The orders a worker has in hand are of its chunk.                        *)
LEMMA HeldOrders ==
  ASSUME ChunkInv, NEW w \in Workers, work[w].at \in Reading
  PROVE  \E b \in Batches : \E k \in DOMAIN jobs[b] :
           /\ work[w].job = <<b, k>> /\ BatchOf(w) = b /\ JobOf(w) = jobs[b][k]
           /\ ToSet(work[w].unread) \cup Read(w) \subseteq Chunk(b, k)
<1>1. work[w].at # "idle"
  BY DEF Reading
<1>2. PICK b \in Batches : \E k \in DOMAIN jobs[b] :
        work[w].job = <<b, k>> /\ BatchOf(w) = b /\ JobOf(w) = jobs[b][k]
  BY <1>1, HeldJob DEF ChunkInv
<1>3. PICK k \in DOMAIN jobs[b] :
        work[w].job = <<b, k>> /\ BatchOf(w) = b /\ JobOf(w) = jobs[b][k]
  BY <1>2
<1>4. ToSet(work[w].unread) \cup Read(w) \subseteq ToSet(JobOf(w).orders)
  BY DEF ChunkInv, SlotOK, Splits
<1>5. QED
  BY <1>3, <1>4 DEF Chunk

(* An outcome is recorded on an item of a chunk of the batch.               *)
LEMMA RecordedInChunk ==
  ASSUME ChunkInv, NEW w \in Workers, RecordItem(w), NEW o \in DOMAIN work[w].answers
  PROVE  \E k \in DOMAIN jobs[BatchOf(w)] : o \in Chunk(BatchOf(w), k)
BY HeldOrders DEF RecordItem, Reading, Read

LEMMA NextSubmitted ==
  ASSUME ChunkInv, TypeInv', [Next]_vars, NEW b \in Batches
  PROVE  Submitted(b)'
<1>1. /\ sub \in [Batches -> Sub] /\ sub[b] \in Sub
      /\ jobs[b] \in Seq(Job) /\ jobs'[b] \in Seq(Job)
      /\ items \in [Batches -> [Orders -> ItemStatus \cup {"none"}]]
      /\ Queued(b) \subseteq Orders
      /\ \A k \in DOMAIN jobs[b] : Chunk(b, k) \subseteq Orders
  <2>1. /\ sub \in [Batches -> Sub] /\ sub[b] \in Sub
        /\ jobs[b] \in Seq(Job) /\ jobs'[b] \in Seq(Job)
        /\ items \in [Batches -> [Orders -> ItemStatus \cup {"none"}]]
    BY DEF ChunkInv, TypeInv, TablesOK, SubOK, JobsOK
  <2>2. \A s \in Seq(Orders) : ToSet(s) \subseteq Orders
    BY ElementOfSeq, LenProperties DEF ToSet
  <2>3. \A k \in DOMAIN jobs[b] : jobs[b][k] \in Job
    BY <2>1, ElementOfSeq, LenProperties
  <2>4. QED
    BY <2>1, <2>2, <2>3 DEF Sub, Job, Chunk, Queued
<1>2. CASE Reserve(b) \/ CreateBatch(b) \/ Enqueue(b)
  BY <1>2, ReserveChunks, CreateChunks, EnqueueChunks
<1>3. CASE ~Reserve(b) /\ ~CreateBatch(b) /\ ~Enqueue(b)
  <2>1. SubmissionOK(b) /\ \A k \in DOMAIN jobs[b] : ChunkOK(b, k)
    BY DEF ChunkInv
  <2>2. /\ sub'[b].entries = sub[b].entries /\ sub'[b].todo = sub[b].todo
        /\ sub'[b].queued = sub[b].queued /\ Queued(b)' = Queued(b)
        /\ sub'[b].seeds = sub[b].seeds
        /\ sub'[b].at = sub[b].at \/ sub'[b].at \in {"answered", "died"}
    <3>1. CASE Accepted(b) \/ SubmitDies(b)
      <4>1. PICK at \in {"answered", "died"} : sub' = [sub EXCEPT ![b].at = at]
        BY <3>1 DEF Accepted, SubmitDies
      <4>2. QED
        BY <1>1, <4>1 DEF Sub, Queued
    <3>2. CASE ~Accepted(b) /\ ~SubmitDies(b)
      BY <1>3, <3>2, OthersAndSubmission DEF Queued
    <3>3. QED
      BY <3>1, <3>2
  <2>3. ASSUME NEW o \in Orders, items'[b][o] # items[b][o]
        PROVE  /\ \E k \in DOMAIN jobs[b] : o \in Chunk(b, k)
               /\ items'[b][o] \in {"SUCCEEDED", "FAILED"}
    BY <1>3, <2>3, ItemSteps, RecordedInChunk
  <2>4. /\ DOMAIN jobs'[b] = DOMAIN jobs[b]
        /\ \A k \in DOMAIN jobs[b] : jobs'[b][k].orders = jobs[b][k].orders
    BY <1>3, JobsForward DEF ChunkInv
  <2>5. ASSUME jobs[b] = <<>>
        PROVE  jobs'[b] = <<>> /\ batch'[b] = batch[b]
    <3>1. Len(jobs'[b]) = 0
      <4>1. DOMAIN jobs'[b] = {}
        BY <2>4, <2>5
      <4>2. DOMAIN jobs'[b] = 1..Len(jobs'[b]) /\ Len(jobs'[b]) \in Nat
        BY <1>1, LenProperties
      <4>3. QED
        BY <4>1, <4>2
    <3>2. ASSUME NEW w \in Workers, UpdateBatch(w), BatchOf(w) = b
          PROVE  FALSE
      <4>1. work[w].at # "idle"
        BY <3>2 DEF UpdateBatch
      <4>2. \E k \in DOMAIN jobs[b] : TRUE
        BY <3>2, <4>1, HeldJob DEF ChunkInv
      <4>3. QED
        BY <2>5, <4>2
    <3>3. QED
      BY <1>1, <1>3, <3>1, <3>2, EmptySeq, OthersAndSubmission
  <2>6. SubmissionOK(b)'
    <3>1. ASSUME sub'[b].at \in {"none", "reserving"}
          PROVE  /\ jobs'[b] = <<>> /\ batch'[b] = "none"
                 /\ \A o \in Orders : items'[b][o] = "none"
      BY <2>1, <2>2, <2>3, <2>5, <3>1 DEF SubmissionOK
    <3>2. ASSUME NEW o \in Queued(b), sub'[b].at = "enqueueing"
          PROVE  items'[b][o] = "PENDING"
      BY <1>1, <2>1, <2>2, <2>3, <3>2 DEF SubmissionOK, ChunkOK
    <3>3. QED
      BY <2>1, <2>2, <3>1, <3>2 DEF SubmissionOK
  <2>7. ASSUME NEW k \in DOMAIN jobs'[b]
        PROVE  ChunkOK(b, k)'
    <3>1. \A l \in DOMAIN jobs[b] : Chunk(b, l)' = Chunk(b, l)
      BY <2>4 DEF Chunk
    <3>2. \A o \in Chunk(b, k) : items'[b][o] \in {"PENDING", "SUCCEEDED", "FAILED"}
      BY <1>1, <2>1, <2>3, <2>4 DEF ChunkOK
    <3>3. QED
      BY <2>1, <2>2, <2>4, <3>1, <3>2 DEF ChunkOK
  <2>8. QED
    BY <2>6, <2>7 DEF Submitted
<1>4. QED
  BY <1>2, <1>3

LEMMA NextRows ==
  ASSUME ChunkInv, TypeInv', [Next]_vars
  PROVE  RowsOK'
<1>1. CASE \E b \in Batches : Reserve(b) \/ CreateBatch(b) \/ Enqueue(b)
  BY <1>1, ReserveChunks, CreateChunks, EnqueueChunks
<1>2. CASE ~\E b \in Batches : Reserve(b) \/ CreateBatch(b) \/ Enqueue(b)
  <2> SUFFICES ASSUME NEW b \in Batches, NEW o \in Orders
               PROVE  /\ items'[b][o] \in Settled \/ sub'[b].seeds[o] = "DUPLICATE"
                           => rows'[o].status \notin Untouched
                      /\ sub'[b].seeds[o] = "PENDING" => rows'[o].status # "ABSENT"
    BY DEF RowsOK
  <2>1. sub'[b].seeds = sub[b].seeds
    <3>1. sub \in [Batches -> Sub]
      BY DEF ChunkInv, TypeInv, SubOK
    <3>2. CASE Accepted(b) \/ SubmitDies(b)
      <4>1. PICK at : sub' = [sub EXCEPT ![b].at = at]
        BY <3>2 DEF Accepted, SubmitDies
      <4>2. QED
        BY <3>1, <4>1 DEF Sub
    <3>3. CASE ~Accepted(b) /\ ~SubmitDies(b)
      BY <1>2, <3>3, OthersAndSubmission
    <3>4. QED
      BY <3>2, <3>3
  <2>2. items'[b][o] = items[b][o] \/ rows[o].status \notin Untouched
    BY <1>2, ItemSteps
  <2>3. QED
    BY <2>1, <2>2, RowsForward DEF ChunkInv, RowsOK
<1>3. QED
  BY <1>1, <1>2

(* The chunk a worker holds stays as it is; its rows only go forward.       *)
LEMMA HeldChunk ==
  ASSUME ChunkInv, [Next]_vars, NEW w \in Workers, work[w].at # "idle",
         work'[w].job = work[w].job
  PROVE  /\ BatchOf(w) \in Batches /\ BatchOf(w)' = BatchOf(w)
         /\ ToSet(JobOf(w).orders) \subseteq Orders
         /\ ToSet(JobOf(w).orders)' = ToSet(JobOf(w).orders)
         /\ \A o \in ToSet(JobOf(w).orders) :
              /\ rows[o].status # "ABSENT"
              /\ rows[o].status # "PENDING" => rows'[o].status # "PENDING"
              /\ rows[o].status = "PENDING" => items[BatchOf(w)][o] = "PENDING"
<1>1. PICK b \in Batches : \E k \in DOMAIN jobs[b] :
        /\ work[w].job = <<b, k>> /\ BatchOf(w) = b /\ JobOf(w) = jobs[b][k]
        /\ jobs[b][k] \in Job
  BY HeldJob DEF ChunkInv
<1>2. PICK k \in DOMAIN jobs[b] :
        /\ work[w].job = <<b, k>> /\ BatchOf(w) = b /\ JobOf(w) = jobs[b][k]
        /\ jobs[b][k] \in Job
  BY <1>1
<1>3. BatchOf(w)' = b /\ JobOf(w)' = jobs'[b][k]
  BY <1>2 DEF BatchOf, JobOf
<1>4. jobs'[b][k].orders = jobs[b][k].orders
  BY JobsForward DEF ChunkInv
<1>5. Chunk(b, k) \subseteq Orders
  BY <1>2, ElementOfSeq, LenProperties DEF Chunk, ToSet, Job
<1>6. ASSUME NEW o \in Chunk(b, k)
      PROVE  /\ rows[o].status # "ABSENT"
             /\ rows[o].status # "PENDING" => rows'[o].status # "PENDING"
             /\ rows[o].status = "PENDING" => items[b][o] = "PENDING"
  <2>1. sub[b].seeds[o] = "PENDING" /\ items[b][o] \in {"PENDING", "SUCCEEDED", "FAILED"}
    BY DEF ChunkInv, ChunkOK
  <2>2. rows[o].status # "ABSENT"
    BY <1>5, <2>1 DEF ChunkInv, RowsOK
  <2>3. rows[o].status = "PENDING" => items[b][o] = "PENDING"
    BY <1>5, <2>1 DEF ChunkInv, RowsOK, Settled, Untouched
  <2>4. rows[o].status # "PENDING" => rows'[o].status # "PENDING"
    BY <1>5, <2>2, RowsForward DEF ChunkInv, Untouched
  <2>5. QED
    BY <2>2, <2>3, <2>4
<1>7. QED
  BY <1>2, <1>3, <1>4, <1>5, <1>6 DEF Chunk

SlotKept(w) == SlotOK(w)' /\ (InHandPending(w) => InHandPending(w)')

LEMMA IdleSlot ==
  ASSUME NEW w \in Workers, work'[w].at \in {"idle", "threw"}
  PROVE  SlotKept(w)
BY DEF SlotKept, SlotOK, InHandPending, Reading

LEMMA QuietSlot ==
  ASSUME ChunkInv, [Next]_vars, NEW w \in Workers, work'[w] = work[w]
  PROVE  SlotOK(w)'
<1>1. CASE work[w].at = "idle"
  BY <1>1, IdleSlot DEF SlotKept
<1>2. CASE work[w].at # "idle"
  <2> DEFINE chunk == ToSet(JobOf(w).orders)
  <2>1. /\ BatchOf(w)' = BatchOf(w) /\ chunk \subseteq Orders /\ chunk' = chunk
        /\ \A o \in chunk : rows[o].status # "PENDING" => rows'[o].status # "PENDING"
    BY <1>2, HeldChunk
  <2> HIDE DEF chunk
  <2>3. SlotOK(w) /\ Read(w)' = Read(w)
    BY DEF ChunkInv, Read
  <2>4. ASSUME work[w].at \in Reading
        PROVE  Splits(w, chunk)' /\ Covers(w, chunk)'
    <3>1. Splits(w, chunk)'
      BY <2>1, <2>3, <2>4 DEF SlotOK, Splits, chunk
    <3>2. Covers(w, chunk)'
      BY <2>1, <2>3, <2>4 DEF SlotOK, Covers, chunk
    <3>3. QED
      BY <3>1, <3>2
  <2>5. ASSUME work[w].at = "item"
        PROVE  \A o \in work[w].order : rows'[o].status \notin Untouched
    <3>1. work[w].order \subseteq Orders
      BY DEF ChunkInv, TypeInv, WorkOK, Task
    <3>2. QED
      BY <2>3, <2>5, <3>1, RowsForward DEF ChunkInv, SlotOK
  <2>6. ASSUME work[w].at \in {"count", "update", "done"}
        PROVE  \A o \in chunk : rows'[o].status # "PENDING"
    BY <2>1, <2>3, <2>6 DEF SlotOK, chunk
  <2>7. QED
    BY <2>1, <2>3, <2>4, <2>5, <2>6 DEF SlotOK, chunk
<1>3. QED
  BY <1>1, <1>2

(* Nobody else records the outcome of an order a worker has in hand.        *)
LEMMA ItemsInHand ==
  ASSUME LockedInv, [Next]_vars, NEW w \in Workers, work[w].at \in Reading, ~RecordItem(w),
         NEW o \in Read(w)
  PROVE  items'[BatchOf(w)][o] = "PENDING"
<1>1. items[BatchOf(w)][o] = "PENDING"
  BY DEF LockedInv, InHandPending
<1>2. PICK b \in Batches : \E k \in DOMAIN jobs[b] :
        /\ work[w].job = <<b, k>> /\ BatchOf(w) = b /\ JobOf(w) = jobs[b][k]
        /\ ToSet(work[w].unread) \cup Read(w) \subseteq Chunk(b, k)
  BY HeldOrders DEF LockedInv
<1>3. PICK k \in DOMAIN jobs[b] :
        /\ work[w].job = <<b, k>> /\ BatchOf(w) = b /\ JobOf(w) = jobs[b][k]
        /\ ToSet(work[w].unread) \cup Read(w) \subseteq Chunk(b, k)
  BY <1>2
<1>4. o \in Chunk(b, k) /\ o \in Orders
  <2>1. jobs[b][k] \in Job
    BY ElementOfSeq, LenProperties DEF LockedInv, ChunkInv, TypeInv, JobsOK
  <2>2. Chunk(b, k) \subseteq Orders
    BY <2>1, ElementOfSeq, LenProperties DEF Chunk, ToSet, Job
  <2>3. QED
    BY <1>3, <2>2
<1>5. ASSUME items'[b][o] # items[b][o]
      PROVE  FALSE
  <2>1. PICK v \in Workers :
          RecordItem(v) /\ BatchOf(v) = b /\ o \in DOMAIN work[v].answers
    <3>1. items[b][o] # "none" /\ b \in Batches /\ o \in Orders
      BY <1>1, <1>3, <1>4
    <3>2. \/ CreateBatch(b) /\ items[b][o] = "none" /\ items'[b][o] = sub[b].seeds[o]
          \/ \E v \in Workers :
               /\ RecordItem(v) /\ BatchOf(v) = b /\ work[v].order = {o}
               /\ o \in DOMAIN work[v].answers
               /\ items'[b][o] \in {"SUCCEEDED", "FAILED"}
               /\ rows[o].status \notin Untouched
      BY <1>5, <3>1, ItemSteps DEF LockedInv
    <3>3. QED
      BY <3>1, <3>2
  <2>2. v # w /\ work[v].at \in Reading /\ o \in Read(v)
    <3>1. v # w
      BY <2>1
    <3>2. work[v].at = "item"
      BY <2>1 DEF RecordItem
    <3>3. QED
      BY <2>1, <3>1, <3>2 DEF Reading, Read
  <2>3. PICK l \in DOMAIN jobs[b] : work[v].job = <<b, l>> /\ o \in Chunk(b, l)
    BY <2>1, <2>2, HeldOrders DEF LockedInv
  <2>4. l = k
    BY <1>4, <2>3 DEF LockedInv, ChunkInv, ChunkOK
  <2>5. work[v].at # "idle" /\ work[w].at # "idle"
    BY <2>2 DEF Reading
  <2>6. QED
    BY <1>3, <2>2, <2>3, <2>4, <2>5, HoldersDiffer DEF LockedInv
<1>6. QED
  BY <1>1, <1>3, <1>5

(* A worker that does nothing finds what it has in hand as it was.          *)
LEMMA QuietHand ==
  ASSUME LockedInv, [Next]_vars, NEW w \in Workers, work'[w] = work[w]
  PROVE  InHandPending(w)'
<1> SUFFICES ASSUME work[w].at \in Reading, NEW o \in Read(w)
             PROVE  items'[BatchOf(w)][o] = "PENDING"
  BY DEF InHandPending, Read, BatchOf
<1>1. ~RecordItem(w)
  <2>1. ASSUME RecordItem(w) PROVE FALSE
    <3>1. work[w].at = "item" /\ work'[w].at # "item"
      BY <2>1, RecordItemEffect DEF LockedInv, ChunkInv
    <3>2. QED
      BY <3>1
  <2>2. QED
    BY <2>1
<1>2. QED
  BY <1>1, ItemsInHand

(* The steps of a worker, each from what the step before it left.           *)

LEMMA PickSlot ==
  ASSUME ChunkInv, TypeInv', [Next]_vars, NEW w \in Workers, Pick(w)
  PROVE  SlotKept(w)
<1>1. PICK b \in Batches : \E k \in DOMAIN jobs[b] : PickJob(w, b, k)
  BY DEF Pick, JobIds
<1>2. PICK k \in DOMAIN jobs[b] : PickJob(w, b, k)
  BY <1>1
<1>3. jobs[b][k] \in Job /\ ChunkOK(b, k) /\ work \in [Workers -> Task]
  BY ElementOfSeq, LenProperties DEF ChunkInv, TypeInv, JobsOK, WorkOK
<1>4. work' = [work EXCEPT ![w] = TaskFor(b, k)]
  BY <1>2, QueueJobs DEF ChunkInv
<1>5. /\ work'[w].at = "read" /\ work'[w].job = <<b, k>> /\ work'[w].rows = <<>>
      /\ work'[w].answers = <<>> /\ work'[w].unread = jobs[b][k].orders
  BY <1>3, <1>4 DEF TaskFor, Idle
<1>6. jobs'[b][k].orders = jobs[b][k].orders
  BY JobsForward DEF ChunkInv
<1>7. JobOf(w)' = jobs'[b][k]
  BY <1>5 DEF JobOf
<1>8. ToSet(work'[w].rows) = {} /\ DOMAIN work'[w].answers = {} /\ Distinct(work'[w].rows)
  BY <1>5 DEF ToSet, Distinct
<1>9. Distinct(work'[w].unread) /\ ToSet(work'[w].unread) = ToSet(JobOf(w).orders)'
  BY <1>3, <1>5, <1>6, <1>7 DEF ChunkOK
<1>10. Splits(w, ToSet(JobOf(w).orders))' /\ Covers(w, ToSet(JobOf(w).orders))'
       /\ Read(w)' = {}
  BY <1>5, <1>8, <1>9 DEF Splits, Covers, Read
<1>11. QED
  BY <1>5, <1>10 DEF SlotKept, SlotOK, InHandPending

LEMMA ReadSlot ==
  ASSUME ChunkInv, TypeInv', [Next]_vars, NEW w \in Workers, ReadRow(w)
  PROVE  SlotKept(w)
<1> DEFINE chunk == ToSet(JobOf(w).orders)
           o == Head(work[w].unread)
<1>1. work[w] \in Task /\ work[w].at = "read" /\ work[w].unread # <<>>
  BY DEF ReadRow, ChunkInv, TypeInv, WorkOK
<1>2. /\ work'[w].at = "read" /\ work'[w].job = work[w].job
      /\ work'[w].answers = work[w].answers /\ work'[w].unread = Tail(work[w].unread)
      /\ work'[w].rows = IF rows[o].status = "PENDING" THEN Append(work[w].rows, o)
                         ELSE work[w].rows
      /\ rows' = rows
  BY <1>1 DEF ReadRow, ChunkInv, TypeInv, WorkOK, Task
<1>3. /\ BatchOf(w)' = BatchOf(w) /\ chunk' = chunk /\ chunk \subseteq Orders
      /\ \A p \in chunk : rows[p].status = "PENDING" => items[BatchOf(w)][p] = "PENDING"
  BY <1>1, <1>2, HeldChunk
<1> HIDE DEF chunk
<1>4. SlotOK(w) /\ Splits(w, chunk) /\ Covers(w, chunk) /\ DOMAIN work[w].answers = {}
  BY <1>1 DEF ChunkInv, SlotOK, Reading, Splits, chunk
<1>5. /\ work[w].unread \in Seq(Orders) /\ work[w].rows \in Seq(Orders) /\ o \in Orders
  BY <1>1, HeadTailProperties DEF Task
<1>6. /\ ToSet(work[w].unread) = {o} \cup ToSet(work'[w].unread)
      /\ Distinct(work'[w].unread) /\ o \notin ToSet(work'[w].unread)
  BY <1>1, <1>2, <1>4, <1>5, TailParts DEF Splits
<1>7. o \notin ToSet(work[w].rows) /\ o \in chunk
  BY <1>4, <1>6 DEF Splits
<1>8. /\ Distinct(work'[w].rows)
      /\ ToSet(work'[w].rows) = IF rows[o].status = "PENDING" THEN ToSet(work[w].rows) \cup {o}
                                ELSE ToSet(work[w].rows)
  <2>1. Distinct(work[w].rows)
    BY <1>4 DEF Splits
  <2>2. /\ ToSet(Append(work[w].rows, o)) = ToSet(work[w].rows) \cup {o}
        /\ Distinct(Append(work[w].rows, o))
    BY <1>5, <1>7, <2>1, AppendParts
  <2>3. QED
    BY <1>2, <2>1, <2>2
<1> HIDE DEF o
<1>9. Splits(w, chunk)'
  <2>1. ToSet(work'[w].unread) \cup ToSet(work'[w].rows) \subseteq chunk
    BY <1>4, <1>6, <1>7, <1>8 DEF Splits, Read
  <2>2. ToSet(work'[w].unread) \cap ToSet(work'[w].rows) = {}
    BY <1>4, <1>6, <1>8 DEF Splits
  <2>3. QED
    BY <1>2, <1>3, <1>4, <1>6, <1>8, <2>1, <2>2 DEF Splits, Read
<1>10. Covers(w, chunk)'
  <2>1. ASSUME NEW p \in chunk, rows[p].status = "PENDING"
        PROVE  p \in ToSet(work'[w].unread) \/ p \in Read(w)'
    <3>1. p \in ToSet(work[w].unread) \/ p \in ToSet(work[w].rows)
      BY <1>4, <2>1 DEF Covers, Read
    <3>2. QED
      BY <1>6, <1>8, <2>1, <3>1 DEF Read
  <2>2. QED
    BY <1>2, <1>3, <2>1 DEF Covers
<1>11. ASSUME InHandPending(w)
       PROVE  \A p \in Read(w)' : items'[BatchOf(w)'][p] = "PENDING"
  <2>1. items' = items
    BY DEF ReadRow
  <2>2. ASSUME NEW p \in Read(w)' PROVE items[BatchOf(w)][p] = "PENDING"
    <3>1. p \in ToSet(work[w].rows) \/ (p = o /\ rows[o].status = "PENDING")
      BY <1>2, <1>4, <1>8, <2>2 DEF Read
    <3>2. CASE p \in ToSet(work[w].rows)
      BY <1>1, <1>11, <3>2 DEF InHandPending, Reading, Read
    <3>3. CASE p = o /\ rows[o].status = "PENDING"
      BY <1>3, <1>7, <3>3
    <3>4. QED
      BY <3>1, <3>2, <3>3
  <2>3. QED
    BY <1>3, <2>1, <2>2
<1>12. QED
  BY <1>2, <1>9, <1>10, <1>11 DEF SlotKept, SlotOK, InHandPending, chunk

LEMMA StartSlot ==
  ASSUME ChunkInv, TypeInv', [Next]_vars, NEW w \in Workers, Start(w)
  PROVE  SlotKept(w)
<1> DEFINE chunk == ToSet(JobOf(w).orders)
<1>1. work[w] \in Task /\ work[w].at = "read" /\ work[w].unread = <<>>
  BY DEF Start, ChunkInv, TypeInv, WorkOK
<1>2. /\ work'[w].at = IF work[w].rows = <<>> THEN "count" ELSE "call"
      /\ work'[w].job = work[w].job /\ work'[w].answers = work[w].answers
      /\ work'[w].unread = work[w].unread /\ work'[w].rows = work[w].rows
      /\ rows' = rows /\ items' = items
  BY <1>1 DEF Start, Go, ChunkInv, TypeInv, WorkOK, Task
<1>3. BatchOf(w)' = BatchOf(w) /\ chunk' = chunk
  BY <1>1, <1>2, HeldChunk
<1> HIDE DEF chunk
<1>4. Splits(w, chunk) /\ Covers(w, chunk)
  BY <1>1 DEF ChunkInv, SlotOK, Reading, chunk
<1>5. ToSet(work[w].unread) = {} /\ Read(w)' = Read(w) /\ DOMAIN work[w].answers = {}
  BY <1>1, <1>2, <1>4 DEF ToSet, Read, Splits
<1>6. CASE work[w].rows = <<>>
  <2>1. Read(w) = {}
    BY <1>5, <1>6 DEF Read, ToSet
  <2>2. \A o \in chunk : rows'[o].status # "PENDING"
    BY <1>2, <1>4, <1>5, <2>1 DEF Covers
  <2>3. work'[w].at = "count"
    BY <1>2, <1>6
  <2>4. QED
    BY <1>3, <2>2, <2>3 DEF SlotKept, SlotOK, InHandPending, Reading, chunk
<1>7. CASE work[w].rows # <<>>
  <2>1. work'[w].at = "call"
    BY <1>2, <1>7
  <2>2. Splits(w, chunk)'
    BY <1>2, <1>3, <1>4, <1>5, <2>1 DEF Splits
  <2>3. Covers(w, chunk)'
    BY <1>2, <1>3, <1>4, <1>5, <2>1 DEF Covers
  <2>4. QED
    BY <1>1, <1>2, <1>3, <1>5, <2>1, <2>2, <2>3
       DEF SlotKept, SlotOK, InHandPending, Reading, chunk
<1>8. QED
  BY <1>6, <1>7

LEMMA CallSlot ==
  ASSUME ChunkInv, TypeInv', [Next]_vars, NEW w \in Workers, CallCourier(w)
  PROVE  SlotKept(w)
<1> DEFINE chunk == ToSet(JobOf(w).orders)
<1>1. work[w] \in Task /\ work[w].at = "call" /\ work[w].rows # <<>>
  BY DEF CallCourier, ChunkInv, TypeInv, WorkOK
<1>2. PICK answers \in [Called(w) -> Answers] :
        work' = [work EXCEPT ![w].at = "row", ![w].answers = answers,
                             ![w].rows = IF Natively(w) THEN <<>> ELSE Tail(@)]
  BY DEF CallCourier, NativeAnswers, SingleAnswers
<1>3. /\ work'[w].at = "row" /\ work'[w].job = work[w].job
      /\ DOMAIN work'[w].answers = Called(w) /\ work'[w].unread = work[w].unread
      /\ work'[w].rows = IF Natively(w) THEN <<>> ELSE Tail(work[w].rows)
  BY <1>1, <1>2 DEF ChunkInv, TypeInv, WorkOK, Task
<1>4. rows' = rows /\ items' = items
  BY DEF CallCourier
<1>5. BatchOf(w)' = BatchOf(w) /\ chunk' = chunk
  BY <1>1, <1>3, HeldChunk
<1> HIDE DEF chunk
<1>6. Splits(w, chunk) /\ Covers(w, chunk)
  BY <1>1 DEF ChunkInv, SlotOK, Reading, chunk
<1>7. /\ Called(w) \cup ToSet(work'[w].rows) = ToSet(work[w].rows)
      /\ Called(w) \cap ToSet(work'[w].rows) = {} /\ Distinct(work'[w].rows)
  <2>1. CASE Natively(w)
    BY <1>3, <2>1 DEF Called, ToSet, Distinct
  <2>2. CASE ~Natively(w)
    <3>1. work[w].rows \in Seq(Orders)
      BY <1>1 DEF Task
    <3>2. QED
      BY <1>1, <1>3, <1>6, <2>2, <3>1, TailParts DEF Called, Splits
  <2>3. QED
    BY <2>1, <2>2
<1>8. Read(w)' = Read(w)
  BY <1>1, <1>3, <1>6, <1>7 DEF Read, Splits
<1>9. Splits(w, chunk)'
  <2>1. ToSet(work'[w].unread) \cap ToSet(work'[w].rows) = {}
    BY <1>3, <1>6, <1>7 DEF Splits
  <2>2. QED
    BY <1>3, <1>5, <1>6, <1>7, <1>8, <2>1 DEF Splits
<1>10. Covers(w, chunk)'
  BY <1>1, <1>4, <1>5, <1>6, <1>8 DEF Covers
<1>11. QED
  BY <1>1, <1>3, <1>4, <1>5, <1>8, <1>9, <1>10
     DEF SlotKept, SlotOK, InHandPending, Reading, chunk

LEMMA RecordRowSlot ==
  ASSUME ChunkInv, TypeInv', [Next]_vars, NEW w \in Workers, RecordRow(w)
  PROVE  SlotKept(w)
<1> DEFINE chunk == ToSet(JobOf(w).orders)
<1>1. work[w] \in Task /\ work[w].at = "row"
  BY DEF RecordRow, ChunkInv, TypeInv, WorkOK
<1>2. PICK o \in DOMAIN work[w].answers, at \in {"threw", "item"} :
        /\ rows' = [rows EXCEPT ![o] = RowAfter(@, work[w].answers[o])]
        /\ work' = [work EXCEPT ![w].order = {o}, ![w].at = at]
  BY DEF RecordRow
<1>3. /\ work'[w].at = at /\ work'[w].job = work[w].job /\ work'[w].order = {o}
      /\ work'[w].answers = work[w].answers /\ work'[w].unread = work[w].unread
      /\ work'[w].rows = work[w].rows
  BY <1>1, <1>2 DEF ChunkInv, TypeInv, WorkOK, Task
<1>4. rows'[o].status \notin Untouched /\ items' = items
  <2>1. o \in Orders /\ work[w].answers[o] \in Answers /\ rows \in [Orders -> Row]
    BY AnswerType DEF ChunkInv, TypeInv, TablesOK
  <2>2. rows'[o] = RowAfter(rows[o], work[w].answers[o])
    BY <1>2, <2>1
  <2>3. QED
    BY <2>1, <2>2, RowAfterType DEF RecordRow, Untouched
<1>5. /\ BatchOf(w)' = BatchOf(w) /\ chunk' = chunk
      /\ \A p \in chunk : rows[p].status # "PENDING" => rows'[p].status # "PENDING"
  BY <1>1, <1>3, HeldChunk
<1> HIDE DEF chunk
<1>6. Splits(w, chunk) /\ Covers(w, chunk) /\ Read(w)' = Read(w)
  BY <1>1, <1>3 DEF ChunkInv, SlotOK, Reading, chunk, Read
<1>7. CASE at = "threw"
  BY <1>3, <1>7, IdleSlot
<1>8. CASE at = "item"
  <2>1. Splits(w, chunk)'
    BY <1>3, <1>5, <1>6, <1>8 DEF Splits
  <2>2. Covers(w, chunk)'
    BY <1>1, <1>5, <1>6 DEF Covers
  <2>3. QED
    BY <1>1, <1>3, <1>4, <1>5, <1>6, <1>8, <2>1, <2>2
       DEF SlotKept, SlotOK, InHandPending, Reading, chunk
<1>9. QED
  BY <1>7, <1>8

LEMMA RecordItemSlot ==
  ASSUME ChunkInv, TypeInv', [Next]_vars, NEW w \in Workers, RecordItem(w)
  PROVE  SlotKept(w)
<1> DEFINE chunk == ToSet(JobOf(w).orders)
<1>1. PICK o \in work[w].order :
        LET left == Restrict(work[w].answers, DOMAIN work[w].answers \ {o}) IN
        /\ o \in Orders /\ work[w].at = "item"
        /\ \A b \in Batches, p \in Orders :
             items'[b][p] = IF b = BatchOf(w) /\ p = o THEN ItemAfter(work[w].answers[o])
                            ELSE items[b][p]
        /\ work'[w].order = {} /\ work'[w].answers = left
        /\ DOMAIN left = DOMAIN work[w].answers \ {o}
        /\ \A p \in DOMAIN left : left[p] = work[w].answers[p]
        /\ work'[w].at = IF left # <<>> THEN "row"
                         ELSE IF work[w].rows # <<>> THEN "call" ELSE "count"
        /\ work'[w].rows = work[w].rows /\ work'[w].unread = work[w].unread
        /\ work'[w].job = work[w].job /\ work'[w].verdict = work[w].verdict
        /\ work'[w].adapter = work[w].adapter
        /\ \A v \in Workers : v # w => work'[v] = work[v]
  BY RecordItemEffect DEF ChunkInv
<1>2. /\ o \in Orders /\ work[w].at = "item" /\ work'[w].job = work[w].job
      /\ work'[w].unread = work[w].unread /\ work'[w].rows = work[w].rows
      /\ DOMAIN work'[w].answers = DOMAIN work[w].answers \ {o}
      /\ work'[w].at = IF work'[w].answers # <<>> THEN "row"
                       ELSE IF work[w].rows # <<>> THEN "call" ELSE "count"
      /\ rows' = rows
  BY <1>1 DEF RecordItem
<1>3. /\ BatchOf(w) \in Batches /\ BatchOf(w)' = BatchOf(w)
      /\ chunk' = chunk /\ chunk \subseteq Orders
  BY <1>2, HeldChunk
<1> HIDE DEF chunk
<1>4. /\ Splits(w, chunk) /\ Covers(w, chunk) /\ rows[o].status \notin Untouched
      /\ o \in DOMAIN work[w].answers
  BY <1>1, <1>2 DEF ChunkInv, SlotOK, Reading, chunk
<1>5. Read(w)' = Read(w) \ {o}
  BY <1>2, <1>4 DEF Read, Splits
<1>6. ASSUME InHandPending(w)
      PROVE  \A p \in Read(w)' : items'[BatchOf(w)'][p] = "PENDING"
  <2>1. Read(w) \subseteq Orders
    BY <1>3, <1>4 DEF Splits
  <2>2. \A p \in Read(w) : items[BatchOf(w)][p] = "PENDING"
    BY <1>2, <1>6 DEF InHandPending, Reading
  <2>3. QED
    BY <1>1, <1>3, <1>5, <2>1, <2>2
<1>7. \A p \in chunk : rows'[p].status # "PENDING" \/ p \in Read(w)'
  BY <1>2, <1>4, <1>5 DEF Covers, Untouched
<1>8. CASE work'[w].at = "count"
  <2>1. work'[w].answers = <<>> /\ work[w].rows = <<>>
    BY <1>2, <1>8
  <2>2. Read(w)' = {}
    BY <1>2, <2>1 DEF Read, ToSet
  <2>3. QED
    BY <1>3, <1>7, <1>8, <2>2 DEF SlotKept, SlotOK, InHandPending, Reading, chunk
<1>9. CASE work'[w].at \in {"row", "call"}
  <2>1. work'[w].at = "call" => DOMAIN work'[w].answers = {}
    BY <1>2
  <2>2. Splits(w, chunk)'
    BY <1>2, <1>3, <1>4, <1>5, <1>9, <2>1 DEF Splits
  <2>3. Covers(w, chunk)'
    BY <1>3, <1>7 DEF Covers
  <2>4. QED
    BY <1>3, <1>6, <1>9, <2>2, <2>3 DEF SlotKept, SlotOK, InHandPending, Reading, chunk
<1>10. QED
  BY <1>2, <1>8, <1>9

LEMMA RefreshSlot ==
  ASSUME ChunkInv, TypeInv', [Next]_vars, NEW w \in Workers, CountItems(w) \/ UpdateBatch(w)
  PROVE  SlotKept(w)
<1>1. /\ work[w].at \in {"count", "update"} /\ work'[w].at \in {"update", "done"}
      /\ work'[w].job = work[w].job /\ rows' = rows
  BY DEF CountItems, UpdateBatch, Go, ChunkInv, TypeInv, WorkOK, Task
<1>2. ToSet(JobOf(w).orders)' = ToSet(JobOf(w).orders)
  BY <1>1, HeldChunk
<1>3. \A o \in ToSet(JobOf(w).orders) : rows[o].status # "PENDING"
  BY <1>1 DEF ChunkInv, SlotOK
<1>4. QED
  BY <1>1, <1>2, <1>3 DEF SlotKept, SlotOK, InHandPending, Reading

LEMMA NextSlot ==
  ASSUME ChunkInv, TypeInv', [Next]_vars, NEW w \in Workers
  PROVE  SlotOK(w)' /\ (LockedInv => InHandPending(w)')
<1>1. work \in [Workers -> Task]
  BY DEF ChunkInv, TypeInv, WorkOK
<1>2. CASE \/ Pick(w) \/ ReadRow(w) \/ Start(w) \/ CallCourier(w)
           \/ RecordRow(w) \/ RecordItem(w) \/ CountItems(w) \/ UpdateBatch(w)
  <2>1. SlotKept(w)
    BY <1>2, PickSlot, ReadSlot, StartSlot, CallSlot, RecordRowSlot, RecordItemSlot, RefreshSlot
  <2>2. QED
    BY <2>1 DEF SlotKept, LockedInv
<1>3. CASE CallFails(w) \/ Throw(w)
  <2>1. Go(w, "threw")
    BY <1>3 DEF CallFails, Throw
  <2>2. work'[w].at = "threw"
    BY <1>1, <2>1 DEF Go, Task
  <2>3. QED
    BY <2>2, IdleSlot DEF SlotKept, LockedInv
<1>4. CASE CompleteJob(w) \/ FailJob(w) \/ WorkerDies(w)
  <2>1. work' = [work EXCEPT ![w] = Idle]
    BY <1>4 DEF CompleteJob, FailJob, WorkerDies, EndJob
  <2>2. work'[w].at = "idle"
    BY <1>1, <2>1 DEF Idle
  <2>3. QED
    BY <2>2, IdleSlot DEF SlotKept, LockedInv
<1>5. ASSUME NEW v \in Workers, v # w, Pick(v) \/ Step(v) \/ WorkerDies(v)
      PROVE  work'[w] = work[w]
  BY <1>1, <1>5 DEF Pick, PickJob, Step, ReadRow, Start, CallCourier, CallFails, RecordRow,
       RecordItem, CountItems, UpdateBatch, Throw, Go, CompleteJob, FailJob, WorkerDies, EndJob
<1>6. \/ work' = work
      \/ \E v \in Workers : Pick(v) \/ Step(v) \/ WorkerDies(v)
  BY DEF vars, Next, Submission, SubmitDies, Reserve, CreateBatch, Enqueue, Accepted,
         Stalled, StalledCheck, HttpBegin, HttpCall, HttpEnd, HttpDies, LoseLock
<1>7. CASE work'[w] = work[w]
  BY <1>7, QuietSlot, QuietHand
<1>8. QED
  BY <1>2, <1>3, <1>4, <1>5, <1>6, <1>7 DEF Step

LEMMA NextChunks ==
  ASSUME ChunkInv, [Next]_vars
  PROVE  ChunkInv'
<1>1. TypeInv'
  BY NextType DEF ChunkInv
<1>2. RowsOK' /\ \A b \in Batches : Submitted(b)'
  BY <1>1, NextRows, NextSubmitted
<1>3. \A w \in Workers : SlotOK(w)'
  BY <1>1, NextSlot
<1>4. QED
  BY <1>1, <1>2, <1>3 DEF ChunkInv, Submitted

LEMMA InitLocked == Init => LockedInv
<1> SUFFICES ASSUME Init PROVE LockedInv
  OBVIOUS
<1>1. \A w \in Workers : work[w].at = "idle"
  BY DEF Init, Idle
<1>2. QED
  BY <1>1, InitChunks DEF LockedInv, Exclusive, InHandPending, Reading

LEMMA NextLocked ==
  ASSUME ~LocksExpire, LockedInv, [Next]_vars
  PROVE  LockedInv'
<1>1. ChunkInv /\ TypeInv /\ ChunkInv' /\ TypeInv'
  BY NextChunks DEF LockedInv, ChunkInv
<1>2. Exclusive' /\ \A w \in Workers : InHandPending(w)'
  BY <1>1, NextExclusive, NextSlot DEF LockedInv
<1>3. QED
  BY <1>1, <1>2 DEF LockedInv

(* While locks hold an item is PENDING until its outcome is recorded.       *)
LEMMA LockedItemSteps ==
  ASSUME LockedInv, [Next]_vars, NEW b \in Batches, NEW o \in Orders, items'[b][o] # items[b][o]
  PROVE  \/ CreateBatch(b) /\ items[b][o] = "none" /\ items'[b][o] = sub[b].seeds[o]
         \/ /\ items[b][o] = "PENDING" /\ items'[b][o] \in {"SUCCEEDED", "FAILED"}
            /\ \E w \in Workers : RecordItem(w) /\ BatchOf(w) = b
<1>1. ASSUME NEW w \in Workers, RecordItem(w), BatchOf(w) = b, o \in DOMAIN work[w].answers
      PROVE  items[b][o] = "PENDING"
  BY <1>1 DEF RecordItem, LockedInv, InHandPending, Reading, Read
<1>2. QED
  BY <1>1, ItemSteps DEF LockedInv

-----------------------------------------------------------------------------
(* An outcome a client may have read is never replaced by another one,      *)
(* however often chunks and submissions are run again: the items a worker   *)
(* is going to record on are PENDING.                                       *)
THEOREM OutcomesStay ==
  ASSUME ~LocksExpire
  PROVE  Spec => OutcomesAreFinal
<1>1. ASSUME LockedInv, [Next]_vars
      PROVE  [\A b \in Batches, o \in Orders :
                items[b][o] \in ItemStatus \ {"PENDING"} => items'[b][o] = items[b][o]]_vars
  <2>1. ASSUME NEW b \in Batches, NEW o \in Orders, items[b][o] \in ItemStatus \ {"PENDING"}
        PROVE  items'[b][o] = items[b][o]
    BY <1>1, <2>1, LockedItemSteps DEF ItemStatus
  <2>2. QED
    BY <2>1
<1>2. LockedInv /\ [Next]_vars => LockedInv'
  BY NextLocked
<1>3. QED
  BY InitLocked, <1>1, <1>2, PTL DEF Spec, OutcomesAreFinal

-----------------------------------------------------------------------------
(* The verdict *)

(* Between the count and the update of the batch no item changes: there is  *)
(* none left that is PENDING.                                               *)
VerdictInv ==
  \A w \in Workers :
    work[w].at = "update" =>
      /\ "PENDING" \notin ItemsOf(BatchOf(w))
      /\ work[w].verdict = IF "FAILED" \in ItemsOf(BatchOf(w)) THEN "COMPLETED_WITH_ERRORS"
                           ELSE "COMPLETED"

BatchInv == LockedInv /\ VerdictInv /\ VerdictAgreesWithItems

LEMMA InitBatch == Init => BatchInv
<1> SUFFICES ASSUME Init PROVE BatchInv
  OBVIOUS
<1>1. LockedInv
  BY InitLocked
<1>2. \A w \in Workers : work[w].at = "idle"
  BY DEF Init, Idle
<1>3. \A b \in Batches : batch[b] = "none"
  BY DEF Init
<1>4. QED
  BY <1>1, <1>2, <1>3 DEF BatchInv, VerdictInv, VerdictAgreesWithItems

LEMMA SettledItemsStay ==
  ASSUME LockedInv, [Next]_vars, NEW b \in Batches, "PENDING" \notin ItemsOf(b), ~CreateBatch(b)
  PROVE  ItemsOf(b)' = ItemsOf(b)
<1>1. ASSUME NEW o \in Orders
      PROVE  items'[b][o] = items[b][o]
  <2>1. items[b][o] # "PENDING"
    BY DEF ItemsOf
  <2>2. QED
    BY <2>1, LockedItemSteps
<1>2. QED
  BY <1>1 DEF ItemsOf

(* The batch of a busy worker has been created.                             *)
LEMMA BatchOfBusy ==
  ASSUME ChunkInv, NEW w \in Workers, work[w].at # "idle"
  PROVE  BatchOf(w) \in Batches /\ ~CreateBatch(BatchOf(w)) /\ jobs[BatchOf(w)] # <<>>
<1>1. PICK b \in Batches : BatchOf(w) = b /\ \E k \in DOMAIN jobs[b] : TRUE
  BY HeldJob DEF ChunkInv
<1>2. jobs[b] # <<>>
  BY <1>1
<1>3. ~CreateBatch(b)
  BY <1>2 DEF CreateBatch, ChunkInv, SubmissionOK
<1>4. QED
  BY <1>1, <1>2, <1>3

(* How a worker gets to the update and to the end of its job.               *)
LEMMA Arrivals ==
  ASSUME TypeInv, [Next]_vars, NEW w \in Workers
  PROVE  /\ work'[w].at = "update" => CountItems(w) \/ work'[w] = work[w]
         /\ work'[w].at = "done" =>
              \/ work'[w] = work[w]
              \/ /\ CountItems(w) \/ UpdateBatch(w)
                 /\ work'[w].job = work[w].job
<1>1. work \in [Workers -> Task]
  BY DEF TypeInv, WorkOK
<1>2. CASE CountItems(w) \/ UpdateBatch(w)
  <2>1. work'[w].job = work[w].job
    BY <1>1, <1>2 DEF CountItems, UpdateBatch, Go, Task
  <2>2. UpdateBatch(w) => work'[w].at = "done"
    BY <1>1 DEF UpdateBatch, Go, Task
  <2>3. QED
    BY <1>2, <2>1, <2>2
<1>3. CASE Start(w) \/ CallFails(w) \/ Throw(w)
  <2>1. PICK at \in {"count", "call", "threw"} : Go(w, at)
    BY <1>3 DEF Start, CallFails, Throw
  <2>2. work'[w].at = at
    BY <1>1, <2>1 DEF Go, Task
  <2>3. QED
    BY <2>1, <2>2
<1>4. CASE CompleteJob(w) \/ FailJob(w) \/ WorkerDies(w)
  <2>1. work' = [work EXCEPT ![w] = Idle]
    BY <1>4 DEF CompleteJob, FailJob, WorkerDies, EndJob
  <2>2. work'[w].at = "idle"
    BY <1>1, <2>1 DEF Idle
  <2>3. QED
    BY <2>2
<1>5. CASE Pick(w)
  <2>1. PICK b, k : work' = [work EXCEPT ![w] = TaskFor(b, k)]
    BY <1>5 DEF Pick, PickJob, TaskFor
  <2>2. work'[w].at = "read"
    BY <1>1, <2>1 DEF TaskFor, Idle
  <2>3. QED
    BY <2>2
<1>6. CASE ReadRow(w) \/ CallCourier(w) \/ RecordRow(w)
  <2>1. ReadRow(w) => work'[w].at = "read"
    BY <1>1 DEF ReadRow, Task
  <2>2. CallCourier(w) => work'[w].at = "row"
    BY <1>1 DEF CallCourier, Task
  <2>3. RecordRow(w) => work'[w].at \in {"item", "threw"}
    BY <1>1 DEF RecordRow, Task
  <2>4. QED
    BY <1>6, <2>1, <2>2, <2>3
<1>7. CASE RecordItem(w)
  <2>1. work'[w].at \in {"row", "call", "count"}
    BY <1>7, RecordItemEffect
  <2>2. QED
    BY <2>1
<1>8. ASSUME NEW v \in Workers, v # w, Pick(v) \/ Step(v) \/ WorkerDies(v)
      PROVE  work'[w] = work[w]
  BY <1>1, <1>8 DEF Pick, PickJob, Step, ReadRow, Start, CallCourier, CallFails, RecordRow,
       RecordItem, CountItems, UpdateBatch, Throw, Go, CompleteJob, FailJob, WorkerDies, EndJob
<1>9. \/ work' = work
      \/ \E v \in Workers : Pick(v) \/ Step(v) \/ WorkerDies(v)
  BY DEF vars, Next, Submission, SubmitDies, Reserve, CreateBatch, Enqueue, Accepted,
         Stalled, StalledCheck, HttpBegin, HttpCall, HttpEnd, HttpDies, LoseLock
<1>10. QED
  BY <1>2, <1>3, <1>4, <1>5, <1>6, <1>7, <1>8, <1>9 DEF Step

(* A batch gets its verdict from a worker that is at the update.            *)
LEMMA BatchSteps ==
  ASSUME ChunkInv, [Next]_vars, NEW b \in Batches, batch'[b] # batch[b]
  PROVE  \/ CreateBatch(b) /\ batch'[b] = "PROCESSING"
         \/ \E w \in Workers : UpdateBatch(w) /\ BatchOf(w) = b /\ batch'[b] = work[w].verdict
<1>1. batch \in [Batches -> BatchStatus \cup {"none"}]
  BY DEF ChunkInv, TypeInv, TablesOK
<1>2. CASE CreateBatch(b)
  BY <1>1, <1>2 DEF CreateBatch
<1>3. CASE Reserve(b) \/ Enqueue(b)
  BY <1>3 DEF Reserve, Enqueue
<1>4. CASE ~Reserve(b) /\ ~CreateBatch(b) /\ ~Enqueue(b)
  BY <1>1, <1>4, OthersAndSubmission DEF UpdateBatch
<1>5. QED
  BY <1>2, <1>3, <1>4

LEMMA NextBatch ==
  ASSUME ~LocksExpire, BatchInv, [Next]_vars
  PROVE  BatchInv'
<1>1. LockedInv' /\ LockedInv /\ ChunkInv /\ TypeInv
  BY NextLocked DEF BatchInv, LockedInv, ChunkInv
<1>2. VerdictInv'
  <2> SUFFICES ASSUME NEW w \in Workers, work'[w].at = "update"
               PROVE  /\ "PENDING" \notin ItemsOf(BatchOf(w))'
                      /\ work'[w].verdict =
                           IF "FAILED" \in ItemsOf(BatchOf(w))' THEN "COMPLETED_WITH_ERRORS"
                           ELSE "COMPLETED"
    BY DEF VerdictInv
  <2>1. CASE CountItems(w)
    <3>1. work'[w].job = work[w].job /\ items' = items
      BY <1>1, <2>1 DEF CountItems, TypeInv, WorkOK, Task
    <3>2. ItemsOf(BatchOf(w))' = ItemsOf(BatchOf(w))
      BY <3>1 DEF ItemsOf, BatchOf
    <3>3. /\ work'[w].at = IF "PENDING" \in ItemsOf(BatchOf(w)) THEN "done" ELSE "update"
          /\ work'[w].verdict = IF "FAILED" \in ItemsOf(BatchOf(w)) THEN "COMPLETED_WITH_ERRORS"
                                ELSE "COMPLETED"
      BY <1>1, <2>1 DEF CountItems, TypeInv, WorkOK, Task
    <3>4. QED
      BY <3>2, <3>3
  <2>2. CASE work'[w] = work[w]
    <3>1. /\ "PENDING" \notin ItemsOf(BatchOf(w))
          /\ work[w].verdict = IF "FAILED" \in ItemsOf(BatchOf(w)) THEN "COMPLETED_WITH_ERRORS"
                               ELSE "COMPLETED"
      BY <2>2 DEF BatchInv, VerdictInv
    <3>2. PICK b \in Batches : b = BatchOf(w) /\ ~CreateBatch(b)
      BY <1>1, <2>2, BatchOfBusy
    <3>3. ItemsOf(b)' = ItemsOf(b)
      BY <1>1, <3>1, <3>2, SettledItemsStay
    <3>4. BatchOf(w)' = b
      BY <2>2, <3>2 DEF BatchOf
    <3>5. ItemsOf(BatchOf(w))' = ItemsOf(BatchOf(w))
      BY <3>2, <3>3, <3>4 DEF ItemsOf
    <3>6. QED
      BY <2>2, <3>1, <3>5
  <2>3. QED
    BY <1>1, <2>1, <2>2, Arrivals
<1>3. VerdictAgreesWithItems'
  <2> SUFFICES ASSUME NEW b \in Batches
               PROVE  /\ batch'[b] \in {"COMPLETED", "COMPLETED_WITH_ERRORS"}
                           => "PENDING" \notin ItemsOf(b)'
                      /\ batch'[b] = "COMPLETED" => "FAILED" \notin ItemsOf(b)'
                      /\ batch'[b] = "COMPLETED_WITH_ERRORS" => "FAILED" \in ItemsOf(b)'
    BY DEF VerdictAgreesWithItems
  <2>1. CASE batch'[b] # batch[b]
    <3>1. CASE CreateBatch(b) /\ batch'[b] = "PROCESSING"
      BY <3>1
    <3>2. CASE \E w \in Workers : UpdateBatch(w) /\ BatchOf(w) = b /\ batch'[b] = work[w].verdict
      <4>1. PICK w \in Workers :
              UpdateBatch(w) /\ BatchOf(w) = b /\ batch'[b] = work[w].verdict
        BY <3>2
      <4>2. work[w].at = "update" /\ items' = items
        BY <4>1 DEF UpdateBatch
      <4>3. ItemsOf(b)' = ItemsOf(b)
        BY <4>2 DEF ItemsOf
      <4>4. QED
        BY <4>1, <4>2, <4>3 DEF BatchInv, VerdictInv
    <3>3. QED
      BY <1>1, <2>1, <3>1, <3>2, BatchSteps
  <2>2. CASE batch'[b] = batch[b] /\ batch[b] \in {"COMPLETED", "COMPLETED_WITH_ERRORS"}
    <3>1. "PENDING" \notin ItemsOf(b)
      BY <2>2 DEF BatchInv, VerdictAgreesWithItems
    <3>2. ~CreateBatch(b)
      BY <1>1, <2>2 DEF CreateBatch, ChunkInv, SubmissionOK
    <3>3. ItemsOf(b)' = ItemsOf(b)
      BY <1>1, <3>1, <3>2, SettledItemsStay
    <3>4. QED
      BY <2>2, <3>3 DEF BatchInv, VerdictAgreesWithItems
  <2>3. QED
    BY <2>1, <2>2
<1>4. QED
  BY <1>1, <1>2, <1>3 DEF BatchInv

(* The verdict on a batch agrees with its items, though refreshStatus is    *)
(* two statements and other chunks of the batch run between them.           *)
THEOREM VerdictsAgree ==
  ASSUME ~LocksExpire
  PROVE  Spec => []VerdictAgreesWithItems
<1>1. BatchInv => VerdictAgreesWithItems
  BY DEF BatchInv
<1>2. BatchInv /\ [Next]_vars => BatchInv'
  BY NextBatch
<1>3. QED
  BY InitBatch, <1>1, <1>2, PTL DEF Spec

-----------------------------------------------------------------------------
(* The contract of a batch *)

(* A batch has chunks, or is about to have some, only once it was created.  *)
CreatedFirst ==
  \A b \in Batches : batch[b] = "none" => jobs[b] = <<>> /\ sub[b].at # "enqueueing"

LEMMA NextCreatedFirst ==
  ASSUME ChunkInv, CreatedFirst, [Next]_vars
  PROVE  CreatedFirst'
<1> SUFFICES ASSUME NEW b \in Batches, batch'[b] = "none"
             PROVE  jobs'[b] = <<>> /\ sub'[b].at # "enqueueing"
  BY DEF CreatedFirst
<1>1. TypeInv /\ TypeInv'
  BY NextType DEF ChunkInv
<1>2. batch[b] = "none"
  <2>1. ASSUME NEW w \in Workers, UpdateBatch(w), batch'[b] = work[w].verdict
        PROVE  FALSE
    <3>1. work[w].verdict \in BatchStatus
      BY <1>1 DEF TypeInv, WorkOK, Task
    <3>2. QED
      BY <2>1, <3>1 DEF BatchStatus
  <2>2. QED
    BY <2>1, BatchSteps
<1>3. jobs[b] = <<>> /\ sub[b].at # "enqueueing"
  BY <1>2 DEF CreatedFirst
<1>4. ~CreateBatch(b) /\ ~Enqueue(b) /\ ~Accepted(b)
  BY <1>1, <1>3 DEF CreateBatch, Enqueue, Accepted, TypeInv, TablesOK
<1>5. jobs'[b] = <<>>
  <2>1. DOMAIN jobs'[b] = DOMAIN jobs[b]
    BY <1>1, <1>4, JobsForward
  <2>2. jobs'[b] \in Seq(Job)
    BY <1>1 DEF TypeInv, JobsOK
  <2>3. DOMAIN jobs[b] = {}
    BY <1>3, EmptySeq
  <2>4. ASSUME jobs'[b] # <<>>
        PROVE  1 \in DOMAIN jobs'[b]
    <3>1. Len(jobs'[b]) \in Nat \ {0}
      BY <2>2, <2>4, EmptySeq
    <3>2. DOMAIN jobs'[b] = 1..Len(jobs'[b])
      BY <2>2, LenProperties
    <3>3. QED
      BY <3>1, <3>2
  <2>5. QED
    BY <2>1, <2>3, <2>4
<1>6. sub'[b].at # "enqueueing"
  <2>1. sub \in [Batches -> Sub]
    BY <1>1 DEF TypeInv, SubOK
  <2>2. CASE Reserve(b)
    BY <1>3, <2>1, <2>2 DEF Reserve, Sub
  <2>3. CASE SubmitDies(b)
    BY <2>1, <2>3 DEF SubmitDies, Sub
  <2>4. CASE ~Reserve(b) /\ ~SubmitDies(b)
    BY <1>3, <1>4, <2>4, OthersAndSubmission
  <2>5. QED
    BY <2>2, <2>3, <2>4
<1>7. QED
  BY <1>5, <1>6

ContractInv == BatchInv /\ CreatedFirst

LEMMA NextContract ==
  ASSUME ~LocksExpire, ContractInv, [Next]_vars
  PROVE  ContractInv'
BY NextBatch, NextCreatedFirst DEF ContractInv, BatchInv, LockedInv

(* A busy worker's batch is PROCESSING, or closed with nothing PENDING.     *)
LEMMA BatchOpen ==
  ASSUME ContractInv, NEW w \in Workers, work[w].at # "idle"
  PROVE  /\ BatchOf(w) \in Batches /\ batch[BatchOf(w)] \in BatchStatus
         /\ "PENDING" \in ItemsOf(BatchOf(w)) => batch[BatchOf(w)] = "PROCESSING"
<1>1. ChunkInv /\ TypeInv
  BY DEF ContractInv, BatchInv, LockedInv, ChunkInv
<1>2. BatchOf(w) \in Batches /\ jobs[BatchOf(w)] # <<>>
  BY <1>1, BatchOfBusy
<1>3. batch[BatchOf(w)] \in BatchStatus
  BY <1>1, <1>2 DEF ContractInv, CreatedFirst, TypeInv, TablesOK
<1>4. QED
  BY <1>2, <1>3 DEF ContractInv, BatchInv, VerdictAgreesWithItems, BatchStatus

(* The creation of a batch is its acceptance.                               *)
LEMMA CreateAccepts ==
  ASSUME ContractInv, NEW b \in Batches, CreateBatch(b)
  PROVE  Contract!Accept(b)
<1>1. TypeInv /\ SubmissionOK(b)
  BY DEF ContractInv, BatchInv, LockedInv, ChunkInv
<1>2. batch[b] = "none"
  BY <1>1 DEF CreateBatch, SubmissionOK
<1>3. sub[b].seeds \in [Orders -> {"none", "PENDING", "DUPLICATE"}]
  <2>1. sub[b].seeds \in [Orders -> ItemStatus \cup {"none"}]
    BY <1>1 DEF TypeInv, SubOK, Sub
  <2>2. QED
    BY <1>1, <2>1 DEF SubmissionOK
<1>4. QED
  BY <1>2, <1>3 DEF CreateBatch, Contract!Accept

(* An outcome that is recorded settles a PENDING item of an open batch.     *)
LEMMA RecordSettles ==
  ASSUME ContractInv, NEW w \in Workers, RecordItem(w)
  PROVE  \E b \in Batches, o \in Orders : Contract!Settle(b, o)
<1> DEFINE b == BatchOf(w)
<1>1. ChunkInv /\ TypeInv /\ work[w].at = "item"
  BY DEF RecordItem, ContractInv, BatchInv, LockedInv, ChunkInv
<1>2. PICK o \in work[w].order :
        /\ items' = [items EXCEPT ![b][o] = ItemAfter(work[w].answers[o])]
        /\ batch' = batch
  BY DEF RecordItem
<1>3. o \in Orders /\ o \in Read(w)
  BY <1>1 DEF ChunkInv, SlotOK, Read, TypeInv, WorkOK, Task
<1>4. items[b][o] = "PENDING"
  BY <1>1, <1>3 DEF ContractInv, BatchInv, LockedInv, InHandPending, Reading
<1>5. b \in Batches /\ batch[b] = "PROCESSING"
  BY <1>1, <1>3, <1>4, BatchOpen DEF ItemsOf
<1>6. ItemAfter(work[w].answers[o]) \in {"SUCCEEDED", "FAILED"}
  BY DEF ItemAfter
<1>7. Contract!Settle(b, o)
  BY <1>2, <1>4, <1>5, <1>6 DEF Contract!Settle
<1>8. QED
  BY <1>3, <1>5, <1>7

(* An update closes the batch, or repeats the verdict another chunk gave.   *)
LEMMA UpdateCloses ==
  ASSUME ContractInv, NEW w \in Workers, UpdateBatch(w)
  PROVE  batch' = batch \/ \E b \in Batches : Contract!Close(b)
<1> DEFINE b == BatchOf(w)
<1>1. TypeInv /\ work[w].at = "update"
  BY DEF UpdateBatch, ContractInv, BatchInv, LockedInv, ChunkInv
<1>2. /\ batch' = [batch EXCEPT ![b] = work[w].verdict] /\ items' = items
      /\ batch \in [Batches -> BatchStatus \cup {"none"}]
  BY <1>1 DEF UpdateBatch, TypeInv, TablesOK
<1>3. b \in Batches /\ batch[b] \in BatchStatus
  BY <1>1, BatchOpen
<1>4. /\ \A o \in Orders : items[b][o] # "PENDING"
      /\ work[w].verdict = IF \E o \in Orders : items[b][o] = "FAILED"
                             THEN "COMPLETED_WITH_ERRORS" ELSE "COMPLETED"
  BY <1>1 DEF ContractInv, BatchInv, VerdictInv, ItemsOf
<1>5. CASE batch[b] = "PROCESSING"
  <2>1. Contract!Close(b)
    BY <1>2, <1>4, <1>5 DEF Contract!Close
  <2>2. QED
    BY <1>3, <2>1
<1>6. CASE batch[b] # "PROCESSING"
  <2>1. batch[b] = work[w].verdict
    BY <1>3, <1>4, <1>6 DEF ContractInv, BatchInv, VerdictAgreesWithItems, BatchStatus, ItemsOf
  <2>2. QED
    BY <1>2, <1>3, <2>1
<1>7. QED
  BY <1>5, <1>6

(* While locks hold, a batch is accepted, settled and closed as its client  *)
(* may expect, with any number of chunks, workers, attempts and other       *)
(* batches beside it: every step of the submission and its chunks is one of *)
(* the contract or changes neither batch nor items.                         *)
THEOREM BatchContractKept ==
  ASSUME ~LocksExpire
  PROVE  Spec => KeepsBatchContract
<1>1. Init => ContractInv /\ Contract!BInit
  <2> SUFFICES ASSUME Init PROVE ContractInv /\ Contract!BInit
    OBVIOUS
  <2>1. CreatedFirst
    BY DEF Init, CreatedFirst
  <2>2. Contract!BInit
    BY DEF Init, Contract!BInit
  <2>3. QED
    BY <2>1, <2>2, InitBatch DEF ContractInv
<1>2. ContractInv /\ [Next]_vars => ContractInv'
  BY NextContract
<1>3. ContractInv /\ ContractInv' /\ [Next]_vars => [Contract!BNext]_(Contract!bvars)
  <2> SUFFICES ASSUME ContractInv, ContractInv', [Next]_vars
               PROVE  Contract!BNext \/ UNCHANGED <<batch, items>>
    BY DEF Contract!bvars
  <2>1. \/ UNCHANGED <<batch, items>>
        \/ \E b \in Batches : CreateBatch(b)
        \/ \E w \in Workers : RecordItem(w)
        \/ \E w \in Workers : UpdateBatch(w) /\ items' = items
    BY DEF vars, Next, Submission, SubmitDies, Reserve, Enqueue, Accepted, Pick, PickJob, Step,
           ReadRow, Start, CallCourier, CallFails, RecordRow, CountItems, UpdateBatch, Throw,
           CompleteJob, FailJob, WorkerDies, EndJob, LoseLock, Stalled, StalledCheck, tables,
           HttpBegin, HttpCall, HttpEnd, HttpDies
  <2>2. QED
    BY <2>1, CreateAccepts, RecordSettles, UpdateCloses DEF Contract!BNext
<1>4. QED
  BY <1>1, <1>2, <1>3, PTL DEF Spec, KeepsBatchContract, Contract!BSpec

-----------------------------------------------------------------------------
(* The last chunk *)

Works(w, b, k) == work[w].at # "idle" /\ work[w].job = <<b, k>>

(* While a batch whose items are all settled is still PROCESSING, one of    *)
(* its chunks has yet to be refreshed: it is not completed, and whoever     *)
(* works on it has not come to its end.                                     *)
Closes(b, k) ==
  /\ jobs[b][k].state # "completed"
  /\ \A w \in Workers : Works(w, b, k) => work[w].at # "done"

ClosingInv ==
  \A b \in Batches :
    jobs[b] # <<>> /\ "PENDING" \notin ItemsOf(b) /\ batch[b] = "PROCESSING"
      => \E k \in DOMAIN jobs[b] : Closes(b, k)

(* What a step makes of a job: it is completed by the worker that has come  *)
(* to its end, and an attempt or a stall is never taken back.               *)
LEMMA JobSteps ==
  ASSUME TypeInv, [Next]_vars, NEW b \in Batches, NEW k \in DOMAIN jobs[b]
  PROVE  \/ jobs'[b][k] = jobs[b][k]
         \/ \E w \in Workers : PickJob(w, b, k) /\ jobs'[b][k] = Picked(w, b, k)
         \/ StalledCheck(b, k) /\ jobs'[b][k] = PutBack(b, k)
         \/ /\ jobs'[b][k].state = "active" /\ jobs'[b][k].owner = {}
            /\ \E w \in Workers : LoseLock(w) /\ Works(w, b, k)
         \/ \E w \in Workers :
              /\ Works(w, b, k) /\ Owns(w) /\ work'[w].at = "idle"
              /\ \/ CompleteJob(w) /\ work[w].at = "done"
                 \/ /\ FailJob(w) /\ jobs'[b][k].state \in {"waiting", "failed"}
                    /\ jobs'[b][k].tries > 0
                 \/ /\ WorkerDies(w) /\ jobs'[b][k].state = "active"
                    /\ jobs'[b][k].owner = {}
<1>1. /\ work \in [Workers -> Task] /\ jobs[b] \in Seq(Job) /\ jobs[b][k] \in Job
      /\ GoodJob(jobs[b][k]) /\ k \in 1..Len(jobs[b]) /\ Len(jobs[b]) \in Nat
      /\ jobs \in [Batches -> Seq(Job)]
  BY ElementOfSeq, LenProperties DEF TypeInv, WorkOK, JobsOK
<1>2. ASSUME NEW c \in Batches, NEW l \in DOMAIN jobs[c], NEW j \in Job, GoodJob(j),
             jobs' = [jobs EXCEPT ![c][l] = j]
      PROVE  jobs'[b][k] = IF b = c /\ k = l THEN j ELSE jobs[b][k]
  BY <1>1, <1>2, JobStep DEF TypeInv
<1>3. ASSUME NEW c \in Batches, Submission(c) \/ SubmitDies(c)
      PROVE  jobs'[b][k] = jobs[b][k]
  <2>1. CASE Enqueue(c)
    <3>1. PICK j : jobs' = [jobs EXCEPT ![c] = Append(@, j)]
      BY <2>1 DEF Enqueue
    <3>2. jobs'[b] = jobs[b] \/ jobs'[b] = Append(jobs[b], j)
      BY <1>1, <3>1
    <3>3. QED
      BY <1>1, <3>2
  <2>2. CASE ~Enqueue(c)
    BY <1>3, <2>2 DEF Submission, SubmitDies, Reserve, CreateBatch, Accepted
  <2>3. QED
    BY <2>1, <2>2
<1>4. ASSUME NEW w \in Workers, Pick(w)
      PROVE  jobs'[b][k] = jobs[b][k] \/ (PickJob(w, b, k) /\ jobs'[b][k] = Picked(w, b, k))
  <2>1. PICK c \in Batches : \E l \in DOMAIN jobs[c] : PickJob(w, c, l)
    BY <1>4 DEF Pick, JobIds
  <2>2. PICK l \in DOMAIN jobs[c] : PickJob(w, c, l)
    BY <2>1
  <2>3. jobs'[b][k] = IF b = c /\ k = l THEN Picked(w, c, l) ELSE jobs[b][k]
    BY <1>2, <2>2, QueueJobs
  <2>4. QED
    BY <2>2, <2>3
<1>5. ASSUME Stalled
      PROVE  jobs'[b][k] = jobs[b][k] \/ (StalledCheck(b, k) /\ jobs'[b][k] = PutBack(b, k))
  <2>1. PICK c \in Batches : \E l \in DOMAIN jobs[c] : StalledCheck(c, l)
    BY <1>5 DEF Stalled, JobIds
  <2>2. PICK l \in DOMAIN jobs[c] : StalledCheck(c, l)
    BY <2>1
  <2>3. jobs'[b][k] = IF b = c /\ k = l THEN PutBack(c, l) ELSE jobs[b][k]
    BY <1>2, <2>2, QueueJobs
  <2>4. QED
    BY <2>2, <2>3
<1>6. ASSUME NEW w \in Workers, NEW j, work[w].at # "idle", EndJob(w, j),
             Owns(w) => j \in Job /\ GoodJob(j)
      PROVE  /\ work'[w].at = "idle"
             /\ \/ jobs'[b][k] = jobs[b][k]
                \/ /\ Works(w, b, k) /\ Owns(w) /\ jobs'[b][k] = j
                   /\ JobOf(w) = jobs[b][k]
  <2>1. work' = [work EXCEPT ![w] = Idle]
    BY <1>6 DEF EndJob
  <2>2. work'[w].at = "idle"
    BY <1>1, <2>1 DEF Idle
  <2>3. PICK c \in Batches : \E l \in DOMAIN jobs[c] :
          work[w].job = <<c, l>> /\ JobOf(w) = jobs[c][l]
    BY <1>6, HeldJob
  <2>4. PICK l \in DOMAIN jobs[c] : work[w].job = <<c, l>> /\ JobOf(w) = jobs[c][l]
    BY <2>3
  <2>5. CASE Owns(w)
    <3>1. jobs' = [jobs EXCEPT ![c][l] = j]
      BY <1>6, <2>4, <2>5 DEF EndJob
    <3>2. jobs'[b][k] = IF b = c /\ k = l THEN j ELSE jobs[b][k]
      BY <1>2, <1>6, <2>5, <3>1
    <3>3. QED
      BY <1>6, <2>2, <2>4, <2>5, <3>2 DEF Works
  <2>6. CASE ~Owns(w)
    BY <1>6, <2>2, <2>6 DEF EndJob
  <2>7. QED
    BY <2>5, <2>6
<1>7. jobs[b][k].tries \in Nat
  <2>1. jobs[b][k].tries \in 0..JobAttempts
    BY <1>1 DEF Job
  <2>2. QED
    BY <2>1, BulkAssumption
<1>8. ASSUME NEW w \in Workers, CompleteJob(w) \/ FailJob(w) \/ WorkerDies(w)
      PROVE  \/ jobs'[b][k] = jobs[b][k]
             \/ /\ Works(w, b, k) /\ Owns(w) /\ work'[w].at = "idle"
                /\ \/ CompleteJob(w) /\ work[w].at = "done"
                   \/ /\ FailJob(w) /\ jobs'[b][k].state \in {"waiting", "failed"}
                      /\ jobs'[b][k].tries > 0
                   \/ /\ WorkerDies(w) /\ jobs'[b][k].state = "active"
                      /\ jobs'[b][k].owner = {}
  <2>1. work[w].at # "idle"
    BY <1>8, EndingJob
  <2>2. Owns(w) => JobOf(w) \in Job /\ GoodJob(JobOf(w)) /\ JobOf(w).state = "active"
                   /\ JobOf(w).tries < JobAttempts
    <3>1. JobOf(w) \in Job /\ GoodJob(JobOf(w))
      BY <2>1, HeldJob DEF TypeInv, JobsOK
    <3>2. QED
      BY <3>1 DEF Owns, GoodJob
  <2>3. CASE CompleteJob(w)
    <3>1. PICK j : EndJob(w, j) /\ (Owns(w) => j \in Job /\ GoodJob(j))
      BY <1>8, EndingJob
    <3>2. QED
      BY <1>6, <2>1, <2>3, <3>1 DEF CompleteJob
  <2>4. CASE FailJob(w)
    <3> DEFINE tries == JobOf(w).tries + 1
               state == IF tries < JobAttempts THEN "waiting" ELSE "failed"
               j == [JobOf(w) EXCEPT !.state = state, !.tries = tries, !.owner = {}]
    <3>1. EndJob(w, j)
      BY <2>4 DEF FailJob
    <3>2. ASSUME Owns(w)
          PROVE  /\ j \in Job /\ GoodJob(j) /\ j.state \in {"waiting", "failed"}
                 /\ j.tries = JobOf(w).tries + 1
      <4>1. JobOf(w).tries \in 0..JobAttempts
        BY <2>2, <3>2 DEF Job
      <4>2. tries \in 0..JobAttempts
        BY <2>2, <3>2, <4>1, BulkAssumption
      <4>3. state \in {"waiting", "failed"} /\ (state = "waiting" => tries < JobAttempts)
        OBVIOUS
      <4> HIDE DEF tries, state
      <4>4. j \in Job /\ j.state = state /\ j.tries = tries /\ j.owner = {}
            /\ j.orders = JobOf(w).orders
        BY <2>2, <3>2, <4>2, <4>3 DEF Job
      <4>5. GoodJob(j)
        BY <2>2, <3>2, <4>3, <4>4 DEF GoodJob
      <4>6. QED
        BY <4>3, <4>4, <4>5 DEF tries
    <3> HIDE DEF j
    <3>3. QED
      BY <1>6, <1>7, <2>1, <2>4, <3>1, <3>2
  <2>5. CASE WorkerDies(w)
    <3> DEFINE j == [JobOf(w) EXCEPT !.owner = {}]
    <3>1. EndJob(w, j)
      BY <2>5 DEF WorkerDies
    <3>2. Owns(w) => j \in Job /\ GoodJob(j) /\ j.state = "active" /\ j.owner = {}
      BY <2>2 DEF Job, GoodJob
    <3> HIDE DEF j
    <3>3. QED
      BY <1>6, <2>1, <2>5, <3>1, <3>2
  <2>6. QED
    BY <1>8, <2>3, <2>4, <2>5
<1>9. ASSUME NEW w \in Workers, Step(w), ~CompleteJob(w), ~FailJob(w)
      PROVE  jobs' = jobs
  BY <1>9 DEF Step, ReadRow, Start, CallCourier, CallFails, RecordRow, RecordItem, CountItems,
              UpdateBatch, Throw
<1>10. ASSUME Http
       PROVE  jobs' = jobs
  BY <1>10 DEF Http, HttpBegin, HttpCall, HttpEnd, HttpDies
<1>11. ASSUME NEW w \in Workers, LoseLock(w)
       PROVE  \/ jobs'[b][k] = jobs[b][k]
              \/ /\ jobs'[b][k].state = "active" /\ jobs'[b][k].owner = {}
                 /\ Works(w, b, k)
  <2>1. work[w].at # "idle" /\ Owns(w)
    <3>1. work[w] # Idle /\ Owns(w)
      BY <1>11 DEF LoseLock
    <3>2. QED
      BY <3>1 DEF TypeInv, WorkOK
  <2>2. PICK c \in Batches : \E l \in DOMAIN jobs[c] :
          work[w].job = <<c, l>> /\ JobOf(w) = jobs[c][l]
    BY <2>1, HeldJob
  <2>3. PICK l \in DOMAIN jobs[c] : work[w].job = <<c, l>> /\ JobOf(w) = jobs[c][l]
    BY <2>2
  <2>4. jobs' = [jobs EXCEPT ![c][l] = Unlocked(c, l)]
    BY <1>11, <2>3, LosesLock
  <2>5. jobs'[b][k] = IF b = c /\ k = l THEN Unlocked(c, l) ELSE jobs[b][k]
    BY <1>2, <2>4, QueueJobs
  <2>6. ASSUME b = c, k = l
        PROVE  Unlocked(b, k).state = "active" /\ Unlocked(b, k).owner = {}
    <3>1. jobs[b][k].state = "active"
      BY <1>1, <2>1, <2>3, <2>6 DEF Owns, GoodJob
    <3>2. QED
      BY <1>1, <3>1 DEF Unlocked, Job
  <2>7. QED
    BY <2>1, <2>3, <2>5, <2>6 DEF Works
<1>12. CASE UNCHANGED vars
  BY <1>12 DEF vars
<1>13. QED
  BY <1>3, <1>4, <1>5, <1>8, <1>9, <1>10, <1>11, <1>12 DEF Next, Http

(* A worker that comes to the end of its job has seen an item PENDING or    *)
(* given the verdict.                                                       *)
LEMMA ClosesStays ==
  ASSUME BatchInv, [Next]_vars, NEW b \in Batches, NEW k \in DOMAIN jobs[b],
         Closes(b, k), "PENDING" \notin ItemsOf(b),
         ~\E w \in Workers : UpdateBatch(w) /\ BatchOf(w) = b
  PROVE  Closes(b, k)'
<1>1. ChunkInv /\ TypeInv /\ jobs[b][k] \in Job
  BY ElementOfSeq, LenProperties DEF BatchInv, LockedInv, ChunkInv, TypeInv, JobsOK
<1>2. jobs'[b][k].state # "completed"
  <2>1. ASSUME NEW w \in Workers, Works(w, b, k)
        PROVE  work[w].at # "done"
    BY <2>1 DEF Closes
  <2>2. \A w \in Workers : Picked(w, b, k).state # "completed"
    BY <1>1 DEF Picked, Job
  <2>3. PutBack(b, k).state # "completed"
    BY <1>1 DEF PutBack, Job
  <2>4. QED
    BY <1>1, <2>1, <2>2, <2>3, JobSteps DEF Closes
<1>3. ASSUME NEW w \in Workers, Works(w, b, k)', work'[w].at = "done"
      PROVE  FALSE
  <2>1. CASE work'[w] = work[w]
    BY <1>3, <2>1 DEF Closes, Works
  <2>2. CASE work'[w].job = work[w].job /\ (CountItems(w) \/ UpdateBatch(w))
    <3>1. BatchOf(w) = b
      BY <1>3, <2>2 DEF Works, BatchOf
    <3>2. CountItems(w)
      BY <2>2, <3>1
    <3>3. work'[w].at = "update"
      BY <1>1, <3>1, <3>2 DEF CountItems, TypeInv, WorkOK, Task
    <3>4. QED
      BY <1>3, <3>3
  <2>3. QED
    BY <1>1, <1>3, <2>1, <2>2, Arrivals
<1>4. QED
  BY <1>2, <1>3 DEF Closes

(* The worker that records the last outcome of a batch is yet to refresh it. *)
LEMMA LastOutcome ==
  ASSUME LockedInv, [Next]_vars, NEW b \in Batches, NEW w \in Workers,
         RecordItem(w), BatchOf(w) = b
  PROVE  \E k \in DOMAIN jobs[b] : Closes(b, k)'
<1>1. TypeInv /\ work[w].at = "item" /\ work[w].at # "idle"
  BY DEF LockedInv, ChunkInv, RecordItem
<1>2. PICK k \in DOMAIN jobs[b] : work[w].job = <<b, k>> /\ JobOf(w) = jobs[b][k]
  BY <1>1, HeldJob
<1>3. jobs' = jobs
  BY DEF RecordItem
<1>4. jobs[b][k].state = "active"
  <2>1. Owns(w) /\ GoodJob(jobs[b][k])
    BY <1>1 DEF LockedInv, Exclusive, TypeInv, JobsOK
  <2>2. QED
    BY <1>2, <2>1 DEF Owns, GoodJob
<1>5. /\ work'[w].at \in {"row", "call", "count"}
      /\ \A v \in Workers : v # w => work'[v] = work[v]
  BY <1>1, RecordItemEffect
<1>6. ASSUME NEW v \in Workers, Works(v, b, k)', work'[v].at = "done"
      PROVE  FALSE
  <2>1. v # w /\ work'[v] = work[v]
    BY <1>5, <1>6
  <2>2. work[v].at # "idle" /\ work[v].job = <<b, k>>
    BY <1>6, <2>1 DEF Works
  <2>3. QED
    BY <1>1, <1>2, <2>1, <2>2, HoldersDiffer DEF LockedInv
<1>7. Closes(b, k)'
  BY <1>3, <1>4, <1>6 DEF Closes
<1>8. QED
  BY <1>7

LEMMA NextClosing ==
  ASSUME ~LocksExpire, BatchInv, ClosingInv, [Next]_vars
  PROVE  ClosingInv'
<1>1. LockedInv /\ ChunkInv /\ TypeInv /\ ChunkInv' /\ TypeInv'
  BY NextChunks DEF BatchInv, LockedInv, ChunkInv
<1> SUFFICES ASSUME NEW b \in Batches,
                    jobs'[b] # <<>>, "PENDING" \notin ItemsOf(b)', batch'[b] = "PROCESSING"
             PROVE  \E k \in DOMAIN jobs'[b] : Closes(b, k)'
  BY DEF ClosingInv
<1>2. ~Enqueue(b)
  <2>1. ASSUME Enqueue(b) PROVE FALSE
    <3>1. sub[b].at = "enqueueing" /\ items' = items
      BY <2>1 DEF Enqueue
    <3>2. PICK c \in Registry : sub[b].queued[c] \in Seq(Orders) /\ sub[b].queued[c] # <<>>
      BY <1>1, <2>1, EnqueueEffect
    <3>3. PICK o \in Orders : o \in ToSet(sub[b].queued[c])
      BY <3>2, TailParts, HeadTailProperties
    <3>4. items[b][o] = "PENDING"
      BY <1>1, <3>1, <3>3 DEF ChunkInv, SubmissionOK, Queued
    <3>5. QED
      BY <3>1, <3>4 DEF ItemsOf
  <2>2. QED
    BY <2>1
<1>3. DOMAIN jobs'[b] = DOMAIN jobs[b]
  BY <1>1, <1>2, JobsForward
<1>4. jobs[b] # <<>> /\ ~CreateBatch(b)
  <2>1. ASSUME jobs[b] = <<>> PROVE FALSE
    <3>1. jobs'[b] \in Seq(Job) /\ DOMAIN jobs'[b] = {}
      BY <1>1, <1>3, <2>1 DEF TypeInv, JobsOK
    <3>2. Len(jobs'[b]) = 0
      <4> DEFINE s == jobs'[b]
      <4>1. s \in Seq(Job)
        BY <3>1
      <4> HIDE DEF s
      <4>2. DOMAIN s = 1..Len(s) /\ Len(s) \in Nat
        BY <4>1, LenProperties
      <4>3. DOMAIN s = {}
        BY <3>1 DEF s
      <4>4. Len(s) = 0
        BY <4>2, <4>3
      <4>5. QED
        BY <4>4 DEF s
    <3>3. QED
      BY <3>1, <3>2, EmptySeq
  <2>2. CreateBatch(b) => jobs[b] = <<>>
    BY <1>1 DEF CreateBatch, ChunkInv, SubmissionOK
  <2>3. QED
    BY <2>1, <2>2
<1>5. ~\E w \in Workers : UpdateBatch(w) /\ BatchOf(w) = b
  <2>1. ASSUME NEW w \in Workers, UpdateBatch(w), BatchOf(w) = b PROVE FALSE
    <3>1. work[w].at = "update" /\ batch' = [batch EXCEPT ![b] = work[w].verdict]
      BY <2>1 DEF UpdateBatch
    <3>2. batch'[b] = work[w].verdict
      BY <1>1, <3>1 DEF TypeInv, TablesOK
    <3>3. QED
      BY <3>1, <3>2 DEF BatchInv, VerdictInv
  <2>2. QED
    BY <2>1
<1>6. batch[b] = "PROCESSING"
  BY <1>1, <1>4, <1>5, BatchSteps
<1>7. CASE "PENDING" \in ItemsOf(b)
  <2>1. PICK o \in Orders : items[b][o] = "PENDING"
    BY <1>7 DEF ItemsOf
  <2>2. items'[b][o] # items[b][o]
    BY <2>1 DEF ItemsOf
  <2>3. PICK w \in Workers : RecordItem(w) /\ BatchOf(w) = b
    BY <1>1, <1>4, <2>2, LockedItemSteps
  <2>4. QED
    BY <1>1, <1>3, <2>3, LastOutcome
<1>8. CASE "PENDING" \notin ItemsOf(b)
  <2>1. PICK k \in DOMAIN jobs[b] : Closes(b, k)
    BY <1>4, <1>6, <1>8 DEF ClosingInv
  <2>2. Closes(b, k)'
    BY <1>5, <1>8, <2>1, ClosesStays
  <2>3. QED
    BY <1>3, <2>2
<1>9. QED
  BY <1>7, <1>8

(* The last chunk to end closes the batch, though the chunks refresh it     *)
(* side by side: the worker that recorded the last outcome counts after it. *)
THEOREM LastChunkCloses ==
  ASSUME ~LocksExpire
  PROVE  Spec => []LastChunkClosesBatch
<1>1. Init => BatchInv /\ ClosingInv
  <2>1. Init => ClosingInv
    BY DEF Init, ClosingInv
  <2>2. QED
    BY <2>1, InitBatch
<1>2. BatchInv /\ ClosingInv /\ [Next]_vars => (BatchInv /\ ClosingInv)'
  BY NextBatch, NextClosing
<1>3. BatchInv /\ ClosingInv => LastChunkClosesBatch
  BY DEF ClosingInv, Closes, LastChunkClosesBatch
<1>4. QED
  BY <1>1, <1>2, <1>3, PTL DEF Spec

-----------------------------------------------------------------------------
(* What a completed chunk has settled *)

Shared(b, k, o) == \E other \in JobIds \ {<<b, k>>} : o \in Chunk(other[1], other[2])

(* The rows of orders no HTTP request is about are only touched for chunks. *)
TouchedInv ==
  \A o \in Orders \ HttpOrders :
    rows[o].status \notin Untouched => \E id \in JobIds : o \in Chunk(id[1], id[2])

CompletedInv ==
  \A b \in Batches : \A k \in DOMAIN jobs[b] :
    jobs[b][k].state = "completed" => \A o \in Chunk(b, k) : rows[o].status # "PENDING"

(* In the first attempt of a chunk an order whose row is written and whose  *)
(* item is not is another chunk's too, or in the hands of the worker        *)
(* between the two statements, or the attempt is lost.                      *)
Excused(b, k, o) ==
  \/ Shared(b, k, o)
  \/ jobs[b][k].state = "failed"
  \/ jobs[b][k].state = "active" /\ jobs[b][k].owner = {}
  \/ \E w \in Workers : Works(w, b, k) /\ work[w].at \in {"item", "threw"} /\ o \in work[w].order

SettleInv ==
  \A b \in Batches : \A k \in DOMAIN jobs[b] : \A o \in Chunk(b, k) \ HttpOrders :
    /\ items[b][o] = "PENDING" /\ rows[o].status # "PENDING"
    /\ jobs[b][k].tries = 0 /\ jobs[b][k].stalls = 0
    => Excused(b, k, o)

(* While a job is in its first attempt it has one worker, whether that      *)
(* worker still holds the lock or not.                                      *)
FirstInv ==
  \A b \in Batches : \A k \in DOMAIN jobs[b] : \A w \in Workers :
    jobs[b][k].tries = 0 /\ jobs[b][k].stalls = 0 /\ Works(w, b, k) =>
      /\ jobs[b][k].state \notin {"waiting", "completed"}
      /\ jobs[b][k].owner \in {{}, {w}}

SettledInv == ChunkInv /\ FirstInv /\ TouchedInv /\ CompletedInv /\ SettleInv

LEMMA InitSettled == Init => SettledInv
<1> SUFFICES ASSUME Init PROVE SettledInv
  OBVIOUS
<1>1. \A o \in Orders : rows[o].status = "ABSENT"
  BY DEF Init
<1>2. \A b \in Batches : jobs[b] = <<>>
  BY DEF Init
<1>3. QED
  BY InitChunks, <1>1, <1>2
     DEF SettledInv, FirstInv, TouchedInv, CompletedInv, SettleInv, Untouched

(* Who writes on a row that was PENDING, and who touches it.                *)
LEMMA RowSteps ==
  ASSUME TypeInv, [Next]_vars, NEW o \in Orders \ HttpOrders, rows'[o].status \notin Untouched
  PROVE  \/ rows[o].status \notin Untouched
         \/ \E w \in Workers :
              /\ RecordRow(w) /\ o \in DOMAIN work[w].answers
              /\ work'[w].order = {o} /\ work'[w].at \in {"item", "threw"}
              /\ work'[w].job = work[w].job
<1>1. rows \in [Orders -> Row]
  BY DEF TypeInv, TablesOK
<1>2. ASSUME NEW p, rows[p].status = "ABSENT", InsertRow(p)
      PROVE  rows[o].status \notin Untouched
  BY <1>1, <1>2 DEF InsertRow, Row, Untouched
<1>3. ASSUME NEW w \in Workers, RecordRow(w)
      PROVE  \/ rows[o].status \notin Untouched
             \/ /\ o \in DOMAIN work[w].answers
                /\ work'[w].order = {o} /\ work'[w].at \in {"item", "threw"}
                /\ work'[w].job = work[w].job
  <2>1. PICK p \in DOMAIN work[w].answers, at \in {"threw", "item"} :
          /\ rows' = [rows EXCEPT ![p] = RowAfter(@, work[w].answers[p])]
          /\ work' = [work EXCEPT ![w].order = {p}, ![w].at = at]
    BY <1>3 DEF RecordRow
  <2>2. /\ work'[w].at = at /\ work'[w].job = work[w].job /\ work'[w].order = {p}
    BY <2>1 DEF TypeInv, WorkOK, Task
  <2>3. CASE p = o
    BY <2>1, <2>2, <2>3
  <2>4. CASE p # o
    BY <1>1, <2>1, <2>4
  <2>5. QED
    BY <2>3, <2>4
<1>4. ASSUME NEW b \in Batches, Submission(b) \/ SubmitDies(b)
      PROVE  rows' = rows \/ \E p : rows[p].status = "ABSENT" /\ InsertRow(p)
  BY <1>4 DEF Submission, SubmitDies, Reserve, CreateBatch, Enqueue, Accepted
<1>5. ASSUME NEW w \in Workers, Pick(w) \/ Step(w) \/ WorkerDies(w) \/ LoseLock(w), ~RecordRow(w)
      PROVE  rows' = rows
  BY <1>5 DEF Pick, PickJob, Step, ReadRow, Start, CallCourier, CallFails, RecordItem, CountItems,
              UpdateBatch, Throw, CompleteJob, FailJob, WorkerDies, EndJob, LoseLock, tables
<1>6. ASSUME Http
      PROVE  rows'[o] = rows[o] \/ \E q : rows[q].status = "ABSENT" /\ InsertRow(q)
  <2>1. ASSUME NEW p \in HttpOrders, NEW answer \in Answers,
               rows' = [rows EXCEPT ![p] = RowAfter(@, answer)]
        PROVE  rows'[o] = rows[o]
    BY <1>1, <2>1
  <2>2. QED
    BY <1>6, <2>1, HttpRows
<1>7. CASE UNCHANGED vars \/ Stalled
  BY <1>7 DEF vars, Stalled, StalledCheck, tables
<1>8. QED
  BY <1>2, <1>3, <1>4, <1>5, <1>6, <1>7 DEF Next, Http

(* The order was in the chunk of the worker that wrote on its row.          *)
LEMMA RowOfChunk ==
  ASSUME ChunkInv, NEW w \in Workers, RecordRow(w), NEW o \in DOMAIN work[w].answers
  PROVE  \E b \in Batches : \E k \in DOMAIN jobs[b] :
           work[w].job = <<b, k>> /\ o \in Chunk(b, k)
BY HeldOrders DEF RecordRow, Reading, Read

LEMMA ChunksKept ==
  ASSUME TypeInv, [Next]_vars
  PROVE  /\ \A b \in Batches : \A k \in DOMAIN jobs[b] :
              <<b, k>> \in JobIds' /\ Chunk(b, k)' = Chunk(b, k)
         /\ \A id \in JobIds : id \in JobIds' /\ Chunk(id[1], id[2])' = Chunk(id[1], id[2])
         /\ \A b \in Batches : \A k \in DOMAIN jobs[b] : \A o :
              Shared(b, k, o) => Shared(b, k, o)'
<1>1. \A b \in Batches : \A k \in DOMAIN jobs[b] :
        k \in DOMAIN jobs'[b] /\ Chunk(b, k)' = Chunk(b, k)
  BY JobsForward DEF Chunk
<1>2. \A b, k : <<b, k>> \in JobIds' <=> b \in Batches /\ k \in DOMAIN jobs'[b]
  BY DEF JobIds
<1>3. ASSUME NEW id \in JobIds
      PROVE  id \in JobIds' /\ Chunk(id[1], id[2])' = Chunk(id[1], id[2])
  <2>1. PICK b \in Batches : \E k \in DOMAIN jobs[b] : id = <<b, k>>
    BY DEF JobIds
  <2>2. PICK k \in DOMAIN jobs[b] : id = <<b, k>>
    BY <2>1
  <2>3. QED
    BY <1>1, <1>2, <2>2
<1>4. QED
  BY <1>1, <1>2, <1>3 DEF Shared

LEMMA NextTouched ==
  ASSUME SettledInv, [Next]_vars
  PROVE  TouchedInv'
<1>1. ChunkInv /\ TypeInv
  BY DEF SettledInv, ChunkInv
<1> SUFFICES ASSUME NEW o \in Orders \ HttpOrders, rows'[o].status \notin Untouched
             PROVE  \E id \in JobIds' : o \in Chunk(id[1], id[2])'
  BY DEF TouchedInv
<1>2. \E id \in JobIds : o \in Chunk(id[1], id[2])
  <2>1. CASE rows[o].status \notin Untouched
    BY <2>1 DEF SettledInv, TouchedInv
  <2>2. CASE \E w \in Workers : RecordRow(w) /\ o \in DOMAIN work[w].answers
    <3>1. PICK b \in Batches : \E k \in DOMAIN jobs[b] : o \in Chunk(b, k)
      BY <1>1, <2>2, RowOfChunk
    <3>2. PICK k \in DOMAIN jobs[b] : o \in Chunk(b, k)
      BY <3>1
    <3>3. <<b, k>> \in JobIds
      BY JobIdsMember
    <3>4. QED
      BY <3>2, <3>3
  <2>3. QED
    BY <1>1, <2>1, <2>2, RowSteps
<1>3. QED
  BY <1>1, <1>2, ChunksKept

LEMMA ChunkRows ==
  ASSUME ChunkInv, [Next]_vars, NEW b \in Batches, NEW k \in DOMAIN jobs[b],
         NEW o \in Chunk(b, k)
  PROVE  /\ o \in Orders /\ rows[o].status # "ABSENT"
         /\ rows[o].status # "PENDING" => rows'[o].status # "PENDING"
<1>1. jobs[b][k] \in Job
  BY ElementOfSeq, LenProperties DEF ChunkInv, TypeInv, JobsOK
<1>2. o \in Orders
  BY <1>1, ElementOfSeq, LenProperties DEF Chunk, ToSet, Job
<1>3. sub[b].seeds[o] = "PENDING"
  BY DEF ChunkInv, ChunkOK
<1>4. rows[o].status # "ABSENT"
  BY <1>2, <1>3 DEF ChunkInv, RowsOK
<1>5. QED
  BY <1>2, <1>4, RowsForward DEF ChunkInv, Untouched

(* A chunk that was not there is one that was just queued.                  *)
LEMMA NewChunk ==
  ASSUME TypeInv, [Next]_vars, NEW b \in Batches, NEW k \in DOMAIN jobs'[b],
         k \notin DOMAIN jobs[b]
  PROVE  jobs'[b][k].state = "waiting" /\ rows' = rows
<1>1. Enqueue(b)
  BY JobsForward
<1>2. PICK c, orders : jobs' = [jobs EXCEPT ![b] = Append(@, ChunkJob(c, orders))]
  BY <1>1, EnqueueEffect
<1>3. jobs[b] \in Seq(Job) /\ jobs'[b] = Append(jobs[b], ChunkJob(c, orders))
  BY <1>2 DEF TypeInv, JobsOK
<1>4. jobs'[b] \in Seq(Job)
  BY NextType DEF TypeInv, JobsOK
<1>5. /\ DOMAIN jobs'[b] = 1..Len(jobs'[b]) /\ Len(jobs'[b]) = Len(jobs[b]) + 1
      /\ DOMAIN jobs[b] = 1..Len(jobs[b]) /\ Len(jobs[b]) \in Nat
  BY <1>3, <1>4, LenProperties
<1>6. k = Len(jobs[b]) + 1
  BY <1>5
<1>7. jobs'[b][k] = ChunkJob(c, orders)
  BY <1>3, <1>5, <1>6
<1>8. QED
  BY <1>1, <1>7 DEF ChunkJob, Enqueue

LEMMA NextCompleted ==
  ASSUME SettledInv, [Next]_vars
  PROVE  CompletedInv'
<1>1. ChunkInv /\ TypeInv
  BY DEF SettledInv, ChunkInv
<1> SUFFICES ASSUME NEW b \in Batches, NEW k \in DOMAIN jobs'[b],
                    jobs'[b][k].state = "completed", NEW o \in Chunk(b, k)'
             PROVE  rows'[o].status # "PENDING"
  BY DEF CompletedInv
<1>2. k \in DOMAIN jobs[b]
  BY <1>1, NewChunk
<1>3. o \in Chunk(b, k) /\ jobs[b][k] \in Job
  BY <1>1, <1>2, ChunksKept, ElementOfSeq, LenProperties DEF TypeInv, JobsOK
<1>4. rows[o].status # "PENDING"
  <2>1. CASE jobs[b][k].state = "completed"
    BY <1>2, <1>3, <2>1 DEF SettledInv, CompletedInv
  <2>2. CASE \E w \in Workers : Works(w, b, k) /\ work[w].at = "done"
    <3>1. PICK w \in Workers : Works(w, b, k) /\ work[w].at = "done"
      BY <2>2
    <3>2. ToSet(JobOf(w).orders) = Chunk(b, k)
      BY <3>1 DEF Works, JobOf, Chunk
    <3>3. QED
      BY <1>1, <1>3, <3>1, <3>2 DEF ChunkInv, SlotOK
  <2>3. /\ \A w \in Workers : Picked(w, b, k).state # "completed"
        /\ PutBack(b, k).state # "completed"
    BY <1>3 DEF Picked, PutBack, Job
  <2>4. QED
    BY <1>1, <1>2, <2>1, <2>2, <2>3, JobSteps
<1>5. QED
  BY <1>1, <1>2, <1>3, <1>4, ChunkRows

(* A stall is counted or ends the job; a waiting job has no owner.          *)
LEMMA StallCounts ==
  ASSUME TypeInv, NEW b \in Batches, NEW k \in DOMAIN jobs[b]
  PROVE  /\ PutBack(b, k).stalls = 0 => PutBack(b, k).state = "failed"
         /\ \A w \in Workers : PickJob(w, b, k) =>
              /\ jobs[b][k].state = "waiting" /\ jobs[b][k].owner = {}
              /\ Picked(w, b, k).tries = jobs[b][k].tries
              /\ Picked(w, b, k).stalls = jobs[b][k].stalls
<1>1. jobs[b][k] \in Job /\ GoodJob(jobs[b][k])
  BY ElementOfSeq, LenProperties DEF TypeInv, JobsOK
<1>2. jobs[b][k].stalls \in Nat /\ MaxStalls \in Nat
  BY <1>1, BulkAssumption DEF Job
<1>3. /\ PutBack(b, k).stalls = IF jobs[b][k].stalls < MaxStalls THEN jobs[b][k].stalls + 1
                                ELSE jobs[b][k].stalls
      /\ PutBack(b, k).state = IF jobs[b][k].stalls < MaxStalls THEN "waiting" ELSE "failed"
  BY <1>1 DEF PutBack, Job
<1>4. QED
  BY <1>1, <1>2, <1>3 DEF PickJob, Picked, Job, GoodJob

(* The steps of the queue keep it to one worker: a job that is picked       *)
(* waits, and one that waits again has failed or stalled.                   *)
LEMMA NextFirst ==
  ASSUME ChunkInv, FirstInv, [Next]_vars
  PROVE  FirstInv'
<1>1. TypeInv /\ TypeInv'
  BY NextType DEF ChunkInv
<1> SUFFICES ASSUME NEW b \in Batches, NEW k \in DOMAIN jobs'[b], NEW w \in Workers,
                    jobs'[b][k].tries = 0, jobs'[b][k].stalls = 0, Works(w, b, k)'
             PROVE  /\ jobs'[b][k].state \notin {"waiting", "completed"}
                    /\ jobs'[b][k].owner \in {{}, {w}}
  BY DEF FirstInv
<1>2. Works(w, b, k) \/ PickJob(w, b, k)
  <2>1. work'[w].at # "idle" /\ work'[w].job = <<b, k>>
    BY DEF Works
  <2>2. CASE work[w].at # "idle" /\ work'[w].job = work[w].job
    BY <2>1, <2>2 DEF Works
  <2>3. ASSUME NEW c \in Batches, NEW l \in DOMAIN jobs[c],
               PickJob(w, c, l), work'[w].job = <<c, l>>
        PROVE  PickJob(w, b, k)
    BY <2>1, <2>3
  <2>4. QED
    BY <1>1, <2>1, <2>2, <2>3, HoldsOn
<1>3. k \in DOMAIN jobs[b]
  <2>1. CASE Works(w, b, k)
    <3>1. PICK c \in Batches : \E l \in DOMAIN jobs[c] : work[w].job = <<c, l>>
      BY <1>1, <2>1, HeldJob DEF Works
    <3>2. QED
      BY <2>1, <3>1 DEF Works
  <2>2. CASE PickJob(w, b, k)
    BY <2>2 DEF PickJob
  <2>3. QED
    BY <1>2, <2>1, <2>2
<1>4. jobs[b][k] \in Job /\ GoodJob(jobs[b][k])
  BY <1>1, <1>3, ElementOfSeq, LenProperties DEF TypeInv, JobsOK
<1>5. ASSUME NEW v \in Workers, PickJob(v, b, k), jobs'[b][k] = Picked(v, b, k)
      PROVE  /\ jobs'[b][k].state \notin {"waiting", "completed"}
             /\ jobs'[b][k].owner \in {{}, {w}}
  <2>1. /\ jobs[b][k].state = "waiting" /\ jobs[b][k].tries = 0 /\ jobs[b][k].stalls = 0
    BY <1>1, <1>3, <1>5, StallCounts
  <2>2. ~Works(w, b, k)
    BY <1>3, <2>1 DEF FirstInv
  <2>3. w = v
    <3>1. PickJob(w, b, k)
      BY <1>2, <2>2
    <3>2. /\ work' = [work EXCEPT ![v] = TaskFor(b, k)] /\ work[w] = Idle
      BY <1>5, <3>1 DEF PickJob, TaskFor
    <3>3. w # v => work'[w] = Idle
      BY <1>1, <3>2 DEF TypeInv, WorkOK
    <3>4. QED
      BY <3>3 DEF Works, Idle
  <2>4. Picked(v, b, k).state = "active" /\ Picked(v, b, k).owner = {v}
    BY <1>4 DEF Picked, Job
  <2>5. QED
    BY <1>5, <2>3, <2>4
<1>6. CASE jobs'[b][k] = jobs[b][k]
  <2>1. ~PickJob(w, b, k)
    <3>1. ASSUME PickJob(w, b, k)
          PROVE  FALSE
      <4>1. jobs'[b][k] = Picked(w, b, k)
        <5>1. jobs' = [jobs EXCEPT ![b][k] = Picked(w, b, k)]
          BY <1>1, <1>3, <3>1, QueueJobs
        <5>2. QED
          BY <1>1, <1>3, <5>1 DEF TypeInv, JobsOK
      <4>2. Picked(w, b, k).state = "active" /\ jobs[b][k].state = "waiting"
        BY <1>4, <3>1 DEF Picked, Job, PickJob
      <4>3. QED
        BY <1>6, <4>1, <4>2
    <3>2. QED
      BY <3>1
  <2>2. QED
    BY <1>2, <1>3, <1>6, <2>1 DEF FirstInv
<1>7. CASE StalledCheck(b, k) /\ jobs'[b][k] = PutBack(b, k)
  <2>1. jobs'[b][k].state = "failed"
    BY <1>1, <1>3, <1>7, StallCounts
  <2>2. jobs'[b][k].owner = {}
    <3>1. jobs[b][k].owner = {}
      BY <1>7 DEF StalledCheck
    <3>2. PutBack(b, k).owner = jobs[b][k].owner
      BY <1>4 DEF PutBack, Job
    <3>3. QED
      BY <1>7, <3>1, <3>2
  <2>3. QED
    BY <2>1, <2>2
<1>8. CASE jobs'[b][k].state = "active" /\ jobs'[b][k].owner = {}
  BY <1>8
<1>9. ASSUME NEW v \in Workers, Works(v, b, k), Owns(v), work'[v].at = "idle",
             CompleteJob(v)
      PROVE  FALSE
  <2>1. work' = [work EXCEPT ![v] = Idle] /\ JobOf(v) = jobs[b][k]
    BY <1>9 DEF CompleteJob, EndJob, Works, JobOf
  <2>2. w # v /\ Works(w, b, k)
    <3>1. w # v
      BY <1>9 DEF Works
    <3>2. work'[w] = work[w]
      BY <1>1, <2>1, <3>1 DEF TypeInv, WorkOK
    <3>3. QED
      BY <3>1, <3>2 DEF Works
  <2>3. jobs[b][k].tries = 0 /\ jobs[b][k].stalls = 0
    <3> DEFINE j == [jobs[b][k] EXCEPT !.state = "completed", !.owner = {}]
    <3>1. jobs' = [jobs EXCEPT ![b][k] = j]
      BY <1>9, <2>1 DEF CompleteJob, EndJob, Works
    <3>2. jobs'[b][k] = j
      BY <1>1, <1>3, <3>1 DEF TypeInv, JobsOK
    <3>3. QED
      BY <1>4, <3>2 DEF Job
  <2>4. jobs[b][k].owner \in {{}, {w}}
    BY <1>3, <2>2, <2>3 DEF FirstInv
  <2>5. QED
    BY <1>9, <2>1, <2>2, <2>4 DEF Owns
<1>10. QED
  BY <1>1, <1>3, <1>5, <1>6, <1>7, <1>8, <1>9, JobSteps

(* A worker lets go of its job.                                             *)
LEMMA LetsGo ==
  ASSUME TypeInv, NEW b \in Batches, NEW k \in DOMAIN jobs[b], NEW w \in Workers,
         Works(w, b, k), Owns(w), CompleteJob(w) \/ FailJob(w) \/ WorkerDies(w)
  PROVE  jobs'[b][k].owner = {}
<1>1. PICK j : EndJob(w, j) /\ j \in Job /\ GoodJob(j) /\ j.owner = {}
  <2>1. \E i : /\ EndJob(w, i)
               /\ Owns(w) => /\ i \in Job /\ GoodJob(i)
                             /\ i.orders = JobOf(w).orders /\ i.owner = {}
                             /\ i.state = "completed" => work[w].at = "done"
                             /\ i.state = "waiting" => i.tries > 0
    BY EndingJob
  <2>2. QED
    BY <2>1
<1>2. jobs' = [jobs EXCEPT ![b][k] = j]
  BY <1>1 DEF EndJob, Works
<1>3. jobs'[b][k] = j
  BY <1>2 DEF TypeInv, JobsOK
<1>4. QED
  BY <1>1, <1>3

(* From between the row and the item a worker records the item, fails or    *)
(* dies.                                                                    *)
LEMMA Between ==
  ASSUME TypeInv, [Next]_vars, NEW w \in Workers, work[w].at \in {"item", "threw"}
  PROVE  \/ work'[w] = work[w]
         \/ work'[w].at = "threw" /\ work'[w].order = work[w].order /\ work'[w].job = work[w].job
         \/ RecordItem(w) \/ CompleteJob(w) \/ FailJob(w) \/ WorkerDies(w)
<1>1. work \in [Workers -> Task]
  BY DEF TypeInv, WorkOK
<1>2. CASE Step(w)
  <2>1. RecordItem(w) \/ Throw(w) \/ CompleteJob(w) \/ FailJob(w)
    BY <1>2 DEF Step, ReadRow, Start, CallCourier, CallFails, RecordRow, CountItems, UpdateBatch
  <2>2. ASSUME Throw(w)
        PROVE  work'[w].at = "threw" /\ work'[w].order = work[w].order
               /\ work'[w].job = work[w].job
    BY <1>1, <2>2 DEF Throw, Go, Task
  <2>3. QED
    BY <2>1, <2>2
<1>3. ASSUME NEW v \in Workers, v # w, Pick(v) \/ Step(v) \/ WorkerDies(v)
      PROVE  work'[w] = work[w]
  BY <1>1, <1>3 DEF Pick, PickJob, Step, ReadRow, Start, CallCourier, CallFails, RecordRow,
       RecordItem, CountItems, UpdateBatch, Throw, Go, CompleteJob, FailJob, WorkerDies, EndJob
<1>4. ~Pick(w)
  <2>1. work[w] # Idle
    BY DEF Idle
  <2>2. QED
    BY <2>1 DEF Pick, PickJob
<1>5. \/ work' = work
      \/ \E v \in Workers : Pick(v) \/ Step(v) \/ WorkerDies(v)
  BY DEF vars, Next, Submission, SubmitDies, Reserve, CreateBatch, Enqueue, Accepted,
         Stalled, StalledCheck, HttpBegin, HttpCall, HttpEnd, HttpDies, LoseLock
<1>6. QED
  BY <1>2, <1>3, <1>4, <1>5

(* The row has just been written: by the worker on this chunk, or by one on *)
(* another chunk with the order.                                            *)
LEMMA JustWritten ==
  ASSUME ChunkInv, [Next]_vars, NEW b \in Batches, NEW k \in DOMAIN jobs[b],
         NEW o \in Chunk(b, k) \ HttpOrders,
         rows[o].status = "PENDING", rows'[o].status # "PENDING"
  PROVE  Excused(b, k, o)'
<1>1. TypeInv /\ o \in Orders \ HttpOrders
  BY ChunkRows DEF ChunkInv
<1>2. rows'[o].status \notin Untouched
  BY <1>1, RowsForward DEF Untouched
<1>3. PICK w \in Workers :
        /\ RecordRow(w) /\ o \in DOMAIN work[w].answers
        /\ work'[w].order = {o} /\ work'[w].at \in {"item", "threw"}
        /\ work'[w].job = work[w].job
  BY <1>1, <1>2, RowSteps DEF Untouched
<1>4. PICK c \in Batches : \E l \in DOMAIN jobs[c] :
        work[w].job = <<c, l>> /\ o \in Chunk(c, l)
  BY <1>3, RowOfChunk
<1>5. PICK l \in DOMAIN jobs[c] : work[w].job = <<c, l>> /\ o \in Chunk(c, l)
  BY <1>4
<1>6. CASE <<c, l>> = <<b, k>>
  <2>1. work'[w].at # "idle" /\ work'[w].job = <<b, k>> /\ o \in work'[w].order
    BY <1>3, <1>5, <1>6
  <2>2. QED
    BY <1>3, <2>1 DEF Excused, Works
<1>7. CASE <<c, l>> # <<b, k>>
  <2>1. <<c, l>> \in JobIds \ {<<b, k>>} /\ o \in Chunk(<<c, l>>[1], <<c, l>>[2])
    <3>1. <<c, l>> \in JobIds
      BY JobIdsMember
    <3>2. QED
      BY <1>5, <1>7, <3>1
  <2>2. Shared(b, k, o)
    BY <2>1 DEF Shared
  <2>3. Shared(b, k, o)'
    BY <1>1, <2>2, ChunksKept
  <2>4. QED
    BY <2>3 DEF Excused
<1>8. QED
  BY <1>6, <1>7

(* The excuse of a row that was written before lasts as long as it is       *)
(* needed.                                                                  *)
LEMMA ExcuseLasts ==
  ASSUME ChunkInv, FirstInv, [Next]_vars, NEW b \in Batches, NEW k \in DOMAIN jobs[b],
         NEW o \in Chunk(b, k), items[b][o] = "PENDING", items'[b][o] = "PENDING",
         jobs[b][k].tries = 0, jobs[b][k].stalls = 0,
         Excused(b, k, o), jobs'[b][k] = jobs[b][k]
  PROVE  Excused(b, k, o)'
<1>1. TypeInv /\ o \in Orders
  BY ChunkRows DEF ChunkInv
<1>2. CASE Shared(b, k, o)
  <2>1. Shared(b, k, o)'
    BY <1>1, <1>2, ChunksKept
  <2>2. QED
    BY <2>1 DEF Excused
<1>3. CASE \/ jobs[b][k].state = "failed"
           \/ jobs[b][k].state = "active" /\ jobs[b][k].owner = {}
  BY <1>3 DEF Excused
<1>4. ASSUME NEW w \in Workers, Works(w, b, k), work[w].at \in {"item", "threw"},
             o \in work[w].order
      PROVE  Excused(b, k, o)'
  <2>1. CASE work'[w].at = "threw" /\ work'[w].order = work[w].order
             /\ work'[w].job = work[w].job
    BY <1>4, <2>1 DEF Excused, Works
  <2>2. CASE work'[w] = work[w]
    BY <1>4, <2>2 DEF Excused, Works
  <2>3. ASSUME RecordItem(w)
        PROVE  FALSE
    <3>1. work[w].order = {o} /\ BatchOf(w) = b
      BY <1>4, <2>3 DEF RecordItem, ChunkInv, SlotOK, Works, BatchOf
    <3>2. items' = [items EXCEPT ![b][o] = ItemAfter(work[w].answers[o])]
      BY <2>3, <3>1 DEF RecordItem
    <3>3. items'[b][o] = ItemAfter(work[w].answers[o])
      BY <1>1, <3>2 DEF TypeInv, TablesOK
    <3>4. QED
      BY <3>3 DEF ItemAfter
  <2>4. ASSUME CompleteJob(w) \/ FailJob(w) \/ WorkerDies(w)
        PROVE  Excused(b, k, o)'
    <3>1. JobOf(w) = jobs[b][k]
      BY <1>4 DEF Works, JobOf
    <3>2. ~Owns(w)
      BY <1>1, <1>4, <2>4, <3>1, LetsGo DEF Owns
    <3>3. jobs[b][k].owner = {} /\ jobs[b][k].state \in {"active", "failed"}
      <4>1. jobs[b][k] \in Job
        BY <1>1, ElementOfSeq, LenProperties DEF TypeInv, JobsOK
      <4>2. /\ jobs[b][k].state \notin {"waiting", "completed"}
            /\ jobs[b][k].owner \in {{}, {w}}
        BY <1>4 DEF FirstInv
      <4>3. QED
        BY <3>1, <3>2, <4>1, <4>2 DEF Owns, Job
    <3>4. QED
      BY <1>3, <3>3
  <2>5. QED
    BY <1>1, <1>4, <2>1, <2>2, <2>3, <2>4, Between
<1>5. QED
  BY <1>2, <1>3, <1>4 DEF Excused

LEMMA NextSettle ==
  ASSUME SettledInv, [Next]_vars
  PROVE  SettleInv'
<1>1. ChunkInv /\ TypeInv /\ ChunkInv' /\ TypeInv'
  BY NextChunks DEF SettledInv, ChunkInv
<1> SUFFICES ASSUME NEW b \in Batches, NEW k \in DOMAIN jobs'[b],
                    NEW o \in Chunk(b, k)' \ HttpOrders,
                    items'[b][o] = "PENDING", rows'[o].status # "PENDING",
                    jobs'[b][k].tries = 0, jobs'[b][k].stalls = 0
             PROVE  Excused(b, k, o)'
  BY DEF SettleInv
<1>2. CASE k \notin DOMAIN jobs[b]
  <2>1. rows' = rows
    BY <1>1, <1>2, NewChunk
  <2>2. o \in Orders /\ rows'[o].status # "ABSENT"
    <3>1. jobs'[b][k] \in Job
      BY <1>1, ElementOfSeq, LenProperties DEF TypeInv, JobsOK
    <3>2. o \in Orders
      BY <3>1, ElementOfSeq, LenProperties DEF Chunk, ToSet, Job
    <3>3. sub'[b].seeds[o] = "PENDING"
      BY <1>1 DEF ChunkInv, ChunkOK
    <3>4. QED
      BY <1>1, <3>2, <3>3 DEF ChunkInv, RowsOK
  <2>3. PICK id \in JobIds : o \in Chunk(id[1], id[2])
    BY <2>1, <2>2 DEF SettledInv, TouchedInv, Untouched
  <2>4. id \in JobIds' /\ o \in Chunk(id[1], id[2])' /\ id # <<b, k>>
    BY <1>1, <1>2, <2>3, ChunksKept, JobIdsMember
  <2>5. Shared(b, k, o)'
    BY <2>4 DEF Shared
  <2>6. QED
    BY <2>5 DEF Excused
<1>3. CASE k \in DOMAIN jobs[b]
  <2>1. /\ o \in Chunk(b, k) \ HttpOrders /\ o \in Orders
        /\ jobs[b][k] \in Job
    <3>1. o \in Chunk(b, k) \ HttpOrders
      BY <1>1, <1>3, ChunksKept
    <3>2. QED
      BY <1>1, <1>3, <3>1, ChunkRows, ElementOfSeq, LenProperties DEF TypeInv, JobsOK
  <2>2. items[b][o] = "PENDING"
    <3>1. items[b][o] # "none"
      BY <1>1, <1>3, <2>1 DEF ChunkInv, ChunkOK
    <3>2. QED
      BY <1>1, <2>1, <3>1, ItemSteps
  <2>3. CASE rows[o].status = "PENDING"
    BY <1>1, <1>3, <2>1, <2>3, JustWritten
  <2>4. CASE rows[o].status # "PENDING"
    <3>1. ASSUME jobs[b][k].tries = 0, jobs[b][k].stalls = 0
          PROVE  Excused(b, k, o)
      BY <1>3, <2>1, <2>2, <2>4, <3>1 DEF SettledInv, SettleInv
    <3>2. CASE jobs'[b][k] = jobs[b][k]
      BY <1>1, <1>3, <2>1, <2>2, <3>1, <3>2, ExcuseLasts DEF SettledInv
    <3>3. ASSUME jobs[b][k].tries = 0, jobs[b][k].stalls = 0,
                 ~Shared(b, k, o), jobs[b][k].state # "failed",
                 jobs[b][k].state # "active" \/ jobs[b][k].owner # {}
          PROVE  \E w \in Workers : /\ jobs[b][k].owner = {w} /\ jobs[b][k].state = "active"
                                    /\ work[w].at \in {"item", "threw"}
      <4>1. PICK w \in Workers : Works(w, b, k) /\ work[w].at \in {"item", "threw"}
        BY <3>1, <3>3 DEF Excused
      <4>2. /\ jobs[b][k].state \notin {"waiting", "completed"}
            /\ jobs[b][k].owner \in {{}, {w}}
        BY <1>3, <3>3, <4>1 DEF SettledInv, FirstInv
      <4>3. QED
        BY <2>1, <3>3, <4>1, <4>2 DEF Job
    <3>4. ASSUME Shared(b, k, o)
          PROVE  Excused(b, k, o)'
      <4>1. Shared(b, k, o)'
        BY <1>1, <1>3, <3>4, ChunksKept
      <4>2. QED
        BY <4>1 DEF Excused
    <3>5. CASE \E w \in Workers : PickJob(w, b, k) /\ jobs'[b][k] = Picked(w, b, k)
      <4>1. /\ jobs[b][k].state = "waiting" /\ jobs[b][k].owner = {}
            /\ jobs[b][k].tries = 0 /\ jobs[b][k].stalls = 0
        BY <1>1, <1>3, <3>5, StallCounts
      <4>2. QED
        BY <3>3, <3>4, <4>1
    <3>6. CASE StalledCheck(b, k) /\ jobs'[b][k] = PutBack(b, k)
      BY <1>1, <1>3, <3>6, StallCounts DEF Excused
    <3>7. CASE jobs'[b][k].state = "active" /\ jobs'[b][k].owner = {}
      BY <3>7 DEF Excused
    <3>8. ASSUME NEW w \in Workers, Works(w, b, k), Owns(w), CompleteJob(w), work[w].at = "done"
          PROVE  Excused(b, k, o)'
      <4>1. JobOf(w) = jobs[b][k] /\ jobs[b][k].owner = {w} /\ jobs[b][k].state = "active"
        <5>1. JobOf(w) = jobs[b][k] /\ GoodJob(jobs[b][k])
          BY <1>1, <1>3, <3>8 DEF Works, JobOf, TypeInv, JobsOK
        <5>2. QED
          BY <3>8, <5>1 DEF Owns, GoodJob
      <4>2. jobs' = [jobs EXCEPT ![b][k] = [jobs[b][k] EXCEPT !.state = "completed", !.owner = {}]]
        BY <3>8, <4>1 DEF CompleteJob, EndJob, Works
      <4> DEFINE j == [jobs[b][k] EXCEPT !.state = "completed", !.owner = {}]
      <4>3. j \in Job /\ GoodJob(j) /\ j.tries = jobs[b][k].tries /\ j.stalls = jobs[b][k].stalls
        <5>1. GoodJob(jobs[b][k])
          BY <1>1, <1>3 DEF TypeInv, JobsOK
        <5>2. QED
          BY <2>1, <5>1 DEF Job, GoodJob
      <4> HIDE DEF j
      <4>4. jobs'[b][k] = j
        <5>1. jobs' = [jobs EXCEPT ![b][k] = j]
          BY <4>2 DEF j
        <5>2. QED
          BY <1>1, <1>3, <5>1 DEF TypeInv, JobsOK
      <4>5. jobs[b][k].tries = 0 /\ jobs[b][k].stalls = 0
        BY <4>3, <4>4
      <4>6. ASSUME ~Shared(b, k, o)
            PROVE  FALSE
        <5>1. PICK v \in Workers :
                jobs[b][k].owner = {v} /\ work[v].at \in {"item", "threw"}
          BY <3>3, <4>1, <4>5, <4>6
        <5>2. v = w
          BY <4>1, <5>1
        <5>3. QED
          BY <3>8, <5>1, <5>2
      <4>7. QED
        BY <3>4, <4>6
    <3>9. QED
      BY <1>1, <1>3, <3>2, <3>5, <3>6, <3>7, <3>8, JobSteps
  <2>5. QED
    BY <2>3, <2>4
<1>4. QED
  BY <1>2, <1>3

(* A chunk that completes leaves none of its orders PENDING, and its first  *)
(* attempt leaves no item behind either but of orders that others worked on *)
(* too.                                                                     *)
THEOREM CompletedSettles == Spec => []CompletedChunkSettles
<1>1. SettledInv /\ [Next]_vars => SettledInv'
  BY NextChunks, NextFirst, NextTouched, NextCompleted, NextSettle DEF SettledInv
<1>2. ASSUME SettledInv
      PROVE  CompletedChunkSettles
  <2> SUFFICES ASSUME NEW b \in Batches, NEW k \in DOMAIN jobs[b],
                      jobs[b][k].state = "completed", NEW o \in Chunk(b, k)
               PROVE  /\ rows[o].status # "PENDING"
                      /\ jobs[b][k].tries = 0 /\ jobs[b][k].stalls = 0 /\ o \notin HttpOrders
                         /\ items[b][o] = "PENDING" => Shared(b, k, o)
    BY DEF CompletedChunkSettles, Shared, Chunk, JobIds
  <2>1. rows[o].status # "PENDING"
    BY <1>2 DEF SettledInv, CompletedInv
  <2>2. ASSUME NEW w \in Workers, Works(w, b, k),
               jobs[b][k].tries = 0, jobs[b][k].stalls = 0
        PROVE  FALSE
    BY <1>2, <2>2 DEF SettledInv, FirstInv
  <2>3. QED
    BY <1>2, <2>1, <2>2 DEF SettledInv, SettleInv, Excused
<1>3. QED
  BY InitSettled, <1>1, <1>2, PTL DEF Spec

=============================================================================
