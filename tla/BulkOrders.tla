----------------------------- MODULE BulkOrders -----------------------------
(***************************************************************************)
(* POST /orders/bulk and the worker behind it. A submission reserves a row *)
(* per order, records the batch and queues the orders in chunks; workers   *)
(* take chunks off the queue, call the courier natively or order by order, *)
(* record each outcome on the row and on the batch item, and close the     *)
(* batch when no item is left. The steps below are the database statements,*)
(* the courier calls and the queue operations.                             *)
(*                                                                         *)
(*   native  the couriers whose adapter supports batch creation            *)
(*   rows    the orders table: status, and whether the row has an AWB      *)
(*   booked  the couriers' books: <<c, o>> when c has order o              *)
(*   batch   bulk_batches.status, "none" before the batch is created       *)
(*   items   bulk_batch_items.status per batch and order                   *)
(*   sub     where each submission is; its entries, those it still has to  *)
(*           reserve, the orders to queue at each courier and the items it *)
(*           will create                                                   *)
(*   jobs    the chunk jobs of each batch, in the order they were queued   *)
(*   work    what each worker slot is doing with which job                 *)
(*   http    the POST /orders and /retry under way: order, courier and     *)
(*           what the courier answered                                     *)
(*                                                                         *)
(* Each entry names the courier that gets its order, whatever courier an   *)
(* earlier request for the order named: the row is not asked. A request    *)
(* with more than maxOrders entries is refused before anything else and    *)
(* left out.                                                               *)
(* CREATED stands for every status a courier reports of a shipment.        *)
(***************************************************************************)
EXTENDS Naturals, Sequences, SequencesExt

CONSTANTS
  Orders,       \* order ids
  Batches,      \* the bulk submissions of a behaviour
  Couriers,     \* the couriers requests name
  Registry,     \* those that have an adapter
  Submissions,  \* each a choice of requests: the entries of submission b
  ChunkSize,    \* max(1, capabilities.maxBatchSize) of each adapter
  NativeModes,  \* each a choice of the adapters that support batch creation
  Workers,      \* worker slots: processes times concurrency
  JobAttempts,  \* BULK_JOB_ATTEMPTS
  MaxStalls,    \* how often BullMQ puts a job of a vanished worker back
  LocksExpire,  \* may a worker that is alive lose the lock on its job?
  HttpOrders    \* the orders clients also send to /orders and /retry

ASSUME BulkAssumption ==
  /\ \A requests \in Submissions :
       /\ DOMAIN requests \subseteq Batches
       /\ \A b \in DOMAIN requests :
            requests[b] \in Seq([order : Orders, courier : Couriers, wellFormed : BOOLEAN])
  /\ Registry \subseteq Couriers /\ NativeModes \subseteq SUBSET Registry
  /\ ChunkSize \in [Registry -> Nat \ {0}]
  /\ JobAttempts \in Nat \ {0} /\ MaxStalls \in Nat
  /\ LocksExpire \in BOOLEAN /\ HttpOrders \subseteq Orders

VARIABLES native, rows, booked, batch, items, sub, jobs, work, http

vars == <<native, rows, booked, batch, items, sub, jobs, work, http>>
tables == <<rows, batch, items>>

-----------------------------------------------------------------------------
(* Values *)

RowStatus  == {"ABSENT", "PENDING", "CREATED", "FAILED", "RECONCILIATION_REQUIRED"}
BatchStatus == {"PROCESSING", "COMPLETED", "COMPLETED_WITH_ERRORS"}
ItemStatus == {"PENDING", "SUCCEEDED", "FAILED", "DUPLICATE"}

(* What comes of an order in a courier call: "missing" is no outcome in a   *)
(* native answer, "down" a retryable failure of a single call.              *)
Answers == {"ok", "duplicate", "rejected", "missing", "down"}

Row == [status : RowStatus, awb : BOOLEAN]

NoJob == <<>>
Idle == [at |-> "idle", job |-> NoJob, adapter |-> "none", unread |-> <<>>, rows |-> <<>>,
         answers |-> <<>>, order |-> {}, verdict |-> "PROCESSING"]

JobOf(w) == jobs[work[w].job[1]][work[w].job[2]]
BatchOf(w) == work[w].job[1]
Owns(w) == JobOf(w).owner = {w}

(* Worker w goes on to step at.                                             *)
Go(w, at) == work' = [work EXCEPT ![w].at = at]

Min2(m, n) == IF m < n THEN m ELSE n

-----------------------------------------------------------------------------
(* The submission *)

(* Entries that fail createOrderSchema, name no registered courier or       *)
(* repeat an accepted order id are rejected: what is left are the positions *)
(* of the others.                                                           *)
valid(entry) == entry.wellFormed /\ entry.courier \in Registry

accepted(entries) ==
  {i \in DOMAIN entries :
     /\ valid(entries[i])
     /\ \A j \in 1..(i - 1) : valid(entries[j]) => entries[j].order # entries[i].order}

(* The courier a request with these entries names for order o: what its     *)
(* item in the batch shows.                                                 *)
courierPartner(entries, o) ==
  CHOOSE c \in Couriers :
    \E i \in accepted(entries) : entries[i].order = o /\ entries[i].courier = c

InsertRow(o) == rows' = [rows EXCEPT ![o].status = "PENDING"]

(* reserve: the insert creates the row or conflicts and reads it back; rows *)
(* are never deleted, so the two statements act as the second alone. An     *)
(* existing row that is still PENDING is queued like a new one, at the      *)
(* courier this request names. The first of the entries left is next.       *)
Reserve(b) ==
  /\ sub[b].at = "reserving"
  /\ \E i \in sub[b].todo :
       LET o == sub[b].entries[i].order
           c == sub[b].entries[i].courier
           fresh == rows[o].status \in {"ABSENT", "PENDING"}
       IN /\ \A j \in sub[b].todo : i <= j
          /\ IF rows[o].status = "ABSENT" THEN InsertRow(o) ELSE UNCHANGED rows
          /\ sub' = [sub EXCEPT ![b].todo = @ \ {i},
                                ![b].queued[c] = IF fresh THEN Append(@, o) ELSE @,
                                ![b].seeds[o] = IF fresh THEN "PENDING" ELSE "DUPLICATE"]
  /\ UNCHANGED <<native, booked, batch, items, jobs, work, http>>

(* batches.create: the batch and its items in one transaction.              *)
CreateBatch(b) ==
  /\ sub[b].at = "reserving" /\ sub[b].todo = {}
  /\ batch' = [batch EXCEPT ![b] = "PROCESSING"]
  /\ items' = [items EXCEPT ![b] = sub[b].seeds]
  /\ sub' = [sub EXCEPT ![b].at = "enqueueing"]
  /\ UNCHANGED <<native, rows, booked, jobs, work, http>>

ChunkJob(c, orders) ==
  [courier |-> c, orders |-> orders, state |-> "waiting", tries |-> 0, stalls |-> 0,
   owner |-> {}]

(* Mutant: all orders of a courier in one chunk, whatever its batch size.   *)
EnqueueAll(b) ==
  /\ sub[b].at = "enqueueing"
  /\ \E c \in Registry :
       /\ sub[b].queued[c] # <<>>
       /\ jobs' = [jobs EXCEPT ![b] = Append(@, ChunkJob(c, sub[b].queued[c]))]
       /\ sub' = [sub EXCEPT ![b].queued[c] = <<>>]
  /\ UNCHANGED <<native, rows, booked, batch, items, work, http>>

(* byCourier: the groups are independent, so any of them may go first.      *)
Enqueue(b) ==
  /\ sub[b].at = "enqueueing"
  /\ \E c \in Registry :
       LET left == sub[b].queued[c]
           n == Min2(ChunkSize[c], Len(left))
       IN /\ left # <<>>
          /\ jobs' = [jobs EXCEPT ![b] = Append(@, ChunkJob(c, SubSeq(left, 1, n)))]
          /\ sub' = [sub EXCEPT ![b].queued[c] = SubSeq(left, n + 1, Len(left))]
  /\ UNCHANGED <<native, rows, booked, batch, items, work, http>>

Accepted(b) ==
  /\ sub[b].at = "enqueueing" /\ \A c \in Registry : sub[b].queued[c] = <<>>
  /\ sub' = [sub EXCEPT ![b].at = "answered"]
  /\ UNCHANGED <<native, rows, booked, batch, items, jobs, work, http>>

(* The server dies, or a statement or queue.add fails: nothing is undone.   *)
SubmitDies(b) ==
  /\ sub[b].at \in {"reserving", "enqueueing"}
  /\ sub' = [sub EXCEPT ![b].at = "died"]
  /\ UNCHANGED <<native, rows, booked, batch, items, jobs, work, http>>

-----------------------------------------------------------------------------
(* processChunk *)

(* BullMQ hands a waiting job to a free slot.                               *)
PickJob(w, b, k) ==
  /\ work[w] = Idle
  /\ k \in DOMAIN jobs[b] /\ jobs[b][k].state = "waiting"
  /\ jobs' = [jobs EXCEPT ![b][k].state = "active", ![b][k].owner = {w}]
  /\ work' = [work EXCEPT ![w] = [Idle EXCEPT !.at = "read", !.job = <<b, k>>,
                                              !.adapter = jobs[b][k].courier,
                                              !.unread = jobs[b][k].orders]]
  /\ UNCHANGED <<native, rows, booked, batch, items, sub, http>>

(* Mutant: a chunk that is run again takes up the orders that failed too.   *)
ReadRowFailedToo(w) ==
  /\ work[w].at = "read" /\ work[w].unread # <<>>
  /\ LET o == Head(work[w].unread) IN
       work' = [work EXCEPT ![w].unread = Tail(@),
                            ![w].rows = IF rows[o].status \in {"PENDING", "FAILED"}
                                          THEN Append(@, o) ELSE @]
  /\ UNCHANGED <<native, rows, booked, batch, items, sub, jobs, http>>

(* Each row of the chunk is read by a statement of its own; only PENDING    *)
(* ones are kept.                                                           *)
ReadRow(w) ==
  /\ work[w].at = "read" /\ work[w].unread # <<>>
  /\ LET o == Head(work[w].unread) IN
       work' = [work EXCEPT ![w].unread = Tail(@),
                            ![w].rows = IF rows[o].status = "PENDING"
                                          THEN Append(@, o) ELSE @]
  /\ UNCHANGED <<native, rows, booked, batch, items, sub, jobs, http>>

(* Mutant: a chunk with nothing left to do returns without a refresh.       *)
StartNothingLeft(w) ==
  /\ work[w].at = "read" /\ work[w].unread = <<>>
  /\ Go(w, IF work[w].rows = <<>> THEN "done" ELSE "call")
  /\ UNCHANGED <<native, rows, booked, batch, items, sub, jobs, http>>

Start(w) ==
  /\ work[w].at = "read" /\ work[w].unread = <<>>
  /\ Go(w, IF work[w].rows = <<>> THEN "count" ELSE "call")
  /\ UNCHANGED <<native, rows, booked, batch, items, sub, jobs, http>>

(* One native call for all rows, or one call for the next of them.          *)
Natively(w) == work[w].adapter \in native /\ Len(work[w].rows) > 1
Called(w) == IF Natively(w) THEN ToSet(work[w].rows) ELSE {Head(work[w].rows)}

(* Courier c books an order at most once: "ok" for one it did not have,     *)
(* "duplicate" for one it has. An order that is refused, left out of the    *)
(* answer or cut off by a failure may have been booked nonetheless. What    *)
(* other couriers have on their books it does not know.                     *)
Possible(c, o, answer, new) ==
  /\ new => <<c, o>> \notin booked
  /\ answer = "ok" => new
  /\ answer = "duplicate" => <<c, o>> \in booked

(* What comes of the orders of a native call that is answered (derived from *)
(* the body in ManifestAnswer), and of the order of a single one.           *)
NativeAnswers(chunk) == [chunk -> Answers \ {"down"}]
SingleAnswers(chunk) == [chunk -> Answers \ {"missing"}]

(* The rows left in work[w].rows are those no call was made for yet.        *)
CallCourier(w) ==
  /\ work[w].at = "call"
  /\ \E new \in SUBSET Called(w),
        answers \in IF Natively(w) THEN NativeAnswers(Called(w)) ELSE SingleAnswers(Called(w)) :
       /\ \A o \in Called(w) : Possible(work[w].adapter, o, answers[o], o \in new)
       /\ booked' = booked \cup ({work[w].adapter} \X new)
       /\ work' = [work EXCEPT ![w].at = "row", ![w].answers = answers,
                               ![w].rows = IF Natively(w) THEN <<>> ELSE Tail(@)]
  /\ UNCHANGED <<native, rows, batch, items, sub, jobs, http>>

(* What is written on the row of an order; only markShipmentCreated touches *)
(* the AWB.                                                                 *)
RowAfter(row, answer) ==
  CASE answer = "ok"        -> [status |-> "CREATED", awb |-> TRUE]
    [] answer = "duplicate" -> [row EXCEPT !.status = "RECONCILIATION_REQUIRED"]
    [] OTHER                -> [row EXCEPT !.status = "FAILED"]

(* Mutant: an order the courier already had counts as shipped.              *)
ItemAfterDuplicateIsFine(answer) ==
  IF answer \in {"ok", "duplicate"} THEN "SUCCEEDED" ELSE "FAILED"

ItemAfter(answer) == IF answer = "ok" THEN "SUCCEEDED" ELSE "FAILED"

(* Mutant: orders the courier's answer left out are forgotten.              *)
RecordRowForgetsMissing(w) ==
  /\ work[w].at = "row"
  /\ IF ToSet(work[w].answers) = {"missing"}
       THEN Go(w, "count") /\ UNCHANGED rows
       ELSE \E o \in DOMAIN work[w].answers :
              /\ work[w].answers[o] # "missing"
              /\ rows' = [rows EXCEPT ![o] = RowAfter(@, work[w].answers[o])]
              /\ work' = [work EXCEPT ![w].order = {o},
                            ![w].at = IF work[w].answers[o] = "down" THEN "threw" ELSE "item"]
  /\ UNCHANGED <<native, booked, batch, items, sub, jobs, http>>

(* Orders the courier's answer left out come last. An order a retryable     *)
(* failure hit is recorded on its row, then the error ends the job.         *)
RecordRow(w) ==
  /\ work[w].at = "row"
  /\ \E o \in DOMAIN work[w].answers :
       LET answer == work[w].answers[o] IN
         /\ answer = "missing" => ToSet(work[w].answers) = {"missing"}
         /\ rows' = [rows EXCEPT ![o] = RowAfter(@, answer)]
         /\ work' = [work EXCEPT ![w].order = {o},
                                 ![w].at = IF answer = "down" THEN "threw" ELSE "item"]
  /\ UNCHANGED <<native, booked, batch, items, sub, jobs, http>>

(* Mutant: an outcome is recorded on the item only when there is an AWB.    *)
RecordItemSuccessOnly(w) ==
  /\ work[w].at = "item"
  /\ \E o \in work[w].order :
       LET left == Restrict(work[w].answers, DOMAIN work[w].answers \ {o}) IN
         /\ items' = IF work[w].answers[o] # "ok" THEN items
                     ELSE [items EXCEPT ![BatchOf(w)][o] = "SUCCEEDED"]
         /\ work' = [work EXCEPT ![w].order = {}, ![w].answers = left,
                       ![w].at = IF left # <<>> THEN "row"
                                 ELSE IF work[w].rows # <<>> THEN "call" ELSE "count"]
  /\ UNCHANGED <<native, rows, booked, batch, sub, jobs, http>>

(* recordOutcome, and on to the next outcome, the next call or the refresh. *)
RecordItem(w) ==
  /\ work[w].at = "item"
  /\ \E o \in work[w].order :
       LET left == Restrict(work[w].answers, DOMAIN work[w].answers \ {o}) IN
         /\ items' = [items EXCEPT ![BatchOf(w)][o] = ItemAfter(work[w].answers[o])]
         /\ work' = [work EXCEPT ![w].order = {}, ![w].answers = left,
                       ![w].at = IF left # <<>> THEN "row"
                                 ELSE IF work[w].rows # <<>> THEN "call" ELSE "count"]
  /\ UNCHANGED <<native, rows, booked, batch, sub, jobs, http>>

ItemsOf(b) == {items[b][o] : o \in Orders}

(* Mutant: the count misses items that are still PENDING.                   *)
CountItemsFailedOnly(w) ==
  /\ work[w].at = "count"
  /\ work' = [work EXCEPT ![w].at = "update",
                 ![w].verdict = IF "FAILED" \in ItemsOf(BatchOf(w))
                                  THEN "COMPLETED_WITH_ERRORS" ELSE "COMPLETED"]
  /\ UNCHANGED <<native, rows, booked, batch, items, sub, jobs, http>>

(* refreshStatus counts in one statement and updates in another.            *)
CountItems(w) ==
  /\ work[w].at = "count"
  /\ LET found == ItemsOf(BatchOf(w)) IN
       work' = [work EXCEPT ![w].at = IF "PENDING" \in found THEN "done" ELSE "update",
                            ![w].verdict = IF "FAILED" \in found
                                             THEN "COMPLETED_WITH_ERRORS" ELSE "COMPLETED"]
  /\ UNCHANGED <<native, rows, booked, batch, items, sub, jobs, http>>

UpdateBatch(w) ==
  /\ work[w].at = "update"
  /\ batch' = [batch EXCEPT ![BatchOf(w)] = work[w].verdict]
  /\ Go(w, "done")
  /\ UNCHANGED <<native, rows, booked, items, sub, jobs, http>>

(* A native call fails as a whole, or an error that is no AppError comes    *)
(* out of a call: nothing is recorded, whatever the courier has booked.     *)
CallFails(w) ==
  /\ work[w].at = "call"
  /\ \E new \in SUBSET Called(w) : booked' = booked \cup ({work[w].adapter} \X new)
  /\ Go(w, "threw")
  /\ UNCHANGED <<native, rows, batch, items, sub, jobs, http>>

(* A statement fails: the processor rethrows.                               *)
Throw(w) ==
  /\ work[w].at \in {"read", "row", "item", "count", "update"}
  /\ Go(w, "threw")
  /\ UNCHANGED <<native, rows, booked, batch, items, sub, jobs, http>>

-----------------------------------------------------------------------------
(* The queue (external): BullMQ as the options of queue.add configure it.   *)

EndJob(w, job) ==
  /\ jobs' = IF Owns(w)
               THEN [jobs EXCEPT ![work[w].job[1]][work[w].job[2]] = job]
               ELSE jobs
  /\ work' = [work EXCEPT ![w] = Idle]
  /\ UNCHANGED <<native, rows, booked, batch, items, sub, http>>

(* A worker that lost its lock cannot settle the job.                       *)
CompleteJob(w) ==
  /\ work[w].at = "done"
  /\ EndJob(w, [JobOf(w) EXCEPT !.state = "completed", !.owner = {}])

(* Mutant: the attempts of a chunk are not counted.                         *)
FailJobUncounted(w) ==
  /\ work[w].at = "threw"
  /\ EndJob(w, [JobOf(w) EXCEPT !.state = "waiting", !.owner = {}])

FailJob(w) ==
  /\ work[w].at = "threw"
  /\ LET tries == JobOf(w).tries + 1 IN
       EndJob(w, [JobOf(w) EXCEPT !.state = IF tries < JobAttempts THEN "waiting" ELSE "failed",
                                  !.tries = tries, !.owner = {}])

WorkerDies(w) ==
  /\ work[w] # Idle
  /\ EndJob(w, [JobOf(w) EXCEPT !.owner = {}])

LoseLock(w) ==
  /\ LocksExpire /\ work[w] # Idle /\ Owns(w)
  /\ jobs' = [jobs EXCEPT ![work[w].job[1]][work[w].job[2]].owner = {}]
  /\ UNCHANGED <<native, tables, booked, sub, work, http>>

(* A job nobody holds is put back, MaxStalls times at most.                 *)
StalledCheck(b, k) ==
  /\ k \in DOMAIN jobs[b] /\ jobs[b][k].state = "active" /\ jobs[b][k].owner = {}
  /\ jobs' = [jobs EXCEPT
       ![b][k].state = IF jobs[b][k].stalls < MaxStalls THEN "waiting" ELSE "failed",
       ![b][k].stalls = IF @ < MaxStalls THEN @ + 1 ELSE @]
  /\ UNCHANGED <<native, tables, booked, sub, work, http>>

-----------------------------------------------------------------------------
(* POST /orders and POST /orders/:id/retry on the same orders: the row is   *)
(* inserted or found without an AWB, the courier is called, its answer is   *)
(* written. A create calls the courier it names, a retry the courier that   *)
(* an earlier create named: any courier here. One request at a time is      *)
(* under way for an order; how they overlap is the subject of OrderService. *)

Unanswered == "none"

HttpBegin(o, c) ==
  /\ o \in HttpOrders /\ \A r \in http : r.order # o
  /\ ~rows[o].awb /\ rows[o].status # "RECONCILIATION_REQUIRED"
  /\ IF rows[o].status = "ABSENT" THEN InsertRow(o) ELSE UNCHANGED rows
  /\ http' = http \cup {[order |-> o, courier |-> c, answer |-> Unanswered]}
  /\ UNCHANGED <<native, booked, batch, items, sub, jobs, work>>

HttpCall(r) ==
  /\ r.answer = Unanswered
  /\ \E new \in BOOLEAN, answer \in Answers \ {"missing"} :
       /\ Possible(r.courier, r.order, answer, new)
       /\ booked' = IF new THEN booked \cup {<<r.courier, r.order>>} ELSE booked
       /\ http' = (http \ {r}) \cup {[r EXCEPT !.answer = answer]}
  /\ UNCHANGED <<native, tables, sub, jobs, work>>

HttpEnd(r) ==
  /\ r.answer # Unanswered
  /\ rows' = [rows EXCEPT ![r.order] = RowAfter(@, r.answer)]
  /\ http' = http \ {r}
  /\ UNCHANGED <<native, booked, batch, items, sub, jobs, work>>

(* The server dies before the call, during it or before the row is written. *)
HttpDies(r) ==
  /\ http' = http \ {r}
  /\ UNCHANGED <<native, tables, booked, sub, jobs, work>>

-----------------------------------------------------------------------------
Init ==
  /\ native \in NativeModes
  /\ rows = [o \in Orders |-> [status |-> "ABSENT", awb |-> FALSE]]
  /\ booked = {}
  /\ batch = [b \in Batches |-> "none"]
  /\ items = [b \in Batches |-> [o \in Orders |-> "none"]]
  /\ \E requests \in Submissions :
       sub = [b \in Batches |->
                [at |-> IF b \in DOMAIN requests THEN "reserving" ELSE "none",
                 entries |-> IF b \in DOMAIN requests THEN requests[b] ELSE <<>>,
                 todo |-> IF b \in DOMAIN requests THEN accepted(requests[b]) ELSE {},
                 queued |-> [c \in Registry |-> <<>>],
                 seeds |-> [o \in Orders |-> "none"]]]
  /\ jobs = [b \in Batches |-> <<>>]
  /\ work = [w \in Workers |-> Idle]
  /\ http = {}

Submission(b) == Reserve(b) \/ CreateBatch(b) \/ Enqueue(b) \/ Accepted(b)

Step(w) ==
  \/ ReadRow(w) \/ Start(w) \/ CallCourier(w) \/ CallFails(w)
  \/ RecordRow(w) \/ RecordItem(w)
  \/ CountItems(w) \/ UpdateBatch(w) \/ Throw(w) \/ CompleteJob(w) \/ FailJob(w)

JobIds == UNION {{b} \X (DOMAIN jobs[b]) : b \in Batches}

Pick(w) == \E id \in JobIds : PickJob(w, id[1], id[2])

Stalled == \E id \in JobIds : StalledCheck(id[1], id[2])

Next ==
  \/ \E b \in Batches : Submission(b) \/ SubmitDies(b)
  \/ \E w \in Workers : Pick(w) \/ Step(w) \/ WorkerDies(w) \/ LoseLock(w)
  \/ Stalled
  \/ \E o \in Orders, c \in Registry : HttpBegin(o, c)
  \/ \E r \in http : HttpCall(r) \/ HttpEnd(r) \/ HttpDies(r)

Spec == Init /\ [][Next]_vars

(* A slot that holds a job goes on (every courier call has a timeout and a  *)
(* bounded number of attempts), a free slot takes a waiting job (the        *)
(* supervisor replaces a worker that does not), and BullMQ looks for        *)
(* stalled jobs periodically.                                               *)
FairSpec ==
  Spec /\ WF_vars(Stalled) /\ \A w \in Workers : WF_vars(Pick(w)) /\ WF_vars(Step(w))

-----------------------------------------------------------------------------
(* Properties *)

Job == [courier : Registry, orders : Seq(Orders),
        state : {"waiting", "active", "completed", "failed"},
        tries : 0..JobAttempts, stalls : 0..MaxStalls, owner : SUBSET Workers]

Request == [order : HttpOrders, courier : Registry,
            answer : (Answers \ {"missing"}) \cup {Unanswered}]

TypeOK ==
  /\ native \in NativeModes /\ booked \subseteq Registry \X Orders
  /\ http \subseteq Request
  /\ rows \in [Orders -> Row]
  /\ batch \in [Batches -> BatchStatus \cup {"none"}]
  /\ items \in [Batches -> [Orders -> ItemStatus \cup {"none"}]]
  /\ \A b \in Batches : jobs[b] \in Seq(Job)
  /\ \A b \in Batches : \A k \in DOMAIN jobs[b] :
       Len(jobs[b][k].orders) \in 1..ChunkSize[jobs[b][k].courier]
  /\ \A w \in Workers : work[w].job # NoJob => work[w].job \in JobIds

CourierFor(b, o) == courierPartner(sub[b].entries, o)

(* An item reported as SUCCEEDED has a shipment behind it: its order has an *)
(* AWB and the courier the item names has the order, whatever crashed, was  *)
(* retried or ran beside the chunk.                                         *)
SucceededIsBacked ==
  \A b \in Batches, o \in Orders :
    items[b][o] = "SUCCEEDED" => rows[o].awb /\ <<CourierFor(b, o), o>> \in booked

(* The verdict on a batch agrees with its items: it is given when nothing   *)
(* is PENDING any more, and COMPLETED hides no failure (refreshStatus, two  *)
(* statements that other chunks of the batch interleave with).              *)
VerdictAgreesWithItems ==
  \A b \in Batches :
    /\ batch[b] \in {"COMPLETED", "COMPLETED_WITH_ERRORS"} => "PENDING" \notin ItemsOf(b)
    /\ batch[b] = "COMPLETED" => "FAILED" \notin ItemsOf(b)
    /\ batch[b] = "COMPLETED_WITH_ERRORS" => "FAILED" \in ItemsOf(b)

(* An outcome a client may have read is never replaced by another one, by a *)
(* chunk that runs again in particular.                                     *)
OutcomesAreFinal ==
  [][\A b \in Batches, o \in Orders :
       items[b][o] \in ItemStatus \ {"PENDING"} => items'[b][o] = items[b][o]]_vars

Contract == INSTANCE BatchContract

(* The batch a client polls is that of BatchContract: though its verdict is *)
(* a count and an update, taken by several chunks and by chunks that are    *)
(* run again, it is given in one step, on the items as they will stay, and  *)
(* an outcome a client has read is never replaced (recordOutcome,           *)
(* refreshStatus).                                                          *)
KeepsBatchContract == Contract!BSpec

(* The last chunk to end closes the batch: when the submission is answered, *)
(* every chunk completed and no item PENDING, the batch is not left         *)
(* PROCESSING, though the chunks refresh it side by side.                   *)
LastChunkClosesBatch ==
  \A b \in Batches :
    /\ sub[b].at = "answered" /\ jobs[b] # <<>>
    /\ \A k \in DOMAIN jobs[b] : jobs[b][k].state = "completed"
    /\ "PENDING" \notin ItemsOf(b)
    => batch[b] # "PROCESSING"

(* "Transport failures fail the job and BullMQ retries the chunk"           *)
(* (DESIGN.md:194): an unsettled order of a chunk that waits for its next   *)
(* attempt is one that attempt takes up.                                    *)
RetryTakesUpUnsettled ==
  \A id \in JobIds :
    LET job == jobs[id[1]][id[2]] IN
      job.state = "waiting" /\ job.tries > 0 =>
        \A o \in ToSet(job.orders) :
          items[id[1]][o] = "PENDING" => rows[o].status = "PENDING"

(* A chunk that completes leaves none of its orders PENDING, whatever the   *)
(* courier's answer left out, whoever shared its orders and whichever of    *)
(* its attempts died: "Without that loop an order the courier silently      *)
(* dropped would sit at PENDING forever" (docs/CODE-WALKTHROUGH.md:735). If *)
(* it completed at its first attempt it settled its items as well, but for  *)
(* orders that another chunk or an HTTP request worked on, whose rows       *)
(* processChunk skips.                                                      *)
CompletedChunkSettles ==
  \A id \in JobIds :
    LET job == jobs[id[1]][id[2]] IN
      job.state = "completed" =>
        \A o \in ToSet(job.orders) :
          /\ rows[o].status # "PENDING"
          /\ job.tries = 0 /\ job.stalls = 0 /\ o \notin HttpOrders /\ items[id[1]][o] = "PENDING"
               => \E other \in JobIds \ {id} : o \in ToSet(jobs[other[1]][other[2]].orders)

(* Two submissions never both report a shipment of one order by the same    *)
(* courier: the courier books it once, and the chunk that is told "already  *)
(* shipped" says FAILED, though each had read the row as PENDING. Nothing   *)
(* keeps submissions that name different couriers from both shipping it.    *)
OneBatchClaimsOrder ==
  \A b, c \in Batches, o \in Orders :
    /\ items[b][o] = "SUCCEEDED" /\ items[c][o] = "SUCCEEDED"
    /\ CourierFor(b, o) = CourierFor(c, o)
    => b = c

(* Every queued chunk ends: attempts and stalls are bounded, so no courier  *)
(* and no crashing worker keeps one on the queue for ever.                  *)
ChunksEnd ==
  \A b \in Batches : \A k \in 1..Cardinality(Orders) :
    k \in DOMAIN jobs[b] ~> k \in DOMAIN jobs[b] /\ jobs[b][k].state \in {"completed", "failed"}

=============================================================================
