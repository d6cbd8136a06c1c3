-------------------------- MODULE BulkOrdersProofs --------------------------
(***************************************************************************)
(* What TLAPS proves about bulk submissions whatever becomes of the locks  *)
(* on the jobs: types, and what an item that says SUCCEEDED is worth.      *)
(***************************************************************************)
EXTENDS BulkOrders, SequenceTheorems, TLAPS

Entry == [order : Orders, courier : Couriers, wellFormed : BOOLEAN]

Sub == [at : {"none", "reserving", "enqueueing", "answered", "died"}, entries : Seq(Entry),
        todo : SUBSET Nat, queued : [Registry -> Seq(Orders)],
        seeds : [Orders -> ItemStatus \cup {"none"}]]

Steps == {"idle", "read", "call", "row", "item", "count", "update", "done", "threw"}

AnswerSets == UNION {[S -> Answers] : S \in SUBSET Orders}

Task == [at : Steps, job : {NoJob} \cup (Batches \X Nat),
         adapter : Registry \cup {"none"}, unread : Seq(Orders), rows : Seq(Orders), answers : AnswerSets, order : SUBSET Orders, verdict : BatchStatus]

-----------------------------------------------------------------------------
(* Types *)

TablesOK ==
  /\ native \in NativeModes /\ booked \subseteq Registry \X Orders /\ http \subseteq Request
  /\ rows \in [Orders -> Row]
  /\ batch \in [Batches -> BatchStatus \cup {"none"}]
  /\ items \in [Batches -> [Orders -> ItemStatus \cup {"none"}]]

SubOK ==
  /\ sub \in [Batches -> Sub]
  /\ \A b \in Batches : sub[b].todo \subseteq accepted(sub[b].entries)

(* A job that may still be run has an attempt left; only one that is being  *)
(* run has an owner.                                                        *)
GoodJob(job) ==
  /\ Len(job.orders) \in 1..ChunkSize[job.courier]
  /\ job.state \in {"waiting", "active"} => job.tries < JobAttempts
  /\ job.owner # {} => job.state = "active"

JobsOK ==
  /\ jobs \in [Batches -> Seq(Job)]
  /\ \A b \in Batches : \A k \in DOMAIN jobs[b] : GoodJob(jobs[b][k])

(* A slot that is not free works on a job with an adapter; before a call    *)
(* there is a row.                                                          *)
WorkOK ==
  /\ work \in [Workers -> Task]
  /\ \A w \in Workers :
       /\ work[w] = Idle \/ (/\ work[w].at # "idle" /\ work[w].job \in JobIds
                               /\ work[w].adapter \in Registry)
       /\ work[w].at = "call" => work[w].rows # <<>>

TypeInv == TablesOK /\ SubOK /\ JobsOK /\ WorkOK

LEMMA IdleIsATask == Idle \in Task
<1>1. <<>> \in AnswerSets
  <2>1. <<>> \in [{} -> Answers]
    OBVIOUS
  <2>2. QED
    BY <2>1 DEF AnswerSets
<1>2. QED
  BY <1>1 DEF Idle, Task, Steps, NoJob, BatchStatus

LEMMA InitType == Init => TypeInv
<1> SUFFICES ASSUME Init PROVE TypeInv
  OBVIOUS
<1>1. TablesOK
  BY DEF Init, TablesOK, Row, RowStatus
<1>2. SubOK
  <2>1. PICK requests \in Submissions :
          sub = [b \in Batches |->
                   [at |-> IF b \in DOMAIN requests THEN "reserving" ELSE "none",
                    entries |-> IF b \in DOMAIN requests THEN requests[b] ELSE <<>>,
                    todo |-> IF b \in DOMAIN requests THEN accepted(requests[b]) ELSE {},
                    queued |-> [c \in Registry |-> <<>>],
                    seeds |-> [o \in Orders |-> "none"]]]
    BY DEF Init
  <2>2. \A b \in DOMAIN requests : requests[b] \in Seq(Entry)
    BY BulkAssumption DEF Entry
  <2>3. \A b \in DOMAIN requests :
          accepted(requests[b]) \subseteq DOMAIN requests[b] /\ DOMAIN requests[b] \subseteq Nat
    BY <2>2, LenProperties DEF accepted
  <2>4. accepted(<<>>) = {} /\ <<>> \in Seq(Entry) /\ <<>> \in Seq(Orders)
    BY EmptySeq DEF accepted
  <2>5. sub \in [Batches -> Sub]
    BY <2>1, <2>2, <2>3, <2>4 DEF Sub
  <2>6. \A b \in Batches : sub[b].todo \subseteq accepted(sub[b].entries)
    BY <2>1, <2>4
  <2>7. QED
    BY <2>5, <2>6 DEF SubOK
<1>3. JobsOK
  BY DEF Init, JobsOK
<1>4. WorkOK
  BY IdleIsATask DEF Init, WorkOK, Idle
<1>5. QED
  BY <1>1, <1>2, <1>3, <1>4 DEF TypeInv

LEMMA JobIdsMember ==
  \A b, k : <<b, k>> \in JobIds <=> b \in Batches /\ k \in DOMAIN jobs[b]
BY DEF JobIds

(* The steps of a submission *)

LEMMA AcceptedEntry ==
  ASSUME NEW s \in Sub, NEW i \in accepted(s.entries)
  PROVE  /\ i \in DOMAIN s.entries /\ s.entries[i] \in Entry
         /\ s.entries[i].order \in Orders /\ s.entries[i].courier \in Registry
<1>1. i \in DOMAIN s.entries /\ valid(s.entries[i])
  BY DEF accepted
<1>2. s.entries[i] \in Entry
  BY <1>1, ElementOfSeq, LenProperties DEF Sub
<1>3. QED
  BY <1>1, <1>2 DEF Entry, valid

LEMMA ReserveType ==
  ASSUME TypeInv, NEW b \in Batches, Reserve(b)
  PROVE  TypeInv'
<1> USE DEF TypeInv
<1>1. PICK i \in sub[b].todo :
        LET o == sub[b].entries[i].order
            c == sub[b].entries[i].courier
            fresh == rows[o].status \in {"ABSENT", "PENDING"}
        IN /\ IF rows[o].status = "ABSENT" THEN InsertRow(o) ELSE UNCHANGED rows
           /\ sub' = [sub EXCEPT ![b].todo = @ \ {i},
                                 ![b].queued[c] = IF fresh THEN Append(@, o) ELSE @,
                                 ![b].seeds[o] = IF fresh THEN "PENDING" ELSE "DUPLICATE"]
  BY DEF Reserve
<1> DEFINE o == sub[b].entries[i].order
           c == sub[b].entries[i].courier
           fresh == rows[o].status \in {"ABSENT", "PENDING"}
           queued == [sub[b].queued EXCEPT ![c] = IF fresh THEN Append(@, o) ELSE @]
           seeds == [sub[b].seeds EXCEPT ![o] = IF fresh THEN "PENDING" ELSE "DUPLICATE"]
<1>2. sub[b] \in Sub /\ sub[b].todo \subseteq accepted(sub[b].entries)
  BY DEF SubOK
<1>3. o \in Orders /\ c \in Registry
  BY <1>2, AcceptedEntry
<1>4. rows' \in [Orders -> Row]
  <2>1. rows \in [Orders -> Row]
    BY DEF TablesOK
  <2>2. rows' = rows \/ rows' = [rows EXCEPT ![o].status = "PENDING"]
    BY <1>1 DEF InsertRow
  <2>3. QED
    BY <2>1, <2>2, <1>3 DEF Row, RowStatus
<1>5. TablesOK'
  BY <1>4 DEF Reserve, TablesOK
<1>6. SubOK'
  <2>1. sub' = [sub EXCEPT ![b] = [sub[b] EXCEPT !.todo = @ \ {i}, !.queued = queued,
                                                 !.seeds = seeds]]
    BY <1>1, <1>2 DEF SubOK
  <2>2. queued \in [Registry -> Seq(Orders)]
    <3>1. sub[b].queued \in [Registry -> Seq(Orders)]
      BY <1>2 DEF Sub
    <3>2. Append(sub[b].queued[c], o) \in Seq(Orders)
      BY <1>3, <3>1, AppendProperties
    <3>3. QED
      BY <1>3, <3>1, <3>2
  <2>3. seeds \in [Orders -> ItemStatus \cup {"none"}]
    BY <1>2, <1>3 DEF Sub, ItemStatus
  <2>4. QED
    BY <2>1, <2>2, <2>3, <1>2 DEF SubOK, Sub
<1>7. JobsOK' /\ WorkOK'
  BY DEF Reserve, JobsOK, WorkOK, JobIds
<1>8. QED
  BY <1>5, <1>6, <1>7

(* One submission, one job or one slot changes.                             *)

LEMMA SubStep ==
  ASSUME SubOK, NEW b \in Batches, NEW s \in Sub, s.todo \subseteq accepted(s.entries),
         sub' = [sub EXCEPT ![b] = s]
  PROVE  SubOK'
BY DEF SubOK

LEMMA JobStep ==
  ASSUME JobsOK, NEW b \in Batches, NEW k \in DOMAIN jobs[b], NEW j \in Job, GoodJob(j),
         jobs' = [jobs EXCEPT ![b][k] = j]
  PROVE  /\ JobsOK' /\ JobIds' = JobIds
         /\ \A c \in Batches : DOMAIN jobs'[c] = DOMAIN jobs[c]
         /\ \A c \in Batches, l \in Nat :
              jobs'[c][l] = IF c = b /\ l = k THEN j ELSE jobs[c][l]
<1>1. jobs[b] \in Seq(Job) /\ k \in 1..Len(jobs[b])
  BY LenProperties DEF JobsOK
<1> DEFINE seq == [jobs[b] EXCEPT ![k] = j]
<1>2. /\ seq \in Seq(Job) /\ DOMAIN seq = DOMAIN jobs[b]
      /\ \A l : seq[l] = IF l = k THEN j ELSE jobs[b][l]
  BY <1>1, ExceptSeq, LenProperties
<1>3. jobs' = [jobs EXCEPT ![b] = seq]
  BY DEF JobsOK
<1>4. /\ jobs' \in [Batches -> Seq(Job)]
      /\ \A c \in Batches : DOMAIN jobs'[c] = DOMAIN jobs[c]
      /\ \A c \in Batches, l \in Nat :
           jobs'[c][l] = IF c = b /\ l = k THEN j ELSE jobs[c][l]
  BY <1>2, <1>3 DEF JobsOK
<1>5. \A c \in Batches : DOMAIN jobs[c] \subseteq Nat
  BY LenProperties DEF JobsOK
<1>6. JobsOK'
  BY <1>4, <1>5 DEF JobsOK
<1>7. JobIds' = JobIds
  BY <1>4 DEF JobIds
<1>8. QED
  BY <1>4, <1>6, <1>7

LEMMA WorkStep ==
  ASSUME WorkOK, NEW w \in Workers, NEW t \in Task,
         t = Idle \/ (t.at # "idle" /\ t.job \in JobIds /\ t.adapter \in Registry),
         t.at = "call" => t.rows # <<>>,
         JobIds \subseteq JobIds', work' = [work EXCEPT ![w] = t]
  PROVE  WorkOK'
<1>1. work' \in [Workers -> Task]
  BY DEF WorkOK
<1>2. \A v \in Workers : work'[v] = IF v = w THEN t ELSE work[v]
  BY DEF WorkOK
<1>3. QED
  BY <1>1, <1>2 DEF WorkOK

LEMMA SubmissionType ==
  ASSUME TypeInv, NEW b \in Batches, Submission(b) \/ SubmitDies(b)
  PROVE  TypeInv'
<1> USE DEF TypeInv
<1>1. sub[b] \in Sub /\ sub[b].todo \subseteq accepted(sub[b].entries)
  BY DEF SubOK
<1>2. CASE CreateBatch(b)
  <2>1. sub' = [sub EXCEPT ![b] = [sub[b] EXCEPT !.at = "enqueueing"]]
    BY <1>2 DEF CreateBatch, SubOK
  <2>2. SubOK'
    BY <1>1, <2>1, SubStep DEF Sub
  <2>3. TablesOK'
    BY <1>1, <1>2 DEF CreateBatch, TablesOK, Sub, BatchStatus
  <2>4. JobsOK' /\ WorkOK'
    BY <1>2 DEF CreateBatch, JobsOK, WorkOK, JobIds
  <2>5. QED
    BY <2>2, <2>3, <2>4
<1>3. CASE Enqueue(b)
  <2> DEFINE left(c) == sub[b].queued[c]
             size(c) == Min2(ChunkSize[c], Len(left(c)))
  <2>0. PICK c \in Registry :
          /\ left(c) # <<>>
          /\ jobs' = [jobs EXCEPT ![b] = Append(@, ChunkJob(c, SubSeq(left(c), 1, size(c))))]
          /\ sub' = [sub EXCEPT ![b].queued[c] = SubSeq(left(c), size(c) + 1, Len(left(c)))]
    BY <1>3 DEF Enqueue
  <2> DEFINE queued == sub[b].queued[c]
             n == Min2(ChunkSize[c], Len(queued))
             job == ChunkJob(c, SubSeq(queued, 1, n))
             rest == [sub[b].queued EXCEPT ![c] = SubSeq(queued, n + 1, Len(queued))]
  <2>1. queued \in Seq(Orders) /\ Len(queued) \in Nat \ {0} /\ queued # <<>>
    BY <1>1, <2>0, EmptySeq DEF Sub
  <2>2. n \in 1..ChunkSize[c] /\ n \in 1..Len(queued)
    <3>1. ChunkSize[c] \in Nat \ {0}
      BY BulkAssumption
    <3>2. QED
      BY <2>1, <3>1 DEF Min2
  <2>3. SubSeq(queued, 1, n) \in Seq(Orders) /\ Len(SubSeq(queued, 1, n)) = n
    BY <2>1, <2>2, SubSeqProperties, ElementOfSeq
  <2>4. SubSeq(queued, n + 1, Len(queued)) \in Seq(Orders)
    BY <2>1, <2>2, SubSeqProperties, ElementOfSeq
  <2>5. sub' = [sub EXCEPT ![b] = [sub[b] EXCEPT !.queued = rest]]
    BY <2>0 DEF SubOK
  <2>6. SubOK'
    <3>1. rest \in [Registry -> Seq(Orders)]
      BY <1>1, <2>4 DEF Sub
    <3> HIDE DEF rest
    <3>2. QED
      BY <1>1, <2>5, <3>1, SubStep DEF Sub
  <2>7. job \in Job /\ GoodJob(job)
    BY <2>2, <2>3, BulkAssumption DEF Job, ChunkJob, GoodJob
  <2>8. jobs' = [jobs EXCEPT ![b] = Append(jobs[b], job)]
    BY <2>0 DEF JobsOK
  <2>9. jobs[b] \in Seq(Job) /\ DOMAIN jobs[b] = 1..Len(jobs[b]) /\ Len(jobs[b]) \in Nat
    BY LenProperties DEF JobsOK
  <2>10. /\ jobs'[b] \in Seq(Job) /\ DOMAIN jobs'[b] = 1..Len(jobs[b]) + 1
         /\ \A l \in DOMAIN jobs[b] : jobs'[b][l] = jobs[b][l]
         /\ jobs'[b][Len(jobs[b]) + 1] = job
    BY <2>7, <2>8, <2>9, AppendProperties, LenProperties DEF JobsOK
  <2>11. \A d \in Batches : d # b => jobs'[d] = jobs[d]
    BY <2>8 DEF JobsOK
  <2>12. jobs' \in [Batches -> Seq(Job)]
    BY <2>8, <2>10 DEF JobsOK
  <2>13. JobsOK'
    <3> HIDE DEF job
    <3>1. ASSUME NEW d \in Batches, NEW k \in DOMAIN jobs'[d]
          PROVE  jobs'[d][k] = job \/ (k \in DOMAIN jobs[d] /\ jobs'[d][k] = jobs[d][k])
      BY <2>9, <2>10, <2>11
    <3>2. ASSUME NEW d \in Batches, NEW k \in DOMAIN jobs'[d]
          PROVE  GoodJob(jobs'[d][k])
      <4>1. CASE jobs'[d][k] = job
        BY <2>7, <4>1 DEF GoodJob
      <4>2. CASE k \in DOMAIN jobs[d] /\ jobs'[d][k] = jobs[d][k]
        BY <4>2 DEF JobsOK
      <4>3. QED
        BY <3>1, <3>2, <4>1, <4>2
    <3>3. QED
      BY <2>12, <3>2 DEF JobsOK
  <2>14. JobIds \subseteq JobIds'
    BY <2>9, <2>10, <2>11 DEF JobIds
  <2>15. WorkOK'
    BY <1>3, <2>14 DEF Enqueue, WorkOK
  <2>16. TablesOK'
    BY <1>3 DEF Enqueue, TablesOK
  <2>17. QED
    BY <2>6, <2>13, <2>15, <2>16
<1>4. CASE Accepted(b) \/ SubmitDies(b)
  <2>1. PICK at \in {"answered", "died"} :
          sub' = [sub EXCEPT ![b] = [sub[b] EXCEPT !.at = at]]
    BY <1>4 DEF Accepted, SubmitDies, SubOK
  <2>2. SubOK'
    BY <1>1, <2>1, SubStep DEF Sub
  <2>3. TablesOK' /\ JobsOK' /\ WorkOK'
    BY <1>4 DEF Accepted, SubmitDies, TablesOK, JobsOK, WorkOK, JobIds
  <2>4. QED
    BY <2>2, <2>3
<1>5. QED
  BY <1>2, <1>3, <1>4, ReserveType DEF Submission

(* The steps of a slot *)

LEMMA HeldJob ==
  ASSUME TypeInv, NEW w \in Workers, work[w].at # "idle"
  PROVE  \E b \in Batches : \E k \in DOMAIN jobs[b] :
           /\ work[w].job = <<b, k>> /\ BatchOf(w) = b /\ JobOf(w) = jobs[b][k]
           /\ jobs[b][k] \in Job /\ k \in Nat
<1>1. work[w].job \in JobIds
  BY DEF TypeInv, WorkOK, Idle
<1>2. PICK b \in Batches : \E k \in DOMAIN jobs[b] : work[w].job = <<b, k>>
  BY <1>1 DEF JobIds
<1>3. PICK k \in DOMAIN jobs[b] : work[w].job = <<b, k>>
  BY <1>2
<1>4. jobs[b][k] \in Job /\ k \in Nat
  BY ElementOfSeq, LenProperties DEF TypeInv, JobsOK
<1>5. QED
  BY <1>3, <1>4 DEF BatchOf, JobOf

LEMMA BusySlot ==
  ASSUME TypeInv, NEW w \in Workers, work[w].at # "idle"
  PROVE  /\ work[w] \in Task /\ work[w].job \in JobIds /\ work[w].adapter \in Registry
         /\ work[w].at = "call" => work[w].rows # <<>>
BY DEF TypeInv, WorkOK, Idle

LEMMA GoType ==
  ASSUME TypeInv, NEW w \in Workers, work[w].at # "idle", NEW at \in Steps \ {"idle"},
         at = "call" => work[w].rows # <<>>, Go(w, at), JobIds \subseteq JobIds'
  PROVE  WorkOK'
<1> DEFINE t == [work[w] EXCEPT !.at = at]
<1>1. /\ work[w] \in Task /\ work[w].job \in JobIds
      /\ work[w].adapter \in Registry
  BY BusySlot
<1>2. work' = [work EXCEPT ![w] = t]
  BY DEF Go, TypeInv, WorkOK
<1>3. t \in Task /\ t.at = at /\ t.job = work[w].job /\ t.adapter = work[w].adapter /\ t.rows = work[w].rows
  BY <1>1 DEF Task
<1>4. WorkOK'
  BY <1>1, <1>2, <1>3, WorkStep DEF TypeInv
<1>5. QED
  BY <1>4

LEMMA ReadType ==
  ASSUME TypeInv, NEW w \in Workers, ReadRow(w) \/ Start(w) \/ CountItems(w) \/ Throw(w)
  PROVE  TypeInv'
<1> USE DEF TypeInv
<1>1. /\ work[w] \in Task /\ work[w].at # "idle" /\ work[w].job \in JobIds
      /\ work[w].adapter \in Registry
  <2>1. work[w].at # "idle"
    BY DEF ReadRow, Start, CountItems, Throw
  <2>2. QED
    BY <2>1, BusySlot
<1>2. TablesOK' /\ SubOK' /\ JobsOK' /\ JobIds' = JobIds
  BY DEF ReadRow, Start, CountItems, Throw, TablesOK, SubOK, JobsOK, JobIds
<1>3. CASE ReadRow(w)
  <2> DEFINE o == Head(work[w].unread)
             read == IF rows[o].status = "PENDING" THEN Append(work[w].rows, o) ELSE work[w].rows
             t == [work[w] EXCEPT !.unread = Tail(@), !.rows = read]
  <2>1. o \in Orders /\ Tail(work[w].unread) \in Seq(Orders)
    BY <1>1, <1>3, HeadTailProperties DEF ReadRow, Task
  <2>2. read \in Seq(Orders)
    BY <1>1, <2>1, AppendProperties DEF Task
  <2>3. t \in Task
    BY <1>1, <2>1, <2>2 DEF Task
  <2>4. work' = [work EXCEPT ![w] = t] /\ t.at = "read" /\ t.job = work[w].job /\ t.adapter = work[w].adapter
    BY <1>1, <1>3 DEF ReadRow, WorkOK, Task
  <2>5. WorkOK'
    BY <1>1, <1>2, <2>3, <2>4, WorkStep
  <2>6. QED
    BY <1>2, <2>5
<1>4. CASE CountItems(w)
  <2>1. PICK at \in {"done", "update"}, verdict \in {"COMPLETED_WITH_ERRORS", "COMPLETED"} :
          work' = [work EXCEPT ![w].at = at, ![w].verdict = verdict]
    BY <1>4 DEF CountItems
  <2> DEFINE t == [work[w] EXCEPT !.at = at, !.verdict = verdict]
  <2>2. work' = [work EXCEPT ![w] = t]
    BY <2>1 DEF WorkOK
  <2>3. t \in Task /\ t.at = at /\ t.job = work[w].job /\ t.adapter = work[w].adapter
    BY <1>1 DEF Task, Steps, BatchStatus
  <2>4. WorkOK'
    BY <1>1, <1>2, <2>2, <2>3, WorkStep
  <2>5. QED
    BY <1>2, <2>4
<1>5. CASE Start(w)
  <2>1. PICK at \in {"count", "call"} : Go(w, at) /\ (at = "call" => work[w].rows # <<>>)
    BY <1>5 DEF Start
  <2>2. QED
    BY <1>1, <1>2, <2>1, GoType DEF Steps
<1>6. CASE Throw(w)
  <2>1. Go(w, "threw")
    BY <1>6 DEF Throw
  <2>2. QED
    BY <1>1, <1>2, <2>1, GoType DEF Steps
<1>7. QED
  BY <1>3, <1>4, <1>5, <1>6

LEMMA CallType ==
  ASSUME TypeInv, NEW w \in Workers, CallCourier(w) \/ CallFails(w)
  PROVE  TypeInv'
<1> USE DEF TypeInv
<1>1. /\ work[w] \in Task /\ work[w].at = "call" /\ work[w].rows # <<>>
      /\ work[w].job \in JobIds /\ work[w].adapter \in Registry
  <2>1. work[w].at = "call"
    BY DEF CallCourier, CallFails
  <2>2. QED
    BY <2>1, BusySlot
<1>2. SubOK' /\ JobsOK' /\ JobIds' = JobIds
  BY DEF CallCourier, CallFails, SubOK, JobsOK, JobIds
<1>3. Called(w) \subseteq Orders /\ Tail(work[w].rows) \in Seq(Orders)
  BY <1>1, HeadTailProperties, ElementOfSeq, LenProperties DEF Called, ToSet, Task
<1>4. TablesOK'
  <2>1. PICK new \in SUBSET Called(w) : booked' = booked \cup ({work[w].adapter} \X new)
    BY DEF CallCourier, CallFails
  <2>2. {work[w].adapter} \X new \subseteq Registry \X Orders
    BY <1>1, <1>3, <2>1
  <2>3. QED
    BY <2>1, <2>2 DEF CallCourier, CallFails, TablesOK
<1>5. CASE CallCourier(w)
  <2>1. PICK answers \in [Called(w) -> Answers] :
          work' = [work EXCEPT ![w].at = "row", ![w].answers = answers,
                               ![w].rows = IF Natively(w) THEN <<>> ELSE Tail(@)]
    BY <1>5 DEF CallCourier, NativeAnswers, SingleAnswers
  <2>2. answers \in AnswerSets
    BY <1>3 DEF AnswerSets
  <2> DEFINE left == IF Natively(w) THEN <<>> ELSE Tail(work[w].rows)
  <2>3. left \in Seq(Orders)
    BY <1>3, EmptySeq
  <2> DEFINE t == [work[w] EXCEPT !.at = "row", !.answers = answers, !.rows = left]
  <2>4. t \in Task /\ t.at = "row" /\ t.job = work[w].job /\ t.adapter = work[w].adapter
    BY <1>1, <2>2, <2>3 DEF Task, Steps
  <2>5. work' = [work EXCEPT ![w] = t]
    BY <2>1 DEF WorkOK
  <2>6. WorkOK'
    BY <1>1, <1>2, <2>4, <2>5, WorkStep
  <2>7. QED
    BY <1>2, <1>4, <2>6
<1>6. CASE CallFails(w)
  <2>1. Go(w, "threw")
    BY <1>6 DEF CallFails
  <2>2. WorkOK'
    BY <1>1, <1>2, <2>1, GoType DEF Steps
  <2>3. QED
    BY <1>2, <1>4, <2>2
<1>7. QED
  BY <1>5, <1>6

LEMMA RowAfterType ==
  ASSUME NEW row \in Row, NEW answer \in Answers
  PROVE  /\ RowAfter(row, answer) \in Row
         /\ RowAfter(row, answer).status \notin {"ABSENT", "PENDING"}
         /\ row.awb \/ answer = "ok" => RowAfter(row, answer).awb
BY DEF RowAfter, Row, RowStatus, Answers

LEMMA AnswerType ==
  ASSUME TypeInv, NEW w \in Workers, NEW o \in DOMAIN work[w].answers
  PROVE  /\ o \in Orders /\ work[w].answers[o] \in Answers
         /\ Restrict(work[w].answers, DOMAIN work[w].answers \ {o}) \in AnswerSets
<1>1. work[w].answers \in AnswerSets
  BY DEF TypeInv, WorkOK, Task
<1>2. PICK S \in SUBSET Orders : work[w].answers \in [S -> Answers]
  BY <1>1 DEF AnswerSets
<1>3. Restrict(work[w].answers, S \ {o}) \in [S \ {o} -> Answers]
  BY <1>2 DEF Restrict
<1>4. QED
  BY <1>2, <1>3 DEF AnswerSets

LEMMA RecordType ==
  ASSUME TypeInv, NEW w \in Workers, RecordRow(w) \/ RecordItem(w) \/ UpdateBatch(w)
  PROVE  TypeInv'
<1> USE DEF TypeInv
<1>1. /\ work[w] \in Task /\ work[w].at # "idle" /\ work[w].job \in JobIds
      /\ work[w].adapter \in Registry
  <2>1. work[w].at # "idle"
    BY DEF RecordRow, RecordItem, UpdateBatch
  <2>2. QED
    BY <2>1, BusySlot
<1>2. SubOK' /\ JobsOK' /\ JobIds' = JobIds
  BY DEF RecordRow, RecordItem, UpdateBatch, SubOK, JobsOK, JobIds
<1>3. CASE RecordRow(w)
  <2>1. PICK o \in DOMAIN work[w].answers, at \in {"threw", "item"} :
          /\ rows' = [rows EXCEPT ![o] = RowAfter(@, work[w].answers[o])]
          /\ work' = [work EXCEPT ![w] = [work[w] EXCEPT !.order = {o}, !.at = at]]
    BY <1>1, <1>3 DEF RecordRow, WorkOK, Task
  <2>2. o \in Orders /\ work[w].answers[o] \in Answers
    BY AnswerType
  <2>3. rows' \in [Orders -> Row]
    BY <2>1, <2>2, RowAfterType DEF TablesOK
  <2>4. TablesOK'
    BY <1>3, <2>3 DEF RecordRow, TablesOK
  <2> DEFINE t == [work[w] EXCEPT !.order = {o}, !.at = at]
  <2>5. t \in Task /\ t.at = at /\ t.job = work[w].job /\ t.adapter = work[w].adapter
    BY <1>1, <2>2 DEF Task, Steps
  <2>6. WorkOK'
    BY <1>1, <1>2, <2>1, <2>5, WorkStep
  <2>7. QED
    BY <1>2, <2>4, <2>6
<1>4. CASE RecordItem(w)
  <2>1. PICK o \in work[w].order :
          LET left == Restrict(work[w].answers, DOMAIN work[w].answers \ {o}) IN
            /\ items' = [items EXCEPT ![BatchOf(w)][o] = ItemAfter(work[w].answers[o])]
            /\ work' = [work EXCEPT ![w].order = {}, ![w].answers = left,
                          ![w].at = IF left # <<>> THEN "row"
                                    ELSE IF work[w].rows # <<>> THEN "call" ELSE "count"]
    BY <1>4 DEF RecordItem
  <2> DEFINE left == Restrict(work[w].answers, DOMAIN work[w].answers \ {o})
             at == IF left # <<>> THEN "row"
                   ELSE IF work[w].rows # <<>> THEN "call" ELSE "count"
             t == [work[w] EXCEPT !.order = {}, !.answers = left, !.at = at]
  <2>2. o \in Orders
    BY <1>1 DEF Task
  <2>3. left \in AnswerSets
    <3>1. PICK S \in SUBSET Orders : work[w].answers \in [S -> Answers]
      BY <1>1 DEF Task, AnswerSets
    <3>2. left \in [S \ {o} -> Answers]
      BY <3>1 DEF Restrict
    <3>3. QED
      BY <3>2 DEF AnswerSets
  <2>4. work' = [work EXCEPT ![w] = t]
    BY <2>1 DEF WorkOK
  <2>5. at \in {"row", "call", "count"} /\ (at = "call" => work[w].rows # <<>>)
    OBVIOUS
  <2>6. t \in Task /\ t.at = at /\ t.job = work[w].job /\ t.adapter = work[w].adapter /\ t.rows = work[w].rows
    BY <1>1, <2>3, <2>5 DEF Task, Steps
  <2>7. WorkOK'
    BY <1>1, <1>2, <2>4, <2>5, <2>6, WorkStep
  <2>8. ItemAfter(work[w].answers[o]) \in ItemStatus
    BY DEF ItemAfter, ItemStatus
  <2>9. items' \in [Batches -> [Orders -> ItemStatus \cup {"none"}]]
    BY <2>1, <2>2, <2>8 DEF TablesOK
  <2>10. TablesOK'
    BY <1>4, <2>9 DEF RecordItem, TablesOK
  <2>11. QED
    BY <1>2, <2>7, <2>10
<1>5. CASE UpdateBatch(w)
  <2>1. Go(w, "done")
    BY <1>5 DEF UpdateBatch
  <2>2. WorkOK'
    BY <1>1, <1>2, <2>1, GoType DEF Steps
  <2>3. TablesOK'
    BY <1>1, <1>5 DEF UpdateBatch, TablesOK, Task
  <2>4. QED
    BY <1>2, <2>2, <2>3
<1>6. QED
  BY <1>3, <1>4, <1>5

(* The queue and the other requests *)

(* A worker lets go of its job: the job, if it is the worker's, becomes j.  *)
LEMMA EndJobType ==
  ASSUME TypeInv, NEW w \in Workers, work[w].at # "idle", NEW j, EndJob(w, j),
         Owns(w) => j \in Job /\ GoodJob(j)
  PROVE  TypeInv'
<1> USE DEF TypeInv
<1>1. PICK b \in Batches : \E k \in DOMAIN jobs[b] : work[w].job = <<b, k>>
  BY HeldJob
<1>2. PICK k \in DOMAIN jobs[b] : work[w].job = <<b, k>>
  BY <1>1
<1>3. JobsOK' /\ JobIds' = JobIds
  <2>1. CASE Owns(w)
    <3>1. jobs' = [jobs EXCEPT ![b][k] = j]
      BY <1>2, <2>1 DEF EndJob
    <3>2. QED
      BY <2>1, <3>1, JobStep
  <2>2. CASE ~Owns(w)
    <3>1. jobs' = jobs
      BY <2>2 DEF EndJob
    <3>2. QED
      BY <3>1 DEF JobsOK, JobIds
  <2>3. QED
    BY <2>1, <2>2
<1>4. WorkOK'
  <2>1. work' = [work EXCEPT ![w] = Idle]
    BY DEF EndJob
  <2>2. Idle.at # "call"
    BY DEF Idle
  <2>3. QED
    BY <1>3, <2>1, <2>2, IdleIsATask, WorkStep
<1>5. TablesOK' /\ SubOK'
  BY DEF EndJob, TablesOK, SubOK
<1>6. QED
  BY <1>3, <1>4, <1>5

(* What lets go of a job, and the job it leaves.                            *)
LEMMA EndingJob ==
  ASSUME TypeInv, NEW w \in Workers, CompleteJob(w) \/ FailJob(w) \/ WorkerDies(w)
  PROVE  /\ work[w].at # "idle"
         /\ \E j :
              /\ EndJob(w, j)
              /\ Owns(w) => /\ j \in Job /\ GoodJob(j)
                            /\ j.orders = JobOf(w).orders /\ j.courier = JobOf(w).courier
                            /\ j.owner = {}
                            /\ j.state = "completed" => work[w].at = "done"
                            /\ j.state = "waiting" => j.tries > 0
<1>1. work[w].at # "idle"
  BY DEF TypeInv, WorkOK, CompleteJob, FailJob, WorkerDies
<1>2. JobOf(w) \in Job /\ GoodJob(JobOf(w))
  BY <1>1, HeldJob DEF TypeInv, JobsOK
<1>3. JobOf(w).tries \in Nat
  <2>1. JobOf(w).tries \in 0..JobAttempts
    BY <1>2 DEF Job
  <2>2. QED
    BY <2>1, BulkAssumption
<1>4. Owns(w) => JobOf(w).state = "active" /\ JobOf(w).tries < JobAttempts
  BY <1>2 DEF Owns, GoodJob
<1>5. CASE CompleteJob(w)
  <2> DEFINE j == [JobOf(w) EXCEPT !.state = "completed", !.owner = {}]
  <2>1. /\ j \in Job /\ GoodJob(j) /\ j.orders = JobOf(w).orders
        /\ j.courier = JobOf(w).courier /\ j.owner = {} /\ j.state = "completed"
    BY <1>2 DEF Job, GoodJob
  <2>2. QED
    BY <1>1, <1>5, <2>1 DEF CompleteJob
<1>6. CASE FailJob(w)
  <2>1. PICK tries, state :
          /\ EndJob(w, [JobOf(w) EXCEPT !.state = state, !.tries = tries, !.owner = {}])
          /\ tries = JobOf(w).tries + 1
          /\ state = IF tries < JobAttempts THEN "waiting" ELSE "failed"
    BY <1>6 DEF FailJob
  <2> DEFINE j == [JobOf(w) EXCEPT !.state = state, !.tries = tries, !.owner = {}]
  <2>2. /\ j.orders = JobOf(w).orders /\ j.courier = JobOf(w).courier
        /\ j.owner = {} /\ j.tries = tries /\ j.state = state
    BY <1>2 DEF Job
  <2>3. ASSUME Owns(w) PROVE j \in Job /\ GoodJob(j)
    <3>1. tries \in 0..JobAttempts
      BY <1>3, <1>4, <2>1, <2>3, BulkAssumption
    <3>2. state \in {"waiting", "active", "completed", "failed"}
      BY <2>1
    <3>3. j \in Job
      BY <1>2, <3>1, <3>2 DEF Job
    <3>4. QED
      BY <1>2, <2>1, <2>2, <3>3 DEF GoodJob
  <2>4. tries > 0 /\ state # "completed"
    BY <1>3, <2>1
  <2>5. EndJob(w, j)
    BY <2>1
  <2> HIDE DEF j
  <2>6. QED
    BY <1>1, <2>2, <2>3, <2>4, <2>5
<1>7. CASE WorkerDies(w)
  <2> DEFINE j == [JobOf(w) EXCEPT !.owner = {}]
  <2>1. /\ j \in Job /\ GoodJob(j) /\ j.orders = JobOf(w).orders
        /\ j.courier = JobOf(w).courier /\ j.owner = {} /\ j.state = JobOf(w).state
    BY <1>2 DEF Job, GoodJob
  <2>2. QED
    BY <1>1, <1>4, <1>7, <2>1 DEF WorkerDies
<1>8. QED
  BY <1>5, <1>6, <1>7

(* A job is picked, loses its lock or is put back: the job it becomes.      *)

Picked(w, b, k) == [jobs[b][k] EXCEPT !.state = "active", !.owner = {w}]
TaskFor(b, k) == [Idle EXCEPT !.at = "read", !.job = <<b, k>>,
                              !.adapter = jobs[b][k].courier, !.unread = jobs[b][k].orders]
Unlocked(b, k) == [jobs[b][k] EXCEPT !.owner = {}]
PutBack(b, k) ==
  [jobs[b][k] EXCEPT !.state = IF jobs[b][k].stalls < MaxStalls THEN "waiting" ELSE "failed",
                     !.stalls = IF @ < MaxStalls THEN @ + 1 ELSE @]

LEMMA QueueJobs ==
  ASSUME TypeInv, NEW b \in Batches, NEW k \in DOMAIN jobs[b]
  PROVE  /\ \A w \in Workers :
              PickJob(w, b, k) => /\ jobs' = [jobs EXCEPT ![b][k] = Picked(w, b, k)]
                                  /\ work' = [work EXCEPT ![w] = TaskFor(b, k)]
                                  /\ Picked(w, b, k) \in Job /\ GoodJob(Picked(w, b, k))
                                  /\ TaskFor(b, k) \in Task
         /\ Unlocked(b, k) \in Job /\ GoodJob(Unlocked(b, k))
         /\ StalledCheck(b, k) => /\ jobs' = [jobs EXCEPT ![b][k] = PutBack(b, k)]
                                  /\ PutBack(b, k) \in Job /\ GoodJob(PutBack(b, k))
<1>1. jobs[b][k] \in Job /\ GoodJob(jobs[b][k]) /\ k \in Nat
  BY ElementOfSeq, LenProperties DEF TypeInv, JobsOK
<1>2. ASSUME NEW w \in Workers, PickJob(w, b, k)
      PROVE  /\ jobs' = [jobs EXCEPT ![b][k] = Picked(w, b, k)]
             /\ work' = [work EXCEPT ![w] = TaskFor(b, k)]
             /\ Picked(w, b, k) \in Job /\ GoodJob(Picked(w, b, k))
             /\ TaskFor(b, k) \in Task
  <2>1. jobs' = [jobs EXCEPT ![b][k] = Picked(w, b, k)]
    BY <1>2 DEF PickJob, Picked, TypeInv, JobsOK
  <2>2. Picked(w, b, k) \in Job /\ GoodJob(Picked(w, b, k))
    BY <1>1, <1>2 DEF PickJob, Picked, Job, GoodJob
  <2>3. TaskFor(b, k) \in Task
    BY <1>1, IdleIsATask DEF TaskFor, Task, Job, Steps, Idle
  <2>4. QED
    BY <1>2, <2>1, <2>2, <2>3 DEF PickJob, TaskFor
<1>3. Unlocked(b, k) \in Job /\ GoodJob(Unlocked(b, k))
  BY <1>1 DEF Unlocked, Job, GoodJob
<1>4. ASSUME StalledCheck(b, k)
      PROVE  /\ jobs' = [jobs EXCEPT ![b][k] = PutBack(b, k)]
             /\ PutBack(b, k) \in Job /\ GoodJob(PutBack(b, k))
  <2>1. jobs' = [jobs EXCEPT ![b][k] = PutBack(b, k)]
    BY <1>4 DEF StalledCheck, PutBack, TypeInv, JobsOK
  <2> DEFINE stalls == IF jobs[b][k].stalls < MaxStalls
                         THEN jobs[b][k].stalls + 1 ELSE jobs[b][k].stalls
  <2>2. jobs[b][k].stalls \in 0..MaxStalls
    BY <1>1 DEF Job
  <2>3. stalls \in 0..MaxStalls
    BY <2>2, BulkAssumption
  <2>4. PutBack(b, k) = [jobs[b][k] EXCEPT
          !.state = IF jobs[b][k].stalls < MaxStalls THEN "waiting" ELSE "failed",
          !.stalls = stalls]
    BY <1>1 DEF PutBack, Job
  <2> HIDE DEF stalls
  <2>5. PutBack(b, k) \in Job /\ GoodJob(PutBack(b, k))
    BY <1>1, <1>4, <2>3, <2>4 DEF StalledCheck, Job, GoodJob
  <2>6. QED
    BY <2>1, <2>5
<1>5. QED
  BY <1>2, <1>3, <1>4

LEMMA LosesLock ==
  ASSUME TypeInv, NEW w \in Workers, LoseLock(w),
         NEW b \in Batches, NEW k \in DOMAIN jobs[b], work[w].job = <<b, k>>
  PROVE  jobs' = [jobs EXCEPT ![b][k] = Unlocked(b, k)]
<1>1. work[w].job[1] = b /\ work[w].job[2] = k
  OBVIOUS
<1>2. jobs' = [jobs EXCEPT ![work[w].job[1]][work[w].job[2]].owner = {}]
  BY DEF LoseLock
<1>3. jobs' = [jobs EXCEPT ![b][k].owner = {}]
  BY <1>1, <1>2
<1>4. QED
  BY <1>3 DEF Unlocked, TypeInv, JobsOK

LEMMA QueueType ==
  ASSUME TypeInv,
         \/ \E w \in Workers : Pick(w) \/ LoseLock(w)
         \/ Stalled
  PROVE  TypeInv'
<1> USE DEF TypeInv
<1>1. ASSUME NEW b \in Batches, NEW k \in DOMAIN jobs[b], NEW w \in Workers, PickJob(w, b, k)
      PROVE  TypeInv'
  <2>1. JobsOK' /\ JobIds' = JobIds
    BY <1>1, QueueJobs, JobStep
  <2>2. /\ TaskFor(b, k).at = "read" /\ TaskFor(b, k).job = <<b, k>>
        /\ TaskFor(b, k).adapter \in Registry
    <3>1. jobs[b][k] \in Job
      BY ElementOfSeq, LenProperties DEF JobsOK
    <3>2. QED
      BY <3>1 DEF TaskFor, Idle, Job
  <2>3. TaskFor(b, k) \in Task /\ work' = [work EXCEPT ![w] = TaskFor(b, k)]
    BY <1>1, QueueJobs
  <2>4. TaskFor(b, k).job \in JobIds
    BY <2>2, JobIdsMember
  <2>5. WorkOK'
    BY <2>1, <2>2, <2>3, <2>4, WorkStep
  <2>6. QED
    BY <1>1, <2>1, <2>5 DEF PickJob, TablesOK, SubOK
<1>2. ASSUME NEW w \in Workers, LoseLock(w)
      PROVE  TypeInv'
  <2>1. work[w].at # "idle"
    <3>1. work[w] # Idle
      BY <1>2 DEF LoseLock
    <3>2. QED
      BY <3>1 DEF WorkOK
  <2>2. PICK b \in Batches : \E k \in DOMAIN jobs[b] : work[w].job = <<b, k>>
    BY <2>1, HeldJob
  <2>3. PICK k \in DOMAIN jobs[b] : work[w].job = <<b, k>>
    BY <2>2
  <2>4. jobs' = [jobs EXCEPT ![b][k] = Unlocked(b, k)]
    BY <1>2, <2>3, LosesLock
  <2>5. JobsOK' /\ JobIds' = JobIds
    BY <2>4, QueueJobs, JobStep
  <2>6. QED
    BY <1>2, <2>5 DEF LoseLock, tables, TablesOK, SubOK, WorkOK
<1>3. ASSUME NEW b \in Batches, NEW k \in DOMAIN jobs[b], StalledCheck(b, k)
      PROVE  TypeInv'
  <2>1. JobsOK' /\ JobIds' = JobIds
    BY <1>3, QueueJobs, JobStep
  <2>2. QED
    BY <1>3, <2>1 DEF StalledCheck, tables, TablesOK, SubOK, WorkOK
<1>4. QED
  BY <1>1, <1>2, <1>3 DEF Pick, Stalled, JobIds

Http ==
  \/ \E o \in Orders, c \in Registry : HttpBegin(o, c)
  \/ \E r \in http : HttpCall(r) \/ HttpEnd(r) \/ HttpDies(r)

LEMMA HttpType ==
  ASSUME TypeInv, Http
  PROVE  TypeInv'
<1> USE DEF TypeInv
<1>1. SubOK' /\ JobsOK' /\ WorkOK'
  BY DEF Http, HttpBegin, HttpCall, HttpEnd, HttpDies, tables, SubOK, JobsOK, WorkOK, JobIds
<1>2. \A r \in http : r \in Request /\ r.order \in Orders /\ r.courier \in Registry
  BY BulkAssumption DEF TablesOK, Request
<1>3. ASSUME NEW o \in Orders, NEW c \in Registry, HttpBegin(o, c)
      PROVE  TablesOK'
  <2>1. [order |-> o, courier |-> c, answer |-> Unanswered] \in Request
    BY <1>3 DEF HttpBegin, Request
  <2>2. rows' \in [Orders -> Row]
    BY <1>3 DEF HttpBegin, InsertRow, TablesOK, Row, RowStatus
  <2>3. QED
    BY <1>3, <2>1, <2>2 DEF HttpBegin, TablesOK
<1>4. ASSUME NEW r \in http, HttpCall(r)
      PROVE  TablesOK'
  <2>1. PICK new \in BOOLEAN, answer \in Answers \ {"missing"} :
          /\ booked' = IF new THEN booked \cup {<<r.courier, r.order>>} ELSE booked
          /\ http' = (http \ {r}) \cup {[r EXCEPT !.answer = answer]}
    BY <1>4 DEF HttpCall
  <2>2. [r EXCEPT !.answer = answer] \in Request
    BY <1>2 DEF Request
  <2>3. QED
    BY <1>2, <1>4, <2>1, <2>2 DEF HttpCall, tables, TablesOK
<1>5. ASSUME NEW r \in http, HttpEnd(r)
      PROVE  TablesOK'
  <2>1. r.answer \in Answers
    BY <1>2, <1>5 DEF HttpEnd, Request
  <2>2. rows' \in [Orders -> Row]
    BY <1>2, <1>5, <2>1, RowAfterType DEF HttpEnd, TablesOK
  <2>3. QED
    BY <1>5, <2>2 DEF HttpEnd, TablesOK
<1>6. ASSUME NEW r \in http, HttpDies(r)
      PROVE  TablesOK'
  BY <1>6 DEF HttpDies, tables, TablesOK
<1>7. QED
  BY <1>1, <1>3, <1>4, <1>5, <1>6 DEF Http

LEMMA NextType ==
  ASSUME TypeInv, [Next]_vars
  PROVE  TypeInv'
<1>1. CASE UNCHANGED vars
  BY <1>1 DEF vars, TypeInv, TablesOK, SubOK, JobsOK, WorkOK, JobIds
<1>2. ASSUME NEW w \in Workers, CompleteJob(w) \/ FailJob(w) \/ WorkerDies(w)
      PROVE  TypeInv'
  BY <1>2, EndingJob, EndJobType
<1>3. ASSUME NEW w \in Workers, Step(w)
      PROVE  TypeInv'
  BY <1>2, <1>3, ReadType, CallType, RecordType DEF Step
<1>4. QED
  BY <1>1, <1>2, <1>3, SubmissionType, QueueType, HttpType DEF Next, Http

(* Types, and a chunk is never larger than the courier's batch size.        *)
THEOREM BulkTypes == Spec => []TypeOK
<1>1. TypeInv => TypeOK
  <2> SUFFICES ASSUME TypeInv PROVE TypeOK
    OBVIOUS
  <2>1. \A w \in Workers : work[w].job # NoJob => work[w].job \in JobIds
    BY DEF TypeInv, WorkOK, Idle
  <2>2. QED
    BY <2>1 DEF TypeInv, TypeOK, TablesOK, JobsOK, GoodJob
<1>2. QED
  BY InitType, NextType, <1>1, PTL DEF Spec

-----------------------------------------------------------------------------
(* Sequences without repetition *)

Distinct(s) == \A i, j \in DOMAIN s : i # j => s[i] # s[j]

LEMMA TailParts ==
  ASSUME NEW S, NEW s \in Seq(S), s # <<>>
  PROVE  /\ ToSet(s) = {Head(s)} \cup ToSet(Tail(s))
         /\ Distinct(s) => Distinct(Tail(s)) /\ Head(s) \notin ToSet(Tail(s))
<1>1. /\ Tail(s) \in Seq(S) /\ Len(Tail(s)) = Len(s) - 1
      /\ \A i \in 1..Len(Tail(s)) : Tail(s)[i] = s[i + 1]
  BY HeadTailProperties
<1>2. /\ DOMAIN s = 1..Len(s) /\ Len(s) \in Nat \ {0}
      /\ DOMAIN Tail(s) = 1..(Len(s) - 1) /\ Head(s) = s[1]
  BY <1>1, LenProperties, EmptySeq
<1>3. \A x : x \in ToSet(Tail(s)) <=> \E i \in 2..Len(s) : x = s[i]
  <2>1. ASSUME NEW i \in 2..Len(s)
        PROVE  i - 1 \in DOMAIN Tail(s) /\ Tail(s)[i - 1] = s[i]
    BY <1>1, <1>2
  <2>2. ASSUME NEW i \in DOMAIN Tail(s)
        PROVE  i + 1 \in 2..Len(s) /\ Tail(s)[i] = s[i + 1]
    BY <1>1, <1>2
  <2>3. ASSUME NEW i \in 2..Len(s)
        PROVE  s[i] \in ToSet(Tail(s))
    BY <2>1 DEF ToSet
  <2>4. ASSUME NEW x \in ToSet(Tail(s))
        PROVE  \E i \in 2..Len(s) : x = s[i]
    <3>1. PICK i \in DOMAIN Tail(s) : x = Tail(s)[i]
      BY DEF ToSet
    <3>2. QED
      BY <2>2, <3>1
  <2>5. QED
    BY <2>3, <2>4
<1>4. ToSet(s) = {Head(s)} \cup ToSet(Tail(s))
  <2>1. \A i : i \in DOMAIN s <=> i = 1 \/ i \in 2..Len(s)
    BY <1>2
  <2>2. \A x : x \in ToSet(s) <=> x = s[1] \/ \E i \in 2..Len(s) : x = s[i]
    BY <2>1 DEF ToSet
  <2>3. QED
    BY <1>2, <1>3, <2>2
<1>5. ASSUME Distinct(s)
      PROVE  Distinct(Tail(s)) /\ Head(s) \notin ToSet(Tail(s))
  <2>1. Head(s) \notin ToSet(Tail(s))
    BY <1>2, <1>3, <1>5 DEF Distinct
  <2>2. ASSUME NEW i \in DOMAIN Tail(s), NEW j \in DOMAIN Tail(s), i # j
        PROVE  Tail(s)[i] # Tail(s)[j]
    <3>1. i + 1 \in DOMAIN s /\ j + 1 \in DOMAIN s /\ i + 1 # j + 1
      BY <1>2, <2>2
    <3>2. QED
      BY <1>1, <1>2, <1>5, <3>1 DEF Distinct
  <2>3. QED
    BY <2>1, <2>2 DEF Distinct
<1>6. QED
  BY <1>4, <1>5

LEMMA AppendParts ==
  ASSUME NEW S, NEW s \in Seq(S), NEW e \in S
  PROVE  /\ ToSet(Append(s, e)) = ToSet(s) \cup {e}
         /\ Distinct(s) /\ e \notin ToSet(s) => Distinct(Append(s, e))
<1>1. /\ Append(s, e) \in Seq(S) /\ Len(Append(s, e)) = Len(s) + 1
      /\ \A i \in 1..Len(s) : Append(s, e)[i] = s[i]
      /\ Append(s, e)[Len(s) + 1] = e
  BY AppendProperties
<1>2. /\ DOMAIN s = 1..Len(s) /\ Len(s) \in Nat
      /\ DOMAIN Append(s, e) = 1..(Len(s) + 1)
  BY <1>1, LenProperties
<1>3. ToSet(Append(s, e)) = ToSet(s) \cup {e}
  BY <1>1, <1>2 DEF ToSet
<1>4. Distinct(s) /\ e \notin ToSet(s) => Distinct(Append(s, e))
  BY <1>1, <1>2 DEF ToSet, Distinct
<1>5. QED
  BY <1>3, <1>4

LEMMA CutLength ==
  \A l, n \in Nat : n <= l => (IF n + 1 <= l THEN l - (n + 1) + 1 ELSE 0) = l - n
OBVIOUS

LEMMA CutParts ==
  ASSUME NEW S, NEW s \in Seq(S), NEW n \in 1..Len(s)
  PROVE  LET front == SubSeq(s, 1, n)
             rest == SubSeq(s, n + 1, Len(s))
         IN /\ front \in Seq(S) /\ rest \in Seq(S)
            /\ ToSet(front) \subseteq ToSet(s) /\ ToSet(rest) \subseteq ToSet(s)
            /\ Distinct(s) => Distinct(front) /\ Distinct(rest)
                              /\ ToSet(front) \cap ToSet(rest) = {}
<1> DEFINE front == SubSeq(s, 1, n)
           rest == SubSeq(s, n + 1, Len(s))
<1>1. DOMAIN s = 1..Len(s) /\ Len(s) \in Nat /\ \A i \in 1..Len(s) : s[i] \in S
  BY LenProperties, ElementOfSeq
<1>2. front \in Seq(S) /\ Len(front) = n /\ \A i \in 1..n : front[i] = s[i]
  BY <1>1, SubSeqProperties
<1>3. /\ rest \in Seq(S) /\ Len(rest) = Len(s) - n
      /\ \A i \in 1..(Len(s) - n) : rest[i] = s[n + i]
  <2>1. \A i \in (n + 1)..Len(s) : s[i] \in S
    BY <1>1
  <2>2. /\ rest \in Seq(S)
        /\ Len(rest) = IF n + 1 <= Len(s) THEN Len(s) - (n + 1) + 1 ELSE 0
        /\ \A i \in 1..(Len(s) - (n + 1) + 1) : rest[i] = s[n + 1 + i - 1]
    BY <1>1, <2>1, SubSeqProperties
  <2> HIDE DEF rest
  <2>3. Len(rest) = Len(s) - n
    <3>1. n \in Nat /\ Len(s) \in Nat /\ n <= Len(s)
      BY <1>1
    <3>2. QED
      BY <2>2, <3>1, CutLength
  <2>4. ASSUME NEW i \in 1..(Len(s) - n)
        PROVE  i \in 1..(Len(s) - (n + 1) + 1) /\ n + 1 + i - 1 = n + i
    BY <1>1
  <2>5. QED
    BY <2>2, <2>3, <2>4
<1>4. DOMAIN front = 1..n /\ DOMAIN rest = 1..(Len(s) - n)
  BY <1>2, <1>3, LenProperties
<1> HIDE DEF front, rest
<1>5. \A i \in DOMAIN front : i \in DOMAIN s /\ i <= n /\ front[i] = s[i]
  BY <1>1, <1>2, <1>4
<1>6. \A i \in DOMAIN rest : n + i \in DOMAIN s /\ n + i > n /\ rest[i] = s[n + i]
  <2>1. ASSUME NEW i \in 1..(Len(s) - n)
        PROVE  n + i \in 1..Len(s) /\ n + i > n
    BY <1>1
  <2>2. QED
    BY <1>1, <1>3, <1>4, <2>1
<1>7. ToSet(front) \subseteq ToSet(s) /\ ToSet(rest) \subseteq ToSet(s)
  BY <1>5, <1>6 DEF ToSet
<1>8. Distinct(s) => Distinct(front)
  BY <1>5 DEF Distinct
<1>9. Distinct(s) => Distinct(rest)
  <2> SUFFICES ASSUME Distinct(s), NEW i \in DOMAIN rest, NEW j \in DOMAIN rest, i # j
               PROVE  rest[i] # rest[j]
    BY DEF Distinct
  <2>1. n + i # n + j
    BY <1>4
  <2>2. QED
    BY <1>6, <2>1 DEF Distinct
<1>10. Distinct(s) => ToSet(front) \cap ToSet(rest) = {}
  <2> SUFFICES ASSUME Distinct(s), NEW i \in DOMAIN front, NEW j \in DOMAIN rest
               PROVE  front[i] # rest[j]
    BY DEF ToSet
  <2>1. i # n + j
    BY <1>4
  <2>2. QED
    BY <1>5, <1>6, <2>1 DEF Distinct
<1>11. QED
  BY <1>2, <1>3, <1>7, <1>8, <1>9, <1>10 DEF front, rest

-----------------------------------------------------------------------------
(* The courier an order goes to *)

LEMMA NamedCourier ==
  ASSUME NEW s \in Sub, NEW i \in accepted(s.entries)
  PROVE  courierPartner(s.entries, s.entries[i].order) = s.entries[i].courier
<1> DEFINE e == s.entries
           names(c) == \E j \in accepted(e) : e[j].order = e[i].order /\ e[j].courier = c
<1>1. \A j \in accepted(e) : j \in Nat /\ j \in DOMAIN e /\ DOMAIN e = 1..Len(e) /\ valid(e[j])
  BY LenProperties DEF accepted, Sub
<1>2. ASSUME NEW j \in accepted(e), e[j].order = e[i].order
      PROVE  j = i
  <2>1. \A l \in 1..(j - 1) : valid(e[l]) => e[l].order # e[j].order
    BY DEF accepted
  <2>2. \A l \in 1..(i - 1) : valid(e[l]) => e[l].order # e[i].order
    BY DEF accepted
  <2>3. j \in Nat /\ i \in Nat /\ j >= 1 /\ i >= 1 /\ valid(e[i]) /\ valid(e[j])
    BY <1>1
  <2>4. CASE i < j
    <3>1. i \in 1..(j - 1)
      BY <2>3, <2>4
    <3>2. QED
      BY <1>2, <2>1, <2>3, <3>1
  <2>5. CASE j < i
    <3>1. j \in 1..(i - 1)
      BY <2>3, <2>5
    <3>2. QED
      BY <1>2, <2>2, <2>3, <3>1
  <2>6. QED
    BY <2>3, <2>4, <2>5
<1>3. e[i].courier \in Couriers
  BY AcceptedEntry DEF Entry
<1>4. names(e[i].courier) /\ \A c \in Couriers : names(c) => c = e[i].courier
  BY <1>2
<1> HIDE DEF names
<1>5. (CHOOSE c \in Couriers : names(c)) = e[i].courier
  BY <1>3, <1>4
<1>6. QED
  BY <1>5 DEF courierPartner, names

(* Every order is queued, put in a chunk and called for at the courier its  *)
(* submission names for it.                                                 *)
InHand(w) == ToSet(work[w].unread) \cup ToSet(work[w].rows) \cup DOMAIN work[w].answers

QueuedNamed(b) ==
  \A c \in Registry : \A o \in ToSet(sub[b].queued[c]) : CourierFor(b, o) = c

ChunkNamed(b, k) == \A o \in ToSet(jobs[b][k].orders) : CourierFor(b, o) = jobs[b][k].courier

SlotNamed(w) == \A o \in InHand(w) : CourierFor(BatchOf(w), o) = work[w].adapter

NamedInv ==
  /\ \A b \in Batches : QueuedNamed(b) /\ \A k \in DOMAIN jobs[b] : ChunkNamed(b, k)
  /\ \A w \in Workers : SlotNamed(w)

LEMMA InitNamed == Init => NamedInv
<1> SUFFICES ASSUME Init PROVE NamedInv
  OBVIOUS
<1>1. \A b \in Batches : jobs[b] = <<>> /\ \A c \in Registry : sub[b].queued[c] = <<>>
  BY DEF Init
<1>2. \A w \in Workers : work[w] = Idle
  BY DEF Init
<1>3. ToSet(<<>>) = {} /\ DOMAIN <<>> = {}
  BY DEF ToSet
<1>4. QED
  BY <1>1, <1>2, <1>3 DEF NamedInv, QueuedNamed, SlotNamed, InHand, Idle

(* What a submission's step does to its orders.                             *)
Fresh(o) == rows[o].status \in {"ABSENT", "PENDING"}

LEMMA ReserveEffect ==
  ASSUME TypeInv, NEW b \in Batches, Reserve(b)
  PROVE  \E i \in sub[b].todo : \E o \in Orders, c \in Registry :
           /\ i \in DOMAIN sub[b].entries /\ o = sub[b].entries[i].order
           /\ c = CourierFor(b, o)
           /\ rows' = IF rows[o].status = "ABSENT" THEN [rows EXCEPT ![o].status = "PENDING"]
                      ELSE rows
           /\ \A d \in Batches : d # b => sub'[d] = sub[d]
           /\ sub'[b].at = sub[b].at /\ sub'[b].entries = sub[b].entries
           /\ sub'[b].todo = sub[b].todo \ {i}
           /\ \A d \in Registry :
                sub'[b].queued[d] = IF d = c /\ Fresh(o) THEN Append(sub[b].queued[d], o)
                                    ELSE sub[b].queued[d]
           /\ \A p \in Orders :
                sub'[b].seeds[p] = IF p # o THEN sub[b].seeds[p]
                                   ELSE IF Fresh(o) THEN "PENDING" ELSE "DUPLICATE"
<1>1. sub \in [Batches -> Sub] /\ sub[b] \in Sub /\ sub[b].todo \subseteq accepted(sub[b].entries)
  BY DEF TypeInv, SubOK
<1>2. PICK i \in sub[b].todo :
        LET o == sub[b].entries[i].order
            c == sub[b].entries[i].courier
        IN /\ IF rows[o].status = "ABSENT" THEN InsertRow(o) ELSE UNCHANGED rows
           /\ sub' = [sub EXCEPT ![b].todo = @ \ {i},
                                 ![b].queued[c] = IF Fresh(o) THEN Append(@, o) ELSE @,
                                 ![b].seeds[o] = IF Fresh(o) THEN "PENDING" ELSE "DUPLICATE"]
  BY DEF Reserve, Fresh
<1>3. PICK o \in Orders, c \in Registry :
        /\ i \in DOMAIN sub[b].entries /\ o = sub[b].entries[i].order
        /\ c = sub[b].entries[i].courier /\ c = CourierFor(b, o)
  BY <1>1, AcceptedEntry, NamedCourier DEF CourierFor
<1>4. rows' = IF rows[o].status = "ABSENT" THEN [rows EXCEPT ![o].status = "PENDING"] ELSE rows
  BY <1>2, <1>3 DEF InsertRow
<1>5. /\ \A d \in Batches : d # b => sub'[d] = sub[d]
      /\ sub'[b] = [sub[b] EXCEPT !.todo = @ \ {i},
                                  !.queued[c] = IF Fresh(o) THEN Append(@, o) ELSE @,
                                  !.seeds[o] = IF Fresh(o) THEN "PENDING" ELSE "DUPLICATE"]
  BY <1>1, <1>2, <1>3
<1>6. /\ sub'[b].at = sub[b].at /\ sub'[b].entries = sub[b].entries
      /\ sub'[b].todo = sub[b].todo \ {i}
      /\ sub'[b].queued = [sub[b].queued EXCEPT ![c] = IF Fresh(o) THEN Append(@, o) ELSE @]
      /\ sub'[b].seeds = [sub[b].seeds EXCEPT ![o] = IF Fresh(o) THEN "PENDING" ELSE "DUPLICATE"]
  BY <1>1, <1>5 DEF Sub
<1>7. \A p \in Orders :
        sub'[b].seeds[p] = IF p # o THEN sub[b].seeds[p]
                           ELSE IF Fresh(o) THEN "PENDING" ELSE "DUPLICATE"
  BY <1>1, <1>3, <1>6 DEF Sub
<1>8. \A d \in Registry :
        sub'[b].queued[d] = IF d = c /\ Fresh(o) THEN Append(sub[b].queued[d], o)
                            ELSE sub[b].queued[d]
  BY <1>1, <1>3, <1>6 DEF Sub
<1>9. /\ \A d \in Batches : d # b => sub'[d] = sub[d]
      /\ sub'[b].at = sub[b].at /\ sub'[b].entries = sub[b].entries
      /\ sub'[b].todo = sub[b].todo \ {i}
  BY <1>5, <1>6
<1> WITNESS i \in sub[b].todo
<1> WITNESS o \in Orders, c \in Registry
<1>10. QED
  BY <1>3, <1>4, <1>7, <1>8, <1>9

LEMMA EnqueueEffect ==
  ASSUME TypeInv, NEW b \in Batches, Enqueue(b)
  PROVE  \E c \in Registry : \E n \in 1..Len(sub[b].queued[c]) :
           LET left == sub[b].queued[c]
               job == ChunkJob(c, SubSeq(left, 1, n))
           IN /\ left \in Seq(Orders) /\ left # <<>>
              /\ jobs' = [jobs EXCEPT ![b] = Append(@, job)]
              /\ \A d \in Batches : d # b => sub'[d] = sub[d]
              /\ sub'[b].at = sub[b].at /\ sub'[b].entries = sub[b].entries
              /\ sub'[b].todo = sub[b].todo /\ sub'[b].seeds = sub[b].seeds
              /\ \A d \in Registry :
                   sub'[b].queued[d] = IF d = c THEN SubSeq(left, n + 1, Len(left))
                                       ELSE sub[b].queued[d]
<1>1. sub \in [Batches -> Sub] /\ sub[b] \in Sub
  BY DEF TypeInv, SubOK
<1> DEFINE left(c) == sub[b].queued[c]
           n(c) == Min2(ChunkSize[c], Len(left(c)))
<1>2. PICK c \in Registry :
        /\ left(c) # <<>>
        /\ jobs' = [jobs EXCEPT ![b] = Append(@, ChunkJob(c, SubSeq(left(c), 1, n(c))))]
        /\ sub' = [sub EXCEPT ![b].queued[c] = SubSeq(left(c), n(c) + 1, Len(left(c)))]
  BY DEF Enqueue
<1>3. left(c) \in Seq(Orders) /\ Len(left(c)) \in Nat \ {0}
  BY <1>1, <1>2, EmptySeq, LenProperties DEF Sub
<1>4. n(c) \in 1..Len(left(c))
  <2>1. ChunkSize[c] \in Nat \ {0}
    BY BulkAssumption
  <2>2. QED
    BY <1>3, <2>1 DEF Min2
<1> HIDE DEF n
<1>5. /\ \A d \in Batches : d # b => sub'[d] = sub[d]
      /\ sub'[b] = [sub[b] EXCEPT !.queued[c] = SubSeq(left(c), n(c) + 1, Len(left(c)))]
  BY <1>1, <1>2
<1>6. /\ sub'[b].at = sub[b].at /\ sub'[b].entries = sub[b].entries
      /\ sub'[b].todo = sub[b].todo /\ sub'[b].seeds = sub[b].seeds
      /\ sub'[b].queued = [sub[b].queued EXCEPT
                             ![c] = SubSeq(left(c), n(c) + 1, Len(left(c)))]
  BY <1>1, <1>5 DEF Sub
<1>7. \A d \in Registry :
        sub'[b].queued[d] = IF d = c THEN SubSeq(left(c), n(c) + 1, Len(left(c)))
                            ELSE sub[b].queued[d]
  BY <1>1, <1>6 DEF Sub
<1>8. QED
  BY <1>2, <1>3, <1>4, <1>5, <1>6, <1>7

(* A job stays, with its orders and its courier, whatever becomes of it;    *)
(* only Enqueue adds one.                                                   *)
LEMMA JobsForward ==
  ASSUME TypeInv, [Next]_vars, NEW b \in Batches
  PROVE  /\ \A k \in DOMAIN jobs[b] :
              /\ k \in DOMAIN jobs'[b] /\ jobs'[b][k].orders = jobs[b][k].orders
              /\ jobs'[b][k].courier = jobs[b][k].courier
         /\ ~Enqueue(b) => DOMAIN jobs'[b] = DOMAIN jobs[b]
<1> DEFINE Kept ==
      /\ \A k \in DOMAIN jobs[b] :
           /\ k \in DOMAIN jobs'[b] /\ jobs'[b][k].orders = jobs[b][k].orders
           /\ jobs'[b][k].courier = jobs[b][k].courier
      /\ ~Enqueue(b) => DOMAIN jobs'[b] = DOMAIN jobs[b]
<1>1. jobs[b] \in Seq(Job) /\ DOMAIN jobs[b] \subseteq Nat
  BY LenProperties DEF TypeInv, JobsOK
<1>2. CASE jobs' = jobs
  BY <1>2
<1>3. ASSUME NEW c \in Batches, NEW l \in DOMAIN jobs[c], NEW j \in Job, GoodJob(j),
             j.orders = jobs[c][l].orders, j.courier = jobs[c][l].courier,
             jobs' = [jobs EXCEPT ![c][l] = j]
      PROVE  Kept
  BY <1>1, <1>3, JobStep DEF TypeInv
<1>4. ASSUME NEW c \in Batches, Enqueue(c)
      PROVE  Kept
  <2>1. PICK j : jobs' = [jobs EXCEPT ![c] = Append(@, j)]
    BY <1>4 DEF Enqueue
  <2>2. IF b = c THEN jobs'[b] = Append(jobs[b], j) ELSE jobs'[b] = jobs[b]
    BY <2>1 DEF TypeInv, JobsOK
  <2>3. jobs'[b] \in Seq(Job)
    BY <1>4, NextType DEF Next, Submission, TypeInv, JobsOK
  <2>4. CASE b = c
    <3>1. jobs'[b] = Append(jobs[b], j) /\ Len(jobs[b]) \in Nat /\ DOMAIN jobs[b] = 1..Len(jobs[b])
      BY <1>1, <2>2, <2>4, LenProperties
    <3>2. DOMAIN jobs'[b] = 1..(Len(jobs[b]) + 1) /\ \A k \in 1..Len(jobs[b]) : jobs'[b][k] = jobs[b][k]
      BY <1>1, <3>1
    <3>3. \A k \in DOMAIN jobs[b] : k \in DOMAIN jobs'[b] /\ jobs'[b][k] = jobs[b][k]
      BY <3>1, <3>2
    <3>4. QED
      BY <1>4, <2>4, <3>3
  <2>5. CASE b # c
    BY <2>2, <2>5
  <2>6. QED
    BY <2>4, <2>5
<1>5. ASSUME NEW c \in Batches, Submission(c) \/ SubmitDies(c), ~Enqueue(c)
      PROVE  jobs' = jobs
  BY <1>5 DEF Submission, SubmitDies, Reserve, CreateBatch, Accepted
<1>6. ASSUME NEW w \in Workers, CompleteJob(w) \/ FailJob(w) \/ WorkerDies(w)
      PROVE  Kept
  <2>1. PICK c \in Batches : \E l \in DOMAIN jobs[c] :
          work[w].job = <<c, l>> /\ JobOf(w) = jobs[c][l]
    BY <1>6, EndingJob, HeldJob
  <2>2. PICK l \in DOMAIN jobs[c] : work[w].job = <<c, l>> /\ JobOf(w) = jobs[c][l]
    BY <2>1
  <2>3. PICK j : EndJob(w, j) /\ (Owns(w) => /\ j \in Job /\ GoodJob(j)
                                        /\ j.orders = JobOf(w).orders
                                        /\ j.courier = JobOf(w).courier)
    BY <1>6, EndingJob
  <2>4. CASE Owns(w)
    <3>1. jobs' = [jobs EXCEPT ![c][l] = j]
      BY <2>2, <2>3, <2>4 DEF EndJob
    <3>2. QED
      BY <1>3, <2>2, <2>3, <2>4, <3>1
  <2>5. CASE ~Owns(w)
    BY <1>2, <2>3, <2>5 DEF EndJob
  <2>6. QED
    BY <2>4, <2>5
<1>7. ASSUME NEW c \in Batches, NEW l \in DOMAIN jobs[c]
      PROVE  /\ \A w \in Workers : /\ Picked(w, c, l).orders = jobs[c][l].orders
                                  /\ Picked(w, c, l).courier = jobs[c][l].courier
             /\ Unlocked(c, l).orders = jobs[c][l].orders
             /\ Unlocked(c, l).courier = jobs[c][l].courier
             /\ PutBack(c, l).orders = jobs[c][l].orders
             /\ PutBack(c, l).courier = jobs[c][l].courier
  <2>1. jobs[c][l] \in Job
    BY ElementOfSeq, LenProperties DEF TypeInv, JobsOK
  <2>2. QED
    BY <2>1 DEF Picked, Unlocked, PutBack, Job
<1>8. ASSUME NEW w \in Workers, Pick(w)
      PROVE  Kept
  <2>1. PICK c \in Batches : \E l \in DOMAIN jobs[c] : PickJob(w, c, l)
    BY <1>8 DEF Pick, JobIds
  <2>2. PICK l \in DOMAIN jobs[c] : PickJob(w, c, l)
    BY <2>1
  <2>3. /\ jobs' = [jobs EXCEPT ![c][l] = Picked(w, c, l)]
        /\ Picked(w, c, l) \in Job /\ GoodJob(Picked(w, c, l))
    BY <2>2, QueueJobs
  <2>4. QED
    BY <1>3, <1>7, <2>3
<1>9. ASSUME Stalled
      PROVE  Kept
  <2>1. PICK c \in Batches : \E l \in DOMAIN jobs[c] : StalledCheck(c, l)
    BY <1>9 DEF Stalled, JobIds
  <2>2. PICK l \in DOMAIN jobs[c] : StalledCheck(c, l)
    BY <2>1
  <2>3. /\ jobs' = [jobs EXCEPT ![c][l] = PutBack(c, l)]
        /\ PutBack(c, l) \in Job /\ GoodJob(PutBack(c, l))
    BY <2>2, QueueJobs
  <2>4. QED
    BY <1>3, <1>7, <2>3
<1>10. ASSUME NEW w \in Workers, LoseLock(w)
       PROVE  Kept
  <2>1. work[w].at # "idle"
    <3>1. work[w] # Idle
      BY <1>10 DEF LoseLock
    <3>2. QED
      BY <3>1 DEF TypeInv, WorkOK
  <2>2. PICK c \in Batches : \E l \in DOMAIN jobs[c] : work[w].job = <<c, l>>
    BY <2>1, HeldJob
  <2>3. PICK l \in DOMAIN jobs[c] : work[w].job = <<c, l>>
    BY <2>2
  <2>4. jobs' = [jobs EXCEPT ![c][l] = Unlocked(c, l)]
    BY <1>10, <2>3, LosesLock
  <2>5. QED
    BY <1>3, <1>7, <2>4, QueueJobs
<1>11. ASSUME NEW w \in Workers, Step(w), ~CompleteJob(w), ~FailJob(w)
       PROVE  jobs' = jobs
  BY <1>11 DEF Step, ReadRow, Start, CallCourier, CallFails, RecordRow, RecordItem, CountItems,
               UpdateBatch, Throw
<1>12. ASSUME Http
       PROVE  jobs' = jobs
  BY <1>12 DEF Http, HttpBegin, HttpCall, HttpEnd, HttpDies
<1>13. CASE UNCHANGED vars
  BY <1>2, <1>13 DEF vars
<1>14. QED
  BY <1>2, <1>4, <1>5, <1>6, <1>8, <1>9, <1>10, <1>11, <1>12, <1>13 DEF Next, Http

(* What a submission asked for stays as it was sent.                        *)
LEMMA EntriesStay ==
  ASSUME TypeInv, [Next]_vars, NEW b \in Batches
  PROVE  sub'[b].entries = sub[b].entries
<1>1. sub \in [Batches -> Sub]
  BY DEF TypeInv, SubOK
<1>2. CASE sub' = sub
  BY <1>2
<1>3. ASSUME NEW c \in Batches, Reserve(c)
      PROVE  sub'[b].entries = sub[b].entries
  <2>1. PICK i \in sub[c].todo : \E o \in Orders, d \in Registry :
          (\A e \in Batches : e # c => sub'[e] = sub[e]) /\ sub'[c].entries = sub[c].entries
    BY <1>3, ReserveEffect
  <2>2. QED
    BY <2>1
<1>4. ASSUME NEW c \in Batches, Enqueue(c)
      PROVE  sub'[b].entries = sub[b].entries
  <2>1. PICK d \in Registry :
          (\A e \in Batches : e # c => sub'[e] = sub[e]) /\ sub'[c].entries = sub[c].entries
    BY <1>4, EnqueueEffect
  <2>2. QED
    BY <2>1
<1>5. ASSUME NEW c \in Batches, CreateBatch(c) \/ Accepted(c) \/ SubmitDies(c)
      PROVE  sub'[b].entries = sub[b].entries
  <2>1. PICK at : sub' = [sub EXCEPT ![c].at = at]
    BY <1>5 DEF CreateBatch, Accepted, SubmitDies
  <2>2. QED
    BY <1>1, <2>1 DEF Sub
<1>6. CASE \E w \in Workers : Pick(w) \/ Step(w) \/ WorkerDies(w) \/ LoseLock(w)
  BY <1>2, <1>6 DEF Pick, PickJob, Step, ReadRow, Start, CallCourier, CallFails, RecordRow,
     RecordItem, CountItems, UpdateBatch, Throw, CompleteJob, FailJob, WorkerDies, EndJob, LoseLock
<1>7. CASE UNCHANGED vars \/ Stalled \/ Http
  BY <1>2, <1>7 DEF vars, Stalled, StalledCheck, Http, HttpBegin, HttpCall, HttpEnd, HttpDies
<1>8. QED
  BY <1>3, <1>4, <1>5, <1>6, <1>7 DEF Next, Submission, Http

LEMMA PartnersStay ==
  ASSUME TypeInv, [Next]_vars, NEW b \in Batches, NEW o
  PROVE  CourierFor(b, o)' = CourierFor(b, o)
BY EntriesStay DEF CourierFor

(* The orders a slot has in hand come with the job it takes.                *)
LEMMA HandSteps ==
  ASSUME TypeInv, [Next]_vars, NEW w \in Workers
  PROVE  \/ /\ work'[w].job = work[w].job /\ work'[w].adapter = work[w].adapter
            /\ InHand(w)' \subseteq InHand(w)
         \/ work'[w] = Idle
         \/ \E b \in Batches : \E k \in DOMAIN jobs[b] : work'[w] = TaskFor(b, k)
<1> DEFINE Keeps == /\ work'[w].job = work[w].job /\ work'[w].adapter = work[w].adapter
                    /\ InHand(w)' \subseteq InHand(w)
<1>1. work \in [Workers -> Task] /\ work[w] \in Task
  BY DEF TypeInv, WorkOK
<1>2. CASE work'[w] = work[w]
  BY <1>2 DEF InHand
<1>3. CASE ReadRow(w)
  <2> DEFINE o == Head(work[w].unread)
  <2>1. /\ work[w].unread \in Seq(Orders) /\ work[w].unread # <<>>
        /\ work[w].rows \in Seq(Orders)
    BY <1>1, <1>3 DEF ReadRow, Task
  <2>2. /\ work'[w].job = work[w].job /\ work'[w].adapter = work[w].adapter
        /\ work'[w].answers = work[w].answers /\ work'[w].unread = Tail(work[w].unread)
        /\ work'[w].rows = work[w].rows \/ work'[w].rows = Append(work[w].rows, o)
    BY <1>1, <1>3 DEF ReadRow, Task
  <2>3. ToSet(work[w].unread) = {o} \cup ToSet(Tail(work[w].unread))
    BY <2>1, TailParts
  <2>4. o \in Orders
    BY <2>1, HeadTailProperties
  <2>5. ToSet(Append(work[w].rows, o)) = ToSet(work[w].rows) \cup {o}
    BY <2>1, <2>4, AppendParts
  <2>6. Keeps
    BY <2>2, <2>3, <2>5 DEF InHand
  <2>7. QED
    BY <2>6
<1>4. CASE CallCourier(w)
  <2>1. work[w].rows \in Seq(Orders) /\ work[w].rows # <<>>
    BY <1>1, <1>4 DEF CallCourier, TypeInv, WorkOK, Task
  <2>2. ToSet(work[w].rows) = {Head(work[w].rows)} \cup ToSet(Tail(work[w].rows))
    BY <2>1, TailParts
  <2>3. PICK answers \in [Called(w) -> Answers] :
          work' = [work EXCEPT ![w].at = "row", ![w].answers = answers,
                               ![w].rows = IF Natively(w) THEN <<>> ELSE Tail(@)]
    BY <1>4 DEF CallCourier, NativeAnswers, SingleAnswers
  <2>4. /\ work'[w].job = work[w].job /\ work'[w].adapter = work[w].adapter
        /\ work'[w].unread = work[w].unread /\ DOMAIN work'[w].answers = Called(w)
        /\ work'[w].rows = <<>> \/ work'[w].rows = Tail(work[w].rows)
    BY <1>1, <2>3 DEF Task
  <2>5. ToSet(<<>>) = {}
    BY DEF ToSet
  <2>6. Called(w) \subseteq ToSet(work[w].rows)
    BY <2>2 DEF Called
  <2>7. Keeps
    BY <2>2, <2>4, <2>5, <2>6 DEF InHand
  <2>8. QED
    BY <2>7
<1>5. CASE RecordItem(w)
  <2>1. PICK o \in work[w].order :
          LET left == Restrict(work[w].answers, DOMAIN work[w].answers \ {o}) IN
            work' = [work EXCEPT ![w].order = {}, ![w].answers = left,
                      ![w].at = IF left # <<>> THEN "row"
                                ELSE IF work[w].rows # <<>> THEN "call" ELSE "count"]
    BY <1>5 DEF RecordItem
  <2>2. /\ work'[w].job = work[w].job /\ work'[w].adapter = work[w].adapter
        /\ work'[w].unread = work[w].unread /\ work'[w].rows = work[w].rows
        /\ work'[w].answers = Restrict(work[w].answers, DOMAIN work[w].answers \ {o})
    BY <1>1, <2>1 DEF Task
  <2>3. DOMAIN work'[w].answers \subseteq DOMAIN work[w].answers
    BY <2>2 DEF Restrict
  <2>4. Keeps
    BY <2>2, <2>3 DEF InHand
  <2>5. QED
    BY <2>4
<1>6. CASE RecordRow(w)
  <2>1. PICK o \in DOMAIN work[w].answers :
          work' = [work EXCEPT ![w].order = {o},
                     ![w].at = IF work[w].answers[o] = "down" THEN "threw" ELSE "item"]
    BY <1>6 DEF RecordRow
  <2>2. /\ work'[w].job = work[w].job /\ work'[w].adapter = work[w].adapter
        /\ work'[w].unread = work[w].unread /\ work'[w].rows = work[w].rows
        /\ work'[w].answers = work[w].answers
    BY <1>1, <2>1 DEF Task
  <2>3. QED
    BY <2>2 DEF InHand
<1>7. CASE Start(w) \/ CallFails(w) \/ CountItems(w) \/ UpdateBatch(w) \/ Throw(w)
  <2>1. /\ work'[w].job = work[w].job /\ work'[w].adapter = work[w].adapter
        /\ work'[w].unread = work[w].unread /\ work'[w].rows = work[w].rows
        /\ work'[w].answers = work[w].answers
    BY <1>1, <1>7 DEF Start, CallFails, CountItems, UpdateBatch, Throw, Go, Task
  <2>2. QED
    BY <2>1 DEF InHand
<1>8. CASE CompleteJob(w) \/ FailJob(w) \/ WorkerDies(w)
  BY <1>1, <1>8 DEF CompleteJob, FailJob, WorkerDies, EndJob
<1>9. CASE Pick(w)
  <2>1. PICK b \in Batches : \E k \in DOMAIN jobs[b] : PickJob(w, b, k)
    BY <1>9 DEF Pick, JobIds
  <2>2. PICK k \in DOMAIN jobs[b] : PickJob(w, b, k)
    BY <2>1
  <2>3. work'[w] = TaskFor(b, k)
    BY <1>1, <2>2 DEF PickJob, TaskFor
  <2>4. QED
    BY <2>3
<1>10. ASSUME NEW v \in Workers, v # w, Pick(v) \/ Step(v) \/ WorkerDies(v)
       PROVE  work'[w] = work[w]
  BY <1>1, <1>10 DEF Pick, PickJob, Step, ReadRow, Start, CallCourier, CallFails, RecordRow,
     RecordItem, CountItems, UpdateBatch, Throw, CompleteJob, FailJob, WorkerDies, EndJob, Go
<1>11. CASE \E v \in Workers : LoseLock(v)
  BY <1>2, <1>11 DEF LoseLock
<1>12. CASE UNCHANGED vars \/ Stalled \/ Http \/ \E b \in Batches : Submission(b) \/ SubmitDies(b)
  BY <1>2, <1>12 DEF vars, Stalled, StalledCheck, Http, HttpBegin, HttpCall, HttpEnd, HttpDies,
     Submission, SubmitDies, Reserve, CreateBatch, Enqueue, Accepted
<1>13. QED
  BY <1>2, <1>3, <1>4, <1>5, <1>6, <1>7, <1>8, <1>9, <1>10, <1>11, <1>12 DEF Next, Http, Step

LEMMA NextNamed ==
  ASSUME TypeInv, NamedInv, [Next]_vars
  PROVE  NamedInv'
<1>1. \A b \in Batches : \A o : CourierFor(b, o)' = CourierFor(b, o)
  BY PartnersStay
<1>2. ASSUME NEW b \in Batches
      PROVE  QueuedNamed(b)'
  <2>1. CASE sub'[b].queued = sub[b].queued
    BY <1>1, <2>1 DEF NamedInv, QueuedNamed
  <2>2. CASE Reserve(b)
    <3>1. PICK i \in sub[b].todo : \E o \in Orders, c \in Registry :
            /\ c = CourierFor(b, o)
            /\ \A d \in Registry :
                 sub'[b].queued[d] = IF d = c /\ Fresh(o) THEN Append(sub[b].queued[d], o)
                                     ELSE sub[b].queued[d]
      BY <2>2, ReserveEffect
    <3>2. PICK o \in Orders, c \in Registry :
            /\ c = CourierFor(b, o)
            /\ \A d \in Registry :
                 sub'[b].queued[d] = IF d = c /\ Fresh(o) THEN Append(sub[b].queued[d], o)
                                     ELSE sub[b].queued[d]
      BY <3>1
    <3>3. ASSUME NEW d \in Registry, NEW p \in ToSet(sub'[b].queued[d])
          PROVE  p \in ToSet(sub[b].queued[d]) \/ (d = c /\ p = o)
      <4>1. sub[b].queued[d] \in Seq(Orders)
        BY DEF TypeInv, SubOK, Sub
      <4>2. ToSet(Append(sub[b].queued[d], o)) = ToSet(sub[b].queued[d]) \cup {o}
        BY <4>1, AppendParts
      <4>3. QED
        BY <3>2, <3>3, <4>2
    <3>4. QED
      BY <1>1, <3>2, <3>3 DEF NamedInv, QueuedNamed
  <2>3. CASE Enqueue(b)
    <3>1. PICK c \in Registry : \E n \in 1..Len(sub[b].queued[c]) :
            /\ sub[b].queued[c] \in Seq(Orders)
            /\ \A d \in Registry :
                 sub'[b].queued[d] = IF d = c
                                       THEN SubSeq(sub[b].queued[c], n + 1, Len(sub[b].queued[c]))
                                       ELSE sub[b].queued[d]
      BY <2>3, EnqueueEffect
    <3>2. \A d \in Registry : ToSet(sub'[b].queued[d]) \subseteq ToSet(sub[b].queued[d])
      BY <3>1, CutParts
    <3>3. QED
      BY <1>1, <3>2 DEF NamedInv, QueuedNamed
  <2>4. CASE ~Reserve(b) /\ ~Enqueue(b)
    <3>1. sub \in [Batches -> Sub]
      BY DEF TypeInv, SubOK
    <3>2. ASSUME NEW c \in Batches, Submission(c) \/ SubmitDies(c)
          PROVE  sub'[b].queued = sub[b].queued
      <4>1. CASE Reserve(c)
        <5>1. \A d \in Batches : d # c => sub'[d] = sub[d]
          BY <4>1, ReserveEffect
        <5>2. QED
          BY <2>4, <4>1, <5>1
      <4>2. CASE Enqueue(c)
        <5>1. \A d \in Batches : d # c => sub'[d] = sub[d]
          BY <4>2, EnqueueEffect
        <5>2. QED
          BY <2>4, <4>2, <5>1
      <4>3. CASE CreateBatch(c) \/ Accepted(c) \/ SubmitDies(c)
        <5>1. PICK at : sub' = [sub EXCEPT ![c].at = at]
          BY <4>3 DEF CreateBatch, Accepted, SubmitDies
        <5>2. QED
          BY <3>1, <5>1 DEF Sub
      <4>4. QED
        BY <3>2, <4>1, <4>2, <4>3 DEF Submission
    <3>3. CASE \E w \in Workers : Pick(w) \/ Step(w) \/ WorkerDies(w) \/ LoseLock(w)
      <4>1. sub' = sub
        BY <3>3 DEF Pick, PickJob, Step, ReadRow, Start, CallCourier, CallFails, RecordRow,
           RecordItem, CountItems, UpdateBatch, Throw, CompleteJob, FailJob, WorkerDies, EndJob,
           LoseLock
      <4>2. QED
        BY <2>1, <4>1
    <3>4. CASE UNCHANGED vars \/ Stalled \/ Http
      <4>1. sub' = sub
        BY <3>4 DEF vars, Stalled, StalledCheck, Http, HttpBegin, HttpCall, HttpEnd, HttpDies
      <4>2. QED
        BY <2>1, <4>1
    <3>5. QED
      BY <2>1, <3>2, <3>3, <3>4 DEF Next, Http
  <2>5. QED
    BY <2>2, <2>3, <2>4
<1>3. ASSUME NEW b \in Batches, NEW k \in DOMAIN jobs'[b]
      PROVE  ChunkNamed(b, k)'
  <2>1. CASE k \in DOMAIN jobs[b]
    <3>1. jobs'[b][k].orders = jobs[b][k].orders /\ jobs'[b][k].courier = jobs[b][k].courier
      BY <2>1, JobsForward
    <3>2. ChunkNamed(b, k)
      BY <2>1 DEF NamedInv
    <3>3. QED
      BY <1>1, <3>1, <3>2 DEF ChunkNamed
  <2>2. CASE k \notin DOMAIN jobs[b]
    <3>1. Enqueue(b)
      BY <2>2, <1>3, JobsForward
    <3>2. PICK c \in Registry : \E n \in 1..Len(sub[b].queued[c]) :
            /\ sub[b].queued[c] \in Seq(Orders)
            /\ jobs' = [jobs EXCEPT ![b] =
                          Append(@, ChunkJob(c, SubSeq(sub[b].queued[c], 1, n)))]
      BY <3>1, EnqueueEffect
    <3>3. PICK n \in 1..Len(sub[b].queued[c]) :
            /\ sub[b].queued[c] \in Seq(Orders)
            /\ jobs' = [jobs EXCEPT ![b] =
                          Append(@, ChunkJob(c, SubSeq(sub[b].queued[c], 1, n)))]
      BY <3>2
    <3> DEFINE front == SubSeq(sub[b].queued[c], 1, n)
    <3>4. jobs'[b] = Append(jobs[b], ChunkJob(c, front)) /\ jobs[b] \in Seq(Job)
      BY <3>3 DEF TypeInv, JobsOK
    <3>5. jobs'[b][k] = ChunkJob(c, front)
      BY <1>3, <2>2, <3>4, LenProperties
    <3>6. ToSet(front) \subseteq ToSet(sub[b].queued[c])
      BY <3>3, CutParts
    <3> HIDE DEF front
    <3>7. jobs'[b][k].orders = front /\ jobs'[b][k].courier = c
      BY <3>5 DEF ChunkJob
    <3>8. QED
      BY <1>1, <3>6, <3>7 DEF NamedInv, QueuedNamed, ChunkNamed
  <2>3. QED
    BY <2>1, <2>2
<1>4. ASSUME NEW w \in Workers
      PROVE  SlotNamed(w)'
  <2>1. CASE /\ work'[w].job = work[w].job /\ work'[w].adapter = work[w].adapter
             /\ InHand(w)' \subseteq InHand(w)
    <3>1. CASE work[w].at = "idle"
      <4>1. InHand(w) = {}
        <5>1. work[w] = Idle
          BY <3>1 DEF TypeInv, WorkOK
        <5>2. ToSet(<<>>) = {} /\ DOMAIN <<>> = {}
          BY DEF ToSet
        <5>3. QED
          BY <5>1, <5>2 DEF InHand, Idle
      <4>2. QED
        BY <2>1, <4>1 DEF SlotNamed
    <3>2. CASE work[w].at # "idle"
      <4>1. BatchOf(w) \in Batches
        BY <3>2, HeldJob
      <4>2. BatchOf(w)' = BatchOf(w)
        BY <2>1 DEF BatchOf
      <4>3. SlotNamed(w)
        BY DEF NamedInv
      <4>4. ASSUME NEW o \in InHand(w)'
            PROVE  CourierFor(BatchOf(w), o)' = work'[w].adapter
        <5>1. CourierFor(BatchOf(w), o) = work[w].adapter
          BY <2>1, <4>3, <4>4 DEF SlotNamed
        <5>2. PICK b \in Batches : b = BatchOf(w)
          BY <4>1
        <5>3. CourierFor(b, o)' = CourierFor(b, o)
          BY <1>1
        <5>4. QED
          BY <2>1, <4>2, <5>1, <5>2, <5>3 DEF CourierFor
      <4>5. QED
        BY <4>4 DEF SlotNamed
    <3>3. QED
      BY <3>1, <3>2
  <2>2. CASE work'[w] = Idle
    <3>1. ToSet(<<>>) = {} /\ DOMAIN <<>> = {}
      BY DEF ToSet
    <3>2. QED
      BY <2>2, <3>1 DEF SlotNamed, InHand, Idle
  <2>3. CASE \E b \in Batches : \E k \in DOMAIN jobs[b] : work'[w] = TaskFor(b, k)
    <3>1. PICK b \in Batches : \E k \in DOMAIN jobs[b] : work'[w] = TaskFor(b, k)
      BY <2>3
    <3>2. PICK k \in DOMAIN jobs[b] : work'[w] = TaskFor(b, k)
      BY <3>1
    <3>3. /\ work'[w].unread = jobs[b][k].orders /\ work'[w].rows = <<>>
          /\ work'[w].answers = <<>> /\ work'[w].adapter = jobs[b][k].courier
          /\ work'[w].job[1] = b
      BY <3>2 DEF TaskFor, Idle
    <3>4. ToSet(<<>>) = {} /\ DOMAIN <<>> = {}
      BY DEF ToSet
    <3>5. InHand(w)' = ToSet(jobs[b][k].orders)
      BY <3>3, <3>4 DEF InHand
    <3>6. ChunkNamed(b, k)
      BY DEF NamedInv
    <3>7. ASSUME NEW o \in InHand(w)'
          PROVE  CourierFor(BatchOf(w), o)' = work'[w].adapter
      <4>1. CourierFor(b, o) = jobs[b][k].courier /\ CourierFor(b, o)' = CourierFor(b, o)
        BY <1>1, <3>5, <3>6, <3>7 DEF ChunkNamed
      <4>2. QED
        BY <3>3, <4>1 DEF BatchOf, CourierFor
    <3>8. QED
      BY <3>7 DEF SlotNamed
  <2>4. QED
    BY <2>1, <2>2, <2>3, HandSteps
<1>5. QED
  BY <1>2, <1>3, <1>4 DEF NamedInv

-----------------------------------------------------------------------------
(* What stands behind SUCCEEDED *)

(* Worker w was told that the courier has just booked o.                    *)
Claims(w, o) == o \in DOMAIN work[w].answers /\ work[w].answers[o] = "ok"

(* A courier says so once of an order: to one worker, who has not told the  *)
(* item yet; an item is told after the row has the AWB.                     *)
ClaimsInv ==
  /\ \A w \in Workers, o \in Orders :
       Claims(w, o) =>
         /\ <<work[w].adapter, o>> \in booked
         /\ \A v \in Workers : Claims(v, o) /\ work[v].adapter = work[w].adapter => v = w
         /\ \A b \in Batches : CourierFor(b, o) = work[w].adapter => items[b][o] # "SUCCEEDED"
         /\ work[w].at = "item" /\ o \in work[w].order => rows[o].awb
  /\ \A w \in Workers : work[w].at = "item" => work[w].order \subseteq DOMAIN work[w].answers
  /\ \A b \in Batches, o \in Orders : sub[b].seeds[o] # "SUCCEEDED"

BackedInv == TypeInv /\ NamedInv /\ ClaimsInv /\ SucceededIsBacked /\ OneBatchClaimsOrder

LEMMA InitBacked == Init => BackedInv
<1> SUFFICES ASSUME Init PROVE BackedInv
  OBVIOUS
<1>1. TypeInv
  BY InitType
<1>2. \A w \in Workers : work[w].at = "idle" /\ work[w].answers = <<>>
  BY DEF Init, Idle
<1>3. \A b \in Batches, o \in Orders : items[b][o] = "none" /\ sub[b].seeds[o] = "none"
  BY DEF Init
<1>4. ClaimsInv
  BY <1>2, <1>3 DEF ClaimsInv, Claims
<1>5. QED
  BY <1>1, <1>3, <1>4, InitNamed DEF BackedInv, SucceededIsBacked, OneBatchClaimsOrder

(* A step that makes no claim, keeps AWBs and reports no success.           *)
LEMMA QuietStep ==
  ASSUME BackedInv, TypeInv', NamedInv', [Next]_vars,
         booked \subseteq booked',
         \A o \in Orders : rows[o].awb => rows'[o].awb,
         \A b \in Batches, o \in Orders :
           items'[b][o] = "SUCCEEDED" => items[b][o] = "SUCCEEDED",
         \A b \in Batches, o \in Orders : sub'[b].seeds[o] # "SUCCEEDED",
         \A v \in Workers :
           \/ /\ work'[v].answers = work[v].answers /\ work'[v].adapter = work[v].adapter
              /\ work'[v].at = "item" => work[v].at = "item" /\ work'[v].order = work[v].order
           \/ work'[v].answers = <<>> /\ work'[v].at # "item"
  PROVE  BackedInv'
<1>0. \A b \in Batches : \A o : CourierFor(b, o)' = CourierFor(b, o)
  BY PartnersStay DEF BackedInv
<1>1. \A v \in Workers, o \in Orders :
        Claims(v, o)' => Claims(v, o) /\ work'[v].adapter = work[v].adapter
  BY DEF Claims
<1>2. \A v \in Workers, o \in Orders :
        Claims(v, o)' /\ work'[v].at = "item" /\ o \in work'[v].order
          => work[v].at = "item" /\ o \in work[v].order
  BY DEF Claims
<1>3. \A v \in Workers :
        work'[v].at = "item" => work'[v].order \subseteq DOMAIN work'[v].answers
  BY DEF BackedInv, ClaimsInv
<1>4. ClaimsInv'
  BY <1>0, <1>1, <1>2, <1>3 DEF BackedInv, ClaimsInv
<1>5. SucceededIsBacked' /\ OneBatchClaimsOrder'
  BY <1>0 DEF BackedInv, SucceededIsBacked, OneBatchClaimsOrder
<1>6. QED
  BY <1>4, <1>5 DEF BackedInv

LEMMA SubmissionBacked ==
  ASSUME BackedInv, TypeInv', NamedInv', [Next]_vars, NEW b \in Batches, Submission(b) \/ SubmitDies(b)
  PROVE  BackedInv'
<1>1. work' = work /\ booked' = booked
  BY DEF Submission, SubmitDies, Reserve, CreateBatch, Enqueue, Accepted
<1>2. rows \in [Orders -> Row] /\ sub \in [Batches -> Sub]
      /\ items \in [Batches -> [Orders -> ItemStatus \cup {"none"}]]
  BY DEF BackedInv, TypeInv, TablesOK, SubOK
<1>3. \A o \in Orders : rows[o].awb => rows'[o].awb
  <2>1. CASE rows' = rows
    BY <2>1
  <2>2. CASE \E o : rows' = [rows EXCEPT ![o].status = "PENDING"]
    BY <1>2, <2>2 DEF Row
  <2>3. QED
    BY <2>1, <2>2 DEF Submission, SubmitDies, Reserve, InsertRow, CreateBatch, Enqueue, Accepted
<1>4. \A c \in Batches, o \in Orders : sub'[c].seeds[o] # "SUCCEEDED"
  <2>1. CASE Reserve(b)
    <3>1. \A c \in Batches : c # b => sub'[c] = sub[c]
      BY <2>1, ReserveEffect DEF BackedInv
    <3>2. \A p \in Orders : sub'[b].seeds[p] \in {sub[b].seeds[p], "PENDING", "DUPLICATE"}
      <4>1. PICK i \in sub[b].todo : \E o \in Orders, c \in Registry : \A p \in Orders :
              sub'[b].seeds[p] = IF p # o THEN sub[b].seeds[p]
                                 ELSE IF Fresh(o) THEN "PENDING" ELSE "DUPLICATE"
        BY <2>1, ReserveEffect DEF BackedInv
      <4>2. QED
        BY <4>1
    <3>3. QED
      BY <3>1, <3>2 DEF BackedInv, ClaimsInv
  <2>2. CASE ~Reserve(b)
    <3>1. \A c \in Batches : sub'[c].seeds = sub[c].seeds
      <4>1. CASE CreateBatch(b) \/ Accepted(b) \/ SubmitDies(b)
        <5>1. PICK at : sub' = [sub EXCEPT ![b].at = at]
          BY <4>1 DEF CreateBatch, Accepted, SubmitDies
        <5>2. QED
          BY <1>2, <5>1 DEF Sub
      <4>2. CASE Enqueue(b)
        <5>1. PICK c \in Registry :
                /\ \A d \in Batches : d # b => sub'[d] = sub[d]
                /\ sub'[b].seeds = sub[b].seeds
          BY <4>2, EnqueueEffect DEF BackedInv
        <5>2. QED
          BY <5>1
      <4>3. QED
        BY <2>2, <4>1, <4>2 DEF Submission
    <3>2. QED
      BY <3>1 DEF BackedInv, ClaimsInv
  <2>3. QED
    BY <2>1, <2>2
<1>5. \A c \in Batches, o \in Orders :
        items'[c][o] = "SUCCEEDED" => items[c][o] = "SUCCEEDED"
  <2>1. CASE CreateBatch(b)
    BY <1>2, <2>1 DEF CreateBatch, BackedInv, ClaimsInv
  <2>2. CASE ~CreateBatch(b)
    BY <2>2 DEF Submission, SubmitDies, Reserve, Enqueue, Accepted
  <2>3. QED
    BY <2>1, <2>2
<1>6. QED
  BY <1>1, <1>3, <1>4, <1>5, QuietStep

(* The steps of a slot that make no claim and record nothing.               *)
LEMMA IdlingBacked ==
  ASSUME BackedInv, TypeInv', NamedInv', [Next]_vars, NEW w \in Workers,
         \/ Pick(w) \/ ReadRow(w) \/ Start(w) \/ CallFails(w) \/ CountItems(w) \/ UpdateBatch(w)
         \/ Throw(w) \/ CompleteJob(w) \/ FailJob(w) \/ WorkerDies(w) \/ LoseLock(w)
  PROVE  BackedInv'
<1>1. work \in [Workers -> Task]
  BY DEF BackedInv, TypeInv, WorkOK
<1>2. rows' = rows /\ items' = items /\ sub' = sub
  BY DEF Pick, PickJob, ReadRow, Start, CallFails, CountItems, UpdateBatch, Throw, CompleteJob,
         FailJob, WorkerDies, EndJob, LoseLock, tables
<1>3. booked \subseteq booked'
  BY DEF Pick, PickJob, ReadRow, Start, CallFails, CountItems, UpdateBatch, Throw, CompleteJob,
         FailJob, WorkerDies, EndJob, LoseLock, tables
<1> DEFINE Quiet == \A v \in Workers :
             \/ /\ work'[v].answers = work[v].answers /\ work'[v].adapter = work[v].adapter
                /\ work'[v].at = "item" => work[v].at = "item" /\ work'[v].order = work[v].order
             \/ work'[v].answers = <<>> /\ work'[v].at # "item"
<1>4. CASE ReadRow(w) \/ CountItems(w)
  <2>1. /\ work'[w].answers = work[w].answers /\ work'[w].adapter = work[w].adapter
        /\ work'[w].at # "item"
        /\ \A v \in Workers : v # w => work'[v] = work[v]
    BY <1>1, <1>4 DEF ReadRow, CountItems, Task
  <2>2. Quiet
    BY <2>1
  <2>3. QED
    BY <1>2, <1>3, <2>2, QuietStep DEF BackedInv, ClaimsInv
<1>5. CASE Start(w) \/ CallFails(w) \/ UpdateBatch(w) \/ Throw(w)
  <2>1. PICK at \in Steps \ {"item"} : work' = [work EXCEPT ![w].at = at]
    BY <1>5 DEF Start, CallFails, UpdateBatch, Throw, Go, Steps
  <2>2. Quiet
    BY <1>1, <2>1 DEF Task
  <2>3. QED
    BY <1>2, <1>3, <2>2, QuietStep DEF BackedInv, ClaimsInv
<1>6. CASE CompleteJob(w) \/ FailJob(w) \/ WorkerDies(w)
  <2>1. work' = [work EXCEPT ![w] = Idle]
    BY <1>6 DEF CompleteJob, FailJob, WorkerDies, EndJob
  <2>2. Quiet
    BY <1>1, <2>1 DEF Idle
  <2>3. QED
    BY <1>2, <1>3, <2>2, QuietStep DEF BackedInv, ClaimsInv
<1>7. CASE Pick(w)
  <2>1. PICK b, k : work' = [work EXCEPT ![w] = TaskFor(b, k)]
    BY <1>7 DEF Pick, PickJob, TaskFor
  <2>2. TaskFor(b, k).answers = <<>> /\ TaskFor(b, k).at = "read"
    BY DEF TaskFor, Idle
  <2>3. Quiet
    BY <1>1, <2>1, <2>2
  <2>4. QED
    BY <1>2, <1>3, <2>3, QuietStep DEF BackedInv, ClaimsInv
<1>8. CASE LoseLock(w)
  <2>1. work' = work
    BY <1>8 DEF LoseLock
  <2>2. QED
    BY <1>2, <1>3, <2>1, QuietStep DEF BackedInv, ClaimsInv
<1>9. QED
  BY <1>4, <1>5, <1>6, <1>7, <1>8

LEMMA CallBacked ==
  ASSUME BackedInv, TypeInv', NamedInv', [Next]_vars, NEW w \in Workers, CallCourier(w)
  PROVE  BackedInv'
<1> DEFINE c == work[w].adapter
<1>0. \A b \in Batches : \A o : CourierFor(b, o)' = CourierFor(b, o)
  BY PartnersStay DEF BackedInv
<1>1. PICK new \in SUBSET Called(w),
           answers \in IF Natively(w) THEN NativeAnswers(Called(w)) ELSE SingleAnswers(Called(w)) :
        /\ \A o \in Called(w) : Possible(c, o, answers[o], o \in new)
        /\ booked' = booked \cup ({c} \X new)
        /\ work' = [work EXCEPT ![w].at = "row", ![w].answers = answers,
                                ![w].rows = IF Natively(w) THEN <<>> ELSE Tail(@)]
  BY DEF CallCourier
<1>2. answers \in [Called(w) -> Answers]
  BY DEF NativeAnswers, SingleAnswers
<1>3. rows' = rows /\ items' = items /\ sub' = sub
  BY DEF CallCourier
<1>4. /\ work'[w].answers = answers /\ work'[w].at = "row" /\ work'[w].adapter = c
      /\ \A v \in Workers : v # w => work'[v] = work[v]
  BY <1>1 DEF BackedInv, TypeInv, WorkOK, Task
<1>5. \A o \in Orders : Claims(w, o)' => <<c, o>> \notin booked /\ <<c, o>> \in booked'
  BY <1>1, <1>2, <1>4 DEF Claims, Possible
<1>6. \A v \in Workers, o \in Orders :
        v # w => (Claims(v, o)' <=> Claims(v, o)) /\ work'[v].adapter = work[v].adapter
  BY <1>4 DEF Claims
<1>7. ASSUME NEW v \in Workers, NEW o \in Orders, Claims(v, o)'
      PROVE  /\ <<work'[v].adapter, o>> \in booked'
             /\ \A u \in Workers : Claims(u, o)' /\ work'[u].adapter = work'[v].adapter => u = v
             /\ \A b \in Batches : CourierFor(b, o)' = work'[v].adapter => items'[b][o] # "SUCCEEDED"
             /\ work'[v].at = "item" /\ o \in work'[v].order => rows'[o].awb
  <2>1. CASE v = w
    <3>1. <<c, o>> \notin booked /\ <<c, o>> \in booked'
      BY <1>5, <1>7, <2>1
    <3>2. \A u \in Workers : Claims(u, o)' /\ work'[u].adapter = c => u = v
      BY <1>6, <2>1, <3>1 DEF BackedInv, ClaimsInv
    <3>3. \A b \in Batches : CourierFor(b, o)' = c => items'[b][o] # "SUCCEEDED"
      BY <1>0, <1>3, <3>1 DEF BackedInv, SucceededIsBacked
    <3>4. QED
      BY <1>4, <2>1, <3>1, <3>2, <3>3
  <2>2. CASE v # w
    <3>1. /\ Claims(v, o) /\ <<work[v].adapter, o>> \in booked /\ booked \subseteq booked'
          /\ work'[v].adapter = work[v].adapter
      BY <1>1, <1>6, <1>7, <2>2 DEF BackedInv, ClaimsInv
    <3>2. \A u \in Workers : Claims(u, o)' /\ work'[u].adapter = work[v].adapter => u = v
      BY <1>4, <1>5, <1>6, <3>1 DEF BackedInv, ClaimsInv
    <3>3. \A b \in Batches : CourierFor(b, o)' = work[v].adapter => items'[b][o] # "SUCCEEDED"
      BY <1>0, <1>3, <3>1 DEF BackedInv, ClaimsInv
    <3>4. work'[v].at = "item" /\ o \in work'[v].order => rows'[o].awb
      BY <1>3, <1>4, <2>2, <3>1 DEF BackedInv, ClaimsInv
    <3>5. QED
      BY <3>1, <3>2, <3>3, <3>4
  <2>3. QED
    BY <2>1, <2>2
<1>8. ClaimsInv'
  BY <1>3, <1>4, <1>7 DEF BackedInv, ClaimsInv
<1>9. SucceededIsBacked' /\ OneBatchClaimsOrder'
  BY <1>0, <1>1, <1>3 DEF BackedInv, SucceededIsBacked, OneBatchClaimsOrder
<1>10. QED
  BY <1>8, <1>9 DEF BackedInv

LEMMA RecordRowBacked ==
  ASSUME BackedInv, TypeInv', NamedInv', [Next]_vars, NEW w \in Workers, RecordRow(w)
  PROVE  BackedInv'
<1>0. \A b \in Batches : \A p : CourierFor(b, p)' = CourierFor(b, p)
  BY PartnersStay DEF BackedInv
<1>1. PICK o \in DOMAIN work[w].answers :
        /\ rows' = [rows EXCEPT ![o] = RowAfter(@, work[w].answers[o])]
        /\ work' = [work EXCEPT ![w].order = {o},
                      ![w].at = IF work[w].answers[o] = "down" THEN "threw" ELSE "item"]
  BY DEF RecordRow
<1>2. booked' = booked /\ items' = items /\ sub' = sub
  BY DEF RecordRow
<1>3. /\ work'[w].answers = work[w].answers /\ work'[w].order = {o}
      /\ work'[w].adapter = work[w].adapter
      /\ \A v \in Workers : v # w => work'[v] = work[v]
  BY <1>1 DEF BackedInv, TypeInv, WorkOK, Task
<1>4. \A v \in Workers, p \in Orders :
        (Claims(v, p)' <=> Claims(v, p)) /\ work'[v].adapter = work[v].adapter
  BY <1>3 DEF Claims
<1>5. o \in Orders /\ work[w].answers[o] \in Answers /\ rows \in [Orders -> Row]
  BY AnswerType DEF BackedInv, TypeInv, TablesOK
<1>6. \A p \in Orders : rows[p].awb => rows'[p].awb
  BY <1>1, <1>5, RowAfterType
<1>7. work[w].answers[o] = "ok" => rows'[o].awb
  BY <1>1, <1>5, RowAfterType
<1>8. ASSUME NEW v \in Workers, NEW p \in Orders, Claims(v, p),
             work'[v].at = "item", p \in work'[v].order
      PROVE  rows'[p].awb
  <2>1. CASE v = w
    BY <1>3, <1>7, <1>8, <2>1 DEF Claims
  <2>2. CASE v # w
    BY <1>3, <1>6, <1>8, <2>2 DEF BackedInv, ClaimsInv
  <2>3. QED
    BY <2>1, <2>2
<1>9. \A v \in Workers : work'[v].at = "item" => work'[v].order \subseteq DOMAIN work'[v].answers
  BY <1>3 DEF BackedInv, ClaimsInv
<1>10. ClaimsInv'
  BY <1>0, <1>2, <1>4, <1>8, <1>9 DEF BackedInv, ClaimsInv
<1>11. SucceededIsBacked' /\ OneBatchClaimsOrder'
  BY <1>0, <1>2, <1>6 DEF BackedInv, SucceededIsBacked, OneBatchClaimsOrder
<1>12. QED
  BY <1>10, <1>11 DEF BackedInv

LEMMA RecordItemEffect ==
  ASSUME TypeInv, NEW w \in Workers, RecordItem(w)
  PROVE  \E o \in work[w].order :
           LET left == Restrict(work[w].answers, DOMAIN work[w].answers \ {o}) IN
           /\ o \in Orders /\ work[w].at = "item"
           /\ \A b \in Batches, p \in Orders :
                items'[b][p] = IF b = BatchOf(w) /\ p = o THEN ItemAfter(work[w].answers[o])
                               ELSE items[b][p]
           /\ work'[w].order = {} /\ work'[w].answers = left
           /\ DOMAIN left = DOMAIN work[w].answers \ {o}
           /\ \A p \in DOMAIN left : left[p] = work[w].answers[p]
           /\ work'[w].at = IF left # <<>> THEN "row"
                            ELSE IF work[w].rows # <<>> THEN "call" ELSE "count"
           /\ work'[w].rows = work[w].rows /\ work'[w].unread = work[w].unread
           /\ work'[w].job = work[w].job /\ work'[w].verdict = work[w].verdict
           /\ work'[w].adapter = work[w].adapter
           /\ \A v \in Workers : v # w => work'[v] = work[v]
<1>1. PICK o \in work[w].order :
        LET left == Restrict(work[w].answers, DOMAIN work[w].answers \ {o}) IN
          /\ items' = [items EXCEPT ![BatchOf(w)][o] = ItemAfter(work[w].answers[o])]
          /\ work' = [work EXCEPT ![w].order = {}, ![w].answers = left,
                        ![w].at = IF left # <<>> THEN "row"
                                  ELSE IF work[w].rows # <<>> THEN "call" ELSE "count"]
  BY DEF RecordItem
<1> DEFINE left == Restrict(work[w].answers, DOMAIN work[w].answers \ {o})
<1>2. work[w] \in Task /\ work[w].at = "item"
  BY DEF RecordItem, TypeInv, WorkOK
<1>3. o \in Orders
  BY <1>2 DEF Task
<1>4. items \in [Batches -> [Orders -> ItemStatus \cup {"none"}]]
  BY DEF TypeInv, TablesOK
<1>5. \A b \in Batches, p \in Orders :
        items'[b][p] = IF b = BatchOf(w) /\ p = o THEN ItemAfter(work[w].answers[o])
                       ELSE items[b][p]
  BY <1>1, <1>3, <1>4
<1>6. /\ work'[w].order = {} /\ work'[w].answers = left
      /\ work'[w].at = IF left # <<>> THEN "row"
                       ELSE IF work[w].rows # <<>> THEN "call" ELSE "count"
      /\ work'[w].rows = work[w].rows /\ work'[w].unread = work[w].unread
      /\ work'[w].job = work[w].job /\ work'[w].verdict = work[w].verdict
           /\ work'[w].adapter = work[w].adapter
      /\ \A v \in Workers : v # w => work'[v] = work[v]
  BY <1>1, <1>2 DEF TypeInv, WorkOK, Task
<1>7. /\ DOMAIN left = DOMAIN work[w].answers \ {o}
      /\ \A p \in DOMAIN left : left[p] = work[w].answers[p]
  BY DEF Restrict
<1>8. QED
  BY <1>2, <1>3, <1>5, <1>6, <1>7

LEMMA RecordItemBacked ==
  ASSUME BackedInv, TypeInv', NamedInv', [Next]_vars, NEW w \in Workers, RecordItem(w)
  PROVE  BackedInv'
<1>0. \A b \in Batches : \A p : CourierFor(b, p)' = CourierFor(b, p)
  BY PartnersStay DEF BackedInv
<1>1. rows' = rows /\ booked' = booked /\ sub' = sub
  BY DEF RecordItem
<1>2. PICK o \in work[w].order :
        LET left == Restrict(work[w].answers, DOMAIN work[w].answers \ {o}) IN
        /\ o \in Orders /\ work[w].at = "item"
        /\ \A b \in Batches, p \in Orders :
             items'[b][p] = IF b = BatchOf(w) /\ p = o THEN ItemAfter(work[w].answers[o])
                            ELSE items[b][p]
        /\ work'[w].order = {} /\ work'[w].answers = left
        /\ DOMAIN left = DOMAIN work[w].answers \ {o}
        /\ \A p \in DOMAIN left : left[p] = work[w].answers[p]
        /\ work'[w].at = IF left # <<>> THEN "row"
                         ELSE IF work[w].rows # <<>> THEN "call" ELSE "count"
        /\ work'[w].rows = work[w].rows /\ work'[w].unread = work[w].unread
        /\ work'[w].job = work[w].job /\ work'[w].verdict = work[w].verdict
        /\ work'[w].adapter = work[w].adapter
        /\ \A v \in Workers : v # w => work'[v] = work[v]
  BY RecordItemEffect DEF BackedInv
<1>3. /\ \A v \in Workers, p \in Orders :
             Claims(v, p)' => Claims(v, p) /\ work'[v].adapter = work[v].adapter
      /\ ~Claims(w, o)'
  <2>1. /\ DOMAIN work'[w].answers = DOMAIN work[w].answers \ {o}
        /\ \A p \in DOMAIN work'[w].answers : work'[w].answers[p] = work[w].answers[p]
        /\ work'[w].adapter = work[w].adapter
    BY <1>2
  <2>2. \A v \in Workers : v # w => work'[v] = work[v]
    BY <1>2
  <2>3. QED
    BY <2>1, <2>2 DEF Claims
<1>4. o \in DOMAIN work[w].answers /\ CourierFor(BatchOf(w), o) = work[w].adapter
  <2>1. o \in DOMAIN work[w].answers
    BY <1>2 DEF BackedInv, ClaimsInv
  <2>2. QED
    BY <2>1 DEF BackedInv, NamedInv, SlotNamed, InHand
<1>5. ASSUME NEW b \in Batches, NEW p \in Orders, items'[b][p] = "SUCCEEDED"
      PROVE  \/ items[b][p] = "SUCCEEDED"
             \/ b = BatchOf(w) /\ p = o /\ Claims(w, o) /\ CourierFor(b, p) = work[w].adapter
  BY <1>2, <1>4, <1>5 DEF ItemAfter, Claims
<1>6. ASSUME NEW v \in Workers, NEW p \in Orders, Claims(v, p)', NEW b \in Batches,
             CourierFor(b, p) = work[v].adapter
      PROVE  items'[b][p] # "SUCCEEDED"
  <2>1. Claims(v, p) /\ items[b][p] # "SUCCEEDED"
    BY <1>3, <1>6 DEF BackedInv, ClaimsInv
  <2>2. CASE items'[b][p] = "SUCCEEDED"
    <3>1. b = BatchOf(w) /\ p = o /\ Claims(w, o) /\ CourierFor(b, p) = work[w].adapter
      BY <1>5, <2>1, <2>2
    <3>2. v = w
      BY <1>6, <2>1, <3>1 DEF BackedInv, ClaimsInv
    <3>3. QED
      BY <1>3, <1>6, <3>1, <3>2
  <2>3. QED
    BY <2>2
<1>7. ClaimsInv'
  BY <1>0, <1>1, <1>2, <1>3, <1>6 DEF BackedInv, ClaimsInv
<1>8. SucceededIsBacked'
  BY <1>0, <1>1, <1>2, <1>5 DEF BackedInv, ClaimsInv, SucceededIsBacked
<1>9. OneBatchClaimsOrder'
  <2> SUFFICES ASSUME NEW b \in Batches, NEW c \in Batches, NEW p \in Orders,
                      items'[b][p] = "SUCCEEDED", items'[c][p] = "SUCCEEDED",
                      CourierFor(b, p) = CourierFor(c, p)
               PROVE  b = c
    BY <1>0 DEF OneBatchClaimsOrder
  <2>1. CASE items[b][p] = "SUCCEEDED" /\ items[c][p] = "SUCCEEDED"
    BY <2>1 DEF BackedInv, OneBatchClaimsOrder
  <2>2. CASE Claims(w, o) /\ p = o
    <3>1. ASSUME NEW d \in Batches, CourierFor(d, p) = work[w].adapter
          PROVE  items[d][p] # "SUCCEEDED"
      BY <2>2, <3>1 DEF BackedInv, ClaimsInv
    <3>2. CASE items[b][p] # "SUCCEEDED"
      <4>1. b = BatchOf(w) /\ CourierFor(b, p) = work[w].adapter
        BY <1>5, <3>2
      <4>2. items[c][p] # "SUCCEEDED"
        BY <3>1, <4>1
      <4>3. QED
        BY <1>5, <4>1, <4>2
    <3>3. CASE items[c][p] # "SUCCEEDED"
      <4>1. c = BatchOf(w) /\ CourierFor(c, p) = work[w].adapter
        BY <1>5, <3>3
      <4>2. items[b][p] # "SUCCEEDED"
        BY <3>1, <4>1
      <4>3. QED
        BY <1>5, <4>1, <4>2
    <3>4. QED
      BY <2>1, <3>2, <3>3
  <2>3. QED
    BY <1>5, <2>1, <2>2
<1>10. QED
  BY <1>7, <1>8, <1>9 DEF BackedInv

LEMMA HttpBacked ==
  ASSUME BackedInv, TypeInv', NamedInv', [Next]_vars, Http
  PROVE  BackedInv'
<1>1. work' = work /\ items' = items /\ sub' = sub /\ booked \subseteq booked'
  BY DEF Http, HttpBegin, HttpCall, HttpEnd, HttpDies, tables
<1>2. \A p \in Orders : rows[p].awb => rows'[p].awb
  <2>1. rows \in [Orders -> Row] /\ http \subseteq Request
    BY DEF BackedInv, TypeInv, TablesOK
  <2>2. ASSUME NEW r \in http, HttpEnd(r)
        PROVE  \A p \in Orders : rows[p].awb => rows'[p].awb
    <3>1. r.order \in Orders /\ r.answer \in Answers
      BY <2>1, <2>2, BulkAssumption DEF HttpEnd, Request
    <3>2. QED
      BY <2>1, <2>2, <3>1, RowAfterType DEF HttpEnd
  <2>3. ASSUME NEW r \in http, HttpCall(r) \/ HttpDies(r)
        PROVE  rows' = rows
    BY <2>3 DEF HttpCall, HttpDies, tables
  <2>4. ASSUME NEW o \in Orders, NEW c \in Registry, HttpBegin(o, c)
        PROVE  \A p \in Orders : rows[p].awb => rows'[p].awb
    BY <2>1, <2>4 DEF HttpBegin, InsertRow, Row
  <2>5. QED
    BY <2>2, <2>3, <2>4 DEF Http
<1>3. QED
  BY <1>1, <1>2, QuietStep DEF BackedInv, ClaimsInv

LEMMA NextBacked ==
  ASSUME BackedInv, [Next]_vars
  PROVE  BackedInv'
<1>1. TypeInv' /\ NamedInv'
  BY NextType, NextNamed DEF BackedInv
<1>2. CASE UNCHANGED vars \/ Stalled
  <2>1. /\ work' = work /\ items' = items /\ sub' = sub /\ booked' = booked /\ rows' = rows
    BY <1>2 DEF vars, Stalled, StalledCheck, tables
  <2>2. QED
    BY <1>1, <2>1, QuietStep DEF BackedInv, ClaimsInv
<1>3. QED
  BY <1>1, <1>2, SubmissionBacked, IdlingBacked, CallBacked, RecordRowBacked, RecordItemBacked,
     HttpBacked DEF Next, Step, Http

(* Every item that says SUCCEEDED has its AWB and its booking, with every   *)
(* loss of a lock, crash, stall and concurrent HTTP request allowed.        *)
THEOREM SucceededStaysBacked == Spec => []SucceededIsBacked
<1>1. BackedInv => SucceededIsBacked
  BY DEF BackedInv
<1>2. QED
  BY InitBacked, NextBacked, <1>1, PTL DEF Spec

(* No two submissions report a shipment of the same order by the same       *)
(* courier, for any number of couriers, workers, chunks and submissions.    *)
THEOREM OneBatchPerOrder == Spec => []OneBatchClaimsOrder
<1>1. BackedInv => OneBatchClaimsOrder
  BY DEF BackedInv
<1>2. QED
  BY InitBacked, NextBacked, <1>1, PTL DEF Spec

=============================================================================
