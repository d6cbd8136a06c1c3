-------------------------- MODULE OrderStatusProofs --------------------------
(***************************************************************************)
(* What TLAPS proves about the status of an order row: what PENDING and    *)
(* CANCELLED stand for, when status and AWB agree, and that orders keep    *)
(* OrderContract. The steps of the table, the ledgers and the requests are *)
(* those of OrderServiceProofs.                                            *)
(***************************************************************************)
EXTENDS OrderServiceProofs

-----------------------------------------------------------------------------
(* PENDING *)

(* Wherever a request is in a step, the others stay where they are.         *)
LEMMA OneMoves ==
  ASSUME TypeInv, [Next]_vars, NEW q \in Requests, pc'[q] # pc[q]
  PROVE  /\ Begin(q) \/ Handle(q) \/ Die(q)
         /\ \A r \in Requests : r # q => pc'[r] = pc[r]
<1>0. pc \in [Requests -> Places]
  BY DEF TypeInv, TypeOK
<1>1. ASSUME NEW r \in Requests, Begin(r) \/ Handle(r) \/ Die(r)
      PROVE  \A s \in Requests : s # r => pc'[s] = pc[s]
  BY <1>0, <1>1
     DEF Begin, Handle, Die, RefuseUnknownPartner, InsertPending, InsertConflict, LoadForRetry,
         LoadForCancel, LoadForTrack, ReadBack, SaveCreated, SaveFailed, SaveCancelled,
         SaveTracked, ReportRejection, CallAgain, GiveUp, Settle, Answer, AnswerAtOnce, Call
<1>2. ASSUME NEW r \in Requests, Courier(r)
      PROVE  pc' = pc
  BY <1>2 DEF Courier, CourierBooks, CourierRefuses, CourierCancels, CourierReports,
              CourierRejects
<1>3. ASSUME NEW m \in late, LateDelivery(m)
      PROVE  pc' = pc
  BY <1>3 DEF LateDelivery
<1>4. ASSUME NEW c \in Couriers, NEW o \in OrderIds, PickUp(c, o)
      PROVE  pc' = pc
  BY <1>4 DEF PickUp
<1>5. QED
  BY <1>1, <1>2, <1>3, <1>4 DEF Next, vars

(* A create or retry that comes to its end has either died or left its row  *)
(* in another status than PENDING.                                          *)
LEMMA DispatchEnds ==
  ASSUME TypeInv, [Next]_vars, NEW q \in Requests,
         task[q].kind \in Dispatching, Active(q), ~Active(q)'
  PROVE  pc'[q] = "died" \/ orders'[OrderOf(q)].status # "PENDING"
<1> DEFINE o == OrderOf(q)
<1>0. /\ o \in OrderIds /\ orders \in [OrderIds -> Row] /\ pc \in [Requests -> Places]
  BY TaskFacts DEF TypeInv, TypeOK
<1>1. Begin(q) \/ Handle(q) \/ Die(q)
  BY OneMoves DEF Active
<1>2. CASE Begin(q)
  BY <1>2, PlaceValues
     DEF Active, Begin, RefuseUnknownPartner, InsertPending, InsertConflict, LoadForRetry,
         LoadForCancel, LoadForTrack
<1>3. CASE Die(q)
  BY <1>0, <1>3, PlaceValues DEF Die, Answer
<1>4. CASE ReadBack(q)
  <2>1. orders' = orders /\ (orders[o].status # "PENDING" \/ pc'[q] = "call")
    BY <1>0, <1>4 DEF ReadBack, Call
  <2>2. QED
    BY <2>1 DEF Active
<1>5. CASE SaveCreated(q)
  BY <1>0, <1>5, MarkShipmentCreated, AdapterFacts DEF SaveCreated, RowUpdated
<1>6. CASE SaveFailed(q)
  <2>1. PICK status \in {"RECONCILIATION_REQUIRED", "FAILED"} : markFailed(o, status)
    BY <1>6 DEF SaveFailed
  <2>2. QED
    BY <1>0, <2>1, MarkFailed, StatusValues DEF RowUpdated
<1>7. CASE GiveUp(q)
  BY <1>0, <1>7, MarkFailed, StatusValues DEF GiveUp, RowUpdated
<1>8. CASE CallAgain(q)
  BY <1>8 DEF CallAgain, Active
<1>9. CASE SaveCancelled(q) \/ SaveTracked(q) \/ ReportRejection(q)
  BY <1>9 DEF SaveCancelled, SaveTracked, ReportRejection, Is, Dispatching
<1>10. QED
  BY <1>1, <1>2, <1>3, <1>4, <1>5, <1>6, <1>7, <1>8, <1>9 DEF Handle

LEMMA InitPending == Init => PendingMeansDied
BY RowValues DEF Init, PendingMeansDied

LEMMA NextPending ==
  ASSUME TypeInv, PendingMeansDied, [Next]_vars
  PROVE  PendingMeansDied'
<1> DEFINE Worked(o) == \E r \in Requests : /\ OrderOf(r) = o /\ task[r].kind \in Dispatching
                                            /\ Active(r) \/ pc[r] = "died"
<1> SUFFICES ASSUME NEW o \in OrderIds, orders'[o].status = "PENDING"
             PROVE  Worked(o)'
  BY DEF PendingMeansDied
<1>0. task' = task /\ \A r \in Requests : OrderOf(r)' = OrderOf(r)
  BY Monotone DEF OrderOf
<1>1. CASE orders[o].status = "PENDING"
  <2>1. PICK r \in Requests : /\ OrderOf(r) = o /\ task[r].kind \in Dispatching
                              /\ Active(r) \/ pc[r] = "died"
    BY <1>1 DEF PendingMeansDied
  <2>2. CASE Active(r)
    <3>1. Active(r)' \/ pc'[r] = "died"
      BY <2>1, <2>2, DispatchEnds
    <3>2. QED
      BY <1>0, <2>1, <3>1
  <2>3. CASE pc[r] = "died"
    <3>1. pc'[r] = "died"
      BY <2>3, RequestStep, PlaceValues DEF Waits, Starts, Repeats, IsAnswered, InFlight, Ends
    <3>2. QED
      BY <1>0, <2>1, <3>1
  <2>4. QED
    BY <2>1, <2>2, <2>3
<1>2. CASE orders[o].status # "PENDING"
  <2>1. ASSUME NEW r \in Requests, InsertPending(r)
        PROVE  Worked(o)'
    <3>1. OrderOf(r) \in OrderIds /\ orders \in [OrderIds -> Row] /\ pc \in [Requests -> Places]
      BY TaskFacts DEF TypeInv, TypeOK
    <3>2. OrderOf(r) = o /\ pc'[r] = "call" /\ task[r].kind \in Dispatching
      BY <1>2, <2>1, <3>1 DEF InsertPending, Call, Is, Dispatching
    <3>3. QED
      BY <1>0, <3>2 DEF Active
  <2>2. ASSUME NEW r \in Requests, NEW status \in RowStatus, NEW awb \in Couriers \cup {Null},
               Writes(r, status, awb)
        PROVE  FALSE
    BY <1>2, <2>2 DEF Writes, RowUpdated
  <2>3. QED
    BY <1>2, <2>1, <2>2, OrdersStep
<1>3. QED
  BY <1>1, <1>2

(* A row is PENDING only while a create or retry works on it, or after one  *)
(* died: no request that lives to its answer leaves its order PENDING.      *)
THEOREM NoPendingLeftBehind == Spec => []PendingMeansDied
<1>1. TypeInv /\ PendingMeansDied /\ [Next]_vars => (TypeInv /\ PendingMeansDied)'
  BY NextTypeInv, NextPending
<1>2. QED
  BY InitTypeInv, InitPending, <1>1, PTL DEF Spec

-----------------------------------------------------------------------------
(* Status and AWB, while creates and retries of an order take turns *)

(* At most one create or retry of an order is under way.                    *)
OneDispatch ==
  \A q, r \in Requests :
    /\ task[q].kind \in Dispatching /\ Active(q)
    /\ task[r].kind \in Dispatching /\ Active(r)
    /\ OrderOf(q) = OrderOf(r)
    => q = r

(* A create or retry calls the courier for an order that has no AWB, a      *)
(* cancel or track for one that has.                                        *)
CallsFitAwb ==
  \A r \in Requests :
    pc[r] = "call" =>
      (task[r].kind \in Dispatching <=> orders[OrderOf(r)].awb = Null)

(* Only a create reads back the row its insert conflicted with.             *)
ReadBacksAreCreates == \A r \in Requests : pc[r] = "readBack" => Is(r, "create")

SerialInv ==
  /\ TypeInv
  /\ ReadBacksAreCreates
  /\ StatusAgreesWithAwb
  /\ OneDispatch
  /\ CallsFitAwb

LEMMA InitSerial == Init => SerialInv
<1> SUFFICES ASSUME Init PROVE SerialInv
  OBVIOUS
<1>1. StatusAgreesWithAwb
  BY RowValues, StatusValues DEF Init, StatusAgreesWithAwb
<1>2. OneDispatch /\ CallsFitAwb /\ ReadBacksAreCreates
  BY DEF Init, OneDispatch, CallsFitAwb, ReadBacksAreCreates, Active
<1>3. QED
  BY <1>1, <1>2, InitTypeInv DEF SerialInv

LEMMA NextReadBack ==
  ASSUME TypeInv, ReadBacksAreCreates, [Next]_vars
  PROVE  ReadBacksAreCreates'
<1> SUFFICES ASSUME NEW r \in Requests, pc'[r] = "readBack"
             PROVE  Is(r, "create")'
  BY DEF ReadBacksAreCreates
<1>1. task' = task /\ pc \in [Requests -> Places]
  BY Monotone DEF TypeInv, TypeOK
<1>2. CASE pc[r] = "readBack"
  BY <1>1, <1>2 DEF ReadBacksAreCreates, Is
<1>3. CASE pc[r] # "readBack"
  <2>1. Begin(r) \/ Handle(r) \/ Die(r)
    BY <1>3, OneMoves
  <2>2. InsertConflict(r)
    BY <1>1, <1>3, <2>1, PlaceValues
       DEF Begin, Handle, Die, RefuseUnknownPartner, InsertPending, LoadForRetry, LoadForCancel,
           LoadForTrack, ReadBack, SaveCreated, SaveFailed, SaveCancelled, SaveTracked,
           ReportRejection, CallAgain, GiveUp, Settle, Answer, AnswerAtOnce, Call
  <2>3. QED
    BY <1>1, <2>2 DEF InsertConflict, Is
<1>4. QED
  BY <1>2, <1>3

(* A request that begins to work on an order had its turn.                  *)
LEMMA TurnTaken ==
  ASSUME TypeInv, [Next]_vars, ~Overlap, NEW q \in Requests,
         task[q].kind \in Dispatching, ~Active(q), Active(q)'
  PROVE  \A r \in Requests \ {q} :
           ~(Active(r) /\ task[r].kind \in Dispatching /\ OrderOf(r) = OrderOf(q))
<1>1. pc'[q] # pc[q] /\ (Begin(q) \/ Handle(q) \/ Die(q))
  BY OneMoves DEF Active
<1>2. ~Handle(q) /\ ~Die(q)
  BY DEF Active, Handle, ReadBack, SaveCreated, SaveFailed, SaveCancelled, SaveTracked,
         ReportRejection, CallAgain, GiveUp, Die
<1>3. CASE RefuseUnknownPartner(q)
  <2>1. pc'[q] = "refused"
    BY <1>3 DEF RefuseUnknownPartner, AnswerAtOnce, Answer, TypeInv, TypeOK
  <2>2. QED
    BY <2>1 DEF Active
<1>4. QED
  BY <1>1, <1>2, <1>3
     DEF Begin, InsertPending, InsertConflict, LoadForRetry, LoadForCancel, LoadForTrack, Turn,
         Is, Dispatching

LEMMA NextOneDispatch ==
  ASSUME SerialInv, [Next]_vars, ~Overlap
  PROVE  OneDispatch'
<1> SUFFICES ASSUME NEW q \in Requests, NEW r \in Requests, q # r,
                    task'[q].kind \in Dispatching, Active(q)',
                    task'[r].kind \in Dispatching, Active(r)',
                    OrderOf(q)' = OrderOf(r)'
             PROVE  FALSE
  BY DEF OneDispatch
<1>1. TypeInv /\ task' = task /\ OrderOf(q) = OrderOf(r)
  BY Monotone DEF SerialInv, OrderOf
<1>2. ~(Active(q) /\ Active(r))
  BY <1>1 DEF SerialInv, OneDispatch
<1>3. ASSUME NEW s \in {q, r}, ~Active(s)
      PROVE  \A t \in {q, r} \ {s} : Active(t) /\ OrderOf(t) = OrderOf(s)
  <2>1. pc'[s] # pc[s]
    BY <1>3 DEF Active
  <2>2. QED
    BY <1>1, <2>1, OneMoves DEF Active
<1>4. QED
  BY <1>1, <1>2, <1>3, TurnTaken

(* The first call of a request is made with the row in the table: a create  *)
(* or retry makes it for a row without an AWB, a cancel or track for one    *)
(* with an AWB.                                                             *)
LEMMA FirstCall ==
  ASSUME SerialInv, [Next]_vars, NEW q \in Requests, pc[q] # "call", pc'[q] = "call"
  PROVE  task[q].kind \in Dispatching <=> orders'[OrderOf(q)].awb = Null
<1> DEFINE o == OrderOf(q)
<1>0. /\ TypeInv /\ o \in OrderIds /\ orders \in [OrderIds -> Row] /\ orders[o] \in Row
      /\ pc \in [Requests -> Places] /\ task[q] \in Tasks
  BY TaskFacts DEF SerialInv, TypeInv, TypeOK
<1>1. Begin(q) \/ Handle(q) \/ Die(q)
  BY <1>0, OneMoves
<1>2. CASE InsertPending(q)
  <2>1. task[q].courier \in Couriers /\ task[q].kind \in Dispatching
    BY <1>2, ConstantsAssumption DEF InsertPending, Is, Dispatching
  <2>2. orders'[o] = PendingRow(task[q].courier)
    BY <1>0, <1>2 DEF InsertPending
  <2>3. QED
    BY <2>1, <2>2, RowValues
<1>3. CASE LoadForRetry(q)
  <2>1. orders' = orders /\ task[q].kind \in Dispatching
    BY <1>3 DEF LoadForRetry, Is, Dispatching
  <2>2. orders[o].awb = Null
    BY <1>0, <1>3, PlaceValues DEF LoadForRetry, AnswerAtOnce, Answer
  <2>3. QED
    BY <2>1, <2>2
<1>4. CASE LoadForCancel(q) \/ LoadForTrack(q)
  <2>1. orders' = orders /\ task[q].kind \notin Dispatching
    BY <1>4 DEF LoadForCancel, LoadForTrack, Is, Dispatching
  <2>2. orders[o].awb # Null
    BY <1>0, <1>4, PlaceValues DEF LoadForCancel, LoadForTrack, AnswerAtOnce, Answer
  <2>3. QED
    BY <2>1, <2>2
<1>5. CASE ReadBack(q)
  <2>1. orders' = orders /\ orders[o].status = "PENDING"
    BY <1>0, <1>5, PlaceValues DEF ReadBack, AnswerAtOnce, Answer
  <2>2. orders[o].awb = Null
    BY <1>0, <2>1, StatusValues DEF SerialInv, StatusAgreesWithAwb
  <2>3. task[q].kind \in Dispatching
    BY <1>5 DEF ReadBack, SerialInv, ReadBacksAreCreates, Is, Dispatching
  <2>4. QED
    BY <2>1, <2>2, <2>3
<1>6. QED
  BY <1>0, <1>1, <1>2, <1>3, <1>4, <1>5, PlaceValues
     DEF Begin, RefuseUnknownPartner, InsertConflict, AnswerAtOnce, Answer, Handle, Die,
         SaveCreated, SaveFailed, SaveCancelled, SaveTracked, ReportRejection, CallAgain, GiveUp,
         Settle

LEMMA NextCallsFitAwb ==
  ASSUME SerialInv, [Next]_vars
  PROVE  CallsFitAwb'
<1> SUFFICES ASSUME NEW r \in Requests, pc'[r] = "call"
             PROVE  task'[r].kind \in Dispatching <=> orders'[OrderOf(r)'].awb = Null
  BY DEF CallsFitAwb
<1> DEFINE o == OrderOf(r)
<1>0. /\ TypeInv /\ task' = task /\ OrderOf(r)' = o /\ o \in OrderIds
      /\ orders \in [OrderIds -> Row]
  BY Monotone, TaskFacts DEF SerialInv, TypeInv, TypeOK, OrderOf
<1>1. CASE pc[r] # "call"
  BY <1>0, <1>1, FirstCall
<1>2. CASE pc[r] = "call"
  <2>1. /\ orders[o] # NoRow
        /\ task[r].kind \in Dispatching <=> orders[o].awb = Null
    BY <1>0, <1>2 DEF SerialInv, CallsFitAwb, TypeInv, CallsHaveRows
  <2>2. ASSUME orders[o].awb = Null
        PROVE  orders'[o].awb = Null
    <3>1. ASSUME NEW s \in Requests, InsertPending(s)
          PROVE  orders'[o] = orders[o]
      BY <1>0, <2>1, <3>1 DEF InsertPending
    <3>2. ASSUME NEW s \in Requests, NEW status \in RowStatus,
                 NEW awb \in Couriers \cup {Null}, Writes(s, status, awb)
          PROVE  orders'[o].awb = orders[o].awb
      <4>1. CASE SaveCreated(s) /\ OrderOf(s) = o
        <5>1. s = r
          BY <1>2, <2>1, <2>2, <4>1 DEF SaveCreated, SerialInv, OneDispatch, Active
        <5>2. pc'[r] = "created"
          BY <1>0, <4>1, <5>1 DEF SaveCreated, Settle, Answer, TypeInv, TypeOK
        <5>3. QED
          BY <5>2
      <4>2. QED
        BY <1>0, <3>2, <4>1 DEF Writes, RowUpdated
    <3>3. QED
      BY <1>0, <2>2, <3>1, <3>2, OrdersStep
  <2>3. QED
    BY <1>0, <2>1, <2>2, Monotone
<1>3. QED
  BY <1>1, <1>2

(* An AWB and a status a courier reported come and stay together: a row     *)
(* that has both is not written by a create or retry any more.              *)
LEMMA NextStatusAgrees ==
  ASSUME SerialInv, [Next]_vars
  PROVE  StatusAgreesWithAwb'
<1> SUFFICES ASSUME NEW o \in OrderIds
             PROVE  orders'[o].awb # Null <=> orders'[o].status \in Reports
  BY DEF StatusAgreesWithAwb
<1>0. /\ TypeInv /\ orders \in [OrderIds -> Row]
      /\ orders[o].awb # Null <=> orders[o].status \in Reports
  BY DEF SerialInv, TypeInv, TypeOK, StatusAgreesWithAwb
<1>1. ASSUME NEW r \in Requests, InsertPending(r)
      PROVE  orders'[o].awb # Null <=> orders'[o].status \in Reports
  <2>1. CASE o = OrderOf(r)
    <3>1. task[r].courier \in Couriers /\ orders'[o] = PendingRow(task[r].courier)
      BY <1>0, <1>1, <2>1, ConstantsAssumption DEF InsertPending
    <3>2. QED
      BY <3>1, RowValues, StatusValues
  <2>2. CASE o # OrderOf(r)
    BY <1>0, <1>1, <2>2 DEF InsertPending
  <2>3. QED
    BY <2>1, <2>2
<1>2. ASSUME NEW r \in Requests, NEW status \in RowStatus, NEW awb \in Couriers \cup {Null},
             Writes(r, status, awb)
      PROVE  orders'[o].awb # Null <=> orders'[o].status \in Reports
  <2>1. CASE o # OrderOf(r)
    BY <1>0, <1>2, <2>1 DEF Writes, RowUpdated
  <2>2. CASE o = OrderOf(r) /\ SaveCreated(r) /\ status = "CREATED" /\ awb = AdapterOf(r)
    <3>1. AdapterOf(r) # Null /\ "CREATED" \in Reports
      BY <1>0, <2>2, AdapterFacts, ConstantsAssumption DEF SaveCreated, Reports, Booked
    <3>2. QED
      BY <1>2, <2>2, <3>1 DEF Writes, RowUpdated
  <2>3. CASE o = OrderOf(r) /\ awb = orders[o].awb
    <3>1. task[r].kind \in Dispatching <=> awb = Null
      BY <1>2, <2>3 DEF Writes, SerialInv, CallsFitAwb
    <3>2. SaveCreated(r) => task[r].kind \in Dispatching
      BY DEF SaveCreated
    <3>3. CASE SaveCreated(r) /\ status = "CREATED" /\ awb = AdapterOf(r)
      BY <2>2, <2>3, <3>3
    <3>4. CASE task[r].kind \in Dispatching /\ status \in {"FAILED", "RECONCILIATION_REQUIRED"}
      <4>1. status \notin Reports
        BY <3>4 DEF Reports, Booked
      <4>2. QED
        BY <1>2, <2>3, <3>1, <3>4, <4>1 DEF Writes, RowUpdated
    <3>5. CASE task[r].kind \notin Dispatching /\ status \in Reports
      BY <1>2, <2>3, <3>1, <3>5 DEF Writes, RowUpdated
    <3>6. QED
      BY <1>2, <3>3, <3>4, <3>5 DEF Writes, Is, Dispatching, Reports, Booked
  <2>4. QED
    BY <1>2, <2>1, <2>2, <2>3 DEF Writes
<1>3. QED
  BY <1>0, <1>1, <1>2, OrdersStep

LEMMA NextSerial ==
  ASSUME SerialInv, [Next]_vars, ~Overlap
  PROVE  SerialInv'
BY NextTypeInv, NextReadBack, NextStatusAgrees, NextOneDispatch, NextCallsFitAwb DEF SerialInv

LEMMA SerialHolds ==
  ASSUME ~Overlap
  PROVE  Spec => []SerialInv
<1>1. SerialInv /\ [Next]_vars => SerialInv'
  BY NextSerial, ~Overlap
<1>2. QED
  BY InitSerial, <1>1, PTL DEF Spec

(* As long as no two creates or retries of an order overlap, which the code *)
(* does not enforce, a row has an AWB exactly when its status is one a      *)
(* courier reported, whatever fails, is lost, late or repeated: an order    *)
(* parked for reconciliation has none.                                      *)
THEOREM StatusAlwaysAgreesWithAwb ==
  ASSUME ~Overlap
  PROVE  Spec => []StatusAgreesWithAwb
<1>1. SerialInv => StatusAgreesWithAwb
  BY DEF SerialInv
<1>2. QED
  BY SerialHolds, ~Overlap, <1>1, PTL

(* Under the same condition only a refresh of its tracking takes a          *)
(* cancelled order to another status.                                       *)
THEOREM OnlyTrackUndoesCancellation ==
  ASSUME ~Overlap
  PROVE  Spec => CancellationUndoneOnlyByTrack
<1> DEFINE Undone(o) == orders[o].status = "CANCELLED" /\ orders'[o].status # "CANCELLED"
           Tracked(o) == \E r \in Requests :
                           /\ Is(r, "track") /\ OrderOf(r) = o
                           /\ pc[r] = "call" /\ reply[r] \in Reports \ {"CANCELLED"}
<1>1. ASSUME SerialInv, [Next]_vars, NEW o \in OrderIds, Undone(o)
      PROVE  Tracked(o)
  <2>0. TypeInv /\ orders \in [OrderIds -> Row] /\ "CANCELLED" \in Reports
    BY <1>1 DEF SerialInv, TypeInv, TypeOK, Reports, Booked
  <2>1. ASSUME NEW r \in Requests, InsertPending(r)
        PROVE  FALSE
    BY <1>1, <2>0, <2>1, RowValues DEF InsertPending
  <2>2. ASSUME NEW r \in Requests, NEW status \in RowStatus,
               NEW awb \in Couriers \cup {Null}, Writes(r, status, awb)
        PROVE  Tracked(o)
    <3>1. o = OrderOf(r) /\ status # "CANCELLED" /\ pc[r] = "call"
      BY <1>1, <2>2 DEF Writes, RowUpdated
    <3>2. task[r].kind \notin Dispatching
      BY <1>1, <2>0, <3>1 DEF SerialInv, StatusAgreesWithAwb, CallsFitAwb
    <3>3. Is(r, "track") /\ reply[r] \in Reports /\ reply[r] = status
      BY <2>2, <3>1, <3>2 DEF Writes, SaveCreated
    <3>4. QED
      BY <3>1, <3>3
  <2>3. QED
    BY <1>1, <2>0, <2>1, <2>2, OrdersStep
<1>2. SerialInv /\ [Next]_vars => [\A o \in OrderIds : Undone(o) => Tracked(o)]_vars
  BY <1>1
<1>3. QED
  BY <1>2, SerialHolds, ~Overlap, PTL DEF Spec, CancellationUndoneOnlyByTrack

-----------------------------------------------------------------------------
(* CANCELLED, when an order goes to one partner *)

(* A courier has confirmed to request r what became of the shipment.        *)
Confirms(r, end) ==
  /\ pc[r] = "call"
  /\ \/ Is(r, "cancel") /\ reply[r] = "ok" /\ end = "CANCELLED"
     \/ Is(r, "track") /\ reply[r] = end

(* A cancel or track speaks to a courier of the AWB on the row.             *)
SeenAwbIsCurrent ==
  \A r \in Requests :
    pc[r] = "call" /\ task[r].kind \notin Dispatching =>
      seen[r].awb # Null /\ orders[OrderOf(r)].awb = seen[r].awb

(* A confirmation comes from the courier that issued the AWB, and is true.  *)
ConfirmationsBacked ==
  \A r \in Requests, end \in Final :
    Confirms(r, end) => /\ seen[r].awb = AdapterOf(r)
                        /\ ledger[AdapterOf(r)][OrderOf(r)] = end

CancelInv == SeenAwbIsCurrent /\ ConfirmationsBacked /\ CancelledBacked

LEMMA InitCancel == Init => CancelInv
BY RowValues
   DEF Init, CancelInv, SeenAwbIsCurrent, ConfirmationsBacked, Confirms, CancelledBacked

(* Only a courier gives an answer.                                          *)
LEMMA AnswerGiven ==
  ASSUME TypeInv, [Next]_vars, NEW r \in Requests,
         reply'[r] # reply[r], reply'[r] # "none"
  PROVE  Courier(r)
<1>0. reply \in [Requests -> Replies]
  BY DEF TypeInv, TypeOK
<1>1. ASSUME NEW q \in Requests, Begin(q) \/ Handle(q) \/ Die(q)
      PROVE  reply'[r] = reply[r] \/ reply'[r] = "none"
  BY <1>0, <1>1
     DEF Begin, Handle, Die, RefuseUnknownPartner, InsertPending, InsertConflict, LoadForRetry,
         LoadForCancel, LoadForTrack, ReadBack, SaveCreated, SaveFailed, SaveCancelled,
         SaveTracked, ReportRejection, CallAgain, GiveUp, Settle, Answer, AnswerAtOnce, Call
<1>2. ASSUME NEW q \in Requests \ {r}, Courier(q)
      PROVE  reply'[r] = reply[r]
  BY <1>0, <1>2 DEF Courier, CourierBooks, CourierRefuses, CourierCancels, CourierReports,
                    CourierRejects
<1>3. QED
  BY <1>1, <1>2 DEF Next, vars, LateDelivery, PickUp

(* A courier never revives a shipment.                                      *)
LEMMA FinalStays ==
  ASSUME TypeInv, [Next]_vars, NEW c \in Couriers, NEW o \in OrderIds,
         ledger[c][o] \in Final
  PROVE  ledger'[c][o] = ledger[c][o]
<1>1. ledger \in Ledger
  BY DEF TypeInv, TypeOK, Ledger
<1>2. QED
  BY <1>1, LedgerStep, LedgerUpdate DEF Allows, Final

(* A cancel or track starts its call with the AWB that is on the row.       *)
LEMMA NextSeenAwb ==
  ASSUME SinglePartner, SafetyInv, NamedInv, CancelInv, ReadBacksAreCreates, [Next]_vars
  PROVE  SeenAwbIsCurrent'
<1> SUFFICES ASSUME NEW r \in Requests, pc'[r] = "call", task'[r].kind \notin Dispatching
             PROVE  seen'[r].awb # Null /\ orders'[OrderOf(r)'].awb = seen'[r].awb
  BY DEF SeenAwbIsCurrent
<1> DEFINE o == OrderOf(r)
<1>0. /\ TypeInv /\ task' = task /\ OrderOf(r)' = o /\ o \in OrderIds
      /\ seen \in [Requests -> Row] /\ pc \in [Requests -> Places]
  BY Monotone, TaskFacts DEF SafetyInv, TypeInv, TypeOK, OrderOf
<1>1. CASE pc[r] = "call"
  <2>1. seen[r].awb # Null /\ orders[o].awb = seen[r].awb
    BY <1>0, <1>1 DEF CancelInv, SeenAwbIsCurrent
  <2>2. orders'[o].awb = orders[o].awb
    BY <1>0, <2>1, AwbStep
  <2>3. seen'[r] = seen[r]
    BY <1>0, <1>1, RequestStep, PlaceValues
       DEF Waits, Starts, Repeats, IsAnswered, Ends
  <2>4. QED
    BY <1>0, <2>1, <2>2, <2>3
<1>2. CASE pc[r] # "call"
  <2>1. Begin(r) \/ Handle(r) \/ Die(r)
    BY <1>0, <1>2, OneMoves
  <2>2. ~Handle(r) /\ ~Die(r)
    BY <1>0, <1>2, PlaceValues
       DEF ReadBacksAreCreates, Is, Dispatching, Handle, ReadBack, SaveCreated, SaveFailed,
           SaveCancelled, SaveTracked, ReportRejection, CallAgain, GiveUp, Die, Answer
  <2>3. LoadForCancel(r) \/ LoadForTrack(r)
    BY <1>0, <2>1, <2>2, PlaceValues
       DEF Begin, RefuseUnknownPartner, InsertPending, InsertConflict, LoadForRetry, Is,
           Dispatching, AnswerAtOnce, Answer
  <2>4. /\ orders' = orders /\ orders[o].awb # Null /\ seen'[r] = orders[o]
    BY <1>0, <2>3, PlaceValues DEF LoadForCancel, LoadForTrack, AnswerAtOnce, Answer, Call
  <2>5. QED
    BY <1>0, <2>4
<1>3. QED
  BY <1>1, <1>2

LEMMA NextConfirmations ==
  ASSUME SafetyInv, CancelInv, [Next]_vars
  PROVE  ConfirmationsBacked'
<1> SUFFICES ASSUME NEW r \in Requests, NEW end \in Final, Confirms(r, end)'
             PROVE  /\ seen'[r].awb = AdapterOf(r)'
                    /\ ledger'[AdapterOf(r)'][OrderOf(r)'] = end
  BY DEF ConfirmationsBacked
<1>0. /\ TypeInv /\ task' = task /\ OrderOf(r) \in OrderIds /\ ledger \in Ledger
      /\ reply \in [Requests -> Replies] /\ pc \in [Requests -> Places]
  BY Monotone, TaskFacts DEF SafetyInv, TypeInv, TypeOK, Ledger
<1>1. CASE Confirms(r, end) /\ seen'[r] = seen[r]
  <2>1. /\ seen[r].awb = AdapterOf(r) /\ AdapterOf(r) \in Couriers
        /\ ledger[AdapterOf(r)][OrderOf(r)] = end
    BY <1>0, <1>1, AdapterFacts DEF CancelInv, ConfirmationsBacked, Confirms
  <2>2. QED
    BY <1>0, <1>1, <2>1, SameAdapter, FinalStays
<1>2. CASE CourierCancels(r)
  <2>1. /\ AdapterOf(r) \in Couriers /\ seen' = seen /\ seen[r].awb = AdapterOf(r)
        /\ end = "CANCELLED"
    BY <1>0, <1>2, AdapterFacts DEF CourierCancels, InFlight, Confirms, Is
  <2>2. Books(AdapterOf(r), OrderOf(r), "CANCELLED")
    BY <1>2 DEF CourierCancels, Books
  <2>3. ledger'[AdapterOf(r)][OrderOf(r)] = "CANCELLED"
    BY <1>0, <2>1, <2>2, LedgerUpdate, BookingValues
  <2>4. QED
    BY <1>0, <2>1, <2>3, SameAdapter
<1>3. CASE CourierReports(r)
  <2>1. /\ seen' = seen /\ ledger' = ledger /\ seen[r].awb = AdapterOf(r)
        /\ Is(r, "track") /\ reply'[r] \in {ledger[AdapterOf(r)][OrderOf(r)], "UNKNOWN"}
    BY <1>0, <1>3 DEF CourierReports
  <2>2. reply'[r] = end /\ end # "UNKNOWN"
    BY <1>0, <2>1 DEF Confirms, Is, Final
  <2>3. QED
    BY <1>0, <2>1, <2>2, SameAdapter
<1>4. CASE reply'[r] # reply[r]
  <2>1. Courier(r)
    BY <1>0, <1>4, AnswerGiven DEF Confirms, Final
  <2>2. reply'[r] # "rejected" /\ task[r].kind \notin Dispatching
    BY <1>0 DEF Confirms, Final, Is, Dispatching
  <2>3. QED
    BY <1>0, <1>2, <1>3, <2>1, <2>2 DEF Courier, CourierBooks, CourierRefuses, CourierRejects
<1>5. CASE reply'[r] = reply[r]
  <2>1. pc'[r] = "call" /\ reply[r] # "none"
    BY <1>5 DEF Confirms, Final
  <2>2. pc[r] = "call" /\ seen'[r] = seen[r]
    BY <1>0, <1>5, <2>1, RequestStep, PlaceValues
       DEF Waits, Starts, Repeats, IsAnswered, InFlight, Ends, SafetyInv, RepliesBacked
  <2>3. Confirms(r, end)
    BY <1>0, <1>5, <2>2 DEF Confirms, Is
  <2>4. QED
    BY <1>1, <2>2, <2>3
<1>6. QED
  BY <1>4, <1>5

(* A row becomes CANCELLED by a confirmation, and the shipment behind it    *)
(* stays cancelled.                                                         *)
LEMMA NextCancelledBacked ==
  ASSUME SinglePartner, SafetyInv, NamedInv, CancelInv, [Next]_vars
  PROVE  CancelledBacked'
<1> SUFFICES ASSUME NEW o \in OrderIds, orders'[o].status = "CANCELLED"
             PROVE  orders'[o].awb # Null /\ ledger'[orders'[o].awb][o] = "CANCELLED"
  BY DEF CancelledBacked
<1>0. TypeInv /\ orders \in [OrderIds -> Row]
  BY DEF SafetyInv, TypeInv, TypeOK
<1>1. ASSUME orders[o].awb \in Couriers, ledger[orders[o].awb][o] = "CANCELLED"
      PROVE  orders'[o].awb # Null /\ ledger'[orders'[o].awb][o] = "CANCELLED"
  <2>1. orders'[o].awb = orders[o].awb
    BY <1>1, AwbStep, ConstantsAssumption
  <2>2. QED
    BY <1>0, <1>1, <2>1, FinalStays, ConstantsAssumption DEF Final
<1>2. CASE orders'[o].status = orders[o].status
  BY <1>1, <1>2 DEF CancelInv, CancelledBacked, SafetyInv, AwbBacked
<1>3. ASSUME NEW r \in Requests, InsertPending(r), orders'[o].status # orders[o].status
      PROVE  FALSE
  BY <1>0, <1>3, RowValues, ConstantsAssumption DEF InsertPending
<1>4. ASSUME NEW r \in Requests, NEW status \in RowStatus, NEW awb \in Couriers \cup {Null},
             Writes(r, status, awb), orders'[o].status # orders[o].status
      PROVE  Confirms(r, "CANCELLED") /\ o = OrderOf(r)
  BY <1>4 DEF Writes, RowUpdated, Confirms
<1>5. ASSUME NEW r \in Requests, Confirms(r, "CANCELLED"), o = OrderOf(r)
      PROVE  orders[o].awb \in Couriers /\ ledger[orders[o].awb][o] = "CANCELLED"
  <2>1. /\ AdapterOf(r) \in Couriers /\ seen[r].awb = AdapterOf(r)
        /\ ledger[AdapterOf(r)][o] = "CANCELLED"
    BY <1>0, <1>5, AdapterFacts DEF CancelInv, ConfirmationsBacked, Confirms, Final
  <2>2. orders[o].awb = seen[r].awb
    BY <1>5 DEF CancelInv, SeenAwbIsCurrent, Confirms, Is, Dispatching
  <2>3. QED
    BY <2>1, <2>2
<1>6. QED
  BY <1>0, <1>1, <1>2, <1>3, <1>4, <1>5, OrdersStep

PartnerInv == SafetyInv /\ NamedInv /\ ReadBacksAreCreates /\ CancelInv

LEMMA InitPartner == Init => PartnerInv
BY InitSafety, InitNamed, InitCancel DEF Init, PartnerInv, ReadBacksAreCreates

LEMMA NextPartner ==
  ASSUME SinglePartner, PartnerInv, [Next]_vars
  PROVE  PartnerInv'
<1>1. SafetyInv /\ NamedInv /\ ReadBacksAreCreates /\ CancelInv /\ TypeInv
  BY DEF PartnerInv, SafetyInv
<1>2. SeenAwbIsCurrent' /\ ConfirmationsBacked' /\ CancelledBacked'
  BY <1>1, SinglePartner, NextSeenAwb, NextConfirmations, NextCancelledBacked
<1>3. QED
  BY <1>1, <1>2, NextSafety, NextNamed, NextReadBack DEF PartnerInv, CancelInv

(* As long as clients keep to one partner per order, which the code does    *)
(* not enforce, a row says CANCELLED only when the courier that issued its  *)
(* AWB cancelled the shipment, whichever requests overlap or are repeated.  *)
THEOREM CancelledIsCancelled ==
  ASSUME SinglePartner
  PROVE  Spec => []CancelledBacked
<1>1. PartnerInv /\ [Next]_vars => PartnerInv'
  BY NextPartner, SinglePartner
<1>2. PartnerInv => CancelledBacked
  BY DEF PartnerInv, CancelInv
<1>3. QED
  BY InitPartner, <1>1, <1>2, PTL DEF Spec

-----------------------------------------------------------------------------
(* The contract of an order, when it goes to one partner *)

(* A courier has confirmed to request r that the order is booked.           *)
HoldsAwb(r) == /\ pc[r] = "call" /\ task[r].kind \in Dispatching
               /\ reply[r] = "ok"

(* A booking is confirmed once, to a request whose order has no AWB yet:    *)
(* whoever asks again is told that it is a duplicate.                       *)
OneConfirmation ==
  \A r \in Requests :
    HoldsAwb(r) =>
      /\ orders[OrderOf(r)].awb = Null
      /\ \A q \in Requests : HoldsAwb(q) /\ OrderOf(q) = OrderOf(r) => q = r

OrderInv == PartnerInv /\ OneConfirmation /\ (Overlap \/ SerialInv)

(* A confirmation under way was there before the step, or is given by it.   *)
LEMMA ConfirmationStep ==
  ASSUME SafetyInv, [Next]_vars, NEW r \in Requests, HoldsAwb(r)'
  PROVE  HoldsAwb(r) \/ CourierBooks(r)
<1>0. /\ TypeInv /\ task' = task
      /\ pc'[r] = "call" /\ task[r].kind \in Dispatching /\ reply'[r] = "ok"
      /\ reply \in [Requests -> Replies]
  BY Monotone DEF SafetyInv, TypeInv, TypeOK, HoldsAwb
<1>1. CASE reply'[r] # reply[r]
  <2>1. Courier(r)
    BY <1>0, <1>1, AnswerGiven
  <2>2. QED
    BY <1>0, <2>1 DEF Courier, CourierRefuses, CourierCancels, CourierReports, CourierRejects,
                      Is, Dispatching
<1>2. CASE reply'[r] = reply[r]
  <2>1. pc[r] = "call"
    BY <1>0, <1>2, RequestStep, PlaceValues
       DEF Waits, Starts, Repeats, IsAnswered, InFlight, Ends, SafetyInv, RepliesBacked
  <2>2. QED
    BY <1>0, <1>2, <2>1 DEF HoldsAwb
<1>3. QED
  BY <1>1, <1>2

(* A courier that books an order books it first: no other courier has it,   *)
(* no request holds a confirmation for it, and its row has no AWB.          *)
LEMMA BooksFirst ==
  ASSUME SinglePartner, SafetyInv, NamedInv, NEW c \in Couriers, NEW o \in OrderIds,
         c \in Named[o], ledger[c][o] = "none"
  PROVE  /\ \A d \in Couriers : ledger[d][o] = "none"
         /\ orders[o].awb = Null
         /\ \A q \in Requests : OrderOf(q) = o => ~HoldsAwb(q)
<1>1. \A d \in Couriers : ledger[d][o] = "none"
  BY DEF NamedInv, SinglePartner
<1>2. orders[o].awb = Null
  BY <1>1 DEF SafetyInv, AwbBacked
<1>3. ASSUME NEW q \in Requests, OrderOf(q) = o, HoldsAwb(q)
      PROVE  FALSE
  BY <1>1, <1>3, AdapterFacts DEF HoldsAwb, SafetyInv, RepliesBacked
<1>4. QED
  BY <1>1, <1>2, <1>3

LEMMA NextOneConfirmation ==
  ASSUME SinglePartner, SafetyInv, NamedInv, OneConfirmation, [Next]_vars
  PROVE  OneConfirmation'
<1> SUFFICES ASSUME NEW r \in Requests, HoldsAwb(r)'
             PROVE  /\ orders'[OrderOf(r)'].awb = Null
                    /\ \A q \in Requests :
                         HoldsAwb(q)' /\ OrderOf(q)' = OrderOf(r)' => q = r
  BY DEF OneConfirmation
<1> DEFINE o == OrderOf(r)
<1>0. /\ TypeInv /\ o \in OrderIds /\ orders \in [OrderIds -> Row]
      /\ pc \in [Requests -> Places] /\ reply \in [Requests -> Replies]
      /\ \A q \in Requests : OrderOf(q)' = OrderOf(q)
  BY Monotone, TaskFacts DEF SafetyInv, TypeInv, TypeOK, OrderOf
<1>1. ASSUME NEW q \in Requests, CourierBooks(q), OrderOf(q) = o
      PROVE  /\ orders'[o].awb = Null
             /\ \A s \in Requests : HoldsAwb(s)' /\ OrderOf(s) = o => s = q
  <2>1. /\ AdapterOf(q) \in Couriers /\ AdapterOf(q) \in Named[o]
        /\ ledger[AdapterOf(q)][o] = "none"
    BY <1>0, <1>1, AdapterFacts, NamedAdapter DEF CourierBooks, InFlight
  <2>2. orders[o].awb = Null /\ \A s \in Requests : OrderOf(s) = o => ~HoldsAwb(s)
    BY <1>0, <2>1, BooksFirst
  <2>3. ASSUME NEW s \in Requests, HoldsAwb(s)', OrderOf(s) = o
        PROVE  s = q
    <3>1. CourierBooks(s)
      BY <2>2, <2>3, ConfirmationStep
    <3>2. QED
      BY <1>0, <1>1, <2>3, <3>1 DEF CourierBooks, InFlight, HoldsAwb
  <2>4. QED
    BY <1>1, <2>2, <2>3 DEF CourierBooks
<1>2. CASE \E q \in Requests : CourierBooks(q) /\ OrderOf(q) = o
  BY <1>0, <1>1, <1>2
<1>3. CASE ~\E q \in Requests : CourierBooks(q) /\ OrderOf(q) = o
  <2>1. \A q \in Requests : HoldsAwb(q)' /\ OrderOf(q) = o => HoldsAwb(q)
    BY <1>3, ConfirmationStep
  <2>2. /\ HoldsAwb(r) /\ orders[o].awb = Null /\ orders[o] # NoRow
        /\ \A q \in Requests : HoldsAwb(q) /\ OrderOf(q) = o => q = r
    BY <1>0, <2>1 DEF OneConfirmation, HoldsAwb, TypeInv, CallsHaveRows
  <2>3. ASSUME NEW s \in Requests, InsertPending(s)
        PROVE  orders'[o] = orders[o]
    BY <1>0, <2>2, <2>3 DEF InsertPending
  <2>4. ASSUME NEW s \in Requests, NEW status \in RowStatus,
               NEW awb \in Couriers \cup {Null}, Writes(s, status, awb)
        PROVE  orders'[o].awb = orders[o].awb
    <3>1. CASE SaveCreated(s) /\ OrderOf(s) = o
      <4>1. s = r
        BY <2>2, <3>1 DEF SaveCreated, HoldsAwb
      <4>2. pc'[r] = "created"
        BY <1>0, <3>1, <4>1 DEF SaveCreated, Settle, Answer
      <4>3. QED
        BY <4>2 DEF HoldsAwb
    <3>2. QED
      BY <1>0, <2>4, <3>1 DEF Writes, RowUpdated
  <2>5. orders'[o].awb = Null
    BY <1>0, <2>2, <2>3, <2>4, OrdersStep
  <2>6. QED
    BY <1>0, <2>1, <2>2, <2>5
<1>4. QED
  BY <1>2, <1>3

LEMMA NextOrder ==
  ASSUME SinglePartner, OrderInv, [Next]_vars
  PROVE  OrderInv'
<1>1. SafetyInv /\ NamedInv
  BY DEF OrderInv, PartnerInv
<1>2. QED
  BY <1>1, SinglePartner, NextPartner, NextOneConfirmation, NextSerial DEF OrderInv

(* What a courier does to its ledger is to book the order, first of all, or *)
(* to end the booking.                                                      *)
LEMMA LedgerKeepsContract ==
  ASSUME SinglePartner, OrderInv, NEW c \in Couriers, NEW o \in OrderIds, NEW b,
         Books(c, o, b), Allows(c, o, b), UNCHANGED orders
  PROVE  Contract!Ship(c, o) \/ Contract!Move(c, o)
<1>0. SafetyInv /\ NamedInv /\ TypeInv
  BY DEF OrderInv, PartnerInv, SafetyInv
<1>1. CASE ledger[c][o] = "none" /\ b = "CREATED" /\ Asked(c, o)
  <2>1. c \in Named[o]
    BY <1>0, <1>1, NamedAdapter DEF Asked, NamedInv
  <2>2. \A d \in Couriers : ledger[d][o] = "none"
    BY <1>0, <1>1, <2>1, BooksFirst
  <2>3. orders[o] # NoRow
    BY <1>0, <1>1 DEF Asked, SafetyInv, LateHaveRows, TypeInv, CallsHaveRows
  <2>4. orders[o].status # "ABSENT"
    BY <1>0, <2>3 DEF TypeInv, RowsWellFormed
  <2>5. Contract!Ship(c, o)
    BY <1>1, <2>2, <2>4 DEF Contract!Ship, Books
  <2>6. QED
    BY <2>5
<1>2. CASE ledger[c][o] = "CREATED" /\ b \in Final
  BY <1>2 DEF Contract!Move, Books, Final
<1>3. QED
  BY <1>1, <1>2 DEF Allows

(* The row of an order is inserted once.                                    *)
LEMMA InsertKeepsContract ==
  ASSUME OrderInv, NEW r \in Requests, InsertPending(r),
         NEW o \in OrderIds, o = OrderOf(r)
  PROVE  Contract!Insert(o)
<1>0. orders \in [OrderIds -> Row]
  BY DEF OrderInv, PartnerInv, SafetyInv, TypeInv, TypeOK
<1>1. task[r].courier \in Couriers /\ orders[o] = NoRow
  BY ConstantsAssumption DEF InsertPending
<1>2. orders' = [orders EXCEPT ![o] = PendingRow(task[r].courier)] /\ ledger' = ledger
  BY DEF InsertPending
<1>3. /\ orders'[o].status = "PENDING" /\ orders'[o].awb = orders[o].awb
      /\ \A p \in OrderIds : p # o => orders'[p] = orders[p]
  BY <1>0, <1>1, <1>2, RowValues
<1>4. orders[o].status = "ABSENT"
  BY <1>1, RowValues
<1>5. QED
  BY <1>0, <1>2, <1>3, <1>4 DEF Contract!Insert

(* What a request writes on a row is the AWB of a booking, on a row that    *)
(* has none; a failure; or what the courier has, or had, on its books.      *)
LEMMA WriteKeepsContract ==
  ASSUME OrderInv, NEW r \in Requests, NEW status \in RowStatus,
         NEW awb \in Couriers \cup {Null}, Writes(r, status, awb), UNCHANGED ledger,
         NEW o \in OrderIds, o = OrderOf(r)
  PROVE  \/ Contract!Fail(o) \/ Contract!Report(o)
         \/ \E c \in Couriers : Contract!Confirm(c, o)
<1>0. /\ SafetyInv /\ CancelInv /\ TypeInv /\ pc[r] = "call"
      /\ orders \in [OrderIds -> Row] /\ AdapterOf(r) \in Couriers
  BY AdapterFacts DEF Writes, OrderInv, PartnerInv, SafetyInv, TypeInv, TypeOK
<1>1. RowUpdated(o, status, awb)
  BY DEF Writes
<1>2. [p \in OrderIds |-> orders'[p].status] =
        [[p \in OrderIds |-> orders[p].status] EXCEPT ![o] = status]
  BY <1>0, <1>1 DEF RowUpdated
<1>3. [p \in OrderIds |-> orders'[p].awb] =
        [[p \in OrderIds |-> orders[p].awb] EXCEPT ![o] = awb]
  BY <1>0, <1>1 DEF RowUpdated
<1>4. orders[o].status # "ABSENT"
  BY <1>0 DEF TypeInv, CallsHaveRows, RowsWellFormed
<1>5. CASE SaveCreated(r) /\ status = "CREATED" /\ awb = AdapterOf(r)
  <2>1. HoldsAwb(r)
    BY <1>5 DEF SaveCreated, HoldsAwb
  <2>2. orders[o].awb = Null /\ ledger[AdapterOf(r)][o] # "none"
    BY <1>0, <2>1 DEF OrderInv, OneConfirmation, SafetyInv, RepliesBacked, HoldsAwb
  <2>3. PICK c \in Couriers : c = AdapterOf(r)
    BY <1>0
  <2>4. Contract!Confirm(c, o)
    BY <1>0, <1>2, <1>3, <1>4, <1>5, <2>2, <2>3 DEF Contract!Confirm
  <2>5. QED
    BY <2>4
<1>6. ASSUME awb = orders[o].awb
      PROVE  [p \in OrderIds |-> orders'[p].awb] = [p \in OrderIds |-> orders[p].awb]
  BY <1>0, <1>3, <1>6
<1>7. ASSUME awb = orders[o].awb, task[r].kind \in Dispatching,
             status \in {"FAILED", "RECONCILIATION_REQUIRED"},
             status = "RECONCILIATION_REQUIRED" => reply[r] = "duplicate"
      PROVE  Contract!Fail(o)
  <2>1. Overlap \/ orders[o].awb = Null
    BY <1>0, <1>7 DEF OrderInv, SerialInv, CallsFitAwb
  <2>2. status = "RECONCILIATION_REQUIRED" => \E c \in Couriers : ledger[c][o] # "none"
    BY <1>0, <1>7 DEF SafetyInv, RepliesBacked
  <2>3. QED
    BY <1>0, <1>2, <1>4, <1>6, <1>7, <2>1, <2>2 DEF Contract!Fail
<1>8. ASSUME awb = orders[o].awb, task[r].kind \notin Dispatching,
             \/ status \in {"CREATED", "UNKNOWN"}
             \/ status \in Final /\ Confirms(r, status)
      PROVE  Contract!Report(o)
  <2>1. seen[r].awb # Null /\ orders[o].awb = seen[r].awb
    BY <1>0, <1>8 DEF CancelInv, SeenAwbIsCurrent
  <2>2. status \in {"CREATED", "UNKNOWN", ledger[orders[o].awb][o]}
    BY <1>8, <2>1, <1>0 DEF CancelInv, ConfirmationsBacked
  <2>3. QED
    BY <1>0, <1>2, <1>6, <1>8, <2>1, <2>2 DEF Contract!Report
<1>9. CASE Is(r, "cancel") /\ reply[r] = "ok" /\ status = "CANCELLED" /\ awb = orders[o].awb
  BY <1>0, <1>8, <1>9 DEF Confirms, Final, Is, Dispatching
<1>10. CASE Is(r, "track") /\ reply[r] \in Reports /\ status = reply[r] /\ awb = orders[o].awb
  BY <1>0, <1>8, <1>10 DEF Confirms, Final, Is, Dispatching, Reports, Booked
<1>11. QED
  BY <1>5, <1>7, <1>9, <1>10 DEF Writes

(* As long as clients keep to one partner per order, and whether or not     *)
(* their creates and retries overlap, an order lives the life OrderContract *)
(* gives it: every step of its requests, of the couriers and of calls that  *)
(* are late is one of the contract or leaves rows and ledgers alone.        *)
THEOREM OrderContractKept ==
  ASSUME SinglePartner
  PROVE  Spec => KeepsOrderContract
<1>1. Init => OrderInv /\ Contract!OInit
  BY InitPartner, InitSerial, RowValues
     DEF Init, OrderInv, OneConfirmation, HoldsAwb, Contract!OInit
<1>2. OrderInv /\ [Next]_vars => OrderInv'
  BY NextOrder, SinglePartner
<1>3. OrderInv /\ [Next]_vars => [Contract!ONext]_(Contract!ovars)
  <2> SUFFICES ASSUME OrderInv, [Next]_vars
               PROVE  Contract!ONext \/ UNCHANGED <<orders, ledger>>
    BY DEF Contract!ovars
  <2>1. TypeInv /\ \A r \in Requests : OrderOf(r) \in OrderIds
    BY TaskFacts DEF OrderInv, PartnerInv, SafetyInv, TypeInv, TypeOK
  <2>2. ASSUME NEW c \in Couriers, NEW o \in OrderIds, NEW b \in Bookings \ {"none"},
               Books(c, o, b), Allows(c, o, b), UNCHANGED orders
        PROVE  Contract!ONext
    BY <2>2, SinglePartner, LedgerKeepsContract DEF Contract!ONext
  <2>3. ASSUME NEW r \in Requests, InsertPending(r)
        PROVE  Contract!ONext
    <3>1. PICK o \in OrderIds : o = OrderOf(r)
      BY <2>1
    <3>2. QED
      BY <2>3, <3>1, InsertKeepsContract DEF Contract!ONext
  <2>4. ASSUME NEW r \in Requests, NEW status \in RowStatus,
               NEW awb \in Couriers \cup {Null}, Writes(r, status, awb), UNCHANGED ledger
        PROVE  Contract!ONext
    <3>1. PICK o \in OrderIds : o = OrderOf(r)
      BY <2>1
    <3>2. QED
      BY <2>4, <3>1, WriteKeepsContract DEF Contract!ONext
  <2>5. QED
    BY <2>1, <2>2, <2>3, <2>4, OrdersStep, LedgerStep
<1>4. QED
  BY <1>1, <1>2, <1>3, PTL DEF Spec, KeepsOrderContract, Contract!OSpec

=============================================================================
