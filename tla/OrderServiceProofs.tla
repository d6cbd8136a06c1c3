------------------------- MODULE OrderServiceProofs -------------------------
(***************************************************************************)
(* What TLAPS proves about OrderService, for every set of orders, couriers *)
(* and requests, every number of attempts and both disciplines of clients. *)
(***************************************************************************)
EXTENDS OrderService, TLAPS

-----------------------------------------------------------------------------
(* Facts about the values, so that the steps below need not expand them *)

LEMMA StatusValues ==
  /\ {"ABSENT", "PENDING", "CREATED", "CANCELLED", "FAILED", "RECONCILIATION_REQUIRED"}
       \subseteq RowStatus
  /\ Reports \subseteq RowStatus
  /\ "RECONCILIATION_REQUIRED" \notin Reports /\ "PENDING" \notin Reports
  /\ "ABSENT" \notin Reports
BY DEF RowStatus, Reports, Booked

LEMMA BookingValues ==
  /\ {"none", "CREATED", "IN_TRANSIT", "CANCELLED"} \subseteq Bookings
BY DEF Bookings, Booked

LEMMA ReplyValues ==
  /\ {"none", "ok", "duplicate", "rejected", "UNKNOWN"} \subseteq Replies
  /\ \A b \in Bookings : b # "none" => b \in Replies /\ b \in Reports
  /\ {"none", "ok", "duplicate", "rejected"} \cap Reports = {}
  /\ Bookings \subseteq Replies
BY DEF Replies, Reports, Booked, Bookings

LEMMA PlaceValues ==
  /\ {"idle", "readBack", "call"} \subseteq Places
  /\ Outcomes \subseteq Places
  /\ {"idle", "readBack", "call"} \cap Outcomes = {}
  /\ {"created", "replayed", "cancelled", "tracked", "refused", "failed", "died"} \subseteq Outcomes
BY DEF Places, Outcomes

LEMMA RowValues ==
  /\ NoRow \in Row
  /\ \A c \in Couriers : /\ PendingRow(c) \in Row
                         /\ PendingRow(c) # NoRow
                         /\ PendingRow(c).courier = c
                         /\ PendingRow(c).status = "PENDING"
                         /\ PendingRow(c).awb = Null
  /\ NoRow.status = "ABSENT" /\ NoRow.awb = Null
BY StatusValues DEF Row, NoRow, PendingRow

(* What a task says of its request.                                         *)
LEMMA TaskFacts ==
  ASSUME task \in [Requests -> Tasks], NEW r \in Requests
  PROVE  /\ OrderOf(r) \in OrderIds
         /\ Is(r, "create") => task[r].courier \in Couriers
BY DEF Tasks, OrderOf, Is

-----------------------------------------------------------------------------
(* What the repository's updates do to the table *)

(* The effect of an update on the row o of the table.                       *)
RowUpdated(o, status, awb) ==
  /\ orders' \in [OrderIds -> Row]
  /\ \A p \in OrderIds : p # o => orders'[p] = orders[p]
  /\ orders'[o].courier = orders[o].courier
  /\ orders'[o].status = status
  /\ orders'[o].awb = awb

LEMMA MarkShipmentCreated ==
  ASSUME orders \in [OrderIds -> Row], NEW o \in OrderIds, NEW c \in Couriers,
         markShipmentCreated(o, c)
  PROVE  RowUpdated(o, "CREATED", c)
BY StatusValues DEF markShipmentCreated, RowUpdated, Row

LEMMA MarkFailed ==
  ASSUME orders \in [OrderIds -> Row], NEW o \in OrderIds, NEW status \in RowStatus,
         markFailed(o, status)
  PROVE  RowUpdated(o, status, orders[o].awb)
BY DEF markFailed, RowUpdated, Row

LEMMA UpdateStatus ==
  ASSUME orders \in [OrderIds -> Row], NEW o \in OrderIds, NEW status \in RowStatus,
         updateStatus(o, status)
  PROVE  RowUpdated(o, status, orders[o].awb)
BY DEF updateStatus, RowUpdated, Row

LEMMA MarkTracked ==
  ASSUME orders \in [OrderIds -> Row], NEW o \in OrderIds, NEW status \in RowStatus,
         markTracked(o, status)
  PROVE  RowUpdated(o, status, orders[o].awb)
BY DEF markTracked, RowUpdated, Row
(* The effect of a booking or a cancellation on a courier's ledger.         *)
Ledger == [Couriers -> [OrderIds -> Bookings]]

Books(c, o, b) == ledger' = [ledger EXCEPT ![c][o] = b]

LEMMA LedgerUpdate ==
  ASSUME ledger \in Ledger, NEW c \in Couriers, NEW o \in OrderIds, NEW b \in Bookings,
         Books(c, o, b)
  PROVE  /\ ledger' \in Ledger
         /\ ledger'[c][o] = b
         /\ \A d \in Couriers, p \in OrderIds : d # c \/ p # o => ledger'[d][p] = ledger[d][p]
BY DEF Ledger, Books

-----------------------------------------------------------------------------
(* Type correctness *)

(* Rows that exist were inserted with a registered courier.                 *)
RowsWellFormed ==
  \A o \in OrderIds :
    orders[o] # NoRow => /\ orders[o].courier \in Registered
                         /\ orders[o].status # "ABSENT"

(* A request that waits for a courier, or for the row it conflicted with,   *)
(* has a row in the table; with a call under way, it holds a copy of it.    *)
CallsHaveRows ==
  \A r \in Requests :
    /\ pc[r] \in {"readBack", "call"} => orders[OrderOf(r)] # NoRow
    /\ pc[r] = "call" => seen[r].courier \in Registered

(* The type invariant is inductive only together with what makes the        *)
(* adapter of every call a courier.                                         *)
TypeInv == TypeOK /\ RowsWellFormed /\ CallsHaveRows

LEMMA AdapterFacts ==
  ASSUME TypeInv, NEW r \in Requests, pc[r] = "call"
  PROVE  AdapterOf(r) \in Couriers
BY TaskFacts, ConstantsAssumption DEF TypeInv, TypeOK, CallsHaveRows, AdapterOf

LEMMA AbandonType ==
  ASSUME TypeInv, NEW r \in Requests, pc[r] = "call", Abandon(r)
  PROVE  late' \subseteq Messages
BY AdapterFacts, TaskFacts DEF TypeInv, TypeOK, Abandon, MessagesOf, Messages

(* An update of an existing row to a status other than ABSENT keeps the     *)
(* parts of TypeInv that speak of the table.                                *)
LEMMA UpdateKeepsRows ==
  ASSUME TypeInv, NEW o \in OrderIds, NEW status \in RowStatus, NEW awb,
         status # "ABSENT", orders[o] # NoRow, RowUpdated(o, status, awb)
  PROVE  /\ orders' \in [OrderIds -> Row]
         /\ RowsWellFormed'
         /\ \A p \in OrderIds : orders[p] # NoRow => orders'[p] # NoRow
BY RowValues DEF TypeInv, RowsWellFormed, RowUpdated

(* The first call of a request with the row it read.                        *)
LEMMA CallType ==
  ASSUME TypeInv, NEW r \in Requests, NEW row \in Row, Call(r, row)
  PROVE  /\ pc' \in [Requests -> Places]
         /\ seen' \in [Requests -> Row]
         /\ attempt' \in [Requests -> 0..MaxAttempts]
         /\ reply' = reply /\ late' = late
         /\ pc'[r] = "call" /\ seen'[r] = row
         /\ \A q \in Requests : q # r => pc'[q] = pc[q] /\ seen'[q] = seen[q]
BY PlaceValues, ConstantsAssumption DEF TypeInv, TypeOK, Call

(* A request that ends.                                                     *)
LEMMA AnswerType ==
  ASSUME TypeInv, NEW r \in Requests, NEW outcome \in Outcomes, Answer(r, outcome)
  PROVE  /\ pc' \in [Requests -> Places]
         /\ pc'[r] = outcome /\ outcome \notin {"idle", "readBack", "call"}
         /\ \A q \in Requests : q # r => pc'[q] = pc[q]
BY PlaceValues DEF TypeInv, TypeOK, Answer

LEMMA InitTypeInv == Init => TypeInv
<1> SUFFICES ASSUME Init PROVE TypeInv
  OBVIOUS
<1> USE DEF Init
<1>1. TypeOK
  <2>1. attempt \in [Requests -> 0..MaxAttempts]
    BY ConstantsAssumption
  <2>2. QED
    BY <2>1, RowValues, BookingValues, PlaceValues, ReplyValues DEF TypeOK
<1>2. RowsWellFormed
  BY DEF RowsWellFormed
<1>3. CallsHaveRows
  BY DEF CallsHaveRows
<1>4. QED
  BY <1>1, <1>2, <1>3 DEF TypeInv

(* A request answered at once changes nothing but its place.                *)
LEMMA AnswerAtOnceType ==
  ASSUME TypeInv, NEW r \in Requests, NEW outcome \in Outcomes, AnswerAtOnce(r, outcome),
         UNCHANGED <<orders, ledger, task>>
  PROVE  TypeInv'
<1>1. Answer(r, outcome) /\ UNCHANGED <<orders, ledger, task, seen, attempt, reply, late>>
  BY DEF AnswerAtOnce
<1>2. QED
  BY <1>1, AnswerType DEF TypeInv, TypeOK, RowsWellFormed, CallsHaveRows, OrderOf

(* A request that goes ahead with the row in the table.                     *)
LEMMA CallWithRowType ==
  ASSUME TypeInv, NEW r \in Requests, orders[OrderOf(r)] # NoRow,
         Call(r, orders[OrderOf(r)]), UNCHANGED <<orders, ledger, task>>
  PROVE  TypeInv'
<1>1. OrderOf(r) \in OrderIds /\ orders[OrderOf(r)] \in Row
  BY TaskFacts DEF TypeInv, TypeOK
<1>2. QED
  BY <1>1, CallType DEF TypeInv, TypeOK, RowsWellFormed, CallsHaveRows, OrderOf

LEMMA BeginTypeInv ==
  ASSUME TypeInv, NEW r \in Requests, Begin(r)
  PROVE  TypeInv'
<1> DEFINE o == OrderOf(r)
<1>0. o \in OrderIds /\ orders[o] \in Row
  BY TaskFacts DEF TypeInv, TypeOK
<1>1. CASE RefuseUnknownPartner(r)
  BY <1>1, AnswerAtOnceType, PlaceValues DEF RefuseUnknownPartner
<1>2. CASE InsertPending(r)
  <2> DEFINE c == task[r].courier
  <2>1. c \in Registered /\ c \in Couriers /\ PendingRow(c) \in Row
    BY <1>2, RowValues, ConstantsAssumption DEF InsertPending
  <2>2. /\ orders' \in [OrderIds -> Row] /\ orders'[o] = PendingRow(c)
        /\ \A p \in OrderIds : p # o => orders'[p] = orders[p]
    BY <1>0, <1>2, <2>1 DEF InsertPending, TypeInv, TypeOK
  <2>3. RowsWellFormed'
    BY <2>1, <2>2, RowValues DEF TypeInv, RowsWellFormed
  <2>4. /\ Call(r, PendingRow(c)) /\ UNCHANGED <<ledger, task>>
    BY <1>2 DEF InsertPending
  <2>5. CallsHaveRows'
    <3> SUFFICES ASSUME NEW q \in Requests
                 PROVE  /\ pc'[q] \in {"readBack", "call"} => orders'[OrderOf(q)] # NoRow
                        /\ pc'[q] = "call" => seen'[q].courier \in Registered
      BY <2>4 DEF CallsHaveRows, OrderOf
    <3>1. CASE q = r
      BY <2>1, <2>2, <2>4, <3>1, CallType, RowValues
    <3>2. CASE q # r
      <4>1. OrderOf(q) \in OrderIds
        BY TaskFacts DEF TypeInv, TypeOK
      <4>2. pc'[q] = pc[q] /\ seen'[q] = seen[q]
        BY <2>1, <2>4, <3>2, CallType
      <4>3. orders[OrderOf(q)] # NoRow => orders'[OrderOf(q)] # NoRow
        BY <2>1, <2>2, <4>1, RowValues
      <4>4. QED
        BY <4>2, <4>3 DEF TypeInv, CallsHaveRows
    <3>3. QED
      BY <3>1, <3>2
  <2>6. QED
    BY <2>1, <2>2, <2>3, <2>4, <2>5, CallType DEF TypeInv, TypeOK
<1>3. CASE InsertConflict(r)
  BY <1>3, PlaceValues DEF InsertConflict, TypeInv, TypeOK, RowsWellFormed, CallsHaveRows, OrderOf
<1>4. CASE LoadForRetry(r)
  BY <1>4, AnswerAtOnceType, CallWithRowType, PlaceValues DEF LoadForRetry
<1>5. CASE LoadForCancel(r)
  BY <1>5, AnswerAtOnceType, CallWithRowType, PlaceValues, RowValues DEF LoadForCancel
<1>6. CASE LoadForTrack(r)
  BY <1>6, AnswerAtOnceType, CallWithRowType, PlaceValues, RowValues DEF LoadForTrack
<1>7. QED
  BY <1>1, <1>2, <1>3, <1>4, <1>5, <1>6, Begin(r) DEF Begin

(* A call that ends with a written row.                                     *)
LEMMA SettleType ==
  ASSUME TypeInv, NEW r \in Requests, pc[r] = "call",
         NEW outcome \in Outcomes, Settle(r, outcome),
         NEW status \in RowStatus, status # "ABSENT", NEW awb,
         RowUpdated(OrderOf(r), status, awb)
  PROVE  TypeInv'
<1>1. OrderOf(r) \in OrderIds /\ orders[OrderOf(r)] # NoRow
  BY TaskFacts DEF TypeInv, TypeOK, CallsHaveRows
<1>2. /\ orders' \in [OrderIds -> Row] /\ RowsWellFormed'
      /\ \A p \in OrderIds : orders[p] # NoRow => orders'[p] # NoRow
  BY <1>1, UpdateKeepsRows
<1>3. Answer(r, outcome) /\ UNCHANGED <<ledger, task, seen, attempt, reply, late>>
  BY DEF Settle
<1>4. TypeOK'
  BY <1>2, <1>3, AnswerType DEF TypeInv, TypeOK
<1>5. CallsHaveRows'
  BY <1>2, <1>3, AnswerType, TaskFacts DEF TypeInv, TypeOK, CallsHaveRows, OrderOf
<1>6. QED
  BY <1>2, <1>4, <1>5 DEF TypeInv

LEMMA HandleTypeInv ==
  ASSUME TypeInv, NEW r \in Requests, Handle(r) \/ Die(r)
  PROVE  TypeInv'
<1> DEFINE o == OrderOf(r)
<1>0. o \in OrderIds /\ orders \in [OrderIds -> Row]
  BY TaskFacts DEF TypeInv, TypeOK
<1>1. CASE ReadBack(r)
  BY <1>1, AnswerAtOnceType, CallWithRowType, PlaceValues DEF ReadBack, TypeInv, CallsHaveRows
<1>2. CASE SaveCreated(r)
  <2>1. RowUpdated(o, "CREATED", AdapterOf(r))
    BY <1>0, <1>2, MarkShipmentCreated, AdapterFacts DEF SaveCreated
  <2>2. QED
    BY <1>2, <2>1, SettleType, StatusValues, PlaceValues DEF SaveCreated
<1>3. CASE SaveFailed(r)
  <2>1. PICK status \in {"RECONCILIATION_REQUIRED", "FAILED"} : markFailed(o, status)
    BY <1>3 DEF SaveFailed
  <2>2. RowUpdated(o, status, orders[o].awb)
    BY <1>0, <2>1, MarkFailed, StatusValues
  <2>3. QED
    BY <1>3, <2>2, SettleType, StatusValues, PlaceValues DEF SaveFailed
<1>4. CASE SaveCancelled(r)
  <2>1. RowUpdated(o, "CANCELLED", orders[o].awb)
    BY <1>0, <1>4, UpdateStatus, StatusValues DEF SaveCancelled
  <2>2. QED
    BY <1>4, <2>1, SettleType, StatusValues, PlaceValues DEF SaveCancelled
<1>5. CASE SaveTracked(r)
  <2>1. reply[r] \in RowStatus /\ reply[r] # "ABSENT"
    BY <1>5, StatusValues DEF SaveTracked
  <2>2. RowUpdated(o, reply[r], orders[o].awb)
    BY <1>0, <1>5, <2>1, MarkTracked DEF SaveTracked
  <2>3. QED
    BY <1>5, <2>1, <2>2, SettleType, PlaceValues DEF SaveTracked
<1>6. CASE ReportRejection(r)
  BY <1>6, AnswerType, PlaceValues
     DEF ReportRejection, Settle, TypeInv, TypeOK, RowsWellFormed, CallsHaveRows, OrderOf
<1>7. CASE CallAgain(r)
  <2>1. late' \subseteq Messages
    BY <1>7, AbandonType DEF CallAgain
  <2>2. attempt' \in [Requests -> 0..MaxAttempts]
    BY <1>7, ConstantsAssumption DEF CallAgain, TypeInv, TypeOK
  <2>3. QED
    BY <1>7, <2>1, <2>2, ReplyValues
       DEF CallAgain, TypeInv, TypeOK, RowsWellFormed, CallsHaveRows, OrderOf
<1>8. CASE GiveUp(r)
  <2>1. late' \subseteq Messages
    BY <1>8, AbandonType DEF GiveUp
  <2>2. orders[o] # NoRow
    BY <1>8 DEF GiveUp, TypeInv, CallsHaveRows
  <2>3. /\ orders' \in [OrderIds -> Row] /\ RowsWellFormed'
        /\ \A p \in OrderIds : orders[p] # NoRow => orders'[p] # NoRow
    <3>1. CASE markFailed(o, "FAILED")
      BY <1>0, <2>2, <3>1, MarkFailed, UpdateKeepsRows, StatusValues
    <3>2. CASE UNCHANGED orders
      BY <3>2 DEF TypeInv, TypeOK, RowsWellFormed
    <3>3. QED
      BY <1>8, <3>1, <3>2 DEF GiveUp
  <2>4. /\ Answer(r, "failed") /\ UNCHANGED <<ledger, task, seen, attempt, reply>>
    BY <1>8 DEF GiveUp
  <2>5. CallsHaveRows'
    BY <2>3, <2>4, AnswerType, PlaceValues, TaskFacts DEF TypeInv, TypeOK, CallsHaveRows, OrderOf
  <2>6. QED
    BY <2>1, <2>3, <2>4, <2>5, AnswerType, PlaceValues DEF TypeInv, TypeOK
<1>9. CASE Die(r)
  <2>1. late' \subseteq Messages
    BY <1>9, AbandonType DEF Die, TypeInv, TypeOK
  <2>2. QED
    BY <1>9, <2>1, AnswerType, PlaceValues
       DEF Die, TypeInv, TypeOK, RowsWellFormed, CallsHaveRows, OrderOf
<1>10. QED
  BY <1>1, <1>2, <1>3, <1>4, <1>5, <1>6, <1>7, <1>8, <1>9, Handle(r) \/ Die(r) DEF Handle

(* The couriers change their ledger and answer; they touch nothing else.    *)
LEMMA CourierTypeInv ==
  ASSUME TypeInv,
         \/ \E r \in Requests : Courier(r)
         \/ \E m \in late : LateDelivery(m)
         \/ \E c \in Couriers, o \in OrderIds : PickUp(c, o)
  PROVE  TypeInv'
<1>1. ASSUME UNCHANGED <<orders, task, pc, seen, attempt>>,
             ledger' \in [Couriers -> [OrderIds -> Bookings]],
             reply' \in [Requests -> Replies], late' \subseteq Messages
      PROVE TypeInv'
  BY <1>1 DEF TypeInv, TypeOK, RowsWellFormed, CallsHaveRows, OrderOf
<1>2. ASSUME NEW r \in Requests, Courier(r) PROVE TypeInv'
  <2>1. OrderOf(r) \in OrderIds /\ AdapterOf(r) \in Couriers
    BY <1>2, TaskFacts, AdapterFacts
       DEF TypeInv, TypeOK, Courier, CourierBooks, CourierRefuses, CourierCancels,
           CourierReports, CourierRejects, InFlight
  <2>2. UNCHANGED <<orders, task, pc, seen, attempt, late>>
    BY <1>2 DEF Courier, CourierBooks, CourierRefuses, CourierCancels, CourierReports,
                CourierRejects
  <2>3. ledger' \in [Couriers -> [OrderIds -> Bookings]]
    <3>1. ledger \in Ledger
      BY DEF TypeInv, TypeOK, Ledger
    <3>2. CASE UNCHANGED ledger
      BY <3>1, <3>2 DEF Ledger
    <3>3. ASSUME NEW b \in {"CREATED", "CANCELLED"},
                 Books(AdapterOf(r), OrderOf(r), b)
          PROVE  ledger' \in Ledger
      BY <2>1, <3>1, <3>3, LedgerUpdate, BookingValues
    <3>4. \/ UNCHANGED ledger
          \/ Books(AdapterOf(r), OrderOf(r), "CREATED")
          \/ Books(AdapterOf(r), OrderOf(r), "CANCELLED")
      BY <1>2 DEF Courier, CourierBooks, CourierRefuses, CourierCancels, CourierReports,
                  CourierRejects, Books
    <3>5. QED
      BY <3>2, <3>3, <3>4 DEF Ledger
  <2>4. reply' \in [Requests -> Replies]
    BY <1>2, <2>1, ReplyValues
       DEF TypeInv, TypeOK, Courier, CourierBooks, CourierRefuses, CourierCancels,
           CourierReports, CourierRejects
  <2>5. QED
    BY <1>1, <2>2, <2>3, <2>4 DEF TypeInv, TypeOK
<1>3. ASSUME NEW m \in late, LateDelivery(m) PROVE TypeInv'
  <2>1. m.courier \in Couriers /\ m.order \in OrderIds
    BY DEF TypeInv, TypeOK, Messages
  <2>2. ledger' \in [Couriers -> [OrderIds -> Bookings]]
    BY <1>3, <2>1, LedgerUpdate, BookingValues DEF LateDelivery, TypeInv, TypeOK, Ledger, Books
  <2>3. QED
    BY <1>1, <1>3, <2>2 DEF LateDelivery, TypeInv, TypeOK
<1>4. ASSUME NEW c \in Couriers, NEW o \in OrderIds, PickUp(c, o) PROVE TypeInv'
  <2>1. ledger' \in [Couriers -> [OrderIds -> Bookings]]
    BY <1>4, LedgerUpdate, BookingValues DEF PickUp, TypeInv, TypeOK, Ledger, Books
  <2>2. QED
    BY <1>1, <1>4, <2>1 DEF PickUp, TypeInv, TypeOK
<1>5. QED
  BY <1>2, <1>3, <1>4

LEMMA NextTypeInv == TypeInv /\ [Next]_vars => TypeInv'
<1> SUFFICES ASSUME TypeInv, [Next]_vars PROVE TypeInv'
  OBVIOUS
<1>1. CASE UNCHANGED vars
  BY <1>1 DEF vars, TypeInv, TypeOK, RowsWellFormed, CallsHaveRows, OrderOf
<1>2. QED
  BY <1>1, BeginTypeInv, HandleTypeInv, CourierTypeInv DEF Next

(* Every variable keeps its type: a request only ever calls couriers that   *)
(* exist, and only ever writes rows that were inserted.                     *)
THEOREM TypeCorrect == Spec => []TypeOK
<1>1. TypeInv => TypeOK
  BY DEF TypeInv
<1>2. QED
  BY InitTypeInv, NextTypeInv, <1>1, PTL DEF Spec

-----------------------------------------------------------------------------
(* What a step may do to the table and to the ledgers *)

(* Request r, which has an answer or has given up, writes its row: the      *)
(* shipment of its adapter, or beside the AWB that is there the failure of  *)
(* a create or retry, a cancellation, or what the courier reports.          *)
Writes(r, status, awb) ==
  /\ pc[r] = "call"
  /\ RowUpdated(OrderOf(r), status, awb)
  /\ status \notin {"ABSENT", "PENDING"}
  /\ \/ SaveCreated(r) /\ status = "CREATED" /\ awb = AdapterOf(r)
     \/ /\ awb = orders[OrderOf(r)].awb
        /\ \/ /\ task[r].kind \in Dispatching
              /\ \/ status = "FAILED"
                 \/ status = "RECONCILIATION_REQUIRED" /\ reply[r] = "duplicate"
           \/ Is(r, "cancel") /\ reply[r] = "ok" /\ status = "CANCELLED"
           \/ Is(r, "track") /\ reply[r] \in Reports /\ status = reply[r]

LEMMA OrdersStep ==
  ASSUME TypeInv, [Next]_vars
  PROVE  \/ UNCHANGED orders
         \/ \E r \in Requests : InsertPending(r)
         \/ \E r \in Requests, status \in RowStatus, awb \in Couriers \cup {Null} :
              Writes(r, status, awb)
<1> DEFINE Goal == \/ UNCHANGED orders
                   \/ \E r \in Requests : InsertPending(r)
                   \/ \E r \in Requests, status \in RowStatus, awb \in Couriers \cup {Null} :
                        Writes(r, status, awb)
<1>1. ASSUME NEW r \in Requests, Handle(r) PROVE Goal
  <2> DEFINE o == OrderOf(r)
  <2>0. /\ o \in OrderIds /\ orders \in [OrderIds -> Row]
        /\ orders[o].awb \in Couriers \cup {Null}
    BY TaskFacts DEF TypeInv, TypeOK, Row
  <2>1. CASE SaveCreated(r)
    <3>1. AdapterOf(r) \in Couriers
      BY <2>1, AdapterFacts DEF SaveCreated
    <3>2. RowUpdated(o, "CREATED", AdapterOf(r))
      BY <2>0, <2>1, <3>1, MarkShipmentCreated DEF SaveCreated
    <3>3. Writes(r, "CREATED", AdapterOf(r))
      BY <2>1, <3>2 DEF Writes, SaveCreated
    <3>4. QED
      BY <3>1, <3>3, StatusValues
  <2>2. CASE SaveFailed(r)
    <3>1. PICK status \in {"RECONCILIATION_REQUIRED", "FAILED"} :
            /\ markFailed(o, status)
            /\ status = "RECONCILIATION_REQUIRED" => reply[r] = "duplicate"
      BY <2>2 DEF SaveFailed
    <3>2. RowUpdated(o, status, orders[o].awb)
      BY <2>0, <3>1, MarkFailed, StatusValues
    <3>3. Writes(r, status, orders[o].awb)
      BY <2>2, <3>1, <3>2 DEF Writes, SaveFailed
    <3>4. QED
      BY <2>0, <3>3, StatusValues
  <2>3. CASE SaveCancelled(r)
    <3>1. RowUpdated(o, "CANCELLED", orders[o].awb)
      BY <2>0, <2>3, UpdateStatus, StatusValues DEF SaveCancelled
    <3>2. Writes(r, "CANCELLED", orders[o].awb)
      BY <2>3, <3>1 DEF Writes, SaveCancelled
    <3>3. QED
      BY <2>0, <3>2, StatusValues
  <2>4. CASE SaveTracked(r)
    <3>1. /\ reply[r] \in RowStatus
          /\ reply[r] \notin {"ABSENT", "PENDING", "RECONCILIATION_REQUIRED"}
      BY <2>4, StatusValues DEF SaveTracked
    <3>2. RowUpdated(o, reply[r], orders[o].awb)
      BY <2>0, <2>4, <3>1, MarkTracked DEF SaveTracked
    <3>3. Writes(r, reply[r], orders[o].awb)
      BY <2>4, <3>1, <3>2 DEF Writes, SaveTracked
    <3>4. QED
      BY <2>0, <3>1, <3>3
  <2>5. CASE GiveUp(r)
    <3>1. CASE task[r].kind \in Dispatching
      <4>1. RowUpdated(o, "FAILED", orders[o].awb)
        BY <2>0, <2>5, <3>1, MarkFailed, StatusValues DEF GiveUp
      <4>2. Writes(r, "FAILED", orders[o].awb)
        BY <2>5, <3>1, <4>1 DEF Writes, GiveUp
      <4>3. QED
        BY <2>0, <4>2, StatusValues
    <3>2. QED
      BY <2>5, <3>1 DEF GiveUp
  <2>6. QED
    BY <1>1, <2>1, <2>2, <2>3, <2>4, <2>5 DEF Handle, ReadBack, ReportRejection, CallAgain
<1>2. ASSUME NEW r \in Requests, Begin(r) PROVE Goal
  BY <1>2 DEF Begin, RefuseUnknownPartner, InsertConflict, LoadForRetry, LoadForCancel,
              LoadForTrack
<1>3. ASSUME NEW r \in Requests, Courier(r) \/ Die(r) PROVE Goal
  BY <1>3 DEF Courier, CourierBooks, CourierRefuses, CourierCancels, CourierReports,
              CourierRejects, Die
<1>4. ASSUME NEW m \in late, LateDelivery(m) PROVE Goal
  BY <1>4 DEF LateDelivery
<1>5. ASSUME NEW c \in Couriers, NEW o \in OrderIds, PickUp(c, o) PROVE Goal
  BY <1>5 DEF PickUp
<1>6. QED
  BY <1>1, <1>2, <1>3, <1>4, <1>5 DEF Next, vars

(* Courier c has an unhandled call for order o: from a request that waits,  *)
(* or from one that no longer does.                                         *)
Asked(c, o) ==
  \/ \E r \in Requests : /\ pc[r] = "call" /\ task[r].kind \in Dispatching
                         /\ AdapterOf(r) = c /\ OrderOf(r) = o
  \/ \E m \in late : m.courier = c /\ m.order = o

(* What a shipment is once the courier is done with it.                     *)
Final == {"IN_TRANSIT", "CANCELLED"}

(* A courier books what it was asked to, and a booking ends one way.        *)
Allows(c, o, b) ==
  \/ ledger[c][o] = "none" /\ b = "CREATED" /\ Asked(c, o)
  \/ ledger[c][o] = "CREATED" /\ b \in Final

LEMMA LedgerStep ==
  ASSUME TypeInv, [Next]_vars
  PROVE  \/ UNCHANGED ledger
         \/ \E c \in Couriers, o \in OrderIds, b \in Bookings \ {"none"} :
              Books(c, o, b) /\ Allows(c, o, b) /\ UNCHANGED orders
<1> DEFINE Goal == \/ UNCHANGED ledger
                   \/ \E c \in Couriers, o \in OrderIds, b \in Bookings \ {"none"} :
                        Books(c, o, b) /\ Allows(c, o, b) /\ UNCHANGED orders
<1>1. ASSUME NEW r \in Requests, Courier(r) PROVE Goal
  <2>1. CASE CourierBooks(r)
    <3>1. AdapterOf(r) \in Couriers /\ OrderOf(r) \in OrderIds
      BY <2>1, AdapterFacts, TaskFacts DEF CourierBooks, InFlight, TypeInv, TypeOK
    <3>2. Asked(AdapterOf(r), OrderOf(r))
      BY <2>1 DEF Asked, CourierBooks, InFlight
    <3>3. /\ Books(AdapterOf(r), OrderOf(r), "CREATED") /\ UNCHANGED orders
          /\ ledger[AdapterOf(r)][OrderOf(r)] = "none"
      BY <2>1 DEF CourierBooks, Books
    <3>4. QED
      BY <3>1, <3>2, <3>3, BookingValues DEF Allows
  <2>2. CASE CourierCancels(r)
    <3>1. AdapterOf(r) \in Couriers /\ OrderOf(r) \in OrderIds
      BY <2>2, AdapterFacts, TaskFacts DEF CourierCancels, InFlight, TypeInv, TypeOK
    <3>2. /\ Books(AdapterOf(r), OrderOf(r), "CANCELLED") /\ UNCHANGED orders
          /\ ledger[AdapterOf(r)][OrderOf(r)] = "CREATED"
      BY <2>2 DEF CourierCancels, Books
    <3>3. QED
      BY <3>1, <3>2, BookingValues DEF Allows, Final
  <2>3. QED
    BY <1>1, <2>1, <2>2 DEF Courier, CourierRefuses, CourierReports, CourierRejects
<1>2. ASSUME NEW m \in late, LateDelivery(m) PROVE Goal
  <2>1. m.courier \in Couriers /\ m.order \in OrderIds
    BY DEF TypeInv, TypeOK, Messages
  <2>2. Asked(m.courier, m.order)
    BY DEF Asked
  <2>3. /\ UNCHANGED orders
        /\ \/ Books(m.courier, m.order, "CREATED") /\ ledger[m.courier][m.order] = "none"
           \/ Books(m.courier, m.order, "CANCELLED") /\ ledger[m.courier][m.order] = "CREATED"
    BY <1>2 DEF LateDelivery, Books
  <2>4. QED
    BY <2>1, <2>2, <2>3, BookingValues DEF Allows, Final
<1>3. ASSUME NEW c \in Couriers, NEW o \in OrderIds, PickUp(c, o) PROVE Goal
  <2>1. Books(c, o, "IN_TRANSIT") /\ UNCHANGED orders /\ ledger[c][o] = "CREATED"
    BY <1>3 DEF PickUp, Books
  <2>2. QED
    BY <2>1, BookingValues DEF Allows, Final
<1>4. ASSUME NEW r \in Requests, Begin(r) PROVE Goal
  BY <1>4 DEF Begin, RefuseUnknownPartner, InsertPending, InsertConflict, LoadForRetry,
              LoadForCancel, LoadForTrack
<1>5. ASSUME NEW r \in Requests, Handle(r) \/ Die(r) PROVE Goal
  BY <1>5 DEF Handle, ReadBack, SaveCreated, SaveFailed, SaveCancelled, SaveTracked,
              ReportRejection, CallAgain, GiveUp, Die, Settle
<1>6. QED
  BY <1>1, <1>2, <1>3, <1>4, <1>5 DEF Next, vars

(* What no step undoes: a booking, a row, the courier and the AWB on it,    *)
(* and what a request asked for.                                            *)
LEMMA Monotone ==
  ASSUME TypeInv, [Next]_vars
  PROVE  /\ task' = task
         /\ \A c \in Couriers, o \in OrderIds : ledger[c][o] # "none" => ledger'[c][o] # "none"
         /\ \A o \in OrderIds :
              orders[o] # NoRow => /\ orders'[o] # NoRow
                                   /\ orders'[o].courier = orders[o].courier
                                   /\ orders[o].awb # Null => orders'[o].awb # Null
<1>1. task' = task
  BY DEF Next, vars, Begin, Handle, Courier, RefuseUnknownPartner, InsertPending,
         InsertConflict, LoadForRetry, LoadForCancel, LoadForTrack, ReadBack, SaveCreated,
         SaveFailed, SaveCancelled, SaveTracked, ReportRejection, CallAgain, GiveUp, Die,
         Settle, CourierBooks, CourierRefuses, CourierCancels, CourierReports, CourierRejects,
         LateDelivery, PickUp
<1>2. ASSUME NEW c \in Couriers, NEW o \in OrderIds, ledger[c][o] # "none"
      PROVE  ledger'[c][o] # "none"
  <2>1. ledger \in Ledger
    BY DEF TypeInv, TypeOK, Ledger
  <2>2. QED
    BY <1>2, <2>1, LedgerStep, LedgerUpdate
<1>3. ASSUME NEW o \in OrderIds, orders[o] # NoRow
      PROVE  /\ orders'[o] # NoRow
             /\ orders'[o].courier = orders[o].courier
             /\ orders[o].awb # Null => orders'[o].awb # Null
  <2>1. CASE UNCHANGED orders
    BY <1>3, <2>1
  <2>2. ASSUME NEW r \in Requests, InsertPending(r)
        PROVE  orders'[o] = orders[o]
    BY <1>3, <2>2 DEF InsertPending, TypeInv, TypeOK
  <2>3. ASSUME NEW r \in Requests, NEW status \in RowStatus, NEW awb \in Couriers \cup {Null},
               Writes(r, status, awb)
        PROVE  /\ orders'[o] # NoRow
               /\ orders'[o].courier = orders[o].courier
               /\ orders[o].awb # Null => orders'[o].awb # Null
    <3>1. CASE o # OrderOf(r)
      BY <1>3, <2>3, <3>1 DEF Writes, RowUpdated
    <3>2. CASE o = OrderOf(r)
      BY <1>3, <2>3, <3>2, RowValues, AdapterFacts, ConstantsAssumption DEF Writes, RowUpdated
    <3>3. QED
      BY <3>1, <3>2
  <2>4. QED
    BY <1>3, <2>1, <2>2, <2>3, OrdersStep
<1>4. QED
  BY <1>1, <1>2, <1>3

(* How a request q fares in a step: nothing, its first call, a new attempt, *)
(* the answer of a courier, or its end.                                     *)
Waits(q) == pc'[q] = pc[q] /\ seen'[q] = seen[q] /\ reply'[q] = reply[q]

Starts(q) == /\ pc[q] \in {"idle", "readBack"} /\ pc'[q] \in {"readBack", "call"}
             /\ reply'[q] = reply[q]
             /\ pc'[q] = "call" => orders'[OrderOf(q)] # NoRow /\ seen'[q] = orders'[OrderOf(q)]

Repeats(q) == /\ pc[q] = "call" /\ pc'[q] = "call" /\ seen'[q] = seen[q]
              /\ reply'[q] = "none"

IsAnswered(q) == /\ InFlight(q) /\ pc'[q] = "call" /\ seen'[q] = seen[q]
                 /\ reply'[q] \in {"ok", "duplicate"} /\ task[q].kind \in Dispatching =>
                      ledger'[AdapterOf(q)][OrderOf(q)] # "none"

Ends(q) == /\ pc[q] \notin Outcomes /\ pc'[q] \in Outcomes
           /\ pc'[q] = "created" => SaveCreated(q)

LEMMA RequestStep ==
  ASSUME TypeInv, [Next]_vars, NEW q \in Requests
  PROVE  Waits(q) \/ Starts(q) \/ Repeats(q) \/ IsAnswered(q) \/ Ends(q)
<1> DEFINE Goal == Waits(q) \/ Starts(q) \/ Repeats(q) \/ IsAnswered(q) \/ Ends(q)
<1>0. /\ OrderOf(q) \in OrderIds /\ orders[OrderOf(q)] \in Row
      /\ pc \in [Requests -> Places] /\ seen \in [Requests -> Row]
      /\ reply \in [Requests -> Replies] /\ orders \in [OrderIds -> Row]
  BY TaskFacts DEF TypeInv, TypeOK
<1>1. ASSUME NEW r \in Requests, r # q, Begin(r) \/ Handle(r) \/ Courier(r) \/ Die(r)
      PROVE  Waits(q)
  BY <1>0, <1>1
     DEF Begin, Handle, Courier, Die, RefuseUnknownPartner, InsertPending, InsertConflict,
         LoadForRetry, LoadForCancel, LoadForTrack, ReadBack, SaveCreated, SaveFailed,
         SaveCancelled, SaveTracked, ReportRejection, CallAgain, GiveUp, Settle, Answer,
         AnswerAtOnce, Call, CourierBooks, CourierRefuses, CourierCancels, CourierReports,
         CourierRejects, Waits
<1>2. CASE Begin(q)
  <2>1. ASSUME NEW outcome \in Outcomes \ {"created"}, AnswerAtOnce(q, outcome), pc[q] = "idle"
        PROVE  Goal
    BY <1>0, <2>1, PlaceValues DEF AnswerAtOnce, Answer, Ends
  <2>2. ASSUME NEW row, Call(q, row), pc[q] = "idle", orders'[OrderOf(q)] = row, row # NoRow
        PROVE  Goal
    BY <1>0, <2>2 DEF Call, Starts
  <2>3. CASE InsertPending(q)
    <3>1. task[q].courier \in Couriers
      BY <2>3, ConstantsAssumption DEF InsertPending
    <3>2. orders'[OrderOf(q)] = PendingRow(task[q].courier)
      BY <1>0, <2>3 DEF InsertPending
    <3>3. QED
      BY <2>2, <2>3, <3>1, <3>2, RowValues DEF InsertPending
  <2>4. CASE InsertConflict(q)
    BY <1>0, <2>4 DEF InsertConflict, Starts
  <2>5. CASE RefuseUnknownPartner(q)
    BY <2>1, <2>5, PlaceValues DEF RefuseUnknownPartner
  <2>6. CASE LoadForRetry(q)
    BY <2>1, <2>2, <2>6, PlaceValues DEF LoadForRetry
  <2>7. CASE LoadForCancel(q)
    BY <2>1, <2>2, <2>7, PlaceValues, RowValues DEF LoadForCancel
  <2>8. CASE LoadForTrack(q)
    BY <2>1, <2>2, <2>8, PlaceValues, RowValues DEF LoadForTrack
  <2>9. QED
    BY <1>2, <2>3, <2>4, <2>5, <2>6, <2>7, <2>8 DEF Begin
<1>3. CASE Handle(q) \/ Die(q)
  <2>1. ASSUME NEW outcome \in Outcomes, Answer(q, outcome), pc[q] \in {"readBack", "call"},
               outcome = "created" => SaveCreated(q)
        PROVE  Goal
    BY <1>0, <2>1, PlaceValues DEF Answer, Ends
  <2>2. CASE ReadBack(q)
    <3>1. CASE AnswerAtOnce(q, "replayed")
      BY <2>1, <2>2, <3>1, PlaceValues DEF ReadBack, AnswerAtOnce
    <3>2. CASE Call(q, orders[OrderOf(q)])
      BY <1>0, <2>2, <3>2 DEF ReadBack, Call, Starts, TypeInv, CallsHaveRows
    <3>3. QED
      BY <2>2, <3>1, <3>2 DEF ReadBack
  <2>3. CASE CallAgain(q)
    BY <1>0, <2>3 DEF CallAgain, Repeats
  <2>4. QED
    BY <1>3, <2>1, <2>2, <2>3, PlaceValues
       DEF Handle, SaveCreated, SaveFailed, SaveCancelled, SaveTracked, ReportRejection, GiveUp,
           Die, Settle, Active
<1>4. CASE Courier(q)
  <2>1. CASE CourierBooks(q)
    <3>1. InFlight(q) /\ AdapterOf(q) \in Couriers /\ ledger \in Ledger
      BY <2>1, AdapterFacts DEF CourierBooks, InFlight, TypeInv, TypeOK, Ledger
    <3>2. Books(AdapterOf(q), OrderOf(q), "CREATED")
      BY <2>1 DEF CourierBooks, Books
    <3>3. ledger'[AdapterOf(q)][OrderOf(q)] = "CREATED"
      BY <1>0, <3>1, <3>2, LedgerUpdate, BookingValues
    <3>4. QED
      BY <2>1, <3>1, <3>3 DEF CourierBooks, InFlight, IsAnswered
  <2>2. CASE CourierRefuses(q)
    BY <1>0, <2>2 DEF CourierRefuses, InFlight, IsAnswered
  <2>3. CASE CourierCancels(q) \/ CourierReports(q) \/ CourierRejects(q)
    BY <1>0, <2>3 DEF CourierCancels, CourierReports, CourierRejects, InFlight, IsAnswered,
                      Is, Dispatching
  <2>4. QED
    BY <1>4, <2>1, <2>2, <2>3 DEF Courier
<1>5. ASSUME NEW m \in late, LateDelivery(m) PROVE Goal
  BY <1>5 DEF LateDelivery, Waits
<1>6. ASSUME NEW c \in Couriers, NEW o \in OrderIds, PickUp(c, o) PROVE Goal
  BY <1>6 DEF PickUp, Waits
<1>7. CASE UNCHANGED vars
  BY <1>7 DEF vars, Waits
<1>8. QED
  BY <1>1, <1>2, <1>3, <1>4, <1>5, <1>6, <1>7 DEF Next

(* What is left behind in late was asked by a request with a call under way.*)
LEMMA LateStep ==
  ASSUME TypeInv, [Next]_vars, NEW m \in late'
  PROVE  \/ m \in late
         \/ \E r \in Requests : pc[r] = "call" /\ m \in MessagesOf(r)
BY DEF Next, vars, Begin, Handle, Courier, RefuseUnknownPartner, InsertPending, InsertConflict,
       LoadForRetry, LoadForCancel, LoadForTrack, ReadBack, SaveCreated, SaveFailed,
       SaveCancelled, SaveTracked, ReportRejection, CallAgain, GiveUp, Die, Settle, Answer,
       AnswerAtOnce, Call, Abandon, CourierBooks, CourierRefuses, CourierCancels,
       CourierReports, CourierRejects, LateDelivery, PickUp

-----------------------------------------------------------------------------
(* The safety invariants *)

(* A booking a courier confirmed, or refused as a duplicate, is on its      *)
(* books while the answer is on its way.                                    *)
RepliesBacked ==
  \A r \in Requests :
    /\ pc[r] \in {"idle", "readBack"} => reply[r] = "none"
    /\ pc[r] = "call" /\ task[r].kind \in Dispatching /\ reply[r] \in {"ok", "duplicate"} =>
         ledger[AdapterOf(r)][OrderOf(r)] # "none"

(* A call nobody waits for any more is about an order that has a row.       *)
LateHaveRows == \A m \in late : orders[m.order] # NoRow

(* AwbBacked, InsertBeforeCall and ReconciliationBacked speak of the table  *)
(* and the ledgers; a step changes one of them by way of a courier's answer *)
(* or of a call, so the invariant follows those too.                        *)
SafetyInv ==
  /\ TypeInv
  /\ RepliesBacked
  /\ LateHaveRows
  /\ AwbBacked
  /\ InsertBeforeCall
  /\ ReconciliationBacked
  /\ CreatedIsKept

LEMMA InitSafety == Init => SafetyInv
<1> SUFFICES ASSUME Init PROVE SafetyInv
  OBVIOUS
<1>1. TypeInv
  BY InitTypeInv
<1>2. RepliesBacked /\ LateHaveRows /\ InsertBeforeCall
  BY DEF Init, RepliesBacked, LateHaveRows, InsertBeforeCall
<1>3. AwbBacked /\ ReconciliationBacked
  BY RowValues DEF Init, AwbBacked, ReconciliationBacked
<1>4. CreatedIsKept
  BY DEF Init, CreatedIsKept
<1>5. QED
  BY <1>1, <1>2, <1>3, <1>4 DEF SafetyInv

(* The adapter of a request does not change during its calls.               *)
LEMMA SameAdapter ==
  ASSUME NEW r \in Requests, task' = task, seen'[r] = seen[r]
  PROVE  AdapterOf(r)' = AdapterOf(r) /\ OrderOf(r)' = OrderOf(r)
BY DEF AdapterOf, OrderOf, Is

LEMMA NextRepliesBacked ==
  ASSUME SafetyInv, [Next]_vars
  PROVE  RepliesBacked'
<1> SUFFICES ASSUME NEW r \in Requests
             PROVE  /\ pc'[r] \in {"idle", "readBack"} => reply'[r] = "none"
                    /\ pc'[r] = "call" /\ task'[r].kind \in Dispatching
                         /\ reply'[r] \in {"ok", "duplicate"} =>
                         ledger'[AdapterOf(r)'][OrderOf(r)'] # "none"
  BY DEF RepliesBacked
<1>1. TypeInv /\ task' = task /\ OrderOf(r) \in OrderIds
  BY Monotone, TaskFacts DEF SafetyInv, TypeInv, TypeOK
<1>2. CASE Waits(r)
  <2>1. CASE pc[r] = "call"
    BY <1>1, <1>2, <2>1, SameAdapter, AdapterFacts, Monotone DEF SafetyInv, RepliesBacked, Waits
  <2>2. CASE pc[r] # "call"
    BY <1>2, <2>2 DEF SafetyInv, RepliesBacked, Waits
  <2>3. QED
    BY <2>1, <2>2
<1>3. CASE Starts(r)
  BY <1>3 DEF Starts, SafetyInv, RepliesBacked
<1>4. CASE Repeats(r)
  BY <1>4 DEF Repeats
<1>5. CASE IsAnswered(r)
  BY <1>1, <1>5, SameAdapter DEF IsAnswered
<1>6. CASE Ends(r)
  BY <1>6, PlaceValues DEF Ends
<1>7. QED
  BY <1>1, <1>2, <1>3, <1>4, <1>5, <1>6, RequestStep

LEMMA NextLateHaveRows ==
  ASSUME SafetyInv, [Next]_vars
  PROVE  LateHaveRows'
<1> SUFFICES ASSUME NEW m \in late'
             PROVE  orders'[m.order] # NoRow
  BY DEF LateHaveRows
<1>1. TypeInv
  BY DEF SafetyInv
<1>2. CASE m \in late
  <2>1. m.order \in OrderIds /\ orders[m.order] # NoRow
    BY <1>2 DEF SafetyInv, LateHaveRows, TypeInv, TypeOK, Messages
  <2>2. QED
    BY <1>1, <2>1, Monotone
<1>3. ASSUME NEW r \in Requests, pc[r] = "call", m \in MessagesOf(r)
      PROVE  orders'[m.order] # NoRow
  <2>1. m.order = OrderOf(r)
    BY <1>3 DEF MessagesOf
  <2>2. OrderOf(r) \in OrderIds /\ orders[OrderOf(r)] # NoRow
    BY <1>1, <1>3, TaskFacts DEF TypeInv, TypeOK, CallsHaveRows
  <2>3. QED
    BY <1>1, <2>1, <2>2, Monotone
<1>4. QED
  BY <1>1, <1>2, <1>3, LateStep

(* The AWB written on a row is the shipment the adapter just confirmed.     *)
LEMMA NextAwbBacked ==
  ASSUME SafetyInv, [Next]_vars
  PROVE  AwbBacked'
<1> SUFFICES ASSUME NEW o \in OrderIds, orders'[o].awb # Null
             PROVE  /\ orders'[o].awb \in Couriers
                    /\ ledger'[orders'[o].awb][o] # "none"
  BY DEF AwbBacked
<1>1. TypeInv
  BY DEF SafetyInv
<1>2. CASE orders'[o].awb = orders[o].awb
  BY <1>1, <1>2, Monotone DEF SafetyInv, AwbBacked
<1>3. ASSUME NEW r \in Requests, InsertPending(r), orders'[o].awb # orders[o].awb
      PROVE  FALSE
  BY <1>1, <1>3, RowValues, ConstantsAssumption DEF InsertPending, TypeInv, TypeOK
<1>4. ASSUME NEW r \in Requests, NEW status \in RowStatus, NEW awb \in Couriers \cup {Null},
             Writes(r, status, awb), orders'[o].awb # orders[o].awb
      PROVE  /\ orders'[o].awb \in Couriers
             /\ ledger'[orders'[o].awb][o] # "none"
  <2>1. o = OrderOf(r) /\ SaveCreated(r) /\ orders'[o].awb = AdapterOf(r)
    BY <1>4 DEF Writes, RowUpdated
  <2>2. AdapterOf(r) \in Couriers /\ ledger[AdapterOf(r)][o] # "none"
    BY <1>1, <2>1, AdapterFacts DEF SaveCreated, SafetyInv, RepliesBacked
  <2>3. QED
    BY <1>1, <2>1, <2>2, Monotone
<1>5. QED
  BY <1>1, <1>2, <1>3, <1>4, OrdersStep

LEMMA NextInsertBeforeCall ==
  ASSUME SafetyInv, [Next]_vars
  PROVE  InsertBeforeCall'
<1> SUFFICES ASSUME NEW c \in Couriers, NEW o \in OrderIds, ledger'[c][o] # "none"
             PROVE  orders'[o] # NoRow
  BY DEF InsertBeforeCall
<1>1. TypeInv /\ ledger \in Ledger
  BY DEF SafetyInv, TypeInv, TypeOK, Ledger
<1>2. CASE ledger[c][o] # "none"
  BY <1>1, <1>2, Monotone DEF SafetyInv, InsertBeforeCall
<1>3. CASE ledger[c][o] = "none"
  <2>1. Asked(c, o)
    BY <1>1, <1>3, LedgerStep, LedgerUpdate DEF Allows
  <2>2. orders[o] # NoRow
    BY <2>1 DEF Asked, SafetyInv, LateHaveRows, TypeInv, CallsHaveRows
  <2>3. QED
    BY <1>1, <2>2, Monotone
<1>4. QED
  BY <1>2, <1>3

LEMMA NextReconciliationBacked ==
  ASSUME SafetyInv, [Next]_vars
  PROVE  ReconciliationBacked'
<1> SUFFICES ASSUME NEW o \in OrderIds, orders'[o].status = "RECONCILIATION_REQUIRED"
             PROVE  \E c \in Couriers : ledger'[c][o] # "none"
  BY DEF ReconciliationBacked
<1>1. TypeInv
  BY DEF SafetyInv
<1>2. CASE orders'[o].status = orders[o].status
  BY <1>1, <1>2, Monotone DEF SafetyInv, ReconciliationBacked
<1>3. ASSUME NEW r \in Requests, InsertPending(r), orders'[o].status # orders[o].status
      PROVE  FALSE
  BY <1>1, <1>3, RowValues, ConstantsAssumption DEF InsertPending, TypeInv, TypeOK
<1>4. ASSUME NEW r \in Requests, NEW status \in RowStatus, NEW awb \in Couriers \cup {Null},
             Writes(r, status, awb), orders'[o].status # orders[o].status
      PROVE  \E c \in Couriers : ledger'[c][o] # "none"
  <2>1. /\ o = OrderOf(r) /\ pc[r] = "call"
        /\ task[r].kind \in Dispatching /\ reply[r] = "duplicate"
    BY <1>4, StatusValues DEF Writes, RowUpdated
  <2>2. AdapterOf(r) \in Couriers /\ ledger[AdapterOf(r)][o] # "none"
    BY <1>1, <2>1, AdapterFacts DEF SafetyInv, RepliesBacked
  <2>3. QED
    BY <1>1, <2>2, Monotone
<1>5. QED
  BY <1>1, <1>2, <1>3, <1>4, OrdersStep

LEMMA NextCreatedIsKept ==
  ASSUME SafetyInv, [Next]_vars
  PROVE  CreatedIsKept'
<1> SUFFICES ASSUME NEW r \in Requests, pc'[r] = "created"
             PROVE  orders'[OrderOf(r)'].awb # Null
  BY DEF CreatedIsKept
<1>1. TypeInv /\ OrderOf(r)' = OrderOf(r) /\ OrderOf(r) \in OrderIds
  BY Monotone, TaskFacts DEF SafetyInv, TypeInv, TypeOK, OrderOf
<1>2. CASE Waits(r)
  <2>1. orders[OrderOf(r)].awb # Null
    BY <1>2 DEF Waits, SafetyInv, CreatedIsKept
  <2>2. QED
    BY <1>1, <2>1, Monotone, RowValues
<1>3. CASE Ends(r)
  <2>1. SaveCreated(r)
    BY <1>3 DEF Ends
  <2>2. AdapterOf(r) \in Couriers
    BY <1>1, <2>1, AdapterFacts DEF SaveCreated
  <2>3. RowUpdated(OrderOf(r), "CREATED", AdapterOf(r))
    BY <1>1, <2>1, <2>2, MarkShipmentCreated DEF SaveCreated, TypeInv, TypeOK
  <2>4. QED
    BY <1>1, <2>2, <2>3, ConstantsAssumption DEF RowUpdated
<1>4. QED
  BY <1>1, <1>2, <1>3, RequestStep, PlaceValues DEF Starts, Repeats, IsAnswered

LEMMA NextSafety == SafetyInv /\ [Next]_vars => SafetyInv'
<1> SUFFICES ASSUME SafetyInv, [Next]_vars PROVE SafetyInv'
  OBVIOUS
<1>1. TypeInv'
  BY NextTypeInv DEF SafetyInv
<1>2. QED
  BY <1>1, NextRepliesBacked, NextLateHaveRows, NextAwbBacked, NextInsertBeforeCall,
     NextReconciliationBacked, NextCreatedIsKept DEF SafetyInv

LEMMA SafetyHolds == Spec => []SafetyInv
BY InitSafety, NextSafety, PTL DEF Spec

(* Every AWB on a row is one the courier behind it has on its books.        *)
THEOREM AwbsAreBacked == Spec => []AwbBacked
<1>1. SafetyInv => AwbBacked
  BY DEF SafetyInv
<1>2. QED
  BY SafetyHolds, <1>1, PTL

(* No courier ever has a shipment this system has no row for.               *)
THEOREM NoUnknownShipment == Spec => []InsertBeforeCall
<1>1. SafetyInv => InsertBeforeCall
  BY DEF SafetyInv
<1>2. QED
  BY SafetyHolds, <1>1, PTL

(* An order parked for reconciliation is on the books of a courier.         *)
THEOREM NoFalseReconciliation == Spec => []ReconciliationBacked
<1>1. SafetyInv => ReconciliationBacked
  BY DEF SafetyInv
<1>2. QED
  BY SafetyHolds, <1>1, PTL

(* An order whose creation was answered 201 has an AWB for ever.            *)
THEOREM CreatedForEver == Spec => []CreatedIsKept
<1>1. SafetyInv => CreatedIsKept
  BY DEF SafetyInv
<1>2. QED
  BY SafetyHolds, <1>1, PTL

-----------------------------------------------------------------------------
(* Partners that clients name *)

(* Whatever reaches a courier about an order was asked of a partner that a  *)
(* client named for it.                                                     *)
NamedInv ==
  /\ \A o \in OrderIds : orders[o] # NoRow => orders[o].courier \in Named[o]
  /\ \A r \in Requests :
       /\ Is(r, "create") => task[r].courier \in Named[OrderOf(r)]
       /\ pc[r] = "call" => seen[r].courier \in Named[OrderOf(r)]
  /\ \A m \in late : m.courier \in Named[m.order]
  /\ \A c \in Couriers, o \in OrderIds : ledger[c][o] # "none" => c \in Named[o]

LEMMA NamedAdapter ==
  ASSUME NamedInv, NEW r \in Requests, pc[r] = "call"
  PROVE  AdapterOf(r) \in Named[OrderOf(r)]
BY DEF NamedInv, AdapterOf

LEMMA InitNamed == Init => NamedInv
BY DEF Init, NamedInv, Is, OrderOf

LEMMA NextNamed ==
  ASSUME SafetyInv, NamedInv, [Next]_vars
  PROVE  NamedInv'
<1>1. TypeInv /\ task' = task /\ ledger \in Ledger
  BY Monotone DEF SafetyInv, TypeInv, TypeOK, Ledger
<1>2. ASSUME NEW o \in OrderIds, orders'[o] # NoRow
      PROVE  orders'[o].courier \in Named[o]
  <2>1. CASE orders[o] # NoRow
    BY <1>1, <2>1, Monotone DEF NamedInv
  <2>2. CASE orders[o] = NoRow
    <3>1. ASSUME NEW r \in Requests, InsertPending(r)
          PROVE  orders'[o].courier \in Named[o]
      <4>1. o = OrderOf(r) /\ task[r].courier \in Couriers
        BY <1>1, <1>2, <2>2, <3>1, ConstantsAssumption DEF InsertPending, TypeInv, TypeOK
      <4>2. orders'[o] = PendingRow(task[r].courier)
        BY <1>1, <3>1, <4>1 DEF InsertPending, TypeInv, TypeOK
      <4>3. QED
        BY <3>1, <4>1, <4>2, RowValues DEF InsertPending, NamedInv
    <3>2. ASSUME NEW r \in Requests, NEW status \in RowStatus, NEW awb \in Couriers \cup {Null},
                 Writes(r, status, awb)
          PROVE  FALSE
      <4>1. o = OrderOf(r)
        BY <1>2, <2>2, <3>2 DEF Writes, RowUpdated
      <4>2. QED
        BY <1>1, <2>2, <3>2, <4>1 DEF Writes, TypeInv, CallsHaveRows
    <3>3. QED
      BY <1>1, <1>2, <2>2, <3>1, <3>2, OrdersStep
  <2>3. QED
    BY <2>1, <2>2
<1>3. ASSUME NEW r \in Requests, pc'[r] = "call"
      PROVE  seen'[r].courier \in Named[OrderOf(r)]
  <2>1. CASE Starts(r)
    <3>1. OrderOf(r) \in OrderIds
      BY <1>1, TaskFacts DEF TypeInv, TypeOK
    <3>2. QED
      BY <1>2, <1>3, <2>1, <3>1 DEF Starts
  <2>2. CASE Waits(r) \/ Repeats(r) \/ IsAnswered(r)
    BY <1>3, <2>2 DEF Waits, Repeats, IsAnswered, InFlight, NamedInv
  <2>3. CASE Ends(r)
    BY <1>3, <2>3, PlaceValues DEF Ends
  <2>4. QED
    BY <1>1, <2>1, <2>2, <2>3, RequestStep
<1>4. ASSUME NEW m \in late'
      PROVE  m.courier \in Named[m.order]
  <2>1. ASSUME NEW r \in Requests, pc[r] = "call", m \in MessagesOf(r)
        PROVE  m.courier \in Named[m.order]
    <3>1. m.courier = AdapterOf(r) /\ m.order = OrderOf(r)
      BY <2>1 DEF MessagesOf
    <3>2. QED
      BY <2>1, <3>1, NamedAdapter
  <2>2. QED
    BY <1>1, <1>4, <2>1, LateStep DEF NamedInv
<1>5. ASSUME NEW c \in Couriers, NEW o \in OrderIds, ledger'[c][o] # "none"
      PROVE  c \in Named[o]
  <2>1. CASE ledger[c][o] # "none"
    BY <2>1 DEF NamedInv
  <2>2. CASE ledger[c][o] = "none"
    <3>1. Asked(c, o)
      BY <1>1, <1>5, <2>2, LedgerStep, LedgerUpdate DEF Allows
    <3>2. QED
      BY <3>1, NamedAdapter DEF Asked, NamedInv
  <2>3. QED
    BY <2>1, <2>2
<1>6. QED
  BY <1>1, <1>2, <1>3, <1>4, <1>5 DEF NamedInv, Is, OrderOf

LEMMA NamedHolds == Spec => [](SafetyInv /\ NamedInv)
<1>1. Init => SafetyInv /\ NamedInv
  BY InitSafety, InitNamed
<1>2. SafetyInv /\ NamedInv /\ [Next]_vars => (SafetyInv /\ NamedInv)'
  BY NextSafety, NextNamed
<1>3. QED
  BY <1>1, <1>2, PTL DEF Spec

-----------------------------------------------------------------------------
(* Only the couriers that creates called ship *)

Called(c, o) == \E r \in Requests : Asks(r, c, o)

(* Rows, the copies of rows that calls hold, and abandoned calls all name   *)
(* couriers that a create has called.                                       *)
AskedInv ==
  /\ \A o \in OrderIds : orders[o] # NoRow => Called(orders[o].courier, o)
  /\ \A r \in Requests :
       pc[r] = "call" => attempt[r] > 0 /\ Called(seen[r].courier, OrderOf(r))
  /\ \A m \in late : Called(m.courier, m.order)
  /\ ShipsWhereAsked

LEMMA AskedAdapter ==
  ASSUME TypeInv, AskedInv, NEW r \in Requests, pc[r] = "call"
  PROVE  Called(AdapterOf(r), OrderOf(r))
BY DEF AskedInv, AdapterOf, Called, Asks

LEMMA InitAsked == Init => AskedInv
BY DEF Init, AskedInv, ShipsWhereAsked

(* Attempts are counted, never forgotten, and a call under way is one.      *)
LEMMA AttemptStep ==
  ASSUME TypeInv, [Next]_vars, NEW q \in Requests
  PROVE  /\ attempt[q] > 0 => attempt'[q] > 0
         /\ pc'[q] = "call" => attempt'[q] > 0 \/ pc[q] = "call"
<1>1. attempt[q] \in Nat /\ attempt \in [Requests -> 0..MaxAttempts] /\ pc \in [Requests -> Places]
  BY ConstantsAssumption DEF TypeInv, TypeOK
<1>2. ASSUME NEW r \in Requests, Begin(r) \/ ReadBack(r)
      PROVE  /\ attempt[q] > 0 => attempt'[q] > 0
             /\ pc'[q] = "call" => attempt'[q] > 0 \/ pc[q] = "call"
  <2>1. ASSUME NEW row, Call(r, row)
        PROVE  /\ attempt[q] > 0 => attempt'[q] > 0
               /\ pc'[q] = "call" => attempt'[q] > 0 \/ pc[q] = "call"
    BY <1>1, <2>1 DEF Call
  <2>2. ASSUME NEW outcome \in Outcomes, AnswerAtOnce(r, outcome)
        PROVE  /\ attempt[q] > 0 => attempt'[q] > 0
               /\ pc'[q] = "call" => attempt'[q] > 0 \/ pc[q] = "call"
    BY <1>1, <2>2, PlaceValues DEF AnswerAtOnce, Answer
  <2>3. CASE InsertConflict(r)
    BY <1>1, <2>3 DEF InsertConflict
  <2>4. QED
    BY <1>2, <2>1, <2>2, <2>3, PlaceValues
       DEF Begin, RefuseUnknownPartner, InsertPending, LoadForRetry, LoadForCancel,
           LoadForTrack, ReadBack
<1>3. ASSUME NEW r \in Requests, CallAgain(r)
      PROVE  /\ attempt[q] > 0 => attempt'[q] > 0
             /\ pc'[q] = "call" => attempt'[q] > 0 \/ pc[q] = "call"
  BY <1>1, <1>3 DEF CallAgain
<1>4. ASSUME NEW r \in Requests, Handle(r) \/ Die(r), ~ReadBack(r), ~CallAgain(r)
      PROVE  attempt' = attempt /\ (pc'[q] = "call" => pc[q] = "call")
  BY <1>1, <1>4, PlaceValues
     DEF Handle, SaveCreated, SaveFailed, SaveCancelled, SaveTracked, ReportRejection, GiveUp,
         Die, Settle, Answer
<1>5. ASSUME \/ \E r \in Requests : Courier(r)
             \/ \E m \in late : LateDelivery(m)
             \/ \E c \in Couriers, o \in OrderIds : PickUp(c, o)
             \/ UNCHANGED vars
      PROVE  attempt' = attempt /\ pc' = pc
  BY <1>5 DEF Courier, CourierBooks, CourierRefuses, CourierCancels, CourierReports,
              CourierRejects, LateDelivery, PickUp, vars
<1>6. QED
  BY <1>2, <1>3, <1>4, <1>5 DEF Next, Handle

LEMMA CalledStep ==
  ASSUME TypeInv, [Next]_vars, NEW c, NEW o, Called(c, o)
  PROVE  Called(c, o)'
BY Monotone, AttemptStep DEF Called, Asks, Is, OrderOf

LEMMA NextAsked ==
  ASSUME SafetyInv, AskedInv, [Next]_vars
  PROVE  AskedInv'
<1>1. TypeInv /\ task' = task /\ ledger \in Ledger
  BY Monotone DEF SafetyInv, TypeInv, TypeOK, Ledger
<1>2. ASSUME NEW r \in Requests, pc'[r] = "call"
      PROVE  attempt'[r] > 0
  BY <1>1, <1>2, AttemptStep DEF AskedInv
<1>3. ASSUME NEW o \in OrderIds, orders'[o] # NoRow, NEW c, c = orders'[o].courier
      PROVE  Called(c, o)'
  <2>1. CASE orders[o] # NoRow
    <3>1. Called(c, o)
      BY <1>1, <1>3, <2>1, Monotone DEF AskedInv
    <3>2. QED
      BY <1>1, <3>1, CalledStep
  <2>2. CASE orders[o] = NoRow
    <3>1. ASSUME NEW r \in Requests, InsertPending(r)
          PROVE  Called(c, o)'
      <4>1. o = OrderOf(r) /\ task[r].courier \in Couriers
        BY <1>1, <1>3, <2>2, <3>1, ConstantsAssumption DEF InsertPending, TypeInv, TypeOK
      <4>2. c = task[r].courier
        BY <1>1, <1>3, <3>1, <4>1, RowValues DEF InsertPending, TypeInv, TypeOK
      <4>3. Is(r, "create") /\ pc'[r] = "call"
        BY <1>1, <3>1 DEF InsertPending, Call, TypeInv, TypeOK
      <4>4. Asks(r, c, o)'
        BY <1>1, <1>2, <4>1, <4>2, <4>3 DEF Asks, Is, OrderOf
      <4>5. QED
        BY <4>4 DEF Called
    <3>2. ASSUME NEW r \in Requests, NEW status \in RowStatus, NEW awb \in Couriers \cup {Null},
                 Writes(r, status, awb)
          PROVE  FALSE
      <4>1. o = OrderOf(r)
        BY <1>3, <2>2, <3>2 DEF Writes, RowUpdated
      <4>2. QED
        BY <1>1, <2>2, <3>2, <4>1 DEF Writes, TypeInv, CallsHaveRows
    <3>3. QED
      BY <1>1, <1>3, <2>2, <3>1, <3>2, OrdersStep
  <2>3. QED
    BY <2>1, <2>2
<1>4. ASSUME NEW r \in Requests, pc'[r] = "call", NEW c, c = seen'[r].courier
      PROVE  Called(c, OrderOf(r))'
  <2>1. CASE Starts(r)
    <3>1. OrderOf(r) \in OrderIds
      BY <1>1, TaskFacts DEF TypeInv, TypeOK
    <3>2. orders'[OrderOf(r)] # NoRow /\ seen'[r] = orders'[OrderOf(r)]
      BY <1>4, <2>1 DEF Starts
    <3>3. OrderOf(r)' = OrderOf(r)
      BY <1>1 DEF OrderOf
    <3>4. QED
      BY <1>3, <1>4, <3>1, <3>2, <3>3
  <2>2. CASE Waits(r) \/ Repeats(r) \/ IsAnswered(r)
    <3>1. pc[r] = "call" /\ seen'[r] = seen[r]
      BY <1>4, <2>2 DEF Waits, Repeats, IsAnswered, InFlight
    <3>2. Called(c, OrderOf(r))
      BY <1>4, <3>1 DEF AskedInv
    <3>3. OrderOf(r)' = OrderOf(r)
      BY <1>1 DEF OrderOf
    <3>4. QED
      BY <1>1, <3>2, <3>3, CalledStep
  <2>3. CASE Ends(r)
    BY <1>4, <2>3, PlaceValues DEF Ends
  <2>4. QED
    BY <1>1, <2>1, <2>2, <2>3, RequestStep
<1>5. ASSUME NEW m \in late'
      PROVE  Called(m.courier, m.order)'
  <2>1. ASSUME NEW r \in Requests, pc[r] = "call", m \in MessagesOf(r)
        PROVE  Called(m.courier, m.order)
    <3>1. m.courier = AdapterOf(r) /\ m.order = OrderOf(r)
      BY <2>1 DEF MessagesOf
    <3>2. QED
      BY <1>1, <2>1, <3>1, AskedAdapter
  <2>2. Called(m.courier, m.order)
    BY <1>1, <1>5, <2>1, LateStep DEF AskedInv
  <2>3. QED
    BY <1>1, <2>2, CalledStep
<1>6. ASSUME NEW c \in Couriers, NEW o \in OrderIds, ledger'[c][o] # "none"
      PROVE  Called(c, o)'
  <2>1. CASE ledger[c][o] # "none"
    <3>1. Called(c, o)
      BY <2>1 DEF AskedInv, ShipsWhereAsked, Called
    <3>2. QED
      BY <1>1, <3>1, CalledStep
  <2>2. CASE ledger[c][o] = "none"
    <3>1. Asked(c, o)
      BY <1>1, <1>6, <2>2, LedgerStep, LedgerUpdate DEF Allows
    <3>2. Called(c, o)
      BY <1>1, <3>1, AskedAdapter DEF Asked, AskedInv
    <3>3. QED
      BY <1>1, <3>2, CalledStep
  <2>3. QED
    BY <2>1, <2>2
<1>7. QED
  BY <1>1, <1>2, <1>3, <1>4, <1>5, <1>6 DEF AskedInv, ShipsWhereAsked, Called, OrderOf

(* A courier has an order on its books only if a create naming that courier *)
(* reached its call, whatever partners clients name and however requests    *)
(* overlap, fail, repeat and are handled late.                              *)
THEOREM OrdersShipWhereAsked == Spec => []ShipsWhereAsked
<1>1. Init => SafetyInv /\ AskedInv
  BY InitSafety, InitAsked
<1>2. SafetyInv /\ AskedInv /\ [Next]_vars => (SafetyInv /\ AskedInv)'
  BY NextSafety, NextAsked
<1>3. SafetyInv /\ AskedInv => ShipsWhereAsked
  BY DEF AskedInv
<1>4. QED
  BY <1>1, <1>2, <1>3, PTL DEF Spec

-----------------------------------------------------------------------------
(* Clients that keep to one partner per order *)

SinglePartner == \A o \in OrderIds : \A c, d \in Named[o] : c = d

LEMMA AwbStep ==
  ASSUME SinglePartner, SafetyInv, NamedInv, [Next]_vars,
         NEW o \in OrderIds, orders[o].awb # Null
  PROVE  orders'[o].awb = orders[o].awb
<1>1. TypeInv /\ AwbBacked' /\ NamedInv'
  BY NextAwbBacked, NextNamed DEF SafetyInv
<1>2. orders[o].awb \in Named[o]
  BY DEF SafetyInv, AwbBacked, NamedInv
<1>3. orders'[o].awb # Null
  BY <1>1, Monotone, RowValues
<1>4. orders'[o].awb \in Named[o]
  BY <1>1, <1>3 DEF AwbBacked, NamedInv
<1>5. QED
  BY <1>2, <1>4 DEF SinglePartner

(* Under that discipline, which the code does not enforce, a row never      *)
(* loses or changes its AWB.                                                *)
THEOREM AwbNeverChanges ==
  ASSUME SinglePartner
  PROVE  Spec => AwbStable
<1>1. SafetyInv /\ NamedInv /\ [Next]_vars =>
        [\A o \in OrderIds : orders[o].awb # Null => orders'[o].awb = orders[o].awb]_vars
  BY AwbStep, SinglePartner
<1>2. QED
  BY <1>1, NamedHolds, PTL DEF Spec, AwbStable

=============================================================================
