---------------------------- MODULE OrderService ----------------------------
(***************************************************************************)
(* The life of an order row: POST /orders (create), POST /orders/:id/retry,*)
(* POST /orders/:id/cancel and GET /orders/:id/track, each a request that  *)
(* interleaves with the others at every database statement and every call  *)
(* to a courier.                                                           *)
(*                                                                         *)
(*   orders   the orders table: a row per order id, NoRow before insertion *)
(*   ledger   what each courier has booked under each order number         *)
(*   task     what each request asks for: kind, order id, courier partner  *)
(*   pc       where each request is; a member of Outcomes once answered    *)
(*   seen     the OrderRow a request holds since it last read the table    *)
(*   attempt  the retry decorator's attempt number of the call in flight   *)
(*   reply    the courier's answer, "none" while it has not answered       *)
(*   late     calls whose caller stopped waiting before they were handled: *)
(*            the courier may still handle them                            *)
(*                                                                         *)
(* An AWB is represented by the courier that issued it: couriers dedupe on *)
(* the order number, so there is one AWB per courier and order.            *)
(***************************************************************************)
EXTENDS Naturals

CONSTANTS
  OrderIds,       \* business order ids
  Couriers,       \* the courier_partner names a client may send
  Registered,     \* the couriers in the registry
  SupportsCancel, \* the couriers whose capabilities allow cancellation
  Named,          \* Named[o]: the partners clients name for o over time
  Requests,       \* the HTTP requests of a behaviour
  MaxAttempts,    \* RetryOptions.attempts
  Overlap,        \* may two creates or retries of one order overlap?
  Null            \* SQL null

ASSUME ConstantsAssumption ==
  /\ Registered \subseteq Couriers
  /\ SupportsCancel \subseteq Registered
  /\ Named \in [OrderIds -> SUBSET Couriers]
  /\ MaxAttempts \in Nat \ {0}
  /\ Overlap \in BOOLEAN
  /\ Null \notin Couriers

VARIABLES orders, ledger, task, pc, seen, attempt, reply, late

vars == <<orders, ledger, task, pc, seen, attempt, reply, late>>

-----------------------------------------------------------------------------
(* Values *)

(* What a courier may say of a shipment. IN_TRANSIT stands for every status *)
(* after pickup, UNKNOWN is any code the adapter has no mapping for.        *)
Booked    == {"CREATED", "IN_TRANSIT", "CANCELLED"}
Bookings  == Booked \cup {"none"}
Reports   == Booked \cup {"UNKNOWN"}
RowStatus == Reports \cup {"ABSENT", "PENDING", "FAILED", "RECONCILIATION_REQUIRED"}

Row == [courier : Couriers \cup {Null}, status : RowStatus,
        awb : Couriers \cup {Null}, tracked : BOOLEAN]

NoRow == [courier |-> Null, status |-> "ABSENT", awb |-> Null, tracked |-> FALSE]

PendingRow(c) == [courier |-> c, status |-> "PENDING", awb |-> Null, tracked |-> FALSE]

Dispatching == {"create", "retry"}

(* Only a create names a partner.                                           *)
Tasks ==
  [kind : {"create"}, order : OrderIds, courier : Couriers]
    \cup [kind : {"retry", "cancel", "track"}, order : OrderIds, courier : {Null}]

(* How a request ends. "refused" and "failed" are error answers, before and *)
(* after a call; "died" is no answer at all.                                *)
Outcomes == {"created", "replayed", "cancelled", "tracked", "refused", "failed", "died"}

Places == {"idle", "readBack", "call"} \cup Outcomes

Replies == {"none", "ok", "duplicate", "rejected"} \cup Reports

isCancellable(status) == status = "CREATED"

-----------------------------------------------------------------------------
(* Helpers *)

OrderOf(r) == task[r].order

Is(r, kind) == task[r].kind = kind

(* Mutant: a retry of a failed order goes to another registered courier.    *)
FailoverAdapterOf(r) ==
  CASE Is(r, "create") -> task[r].courier
    [] Is(r, "retry") /\ seen[r].status = "FAILED" ->
         CHOOSE c \in Registered : c # seen[r].courier
    [] OTHER -> seen[r].courier

(* create uses the adapter of the partner the request names; the others use *)
(* the adapter of the courier on the row.                                   *)
AdapterOf(r) == IF Is(r, "create") THEN task[r].courier ELSE seen[r].courier

Answered(r) == pc[r] \in Outcomes

Active(r) == pc[r] \in {"readBack", "call"}

(* Clients that wait for one create or retry of an order to end before they *)
(* send the next (Overlap is FALSE), or do not (Overlap is TRUE).           *)
Turn(r) ==
  Overlap \/ \A q \in Requests \ {r} :
               ~(Active(q) /\ task[q].kind \in Dispatching /\ OrderOf(q) = OrderOf(r))

Answer(r, outcome) == pc' = [pc EXCEPT ![r] = outcome]

(* A request that goes ahead with the row it holds makes its first call.    *)
Call(r, row) ==
  /\ pc' = [pc EXCEPT ![r] = "call"]
  /\ seen' = [seen EXCEPT ![r] = row]
  /\ attempt' = [attempt EXCEPT ![r] = 1]
  /\ UNCHANGED <<reply, late>>

(* A request answered without a call.                                       *)
AnswerAtOnce(r, outcome) ==
  /\ Answer(r, outcome)
  /\ UNCHANGED <<seen, attempt, reply, late>>

Messages == [op : {"book", "cancel"}, courier : Couriers, order : OrderIds]

(* The calls of a request that change something at a courier: a booking, or *)
(* a cancellation that names an AWB the courier knows.                      *)
MessagesOf(r) ==
  IF task[r].kind \in Dispatching
    THEN {[op |-> "book", courier |-> AdapterOf(r), order |-> OrderOf(r)]}
    ELSE IF Is(r, "cancel") /\ seen[r].awb = AdapterOf(r)
           THEN {[op |-> "cancel", courier |-> AdapterOf(r), order |-> OrderOf(r)]}
           ELSE {}

(* The caller stops waiting: a call the courier has not handled is not      *)
(* withdrawn.                                                               *)
Abandon(r) ==
  late' = IF reply[r] = "none" THEN late \cup MessagesOf(r) ELSE late

markShipmentCreated(o, awb) ==
  orders' = [orders EXCEPT ![o].awb = awb, ![o].status = "CREATED"]

(* Mutant: a failure clears the columns of the shipment.                    *)
markFailedClearsAwb(o, status) ==
  orders' = [orders EXCEPT ![o].status = status, ![o].awb = Null]

markFailed(o, status) == orders' = [orders EXCEPT ![o].status = status]

markTracked(o, status) ==
  orders' = [orders EXCEPT ![o].status = status, ![o].tracked = TRUE]

(* Mutant: an order that leaves the courier's hands loses its AWB.          *)
updateStatusClearsAwb(o, status) ==
  orders' = [orders EXCEPT ![o].status = status, ![o].awb = Null]

updateStatus(o, status) == orders' = [orders EXCEPT ![o].status = status]

-----------------------------------------------------------------------------
(* POST /orders up to the courier call *)

RefuseUnknownPartner(r) ==
  /\ pc[r] = "idle" /\ Is(r, "create")
  /\ task[r].courier \notin Registered
  /\ AnswerAtOnce(r, "refused")
  /\ UNCHANGED <<orders, ledger, task>>

(* Mutant: the row is written only once the courier has answered.           *)
InsertAfterCall(r) ==
  /\ pc[r] = "idle" /\ Is(r, "create") /\ Turn(r)
  /\ task[r].courier \in Registered
  /\ orders[OrderOf(r)] = NoRow
  /\ Call(r, PendingRow(task[r].courier))
  /\ UNCHANGED <<orders, ledger, task>>

(* INSERT ... ON CONFLICT DO NOTHING RETURNING gave a row back.             *)
InsertPending(r) ==
  /\ pc[r] = "idle" /\ Is(r, "create") /\ Turn(r)
  /\ task[r].courier \in Registered
  /\ orders[OrderOf(r)] = NoRow
  /\ orders' = [orders EXCEPT ![OrderOf(r)] = PendingRow(task[r].courier)]
  /\ Call(r, PendingRow(task[r].courier))
  /\ UNCHANGED <<ledger, task>>

(* The insert conflicted: the existing row is read by a second statement.   *)
InsertConflict(r) ==
  /\ pc[r] = "idle" /\ Is(r, "create") /\ Turn(r)
  /\ task[r].courier \in Registered
  /\ orders[OrderOf(r)] # NoRow
  /\ pc' = [pc EXCEPT ![r] = "readBack"]
  /\ UNCHANGED <<orders, ledger, task, seen, attempt, reply, late>>

(* Mutant: an existing row is re-driven whatever its status.                *)
ReadBackRedrivesAll(r) ==
  /\ pc[r] = "readBack"
  /\ Call(r, orders[OrderOf(r)])
  /\ UNCHANGED <<orders, ledger, task>>

ReadBack(r) ==
  /\ pc[r] = "readBack"
  /\ LET row == orders[OrderOf(r)] IN
       \/ row.status # "PENDING" /\ AnswerAtOnce(r, "replayed")
       \/ row.status = "PENDING" /\ Call(r, row)
  /\ UNCHANGED <<orders, ledger, task>>

-----------------------------------------------------------------------------
(* The other requests up to the courier call *)

(* Mutant: retry looks at the status only, not at the AWB.                  *)
LoadForRetryIgnoresAwb(r) ==
  /\ pc[r] = "idle" /\ Is(r, "retry") /\ Turn(r)
  /\ LET row == orders[OrderOf(r)] IN
       IF row = NoRow \/ row.status = "RECONCILIATION_REQUIRED"
         THEN AnswerAtOnce(r, "refused")
         ELSE Call(r, row)
  /\ UNCHANGED <<orders, ledger, task>>

LoadForRetry(r) ==
  /\ pc[r] = "idle" /\ Is(r, "retry") /\ Turn(r)
  /\ LET row == orders[OrderOf(r)] IN
       \/ row = NoRow /\ AnswerAtOnce(r, "refused")
       \/ row.awb # Null /\ AnswerAtOnce(r, "replayed")
       \/ /\ row # NoRow /\ row.awb = Null
          /\ row.status = "RECONCILIATION_REQUIRED"
          /\ AnswerAtOnce(r, "refused")
       \/ /\ row # NoRow /\ row.awb = Null
          /\ row.status # "RECONCILIATION_REQUIRED"
          /\ Call(r, row)
  /\ UNCHANGED <<orders, ledger, task>>

LoadForCancel(r) ==
  /\ pc[r] = "idle" /\ Is(r, "cancel")
  /\ LET row == orders[OrderOf(r)]
         allowed == /\ row.awb # Null
                    /\ isCancellable(row.status)
                    /\ row.courier \in SupportsCancel
     IN \/ ~allowed /\ AnswerAtOnce(r, "refused")
        \/ allowed /\ Call(r, row)
  /\ UNCHANGED <<orders, ledger, task>>

(* Inside TRACKING_TTL_SECONDS of the last refresh the database answers;    *)
(* the clock is left out, so a row that was ever tracked may be fresh.      *)
LoadForTrack(r) ==
  /\ pc[r] = "idle" /\ Is(r, "track")
  /\ LET row == orders[OrderOf(r)] IN
       \/ row.awb = Null /\ AnswerAtOnce(r, "refused")
       \/ row.awb # Null /\ row.tracked /\ AnswerAtOnce(r, "replayed")
       \/ row.awb # Null /\ Call(r, row)
  /\ UNCHANGED <<orders, ledger, task>>

-----------------------------------------------------------------------------
(* The couriers (external): an order number is booked at most once, an AWB  *)
(* that was issued by another courier is not found.                         *)

InFlight(r) == pc[r] = "call" /\ reply[r] = "none"

(* A booking is confirmed, or answered by a body the adapter cannot read.   *)
CourierBooks(r) ==
  /\ InFlight(r) /\ task[r].kind \in Dispatching
  /\ ledger[AdapterOf(r)][OrderOf(r)] = "none"
  /\ ledger' = [ledger EXCEPT ![AdapterOf(r)][OrderOf(r)] = "CREATED"]
  /\ \E answer \in {"ok", "rejected"} : reply' = [reply EXCEPT ![r] = answer]
  /\ UNCHANGED <<orders, task, pc, seen, attempt, late>>

(* A courier that has the order number says so; any courier may refuse.     *)
CourierRefuses(r) ==
  /\ InFlight(r) /\ task[r].kind \in Dispatching
  /\ \E answer \in {"duplicate", "rejected"} :
       /\ answer = "duplicate" => ledger[AdapterOf(r)][OrderOf(r)] # "none"
       /\ reply' = [reply EXCEPT ![r] = answer]
  /\ UNCHANGED <<orders, ledger, task, pc, seen, attempt, late>>

CourierCancels(r) ==
  /\ InFlight(r) /\ Is(r, "cancel")
  /\ seen[r].awb = AdapterOf(r)
  /\ ledger[AdapterOf(r)][OrderOf(r)] = "CREATED"
  /\ ledger' = [ledger EXCEPT ![AdapterOf(r)][OrderOf(r)] = "CANCELLED"]
  /\ \E answer \in {"ok", "rejected"} : reply' = [reply EXCEPT ![r] = answer]
  /\ UNCHANGED <<orders, task, pc, seen, attempt, late>>

CourierReports(r) ==
  /\ InFlight(r) /\ Is(r, "track")
  /\ seen[r].awb = AdapterOf(r)
  /\ \E answer \in {ledger[AdapterOf(r)][OrderOf(r)], "UNKNOWN"} :
       reply' = [reply EXCEPT ![r] = answer]
  /\ UNCHANGED <<orders, ledger, task, pc, seen, attempt, late>>

CourierRejects(r) ==
  /\ InFlight(r) /\ task[r].kind \notin Dispatching
  /\ reply' = [reply EXCEPT ![r] = "rejected"]
  /\ UNCHANGED <<orders, ledger, task, pc, seen, attempt, late>>

(* A call its caller gave up on reaches the courier after all.              *)
LateDelivery(m) ==
  /\ m \in late
  /\ late' = late \ {m}
  /\ \/ /\ m.op = "book" /\ ledger[m.courier][m.order] = "none"
        /\ ledger' = [ledger EXCEPT ![m.courier][m.order] = "CREATED"]
     \/ /\ m.op = "cancel" /\ ledger[m.courier][m.order] = "CREATED"
        /\ ledger' = [ledger EXCEPT ![m.courier][m.order] = "CANCELLED"]
  /\ UNCHANGED <<orders, task, pc, seen, attempt, reply>>

PickUp(c, o) ==
  /\ ledger[c][o] = "CREATED"
  /\ ledger' = [ledger EXCEPT ![c][o] = "IN_TRANSIT"]
  /\ UNCHANGED <<orders, task, pc, seen, attempt, reply, late>>

-----------------------------------------------------------------------------
(* The answer is handled *)

Settle(r, outcome) ==
  /\ Answer(r, outcome)
  /\ UNCHANGED <<ledger, task, seen, attempt, reply, late>>

(* Mutant: a 200 whose body reports a failure is taken for a shipment.      *)
SaveCreatedOnAny200(r) ==
  /\ pc[r] = "call" /\ task[r].kind \in Dispatching /\ reply[r] \in {"ok", "rejected"}
  /\ markShipmentCreated(OrderOf(r), AdapterOf(r))
  /\ Settle(r, "created")

(* dispatch: the adapter returned a shipment.                               *)
SaveCreated(r) ==
  /\ pc[r] = "call" /\ task[r].kind \in Dispatching /\ reply[r] = "ok"
  /\ markShipmentCreated(OrderOf(r), AdapterOf(r))
  /\ Settle(r, "created")

(* Mutant: every refusal is filed under reconciliation.                     *)
SaveFailedAlwaysParks(r) ==
  /\ pc[r] = "call" /\ task[r].kind \in Dispatching
  /\ reply[r] \in {"duplicate", "rejected"}
  /\ markFailed(OrderOf(r), "RECONCILIATION_REQUIRED")
  /\ Settle(r, "failed")

(* dispatch: the adapter threw an AppError that is not retryable.           *)
SaveFailed(r) ==
  /\ pc[r] = "call" /\ task[r].kind \in Dispatching
  /\ reply[r] \in {"duplicate", "rejected"}
  /\ markFailed(OrderOf(r), IF reply[r] = "duplicate"
                              THEN "RECONCILIATION_REQUIRED" ELSE "FAILED")
  /\ Settle(r, "failed")

(* Mutant: a refused cancellation is taken for one that already happened.   *)
SaveCancelledOnAnyAnswer(r) ==
  /\ pc[r] = "call" /\ Is(r, "cancel") /\ reply[r] \in {"ok", "rejected"}
  /\ updateStatus(OrderOf(r), "CANCELLED")
  /\ Settle(r, "cancelled")

SaveCancelled(r) ==
  /\ pc[r] = "call" /\ Is(r, "cancel") /\ reply[r] = "ok"
  /\ updateStatus(OrderOf(r), "CANCELLED")
  /\ Settle(r, "cancelled")

SaveTracked(r) ==
  /\ pc[r] = "call" /\ Is(r, "track") /\ reply[r] \in Reports
  /\ markTracked(OrderOf(r), reply[r])
  /\ Settle(r, "tracked")

(* cancel and track leave the row alone when the courier refuses.           *)
ReportRejection(r) ==
  /\ pc[r] = "call" /\ task[r].kind \notin Dispatching /\ reply[r] = "rejected"
  /\ Settle(r, "failed")
  /\ UNCHANGED orders

-----------------------------------------------------------------------------
(* The answer does not arrive *)

(* Mutant: one attempt too many.                                            *)
CallAgainOnceMore(r) ==
  /\ pc[r] = "call" /\ attempt[r] <= MaxAttempts
  /\ attempt' = [attempt EXCEPT ![r] = @ + 1]
  /\ Abandon(r)
  /\ reply' = [reply EXCEPT ![r] = "none"]
  /\ UNCHANGED <<orders, ledger, task, pc, seen>>

(* Mutant: the attempt is not counted.                                      *)
CallAgainUncounted(r) ==
  /\ pc[r] = "call" /\ attempt[r] < MaxAttempts
  /\ Abandon(r)
  /\ reply' = [reply EXCEPT ![r] = "none"]
  /\ UNCHANGED <<orders, ledger, task, pc, seen, attempt>>

(* Timeout, 429, 5xx or a broken connection, before or after the courier    *)
(* acted: the retry decorator calls again.                                  *)
CallAgain(r) ==
  /\ pc[r] = "call" /\ attempt[r] < MaxAttempts
  /\ attempt' = [attempt EXCEPT ![r] = @ + 1]
  /\ Abandon(r)
  /\ reply' = [reply EXCEPT ![r] = "none"]
  /\ UNCHANGED <<orders, ledger, task, pc, seen>>

(* Mutant: an error that was retryable is rethrown without being recorded.  *)
GiveUpUnrecorded(r) ==
  /\ pc[r] = "call" /\ attempt[r] = MaxAttempts
  /\ Abandon(r)
  /\ Answer(r, "failed")
  /\ UNCHANGED <<orders, ledger, task, seen, attempt, reply>>

(* The last attempt failed too: dispatch records FAILED, cancel and track   *)
(* only answer the error.                                                   *)
GiveUp(r) ==
  /\ pc[r] = "call" /\ attempt[r] = MaxAttempts
  /\ Abandon(r)
  /\ Answer(r, "failed")
  /\ IF task[r].kind \in Dispatching
       THEN markFailed(OrderOf(r), "FAILED")
       ELSE UNCHANGED orders
  /\ UNCHANGED <<ledger, task, seen, attempt, reply>>

(* The process dies, a database statement fails, or the response body times *)
(* out: nothing catches it, the row stays as it is.                         *)
Die(r) ==
  /\ Active(r)
  /\ IF pc[r] = "call" THEN Abandon(r) ELSE UNCHANGED late
  /\ Answer(r, "died")
  /\ UNCHANGED <<orders, ledger, task, seen, attempt, reply>>

-----------------------------------------------------------------------------
Init ==
  /\ orders = [o \in OrderIds |-> NoRow]
  /\ ledger = [c \in Couriers |-> [o \in OrderIds |-> "none"]]
  /\ task \in {t \in [Requests -> Tasks] :
                 \A r \in Requests :
                   t[r].kind = "create" => t[r].courier \in Named[t[r].order]}
  /\ pc = [r \in Requests |-> "idle"]
  /\ seen = [r \in Requests |-> NoRow]
  /\ attempt = [r \in Requests |-> 0]
  /\ reply = [r \in Requests |-> "none"]
  /\ late = {}

Begin(r) ==
  \/ RefuseUnknownPartner(r) \/ InsertPending(r) \/ InsertConflict(r)
  \/ LoadForRetry(r) \/ LoadForCancel(r) \/ LoadForTrack(r)

Handle(r) ==
  \/ ReadBack(r)
  \/ SaveCreated(r) \/ SaveFailed(r) \/ SaveCancelled(r) \/ SaveTracked(r)
  \/ ReportRejection(r)
  \/ CallAgain(r) \/ GiveUp(r)

Courier(r) ==
  \/ CourierBooks(r) \/ CourierRefuses(r) \/ CourierCancels(r)
  \/ CourierReports(r) \/ CourierRejects(r)

Next ==
  \/ \E r \in Requests : Begin(r) \/ Handle(r) \/ Courier(r) \/ Die(r)
  \/ \E m \in late : LateDelivery(m)
  \/ \E c \in Couriers, o \in OrderIds : PickUp(c, o)

Spec == Init /\ [][Next]_vars

(* A request that is being handled goes on: every call to a courier has a   *)
(* timeout, so it is answered or abandoned. Nothing is assumed of couriers  *)
(* or of the arrival of requests.                                           *)
Fairness == \A r \in Requests : WF_vars(Handle(r))

-----------------------------------------------------------------------------
(* Properties *)

TypeOK ==
  /\ orders \in [OrderIds -> Row]
  /\ ledger \in [Couriers -> [OrderIds -> Bookings]]
  /\ task \in [Requests -> Tasks]
  /\ pc \in [Requests -> Places]
  /\ seen \in [Requests -> Row]
  /\ attempt \in [Requests -> 0..MaxAttempts]
  /\ reply \in [Requests -> Replies]
  /\ late \subseteq Messages

(* An AWB on a row is always one a courier issued: the courier behind it    *)
(* has the order on its books, whatever was lost, repeated or overlapped on *)
(* the way (dispatch and markShipmentCreated).                              *)
AwbBacked ==
  \A o \in OrderIds :
    orders[o].awb # Null => /\ orders[o].awb \in Couriers
                            /\ ledger[orders[o].awb][o] # "none"

(* No courier holds a shipment this system has no row for: the row is       *)
(* inserted before the first call, so that a crash leaves evidence          *)
(* (DESIGN.md:162, insertPending before dispatch).                          *)
InsertBeforeCall ==
  \A c \in Couriers, o \in OrderIds :
    ledger[c][o] # "none" => orders[o] # NoRow

(* An order parked for manual reconciliation really is on the books of some *)
(* courier: the duplicate answer that parks it is never a false alarm       *)
(* (dispatch's catch block).                                                *)
ReconciliationBacked ==
  \A o \in OrderIds :
    orders[o].status = "RECONCILIATION_REQUIRED" =>
      \E c \in Couriers : ledger[c][o] # "none"

(* A request that was answered 201 stays true: its order keeps an AWB,      *)
(* whatever other requests do to the row afterwards.                        *)
CreatedIsKept ==
  \A r \in Requests :
    pc[r] = "created" => orders[OrderOf(r)].awb # Null

(* "The same order must never ship twice via different partners"            *)
(* (DESIGN.md:143).                                                         *)
OneShipmentPerOrder ==
  \A o \in OrderIds, c, d \in Couriers :
    ledger[c][o] # "none" /\ ledger[d][o] # "none" => c = d

(* A create that names courier c for order o and has made its first call.   *)
Asks(r, c, o) ==
  Is(r, "create") /\ OrderOf(r) = o /\ task[r].courier = c /\ attempt[r] > 0

(* A courier has an order on its books only if a create that names that     *)
(* courier for that order went as far as calling it: conflicts, retries,    *)
(* re-drives and calls handled late carry the order to nobody else          *)
(* (createOrder, retry, dispatch). Two couriers have it only if both were   *)
(* named.                                                                   *)
ShipsWhereAsked ==
  \A c \in Couriers, o \in OrderIds :
    ledger[c][o] # "none" => \E r \in Requests : Asks(r, c, o)

(* A row says CANCELLED only when the courier that issued its AWB cancelled *)
(* the shipment: cancel updates the row after the courier agreed, track     *)
(* only copies what the courier reports.                                    *)
CancelledBacked ==
  \A o \in OrderIds :
    orders[o].status = "CANCELLED" =>
      /\ orders[o].awb # Null
      /\ ledger[orders[o].awb][o] = "CANCELLED"

(* A row never loses its AWB or trades it for another one.                  *)
AwbStable ==
  [][\A o \in OrderIds :
       orders[o].awb # Null => orders'[o].awb = orders[o].awb]_vars

Contract == INSTANCE OrderContract WITH
  status <- [o \in OrderIds |-> orders[o].status],
  awb    <- [o \in OrderIds |-> orders[o].awb]

(* Whatever overlaps, dies, is lost, repeated or late, row and couriers'    *)
(* books change by the steps of OrderContract alone: an order ships once,   *)
(* to one courier, learns its AWB once, and what a refresh or cancellation  *)
(* writes is what the courier has, or had before it changed for the last    *)
(* time (dispatch, cancel, track).                                          *)
KeepsOrderContract == Contract!OSpec

(* A row has an AWB exactly when its status is one a courier reported; in   *)
(* particular a RECONCILIATION_REQUIRED order is one "without a known AWB"  *)
(* (order.service.ts:107), which is why retry may refuse it.                *)
StatusAgreesWithAwb ==
  \A o \in OrderIds :
    orders[o].awb # Null <=> orders[o].status \in Reports

(* A PENDING order nobody is working on is one "an earlier attempt died" on *)
(* (order.service.ts:34): a create or retry that lives to its answer always *)
(* takes the order out of PENDING. Rows a bulk submission reserved are      *)
(* PENDING with nobody dead; this module has none, BulkOrders has them.     *)
PendingMeansDied ==
  \A o \in OrderIds :
    orders[o].status = "PENDING" =>
      \E r \in Requests : /\ OrderOf(r) = o /\ task[r].kind \in Dispatching
                          /\ Active(r) \/ pc[r] = "died"

(* The half of StatusAgreesWithAwb the error text of retry promises.        *)
ReconciliationMeansNoAwb ==
  \A o \in OrderIds :
    orders[o].status = "RECONCILIATION_REQUIRED" => orders[o].awb = Null

(* A cancelled order changes status only when a refresh of its tracking     *)
(* that the courier answered otherwise is written on top.                   *)
CancellationUndoneOnlyByTrack ==
  [][\A o \in OrderIds :
       orders[o].status = "CANCELLED" /\ orders'[o].status # "CANCELLED" =>
         \E r \in Requests :
           /\ Is(r, "track") /\ OrderOf(r) = o
           /\ pc[r] = "call" /\ reply[r] \in Reports \ {"CANCELLED"}]_vars

(* Every request that began is answered: the retries of a call are bounded  *)
(* by attempts, so no courier can hold a client for ever.                   *)
Responds == \A r \in Requests : Active(r) ~> Answered(r)

=============================================================================
