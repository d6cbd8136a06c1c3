------------------------------ MODULE Tracking ------------------------------
(***************************************************************************)
(* GET /orders/:id/track for one shipment of UrbaneBolt, polled by clients *)
(* side by side, while the shipment moves on and may be cancelled. The     *)
(* steps are the database statements and the courier calls.                *)
(*                                                                         *)
(*   log      the scans the courier has of the shipment, oldest first      *)
(*   status   orders.status                                                *)
(*   tracked  is orders.last_tracked_at set?                               *)
(*   age      the time since it was set, counted up to Ttl                 *)
(*   events   the tracking_events of the order, by their unique key        *)
(*   pc       where each request is                                        *)
(*   heard    the courier's scans in the answer a request works on         *)
(*   given    the status and the events a request is answered with         *)
(***************************************************************************)
EXTENDS Naturals, Sequences, SequencesExt

CONSTANTS
  Route,       \* the scans of a shipment that is not cancelled
  Trackers,    \* clients that poll for ever
  Cancellers,  \* clients that cancel once
  Ttl          \* TRACKING_TTL_SECONDS, in ticks of the clock

(* A scan is its courierStatusCode and its statusDateTime; 0 is a time that *)
(* does not parse.                                                          *)
ASSUME TrackingAssumption ==
  /\ Route \in Seq([code : STRING, time : Nat]) /\ Route # <<>>
  /\ Ttl \in Nat
  /\ Trackers \cap Cancellers = {}

VARIABLES log, status, tracked, age, events, pc, heard, given

row == <<status, tracked, age>>
vars == <<log, row, events, pc, heard, given>>

STATUS_BY_CODE ==
  [MAN |-> "CREATED", CAN |-> "CANCELLED", PKD |-> "PICKED_UP", PUP |-> "PICKED_UP",
   INT |-> "IN_TRANSIT", RCV |-> "IN_TRANSIT", BAG |-> "IN_TRANSIT",
   OFD |-> "OUT_FOR_DELIVERY", DEL |-> "DELIVERED", UND |-> "UNDELIVERED",
   NDR |-> "UNDELIVERED", RTO |-> "RTO", RTD |-> "RTO"]

toShipmentStatus(code) ==
  IF code \in DOMAIN STATUS_BY_CODE THEN STATUS_BY_CODE[code] ELSE "UNKNOWN"

ShipmentStatus == {STATUS_BY_CODE[code] : code \in DOMAIN STATUS_BY_CODE} \cup {"UNKNOWN"}

Readable(scan) == scan.time # 0

(* The currentStatusCode of an answer that lists these scans.               *)
StatusOf(scans) == toShipmentStatus(Last(scans).code)

CancelScan == [code |-> "CAN", time |-> Len(Route) + 1]

Requests == Trackers \cup Cancellers

Goto(r, at) == pc' = [pc EXCEPT ![r] = at]

NoAnswer == [status |-> "UNKNOWN", events |-> {}]

-----------------------------------------------------------------------------
(* The courier (external) and the clock *)

Move ==
  /\ Last(log) # CancelScan /\ Len(log) < Len(Route)
  /\ log' = Append(log, Route[Len(log) + 1])
  /\ UNCHANGED <<row, events, pc, heard, given>>

Tick ==
  /\ tracked /\ age < Ttl
  /\ age' = age + 1
  /\ UNCHANGED <<log, status, tracked, events, pc, heard, given>>

-----------------------------------------------------------------------------
(* track *)

(* Mutant: once tracked, always fresh.                                      *)
isFreshForEver == Ttl # 0 /\ tracked

isFresh == Ttl # 0 /\ tracked /\ age < Ttl

(* The row is read, and answered with if it is fresh.                       *)
LoadForTrack(r) ==
  /\ pc[r] = "idle"
  /\ Goto(r, IF isFresh THEN "list" ELSE "call")
  /\ given' = [given EXCEPT ![r].status = status]
  /\ UNCHANGED <<log, row, events, heard>>

(* trackShipment. A call that fails is answered by an error.                *)
Hear(r) ==
  /\ pc[r] = "call"
  /\ Goto(r, "append")
  /\ heard' = [heard EXCEPT ![r] = log]
  /\ UNCHANGED <<log, row, events, given>>

(* Mutant: only the latest scan of the answer is written.                   *)
SaveLatestScan(r) ==
  /\ pc[r] = "append"
  /\ Goto(r, "mark")
  /\ events' = events \cup {scan \in {Last(heard[r])} : Readable(scan)}
  /\ UNCHANGED <<log, row, heard, given>>

(* Mutant: the insert fails and the failure is swallowed.                   *)
SaveScansBestEffort(r) ==
  /\ pc[r] = "append"
  /\ Goto(r, "mark")
  /\ \E new \in {{}, {scan \in ToSet(heard[r]) : Readable(scan)}} :
       events' = events \cup new
  /\ UNCHANGED <<log, row, heard, given>>

(* appendNew: scans whose time the adapter could read are inserted in one   *)
(* statement, those the table has under the same key are skipped.           *)
SaveScans(r) ==
  /\ pc[r] = "append"
  /\ Goto(r, "mark")
  /\ events' = events \cup {scan \in ToSet(heard[r]) : Readable(scan)}
  /\ UNCHANGED <<log, row, heard, given>>

(* Mutant: lastTrackedAt is counted on instead of set.                      *)
SaveStatusKeepsCounting(r) ==
  /\ pc[r] = "mark"
  /\ Goto(r, "list")
  /\ status' = StatusOf(heard[r])
  /\ tracked' = TRUE /\ age' = age + 1
  /\ given' = [given EXCEPT ![r].status = StatusOf(heard[r])]
  /\ heard' = [heard EXCEPT ![r] = <<>>]
  /\ UNCHANGED <<log, events>>

(* markTracked; the row it returns goes into the answer.                    *)
SaveStatus(r) ==
  /\ pc[r] = "mark"
  /\ Goto(r, "list")
  /\ status' = StatusOf(heard[r])
  /\ tracked' = TRUE /\ age' = 0
  /\ given' = [given EXCEPT ![r].status = StatusOf(heard[r])]
  /\ heard' = [heard EXCEPT ![r] = <<>>]
  /\ UNCHANGED <<log, events>>

(* listByOrder, the last statement on either path.                          *)
ListEvents(r) ==
  /\ pc[r] = "list"
  /\ Goto(r, "answered")
  /\ given' = [given EXCEPT ![r].events = events]
  /\ UNCHANGED <<log, row, events, heard>>

(* The client polls again.                                                  *)
PollAgain(r) ==
  /\ pc[r] = "answered"
  /\ Goto(r, "idle")
  /\ given' = [given EXCEPT ![r] = NoAnswer]
  /\ UNCHANGED <<log, row, events, heard>>

(* An error answer, or none: the call fails, a statement fails, the process *)
(* dies. What was written stays.                                            *)
Fail(r) ==
  /\ pc[r] \in {"call", "append", "mark", "list"}
  /\ Goto(r, "idle")
  /\ heard' = [heard EXCEPT ![r] = <<>>]
  /\ given' = [given EXCEPT ![r] = NoAnswer]
  /\ UNCHANGED <<log, row, events>>

-----------------------------------------------------------------------------
(* cancel, beside it *)

LoadForCancel(r) ==
  /\ pc[r] = "idle" /\ status = "CREATED"
  /\ Goto(r, "cancel")
  /\ UNCHANGED <<log, row, events, heard, given>>

(* The courier cancels what it has not picked up, or refuses.               *)
CourierCancels(r) ==
  /\ pc[r] = "cancel"
  /\ \/ /\ Len(log) = 1
        /\ log' = Append(log, CancelScan)
        /\ \E at \in {"save", "ended"} : Goto(r, at)
     \/ Goto(r, "ended") /\ UNCHANGED log
  /\ UNCHANGED <<row, events, heard, given>>

(* updateStatus leaves last_tracked_at alone.                               *)
SaveCancelled(r) ==
  /\ pc[r] = "save"
  /\ status' = "CANCELLED"
  /\ Goto(r, "ended")
  /\ UNCHANGED <<log, tracked, age, events, heard, given>>

-----------------------------------------------------------------------------
Init ==
  /\ log = <<Head(Route)>>
  /\ status = "CREATED" /\ tracked = FALSE /\ age = 0
  /\ events = {}
  /\ pc = [r \in Requests |-> "idle"]
  /\ heard = [r \in Requests |-> <<>>]
  /\ given = [r \in Requests |-> NoAnswer]

Track(r) ==
  \/ LoadForTrack(r) \/ Hear(r) \/ SaveScans(r) \/ SaveStatus(r)
  \/ ListEvents(r) \/ PollAgain(r) \/ Fail(r)

Cancel(r) == LoadForCancel(r) \/ CourierCancels(r) \/ SaveCancelled(r)

Next ==
  \/ Move \/ Tick
  \/ \E r \in Trackers : Track(r)
  \/ \E r \in Cancellers : Cancel(r)

Spec == Init /\ [][Next]_vars

(* Clients poll for ever, time passes, and not every call and not every     *)
(* statement of a client's requests fails.                                  *)
FairSpec ==
  /\ Spec /\ WF_vars(Tick)
  /\ \A r \in Trackers :
       /\ WF_vars(LoadForTrack(r) \/ ListEvents(r) \/ PollAgain(r))
       /\ SF_vars(Hear(r)) /\ SF_vars(SaveScans(r)) /\ SF_vars(SaveStatus(r))

-----------------------------------------------------------------------------
(* Properties *)

Scans == ToSet(Route) \cup {CancelScan}

TypeOK ==
  /\ log \in Seq(Scans) /\ log # <<>>
  /\ status \in ShipmentStatus /\ tracked \in BOOLEAN /\ age \in 0..Ttl
  /\ events \subseteq Scans
  /\ pc \in [Requests -> {"idle", "call", "append", "mark", "list", "answered",
                          "cancel", "save", "ended"}]
  /\ heard \in [Requests -> Seq(Scans)]
  /\ given \in [Requests -> [status : ShipmentStatus, events : SUBSET Scans]]

(* Each answer of the courier repeats the whole history, so the table never *)
(* has a scan without the readable ones before it, though refreshes overlap *)
(* and old answers are written after newer ones (appendNew).                *)
HistoryHasNoGaps ==
  \A scan \in events :
    \E j \in DOMAIN log :
      /\ log[j] = scan
      /\ \A i \in 1..j : Readable(log[i]) => log[i] \in events

(* The history a client is given covers the status it is given: a status    *)
(* that came out of a refresh, this request's or one before, has its scan   *)
(* in the answer, unless its time could not be read (track writes the scans *)
(* before the status and reads them after).                                 *)
AnswerCoversStatus ==
  \A r \in Trackers :
    pc[r] = "answered" /\ given[r].status \notin {"CREATED", "CANCELLED"} =>
      \E i \in DOMAIN log :
        /\ toShipmentStatus(log[i].code) = given[r].status
        /\ log[i] \in given[r].events \/ ~Readable(log[i])

(* The row catches up with the courier for good once the shipment rests:    *)
(* neither the TTL nor an old answer written late, over a cancellation say, *)
(* leaves a wrong status behind for ever.                                   *)
StatusCatchesUp == <>[](status = StatusOf(log))

=============================================================================
