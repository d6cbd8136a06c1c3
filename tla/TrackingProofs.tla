--------------------------- MODULE TrackingProofs ---------------------------
(***************************************************************************)
(* What TLAPS proves about Tracking, for every route, every number of      *)
(* clients and every TTL.                                                  *)
(***************************************************************************)
EXTENDS Tracking, SequenceTheorems, TLAPS

-----------------------------------------------------------------------------
(* Values *)

Places == {"idle", "call", "append", "mark", "list", "answered", "cancel", "save", "ended"}

Given == [status : ShipmentStatus, events : SUBSET Scans]

LEMMA StatusValues ==
  /\ {"CREATED", "CANCELLED", "UNKNOWN"} \subseteq ShipmentStatus
  /\ \A code : toShipmentStatus(code) \in ShipmentStatus
<1>1. {"MAN", "CAN"} \subseteq DOMAIN STATUS_BY_CODE
  BY DEF STATUS_BY_CODE
<1>2. STATUS_BY_CODE["MAN"] = "CREATED" /\ STATUS_BY_CODE["CAN"] = "CANCELLED"
  BY DEF STATUS_BY_CODE
<1>3. QED
  BY <1>1, <1>2 DEF ShipmentStatus, toShipmentStatus

LEMMA RouteFacts ==
  /\ Len(Route) \in Nat \ {0}
  /\ \A i \in 1..Len(Route) : Route[i] \in Scans
  /\ Head(Route) = Route[1]
  /\ CancelScan \in Scans
BY TrackingAssumption DEF Scans, ToSet

-----------------------------------------------------------------------------
(* Type correctness, and what the courier said *)

(* What a request works on is what the courier had when it was asked.       *)
HeardIsPrefix ==
  \A r \in Requests :
    /\ Len(heard[r]) <= Len(log)
    /\ \A i \in 1..Len(heard[r]) : heard[r][i] = log[i]
    /\ pc[r] \in {"append", "mark"} => heard[r] # <<>>

TypeInv == TypeOK /\ HeardIsPrefix

LEMMA InitTypeInv == Init => TypeInv
<1> SUFFICES ASSUME Init PROVE TypeInv
  OBVIOUS
<1>1. log \in Seq(Scans) /\ log # <<>> /\ Len(log) = 1
  BY RouteFacts DEF Init
<1>2. heard \in [Requests -> Seq(Scans)] /\ \A r \in Requests : heard[r] = <<>>
  BY DEF Init
<1>3. given \in [Requests -> Given]
  BY StatusValues DEF Init, NoAnswer, Given
<1>4. pc \in [Requests -> Places]
  BY DEF Init, Places
<1>5. /\ status \in ShipmentStatus /\ tracked \in BOOLEAN /\ age \in 0..Ttl
      /\ events \subseteq Scans
  <2>1. status = "CREATED" /\ tracked = FALSE /\ age = 0 /\ events = {}
    BY DEF Init
  <2>2. age \in 0..Ttl
    BY <2>1, TrackingAssumption
  <2>3. QED
    BY <2>1, <2>2, StatusValues
<1>6. TypeOK
  BY <1>1, <1>2, <1>3, <1>4, <1>5 DEF TypeOK, Places, Given
<1>7. HeardIsPrefix
  BY <1>1, <1>2 DEF Init, HeardIsPrefix
<1>8. QED
  BY <1>6, <1>7 DEF TypeInv

(* The log only grows, by one scan of the route or of the cancellation.     *)
LEMMA LogGrows ==
  ASSUME TypeInv, [Next]_vars
  PROVE  /\ log' \in Seq(Scans) /\ log' # <<>>
         /\ Len(log) \in Nat /\ Len(log') \in Nat /\ Len(log) <= Len(log')
         /\ \A i \in 1..Len(log) : log'[i] = log[i]
<1>0. log \in Seq(Scans) /\ log # <<>>
  BY DEF TypeInv, TypeOK
<1>1. ASSUME NEW scan \in Scans, log' = Append(log, scan)
      PROVE  /\ log' \in Seq(Scans) /\ log' # <<>> /\ Len(log) <= Len(log')
             /\ \A i \in 1..Len(log) : log'[i] = log[i]
  BY <1>0, <1>1
<1>2. CASE UNCHANGED log
  BY <1>0, <1>2
<1>3. CASE Move
  <2>1. Len(log) + 1 \in 1..Len(Route)
    BY <1>0, <1>3, RouteFacts DEF Move
  <2>2. QED
    BY <1>0, <1>1, <1>3, <2>1, RouteFacts DEF Move
<1>4. ASSUME NEW r \in Cancellers, Cancel(r)
      PROVE  log' = log \/ log' = Append(log, CancelScan)
  BY <1>4 DEF Cancel, LoadForCancel, CourierCancels, SaveCancelled
<1>5. ASSUME NEW r \in Trackers, Track(r)
      PROVE  log' = log
  BY <1>5 DEF Track, LoadForTrack, Hear, SaveScans, SaveStatus, ListEvents, PollAgain, Fail
<1>6. QED
  BY <1>0, <1>1, <1>2, <1>3, <1>4, <1>5, RouteFacts DEF Next, Tick, vars

LEMMA NextTypeInv ==
  ASSUME TypeInv, [Next]_vars
  PROVE  TypeInv'
<1>0. /\ log \in Seq(Scans) /\ log # <<>> /\ heard \in [Requests -> Seq(Scans)]
      /\ pc \in [Requests -> Places] /\ given \in [Requests -> Given]
      /\ Trackers \subseteq Requests /\ Cancellers \subseteq Requests
      /\ NoAnswer \in Given /\ events \subseteq Scans /\ status \in ShipmentStatus
      /\ tracked \in BOOLEAN /\ age \in 0..Ttl
  BY StatusValues DEF TypeInv, TypeOK, Places, Given, Requests, NoAnswer
<1>1. ASSUME heard' \in [Requests -> Seq(Scans)], given' \in [Requests -> Given],
             pc' \in [Requests -> Places], events' \subseteq Scans,
             status' \in ShipmentStatus, tracked' \in BOOLEAN, age' \in 0..Ttl,
             \A r \in Requests :
               \/ heard'[r] = <<>> /\ pc'[r] \notin {"append", "mark"}
               \/ /\ heard'[r] = heard[r]
                  /\ pc'[r] \in {"append", "mark"} => pc[r] \in {"append", "mark"}
               \/ heard'[r] = log
      PROVE  TypeInv'
  <2>1. TypeOK'
    BY <1>1, LogGrows DEF TypeOK, Given, Places
  <2>2. ASSUME NEW r \in Requests
        PROVE  /\ Len(heard'[r]) <= Len(log')
               /\ \A i \in 1..Len(heard'[r]) : heard'[r][i] = log'[i]
               /\ pc'[r] \in {"append", "mark"} => heard'[r] # <<>>
    <3>1. CASE heard'[r] = <<>> /\ pc'[r] \notin {"append", "mark"}
      BY <3>1, LogGrows
    <3>2. CASE /\ heard'[r] = heard[r]
               /\ pc'[r] \in {"append", "mark"} => pc[r] \in {"append", "mark"}
      <4>1. heard[r] \in Seq(Scans) /\ Len(heard[r]) <= Len(log)
        BY <1>0 DEF TypeInv, HeardIsPrefix
      <4>2. QED
        BY <3>2, <4>1, LogGrows DEF TypeInv, HeardIsPrefix
    <3>3. CASE heard'[r] = log
      BY <1>0, <3>3, LogGrows
    <3>4. QED
      BY <1>1, <3>1, <3>2, <3>3
  <2>3. QED
    BY <2>1, <2>2 DEF TypeInv, HeardIsPrefix
<1>2. CASE UNCHANGED vars \/ Move
  BY <1>0, <1>1, <1>2 DEF vars, row, Move
<1>3. CASE Tick
  <2>1. age' \in 0..Ttl
    BY <1>0, <1>3, TrackingAssumption DEF Tick
  <2>2. QED
    BY <1>0, <1>1, <1>3, <2>1 DEF Tick
<1>4. ASSUME NEW r \in Trackers, Track(r)
      PROVE  TypeInv'
  <2>0. r \in Requests
    BY <1>0
  <2>1. CASE LoadForTrack(r)
    BY <1>0, <1>1, <2>0, <2>1 DEF LoadForTrack, Goto, Places, Given, row
  <2>2. CASE Hear(r)
    BY <1>0, <1>1, <2>0, <2>2 DEF Hear, Goto, Places, row
  <2>3. CASE SaveScans(r)
    <3>1. ToSet(heard[r]) \subseteq Scans
      BY <1>0, <2>0 DEF ToSet
    <3>2. QED
      BY <1>0, <1>1, <2>0, <2>3, <3>1 DEF SaveScans, Goto, Places, row
  <2>4. CASE SaveStatus(r)
    <3>1. StatusOf(heard[r]) \in ShipmentStatus
      BY StatusValues DEF StatusOf
    <3>2. age' \in 0..Ttl
      BY <2>4, TrackingAssumption DEF SaveStatus
    <3>3. tracked' \in BOOLEAN
      BY <2>4 DEF SaveStatus
    <3>4. pc' \in [Requests -> Places] /\ heard' \in [Requests -> Seq(Scans)]
      BY <1>0, <2>4 DEF SaveStatus, Goto, Places
    <3>5. given' \in [Requests -> Given]
      BY <1>0, <2>4, <3>1 DEF SaveStatus, Given
    <3>6. status' \in ShipmentStatus /\ events' \subseteq Scans
      BY <1>0, <2>4, <3>1 DEF SaveStatus
    <3>7. \A q \in Requests :
            \/ heard'[q] = <<>> /\ pc'[q] \notin {"append", "mark"}
            \/ /\ heard'[q] = heard[q]
               /\ pc'[q] \in {"append", "mark"} => pc[q] \in {"append", "mark"}
            \/ heard'[q] = log
      BY <1>0, <2>0, <2>4 DEF SaveStatus, Goto
    <3>8. QED
      BY <1>1, <3>2, <3>3, <3>4, <3>5, <3>6, <3>7
  <2>5. CASE ListEvents(r) \/ PollAgain(r)
    <3>1. given' \in [Requests -> Given]
      <4>1. CASE ListEvents(r)
        <5>1. [given[r] EXCEPT !.events = events] \in Given
          BY <1>0, <2>0 DEF Given
        <5>2. given' = [given EXCEPT ![r] = [given[r] EXCEPT !.events = events]]
          BY <4>1 DEF ListEvents
        <5>3. QED
          BY <1>0, <5>1, <5>2
      <4>2. CASE PollAgain(r)
        BY <1>0, <4>2 DEF PollAgain
      <4>3. QED
        BY <2>5, <4>1, <4>2
    <3>2. pc' \in [Requests -> Places] /\ heard' = heard
      BY <1>0, <2>5 DEF ListEvents, PollAgain, Goto, Places
    <3>3. \A q \in Requests : pc'[q] \in {"append", "mark"} => pc[q] \in {"append", "mark"}
      BY <1>0, <2>0, <2>5 DEF ListEvents, PollAgain, Goto
    <3>4. UNCHANGED <<row, events>>
      BY <2>5 DEF ListEvents, PollAgain
    <3>5. QED
      BY <1>0, <1>1, <3>1, <3>2, <3>3, <3>4 DEF row
  <2>6. CASE Fail(r)
    BY <1>0, <1>1, <2>0, <2>6 DEF Fail, Goto, Places, row
  <2>7. QED
    BY <1>4, <2>1, <2>2, <2>3, <2>4, <2>5, <2>6 DEF Track
<1>5. ASSUME NEW r \in Cancellers, Cancel(r)
      PROVE  TypeInv'
  BY <1>0, <1>1, <1>5, StatusValues
     DEF Cancel, LoadForCancel, CourierCancels, SaveCancelled, Goto, Places, row
<1>6. QED
  BY <1>2, <1>3, <1>4, <1>5 DEF Next

(* Every variable keeps its type, whatever route the shipment takes.        *)
THEOREM TrackingTypes == Spec => []TypeOK
<1>1. TypeInv /\ [Next]_vars => TypeInv'
  BY NextTypeInv
<1>2. TypeInv => TypeOK
  BY DEF TypeInv
<1>3. QED
  BY InitTypeInv, <1>1, <1>2, PTL DEF Spec

-----------------------------------------------------------------------------
(* The history and the status *)

(* A status that came out of a refresh has its scan among these events,     *)
(* unless the time of that scan could not be read.                          *)
Covered(scans, st, evs) ==
  \/ st \in {"CREATED", "CANCELLED"}
  \/ \E i \in DOMAIN scans :
       /\ toShipmentStatus(scans[i].code) = st
       /\ scans[i] \in evs \/ ~Readable(scans[i])

(* The scans of a refresh are in the table before its status is, and stay   *)
(* there, so the row and the row a request holds are covered by the table.  *)
StatusIsCovered ==
  /\ Covered(log, status, events)
  /\ \A r \in Requests :
       /\ pc[r] = "mark" => \A i \in 1..Len(heard[r]) :
                               Readable(heard[r][i]) => heard[r][i] \in events
       /\ pc[r] = "list" => Covered(log, given[r].status, events)
       /\ pc[r] = "answered" => Covered(log, given[r].status, given[r].events)

TrackInv == TypeInv /\ HistoryHasNoGaps /\ StatusIsCovered

LEMMA InitTrack == Init => TrackInv
BY InitTypeInv DEF Init, TrackInv, HistoryHasNoGaps, StatusIsCovered, Covered

(* What is covered stays covered: the log and the table only grow.          *)
LEMMA StaysCovered ==
  ASSUME TypeInv, [Next]_vars, NEW st, NEW evs, NEW more, evs \subseteq more,
         Covered(log, st, evs)
  PROVE  Covered(log', st, more)
<1>1. CASE st \in {"CREATED", "CANCELLED"}
  BY <1>1 DEF Covered
<1>2. ASSUME NEW i \in DOMAIN log, toShipmentStatus(log[i].code) = st,
             log[i] \in evs \/ ~Readable(log[i])
      PROVE  Covered(log', st, more)
  <2>1. log \in Seq(Scans)
    BY DEF TypeInv, TypeOK
  <2>2. i \in DOMAIN log' /\ log'[i] = log[i]
    BY <2>1, LogGrows
  <2>3. QED
    BY <1>2, <2>2 DEF Covered
<1>3. QED
  BY <1>1, <1>2 DEF Covered

(* The table only gets the readable scans of an answer.                     *)
LEMMA EventsStep ==
  ASSUME [Next]_vars
  PROVE  \/ events' = events
         \/ \E r \in Trackers : SaveScans(r)
BY DEF Next, Move, Tick, Track, LoadForTrack, Hear, SaveStatus, ListEvents, PollAgain, Fail,
       Cancel, LoadForCancel, CourierCancels, SaveCancelled, vars

LEMMA EventsGrow ==
  ASSUME [Next]_vars
  PROVE  events \subseteq events'
BY EventsStep DEF SaveScans

LEMMA NextNoGaps ==
  ASSUME TrackInv, [Next]_vars
  PROVE  HistoryHasNoGaps'
<1> SUFFICES ASSUME NEW scan \in events'
             PROVE  \E j \in DOMAIN log' :
                      /\ log'[j] = scan
                      /\ \A i \in 1..j : Readable(log'[i]) => log'[i] \in events'
  BY DEF HistoryHasNoGaps
<1>0. TypeInv /\ log \in Seq(Scans) /\ log' \in Seq(Scans)
  BY LogGrows DEF TrackInv, TypeInv, TypeOK
<1>1. ASSUME NEW j \in DOMAIN log, log[j] = scan,
             \A i \in 1..j : Readable(log[i]) => log[i] \in events'
      PROVE  /\ j \in DOMAIN log' /\ log'[j] = scan
             /\ \A i \in 1..j : Readable(log'[i]) => log'[i] \in events'
  BY <1>0, <1>1, LogGrows
<1>2. CASE scan \in events
  <2>1. PICK j \in DOMAIN log : /\ log[j] = scan
                              /\ \A i \in 1..j : Readable(log[i]) => log[i] \in events
    BY <1>2 DEF TrackInv, HistoryHasNoGaps
  <2>2. QED
    BY <1>1, <2>1, EventsGrow
<1>3. CASE scan \notin events
  <2>1. PICK r \in Trackers : SaveScans(r)
    BY <1>3, EventsStep
  <2>2. /\ heard[r] \in Seq(Scans) /\ Len(heard[r]) <= Len(log)
        /\ \A i \in 1..Len(heard[r]) : heard[r][i] = log[i]
        /\ events' = events \cup {s \in ToSet(heard[r]) : Readable(s)}
    BY <1>0, <2>1 DEF TypeInv, TypeOK, HeardIsPrefix, Requests, SaveScans
  <2>3. PICK j \in DOMAIN heard[r] : heard[r][j] = scan
    BY <1>3, <2>2 DEF ToSet
  <2>4. \A i \in 1..j : i \in DOMAIN heard[r] /\ heard[r][i] = log[i]
    BY <2>2, <2>3
  <2>5. \A i \in 1..j : Readable(log[i]) => log[i] \in events'
    BY <2>2, <2>4 DEF ToSet
  <2>6. j \in DOMAIN log /\ log[j] = scan
    BY <1>0, <2>2, <2>3
  <2>7. QED
    BY <1>1, <2>5, <2>6
<1>4. QED
  BY <1>2, <1>3

(* The status of an answer whose scans were written is covered by them.     *)
LEMMA MarkIsCovered ==
  ASSUME TrackInv, [Next]_vars, NEW r \in Requests, pc[r] = "mark"
  PROVE  Covered(log', StatusOf(heard[r]), events')
<1> DEFINE s == heard[r]
<1>1. /\ TypeInv /\ s \in Seq(Scans) /\ s # <<>> /\ Len(s) <= Len(log) /\ log \in Seq(Scans)
      /\ \A i \in 1..Len(s) : s[i] = log[i]
      /\ \A i \in 1..Len(s) : Readable(s[i]) => s[i] \in events
  BY DEF TrackInv, TypeInv, TypeOK, HeardIsPrefix, StatusIsCovered
<1>2. Len(s) \in 1..Len(s) /\ Len(s) \in DOMAIN log
  BY <1>1
<1>3. Covered(log, StatusOf(s), events)
  BY <1>1, <1>2 DEF Covered, StatusOf, Last
<1>4. QED
  BY <1>1, <1>3, StaysCovered, EventsGrow

LEMMA NextCovered ==
  ASSUME TrackInv, [Next]_vars
  PROVE  StatusIsCovered'
<1>0. /\ TypeInv /\ log \in Seq(Scans) /\ heard \in [Requests -> Seq(Scans)]
      /\ pc \in [Requests -> Places] /\ given \in [Requests -> Given]
      /\ Trackers \subseteq Requests /\ Cancellers \subseteq Requests
      /\ events \subseteq events'
      /\ Covered(log, status, events)
  BY EventsGrow DEF TrackInv, TypeInv, TypeOK, Places, Given, Requests, StatusIsCovered
<1>1. Covered(log', status', events')
  <2>1. CASE status' = status \/ status' = "CANCELLED"
    BY <1>0, <2>1, StaysCovered DEF Covered
  <2>2. ASSUME NEW r \in Trackers, SaveStatus(r)
        PROVE  Covered(log', status', events')
    BY <1>0, <2>2, MarkIsCovered DEF SaveStatus
  <2>3. QED
    BY <2>1, <2>2
       DEF Next, Move, Tick, Track, LoadForTrack, Hear, SaveScans, ListEvents, PollAgain, Fail,
           Cancel, LoadForCancel, CourierCancels, SaveCancelled, vars, row
<1>2. ASSUME NEW q \in Requests
      PROVE  /\ pc'[q] = "mark" => \A i \in 1..Len(heard'[q]) :
                                     Readable(heard'[q][i]) => heard'[q][i] \in events'
             /\ pc'[q] = "list" => Covered(log', given'[q].status, events')
             /\ pc'[q] = "answered" => Covered(log', given'[q].status, given'[q].events)
  <2>1. CASE pc'[q] = pc[q] /\ heard'[q] = heard[q] /\ given'[q] = given[q]
    BY <1>0, <2>1, StaysCovered DEF TrackInv, StatusIsCovered
  <2>2. CASE pc'[q] \notin {"mark", "list", "answered"}
    BY <2>2
  <2>3. CASE SaveScans(q)
    BY <1>0, <2>3 DEF SaveScans, Goto, ToSet
  <2>4. CASE LoadForTrack(q)
    <3>1. given'[q].status = status
      BY <1>0, <2>4 DEF LoadForTrack, Given
    <3>2. QED
      BY <1>0, <2>4, <3>1, StaysCovered DEF LoadForTrack, Goto
  <2>5. CASE SaveStatus(q)
    <3>1. given'[q].status = StatusOf(heard[q])
      BY <1>0, <2>5 DEF SaveStatus, Given
    <3>2. Covered(log', StatusOf(heard[q]), events')
      BY <1>0, <2>5, MarkIsCovered DEF SaveStatus
    <3>3. QED
      BY <1>0, <2>5, <3>1, <3>2 DEF SaveStatus, Goto
  <2>6. CASE ListEvents(q)
    <3>1. given'[q].status = given[q].status /\ given'[q].events = events
      BY <1>0, <2>6 DEF ListEvents, Given
    <3>2. QED
      BY <1>0, <2>6, <3>1, StaysCovered DEF ListEvents, Goto, TrackInv, StatusIsCovered
  <2>7. QED
    BY <1>0, <2>1, <2>2, <2>3, <2>4, <2>5, <2>6
       DEF Next, Move, Tick, Track, LoadForTrack, Hear, SaveScans, SaveStatus, ListEvents,
           PollAgain, Fail, Cancel, LoadForCancel, CourierCancels, SaveCancelled, Goto, vars, row
<1>3. QED
  BY <1>1, <1>2 DEF StatusIsCovered

LEMMA TrackHolds == Spec => []TrackInv
<1>1. TrackInv /\ [Next]_vars => TrackInv'
  BY NextTypeInv, NextNoGaps, NextCovered DEF TrackInv
<1>2. QED
  BY InitTrack, <1>1, PTL DEF Spec

(* The table never has a scan without the readable ones before it, however  *)
(* refreshes overlap, fail half way and are written out of order.           *)
THEOREM NoGapsInHistory == Spec => []HistoryHasNoGaps
<1>1. TrackInv => HistoryHasNoGaps
  BY DEF TrackInv
<1>2. QED
  BY TrackHolds, <1>1, PTL

(* A client never gets a status without the scan it came from, unless the   *)
(* time of that scan could not be read.                                     *)
THEOREM AnswersAreCovered == Spec => []AnswerCoversStatus
<1>1. TrackInv => AnswerCoversStatus
  BY DEF TrackInv, StatusIsCovered, Covered, AnswerCoversStatus, Requests
<1>2. QED
  BY TrackHolds, <1>1, PTL

=============================================================================
