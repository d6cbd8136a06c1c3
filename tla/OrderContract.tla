---------------------------- MODULE OrderContract ----------------------------
(***************************************************************************)
(* The life of an order as its clients see it: what its row says, and what *)
(* the couriers have on their books. The requests, their calls and the     *)
(* messages that are late are hidden: however they interleave, an order is *)
(* inserted before it ships, ships once, learns its AWB once and keeps it, *)
(* and its status is news from the courier or a failure to get any.        *)
(***************************************************************************)
CONSTANTS
  OrderIds, Couriers,
  Overlap,  \* may a create or retry begin before the last one has ended?
  Null

VARIABLES
  status,  \* of the row, "ABSENT" before it is inserted
  awb,     \* of the row: the courier that issued it, or Null
  ledger   \* what each courier has booked

ovars == <<status, awb, ledger>>

OInit ==
  /\ status = [o \in OrderIds |-> "ABSENT"]
  /\ awb = [o \in OrderIds |-> Null]
  /\ ledger = [c \in Couriers |-> [o \in OrderIds |-> "none"]]

Insert(o) ==
  /\ status[o] = "ABSENT"
  /\ status' = [status EXCEPT ![o] = "PENDING"]
  /\ UNCHANGED <<awb, ledger>>

(* One courier books the order, for ever.                                   *)
Ship(c, o) ==
  /\ status[o] # "ABSENT" /\ \A d \in Couriers : ledger[d][o] = "none"
  /\ ledger' = [ledger EXCEPT ![c][o] = "CREATED"]
  /\ UNCHANGED <<status, awb>>

Move(c, o) ==
  /\ ledger[c][o] = "CREATED"
  /\ \E booking \in {"IN_TRANSIT", "CANCELLED"} :
       ledger' = [ledger EXCEPT ![c][o] = booking]
  /\ UNCHANGED <<status, awb>>

(* The system learns that the order shipped.                                *)
Confirm(c, o) ==
  /\ status[o] # "ABSENT" /\ awb[o] = Null /\ ledger[c][o] # "none"
  /\ status' = [status EXCEPT ![o] = "CREATED"]
  /\ awb' = [awb EXCEPT ![o] = c]
  /\ UNCHANGED ledger

(* An attempt to ship it failed, or is left to manual reconciliation. Only  *)
(* overlapping attempts can leave a failure on an order that has its AWB.   *)
Fail(o) ==
  /\ status[o] # "ABSENT" /\ (Overlap \/ awb[o] = Null)
  /\ \E failure \in {"FAILED", "RECONCILIATION_REQUIRED"} :
       /\ failure = "RECONCILIATION_REQUIRED" => \E c \in Couriers : ledger[c][o] # "none"
       /\ status' = [status EXCEPT ![o] = failure]
  /\ UNCHANGED <<awb, ledger>>

(* News of the shipment: as it was booked, as it ended up, or unreadable.   *)
Report(o) ==
  /\ awb[o] # Null
  /\ \E news \in {"CREATED", "UNKNOWN", ledger[awb[o]][o]} :
       status' = [status EXCEPT ![o] = news]
  /\ UNCHANGED <<awb, ledger>>

ONext ==
  \E o \in OrderIds :
    \/ Insert(o) \/ Fail(o) \/ Report(o)
    \/ \E c \in Couriers : Ship(c, o) \/ Move(c, o) \/ Confirm(c, o)

OSpec == OInit /\ [][ONext]_ovars

=============================================================================
