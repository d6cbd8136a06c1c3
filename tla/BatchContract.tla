---------------------------- MODULE BatchContract ----------------------------
(***************************************************************************)
(* What a client that polls GET /orders/bulk/:id may rely on: a batch is   *)
(* accepted whole, each of its orders is settled once, and it is closed in *)
(* one step, when nothing is PENDING, with a verdict that counts every     *)
(* failure. Rows, couriers, chunks and workers are hidden.                 *)
(***************************************************************************)
CONSTANTS Orders, Batches

VARIABLES batch, items

bvars == <<batch, items>>

BInit ==
  /\ batch = [b \in Batches |-> "none"]
  /\ items = [b \in Batches |-> [o \in Orders |-> "none"]]

Accept(b) ==
  /\ batch[b] = "none"
  /\ batch' = [batch EXCEPT ![b] = "PROCESSING"]
  /\ \E seeds \in [Orders -> {"none", "PENDING", "DUPLICATE"}] :
       items' = [items EXCEPT ![b] = seeds]

Settle(b, o) ==
  /\ batch[b] = "PROCESSING" /\ items[b][o] = "PENDING"
  /\ \E outcome \in {"SUCCEEDED", "FAILED"} : items' = [items EXCEPT ![b][o] = outcome]
  /\ UNCHANGED batch

Close(b) ==
  /\ batch[b] = "PROCESSING"
  /\ \A o \in Orders : items[b][o] # "PENDING"
  /\ batch' = [batch EXCEPT ![b] = IF \E o \in Orders : items[b][o] = "FAILED"
                                     THEN "COMPLETED_WITH_ERRORS" ELSE "COMPLETED"]
  /\ UNCHANGED items

BNext == \E b \in Batches : Accept(b) \/ Close(b) \/ \E o \in Orders : Settle(b, o)

BSpec == BInit /\ [][BNext]_bvars

=============================================================================
