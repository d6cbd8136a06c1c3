--------------------------- MODULE MCOrderService ---------------------------
(***************************************************************************)
(* Instances of OrderService for TLC. One order is enough: no action reads *)
(* or writes the row, the ledger entry or the requests of another order.   *)
(***************************************************************************)
EXTENDS OrderService, TLC

CONSTANTS c1, c2, c3, o1

(* Clients name one partner for the order for ever.                         *)
NamedOne == [o \in OrderIds |-> {c1}]

(* Clients change their mind; c3 is not registered.                         *)
NamedMany == [o \in OrderIds |-> {c1, c2, c3}]

NamedTwo == [o \in OrderIds |-> {c1, c2}]

Symmetry == Permutations(Requests)

(* Creates only: POST /orders against POST /orders.                         *)
CreatesSpec == Init /\ (\A r \in Requests : Is(r, "create")) /\ [][Next]_vars

(* For liveness, where TLC's symmetry is unsound: requests are numbered, and*)
(* of the assignments of tasks that differ by a renaming of requests, which *)
(* may begin in any order, only the sorted one is taken.                    *)
Rank(t) ==
  (CASE t.kind = "create" -> 0 [] t.kind = "retry" -> 10
     [] t.kind = "cancel" -> 20 [] t.kind = "track" -> 30)
    + (CASE t.courier = c1 -> 1 [] t.courier = c2 -> 2 [] OTHER -> 3)

Sorted == \A q, r \in Requests : q < r => Rank(task[q]) <= Rank(task[r])

SortedInit == Init /\ Sorted

SortedSpec == SortedInit /\ [][Next]_vars /\ Fairness

=============================================================================
