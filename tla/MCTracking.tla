----------------------------- MODULE MCTracking -----------------------------
(***************************************************************************)
(* An instance of Tracking for TLC.                                        *)
(***************************************************************************)
EXTENDS Tracking

(* Manifested, picked up at a time that does not parse, scanned with a code *)
(* the adapter does not know, delivered.                                    *)
RouteDelivered ==
  << [code |-> "MAN", time |-> 1], [code |-> "PKD", time |-> 0],
     [code |-> "XXX", time |-> 3], [code |-> "DEL", time |-> 4] >>

=============================================================================
