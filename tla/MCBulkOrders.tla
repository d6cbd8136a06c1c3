---------------------------- MODULE MCBulkOrders ----------------------------
(***************************************************************************)
(* Instances of BulkOrders for TLC.                                        *)
(***************************************************************************)
EXTENDS BulkOrders, TLC

CONSTANTS o1, o2, o3, b1, b2, c1, c2, stranger

To(c, o) == [order |-> o, courier |-> c, wellFormed |-> TRUE]
Bad(o)   == [order |-> o, courier |-> c1, wellFormed |-> FALSE]

(* One submission: of one order, of two for one courier or for two, or of   *)
(* three beside entries that are rejected, one of them a repetition.        *)
JustOne    == b1 :> <<To(c1, o1)>>
OnceTwo    == b1 :> <<To(c1, o1), To(c1, o2)>>
TwoGroups  == b1 :> <<To(c1, o1), To(c2, o2)>>
OnceThree  == b1 :> <<To(c1, o1), Bad(o2), To(c1, o2), To(stranger, o3), To(c2, o1), To(c1, o3)>>

(* Two submissions with an order in common, for one courier or for two.     *)
TwoSharing  == b1 :> <<To(c1, o1)>> @@ b2 :> <<To(c1, o1)>>
TwoCouriers == b1 :> <<To(c1, o1)>> @@ b2 :> <<To(c2, o1)>>

SubmittedJust  == {JustOne}
SubmittedOnce  == {OnceTwo}
SubmittedMany  == {TwoGroups, OnceThree, TwoSharing, TwoCouriers}

(* The first courier takes batches of two, the second single orders.        *)
BatchSizes == c1 :> 2 @@ c2 :> 1

(* Only the first courier, single orders.                                   *)
JustSingles == c1 :> 1

Symmetry == Permutations(Workers)

=============================================================================
