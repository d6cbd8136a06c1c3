--------------------------- MODULE MCBulkManifest ---------------------------
(***************************************************************************)
(* BulkOrders beside the computation its native answers come from. What is *)
(* said of ManifestAnswer is said for adapters that support batches.       *)
(***************************************************************************)
EXTENDS MCBulkOrders, ManifestAnswer

(* No rule applies to a message, one does, or two do.                       *)
SomeTexts == {{}, {"already shipped"}, {"not serviceable", "already shipped"},
              {"already shipped", "not found"}}

(* What the courier says of an order, and nothing else in its answer,       *)
(* settles that order: OwnEntrySettles for the entries' order, repetitions  *)
(* and foreign orders, ParkedMeansToldShipped for a shipment with an        *)
(* unknown AWB, SingleAgrees for an order sent alone.                       *)
AnswerSettlesItsOrder == native # {} => OwnEntrySettles /\ ParkedMeansToldShipped /\ SingleAgrees

AnswersMatch ==
  \A c \in UNION NativeModes : \A chunk \in Chunks :
    Cardinality(chunk) <= ChunkSize[c] => AnswersTo(chunk) = NativeAnswers(chunk)

(* BulkOrders gives its courier the answers the adapter and the service can *)
(* make of a body, these and no others, so that what it shows of chunks     *)
(* rests on the manifest's real shape (CallCourier, runNativeBatch).        *)
AnswersAreTheAdapters == native # {} => AnswersMatch

=============================================================================
