--------------------------- MODULE ManifestAnswer ---------------------------
(***************************************************************************)
(* What an answer of UrbaneBolt's manifest call (HTTP 200) makes of the    *)
(* orders of a chunk: a computation, from the body over the adapter's list *)
(* of outcomes to what the services write. The courier is not trusted to   *)
(* answer in order, once per order, for these orders only, or with order   *)
(* numbers at all. BulkOrders lets the courier answer anything that comes  *)
(* out here (its NativeAnswers), with the statements as steps.             *)
(***************************************************************************)
EXTENDS Naturals, Sequences, SequencesExt

CONSTANTS
  Numbers,    \* order numbers
  Awbs,       \* AWB numbers
  Texts,      \* messages of the courier, each the set of phrases it contains
  MaxEntries  \* bound on the entries of either list of the body

NoNumber == ""
Null == "null"

-----------------------------------------------------------------------------
(* The answer (external) *)

ListsOf(S) == UNION {[1..n -> S] : n \in 0..MaxEntries}

SuccessEntry == [order : Numbers, awb : Awbs]
ErrorEntry   == [order : Numbers \cup {NoNumber}, text : Texts]

(* The two lists of the documented body.                                    *)
Manifests == [success : ListsOf(SuccessEntry), errors : ListsOf(ErrorEntry)]

-----------------------------------------------------------------------------
(* The adapter *)

(* Mutant: the rules in another order.                                      *)
codeForMessageShippedLast(text) ==
  IF "not serviceable" \in text THEN "PINCODE_NOT_SERVICEABLE"
  ELSE IF "already cancelled" \in text THEN "SHIPMENT_ALREADY_CANCELLED"
  ELSE IF text \cap {"not found", "not belong to your account"} # {} THEN "ORDER_NOT_FOUND"
  ELSE IF text \cap {"incorrect username", "password"} # {} THEN "COURIER_AUTH_ERROR"
  ELSE IF "already shipped" \in text THEN "DUPLICATE_AT_COURIER"
  ELSE "COURIER_VALIDATION_ERROR"

(* The first rule that applies.                                             *)
codeForMessage(text) ==
  IF "not serviceable" \in text THEN "PINCODE_NOT_SERVICEABLE"
  ELSE IF "already shipped" \in text THEN "DUPLICATE_AT_COURIER"
  ELSE IF "already cancelled" \in text THEN "SHIPMENT_ALREADY_CANCELLED"
  ELSE IF text \cap {"not found", "not belong to your account"} # {} THEN "ORDER_NOT_FOUND"
  ELSE IF text \cap {"incorrect username", "password"} # {} THEN "COURIER_AUTH_ERROR"
  ELSE "COURIER_VALIDATION_ERROR"

Shipment(entry) == [order |-> entry.order, ok |-> TRUE, awb |-> entry.awb, code |-> Null]

Refusal(entry) ==
  [order |-> entry.order, ok |-> FALSE, awb |-> Null, code |-> codeForMessage(entry.text)]

outcomesOf(body) ==
  [i \in 1..Len(body.success) |-> Shipment(body.success[i])]
    \o [i \in 1..Len(body.errors) |-> Refusal(body.errors[i])]

-----------------------------------------------------------------------------
(* The services *)

(* "The courier returned no outcome for this order", and what the adapter   *)
(* says of an empty answer to a single order.                               *)
Orphan(o) == [order |-> o, ok |-> FALSE, awb |-> Null, code |-> "COURIER_VALIDATION_ERROR"]

(* Mutant: the row of a settled order stays in the map.                     *)
settleAgain(chunk, body) ==
  FoldLeft(LAMBDA settled, outcome :
             IF outcome.order \in chunk
               THEN [settled EXCEPT ![outcome.order] = <<outcome>>] ELSE settled,
           [o \in chunk |-> <<>>], outcomesOf(body))

(* The loop of runNativeBatch: an outcome settles the row of its order, an  *)
(* outcome for another order, for none, or for a settled one is passed over.*)
settle(chunk, body) ==
  FoldLeft(LAMBDA settled, outcome :
             IF outcome.order \in chunk /\ settled[outcome.order] = <<>>
               THEN [settled EXCEPT ![outcome.order] = <<outcome>>] ELSE settled,
           [o \in chunk |-> <<>>], outcomesOf(body))

(* Mutant: orders left out are not settled.                                 *)
nativeResultsNoOrphans(chunk, body) ==
  [o \in {p \in chunk : settle(chunk, body)[p] # <<>>} |-> Head(settle(chunk, body)[o])]

(* The outcomes of a chunk, with those its second loop adds.                *)
nativeResults(chunk, body) ==
  LET settled == settle(chunk, body)
  IN [o \in chunk |-> IF settled[o] = <<>> THEN Orphan(o) ELSE Head(settled[o])]

(* Mutant: the last outcome is taken.                                       *)
singleResultLast(o, body) ==
  IF outcomesOf(body) = <<>> THEN Orphan(o) ELSE Last(outcomesOf(body))

(* createShipment: the first outcome is taken for the order's.              *)
singleResult(o, body) ==
  IF outcomesOf(body) = <<>> THEN Orphan(o) ELSE Head(outcomesOf(body))

(* markShipmentCreated or markFailed, and recordOutcome.                    *)
rowFor(result) ==
  IF result.ok THEN [status |-> "CREATED", awb |-> result.awb, code |-> Null]
  ELSE [status |-> IF result.code = "DUPLICATE_AT_COURIER"
                     THEN "RECONCILIATION_REQUIRED" ELSE "FAILED",
        awb |-> Null, code |-> result.code]

itemFor(result) ==
  [status |-> IF result.ok THEN "SUCCEEDED" ELSE "FAILED",
   awb |-> result.awb, code |-> result.code]

-----------------------------------------------------------------------------
(* Properties. Chunks of several orders go through runNativeBatch.          *)

Chunks == {chunk \in SUBSET Numbers : Cardinality(chunk) > 1}

EntriesOf(list, o) == SelectSeq(list, LAMBDA entry : entry.order = o)

(* What the body says of order o: its shipment if there is one, else its    *)
(* error; the first one if the courier repeats itself.                      *)
SaidOf(body, o) ==
  LET shipments == EntriesOf(body.success, o)
      refusals == EntriesOf(body.errors, o)
  IN IF shipments # <<>> THEN Shipment(Head(shipments))
     ELSE IF refusals # <<>> THEN Refusal(Head(refusals))
     ELSE Orphan(o)

(* Every order of a native chunk ends as the body says of this very order,  *)
(* in whatever order the entries come, however often they repeat an order   *)
(* and whatever else they name; no order gets the AWB of another one.       *)
OwnEntrySettles ==
  \A chunk \in Chunks, body \in Manifests :
    LET results == nativeResults(chunk, body)
    IN \A o \in chunk :
         /\ rowFor(results[o]) = rowFor(SaidOf(body, o))
         /\ itemFor(results[o]) = itemFor(SaidOf(body, o))

(* An order is parked for reconciliation exactly when the courier says of   *)
(* it, and first, that it already shipped: a courier that has a shipment    *)
(* nobody knows the AWB of is not taken for a refusal, which may be retried.*)
ParkedMeansToldShipped ==
  \A chunk \in Chunks, body \in Manifests :
    LET results == nativeResults(chunk, body)
    IN \A o \in chunk :
         rowFor(results[o]).status = "RECONCILIATION_REQUIRED" <=>
           LET refusals == EntriesOf(body.errors, o) IN
             /\ EntriesOf(body.success, o) = <<>> /\ refusals # <<>>
             /\ "already shipped" \in Head(refusals).text
             /\ "not serviceable" \notin Head(refusals).text

(* "One code path, so the single-order case cannot drift from the bulk      *)
(* case" (docs/CODE-WALKTHROUGH.md:447): an order sent alone ends as the    *)
(* same body would leave it in a chunk, if the courier answers for no other *)
(* order and every entry has its number, which createShipment does not      *)
(* test.                                                                    *)
SingleAgrees ==
  \A o \in Numbers, body \in Manifests :
    (\A result \in ToSet(outcomesOf(body)) : result.order = o) =>
      rowFor(singleResult(o, body)) = rowFor(nativeResults({o}, body)[o])

-----------------------------------------------------------------------------
(* In the terms of BulkOrders *)

answerOf(body, result) ==
  CASE result.ok -> "ok"
    [] result.code = "DUPLICATE_AT_COURIER" -> "duplicate"
    [] ~result.ok /\ result.order \notin {r.order : r \in ToSet(outcomesOf(body))} -> "missing"
    [] OTHER -> "rejected"

AnswersTo(chunk) ==
  {LET results == nativeResults(chunk, body)
   IN [o \in DOMAIN results |-> answerOf(body, results[o])] : body \in Manifests}

=============================================================================
