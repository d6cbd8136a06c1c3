---------------------------- MODULE CallContract ----------------------------
(***************************************************************************)
(* What the services may rely on when they call a courier adapter, as the  *)
(* registry hands it out: the call is tried at most Attempts times, the    *)
(* courier may act during any of them, a success is never invented, and    *)
(* "the courier is unavailable" is only said after the last try.           *)
(* OrderService calls couriers under this contract.                        *)
(***************************************************************************)
EXTENDS Naturals

CONSTANTS
  Calls,     \* the calls of a behaviour
  Attempts   \* RetryOptions.attempts, a positive number

VARIABLES
  phase,   \* "idle", "calling" or how the call ended
  try,     \* the number of the current try
  acted    \* has the courier carried out what the call asks for?

cvars == <<phase, try, acted>>

(* "refused" is an error that must not be retried, "unavailable" one that   *)
(* may be, "broken" an error that is none of the application's own.         *)
Endings == {"ok", "refused", "unavailable", "broken"}

CInit ==
  /\ phase = [c \in Calls |-> "idle"]
  /\ try = [c \in Calls |-> 0]
  /\ acted = [c \in Calls |-> FALSE]

Start(c) ==
  /\ phase[c] = "idle"
  /\ phase' = [phase EXCEPT ![c] = "calling"]
  /\ try' = [try EXCEPT ![c] = 1]
  /\ UNCHANGED acted

Act(c) ==
  /\ phase[c] = "calling"
  /\ acted' = [acted EXCEPT ![c] = TRUE]
  /\ UNCHANGED <<phase, try>>

TryAgain(c) ==
  /\ phase[c] = "calling" /\ try[c] < Attempts
  /\ try' = [try EXCEPT ![c] = @ + 1]
  /\ UNCHANGED <<phase, acted>>

End(c) ==
  /\ phase[c] = "calling"
  /\ \E ending \in Endings :
       /\ ending = "ok" => acted[c]
       /\ ending = "unavailable" => try[c] = Attempts
       /\ phase' = [phase EXCEPT ![c] = ending]
  /\ UNCHANGED <<try, acted>>

CNext == \E c \in Calls : Start(c) \/ Act(c) \/ TryAgain(c) \/ End(c)

CSpec == CInit /\ [][CNext]_cvars

=============================================================================
