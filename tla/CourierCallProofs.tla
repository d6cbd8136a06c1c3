-------------------------- MODULE CourierCallProofs -------------------------
(***************************************************************************)
(* What TLAPS proves about CourierCall, for any number of concurrent calls,*)
(* attempts and logins: its types, the completeness of the log, the use of *)
(* tokens, and that it implements CallContract.                            *)
(***************************************************************************)
EXTENDS CourierCall, TLAPS

-----------------------------------------------------------------------------
(* The inductive invariant *)

(* Where a call is determines how many of its requests are not in the log,  *)
(* and how many of those its audit array accounts for.                      *)
Accounting ==
  \A c \in Calls :
    /\ pc[c] \in {"idle", "auth"} => owed[c] = 0 /\ audit[c] = 0
    /\ pc[c] = "login" => owed[c] = 1 /\ audit[c] = 0
    /\ pc[c] = "sent" => owed[c] = audit[c] + 1 /\ audit[c] <= 1
    /\ pc[c] = "left" /\ error[c] # "broken" => owed[c] = audit[c]
    /\ pc[c] = "left" /\ error[c] = "broken" => audit[c] = 0
    /\ pc[c] \in Endings \ {"broken"} => owed[c] = 0

(* Logins are numbered in the order of their answers; after a refusal the   *)
(* cache is empty or holds the token of a login answered since, and so does *)
(* the request that goes out.                                               *)
LoginsGrow ==
  /\ token <= logins
  /\ \A c \in Calls :
       /\ since[c] <= logins
       /\ again[c] /\ pc[c] \in {"auth", "login"} => token = 0 \/ token > since[c]
       /\ again[c] /\ pc[c] = "sent" => hold[c] > since[c]

(* A call that leaves the adapter without an error did what it was to do.   *)
SuccessActed ==
  \A c \in Calls : pc[c] = "left" /\ error[c] = "none" => acted[c]

(* A call that has begun counts its attempt; one that has not was not       *)
(* refreshed.                                                               *)
Started ==
  \A c \in Calls : IF pc[c] = "idle" THEN ~again[c] ELSE attempt[c] >= 1

CallInv == TypeOK /\ Accounting /\ LoginsGrow /\ SuccessActed /\ Started

LEMMA PlaceFacts ==
  /\ {"idle", "auth", "login", "sent", "left"} \subseteq Places
  /\ Endings \subseteq Places
  /\ {"idle", "auth", "login", "sent", "left"} \cap Endings = {}
  /\ \A e \in Errors \cup {"none"} : EndingOf(e) \in Endings
  /\ \A e \in Errors \cup {"none"} : EndingOf(e) = "broken" <=> e = "broken"
  /\ \A e \in Errors \cup {"none"} : EndingOf(e) = "ok" => e = "none"
  /\ \A e \in Errors \cup {"none"} : EndingOf(e) = "unavailable" => e = "transport"
  /\ Endings = {"ok", "refused", "unavailable", "broken"}
  /\ Errors = {"auth", "transport", "business", "broken"}
BY DEF Places, Endings, Errors, EndingOf

LEMMA InitInv == Init => CallInv
<1> SUFFICES ASSUME Init PROVE CallInv
  OBVIOUS
<1> USE CallAssumption DEF Init
<1>1. TypeOK
  <2>1. token \in 0..MaxLogins /\ logins \in 0..MaxLogins
    OBVIOUS
  <2>2. fresh \in BOOLEAN
    OBVIOUS
  <2>3. pc \in [Calls -> Places] /\ error \in [Calls -> Errors \cup {"none"}]
    BY PlaceFacts
  <2>4. hold \in [Calls -> 0..MaxLogins] /\ since \in [Calls -> 0..MaxLogins]
    OBVIOUS
  <2>5. attempt \in [Calls -> 0..Attempts]
    OBVIOUS
  <2>6. audit \in [Calls -> 0..2] /\ owed \in [Calls -> 0..2]
    OBVIOUS
  <2>7. again \in [Calls -> BOOLEAN] /\ acted \in [Calls -> BOOLEAN]
    OBVIOUS
  <2> QED
    BY <2>1, <2>2, <2>3, <2>4, <2>5, <2>6, <2>7 DEF TypeOK
<1>2. Accounting /\ SuccessActed /\ Started
  BY DEF Accounting, SuccessActed, Started, Endings
<1>3. LoginsGrow
  BY DEF LoginsGrow
<1> QED
  BY <1>1, <1>2, <1>3 DEF CallInv

LEMMA BeginInv ==
  ASSUME CallInv, NEW c \in Calls, Begin(c)
  PROVE  CallInv'
<1> USE CallAssumption DEF Begin, Goto, client, CallInv, TypeOK
<1>1. TypeOK'
  BY PlaceFacts
<1>2. Accounting'
  BY DEF Accounting, Endings
<1>3. LoginsGrow'
  BY DEF LoginsGrow, Started
<1>4. SuccessActed' /\ Started'
  BY DEF SuccessActed, Started
<1> QED
  BY <1>1, <1>2, <1>3, <1>4

LEMMA UseCachedTokenInv ==
  ASSUME CallInv, NEW c \in Calls, UseCachedToken(c)
  PROVE  CallInv'
BY CallAssumption, PlaceFacts
DEF UseCachedToken, Usable, Send, Goto, client, CallInv, TypeOK, Accounting, LoginsGrow,
    SuccessActed, Started

LEMMA LoginInv ==
  ASSUME CallInv, NEW c \in Calls, Login(c)
  PROVE  CallInv'
BY CallAssumption, PlaceFacts
DEF Login, Goto, client, CallInv, TypeOK, Accounting, LoginsGrow,
    SuccessActed, Started

LEMMA LoginGrantedInv ==
  ASSUME CallInv, NEW c \in Calls, LoginGranted(c)
  PROVE  CallInv'
BY CallAssumption, PlaceFacts
DEF LoginGranted, Send, Goto, client, CallInv, TypeOK, Accounting, LoginsGrow,
    SuccessActed, Started

LEMMA LoginFailsInv ==
  ASSUME CallInv, NEW c \in Calls, LoginFails(c)
  PROVE  CallInv'
BY CallAssumption, PlaceFacts
DEF LoginFails, Leave, auditOf, Goto, client, CallInv, TypeOK, Accounting, LoginsGrow,
    SuccessActed, Started

LEMMA CarriedInv ==
  ASSUME CallInv, NEW c \in Calls, Carried(c)
  PROVE  CallInv'
BY CallAssumption, PlaceFacts
DEF Carried, Leave, auditOf, Goto, client, CallInv, TypeOK, Accounting, LoginsGrow,
    SuccessActed, Started

LEMMA NotCarriedInv ==
  ASSUME CallInv, NEW c \in Calls, NotCarried(c)
  PROVE  CallInv'
BY CallAssumption, PlaceFacts
DEF NotCarried, Leave, auditOf, Goto, client, CallInv, TypeOK, Accounting, LoginsGrow,
    SuccessActed, Started

LEMMA RefreshInv ==
  ASSUME CallInv, NEW c \in Calls, Refresh(c)
  PROVE  CallInv'
BY CallAssumption, PlaceFacts
DEF Refresh, Persist, recordMany, CallOnceMore, Goto, client, CallInv, TypeOK, Accounting, LoginsGrow,
    SuccessActed, Started

LEMMA RetryInv ==
  ASSUME CallInv, NEW c \in Calls, Retry(c)
  PROVE  CallInv'
BY CallAssumption, PlaceFacts
DEF Retry, Settled, retryable, Persist, recordMany, CallOnceMore, Goto, client, CallInv, TypeOK,
    Accounting, LoginsGrow,
    SuccessActed, Started

LEMMA ReturnInv ==
  ASSUME CallInv, NEW c \in Calls, Return(c)
  PROVE  CallInv'
BY CallAssumption, PlaceFacts
DEF Return, Settled, Persist, recordMany, Forget, Goto, client, CallInv, TypeOK,
    Accounting, LoginsGrow,
    SuccessActed, Started

LEMMA LapseInv == CallInv /\ Lapse => CallInv'
BY DEF Lapse, CallInv, TypeOK, Accounting, LoginsGrow,
    SuccessActed, Started

LEMMA StutterInv == CallInv /\ UNCHANGED vars => CallInv'
BY DEF vars, client, CallInv, TypeOK, Accounting, LoginsGrow,
    SuccessActed, Started

(* What is true when a call is begun stays true at every step.              *)
THEOREM InvariantHolds == Spec => []CallInv
<1>1. Init => CallInv
  BY InitInv
<1>2. CallInv /\ [Next]_vars => CallInv'
  <2>1. ASSUME CallInv, NEW c \in Calls, Begin(c) \/ Step(c) PROVE CallInv'
    BY <2>1, BeginInv, UseCachedTokenInv, LoginInv, LoginGrantedInv, LoginFailsInv,
       CarriedInv, NotCarriedInv, RefreshInv, RetryInv, ReturnInv DEF Step
  <2> QED
    BY <2>1, LapseInv, StutterInv DEF Next
<1> QED
  BY <1>1, <1>2, PTL DEF Spec

-----------------------------------------------------------------------------
(* What follows from it *)

(* Every variable keeps its type: no attempt beyond the last one, no more   *)
(* than two requests of an adapter call outside the log.                    *)
THEOREM CallTypes == Spec => []TypeOK
<1>1. CallInv => TypeOK
  BY DEF CallInv
<1> QED
  BY <1>1, InvariantHolds, PTL

(* Every request of an adapter call that ended in the application's own     *)
(* terms is in the log before the call goes on or returns.                  *)
THEOREM LogIsComplete == Spec => []EveryRequestIsLogged
<1>1. CallInv => EveryRequestIsLogged
  BY PlaceFacts DEF CallInv, Accounting, EveryRequestIsLogged
<1> QED
  BY <1>1, InvariantHolds, PTL

(* What a call sends after a refusal rests on a login that was answered     *)
(* since, for any number of calls that share the token.                     *)
THEOREM RefusedTokenDropped == Spec => []LoggedInSinceRefusal
<1>1. CallInv => LoggedInSinceRefusal
  BY DEF CallInv, LoginsGrow, LoggedInSinceRefusal
<1> QED
  BY <1>1, InvariantHolds, PTL

-----------------------------------------------------------------------------
(* The contract *)

PhaseOf(at) == IF at \in Endings \cup {"idle"} THEN at ELSE "calling"

Phase == [c \in Calls |-> PhaseOf(pc[c])]

LEMMA PhaseFacts ==
  /\ PhaseOf("idle") = "idle"
  /\ \A at \in {"auth", "login", "sent", "left"} : PhaseOf(at) = "calling"
  /\ \A e \in Endings : PhaseOf(e) = e
BY PlaceFacts DEF PhaseOf

(* Moving one call moves its phase and no other.                            *)
LEMMA PhaseMoves ==
  ASSUME pc \in [Calls -> Places], NEW c \in Calls, NEW at \in Places, Goto(c, at)
  PROVE  Phase' = [Phase EXCEPT ![c] = PhaseOf(at)]
BY DEF Goto, Phase

(* Each step of a call is a step of the contract or leaves it alone: begin  *)
(* is Start, the courier carrying the operation out is Act, a retry is      *)
(* TryAgain and the return is End.                                          *)
THEOREM ContractIsKept == Spec => KeepsContract
<1> DEFINE
  View == <<Phase, attempt, acted>>
<1>0. Phase = [c \in Calls |-> IF pc[c] \in Endings \cup {"idle"} THEN pc[c] ELSE "calling"]
  BY DEF Phase, PhaseOf
<1>1. Init => Contract!CInit
  BY DEF Init, Contract!CInit
<1>2. CallInv /\ [Next]_vars => [Contract!CNext]_(Contract!cvars)
  <2> SUFFICES ASSUME CallInv, [Next]_vars
               PROVE  Contract!CNext \/ UNCHANGED Contract!cvars
    OBVIOUS
  <2> USE PlaceFacts, PhaseFacts
  <2>t. /\ pc \in [Calls -> Places] /\ attempt \in [Calls -> 0..Attempts]
        /\ acted \in [Calls -> BOOLEAN] /\ error \in [Calls -> Errors \cup {"none"}]
    BY DEF CallInv, TypeOK
  <2>c. ASSUME NEW c \in Calls, pc[c] \in {"auth", "login", "sent", "left"},
               NEW at \in {"auth", "login", "sent", "left"}, Goto(c, at)
        PROVE  Phase' = Phase
    <3>1. Phase' = [Phase EXCEPT ![c] = "calling"]
      BY <2>c, <2>t, PhaseMoves
    <3>2. Phase[c] = "calling"
      BY <2>c DEF Phase
    <3> QED
      BY <3>1, <3>2 DEF Phase
  <2>s. ASSUME Phase' = Phase, UNCHANGED <<attempt, acted>>
        PROVE  UNCHANGED Contract!cvars
    BY <2>s, <1>0 DEF Contract!cvars, Phase, PhaseOf
  <2>1. ASSUME NEW c \in Calls, Begin(c) PROVE Contract!Start(c)
    <3>1. Phase' = [Phase EXCEPT ![c] = "calling"]
      BY <2>1, <2>t, PhaseMoves DEF Begin
    <3>2. Phase[c] = "idle"
      BY <2>1 DEF Begin, Phase
    <3> QED
      BY <2>1, <3>1, <3>2 DEF Begin, Contract!Start, Phase, PhaseOf
  <2>2. ASSUME NEW c \in Calls,
               \/ UseCachedToken(c) \/ Login(c) \/ LoginGranted(c) \/ LoginFails(c)
               \/ NotCarried(c) \/ Refresh(c)
        PROVE  UNCHANGED Contract!cvars
    <3>1. Phase' = Phase
      BY <2>2, <2>c DEF UseCachedToken, Login, LoginGranted, LoginFails, NotCarried, Refresh,
                        Send, Leave, CallOnceMore
    <3>2. UNCHANGED <<attempt, acted>>
      BY <2>2 DEF UseCachedToken, Login, LoginGranted, LoginFails, NotCarried, Refresh
    <3> QED
      BY <3>1, <3>2, <2>s
  <2>3. ASSUME NEW c \in Calls, Carried(c) PROVE Contract!Act(c)
    <3>1. Phase' = Phase
      BY <2>3, <2>c DEF Carried, Leave
    <3>2. Phase[c] = "calling"
      BY <2>3 DEF Carried, Phase
    <3> QED
      BY <2>3, <3>1, <3>2 DEF Carried, Contract!Act, Phase, PhaseOf
  <2>4. ASSUME NEW c \in Calls, Retry(c) PROVE Contract!TryAgain(c)
    <3>1. Phase' = Phase
      BY <2>4, <2>c DEF Retry, Settled, CallOnceMore
    <3>2. Phase[c] = "calling"
      BY <2>4 DEF Retry, Settled, Phase
    <3> QED
      BY <2>4, <3>1, <3>2 DEF Retry, Contract!TryAgain, Phase, PhaseOf
  <2>5. ASSUME NEW c \in Calls, Return(c) PROVE Contract!End(c)
    <3> DEFINE ending == EndingOf(error[c])
    <3>1. ending \in Endings /\ ending \in Places
      BY <2>t
    <3>2. Phase' = [Phase EXCEPT ![c] = ending]
      BY <2>5, <2>t, <3>1, PhaseMoves DEF Return
    <3>3. Phase[c] = "calling"
      BY <2>5 DEF Return, Settled, Phase
    <3>4. ending = "ok" => acted[c]
      BY <2>5, <2>t DEF Return, Settled, CallInv, SuccessActed
    <3>5. ending = "unavailable" => attempt[c] = Attempts
      BY <2>5, <2>t DEF Return, retryable
    <3>6. UNCHANGED <<attempt, acted>>
      BY <2>5 DEF Return
    <3> QED
      BY <3>1, <3>2, <3>3, <3>4, <3>5, <3>6
      DEF Contract!End, Contract!Endings, Endings, Phase, PhaseOf
  <2>6. ASSUME Lapse \/ UNCHANGED vars
        PROVE  UNCHANGED Contract!cvars
    BY <2>6 DEF Lapse, vars, Contract!cvars
  <2> QED
    BY <2>1, <2>2, <2>3, <2>4, <2>5, <2>6 DEF Next, Step, Contract!CNext
<1> QED
  BY <1>1, <1>2, InvariantHolds, PTL DEF Spec, KeepsContract, Contract!CSpec

=============================================================================
