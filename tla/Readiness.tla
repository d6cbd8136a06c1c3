------------------------------ MODULE Readiness ------------------------------
(***************************************************************************)
(* GET /health/ready: every request probes all dependencies at once, each  *)
(* probe against a timer of its own, and answers 200 if all are up, else   *)
(* 503. The pool of Postgres clients is shared with all other requests and *)
(* jobs. A query that is not answered in time, a probe's or another's,     *)
(* keeps its client, or its place in the queue for one, until Postgres     *)
(* reacts.                                                                 *)
(*                                                                         *)
(*   dep     the condition of each dependency                              *)
(*   req     each request: "idle", "checking", or the code it was answered *)
(*   probe   its probes: "none", "queued" (for a client of the pool),      *)
(*           "waiting", then the status of the check                       *)
(*   others  clients of the pool with a query of some other request or job *)
(*   stale   queries in the pool that were not answered in time, counted up*)
(*           to Clients: a longer queue only takes longer to drain         *)
(*   heard   the dependencies that were able to answer at some moment      *)
(*           since the request came (history)                              *)
(*                                                                         *)
(* The requests are connections of a process, whose life ProbedProcess     *)
(* adds; the fairness and what rests on it is stated there.                *)
(***************************************************************************)
EXTENDS Naturals, FiniteSets

CONSTANTS
  Requests,    \* readiness requests at a time
  Deps,        \* the names of healthChecks
  External,    \* those that can fail; the registry is fixed at boot
  Clients      \* the size of the Postgres pool

VARIABLES dep, req, probe, others, stale, heard

vars == <<dep, req, probe, others, stale, heard>>

-----------------------------------------------------------------------------
(* "prompt" answers well within PROBE_TIMEOUT_MS, which includes the wait   *)
(* for a client behind queries that are answered as fast; "slow" about then,*)
(* be it that requests outgrow the pool; "failing" rejects, "hanging" says  *)
(* nothing.                                                                 *)
Conditions == {"prompt", "slow", "failing", "hanging"}

Alive(d) == dep[d] \in {"prompt", "slow"}

Open(r, d) == probe[r][d] \in {"queued", "waiting"}

Running == {r \in Requests : probe[r]["postgres"] = "waiting"}

PoolFull == Cardinality(Running) + others + stale >= Clients

Late(n) == IF n < Clients THEN n + 1 ELSE n

(* A dependency changes its condition.                                      *)
Change(d) ==
  /\ \E c \in Conditions \ {dep[d]} : dep' = [dep EXCEPT ![d] = c]
  /\ heard' = [r \in Requests |->
                 IF dep'[d] \in {"prompt", "slow"} THEN heard[r] \cup {d} ELSE heard[r]]
  /\ UNCHANGED <<req, probe, others, stale>>

(* Mutant: a check that was up is not made again.                           *)
AskKeepsUp(r) ==
  /\ req[r] = "idle"
  /\ req' = [req EXCEPT ![r] = "checking"]
  /\ probe' = [probe EXCEPT ![r] = [d \in Deps |->
                 IF probe[r][d] = "up" THEN "up"
                 ELSE IF d = "postgres" THEN "queued" ELSE "waiting"]]
  /\ heard' = [heard EXCEPT ![r] = {d \in Deps : Alive(d)}]
  /\ UNCHANGED <<dep, others, stale>>

Ask(r) ==
  /\ req[r] = "idle"
  /\ req' = [req EXCEPT ![r] = "checking"]
  /\ probe' = [probe EXCEPT ![r] =
                 [d \in Deps |-> IF d = "postgres" THEN "queued" ELSE "waiting"]]
  /\ heard' = [heard EXCEPT ![r] = {d \in Deps : Alive(d)}]
  /\ UNCHANGED <<dep, others, stale>>

Connect(r) ==
  /\ probe[r]["postgres"] = "queued" /\ ~PoolFull
  /\ probe' = [probe EXCEPT ![r]["postgres"] = "waiting"]
  /\ UNCHANGED <<dep, req, others, stale, heard>>

Answer(r, d) ==
  /\ probe[r][d] = "waiting" /\ Alive(d)
  /\ probe' = [probe EXCEPT ![r][d] = "up"]
  /\ UNCHANGED <<dep, req, others, stale, heard>>

(* The probe throws or rejects.                                             *)
Reject(r, d) ==
  /\ Open(r, d) /\ dep[d] = "failing"
  /\ probe' = [probe EXCEPT ![r][d] = "down"]
  /\ UNCHANGED <<dep, req, others, stale, heard>>

(* Mutant: no bound, the probe is waited for.                               *)
LapseNever(r, d) == FALSE /\ UNCHANGED vars

(* The timer wins. It does not if the dependency answers promptly, unless   *)
(* old queries have all clients of the pool.                                *)
Lapse(r, d) ==
  /\ Open(r, d)
  /\ dep[d] # "prompt" \/ (probe[r][d] = "queued" /\ stale = Clients)
  /\ probe' = [probe EXCEPT ![r][d] = "down"]
  /\ stale' = IF d = "postgres" THEN Late(stale) ELSE stale
  /\ UNCHANGED <<dep, req, others, heard>>

(* A query of another request or job gets a client of the pool.             *)
Borrow ==
  /\ ~PoolFull
  /\ others' = others + 1
  /\ UNCHANGED <<dep, req, probe, stale, heard>>

(* Postgres answers it, or rejects it.                                      *)
GiveBack ==
  /\ others > 0 /\ dep["postgres"] # "hanging"
  /\ others' = others - 1
  /\ UNCHANGED <<dep, req, probe, stale, heard>>

(* It is not answered in time, in its client or in the queue for one.       *)
Hang ==
  /\ dep["postgres"] # "prompt"
  /\ \/ others > 0 /\ others' = others - 1
     \/ PoolFull /\ others' = others
  /\ stale' = Late(stale)
  /\ UNCHANGED <<dep, req, probe, heard>>

(* Mutant: a query that nobody waits for is never finished.                 *)
LateAnswerLost == FALSE /\ UNCHANGED vars

(* Mutant: a client is given back twice.                                    *)
LateAnswerTwice ==
  /\ dep["postgres"] # "hanging"
  /\ stale' = stale - 1
  /\ UNCHANGED <<dep, req, probe, others, heard>>

(* Postgres reacts to a query that was late; its client is free.            *)
LateAnswer ==
  /\ stale > 0 /\ dep["postgres"] # "hanging"
  /\ stale' = stale - 1
  /\ UNCHANGED <<dep, req, probe, others, heard>>

(* Promise.all has every check.                                             *)
Send(r) ==
  /\ req[r] = "checking" /\ \A d \in Deps : probe[r][d] \in {"up", "down"}
  /\ req' = [req EXCEPT ![r] = IF \A d \in Deps : probe[r][d] = "up" THEN "200" ELSE "503"]
  /\ UNCHANGED <<dep, probe, others, stale, heard>>

(* The client has the answer.                                               *)
Take(r) ==
  /\ req[r] \in {"200", "503"}
  /\ req' = [req EXCEPT ![r] = "idle"]
  /\ UNCHANGED <<dep, probe, others, stale, heard>>

-----------------------------------------------------------------------------
Init ==
  /\ dep = [d \in Deps |-> "prompt"]
  /\ req = [r \in Requests |-> "idle"]
  /\ probe = [r \in Requests |-> [d \in Deps |-> "none"]]
  /\ others = 0 /\ stale = 0
  /\ heard = [r \in Requests |-> {}]

(* What becomes of a check: the dependency's answer or the timer.           *)
Settle(r, d) == Answer(r, d) \/ Reject(r, d) \/ Lapse(r, d)

(* What other requests and jobs do to the pool.                             *)
Traffic == Borrow \/ GiveBack \/ Hang

Next ==
  \/ \E d \in External : Change(d)
  \/ \E r \in Requests :
       Ask(r) \/ Connect(r) \/ Send(r) \/ Take(r) \/ (\E d \in Deps : Settle(r, d))
  \/ Traffic \/ LateAnswer

-----------------------------------------------------------------------------
(* Properties *)

TypeOK ==
  /\ dep \in [Deps -> Conditions]
  /\ req \in [Requests -> {"idle", "checking", "200", "503"}]
  /\ probe \in [Requests -> [Deps -> {"none", "queued", "waiting", "up", "down"}]]
  /\ others \in 0..Clients /\ stale \in 0..Clients
  /\ heard \in [Requests -> SUBSET Deps]
  /\ \A r \in Requests, d \in Deps : probe[r][d] = "queued" => d = "postgres"

(* A 200 is never hearsay: each dependency could answer at some moment      *)
(* while that very request was being checked, whatever the probes of other  *)
(* and earlier requests found.                                              *)
ReadyMeansAlive == \A r \in Requests : req[r] = "200" => heard[r] = Deps

=============================================================================
