--------------------------- MODULE ProbedProcess ---------------------------
(***************************************************************************)
(* ProcessLifecycle and Readiness together: an orchestrator asks the API   *)
(* whether it is ready while it boots, serves and shuts down. A readiness  *)
(* request is a connection the drain waits for; a query still in the pool, *)
(* a probe's or another's, holds a client that pool.end() waits for.       *)
(***************************************************************************)
EXTENDS ProcessLifecycle, FiniteSets

CONSTANTS
  Probers,   \* the connections that may carry readiness requests
  Deps, External, Clients

ASSUME ProbedAssumption ==
  /\ IsFiniteSet(Conns) /\ Probers \subseteq Conns /\ Clients \in Nat \ {0}
  /\ External \subseteq Deps /\ "postgres" \in Deps

VARIABLES dep, req, probe, others, stale, heard

Probes == INSTANCE Readiness WITH Requests <- Conns

probing == <<dep, req, probe, others, stale, heard>>
allVars == <<vars, probing>>

-----------------------------------------------------------------------------
(* A request of any route but /health/ready comes and is answered.          *)
ServeOther(c) ==
  /\ req[c] = "idle"
  /\ Accept(c) \/ Reuse(c) \/ Respond(c)
  /\ UNCHANGED probing

(* A client disconnects; a check under way goes on.                         *)
Leave(c) == HangUp(c) /\ UNCHANGED probing

AskReady(c) == c \in Probers /\ (Accept(c) \/ Reuse(c)) /\ Probes!Ask(c)

(* The connection is free again once the client has the answer.             *)
AnswerReady(c) == Respond(c) /\ Probes!Take(c)

(* A pool that is being ended hands out no client.                          *)
Connect(c) == pool = "open" /\ Probes!Connect(c)

(* The checks go on as long as the process does.                            *)
Check(c) ==
  /\ state = "up"
  /\ Connect(c) \/ Probes!Send(c) \/ \E d \in Deps : Probes!Settle(c, d)
  /\ UNCHANGED vars

(* Handlers, jobs and the inserts of the audit log, which outlive them, use *)
(* the pool from the boot to its end.                                       *)
Traffic ==
  /\ state = "up"
  /\ (pool = "open" /\ Probes!Borrow) \/ Probes!GiveBack \/ Probes!Hang
  /\ UNCHANGED vars

Environment ==
  /\ state = "up"
  /\ Probes!LateAnswer \/ \E d \in External : Probes!Change(d)
  /\ UNCHANGED vars

Jobs == ((\E j \in Slots : TakeJob(j) \/ FinishJob(j)) \/ Replace) /\ UNCHANGED probing

(* pool.end() waits for the clients in use.                                 *)
Stop(s) ==
  /\ Shutdown(s)
  /\ pool # "ended" /\ pool' = "ended" => Probes!Running = {} /\ others = 0 /\ stale = 0
  /\ UNCHANGED probing

StartOrDie == (BootFails \/ Boot \/ Crash) /\ UNCHANGED probing

-----------------------------------------------------------------------------
ProbedInit == Init /\ Probes!Init

ProbedNext ==
  \/ \E c \in Conns :
       ServeOther(c) \/ Leave(c) \/ AskReady(c) \/ AnswerReady(c) \/ Check(c)
  \/ Traffic \/ Environment \/ Jobs
  \/ \E s \in Signals : Stop(s)
  \/ StartOrDie

(* While the process lives its timers fire, prompt dependencies answer, the *)
(* event loop goes on and a Postgres that is not hanging reacts to every    *)
(* query. The timer of a probe does not start again when the dependency     *)
(* changes its condition, and the pool serves its queue in order, so nobody *)
(* is passed over for ever. Nothing is assumed of clients and couriers.     *)
Living(A) == state = "up" /\ A /\ UNCHANGED vars

ProbedSpec ==
  /\ ProbedInit /\ [][ProbedNext]_allVars
  /\ \A s \in Signals : WF_allVars(ForcedExit(s) /\ UNCHANGED probing)
  /\ \A c \in Probers :
       /\ WF_allVars(Living(Probes!Send(c))) /\ SF_allVars(Living(Connect(c)))
       /\ WF_allVars(AnswerReady(c))
       /\ \A d \in Deps : SF_allVars(Living(Probes!Settle(c, d)))
  /\ WF_allVars(Living(Probes!GiveBack)) /\ WF_allVars(Living(Probes!LateAnswer))

-----------------------------------------------------------------------------
(* Properties *)

(* Only a request in flight is being checked.                               *)
ProbedTypeOK ==
  /\ TypeOK /\ Probes!TypeOK
  /\ \A c \in Conns : req[c] # "idle" => conns[c] \in {"busy", "left"}

(* Readiness' property, in a process that boots, drains and stops.          *)
ReadyMeansAlive == Probes!ReadyMeansAlive

(* A readiness request is answered whatever the dependencies do, unless the *)
(* process exits under it: "Without this bound the readiness probe hangs"   *)
(* (health.routes.ts:11, of Redis, whose commands queue while it is gone;   *)
(* the bound is on every probe, and Postgres is the one that may hang in    *)
(* the instance). In particular the drain of a shutdown never waits for a   *)
(* dependency by way of a probe.                                            *)
ReadinessAnswers ==
  \A c \in Probers : req[c] # "idle" ~> req[c] = "idle" \/ state = "exited"

(* Once every dependency answers promptly for good, the service is reported *)
(* ready for good: what hung in the pool during an outage, queries of probes*)
(* and of other requests and jobs, does not keep the probe down after it,   *)
(* and neither do requests that go on using the pool.                       *)
ReadinessReturns ==
  <>[](state = "up" /\ \A d \in Deps : dep[d] = "prompt")
    => <>[](\A c \in Probers : req[c] # "503")

=============================================================================
