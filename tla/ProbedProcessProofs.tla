------------------------- MODULE ProbedProcessProofs -------------------------
(***************************************************************************)
(* What TLAPS proves about a process that boots, serves, answers readiness *)
(* requests and shuts down: every step is one of ProcessLifecycle, of      *)
(* Readiness or of both, so each invariant is proved of the part it speaks *)
(* of and carried over.                                                    *)
(***************************************************************************)
EXTENDS ProbedProcess, FiniteSetTheorems, TLAPS

-----------------------------------------------------------------------------
(* The lifecycle *)

Late == {"queue", "pool", "end"}

(* What a shutdown has behind it at each of its steps: from the first on no *)
(* connection is accepted, from the second on none is open and a worker that*)
(* was not replaced since takes no job, and its jobs are waited for, from   *)
(* the third on it has none; only then are the queue and the pool closed.   *)
(* None of it is reached before the process is up.                          *)
ShutdownInOrder ==
  /\ state = "booting" => /\ ~ShuttingDown /\ ~listening
                          /\ worker = "none"
  /\ worker = "none" => jobs = {}
  /\ role = "worker" => Connected = {}
  /\ \A s \in Signals :
       /\ steps[s] # "none" => ~listening
       /\ steps[s] \in {"worker"} \cup Late =>
            Connected = {} /\ (late \/ worker # "taking")
       /\ steps[s] = "worker" => late \/ jobs \subseteq waits[s]
       /\ steps[s] \in Late => late \/ jobs = {}
  /\ ~queue \/ pool # "open" => \E s \in Signals : steps[s] \in {"pool", "end"}
  /\ exit = "0" => \E s \in Signals : steps[s] = "end"

LifeInv == TypeOK /\ ShutdownInOrder

LEMMA InitLife == Init => LifeInv
<1> SUFFICES ASSUME Init PROVE LifeInv
  OBVIOUS
<1>1. TypeOK
  BY DEF Init, TypeOK
<1>2. ShutdownInOrder
  BY DEF Init, ShutdownInOrder, ShuttingDown, Late, Connected
<1>3. QED
  BY <1>1, <1>2 DEF LifeInv

LEMMA ServeLife ==
  ASSUME LifeInv, Serve
  PROVE  LifeInv'
<1>1. ASSUME NEW c \in Conns, NEW next \in {"none", "idle", "busy", "left"}, state = "up",
             conns' = [conns EXCEPT ![c] = next],
             listening \/ c \in Connected \/ next = "none",
             UNCHANGED <<role, state, exit, announced, listening, work, steps, forced, stores>>
      PROVE  LifeInv'
  <2>1. TypeOK'
    BY <1>1 DEF LifeInv, TypeOK, work, stores
  <2>2. ShutdownInOrder'
    BY <1>1 DEF LifeInv, TypeOK, ShutdownInOrder, ShuttingDown, Late, Connected, work, stores
  <2>3. QED
    BY <2>1, <2>2 DEF LifeInv
<1>2. ASSUME NEW c \in Conns, Accept(c) \/ Reuse(c) \/ Respond(c) \/ HangUp(c)
      PROVE  LifeInv'
  BY <1>1, <1>2 DEF Accept, Reuse, Respond, HangUp, Connected
<1>3. ASSUME NEW j \in Slots, TakeJob(j) \/ FinishJob(j)
      PROVE  LifeInv'
  <2>1. TypeOK'
    BY <1>3 DEF TakeJob, FinishJob, LifeInv, TypeOK, http, stores
  <2>2. ShutdownInOrder'
    BY <1>3 DEF TakeJob, FinishJob, LifeInv, TypeOK, ShutdownInOrder, ShuttingDown, Late, http,
                Connected, stores
  <2>3. QED
    BY <2>1, <2>2 DEF LifeInv
<1>4. CASE Replace
  <2>1. TypeOK'
    BY <1>4 DEF Replace, LifeInv, TypeOK, http, stores
  <2>2. ShutdownInOrder'
    BY <1>4 DEF Replace, LifeInv, TypeOK, ShutdownInOrder, ShuttingDown, Late, Connected, http,
                stores
  <2>3. QED
    BY <2>1, <2>2 DEF LifeInv
<1>5. QED
  BY <1>2, <1>3, <1>4 DEF Serve

LEMMA ShutdownLife ==
  ASSUME LifeInv, NEW s \in Signals, Shutdown(s)
  PROVE  LifeInv'
<1> USE DEF LifeInv
<1>1. TypeOK'
  <2>1. CASE SignalServer(s)
    BY <2>1 DEF SignalServer, TypeOK, work, stores
  <2>2. CASE SignalWorker(s)
    BY <2>2 DEF SignalWorker, CloseWorker, TypeOK, http, stores
  <2>3. CASE Drained(s)
    BY <2>3 DEF Drained, CloseWorker, TypeOK, http, stores
  <2>4. CASE WorkerClosed(s) \/ QueueClosed(s) \/ PoolEnded(s) \/ CloseFails(s)
    BY <2>4 DEF WorkerClosed, QueueClosed, PoolEnded, CloseFails, TypeOK, http, work, stores
  <2>5. CASE ExitCleanly(s) \/ ForcedExit(s)
    BY <2>5 DEF ExitCleanly, ForcedExit, Exit, TypeOK, http, work, stores
  <2>6. QED
    BY <2>1, <2>2, <2>3, <2>4, <2>5 DEF Shutdown
<1>2. CASE SignalServer(s)
  <2>1. ShutdownInOrder'
    BY <1>2 DEF SignalServer, TypeOK, ShutdownInOrder, ShuttingDown, Late, Connected, work, stores
  <2>2. QED
    BY <1>1, <2>1
<1>3. CASE SignalWorker(s)
  <2>1. ShutdownInOrder'
    BY <1>3 DEF SignalWorker, CloseWorker, TypeOK, ShutdownInOrder, ShuttingDown, Late,
                Connected, http, stores
  <2>2. QED
    BY <1>1, <2>1
<1>4. CASE Drained(s)
  <2>1. ShutdownInOrder'
    BY <1>4 DEF Drained, CloseWorker, TypeOK, ShutdownInOrder, ShuttingDown, Late,
                Connected, http, stores
  <2>2. QED
    BY <1>1, <2>1
<1>5. CASE WorkerClosed(s)
  <2>1. ShutdownInOrder'
    BY <1>5 DEF WorkerClosed, TypeOK, ShutdownInOrder, ShuttingDown, Late, Connected,
                http, work, stores
  <2>2. QED
    BY <1>1, <2>1
<1>6. CASE QueueClosed(s)
  <2>1. ShutdownInOrder'
    BY <1>6 DEF QueueClosed, TypeOK, ShutdownInOrder, ShuttingDown, Late, Connected, http, work
  <2>2. QED
    BY <1>1, <2>1
<1>7. CASE PoolEnded(s)
  <2>1. ShutdownInOrder'
    BY <1>7 DEF PoolEnded, TypeOK, ShutdownInOrder, ShuttingDown, Late, Connected, http, work
  <2>2. QED
    BY <1>1, <2>1
<1>8. CASE CloseFails(s)
  <2>1. ShutdownInOrder'
    BY <1>8 DEF CloseFails, TypeOK, ShutdownInOrder, ShuttingDown, Late, Connected, http, work, stores
  <2>2. QED
    BY <1>1, <2>1
<1>9. CASE ExitCleanly(s) \/ ForcedExit(s)
  <2>1. ShutdownInOrder'
    BY <1>9 DEF ExitCleanly, ForcedExit, Exit, TypeOK, ShutdownInOrder, ShuttingDown, Late,
                Connected, http, work, stores
  <2>2. QED
    BY <1>1, <2>1
<1>10. QED
  BY <1>2, <1>3, <1>4, <1>5, <1>6, <1>7, <1>8, <1>9 DEF Shutdown

LEMMA NextLife ==
  ASSUME LifeInv, [Next]_vars
  PROVE  LifeInv'
<1>1. CASE UNCHANGED vars
  BY <1>1 DEF vars, http, work, stores, LifeInv, TypeOK, ShutdownInOrder, ShuttingDown,
              Connected
<1>2. CASE BootFails \/ Crash
  <2>1. TypeOK'
    BY <1>2 DEF BootFails, Crash, Exit, http, work, stores, LifeInv, TypeOK
  <2>2. ShutdownInOrder'
    BY <1>2 DEF BootFails, Crash, Exit, http, work, stores, LifeInv, TypeOK, ShutdownInOrder,
                ShuttingDown, Connected
  <2>3. QED
    BY <2>1, <2>2 DEF LifeInv
<1>3. CASE Boot
  <2>1. TypeOK'
    BY <1>3 DEF Boot, StartWorker, stores, LifeInv, TypeOK
  <2>2. ShutdownInOrder'
    BY <1>3 DEF Boot, StartWorker, stores, LifeInv, TypeOK, ShutdownInOrder, ShuttingDown, Late,
                Connected
  <2>3. QED
    BY <2>1, <2>2 DEF LifeInv
<1>4. QED
  BY <1>1, <1>2, <1>3, ServeLife, ShutdownLife DEF Next

LEMMA LifeIsKept == LifeInv => InFlightIsKept
BY DEF LifeInv, ShutdownInOrder, InFlightIsKept, Waited, Connected, Busy, Late

(* Whatever runs beside it, the lifecycle keeps its types.                  *)
THEOREM LifecycleTypes == Spec => []TypeOK
<1>1. LifeInv => TypeOK
  BY DEF LifeInv
<1>2. QED
  BY InitLife, NextLife, <1>1, PTL DEF Spec

(* A process that exits with 0 left no client waiting and no job of the     *)
(* worker that close() found in place, and until then the queue and the pool*)
(* are open: however signals, connections, jobs, departing clients and      *)
(* replacements of the worker interleave.                                   *)
THEOREM InFlightKept == Spec => []InFlightIsKept
BY InitLife, NextLife, LifeIsKept, PTL DEF Spec

-----------------------------------------------------------------------------
(* The probes *)

(* A check that is up, and a dependency that could answer now, were heard   *)
(* of since the request came; a 200 is sent on checks that are all up.      *)
NoHearsay ==
  \A r \in Conns :
    /\ req[r] = "checking" =>
         \A d \in Deps : probe[r][d] = "up" \/ Probes!Alive(d) => d \in heard[r]
    /\ req[r] = "200" => heard[r] = Deps

ProbeInv == Probes!TypeOK /\ NoHearsay

LEMMA InitProbes == Probes!Init => ProbeInv
<1> SUFFICES ASSUME Probes!Init PROVE ProbeInv
  OBVIOUS
<1>1. Probes!TypeOK
  BY ProbedAssumption DEF Probes!Init, Probes!TypeOK, Probes!Conditions
<1>2. NoHearsay
  BY DEF Probes!Init, NoHearsay
<1>3. QED
  BY <1>1, <1>2 DEF ProbeInv

LEMMA ChangeProbes ==
  ASSUME ProbeInv, NEW d \in External, Probes!Change(d)
  PROVE  ProbeInv'
<1> USE DEF ProbeInv
<1>1. d \in Deps
  BY ProbedAssumption
<1>2. dep' \in [Deps -> Probes!Conditions]
  BY <1>1 DEF Probes!Change, Probes!TypeOK
<1>3. heard' \in [Conns -> SUBSET Deps]
  BY <1>1 DEF Probes!Change, Probes!TypeOK
<1>4. Probes!TypeOK'
  BY <1>2, <1>3 DEF Probes!Change, Probes!TypeOK
<1>5. ASSUME NEW r \in Conns
      PROVE  heard[r] \subseteq heard'[r] /\ (Probes!Alive(d)' => d \in heard'[r])
  BY <1>1 DEF Probes!Change, Probes!TypeOK, Probes!Alive
<1>6. \A e \in Deps : e # d => dep'[e] = dep[e]
  BY <1>1 DEF Probes!Change, Probes!TypeOK
<1>7. ASSUME NEW r \in Conns, req'[r] = "checking", NEW e \in Deps,
             probe'[r][e] = "up" \/ Probes!Alive(e)'
      PROVE  e \in heard'[r]
  BY <1>5, <1>6, <1>7 DEF Probes!Change, NoHearsay, Probes!Alive
<1>8. ASSUME NEW r \in Conns, req'[r] = "200"
      PROVE  heard'[r] = Deps
  BY <1>3, <1>5, <1>8 DEF Probes!Change, NoHearsay
<1>9. QED
  BY <1>4, <1>7, <1>8 DEF NoHearsay

(* Asking, sending and taking the answer of one request.                    *)
LEMMA RequestProbes ==
  ASSUME ProbeInv, NEW r \in Conns, Probes!Ask(r) \/ Probes!Send(r) \/ Probes!Take(r)
  PROVE  ProbeInv'
<1> USE DEF ProbeInv
<1>1. CASE Probes!Ask(r)
  <2>1. Probes!TypeOK'
    <3>1. req' \in [Conns -> {"idle", "checking", "200", "503"}]
      BY <1>1 DEF Probes!Ask, Probes!TypeOK
    <3>2. probe' \in [Conns -> [Deps -> {"none", "queued", "waiting", "up", "down"}]]
      BY <1>1 DEF Probes!Ask, Probes!TypeOK
    <3>3. heard' \in [Conns -> SUBSET Deps]
      BY <1>1 DEF Probes!Ask, Probes!TypeOK
    <3>4. \A q \in Conns, d \in Deps : probe'[q][d] = "queued" => d = "postgres"
      BY <1>1 DEF Probes!Ask, Probes!TypeOK
    <3>5. QED
      BY <1>1, <3>1, <3>2, <3>3, <3>4 DEF Probes!Ask, Probes!TypeOK
  <2>2. NoHearsay'
    BY <1>1 DEF Probes!Ask, Probes!TypeOK, NoHearsay, Probes!Alive
  <2>3. QED
    BY <2>1, <2>2
<1>2. CASE Probes!Send(r)
  <2>1. Probes!TypeOK'
    BY <1>2 DEF Probes!Send, Probes!TypeOK
  <2>2. \A q \in Conns \ {r} : req'[q] = req[q]
    BY <1>2 DEF Probes!Send, Probes!TypeOK
  <2>3. req'[r] = "200" => heard[r] = Deps
    BY <1>2 DEF Probes!Send, Probes!TypeOK, NoHearsay
  <2>4. req'[r] # "checking"
    BY <1>2 DEF Probes!Send, Probes!TypeOK
  <2>5. NoHearsay'
    BY <1>2, <2>2, <2>3, <2>4 DEF Probes!Send, NoHearsay, Probes!Alive
  <2>6. QED
    BY <2>1, <2>5
<1>3. CASE Probes!Take(r)
  <2>1. Probes!TypeOK'
    BY <1>3 DEF Probes!Take, Probes!TypeOK
  <2>2. NoHearsay'
    BY <1>3 DEF Probes!Take, Probes!TypeOK, NoHearsay, Probes!Alive
  <2>3. QED
    BY <2>1, <2>2
<1>4. QED
  BY <1>1, <1>2, <1>3

(* A check gets its client, its answer or its timeout.                      *)
LEMMA SettleProbes ==
  ASSUME ProbeInv, NEW r \in Conns, NEW d \in Deps,
         Probes!Settle(r, d) \/ (d = "postgres" /\ Probes!Connect(r))
  PROVE  ProbeInv'
<1> USE DEF ProbeInv
<1>1. PICK end \in {"waiting", "up", "down"} :
        /\ probe' = [probe EXCEPT ![r][d] = end]
        /\ end = "up" => probe[r][d] = "waiting" /\ Probes!Alive(d)
  BY DEF Probes!Settle, Probes!Connect, Probes!Answer, Probes!Reject, Probes!Lapse
<1>2. UNCHANGED <<dep, req, others, heard>> /\ (stale' = stale \/ stale' = Probes!Late(stale))
  BY DEF Probes!Settle, Probes!Connect, Probes!Answer, Probes!Reject, Probes!Lapse
<1>3. stale' \in 0..Clients
  BY <1>2, ProbedAssumption DEF Probes!TypeOK, Probes!Late
<1>4. probe' \in [Conns -> [Deps -> {"none", "queued", "waiting", "up", "down"}]]
  BY <1>1 DEF Probes!TypeOK
<1>5. \A q \in Conns, e \in Deps :
        \/ q = r /\ e = d /\ probe'[q][e] = end
        \/ (q # r \/ e # d) /\ probe'[q][e] = probe[q][e]
  BY <1>1 DEF Probes!TypeOK
<1>6. Probes!TypeOK'
  BY <1>2, <1>3, <1>4, <1>5 DEF Probes!TypeOK
<1>7. NoHearsay'
  BY <1>1, <1>2, <1>5 DEF NoHearsay, Probes!Alive
<1>8. QED
  BY <1>6, <1>7

LEMMA RunningIsFinite == Probes!Cardinality(Probes!Running) \in Nat
<1>1. Probes!Running \subseteq Conns
  BY DEF Probes!Running
<1>2. Cardinality(Probes!Running) \in Nat
  BY <1>1, ProbedAssumption, FS_Subset, FS_CardinalityType
<1>3. Probes!Cardinality(Probes!Running) = Cardinality(Probes!Running)
  BY DEF Probes!Cardinality, Cardinality
<1>4. QED
  BY <1>2, <1>3

(* Other requests take clients of the pool, give them back and are late.    *)
LEMMA TrafficProbes ==
  ASSUME ProbeInv, Probes!Traffic \/ Probes!LateAnswer
  PROVE  ProbeInv'
<1>1. UNCHANGED <<dep, req, probe, heard>>
  BY DEF Probes!Traffic, Probes!Borrow, Probes!GiveBack, Probes!Hang, Probes!LateAnswer
<1>2. others' \in 0..Clients
  <2>1. CASE Probes!Borrow
    <3>1. Probes!Cardinality(Probes!Running) + others + stale < Clients
      BY <2>1, RunningIsFinite, ProbedAssumption
         DEF Probes!Borrow, Probes!PoolFull, ProbeInv, Probes!TypeOK
    <3>2. QED
      BY <2>1, <3>1, RunningIsFinite, ProbedAssumption DEF Probes!Borrow, ProbeInv, Probes!TypeOK
  <2>2. QED
    BY <2>1, ProbedAssumption
       DEF Probes!Traffic, Probes!GiveBack, Probes!Hang, Probes!LateAnswer, ProbeInv, Probes!TypeOK
<1>3. stale' \in 0..Clients
  BY ProbedAssumption
     DEF Probes!Traffic, Probes!Borrow, Probes!GiveBack, Probes!Hang, Probes!LateAnswer,
         Probes!Late, ProbeInv, Probes!TypeOK
<1>4. QED
  BY <1>1, <1>2, <1>3 DEF ProbeInv, Probes!TypeOK, NoHearsay, Probes!Alive

LEMMA NextProbes ==
  ASSUME ProbeInv, [Probes!Next]_probing
  PROVE  ProbeInv'
<1>1. ASSUME NEW r \in Conns, Probes!Connect(r)
      PROVE  ProbeInv'
  BY <1>1, SettleProbes, ProbedAssumption
<1>2. CASE UNCHANGED probing
  BY <1>2 DEF probing, ProbeInv, Probes!TypeOK, NoHearsay, Probes!Alive
<1>3. QED
  BY <1>1, <1>2, ChangeProbes, RequestProbes, SettleProbes, TrafficProbes DEF Probes!Next

-----------------------------------------------------------------------------
(* The two together *)

(* A step of the whole is a step, or none, of each part.                    *)
LEMMA StepOfBoth ==
  ASSUME [ProbedNext]_allVars
  PROVE  [Next]_vars /\ [Probes!Next]_probing
<1>1. CASE UNCHANGED allVars
  BY <1>1 DEF allVars
<1>2. ASSUME NEW c \in Conns, ServeOther(c) \/ Leave(c)
      PROVE  [Next]_vars /\ [Probes!Next]_probing
  BY <1>2 DEF ServeOther, Leave, Next, Serve
<1>3. ASSUME NEW c \in Conns, AskReady(c)
      PROVE  [Next]_vars /\ [Probes!Next]_probing
  BY <1>3 DEF AskReady, Next, Serve, Probes!Next
<1>4. ASSUME NEW c \in Conns, AnswerReady(c)
      PROVE  [Next]_vars /\ [Probes!Next]_probing
  BY <1>4 DEF AnswerReady, Next, Serve, Probes!Next
<1>5. ASSUME NEW c \in Conns, Check(c)
      PROVE  [Next]_vars /\ [Probes!Next]_probing
  BY <1>5 DEF Check, Connect, Probes!Next
<1>6. CASE Environment \/ Traffic
  BY <1>6 DEF Environment, Traffic, Probes!Traffic, Probes!Next
<1>7. CASE Jobs
  BY <1>7 DEF Jobs, Next, Serve
<1>8. ASSUME NEW s \in Signals, Stop(s)
      PROVE  [Next]_vars /\ [Probes!Next]_probing
  BY <1>8 DEF Stop, Next
<1>9. CASE StartOrDie
  BY <1>9 DEF StartOrDie, Next
<1>10. QED
  BY <1>1, <1>2, <1>3, <1>4, <1>5, <1>6, <1>7, <1>8, <1>9 DEF ProbedNext

(* So what is proved of a part holds of the whole.                          *)
LEMMA ProbedImplementsLifecycle == ProbedSpec => Spec
<1>1. ProbedInit => Init
  BY DEF ProbedInit
<1>2. [ProbedNext]_allVars => [Next]_vars
  BY StepOfBoth
<1>3. QED
  BY <1>1, <1>2, PTL DEF ProbedSpec, Spec

LEMMA ProbedImplementsProbes == ProbedSpec => Probes!Init /\ [][Probes!Next]_probing
<1>1. ProbedInit => Probes!Init
  BY DEF ProbedInit
<1>2. [ProbedNext]_allVars => [Probes!Next]_probing
  BY StepOfBoth
<1>3. QED
  BY <1>1, <1>2, PTL DEF ProbedSpec

(* The shutdown keeps what is in flight also while readiness requests come, *)
(* lapse and leave their queries behind.                                    *)
THEOREM ProbedKeepsInFlight == ProbedSpec => []InFlightIsKept
BY ProbedImplementsLifecycle, InFlightKept, PTL

(* A 200 names only dependencies that could answer at some moment while     *)
(* that very request was being checked.                                     *)
THEOREM ReadyIsNeverHearsay == ProbedSpec => []ReadyMeansAlive
<1>1. ProbeInv => ReadyMeansAlive
  BY DEF ProbeInv, NoHearsay, ReadyMeansAlive, Probes!ReadyMeansAlive
<1>2. QED
  BY <1>1, InitProbes, NextProbes, ProbedImplementsProbes, PTL

(* Types of both parts, and a request that is being checked, or whose       *)
(* answer is under way, has a handler.                                      *)
BusyWithProbe == \A c \in Conns : req[c] # "idle" => conns[c] \in {"busy", "left"}

LEMMA NextBusy ==
  ASSUME TypeOK, Probes!TypeOK, BusyWithProbe, [ProbedNext]_allVars
  PROVE  BusyWithProbe'
<1> USE DEF BusyWithProbe
<1>1. CASE UNCHANGED allVars
  BY <1>1 DEF allVars, vars, http, probing
<1>2. ASSUME NEW c \in Conns, ServeOther(c) \/ Leave(c)
      PROVE  BusyWithProbe'
  BY <1>2 DEF ServeOther, Leave, probing, Accept, Reuse, Respond, HangUp, Busy, Connected, TypeOK
<1>3. ASSUME NEW c \in Conns, AskReady(c)
      PROVE  BusyWithProbe'
  BY <1>3 DEF AskReady, Accept, Reuse, TypeOK, Probes!Ask, Probes!TypeOK
<1>4. ASSUME NEW c \in Conns, AnswerReady(c)
      PROVE  BusyWithProbe'
  BY <1>4 DEF AnswerReady, Respond, TypeOK, Probes!Take, Probes!TypeOK
<1>5. ASSUME NEW c \in Conns, Check(c)
      PROVE  BusyWithProbe'
  <2>1. conns' = conns /\ \A q \in Conns : req[q] = "idle" => req'[q] = "idle"
    BY <1>5 DEF Check, Connect, vars, http, Probes!Send, Probes!Settle, Probes!Connect, Probes!Answer,
                Probes!Reject, Probes!Lapse, Probes!TypeOK
  <2>2. QED
    BY <2>1
<1>6. CASE Environment \/ Traffic
  BY <1>6 DEF Environment, Traffic, vars, http, Probes!LateAnswer, Probes!Change, Probes!Borrow,
              Probes!GiveBack, Probes!Hang
<1>7. CASE Jobs
  BY <1>7 DEF Jobs, TakeJob, FinishJob, Replace, http, probing
<1>8. ASSUME NEW s \in Signals, Stop(s)
      PROVE  BusyWithProbe'
  BY <1>8 DEF Stop, probing, Shutdown, SignalServer, SignalWorker, Drained, WorkerClosed,
              QueueClosed, PoolEnded, CloseFails, ExitCleanly, ForcedExit, http, TypeOK
<1>9. CASE StartOrDie
  BY <1>9 DEF StartOrDie, BootFails, Boot, Crash, http, probing
<1>10. QED
  BY <1>1, <1>2, <1>3, <1>4, <1>5, <1>6, <1>7, <1>8, <1>9 DEF ProbedNext

THEOREM ProbedTypes == ProbedSpec => []ProbedTypeOK
<1>1. LifeInv => TypeOK
  BY DEF LifeInv
<1>2. ProbeInv => Probes!TypeOK
  BY DEF ProbeInv
<1>3. ProbedInit => LifeInv /\ ProbeInv /\ BusyWithProbe
  BY InitLife, InitProbes DEF ProbedInit, Probes!Init, BusyWithProbe
<1>4. LifeInv /\ ProbeInv /\ BusyWithProbe /\ [ProbedNext]_allVars
        => (LifeInv /\ ProbeInv /\ BusyWithProbe)'
  BY <1>1, <1>2, NextLife, NextProbes, NextBusy, StepOfBoth
<1>5. LifeInv /\ ProbeInv /\ BusyWithProbe => ProbedTypeOK
  BY <1>1, <1>2 DEF ProbedTypeOK, BusyWithProbe
<1>6. QED
  BY <1>3, <1>4, <1>5, PTL DEF ProbedSpec

=============================================================================
