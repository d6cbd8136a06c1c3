# A TLA+ verification project for the multi-courier integration platform

The platform takes orders over HTTP, books them with couriers (UrbaneBolt over
HTTP, and a mock), tracks and cancels the shipments, and works through bulk
submissions in a separate worker process behind a BullMQ queue. Its state is in
Postgres; its hard part is what happens *between* two database statements or
courier calls: other requests, other chunks, a crash, a timeout whose call the
courier handles after all.

These modules model that part. Paths below are relative to the repository (`src/...`
is its source directory). TLC checks every module on the instances the `.cfg`
files give; TLAPS proves the theorems of the `...Proofs` modules for every value
of the constants.

    tlc -workers 2 -config MCOrderOverlap.cfg MCOrderService
    for m in *Proofs.tla; do tlapm $m; done

## 1. Inventory

| Component | State | Operations | Modelled by |
|---|---|---|---|
| Orders: `orders/domain/order.service.ts`, `order.repository.ts` | `orders` row: courier, status, AWB, last_tracked_at | create, retry, cancel, get, list | `OrderService` |
| Tracking: `tracking.service.ts`, `tracking-event.repository.ts`, `urbanebolt.status-map.ts` | the row's status and TTL; `tracking_events` | track | `Tracking` (and the status write in `OrderService`) |
| Bulk: `bulk-order.service.ts`, `bulk-batch.repository.ts`, `bulk-create.processor.ts` | `bulk_batches`, `bulk_batch_items`, the rows, chunk jobs | submit, processChunk, get batch | `BulkOrders` |
| Courier call: `decorators/*.ts`, `urbanebolt.client.ts`, `courier-api-log.repository.ts` | the client's token, the audit array of a call, `courier_api_logs` | retry, auth refresh, audit, authenticate, request | `CourierCall`, implementing `CallContract` |
| Queue library: `libraries/queue/index.ts` | the worker, `stalledChecks`, `closing` | check (timer), close | `WorkerSupervisor` |
| UrbaneBolt adapter: `urbanebolt.adapter.ts`, `.errors.ts`, `.schemas.ts`, `.mapper.ts` | none | map requests, classify answers | partly: `ManifestAnswer` (the answer to a manifest), `Tracking` (codes and times) |
| Mock courier: `integrations/mock` | ledger of shipments, AWB counter | create, track, cancel | partly: the ledger rules are the courier of `OrderService` |
| Registry and wiring: `courier.registry.ts`, `container.ts` | map of adapters, fixed at start | lookup; order of the decorators | partly |
| HTTP entry points: controllers, schemas, presenter, error handler | none | parse, present | partly: each handler is the request it starts |
| Start and shutdown: `server.ts`, `worker.ts`, `container.shutdown` | draining flag, forced-exit timers, the stores' open or closed | boot, serve, drain, exit | `ProcessLifecycle` |
| Health probes: `health.routes.ts` | none of their own; queries left in the Postgres pool | liveness, readiness | `Readiness`, composed with the process in `ProbedProcess` |
| Configuration, logger, database client, OpenAPI | none over time | | not modelled |

How they interact. Controllers call the services; the services read and write
Postgres through the repositories, one statement at a time and (but for
`batches.create`) outside transactions, and call couriers through adapters the
registry holds. The container wraps each UrbaneBolt adapter as retry(auth-refresh(audit(adapter))).
Bulk submission hands chunks to BullMQ (Redis); `worker.ts` runs
`processChunk` on them, with `superviseWorker` watching that the queue is
consumed. Requests and workers share nothing but Postgres, Redis, the couriers'
own books and, within a process, UrbaneBolt's token.

What is hard, and what makes each component correct:

* **Orders.** Two requests on one order call the courier at once; a client
  changes its mind about the partner; a request dies after the insert; an answer
  is lost and the repeated call is told "duplicate"; a call given up on arrives
  late. Correct: no shipment without a row, no AWB without a shipment, an AWB
  never lost, a 201 never taken back, no courier that was not asked, reconciliation and
  cancellation never claimed wrongly. One courier per order is what the documents want
  and the code does not ensure (section 5).
* **Tracking.** Refreshes overlap, answers are written out of order, a cancel
  runs beside them. Correct: no gaps in the history, the history covers the status
  answered, the row catches up with the courier in the end.
* **Bulk.** Chunks of a batch end side by side and close it with a count and an
  update; chunks are run again after a failure or stall, or twice at once when a
  lock is lost; two submissions share an order, and may name different couriers for it; HTTP
  requests work on the same orders. Correct: the verdict agrees with the items, outcomes are
  final, a success has a shipment, at each courier one batch claims it, a completed chunk
  left none of its orders PENDING, every chunk ends.
* **UrbaneBolt's answers.** A manifest is answered with two lists that need not follow
  the request: out of order, with repetitions, foreign orders, or errors without an order
  number. Correct: an order ends as the courier says of that order, on every path.
* **Courier call.** A token shared by concurrent calls lapses, is refused,
  dropped and renewed under them; errors pass through three decorators.
  Correct: the log is complete, after a refusal a call goes out on a login answered
  since, a call ends, within its attempts, in one of the ways the services know.
* **Supervision.** Checks are asynchronous and not serialised by the timer. Correct:
  consumption resumes, one worker at a time, none after close.
* **Process and probes.** Drain, inline worker, second signals and the forced exit race;
  clients leave while they are served, the worker is replaced under a shutdown;
  readiness requests overlap, are connections the drain waits for, and share a pool with all
  other queries, where late ones hold clients that `pool.end()` waits for. Correct: what
  somebody waits for does not lose its stores and is not dropped by a clean exit, a signal ends
  the process, a probe answers and tells the truth.

`PROJECT.json` lists the hazards line by line, with the properties that cover
each; those without a property say why.

## 2. Plan

Written, in this order: `OrderService` (the core: what an order row and the
couriers' books say of each other), `BulkOrders`, `CallContract` and
`CourierCall`, `WorkerSupervisor`, `Tracking`; proofs of the first and of the
courier call; then submissions that share an order in `BulkOrders`, `ManifestAnswer`,
`ProcessLifecycle`, `Readiness` and their composition `ProbedProcess`; last the contracts
`OrderContract` and `BatchContract`.

Composition. `CallContract` is the abstract call: the services rely on it and
`CourierCall` implements it, so the services' modules do not carry the
decorators. `OrderContract` and `BatchContract` are the life of an order and of a batch as
clients see it; `OrderService` and `BulkOrders` implement them. `OrderService` and `BulkOrders` both model `reserve` and the rows;
`BulkOrders` keeps of the HTTP requests what a chunk can meet (`HttpBegin`,
`HttpCall`, `HttpEnd`, `HttpDies`), and `OrderService` has their details. `Tracking` repeats
the status write of `OrderService` with events, TTL and a moving shipment.
`ManifestAnswer` computes the answers `BulkOrders` lets its courier give
(`MCBulkManifest` checks that the two agree). `ProbedProcess` runs the steps of
`Readiness` inside the process of `ProcessLifecycle`; what an exit does to a chunk or a
request is `WorkerDies` and `Die` of the modules above.

Proofs came in the order of the modules: `OrderServiceProofs`, `CourierCallProofs`,
`OrderStatusProofs` (which extends the first), `WorkerSupervisorProofs`, `TrackingProofs`,
`ProbedProcessProofs`, `BulkOrdersProofs` and `BulkBatchProofs` (which extends the one
before). Every safety property the runs check is now a theorem, but for those on
`ManifestAnswer` (section 6).

Left for later, most important first: the mock's books, which each process keeps for itself;
the tracking answer's fields; the wording and status codes of failures as clients see them
(`presentFailure`).

## 3. Modules

### OrderService

One step is one database statement or one event at a courier. A request is an
element of `Requests`; `task` says what it asks for, `pc` where it is, `seen`
the row it read, `attempt` and `reply` the courier call under way.

| Code | Actions |
|---|---|
| `create`: registry lookup, `reserve` (INSERT .. ON CONFLICT, then SELECT) | `RefuseUnknownPartner`, `InsertPending`, `InsertConflict`, `ReadBack` |
| `retry`, `cancel`, `track` up to the call | `LoadForRetry`, `LoadForCancel`, `LoadForTrack` |
| `dispatch`: the three ways out | `SaveCreated`, `SaveFailed`, `GiveUp` |
| `cancel`, `track` after the call | `SaveCancelled`, `SaveTracked`, `ReportRejection` |
| the retry decorator | `CallAgain`, `GiveUp` |
| crash, failing statement, exception nobody catches | `Die` |
| the courier (external) | `CourierBooks`, `CourierRefuses`, `CourierCancels`, `CourierReports`, `CourierRejects`, `PickUp` |
| a call whose caller gave up, handled later | `LateDelivery` |

A timeout before or after the courier acted is the same step of the caller,
`CallAgain`: if the courier had not acted, the message goes to `late`. An AWB is
represented by the courier that issued it, as a courier that has the order
number never books it again (UrbaneBolt answers with a duplicate error, the mock
too). `CREATED`, `IN_TRANSIT` (anything after pickup), `CANCELLED` and `UNKNOWN`
are the statuses the properties tell apart. The TTL is left to `Tracking`: a row
once tracked may be fresh or not.

Two constants describe clients rather than code. `Named[o]` is the set of
partners clients name for order `o`. `Overlap` says whether clients send
a create or retry of an order before the previous one was answered.

### OrderContract

What `OrderService` promises of an order, with requests, calls and late messages hidden:
`status` and `awb` of the row, and the couriers' `ledger`. The refinement mapping takes the
two columns out of the rows; the ledger is the same.

| Action | Steps of `OrderService` that map to it |
|---|---|
| `Insert` | `InsertPending` |
| `Ship`, one courier books the order and no other ever does | `CourierBooks`, `LateDelivery` of a booking |
| `Move`, a booking ends picked up or cancelled | `PickUp`, `CourierCancels`, `LateDelivery` of a cancellation |
| `Confirm`, the AWB of a booked order is learned, once | `SaveCreated` |
| `Fail`, on an order without an AWB unless creates and retries overlap | `SaveFailed`, `GiveUp` of a create or retry |
| `Report`, what the courier has on its books, has had, or could not be read | `SaveCancelled`, `SaveTracked` |

Every other step leaves both alone. That an order ships once and its AWB stays is
true only while clients keep to one partner per order (section 6). Without that,
`ShipsWhereAsked` is what is left: an order goes to no courier but those its creates named.

### BulkOrders

A submission's entries, each with the courier it names, are accepted or rejected
(`accepted`, the positions of those that pass schema, registry and repetition), reserved one by one from the first on, recorded in a transaction (`CreateBatch`) and
queued per courier in chunks (`Enqueue`). A chunk goes to the courier of its job, whatever
courier the row names. A worker slot reads the rows of its chunk one by
one (`ReadRow`), calls the courier natively or for one order
(`CallCourier`), writes row and item (`RecordRow`, `RecordItem`) and refreshes the
batch with a count and an update (`CountItems`, `UpdateBatch`). `Throw` is a failing
statement; `CallFails` an exception that is no `AppError`, or a native call that fails as
a whole, of whose orders the courier may have booked some. BullMQ is external: `PickJob`, `CompleteJob`, `FailJob` (attempts),
`WorkerDies` and `LoseLock` (a process that is killed, or paused for longer than
its lock), `StalledCheck` (put back `MaxStalls` times, then failed). `booked` holds the
books of every courier: one does not know what another has. `Submissions`
lists the requests a behaviour may choose from. An HTTP request reads the row,
has its order booked (`HttpCall`) and writes the row (`HttpEnd`) in separate steps, and may die
between any two. A call is answered by an element of
`NativeAnswers` or `SingleAnswers` that fits the courier's books (`Possible`).

### BatchContract

What a client that polls `GET /orders/bulk/:id` may rely on: `CreateBatch` is `Accept`,
`RecordItem` is `Settle` (a PENDING item of an open batch), `UpdateBatch` is `Close`, or changes nothing when another
chunk has given the verdict. Rows, couriers, chunks, jobs and slots are hidden.

### ManifestAnswer

A computation without steps: `outcomesOf` is the adapter's list of outcomes for a body,
`codeForMessage` the table of `urbanebolt.errors.ts` (a message is the set of phrases in
it that a rule looks for), `settle` and `nativeResults` the two loops of
`runNativeBatch`, `singleResult` what `createShipment` takes, `rowFor` and `itemFor` what is
written. `SaidOf` is the reference: what the body says of an order, read off directly.
`AnswersTo` says it in the terms of `BulkOrders`. The envelopes of a failed call, the
fields of a shipment and answers that are not the documented body end in `CallFails`
or in the transport errors of `CourierCall`.

### CallContract and CourierCall

`CallContract` says what a service may rely on: a call is tried at most
`Attempts` times, the courier may act in any of them, "ok" is said only if it
acted, and "unavailable" only after the last try. `CourierCall` has the code:
`UseCachedToken`, `Login`, `LoginGranted`, `LoginFails` are `authenticate`;
`Carried` and `NotCarried` the request; `Persist` the audit decorator (every way
out of the adapter passes it), `Refresh` the auth-refresh decorator, `Retry` and `Return`
the retry decorator. Logins are numbered in the order of their answers and a token is named by the
login that brought it; the string may be one the courier handed out before (its tokens are
stable for 24 hours, `DESIGN.md:21`), as the client compares nothing, so a courier may refuse
any token at any time. `Lapse` is the clock passing `expiresAt`. `since` is history: the
logins granted when a call dropped the cached token. A failing insert
into `courier_api_logs` is logged by the code and otherwise ignored; in the
model such rows count as written, so the log's completeness is about the code
that fills it and not about Postgres. The length of a back-off is left out.

### WorkerSupervisor

`Tick`, `ReadWaiting`, `ReadActive`, `CheckFails` and the three decisions
(`NotStalled`, `FirstStall`, `Replace`) are one call of `check`, with
`PreviousClosed` the end of the forced close; several checks run at once.
`Close` and `Closed` are `close()`. The queue, its jobs and the outages of Redis
that leave a worker deaf (the reason the supervisor exists) are external. `WorkerIds`
names the worker objects of a behaviour, finitely many; a new worker takes a name that
is `Free`: not the current worker's, nor one still being closed.

### ProcessLifecycle, Readiness and ProbedProcess

`ProcessLifecycle` is one process in one of three roles. `Boot` may fail to bind its port and
still be up, as the callback of `listen` ignores the error. `SignalServer` and
`SignalWorker` differ as the code does: the server takes the first signal only, the
worker starts a shutdown per signal. `Drained` (HTTP), `WorkerClosed`, `QueueClosed`,
`PoolEnded` are what each `await` waits for, in order; `CloseFails` skips the rest;
`ForcedExit` is the timer and `ExitCleanly` the end. A client may disconnect at any time
(`HangUp`): a connection whose handler is at work is then "left", and `Drained` does not wait
for it, as `httpServer.close` counts connections. `Replace` is `superviseWorker` putting a
new worker in place, before or after `close()`: the jobs of the old one become `orphans`,
and a worker created after `close()` is `late`. What `CloseWorker` waits for is the jobs of
the worker it finds (`waits`). Clients, jobs and crashes are external.

`Readiness` has one probe per request and dependency. `Ask` starts them together; a
Postgres probe queues for a client (`Connect`); `Answer`, `Reject` and `Lapse`
end it, whichever is first; `Send` is the answer. The pool serves all other requests and
jobs too (`Borrow`, `GiveBack`, counted in `others`). A query that is not answered in time, a
probe's (`Lapse`) or another's (`Hang`), stays in the pool (`stale`) until `LateAnswer`. A
dependency that is "prompt" answers in time with the wait for a client included; a pool that
requests outgrow is a "slow" Postgres. `heard` is history: who could have answered since.

`ProbedProcess` extends the first and instantiates the second with connections for
requests: `AskReady` accepts the connection and starts the probes, `AnswerReady` ends both,
`Leave` is a client that goes while it is probed for, and `Stop` is a shutdown step in which
`pool.end()` also waits for every client in use, by a probe, another query or a stale one.
A pool that is being ended hands out no client (`Connect`, `Traffic`).

### Tracking

One shipment with a log of scans (`Move`, external), clients that poll
(`LoadForTrack`, `Hear`, `SaveScans`, `SaveStatus`, `ListEvents`, `PollAgain`, with
`Fail` anywhere), and clients that cancel beside them. A scan is what the
unique key of `tracking_events` is: its code and its time; a time that does not
parse is 0. `STATUS_BY_CODE` is the adapter's table. As a route may repeat a scan (the
same code within the same minute is one row of the table), `HistoryHasNoGaps` asks of a
stored scan that all readable ones before one of its occurrences are stored, not before each.

## 4. Runs

Every run is exhaustive on its instance.

| Run | Instance | Question and result |
|---|---|---|
| `order_overlap` | 1 order, 2 couriers, 3 overlapping requests of any kind, 2 attempts, one partner named | The safety properties of `OrderService` hold through overlap, retries, crashes and late deliveries; `OrderContract` is implemented (for clients that keep to one partner) |
| `order_serial` | 3 requests, 2 attempts, creates and retries wait for each other, clients name registered and unknown partners, fairness | Status and AWB agree; an order is on the books of couriers its creates named and called, and no others; only a track that heard something else replaces CANCELLED; every request that began is answered |
| `order_two_partners` | 2 requests, 1 attempt | **Violated**: `OneShipmentPerOrder` when the second create names another partner |
| `order_redrive` | 2 overlapping creates, 1 courier, 1 attempt | **Violated**: `ReconciliationMeansNoAwb` |
| `bulk_chunks` | 3 orders (and rejected entries) in 2 chunks for one courier, 2 orders for two couriers, or two batches that share an order, for one courier or two; 2 slots, native calls, 2 attempts, crashes; manifest bodies of up to 2 entries a list over 3 order numbers, 2 AWBs and 4 messages | Verdict and items agree, the last chunk closes the batch, a completed chunk left no row PENDING, two batches that name one courier do not both claim an order; `BatchContract` is implemented; an order ends as the body says of it, and the answers of `BulkOrders` are exactly the adapter's |
| `bulk_locks` | 1 order, 1 courier, 2 slots that may lose locks, one stall, HTTP beside them, fairness | A reported success has a shipment at the courier its item names; every chunk ends |
| `bulk_retry` | 2 orders, one chunk, order by order | **Violated**: `RetryTakesUpUnsettled` |
| `call` | 2 concurrent calls, 2 attempts, 3 logins, fairness | Log complete, after a refusal a newer login is used, calls end, `CallContract` implemented |
| `supervisor` | 3 worker names, 2 overlapping checks, 2 jobs, 1 outage, fairness | One worker at a time; consumption resumes |
| `supervisor_close` | the same | **Violated**: `StopsConsumingOnceClosed` |
| `tracking` | a route of 4 scans (one unreadable time, one unknown code), 2 pollers, 1 canceller, TTL 2, fairness | No gaps, answers cover their status, the row catches up |
| `process` | 3 roles, 2 connections of which one carries probes, 1 job slot, 2 signals, Postgres that fails, hangs and recovers beside a dependency that does not, a pool of 1 that other requests use too, fairness | What a client or a `close()` waits for is neither dropped by a clean exit nor loses its stores; a signal ends the process; probes are answered, tell the truth and recover |

Why the bounds are enough. *One order*: no action of `OrderService` touches another
order's row, ledger entry or requests. *Three requests* give every pair of kinds
with a third between their statements, and a request after two that overlapped or
died; the proofs remove this bound for most of the properties. *Two attempts* give a
retry and a give-up. *Two couriers* are what trading an AWB takes; a third is there
unregistered. *Two chunks in two slots* give every order of two counts and two
updates; two attempts give a chunk that is run again after each partial outcome.
*One order with two slots and lost locks* gives a chunk run twice at once, and HTTP
requests between any two of its steps. *Two entries a list* give a repetition, a
foreign order, an error beside a shipment and an order left out; the messages match
no rule, one, and two rules in either order. *Two connections* are a probe beside another
request; *a pool of one* (the code's has ten clients) is starved by a single late query, be it the
probe's own, an earlier probe's or another request's, and frees with one answer; how many
clients a pool has and how many connections probe it decides how long that takes, and the
proofs of the safety properties leave both open. *Two calls and
three logins*: a token is renewed by one call while the other is refused it, and refused again; the
proofs remove this bound for all but `CallsEnd`. *Three workers*: the current one, a
previous one still closing, and a new one. `CHECK_DEADLOCK FALSE` is set where
requests, batches or jobs run out and the instance may stop; `Tracking` polls for
ever and is checked for deadlock.

Each passing property has a mutant in `PROJECT.json`: a plausible bug, written
beside the definition it replaces (comments that begin with "Mutant"), under
which the run finds the property violated.

### Fairness

* `OrderService`: `WF(Handle(r))`. A courier call has a timeout
  (`urbanebolt.client.ts`), so a request that waits is answered or abandoned, and
  statements end. Nothing is assumed of couriers, arrivals or late messages.
  TLC's symmetry is unsound for liveness, so `SortedSpec` of `MCOrderService` takes, of the
  assignments of tasks that differ by a renaming of requests, the sorted one.
* `BulkOrders`: a slot goes on with its job (timeouts, bounded attempts), takes a
  waiting job when free (the supervisor replaces a worker that does not), and
  BullMQ's stalled check is periodic.
* `CourierCall`: `WF(Step(c))`, for timeouts and back-off timers. The bound
  `MaxLogins` does not stop a call: a login may always fail.
* `WorkerSupervisor`: the timer fires, Redis comes back, jobs end, stalled jobs
  are put back, and a reading worker takes a job that waits.
* `ProbedProcess`: while the process lives, armed timers fire (the forced exit, each
  probe's bound), a check that ended is sent and its client takes the answer, and a Postgres that
  does not hang reacts to every query. Strong fairness of a probe's `Settle`, whose timer does not
  start anew when the dependency changes its condition, and of `Connect`, as the pool serves its
  queue in order. Nothing is assumed of clients' requests, jobs, couriers or the stores' closing.
* `Tracking`: clients poll for ever and the clock ticks; a call or statement may
  fail again and again but not always (strong fairness of `Hear`, `SaveScans`,
  `SaveStatus`). Nothing is assumed of the shipment's progress or of cancellation.

## 5. Disagreements found

* **Two partners** (`order_two_partners`). `DESIGN.md:143`: "the same order must
  never ship twice via different partners". `create` sends a re-driven PENDING row
  to the partner of the *new* request (`order.service.ts:31`, `:40`), not to the
  row's. A create that dies after its courier booked, followed by one naming
  another partner, ships the order twice. `ShipsWhereAsked`, proved
  without any hypothesis, says that this is the only way: both couriers were named by a
  create that called them.
* **Re-drive of a live order** (`order_redrive`). `order.service.ts:34` takes a
  PENDING row for one whose "earlier attempt died"; it may be that of another create which is
  still waiting. The second create's call is answered "duplicate" and `markFailed` puts
  RECONCILIATION_REQUIRED over a CREATED row with an AWB, although
  `order.service.ts:107` tells clients such an order is "without a known AWB".
* **Chunk retry passes over failed orders** (`bulk_retry`). `DESIGN.md:194`:
  "Transport failures fail the job and BullMQ retries the chunk". In the
  one-by-one path `dispatch` has written FAILED on the row before the error fails the
  job, and the next attempt keeps PENDING rows only (`bulk-order.service.ts:161`):
  the order's item stays PENDING and its batch PROCESSING.
* **Worker after close** (`supervisor_close`). `tests/integration/worker-supervisor.test.ts:64`:
  the worker "stops consuming once closed". `check` tests `closing` before it
  awaits the counts and not after (`libraries/queue/index.ts:134`), so a check under
  way at `close()` starts a new worker.

Things met on the way that contradict no document: two bulk submissions that name different
couriers for one PENDING order both queue it, each at its own courier, and both may report it
SUCCEEDED (the row is not asked for its courier, `bulk-order.service.ts:121`, `:156`); this is
`order_two_partners` by another door. A handler whose client has disconnected is not waited
for by the drain (`server.ts:74`), nor is a job of a worker that was replaced
(`libraries/queue/index.ts:136`) or created after `close()`, so an exit with code 0 may cut them
off. A worker that dies between a row's update and `recordOutcome` leaves its item PENDING
(`bulk-order.service.ts:211`). `createShipment` takes the
first outcome of an answer without comparing order numbers, so that "the
single-order case cannot drift from the bulk case" (`docs/CODE-WALKTHROUGH.md:447`)
rests on a courier that answers for this order alone and by its number (the
precondition of `SingleAgrees`); and a server that cannot bind its port stays up
without listening.

## 6. Proofs

The theorems hold for every value of the constants that the module's named assumption
allows. Three further hypotheses appear, each written in the theorem that needs it, none
of them enforced by the code, and each shown to be needed by TLC:

| Hypothesis | Says | Without it |
|---|---|---|
| `SinglePartner` | clients name one partner per order | `order_two_partners` ships an order twice; with overlap and two partners named, on the instance of `order_overlap`, `AwbStable`, `CancelledBacked` and `KeepsOrderContract` are violated |
| `~Overlap` | clients wait for one create or retry of an order before the next | `order_redrive` parks an order that has an AWB |
| `~LocksExpire` | no worker loses the lock of a job it is still working on | on the instance of `bulk_locks`, `OutcomesAreFinal` (and with it the contract of a batch), `VerdictAgreesWithItems` and `LastChunkClosesBatch` are violated: the second worker on a chunk is told "duplicate" and puts FAILED over the SUCCEEDED of the first |

BullMQ renews a lock for as long as the worker's event loop runs and Redis answers, so
the third is lost by a long pause or an outage and not by a long chunk.

**OrderServiceProofs** assumes `ConstantsAssumption`, for any orders, couriers, requests,
attempts and either value of `Overlap`:

* `TypeCorrect`. `TypeOK` alone is not inductive: a step of a call updates the ledger of
  `AdapterOf(r)`, which must be a courier. `TypeInv` adds that rows have a registered courier
  (`RowsWellFormed`) and that a request with a call under way has a row
  (`CallsHaveRows`).
* `AwbsAreBacked`, `NoUnknownShipment`, `NoFalseReconciliation`, `CreatedForEver`
  from `SafetyInv`. The table learns of the ledgers through answers, the ledgers
  of the table through calls, so the invariant follows both: an "ok" or
  "duplicate" still on its way has a ledger entry behind it (`RepliesBacked`), a
  late message has a row (`LateHaveRows`). `OrdersStep`, `LedgerStep`,
  `RequestStep` and `LateStep` say once what a step may do to each variable, and `Monotone`
  that rows, AWBs and bookings never vanish; the conjuncts then need no further
  case analysis over actions.
* `OrdersShipWhereAsked`, from `AskedInv`: every row, call and late message is for a courier
  that a create named and called, so a booking is too.
* `AwbNeverChanges`, under `SinglePartner`. `NamedInv` carries the
  partner from requests to rows, calls, late messages and ledgers.

**OrderStatusProofs** continues with the statuses:

* `NoPendingLeftBehind` needs no more than types: a create or retry that comes to its end
  has died or written its row (`DispatchEnds`). Rows that a bulk submission reserved are PENDING with
  nobody dead; they are in `BulkOrders` and not in `OrderService`.
* `StatusAlwaysAgreesWithAwb` and `OnlyTrackUndoesCancellation`, under `~Overlap`, from
  `SerialInv`: at most one create or retry of an order is under way (`OneDispatch`), and
  which kinds of request have a call under way fits whether the row has an AWB
  (`CallsFitAwb`). Cancels and tracks may still overlap with everything.
* `CancelledIsCancelled`, under `SinglePartner`: a confirmation on its way, of what became
  of the shipment, comes from the courier of the AWB the request saw, which is still the
  row's, and a courier never revives a shipment (`CancelInv`, `FinalStays`). This needs
  `AwbNeverChanges`' invariant beside it.
* `OrderContractKept`, under `SinglePartner`, for either value of `Overlap`: `OrderService`
  implements `OrderContract`. `OrderInv` adds `OneConfirmation`: the answer "ok" to a
  booking exists once per order, and while it is on its way the row has no AWB, so that
  `SaveCreated` is a `Confirm`. A courier that books an order books it first (`BooksFirst`),
  so a change of a ledger is a `Ship` or a `Move`. A failure is written beside an AWB only
  with `Overlap`, which is the half of `SerialInv` that `Fail` needs.

**CourierCallProofs** assumes `CallAssumption`, for any calls, attempts and logins:

* `CallTypes`, `LogIsComplete` and `RefusedTokenDropped` from
  `CallInv == TypeOK /\ Accounting /\ LoginsGrow /\ SuccessActed /\ Started`: where
  a call is fixes how many of its requests are unlogged and how many of those the
  audit array holds (`Accounting`; calls that end in an exception of the runtime are left out),
  and a cache filled after a refusal holds the token of a later login (`LoginsGrow`). That the
  courier's answer to that login is another string is not claimed.
* `ContractIsKept`: `CourierCall` implements `CallContract`. The mapping takes every
  place between the start and an ending to "calling" (`Phase`); the start maps to
  `Start`, an operation carried out to `Act`, a retry to `TryAgain`, the
  return to `End`, everything else to a stuttering step.

**WorkerSupervisorProofs** assumes `SupervisorAssumption`, for any number of checks:
`SupervisorTypes` and `OneWorkerAtATime`. What a check reads of the queue stays in range only
because jobs are never in two places (`JobsAreCounted`, a count over the workers that
hold one). `OneWorker` is inductive given the types, however many checks overlap.

**TrackingProofs** assumes `TrackingAssumption`, for any route, pollers, cancellers and TTL:

* `TrackingTypes`, with `HeardIsPrefix`: what a request works on is a prefix of what the
  courier has said by now.
* `NoGapsInHistory` and `AnswersAreCovered` from `StatusIsCovered`: the scans of a refresh
  are in the table before its status is on the row, and neither log nor table shrinks,
  so the status a request holds stays covered until it has listed the events.

**ProbedProcessProofs** assumes `ProbedAssumption`, for any connections, jobs, signals,
dependencies and pool size:

* `InFlightKept` of `ProcessLifecycle`, from `ShutdownInOrder`: what each step of a shutdown
  has behind it, for each signal on its own. It holds with clients that leave and workers that
  are replaced, and says of their handlers and jobs that they are the exceptions.
* A step of the composition is a step or a stutter of each part, which carries the invariants
  over: `ProbedKeepsInFlight`, and `ReadyIsNeverHearsay` with `NoHearsay`: a dependency that answered, or
  could answer a probe now, has been heard of since the request came.
* `ProbedTypes`, with `BusyWithProbe`: a request being probed is a connection the drain
  waits for, or one whose client has left. No bound relates connections and the pool.

**BulkOrdersProofs** assumes `BulkAssumption`, for any submissions, chunk sizes, slots,
attempts, HTTP requests and *either* value of `LocksExpire`:

* `BulkTypes` from `TypeInv`: a job that may still be run has an attempt left, one that is
  not being run has no owner (`GoodJob`), a busy slot's job exists.
* `SucceededStaysBacked` and `OneBatchPerOrder` (of submissions that name the same courier)
  from `ClaimsInv`: each courier says "ok"
  of an order once, to one worker; until that worker tells an item no item says
  SUCCEEDED, and when it does the row has the AWB; a chunk's courier is the one its items name
  (`NamedInv`). A second worker on the same chunk can
  spoil an outcome but not invent a shipment.

**BulkBatchProofs** builds on one invariant. `ChunkInv` holds for either value of
`LocksExpire`: the orders of a submission are each at one place, to be reserved, to be
queued or in one chunk (`SubmissionOK`, `ChunkOK`); a settled item has a row that is
neither absent nor PENDING (`RowsOK`); and the orders of a chunk that is worked on are
split into those to be read, called and recorded and those whose row is not PENDING any
more (`SlotOK`). `LockedInv` adds what `~LocksExpire` gives: a busy worker owns its job
(`Exclusive`), and an item it has in hand is PENDING (`InHandPending`). From the
first alone follows the last theorem; the others need the second.

* `OutcomesStay`: an item somebody is about to record on is PENDING, and nobody else has it
  in hand.
* `VerdictsAgree`: between the count and the update of a batch none of its items changes,
  as none is PENDING (`VerdictInv`).
* `LastChunkCloses`: while a batch without PENDING items is PROCESSING, one of its chunks is
  not completed and its worker has not passed the refresh (`ClosingInv`). The chunk
  that records the last outcome takes over that duty from whichever had it.
* `BatchContractKept`: `BulkOrders` implements `BatchContract`. Besides the invariants of the
  two theorems before it takes that a batch has jobs only once it
  is created (`CreatedFirst`): a batch in which an item is recorded is PROCESSING, as one
  that is closed has nothing PENDING.
* `CompletedSettles`, with or without locks: the row of a completed chunk's order is not
  PENDING (`CompletedInv`); an order whose row is written and whose item is not, in a first
  attempt, is in another chunk, or in the hands of the worker between the two
  statements, or the attempt is lost (`Excused`). A worker that lost its lock is put aside
  by the stalled check, which is counted on the job, so during a job's first attempt it
  has one worker, lock or not (`FirstInv`).

The contracts imply what `AwbStable` and `OutcomesAreFinal` say of rows and items; these two
are proved on their own (`AwbNeverChanges`, `OutcomesStay`) and no longer checked by a run.

The invariants that are not themselves properties of a run were checked with TLC on the
runs' instances before they were proved.

Model-checked only:

* Liveness (`Responds`, `ChunksEnd`, `CallsEnd`, `ConsumptionResumes`, `StatusCatchesUp`,
  `SignalEndsProcess`, `ReadinessAnswers`, `ReadinessReturns`), which needs fairness and
  `ENABLED` and is beyond the prover.
* `AnswerSettlesItsOrder` and `AnswersAreTheAdapters`. What `ManifestAnswer` computes is a
  fold over lists of any length, whose proof would need an induction over data that the
  prover cannot do; they are checked for all bodies within the bounds.
* The four disagreements of section 5, which are counterexamples.

## 7. Not modelled

* The mapping of request fields, serviceability, service levels, presentation and the
  wording of failures, pagination, the API key guard: data without state.
* Configuration, logging, the database client, migrations, OpenAPI documents, and the
  liveness route: no behaviour over time, or pure I/O.
* Postgres, Redis, BullMQ, the couriers themselves: external, modelled from how
  the code uses them.
* Bulk requests with more than `maxOrders` entries, which are refused before anything happens.
* The mock's injected failures and latency (every courier of the models may fail and be
  slow), and that each process has a mock with books and an AWB counter of its own.
* Which tokens are the same string, and Express's or pg's limits on connections: the first is the
  courier's choice (`CourierCall`), the second only sets how long a query waits.
* Lost Redis data: jobs, once queued, are durable in the model.
