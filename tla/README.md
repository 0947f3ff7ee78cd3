# Fluxora Backend: a TLA+ verification project

Fluxora Backend (TypeScript, `src/src/`) serves payment streams that live on the
Stellar chain. It replays and ingests contract events into PostgreSQL, keeps
streams and their status, and tells consumers about changes over webhooks,
WebSockets and server-sent events. Several replicas of the process share one
PostgreSQL and one Redis; each replica is a single-threaded event loop, so code
between two `await`s is atomic within a replica and nothing is atomic across
replicas except a database transaction or a single Redis command. The models
follow that rule: **a step is what one process does between two awaits**.

Paths below are relative to `src/src/` unless they start with `src/docs`.

## 1. Inventory

| Component | State it keeps | Operations | Hard behaviour |
|---|---|---|---|
| Indexer replay (`indexer/service.ts`, `replayBatchRunner.ts`, `replayCursorRepository.ts`, `replayRuntimeState.ts`) | tables `replay_cursors`, `indexer_replay_progress`, `contract_events`; in memory the replay lock, stop flag and polled progress | `replayEvents`, batch transaction, `requestStopReplay`, `resumeIncompleteReplay`, shutdown release | crash between two statements, COMMIT without acknowledgement, lost leadership mid-run, overlapping calls, hung connection |
| Leader election (`indexer/leaderElection.ts`) | Redis key with TTL, fencing counter; `_isLeader`, token, heartbeat timer | `tryAcquire`, `release`, `renew` | every Redis command is a round trip of its own; expiry in between; outages |
| Ingestion and event store (`indexer/ingestion.ts`, `store.ts`) | events, reorg state, write semaphore | ingest, rollback of a fork, replay by cursor | overlapping batches of different forks, duplicates, eviction |
| Backfill (`indexer/backfill.ts`, `backfillScheduler.ts`) | checkpoint, claimed batches, pause gate | claim, retry, checkpoint, yield to live indexing | out-of-order completion, several workers at one gate, abort in a pause |
| Webhook outbox (`webhooks/outbox-dispatcher.ts`, `outbox-row.ts`, `retry.ts`, `delivery-support.ts`) | table `webhook_outbox`, back-off | poll, deliver row, retry row, dead-letter, stop/start | HTTP inside a transaction, rollback after a request was sent, several dispatchers |
| Webhook service and store (`webhooks/delivery.ts`, `store.ts`, `pgStore.ts`, `routes/webhooks.ts`) | deliveries, attempts, outbox items with claim leases, dead letters; memory mirror of Postgres | `queueDelivery`, `processPendingRetries`, claims, hydrate | fire-and-forget writes, overlapping retry calls, restart |
| Dead-letter queue (`routes/dlq.ts`, `db/repositories/dlqRepository.ts`, `jobs/dlqPurge.ts`) | entries, failure history, suspension per topic | enqueue, replay, resume, delete, purge | four statements without a transaction, overlapping replays |
| Webhook circuit breaker (`redis/webhookCircuitBreakerStore.ts`) | record and probe lock per consumer URL (Redis or memory) | `checkAndClaimAttempt`, `recordSuccess`, `recordFailure` | GET/SET NX/SET/DEL interleave across replicas; a probe that never reports |
| Stellar RPC client (`services/stellar-rpc.ts`, `redis/rpcFallbackCache.ts`) | circuit, failure window, fallback cache | call, fall back, early refresh | late answers change the circuit of a later epoch |
| Job queue (`jobs/queue.ts`) | pg-boss queue objects and workers | start, stop, work, retry, expire | stop during a start that nobody awaits |
| Retention purge (`jobs/retentionPurge.ts`) | rows past the cut-off, legal holds, audit log | batch, cap, dry run | overlapping runs, holds set meanwhile |
| PII worker pool (`pii/workerPool.ts`) | threads, bounded queue, running tasks | `exec`, start, death, shutdown | a thread that dies while starting, working or idle |
| Startup, readiness, shutdown (`index.ts`, `shutdown.ts`, `startup/readiness.ts`, `middleware/readinessGuard.ts`) | phase, connections, hooks, force timer | resume, admit, signal, drain | a resume that ends after the signal, repeated signals, hooks that hang |
| Admin state (`state/adminState.ts`, `adminStateLock.ts`) | pause flags in memory and file, reindex job, lock in Redis or on disk | set flags, reindex, lock, steal | lease that lapses under its holder, crash |
| Stream creation (`routes/streams/write.ts`, `redis/idempotencyStore.ts`) | idempotency keys, rows, dependency flag | look up, insert, store | overlapping requests with one key, Redis outage |
| Stream rows (`services/streamEventService.ts`, `streams/status.ts`, `db/repositories/streamRepository.ts`, `routes/admin.ts`) | row, dedup cache | chain events, PATCH, DELETE, bulk actions | duplicates and reordering, lagging replica, guarded UPDATEs |
| Request rate limiting (`middleware/rateLimiter.ts`, `redisSlidingWindow.ts`, `redis/rateLimitStore.ts`) | windows in Redis and memory | check | window edges, switching stores |
| WebSocket hub (`ws/*.ts`) | slots, bans, connections, subscriptions; dedup, batches, outbound queues | upgrade, subscribe, probe, drain; broadcast, batch, flush | counters on every exit path, an await between check and use, back-pressure |
| SSE and long polling (`routes/streams/sse.ts`, `longPoll.ts`, `realtime.ts`, `streams/*.ts`) | slots, replay cursor, subscribers | open, replay, subscribe, time out, drain | timer, close and shutdown each give the slot back |
| HTTP routes, validation, GraphQL, metrics, logging, configuration, migrations, pools, SDKs | none of protocol interest | | |

How they meet: an HTTP or gRPC request starts a replay, which takes the lease
from the leader election before it touches the database; shutdown hooks stop the
replay and release the lease independently of each other. Producers insert outbox
rows in their own transaction; the dispatcher asks the breaker and the rate
limiter before each request, reports the outcome to the breaker and hands dead
rows to a dead-letter queue, from which an operator replays them. Chain events
update the stream row and are broadcast to WebSocket and SSE subscribers, who
catch up from the event store by cursor. Start-up resumes an interrupted replay
before the readiness guard admits requests; a signal closes the server, waits for
its connections and runs the components' hooks.

What makes them correct:

* replay: a resume skips no row, progress is durable and monotone, a completed
  cursor is really complete, lock and lease are given up on every path;
* lease: one believed leader while timing holds, and no believed leader that
  would never find out otherwise;
* ingestion and backfill: the store is of one fork and is read without gaps, a
  checkpoint covers only handled batches;
* outbox, deliveries, dead letters: an event is in exactly one place, no two
  dispatchers work on one event, requests are bounded, everything is settled, no
  dead letter is replayed twice, nothing written survives only in memory unless a
  statement failed;
* breakers: a pause is earned, at most one probe, no pause for ever;
* jobs and pool: no job is lost, no worker outlives a stop that did not race its
  start, held rows survive, every task has exactly one owner;
* API state: the row follows the transition table, an acknowledged event that never
  failed has taken effect, a key creates one stream, locks exclude, limits hold;
* clients: slots and counters are given back on every path but one (section 5, 25),
  events arrive in order and once within stated limits;
* lifecycle: hooks start once, after the handlers, and the shutdown ends.

`PROJECT.json` lists every component with its status, and under "hazards" the
places in the code where these could go wrong.

## 2. Modules

| Module | Models |
|---|---|
| `IndexerReplay` | `IndexerService.replayEvents`, the batch runner, the repositories, recovery, shutdown; the lease by its interface |
| `LeaderElection` | `RedisIndexerLeaderElection`, one step per Redis command |
| `EventIngestion` | the ingestion service with reorganisations and the in-memory event store, replay by cursor |
| `BackfillScheduler`, `BackfillWaves` | the two backfill schedulers; `OrderedBackfill` is the abstract checkpoint both implement |
| `WebhookOutbox` | the dispatcher, `deliverOutboxRow`, the retry decisions |
| `WebhookDeliveries` | `WebhookService`: deliveries, attempts, overlapping retry passes, dead-letter and clean-up routes |
| `WebhookStore` | the Postgres-backed store and its mirror: claims, dead letters, statements in any order, crash, hydration |
| `DeadLetterReplay` | the dead-letter routes, repository and purge for one topic |
| `CircuitBreaker`, `CircuitBreakerMemory` | the Redis breaker store under concurrent deliveries; the in-memory store: the same transitions, atomic, without expiry |
| `StellarRpc` | the RPC client's own breaker and its fallback cache |
| `JobQueue`, `RetentionPurge`, `WorkerPool` | the pg-boss wrapper, the purge, the thread pool |
| `ServiceLifecycle` | one process from listening to the last shutdown hook |
| `AdminState` | pause flags, reindex job and their distributed lock |
| `StreamCreation` | `POST /api/streams` with its Idempotency-Key |
| `StreamRecords` | one stream's row under everything that writes it; `StreamLifecycle` is the abstract row it implements |
| `RateLimiting` | the sliding windows behind the hybrid store |
| `WsConnections`, `WsOutbound` | the hub's connections and subscriptions; what it sends |
| `SseStreams` | SSE and long polling |
| `Subsequences` | `Picked`: what deletions and skipped elements leave of an ordered collection; used by `EventIngestion` and `WsOutbound` |

`MC...` modules hold the instances for TLC: `MCIndexerReplay`, `MCLeaderElection`
and `MCWebhookOutbox` one component each; `MCLease` leader election twice, with
timely round trips and with an outage; `MCOutboxDlq`, `MCCircuitBreaker`,
`MCWebhookService`, `MCJobs`, `MCApi` and `MCRealtime` several components that ask
the same kind of question. Such a host
EXTENDS one component and INSTANCEs the others with variables of their own; its
variable `focus` is chosen in the initial state and names the component that
moves, so the state spaces add up instead of multiplying. The components of a
host share no state: it is a way to run them together, and no composition.
`...Proofs` modules hold the theorems about a component, or about the components
of a host, each as it runs alone (`Letters!Spec`, `Pool!Spec` and so on).

### IndexerReplay

`cursors` joins the two tables that belong to a cursor: `offset` is
`last_committed_offset`, `status` the progress row (`"absent"` before
`insertIfAbsent`). Source rows are numbered in replay order; a request's block
range is a run of them. `pc[<<p, s>>]` names the await at which call `s` of
replica `p` waits:

| `pc` | waits for | next actions |
|---|---|---|
| `acquire` | `tryAcquire()` | `AcquireLease` |
| `resolve`, `create`, `upsert`, `checkpoint` | `findActive`/count, INSERT of the cursor, its progress row | `ResolveCursor`, `CreateCursor`, `StartReplay` |
| `loop` | the top of the batch loop: stop, leadership, end of range | `LoopHead` |
| `begin`, `fetch`, `write`, `commit` | the statements of one batch transaction | `BeginBatch` ... `CommitBatch`, `BatchError` |
| `rollback`, `complete` | ROLLBACK; `completeCursor` | `RollbackBatch`, `CompleteCursor` |
| `release`, `delete` | GET and DEL of `release()` | `ReleaseLease` |
| `boot`, `scan` | start-up recovery | `ResumeIncompleteReplay`, `ScanProgress` |

The environment adds lease expiry, failed heartbeats, crashes and restarts, stop
requests and the shutdown hook's own release, hung connections, and COMMITs that
were sent but not acknowledged: those sit in `inDoubt` until `SettleInDoubt`
applies or drops them, possibly long after another replica has moved on.
`timely` is the one timing switch, chosen in the initial state out of
`Heartbeats`: when TRUE the key of a live leader does not expire and its heartbeat
drops leadership only when the key is gone.

Left out: the content of events (ON CONFLICT DO NOTHING makes `inserted` a set),
the stop guard's timer (the forced stop may come at any time after the request),
metrics.

### LeaderElection

Time is a count of ticks; `Tick` lowers the key's TTL and the heartbeat timers.
`acq`, `rel` and `ren` hold the Redis command each operation of an instance waits
for; renewals of one instance may overlap because the timer does not wait for
them. With `Timely`, time waits for due timers and for round trips older than
`MaxLatency`. `RedisErrors` names the operations whose commands may fail and
`Overlap` says whether a `tryAcquire` may start while a `release` of the same
instance is under way, which `service.ts` allows because it frees its lock first.

### EventIngestion, BackfillScheduler, BackfillWaves

An event is its id, ledger and hash; the hash stands for the fork. A request is a
batch whose ledgers are compared one after the other with the store, each
comparison and the rollback it may cause being an await; insertions pass the write
semaphore with its queue of waiters. A replay pages through the store by cursor
while others insert and roll back: a page is the set of the first `PageSize`
events behind the cursor, of which the client's queue may refuse any (`refused`). In the backfill modules batches are numbered;
a worker's step is a claim, a handler's outcome, a back-off or the advance of the
common checkpoint. `gate` is the shared pause promise; the lag may change at any
time, and a lag that cannot be read ends the pause as a low one does. `handled` is a history variable, the one `OrderedBackfill` speaks about.

### WebhookOutbox, WebhookDeliveries, WebhookStore, DeadLetterReplay

`WebhookOutbox`: `rows` is the table by id; a retry or deferral is a new row and the old one
becomes `done`. `lock`, `todo`, `new` are the open transaction of a dispatcher:
FOR UPDATE locks, rows still to be handled, rows it has inserted. A request is
`Post`, what the code does with the answer `Settle`. `dlq` is outside the
transaction and survives a rollback, as in the code. The batch is an arbitrary
set of available rows of the right size, where the query takes the oldest first:
the model has more orders than the code. `posts` counts the requests a
consumer sees for an event, `cutShort` the events whose batch a bad endpoint rolled
back. The rate limiter
and the breaker are their answers: `Defer`, and whether the failure count has
reached the threshold (`Breaker`).

`WebhookDeliveries` has the calls of one process: each works through a list of
deliveries, and all calls share one object per delivery, whose `attempts` keep
what their `nextRetryAt` says. `WebhookStore` keeps an item in the mirror's map
and in its priority list, which may disagree, and the row in Postgres; `writes`
are the statements under way. `DeadLetterReplay` takes a replay request through
its four statements; any may fail, and requests, deletes, resumes and the purge
come in between.

### CircuitBreaker, CircuitBreakerMemory, StellarRpc

One consumer URL. `rec` is the stored record with its remaining TTL and `wait`
= `resetAt` minus now; `age` is how long ago a call took the `now` it will still
use after its request. A failing command fails open, and Redis may or may not
have carried it out. `MaxAge` bounds a call's duration (request timeout).
`StellarRpc` keeps times as ages: of the failures in the window, of `openedAt`, of
the cache entry; callers overlap, so an answer may find another circuit state than
the one its call was admitted in.

### JobQueue, RetentionPurge, WorkerPool, ServiceLifecycle

pg-boss is external: it hands out due jobs, retries, expires and dead-letters them
as the options the code passes say. A queue object boots, registers its workers
one by one in their order, takes them off in the same order, and may be stopped in between. A purge run is its batches, each a
transaction with SKIP LOCKED semantics towards the other run. In `WorkerPool`,
`thread` is what has become of a thread and `busy`/`healthy` what the code
believes. `ServiceLifecycle` has connections that carry ordinary requests or an
event stream; `server.close()` (external) calls back when no connection is left,
the force timer may fire before.

### AdminState, StreamCreation, StreamRecords, RateLimiting

A call of `AdminState` computes the new flags from its process's memory, then takes
the lock (Redis key or file), writes, and unlocks by value; leases are not renewed
and may lapse under a holder. `StreamCreation` reads the key, inserts the row, stores the answer.
A `StreamRecords` call reads the row (from a replica that may lag by `MaxWal` writes), validates, and updates it if the status is still the one it
read; events pass the dedup cache of Redis or, when that fails, of the process.
`RateLimiting` gives every store its own timestamps; a hit reaches Redis within
`Latency`.

### WsConnections, WsOutbound, SseStreams

Slots, counters and indexes are those of the code, so a path that forgets one
leaves it behind. In `WsOutbound` a frame is the sequence of events it carries and
bytes are counted in events; the queue is bounded in frames and in bytes, the peer
reads at any pace. `chunks` are the fan-outs that wait for `setImmediate`, each with
the list of recipients it took from the index and how many of them it has reached.
`asks` are the filters of a connection that asked for batching, for this stream or for
another: as in `resolveTargets`, every event asks anew who batches, and dropping a filter
leaves a pending accumulator alone. A subscriber is one of the stream; those that
`matchingSubscribers` adds for the recipient of an event take the same path and are left out,
and so is the expiry of a dedup entry, which `again` covers like its eviction. `SseStreams` has the
handlers' awaits (lookup, replay pages, the answer to the last page), both limiters with their timers, the bus
and the shutdown callbacks.

## 3. What is checked

| Run (host) | Properties | Instance |
|---|---|---|
| `replay_takeover` (`MCIndexerReplay`) | `CursorCoversRows`, `CommittedWorkIsDiscoverable`, `NothingRegresses` across takeover; `TimelyCompletedMeansReplayed` where the heartbeat is timely | 2 replicas, 3 rows, batches of 2 (one short batch), 2 cursors, 2 calls, one crash, stop or hung connection (two of them when timely) |
| `replay_calls` (`MCIndexerReplay`) | `LockGuardsRun`, `ShownNotAhead`, `EveryCallEnds` | 1 replica with 2 overlapping calls, whole or empty range, 2 batches, one crash, stop or hung connection |
| `replay_lost_leadership` (`MCIndexerReplay`) | `CompletedMeansReplayed` without a timely heartbeat: **violated** | as `replay_takeover`, no hang |
| `lease` (`MCLease`) | `LeaderHasHeartbeat`, `LeaderHoldsTimelyLease`; `StaleLeadersStepDown` in the outage | 2 instances; timely: lease 6, heartbeat 2, latency up to 1, 2 acquisitions; outage: any latency, all operations may fail, one fenced acquisition |
| `lease_outage` (`MCLeaderElection`) | `OutageRevokes`: **violated** | timely timers, failing renewals |
| `outbox_mixed` (`MCOutboxDlq`) | `EventAccounted`, `NoConcurrentSend`; `ReplaysAccounted` | 2 dispatchers, 3 events (one poison, one unusable URL), batches of 2, 2 attempts, 1 fault, 1 deferral, answers that are a success, a retryable failure or a rejection, no breaker, requests counted up to 4; 2 dead letters, 3 replays, threshold 2, 1 resume, 1 failing statement |
| `outbox_silent_loss` (`MCWebhookOutbox`) | `NoSilentLoss`: **violated** | 2 dispatchers, failing endpoint |
| `breaker` (`MCCircuitBreaker`) | `PausedWasEarned`, `MemoryAtMostOneProbe`, `FallbackJustified`, `CircuitsRecover` | Redis: 2 deliveries, threshold 2, all commands may fail; memory: 3 deliveries, reset time longer than two requests; RPC: 2 callers and the early refresh |
| `webhook_service` (`MCWebhookService`) | `DeliveriesAccounted`, `MirrorLosesNothing`, `EverythingSettles` | 1 delivery, 2 retry passes, 3 attempts; 1 item, 1 letter, 1 crash, 2 statements under way; outbox with 2 dispatchers, 2 events (one poison), breaker threshold reachable |
| `jobs` (`MCJobs`) | `KeepsOrder`, `OneGate`, `WavesKeepOrder`; `PurgeAccounted`, `HeldRowsSurvive`; `QueueAccounted`, `NoJobLost`; `PoolAccounted`; `LifecycleSafe`; `RunsEnd` | 2 workers, 3 batches, 2 attempts; 5 batches in waves of 2; 4 rows, 2 purges, batches of 2, cap 3, 1 hold; 2 queue objects, one started after the other, a sent and a scheduled job, 1 crash, 1 expiry; 4 tasks, 2 threads, queue of 1, 2 deaths; 3 connections (one a stream), 3 hooks, 2 signals |
| `api` (`MCApi`) | `FollowsLifecycle`, `EventsTakeEffect`, `BroadcastOnce`; `KeyMeansOneStream`; `AdminStateSafe`; `LimitExact` | 2 handler calls on 2 servers, 3 events delivered up to twice, 1 request, 1 fault, a replica one write behind; 2 posters, 1 key, 2 bodies; 3 admin calls; limit 1, window 2, 3 hits |
| `realtime` (`MCRealtime`) | `EventsKept`; `ConnectionsAccounted`; `DeliveredInOrder`; `ResourcesReturned` | 3 ingests on two forks, 1 writer; 3 sockets of two identities; 2 peers in chunks of 1, both subscribed and at most one batching to begin with, 3 events, batches of 3 of which 2 fit, a queue of 2 frames and 3 bytes, 2 thresholds, 2 moves (an event broadcast again, a control frame, a subscription made or dropped, here or for another stream), followed up to the first event that is broadcast again although it was sent; 2 SSE requests and 1 poll |

Three of the properties are refinements: `KeepsOrder` and `WavesKeepOrder` say that
the two backfill schedulers implement `OrderedBackfill`, and `FollowsLifecycle`
that `StreamRecords` implements `StreamLifecycle`.

Where the code holds only under a condition, the property says so and names the
condition by a history variable: an event is broadcast once *unless the dedup
cache was degraded*, it has taken effect *unless a delivery failed*, the mirror keeps an item *unless its INSERT was lost or it was
used before hydration*, the flags are what was asked *unless setters overlapped*.
Section 5 lists what happens otherwise.

Why these bounds suffice for what they show. Two replicas, two batches and two
calls are the least for a takeover in the middle of a range; three rows in
batches of two make the last batch short. One fault is enough for a crash, a
stop or a hang at any point, while lost leases and failed queries are not bounded at all. A lease
of three heartbeats is the code's ratio (15 s and 5 s by default). Two attempts make a
first, a last and a repeated one. In `outbox_mixed` the breaker's threshold is
out of reach because a tripped breaker ends an event's attempts early, which is
part of what `outbox_silent_loss` shows; in `webhook_service` no URL is unusable
because such a row keeps its batch rolling back for ever (section 5). The outage
instance of the lease is the smallest, because checking strong fairness dominates its
time; the heartbeat invariant it checks is proved for all instances. A retention batch is
larger than the number of held rows, because a batch full of held rows never ends
(section 5). Four tasks over two threads and a queue of one reach the full queue
and a death with tasks waiting behind it; two deaths reach the pool without
threads. Three events delivered twice contain every crossing of a creation, an
update and a cancellation. Three sockets with a limit of one meet the limit, the
reconnect limit and the ban. Three hits with a limit of one fall before, on and
after the edge of the window. `MaxPosts` is one more than two attempts and a fault
allow, so a request too many would be counted. Two peers in chunks of one make every
event wait for its second chunk; a queue of three bytes refuses a frame that a queue
of two frames would still take. At most one of the two peers batches to begin
with, because a batch belongs to its connection and never meets another's; either may
begin or cease to. The replays of `realtime` page one event at a time and may be refused
any frame. A request that times out
is part of `webhook_service`, where the same dispatchers run; `outbox_mixed` leaves
it out.

`CHECK_DEADLOCK FALSE` is set throughout: calls, faults and acquisitions are
bounded, and the system may rest once they are used up.

Symmetry (replicas, instances, dispatchers, two of the ingests, clients without a
token) is used only in runs without liveness.

### Fairness

* Replay: `WF(CallStep(c))`. A replica whose connection answers goes on. Nothing
  is assumed of new requests, hung connections, crashes or the lease.
* Lease: time passes and an armed `setInterval` fires (WF); Redis answers
  renewals again and again, though any number may fail in between (SF on the two
  commands of `renew`). No fairness for acquisition or release.
* Outbox: the poll timer and the back-off timer fire, requests are answered or
  time out, transactions end (WF); a stopped dispatcher is started again.
  Crashes, database errors and deferrals are bounded in number.
* Deliveries: retry times come, a retry pass under way ends, and `POST /retry` is
  called again and again, which is what an operator's scheduler has to do: nothing
  in the process calls it.
* Breakers: time passes, and every call under way ends, if only by dying. A call
  of the RPC client is answered or times out, a Redis command is carried out or
  fails.
* Jobs: a worker that is not paused goes on and a pause ends when the lag does; a
  purge's statements are answered; pg-boss hands out due jobs and a handler ends
  or expires; a live thread answers. Deaths of threads are bounded and what
  happens to their tasks is excluded from `RunsEnd`.
* Lifecycle: the resume, the handlers, the hooks and the force timer come to their
  end. That hooks do is an assumption: they have no timeout.
* `api` and `realtime` check safety only and assume no fairness.

## 4. What is proved

The theorems hold for every value of the constants that meets the ASSUMEs of the
modules: any numbers of replicas, calls, rows, cursors, clients and faults, any
batch size, any lease and policy. The ASSUMEs say that bounds and sizes are
natural numbers, that sizes the code validates to be positive are (a batch, a
threshold, `retryLimit`, a pool's `maxWorkers`, the hub's chunk, batch and dedup cache), that finite things are finite, and
that a placeholder such as `None` is no member of the set it stands outside of. A
condition beyond that is named in the theorem (`ASSUME ... PROVE`) and below.

Every safety theorem has the same shape: an inductive invariant that adds to the
property what a step needs to know of the calls under way, a lemma per action or
group of actions, one for the whole step, and a temporal last step.

**Indexer replay** (`IndexerReplayProofs`)

* `TypeCorrect`. `TypeInv`: `TypeOK` and `CursorKnown`, which says that a call past
  its cursor resolution, and an unsettled COMMIT, refer to an existing row of
  `replay_cursors`. Without it nothing types an update of that row.
* `ResumeSkipsNothing`: `CursorCoversRows`. Not inductive by itself: a call adds
  its batch above its *local* offset, and an unacknowledged COMMIT may be applied by
  the server much later. `CoverInv` adds that every running call's local offset is
  covered by inserted rows and that every transaction in doubt ends with a covered
  offset once its own rows are there. Condition `SameRange`: all requests for the
  contract and ledger name one range; section 5 shows why it is needed.
* `DurableProgress`: `NothingRegresses`, from `TypeInv`; rests on the GREATEST in
  `advanceOffset` and on `completed` never being cleared.
* `LockIsExact`: `LockGuardsRun`, with `DownIsIdle` (a dead replica runs no calls).
* `CommittedWorkIsFound`: `CommittedWorkIsDiscoverable`. `TraceInv`: whoever may still
  commit, a transaction in doubt included, has a progress row, and only
  `completeCursor` takes that row out of in-progress.
* `ShownIsDurable`: `ShownNotAhead`. `ShownInv`: the shown progress belongs to the
  call that holds the lock, whose local offset its cursor's durable one has reached.
* `TimelyCompletion`: `TimelyCompletedMeansReplayed`. `LeadInv`: while `timely`, a
  replica that believes to lead holds the key, and a call past `tryAcquire` leads or
  was told to stop, so the leadership guard never leaves the loop early. `TotalInv`:
  counts and totals are those of the one range. Conditions: `SameRange`, and `OneSlot`,
  a replica runs one call at a time. The latter is necessary: a `tryAcquire` of the
  start-up recovery that fails takes leadership from a call that already runs, which
  then leaves its loop and completes the cursor.

**Leader election** (`LeaderElectionProofs`)

* `LeadersKeepAsking`: `LeaderHasHeartbeat`, for any latency, error and overlap.
* `LeaseHolds`: `LeaderHoldsTimelyLease`, that `isLeader()` is true only on the holder
  of the key. `LeaseInv` accounts for time: what is left of the TTL outlasts the ticks
  to the next heartbeat and the round trips that renewal, acquisition or release still
  need, each less what it has already taken. Condition `Prompt`: heartbeats fire on
  time, Redis answers without errors within `MaxLatency`, calls of one instance do not
  overlap, and `LeaseMs > RenewMs + 3 * MaxLatency`; with the defaults (15 s, 5 s) a
  round trip may take up to 3.3 s. Items 2, 7 and 8 of section 5 are what happens
  otherwise.

**Webhooks** (`WebhookOutboxProofs`, `WebhookServiceProofs`, `CircuitBreakerProofs`)

* `AnEventHasOneLiveRow` and `NoConcurrentSendHolds`: `OneLiveRow`, `NoConcurrentSend`.
  `OutboxInv`: locks are disjoint, an event's live row is unique, an open
  transaction holds live rows only and has at most one insertion per event, made for a
  row it will mark processed. COMMIT then exchanges one live row for another.
* `EveryEventAccounted`: `EventAccounted`. `LossInv`: an event without a live row is
  acknowledged, dead-lettered or at its last attempt, and whatever a transaction has
  decided is over in that sense or among its insertions. Condition `Plain`: the
  breaker does not trip and no answer falls into the class that is neither retried nor
  dead-lettered, which are the ways to a silent loss (section 5, 3).
* `RequestsStayBounded`: `BoundedPosts`, a conjunct of `EventAccounted`, without that
  condition. A batch that is rolled back has been sent and is sent again, so requests
  are not attempts on record: `PostsInv` says that a live row which nobody handles has
  not been sent in its own attempt, up to one repetition for each fault. `RowsInv`: a row is the first of its event and attempt or stems from a
  deferral, hence rows embed into events times attempts and deferrals.
* `ReplaysAreAccounted`: `ReplaysAccounted` of the dead-letter queue. `ReplayInv`: an
  entry's replay belongs to one request, and its history has a second cause exactly
  when that request reported one. `SuspensionInv` names the last resume and says that
  the failure count is the length of the run of failures at the end of what the topic
  was told; hence a run of `Threshold` failures that nothing has interrupted
  keeps the flag set.
* `NoDeliveryIsForgotten`: `DeliveriesAccounted`.
  `DeliveryInv`: a last attempt without a retry time was a success, is
  dead-lettered, or is still the business of the call that recorded it; until its
  first attempt is recorded, `queueDelivery` alone has a delivery. `Serial` (while
  retry requests do not overlap): every request sent is an attempt on record or is
  being answered, and an acknowledged delivery is on nobody's list.
* `TheMirrorLosesNothing`: `MirrorLosesNothing`. `StoreInv`: the row of an item that is
  not dealt with is live or its INSERT is still under way, only dealt-with items have a
  closing UPDATE, and an id names one letter for ever, in the mirror, the table and the
  statements under way; so no late statement closes another letter's row.
* `BreakerTypeCorrect` and `PausesAreEarned`, the Redis store. A record is computed
  from an earlier GET, so `Earned` adds that what a call has read is itself earned, and
  that a call on its way to the probe has read an open record.
* `OneMemoryProbe`: `MemoryAtMostOneProbe`, the in-memory store. `MemInv`: a probe
  outlasts the pause it was admitted in, hence no second one is admitted beside it.
  Condition `Quick`: a delivery takes less than half of `circuitBreakerResetMs`; a
  slower one reports late and deletes the reservation of a probe under way.
* `FallbacksAreJustified`: `FallbackJustified` of the Stellar RPC client. `RpcInv`: the
  failures in the window followed one another without a success, and age and remaining
  life of a cache entry add up to no more than its TTL and the time of its SET.

**Jobs and the process** (`JobsProofs`)

* `BackfillKeepsOrder` and `WavesImplementOrder`: both schedulers implement
  `OrderedBackfill`. The checkpoint is moved by scanning `status`, so `OrderInv` says
  that a batch marked done is in `handled`, that the checkpoint covers only done batches
  and that a busy worker has claimed one; `WaveInv` that everything before the wave is
  handled and the checkpoint is where the wave begins while the run goes on. Each step
  is then a step of the abstract specification or a stutter.
* `PausesAlternate`: `OneGate`, by `GateInv`, which spells out the difference of the
  two counters with the gate open and closed.
* `PurgeIsAccounted` and `HeldRowsAreKept`: `PurgeAccounted`, `HeldRowsSurvive`.
  `PurgeInv`: rows of a transaction are in the table and locked by it, what it is
  about to purge is under no hold, and audited rows and remaining ones add up.
* `QueueIsAccounted`: `QueueAccounted`. `QueueInv`: an object past its start is the one
  the singleton names unless a stop raced its start, one that is unused, gone or stopped
  has no worker, and a job with a dead-letter entry is failed.
* `PoolIsAccounted`: `PoolAccounted`. `PoolInv`: a waiting call is in exactly one slot or
  one place of the queue, a backlog means that all slots exist and are busy, and
  `activeTasks` counts the dispatched tasks.
* `LifecycleHolds`: `LifecycleSafe`, about handlers and hooks; what becomes of open
  event streams is not part of it (section 5, 23). `LifeInv`: nothing of the shutdown happens before a
  signal, the hooks were started by the one `finish()`, and a request needs its
  connection unless its handler goes on without it.

**API state** (`StreamRecordsProofs`)

* `RowFollowsLifecycle`: `FollowsLifecycle`, the refinement of `StreamLifecycle`. A call
  updates the row from what it read, possibly on a stale replica. `CallInv` says that
  what it is about to write is allowed from the status it read; the guard of the UPDATE
  makes that the status of the row.
* `EventsBroadcastOnce`: `BroadcastOnce`. `OnceInv` follows a creation by the row (it is
  broadcast by the INSERT that succeeds) and any other event by the dedup key: while
  nothing was degraded an event without a key was not broadcast, and at most one call
  has passed the key and not yet broadcast.
* `AcknowledgedTakeEffect`: `EventsTakeEffect`. `EffectInv`: an event that is in a dedup
  cache or acknowledged is settled or in the hands of a call.
* `KeysKeepTheirPromise`: `KeyMeansOneStream`. `CreationInv`: under a key whose requests
  met no trouble, every answer is the stored one, and a request past its lookup found
  nothing stored.
* `AdminStateIsSafe`: `AdminStateSafe`. `AdminInv`: a process's reindex status is "running"
  as long as its one job is; while pauses are serial, whoever has the lock carries what
  the file will hold.
* `LimitIsExact`: `LimitExact`. `LimitInv`: a verdict that could matter to the next one is
  still among the store's entries, and in every window the admitted verdicts are at most
  the limit.

**Clients** (`RealtimeProofs`)

* `ResourcesAreReturned`: `ResourcesReturned`. `SseInv`: who holds a slot, a listener or a
  callback is decided by the stage a request is in, and a request that is not closed was
  not answered.
* `ConnectionsAreAccounted`: `ConnectionsAccounted`. `WsInv`: the counters are the
  cardinalities of the sets of clients that hold a slot, per key as long as no token
  expired in its upgrade, and indexes name only connections that are registered.
* `EventsAreKept`: `EventsKept` of the ingestion. `IngestInv`: the slots in use are the
  requests that insert and somebody waits only while all are; a request that has
  compared a ledger finds no other fork of it in the store unless a batch disputed it;
  and a replay's cursor has behind it everything that stayed and was not handed to the
  client's queue; whether the queue takes a frame is not promised (section 5, 19). What a
  rollback or an eviction leaves is `Picked`, whose elements and order are those of
  the kept positions.
* `EventsDeliveredInOrder`: `DeliveredInOrder` of the hub. `OutInv` says that
  received frames, queue and accumulator, the dropped and cut events and the fan-outs that
  still owe a connection something are exactly what was broadcast to it while it is open,
  and, for a connection outside `shifted`, that frames, queue and accumulator are one
  increasing run and that a pending accumulator means it still batches. For the waiting fan-outs it
  says that they have sent whole chunks to recipients that do not batch, that as long
  as nobody left they go along the same list, that of two of them the older event is
  never behind the younger in reach, and that whom a fan-out has not reached has
  received no younger event. Without the last two a chunk could overtake another.

Filters and byte counts are recursive functions. What they compute is proved by
`SetInduction`, induction with the property given as a set: were a number missing from
it, the successor function would map the finite initial segment injectively into
itself without 0 (pigeonhole). The library's induction theorems, which
take an operator, are not used, and the operators these two
proofs reason about use no folds, `SelectSeq` or `SortSeq`.

Only model-checked:

* liveness, which is out of the prover's reach: `EveryCallEnds`,
  `StaleLeadersStepDown`, `EverythingSettles`, `CircuitsRecover`, `NoJobLost`, `RunsEnd`.

Every safety property that a passing run checks is also proved.

## 5. Disagreements between the code and what it says of itself

With a run (and a finding in `PROJECT.json`):

1. `replay_lost_leadership`: the leadership guard at `indexer/service.ts:230`
   leaves the loop by `break`, and the code after the loop marks the cursor
   completed although rows are missing; no later run resumes it.
2. `lease_outage`: `renew()` moves `_lastRenewAttemptMs` before it talks to Redis,
   so the stale-clock guard never fires during an outage.
3. `outbox_silent_loss`: an event whose attempts are exhausted, or whose breaker
   trips, leaves the outbox with neither delivery nor dead-letter entry.

Found the same way with other constants. The properties are stated in the
modules; give the property as the only INVARIANT or PROPERTY of a configuration
that differs from the named run's as said:

4. `CursorCoversRows` fails when requests may name two ranges (from
   `replay_lost_leadership`, with the whole ledger and its last row as `Request`).
   `findActive` (`replayCursorRepository.ts:20`) ignores the block range, so a
   call for another range resumes the old cursor and counts its own rows against
   it. `service.ts:135` speaks of "the same parameters".
5. `StopUnwinds` fails (from `replay_calls`, one slot and `MaxFaults = 2`): after
   the forced timeout `processBatch` awaits ROLLBACK behind the statement that is
   stuck on the same connection (`replayBatchRunner.ts:178`).
6. `ProgressInLockstep` fails (from `replay_lost_leadership`): another replica may
   complete the cursor between its read and `upsertResuming` (`service.ts:436`).
7. `AtMostOneLeader` fails (from `lease_outage`, `LeaseMs = 6`, `RenewMs = 2`,
   `MaxLatency = 1`, no `RedisErrors`, `Overlap = TRUE`): the DEL of a
   `release()` under way removes the key the same instance has just taken again.
8. `FencingOrdersLeaders` fails (as 7, with `Overlap = FALSE`, `Timely = FALSE`): SET NX
   and INCR are two commands, so a slow winner gets the newer token.
9. `StableDeliveryId` fails (from `outbox_silent_loss`, with "ok" as an outcome):
   a retry is a new row and `x-fluxora-delivery-id` is derived from the row.
10. `PoisonReachesDlq` fails (from `outbox_silent_loss`, with `FairSpec` and one event
    in `BadUrl`): the endpoint check throws outside every try, the
    batch rolls back for ever.
11. `AtMostOneProbe` fails for the Redis store (`Spec` of `CircuitBreakerMemory`, three
    deliveries, all times 5, `MaxAge = 2`, without errors): GET, SET NX and SET
    interleave with another call's DEL of the lock.
12. `PauseEnds` fails for the in-memory store (the same, `MemFairSpec`): nothing compares
    `expiresAt` with the clock.
13. `ShutdownRejects` fails (`ServiceLifecycle` in `jobs`): `readinessGuard.ts` says
    "During SHUTTING_DOWN: returns 503", but a resume that ends after the signal calls
    `markReady()`, and a request being received then is admitted.
14. `FallbackAnswers` fails (`WorkerPool` in `jobs`): the slot of a dead thread is
    used again (`workerPool.ts:409`), its task is never answered, "so the caller's
    logic is never broken" does not hold.
15. `OnlyOperatorLifts` fails (`DeadLetterReplay` in `outbox_mixed`): lifting a
    suspension is an "operator-only action" (`dlqRepository.ts:25`), but a success
    resets the failure count and leaves the flag, and the next failure recomputes
    the flag from the count.
16. `ReplayedWasAnswered` fails (there too): a statement that fails after
    `replayEntry`, and a replay that is answered with a failure, leave the entry
    `replayed`.
17. `CreateRecovers` fails (`StreamCreation` in `api`): the dependency flag that an
    outage clears (`app.ts:154`) is never set again, so creation answers 503 until
    the process restarts.
18. `EveryRunEnds` of `RetentionPurge` fails (`jobs`, `MaxHeld = PurgeBatch`): a full
    batch of held rows is selected again and again (`retentionPurge.ts:353`), although
    the comment says that held rows do not reappear.
19. `ReplayDelivers` fails (`EventIngestion` in `realtime`): `stream_replay_complete` is
    "Emitted when all historical events matched by a `replay` request have been
    delivered" (`src/docs/websocket.md:145`), but `replay.ts:97` ignores the answer of
    `queueOutboundMessage`: frames that a slow client's queue refuses are lost and the
    replay completes.
20. `ResumesWithoutGap` fails (`SseStreams` in `realtime`): "To resume without missing
    events, send the `Last-Event-ID` header" (`src/docs/api/sse-streams.md:49`), but an
    event that is stored after the last page was read (`realtime.ts:175`) and emitted
    before the subscription (`sse.ts:164`) is neither replayed nor delivered.
21. `CapIsCeiling` fails (`RetentionPurge` in `jobs`): `maxRowsPerRun` is a "Hard ceiling
    on the total number of rows deleted or redacted" (`retentionPurge.ts:131`, 187), but
    it is compared only before a batch (364) and the batch is not cut to what is left:
    with batches of 2 and a ceiling of 3 a run purges 4 rows.
22. `StopStops` fails (`JobQueue` in `jobs`): `stop()` "Stops the job queue, gracefully
    shutting down all workers and releasing resources" (`queue.ts:316`), but returns at
    once while `start()` is under way (321); the start goes on, and nothing can stop the
    workers it registers.
23. `StreamsAreDrained` fails (`ServiceLifecycle` in `jobs`): the hooks "write retry:0 to
    open event-stream responses" (`app.ts:426`), but they run when `server.close()` calls
    back (`shutdown.ts:114`), which waits for the streams: an open stream holds the shutdown
    up to the force timer, which cuts it off before its hook runs. WebSockets hold it up in the
    same way, and `closeAllConnections()` does not close them: the frame 1001 of
    `gracefulClose()` (`app.ts:461-462`) comes after the force timer, where
    `src/docs/websocket.md:365-368` and 424-431 put it before the HTTP server drains.
24. `RedeliveryTakesEffect` fails (`StreamRecords` in `api`): the service "ensures
    eventual consistency" (`streamEventService.ts:7`) and "Duplicate events are safely
    ignored" (105), but the dedup key is set before the event is handled (143): when the
    handling fails or its process dies, the next delivery is a duplicate and is reported as
    processed.
25. `NoLeaks` fails (`WsConnections` in `realtime`): "The counter is decremented exactly
    once per successful reservation", "No leaks under concurrent close events"
    (`upgradeHandler.ts:82`, 84, 88), but the listener that gives the slot back is put on
    the socket after the awaited ban check (114): a socket that closes during the check
    keeps its slot until the process ends.

Read in the code while modelling it. The models behave so, and the properties are
stated with the condition under which they hold. Where a document or a comment says
otherwise it is quoted:

* **Jobs.** `schedule()` passes no `deadLetter` (`jobs/queue.ts:748`), although the
  comment at 363-364 says a failing job is retried "before eventually moving it to the
  dead-letter queue"; `NoJobLost` therefore lets a scheduled job end failed. `dlqPurge.ts` reads
  `retentionDays || 30`, so 0 does not switch the purge off. A redact rule selects
  redacted rows again until its cap.
* **Backfill.** In `backfill.ts` a wave with one failure does not report its
  successful prefix (15-16); `backfillScheduler.ts:196` pairs positions with unsorted
  batches; there a rejecting `onCheckpoint` runs the handler of a done batch again, in
  `backfill.ts` (124) it ends the run.
* **Idempotency.** Overlapping requests with one key both insert (`store.start` is
  never called); a body without `startTime` differs at every request, so its retry is
  a 409 (`write.ts:46`) where `src/docs/api.md:24` promises a replay of the 201.
  `KeyMeansOneStream` compares 201 answers only.
* **Admin state.** Without Redis `setNx` always succeeds, so there is no lock at all
  (`adminState.ts:165`); flags computed before the lock lose an overlapping update (191).
* **Stream events.** After an insert conflict the row is read from the replica
  (`streamRepository.ts:351`).
* **WebSockets.** A client that drops its batching filter, for whatever stream, while
  events are accumulated receives the next event before them
  (`subscriptionRouter.ts:247-253` asks all filters for every event, where
  `src/docs/websocket.md:453-454` speaks of "the stream you want batched"; that the
  events of one batch frame are in order, line 491, holds). A subscriber that leaves
  while a fan-out is between chunks moves others to an earlier chunk of the next event.
  A token that expires between upgrade and connection makes
  the disconnect count against another key; the drain misses upgrades in their ban
  check; frames queued for a saturated socket wait for the next send; an oversized
  batch is cut off; an evicted dedup entry lets an event be broadcast again.
* **SSE.** The limiter's own timer may give a slot back first
  (`sseConnectionLimiter.ts:255`), so that more streams than the cap are open; the drain misses handlers in lookup or replay.
* **Ingestion.** Overlapping batches of two forks mix, and a late rollback removes
  another batch's events (`ingestion.ts:382`); the Postgres store pages by
  `event_id` while it orders by ledger (`store.ts:381`).
* **Stellar RPC.** A late success closes an open circuit, and half-open admits every
  caller (line 8 of `stellar-rpc.ts`: "one probe").
* **Rate limiting.** Rejected requests count, each store grants the limit anew, and
  nothing leaves the fallback again.
* **Webhook store.** Dead letters come back from `hydrate()` under fresh ids
  (`pgStore.ts:191`), so their later UPDATE matches nothing; use before the end of
  `hydrate()` duplicates an item; a failed `hydrate()` is not retried (207 says it is).
  An item whose INSERT failed is gone after a restart, although "the next cleanup/restart
  will reconcile" (`pgStore.ts:34-36`). `POST /process-outbox` counts items as processed
  that it logs and removes without a request (`routes/webhooks.ts:757-764`).
  A late failing attempt overwrites "delivered" (`delivery.ts:290`).
* **Shutdown.** Hooks have no timeout.
* **Pool.** A thread that fails while starting leaves its slot busy and the queue
  waiting; the death of an idle thread is not noticed; `shutdown()` leaves running
  tasks unanswered.

## 6. Not modelled

* HTTP dispatch, signatures, SSRF checks, DNS, routes, validation, serialisation,
  GraphQL, OpenAPI, SDKs and generators, metrics, tracing, logging, configuration:
  input checks, text and I/O without protocol state. They are most of the
  repository's lines.
* Webhook rate limiters: they appear by their answers; their windows are those of
  `RateLimiting`.
* Stall detection, integrity checks and the gRPC gateway: reports derived from the
  modelled state, and a transport in front of the replay.
* Partition maintenance and migrations: DDL under an advisory lock, run once.
* The replica pool and the read-your-writes pin: `StreamRecords` has what they return
  (a row of the primary or an older one), not how a connection is chosen. Pools
  themselves are I/O.
* The delivery records of `pgStore.ts`, written beside items and dead letters in the
  same way; the Redis-backed token and key stores, which are single commands.
* Corners of modelled parts: `hydrate()` reads at most 1000 dead letters and skips
  corrupt rows (`pgStore.ts:179`, 186-189); a `postMessage` that throws
  (`workerPool.ts:406`).
* Content: amounts, payloads, event bodies, texts.

Liveness and ENABLED are not proved; they stay with TLC.

## 7. Plan

Done: the components above, three refinements, the theorems of section 4. Left, in
order of what a failure would cost:

1. An abstract lease (held by one instance or free) that `LeaderElection` refines
   when timely, and a composition of `IndexerReplay` with it in place of its own
   lease steps.
2. The outbox composed with the breaker instead of its answers.
3. The replica pool with its write pin; the configuration's hot reload; the audit
   batch exporter.
