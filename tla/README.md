# grnoti: TLA+ models, checks and proofs

grnoti receives notification events, finds who should get them, pushes them
through Firebase Cloud Messaging (FCM) and keeps what failed for a later retry.
These modules model the parts of it where goroutines, processes and failures
meet. Line numbers are those of `src/`.

## The system

```
Kafka -> consumer -> Submit -> [worker pool] -> processEvent
                                                  | idempotency check
                                                  | preferences, template
                                                  | devices or topic
                                                  v
                                   dispatcher: batches, retries,
                                   limiter, circuit breaker -> FCM
                                                  | invalid FIDs, DLQ
                                                  | lifecycle event
                                                  v idempotency mark
                      retry worker <- DLQ (memory, Postgres, Mongo)
```

| part | code | module | state |
|---|---|---|---|
| circuit breaker | `circuitbreaker.go` | `CircuitBreaker` | modelled, proved |
| DLQ contract (the memory handler) | `memory.go`, `retrystrategy.go` | `DLQHandler` | modelled, proved |
| DLQ on Postgres and Mongo | `dlq.postgres.go`, `dlq.mongo.go` | `DLQBackend`, `MCDLQBackend` | modelled, refinement proved |
| worker pool, Submit and Close | `workerpool.go`, `service.go` | `WorkerPool` | modelled, proved |
| Kafka consumer | `consumer.kafka.go` | `KafkaConsumer` | modelled, proved |
| pipeline | `service.go`, `batchsplitter.go`, `cache.idempotency.go` | `NotificationService` | modelled, proved |
| FCM dispatcher | `dispatcher.fcm.go` | `FCMDispatcher` | modelled, composed with the breaker, proved |
| stores: devices, preferences, experiments | `memory.go`, `devicestore.*.go`, `preferences.*.go`, `experimentstore.postgres.go`, `internal/postgresdb` | `Stores` | modelled, compared, proved |
| clients: constructors, operations, Close | `postgres.go`, the stores, `ratelimiter.redis.go`, `producer.kafka.go`, `consumer.kafka.go` | `Connections` | modelled, proved |
| preferences cache and filter | `cache.preferences.go`, `preferencesfilter.go` | `PreferencesFilter` | modelled, proved |
| localized templates | `localization.go`, `templateengine.go` | `Localization` | modelled but for the text, proved |
| Redis rate limiter | `ratelimiter.redis.go` | `RateLimiter` | modelled, proved |
| experiment engines | `experiment.go`, `cache.experiment.go`, `events.go` | `Experiments` | modelled, proved |
| local rate limiter | `ratelimiter.go` | | not modelled, see below |
| event types, payload size, generated code, logger, version, example | | | not modelled, see below |

`PROJECT.json` maps every definition to its lines and lists the hazards of the
code with the properties that cover them.

## Modules

**CircuitBreaker.** `Execute` takes the mutex twice with `fn` in between, so a
call is two actions, `beforeRequest` and `afterRequest`, and anything may
happen between them. Times are ages that saturate once no comparison of the
code can change. `status` tells the calls of the current half-open episode
from those admitted earlier.

**DLQHandler.** `memoryDLQHandler` holds its lock throughout, so every
operation is one action. Workers claim events, hold them, report or crash.
`claims` counts how often a record was handed out. The clock is bounded by
`MaxTime`. Jitter is a choice among all the delays `FullJitterBackoff` may
return.

**DLQBackend** extends it with the handlers that use a database. A claim is one
statement on Postgres and one per document on Mongo; `MarkRetried` is an
increment, scoped to `retrying`, and a finalizing statement by event id alone.
`faulty`, chosen at the start, adds crashes, statements that fail and replies
that are lost; any number of workers meet, and a purge may remove a record in
hand. A worker whose `MarkRetried` erred may call it again. Two history
variables name where the statements depart from the contract: `shared`, the
events that two workers have had in hand at a time (a worker that calls again,
or a purged record published and claimed anew), and `stale`, those published
anew while `MarkRetried` of their purged record was between its statements. The
contract is instantiated with a refinement mapping that hides the record between
the two statements; refinement is claimed of behaviours without faults, up to
the first such departure. Mongo claims document by document, so the contract's
limits are those of the backend and 1.

**WorkerPool.** `Submit` reads `closed` and sends on the channel in two steps;
`Close` sets `closed`, closes the channel, waits for the workers and cancels
their context, one step each. A send on a closed channel panics.

**KafkaConsumer.** One partition: a message is fetched, decoded, handed to the
handler, and marked or not. Marks are a high-water mark; commits copy it. The
handler is the pipeline itself or, with backpressure, the pool's queue. A
restart loses what is in memory and resumes at the committed offset.
`MCIngest` puts the consumer and the pool beside each other: the initial state
chooses the one that moves.

**NotificationService.** `processEvent` as a sequence of steps, several runs at
once. The collaborators may fail, the process crash, marks expire, deliveries
repeat, and a retry worker resubmit. `got`, `dead`, `settled`, `dispatches`,
`excuses` and `overlapped` are history that no step reads.

**FCMDispatcher** extends `CircuitBreaker`: goroutines of one `Send` beside
`SendToDevice` and `SendToTopic`, all through one breaker. Batches, retries,
delays, the limiter and cancellation are steps. `Deduplicate` and the grouping by
platform say which devices are kept and in which order, without the code's loops;
`MCFCMDispatcher` gives the calls examined and compares both with the loops, on
every list of up to three devices.

The remaining modules are the parts around the pipeline.

**Stores.** Each call goes to every backend of its store in one step: the map
of the memory store, the statement of Postgres (`ON CONFLICT`, `RETURNING`) and
the update document of MongoDB (`$set`, `$setOnInsert`). The tables and the
answers are then compared. Settings keep the difference between a nil map, an
empty one and Mongo's array of pairs; `AsRead` identifies the first two where
`GetPreferences` is compared, since they come back differently.

**Connections.** A handle is a store, the Redis limiter, a Kafka producer or the
Kafka consumer. Its constructor dials a client or is given one, and may fail
before or after that; an operation checks `closed` and uses the client in a
later step; `Close` closes the client if the handle owns it. What a driver does
when it is closed is external: what its Close waits for (`Waits`), and how it
meets an operation that Close has overtaken. Most refuse it (`Refuses`);
`SendMessage` of a sarama producer is refused while the producer drains and
panics once its channel is closed (`PanicsProducer`), which ends the process.
`raced`, the operations that were past their check when Close began, is history.

**PreferencesFilter.** `GetPreferences` is get, load and fill, and
`SavePreferences` write and invalidate, interleaved; the cache may fail at each.
The filter decides on what it got. Times are minutes of a day; `Date` is what
`time.Date` does with a time of day on a day when the clocks go forward.
`overlapped` and `faulted` are history.

**Localization.** `BuildMessage` resolves the locale, looks the template up,
compiles it through the cache and falls back to the base engine. The cache is
read and written under different locks, so a slow call may store an old form.

**RateLimiter.** The Lua script is one step with its arithmetic in integers:
time in ticks and tokens in parts, `Second` of each. The time it stores is
rounded as Lua's `tostring` rounds it; the key expires; the Redis server's clock
may be set back. `Wait` polls, several replicas have limits of their own.
`granted`, `advanced` and `evals` measure a window that may open at any time.

**Experiments.** Both engines: the deterministic one in one step under its lock,
which a panic leaves held, the cached one as get, pick and set. The hash is
arbitrary. The weights are cut to 32 bits as in `deterministicPick`.

`MCBackends` puts these six beside each other: the initial state chooses the part
that moves, and the others are at rest. They share no state, so every behaviour
of each part is one of the composition.

## Runs

| run | shows |
|---|---|
| `dlq_contract` | two workers, two events, crashes: exclusive claims, exact attempt counts, failures settle |
| `dlq_backend` | two workers on both databases: without faults they implement the contract, statement by statement, purges of records in hand included; with crashes, failed statements and lost replies: never more than `MaxRetries` attempts, terminal records reopened only if two workers had the event |
| `ingest` | four messages, one poison, one failing, two restarts, with and without the pool: nothing skipped unseen, nothing blocks. Three events, two callers, two workers, a queue of one: nothing lost, drained before Close returns, Close returns |
| `svc_faults` | two runs on one event with two devices in batches of one, faults of seven kinds: nothing dropped, dispatched once but for a reason, announcements true |
| `svc_kinds` | one event of each kind, failing collaborators: a run that is past the idempotency check ends and answers nil |
| `dispatcher` | four sets of calls, two attempts, batches of two: the result adds up, cancellation stops retries, Send returns; the breaker's half-open counter never outlives its calls, a late success closes nothing, half-open ends |
| `backends` | stores agree after any four calls; no client leaks, no given one is closed, a call made after Close never panics; the cache is stale only by a race or a failure, and not for ever; decisions follow the preferences; messages come from the template looked up; the bucket keeps its promise in every window; variants are proportional, stable and announced |

Five runs end in a counterexample, where the code and what the repository says
of it disagree:

- `submit_panics`: `Submit` passes the closed check, `Close` closes the queue,
  and the send panics (`workerpool.go:128`); the documentation promises
  `ErrClosed` or `ErrWorkerPoolFull`.
- `kafka_failed_redelivered`: a failed message is left unmarked, the next one is
  marked, and the group's offset is past both (`consumer.kafka.go:199`). The
  test of redelivery publishes only the failing message.
- `svc_resubmitted`: a run that publishes to the DLQ also marks the event
  processed (`service.go:285`), so a resubmission is skipped while the mark
  lives; the README describes resubmitting as the way to retry.
- `dlq_reopened`: the finalize of `MarkRetried` is by event id alone
  (`dlq.mongo.go:255`, `FinalizeRetry*` in `dlq.sql`), where `interfaces.go:231`
  demands that implementations scope their update to the claimed state. Worker A's
  finalize puts the record back but its reply is lost; B claims the event; A calls
  `MarkRetried` again and its increment matches B's claim; B resolves the record;
  A's finalize reopens it.
- `quiet_hours_dst`: whether a window crosses midnight is decided on instants and
  not on the parsed times (`preferencesfilter.go:89`). When the clocks go forward
  from 02:00 to 03:00, east of Greenwich, a window from 02:30 to 03:00 is taken for
  one across midnight, and notifications are held back almost all day.

Five more disagreements are exceptions that the properties of `backends` name;
without the exception TLC finds each property violated:

- `BackendsAgree` excepts `CreateExperiment` with an ID in use: the memory store
  replaces the experiment (`memory.go:348`), where `errors.go` and the README
  promise `ErrExperimentAlreadyExists`.
- `BackendsAgree` also reads nil event settings as empty ones: saved as nil they
  come back nil from memory and from Postgres, whose `null` decodes to a nil map
  (`preferences.postgres.go:22`), and empty from Mongo, where
  `preferences.mongo.go:49` says they are never nil, as with Postgres.
- `PanicOnlyInRace` excepts a publish that was past its closed check when `Close`
  began (`producer.kafka.go:134`): it panics in the closed sarama producer, where
  `errors.go:23` promises `ErrClosed`.
- `FreshUnlessRaced` excepts a save between the load and the fill of a read
  (`cache.preferences.go:68`): with a TTL of 0, which the comment says relies on
  invalidation, the old value stays until the next save.
- `VariantStable` excepts two first assignments of the cached engine on two
  versions of a definition; the comment in `events.go` says both compute the same.

`GrantsBounded` assumes that an idle bucket is full before its key expires
(`FullWithinTTL`): the code does not check it, and a burst of more than ten
minutes' refill would be granted again early.

### Bounds

Two or three actors and one or two items are the smallest numbers at which two
calls meet in every step; a queue of one is both empty and full within a few
steps; two or three retries have a first, a last and none left. `MaxRestarts`,
`MaxFaults`, `MaxTime`, `MaxCount`, `MaxCalls`, `MaxHandles`, `MaxSaves`, `MaxAdvance`,
`MaxBack` and `MaxEvals` bound what is unbounded in the code. Where a theorem
exists it holds for every value of these constants.

In `dlq_backend` the behaviours with faults publish one event (`FaultyEvents`) that
two workers contend for, followed without end; those without faults have two
events and are followed until an event is shared or stale (`Explored`), which is as
long as `ImplementsContract` speaks of them. A finalize is seen to fail while the
count is below `MaxCount`, one above `MaxRetries`. In `svc_kinds` each event meets one
fault, of any kind but a crash, which its property excludes.

In `backends`, four calls on a store save, invalidate, save again and delete one
row, or two; two handles can share a given client; a day of four minutes has
every order of start, end and now; three ticks to the second and a grain of
three make the rounding visible in both directions; a `Uint32` of 4 has a total
that wraps. A window of the limiter may open in any reachable state, so the
bound on one window does not limit the history before it.

`CHECK_DEADLOCK FALSE` is said where the system may come to rest: the log is
consumed, the service is closed, or the calls of a bound are used up.

### Fairness

- Breaker and dispatcher: a goroutine that can go on does, and the function
  passed to `Execute` returns. `Execute` sets no timeout of its own, so this is
  an assumption on the FCM client.
- DLQ: workers keep polling and report what they claim, unless they crash; the
  clock advances. The package leaves that worker to the application.
- Pool: workers and callers that can go on do; handlers return.
- Kafka: the consumer and the pool's workers go on, and a session is started
  again after it ends (`Start` loops).
- Pipeline: a run that can go on does. Nothing is assumed of delivery: the
  consumer does not redeliver what it has moved past, so `EventuallyAnswered` is
  about a run that has started.
- Preferences cache: readers and the saver go on, and the cache drops an entry
  at the end of its TTL, which must be set for this.

## Proofs

The `*Proofs` modules prove type correctness and then the safety properties, for
every value of the constants that the component's assumptions allow. Most leaves
without arithmetic name Zenon; the others are left to the default provers. Leaves
given to SMT were seen to take several times longer in a proof of a whole module than
on their own, some past the limit; with Zenon named they are not.

- `DispatcherBaseProofs`, the breaker: `HalfOpenAccounting` is inductive with the
  types; the cardinality of the trials changes by one with each admission and
  return. The dispatcher's data: `GroupIs` (the groups partition the FIDs of the
  call) and `SplitIs` (batches within the limit that have every FID once), for lists
  of any length; the invariant `DispatcherInv`; the end of an attempt, and `Send`'s
  start and return.
- `FCMDispatcherProofs`: a step of a goroutine is of one of three kinds: it walks on
  towards FCM, ends an attempt with a result, or ends its group; each kind keeps
  `DispatcherInv`. Its heart is `Accounted`: the sum of a
  goroutine accounts for the FIDs of its group that have left its queue, the last
  attempt's result for the batch that is retried, the merged result for the groups
  that are done. A result accounts for a set of FIDs when it counts each once,
  counts no more successes than were accepted, and its failures cover the FIDs
  that got nothing (`Accounts`); this adds up over disjoint sets and survives later
  acceptances. `Resent` and `Late` strengthen `ResentForRetryable` (a device still
  queued was sent the message for retryable errors only) and `OneCallAfterCancel`
  (a goroutine that has made the late call does not get past `Execute`'s context
  check again).
  `DispatcherDrivesBreaker` is the refinement: every step of the composition is one
  of the breaker or leaves it alone, so the breaker's theorems carry over.
  `SendersAdvance` is described under liveness below.
- `DLQHandlerProofs`: `RetryAccounting` is inductive. `ClaimExclusive` needs
  that no claimed record is purged by age, so it assumes every purge age is at
  least `MaxTime`; without it a record may be purged, published again and
  claimed twice. `TerminalIsFinal` is proved of the memory handler, action by action.
  For the databases
  `BackendInv` says what is known between two statements, with every fault and any
  number of workers: an event that has not been shared is in one hand (`OneHand`);
  a record being marked is in its worker's hand and, unless shared, not settled
  (`MarkingOK`); and the attempts made, together with the finalizes under way that
  may put the event back (`Owing`), are paid for by increments (`AttemptsCovered`).
  The last is what makes `AttemptsBounded` inductive: two workers may both be
  between their statements, and each may put the record back once.
  `ReopenedOnlyIfShared` follows from `MarkingOK`, and `BackendsImplementContract`
  maps each statement to an operation of the contract or to a stutter.
  `NothingStranded`, that every record in `retrying` is in a worker's hands, is
  proved of the contract when no worker crashes and of both databases without
  faults; there claims are exclusive too, under the assumption on purge ages.
- `WorkerPoolProofs`: `PoolInv` adds to `NothingLost` that a pending `Submit`
  holds an event nobody else has, and that a worker exits only when the queue is
  closed and empty. Drain and cancellation follow. `QuietInv`, that a closed queue
  has no `Submit` in flight, gives the boundary of the panic, `ShutdownInv` and the
  bound on `DrainSteps` the safety half of `CloseReturns`; both are below.
- `NotificationServiceProofs`: `DropInv` says what each run still owes at each
  step and what a finished one has left. `NothingDropped` assumes the DLQ is
  enabled and that resolving recipients and publishing to it do not fail: in
  those cases the code does drop. `OnceInv` relates the number of dispatches to
  the marks and the stage of the run. `TruthInv` says that a run that has sent is
  still on the way to the bus or has announced it, and that one with recipients
  has been through all of them when it announces; `AnnouncedIsTrue` assumes that
  resolving and the bus do not fail.
- `ConnectionsProofs`: `IInv` ties the client each handle dialled to the state of
  the handle (`InStep`), and an operation to a handle that was built, and to `raced`
  once that handle is no longer ready (`OnBuilt`), which gives `PanicOnlyInRace`. The
  stores:
  `StoresInv` says that the tables are one table, with Mongo's settings as its array
  of pairs, and experiments created again excepted; every call keeps that and gives
  one answer, `GetPreferences` up to `AsRead`.
- `KafkaLimiterProofs`, the consumer: `KafkaInv` orders `committed <= marked <= pos`
  and says every message before `pos` is settled but the one in hand. The committed
  offset never goes back (`CommittedGrows`). `SafeInv` follows each message that is
  marked to the pipeline or to the pool, for `LossHasACause`. The limiter: a
  potential argument. `Level` is the most any caller could find in the bucket;
  `Bounded` says that what was granted plus `Level` stays within burst, refill and
  rounding. An evaluation pays for what it grants out of `Level`; the clock raises
  `Level` by at most the rate; expiry raises it to the burst only when it is there
  already (`Kept` with `FullWithinTTL`).
- `CacheProofs`: `FInv` adds to `FreshUnlessRaced` that a reader about to fill holds
  what is stored unless a save overtook it. `DecisionFollowsPreferences` rests on
  `WindowOnCircle`: the two cases of `isWithinQuietHours` are one window modulo the
  day. `DecisionFollowsClock` says the same of the days when the clocks change, for
  every window whose two ends the local clock shows that day (`ClockShows`).
  `LInv` says what each call of `BuildMessage` holds at each step; compiled
  forms are never malformed. `ExperimentInv` says who knows of which variant: of one
  only unless the cache was disturbed, of the one picked until the definition
  changes, and of none that is not announced or about to be. `PickProportional`
  rests on `PickIs`: a variant's hashes are those from the sum of the weights before
  it to the sum up to it. That sum is a recursive function; that it exists and grows
  is proved from the least number at which it would not (`NatLeast`).

The theorems about constants use the named assumptions of the component modules
(`ConnectionsAssumption`, `LimiterAssumption`, `FilterAssumption`, `InputsAssumption`,
`WeightingsAssumption` and so on), which say no more than that the sets and numbers
have the shapes the code accepts.

`PoolAssumption` says that the workers are finitely many, `Config.Workers` being an int.

### Where the findings end

For four of the five runs that end in a counterexample a theorem says when the
documented behaviour does hold:

- `QuietCloseNeverPanics`: `Submit` never panics if `Close` is entered only while no
  `Submit` is between its check and its send, as when one goroutine calls both
  (`OneCallerNeverPanics`).
- `LossHasACause`: in a behaviour without the steps of `Loses`, the group never moves
  past an event nobody is going to process. They are a pipeline error, returned or only
  logged by a worker, a full queue, and a crash while the pool holds an event.
- `BackendReopenedOnlyIfShared`: a terminal record is reopened only if its event has
  been in two workers' hands at a time.
- `LongWindowsWrapAsParsed`: windows longer than the jump of the clock are never taken
  for ones across midnight.

`svc_resubmitted` has no such theorem: as long as the mark of the run that published
to the DLQ lives, every resubmission is skipped, and what would exclude that (no marks,
or no dead letters) leaves nothing to state.

### Liveness

Every invariant and every action property of the passing runs is proved. Only
model-checked is liveness, under fairness and so out of the prover's reach:
`HalfOpenResolves`, `FailuresSettle`, `CloseReturns`, `AcceptedIsHandled`,
`EveryMessageAttempted`, `EventuallyAnswered`, `SendTerminates`, `CacheConverges`.
Of four of them the safety half is proved, for every value of the constants: what the
steps do towards the end. That they are taken is what fairness adds.

- `HalfOpenWaits`: a half-open breaker has a trial inside `fn`, keeps it until the
  verdict, and gets the verdict from the first call that leaves `fn`.
- `SendersAdvance`: each step of a goroutine of `Send` leaves it fewer batches, a later
  attempt of the same batch (below the limit), or nearer to the end of the same attempt,
  and no step of anyone else takes it back.
- `RunsAdvance`: each step of `processEvent` takes its run to a later stage or leaves it
  fewer recipients or invalid FIDs at the same one, a batch never being empty; no
  step of another run, a store or the queue takes it back.
- `ShutdownGoesOn` and `DrainShrinks`: at every moment of a shutdown somebody `Close`
  depends on has a step to take, and every step of a worker after the queue is closed
  lowers `DrainSteps`, which starts at no more than twice the queue and the workers.

## Not modelled

- The local rate limiter wraps `golang.org/x/time/rate`, whose algorithm is not in
  this repository; the dispatcher takes its `Wait` as a step that may fail.
- The event-type registry is a map behind a lock, and the payload validator adds
  up the bytes of a message: nothing of either changes over time in a way the
  other parts see.
- Generated database code beyond the statements; the logger, the version and
  the example have no state.
- Metrics, logs, error texts, attempt histories, FCM message layout and the text
  that templates render.
- A Postgres claim with SKIP LOCKED may pass over a due row another statement
  has locked; the model takes the earliest due rows.
- A multicast that fails as a whole is taken to reach nobody; `PublishBatch` of
  which a part fails is not told apart from one that fails.
- The Mongo TTL index, which removes records after seven days whatever their
  status.
- The wrap of `FullJitterBackoff` in 64 bits, past 33 doublings of a second.
- Lua also rounds the tokens it stores, by less than 1e-8 of a token.
- IDs with a colon in them: assignment keys of two pairs may then be the same.
- Two runs on one event at the same time may both dispatch it; `DispatchedOnce`
  excepts them and says so.
