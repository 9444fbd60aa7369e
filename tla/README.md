# LogMorph (ULPF): TLA+ verification project

LogMorph accepts log lines over HTTP, buffers them in a Redis stream and lets
worker processes archive, parse, normalise and validate them. What is hard to
test in it is the way between "202 accepted" and "acknowledged": several worker
processes with several goroutines each, locks that expire, markers that are
checked before a lock is taken, crashes, SIGTERM, Redis and MinIO failures and
redeliveries; and, in the pipeline itself, three parsers full of fallbacks that
must agree with a detector that reads the payload on its own. That is what the
modules here model, check and prove.

## 1. Inventory

| Part | State | Operations | Hard behaviour | What makes it correct |
|---|---|---|---|---|
| Raw event buffer, `internal/buffer/redis.go` | stream, consumer group, pending list with idle times (in Redis) | `PublishRaw`, `EnsureGroup`, `ReadGroup`, `ClaimPending`, `Ack` | group created at `$`, MAXLEN trimming, claims always from `0-0`, lost replies | nothing delivered disappears unprocessed |
| Idempotency store, `internal/buffer/idempotency.go` | processing lock and completion marker per event, with TTLs | `TryClaimProcessing`, `ReleaseProcessing`, `MarkDone`, `IsDone` | expiry, no owner, no renewal; two implementations that differ | one task at a time per event; marked events are not processed again |
| Worker, `internal/worker/worker.go`, `cmd/worker/main.go` | settings from the environment, the loop, the tasks of the current batch | `Start`, `processMessages`, `processSingleMessageIdempotent`, `ProcessSingleEvent`, `ack`; start-up, SIGTERM | interleaving of all tasks, crash between any two calls, degraded mode after an error | at-least-once, acknowledgement only after processing and archiving, eventual settlement |
| Batch pool, `processMessages` in `worker.go` | semaphore channel, WaitGroup, goroutines | range loop, select, deferred function | cancellation inside the select | bounded parallelism, no deadlock, shutdown ends |
| Ingestion, `internal/ingestion`, `cmd/ingestion` | requests in flight | `HandleIngest`, `HandleIngestBatch`, `Ingest`, `IngestBatch`, shutdown | batches that fail half way, resent XADDs, two timeouts that race | the answer agrees with the stream, every handler ends |
| Raw event store, `internal/storage/raw` | objects in a MinIO bucket, or a map | `Put` (`Get` in tests only) | errors are only logged, fallback to memory | while MinIO works, every acknowledged event is archived |
| Detection and drift, `internal/detection` | none (functions of the payload, the hint and the context) | `Detect`, `Analyze` | order of the checks; a cancelled context | what is detected can be parsed |
| Parsers, registry, engine, `internal/parsing` | registered parsers | `Register`, `Get`, `Parse` | fallbacks and overrides between fields, numbers at their edges, `time.Now` | the event says what the payload says, on every delivery |
| Normalisation and validation, `internal/normalization`, `internal/validation` | none | `Normalize`, `Validate` | an invalid event is an ordinary result | only what breaks the schema is rejected |
| Models, contracts, `internal/models` | types, JSON schemas | | | |

The ingestion service and the workers share nothing but the Redis stream. The
workers share the stream's consumer group, the idempotency keys and the bucket.
The quarantine store and the normalised store of the repository's README are
marked there as planned; results, valid or not, are logged and dropped.

`PROJECT.json` lists the hazards of this code at their lines, each with the
properties that cover it.

## 2. Modules

| Module | Models |
|---|---|
| `RawEvents` | the constants `Event` and `Poison` (events the pipeline always rejects with an error) |
| `RawBuffer` | the Redis stream and its consumer group: the effects of the `RawBuffer` methods |
| `IdempotencyStore` | lock and marker, Redis and memory implementation |
| `Worker` | the worker processes, extends the two modules above; the composition of stream, store and workers |
| `AtLeastOnce` | the abstract queue that `Worker` implements |
| `OncePerWindow` | what lock and marker are there for: one pass at a time, one completed pass per window; implemented by `Worker` with timely tasks |
| `WorkerConfig` | environment variables, main's and `NewWorker`'s defaults |
| `BatchPool` | one worker's loop and pool at the grain of channel operations, with its settings from `WorkerConfig` |
| `Ingestion` | the HTTP service, extends `RawBuffer` |
| `EndToEnd` | `Ingestion` and `Worker` over one stream |
| `LogText` | a payload as the readers of Go's library see it; ports, endpoints, overriding assignments |
| `Detection`, `Parsers` | `internal/detection` and `internal/parsing` as operators |
| `Pipeline` | `ProcessSingleEvent` stage by stage, normalisation, validation, retries |
| `Delivery` | what a worker relies on when it processes a message; implemented by `Pipeline` |
| `MCWorker`, `MCIngestion`, `MCEndToEnd`, `MCBatchPool`, `MCPipeline` | symmetry set, request bodies, environments and log texts for TLC |
| `RawBufferProofs`, `WorkerProofs`, `WorkerRefinement`, `BatchPoolProofs`, `IngestionProofs`, `EndToEndProofs`, `PipelineProofs`, `FieldProofs` | theorems |

### How the state corresponds to the code

**RawBuffer.** A stream entry's ID is its position in `stream`. `trimmed` is how
many entries MAXLEN has removed from the head, `pel` the pending entries list,
`idle[m]` the idle time of a pending entry, counted up to `ClaimIdle` because
XAUTOCLAIM cannot tell larger values apart. Which consumer a pending entry
belongs to is left out: XAUTOCLAIM takes entries from any consumer and the code
never asks. `groupFrom` is a history variable: where `EnsureGroup` opened the
group. `parseXMessage` always succeeds, because only `PublishRaw` writes
entries. What XREADGROUP, XAUTOCLAIM (at most ten times COUNT entries scanned,
deleted entries dropped from the pending list) and `MAXLEN ~` do is modelled
from Redis' documented behaviour.

**IdempotencyStore.** A key is the number of ticks it has left. The memory
store ignores TTLs and its `MarkDone` removes the lock; the Redis store's does
not.

**Worker.** `phase[c]` is where worker `c` is in `Start`'s loop: `head` (before
the recovery half), `read` (before the consumption half), `stop` (its context is
cancelled), `down`. `pc[c][m]` is the call the task for message `m` is about to
make. Each call to Redis or MinIO is one step with up to three outcomes: it is
answered; it fails before it takes effect; it takes effect and its reply is lost
(only with `"redis"` among the faults; a cancelled worker's calls always fail
before they are sent). `TryClaim` has a fourth: go-redis retries a `SET NX`
whose reply was lost and may be told that the lock, its own, is taken. MinIO has
two faults: `"nostore"`, it is away when the worker starts, which then archives
in memory; `"minio"`, a `PutObject` fails, which the code only logs. The
pipeline (detection to validation) is one step, which either fails, for poison
events, or completes: it does no I/O, and the one part of it that looks at the
context, the drift analysis, has its error logged and ignored. A schema-invalid event counts as completed, as in the code. That the outcome
depends on the event alone, and not on the delivery, is what `Pipeline` shows.
`processed`,
`archived` and `crashes` are history; `age` measures a task for `Pace`.

**Time.** `Tick` advances every Redis key, idle time and `nextClaimAt` by one.
`Pace` says how slow the workers may be: `"any"`; `"timely"` (at most `MaxGap`
ticks from IsDone to the claim and `MaxRun` from the claim to MarkDone or
release); `"prompt"` (also no time at all in loop steps, checks and acks, as
the liveness properties need).

**BatchPool.** Goroutines are interchangeable and therefore counted. `lp` is
the loop goroutine's place. The model keeps the code's `break` inside the
`select`, which leaves the select only. In `Worker` the same fact appears as
the one more message `Cancel` may let through. `env` is the environment the
process was started in; a variable that is unset or malformed is `{}`, and
`NewWorker(MainConfig(env))` are the fields of the `Worker`.

**Ingestion.** A request is `new`, `busy`, answered (`202`, `400`, `500`),
`lost` (the handler has ended but its answer cannot reach the client) or `cut`
off by the process' exit. `ids` are the event_ids whose XADD was
answered; `origin` (history) says which payload an event_id was made for. The
service repeats the handler's checks on the same data; the model has them once.
`PublishFails` covers an unreachable Redis and the client's disconnection,
`PublishTimesOut` the timeout of the handler's context, after any number of
XADDs that took effect. An answer may be lost at any time, to a client that has
gone or to the server's WriteTimeout. A batch that times out always loses its
answer: WriteTimeout is 10 s from the end of the headers
(`cmd/ingestion/main.go:65`), the handler's timeout 10 s from the decoded body
(`handler.go:118`), so the connection can no longer be written to when the 500
is due.

**EndToEnd.** A step is a handler's, with the workers' own state unchanged, or a
worker's, with the requests unchanged. The stream is the only variable both
change, as Redis is in the code. `Worker`'s anonymous `Publish` is replaced by
the handlers.

**LogText, Detection, Parsers.** A text is the record of what each reader makes
of it: the JSON decoder, the CSV reader, the syslog regular expressions. The
readers' results are given independently of each other, so that the code's
assumption that detector and parser agree is checked and not built in. Library
functions on words (`ToLower`, `TrimSpace`, `Atoi`, `SplitHostPort`, a time's
year) are constant operators; the runs give them tables, the proofs leave them
open but for three assumptions: the format names are lower case without blanks
(`FormatNamesAreClean`), an empty word is neither a number nor a host with a
port (`EmptyWordAssumption`), and a reader gives one result at most, none for a
blank text, with pairs and columns in slices (`WellRead`). A pointer is a set of at most one element. A run of
`if x != "" { field = x }` is `Latest`: the last value that is not empty. A
timestamp is the text's own, the text's with the year of the clock (syslog), or
the clock's.

**Pipeline.** One event, one stage per step, a cancellation between any two,
then `HandleStep`: an error leaves the message pending, anything else is marked
and acknowledged if Redis can be reached. `Redeliver` starts over at a later
time; `past` (history) keeps what earlier deliveries came to.

**The abstract specifications.** `AtLeastOnce` keeps, per stream entry, whether
it is delivered and settled. `OncePerWindow` keeps one state per event: `free`,
`busy` (a pass has begun), `ran` (the pipeline has completed in it), `done`. Its
refinement mapping (`PassOf`) takes the state from the task that holds the
event, and from the marker when no task does. `Delivery` keeps for one message
whether the pipeline runs, has completed, has failed or is over; `Progress`
computes that from the stage. Each of them is a `PROPERTY` of a run and the
conclusion of a theorem.

## 3. Runs

All bounds are constants in the `.cfg` files: `MaxMsgs` (stream entries),
`MaxCrashes`, and the sizes of `Consumer` and `Event`.

| Run | Instance | Shows |
|---|---|---|
| `timely` | 2 workers x 2 tasks, 2 entries (a good and a poison event, or the same one twice), 1 crash, lock TTL 3 > 1 + 1 | `ExclusivePipeline`, `NotReprocessedWithinWindow`, `LockLasts`, `ProcessedOncePerWindow` |
| `faults` | 2 workers x 2 tasks, 2 entries in a stream with MAXLEN 1, all faults but MinIO's two, locks and markers that last one tick, any pace | `Accounted`, `AckedIsArchived`, `AtLeastOnceDelivery` |
| `end_to_end` | one batch request with a good and a poison payload, 2 workers, 1 crash, XADDs that may be resent, fairness | `AcceptedIsAccounted`, `OnePassPerPayload`, `AcceptedIsProcessed`, `EventuallySettled` |
| `pool` | four environments: nothing set (4 goroutines, batches up to 10), a sequential worker without recovery, zero and negative values, a pool of 2 | `TokenPerGoroutine`, `PoolBound`, `OnlyLateSpawnDeadlocks`, `BatchCompletes`, `SequentialStartReturns` |
| `ingestion` | 5 concurrent requests: good and undecodable single, good batch, batch with an empty item, empty batch; as many entries as good payloads, so an XADD can be resent when another fails; fairness | `AcceptedIsBuffered`, `RejectedBuffersNothing`, `OneEventIdPerPayload`, `BatchPrefix`, `EveryHandlerReturns` |
| `pipeline` | 1064 events: every hint with a text of each kind, and for each group of fields the parsers decide together all combinations of values; 3 deliveries, New Year before the last | `RetryAgrees`, `NoNeedlessPoison`, `EndpointsAreGiven`, `InvalidByPortOnly`, `SeverityFitsAction`, `KeepsContract` |

Each module's type invariant is checked by one of these runs as well (`timely`,
`pool`, `ingestion`, `pipeline`).

Two entries are enough for what the worker properties relate: two tasks on the
same event (a duplicate, or a redelivery while the first task still runs) and
two events that compete for a claim. Locks, markers and idle times of two or
three ticks are enough for every order of "expires" and "is used"; the theorems
then remove the bounds. In `pipeline` the values of a field are the ones the
code's conditions tell apart (empty, unreadable, at and beyond a limit, with
blanks or in another case), and fields that never meet in a condition are not
combined. Consumers are symmetric; symmetry is used in safety runs
only (`AtLeastOnceDelivery` and `ProcessedOncePerWindow` have no fairness).

Runs that expect a violation show where the code and what is said of it part:

| Run | What happens |
|---|---|
| `sigterm` | calls with a cancelled context fail, the task takes the degraded path and processes a marked event |
| `startup` | an event buffered before the first worker's EnsureGroup is never processed |
| `poison` | 2 x BatchSize poison messages at the head of the pending list starve an orphaned good one: a check every claimIdle/2 finds the half that the check before has not touched |
| `config` | `RAW_EVENT_CLAIM_IDLE_MS=0` does not disable crash recovery |
| `unarchived` | PutObject fails, the event is processed, marked and acknowledged, and no copy of it is archived |
| `pool_shutdown` | the goroutine without a token takes another's, the last one blocks on `<-sem`, `Start` never returns |

More departures follow from the same modules and can be seen by changing one
constant or one property. In `timely`: with `Backend = "memory"` a second worker
that looked before `MarkDone` processes a marked event, because the memory store
frees the lock; with `Pace = "any"` the lock expires under a slow task, its
message is reclaimed and two tasks are behind the "atomic gate"; with
`MaxRun = 3` and `LockTTL = 2` a poison event's task outlives its lock and
releases the one of the worker that took over, and `LockLasts` fails. What
`faults` shows holds in these cases too. In `faults`: with `"nostore"` among the faults an event is
acknowledged whose only copy is in the memory of a process; without the disjunct
`m <= trimmed`, `Accounted` fails, because MAXLEN removes entries whether or not
they have been processed. In `pipeline`: without the condition on the year,
`RetryAgrees` fails for a syslog event that is delivered again after New Year.

### Fairness

`Worker!FairSpec`: weak fairness of every worker's loop and of every task (the
Go scheduler runs runnable goroutines), of `StartWorker` (`restart:
unless-stopped` in docker-compose.yml) and of `Tick`. Publishing, crashes and
SIGTERM are never forced. `EndToEnd!SystemFairSpec` adds the handlers' fairness;
its run has `Pace = "prompt"`, lock TTL 3 and idle threshold 2. `BatchPool!FairSpec`: weak fairness of the loop, of
the tasks and of the deferred functions. `Ingestion!IngestionFairSpec`: weak fairness of
every handler's own steps and of its context's timeout, which no Redis can
prevent; Redis is not assumed to answer.
`CHECK_DEADLOCK FALSE` is set where the program ends by itself: a pool whose
`Start` has returned, a set of requests that are all answered, a message that is
acknowledged or has used up its deliveries.

## 4. Proofs

TLAPS proves, for every set of consumers and events and every value of the
other constants that the named assumptions allow:

* `TypeCorrect`: `TypeOK`, with the strengthening that a task's message has been
  delivered (`TaskMsgInStream`), without which `stream[m]` would not be an event.
* `NothingDeliveredIsLost` (`Accounted`): crashes, lost replies, expired locks,
  cancellations and MAXLEN included, which takes only what it has removed. `Accounted` alone is not
  inductive: an acknowledgement may follow the marker alone or the pipeline.
  `DeliveryInv` adds that markers are true (`MarkerIsTrue`), that a task about to
  mark or acknowledge has a processed event (`AckIsJustified`), and that nothing
  is pending before the group's start (`GroupIsOpen`).
* `LockExcludes`, `MarkerExcludes` and `LockIsKept` (`ExclusivePipeline`,
  `NotReprocessedWithinWindow`, `LockLasts`; assume `LeaseAssumption`: timely workers, the
  Redis store, no Redis errors, no SIGTERM, and `MaxGap + MaxRun < LockTTL`). They
  need each other: `LeaseInv` says that a holder's lock has lived exactly as
  long as the holder has worked (`HolderHasLease`), and that when an event is
  marked while another task is between its check and its claim, the lock
  outlives that task's way to the claim (`StaleCheckIsCovered`). This is the
  condition on the configuration that the code needs and does not check.
* `ImplementsAtLeastOnce` (`AtLeastOnceDelivery`): each step of `Worker` maps to a step of `AtLeastOnce` or leaves it alone, from
  `DeliveryInv`.
* `ImplementsOncePerWindow` (`ProcessedOncePerWindow`; assumes
  `LeaseAssumption`): each step maps to a step of `OncePerWindow` or leaves it
  alone. `LeaseInv` gives the two things the mapping needs: an event has one
  holder at most, so that its state is that holder's, and a task that takes the
  lock finds no marker, so that `Begin` starts from `free`. That a failing pass
  frees the event and a completing one does not, that markers end only by
  expiry and passes are lost only in a crash, follow from the steps. `WindowUpdate`
  reduces a step of one task to the one event it can move.
* `AcknowledgedIsArchived` (`AckedIsArchived`; assumes neither of MinIO's
  faults, `"minio"` and `"nostore"`: run `unarchived` shows what happens with the first). A cancelled worker does run the pipeline on events it
  could not archive; `ArchiveInv` captures why this is harmless: its marker and
  its acknowledgement fail too.
* `PoolTypeCorrect`, `PoolTokens` and `PoolIsBounded`: from `PoolInv`, for every
  environment. That `NewWorker` makes concurrency and batch size positive
  (`PositivePool`) is where malformed settings are taken care of.
* `PoolDeadlock` (`OnlyLateSpawnDeadlocks`): from the same invariant, in every
  state in which neither the loop nor a goroutine can move the context is
  cancelled, the loop is in `wg.Wait`, and one goroutine is left that looks for a
  token another has taken. The hang that `pool_shutdown` shows is the only one.
* `IngestionTypeCorrect`, `AcceptedBuffered`, `RejectedNotBuffered`,
  `OneIdPerPayload`, `BatchIsPrefix`: from `HttpInv`, which says for every
  request how far it has come, that the stream holds its answered event_ids and
  perhaps the one in flight, each made for the payload of its position, and
  nothing else of it; and that no two requests share an event_id.
* `SystemRefinesWorker`: `EndToEnd`'s specification implies `Worker`'s (assumes
  that XADDs may be resent, `"xadd" \in Faults`, which `Worker`'s `Publish` needs
  to put an event into the stream twice). Every theorem about the workers is
  thereby one about the system. `AcceptedAccounted` (`AcceptedIsAccounted`) joins
  `HttpInv` and `Accounted` along it; `PayloadsExclude` (`OnePassPerPayload`)
  joins `HttpInv` and `LeaseInv`: the lock is per event_id, so that it protects a
  payload needs that a payload sent once has one event_id, resends included.
  `SystemImplementsBoth`: the system refines `AtLeastOnce` and, with timely
  tasks, `OncePerWindow`.
* `RetriesAgree` (`RetryAgrees`), `PoisonIsUnreadable` (`NoNeedlessPoison`),
  `PipelineTypeCorrect`: for every payload, hint and table of library functions.
  `StageInv` says that each stage's result is a function of the event and the
  clock; `ParseShape` that the clock reaches a parser's result only through the
  timestamp. With `RetriesAgree`, `RawEvents`' division of the events into
  poison and others is justified: a delivery cannot change an event's side.
* `ImplementsDelivery` (`KeepsContract`) says the same as a refinement: whether
  the pipeline fails is `Unparsable(event)`, which mentions no clock, no stage
  and no cancellation (`FailureIsTimeless`), and only what has not failed is
  settled. This is the assumption under which `Worker` has the pipeline in one
  step.
* `EndpointsGiven` (`EndpointsAreGiven`), `InvalidOnlyByPort`
  (`InvalidByPortOnly`), `SeverityFits` (`SeverityFitsAction`): for every text.
  The parsers' overriding assignments are `Latest`, the value at the largest
  index with a value; `LastExists` derives from the well-foundedness of the
  naturals that there is one, `LatestIsGiven` that the result is one of the
  values or the default, `LatestOfFour` and its kin which one. `StageInv` then
  gives the universal event as one of three parsers' results (`ReadBySyslog`,
  `ReadByJSON`, `ReadByCSV`), and each is looked at on its own. A text that
  states no severity gets `high` for a refused connection, but the parsers differ
  in what that is: `block` and `drop` count in JSON only (`RefusedActions`).

The runs `sigterm` and `unarchived` and the variations listed above show
that the assumptions of these theorems are needed.

Only model-checked: the liveness properties `AcceptedIsProcessed`,
`EventuallySettled`, `BatchCompletes`, `SequentialStartReturns` and
`EveryHandlerReturns`, because fairness and ENABLED are out of the prover's
reach. `PoolDeadlock` is their safety side for the pool.

## 5. Not modelled

* What the regular expressions, `encoding/json`, `encoding/csv` and the JSON
  Schema library compute: a text is given by their results.
* Numbers beyond an `int64` (in settings, or in a JSON port, where the
  conversion from `float64` is implementation-defined).
* `metadata.ingested_at`, which differs at every delivery, source type, reasons
  and messages: nothing reads them. The UUID that `Normalize` makes up for an
  empty event_id is one value; no event from the ingestion service needs it.
* A client's retries: a request that repeats another is a new request, and its
  events get new event_ids.
* A Redis command that takes effect only after its caller has given up and gone
  on; failures take effect before the caller goes on, or not at all. A late
  XADD would add an entry whose event_id no client has, a late XACK or SET one
  that the retry repeats.
* Loss of data in Redis or MinIO themselves.
* Addresses, names and credentials read from the environment; `GET /health`,
  `Ping`, `Close`, `MinIORawStore.Get`, logging, `NewValidator` with a schema
  file (main passes none), `WorkerEvent` (unused).
* The worker without an idempotency store, which only tests construct.

## 6. Plan

Done: buffer, store, workers, pool, ingestion; then settings, trimming in the
theorems, the composition from 202 to acknowledgement, the pipeline, and the
theorems on ingestion, composition and pipeline; then every safety property of
the runs as a theorem, the abstract specifications `OncePerWindow` and
`Delivery` with their refinements, and the pool's only deadlock.

Left:

1. A weaker `LeaseAssumption`: the memory store, and Redis errors other than on
   IsDone and the claim.
2. Late effects of timed-out Redis commands.
