# TLA+ models of the Hyperliquid data pipeline

This directory specifies the pipeline in TLA+, checks it with TLC on small
instances and proves its central properties with TLAPS. Paths below are relative
to `src/src/hyperliquid_pipeline/`.

## 1. The system

One Python process on one asyncio event loop collects market data and stores it;
a second set of programs replays what was collected through order books and a
market-making simulator.

| Component | State it keeps | Operations | Interacts with |
|---|---|---|---|
| `collectors/realtime_collector.py` `HyperliquidWebSocketCollector` | connection flag, `last_message_time`, `_last_disconnect_seen`, bounded hand-off queue, ring buffers, latency histograms | connect / reconnect with backoff, frame -> points, drop-oldest `_enqueue`, `_consume`, gap events | spool (before parsing), data callbacks, gap callbacks |
| `collectors/spool.py` `RawSpool` | frame queue, writer task, current file, counters | `enqueue`, writer loop, rotation + upload, `close` | file system, object store |
| `collectors/realtime_collector.py` `DataLogger` | open files, current file per stream | `log_data_point`, finalize, close | file system, object store |
| `storage/database.py` `BatchingStorage` over `MultiStorage` | buffer, dropped counter, periodic task, closed flag | append, cap, flush, read-through, close | PostgreSQL, InfluxDB, Redis |
| `scheduler/orchestrator.py` | pending gaps, tasks, running flag | wiring, `_queue_gap`, `_retry_pending_gaps`, start, stop, signals, daily cleanup | everything above |
| `collectors/backfill.py`, `historical_collector.py` | local and object-store cache | fetch a gap's window, replay it; collect a day's files | archive, validation, storage, logger |
| `utils/validation.py` | last price, seen stamps, findings per symbol and type | sanitize, check, quality report, clear old results | consumer, replay |
| `processors/data_processor.py` | trades of an hour, books, history of closes | candles, book metrics, indicators, bulk processing | consumer, storage |
| `collectors/node_feed.py`, `quicknode_feed.py` | file offset and partial line; stream sequence | tail + rotate; snapshot + diffs, reconnect | parser, order book, callbacks |
| `book/diff_parser.py`, `replay.py` | counts of what was skipped | parse a line, tolerant or strict; replay files | feeds, order book |
| `book/l4_book.py`, `l2_book.py` | orders by side and level, last height, staleness | snapshot, apply block, queue position | feeds, simulator |
| `sim/queue.py`, `fills.py`, `engine.py`, `events.py`, `policy.py` | virtual orders and their queue position, actions in flight, ledger | place / cancel with latency, trades, books, diffs, quoting | event sources |
| `sim/report.py`, `sweep.py` | none | decomposition of the PnL, regimes, verdict | results of the engine |
| `backtest/`, `research/`, `bench/`, `config/` | sequential numeric code, settings | | |

What is hard here:

* **Interleavings at awaits.** Code between two awaits is atomic. At an await
  any other task runs: a batch is at the database while other tasks append,
  flush and close; the retry job awaits the archive while new gaps arrive; the
  spool's chunk is on an executor thread while frames keep coming; a backfill
  replays old trades between two steps of the live consumer.
* **Failure half-way.** A backend stores part of a batch; a commit takes effect
  and reports an error; a write fails with data left in a file's buffer; a new
  hour's file cannot be opened; one of several downloads fails.
* **Cancellation.** Shutdown cancels tasks at their awaits, `CancelledError`
  passes `except Exception`, and awaiting a task forwards a cancellation to it.
* **Crash and restart**: of the collector within the hour of a file, of the node
  within a line of its file, of the feed that tails it.
* **Order**: late trades and days that are reopened, blocks lost or repeated,
  files that turn while they are read, actions that arrive after the market moved.
* **Limits**: buffer cap, frame queue, pending gaps, retention, history.

What makes each component correct: the storage wrapper loses nothing silently,
stays bounded, keeps arrival order and drains on close; the spool's files are a
faithful record and what is not in them is counted; every window missed by the
live feed is queued, recovered or given up knowingly; a day's log is in the
object store once it was left; a candle holds every trade that arrived for its
minute; a book built from diffs is either right or marked stale, and tailing a
file makes what replaying it makes; a virtual order is neither filled twice nor
lost, and its bounds bracket; a report adds up to what the pass earned.

`PROJECT.json` lists, under "hazards", the lines where each of these bites and
the properties that cover it.

## 2. Modules

| Module | What it is |
|---|---|
| `PointLedger` | abstract specification: what the storage wrapper promises, with no buffer, tasks or backends |
| `BatchingStorage` | `BatchingStorage` and the write path of `MultiStorage`, one action per operation or stretch between awaits |
| `RawSpool` | the raw-frame archive |
| `GapRecovery` | gaps of the live feed: detection, queue, retry, backfill from the archive |
| `Shutdown` | start, stop and signals, with the hand-off queue in front of the storage; composes an instance of `BatchingStorage` |
| `LatencyHistogram` | buckets and percentiles of `utils/latency.py` |
| `Intake` | one message of the socket: parsed into points, rings, histograms and the consumer's queue |
| `Validation` | the sanitizer, the checks, quality reports and their clearing |
| `Processing` | candles, book metrics and indicators |
| `DayLogs` | the day logger's files and their uploads |
| `Archive` | what a collection of hourly files yields |
| `LivePipeline` | the path of a point from socket to sinks; composes the six modules above |
| `L4Book`, `L2Book` | the order-level and the aggregated book |
| `DiffParser` | the diff parser, tolerant and strict |
| `BookFeed` | the node's files and the provider's stream, and the feeds that read them; composes `DiffParser` and `L4Book` |
| `QueueSim` | the queue simulator and its fill rules |
| `MakerPolicy` | the quoting policies |
| `MakerReport` | decomposition, regimes and verdict |
| `MakerSim` | the replay engine over both event sources; composes the books, `QueueSim`, `MakerPolicy` and `MakerReport` |
| `MC...` | the instances of the state machines for TLC: `MCBatchingStorage`, `MCRawSpool`, `MCGapRecovery`, `MCShutdown`, `MCLivePipeline`, `MCBookFeed`, `MCMakerSim` |
| `Lists` | what a loop makes of a sequence (`Fold`), and what a filter leaves of it |
| `Folding` | induction, and the facts about folds and filters that follow from it |
| `BatchingStorageProofs`, `RawSpoolProofs`, `GapRecoveryProofs`, `ShutdownProofs`, `LivePipelineProofs`, `BookFeedProofs` | theorems and their proofs |

The modules without variables of their own (`L4Book`, `QueueSim`, `Processing`, ...)
define a component's state as a record and its operations as operators on it,
as the code has objects with methods that never await. The module that composes
them has the variables and one action per stretch between awaits.

Definitions called "Deliberate mistake" or "Mutant" are not part of a specification.
Each is a plausible bug of the operation that follows it; putting it in that
operation's place makes TLC refute the property that guards against it, which
shows that the property can fail.

### BatchingStorage

*State.* `buffer` is `_buffer`; `closed` stands for `_closed` and the `_stop`
event, which are only set together; `dropped` is `dropped_count`. `pc` and
`batch` are the program counter of each task and the local `batch` of its
`flush()`. `written` is what each backend holds. `evicted`, `overlap` and
`failed` are history variables for the properties. Points are the numbers
1, 2, ... in order of acceptance.

*Steps.* The bodies under `self._lock` never await, so the lock is never
contended and each is part of one atomic step. `flush()` has one await: the step
before it (`BeginFlush`) takes the whole buffer, the step after it
(`FlushStored` or `FlushFailed`) handles the outcome, including the re-queueing
and the cap. `store_data_point(s)`, `get_data`, the periodic task and `close()`
all call `BeginFlush` in the step in which the code calls `flush()`. A raise of
the inner store and a reported 0 take the same branch. `close()` is split where
it awaits: the periodic task (`CloseAndJoin`, `CloseJoined`), the flush, and the
inner close (`CloseInner`).

*Backends.* A backend stores all or nothing (`AtomicBackends`: PostgreSQL and
InfluxDB, one call per batch) or any part (Redis, one call per point), and
reports what it stored, or less if it is in `LossyAck` (a commit that raises
after taking effect; a Redis `zadd` whose trim fails). `MultiStorage` gathers
the counts and returns the largest. Redis's trimming to the last 1000 points of
a stream is not modelled: a point stored there counts as stored.

*Cancellation.* `Cancellable` tasks may be cancelled while their batch is out
(`CancelFlush`), or, for a closer, while it awaits the periodic task
(`CancelJoin`): the `CancelledError` is forwarded to that task and swallowed.

*Left out:* the periodic task's timer is a free choice of when it wakes, and
the reads of `get_data` after its flush.

### RawSpool

*State.* `queue` is `_queue`; `todo` and `chunk` are the rest of the batch in
`_write_batch` and what the executor has; `current` is the hour of the open
file; `residue` is what a failed write left in that file's buffer; `disk` and
`mirror` are the files and their copies in the object store. These three are texts
made of `Pieces`: the line of a frame is in two, of which the second has its end, so
that a text may be parted between lines or within one. `counted` and
`written` are the frames that `spool_dropped` and `written_lines` stand for,
over all restarts. `offered` and `unsynced` are history.

*Steps.* A step of the writer runs from one await to the next: it ends with a
batch taken and its first chunk handed to the executor (`WriterTakes`), or with
the outcome of a chunk and the next chunk handed over (`WriteDone`,
`WriteFails`). Changing files happens inside such a step, since `_handle_for`
and `_finalize_current` never await; `Switch` and `Finalize` therefore take the
files as the write has just left them. Opening a new file may raise
(`SwitchFails`), which ends the writer or the `close()` that drains in its
place. A write that fails, a cancelled `close()` and a kill leave any beginning of the
text in the file; after the first two the buffer keeps what it held, and of the new chunk
all that is not in the file or nothing (`Kept`). `KillAndRestart` is the end of the process
at any point and a new `RawSpool` on the same directory, which appends to a file as it
finds it, so that the next frame may continue a line that was cut.

*Hours* are only compared for equality, so two are enough to leave one and
return to it; a frame may carry either, as the wall clock may be stepped back.

### GapRecovery

It composes three parts that share the pending-gap queue: the collector's
`connect()`, the orchestrator's `_queue_gap` and `_retry_pending_gaps`, and
`backfill_gap`.

*Time and trades.* One trade happens at each tick, so sets of ticks stand for the
trades received as they happened (`live`), received later as part of a subscription's
snapshot (`snap`), missed, asked for (`Window`), replayed (`recovered`). An hour is
`HourLen` ticks.

*Connection.* `conn` is where `connect()` stands. `Stall` is a socket that is dead
while nobody has noticed; `Drop` runs `_record_disconnect`, whatever ended the
connection. `Connect` includes `_maybe_emit_gap` and the callback, which do not
await. An attempt that fails to connect records the same `last_message_time`
again and changes nothing else, and is a stutter. A tick is long against a
reconnection, so at most one connection is made per tick. `Subscribed` is the
first message. The exchange opens a subscription with the latest trades, up to
`SnapshotLen` of them, which the code parses and stores like any other
(`realtime_collector.py:597` leaves them out of the latencies only): they may have
been received before, and they may lie in the hole that `Connect` has just queued, or
even replayed. What happened while subscribing and is not among them is `forgone`,
like the holes shorter than the threshold.

*Retry job.* `RetryBegins` takes the whole queue and reads the clock once; each
`Fetched` handles the answer of the archive for one gap, re-queues it if nothing
was found, and passes over the following gaps that are too old. New gaps are
queued in between; `began` is its clock, and 0 when it does not run. A download returns any set of the published hours asked for.
The replay of one gap is a single step: nothing else touches what it touches.

*Archive.* External. It is taken to publish trades, hour by hour, some time after
the hour; `historical_collector.py:311-320` notes that the real one has none at
present, in which case every gap ends by age. The pending queue is in memory: a
restart loses it, which is not modelled.

`forgone`, `snap` and `partial` are history.

### Shutdown

It composes the orchestrator's life cycle and the collector's task with the
storage: `Storage` is an instance of `BatchingStorage` whose only writer is the
consumer and whose closers are the tasks that run `stop()`. An action here takes
the storage's own action with it: `Consume` with `StoreDataPoint`, `CloseSinks`
with `CloseAndJoin` or `CloseAgain`, a cancelled consumer with `CancelFlush`.

*Tasks.* `Main` runs `initialize()`, `start()` and the `stop()` of the `finally`; a
signal makes a task of its own (`Signal`, `StopBegins`, `StopResumes`). `feed` is
where `start_with_reconnect` stands: listening, then, cancelled, joining the
consumer and draining the spool. A second cancellation is swallowed by the join
and ends the draining. `task` is whether `_realtime_task` is set.

`initialize()` may raise before there is a storage (`InitFails`) or when it has created
and started one (`WiringFails`); no await follows until `main()`'s `stop()` closes it
(`FailedStops`).

*Order.* Tasks that await the feed resume in the order they began to (`waiters`),
as asyncio runs the callbacks of a task that is done; `main()` has awaited it
first unless a signal came while history was being collected. When `main()` returns,
`asyncio.run()` cancels the tasks that are left (`Ends`, `CutOff`). A `stop()` is `Early`
when it begins with the storage open and `main()` not awaiting a live feed: it then closes
the storage itself, and `main()`, whose own `close()` returns at once, may end the
process under it.

*Left out:* the node feed's task, the scheduler's jobs, and the points that the
initial collection of history stores. A message gives one point, and a point may
yield one to store (`Consume`).

`taken`, `cut` and `hasty` (some `stop()` began early) are history. Points still in the hand-off queue at the end are
neither stored nor counted; `FeedAccounted` shows that they are the only ones.

### LivePipeline

*Composition.* `Receive` runs `process_message()`: `Intake` parses the message,
point by point, so that a row that does not parse loses the message to the queue
although the rows before it are in the rings already. `Take` is the consumer's
step up to its first await: the `Validation` of the point, its ingestion by
`Processing`, and, if there is nothing to store, the day logger. `Stored` is what
follows the storage's answer. `Replay` and `ProcessHistory` are the backfill's and
the scheduled job's steps, taken between any two of the consumer; they share the
validator and the processor's buffer with it. `Cleanup` is the daily job, `Stop` the
end.

*Data.* Stamps are small integers; a trade is a price, a size and a side, an age
when it is read, and maybe a value `float()` refuses or a key that is missing. A
time stamp has a zone or none: rows from pandas have none, and Python raises where
the two are compared. Indicators are kept as the sums they are quotients of.

*Seen while modelling*, and part of the model: the sanitizer turns the sides "B"
and "A" into 'unknown' and drops `trade_id`; the ratios of the quality report are of
findings, not of points; replays move the validator's price history; open and close
of a candle go by arrival; a trade never falls in the candle that is computed when
it is processed, whose end is exclusive; the day file of a silent stream is uploaded
only with the stream's next point.

### BookFeed

*World.* `chain` is the exchange. The node writes half a line at a time (`WriteHead`,
`WriteTail`), turns its files (`NewHour`), and may die in between (`NodeCrash`), after
which it writes a block again or leaves one out. The provider sends a snapshot per
subscription and a diff per block; it may lose one or break off. These, and the
restart of the feed, are the faults, bounded by `MaxFaults`. A deployment is one of
blocks, bare events or the provider's stream, strict or tolerant (`Modes`).
`ChainsAssumption` says what is taken of the exchange: diffs are of its coins, a new
order has a price and a size, an update a size that is not zero, and an order is new
once and removed last, over all blocks and coins.

*Feeds.* `Poll` is a cycle of `tail()`: what is left in the old file (`Drained`), then
what is new in the newest one (`Unread`), with the partial line kept. A token of a file
is half a line with the document it belongs to; `Split` cuts a text into its lines and
the rest, and a line that is not a head and a tail of one document is no JSON
(`LineDocument`). `Subscribe`, `Snapshot`, `StreamDiff` and `Break` are
`_stream_coin()`. A document is reduced to what the parser tells apart: whether keys
are canonical, aliased, extra or missing, values readable, diffs known. `since`, `last`
and `dropped` of the feed are history: the start and end of the unbroken run of heights
it has read, and the coins of which something was skipped.

*Reference.* `Resting` says, from the chain alone, which orders rest after a block.
`Replayed` and `Report` are `replay_files()` and `replay()`, which have code of their own;
`ReportAgrees` says where the latter's one book may differ from the feed's: it has seen
the blocks that came before its coin was named, so it may be stale, and count anomalies,
where the feed's book is not and has none.

### MakerSim

*Tape.* Every market that trades, joins and cancels of unit orders can make, up to a
bound of blocks. A "capture" publishes its levels, "l4" the diffs of each block, of which
some are lost (`QuietBlock`). `BookEvent` is one turn of the engine's loop, for one pass
per bound: due actions, trades, book, eviction when stale, the policy's decision, and the
actions sent with their latency. Prices are doubled so that mids are integers.

*Policies.* A script stands for any policy that does not look at its own fills, with
which the bounds can be compared; the two real ones do, and their inventory is bounded.

*Seen while modelling*, and part of the model: the shared book has the block's effects
already when the actions that are due are placed and the block's prints are matched, so a
quote is seeded from, and a print compared with, the book after the block; an action rests
before all prints of the block in which its latency ends, older ones included; with joins
and cancels netted within a block the optimistic bound is not a ceiling for the exact one;
the sweep's buckets add up only if there are two mids.

## 3. Runs

| Run | Instance | Shows |
|---|---|---|
| `bs_safety` | 2 writers, 1 reader, the periodic task, 2 closers, 2 transactional backends, batch size 2, cap 3, 5 points in calls of up to 3; symmetric tasks | type, cap, no silent loss, order of a lone flush, order of closing, draining, and that the wrapper implements `PointLedger` |
| `bs_faults` | Redis and PostgreSQL with lost acknowledgements, consumer and closer cancellable, 3 points; fair | no point is pending twice; a point vanishes only from a batch in flight; close ends; points are retried until settled |
| `bs_partial` | Redis stores part of a batch | `NoSilentLoss` is violated (finding 1) |
| `spool` | 2 hours, queue 2, batches of up to 2 frames, 3 frames, one kill, failing writes, opens and uploads, cancellation, cut between lines and within them; fair | faithful files, honest counters, complete mirror, draining; uncounted loss only with the task that held the frame; close ends and queued frames are settled |
| `gap` | 5 ticks in two hours of 3, threshold 2, age limit 2, a queue of 1, snapshots of one trade or none; fair | the type and the bound of the queue, every missed trade explained, none that came as it happened replayed as well, queued gaps resolved |
| `gap_partial` | threshold 2, queue 2, hours of 2 ticks | `RetriedUntilFilled` is violated (finding 2) |
| `shutdown` | two signals after the start, with and without an initial collection, an initialization that may fail early or late, 3 points received, queue 2, batches and buffer of 2, one backend that may fail; fair | the queue's bound and count, sinks closed last, nothing lost but the consumer's batch if no `stop()` began early, a signal ends the process |
| `live` | one coin, days of 3 and candles of 2 units, 6 units of time, 3 inputs of 12 kinds of message, a connect, a replay or a history, 1 fault | day files mirrored when left; a candle holds what arrived for it; old trades stay out of the latencies; clearing old results changes nothing that a report says of a symbol |
| `feed` | two coins, 3 blocks, 3 files, 1 fault, five deployments, chains with and without drifted documents; fair | a book that is not stale is the chain's; tailing is replaying; the feed catches up |
| `feed_backoff` | one tracked coin of two, 2 faults | `BackoffGrows` is violated (finding 3) |
| `sim` | both sources, three policies, three bounds, 5 or 6 blocks, latency 3, one lost block | orders conserved, bounds ordered, inventory bounded, reports add up |
| `sim_exact` | the same | `ExactIsGroundTruth` is violated (finding 4) |

*Bounds.* `MaxPoints`, `MaxBatch`, `MaxFrames`, `MaxKills`, `MaxTime`, `MaxOffered`,
`MaxInputs`, `Horizon`, `MaxFaults`, `MaxFiles`, `MaxBlocks`, `MaxQuiet`, `MaxTrade` and
`MaxOrders` bound the behaviour only. Five points with a cap of three overflow the buffer
both on append and on re-queueing, with a second batch out; two writers and the periodic
task give three batches out at once. In the spool three frames fill a queue of two while a
chunk is out, make batches of two frames of the same or different hours, and
leave an hour and return to it before or after a restart. Five ticks of
`GapRecovery` allow two gaps of threshold length or a gap over two hours, a queue
of one that overflows both by a fresh gap and by a re-queued one, and a gap that
ages out while it waits; the hours divide the ticks, so that the last one is
published. In `Shutdown` three points fill the queue of two with one more, and
make a batch that the consumer flushes inline; two signals and `main()` give three
calls of `stop()` at once.

In `LivePipeline` three inputs make a reconnect between two messages, a message of two
trades that fills a ring and the queue, a late trade after its candle was computed and
one that reopens yesterday's file, which is left again; the retention of 4 and the cap of
3 trades are both reached; results age past the clearing within the 6 units of time. In
`BookFeed` three blocks let an order be cut, joined by one behind it and removed, over
three files, the last of which can be reached past one that was never read; one fault is
one death of the node within a line, one lost or repeated block, one broken stream or one
restart. In `MakerSim` five blocks after the opening are enough for a quote to be sent,
arrive two blocks later, be passed by trades, and be replaced while the first is filled;
with the reference policy a sixth sends the replacement against the filled inventory.

`CHECK_DEADLOCK FALSE` is set because every task ends once its object is closed
and all points are used, or time, the chain or the tape is up.

### Fairness

`TaskFairness` of `BatchingStorage` and `RawSpool` is weak fairness of the steps the event
loop owes to a task that can run, and of the return of every call to a backend or to the
executor; drivers and the file system time out or answer. `Start` is weakly fair
because `create_storage_backends` calls it right after construction. In
`GapRecovery` time passes, the scheduler starts the job every 15 minutes, the
archive publishes each hour in the end and a download returns; a download of what
is published does not fail for ever (strong fairness of `FetchedWhole`, which is enabled whenever the job is at an await, so that
it also makes the job go on), without
which a gap of the last ticks, when time is up, would be tried for ever. In `Shutdown`
the event loop runs every task that can run, and the initial collection and
`initialize()` end, the latter well or not (`Starts`, `InitFails` or `WiringFails`, and then
`FailedStops`); no signal or message is owed. Nothing is
assumed of the callers: writers, readers and closers may never act. For
`EventuallySettled` of the storage, `RecoveringSpec` adds that a task whose
flushes return again and again is not refused for ever (strong fairness of
`FlushStored`): with a backend that is down for good points stay pending, which
is what the code intends. `CloseCompletes` is checked under the same
specification but its argument needs no recovery, as the final flush is tried
once. The spool needs no such assumption: failed chunks are counted and left.

In `BookFeed` `tail()` polls for ever (weak fairness of the cursor's move, which is enabled
exactly when `Poll` is), `_stream_coin()` subscribes again after each delay, and the
provider delivers what it has (weak fairness of the move of each stream, `SnapshotRead`
and `DiffRead`, which leave open what the feed makes of the message). Nothing is owed by the exchange, the node or the faults.
`LivePipeline` and `MakerSim` state safety only.

## 4. Proofs

The proofs hold for all values of the constants satisfying the named assumptions of
each module.

`BatchingStorageProofs`, from `SizesAssumption` and `TasksAssumption` (batch size
positive, roles disjoint):

* `TypeCorrect`: `Spec => []TypeOK`. `TypeOK` is inductive.
* `CapHolds`: `Spec => []BufferBounded`. Not inductive by itself: a flush hands
  its task the whole buffer, which bounds the batch only if that task had none
  out. `CapInv` adds `BatchPlace`: a task has a batch exactly while it stands
  inside `flush()`.
* `BufferNeverLeaks`: `Spec => VanishOnlyInFlight`. From `CapInv`, each step moves
  points between buffer, batches, backends and the evicted (`TraceKept`); only
  the end of a batch's own write can drop a point, and only from that batch.
* `NothingLost`: `Lossless => (Spec => []NoSilentLoss)`, where `Lossless` says
  that every backend writes in one transaction and that no task is cancelled.
  It does not ask that acknowledgements be honest.

The lemmas before them say what the helpers do: what `Capped` and `Evictees`
partition, that concatenation keeps points, what a hand-over does to the points
in flight.

On top of `CapInv`:

* `OnePlace`: `Spec => []SinglePlacement`. `PlaceInv` adds that what is pending was
  accepted (`Known`), so that a new point is not pending yet; each step then moves
  whole batches between places that share no point.
* `LoneFlushKeepsOrder`: `Spec => []SoloOrder`. `OrderInv` adds `SoloBatch`: while
  flushes never overlapped, the one batch out is older than the buffer, so that
  putting it back in front keeps the order.

`InnerClosedLast` (`CloseJoinsLoop`) follows from `CloseOrder`, which says
where each closer can stand while the periodic task lives, and `ClosedIsDrained`
(`CloseDrains`) from `Drained`: after the final flush nothing is appended, as `closed`
is set, and what comes back comes from a flush that failed.

Last, `WrapperIsLedger`, `Honest => (Spec => ImplementsLedger)`, the
refinement of `PointLedger`. `Honest` adds to `Lossless` that no acknowledgement is
lost; without it a stored batch is retried and may then be dropped, which the ledger
forbids. The mapping hides buffer, batches and tasks; the strengthening `Unstored` says
that no pending point is stored, and the ledger's counts are compared by bijections
between what is pending before and after a step.

`RawSpoolProofs`: one inductive invariant `Inv` (`AlwaysInv`) gives `SpoolTyped`,
`FilesFaithful`, `CountersTrue` and `StoreComplete`. Its core is `InOrder`: each file is
`Faithful`, the open one also when followed by the text still to come (what the buffer
holds and the lines of the chunk), so that a write may stop at any place of that text; and
the files, that text, the rest of the batch and the queue stand in the order the frames
were offered. `Numbered` and `Apart` keep frames from being in two places; `Batched` ties
the chunk to the writer's state. `ClosedIsDrained` adds
`Ended`, what is left when the writer ended by itself. `LossWithWriter` is an action
property: `LosesNone` shows, action by action, that frames only move, and the actions that
remain end the task.

`GapRecoveryProofs`, from `GapAssumption` alone (natural thresholds, a
queue of at least one gap, hours of at least one tick):

* `GapTypeCorrect`: `Spec => []TypeOK`. Strengthened by `Coherent`: a connected
  socket's last message is now, a disconnect recorded is the last message seen,
  the job has a batch exactly while it fetches.
* `NoTradeForgotten`: `Spec => []EveryHoleExplained`. Each step moves the window
  of a gap whole: `PushedKeeps` (a push forgets only what it displaces),
  `HeadAndTail` and `YoungOrGivenUp` (a batch splits into what is given up, tried
  and left). `Coherent` carries the step in which a connection drops: the hole it
  leaves open covers the one it found.
* `NothingReceivedReplayed`: `Spec => []NoLiveReplay`. Strengthened by `Apart`:
  what came as it happened is not later than the last message, and what is asked for
  is past and not among it. It does not hold of the trades of a snapshot (section 5).

`ShutdownProofs`, from `LifeAssumption` (the tasks are different), for any number of
signals, early ones included:

* `SinksClosedLast`: `Spec => []SinksOutliveFeed`. The invariant `Order` adds what
  carries it: once `start()` was reached, a `_realtime_task` that is unset means that the
  feed has ended; before it there is none; and a feed that is done has left no consumer.
  It says nothing of the node's feed, the jobs and the initial collection, which are left
  out.
* `FeedPointsAccounted`: `Spec => []FeedAccounted`. `QueueInv` adds that the queue is
  increasing, so that its head is older than what stays.
* `StorageInside`: `Spec => Storage!Spec`. Every step of the process is a step of
  `BatchingStorage` or leaves it alone, so what is proved of the wrapper alone holds of
  the one inside the process.

The same module instantiates `BatchingStorageProofs` with the process's constants and
takes its invariants step by step:

* `ProcessTyped`: `Spec => []TypeOK`, which adds that no task awaits the feed twice
  (`Waiting`).
* `StopLosesNothing`: `AtomicBackends = Backends => (Spec => []OrderlyStopKeepsAll)`, for
  any number of signals, with and without an initial collection. As long as no `stop()`
  began early, `main()` is the first to await the feed, or fails before there is one, and
  so is the one that closes the storage (`MainFirst`); each signal's `stop()` finds it
  closed (`SignalSecond`), and what `asyncio.run()` cancels at the end has not begun. Of
  what the storage accepted only the batch that the consumer was cancelled with then
  vanishes (`Kept`), and the final flush leaves the buffer empty unless it fails.

`Folding` is for the models that fold over data. The library's induction theorems take
an operator as a parameter, which the provers cannot instantiate, and a recursive
function's definition has to be justified by such an induction. `SetInduction` and
`SequenceInduction` say the same of sets, which are values: a set of naturals that holds 0 and
each successor holds all. From them it builds the chain of partial results of a fold and
shows that there is one, and only one (`ChainExists`, `ChainUnique`); what `Fold` computes
on an empty sequence, an appended element and a concatenation follows (`FoldEmpty`,
`FoldAppend`, `FoldConcat`), and that it keeps what each of its steps keeps (`FoldKeeps`).
A filter is a fold too (`Among`): what it does to an appended element and to a
concatenation (`SiftAppend`, `SiftConcat`), and that its list has the elements that pass,
is shown there once.
The step and what it keeps are the module's constants, so that a proof about a model
instantiates it once per operation that it folds.

`LivePipelineProofs`, from `FramesAssumption` and `ClockAssumption` (messages are sequences
of rows; the ages of live trades are whole and at most `MaxAge`; a snapshot is of one coin):

* `LogsAlwaysMirrored`: `Spec => []LogsMirrored`. `LogsInv` adds that an open file is the
  one its stream is on, and that what was uploaded of a file is a prefix of it; a message
  logs its points one by one and a shutdown closes all that is open, so both are
  inductions over folds.
* `LatencyNeverPoisoned`: `Spec => []LatencyUnpoisoned`. `LatencyInv` adds that a coin is
  primed only once it was greeted on this connection: a snapshot of a reconnection is
  told from live trades because its coin was forgotten when the socket opened.
* `ClearingNeverSeen`: `Spec => ClearingUnseen`, of what a report says of each symbol; its
  summary counts all findings kept and does change. A filter of a filter: what the retention
  keeps contains what the window of the metrics selects, in the same order.

`BookFeedProofs`, from `FeedConstants` and `ChainsAssumption`, for any chain, any number
of blocks, files, coins and faults, and every deployment. `FeedsHold` is the inductive
invariant `FeedsInv`; its parts are

* `ChainInv` and `NodeInv`: what is sealed is a history of orders, and every token in a
  file is of the document of some height. `OrderInv`: a node of bare events that never
  died has written each height once, in order, of which at most the last is half written.
* `CursorInv`: the buffer is the partial line before the place the cursor is at, so that
  what the buffer and the new text make together is what the file says (`Split` of a
  concatenation).
* `FeedInv`: unless a file was jumped over, the feed is what `Consume` makes of all the
  lines of the files since it began; and of a feed of blocks, that each book that is not
  stale is at the height last read and holds what `Resting` says of the heights `since`.
* `StreamsInv`: of each stream, that its book is at a height of the chain and, if it is not
  stale and nothing was dropped, right there. `FaultsInv` bounds the faults.

The core of the argument is a list of lemmas on what one diff does to `Resting` of the
diffs before it, and that the book does the same to its orders: a new order stands
last, a removal takes out the slot it had, an update changes one size. From them,
a block that follows the book's height keeps it right, any other one marks it stale, and a
snapshot rebuilds it. Then

* `FeedsTyped`: `Spec => []TypeOK`; that no book holds an order twice is an invariant of
  the book's own operations.
* `BooksFaithful`: `Spec => []BookFaithful`. Of the node's files it speaks of the orders
  announced since the feed began to read: a book that starts empty misses the older ones
  and is not marked stale for it. For bare events, which carry no height, it speaks of runs
  without a fault and without a file passed over; `OrderInv` is needed: what was
  read is a run of the chain's heights (`RunOf`).
* `TailReplays`: `Spec => []TailIsReplay`. The second half compares two programs on the
  same lines: `Mirrors` relates `replay()`'s one book to the feed's book of that coin, and
  says that a book without a name has seen no diff at all (`Blank`); `Twin` says that two
  books with the same orders, one of which has counted more anomalies, stay so.

*Model-checked only.* Liveness. `ProcessedTrue` of `LivePipeline`, which relates sorted
buffers and candles to the whole history of a coin; the properties of `MakerSim`.

## 5. Findings

1. **A partly stored batch is not retried** (`storage/database.py:679`). A count
   above 0 ends the flush; the points Redis did not store are lost if the other
   backends failed.
2. **A gap recovered in part counts as recovered**
   (`scheduler/orchestrator.py:270`): the hours the archive did not have yet are not
   asked for again.
3. **The provider's stream never backs off** (`collectors/quicknode_feed.py:244`). The
   streak of failures is reset as soon as the call was made, before anything came, so a
   server that accepts and drops is subscribed to at the base delay for ever.
4. **The exact bound counts an order twice** (`sim/engine.py:108`, against
   `sim/types.py:39`). Block N is in the shared book before the actions that are due are
   placed; a level first quoted then is seeded with N's orders, and N's diffs append them
   again.

Eight properties are stated in their modules that no configuration names, as each fails
where one expects it to; naming one in a configuration of these bounds gives the
behaviour:

* `EvictsOldest` of `BatchingStorage`: two flushes that fail while both are out are put
  back in the order in which they fail (`storage/database.py:672`), so the cap may drop a
  newer point and keep an older one (two writers, one atomic backend, batch size 2, cap 3,
  4 points, `FairSpec`).
* `NoUncountedLoss` of `RawSpool`: an open that fails raises outside the `try`
  (`collectors/spool.py:161`), ends the writer with its batch uncounted, and is raised
  again by `close()` (the bounds of `spool`, with no cancellation and no kill).
* `WrittenReadable` of `RawSpool`: a file is opened for appending whatever it ends with
  (`collectors/spool.py:189`), so after a write that was cut within a line the next frame is
  glued to it, and a reader by lines finds neither, though the second is counted as
  written; `README.md:108` of the repository says one line per frame (the bounds of
  `spool`). `CountersHonest` says what remains: the frame's line is whole, and what
  it may be glued to is text of a frame counted as dropped or lost with its task.
* `ReplayedOnce` of `GapRecovery`: a connection that drops before its first message
  records the same `last_message_time` again (`collectors/realtime_collector.py:501`) and
  the trades of a hole that was recovered are asked for again (the bounds of `gap`).
* `ReceivedOnce` of `GapRecovery`: the snapshot of the new subscription holds trades of
  the hole, which are stored (`collectors/realtime_collector.py:597`), and the gap, whose end
  is the time of the connection, is replayed with the same trades. `backfill.py:91` keeps
  the last trade before the hole from being stored twice; at its other end nothing does
  (the bounds of `gap`).
* `ShutdownEnds` with `EarlySignals` true: a signal during `initialize()` is forgotten, as
  `start()` sets `is_running` again (`scheduler/orchestrator.py:485`).
* `StopKeepsAll` of `Shutdown`: `close()` of the storage returns at once to a second caller
  (`storage/database.py:705`), so when a `stop()` began early (a signal during the initial
  collection, or just as the feed ends) `main()` may return while that one flushes, and
  `asyncio.run()` cancels it with its batch (the bounds of `shutdown`).
* `HistoryHasCandles` of `LivePipeline`: the bulk path keeps rows without a zone in the
  buffer it shares with the live path, and the first comparison with an aware cutoff
  raises (`processors/data_processor.py:88`), so no candle is made, the symbol's live
  candles stop, and the Parquet file is not written; `README.md:125` of the repository
  promises bulk candles. The archive publishes no trades at present, so the path is idle.

Also met, and not demonstrated: a cached object that is not empty but cut short is served
for ever (`historical_collector.py:132` looks at the size only). In the backtest the cost of an exit lands on the bar after the trade
(`backtest/engine.py:76`), so the returns of trades do not tie out to the equity.

## 6. Not modelled, and what could follow

| Part | Why |
|---|---|
| PostgreSQL, InfluxDB and Redis clients; the object store; the read-through cache | I/O: their outcomes appear as choices where they are called |
| `collectors/_qn_pb` | generated |
| `backtest/`, `research/ofi.py` | sequential floating-point code over tables, without state to interleave |
| `bench/`, `config/`, `get_stats()` and printed reports | tools, values and output |
| the pro-rata bound, funding, the normalizer of the signal | fractions and statistics; the bounds that bracket are modelled |
| the daily deletion of files older than 30 days | no model runs that long |
| Redis's trimming, the reads of `get_data` after its flush | outside what a point's fate depends on |

In order of importance, what could be added: proofs of `MakerSim`'s four invariants, now only
model-checked; lemmas about one step of `QueueSim` (the queue ahead of an order never grows but
by a placement) that need no induction; the pending gaps across a restart; the pro-rata
bound in scaled integers.
