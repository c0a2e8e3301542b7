---------------------------- MODULE LivePipeline ----------------------------
(***************************************************************************)
(* The path of a point from the socket to its sinks.  The read loop parses *)
(* and enqueues; the consumer gives each point to two callbacks in turn:   *)
(* the orchestrator's validated_data_callback, which awaits the storage of *)
(* a processed point, then the day logger.  Gap backfill replays trades of *)
(* the past through the validation, the storage and the day logger, and    *)
(* the history of yesterday is processed in bulk, both between any two     *)
(* steps of the consumer.  A daily job clears old validation results.      *)
(*                                                                         *)
(* The horizon is shorter than the 30 days after which the same job        *)
(* deletes files.                                                          *)
(***************************************************************************)
EXTENDS Processing, DayLogs, Archive

CONSTANTS
    Frames,      \* messages the exchange sends
    Recovered,   \* trades a backfill may find, with their age
    Histories,   \* files of trades the archive may have of yesterday
    Start,       \* the clock at the start ...
    Horizon,     \* ... and at the end
    MaxAge,      \* a live trade is read no later; those of a snapshot are older
    MaxInputs,   \* frames, connects, replays and histories together
    MaxFaults

\* Of the exchange: a message is of one subscription, so that a snapshot of
\* trades is of one coin.
ASSUME FramesAssumption ==
    \A m \in Frames :
        /\ m.channel \in {"trades", "allMids"} => m.rows \in Seq(Range(m.rows))
        /\ m.channel = "trades" =>
               /\ \A i \in DOMAIN m.rows : m.rows[i].age \in Int /\ (~m.snapshot => m.rows[i].age <= MaxAge)
               /\ m.snapshot => \A i, j \in DOMAIN m.rows : m.rows[i].coin = m.rows[j].coin

ASSUME ClockAssumption == Start \in Nat /\ MaxAge \in Nat

VARIABLES
    now,
    feed,      \* the collector: ring buffers, histograms, queue
    greeted,   \* coins whose snapshot of trades this connection has had
    checks,    \* the validator
    proc,      \* the data processor
    arrived,   \* per symbol, the trades given to add_trade() so far
    consumer,  \* the points of the consumer's await, or <<>>
    replayer,  \* the point of the replay's await, or <<>>
    stored,    \* what the storage accepted
    logs,      \* the day logger
    done,      \* the history processed, and of which symbol
    used       \* inputs and faults spent

vars == <<now, feed, greeted, checks, proc, arrived, consumer, replayer, stored, logs, done, used>>

Init ==
    /\ now = Start
    /\ feed = NewFeed
    /\ greeted = {}
    /\ checks = NewChecks
    /\ proc = NewProcessor
    /\ arrived = [s \in Symbols |-> <<>>]
    /\ consumer = <<>>
    /\ replayer = <<>>
    /\ stored = {}
    /\ logs = NewLogs
    /\ done = "running"
    /\ used = [inputs |-> 0, faults |-> 0]

Running == done # "stopped"

\* log_data_point(), which may fail to upload, to open or to write.
Log(p, spent) ==
    \E up \in BOOLEAN, outcome \in Outcomes :
        LET faults == (IF up THEN 0 ELSE 1) + (IF outcome = "written" THEN 0 ELSE 1)
        IN  /\ spent.faults + faults <= MaxFaults
            /\ logs' = Logged(logs, p, up, outcome)
            /\ used' = [spent EXCEPT !.faults = @ + faults]

Spent(what) == [used EXCEPT ![what] = @ + 1]

-----------------------------------------------------------------------------
(* The socket *)

Tick ==
    /\ Running /\ now < Horizon
    /\ now' = now + 1
    /\ UNCHANGED <<feed, greeted, checks, proc, arrived, consumer, replayer, stored, logs, done, used>>

\* The exchange sends a snapshot of recent trades first, on every connection.
Connect ==
    /\ Running /\ used.inputs < MaxInputs
    /\ feed' = Connected(feed)
    /\ greeted' = {}
    /\ used' = Spent("inputs")
    /\ UNCHANGED <<now, checks, proc, arrived, consumer, replayer, stored, logs, done>>

Sendable(m) ==
    m.channel = "trades" =>
        (m.snapshot <=> \E i \in DOMAIN m.rows : m.rows[i].coin \in Symbols \ greeted)

Receive(m) ==
    /\ Running /\ used.inputs < MaxInputs /\ Sendable(m)
    /\ feed' = ProcessMessage(feed, m, now)
    /\ greeted' = IF m.channel = "trades" THEN greeted \cup {m.rows[i].coin : i \in DOMAIN m.rows}
                  ELSE greeted
    /\ used' = Spent("inputs")
    /\ UNCHANGED <<now, checks, proc, arrived, consumer, replayer, stored, logs, done>>

-----------------------------------------------------------------------------
(* The consumer *)

\* What the validation refuses, or the processor has nothing to compute from,
\* goes to the day logger in the same step.
Take ==
    /\ Running /\ consumer = <<>> /\ feed.queue # <<>>
    /\ \E v \in {Validated(checks, Head(feed.queue), now)} :
       \E next \in {IF v.point = <<>> THEN proc ELSE Ingested(proc, v.point[1], now)} :
        LET raw == Head(feed.queue)
            p   == v.point[1]
            new == WithIndicators(next, p)
        IN  /\ feed' = [feed EXCEPT !.queue = Tail(@)]
            /\ checks' = v.checks
            /\ arrived' = IF v.point # <<>> /\ raw.type = "trade"
                          THEN [arrived EXCEPT ![raw.symbol] = Append(@, p)] ELSE arrived
            /\ IF v.point # <<>> /\ Processable(next, p)
               THEN /\ proc' = new
                    /\ consumer' = <<raw, ProcessedPoint(next, new, p)>>
                    /\ UNCHANGED <<logs, used>>
               ELSE /\ proc' = next
                    /\ Log(raw, used)
                    /\ UNCHANGED consumer
    /\ UNCHANGED <<now, greeted, replayer, stored, done>>

\* The storage answers, or raises, which is caught; then the raw point is logged.
Stored(ok) ==
    /\ Running /\ consumer # <<>>
    /\ ok \/ used.faults < MaxFaults
    /\ stored' = IF ok THEN stored \cup {consumer[2]} ELSE stored
    /\ Log(consumer[1], IF ok THEN used ELSE Spent("faults"))
    /\ consumer' = <<>>
    /\ UNCHANGED <<now, feed, greeted, checks, proc, arrived, replayer, done>>

-----------------------------------------------------------------------------
(* What comes from the archive *)

\* _replay_point(): the validation, and on to the storage.
Replay(r) ==
    /\ Running /\ replayer = <<>> /\ used.inputs < MaxInputs
    /\ LET v == Validated(checks, Point(r.coin, "trade", now - r.age, r.data), now)
       IN  checks' = v.checks /\ replayer' = v.point
    /\ used' = Spent("inputs")
    /\ UNCHANGED <<now, feed, greeted, proc, arrived, consumer, stored, logs, done>>

ReplayStored ==
    /\ Running /\ replayer # <<>>
    /\ stored' = stored \cup {replayer[1]}
    /\ Log(replayer[1], used)
    /\ replayer' = <<>>
    /\ UNCHANGED <<now, feed, greeted, checks, proc, arrived, consumer, done>>

\* An exception of the storage ends the backfill.
ReplayFails ==
    /\ Running /\ replayer # <<>> /\ used.faults < MaxFaults
    /\ replayer' = <<>>
    /\ used' = Spent("faults")
    /\ UNCHANGED <<now, feed, greeted, checks, proc, arrived, consumer, stored, logs, done>>

\* The scheduled or the initial collection, at most once, of the files that could
\* be downloaded.  The processing is one step: it raises before its first await,
\* if anything is to be stored at all.
ProcessHistory(symbol, files) ==
    /\ done = "running" /\ used.inputs < MaxInputs
    /\ \E failed \in SUBSET DOMAIN files :
        LET rows == Downloaded(files, failed)
        IN  /\ used.faults + Cardinality(failed) <= MaxFaults
            /\ proc' = [proc EXCEPT !.trades[symbol] = BulkBuffered(@, symbol, rows, now)]
            /\ stored' = stored \cup BulkCandles(proc'.trades[symbol], symbol, rows, now)
            /\ done' = IF rows = <<>> THEN "no history" ELSE symbol
            /\ used' = [inputs |-> used.inputs + 1, faults |-> used.faults + Cardinality(failed)]
    /\ UNCHANGED <<now, feed, greeted, checks, arrived, consumer, replayer, logs>>

-----------------------------------------------------------------------------
(* The jobs and the end *)

Cleanup ==
    /\ Running
    /\ checks' = ClearOldResults(checks, now)
    /\ checks' # checks
    /\ UNCHANGED <<now, feed, greeted, proc, arrived, consumer, replayer, stored, logs, done, used>>

\* stop(): the tasks are cancelled before close_all_files().
Stop ==
    /\ Running
    /\ \E failed \in SUBSET logs.handles :
        /\ used.faults + Cardinality(failed) <= MaxFaults
        /\ logs' = AllClosed(logs, failed)
        /\ used' = [used EXCEPT !.faults = @ + Cardinality(failed)]
    /\ consumer' = <<>>
    /\ replayer' = <<>>
    /\ done' = "stopped"
    /\ UNCHANGED <<now, feed, greeted, checks, proc, arrived, stored>>

Next ==
    \/ Tick
    \/ Connect
    \/ \E m \in Frames : Receive(m)
    \/ Take
    \/ \E ok \in BOOLEAN : Stored(ok)
    \/ \E r \in Recovered : Replay(r)
    \/ ReplayStored
    \/ ReplayFails
    \/ \E s \in Symbols, files \in Histories : ProcessHistory(s, files)
    \/ Cleanup
    \/ Stop

Spec == Init /\ [][Next]_vars

-----------------------------------------------------------------------------
(* Properties *)

\* Only the file a stream is on is open, and what the object store holds of any
\* other is all of it, unless its last upload failed: also for the day that is
\* reopened by a point that comes late, and left again (DataLogger).
LogsMirrored ==
    /\ \A f \in logs.handles : logs.current[<<f[1], f[2]>>] = f
    /\ \A f \in DOMAIN logs.files :
        /\ f \in DOMAIN logs.mirror => IsPrefix(logs.mirror[f], logs.files[f])
        /\ f \notin logs.handles \cup logs.unsaved =>
               f \in DOMAIN logs.mirror /\ logs.mirror[f] = logs.files[f]

\* The candle of a processed point is the one of all trades that arrived for its
\* minute, late and unordered ones too, as long as the retention reaches back that
\* far and the cap holds; its book was never crossed (OHLCVProcessor,
\* OrderBookProcessor behind the validation).
ProcessedTrue ==
    consumer # <<>> =>
        LET p      == consumer[2]
            seen   == arrived[p.symbol]
            inside == {i \in DOMAIN seen : /\ i > Len(seen) - MaxTrades
                                           /\ p.ts - Interval <= seen[i].ts /\ seen[i].ts < p.ts}
            px(i)  == seen[i].data.px
        IN  /\ p.ts - Interval > now - Retention =>
                   IF inside = {} THEN p.data.ohlcv = <<>>
                   ELSE LET c == p.data.ohlcv[1]
                        IN  /\ p.data.ohlcv # <<>>
                            /\ c.count = Cardinality(inside)
                            /\ c.open = px(Min(inside)) /\ c.close = px(Max(inside))
                            /\ \A i \in inside : c.low <= px(i) /\ px(i) <= c.high
                            /\ c.low * c.volume <= c.value /\ c.value <= c.high * c.volume
            /\ p.data.metrics # <<>> => p.data.metrics[1].spread > 0 /\ ~p.data.metrics[1].crossed

\* No histogram counts the snapshot of old trades that opens a connection, whatever
\* arrives between two connections (process_message, connect).
LatencyUnpoisoned ==
    feed.latency["trades"].greatest <= MaxAge

\* Whenever the daily job clears the old results, what a quality report says of each
\* symbol is the same right before and right after: its counts over the last day, the
\* ratios made of them and its freshness (get_quality_metrics, clear_old_results).  Not
\* so the summary of the report, which counts every result that is kept.
ClearingUnseen ==
    [][Cleanup => QualityReport(checks, now)'.symbols = QualityReport(checks, now).symbols]_vars

\* Processing history in bulk generates candles (README.md:125).
HistoryHasCandles ==
    done \in Symbols => \E p \in stored : p.symbol = done /\ p.type = "ohlcv"
=============================================================================
