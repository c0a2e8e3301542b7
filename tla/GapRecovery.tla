---------------------------- MODULE GapRecovery ----------------------------
(***************************************************************************)
(* What becomes of trades the live websocket misses:                       *)
(* collectors/realtime_collector.py detects the gap on a reconnect,        *)
(* scheduler/orchestrator.py queues it and retries it periodically, and    *)
(* collectors/backfill.py replays what the archive has of it.              *)
(*                                                                         *)
(* Time is counted in ticks, and one trade happens at every tick, so that  *)
(* a set of ticks stands for the trades stored, missed or recovered.  The  *)
(* archive is external: it publishes one file per hour, once the hour is   *)
(* over, and a download of a published file may fail.                      *)
(***************************************************************************)
EXTENDS Integers, Sequences, FiniteSets, Functions

CONSTANTS
    Threshold,    \* gap_threshold_seconds
    MaxAge,       \* gap_backfill_max_age_seconds
    MaxPending,   \* gap_max_pending
    HourLen,      \* ticks in an hour
    Never,        \* None: no message seen, no disconnect recorded
    SnapshotLen,  \* bound: latest trades sent with a subscription
    MaxTime       \* bound: ticks in a behaviour

ASSUME GapAssumption ==
    /\ Threshold \in Nat
    /\ MaxAge \in Nat
    /\ MaxPending \in Nat \ {0}
    /\ HourLen \in Nat \ {0}
    /\ SnapshotLen \in Nat
    /\ MaxTime \in Nat
    /\ Never \notin Int

Ticks == 1 .. MaxTime
Times == 0 .. MaxTime
Gaps == [start : Times, end : Times]
Hour(t) == t \div HourLen
Hours == {Hour(t) : t \in Times}

VARIABLES
    now,       \* the clock
    conn,      \* where connect() stands
    since,     \* connection_start_time
    last,      \* last_message_time
    lostAt,    \* _last_disconnect_seen
    live,      \* trades received on the socket as they happened
    snap,      \* trades received only with a subscription, as the latest then
    forgone,   \* history: missed trades that no gap asks for, or no longer
    pending,   \* pending_gaps
    job,       \* where _retry_pending_gaps stands
    todo,      \* its batch, from the gap being fetched on
    began,     \* the time it read when it began, 0 when it is idle
    published, \* hours the archive has
    recovered, \* trades replayed from the archive
    partial    \* history: trades still missing of gaps that count as recovered

feedVars == <<conn, since, last, lostAt, live, snap>>
jobVars == <<job, todo, began, recovered, partial>>
vars == <<now, conn, since, last, lostAt, live, snap, forgone, pending,
          job, todo, began, published, recovered, partial>>

-----------------------------------------------------------------------------
\* Deliberate mistake: the lower bound counts as missed.
WindowClosed(g) == {t \in Ticks : g.start <= t /\ t <= g.end}

\* The trades a gap asks for.  Its start is the last message received, which is
\* not missing.
Window(g) == {t \in Ticks : g.start < t /\ t <= g.end}

Windows(gs) == UNION {Window(g) : g \in Range(gs)}

Gap(s, e) == [start |-> s, end |-> e]

\* Deliberate mistake: the queue has no limit.
PushedUnbounded(q, g) == Append(q, g)

\* The bounded deque q after g was appended: a full one drops its oldest entry.
Pushed(q, g) == Append(IF Len(q) < MaxPending THEN q ELSE Tail(q), g)

\* The trades that entry asked for.
Displaced(q) == IF Len(q) < MaxPending THEN {} ELSE Window(Head(q))

-----------------------------------------------------------------------------
Init ==
    /\ now = 0
    /\ conn = "down"
    /\ since = 0
    /\ last = Never
    /\ lostAt = Never
    /\ live = {}
    /\ snap = {}
    /\ forgone = {}
    /\ pending = <<>>
    /\ job = "idle"
    /\ todo = <<>>
    /\ began = 0
    /\ published = {}
    /\ recovered = {}
    /\ partial = {}

\* A trade happens.  A socket in use delivers it; one that is down, not yet
\* subscribed, or broken and not yet found to be, does not.
Tick ==
    /\ now < MaxTime
    /\ now' = now + 1
    /\ IF conn = "up"
       THEN live' = live \cup {now'} /\ last' = now'
       ELSE UNCHANGED <<live, last>>
    /\ UNCHANGED <<conn, since, lostAt, snap, forgone, pending, jobVars,
                   published>>

\* connect() up to its subscriptions, with _maybe_emit_gap and the callback
\* _queue_gap, which does not await.  A tick is long against a reconnection.
Connect ==
    LET gap == Gap(lostAt, now)
    IN  /\ conn = "down"
        /\ since < now \/ now = 0
        /\ conn' = "subscribing"
        /\ since' = now
        /\ lostAt' = Never
        /\ \/ /\ lostAt # Never
              /\ now - lostAt >= Threshold
              /\ pending' = Pushed(pending, gap)
              /\ forgone' = forgone \cup Displaced(pending)
           \/ /\ lostAt # Never
              /\ now - lostAt < Threshold
              /\ forgone' = forgone \cup Window(gap)
              /\ UNCHANGED pending
           \/ lostAt = Never /\ UNCHANGED <<pending, forgone>>
        /\ UNCHANGED <<now, last, live, snap, jobVars, published>>

\* The first message of a connection.  The exchange sends the latest trades with
\* it, which are parsed and stored like any other: some were received before, some
\* may lie in the hole that was just measured.  Those that happened while it was
\* subscribing and did not come are nobody's to recover, nor is what came before
\* the first message of all.
Subscribed ==
    /\ conn = "subscribing"
    /\ conn' = "up"
    /\ last' = now
    /\ \E k \in 0 .. SnapshotLen :
          LET got == Window(Gap(now - k, now))
              hole == Window(Gap(IF last = Never THEN 0 ELSE since, now))
          IN  /\ snap' = snap \cup (got \ live)
              /\ forgone' = (forgone \cup hole) \ got
    /\ UNCHANGED <<now, since, lostAt, live, pending, jobVars, published>>

\* The socket breaks and nobody has noticed: pings take a while to time out.
Stall ==
    /\ conn = "up"
    /\ conn' = "stalled"
    /\ UNCHANGED <<now, since, last, lostAt, live, snap, forgone, pending,
                   jobVars, published>>

\* Deliberate mistake: the gap is measured from the disconnect.
DropAtNow ==
    /\ conn # "down"
    /\ conn' = "down"
    /\ lostAt' = now
    /\ UNCHANGED <<now, since, last, live, snap, forgone, pending, jobVars,
                   published>>

\* connect() ends: _record_disconnect.
Drop ==
    /\ conn # "down"
    /\ conn' = "down"
    /\ lostAt' = last
    /\ UNCHANGED <<now, since, last, live, snap, forgone, pending, jobVars,
                   published>>

Publish(h) ==
    /\ h \notin published
    /\ (h + 1) * HourLen <= now + 1
    /\ published' = published \cup {h}
    /\ UNCHANGED <<now, feedVars, forgone, pending, jobVars>>

-----------------------------------------------------------------------------
\* _retry_pending_gaps.

TooOld(g, t) == t - g.end > MaxAge

\* The first gap of gs that is not too old, with those behind it.
FromYoung(gs, t) ==
    LET young == {i \in DOMAIN gs : ~TooOld(gs[i], t)}
    IN  IF young = {} THEN <<>>
        ELSE SubSeq(gs, CHOOSE i \in young : \A j \in young : i <= j, Len(gs))

\* Give up the gaps at the front that are too old, and await the archive for the
\* first that is not.
GoOn(gs, t) ==
    /\ todo' = FromYoung(gs, t)
    /\ IF todo' = <<>> THEN job' = "idle" /\ began' = 0
                      ELSE job' = "fetching" /\ began' = t

\* The trades of the gaps given up.
GivenUp(gs, t) == Windows(SubSeq(gs, 1, Len(gs) - Len(FromYoung(gs, t))))

\* The scheduler runs one instance of the job at a time.
RetryBegins ==
    /\ job = "idle"
    /\ pending # <<>>
    /\ pending' = <<>>
    /\ GoOn(pending, now)
    /\ forgone' = forgone \cup GivenUp(pending, now)
    /\ UNCHANGED <<now, feedVars, published, recovered, partial>>

\* Deliberate mistake: the hour the gap starts in is not asked for.
DownloadsLate(g) == SUBSET {h \in published : Hour(g.start) < h /\ h <= Hour(g.end)}

\* Downloads of published hours that return a file, or fail.
Downloads(g) == SUBSET {h \in published : Hour(g.start) <= h /\ h <= Hour(g.end)}

\* What the files fs have of the gap g.
Found(g, fs) == {t \in Window(g) : Hour(t) \in fs}

\* backfill_gap replays the trades got of the gap g; none at all and the gap is
\* queued again, any and it counts as recovered.
Replay(g, got) ==
    /\ recovered' = recovered \cup got
    /\ partial' = (IF got = {} THEN partial ELSE partial \cup Window(g)) \ recovered'
    /\ pending' = IF got = {} THEN Pushed(pending, g) ELSE pending

\* The archive answered for the first gap of the batch, with the files fs: replay
\* it, and go on with the next.
FetchedFiles(fs) ==
    LET got == Found(Head(todo), fs)
    IN  /\ Replay(Head(todo), got)
        /\ GoOn(Tail(todo), began)
        /\ forgone' = forgone \cup GivenUp(Tail(todo), began)
                              \cup (IF got = {} THEN Displaced(pending) ELSE {})
        /\ UNCHANGED <<now, feedVars, published>>

Fetched == job = "fetching" /\ \E fs \in Downloads(Head(todo)) : FetchedFiles(fs)

Next ==
    \/ Tick
    \/ Connect \/ Subscribed \/ Stall \/ Drop
    \/ \E h \in Hours : Publish(h)
    \/ RetryBegins \/ Fetched

Spec == Init /\ [][Next]_vars

\* Every published hour of the first gap of the batch can be had.
FetchedWhole == job = "fetching" /\ FetchedFiles(UNION Downloads(Head(todo)))

\* Time passes, the scheduler runs the job, which goes on, the archive publishes
\* each hour in the end, and its downloads do not fail for ever.
Fairness ==
    /\ WF_vars(Tick)
    /\ WF_vars(RetryBegins)
    /\ \A h \in Hours : WF_vars(Publish(h))
    /\ SF_vars(FetchedWhole)

FairSpec == Spec /\ Fairness

-----------------------------------------------------------------------------
\* Type invariant, with the bound of the deque and of the times it may hold.
TypeOK ==
    /\ now \in Times
    /\ conn \in {"down", "subscribing", "up", "stalled"}
    /\ since \in 0 .. now
    /\ last \in 0 .. now \cup {Never}
    /\ lostAt \in 0 .. now \cup {Never}
    /\ {live, snap, forgone, recovered, partial} \subseteq SUBSET Ticks
    /\ pending \in Seq(Gaps) /\ Len(pending) <= MaxPending
    /\ job \in {"idle", "fetching"}
    /\ todo \in Seq(Gaps)
    /\ began \in 0 .. now
    /\ published \subseteq Hours

\* Trades that no gap asks for yet: those since the last message, or since the
\* connection was made if a message of it is still to come.
Open ==
    LET from == CASE conn = "up"          -> now
                  [] conn = "stalled"     -> last
                  [] conn = "subscribing" -> IF last = Never THEN 0 ELSE since
                  [] conn = "down"        -> IF lostAt = Never THEN 0 ELSE lostAt
    IN  Window(Gap(from, now))

\* No trade is forgotten: each that happened was received, is in the hole the
\* next connection will measure, in a gap that is queued or being fetched, or was
\* recovered; or it was given up for a reason the code has: the hole was short,
\* the queue full, the gap old, or another part of it recovered.
EveryHoleExplained ==
    1 .. now \subseteq
        live \cup snap \cup Open \cup Windows(pending) \cup Windows(todo)
        \cup recovered \cup forgone \cup partial

\* A trade that the socket delivered as it happened is never replayed as well,
\* whatever connections, holes and retries follow.
NoLiveReplay == live \cap recovered = {}

\* No trade is stored twice, once received and once replayed: not so of those that
\* a subscription's snapshot holds, and a gap asks for as well.
ReceivedOnce == (live \cup snap) \cap recovered = {}

\* What was recovered is not asked for again: not so when a connection drops
\* before its first message, and the next one reports the same hole.
ReplayedOnce == (Windows(pending) \cup Windows(todo)) \cap recovered = {}

\* A gap is retried until all of it was recovered.
RetriedUntilFilled == partial = {}

\* What a queued gap asks for is finally recovered or given up.
GapsResolved ==
    \A t \in Ticks :
        t \in Windows(pending) ~> t \notin Windows(pending) \cup Windows(todo)
=============================================================================
