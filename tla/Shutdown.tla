------------------------------ MODULE Shutdown ------------------------------
(***************************************************************************)
(* The life of the process: scheduler/orchestrator.py starts the live feed *)
(* of collectors/realtime_collector.py in front of the storage of          *)
(* storage/database.py, and stops them in order when signals arrive.       *)
(*                                                                         *)
(* The storage is the BatchingStorage of its own module, with the consumer *)
(* as its only writer and the tasks that run stop() as its closers.        *)
(*                                                                         *)
(* Tasks: Main runs main(), which ends in stop(); each member of Signals   *)
(* is a task that a signal creates to run stop(); the feed is the task of  *)
(* start_with_reconnect, and Consumer is the task it starts.               *)
(***************************************************************************)
EXTENDS Integers, Sequences, FiniteSets, Functions

CONSTANTS
    Main, Signals, Consumer, Loop,
    Backends, AtomicBackends, LossyAck,
    BatchSize, MaxBuffer,
    QueueSize,     \* websocket_queue_maxsize
    EarlySignals,  \* whether a signal may come while the pipeline initializes
    MaxOffered     \* bound: points the feed receives

Stoppers == Signals \cup {Main}

ASSUME LifeAssumption ==
    /\ Main \notin Signals
    /\ Consumer \notin Stoppers
    /\ Loop \notin Stoppers \cup {Consumer}
    /\ AtomicBackends \subseteq Backends
    /\ LossyAck \subseteq Backends
    /\ BatchSize \in Nat \ {0}
    /\ MaxBuffer \in Nat
    /\ QueueSize \in Nat \ {0}
    /\ EarlySignals \in BOOLEAN
    /\ MaxOffered \in Nat

VARIABLES
    buffer, accepted, dropped, evicted, written, closed, pc, batch, overlap, failed,
    offered,     \* points received so far, numbered in that order
    queue,       \* _queue: those waiting for the consumer
    shed,        \* those dropped from it, which dropped_count counts
    taken,       \* history: those the consumer took
    cut,         \* history: stored points the consumer was cancelled with
    historical,  \* historical_enabled
    feed,        \* where start_with_reconnect stands
    feedCancel,  \* cancel() was called on it and has not taken effect
    task,        \* whether _realtime_task is set
    waiters,     \* the tasks that await it, in the order they began to
    consumer,    \* the consumer: "none", "running", "stopping" or "done"
    running,     \* is_running
    main,        \* where main() stands
    stop,        \* where each stop() stands
    doomed,      \* stop() tasks cancelled by the end of asyncio.run()
    hasty        \* history: a stop() began while main() did not await a live feed

storageVars == <<buffer, accepted, dropped, evicted, written, closed, pc, batch,
                 overlap, failed>>
queueVars == <<offered, queue, shed, taken>>
feedVars == <<feed, feedCancel, consumer, cut>>
lifeVars == <<task, waiters, running, main, stop, doomed, hasty>>
vars == <<storageVars, queueVars, feedVars, lifeVars, historical>>

Storage == INSTANCE BatchingStorage WITH
    Writers <- {Consumer},
    Readers <- {},
    Closers <- Stoppers,
    Cancellable <- Stoppers \cup {Consumer},
    MaxBatch <- 1,
    MaxPoints <- MaxOffered

-----------------------------------------------------------------------------
Init ==
    /\ Storage!Init
    /\ offered = 0
    /\ queue = <<>>
    /\ shed = {}
    /\ taken = {}
    /\ cut = {}
    /\ historical \in BOOLEAN
    /\ feed = "none"
    /\ feedCancel = FALSE
    /\ task = FALSE
    /\ waiters = <<>>
    /\ consumer = "none"
    /\ running = FALSE
    /\ main = "initializing"
    /\ stop = [s \in Stoppers |-> "no"]
    /\ doomed = {}
    /\ hasty = FALSE

-----------------------------------------------------------------------------
\* The live feed.

\* start_with_reconnect runs for the first time and starts the consumer; a task
\* cancelled before that never does.
FeedBegins ==
    /\ feed = "created"
    /\ feed' = IF feedCancel THEN "done" ELSE "listening"
    /\ consumer' = IF feedCancel THEN "none" ELSE "running"
    /\ feedCancel' = FALSE
    /\ UNCHANGED <<storageVars, queueVars, cut, lifeVars, historical>>

\* Deliberate mistake: a full queue is not emptied first.
EnqueueUnbounded(p) == queue' = Append(queue, p) /\ UNCHANGED shed

\* Deliberate mistake: a full queue keeps what it has, and counts the new point.
EnqueueRefusing(p) ==
    IF Len(queue) < QueueSize
    THEN queue' = Append(queue, p) /\ UNCHANGED shed
    ELSE shed' = shed \cup {p} /\ UNCHANGED queue

\* _enqueue: a full queue drops its oldest point, counted.
Enqueue(p) ==
    IF Len(queue) < QueueSize
    THEN queue' = Append(queue, p) /\ UNCHANGED shed
    ELSE queue' = Append(Tail(queue), p) /\ shed' = shed \cup {Head(queue)}

Receive ==
    /\ feed = "listening" /\ ~feedCancel
    /\ offered < MaxOffered
    /\ offered' = offered + 1
    /\ Enqueue(offered')
    /\ UNCHANGED <<storageVars, taken, feedVars, lifeVars, historical>>

\* The consumer takes a point and runs its callbacks; one that yields a point to
\* store awaits the storage, which refuses it once closed.
Consume(stores) ==
    /\ consumer = "running"
    /\ pc[Consumer] = "idle"
    /\ queue # <<>>
    /\ queue' = Tail(queue)
    /\ taken' = taken \cup {Head(queue)}
    /\ IF stores /\ ~closed
       THEN Storage!StoreDataPoint(Consumer)
       ELSE UNCHANGED storageVars
    /\ UNCHANGED <<offered, shed, feedVars, lifeVars, historical>>

\* Deliberate mistake: the reconnect loop swallows the cancellation.
FeedCancelledSwallowed ==
    /\ feedCancel
    /\ feed = "listening"
    /\ feedCancel' = FALSE
    /\ UNCHANGED <<feed, consumer, storageVars, queueVars, cut, lifeVars, historical>>

\* The cancellation reaches connect() or the sleep between two of them: on to
\* the finally, which cancels the consumer and awaits it.
FeedCancelled ==
    /\ feedCancel
    /\ feed = "listening"
    /\ feed' = "joining"
    /\ consumer' = "stopping"
    /\ feedCancel' = FALSE
    /\ UNCHANGED <<storageVars, queueVars, cut, lifeVars, historical>>

\* One more cancellation: the wait for the consumer swallows it, a spool that is
\* being closed does not.
FeedCancelledAgain ==
    /\ feedCancel
    /\ feed \in {"joining", "draining"}
    /\ feed' = IF feed = "joining" THEN feed ELSE "done"
    /\ feedCancel' = FALSE
    /\ UNCHANGED <<consumer, storageVars, queueVars, cut, lifeVars, historical>>

\* The consumer is cancelled while it waits for a point, or with a batch out.
ConsumerCancelled ==
    /\ consumer = "stopping"
    /\ consumer' = "done"
    /\ IF pc[Consumer] = "writing"
       THEN Storage!CancelFlush(Consumer) /\ cut' = Range(batch[Consumer])
       ELSE UNCHANGED <<storageVars, cut>>
    /\ UNCHANGED <<queueVars, feed, feedCancel, lifeVars, historical>>

FeedJoined ==
    /\ feed = "joining" /\ ~feedCancel
    /\ consumer = "done"
    /\ feed' = "draining"
    /\ UNCHANGED <<feedCancel, consumer, storageVars, queueVars, cut, lifeVars, historical>>

\* spool.close() returns; its exceptions are logged.
FeedDrained ==
    /\ feed = "draining" /\ ~feedCancel
    /\ feed' = "done"
    /\ UNCHANGED <<feedCancel, consumer, storageVars, queueVars, cut, lifeVars, historical>>

-----------------------------------------------------------------------------
\* stop().

\* A stop() has returned, or was cancelled.
Over(s) == stop[s] = "done" \/ (stop[s] = "storage" /\ pc[s] \in {"done", "cancelled"})

\* A stop() that begins now closes the storage itself, while main() may return and
\* end asyncio.run(): main() is still collecting history, or the feed has ended and
\* main() has not resumed yet.
Early == pc[Loop] # "off" /\ ~closed /\ ~(main = "awaiting" /\ feed # "done")

\* Deliberate mistake: the feed is cancelled and not awaited.
StopBeginsUnawaited(s) ==
    /\ stop[s] = "called" /\ s \notin doomed
    /\ hasty' = (hasty \/ Early)
    /\ running' = FALSE
    /\ task' = FALSE
    /\ feedCancel' = (feedCancel \/ (task /\ feed # "done"))
    /\ stop' = [stop EXCEPT ![s] = IF pc[Loop] = "off" THEN "done" ELSE "storage"]
    /\ IF pc[Loop] = "off"
       THEN UNCHANGED storageVars
       ELSE Storage!CloseAgain(s) \/ Storage!CloseAndJoin(s)
    /\ UNCHANGED <<queueVars, feed, consumer, cut, waiters, main, doomed, historical>>

\* From the end of the feed to the first await of storage.close(): scheduler and
\* data logger are closed, then the storage if initialize() got to create it.
CloseSinks(s) ==
    /\ running' = FALSE
    /\ task' = FALSE
    /\ stop' = [stop EXCEPT ![s] = IF pc[Loop] = "off" THEN "done" ELSE "storage"]
    /\ IF pc[Loop] = "off"
       THEN UNCHANGED storageVars
       ELSE Storage!CloseAgain(s) \/ Storage!CloseAndJoin(s)
    /\ UNCHANGED <<queueVars, feedVars, doomed, historical>>

\* stop() cancels the feed and awaits it, if there is one that has not ended.
AwaitFeed(s) ==
    /\ task /\ feed # "done"
    /\ running' = FALSE
    /\ feedCancel' = TRUE
    /\ waiters' = Append(waiters, s)
    /\ stop' = [stop EXCEPT ![s] = "feed"]
    /\ UNCHANGED <<storageVars, queueVars, feed, consumer, cut, task, main, doomed,
                   historical>>

\* The signal handler creates a task for stop().
Signal(s) ==
    /\ s \in Signals
    /\ stop[s] = "no"
    /\ main # "ended"
    /\ EarlySignals \/ main # "initializing"
    /\ stop' = [stop EXCEPT ![s] = "called"]
    /\ UNCHANGED <<storageVars, queueVars, feedVars, task, waiters, running, main,
                   doomed, hasty, historical>>

StopBegins(s) ==
    /\ stop[s] = "called" /\ s \notin doomed
    /\ hasty' = (hasty \/ Early)
    /\ \/ AwaitFeed(s)
       \/ ~(task /\ feed # "done") /\ CloseSinks(s) /\ UNCHANGED <<waiters, main>>

\* The tasks that await the feed resume in the order in which they began to.
NextWaiter(s) == feed = "done" /\ waiters # <<>> /\ Head(waiters) = s

StopResumes(s) ==
    /\ stop[s] = "feed"
    /\ NextWaiter(s)
    /\ waiters' = Tail(waiters)
    /\ CloseSinks(s)
    /\ UNCHANGED <<main, hasty>>

-----------------------------------------------------------------------------
\* main(): initialize(), start(), and stop() in the finally.

\* initialize() returns, and start() runs to its first await.
Starts ==
    /\ main = "initializing"
    /\ Storage!Start
    /\ running' = TRUE
    /\ feed' = "created"
    /\ task' = TRUE
    /\ main' = IF historical THEN "collecting" ELSE "awaiting"
    /\ waiters' = IF historical THEN waiters ELSE Append(waiters, Main)
    /\ UNCHANGED <<queueVars, feedCancel, consumer, cut, stop, doomed, hasty,
                   historical>>

\* initialize() raises before it has a storage: there is nothing to close.
InitFails ==
    /\ main = "initializing"
    /\ main' = "stopping"
    /\ CloseSinks(Main)
    /\ UNCHANGED <<waiters, hasty>>

\* initialize() has created the storage and started it, and one of the components
\* it makes next raises.  No await follows until main()'s stop() closes the storage,
\* so WiringFails and FailedStops are one stretch.
WiringFails ==
    /\ main = "initializing"
    /\ main' = "failing"
    /\ Storage!Start
    /\ UNCHANGED <<queueVars, feedVars, task, waiters, running, stop, doomed, hasty,
                   historical>>

FailedStops ==
    /\ main = "failing"
    /\ main' = "stopping"
    /\ CloseSinks(Main)
    /\ UNCHANGED <<waiters, hasty>>

\* The initial collection of history has ended; start() goes on to await the
\* feed, unless that was stopped meanwhile.
Collected ==
    /\ main = "collecting"
    /\ \/ /\ task /\ feed # "done"
          /\ main' = "awaiting"
          /\ waiters' = Append(waiters, Main)
          /\ UNCHANGED <<storageVars, queueVars, feedVars, task, running, stop, doomed,
                         hasty, historical>>
       \/ /\ IF task THEN feed = "done" ELSE ~running
          /\ main' = "stopping"
          /\ CloseSinks(Main)
          /\ UNCHANGED <<waiters, hasty>>

\* Deliberate mistake: main() has no finally.
FeedEndedUnstopped ==
    /\ main = "awaiting"
    /\ NextWaiter(Main)
    /\ waiters' = Tail(waiters)
    /\ main' = "stopping"
    /\ stop' = [stop EXCEPT ![Main] = "done"]
    /\ UNCHANGED <<storageVars, queueVars, feedVars, task, running, doomed, hasty,
                   historical>>

\* start() swallows the cancellation of the feed and returns.
FeedEnded ==
    /\ main = "awaiting"
    /\ NextWaiter(Main)
    /\ waiters' = Tail(waiters)
    /\ main' = "stopping"
    /\ CloseSinks(Main)
    /\ UNCHANGED hasty

\* asyncio.run() ends with main(), and cancels what is left.  Tasks woken before
\* run before.
Ends ==
    /\ main = "stopping"
    /\ Over(Main)
    /\ waiters = <<>>
    /\ main' = "ended"
    /\ doomed' = {s \in Signals : stop[s] # "no" /\ ~Over(s)}
    /\ UNCHANGED <<storageVars, queueVars, feedVars, task, waiters, running, stop,
                   hasty, historical>>

\* The cancellation takes effect: a stop() that has not begun never does, one that
\* flushes or closes the inner store ends, and one that joins the periodic task
\* swallows it.
CutOff(s) ==
    /\ s \in doomed
    /\ doomed' = doomed \ {s}
    /\ \/ /\ stop[s] = "called"
          /\ stop' = [stop EXCEPT ![s] = "done"]
          /\ UNCHANGED storageVars
       \/ /\ stop[s] = "storage"
          /\ \/ Storage!CancelJoin(s) \/ Storage!CancelFlush(s) \/ Storage!CloseInner(s)
             \/ Storage!CloseJoined(s)
          /\ UNCHANGED stop
    /\ UNCHANGED <<queueVars, feedVars, task, waiters, running, main, hasty, historical>>

-----------------------------------------------------------------------------
\* Steps of the storage alone.

LoopSteps ==
    /\ Storage!LoopBegins \/ Storage!LoopWake
    /\ UNCHANGED <<queueVars, feedVars, lifeVars, historical>>

\* A flush returns to a task that is not being cancelled.
FlushReturns(t) ==
    /\ t \notin doomed
    /\ t = Consumer => consumer = "running"
    /\ Storage!FlushStored(t) \/ Storage!FlushFailed(t)
    /\ UNCHANGED <<queueVars, feedVars, lifeVars, historical>>

Closing(s) ==
    /\ s \notin doomed
    /\ Storage!CloseJoined(s) \/ Storage!CloseInner(s)
    /\ UNCHANGED <<queueVars, feedVars, lifeVars, historical>>

Step ==
    \/ Starts \/ InitFails \/ WiringFails \/ Collected \/ FeedEnded \/ Ends
    \/ FeedBegins \/ Receive \/ FeedCancelled \/ FeedCancelledAgain
    \/ ConsumerCancelled \/ FeedJoined \/ FeedDrained
    \/ \E stores \in BOOLEAN : Consume(stores)
    \/ \E s \in Signals : Signal(s) \/ StopBegins(s) \/ StopResumes(s) \/ CutOff(s)
    \/ \E s \in Stoppers : Closing(s)
    \/ \E t \in Storage!Tasks : FlushReturns(t)
    \/ LoopSteps

Next ==
    \/ FailedStops
    \/ main # "failing" /\ Step

Spec == Init /\ [][Next]_vars

\* The event loop runs every task that can run, awaited calls return, and the
\* initial collection ends.  Nobody owes a signal or a message.
Fairness ==
    /\ WF_vars(Starts \/ InitFails \/ WiringFails)
    /\ WF_vars(FailedStops)
    /\ WF_vars(Collected)
    /\ WF_vars(FeedEnded)
    /\ WF_vars(Ends)
    /\ WF_vars(FeedBegins)
    /\ WF_vars(FeedCancelled)
    /\ WF_vars(FeedCancelledAgain)
    /\ WF_vars(ConsumerCancelled)
    /\ WF_vars(FeedJoined)
    /\ WF_vars(FeedDrained)
    /\ WF_vars(LoopSteps)
    /\ \A s \in Signals : WF_vars(StopBegins(s) \/ StopResumes(s) \/ CutOff(s))
    /\ \A s \in Stoppers : WF_vars(Closing(s))
    /\ \A t \in Storage!Tasks : WF_vars(FlushReturns(t))

FairSpec == Spec /\ Fairness

-----------------------------------------------------------------------------
\* Type invariant, with the bound of the hand-off queue.
TypeOK ==
    /\ Storage!TypeOK
    /\ offered \in 0 .. MaxOffered
    /\ queue \in Seq(1 .. offered) /\ Len(queue) <= QueueSize
    /\ shed \subseteq 1 .. offered
    /\ taken \subseteq 1 .. offered
    /\ cut \subseteq Storage!Accepted
    /\ historical \in BOOLEAN
    /\ feed \in {"none", "created", "listening", "joining", "draining", "done"}
    /\ feedCancel \in BOOLEAN
    /\ task \in BOOLEAN
    /\ waiters \in Seq(Stoppers) /\ IsInjective(waiters)
    /\ consumer \in {"none", "running", "stopping", "done"}
    /\ running \in BOOLEAN
    /\ main \in {"initializing", "failing", "collecting", "awaiting", "stopping", "ended"}
    /\ stop \in [Stoppers -> {"no", "called", "feed", "storage", "done"}]
    /\ doomed \subseteq Signals
    /\ hasty \in BOOLEAN

\* Each point received is queued, was taken by the consumer, or is one of those
\* dropped_count reports; and those that left are older than those that wait.
FeedAccounted ==
    /\ shed \cup taken \cup Range(queue) = 1 .. offered
    /\ shed \cap taken = {}
    /\ \A p \in shed \cup taken : \A q \in Range(queue) : p < q

\* The storage is closed only when the live feed has ended, or was never begun, and
\* its consumer with it.  The other tasks that may store (the node's feed, the
\* scheduled jobs, the initial collection) are not in this model.
SinksOutliveFeed == closed => feed \in {"none", "done"} /\ consumer \in {"none", "done"}

\* What was lost in a process that has ended, but for what the consumer was
\* cancelled with: points accepted, and neither stored nor counted.
LostAtEnd ==
    IF main = "ended" /\ \A s \in Stoppers : stop[s] = "no" \/ Over(s)
    THEN Storage!Accepted \ (Storage!Written \cup evicted \cup cut)
    ELSE {}

\* However many signals came, if each stop() began while main() awaited a live feed,
\* or once the storage was being closed, the process ends with every point accepted
\* stored or counted, except the batch the consumer was cancelled with, unless a
\* flush failed meanwhile.
OrderlyStopKeepsAll == ~hasty /\ ~failed => LostAtEnd = {}

\* The same of every stop(): not so of one that began during the initial collection,
\* or between the end of the feed and main()'s stop(), and is cut off with its flush.
StopKeepsAll == ~failed => LostAtEnd = {}

\* A signal ends the process.
ShutdownEnds == \A s \in Signals : stop[s] # "no" ~> main = "ended"
=============================================================================
