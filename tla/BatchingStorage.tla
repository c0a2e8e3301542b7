-------------------------- MODULE BatchingStorage --------------------------
(***************************************************************************)
(* storage/database.py: BatchingStorage buffers points in front of a       *)
(* MultiStorage and writes them as batches.                                *)
(*                                                                         *)
(* All tasks run on one asyncio event loop, so the code between two awaits *)
(* is one atomic step.  The bodies under self._lock never await: the lock  *)
(* is never held across a suspension, never contended, and not modelled.   *)
(* What is interleaved is the await of inner.store_data_points: while the  *)
(* batch of one task is out, every other task may append, flush a batch of *)
(* its own, or close the storage.                                          *)
(*                                                                         *)
(* Points are numbered in the order they were accepted.                    *)
(***************************************************************************)
EXTENDS Integers, Sequences, FiniteSets, Functions

CONSTANTS
    Writers,         \* tasks that call store_data_point(s)
    Readers,         \* tasks that call get_data
    Closers,         \* tasks that call close
    Loop,            \* the periodic flush task
    Backends,        \* the storages of the inner MultiStorage
    AtomicBackends,  \* those that store a batch in one transaction
    LossyAck,        \* those that may fail after the write took effect
    Cancellable,     \* tasks the program may cancel while they flush
    BatchSize,       \* batch_size
    MaxBuffer,       \* max_buffer
    MaxBatch,        \* bound: points of one store_data_points call
    MaxPoints        \* bound: points accepted in a behaviour

ASSUME SizesAssumption ==
    /\ BatchSize \in Nat \ {0}
    /\ MaxBuffer \in Nat
    /\ MaxBatch \in Nat
    /\ MaxPoints \in Nat

ASSUME TasksAssumption ==
    /\ Writers \cap Readers = {}
    /\ Writers \cap Closers = {}
    /\ Readers \cap Closers = {}
    /\ Loop \notin Writers \cup Readers \cup Closers
    /\ Cancellable \subseteq Writers \cup Readers \cup Closers
    /\ AtomicBackends \subseteq Backends
    /\ LossyAck \subseteq Backends

Tasks == Writers \cup Readers \cup Closers \cup {Loop}

VARIABLES
    buffer,    \* _buffer: the points waiting, the front first
    accepted,  \* number of points taken in so far
    dropped,   \* dropped_count
    evicted,   \* history: the points that count stands for
    written,   \* what each backend has stored
    closed,    \* _closed, and _stop, which only close() sets, beside it
    pc,        \* where each task stands
    batch,     \* the batch each task has out at the inner store
    overlap,   \* history: two batches were once out at the same time
    failed     \* history: a batch came back unstored after close() began

vars == <<buffer, accepted, dropped, evicted, written, closed, pc, batch,
          overlap, failed>>

-----------------------------------------------------------------------------
\* Where points are.

Points == 1 .. MaxPoints
Accepted == 1 .. accepted
Buffered == Range(buffer)
InFlight == UNION {Range(batch[t]) : t \in Tasks}
Pending == Buffered \cup InFlight
Written == UNION {written[b] : b \in Backends}

\* Every place where an accepted point is either held or reported.
Traceable == Pending \cup Written \cup evicted

\* Accepted points that are nowhere and that no counter reports.
Vanished == Accepted \ Traceable

\* Where a task may stand: between calls, or at one of their awaits.
Places == {"off", "idle", "started", "waiting", "writing", "joining", "closing",
           "done", "cancelled"}

\* Tasks suspended inside flush().
Flushing == {t \in Tasks : pc[t] = "writing"}

-----------------------------------------------------------------------------
\* The buffer cap: the oldest end is popped until the deque fits.

Over(b) == IF Len(b) > MaxBuffer THEN Len(b) - MaxBuffer ELSE 0
Capped(b) == SubSeq(b, Over(b) + 1, Len(b))
Evictees(b) == {b[i] : i \in 1 .. Over(b)}

\* Deliberate mistake: the count moves although nothing is over the cap.
EnforceCapUnclamped(b) ==
    /\ dropped' = dropped + (Len(b) - MaxBuffer)
    /\ evicted' = evicted \cup Evictees(b)

EnforceCap(b) ==
    /\ dropped' = dropped + Over(b)
    /\ evicted' = evicted \cup Evictees(b)

\* Deliberate mistake: the periodic task does not look at the stop event.
AfterFlushForever(t) ==
    CASE t \in Writers \cup Readers -> "idle"
      [] t \in Closers              -> "closing"
      [] t = Loop                   -> "waiting"

\* Where a task resumes when its flush() returns.
AfterFlush(t) ==
    CASE t \in Writers \cup Readers -> "idle"
      [] t \in Closers              -> "closing"
      [] t = Loop                   -> IF closed THEN "done" ELSE "waiting"

\* Hand the points b to the inner store; flush() returns at once if there are
\* none.
HandOver(t, b) ==
    /\ batch' = [batch EXCEPT ![t] = b]
    /\ pc' = [pc EXCEPT ![t] = IF b = <<>> THEN AfterFlush(t) ELSE "writing"]
    /\ overlap' = (overlap \/ (b # <<>> /\ Flushing \ {t} # {}))

\* Deliberate mistake: the buffer is copied and not cleared.
BeginFlushCopy(t, b) == buffer' = b /\ HandOver(t, b)

\* flush() up to its await, from the buffer contents b, which it takes whole.
BeginFlush(t, b) == buffer' = <<>> /\ HandOver(t, b)

-----------------------------------------------------------------------------
\* The inner MultiStorage.

\* What one backend may have done with the points S: it stores all or none of
\* them (one transaction) or any part of them (one call per point), and reports
\* what it stored, or less.
BackendOutcomes(b, S) ==
    {o \in [stored : SUBSET S, reported : SUBSET S] :
        /\ o.reported \subseteq o.stored
        /\ b \notin LossyAck => o.reported = o.stored
        /\ b \in AtomicBackends => {o.stored, o.reported} \subseteq {{}, S}}

InnerOutcomes(S) ==
    {o \in [Backends -> UNION {BackendOutcomes(b, S) : b \in Backends}] :
        \A b \in Backends : o[b] \in BackendOutcomes(b, S)}

RecordWrites(o) ==
    written' = [b \in Backends |-> written[b] \cup o[b].stored]

\* Deliberate mistake: a count of 0 is taken for success.
NothingReportedUnseen(o) == FALSE

\* Deliberate mistake: the smallest count decides, not the largest.
NothingReportedByOne(o) == \E b \in Backends : o[b].reported = {}

\* max(counts) of the gathered results is 0: the flush has failed.
NothingReported(o) == \A b \in Backends : o[b].reported = {}

-----------------------------------------------------------------------------
Init ==
    /\ buffer = <<>>
    /\ accepted = 0
    /\ dropped = 0
    /\ evicted = {}
    /\ written = [b \in Backends |-> {}]
    /\ closed = FALSE
    /\ pc = [t \in Tasks |-> IF t = Loop THEN "off" ELSE "idle"]
    /\ batch = [t \in Tasks |-> <<>>]
    /\ overlap = FALSE
    /\ failed = FALSE

\* start(): one periodic task, and none on a closed storage.
Start ==
    /\ pc[Loop] = "off"
    /\ ~closed
    /\ pc' = [pc EXCEPT ![Loop] = "started"]
    /\ UNCHANGED <<buffer, accepted, dropped, evicted, written, closed, batch,
                   overlap, failed>>

\* The new task runs for the first time; it may find the storage closed.
LoopBegins ==
    /\ pc[Loop] = "started"
    /\ pc' = [pc EXCEPT ![Loop] = IF closed THEN "done" ELSE "waiting"]
    /\ UNCHANGED <<buffer, accepted, dropped, evicted, written, closed, batch,
                   overlap, failed>>

\* Append k points, enforce the cap, and flush inline if the batch is full.
AppendPoints(w, k) ==
    LET extended == buffer \o [i \in 1 .. k |-> accepted + i]
        kept == Capped(extended)
    IN  /\ pc[w] = "idle"
        /\ accepted + k <= MaxPoints
        /\ accepted' = accepted + k
        /\ EnforceCap(extended)
        /\ \/ Len(kept) >= BatchSize /\ BeginFlush(w, kept)
           \/ /\ Len(kept) < BatchSize
              /\ buffer' = kept
              /\ UNCHANGED <<pc, batch, overlap>>
        /\ UNCHANGED <<written, closed, failed>>

\* A closed storage answers False or 0 and changes nothing.
Put(w, k) == ~closed /\ AppendPoints(w, k)

StoreDataPoint(w) == Put(w, 1)

StoreDataPoints(w) == \E k \in 0 .. MaxBatch : Put(w, k)

\* _flush_loop: the timeout, or the stop event, ends the wait; flush either way.
LoopWake ==
    /\ pc[Loop] = "waiting"
    /\ BeginFlush(Loop, buffer)
    /\ UNCHANGED <<accepted, dropped, evicted, written, closed, failed>>

\* get_data() flushes before it reads; the read itself changes nothing.
GetData(r) ==
    /\ pc[r] = "idle"
    /\ BeginFlush(r, buffer)
    /\ UNCHANGED <<accepted, dropped, evicted, written, closed, failed>>

\* The await of inner.store_data_points ends, and flush() with it.
InnerReturns(t, refused) ==
    /\ pc[t] = "writing"
    /\ \E o \in InnerOutcomes(Range(batch[t])) :
        /\ NothingReported(o) = refused
        /\ RecordWrites(o)
    /\ batch' = [batch EXCEPT ![t] = <<>>]
    /\ pc' = [pc EXCEPT ![t] = AfterFlush(t)]
    /\ UNCHANGED <<accepted, closed, overlap>>

\* At least one point was reported stored: flush() is done with the batch.
FlushStored(t) ==
    /\ InnerReturns(t, FALSE)
    /\ UNCHANGED <<buffer, dropped, evicted, failed>>

\* The buffer becomes b, up to the cap.
Refill(b) ==
    /\ buffer' = Capped(b)
    /\ EnforceCap(b)
    /\ failed' = (failed \/ closed)

\* Deliberate mistake: the batch is put back and the cap not enforced.
FlushFailedUncapped(t) ==
    /\ InnerReturns(t, TRUE)
    /\ buffer' = batch[t] \o buffer
    /\ failed' = (failed \/ closed)
    /\ UNCHANGED <<dropped, evicted>>

\* Deliberate mistake: the batch is put back behind the newer points.
FlushFailedAtBack(t) == InnerReturns(t, TRUE) /\ Refill(buffer \o batch[t])

\* Deliberate mistake: the batch replaces what was appended meanwhile.
FlushFailedOverwrite(t) == InnerReturns(t, TRUE) /\ Refill(batch[t])

\* Deliberate mistake: the failure escapes and ends the periodic task.
FlushFailedEscapes(t) ==
    /\ pc[t] = "writing"
    /\ batch' = [batch EXCEPT ![t] = <<>>]
    /\ pc' = [pc EXCEPT ![t] = IF t = Loop THEN "done" ELSE AfterFlush(t)]
    /\ Refill(batch[t] \o buffer)
    /\ UNCHANGED <<accepted, written, closed, overlap>>

\* The inner store raised, or reported 0: the batch goes back to the front.
FlushFailed(t) == InnerReturns(t, TRUE) /\ Refill(batch[t] \o buffer)

\* Every call of close() after the first returns at once.
CloseAgain(c) ==
    /\ pc[c] = "idle"
    /\ closed
    /\ pc' = [pc EXCEPT ![c] = "done"]
    /\ UNCHANGED <<buffer, accepted, dropped, evicted, written, closed, batch,
                   overlap, failed>>

\* Deliberate mistake: close() signals the periodic task and does not wait.
CloseAndJoinLate(c) ==
    /\ pc[c] = "idle"
    /\ ~closed
    /\ pc[Loop] # "off"
    /\ closed' = TRUE
    /\ BeginFlush(c, buffer)
    /\ UNCHANGED <<accepted, dropped, evicted, written, failed>>

\* The first call tells the periodic task to stop and awaits it.
CloseAndJoin(c) ==
    /\ pc[c] = "idle"
    /\ ~closed
    /\ pc[Loop] # "off"
    /\ closed' = TRUE
    /\ pc' = [pc EXCEPT ![c] = "joining"]
    /\ UNCHANGED <<buffer, accepted, dropped, evicted, written, batch, overlap,
                   failed>>

\* There is no periodic task to await: close() goes on to the final flush.
CloseUnstarted(c) ==
    /\ pc[c] = "idle"
    /\ ~closed
    /\ pc[Loop] = "off"
    /\ closed' = TRUE
    /\ BeginFlush(c, buffer)
    /\ UNCHANGED <<accepted, dropped, evicted, written, failed>>

\* Deliberate mistake: nothing is flushed once the periodic task has ended.
CloseJoinedUnflushed(c) ==
    /\ pc[c] = "joining"
    /\ pc[Loop] = "done"
    /\ pc' = [pc EXCEPT ![c] = "closing"]
    /\ UNCHANGED <<buffer, accepted, dropped, evicted, written, closed, batch,
                   overlap, failed>>

\* The periodic task has ended: the final flush.
CloseJoined(c) ==
    /\ pc[c] = "joining"
    /\ pc[Loop] = "done"
    /\ BeginFlush(c, buffer)
    /\ UNCHANGED <<accepted, dropped, evicted, written, closed, failed>>

\* await inner.close() returns, and close() with it.
CloseInner(c) ==
    /\ pc[c] = "closing"
    /\ pc' = [pc EXCEPT ![c] = "done"]
    /\ UNCHANGED <<buffer, accepted, dropped, evicted, written, closed, batch,
                   overlap, failed>>

\* The inner await of task t is cancelled.  The backends may have stored any
\* part of its batch by then, or finish doing so later.
DropBatch(t, then) ==
    /\ \E o \in InnerOutcomes(Range(batch[t])) : RecordWrites(o)
    /\ batch' = [batch EXCEPT ![t] = <<>>]
    /\ pc' = [pc EXCEPT ![t] = then]
    /\ UNCHANGED <<buffer, accepted, dropped, evicted, closed, overlap, failed>>

\* CancelledError is no Exception: it leaves flush() past the re-queueing.
CancelFlush(t) ==
    /\ t \in Cancellable
    /\ pc[t] = "writing"
    /\ DropBatch(t, "cancelled")

\* A close() cancelled while it awaits the periodic task cancels that task,
\* swallows the CancelledError and goes on.
CancelJoin(c) ==
    /\ c \in Cancellable
    /\ pc[c] = "joining"
    /\ pc[Loop] \in {"started", "waiting", "writing"}
    /\ DropBatch(Loop, "done")

Next ==
    \/ Start
    \/ LoopBegins
    \/ LoopWake
    \/ \E w \in Writers : StoreDataPoint(w) \/ StoreDataPoints(w)
    \/ \E r \in Readers : GetData(r)
    \/ \E t \in Tasks : FlushStored(t) \/ FlushFailed(t) \/ CancelFlush(t)
    \/ \E c \in Closers :
        \/ CloseAgain(c) \/ CloseAndJoin(c) \/ CloseUnstarted(c)
        \/ CloseJoined(c) \/ CloseInner(c) \/ CancelJoin(c)

Spec == Init /\ [][Next]_vars

\* The event loop runs every task that can run, and every call of the inner
\* store returns.
TaskFairness ==
    /\ WF_vars(Start)
    /\ WF_vars(LoopBegins)
    /\ WF_vars(LoopWake)
    /\ \A t \in Tasks : WF_vars(FlushStored(t) \/ FlushFailed(t))
    /\ \A c \in Closers : WF_vars(CloseJoined(c)) /\ WF_vars(CloseInner(c))

FairSpec == Spec /\ TaskFairness

\* The backends do not fail for ever.
RecoveringSpec == FairSpec /\ \A t \in Tasks : SF_vars(FlushStored(t))

-----------------------------------------------------------------------------
\* Type invariant: the state each attribute of the wrapper may hold.
TypeOK ==
    /\ buffer \in Seq(Points)
    /\ accepted \in 0 .. MaxPoints
    /\ dropped \in Nat
    /\ evicted \subseteq Points
    /\ written \in [Backends -> SUBSET Points]
    /\ closed \in BOOLEAN
    /\ pc \in [Tasks -> Places]
    /\ batch \in [Tasks -> Seq(Points)]
    /\ overlap \in BOOLEAN
    /\ failed \in BOOLEAN

\* The cap bounds the buffer after every operation, re-queueing included, and
\* hence every batch: memory is at most one full buffer per task plus one.
BufferBounded ==
    /\ Len(buffer) <= MaxBuffer
    /\ \A t \in Tasks : Len(batch[t]) <= MaxBuffer

\* A task holds a batch exactly while it is suspended inside flush().
BatchPlace == \A t \in Tasks : pc[t] = "writing" <=> batch[t] # <<>>

\* A pending point is in one place only: once in the buffer or in one task's
\* batch, and not among the evicted.  Two copies would be written twice.
SinglePlacement ==
    /\ IsInjective(buffer)
    /\ \A t \in Tasks :
        /\ IsInjective(batch[t])
        /\ Range(batch[t]) \cap Buffered = {}
        /\ \A u \in Tasks \ {t} : Range(batch[t]) \cap Range(batch[u]) = {}
    /\ Pending \cap evicted = {}

\* Nothing disappears silently: each accepted point is pending, stored by some
\* backend, or one of those dropped_count reports.
NoSilentLoss == Vanished = {}

\* Unless two batches were out at the same time, the points are held in the
\* order they were accepted: the batch in flight, then the buffer.
SoloOrder ==
    ~overlap =>
        /\ \A i, j \in DOMAIN buffer : i < j => buffer[i] < buffer[j]
        /\ \A t \in Tasks :
            /\ \A i, j \in DOMAIN batch[t] : i < j => batch[t][i] < batch[t][j]
            /\ \A p \in Range(batch[t]), q \in Buffered : p < q

\* The inner store is not closed under the periodic task: by the time close()
\* reaches inner.close() that task has ended and has no batch out.
CloseJoinsLoop ==
    \A c \in Closers : pc[c] = "closing" =>
        /\ pc[Loop] \in {"off", "done"}
        /\ batch[Loop] = <<>>

\* If no flush failed since close() began, the buffer is empty once the close
\* that did the work has returned and no batch is out.
CloseDrains ==
    (closed /\ ~failed /\ Flushing = {} /\ \A c \in Closers : pc[c] \in {"idle", "done"})
        => buffer = <<>>

\* A point leaves without trace only from a batch in flight, when that batch's
\* own write ends: no step loses a point that is in the buffer.
VanishOnlyInFlight == [][Vanished' \ Vanished \subseteq InFlight]_vars

\* A point the cap drops is older than every point that stays in the buffer.
EvictsOldest ==
    [][\A p \in evicted' \ evicted : \A q \in Buffered' : p < q]_vars

\* A close() that found the storage open ends, whatever the backends do.
CloseCompletes ==
    \A c \in Closers :
        pc[c] \in {"joining", "closing"} ~> pc[c] \in {"done", "cancelled"}

\* While the storage is open and the backends recover, no accepted point waits
\* for ever: failed batches are retried until a backend takes them.
EventuallySettled ==
    \A p \in Points : p \in Pending ~> (p \notin Pending \/ closed)

\* The wrapper implements the ledger.
Ledger == INSTANCE PointLedger WITH
    Capacity <- MaxBuffer,
    pending <- Pending,
    delivered <- Written,
    shed <- evicted,
    shedCount <- dropped

ImplementsLedger == Ledger!Spec
=============================================================================
