------------------------------ MODULE RawSpool ------------------------------
(***************************************************************************)
(* collectors/spool.py: RawSpool, the archive of raw websocket frames.     *)
(*                                                                         *)
(* The socket loop puts frames in a bounded queue; one writer task takes   *)
(* them in batches, splits a batch where the hour changes, and appends     *)
(* each chunk to the file of its hour on an executor thread.  Leaving an   *)
(* hour closes its file and mirrors it to the object store.  Code between  *)
(* two awaits is one atomic step; the await of the executor is where other *)
(* tasks run.                                                              *)
(*                                                                         *)
(* Frames are numbered in the order they are offered.  The hour of a frame *)
(* is that of the wall clock, which may be stepped either way.  The text   *)
(* of a frame is one line, in two pieces, of which the second has the end  *)
(* of the line: a write that fails, a cancelled close() or a kill may part *)
(* the text anywhere, within a line too.                                   *)
(***************************************************************************)
EXTENDS Integers, Sequences, FiniteSets, Functions

CONSTANTS
    Hours,         \* the hours a frame may arrive in
    NoHour,        \* _current_hour_key while no file is open
    QueueSize,     \* spool_queue_maxsize
    BatchLines,    \* max_batch_lines
    OpenMayFail,   \* mkdir or open of a new hour's file may raise
    MayCancel,     \* close() may be cancelled
    MaxFrames,     \* bound: frames offered in a behaviour
    MaxKills       \* bound: times the process is killed and started again

ASSUME SpoolAssumption ==
    /\ NoHour \notin Hours
    /\ QueueSize \in Nat \ {0}
    /\ BatchLines \in Nat \ {0}
    /\ OpenMayFail \in BOOLEAN
    /\ MayCancel \in BOOLEAN
    /\ MaxFrames \in Nat
    /\ MaxKills \in Nat

Frames == [id : 1 .. MaxFrames, hour : Hours]

\* What a file or a buffer is made of: the line of a frame is in two pieces.
Pieces == [frame : Frames, part : {1, 2}]

VARIABLES
    queue,     \* _queue: the frames accepted and not yet taken
    offered,   \* history: the frames enqueued or refused by a full queue
    counted,   \* the frames spool_dropped stands for
    written,   \* the frames written_lines stands for
    closing,   \* _closing
    closed,    \* _closed
    writer,    \* where the writer task stands
    closer,    \* where the task that calls close() stands
    todo,      \* the rest of the batch in _write_batch
    chunk,     \* the chunk on the executor
    residue,   \* the text a failed write left in the buffer of the open file
    current,   \* _current_hour_key
    disk,      \* the text of each hour's file
    mirror,    \* the text the object store holds for each hour
    unsynced,  \* history: hours whose last upload failed or never happened
    kills      \* times the process was killed

queueVars == <<queue, offered>>
fileVars == <<residue, current, disk, mirror, unsynced>>
vars == <<queue, offered, counted, written, closing, closed, writer, closer,
          todo, chunk, residue, current, disk, mirror, unsynced, kills>>

-----------------------------------------------------------------------------
WriterPlaces == {"off", "waiting", "writing", "done", "dead", "cancelled"}
CloserPlaces == {"idle", "joining", "draining", "done", "failed"}

Beginning(f) == [frame |-> f, part |-> 1]
Ending(f) == [frame |-> f, part |-> 2]

\* The lines of the frames s, as enqueue() formats them and _write_batch joins
\* them.
Text(s) ==
    [i \in 1 .. 2 * Len(s) |->
        IF i % 2 = 1 THEN Beginning(s[(i + 1) \div 2]) ELSE Ending(s[i \div 2])]

\* The line that begins at i is all there in the text s.
WholeAt(s, i) ==
    /\ i \in DOMAIN s /\ i + 1 \in DOMAIN s
    /\ s[i] = Beginning(s[i].frame) /\ s[i + 1] = Ending(s[i].frame)

Whole(s) == {s[i].frame : i \in {j \in DOMAIN s : WholeAt(s, j)}}

OnDisk == UNION {Whole(disk[h]) : h \in Hours}

\* Frames the program still holds.
Held == Range(queue) \cup Range(todo) \cup Range(chunk)

\* Frames that are nowhere and that no counter reports.
Lost == offered \ (Held \cup OnDisk \cup counted)

Take(s, n) == SubSeq(s, 1, IF n < Len(s) THEN n ELSE Len(s))
Rest(s, n) == SubSeq(s, n + 1, Len(s))

\* Deliberate mistake: a batch is not split where the hour changes.
RunLengthWhole(items) == Len(items)

\* Length of the first run of equal hours, which is one chunk.
RunLength(items) ==
    CHOOSE n \in 1 .. Len(items) :
        /\ \A i \in 1 .. n : items[i].hour = items[1].hour
        /\ n < Len(items) => items[n + 1].hour # items[1].hour

Extend(d, h, s) == [d EXCEPT ![h] = @ \o s]

-----------------------------------------------------------------------------
\* Files.  A step may write a chunk and then change files: the operators below
\* take the contents d of the files and the buffer r as that write left them.

\* _write_sync: the text a write is to bring to the file, after what the buffer
\* still held.
Data == residue \o Text(chunk)

\* What the buffer may hold after a write that stopped when n pieces were in the
\* file: what it held before it keeps, and of the chunk it has all or nothing.
Kept(n) == {SubSeq(Data, n + 1, m) : m \in {Len(residue), Len(Data)}}

\* _finalize_current: closing flushes what it can of the buffer, and the upload
\* copies the file or fails.
Finalize(d, r) ==
    IF current = NoHour
    THEN disk' = d /\ UNCHANGED <<mirror, unsynced>>
    ELSE \E n \in 0 .. Len(r) :
            /\ disk' = Extend(d, current, Take(r, n))
            /\ \/ /\ mirror' = [mirror EXCEPT ![current] = disk'[current]]
                  /\ unsynced' = unsynced \ {current}
               \/ /\ unsynced' = unsynced \cup {current}
                  /\ UNCHANGED mirror

\* Deliberate mistake: the file left behind is not finalized.
SwitchUnfinalized(h, d, r) ==
    IF h = current
    THEN disk' = d /\ residue' = r /\ UNCHANGED <<current, mirror, unsynced>>
    ELSE disk' = d /\ residue' = <<>> /\ current' = h /\ UNCHANGED <<mirror, unsynced>>

\* _handle_for: change files if the hour is not the current one.  The file of
\* an hour is opened for appending, whatever it already holds.
Switch(h, d, r) ==
    IF h = current
    THEN disk' = d /\ residue' = r /\ UNCHANGED <<current, mirror, unsynced>>
    ELSE Finalize(d, r) /\ residue' = <<>> /\ current' = h

\* The same when opening the new file raises: the old one is closed already.
SwitchFails(h, d, r) ==
    /\ OpenMayFail
    /\ h # current
    /\ Finalize(d, r)
    /\ residue' = <<>>
    /\ current' = NoHour

\* The end of close(): finalize and mark closed.
FinishClose(d, r) ==
    /\ Finalize(d, r)
    /\ residue' = <<>>
    /\ current' = NoHour
    /\ closed' = TRUE
    /\ closer' = "done"

-----------------------------------------------------------------------------
\* _write_batch, from one suspension to the next.  It is run by the writer or, if
\* none was started, by close().

\* Hand the next chunk to the executor.
BeginChunk(items, d, r) ==
    /\ Switch(items[1].hour, d, r)
    /\ chunk' = Take(items, RunLength(items))
    /\ todo' = Rest(items, RunLength(items))

\* The file cannot be opened: the error leaves _write_batch with the batch, and
\* ends the writer or the close() that was draining.
AbandonBatch(items, d, r) ==
    /\ SwitchFails(items[1].hour, d, r)
    /\ chunk' = <<>>
    /\ todo' = <<>>
    /\ IF writer = "off"
       THEN closer' = "failed" /\ UNCHANGED writer
       ELSE writer' = "dead" /\ UNCHANGED closer
    /\ UNCHANGED closed

\* The batch is written: back to the head of _writer_loop, or on with close().
EndBatch(d, r) ==
    /\ chunk' = <<>>
    /\ todo' = <<>>
    /\ IF writer = "off"
       THEN FinishClose(d, r) /\ UNCHANGED writer
       ELSE /\ disk' = d
            /\ residue' = r
            /\ writer' = IF closing /\ queue = <<>> THEN "done" ELSE "waiting"
            /\ UNCHANGED <<current, mirror, unsynced, closed, closer>>

\* Go on with the rest of the batch.
NextChunk(items, d, r) ==
    IF items = <<>>
    THEN EndBatch(d, r)
    ELSE \/ BeginChunk(items, d, r) /\ UNCHANGED <<writer, closer, closed>>
         \/ AbandonBatch(items, d, r)

-----------------------------------------------------------------------------
Init ==
    /\ queue = <<>>
    /\ offered = {}
    /\ counted = {}
    /\ written = {}
    /\ closing = FALSE
    /\ closed = FALSE
    /\ writer = "off"
    /\ closer = "idle"
    /\ todo = <<>>
    /\ chunk = <<>>
    /\ residue = <<>>
    /\ current = NoHour
    /\ disk = [h \in Hours |-> <<>>]
    /\ mirror = [h \in Hours |-> <<>>]
    /\ unsynced = {}
    /\ kills = 0

\* Deliberate mistake: the queue has no limit.
EnqueueUnbounded(h) ==
    LET frame == [id |-> Cardinality(offered) + 1, hour |-> h]
    IN  /\ ~closing
        /\ frame.id <= MaxFrames
        /\ offered' = offered \cup {frame}
        /\ queue' = Append(queue, frame)
        /\ UNCHANGED <<counted, written, closing, closed, writer, closer, todo,
                       chunk, fileVars, kills>>

\* enqueue(): a full queue refuses the frame and counts it.  Once close() has
\* begun every frame is refused, and nothing changes.
Enqueue(h) ==
    LET frame == [id |-> Cardinality(offered) + 1, hour |-> h]
    IN  /\ ~closing
        /\ frame.id <= MaxFrames
        /\ offered' = offered \cup {frame}
        /\ IF Len(queue) < QueueSize
           THEN queue' = Append(queue, frame) /\ UNCHANGED counted
           ELSE counted' = counted \cup {frame} /\ UNCHANGED queue
        /\ UNCHANGED <<written, closing, closed, writer, closer, todo, chunk,
                       fileVars, kills>>

\* start(): called once, before close().
Start ==
    /\ writer = "off"
    /\ ~closing
    /\ writer' = "waiting"
    /\ UNCHANGED <<queueVars, counted, written, closing, closed, closer, todo,
                   chunk, fileVars, kills>>

\* _writer_loop: the get() returns, and a batch goes to _write_batch.
WriterTakes ==
    LET items == Take(queue, BatchLines + 1)
    IN  /\ writer = "waiting"
        /\ queue # <<>>
        /\ queue' = Rest(queue, BatchLines + 1)
        /\ \/ /\ BeginChunk(items, disk, residue)
              /\ writer' = "writing"
              /\ UNCHANGED <<closer, closed>>
           \/ AbandonBatch(items, disk, residue)
        /\ UNCHANGED <<offered, counted, written, closing, kills>>

\* Deliberate mistake: the writer ends on close() with frames still queued.
WriterExitsEarly ==
    /\ writer = "waiting"
    /\ closing
    /\ writer' = "done"
    /\ UNCHANGED <<queueVars, counted, written, closing, closed, closer, todo,
                   chunk, fileVars, kills>>

\* Deliberate mistake: a writer whose get() times out waits again.
WriterExitsNever == FALSE

\* _writer_loop: the get() times out, and close() has begun.
WriterExits ==
    /\ writer = "waiting"
    /\ queue = <<>>
    /\ closing
    /\ writer' = "done"
    /\ UNCHANGED <<queueVars, counted, written, closing, closed, closer, todo,
                   chunk, fileVars, kills>>

\* The executor wrote and flushed the chunk, after what the buffer still held.
WriteDone ==
    /\ chunk # <<>>
    /\ written' = written \cup Range(chunk)
    /\ NextChunk(todo, Extend(disk, current, Data), <<>>)
    /\ UNCHANGED <<queueVars, counted, closing, kills>>

\* Deliberate mistake: the chunk is counted as written before it is.
WriteFailsCounted ==
    /\ chunk # <<>>
    /\ written' = written \cup Range(chunk)
    /\ counted' = counted \cup Range(chunk)
    /\ \E n \in 0 .. Len(Data) : \E r \in Kept(n) :
          NextChunk(todo, Extend(disk, current, Take(Data, n)), r)
    /\ UNCHANGED <<queueVars, closing, kills>>

\* Deliberate mistake: a failed chunk is logged and not counted.
WriteFailsUncounted ==
    /\ chunk # <<>>
    /\ \E n \in 0 .. Len(Data) : \E r \in Kept(n) :
          NextChunk(todo, Extend(disk, current, Take(Data, n)), r)
    /\ UNCHANGED <<queueVars, counted, written, closing, kills>>

\* Deliberate mistake: a failed batch goes back to the queue.
WriteFailsRequeued ==
    /\ chunk # <<>>
    /\ writer = "writing"
    /\ writer' = "waiting"
    /\ queue' = chunk \o todo \o queue
    /\ chunk' = <<>>
    /\ todo' = <<>>
    /\ residue' = <<>>
    /\ UNCHANGED <<offered, counted, written, closing, closed, closer, current,
                   disk, mirror, unsynced, kills>>

\* The write or the flush raised: a part of the text may be in the file, cut
\* within a line perhaps, and the rest may stay in the buffer and reach the file
\* with a later write.
WriteFails ==
    /\ chunk # <<>>
    /\ counted' = counted \cup Range(chunk)
    /\ \E n \in 0 .. Len(Data) : \E r \in Kept(n) :
          NextChunk(todo, Extend(disk, current, Take(Data, n)), r)
    /\ UNCHANGED <<queueVars, written, closing, kills>>

\* close() with a writer: signal it and await it.
CloseAndJoin ==
    /\ closer = "idle"
    /\ writer # "off"
    /\ closing' = TRUE
    /\ closer' = "joining"
    /\ UNCHANGED <<queueVars, counted, written, closed, writer, todo, chunk,
                   fileVars, kills>>

\* close() without a writer: one batch is taken and written here.
CloseUnstarted ==
    LET items == Take(queue, BatchLines)
    IN  /\ closer = "idle"
        /\ writer = "off"
        /\ closing' = TRUE
        /\ queue' = Rest(queue, BatchLines)
        /\ \/ items = <<>> /\ FinishClose(disk, residue) /\ UNCHANGED <<todo, chunk>>
           \/ /\ items # <<>>
              /\ \/ /\ BeginChunk(items, disk, residue)
                    /\ closer' = "draining"
                    /\ UNCHANGED closed
                 \/ AbandonBatch(items, disk, residue)
        /\ UNCHANGED <<offered, counted, written, writer, kills>>

\* The writer has ended, or was cancelled: finalize.
CloseJoined ==
    /\ closer = "joining"
    /\ writer \in {"done", "cancelled"}
    /\ FinishClose(disk, residue)
    /\ UNCHANGED <<queueVars, counted, written, closing, writer, todo, chunk, kills>>

\* The writer died: awaiting it raises, before anything is finalized.
CloseRaises ==
    /\ closer = "joining"
    /\ writer = "dead"
    /\ closer' = "failed"
    /\ UNCHANGED <<queueVars, counted, written, closing, closed, writer, todo,
                   chunk, fileVars, kills>>

\* The batch is cut off, wherever in the text the executor stands.
CutBatch ==
    /\ \E n \in 0 .. Len(Data) : \E r \in Kept(n) :
          /\ disk' = IF Data = <<>> THEN disk
                     ELSE Extend(disk, current, Take(Data, n))
          /\ residue' = r
    /\ chunk' = <<>>
    /\ todo' = <<>>

\* close() is cancelled while it awaits the writer: that cancels the writer, and
\* close() swallows the CancelledError and goes on.
CancelJoin ==
    /\ MayCancel
    /\ closer = "joining"
    /\ writer \in {"waiting", "writing"}
    /\ writer' = "cancelled"
    /\ CutBatch
    /\ UNCHANGED <<queueVars, counted, written, closing, closed, closer, current,
                   mirror, unsynced, kills>>

\* close() is cancelled while it writes a batch itself.
CancelDrain ==
    /\ MayCancel
    /\ closer = "draining"
    /\ closer' = "failed"
    /\ CutBatch
    /\ UNCHANGED <<queueVars, counted, written, closing, closed, writer, current,
                   mirror, unsynced, kills>>

\* The process is killed and started again, with a new RawSpool on the same
\* directory, which appends to the files whatever their last line is.  Nothing
\* mirrors the file it had open.
KillAndRestart ==
    /\ kills < MaxKills
    /\ kills' = kills + 1
    /\ \E n \in 0 .. Len(Data) :
          disk' = IF current = NoHour THEN disk
                  ELSE Extend(disk, current, Take(Data, n))
    /\ unsynced' = unsynced \cup ({current} \ {NoHour})
    /\ queue' = <<>>
    /\ closing' = FALSE
    /\ closed' = FALSE
    /\ writer' = "off"
    /\ closer' = "idle"
    /\ todo' = <<>>
    /\ chunk' = <<>>
    /\ residue' = <<>>
    /\ current' = NoHour
    /\ UNCHANGED <<offered, counted, written, mirror>>

Next ==
    \/ \E h \in Hours : Enqueue(h)
    \/ Start \/ WriterTakes \/ WriterExits
    \/ WriteDone \/ WriteFails
    \/ CloseAndJoin \/ CloseUnstarted \/ CloseJoined \/ CloseRaises
    \/ CancelJoin \/ CancelDrain
    \/ KillAndRestart

Spec == Init /\ [][Next]_vars

\* The event loop runs the tasks that can run, and the executor returns.
TaskFairness ==
    /\ WF_vars(WriterTakes)
    /\ WF_vars(WriterExits)
    /\ WF_vars(WriteDone \/ WriteFails)
    /\ WF_vars(CloseJoined)
    /\ WF_vars(CloseRaises)

FairSpec == Spec /\ TaskFairness

-----------------------------------------------------------------------------
\* Type invariant, with the bound of the queue.
TypeOK ==
    /\ queue \in Seq(Frames) /\ Len(queue) <= QueueSize
    /\ offered \subseteq Frames
    /\ counted \subseteq Frames
    /\ written \subseteq Frames
    /\ closing \in BOOLEAN
    /\ closed \in BOOLEAN
    /\ writer \in WriterPlaces
    /\ closer \in CloserPlaces
    /\ todo \in Seq(Frames)
    /\ chunk \in Seq(Frames)
    /\ residue \in Seq(Pieces)
    /\ current \in Hours \cup {NoHour}
    /\ disk \in [Hours -> Seq(Pieces)]
    /\ mirror \in [Hours -> Seq(Pieces)]
    /\ unsynced \subseteq Hours
    /\ kills \in 0 .. MaxKills

\* The text p was offered before the text q.
Before(p, q) ==
    p.frame.id < q.frame.id \/ (p.frame = q.frame /\ p.part < q.part)

\* The text s is of frames of the hour h, in the order they were offered and each
\* at most once, and the end of a line comes right after its beginning.
Faithful(s, h) ==
    \A i \in DOMAIN s :
        /\ s[i].frame.hour = h
        /\ \A j \in DOMAIN s : i < j => Before(s[i], s[j])
        /\ s[i].part = 2 => WholeAt(s, i - 1)

\* The file of an hour holds text of that hour only, in the order it was offered
\* and none of it twice: through hours that alternate, writes that stop anywhere,
\* text that reaches the file with a later write, and restarts.  The end of a
\* line is there only with its beginning, so a line of the file is the beginnings
\* of frames cut off, mostly none, and then one whole frame.
ArchiveFaithful == \A h \in Hours : Faithful(disk[h], h)

\* What written_lines counts is whole in the file of its hour, and nothing is
\* counted both as written and as dropped.  The line is the frame's own, but for
\* the text of a frame before it that was cut off: such a frame was counted as
\* dropped, or lost with the task that held it.
CountersHonest ==
    /\ written \cap counted = {}
    /\ \A f \in written : \E i \in DOMAIN disk[f.hour] :
          /\ disk[f.hour][i].frame = f /\ WholeAt(disk[f.hour], i)
          /\ \/ i = 1
             \/ disk[f.hour][i - 1].part = 2
             \/ disk[f.hour][i - 1].frame \in counted \cup Lost

\* A reader of the files, line by line, finds what written_lines counts.  It does
\* not hold: the line after one cut off has both texts.
WrittenReadable ==
    \A f \in written : \E i \in DOMAIN disk[f.hour] :
        /\ disk[f.hour][i].frame = f /\ WholeAt(disk[f.hour], i)
        /\ i = 1 \/ disk[f.hour][i - 1].part = 2

\* The object store has the whole file of every hour that was left, unless its
\* last upload failed or the process was killed with the file open.
MirrorComplete == \A h \in Hours \ (unsynced \cup {current}) : mirror[h] = disk[h]

\* A close() that let the writer end by itself leaves nothing queued, nothing
\* half-written and no file open.
CloseDrains ==
    closed /\ writer = "done" => queue = <<>> /\ current = NoHour /\ Held = {}

\* Lossless but for what is counted: once the writer was started, a frame is
\* queued, in the batch being written, in its file, or among those spool_dropped
\* reports.
NoUncountedLoss == writer # "off" => Lost = {}

\* Frames get lost uncounted only with the end of the task that holds them: the
\* writer's, that of a close() draining in its place, or the process's.
LossEndsWriter ==
    [][Lost' \subseteq Lost \/ writer' \in {"off", "dead", "cancelled"}]_vars

\* close() ends, even if every write fails.
CloseCompletes == closer = "joining" ~> closer # "joining"

\* A writer that runs gets to every queued frame.
EventuallySettled ==
    \A f \in Frames :
        (writer \in {"waiting", "writing"} /\ f \in Range(queue))
            ~> (f \notin Held \/ writer \notin {"waiting", "writing"})
=============================================================================
