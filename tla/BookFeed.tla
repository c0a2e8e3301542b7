------------------------------ MODULE BookFeed ------------------------------
(***************************************************************************)
(* The two live sources of order-level books: the node's hourly diff       *)
(* files, tailed by collectors/node_feed.py, and the stream of a provider, *)
(* consumed by collectors/quicknode_feed.py.  Both parse with DiffParser   *)
(* and keep an L4Book per coin; a deployment has one of them.              *)
(*                                                                         *)
(* The exchange produces a chain of blocks.  The node appends a line per   *)
(* block (or, without --batch-by-block, per event) in two writes, so that  *)
(* a reader sees partial lines, may crash between them, and starts a new   *)
(* file when the hour turns.  A token of a file is half a line.  The       *)
(* provider sends a snapshot on every subscription and a diff per block,   *)
(* may lose blocks and may break off.                                      *)
(***************************************************************************)
EXTENDS L4Book, DiffParser

CONSTANTS Coins,       \* coins on the chain
          Chains,      \* what the exchange may come to: sequences of [diffs, drift]
          Tracked,     \* the coins the feed was asked for
          Modes,       \* the <<source, strict>> to explore, of "blocks", "events", "quicknode"
          MaxFiles, MaxFaults

NoCoin == ""

Drifts == {"none", "alias", "missing", "nonnumeric", "garbage", "element"}

\* What an exchange announces of one order: it is new once, and last removed.
Follows(d, e) == d.oid = e.oid => d.kind # "remove" /\ e.kind # "new"

Sound(d) ==
    /\ d.coin \in Coins
    /\ d.kind \in {"new", "update", "remove"}
    /\ d.kind = "new" => d.px # BadDecimal /\ d.sz \notin {None, BadDecimal}
    /\ d.kind = "update" => d.new_sz \notin {None, BadDecimal, 0}

ASSUME FeedConstants ==
    /\ Tracked \subseteq Coins /\ NoCoin \notin Coins
    /\ Modes \subseteq {"blocks", "events", "quicknode"} \X BOOLEAN
    /\ MaxFiles \in Nat /\ MaxFaults \in Nat

ASSUME ChainsAssumption ==
    \A c \in Chains :
       /\ IsList(c)
       /\ \A h \in DOMAIN c :
             /\ c[h].drift \in Drifts
             /\ IsList(c[h].diffs)
             /\ \A i \in DOMAIN c[h].diffs : Sound(c[h].diffs[i])
       /\ \A g, h \in DOMAIN c : \A i \in DOMAIN c[g].diffs, j \in DOMAIN c[h].diffs :
             g < h \/ (g = h /\ i < j) => Follows(c[g].diffs[i], c[h].diffs[j])

VARIABLES source,  \* where the documents come from
          chain,   \* the blocks so far: [diffs, drift]
          files,   \* the node's files, each a sequence of [document, ends]
          half,    \* height of the line the node has half written, 0 if none
          written, \* height of the last line the node began: the blocks of
                   \* the chain are sealed when they are first written
          cursor,  \* tail(): [running, file, pos, buffer]
          feed,    \* what the feed made of it: [strict, books, skips, failed] and, as
                   \* history, the last height used, the first of the unbroken run
                   \* of heights up to it, and the coins of which something was
                   \* dropped since their last snapshot
          streams, \* coin -> [up, snapshot, next, streak, silent]: the heights the
                   \* stream sends next, consecutive_failures, and as history the
                   \* failures since something was received
          faults,  \* crashes of the node, breaks of streams, restarts
          first,   \* history: the file tail() began with
          jumped   \* history: tail() never opened some file

vars == <<source, chain, files, half, written, cursor, feed, streams, faults, first, jumped>>

nodeVars == <<files, half, written>>

-----------------------------------------------------------------------------
(* What the chain says: orders rest from their announcement to their       *)
(* removal, in order of arrival, with the last size announced.             *)

OfCoin(diffs, coin) == Only(diffs, LAMBDA d : d.coin = coin)

DiffsOf(coin, from, to) ==
    Fold(LAMBDA ds, block : ds \o OfCoin(block.diffs, coin), <<>>, SubSeq(chain, from, to))

Removed(ds, oid) == \E j \in DOMAIN ds : ds[j].oid = oid /\ ds[j].kind = "remove"

LastSize(ds, order) ==
    LET updates == {j \in DOMAIN ds : ds[j].oid = order.oid /\ ds[j].kind = "update"}
    IN  IF updates = {} THEN order.sz ELSE ds[Max(updates)].new_sz

Resting(ds) ==
    LET alive == Only(ds, LAMBDA d : d.kind = "new" /\ ~Removed(ds, d.oid))
    IN  [k \in DOMAIN alive |-> [oid |-> alive[k].oid, side |-> alive[k].side, px |-> alive[k].px,
                                 sz |-> LastSize(ds, alive[k])]]

\* The document of a block; "element" spoils the last element of its array.
Element(diff, drift) ==
    [keys |-> IF drift \in {"alias", "missing"} THEN (IF drift = "alias" THEN "extra" ELSE "missing")
              ELSE "canonical",
     readable |-> drift # "nonnumeric", variant |-> IF drift = "element" THEN "drifted" ELSE "known",
     diff |-> diff]

Document(height, diffs, drift) ==
    [shape    |-> IF drift = "garbage" THEN "garbage"
                  ELSE IF source = "events" THEN "event"
                  ELSE IF source = "quicknode" /\ drift = "missing" THEN "other"
                  ELSE "block",
     keys     |-> IF source = "quicknode" THEN (IF drift = "alias" THEN "extra" ELSE "canonical")
                  ELSE IF drift \in {"alias", "missing", "nonnumeric"} THEN drift
                  ELSE "canonical",
     height   |-> height,
     elements |-> [i \in DOMAIN diffs |->
                     Element(diffs[i], IF source = "events" THEN drift
                                       ELSE IF drift = "element" /\ i = Len(diffs) THEN drift ELSE "none")]]

-----------------------------------------------------------------------------
(* The core of the feeds *)

NewFeed(strict) ==
    [strict |-> strict, books |-> <<>>, skips |-> 0, failed |-> FALSE,
     since |-> 0, last |-> 0, dropped |-> {}]

BookOf(f, coin) == IF coin \in DOMAIN f.books THEN f.books[coin] ELSE EmptyBook(coin)

Allowed(diffs) == Only(diffs, LAMBDA d : d.coin \in Tracked)

\* Every tracked book sees every block, with no diffs where the coin has none.
BooksAfterBlock(f, item) ==
    LET allowed == Allowed(item.diffs)
    IN  [c \in DOMAIN f.books \cup {allowed[i].coin : i \in DOMAIN allowed} |->
            ApplyBlock(BookOf(f, c), [height |-> item.height, diffs |-> OfCoin(allowed, c)])]

\* A bare event has no height: the book moves and its height does not.
BooksAfterEvent(f, diff) ==
    IF diff.coin \in Tracked THEN With(f.books, diff.coin, Apply(BookOf(f, diff.coin), diff))
    ELSE f.books

Noted(f, height) ==
    [f EXCEPT !.since = IF @ = 0 \/ height # f.last + 1 THEN height ELSE @,
              !.last = height]

ProcessItem(f, item, height) ==
    CASE item.kind = "event" -> [Noted(f, height) EXCEPT !.books = BooksAfterEvent(f, item.diff)]
      [] item.kind = "block" -> [Noted(f, height) EXCEPT !.books = BooksAfterBlock(f, item)]
      [] OTHER               -> f

CountSkips(f, document, coins) ==
    [f EXCEPT !.skips = @ + SkipsOf(document),
              !.dropped = IF SkipsOf(document) = 0 THEN @ ELSE @ \cup coins]

\* One line of a file: a head and a tail of the same block, or no JSON.
Garbage == [shape |-> "garbage", keys |-> "canonical", height |-> 0, elements |-> <<>>]

LineDocument(line) ==
    IF Len(line) = 2 /\ line[1].document = line[2].document THEN line[1].document ELSE Garbage

TakeLine(f, line) ==
    LET document == LineDocument(line)
        item     == ParseLine(document, f.strict)
    IN  IF f.failed THEN f
        ELSE IF item = Raised THEN [f EXCEPT !.failed = TRUE]
        ELSE ProcessItem(CountSkips(f, document, Coins), item, document.height)

\* The complete lines of a text, and the partial one after them.
SplitToken(split, token) ==
    IF token.ends THEN [lines |-> Append(split.lines, Append(split.rest, token)), rest |-> <<>>]
    ELSE [split EXCEPT !.rest = Append(@, token)]

Split(text) == Fold(SplitToken, [lines |-> <<>>, rest |-> <<>>], text)

Lines(text) == Split(text).lines

\* Mutant: a complete line stays in the buffer.
RestKept(text) == text

Rest(text) == Split(text).rest

\* The lines of a file that is left: the partial one gets its newline.
FileLines(text) == IF Rest(text) = <<>> THEN Lines(text) ELSE Append(Lines(text), Rest(text))

Consume(f, lines) == Fold(TakeLine, f, lines)

-----------------------------------------------------------------------------
(* book/replay.py: one book, of the coin of the snapshot or else of the    *)
(* first diff, tolerantly parsed.                                          *)

NewReport(book) ==
    [book |-> book, blocks |-> 0, diffs |-> 0, others |-> 0, skips |-> 0]

Named(report, diffs) ==
    IF report.book.coin = NoCoin /\ diffs # <<>> THEN [report EXCEPT !.book.coin = diffs[1].coin]
    ELSE report

\* Diffs of other coins are counted and left out; of a block, what remains is
\* applied even if it is nothing.
ReportItem(report, item) ==
    LET diffs == CASE item.kind = "event" -> <<item.diff>>
                   [] item.kind = "block" -> item.diffs
                   [] OTHER               -> <<>>
        r     == Named(report, diffs)
        kept  == OfCoin(diffs, r.book.coin)
        book  == IF item.kind = "block"
                 THEN ApplyBlock(r.book, [height |-> item.height, diffs |-> kept])
                 ELSE Fold(Apply, r.book, kept)
    IN  IF item = Nothing THEN report
        ELSE [r EXCEPT !.book = book, !.diffs = @ + Len(kept), !.others = @ + Len(diffs) - Len(kept),
                       !.blocks = @ + IF item.kind = "block" THEN 1 ELSE 0]

ReportLine(report, line) ==
    LET document == LineDocument(line)
    IN  [ReportItem(report, ParseLine(document, FALSE)) EXCEPT !.skips = @ + SkipsOf(document)]

Report(book, lines) == Fold(ReportLine, NewReport(book), lines)

-----------------------------------------------------------------------------
Unconnected == [up |-> FALSE, snapshot |-> 0, next |-> 0, streak |-> 0, silent |-> 0]

-----------------------------------------------------------------------------
Init ==
    /\ \E mode \in Modes : source = mode[1] /\ feed = NewFeed(mode[2])
    /\ chain = <<>>
    /\ files = <<>> /\ half = 0 /\ written = 0
    /\ cursor = [running |-> TRUE, file |-> 0, pos |-> 0, buffer |-> <<>>]
    /\ streams = [c \in Tracked |-> Unconnected]
    /\ faults = 0 /\ first = 0 /\ jumped = FALSE

\* The exchange seals a block.  A node that writes events has one per line.
Sealed ==
    \E c \in Chains :
       /\ Len(chain) < Len(c) /\ SubSeq(c, 1, Len(chain)) = chain
       /\ source = "events" => \A h \in DOMAIN c : Len(c[h].diffs) = 1
       /\ chain' = Append(chain, c[Len(chain) + 1])

Produce ==
    /\ source = "quicknode"
    /\ Sealed
    /\ UNCHANGED <<source, nodeVars, cursor, feed, streams, faults, first, jumped>>

-----------------------------------------------------------------------------
(* The node *)

\* Half the line of the block of a height; the document is the chain's by then.
WriteToken(height, ends) ==
    LET token == [document |-> Document(height, chain'[height].diffs, chain'[height].drift),
                  ends     |-> ends]
    IN  files' = [files EXCEPT ![Len(files)] = Append(@, token)]

\* The hour turns; files are never empty for long but may be seen so.
NewHour ==
    /\ source # "quicknode" /\ half = 0
    /\ Len(files) < MaxFiles
    /\ files' = Append(files, <<>>)
    /\ UNCHANGED <<source, chain, half, written, cursor, feed, streams, faults, first, jumped>>

WriteHead ==
    /\ files # <<>> /\ half = 0
    /\ IF written < Len(chain) THEN UNCHANGED chain ELSE Sealed
    /\ half' = written + 1 /\ written' = written + 1
    /\ WriteToken(written + 1, FALSE)
    /\ UNCHANGED <<source, cursor, feed, streams, faults, first, jumped>>

WriteTail ==
    /\ half # 0
    /\ UNCHANGED chain
    /\ WriteToken(half, TRUE)
    /\ half' = 0
    /\ UNCHANGED <<source, written, cursor, feed, streams, faults, first, jumped>>

\* The node dies within a line; restarted, it writes the block again or not.
NodeCrash ==
    /\ half # 0 /\ faults < MaxFaults
    /\ half' = 0 /\ faults' = faults + 1
    /\ written' \in {half - 1, half}
    /\ UNCHANGED <<source, chain, files, cursor, feed, streams, first, jumped>>

-----------------------------------------------------------------------------
(* tail() *)

\* The newest file by mtime is the one written last.
LatestFile == Len(files)

\* Mutant: what was appended to a file before it was left is not read.
DrainedNot == feed

\* What a cycle makes of the file it leaves, and what is new in the one it is in.
Appended == cursor.buffer \o SubSeq(files[cursor.file], cursor.pos + 1, Len(files[cursor.file]))

Drained == IF cursor.file \in {0, LatestFile} THEN feed ELSE Consume(feed, FileLines(Appended))

Unread == IF cursor.file = LatestFile THEN Appended ELSE files[LatestFile]

\* Mutant: what is appended to the file being read is not noticed.
UnfinishedFile == source # "quicknode" /\ cursor.running /\ files # <<>> /\ cursor.file # LatestFile

Unfinished ==
    /\ source # "quicknode" /\ cursor.running
    /\ files # <<>>
    /\ cursor.file # LatestFile \/ cursor.pos < Len(files[LatestFile])

\* One cycle of the loop moves the cursor to the end of the newest file and
\* keeps its partial line.
MoveOn(running) ==
    /\ Unfinished
    /\ cursor' = [running |-> running, file |-> LatestFile,
                  pos |-> Len(files[LatestFile]), buffer |-> Rest(Unread)]

\* It drains the file it leaves and reads what has been appended to the newest.
\* A strict parse error ends the loop.
Poll ==
    /\ Unfinished
    /\ \E f \in {Consume(Drained, Lines(Unread))} : feed' = f /\ MoveOn(~f.failed)
    /\ first' = IF first = 0 THEN LatestFile ELSE first
    /\ jumped' = (jumped \/ (cursor.file # 0 /\ LatestFile > cursor.file + 1))
    /\ UNCHANGED <<source, chain, nodeVars, streams, faults>>

-----------------------------------------------------------------------------
(* _stream_coin() *)

\* A subscription: the server will send the book of this moment, then diffs.
\* The streak of failures is over before anything has come.
Subscribe(c) ==
    /\ source = "quicknode" /\ cursor.running
    /\ ~streams[c].up /\ chain # <<>>
    /\ streams' = [streams EXCEPT ![c] = [@ EXCEPT !.up = TRUE, !.streak = 0,
                                              !.snapshot = Len(chain), !.next = Len(chain) + 1]]
    /\ UNCHANGED <<source, chain, nodeVars, cursor, feed, faults, first, jumped>>

\* The next message of a stream is its snapshot.
SnapshotRead(c) ==
    /\ streams[c].up /\ streams[c].snapshot # 0
    /\ streams' = [streams EXCEPT ![c].snapshot = 0]

\* _load_snapshot()
Snapshot(c) ==
    LET h    == streams[c].snapshot
        book == LoadSnapshot(BookOf(feed, c),
                             [coin |-> c, height |-> h, orders |-> Resting(DiffsOf(c, 1, h))])
    IN  /\ SnapshotRead(c)
        /\ feed' = [feed EXCEPT !.books = With(@, c, book), !.dropped = @ \ {c}]
        /\ UNCHANGED <<source, chain, nodeVars, cursor, faults, first, jumped>>

\* The stream breaks off and _stream_coin() sleeps before it subscribes again.
Break(c) ==
    [streams EXCEPT ![c] = [up |-> FALSE, snapshot |-> 0, next |-> 0, streak |-> @.streak + 1,
                            silent |-> IF @.snapshot = 0 THEN 1 ELSE @.silent + 1]]

StreamDocument(c) ==
    LET block == chain[streams[c].next]
    IN  Document(streams[c].next, OfCoin(block.diffs, c), block.drift)

\* The next message of a stream is a diff; a document strict mode refuses ends it.
DiffRead(c) ==
    /\ streams[c].up /\ streams[c].snapshot = 0
    /\ streams[c].next <= Len(chain)
    /\ streams' = IF ParseLine(StreamDocument(c), feed.strict) = Raised THEN Break(c)
                  ELSE [streams EXCEPT ![c].next = @ + 1]

\* _apply_diff()
StreamDiff(c) ==
    LET document == StreamDocument(c)
        item     == ParseLine(document, feed.strict)
        f        == CountSkips(feed, document, {c})
    IN  /\ DiffRead(c)
        /\ feed' = CASE item = Raised         -> feed
                     [] item.kind = "block"   -> [f EXCEPT !.books = With(@, c, ApplyBlock(BookOf(f, c), item))]
                     [] item = Nothing        -> f
        /\ UNCHANGED <<source, chain, nodeVars, cursor, faults, first, jumped>>

StreamBreaks(c) ==
    /\ streams[c].up /\ faults < MaxFaults
    /\ streams' = Break(c) /\ faults' = faults + 1
    /\ UNCHANGED <<source, chain, nodeVars, cursor, feed, first, jumped>>

\* The provider leaves out a block.
StreamLoses(c) ==
    /\ streams[c].up /\ faults < MaxFaults
    /\ streams[c].next <= Len(chain)
    /\ streams' = [streams EXCEPT ![c].next = @ + 1] /\ faults' = faults + 1
    /\ UNCHANGED <<source, chain, nodeVars, cursor, feed, first, jumped>>

\* The process of the feed is restarted: a node feed opens the newest file from its start.
Restart ==
    /\ faults < MaxFaults
    /\ faults' = faults + 1
    /\ cursor' = [running |-> TRUE, file |-> 0, pos |-> 0, buffer |-> <<>>]
    /\ feed' = NewFeed(feed.strict) /\ first' = 0 /\ jumped' = FALSE
    /\ streams' = [c \in Tracked |-> Unconnected]
    /\ UNCHANGED <<source, chain, nodeVars>>

-----------------------------------------------------------------------------
Next ==
    \/ Produce
    \/ NewHour \/ WriteHead \/ WriteTail \/ NodeCrash
    \/ Poll
    \/ \E c \in Tracked : Subscribe(c) \/ Snapshot(c) \/ StreamDiff(c) \/ StreamBreaks(c) \/ StreamLoses(c)
    \/ Restart

\* tail() polls for ever; a stream that ended is subscribed to again after its
\* delay, and the provider delivers what it has.
Fairness ==
    /\ WF_cursor(\E running \in BOOLEAN : MoveOn(running))
    /\ \A c \in Tracked : WF_vars(Subscribe(c)) /\ WF_streams(SnapshotRead(c)) /\ WF_streams(DiffRead(c))

Spec == Init /\ [][Next]_vars /\ Fairness
-----------------------------------------------------------------------------
(* Properties *)

OidsOnce(orders) == \A i, j \in DOMAIN orders : orders[i].oid = orders[j].oid => i = j

\* The attributes have their types, no book holds an order twice, and a line half
\* read stays within one file.
TypeOK ==
    /\ \A c \in DOMAIN feed.books : /\ c \in Tracked /\ feed.books[c].coin = c
                                    /\ feed.books[c].height \in {None} \cup (1..Len(chain))
                                    /\ OidsOnce(feed.books[c].orders)
    /\ cursor.file \in 0..Len(files)
    /\ cursor.file # 0 => cursor.pos \in 0..Len(files[cursor.file])
    /\ \A i \in DOMAIN cursor.buffer : ~cursor.buffer[i].ends
    /\ feed.skips \in Nat /\ faults \in 0..MaxFaults

\* The heights a book that is not stale has seen: from the snapshot or from where the
\* feed last began to read without a gap, up to its own or, for bare events, the feed's.
From == IF source = "quicknode" THEN 1 ELSE feed.since

Reached(c) == IF source = "events" THEN feed.last ELSE feed.books[c].height

\* A book that is not stale, and of which nothing was reported as skipped, holds exactly
\* the orders the chain has resting at its height, with their sizes and in their order of
\* arrival (for the node's files: those announced since the feed began to read).  Rotation,
\* partial lines, blocks lost or sent twice, reconnections and restarts make it stale, or
\* are counted, or change nothing.  Bare events carry no height, so there the files must
\* also have been read without a jump and without a block lost or repeated by the node.
BookFaithful ==
    \A c \in DOMAIN feed.books :
        LET book == feed.books[c]
        IN  (~book.stale /\ c \notin feed.dropped /\ (source = "events" => ~jumped /\ faults = 0))
               => book.orders = Resting(DiffsOf(c, From, Reached(c)))

\* The lines of the files tail() has opened, up to the partial one it holds.
ReadLines ==
    Fold(LAMBDA lines, file : lines \o FileLines(file), <<>>, SubSeq(files, first, cursor.file - 1))
        \o Lines(SubSeq(files[cursor.file], 1, cursor.pos))

\* replay_files() over the same files.
Replayed == Consume(NewFeed(feed.strict), ReadLines)

\* What a tolerant tail() has made of one coin, and what replay() reports of it.  The
\* report may be stale where the feed's book is not: its only book has seen the blocks
\* that came before the coin was named, and counted the gaps between them.
ReportAgrees(report) ==
    /\ report.skips = feed.skips
    /\ report.book.coin \in Tracked =>
          LET book == feed.books[report.book.coin]
          IN  /\ report.book.coin \in DOMAIN feed.books
              /\ report.book.orders = book.orders
              /\ report.book.height = book.height
              /\ book.stale => report.book.stale
              /\ report.book.anomaly_count >= book.anomaly_count
              /\ ~report.book.stale => report.book.anomaly_count = book.anomaly_count

\* Tailing is replaying: however the node's writes were cut into chunks and wherever the
\* hours turned, tail() has made of the files it opened just what replay_files() makes of
\* them afterwards, books, staleness and counts included; and replay(), which has one book
\* and an accounting of its own, reports the same book and as many lines skipped.
TailIsReplay ==
    (source # "quicknode" /\ first # 0 /\ ~jumped) =>
        /\ feed = Replayed
        /\ ~feed.strict => ReportAgrees(Report(EmptyBook(NoCoin), ReadLines))

\* Once the chain and the faults end, the feed has read all there is, unless a
\* document made a strict feed stop.
CaughtUp ==
    <>[](\/ feed.failed
         \/ /\ source # "quicknode"
            /\ files # <<>> => cursor.file = LatestFile /\ cursor.pos = Len(files[LatestFile])
         \/ /\ source = "quicknode"
            /\ chain # <<>> => \A c \in Tracked : streams[c].up /\ streams[c].next > Len(chain))

\* The delay before a stream is subscribed to again grows with the connections that have
\* failed since one delivered something: the collector's convention, which the class says
\* it follows (its own tests only call _next_reconnect_delay()).
BackoffGrows == \A c \in Tracked : ~streams[c].up => streams[c].streak = streams[c].silent
=============================================================================
