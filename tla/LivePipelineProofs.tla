------------------------- MODULE LivePipelineProofs -------------------------
(***************************************************************************)
(* What the live path keeps whatever arrives, fails or is replayed.        *)
(***************************************************************************)
EXTENDS LivePipeline, SequenceTheorems, FiniteSetTheorems, TLAPS

-----------------------------------------------------------------------------
(* Sequences that only grow *)

LEMMA EmptyList == IsList(<<>>)
BY DEF IsList

LEMMA ListOf ==
  ASSUME NEW n \in Nat, NEW s, s = [i \in 1 .. n |-> s[i]]
  PROVE  IsList(s)
<1>1. \A i \in 1 .. n : s[i] \in Range(s)
  BY DEF Range
<1> QED BY <1>1 DEF IsList

LEMMA AppendList ==
  ASSUME NEW s, IsList(s), NEW x
  PROVE  IsList(Append(s, x))
<1> DEFINE U == Range(s) \cup {x}
           t == Append(s, x)
<1>1. s \in Seq(U) /\ x \in U
  BY DEF IsList
<1> HIDE DEF U
<1>2. t \in Seq(U) /\ DOMAIN t = 1 .. Len(t) /\ Len(t) \in Nat
  BY <1>1, AppendProperties
<1> HIDE DEF t
<1>3. \A i \in 1 .. Len(t) : t[i] \in Range(t)
  BY <1>2 DEF Range
<1>4. t = [i \in 1 .. Len(t) |-> t[i]]
  BY <1>2
<1>5. t \in Seq(Range(t))
  BY <1>2, <1>3, <1>4
<1> QED BY <1>5 DEF IsList, t

LEMMA PrefixOfItself ==
  ASSUME NEW s, IsList(s)
  PROVE  IsPrefix(s, s)
BY DEF IsPrefix, IsList

LEMMA PrefixAppend ==
  ASSUME NEW s, NEW t, NEW x, IsList(s), IsList(t), IsPrefix(s, t)
  PROVE  IsPrefix(s, Append(t, x))
<1> DEFINE U == Range(s) \cup Range(t) \cup {x}
<1>1. s \in Seq(U) /\ t \in Seq(U) /\ x \in U
  BY DEF IsList
<1> HIDE DEF U
<1>2. Append(t, x) \in Seq(U) /\ Len(Append(t, x)) = Len(t) + 1
  BY <1>1, AppendProperties
<1>3. \A i \in 1 .. Len(t) : Append(t, x)[i] = t[i]
  BY <1>1, AppendProperties
<1>4. Len(s) \in Nat /\ Len(t) \in Nat /\ Len(s) <= Len(t)
  BY <1>1, LenProperties DEF IsPrefix
<1>5. SubSeq(Append(t, x), 1, Len(s)) = SubSeq(t, 1, Len(s))
  BY <1>1, <1>2, <1>3, <1>4
<1> QED BY <1>2, <1>4, <1>5 DEF IsPrefix

-----------------------------------------------------------------------------
(* The day logger *)

LogFields(l) ==
    DOMAIN l = {"files", "handles", "current", "mirror", "unsaved"}

\* A stream may be on a file that is closed, when the next could not be opened;
\* every open file is the one its stream is on.
LogOpen(l) ==
    /\ \A s \in DOMAIN l.current : /\ <<l.current[s][1], l.current[s][2]>> = s
                                   /\ l.current[s] \in DOMAIN l.files
    /\ \A f \in l.handles : /\ f \in DOMAIN l.files
                            /\ <<f[1], f[2]>> \in DOMAIN l.current
                            /\ l.current[<<f[1], f[2]>>] = f

LogKept(l) ==
    /\ DOMAIN l.mirror \subseteq DOMAIN l.files
    /\ \A f \in DOMAIN l.files : IsList(l.files[f])
    /\ \A f \in DOMAIN l.mirror : IsList(l.mirror[f]) /\ IsPrefix(l.mirror[f], l.files[f])
    /\ \A f \in DOMAIN l.files \ (l.handles \cup l.unsaved) :
           f \in DOMAIN l.mirror /\ l.mirror[f] = l.files[f]

LogsInv(l) == LogFields(l) /\ LogOpen(l) /\ LogKept(l)

LEMMA NewLogsFine == LogsInv(NewLogs)
<1>1. LogFields(NewLogs)
  BY DEF LogFields, NewLogs
<1>2. LogOpen(NewLogs) /\ LogKept(NewLogs)
  BY DEF LogOpen, LogKept, NewLogs
<1> QED BY <1>1, <1>2 DEF LogsInv

\* A file that is closed and uploaded, or not: nothing of another one changes.
LEMMA FinalizedFine ==
  ASSUME NEW l, LogsInv(l), NEW file \in DOMAIN l.files, NEW up \in BOOLEAN
  PROVE  LogsInv(Finalized(l, file, up))
<1> DEFINE n == Finalized(l, file, up)
<1>1. /\ n.files = l.files /\ n.handles = l.handles \ {file} /\ n.current = l.current
      /\ n.mirror = (IF up THEN With(l.mirror, file, l.files[file]) ELSE l.mirror)
      /\ n.unsaved = (IF up THEN l.unsaved \ {file} ELSE l.unsaved \cup {file})
      /\ LogFields(n)
  BY DEF Finalized, LogsInv, LogFields
<1> HIDE DEF n
<1>2. LogOpen(n)
  BY <1>1 DEF LogsInv, LogOpen
<1>3. CASE up
  <2>1. /\ DOMAIN n.mirror = DOMAIN l.mirror \cup {file}
        /\ n.mirror[file] = l.files[file]
        /\ \A k \in DOMAIN l.mirror \ {file} : n.mirror[k] = l.mirror[k]
    BY <1>1, <1>3 DEF With
  <2>2. IsList(l.files[file]) /\ IsPrefix(l.files[file], l.files[file])
    BY PrefixOfItself DEF LogsInv, LogKept
  <2>3. LogKept(n)
    BY <1>1, <1>3, <2>1, <2>2 DEF LogsInv, LogKept
  <2> QED BY <1>1, <1>2, <2>3 DEF LogsInv, n
<1>4. CASE ~up
  <2>1. LogKept(n)
    BY <1>1, <1>4 DEF LogsInv, LogKept
  <2> QED BY <1>1, <1>2, <2>1 DEF LogsInv, n
<1> QED BY <1>3, <1>4

LEMMA LeftFine ==
  ASSUME NEW l, LogsInv(l), NEW p, NEW up \in BOOLEAN
  PROVE  /\ LogsInv(Left(l, p, up))
         /\ \A f \in Left(l, p, up).handles : <<f[1], f[2]>> = Stream(p) => f = File(p)
<1>1. CASE Stream(p) \in DOMAIN l.current /\ l.current[Stream(p)] # File(p)
  <2> DEFINE file == l.current[Stream(p)]
  <2>1. file \in DOMAIN l.files
    BY <1>1 DEF LogsInv, LogOpen
  <2>2. Left(l, p, up) = Finalized(l, file, up)
    BY <1>1 DEF Left
  <2>3. Finalized(l, file, up).handles = l.handles \ {file}
    BY DEF Finalized, LogsInv, LogFields
  <2>4. \A f \in l.handles : <<f[1], f[2]>> = Stream(p) => f = file
    BY DEF LogsInv, LogOpen
  <2> QED BY <2>1, <2>2, <2>3, <2>4, FinalizedFine
<1>2. CASE ~(Stream(p) \in DOMAIN l.current /\ l.current[Stream(p)] # File(p))
  BY <1>2 DEF Left, LogsInv, LogOpen
<1> QED BY <1>1, <1>2

\* The point's own file is opened, and the point is written or not.
LEMMA LoggedFine ==
  ASSUME NEW l, LogsInv(l), NEW p, NEW up \in BOOLEAN, NEW outcome \in Outcomes
  PROVE  LogsInv(Logged(l, p, up, outcome))
<1> DEFINE left == Left(l, p, up)
           f0 == File(p)
           open == [left EXCEPT !.handles = @ \cup {f0},
                                !.current = With(@, Stream(p), f0),
                                !.files = IF f0 \in DOMAIN @ THEN @ ELSE With(@, f0, <<>>)]
<1>1. LogsInv(left) /\ \A f \in left.handles : <<f[1], f[2]>> = Stream(p) => f = f0
  BY LeftFine
<1>2. <<f0[1], f0[2]>> = Stream(p)
  BY DEF File, Stream
<1>3. \/ Logged(l, p, up, outcome) = left
      \/ Logged(l, p, up, outcome) = open
      \/ Logged(l, p, up, outcome) = [open EXCEPT !.files[f0] = Append(@, p)]
  BY DEF Logged, Outcomes
<1> HIDE DEF left, f0
<1>4. /\ open.handles = left.handles \cup {f0}
      /\ open.current = With(left.current, Stream(p), f0)
      /\ open.files = (IF f0 \in DOMAIN left.files THEN left.files ELSE With(left.files, f0, <<>>))
      /\ open.mirror = left.mirror /\ open.unsaved = left.unsaved
      /\ LogFields(open)
  BY <1>1 DEF LogsInv, LogFields
<1> HIDE DEF open
<1>5. /\ DOMAIN open.current = DOMAIN left.current \cup {Stream(p)}
      /\ open.current[Stream(p)] = f0
      /\ \A s \in DOMAIN left.current \ {Stream(p)} : open.current[s] = left.current[s]
  BY <1>4 DEF With
<1>6. /\ DOMAIN open.files = DOMAIN left.files \cup {f0}
      /\ f0 \notin DOMAIN left.files => open.files[f0] = <<>>
      /\ \A f \in DOMAIN left.files : open.files[f] = left.files[f]
  <2>1. CASE f0 \in DOMAIN left.files
    BY <1>4, <2>1
  <2>2. CASE f0 \notin DOMAIN left.files
    BY <1>4, <2>2 DEF With
  <2> QED BY <2>1, <2>2
<1>7. LogOpen(open)
  BY <1>1, <1>2, <1>4, <1>5, <1>6 DEF LogsInv, LogOpen
<1>8. LogKept(open)
  BY <1>1, <1>4, <1>6, EmptyList DEF LogsInv, LogKept
<1>9. LogsInv([open EXCEPT !.files[f0] = Append(@, p)])
  <2> DEFINE n == [open EXCEPT !.files[f0] = Append(@, p)]
  <2>1. /\ n.handles = open.handles /\ n.current = open.current
        /\ n.mirror = open.mirror /\ n.unsaved = open.unsaved
        /\ n.files = [open.files EXCEPT ![f0] = Append(@, p)]
        /\ LogFields(n)
    BY <1>4 DEF LogFields
  <2> HIDE DEF n
  <2>2. /\ DOMAIN n.files = DOMAIN open.files
        /\ n.files[f0] = Append(open.files[f0], p)
        /\ \A f \in DOMAIN open.files \ {f0} : n.files[f] = open.files[f]
    BY <1>6, <2>1
  <2>3. LogOpen(n)
    BY <1>7, <2>1, <2>2 DEF LogOpen
  <2>4. IsList(n.files[f0])
    BY <1>6, <1>8, <2>2, AppendList DEF LogKept
  <2>5. f0 \in DOMAIN n.mirror => IsPrefix(n.mirror[f0], n.files[f0])
    BY <1>6, <1>8, <2>1, <2>2, PrefixAppend DEF LogKept
  <2>6. f0 \in n.handles
    BY <1>4, <2>1
  <2>7. LogKept(n)
    BY <1>8, <2>1, <2>2, <2>4, <2>5, <2>6 DEF LogKept
  <2> QED BY <2>1, <2>3, <2>7 DEF LogsInv, n
<1> QED BY <1>1, <1>3, <1>4, <1>7, <1>8, <1>9 DEF LogsInv

LEMMA AllClosedFine ==
  ASSUME NEW l, LogsInv(l), NEW failed \in SUBSET l.handles
  PROVE  LogsInv(AllClosed(l, failed))
<1> DEFINE n == AllClosed(l, failed)
           sent == l.handles \ failed
<1>1. /\ n.files = l.files /\ n.handles = {} /\ n.current = <<>>
      /\ n.mirror = [f \in DOMAIN l.mirror \cup sent |-> IF f \in sent THEN l.files[f] ELSE l.mirror[f]]
      /\ n.unsaved = (l.unsaved \ l.handles) \cup (l.handles \cap failed)
      /\ LogFields(n)
  BY DEF AllClosed, LogsInv, LogFields
<1> HIDE DEF n
<1>2. sent \subseteq DOMAIN l.files /\ \A f \in sent : IsPrefix(l.files[f], l.files[f])
  BY PrefixOfItself DEF LogsInv, LogKept, LogOpen
<1>3. LogOpen(n)
  BY <1>1 DEF LogOpen
<1>4. LogKept(n)
  <2>1. DOMAIN n.mirror = DOMAIN l.mirror \cup sent
    BY <1>1
  <2>2. \A f \in sent : n.mirror[f] = l.files[f]
    BY <1>1
  <2>3. \A f \in DOMAIN l.mirror \ sent : n.mirror[f] = l.mirror[f]
    BY <1>1
  <2>4. \A f \in DOMAIN l.files \ n.unsaved : f \in sent \/ f \notin l.handles \cup l.unsaved
    BY <1>1
  <2> HIDE DEF sent
  <2> QED BY <1>1, <1>2, <2>1, <2>2, <2>3, <2>4 DEF LogsInv, LogKept
<1> QED BY <1>1, <1>3, <1>4 DEF LogsInv, n

\* What the object store holds of a closed file is all of it (LogsMirrored), and the
\* reason: LogsInv, of any number of streams, days, failed uploads and replays.
THEOREM LogsAlwaysMirrored == Spec => []LogsMirrored
<1>1. Init => LogsInv(logs)
  BY NewLogsFine DEF Init
<1>2. LogsInv(logs) /\ [Next]_vars => LogsInv(logs)'
  <2> SUFFICES ASSUME LogsInv(logs), [Next]_vars
               PROVE  LogsInv(logs')
    OBVIOUS
  <2>1. ASSUME NEW p, NEW spent, Log(p, spent)
        PROVE  LogsInv(logs')
    BY <2>1, LoggedFine DEF Log
  <2>2. CASE Take
    BY <2>1, <2>2 DEF Take
  <2>3. CASE \E ok \in BOOLEAN : Stored(ok)
    BY <2>1, <2>3 DEF Stored
  <2>4. CASE ReplayStored
    BY <2>1, <2>4 DEF ReplayStored
  <2>5. CASE Stop
    BY <2>5, AllClosedFine DEF Stop
  <2>6. CASE UNCHANGED vars
    BY <2>6 DEF vars
  <2>7. CASE \/ Tick \/ Connect \/ (\E m \in Frames : Receive(m)) \/ (\E r \in Recovered : Replay(r))
             \/ ReplayFails \/ Cleanup
             \/ \E s \in Symbols, files \in Histories : ProcessHistory(s, files)
    BY <2>7 DEF Tick, Connect, Receive, Replay, ReplayFails, Cleanup, ProcessHistory
  <2> QED BY <2>2, <2>3, <2>4, <2>5, <2>6, <2>7 DEF Next
<1>3. LogsInv(logs) => LogsMirrored
  BY DEF LogsInv, LogOpen, LogKept, LogsMirrored
<1> QED BY <1>1, <1>2, <1>3, PTL DEF Spec
-----------------------------------------------------------------------------
(* The latency of trades *)

NoMatter(c, a) == TRUE

SiftOp(S, kept, x) == IF x \in S THEN Append(kept, x) ELSE kept
Filter == INSTANCE Folding WITH Op <- SiftOp, Good <- NoMatter

LEMMA AmongSifts ==
  /\ Filter!Sifts
  /\ \A s, S : Among(s, S) = Filter!Sift(S, s)
<1>1. Filter!Sifts
  BY DEF Filter!Sifts, SiftOp
<1>2. ASSUME NEW s, NEW S PROVE Among(s, S) = Filter!Sift(S, s)
  BY DEF Filter!Sift, Filter!Folded, Filter!Fold, SiftOp, Among, Fold
<1> QED BY <1>1, <1>2

\* What is among a list is a list of its elements that are in the set.
LEMMA AmongList ==
  ASSUME NEW s, IsList(s), NEW S
  PROVE  Among(s, S) \in Seq(Range(s) \cap S) /\ IsList(Among(s, S))
<1>1. Among(s, S) \in Seq(Range(s) \cap S)
  BY AmongSifts, Filter!SiftSeq DEF IsList
<1>2. \A U : \A a \in Seq(U) : IsList(a)
  <2> SUFFICES ASSUME NEW U, NEW a \in Seq(U) PROVE IsList(a)
    OBVIOUS
  <2>1. Len(a) \in Nat /\ a = [i \in 1 .. Len(a) |-> a[i]]
    OBVIOUS
  <2> QED BY <2>1, ListOf
<1> QED BY <1>1, <1>2

\* The tracked rows are among the rows.
LEMMA TrackedRows ==
  ASSUME NEW rows, IsList(rows)
  PROVE  Tracked(rows) \in Seq({r \in Range(rows) : r.coin \in Symbols})
<1> DEFINE S == {r \in Range(rows) : r.coin \in Symbols}
<1>1. Tracked(rows) = Among(rows, S)
  BY DEF Tracked, Only
<1>2. Range(rows) \cap S = S
  OBVIOUS
<1> HIDE DEF S
<1>3. Tracked(rows) \in Seq(S)
  BY <1>1, <1>2, AmongList
<1> QED BY <1>3 DEF S

LEMMA LeastExists ==
  ASSUME NEW I, I \subseteq Nat, I # {}
  PROVE  Min(I) \in I /\ \A i \in I : Min(I) <= i
<1> DEFINE Below == {n \in Nat : \A i \in I : n <= i}
<1>1. \E m \in I : \A i \in I : m <= i
  <2> SUFFICES ASSUME \A m \in I : \E i \in I : i < m
               PROVE  FALSE
    OBVIOUS
  <2>1. 0 \in Below
    OBVIOUS
  <2>2. \A n \in Nat : n \in Below => n + 1 \in Below
    OBVIOUS
  <2>3. PICK i \in I : i \in Nat
    OBVIOUS
  <2> HIDE DEF Below
  <2>4. i + 1 \in Below
    BY <2>1, <2>2, <2>3, Filter!SetInduction
  <2> QED BY <2>3, <2>4 DEF Below
<1> QED BY <1>1 DEF Min

LEMMA GreaterOf ==
  ASSUME NEW a \in Int, NEW b \in Int
  PROVE  Max({a, b}) = IF a >= b THEN a ELSE b
BY DEF Max

LEMMA GoodRows ==
  ASSUME NEW rows, IsList(rows)
  PROVE  Good(rows) \in Seq({r \in Range(rows) : r.coin \in Symbols})
<1> DEFINE S == {r \in Range(rows) : r.coin \in Symbols}
           all == Tracked(rows)
           I == {i \in 1 .. Len(all) : BadDecimal \in {all[i].px, all[i].sz}}
<1>1. all \in Seq(S)
  BY TrackedRows
<1>2. Good(rows) = IF I = {} THEN all ELSE IF Min(I) = 0 THEN all ELSE SubSeq(all, 1, Min(I) - 1)
  BY DEF Good, SelectInSeq
<1> HIDE DEF all, S
<1>3. Len(all) \in Nat
  BY <1>1
<1>4. I # {} => Min(I) \in 1 .. Len(all)
  <2>1. I \subseteq Nat
    BY <1>3
  <2>2. \A i \in I : i \in 1 .. Len(all)
    OBVIOUS
  <2> HIDE DEF I
  <2> QED BY <2>1, <2>2, LeastExists
<1> HIDE DEF I
<1> QED BY <1>1, <1>2, <1>3, <1>4 DEF S

\* What is delivered is a sequence; of a message of trades, of points of its rows.
LEMMA DeliveredPoints ==
  ASSUME NEW m \in Frames, now \in Int
  PROVE  /\ IsList(Delivered(m, now))
         /\ m.channel = "trades" =>
                \A i \in DOMAIN Delivered(m, now) :
                    \E j \in DOMAIN m.rows :
                        /\ Delivered(m, now)[i].symbol = m.rows[j].coin
                        /\ m.rows[j].coin \in Symbols
                        /\ Delivered(m, now)[i].ts = now - m.rows[j].age
<1> DEFINE rows == Good(m.rows)
           S == {r \in Range(m.rows) : r.coin \in Symbols}
           points == TradesPoints(m, now)
<1>1. ASSUME m.channel \in {"trades", "allMids"}
      PROVE  rows \in Seq(S)
  BY <1>1, FramesAssumption, GoodRows DEF IsList
<1>2. CASE m.channel = "trades"
  <2>1. rows \in Seq(S)
    BY <1>1, <1>2
  <2>2. Delivered(m, now) \in {<<>>, points}
    BY <1>2 DEF Delivered, Parsed
  <2>3. \A i \in DOMAIN rows : \E j \in DOMAIN m.rows : rows[i] = m.rows[j] /\ m.rows[j].coin \in Symbols
    <3>1. \A i \in DOMAIN rows : rows[i] \in S
      BY <2>1
    <3> HIDE DEF rows
    <3> QED BY <3>1 DEF Range
  <2>4. /\ DOMAIN points = DOMAIN rows
        /\ \A i \in DOMAIN rows : points[i].symbol = rows[i].coin /\ points[i].ts = now - rows[i].age
    BY DEF TradesPoints, Point
  <2>5. IsList(points)
    <3>1. Len(rows) \in Nat /\ DOMAIN rows = 1 .. Len(rows)
      BY <2>1
    <3>2. points = [i \in 1 .. Len(rows) |-> points[i]]
      BY <3>1 DEF TradesPoints
    <3> HIDE DEF points, rows
    <3> QED BY <3>1, <3>2, ListOf
  <2> HIDE DEF rows, points
  <2>6. \A i \in DOMAIN points : \E j \in DOMAIN m.rows :
            /\ points[i].symbol = m.rows[j].coin /\ m.rows[j].coin \in Symbols
            /\ points[i].ts = now - m.rows[j].age
    BY <2>3, <2>4
  <2> QED BY <2>2, <2>5, <2>6, EmptyList
<1>3. CASE m.channel = "allMids"
  <2>1. Delivered(m, now) \in {<<>>, TickerPoints(m, now)}
    BY <1>3 DEF Delivered, Parsed
  <2>2. rows \in Seq(S)
    BY <1>1, <1>3
  <2>3. IsList(TickerPoints(m, now))
    <3> DEFINE tickers == TickerPoints(m, now)
    <3>1. Len(rows) \in Nat /\ DOMAIN rows = 1 .. Len(rows)
      BY <2>2
    <3>2. tickers = [i \in 1 .. Len(rows) |-> tickers[i]]
      BY <3>1 DEF TickerPoints
    <3> HIDE DEF tickers, rows
    <3>3. IsList(tickers)
      BY <3>1, <3>2, ListOf
    <3> QED BY <3>3 DEF tickers
  <2> QED BY <1>3, <2>1, <2>3, EmptyList
<1>4. CASE m.channel \notin {"trades", "allMids"}
  <2>1. Delivered(m, now) = Parsed(m, now)
    BY <1>4 DEF Delivered
  <2>2. Parsed(m, now) = <<>> \/ \E p : Parsed(m, now) = <<p>>
    BY <1>4 DEF Parsed, BboPoints, L2BookPoints, AssetCtxPoints, UserPoints, IfTracked
  <2>3. \A p : IsList(<<p>>)
    BY DEF IsList, Range
  <2> QED BY <1>4, <2>1, <2>2, <2>3, EmptyList
<1> QED BY <1>2, <1>3, <1>4

LEMMA MeasuredPoints ==
  ASSUME NEW m \in Frames, now \in Int, m.channel = "trades"
  PROVE  Measured(feed, m, now) \in Seq({p \in Range(Delivered(m, now)) : p.symbol \in feed.primed})
<1> DEFINE points == Delivered(m, now)
           S == {p \in Range(points) : p.symbol \in feed.primed}
           M == {p \in Range(points) : p.ts # 0 /\ (m.channel = "trades" => p.symbol \in feed.primed)}
<1>1. Measured(feed, m, now) = Among(points, M)
  BY DEF Measured, Only
<1>2. IsList(points)
  BY DeliveredPoints
<1>3. Range(points) \cap M \subseteq S
  OBVIOUS
<1> HIDE DEF points, M, S
<1>4. Measured(feed, m, now) \in Seq(Range(points) \cap M)
  BY <1>1, <1>2, AmongList
<1>5. \A U : U \subseteq S => Seq(U) \subseteq Seq(S)
  OBVIOUS
<1>6. Measured(feed, m, now) \in Seq(S)
  BY <1>3, <1>4, <1>5
<1> QED BY <1>6 DEF S, points

HistogramFine(h) ==
    /\ DOMAIN h = {"counts", "count", "total", "least", "greatest", "negative"}
    /\ h.greatest \in Int /\ h.greatest <= MaxAge

LEMMA RecordFine ==
  ASSUME NEW h, HistogramFine(h), NEW age \in Int, age <= MaxAge
  PROVE  HistogramFine(Record(h, age))
<1> DEFINE ms == IF age < 0 THEN 0 ELSE age
           n == Record(h, age)
<1>1. ms \in Int /\ ms <= MaxAge
  BY ClockAssumption
<1>2. /\ n.greatest = (IF h.greatest = None THEN ms ELSE Max({h.greatest, ms}))
      /\ DOMAIN n = DOMAIN h
  BY DEF Record, HistogramFine
<1> HIDE DEF ms, n
<1>3. Max({h.greatest, ms}) = IF h.greatest >= ms THEN h.greatest ELSE ms
  BY <1>1, GreaterOf DEF HistogramFine
<1>4. HistogramFine(n)
  BY <1>1, <1>2, <1>3 DEF HistogramFine
<1> QED BY <1>4 DEF n

RecordOp(m, h, p) == Record(h, now - p.ts)
RecordKeeps(m, h) == HistogramFine(h)
RecordFold == INSTANCE Folding WITH Op <- RecordOp, Good <- RecordKeeps

PushOp(read, f, p) == Push(f, p)
PushKeeps(read, f) == DOMAIN f = DOMAIN read /\ f.latency = read.latency /\ f.primed = read.primed
PushFold == INSTANCE Folding WITH Op <- PushOp, Good <- PushKeeps

FeedFields == {"rings", "primed", "queue", "dropped", "latency", "last_message"}

\* Only coins that were greeted on this connection are measured.
LatencyInv ==
    /\ now \in Int
    /\ DOMAIN feed = FeedFields
    /\ feed.primed \subseteq greeted
    /\ HistogramFine(feed.latency["trades"])

\* The points of a message go to the queue; histograms and primed coins stay.
LEMMA PushesKeep ==
  ASSUME NEW read, DOMAIN read = FeedFields, NEW points, IsList(points)
  PROVE  PushKeeps(read, Fold(Push, read, points))
<1>1. PushFold!Folded(read, read, points) = Fold(Push, read, points)
  BY DEF PushFold!Folded, PushFold!Fold, PushOp, Fold
<1>2. Len(points) \in Nat
  BY DEF IsList
<1>3. \A f, i : PushKeeps(read, f) /\ i \in 1 .. Len(points) => PushKeeps(read, PushOp(read, f, points[i]))
  <2> SUFFICES ASSUME NEW f, NEW p, PushKeeps(read, f)
               PROVE  PushKeeps(read, Push(f, p))
    BY DEF PushOp
  <2> QED BY DEF PushKeeps, Push, FeedFields
<1>4. PushKeeps(read, read)
  BY DEF PushKeeps
<1>5. PushKeeps(read, PushFold!Folded(read, read, points))
  BY <1>2, <1>3, <1>4, PushFold!FoldKeeps
<1> QED BY <1>1, <1>5

\* No trade of the message is older than MaxAge, or it is not measured.
LEMMA TradesTimed ==
  ASSUME NEW m \in Frames, LatencyInv, Sendable(m), m.channel = "trades",
         NEW h, HistogramFine(h)
  PROVE  HistogramFine(Fold(LAMBDA a, p : Record(a, now - p.ts), h, Measured(feed, m, now)))
<1> DEFINE points == Delivered(m, now)
           timed == Measured(feed, m, now)
           S == {p \in Range(points) : p.symbol \in feed.primed}
<1>1. RecordFold!Folded(m, h, timed) = Fold(LAMBDA a, p : Record(a, now - p.ts), h, timed)
  BY DEF RecordFold!Folded, RecordFold!Fold, RecordOp, Fold
<1>2. timed \in Seq(S)
  BY MeasuredPoints DEF LatencyInv
<1>3. \A p \in S : now - p.ts \in Int /\ now - p.ts <= MaxAge
  <2> SUFFICES ASSUME NEW p \in Range(points), p.symbol \in feed.primed
               PROVE  now - p.ts \in Int /\ now - p.ts <= MaxAge
    OBVIOUS
  <2>1. PICK i \in DOMAIN points : p = points[i]
    BY DEF Range
  <2>2. PICK j \in DOMAIN m.rows :
            /\ p.symbol = m.rows[j].coin /\ m.rows[j].coin \in Symbols
            /\ p.ts = now - m.rows[j].age
    BY <2>1, DeliveredPoints DEF LatencyInv
  <2>3. m.rows[j].coin \in greeted
    BY <2>2 DEF LatencyInv
  <2>4. ~m.snapshot
    BY <2>3, FramesAssumption DEF Sendable
  <2>5. m.rows[j].age \in Int /\ m.rows[j].age <= MaxAge
    BY <2>4, FramesAssumption
  <2> QED BY <2>2, <2>5 DEF LatencyInv
<1> HIDE DEF timed, S
<1>4. Len(timed) \in Nat /\ \A i \in 1 .. Len(timed) : timed[i] \in S
  BY <1>2
<1>5. \A a, i : RecordKeeps(m, a) /\ i \in 1 .. Len(timed) => RecordKeeps(m, RecordOp(m, a, timed[i]))
  BY <1>3, <1>4, RecordFine DEF RecordKeeps, RecordOp
<1>6. RecordKeeps(m, RecordFold!Folded(m, h, timed))
  BY <1>4, <1>5, RecordFold!FoldKeeps DEF RecordKeeps
<1> QED BY <1>1, <1>6 DEF RecordKeeps, timed

LEMMA ReceiveTimed ==
  ASSUME NEW m \in Frames, LatencyInv, Receive(m)
  PROVE  LatencyInv'
<1> DEFINE points == Delivered(m, now)
           timed(h) == Fold(LAMBDA a, p : Record(a, now - p.ts), h, Measured(feed, m, now))
           latency == [c \in Timed |-> IF c = m.channel THEN timed(feed.latency[c]) ELSE feed.latency[c]]
           primed == IF m.channel = "trades"
                     THEN feed.primed \cup {points[i].symbol : i \in DOMAIN points} ELSE feed.primed
           read == [feed EXCEPT !.rings = Fold(Ring, @, Parsed(m, now)),
                                !.latency = latency, !.primed = primed, !.last_message = now]
<1>1. /\ Sendable(m) /\ now' = now
      /\ feed' = IF m.channel = "not JSON" THEN feed ELSE Fold(Push, read, points)
      /\ greeted' = IF m.channel = "trades" THEN greeted \cup {m.rows[i].coin : i \in DOMAIN m.rows}
                    ELSE greeted
  BY DEF Receive, ProcessMessage
<1>2. CASE m.channel = "not JSON"
  BY <1>1, <1>2 DEF LatencyInv
<1>3. CASE m.channel # "not JSON"
  <2>1. DOMAIN read = FeedFields /\ read.latency = latency /\ read.primed = primed
    BY DEF LatencyInv, FeedFields
  <2>2. IsList(points)
    BY DeliveredPoints DEF LatencyInv
  <2>3. primed \subseteq greeted'
    <3>1. CASE m.channel = "trades"
      BY <1>1, <3>1, DeliveredPoints DEF LatencyInv
    <3>2. CASE m.channel # "trades"
      BY <1>1, <3>2 DEF LatencyInv
    <3> QED BY <3>1, <3>2
  <2>4. HistogramFine(latency["trades"])
    <3>1. "trades" \in Timed
      BY DEF Timed
    <3>2. CASE m.channel = "trades"
      <4>1. latency["trades"] = timed(feed.latency["trades"])
        BY <3>1, <3>2
      <4> QED BY <1>1, <3>2, <4>1, TradesTimed DEF LatencyInv
    <3>3. CASE m.channel # "trades"
      BY <3>1, <3>3 DEF LatencyInv
    <3> QED BY <3>2, <3>3
  <2> HIDE DEF read, points, latency, primed
  <2>5. PushKeeps(read, Fold(Push, read, points))
    BY <2>1, <2>2, PushesKeep
  <2> QED BY <1>1, <1>3, <2>1, <2>3, <2>4, <2>5 DEF LatencyInv, PushKeeps, HistogramFine
<1> QED BY <1>2, <1>3

\* No histogram counts the snapshot of old trades that opens a connection
\* (LatencyUnpoisoned): a coin that is primed was greeted on the same connection.
THEOREM LatencyNeverPoisoned == Spec => []LatencyUnpoisoned
<1>1. Init => LatencyInv
  <2>1. HistogramFine(NewHistogram)
    BY ClockAssumption DEF HistogramFine, NewHistogram, None
  <2>2. DOMAIN NewFeed = FeedFields /\ NewFeed.primed = {} /\ NewFeed.latency["trades"] = NewHistogram
    BY DEF NewFeed, FeedFields, Timed
  <2> QED BY <2>1, <2>2, ClockAssumption DEF Init, LatencyInv
<1>2. LatencyInv /\ [Next]_vars => LatencyInv'
  <2> SUFFICES ASSUME LatencyInv, [Next]_vars
               PROVE  LatencyInv'
    OBVIOUS
  <2>1. CASE Tick
    BY <2>1 DEF Tick, LatencyInv, HistogramFine
  <2>2. CASE Connect
    BY <2>2 DEF Connect, Connected, LatencyInv, FeedFields, HistogramFine
  <2>3. CASE \E m \in Frames : Receive(m)
    BY <2>3, ReceiveTimed
  <2>4. CASE Take
    BY <2>4 DEF Take, LatencyInv, FeedFields, HistogramFine
  <2>5. CASE UNCHANGED vars
    BY <2>5 DEF vars, LatencyInv, HistogramFine
  <2>6. CASE \/ \E ok \in BOOLEAN : Stored(ok)
             \/ \E r \in Recovered : Replay(r)
             \/ ReplayStored \/ ReplayFails \/ Cleanup \/ Stop
             \/ \E s \in Symbols, files \in Histories : ProcessHistory(s, files)
    BY <2>6 DEF Stored, Replay, ReplayStored, ReplayFails, Cleanup, Stop, ProcessHistory,
                LatencyInv, HistogramFine
  <2> QED BY <2>1, <2>2, <2>3, <2>4, <2>5, <2>6 DEF Next
<1>3. LatencyInv => LatencyUnpoisoned
  BY DEF LatencyInv, HistogramFine, LatencyUnpoisoned
<1> QED BY <1>1, <1>2, <1>3, PTL DEF Spec

-----------------------------------------------------------------------------
(* The findings of the validator *)

LEMMA ConcatList ==
  ASSUME NEW s, NEW t, IsList(s), IsList(t)
  PROVE  IsList(s \o t)
<1> DEFINE U == Range(s) \cup Range(t)
           u == s \o t
<1>1. s \in Seq(U) /\ t \in Seq(U)
  BY DEF IsList
<1> HIDE DEF U
<1>2. u \in Seq(U)
  BY <1>1
<1> HIDE DEF u
<1>3. Len(u) \in Nat /\ u = [i \in 1 .. Len(u) |-> u[i]]
  BY <1>2
<1>4. IsList(u)
  BY <1>3, ListOf
<1> QED BY <1>4 DEF u

LEMMA WhenList ==
  ASSUME NEW condition, NEW finding
  PROVE  IsList(When(condition, finding))
<1>1. IsList(<<finding>>)
  BY DEF IsList, Range
<1> QED BY <1>1, EmptyList DEF When

LEMMA FindingsList ==
  ASSUME NEW c, NEW p, NEW t
  PROVE  IsList(FindingsOf(c, p, t))
<1>1. IsList(MissingFindings(p))
  BY WhenList DEF MissingFindings
<1>2. IsList(TradeFindings(c, p))
  BY WhenList, ConcatList DEF TradeFindings
<1>3. IsList(SizeFindings(c, p))
  BY WhenList DEF SizeFindings
<1>4. IsList(BookFindings(p))
  BY WhenList, ConcatList DEF BookFindings
<1>5. IsList(TimeFindings(c, p, t))
  BY WhenList, ConcatList DEF TimeFindings
<1>6. IsList(TradeFindings(c, p) \o SizeFindings(c, p))
  BY <1>2, <1>3, ConcatList
<1> DEFINE middle == CASE p.type = "trade"     -> TradeFindings(c, p) \o SizeFindings(c, p)
                       [] p.type = "orderbook" -> BookFindings(p)
                       [] OTHER                -> <<>>
<1>7. IsList(middle)
  BY <1>4, <1>6, EmptyList
<1>8. FindingsOf(c, p, t) = MissingFindings(p) \o middle \o TimeFindings(c, p, t)
  BY DEF FindingsOf
<1> HIDE DEF middle
<1> QED BY <1>1, <1>5, <1>7, <1>8, ConcatList

ChecksFine(c) == DOMAIN c = {"prices", "sizes", "stamps", "results"} /\ IsList(c.results)

LEMMA ValidatedFine ==
  ASSUME NEW c, ChecksFine(c), NEW p, NEW t
  PROVE  ChecksFine(Validated(c, p, t).checks)
<1> DEFINE q == Sanitized(p)[1]
           found == FindingsOf(c, q, t)
           base == [c EXCEPT !.results = @ \o found,
                             !.stamps[<<q.symbol, q.type>>] = LastN(Append(@, q.ts), StampCap)]
<1>1. IsList(c.results \o found)
  BY FindingsList, ConcatList DEF ChecksFine
<1>2. Validated(c, p, t).checks = c \/ Validated(c, p, t).checks = Checked(c, q, t)
  BY DEF Validated
<1> HIDE DEF q, found
<1>3. DOMAIN base = DOMAIN c /\ base.results = c.results \o found
  BY DEF ChecksFine
<1>4. DOMAIN Checked(c, q, t) = DOMAIN c /\ Checked(c, q, t).results = c.results \o found
  BY <1>3 DEF Checked, ChecksFine, found
<1> QED BY <1>1, <1>2, <1>4 DEF ChecksFine

Recent(R, t) == Only(R, LAMBDA r : r.ts >= t - ReportSpan)
Found(R, symbol, t) == Only(R, LAMBDA r : r.symbol = symbol /\ r.ts >= t - ReportSpan)

LEMMA RecentList ==
  ASSUME NEW R, IsList(R), NEW t
  PROVE  IsList(Recent(R, t))
BY AmongList DEF Recent, Only

\* The results a report counts are those it counts of the recent ones.
LEMMA FoundOfRecent ==
  ASSUME NEW R, IsList(R), NEW symbol, NEW t
  PROVE  Found(Recent(R, t), symbol, t) = Found(R, symbol, t)
<1> DEFINE S == Range(R)
           A == {r \in S : r.ts >= t - ReportSpan}
           B == {r \in S : r.symbol = symbol /\ r.ts >= t - ReportSpan}
           recent == Among(R, A)
           C == {r \in Range(recent) : r.symbol = symbol /\ r.ts >= t - ReportSpan}
<1>1. recent = Recent(R, t) /\ Found(R, symbol, t) = Among(R, B)
  BY DEF Recent, Found, Only
<1>2. Found(recent, symbol, t) = Among(recent, C)
  BY DEF Found, Only
<1>3. recent \in Seq(S \cap A) /\ IsList(recent)
  BY AmongList
<1>4. \A x \in Range(recent) : x \in C <=> x \in B
  <2> HIDE DEF recent
  <2>1. Range(recent) \subseteq S
    BY <1>3 DEF Range
  <2> QED BY <2>1
<1>5. A \cap B = B
  OBVIOUS
<1>6. R \in Seq(S)
  BY DEF IsList
<1> HIDE DEF S, A, B, C
<1>7. Among(recent, C) = Among(recent, B)
  <2> HIDE DEF recent
  <2>1. recent \in Seq(Range(recent))
    BY <1>3 DEF IsList
  <2>2. Filter!Sift(C, recent) = Filter!Sift(B, recent)
    BY <1>4, <2>1, AmongSifts, Filter!SiftSame
  <2> QED BY <2>2, AmongSifts
<1>8. Among(recent, B) = Among(R, B)
  <2>1. Filter!Sift(B, Filter!Sift(A, R)) = Filter!Sift(A \cap B, R)
    BY <1>6, AmongSifts, Filter!SiftTwice
  <2> QED BY <1>5, <2>1, AmongSifts
<1> QED BY <1>1, <1>2, <1>7, <1>8

LEMMA ClearedFine ==
  ASSUME NEW c, ChecksFine(c), NEW t
  PROVE  /\ DOMAIN ClearOldResults(c, t) = DOMAIN c
         /\ ClearOldResults(c, t).results = Recent(c.results, t)
         /\ ClearOldResults(c, t).stamps = c.stamps
BY DEF ClearOldResults, ChecksFine, Recent

LEMMA MetricsOfFound ==
  ASSUME NEW c, ChecksFine(c), NEW symbol, NEW t
  PROVE  QualityMetrics(ClearOldResults(c, t), symbol, t) = QualityMetrics(c, symbol, t)
<1> DEFINE n == ClearOldResults(c, t)
<1>1. Found(n.results, symbol, t) = Found(c.results, symbol, t) /\ n.stamps = c.stamps
  BY ClearedFine, FoundOfRecent DEF ChecksFine
<1> HIDE DEF n
<1>2. QualityMetrics(n, symbol, t) = QualityMetrics(c, symbol, t)
  BY <1>1 DEF QualityMetrics, Found
<1> QED BY <1>2 DEF n

\* What a report says of each symbol is the same right before and right after the
\* daily job clears the old results (ClearingUnseen), whatever was found.  The
\* summary of the report is not compared.
THEOREM ClearingNeverSeen == Spec => ClearingUnseen
<1>1. Init => ChecksFine(checks)
  BY EmptyList DEF Init, NewChecks, ChecksFine
<1>2. ChecksFine(checks) /\ [Next]_vars => ChecksFine(checks)'
  <2> SUFFICES ASSUME ChecksFine(checks), [Next]_vars
               PROVE  ChecksFine(checks')
    OBVIOUS
  <2>1. CASE Take
    BY <2>1, ValidatedFine DEF Take
  <2>2. CASE \E r \in Recovered : Replay(r)
    BY <2>2, ValidatedFine DEF Replay
  <2>3. CASE Cleanup
    <3>1. IsList(Recent(checks.results, now))
      BY RecentList DEF ChecksFine
    <3> QED BY <2>3, <3>1, ClearedFine DEF Cleanup, ChecksFine
  <2>4. CASE UNCHANGED vars
    BY <2>4 DEF vars
  <2>5. CASE \/ Tick \/ Connect \/ (\E m \in Frames : Receive(m))
             \/ (\E ok \in BOOLEAN : Stored(ok)) \/ ReplayStored \/ ReplayFails \/ Stop
             \/ \E s \in Symbols, files \in Histories : ProcessHistory(s, files)
    BY <2>5 DEF Tick, Connect, Receive, Stored, ReplayStored, ReplayFails, Stop, ProcessHistory
  <2> QED BY <2>1, <2>2, <2>3, <2>4, <2>5 DEF Next
<1>3. ChecksFine(checks) /\ Cleanup =>
          QualityReport(checks, now)'.symbols = QualityReport(checks, now).symbols
  <2> SUFFICES ASSUME ChecksFine(checks), Cleanup
               PROVE  QualityReport(checks', now').symbols = QualityReport(checks, now).symbols
    OBVIOUS
  <2>1. checks' = ClearOldResults(checks, now) /\ now' = now
    BY DEF Cleanup
  <2>2. \A s \in Symbols : QualityMetrics(checks', s, now') = QualityMetrics(checks, s, now)
    BY <2>1, MetricsOfFound
  <2> QED BY <2>2 DEF QualityReport
<1>4. ChecksFine(checks) /\ [Next]_vars => [Cleanup =>
          QualityReport(checks, now)'.symbols = QualityReport(checks, now).symbols]_vars
  BY <1>3
<1> QED BY <1>1, <1>2, <1>4, PTL DEF Spec, ClearingUnseen
=============================================================================
