----------------------- MODULE BatchingStorageProofs -----------------------
(***************************************************************************)
(* What TLAPS proves of BatchingStorage for every number of tasks, points  *)
(* and backends, every batch size and every buffer cap: its types, its cap *)
(* and its trace; what close() guarantees; where points are kept and in    *)
(* which order; and that the wrapper implements PointLedger.               *)
(***************************************************************************)
EXTENDS BatchingStorage, SequenceTheorems, FiniteSetTheorems, TLAPS

-----------------------------------------------------------------------------
(* The operators the wrapper is built from.                                *)

\* The cap keeps a suffix of at most max_buffer points, and what it does not
\* keep it evicts: between them they hold every point there was.
LEMMA CappedProperties ==
    ASSUME NEW S, NEW b \in Seq(S)
    PROVE  /\ Over(b) \in 0 .. Len(b)
           /\ Capped(b) \in Seq(S)
           /\ Len(Capped(b)) = Len(b) - Over(b)
           /\ Len(Capped(b)) <= MaxBuffer
           /\ \A i \in 1 .. Len(Capped(b)) : Capped(b)[i] = b[Over(b) + i]
           /\ Evictees(b) \subseteq S
<1>1. Len(b) \in Nat /\ \A i \in 1 .. Len(b) : b[i] \in S
  BY LenProperties, ElementOfSeq
<1>2. MaxBuffer \in Nat
  BY SizesAssumption
<1>3. Over(b) \in 0 .. Len(b) /\ Len(b) - Over(b) <= MaxBuffer
  BY <1>1, <1>2 DEF Over
<1>4. \A i \in Over(b) + 1 .. Len(b) : b[i] \in S
  BY <1>1, <1>3
<1>5. /\ Capped(b) \in Seq(S)
      /\ Len(Capped(b)) = Len(b) - Over(b)
      /\ \A i \in 1 .. Len(Capped(b)) : Capped(b)[i] = b[Over(b) + i]
  <2> DEFINE m == Over(b) + 1
             n == Len(b)
  <2>1. m \in Int /\ n \in Int /\ \A i \in m .. n : b[i] \in S
    BY <1>1, <1>3, <1>4
  <2> HIDE DEF m, n
  <2>2. /\ SubSeq(b, m, n) \in Seq(S)
        /\ Len(SubSeq(b, m, n)) = IF m <= n THEN n - m + 1 ELSE 0
        /\ \A i \in 1 .. n - m + 1 : SubSeq(b, m, n)[i] = b[m + i - 1]
    BY <2>1, SubSeqProperties
  <2> QED
    BY <2>2, <1>1, <1>3 DEF m, n, Capped
<1>6. Evictees(b) \subseteq S
  BY <1>1, <1>3 DEF Evictees
<1> QED
  BY <1>3, <1>5, <1>6

LEMMA CappedRange ==
    ASSUME NEW S, NEW b \in Seq(S)
    PROVE  Range(b) = Range(Capped(b)) \cup Evictees(b)
<1> DEFINE c == Capped(b)
<1>1. Over(b) \in 0 .. Len(b) /\ Len(b) \in Nat /\ c \in Seq(S)
  BY CappedProperties, LenProperties
<1>2. Range(b) = {b[i] : i \in 1 .. Len(b)} /\ Range(c) = {c[i] : i \in 1 .. Len(c)}
  BY <1>1, RangeEquality
<1>3. Len(c) = Len(b) - Over(b) /\ \A i \in 1 .. Len(c) : c[i] = b[Over(b) + i]
  BY CappedProperties
<1> HIDE DEF c
<1>4. ASSUME NEW i \in 1 .. Len(b)
      PROVE  b[i] \in Range(c) \cup Evictees(b)
  <2>1. CASE i <= Over(b)
    BY <2>1, <1>1 DEF Evictees
  <2>2. CASE i > Over(b)
    <3>1. i - Over(b) \in 1 .. Len(c) /\ c[i - Over(b)] = b[i]
      BY <2>2, <1>1, <1>3
    <3> QED
      BY <3>1, <1>2
  <2> QED
    BY <2>1, <2>2, <1>1
<1>5. Evictees(b) \subseteq Range(b)
  BY <1>1, <1>2 DEF Evictees
<1>6. Range(c) \subseteq Range(b)
  <2> SUFFICES ASSUME NEW i \in 1 .. Len(c)
               PROVE  c[i] \in Range(b)
    BY <1>2
  <2>1. Over(b) + i \in 1 .. Len(b) /\ c[i] = b[Over(b) + i]
    BY <1>1, <1>3
  <2> QED
    BY <2>1, <1>2
<1> QED
  BY <1>2, <1>4, <1>5, <1>6 DEF c

\* The points one store call appends.
LEMMA AppendedPoints ==
    ASSUME NEW n \in Nat, NEW k \in Nat, n + k <= MaxPoints
    PROVE  /\ [i \in 1 .. k |-> n + i] \in Seq(Points)
           /\ Range([i \in 1 .. k |-> n + i]) = n + 1 .. n + k
<1> DEFINE new == [i \in 1 .. k |-> n + i]
<1>1. \A i \in 1 .. k : n + i \in Points
  BY SizesAssumption DEF Points
<1>2. new \in [1 .. k -> Points]
  BY <1>1
<1>3. new \in Seq(Points)
  BY <1>2, SeqDef
<1>4. Range(new) = {n + i : i \in 1 .. k}
  BY DEF Range
<1>5. \A p \in n + 1 .. n + k : p - n \in 1 .. k /\ p = n + (p - n)
  OBVIOUS
<1>6. {n + i : i \in 1 .. k} = n + 1 .. n + k
  BY <1>5
<1> QED
  BY <1>3, <1>4, <1>6

\* A backend stores points of the batch only, and reports only what it stored;
\* one that writes in a transaction stores the whole batch if it stores any.
LEMMA OutcomeProperties ==
    ASSUME NEW S, NEW o \in InnerOutcomes(S), NEW b \in Backends
    PROVE  /\ o[b].stored \subseteq S
           /\ o[b].reported \subseteq o[b].stored
           /\ b \in AtomicBackends => o[b].stored \in {{}, S}
<1>1. o[b] \in BackendOutcomes(b, S)
  BY DEF InnerOutcomes
<1> QED
  BY <1>1 DEF BackendOutcomes

LEMMA AfterFlushPlace ==
    ASSUME NEW t \in Tasks
    PROVE  AfterFlush(t) \in {"idle", "closing", "done", "waiting"}
BY DEF AfterFlush, Tasks

-----------------------------------------------------------------------------
(* Type correctness, one lemma for each piece several operations share.    *)

LEMMA HandOverType ==
    ASSUME TypeOK, NEW t \in Tasks, NEW b \in Seq(Points), HandOver(t, b)
    PROVE  /\ batch' \in [Tasks -> Seq(Points)]
           /\ pc' \in [Tasks -> Places]
           /\ overlap' \in BOOLEAN
<1>1. AfterFlush(t) \in Places /\ "writing" \in Places
  BY AfterFlushPlace DEF Places
<1>2. batch' \in [Tasks -> Seq(Points)]
  BY DEF TypeOK, HandOver
<1>3. (IF b = <<>> THEN AfterFlush(t) ELSE "writing") \in Places
  BY <1>1
<1>4. pc' \in [Tasks -> Places]
  BY <1>3 DEF TypeOK, HandOver
<1>5. overlap' \in BOOLEAN
  BY DEF TypeOK, HandOver
<1> QED
  BY <1>2, <1>4, <1>5

LEMMA BeginFlushType ==
    ASSUME TypeOK, NEW t \in Tasks, NEW b \in Seq(Points), BeginFlush(t, b)
    PROVE  /\ buffer' \in Seq(Points)
           /\ batch' \in [Tasks -> Seq(Points)]
           /\ pc' \in [Tasks -> Places]
           /\ overlap' \in BOOLEAN
BY HandOverType, EmptySeq DEF BeginFlush

LEMMA EnforceCapType ==
    ASSUME TypeOK, NEW b \in Seq(Points), EnforceCap(b)
    PROVE  dropped' \in Nat /\ evicted' \subseteq Points
<1>1. Over(b) \in 0 .. Len(b) /\ Evictees(b) \subseteq Points
  BY CappedProperties
<1>2. Over(b) \in Nat
  BY <1>1
<1> QED
  BY <1>1, <1>2 DEF EnforceCap, TypeOK

LEMMA RecordWritesType ==
    ASSUME TypeOK, NEW S \in SUBSET Points, NEW o \in InnerOutcomes(S), RecordWrites(o)
    PROVE  written' \in [Backends -> SUBSET Points]
<1>1. \A b \in Backends : o[b].stored \subseteq S
  BY OutcomeProperties
<1> QED
  BY <1>1 DEF RecordWrites, TypeOK

LEMMA BatchPoints ==
    ASSUME TypeOK, NEW t \in Tasks
    PROVE  batch[t] \in Seq(Points) /\ Range(batch[t]) \in SUBSET Points
<1>1. batch[t] \in Seq(Points)
  BY DEF TypeOK
<1> QED
  BY <1>1, RangeOfSeq

LEMMA InnerReturnsType ==
    ASSUME TypeOK, NEW t \in Tasks, NEW refused, InnerReturns(t, refused)
    PROVE  /\ written' \in [Backends -> SUBSET Points]
           /\ batch' \in [Tasks -> Seq(Points)]
           /\ pc' \in [Tasks -> Places]
<1>1. written' \in [Backends -> SUBSET Points]
  <2>1. PICK o \in InnerOutcomes(Range(batch[t])) : RecordWrites(o)
    BY DEF InnerReturns
  <2> QED
    BY <2>1, BatchPoints, RecordWritesType
<1>2. batch' \in [Tasks -> Seq(Points)]
  BY EmptySeq DEF InnerReturns, TypeOK
<1>3. AfterFlush(t) \in Places
  BY AfterFlushPlace DEF Places
<1>4. pc' \in [Tasks -> Places]
  BY <1>3 DEF InnerReturns, TypeOK
<1> QED
  BY <1>1, <1>2, <1>4

LEMMA DropBatchType ==
    ASSUME TypeOK, NEW t \in Tasks, NEW place \in Places, DropBatch(t, place)
    PROVE  /\ written' \in [Backends -> SUBSET Points]
           /\ batch' \in [Tasks -> Seq(Points)]
           /\ pc' \in [Tasks -> Places]
<1>1. written' \in [Backends -> SUBSET Points]
  <2>1. PICK o \in InnerOutcomes(Range(batch[t])) : RecordWrites(o)
    BY DEF DropBatch
  <2> QED
    BY <2>1, BatchPoints, RecordWritesType
<1> QED
  BY <1>1, EmptySeq DEF DropBatch, TypeOK

\* What the buffer holds between the append and the cap.
Extended(k) == buffer \o [i \in 1 .. k |-> accepted + i]

LEMMA ExtendedBuffer ==
    ASSUME TypeOK, NEW w \in Tasks, NEW k \in Nat, AppendPoints(w, k)
    PROVE  /\ Extended(k) \in Seq(Points)
           /\ Range(Extended(k)) = Buffered \cup (accepted + 1 .. accepted + k)
<1> DEFINE new == [i \in 1 .. k |-> accepted + i]
<1>1. accepted + k <= MaxPoints /\ accepted \in Nat
  BY DEF AppendPoints, TypeOK
<1>2. new \in Seq(Points) /\ Range(new) = accepted + 1 .. accepted + k
  BY <1>1, AppendedPoints
<1>3. buffer \in Seq(Points)
  BY DEF TypeOK
<1> HIDE DEF new
<1>4. buffer \o new \in Seq(Points) /\ Range(buffer \o new) = Range(buffer) \cup Range(new)
  BY <1>2, <1>3, ConcatProperties, RangeConcatenation
<1> QED
  BY <1>2, <1>4 DEF new, Extended, Buffered

LEMMA AppendPointsType ==
    ASSUME TypeOK, NEW w \in Tasks, NEW k \in Nat, AppendPoints(w, k)
    PROVE  TypeOK'
<1> DEFINE kept == Capped(Extended(k))
<1>1. accepted + k <= MaxPoints /\ accepted \in Nat /\ accepted' = accepted + k
  BY DEF AppendPoints, TypeOK
<1>3. Extended(k) \in Seq(Points)
  BY ExtendedBuffer
<1>4. kept \in Seq(Points)
  BY <1>3, CappedProperties
<1>5. dropped' \in Nat /\ evicted' \subseteq Points
  BY <1>3, EnforceCapType DEF AppendPoints, Extended
<1>6. accepted' \in 0 .. MaxPoints
  BY <1>1, SizesAssumption
<1>7. \/ BeginFlush(w, kept)
      \/ buffer' = kept /\ UNCHANGED <<pc, batch, overlap>>
  BY DEF AppendPoints, Extended
<1>8. UNCHANGED <<written, closed, failed>>
  BY DEF AppendPoints
<1> HIDE DEF kept
<1>9. /\ buffer' \in Seq(Points)
      /\ batch' \in [Tasks -> Seq(Points)]
      /\ pc' \in [Tasks -> Places]
      /\ overlap' \in BOOLEAN
  <2>1. CASE BeginFlush(w, kept)
    BY <2>1, <1>4, BeginFlushType
  <2>2. CASE buffer' = kept /\ UNCHANGED <<pc, batch, overlap>>
    BY <2>2, <1>4 DEF TypeOK
  <2> QED
    BY <1>7, <2>1, <2>2
<1> QED
  BY <1>5, <1>6, <1>8, <1>9 DEF TypeOK

LEMMA RefillType ==
    ASSUME TypeOK, NEW b \in Seq(Points), Refill(b)
    PROVE  /\ buffer' \in Seq(Points)
           /\ dropped' \in Nat
           /\ evicted' \subseteq Points
           /\ failed' \in BOOLEAN
<1>1. Capped(b) \in Seq(Points)
  BY CappedProperties
<1>2. dropped' \in Nat /\ evicted' \subseteq Points
  BY EnforceCapType DEF Refill
<1> QED
  BY <1>1, <1>2 DEF Refill, TypeOK

LEMMA TypeStep == TypeOK /\ [Next]_vars => TypeOK'
<1> SUFFICES ASSUME TypeOK, [Next]_vars
             PROVE  TypeOK'
  OBVIOUS
<1>1. ASSUME Start PROVE TypeOK'
  BY <1>1 DEF Start, TypeOK, Places
<1>16. ASSUME LoopBegins PROVE TypeOK'
  BY <1>16 DEF LoopBegins, TypeOK, Places
<1>2. ASSUME LoopWake PROVE TypeOK'
  <2>1. Loop \in Tasks
    BY DEF Tasks
  <2> QED
    BY <1>2, <2>1, BeginFlushType DEF LoopWake, TypeOK
<1>3. ASSUME NEW w \in Writers, StoreDataPoint(w) PROVE TypeOK'
  BY <1>3, AppendPointsType DEF StoreDataPoint, Put, Tasks
<1>4. ASSUME NEW w \in Writers, StoreDataPoints(w) PROVE TypeOK'
  <2>1. PICK k \in 0 .. MaxBatch : Put(w, k)
    BY <1>4 DEF StoreDataPoints
  <2>2. k \in Nat /\ w \in Tasks
    BY DEF Tasks
  <2> QED
    BY <2>1, <2>2, AppendPointsType DEF Put
<1>5. ASSUME NEW r \in Readers, GetData(r) PROVE TypeOK'
  <2>1. r \in Tasks
    BY DEF Tasks
  <2> QED
    BY <1>5, <2>1, BeginFlushType DEF GetData, TypeOK
<1>6. ASSUME NEW t \in Tasks, FlushStored(t) PROVE TypeOK'
  <2>1. UNCHANGED <<accepted, closed, overlap, buffer, dropped, evicted, failed>>
    BY <1>6 DEF FlushStored, InnerReturns
  <2> QED
    BY <1>6, <2>1, InnerReturnsType DEF FlushStored, TypeOK
<1>7. ASSUME NEW t \in Tasks, FlushFailed(t) PROVE TypeOK'
  <2>1. batch[t] \o buffer \in Seq(Points)
    BY BatchPoints, ConcatProperties DEF TypeOK
  <2>2. UNCHANGED <<accepted, closed, overlap>>
    BY <1>7 DEF FlushFailed, InnerReturns
  <2> QED
    BY <1>7, <2>1, <2>2, InnerReturnsType, RefillType DEF FlushFailed, TypeOK
<1>8. ASSUME NEW t \in Tasks, CancelFlush(t) PROVE TypeOK'
  <2>1. "cancelled" \in Places
    BY DEF Places
  <2>2. UNCHANGED <<buffer, accepted, dropped, evicted, closed, overlap, failed>>
    BY <1>8 DEF CancelFlush, DropBatch
  <2> QED
    BY <1>8, <2>1, <2>2, DropBatchType DEF CancelFlush, TypeOK
<1>9. ASSUME NEW c \in Closers, CloseAgain(c) PROVE TypeOK'
  BY <1>9 DEF CloseAgain, TypeOK, Places
<1>10. ASSUME NEW c \in Closers, CloseAndJoin(c) PROVE TypeOK'
  BY <1>10 DEF CloseAndJoin, TypeOK, Places
<1>11. ASSUME NEW c \in Closers, CloseUnstarted(c) PROVE TypeOK'
  <2>1. c \in Tasks
    BY DEF Tasks
  <2> QED
    BY <1>11, <2>1, BeginFlushType DEF CloseUnstarted, TypeOK
<1>12. ASSUME NEW c \in Closers, CloseJoined(c) PROVE TypeOK'
  <2>1. c \in Tasks
    BY DEF Tasks
  <2> QED
    BY <1>12, <2>1, BeginFlushType DEF CloseJoined, TypeOK
<1>13. ASSUME NEW c \in Closers, CloseInner(c) PROVE TypeOK'
  BY <1>13 DEF CloseInner, TypeOK, Places
<1>14. ASSUME NEW c \in Closers, CancelJoin(c) PROVE TypeOK'
  <2>1. "done" \in Places /\ Loop \in Tasks
    BY DEF Places, Tasks
  <2>2. UNCHANGED <<buffer, accepted, dropped, evicted, closed, overlap, failed>>
    BY <1>14 DEF CancelJoin, DropBatch
  <2> QED
    BY <1>14, <2>1, <2>2, DropBatchType DEF CancelJoin, TypeOK
<1>15. ASSUME UNCHANGED vars PROVE TypeOK'
  BY <1>15 DEF vars, TypeOK
<1> QED
  BY <1>1, <1>2, <1>3, <1>4, <1>5, <1>6, <1>7, <1>8, <1>9, <1>10, <1>11, <1>12,
     <1>13, <1>14, <1>15, <1>16 DEF Next

LEMMA TypeInit == Init => TypeOK
<1> SUFFICES ASSUME Init PROVE TypeOK
  OBVIOUS
<1>1. <<>> \in Seq(Points)
  BY EmptySeq
<1>2. accepted \in 0 .. MaxPoints
  BY SizesAssumption DEF Init
<1> QED
  BY <1>1, <1>2 DEF Init, TypeOK, Places

\* Every attribute of the wrapper keeps its type (database.py, class
\* BatchingStorage): what is held, stored or dropped are points, whether accepted
\* or not is not said here (Known, below, says it of what is pending), and the
\* count of dropped points never goes below zero.
THEOREM TypeCorrect == Spec => []TypeOK
BY TypeInit, TypeStep, PTL DEF Spec

-----------------------------------------------------------------------------
(* The cap.  A batch is a whole buffer, so what bounds the buffer bounds    *)
(* every batch; that a task holds a batch only while it is writing is what  *)
(* lets a new flush start from an empty hand.                               *)

CapInv == TypeOK /\ BufferBounded /\ BatchPlace

LEMMA HandOverBatch ==
    ASSUME TypeOK, BatchPlace, NEW t \in Tasks, NEW b \in Seq(Points), HandOver(t, b)
    PROVE  /\ batch'[t] = b
           /\ \A u \in Tasks \ {t} : batch'[u] = batch[u]
           /\ BatchPlace'
<1>1. /\ batch'[t] = b
      /\ \A u \in Tasks \ {t} : batch'[u] = batch[u] /\ pc'[u] = pc[u]
      /\ pc'[t] = IF b = <<>> THEN AfterFlush(t) ELSE "writing"
  BY DEF HandOver, TypeOK
<1>2. AfterFlush(t) # "writing"
  BY AfterFlushPlace
<1>3. pc'[t] = "writing" <=> batch'[t] # <<>>
  BY <1>1, <1>2
<1>4. \A u \in Tasks \ {t} : pc'[u] = "writing" <=> batch'[u] # <<>>
  BY <1>1 DEF BatchPlace
<1> QED
  BY <1>1, <1>3, <1>4 DEF BatchPlace

LEMMA BeginFlushCap ==
    ASSUME CapInv, NEW t \in Tasks, NEW b \in Seq(Points), Len(b) <= MaxBuffer,
           BeginFlush(t, b)
    PROVE  BufferBounded' /\ BatchPlace'
<1>1. /\ batch'[t] = b
      /\ \A u \in Tasks \ {t} : batch'[u] = batch[u]
      /\ BatchPlace'
  BY HandOverBatch DEF BeginFlush, CapInv
<1>2. buffer' = <<>> /\ Len(<<>>) <= MaxBuffer
  BY SizesAssumption DEF BeginFlush
<1>3. \A u \in Tasks : Len(batch'[u]) <= MaxBuffer
  BY <1>1 DEF CapInv, BufferBounded
<1> QED
  BY <1>1, <1>2, <1>3 DEF BufferBounded

LEMMA EmptyHand ==
    ASSUME CapInv, NEW t \in Tasks, batch' = [batch EXCEPT ![t] = <<>>],
           pc'[t] # "writing", \A u \in Tasks \ {t} : pc'[u] = pc[u]
    PROVE  BatchPlace' /\ \A u \in Tasks : Len(batch'[u]) <= MaxBuffer
<1>1. batch'[t] = <<>> /\ \A u \in Tasks \ {t} : batch'[u] = batch[u]
  BY DEF CapInv, TypeOK
<1>2. Len(<<>>) <= MaxBuffer
  BY SizesAssumption
<1>3. \A u \in Tasks : pc'[u] = "writing" <=> batch'[u] # <<>>
  BY <1>1 DEF CapInv, BatchPlace
<1>4. \A u \in Tasks : Len(batch'[u]) <= MaxBuffer
  BY <1>1, <1>2 DEF CapInv, BufferBounded
<1> QED
  BY <1>3, <1>4 DEF BatchPlace

LEMMA InnerReturnsHand ==
    ASSUME TypeOK, NEW t \in Tasks, NEW refused, InnerReturns(t, refused)
    PROVE  /\ pc[t] = "writing"
           /\ pc'[t] # "writing"
           /\ \A u \in Tasks \ {t} : pc'[u] = pc[u]
           /\ batch' = [batch EXCEPT ![t] = <<>>]
BY AfterFlushPlace DEF InnerReturns, TypeOK

LEMMA CapStep == CapInv /\ [Next]_vars => CapInv'
<1> SUFFICES ASSUME CapInv, [Next]_vars
             PROVE  (BufferBounded /\ BatchPlace)'
  BY TypeStep DEF CapInv
<1> USE DEF CapInv
<1> DEFINE Kept == (BufferBounded /\ BatchPlace)'
<1>b. buffer \in Seq(Points) /\ Len(buffer) <= MaxBuffer
  BY DEF TypeOK, BufferBounded
<1>0. ASSUME NEW w \in Tasks, NEW k \in Nat, AppendPoints(w, k) PROVE Kept
  <2> DEFINE kept == Capped(Extended(k))
  <2>2. kept \in Seq(Points) /\ Len(kept) <= MaxBuffer
    BY <1>0, ExtendedBuffer, CappedProperties
  <2>3. \/ BeginFlush(w, kept)
        \/ buffer' = kept /\ UNCHANGED <<pc, batch, overlap>>
    BY <1>0 DEF AppendPoints, Extended
  <2> HIDE DEF kept
  <2>4. CASE BeginFlush(w, kept)
    BY <2>2, <2>4, BeginFlushCap
  <2>5. CASE buffer' = kept /\ UNCHANGED <<pc, batch, overlap>>
    BY <2>2, <2>5 DEF BufferBounded, BatchPlace
  <2> QED
    BY <2>3, <2>4, <2>5
<1>1. ASSUME Start PROVE Kept
  BY <1>1 DEF Start, TypeOK, BufferBounded, BatchPlace
<1>16. ASSUME LoopBegins PROVE Kept
  BY <1>16 DEF LoopBegins, TypeOK, BufferBounded, BatchPlace
<1>2. ASSUME LoopWake PROVE Kept
  BY <1>2, <1>b, BeginFlushCap DEF LoopWake, Tasks
<1>3. ASSUME NEW w \in Writers, StoreDataPoint(w) PROVE Kept
  BY <1>3, <1>0 DEF StoreDataPoint, Put, Tasks
<1>4. ASSUME NEW w \in Writers, StoreDataPoints(w) PROVE Kept
  BY <1>4, <1>0, SizesAssumption DEF StoreDataPoints, Put, Tasks
<1>5. ASSUME NEW r \in Readers, GetData(r) PROVE Kept
  BY <1>5, <1>b, BeginFlushCap DEF GetData, Tasks
<1>6. ASSUME NEW t \in Tasks, FlushStored(t) PROVE Kept
  BY <1>6, <1>b, InnerReturnsHand, EmptyHand DEF FlushStored, BufferBounded
<1>7. ASSUME NEW t \in Tasks, FlushFailed(t) PROVE Kept
  <2>1. batch[t] \o buffer \in Seq(Points)
    BY <1>b, BatchPoints, ConcatProperties
  <2>2. Len(buffer') <= MaxBuffer
    BY <1>7, <2>1, CappedProperties DEF FlushFailed, Refill
  <2> QED
    BY <1>7, <2>2, InnerReturnsHand, EmptyHand DEF FlushFailed, BufferBounded
<1>8. ASSUME NEW t \in Tasks, CancelFlush(t) PROVE Kept
  <2>1. /\ pc'[t] # "writing"
        /\ \A u \in Tasks \ {t} : pc'[u] = pc[u]
        /\ batch' = [batch EXCEPT ![t] = <<>>]
        /\ buffer' = buffer
    BY <1>8 DEF CancelFlush, DropBatch, TypeOK
  <2> QED
    BY <1>b, <2>1, EmptyHand DEF BufferBounded
<1>9. ASSUME NEW c \in Closers, CloseAgain(c) PROVE Kept
  BY <1>9 DEF CloseAgain, TypeOK, BufferBounded, BatchPlace
<1>10. ASSUME NEW c \in Closers, CloseAndJoin(c) PROVE Kept
  BY <1>10 DEF CloseAndJoin, TypeOK, BufferBounded, BatchPlace
<1>11. ASSUME NEW c \in Closers, CloseUnstarted(c) PROVE Kept
  BY <1>11, <1>b, BeginFlushCap DEF CloseUnstarted, Tasks
<1>12. ASSUME NEW c \in Closers, CloseJoined(c) PROVE Kept
  BY <1>12, <1>b, BeginFlushCap DEF CloseJoined, Tasks
<1>13. ASSUME NEW c \in Closers, CloseInner(c) PROVE Kept
  BY <1>13 DEF CloseInner, TypeOK, BufferBounded, BatchPlace
<1>14. ASSUME NEW c \in Closers, CancelJoin(c) PROVE Kept
  <2>1. Loop \in Tasks
    BY DEF Tasks
  <2>2. /\ pc'[Loop] # "writing"
        /\ \A u \in Tasks \ {Loop} : pc'[u] = pc[u]
        /\ batch' = [batch EXCEPT ![Loop] = <<>>]
        /\ buffer' = buffer
    BY <1>14, <2>1 DEF CancelJoin, DropBatch, TypeOK
  <2> QED
    BY <1>b, <2>1, <2>2, EmptyHand DEF BufferBounded
<1>15. ASSUME UNCHANGED vars PROVE Kept
  BY <1>15 DEF vars, BufferBounded, BatchPlace
<1> QED
  BY <1>1, <1>2, <1>3, <1>4, <1>5, <1>6, <1>7, <1>8, <1>9, <1>10, <1>11, <1>12,
     <1>13, <1>14, <1>15, <1>16 DEF Next

LEMMA CapInit == Init => CapInv
<1> SUFFICES ASSUME Init PROVE CapInv
  OBVIOUS
<1>1. Len(<<>>) = 0 /\ 0 <= MaxBuffer
  BY SizesAssumption
<1> QED
  BY <1>1, TypeInit DEF CapInv, Init, BufferBounded, BatchPlace

LEMMA CapInvariant == Spec => []CapInv
BY CapInit, CapStep, PTL DEF Spec

\* _enforce_cap_locked after every append and every re-queueing bounds the
\* buffer, and every batch a task has out, by max_buffer: the memory the wrapper
\* holds is bounded however long the backends stay down.
THEOREM CapHolds == Spec => []BufferBounded
BY CapInvariant, PTL DEF CapInv

-----------------------------------------------------------------------------
(* Where points go.  Each lemma says what one piece of a step does to the   *)
(* sets of points buffered, in flight, stored and evicted.                  *)

LEMMA RangeOfNothing == Range(<<>>) = {}
BY DEF Range

LEMMA HandFilled ==
    ASSUME CapInv, NEW t \in Tasks, pc[t] # "writing", NEW b \in Seq(Points),
           HandOver(t, b)
    PROVE  InFlight' = InFlight \cup Range(b)
<1>1. batch'[t] = b /\ \A u \in Tasks \ {t} : batch'[u] = batch[u]
  BY HandOverBatch DEF CapInv
<1>2. Range(batch[t]) = {}
  BY RangeOfNothing DEF CapInv, BatchPlace
<1>3. InFlight = UNION {Range(batch[u]) : u \in Tasks \ {t}}
  BY <1>2 DEF InFlight
<1>4. InFlight' = Range(b) \cup UNION {Range(batch[u]) : u \in Tasks \ {t}}
  BY <1>1 DEF InFlight
<1> QED
  BY <1>3, <1>4

LEMMA HandEmptied ==
    ASSUME CapInv, NEW t \in Tasks, batch' = [batch EXCEPT ![t] = <<>>]
    PROVE  InFlight' = UNION {Range(batch[u]) : u \in Tasks \ {t}}
<1>1. batch'[t] = <<>> /\ \A u \in Tasks \ {t} : batch'[u] = batch[u]
  BY DEF CapInv, TypeOK
<1> QED
  BY <1>1, RangeOfNothing DEF InFlight

LEMMA BufferTaken ==
    ASSUME CapInv, NEW t \in Tasks, pc[t] # "writing", NEW b \in Seq(Points),
           BeginFlush(t, b)
    PROVE  Pending' = InFlight \cup Range(b)
<1>1. InFlight' = InFlight \cup Range(b)
  BY HandFilled DEF BeginFlush
<1>2. Buffered' = {}
  BY RangeOfNothing DEF BeginFlush, Buffered
<1> QED
  BY <1>1, <1>2 DEF Pending

LEMMA CapMoves ==
    ASSUME NEW b \in Seq(Points), EnforceCap(b)
    PROVE  /\ evicted' = evicted \cup Evictees(b)
           /\ Range(b) = Range(Capped(b)) \cup Evictees(b)
BY CappedRange DEF EnforceCap

LEMMA WritesAdd ==
    ASSUME TypeOK, NEW S, NEW o \in InnerOutcomes(S), RecordWrites(o)
    PROVE  /\ Written \subseteq Written'
           /\ Written' \subseteq Written \cup S
           /\ (AtomicBackends = Backends /\ ~NothingReported(o)) => S \subseteq Written'
<1>1. \A b \in Backends : written'[b] = written[b] \cup o[b].stored
  BY DEF RecordWrites
<1>2. Written \subseteq Written'
  BY <1>1 DEF Written
<1>3. \A b \in Backends : o[b].stored \subseteq S
  BY OutcomeProperties
<1>4. Written' \subseteq Written \cup S
  BY <1>1, <1>3 DEF Written
<1>5. ASSUME AtomicBackends = Backends, ~NothingReported(o)
      PROVE  S \subseteq Written'
  <2>1. PICK b \in Backends : o[b].reported # {}
    BY <1>5 DEF NothingReported
  <2>2. o[b].stored = S
    BY <1>5, <2>1, OutcomeProperties
  <2> QED
    BY <1>1, <2>2 DEF Written
<1> QED
  BY <1>2, <1>4, <1>5

-----------------------------------------------------------------------------
(* No trace is lost: what a step does to a point that is accounted for.     *)

\* Every backend writes its batch in one transaction, and no task is cancelled.
Lossless == AtomicBackends = Backends /\ Cancellable = {}

TraceKept ==
    /\ Written \subseteq Written'
    /\ evicted \subseteq evicted'
    /\ Buffered \subseteq Traceable'
    /\ Accepted' \ Accepted \subseteq Traceable'

\* No more is a point that is out with a batch.
BatchesKept == InFlight \subseteq Traceable'

\* A flush that only takes the buffer keeps every trace.
LEMMA TakingKeepsTrace ==
    ASSUME CapInv, NEW t \in Tasks, pc[t] # "writing", BeginFlush(t, buffer),
           UNCHANGED <<accepted, evicted, written>>
    PROVE  TraceKept /\ BatchesKept
<1>1. buffer \in Seq(Points)
  BY DEF CapInv, TypeOK
<1>2. Pending' = InFlight \cup Buffered
  BY <1>1, BufferTaken DEF Buffered
<1>3. Written' = Written /\ Accepted' = Accepted /\ evicted' = evicted
  BY DEF Written, Accepted
<1> QED
  BY <1>2, <1>3 DEF TraceKept, BatchesKept, Traceable

\* A step that moves no point keeps every trace.
LEMMA StillKeepsTrace ==
    ASSUME UNCHANGED <<buffer, accepted, evicted, written, batch>>
    PROVE  TraceKept /\ BatchesKept
<1>1. /\ Buffered' = Buffered
      /\ InFlight' = InFlight
      /\ Written' = Written
      /\ Accepted' = Accepted
      /\ evicted' = evicted
  BY DEF Buffered, InFlight, Written, Accepted
<1> QED
  BY <1>1 DEF TraceKept, BatchesKept, Traceable, Pending

LEMMA AppendingKeepsTrace ==
    ASSUME CapInv, NEW w \in Tasks, NEW k \in Nat, AppendPoints(w, k)
    PROVE  TraceKept /\ BatchesKept
<1> DEFINE kept == Capped(Extended(k))
<1>1. /\ Extended(k) \in Seq(Points)
      /\ Range(Extended(k)) = Buffered \cup (accepted + 1 .. accepted + k)
  BY ExtendedBuffer DEF CapInv
<1>2. /\ kept \in Seq(Points)
      /\ evicted' = evicted \cup Evictees(Extended(k))
      /\ Range(Extended(k)) = Range(kept) \cup Evictees(Extended(k))
  BY <1>1, CapMoves, CappedProperties DEF AppendPoints, Extended
<1>3. pc[w] # "writing" /\ written' = written /\ accepted' = accepted + k
  BY DEF AppendPoints
<1>4. \/ BeginFlush(w, kept)
      \/ buffer' = kept /\ UNCHANGED <<pc, batch, overlap>>
  BY DEF AppendPoints, Extended
<1> HIDE DEF kept
<1>5. Pending' = InFlight \cup Range(kept)
  <2>1. CASE BeginFlush(w, kept)
    BY <1>2, <1>3, <2>1, BufferTaken
  <2>2. CASE buffer' = kept /\ UNCHANGED <<pc, batch, overlap>>
    BY <2>2 DEF Pending, Buffered, InFlight
  <2> QED
    BY <1>4, <2>1, <2>2
<1>6. Accepted' \ Accepted = accepted + 1 .. accepted + k
  BY <1>3 DEF CapInv, TypeOK, Accepted
<1>7. Written' = Written
  BY <1>3 DEF Written
<1> QED
  BY <1>1, <1>2, <1>5, <1>6, <1>7 DEF TraceKept, BatchesKept, Traceable

\* The batch of task t comes back, stored or not.
LEMMA ReturningKeepsTrace ==
    ASSUME CapInv, NEW t \in Tasks, FlushStored(t) \/ FlushFailed(t)
    PROVE  TraceKept /\ (AtomicBackends = Backends => BatchesKept)
<1>1. PICK refused \in BOOLEAN : InnerReturns(t, refused)
  BY DEF FlushStored, FlushFailed
<1>2. PICK o \in InnerOutcomes(Range(batch[t])) :
        NothingReported(o) = refused /\ RecordWrites(o)
  BY <1>1 DEF InnerReturns
<1>3. /\ Written \subseteq Written'
      /\ (AtomicBackends = Backends /\ ~NothingReported(o))
            => Range(batch[t]) \subseteq Written'
  BY <1>2, WritesAdd DEF CapInv
<1>4. InFlight \subseteq InFlight' \cup Range(batch[t])
  BY <1>1, HandEmptied DEF InnerReturns, InFlight
<1>5. Accepted' = Accepted
  BY <1>1 DEF InnerReturns, Accepted
<1>6. CASE FlushStored(t)
  <2>1. Buffered' = Buffered /\ evicted' = evicted
    BY <1>6 DEF FlushStored, Buffered
  <2>2. \E q \in InnerOutcomes(Range(batch[t])) :
          ~NothingReported(q) /\ RecordWrites(q)
    BY <1>6 DEF FlushStored, InnerReturns
  <2>3. AtomicBackends = Backends => Range(batch[t]) \subseteq Written'
    BY <2>2, WritesAdd DEF CapInv
  <2> QED
    BY <1>3, <1>4, <1>5, <2>1, <2>3 DEF TraceKept, BatchesKept, Traceable, Pending
<1>7. CASE FlushFailed(t)
  <2> DEFINE requeued == batch[t] \o buffer
  <2>1. requeued \in Seq(Points) /\ Range(requeued) = Range(batch[t]) \cup Buffered
    BY BatchPoints, ConcatProperties, RangeConcatenation DEF CapInv, TypeOK, Buffered
  <2>2. /\ Buffered' = Range(Capped(requeued))
        /\ EnforceCap(requeued)
    BY <1>7 DEF FlushFailed, Refill, Buffered
  <2> HIDE DEF requeued
  <2>3. /\ evicted' = evicted \cup Evictees(requeued)
        /\ Range(requeued) = Range(Capped(requeued)) \cup Evictees(requeued)
    BY <2>1, <2>2, CapMoves
  <2> QED
    BY <1>3, <1>4, <1>5, <2>1, <2>2, <2>3 DEF TraceKept, BatchesKept, Traceable, Pending
<1> QED
  BY <1>6, <1>7

\* A cancellation may lose the batch it hits, and no more.
LEMMA DroppingKeepsTrace ==
    ASSUME CapInv, NEW t \in Tasks, NEW place, DropBatch(t, place)
    PROVE  TraceKept /\ InFlight \subseteq Traceable' \cup Range(batch[t])
<1>1. PICK o \in InnerOutcomes(Range(batch[t])) : RecordWrites(o)
  BY DEF DropBatch
<1>2. Written \subseteq Written'
  BY <1>1, WritesAdd DEF CapInv
<1>3. Buffered' = Buffered /\ evicted' = evicted /\ Accepted' = Accepted
  BY DEF DropBatch, Buffered, Accepted
<1>4. InFlight \subseteq InFlight' \cup Range(batch[t])
  BY HandEmptied DEF DropBatch, InFlight
<1> QED
  BY <1>2, <1>3, <1>4 DEF TraceKept, Traceable, Pending

\* The steps that cancel no task.
Calm ==
    \/ Start \/ LoopBegins \/ LoopWake
    \/ \E w \in Writers : StoreDataPoint(w) \/ StoreDataPoints(w)
    \/ \E r \in Readers : GetData(r)
    \/ \E t \in Tasks : FlushStored(t) \/ FlushFailed(t)
    \/ \E c \in Closers :
        \/ CloseAgain(c) \/ CloseAndJoin(c) \/ CloseUnstarted(c)
        \/ CloseJoined(c) \/ CloseInner(c)

CalmTrace == TraceKept /\ (AtomicBackends = Backends => BatchesKept)

LEMMA CalmKeepsTrace == CapInv /\ [Calm]_vars => CalmTrace
<1> SUFFICES ASSUME CapInv, [Calm]_vars PROVE CalmTrace
  OBVIOUS
<1>1. ASSUME Start \/ LoopBegins PROVE CalmTrace
  BY <1>1, StillKeepsTrace DEF Start, LoopBegins, CalmTrace
<1>2. ASSUME LoopWake PROVE CalmTrace
  BY <1>2, TakingKeepsTrace DEF LoopWake, Tasks, CalmTrace
<1>3. ASSUME NEW w \in Writers, StoreDataPoint(w) \/ StoreDataPoints(w) PROVE CalmTrace
  BY <1>3, AppendingKeepsTrace, SizesAssumption
     DEF StoreDataPoint, StoreDataPoints, Put, Tasks, CalmTrace
<1>4. ASSUME NEW r \in Readers, GetData(r) PROVE CalmTrace
  BY <1>4, TakingKeepsTrace DEF GetData, Tasks, CalmTrace
<1>5. ASSUME NEW t \in Tasks, FlushStored(t) \/ FlushFailed(t) PROVE CalmTrace
  BY <1>5, ReturningKeepsTrace DEF CalmTrace
<1>6. ASSUME NEW c \in Closers, CloseAgain(c) \/ CloseAndJoin(c) \/ CloseInner(c)
      PROVE  CalmTrace
  BY <1>6, StillKeepsTrace DEF CloseAgain, CloseAndJoin, CloseInner, CalmTrace
<1>7. ASSUME NEW c \in Closers, CloseUnstarted(c) \/ CloseJoined(c) PROVE CalmTrace
  BY <1>7, TakingKeepsTrace DEF CloseUnstarted, CloseJoined, Tasks, CalmTrace
<1>8. ASSUME UNCHANGED vars PROVE CalmTrace
  BY <1>8, StillKeepsTrace DEF vars, CalmTrace
<1> QED
  BY <1>1, <1>2, <1>3, <1>4, <1>5, <1>6, <1>7, <1>8 DEF Calm

LEMMA TraceStep ==
    ASSUME CapInv, [Next]_vars
    PROVE  TraceKept /\ (Lossless => BatchesKept)
<1>1. \/ [Calm]_vars
      \/ \E t \in Tasks : CancelFlush(t)
      \/ \E c \in Closers : CancelJoin(c)
  BY DEF Next, Calm
<1>2. CASE [Calm]_vars
  BY <1>2, CalmKeepsTrace DEF CalmTrace, Lossless
<1>3. ASSUME NEW t \in Tasks, CancelFlush(t) PROVE TraceKept /\ Cancellable # {}
  BY <1>3, DroppingKeepsTrace DEF CancelFlush
<1>4. ASSUME NEW c \in Closers, CancelJoin(c) PROVE TraceKept /\ Cancellable # {}
  BY <1>4, DroppingKeepsTrace DEF CancelJoin, Tasks
<1> QED
  BY <1>1, <1>2, <1>3, <1>4 DEF Lossless

\* Whatever the backends do and whichever task is cancelled, no step loses a
\* point that is waiting in the buffer: a point disappears without trace only
\* from a batch that is at the inner store (flush, database.py).
THEOREM BufferNeverLeaks == Spec => VanishOnlyInFlight
<1>1. CapInv /\ [Next]_vars => [Vanished' \ Vanished \subseteq InFlight]_vars
  BY TraceStep DEF TraceKept, Vanished, Traceable, Pending
<1> QED
  BY <1>1, CapInvariant, PTL DEF Spec, VanishOnlyInFlight

\* Backends that write a batch in one transaction and tasks that are never
\* cancelled lose nothing silently: every accepted point is waiting, stored by
\* some backend, or counted in dropped_count, even if a backend fails after its
\* transaction took effect.
THEOREM NothingLost == Lossless => (Spec => []NoSilentLoss)
<1> SUFFICES ASSUME Lossless PROVE Spec => []NoSilentLoss
  OBVIOUS
<1>1. Init => NoSilentLoss
  BY DEF Init, NoSilentLoss, Vanished, Accepted
<1>2. CapInv /\ NoSilentLoss /\ [Next]_vars => NoSilentLoss'
  BY TraceStep DEF TraceKept, BatchesKept, NoSilentLoss, Vanished, Traceable, Pending
<1> QED
  BY <1>1, <1>2, CapInvariant, PTL DEF Spec

-----------------------------------------------------------------------------
(***************************************************************************)
(* close(): the inner store is closed after the periodic task, and the     *)
(* buffer is flushed, whatever the backends do and whoever is cancelled.   *)
(***************************************************************************)

\* Where the tasks stand with respect to closing.  The periodic task is never
\* cancelled on its own; whoever is past the wait for it found it ended, or
\* found that it never began, and a closed storage starts none.
CloseOrder ==
    /\ pc[Loop] \in {"off", "started", "waiting", "writing", "done"}
    /\ \A c \in Closers :
        /\ pc[c] \in {"idle", "joining", "writing", "closing", "done", "cancelled"}
        /\ pc[c] \in {"writing", "closing"} => closed /\ pc[Loop] \in {"off", "done"}
        /\ pc[c] = "joining" => closed

\* What is in the buffer of a closed storage waits for a close() that has not
\* yet taken it, unless a batch came back.
Drained ==
    (closed /\ ~failed) => (buffer = <<>> \/ \E c \in Closers : pc[c] = "joining")

CloseInv == TypeOK /\ BatchPlace /\ CloseOrder /\ Drained

LEMMA Roles ==
    /\ Loop \in Tasks /\ Loop \notin Closers
    /\ \A c \in Closers : c \in Tasks /\ c # Loop /\ c \notin Writers \cup Readers
    /\ \A c \in Writers \cup Readers : c \in Tasks /\ c # Loop /\ c \notin Closers
    /\ Loop \notin Cancellable
BY TasksAssumption DEF Tasks

LEMMA AfterFlushRoles ==
    /\ \A t \in Writers \cup Readers : AfterFlush(t) = "idle"
    /\ \A t \in Closers : AfterFlush(t) = "closing"
    /\ AfterFlush(Loop) = IF closed THEN "done" ELSE "waiting"
BY TasksAssumption DEF AfterFlush

LEMMA HandOverPlaces ==
    ASSUME TypeOK, NEW t \in Tasks, NEW b, HandOver(t, b)
    PROVE  /\ pc'[t] \in {"writing", AfterFlush(t)}
           /\ \A u \in Tasks \ {t} : pc'[u] = pc[u]
BY DEF TypeOK, HandOver

\* A task that is no closer begins a flush, or ends one.
LEMMA OthersFlush ==
    ASSUME CloseInv, NEW t \in Tasks \ Closers, closed' = closed,
           t = Loop => pc[Loop] \in {"waiting", "writing"},
           pc'[t] \in {"writing", AfterFlush(t), "cancelled"},
           t = Loop => pc'[t] # "cancelled",
           \A u \in Tasks \ {t} : pc'[u] = pc[u]
    PROVE  CloseOrder'
<1>1. CASE t = Loop
  <2>1. pc'[Loop] \in {"writing", "done", "waiting"}
    BY <1>1, AfterFlushRoles
  <2>2. \A c \in Closers : pc'[c] = pc[c] /\ pc[c] \notin {"writing", "closing"}
    BY <1>1, Roles DEF CloseInv, CloseOrder
  <2> QED
    BY <2>1, <2>2 DEF CloseInv, CloseOrder
<1>2. CASE t # Loop
  <2>1. pc'[Loop] = pc[Loop] /\ \A c \in Closers : pc'[c] = pc[c]
    BY <1>2, Roles
  <2> QED
    BY <2>1 DEF CloseInv, CloseOrder
<1> QED
  BY <1>1, <1>2

\* A closer begins the final flush, ends it, or is done.
LEMMA CloserMoves ==
    ASSUME CloseInv, NEW c \in Closers, closed', pc[Loop] \in {"off", "done"},
           pc'[c] \in {"writing", "closing", "done", "cancelled"},
           \A u \in Tasks \ {c} : pc'[u] = pc[u]
    PROVE  CloseOrder'
<1>1. pc'[Loop] = pc[Loop] /\ \A d \in Closers \ {c} : pc'[d] = pc[d]
  BY Roles
<1> QED
  BY <1>1 DEF CloseInv, CloseOrder

LEMMA CloseOrderStep == CloseInv /\ [Next]_vars => CloseOrder'
<1> SUFFICES ASSUME CloseInv, [Next]_vars PROVE CloseOrder'
  OBVIOUS
<1> USE DEF CloseInv
<1>1. ASSUME Start PROVE CloseOrder'
  <2>1. pc'[Loop] = "started" /\ \A c \in Closers : pc'[c] = pc[c] /\ ~closed /\ ~closed'
    BY <1>1, Roles DEF Start, TypeOK
  <2> QED
    BY <2>1 DEF CloseOrder
<1>2. ASSUME LoopBegins PROVE CloseOrder'
  <2>1. pc'[Loop] \in {"done", "waiting"} /\ closed' = closed /\ pc[Loop] = "started"
    BY <1>2, Roles DEF LoopBegins, TypeOK
  <2>2. \A c \in Closers : pc'[c] = pc[c]
    BY <1>2, Roles DEF LoopBegins, TypeOK
  <2> QED
    BY <2>1, <2>2 DEF CloseOrder
<1>3. ASSUME LoopWake PROVE CloseOrder'
  BY <1>3, Roles, HandOverPlaces, OthersFlush, AfterFlushPlace DEF LoopWake, BeginFlush
<1>4. ASSUME NEW w \in Writers, NEW k, Put(w, k) PROVE CloseOrder'
  <2>1. w \in Tasks \ Closers /\ w # Loop /\ closed' = closed
    BY <1>4, Roles DEF Put, AppendPoints
  <2>2. \/ \E b : HandOver(w, b)
        \/ pc' = pc
    BY <1>4 DEF Put, AppendPoints, BeginFlush
  <2>3. CASE \E b : HandOver(w, b)
    BY <2>1, <2>3, HandOverPlaces, OthersFlush
  <2>4. CASE pc' = pc
    BY <2>1, <2>4 DEF CloseOrder
  <2> QED
    BY <2>2, <2>3, <2>4
<1>5. ASSUME NEW r \in Readers, GetData(r) PROVE CloseOrder'
  BY <1>5, Roles, HandOverPlaces, OthersFlush DEF GetData, BeginFlush
<1>6. ASSUME NEW t \in Tasks, NEW refused, InnerReturns(t, refused) PROVE CloseOrder'
  <2>1. /\ closed' = closed /\ pc[t] = "writing" /\ pc'[t] = AfterFlush(t)
        /\ \A u \in Tasks \ {t} : pc'[u] = pc[u]
    BY <1>6 DEF InnerReturns, TypeOK
  <2>2. CASE t \in Closers
    BY <2>1, <2>2, AfterFlushRoles, CloserMoves DEF CloseOrder
  <2>3. CASE t \notin Closers
    BY <2>1, <2>3, AfterFlushPlace, OthersFlush
  <2> QED
    BY <2>2, <2>3
<1>7. ASSUME NEW t \in Tasks, CancelFlush(t) PROVE CloseOrder'
  <2>1. /\ closed' = closed /\ pc[t] = "writing" /\ pc'[t] = "cancelled" /\ t # Loop
        /\ \A u \in Tasks \ {t} : pc'[u] = pc[u]
    BY <1>7, Roles DEF CancelFlush, DropBatch, TypeOK
  <2>2. CASE t \in Closers
    BY <2>1, <2>2, CloserMoves DEF CloseOrder
  <2>3. CASE t \notin Closers
    BY <2>1, <2>3, OthersFlush
  <2> QED
    BY <2>2, <2>3
<1>8. ASSUME NEW c \in Closers, CloseAgain(c) \/ CloseInner(c) PROVE CloseOrder'
  <2>1. /\ closed' = closed /\ pc'[c] = "done" /\ pc'[Loop] = pc[Loop]
        /\ \A d \in Closers \ {c} : pc'[d] = pc[d]
    BY <1>8, Roles DEF CloseAgain, CloseInner, TypeOK
  <2> QED
    BY <2>1 DEF CloseOrder
<1>9. ASSUME NEW c \in Closers, CloseAndJoin(c) PROVE CloseOrder'
  <2>1. /\ closed' /\ pc'[c] = "joining" /\ pc'[Loop] = pc[Loop]
        /\ \A d \in Closers \ {c} : pc'[d] = pc[d]
    BY <1>9, Roles DEF CloseAndJoin, TypeOK
  <2> QED
    BY <2>1 DEF CloseOrder
<1>10. ASSUME NEW c \in Closers, CloseUnstarted(c) \/ CloseJoined(c) PROVE CloseOrder'
  <2>1. /\ closed' /\ pc[Loop] \in {"off", "done"} /\ HandOver(c, buffer)
    BY <1>10 DEF CloseUnstarted, CloseJoined, BeginFlush, CloseOrder
  <2>2. /\ pc'[c] \in {"writing", "closing"}
        /\ \A u \in Tasks \ {c} : pc'[u] = pc[u]
    BY <2>1, Roles, HandOverPlaces, AfterFlushRoles
  <2> QED
    BY <2>1, <2>2, CloserMoves
<1>11. ASSUME NEW c \in Closers, CancelJoin(c) PROVE CloseOrder'
  <2>1. /\ closed' = closed /\ pc'[Loop] = "done"
        /\ \A d \in Closers : pc'[d] = pc[d]
    BY <1>11, Roles DEF CancelJoin, DropBatch, TypeOK
  <2> QED
    BY <2>1 DEF CloseOrder
<1>12. ASSUME UNCHANGED vars PROVE CloseOrder'
  BY <1>12 DEF vars, CloseOrder
<1> QED
  BY <1>1, <1>2, <1>3, <1>4, <1>5, <1>6, <1>7, <1>8, <1>9, <1>10, <1>11, <1>12
     DEF Next, StoreDataPoint, StoreDataPoints, FlushStored, FlushFailed

\* A step that leaves the storage open, or a batch back in the buffer, owes
\* nothing; one that begins a flush takes the buffer.
LEMMA DrainedStep == CloseInv /\ [Next]_vars => Drained'
<1> SUFFICES ASSUME CloseInv, [Next]_vars, closed', ~failed' PROVE Drained'
  BY DEF Drained
<1> USE DEF CloseInv
<1> DEFINE Taken == buffer' = <<>>
           Joining == \E c \in Closers : pc'[c] = "joining"
<1> SUFFICES Taken \/ Joining
  BY DEF Drained
<1>0. ASSUME closed, ~failed, buffer' = buffer,
             \A c \in Closers : pc[c] = "joining" => pc'[c] = "joining"
      PROVE  Taken \/ Joining
  BY <1>0 DEF Drained
<1>1. ASSUME Start \/ LoopBegins PROVE Taken \/ Joining
  <2>1. \A c \in Closers : pc'[c] = pc[c]
    BY <1>1, Roles DEF Start, LoopBegins, TypeOK
  <2> QED
    BY <1>0, <1>1, <2>1 DEF Start, LoopBegins
<1>2. ASSUME LoopWake \/ \E r \in Readers : GetData(r) PROVE Taken
  BY <1>2 DEF LoopWake, GetData, BeginFlush
<1>3. ASSUME NEW w \in Writers, NEW k, Put(w, k) PROVE FALSE
  BY <1>3 DEF Put, AppendPoints
<1>4. ASSUME NEW t \in Tasks, FlushStored(t) PROVE Taken \/ Joining
  <2>1. /\ closed /\ ~failed /\ buffer' = buffer /\ pc[t] = "writing"
        /\ \A u \in Tasks \ {t} : pc'[u] = pc[u]
    BY <1>4 DEF FlushStored, InnerReturns, TypeOK
  <2> QED
    BY <1>0, <2>1, Roles
<1>5. ASSUME NEW t \in Tasks, FlushFailed(t) PROVE FALSE
  BY <1>5 DEF FlushFailed, InnerReturns, Refill, TypeOK
<1>6. ASSUME NEW t \in Tasks, CancelFlush(t) PROVE Taken \/ Joining
  <2>1. /\ closed /\ ~failed /\ buffer' = buffer /\ pc[t] = "writing"
        /\ \A u \in Tasks \ {t} : pc'[u] = pc[u]
    BY <1>6 DEF CancelFlush, DropBatch, TypeOK
  <2> QED
    BY <1>0, <2>1, Roles
<1>7. ASSUME NEW c \in Closers, CloseAgain(c) \/ CloseInner(c) PROVE Taken \/ Joining
  <2>1. /\ closed /\ ~failed /\ buffer' = buffer /\ pc[c] # "joining"
        /\ \A u \in Tasks \ {c} : pc'[u] = pc[u]
    BY <1>7 DEF CloseAgain, CloseInner, TypeOK
  <2> QED
    BY <1>0, <2>1, Roles
<1>8. ASSUME NEW c \in Closers, CloseAndJoin(c) PROVE Joining
  BY <1>8, Roles DEF CloseAndJoin, TypeOK
<1>9. ASSUME NEW c \in Closers, CloseUnstarted(c) \/ CloseJoined(c) PROVE Taken
  BY <1>9 DEF CloseUnstarted, CloseJoined, BeginFlush
<1>10. ASSUME NEW c \in Closers, CancelJoin(c) PROVE Taken \/ Joining
  <2>1. /\ closed /\ ~failed /\ buffer' = buffer
        /\ \A d \in Closers : pc'[d] = pc[d]
    BY <1>10, Roles DEF CancelJoin, DropBatch, TypeOK
  <2> QED
    BY <1>0, <2>1
<1>11. ASSUME UNCHANGED vars PROVE Taken \/ Joining
  BY <1>0, <1>11 DEF vars
<1> QED
  BY <1>1, <1>2, <1>3, <1>4, <1>5, <1>6, <1>7, <1>8, <1>9, <1>10, <1>11
     DEF Next, StoreDataPoint, StoreDataPoints

LEMMA CloseInit == Init => CloseInv
<1> SUFFICES ASSUME Init PROVE CloseInv
  OBVIOUS
<1>1. TypeOK /\ BatchPlace
  BY CapInit DEF CapInv
<1>2. pc[Loop] = "off" /\ \A c \in Closers : pc[c] = "idle"
  BY Roles DEF Init
<1> QED
  BY <1>1, <1>2 DEF CloseInv, CloseOrder, Drained, Init

LEMMA CloseInvariant == Spec => []CloseInv
<1>1. CloseOrder /\ Drained /\ CapInv /\ [Next]_vars => (CloseOrder /\ Drained)'
  BY CloseOrderStep, DrainedStep DEF CloseInv, CapInv
<1>2. Init => CloseOrder /\ Drained
  BY CloseInit DEF CloseInv
<1>3. CapInv /\ CloseOrder /\ Drained => CloseInv
  BY DEF CapInv, CloseInv
<1> QED
  BY <1>1, <1>2, <1>3, CapInvariant, PTL DEF Spec

\* close() closes the inner store only after the periodic task has ended and has
\* no batch at it, however many tasks call close() and whoever is cancelled
\* (close, database.py:707-716).
THEOREM InnerClosedLast == Spec => []CloseJoinsLoop
<1>1. CloseInv => CloseJoinsLoop
  <2> SUFFICES ASSUME CloseInv, NEW c \in Closers, pc[c] = "closing"
               PROVE  pc[Loop] \in {"off", "done"} /\ batch[Loop] = <<>>
    BY DEF CloseJoinsLoop
  <2>1. pc[Loop] \in {"off", "done"}
    BY DEF CloseInv, CloseOrder
  <2> QED
    BY <2>1, Roles DEF CloseInv, BatchPlace
<1> QED
  BY <1>1, CloseInvariant, PTL

\* If no flush failed since close() began, nothing is left in the buffer when it
\* returns: what was accepted while it awaited the periodic task included
\* (close, database.py:698-716; store_data_point refuses once _closed is set).
THEOREM ClosedIsDrained == Spec => []CloseDrains
<1>1. CloseInv => CloseDrains
  BY DEF CloseInv, Drained, CloseDrains
<1> QED
  BY <1>1, CloseInvariant, PTL

-----------------------------------------------------------------------------
(***************************************************************************)
(* Where points are kept and in which order: a point is pending in one     *)
(* place, and as long as one batch is out at a time the points stay in the *)
(* order they were accepted.                                               *)
(***************************************************************************)

Increasing(b) == \A i, j \in DOMAIN b : i < j => b[i] < b[j]

-----------------------------------------------------------------------------
(* Sequences: what concatenation and the cap preserve.                     *)

LEMMA ConcatInjective ==
    ASSUME NEW S, NEW a \in Seq(S), NEW b \in Seq(S),
           IsInjective(a), IsInjective(b), Range(a) \cap Range(b) = {}
    PROVE  IsInjective(a \o b)
<1> DEFINE m == Len(a)
           n == Len(b)
           c == a \o b
<1>1. m \in Nat /\ n \in Nat /\ DOMAIN a = 1 .. m /\ DOMAIN b = 1 .. n
  BY LenProperties
<1>2. DOMAIN c = 1 .. m + n
  BY ConcatProperties, LenProperties
<1>3. \A i \in 1 .. m + n : c[i] = IF i <= m THEN a[i] ELSE b[i - m]
  BY ConcatProperties
<1>4. /\ \A i \in 1 .. m : a[i] \in Range(a)
      /\ \A i \in 1 .. n : b[i] \in Range(b)
  BY <1>1 DEF Range
<1>5. \A i, j \in 1 .. m : a[i] = a[j] => i = j
  BY <1>1 DEF IsInjective
<1>6. \A i, j \in 1 .. n : b[i] = b[j] => i = j
  BY <1>1 DEF IsInjective
<1> HIDE DEF m, n, c
<1>7. ASSUME NEW i \in 1 .. m + n, NEW j \in 1 .. m + n, c[i] = c[j]
      PROVE  i = j
  <2>1. CASE i <= m /\ j <= m
    BY <1>1, <1>3, <1>5, <1>7, <2>1
  <2>2. CASE i > m /\ j > m
    <3>1. i - m \in 1 .. n /\ j - m \in 1 .. n /\ b[i - m] = b[j - m]
      BY <1>1, <1>3, <1>7, <2>2
    <3>2. i - m = j - m
      BY <3>1, <1>6
    <3> QED
      BY <3>2, <1>1
  <2>3. ASSUME NEW k \in 1 .. m + n, NEW l \in 1 .. m + n, k <= m, l > m
        PROVE  c[k] # c[l]
    <3>1. k \in 1 .. m /\ l - m \in 1 .. n /\ c[k] = a[k] /\ c[l] = b[l - m]
      BY <1>1, <1>3, <2>3
    <3> QED
      BY <3>1, <1>4
  <2> QED
    BY <1>1, <1>7, <2>1, <2>2, <2>3
<1> QED
  BY <1>2, <1>7 DEF IsInjective, c

LEMMA ConcatIncreasing ==
    ASSUME NEW a \in Seq(Points), NEW b \in Seq(Points), Increasing(a), Increasing(b),
           \A p \in Range(a), q \in Range(b) : p < q
    PROVE  Increasing(a \o b)
<1> DEFINE m == Len(a)
           n == Len(b)
           c == a \o b
<1>1. m \in Nat /\ n \in Nat /\ DOMAIN a = 1 .. m /\ DOMAIN b = 1 .. n
  BY LenProperties
<1>2. DOMAIN c = 1 .. m + n
  BY ConcatProperties, LenProperties
<1>3. \A i \in 1 .. m + n : c[i] = IF i <= m THEN a[i] ELSE b[i - m]
  BY ConcatProperties
<1>4. /\ \A i \in 1 .. m : a[i] \in Range(a)
      /\ \A i \in 1 .. n : b[i] \in Range(b)
  BY <1>1 DEF Range
<1>5. \A i, j \in 1 .. m : i < j => a[i] < a[j]
  BY <1>1 DEF Increasing
<1>6. \A i, j \in 1 .. n : i < j => b[i] < b[j]
  BY <1>1 DEF Increasing
<1> HIDE DEF m, n, c
<1>7. ASSUME NEW i \in 1 .. m + n, NEW j \in 1 .. m + n, i < j
      PROVE  c[i] < c[j]
  <2>1. CASE j <= m
    BY <1>1, <1>3, <1>5, <1>7, <2>1
  <2>2. CASE i > m
    <3>1. /\ i - m \in 1 .. n /\ j - m \in 1 .. n /\ i - m < j - m
          /\ c[i] = b[i - m] /\ c[j] = b[j - m]
      BY <1>1, <1>3, <1>7, <2>2
    <3> QED
      BY <3>1, <1>6
  <2>3. CASE i <= m /\ j > m
    <3>1. i \in 1 .. m /\ j - m \in 1 .. n /\ c[i] = a[i] /\ c[j] = b[j - m]
      BY <1>1, <1>3, <2>3
    <3> QED
      BY <3>1, <1>4
  <2> QED
    BY <1>1, <2>1, <2>2, <2>3
<1> QED
  BY <1>2, <1>7 DEF Increasing, c

LEMMA IncreasingInjective ==
    ASSUME NEW b \in Seq(Points), Increasing(b)
    PROVE  IsInjective(b)
<1>1. Len(b) \in Nat /\ DOMAIN b = 1 .. Len(b) /\ \A i \in 1 .. Len(b) : b[i] \in Points
  BY LenProperties, ElementOfSeq
<1>2. ASSUME NEW i \in 1 .. Len(b), NEW j \in 1 .. Len(b), b[i] = b[j] PROVE i = j
  <2>1. ~(i < j) /\ ~(j < i)
    BY <1>1, <1>2 DEF Increasing, Points
  <2> QED
    BY <1>1, <2>1
<1> QED
  BY <1>1, <1>2 DEF IsInjective

\* What the cap keeps and what it evicts have no point in common.
LEMMA CappedInjective ==
    ASSUME NEW S, NEW b \in Seq(S), IsInjective(b)
    PROVE  IsInjective(Capped(b)) /\ Range(Capped(b)) \cap Evictees(b) = {}
<1> DEFINE c == Capped(b)
           v == Over(b)
<1>1. Len(b) \in Nat /\ DOMAIN b = 1 .. Len(b)
  BY LenProperties
<1>2. /\ v \in 0 .. Len(b) /\ c \in Seq(S) /\ Len(c) = Len(b) - v
      /\ \A i \in 1 .. Len(c) : c[i] = b[v + i]
  BY CappedProperties
<1>3. Len(c) \in Nat /\ DOMAIN c = 1 .. Len(c)
  BY <1>2, LenProperties
<1>4. Range(c) = {c[i] : i \in 1 .. Len(c)} /\ Evictees(b) = {b[i] : i \in 1 .. v}
  BY <1>3 DEF Range, Evictees
<1>5. \A i, j \in 1 .. Len(b) : b[i] = b[j] => i = j
  BY <1>1 DEF IsInjective
<1> HIDE DEF c, v
<1>6. \A i \in 1 .. Len(c) : v + i \in 1 .. Len(b)
  BY <1>1, <1>2, <1>3
<1>7. ASSUME NEW i \in 1 .. Len(c), NEW j \in 1 .. Len(c), c[i] = c[j] PROVE i = j
  <2>1. v + i = v + j
    BY <1>2, <1>5, <1>6, <1>7
  <2> QED
    BY <2>1, <1>1, <1>2, <1>3
<1>8. ASSUME NEW i \in 1 .. Len(c), NEW j \in 1 .. v PROVE c[i] # b[j]
  <2>1. j \in 1 .. Len(b) /\ j # v + i
    BY <1>1, <1>2, <1>3
  <2> QED
    BY <2>1, <1>2, <1>5, <1>6
<1> QED
  BY <1>3, <1>4, <1>7, <1>8 DEF IsInjective, c

LEMMA CappedIncreasing ==
    ASSUME NEW b \in Seq(Points), Increasing(b)
    PROVE  Increasing(Capped(b))
<1> DEFINE c == Capped(b)
           v == Over(b)
<1>1. Len(b) \in Nat /\ DOMAIN b = 1 .. Len(b)
  BY LenProperties
<1>2. /\ v \in 0 .. Len(b) /\ c \in Seq(Points) /\ Len(c) = Len(b) - v
      /\ \A i \in 1 .. Len(c) : c[i] = b[v + i]
  BY CappedProperties
<1>3. Len(c) \in Nat /\ DOMAIN c = 1 .. Len(c)
  BY <1>2, LenProperties
<1>4. \A i, j \in 1 .. Len(b) : i < j => b[i] < b[j]
  BY <1>1 DEF Increasing
<1> HIDE DEF c, v
<1>5. ASSUME NEW i \in 1 .. Len(c), NEW j \in 1 .. Len(c), i < j PROVE c[i] < c[j]
  <2>1. v + i \in 1 .. Len(b) /\ v + j \in 1 .. Len(b) /\ v + i < v + j
    BY <1>1, <1>2, <1>3, <1>5
  <2> QED
    BY <2>1, <1>2, <1>4
<1> QED
  BY <1>3, <1>5 DEF Increasing, c

LEMMA CappedSubset ==
    ASSUME NEW S, NEW b \in Seq(S)
    PROVE  Range(Capped(b)) \subseteq Range(b) /\ Evictees(b) \subseteq Range(b)
BY CappedRange

LEMMA Nothing == IsInjective(<<>>) /\ Increasing(<<>>) /\ Range(<<>>) = {}
BY RangeOfNothing DEF IsInjective, Increasing

-----------------------------------------------------------------------------
(* The kinds of steps there are, as far as points are concerned.           *)

Still == UNCHANGED <<buffer, accepted, dropped, evicted, written, batch, overlap>>

Takes(t) ==
    /\ pc[t] # "writing"
    /\ BeginFlush(t, buffer)
    /\ UNCHANGED <<accepted, dropped, evicted, written>>

Appends(w, k) == ~closed /\ AppendPoints(w, k)

Loses(t) == Cancellable # {} /\ \E place \in Places : DropBatch(t, place)

LEMMA StepKinds ==
    ASSUME [Next]_vars
    PROVE  \/ Still /\ closed' \in {closed, TRUE}
           \/ \E t \in Tasks : Takes(t) /\ closed' \in {closed, TRUE}
           \/ \E w \in Tasks, k \in Nat : Appends(w, k)
           \/ \E t \in Tasks : FlushStored(t)
           \/ \E t \in Tasks : FlushFailed(t)
           \/ \E t \in Tasks : Loses(t)
<1> DEFINE Goal == \/ Still /\ closed' \in {closed, TRUE}
                   \/ \E t \in Tasks : Takes(t) /\ closed' \in {closed, TRUE}
                   \/ \E w \in Tasks, k \in Nat : Appends(w, k)
                   \/ \E t \in Tasks : FlushStored(t)
                   \/ \E t \in Tasks : FlushFailed(t)
                   \/ \E t \in Tasks : Loses(t)
<1>0. Loop \in Tasks /\ Writers \subseteq Tasks /\ Readers \subseteq Tasks /\ Closers \subseteq Tasks
  BY DEF Tasks
<1>1. ASSUME Start \/ LoopBegins \/ UNCHANGED vars PROVE Goal
  BY <1>1 DEF Start, LoopBegins, vars, Still
<1>2. ASSUME LoopWake PROVE Goal
  BY <1>2, <1>0 DEF LoopWake, Takes
<1>3. ASSUME NEW w \in Writers, StoreDataPoint(w) \/ StoreDataPoints(w) PROVE Goal
  <2>1. PICK k \in Nat : Put(w, k)
    BY <1>3, SizesAssumption DEF StoreDataPoint, StoreDataPoints
  <2>2. w \in Tasks /\ Appends(w, k)
    BY <2>1, <1>0 DEF Put, Appends
  <2> QED
    BY <2>2
<1>4. ASSUME NEW r \in Readers, GetData(r) PROVE Goal
  BY <1>4, <1>0 DEF GetData, Takes
<1>5. ASSUME NEW t \in Tasks, CancelFlush(t) PROVE Goal
  BY <1>5 DEF CancelFlush, Loses, Places
<1>6. ASSUME NEW c \in Closers, CloseAgain(c) \/ CloseAndJoin(c) \/ CloseInner(c) PROVE Goal
  BY <1>6 DEF CloseAgain, CloseAndJoin, CloseInner, Still
<1>7. ASSUME NEW c \in Closers, CloseUnstarted(c) \/ CloseJoined(c) PROVE Goal
  BY <1>7, <1>0 DEF CloseUnstarted, CloseJoined, Takes
<1>8. ASSUME NEW c \in Closers, CancelJoin(c) PROVE Goal
  BY <1>8, <1>0 DEF CancelJoin, Loses, Places
<1> QED
  BY <1>1, <1>2, <1>3, <1>4, <1>5, <1>6, <1>7, <1>8 DEF Next

-----------------------------------------------------------------------------
(* One place for each point.                                               *)

Known == Pending \cup evicted \subseteq Accepted

PlaceInv == CapInv /\ SinglePlacement /\ Known

\* The placement of the buffer and of one batch is settled; the others are as
\* they were.
LEMMA Placed ==
    ASSUME SinglePlacement, NEW t \in Tasks,
           \A u \in Tasks \ {t} : batch'[u] = batch[u],
           IsInjective(buffer'), IsInjective(batch'[t]),
           Range(batch'[t]) \cap Range(buffer') = {},
           \A u \in Tasks \ {t} :
              Range(batch[u]) \cap (Range(buffer') \cup Range(batch'[t])) = {},
           (Range(buffer') \cup Range(batch'[t])) \cap evicted' = {},
           \A u \in Tasks \ {t} : Range(batch[u]) \cap evicted' = {}
    PROVE  SinglePlacement'
<1>1. \A u \in Tasks : IsInjective(batch'[u])
  BY DEF SinglePlacement
<1>2. \A u \in Tasks : Range(batch'[u]) \cap Range(buffer') = {}
  OBVIOUS
<1>3. ASSUME NEW u \in Tasks, NEW v \in Tasks \ {u}
      PROVE  Range(batch'[u]) \cap Range(batch'[v]) = {}
  <2>1. CASE u # t /\ v # t
    BY <2>1 DEF SinglePlacement
  <2>2. CASE u = t \/ v = t
    BY <2>2
  <2> QED
    BY <2>1, <2>2
<1>4. Pending' \cap evicted' = {}
  BY DEF Pending, Buffered, InFlight
<1> QED
  BY <1>1, <1>2, <1>3, <1>4 DEF SinglePlacement, Buffered

\* What is in the hands of two tasks, or in the buffer, is apart.
LEMMA Apart ==
    ASSUME PlaceInv, NEW t \in Tasks
    PROVE  /\ Range(batch[t]) \cap Range(buffer) = {}
           /\ \A u \in Tasks \ {t} : Range(batch[u]) \cap (Range(buffer) \cup Range(batch[t])) = {}
           /\ (Range(buffer) \cup Range(batch[t])) \cap evicted = {}
           /\ \A u \in Tasks \ {t} : Range(batch[u]) \cap evicted = {}
           /\ pc[t] # "writing" => Range(batch[t]) = {}
<1>1. \A u \in Tasks : Range(batch[u]) \subseteq Pending
  BY DEF Pending, InFlight
<1>2. Range(buffer) \subseteq Pending /\ Pending \cap evicted = {}
  BY DEF PlaceInv, SinglePlacement, Pending, Buffered
<1>3. pc[t] # "writing" => Range(batch[t]) = {}
  BY RangeOfNothing DEF PlaceInv, CapInv, BatchPlace
<1>4. /\ Range(batch[t]) \cap Range(buffer) = {}
      /\ \A u \in Tasks \ {t} : Range(batch[u]) \cap (Range(buffer) \cup Range(batch[t])) = {}
  BY DEF PlaceInv, SinglePlacement, Buffered
<1> QED
  BY <1>1, <1>2, <1>3, <1>4

LEMMA KnownStep ==
    ASSUME Known, Pending' \cup evicted' \subseteq Pending \cup evicted \cup Accepted',
           Accepted \subseteq Accepted'
    PROVE  Known'
BY DEF Known

\* What append adds is new to every place.
LEMMA Newcomers ==
    ASSUME PlaceInv, NEW w \in Tasks, NEW k \in Nat, AppendPoints(w, k)
    PROVE  /\ Extended(k) \in Seq(Points)
           /\ Range(Extended(k)) = Buffered \cup (Accepted' \ Accepted)
           /\ Accepted \subseteq Accepted'
           /\ IsInjective(Extended(k))
           /\ Increasing(buffer) => Increasing(Extended(k))
<1> DEFINE new == [i \in 1 .. k |-> accepted + i]
<1>1. accepted \in Nat /\ accepted + k <= MaxPoints /\ accepted' = accepted + k
  BY DEF AppendPoints, PlaceInv, CapInv, TypeOK
<1>2. new \in Seq(Points) /\ Range(new) = accepted + 1 .. accepted + k
  BY <1>1, AppendedPoints
<1>3. Accepted' \ Accepted = accepted + 1 .. accepted + k /\ Accepted \subseteq Accepted'
  BY <1>1 DEF Accepted
<1>4. Increasing(new)
  BY <1>1 DEF Increasing
<1>5. buffer \in Seq(Points) /\ Range(buffer) \subseteq Accepted /\ IsInjective(buffer)
  BY DEF PlaceInv, CapInv, TypeOK, Known, Pending, Buffered, SinglePlacement
<1>6. IsInjective(new)
  BY <1>2, <1>4, IncreasingInjective
<1>7. \A p \in Accepted, q \in accepted + 1 .. accepted + k : p < q
  BY <1>1 DEF Accepted
<1>8. Extended(k) = buffer \o new
  BY DEF Extended
<1> HIDE DEF new
<1>9. Range(buffer) \cap Range(new) = {} /\ \A p \in Range(buffer), q \in Range(new) : p < q
  <2>1. Range(buffer) \cap (accepted + 1 .. accepted + k) = {}
    BY <1>3, <1>5
  <2> QED
    BY <1>2, <1>5, <1>7, <2>1
<1>10. IsInjective(buffer \o new)
  BY <1>2, <1>5, <1>6, <1>9, ConcatInjective
<1>11. Increasing(buffer) => Increasing(buffer \o new)
  BY <1>2, <1>4, <1>5, <1>9, ConcatIncreasing
<1>12. Extended(k) \in Seq(Points) /\ Range(Extended(k)) = Buffered \cup (accepted + 1 .. accepted + k)
  BY ExtendedBuffer DEF PlaceInv, CapInv
<1> QED
  BY <1>3, <1>8, <1>10, <1>11, <1>12

\* The points b, which are in no other place, become the batch of t or the buffer.
LEMMA TakenPlaced ==
    ASSUME PlaceInv, NEW t \in Tasks, pc[t] # "writing", NEW b \in Seq(Points),
           IsInjective(b), Range(b) \cap InFlight = {},
           (InFlight \cup Range(b)) \cap evicted' = {},
           BeginFlush(t, b) \/ (buffer' = b /\ batch' = batch)
    PROVE  SinglePlacement' /\ Pending' = InFlight \cup Range(b)
<1>1. Range(batch[t]) = {} /\ \A u \in Tasks : Range(batch[u]) \subseteq InFlight
  BY Apart DEF InFlight
<1>2. SinglePlacement
  BY DEF PlaceInv
<1>3. CASE BeginFlush(t, b)
  <2>1. /\ batch'[t] = b /\ buffer' = <<>>
        /\ \A u \in Tasks \ {t} : batch'[u] = batch[u]
    BY <1>3, HandOverBatch DEF BeginFlush, PlaceInv, CapInv
  <2>2. Pending' = InFlight \cup Range(b)
    BY <1>3, BufferTaken DEF PlaceInv
  <2> QED
    BY <1>1, <1>2, <2>1, <2>2, Nothing, Placed
<1>4. CASE buffer' = b /\ batch' = batch
  <2>1. IsInjective(batch[t])
    BY DEF PlaceInv, SinglePlacement
  <2>2. SinglePlacement'
    BY <1>1, <1>2, <1>4, <2>1, Placed
  <2> QED
    BY <1>4, <2>2 DEF Pending, Buffered, InFlight
<1> QED
  BY <1>3, <1>4

LEMMA AppendsPlaced ==
    ASSUME PlaceInv, NEW w \in Tasks, NEW k \in Nat, AppendPoints(w, k)
    PROVE  SinglePlacement' /\ Known'
<1> DEFINE e == Extended(k)
           kept == Capped(e)
<1>1. /\ e \in Seq(Points) /\ IsInjective(e) /\ Accepted \subseteq Accepted'
      /\ Range(e) = Buffered \cup (Accepted' \ Accepted)
  BY Newcomers
<1>2. /\ kept \in Seq(Points) /\ IsInjective(kept) /\ Range(kept) \cap Evictees(e) = {}
      /\ Range(kept) \subseteq Range(e) /\ Evictees(e) \subseteq Range(e)
  BY <1>1, CappedProperties, CappedInjective, CappedSubset
<1>3. /\ pc[w] # "writing" /\ evicted' = evicted \cup Evictees(e)
      /\ BeginFlush(w, kept) \/ (buffer' = kept /\ batch' = batch)
  BY DEF AppendPoints, EnforceCap, Extended
<1> HIDE DEF e, kept
<1>4. /\ InFlight \cap Buffered = {} /\ Buffered \cap evicted = {} /\ InFlight \cap evicted = {}
      /\ InFlight \subseteq Accepted /\ evicted \subseteq Accepted
  BY DEF PlaceInv, SinglePlacement, Known, Pending, InFlight
<1>5. Range(kept) \cap InFlight = {} /\ (InFlight \cup Range(kept)) \cap evicted' = {}
  BY <1>1, <1>2, <1>3, <1>4
<1>6. SinglePlacement' /\ Pending' = InFlight \cup Range(kept)
  BY <1>2, <1>3, <1>5, TakenPlaced
<1>7. Known'
  BY <1>1, <1>2, <1>3, <1>4, <1>6 DEF PlaceInv, Known, Pending
<1> QED
  BY <1>6, <1>7

LEMMA TakesPlaced ==
    ASSUME PlaceInv, NEW t \in Tasks, Takes(t)
    PROVE  SinglePlacement' /\ Known'
<1>1. /\ InFlight \cap Buffered = {} /\ Pending \cap evicted = {} /\ IsInjective(buffer)
      /\ buffer \in Seq(Points)
  BY DEF PlaceInv, SinglePlacement, Pending, InFlight, CapInv, TypeOK
<1>2. evicted' = evicted /\ Accepted' = Accepted
  BY DEF Takes, Accepted
<1>3. SinglePlacement' /\ Pending' = InFlight \cup Buffered
  BY <1>1, <1>2, TakenPlaced DEF Takes, Buffered, Pending
<1> QED
  BY <1>2, <1>3 DEF PlaceInv, Known, Pending

\* The batch of t is gone and the buffer as it was.
LEMMA EmptiedPlaced ==
    ASSUME PlaceInv, NEW t \in Tasks, batch' = [batch EXCEPT ![t] = <<>>],
           UNCHANGED <<buffer, accepted, evicted>>
    PROVE  SinglePlacement' /\ Known' /\ Pending' = Pending \ Range(batch[t])
<1>1. batch'[t] = <<>> /\ \A u \in Tasks \ {t} : batch'[u] = batch[u]
  BY DEF PlaceInv, CapInv, TypeOK
<1>2. SinglePlacement'
  BY <1>1, Apart, Nothing, Placed DEF PlaceInv, SinglePlacement
<1>3. InFlight' = UNION {Range(batch[u]) : u \in Tasks \ {t}} /\ Buffered' = Buffered
  BY HandEmptied DEF PlaceInv, Buffered
<1>4. Pending' = Pending \ Range(batch[t])
  <2> DEFINE others == UNION {Range(batch[u]) : u \in Tasks \ {t}}
  <2>1. InFlight = Range(batch[t]) \cup others
    BY DEF InFlight
  <2>2. Range(batch[t]) \cap others = {} /\ Range(batch[t]) \cap Buffered = {}
    BY Apart DEF Buffered
  <2> QED
    BY <1>3, <2>1, <2>2 DEF Pending
<1>5. Accepted' = Accepted /\ evicted' = evicted
  BY DEF Accepted
<1> QED
  BY <1>2, <1>4, <1>5 DEF PlaceInv, Known

\* The batch of t is put back in front of the buffer.
LEMMA FailedPlaced ==
    ASSUME PlaceInv, NEW t \in Tasks, FlushFailed(t)
    PROVE  /\ SinglePlacement' /\ Known'
           /\ batch[t] \o buffer \in Seq(Points)
           /\ IsInjective(batch[t] \o buffer)
           /\ Range(batch[t] \o buffer) = Range(batch[t]) \cup Buffered
           /\ Pending' = Pending \ Evictees(batch[t] \o buffer)
<1> DEFINE b == batch[t] \o buffer
           kept == Capped(b)
<1>1. buffer \in Seq(Points) /\ batch[t] \in Seq(Points)
  BY BatchPoints DEF PlaceInv, CapInv, TypeOK
<1>2. b \in Seq(Points) /\ Range(b) = Range(batch[t]) \cup Range(buffer)
  BY <1>1, ConcatProperties, RangeConcatenation
<1>3. IsInjective(batch[t]) /\ IsInjective(buffer)
  BY DEF PlaceInv, SinglePlacement
<1>4. IsInjective(b)
  BY <1>1, <1>3, Apart, ConcatInjective
<1>5. /\ buffer' = kept /\ evicted' = evicted \cup Evictees(b)
      /\ batch' = [batch EXCEPT ![t] = <<>>] /\ Accepted' = Accepted
  BY DEF FlushFailed, Refill, EnforceCap, InnerReturns, Accepted
<1> HIDE DEF b
<1>6. /\ kept \in Seq(Points) /\ IsInjective(kept) /\ Range(kept) \cap Evictees(b) = {}
      /\ Range(b) = Range(kept) \cup Evictees(b)
  BY <1>2, <1>4, CappedProperties, CappedInjective, CappedRange
<1> HIDE DEF kept
<1>7. batch'[t] = <<>> /\ \A u \in Tasks \ {t} : batch'[u] = batch[u]
  BY <1>5 DEF PlaceInv, CapInv, TypeOK
<1>8. \A u \in Tasks \ {t} : Range(batch[u]) \cap Range(b) = {}
  BY <1>2, Apart
<1>9. SinglePlacement'
  <2>1. \A u \in Tasks \ {t} : Range(batch[u]) \cap Range(buffer') = {} /\ Range(batch[u]) \cap evicted' = {}
    BY <1>5, <1>6, <1>8, Apart
  <2>2. Range(buffer') \cap evicted' = {}
    BY <1>2, <1>5, <1>6, Apart
  <2> QED
    BY <1>5, <1>6, <1>7, <2>1, <2>2, Nothing, Placed DEF PlaceInv
<1>10. InFlight' = UNION {Range(batch[u]) : u \in Tasks \ {t}} /\ Buffered' = Range(kept)
  BY <1>5, HandEmptied DEF PlaceInv, Buffered
<1>11. Pending = Range(b) \cup UNION {Range(batch[u]) : u \in Tasks \ {t}}
  BY <1>2 DEF Pending, InFlight, Buffered
<1>12. Pending' = Pending \ Evictees(b)
  BY <1>6, <1>8, <1>10, <1>11 DEF Pending
<1>13. Known'
  BY <1>5, <1>6, <1>11, <1>12 DEF PlaceInv, Known
<1> QED
  BY <1>2, <1>4, <1>9, <1>12, <1>13 DEF b, Buffered

LEMMA PlaceStep == PlaceInv /\ [Next]_vars => PlaceInv'
<1> SUFFICES ASSUME PlaceInv, [Next]_vars PROVE (SinglePlacement /\ Known)'
  BY CapStep DEF PlaceInv
<1>1. CASE Still
  BY <1>1 DEF Still, PlaceInv, SinglePlacement, Known, Pending, Buffered, InFlight, Accepted
<1>2. ASSUME NEW t \in Tasks, Takes(t) PROVE (SinglePlacement /\ Known)'
  BY <1>2, TakesPlaced
<1>3. ASSUME NEW w \in Tasks, NEW k \in Nat, Appends(w, k) PROVE (SinglePlacement /\ Known)'
  BY <1>3, AppendsPlaced DEF Appends
<1>4. ASSUME NEW t \in Tasks, FlushStored(t) \/ Loses(t) PROVE (SinglePlacement /\ Known)'
  BY <1>4, EmptiedPlaced DEF FlushStored, InnerReturns, Loses, DropBatch
<1>5. ASSUME NEW t \in Tasks, FlushFailed(t) PROVE (SinglePlacement /\ Known)'
  BY <1>5, FailedPlaced
<1> QED
  BY <1>1, <1>2, <1>3, <1>4, <1>5, StepKinds

LEMMA PlaceInit == Init => PlaceInv
<1> SUFFICES ASSUME Init PROVE SinglePlacement /\ Known
  BY CapInit DEF PlaceInv
<1> QED
  BY Nothing DEF Init, SinglePlacement, Known, Pending, Buffered, InFlight, Accepted

LEMMA PlaceInvariant == Spec => []PlaceInv
BY PlaceInit, PlaceStep, PTL DEF Spec

\* A pending point is in one place, the buffer or the batch of one task, and
\* none of the evicted is pending, whatever fails, is cancelled or overlaps: no
\* point is handed to the inner store by two flushes at once (flush,
\* database.py:656-685).
THEOREM OnePlace == Spec => []SinglePlacement
BY PlaceInvariant, PTL DEF PlaceInv

-----------------------------------------------------------------------------
(* The order of points.                                                    *)

\* Unless batches have overlapped, one task at most has a batch out.
SoloBatch ==
    ~overlap => \A t, u \in Tasks : (batch[t] # <<>> /\ batch[u] # <<>>) => t = u

OrderInv == PlaceInv /\ SoloOrder /\ SoloBatch

\* The points b, in order and newer than those in flight, become a batch or the
\* buffer.
LEMMA TakenInOrder ==
    ASSUME OrderInv, NEW t \in Tasks, pc[t] # "writing", NEW b \in Seq(Points),
           ~overlap => Increasing(b) /\ \A u \in Tasks : \A p \in Range(batch[u]), q \in Range(b) : p < q,
           BeginFlush(t, b) \/ (buffer' = b /\ UNCHANGED <<batch, overlap>>)
    PROVE  (SoloOrder /\ SoloBatch)'
<1> SUFFICES ASSUME ~overlap' PROVE (SoloOrder /\ SoloBatch)'
  BY DEF SoloOrder, SoloBatch
<1>1. ~overlap
  BY DEF BeginFlush, HandOver
<1>2. CASE BeginFlush(t, b)
  <2>1. /\ batch'[t] = b /\ buffer' = <<>>
        /\ \A u \in Tasks \ {t} : batch'[u] = batch[u]
    BY <1>2, HandOverBatch DEF BeginFlush, OrderInv, PlaceInv, CapInv
  <2>2. b # <<>> => \A u \in Tasks \ {t} : batch[u] = <<>>
    BY <1>2 DEF BeginFlush, HandOver, Flushing, OrderInv, PlaceInv, CapInv, BatchPlace
  <2>3. SoloBatch'
    BY <1>1, <2>1, <2>2 DEF OrderInv, SoloBatch
  <2>4. \A u \in Tasks : Increasing(batch'[u])
    BY <1>1, <2>1 DEF OrderInv, SoloOrder, Increasing
  <2>5. SoloOrder'
    BY <2>1, <2>4, Nothing DEF SoloOrder, Increasing, Buffered
  <2> QED
    BY <2>3, <2>5
<1>3. CASE buffer' = b /\ UNCHANGED <<batch, overlap>>
  BY <1>1, <1>3 DEF OrderInv, SoloOrder, SoloBatch, Increasing, Buffered
<1> QED
  BY <1>2, <1>3

LEMMA AppendsInOrder ==
    ASSUME OrderInv, NEW w \in Tasks, NEW k \in Nat, AppendPoints(w, k)
    PROVE  (SoloOrder /\ SoloBatch)'
<1> DEFINE e == Extended(k)
           kept == Capped(e)
<1>1. /\ e \in Seq(Points) /\ Range(e) = Buffered \cup (Accepted' \ Accepted)
      /\ Increasing(buffer) => Increasing(e)
  BY Newcomers DEF OrderInv
<1>2. /\ kept \in Seq(Points) /\ Range(kept) \subseteq Range(e)
      /\ Increasing(e) => Increasing(kept)
  BY <1>1, CappedProperties, CappedSubset, CappedIncreasing
<1>3. /\ pc[w] # "writing" /\ accepted' = accepted + k
      /\ BeginFlush(w, kept) \/ (buffer' = kept /\ UNCHANGED <<batch, overlap>>)
  BY DEF AppendPoints, Extended
<1> HIDE DEF e, kept
<1>4. \A p \in Accepted, q \in Accepted' \ Accepted : p < q
  BY <1>3 DEF OrderInv, PlaceInv, CapInv, TypeOK, Accepted
<1>5. \A u \in Tasks : Range(batch[u]) \subseteq Accepted
  BY DEF OrderInv, PlaceInv, Known, Pending, InFlight
<1>6. ~overlap => Increasing(buffer) /\ \A u \in Tasks : \A p \in Range(batch[u]), q \in Buffered : p < q
  BY DEF OrderInv, SoloOrder, Increasing
<1>7. ~overlap => Increasing(kept) /\ \A u \in Tasks : \A p \in Range(batch[u]), q \in Range(kept) : p < q
  BY <1>1, <1>2, <1>4, <1>5, <1>6
<1> QED
  BY <1>2, <1>3, <1>7, TakenInOrder

LEMMA TakesInOrder ==
    ASSUME OrderInv, NEW t \in Tasks, Takes(t)
    PROVE  (SoloOrder /\ SoloBatch)'
<1>1. buffer \in Seq(Points)
  BY DEF OrderInv, PlaceInv, CapInv, TypeOK
<1>2. ~overlap => Increasing(buffer) /\ \A u \in Tasks : \A p \in Range(batch[u]), q \in Range(buffer) : p < q
  BY DEF OrderInv, SoloOrder, Increasing, Buffered
<1> QED
  BY <1>1, <1>2, TakenInOrder DEF Takes

LEMMA EmptiedInOrder ==
    ASSUME OrderInv, NEW t \in Tasks, batch' = [batch EXCEPT ![t] = <<>>],
           UNCHANGED <<buffer, overlap>>
    PROVE  (SoloOrder /\ SoloBatch)'
<1>1. batch'[t] = <<>> /\ \A u \in Tasks \ {t} : batch'[u] = batch[u]
  BY DEF OrderInv, PlaceInv, CapInv, TypeOK
<1>2. SoloBatch'
  BY <1>1 DEF OrderInv, SoloBatch
<1>3. ~overlap => \A u \in Tasks : Increasing(batch'[u]) /\ \A p \in Range(batch'[u]), q \in Buffered : p < q
  BY <1>1, Nothing DEF OrderInv, SoloOrder, Increasing
<1> QED
  BY <1>2, <1>3 DEF OrderInv, SoloOrder, Increasing, Buffered

LEMMA FailedInOrder ==
    ASSUME OrderInv, NEW t \in Tasks, FlushFailed(t)
    PROVE  (SoloOrder /\ SoloBatch)'
<1> DEFINE b == batch[t] \o buffer
<1>1. /\ buffer' = Capped(b) /\ overlap' = overlap /\ pc[t] = "writing"
      /\ batch' = [batch EXCEPT ![t] = <<>>]
  BY DEF FlushFailed, Refill, InnerReturns
<1>2. batch'[t] = <<>> /\ \A u \in Tasks \ {t} : batch'[u] = batch[u]
  BY <1>1 DEF OrderInv, PlaceInv, CapInv, TypeOK
<1>3. SoloBatch'
  BY <1>1, <1>2 DEF OrderInv, SoloBatch
<1>4. buffer \in Seq(Points) /\ batch[t] \in Seq(Points) /\ b \in Seq(Points)
  BY BatchPoints, ConcatProperties DEF OrderInv, PlaceInv, CapInv, TypeOK
<1> SUFFICES ASSUME ~overlap PROVE SoloOrder'
  BY <1>1, <1>3 DEF SoloOrder
<1>5. Increasing(batch[t]) /\ Increasing(buffer) /\ \A p \in Range(batch[t]), q \in Range(buffer) : p < q
  BY DEF OrderInv, SoloOrder, Increasing, Buffered
<1>6. Increasing(b)
  BY <1>4, <1>5, ConcatIncreasing
<1>7. Increasing(buffer')
  BY <1>1, <1>4, <1>6, CappedIncreasing
<1>8. \A u \in Tasks : batch'[u] = <<>>
  BY <1>1, <1>2 DEF OrderInv, SoloBatch, PlaceInv, CapInv, BatchPlace
<1> QED
  BY <1>7, <1>8, Nothing DEF SoloOrder, Increasing

LEMMA OrderStep == OrderInv /\ [Next]_vars => OrderInv'
<1> SUFFICES ASSUME OrderInv, [Next]_vars PROVE (SoloOrder /\ SoloBatch)'
  BY PlaceStep DEF OrderInv
<1>1. CASE Still
  BY <1>1 DEF Still, OrderInv, SoloOrder, SoloBatch, Buffered
<1>2. ASSUME NEW t \in Tasks, Takes(t) PROVE (SoloOrder /\ SoloBatch)'
  BY <1>2, TakesInOrder
<1>3. ASSUME NEW w \in Tasks, NEW k \in Nat, Appends(w, k) PROVE (SoloOrder /\ SoloBatch)'
  BY <1>3, AppendsInOrder DEF Appends
<1>4. ASSUME NEW t \in Tasks, FlushStored(t) \/ Loses(t) PROVE (SoloOrder /\ SoloBatch)'
  BY <1>4, EmptiedInOrder DEF FlushStored, InnerReturns, Loses, DropBatch
<1>5. ASSUME NEW t \in Tasks, FlushFailed(t) PROVE (SoloOrder /\ SoloBatch)'
  BY <1>5, FailedInOrder
<1> QED
  BY <1>1, <1>2, <1>3, <1>4, <1>5, StepKinds

LEMMA OrderInit == Init => OrderInv
<1> SUFFICES ASSUME Init PROVE SoloOrder /\ SoloBatch
  BY PlaceInit DEF OrderInv
<1> QED
  BY Nothing DEF Init, SoloOrder, SoloBatch, Increasing, Buffered

LEMMA OrderInvariant == Spec => []OrderInv
BY OrderInit, OrderStep, PTL DEF Spec

\* As long as no two batches have been out at once, a batch in flight and the
\* buffer behind it hold points in the order they were accepted, and so a failed
\* batch goes back to where it was (flush, database.py:671-673).
THEOREM LoneFlushKeepsOrder == Spec => []SoloOrder
BY OrderInvariant, PTL DEF OrderInv

-----------------------------------------------------------------------------
(***************************************************************************)
(* The wrapper implements PointLedger, if the backends write in transactions *)
(* and report what they wrote, and no task is cancelled.                   *)
(***************************************************************************)

\* What a flush is told is what happened.
Honest == Lossless /\ LossyAck = {}

\* What is still pending is not stored already: a batch comes back only if no
\* backend has it.
Unstored == Pending \cap Written = {} /\ Written \subseteq Accepted

LedgerInv == PlaceInv /\ Unstored

-----------------------------------------------------------------------------
(* Counting.                                                               *)

LEMMA RangeCount ==
    ASSUME NEW b \in Seq(Points), IsInjective(b)
    PROVE  IsFiniteSet(Range(b)) /\ Cardinality(Range(b)) = Len(b)
<1>1. Len(b) \in Nat /\ DOMAIN b = 1 .. Len(b) /\ b \in [1 .. Len(b) -> Points]
  BY LenProperties
<1>2. IsFiniteSet(1 .. Len(b)) /\ Cardinality(1 .. Len(b)) = Len(b)
  BY <1>1, FS_Interval
<1>3. b \in Bijection(1 .. Len(b), Range(b))
  BY <1>1 DEF Bijection, Injection, Surjection, IsInjective, Range
<1>4. ExistsBijection(1 .. Len(b), Range(b))
  BY <1>3 DEF ExistsBijection
<1> QED
  BY <1>2, <1>4, FS_Bijection

LEMMA EvicteesCount ==
    ASSUME NEW b \in Seq(Points), IsInjective(b)
    PROVE  Cardinality(Evictees(b)) = Over(b)
<1> DEFINE v == Over(b)
           f == [i \in 1 .. v |-> b[i]]
<1>1. Len(b) \in Nat /\ DOMAIN b = 1 .. Len(b) /\ v \in 0 .. Len(b)
  BY LenProperties, CappedProperties
<1>2. IsFiniteSet(1 .. v) /\ Cardinality(1 .. v) = v
  BY <1>1, FS_Interval
<1>3. Evictees(b) = {b[i] : i \in 1 .. v}
  BY DEF Evictees
<1>4. \A i, j \in 1 .. v : b[i] = b[j] => i = j
  BY <1>1 DEF IsInjective
<1> HIDE DEF v
<1>5. f \in Bijection(1 .. v, Evictees(b))
  BY <1>3, <1>4 DEF Bijection, Injection, Surjection, IsInjective
<1>6. ExistsBijection(1 .. v, Evictees(b))
  BY <1>5 DEF ExistsBijection
<1> QED
  BY <1>2, <1>6, FS_Bijection DEF v

\* Points are shed from b only if more are pending than the capacity.
LEMMA ShedsOverCapacity ==
    ASSUME NEW b \in Seq(Points), IsInjective(b), Evictees(b) # {},
           NEW P \in SUBSET Points, Range(b) \subseteq P
    PROVE  Cardinality(P) > MaxBuffer
<1>1. Len(b) \in Nat /\ MaxBuffer \in Nat /\ MaxPoints \in Nat
  BY LenProperties, SizesAssumption
<1>2. Len(b) > MaxBuffer
  BY <1>1 DEF Evictees, Over
<1>3. IsFiniteSet(P)
  <2>1. IsFiniteSet(Points)
    BY <1>1, FS_Interval DEF Points
  <2> QED
    BY <2>1, FS_Subset
<1>4. Cardinality(P) \in Nat /\ Cardinality(Range(b)) <= Cardinality(P)
  BY <1>3, FS_Subset, FS_CardinalityType
<1> QED
  BY <1>1, <1>2, <1>4, RangeCount

\* The ledger counts as this module does.
LEMMA SameCount == \A S : Ledger!Cardinality(S) = Cardinality(S)
BY DEF Ledger!Cardinality, Cardinality

LEMMA PendingPoints == PlaceInv => Pending \subseteq Points
<1> SUFFICES ASSUME PlaceInv PROVE Pending \subseteq Points
  OBVIOUS
<1>1. Accepted \subseteq Points
  BY SizesAssumption DEF PlaceInv, CapInv, TypeOK, Accepted, Points
<1> QED
  BY <1>1 DEF PlaceInv, Known

-----------------------------------------------------------------------------
(* Each kind of step is a step of the ledger.                              *)

LEMMA StillIsLedger ==
    ASSUME Still, closed' \in {closed, TRUE}
    PROVE  [Ledger!Next]_(Ledger!ledgerVars) /\ Pending' = Pending /\ Written' = Written
<1>1. Pending' = Pending /\ Written' = Written
  BY DEF Still, Pending, Buffered, InFlight, Written
<1>2. CASE closed' = closed
  BY <1>1, <1>2 DEF Still, Ledger!ledgerVars
<1>3. CASE closed' = TRUE
  BY <1>1, <1>3 DEF Still, Ledger!Next, Ledger!Close
<1> QED
  BY <1>1, <1>2, <1>3

LEMMA TakesIsLedger ==
    ASSUME PlaceInv, NEW t \in Tasks, Takes(t), closed' \in {closed, TRUE}
    PROVE  [Ledger!Next]_(Ledger!ledgerVars) /\ Pending' = Pending /\ Written' = Written
<1>1. buffer \in Seq(Points)
  BY DEF PlaceInv, CapInv, TypeOK
<1>2. Pending' = Pending /\ Written' = Written
  BY <1>1, BufferTaken DEF Takes, PlaceInv, Pending, Buffered, Written
<1>3. CASE closed' = closed
  BY <1>2, <1>3 DEF Takes, Ledger!ledgerVars
<1>4. CASE closed' = TRUE
  BY <1>2, <1>4 DEF Takes, Ledger!Next, Ledger!Close
<1> QED
  BY <1>2, <1>3, <1>4

LEMMA AppendsIsLedger ==
    ASSUME PlaceInv, NEW w \in Tasks, NEW k \in Nat, Appends(w, k)
    PROVE  /\ Ledger!Next
           /\ Written' = Written
           /\ Pending' \subseteq Pending \cup (Accepted' \ Accepted)
<1> DEFINE e == Extended(k)
           kept == Capped(e)
           P == Pending \cup (accepted + 1 .. accepted + k)
<1>0. AppendPoints(w, k) /\ ~closed
  BY DEF Appends
<1>1. /\ e \in Seq(Points) /\ IsInjective(e)
      /\ Range(e) = Buffered \cup (Accepted' \ Accepted)
  BY <1>0, Newcomers
<1>2. /\ kept \in Seq(Points) /\ IsInjective(kept) /\ Range(kept) \cap Evictees(e) = {}
      /\ Range(e) = Range(kept) \cup Evictees(e)
  BY <1>1, CappedProperties, CappedInjective, CappedRange
<1>3. /\ pc[w] # "writing" /\ evicted' = evicted \cup Evictees(e) /\ dropped' = dropped + Over(e)
      /\ BeginFlush(w, kept) \/ (buffer' = kept /\ batch' = batch)
      /\ UNCHANGED <<written, closed>> /\ accepted' = accepted + k
      /\ accepted + k <= MaxPoints
  BY <1>0 DEF AppendPoints, EnforceCap, Extended
<1>4. Accepted' \ Accepted = accepted + 1 .. accepted + k /\ Accepted \subseteq Accepted'
      /\ accepted' - accepted = k /\ accepted \in Nat
  BY <1>3 DEF PlaceInv, CapInv, TypeOK, Accepted
<1> HIDE DEF e, kept
<1>5. /\ InFlight \cap Buffered = {} /\ Pending \cap evicted = {}
      /\ Pending \subseteq Accepted /\ evicted \subseteq Accepted
  BY DEF PlaceInv, SinglePlacement, Known, Pending, InFlight
<1>6. /\ Range(kept) \cap InFlight = {}
      /\ (InFlight \cup Range(kept)) \cap evicted' = {}
      /\ InFlight \cap Evictees(e) = {}
      /\ Evictees(e) \cap evicted = {}
  BY <1>1, <1>2, <1>3, <1>5 DEF Pending
<1>7. Pending' = InFlight \cup Range(kept)
  BY <1>2, <1>3, <1>6, TakenPlaced
<1>8. evicted' \ evicted = Evictees(e) /\ Evictees(e) \subseteq P
  BY <1>1, <1>2, <1>3, <1>4, <1>6 DEF Pending
<1>9. Pending' = P \ Evictees(e)
  BY <1>1, <1>2, <1>4, <1>6, <1>7 DEF Pending
<1>10. P \subseteq Points
  BY <1>3, <1>4, PendingPoints, SizesAssumption DEF Points
<1>11. Evictees(e) # {} => Cardinality(P) > MaxBuffer
  BY <1>1, <1>4, <1>10, ShedsOverCapacity DEF Pending
<1>12. Cardinality(Evictees(e)) = Over(e)
  BY <1>1, EvicteesCount
<1>13. Written' = Written
  BY <1>3 DEF Written
<1>14. Ledger!Accept(accepted' - accepted, evicted' \ evicted)
  BY <1>0, <1>3, <1>4, <1>8, <1>9, <1>11, <1>12, <1>13, SameCount DEF Ledger!Accept, Ledger!Shed
<1> QED
  BY <1>4, <1>9, <1>13, <1>14 DEF Ledger!Next

\* A batch that came back whole: no backend has any of it.
LEMMA RefusedIsUnstored ==
    ASSUME Honest, PlaceInv, NEW t \in Tasks, FlushFailed(t)
    PROVE  Written' = Written
<1>1. PICK o \in InnerOutcomes(Range(batch[t])) : NothingReported(o) /\ RecordWrites(o)
  BY DEF FlushFailed, InnerReturns
<1>2. \A b \in Backends : o[b].stored = {}
  BY <1>1 DEF NothingReported, InnerOutcomes, BackendOutcomes, Honest
<1>3. \A b \in Backends : written'[b] = written[b]
  BY <1>1, <1>2 DEF RecordWrites
<1> QED
  BY <1>3 DEF Written

LEMMA FailedIsLedger ==
    ASSUME Honest, PlaceInv, NEW t \in Tasks, FlushFailed(t)
    PROVE  Ledger!Next /\ Written' = Written /\ Pending' \subseteq Pending
<1> DEFINE b == batch[t] \o buffer
<1>1. /\ b \in Seq(Points) /\ IsInjective(b) /\ Range(b) = Range(batch[t]) \cup Buffered
      /\ Pending' = Pending \ Evictees(b)
  BY FailedPlaced
<1>2. /\ evicted' = evicted \cup Evictees(b) /\ dropped' = dropped + Over(b)
      /\ UNCHANGED <<accepted, closed>>
  BY DEF FlushFailed, Refill, EnforceCap, InnerReturns
<1> HIDE DEF b
<1>3. Range(b) \subseteq Pending
  BY <1>1 DEF Pending, InFlight
<1>4. Evictees(b) \subseteq Range(b)
  BY <1>1, CappedSubset
<1>5. evicted' \ evicted = Evictees(b) /\ Evictees(b) \subseteq Pending
  BY <1>2, <1>3, <1>4 DEF PlaceInv, SinglePlacement
<1>6. Evictees(b) # {} => Cardinality(Pending) > MaxBuffer
  BY <1>1, <1>3, PendingPoints, ShedsOverCapacity
<1>7. Cardinality(Evictees(b)) = Over(b)
  BY <1>1, EvicteesCount
<1>8. Written' = Written
  BY RefusedIsUnstored
<1>9. Ledger!Retry(evicted' \ evicted)
  BY <1>1, <1>2, <1>5, <1>6, <1>7, <1>8, SameCount DEF Ledger!Retry, Ledger!Shed
<1> QED
  BY <1>1, <1>8, <1>9 DEF Ledger!Next

LEMMA StoredIsLedger ==
    ASSUME Honest, LedgerInv, NEW t \in Tasks, FlushStored(t)
    PROVE  Ledger!Next /\ Unstored'
<1> DEFINE D == Range(batch[t])
<1>1. PICK o \in InnerOutcomes(D) : ~NothingReported(o) /\ RecordWrites(o)
  BY DEF FlushStored, InnerReturns
<1>2. Written' = Written \cup D
  BY <1>1, WritesAdd DEF Honest, Lossless, LedgerInv, PlaceInv, CapInv
<1>3. /\ UNCHANGED <<accepted, evicted, dropped, closed>>
      /\ Pending' = Pending \ D
  BY EmptiedPlaced DEF LedgerInv, FlushStored, InnerReturns
<1>4. D \subseteq Pending
  BY DEF Pending, InFlight
<1> HIDE DEF D
<1>5. Written' \ Written = D
  BY <1>2, <1>4 DEF LedgerInv, Unstored
<1>6. Ledger!Deliver(Written' \ Written)
  BY <1>2, <1>3, <1>4, <1>5 DEF Ledger!Deliver
<1>7. Accepted' = Accepted /\ Pending \subseteq Accepted
  BY <1>3 DEF Accepted, LedgerInv, PlaceInv, Known
<1>8. Unstored'
  BY <1>2, <1>3, <1>4, <1>7 DEF LedgerInv, Unstored
<1> QED
  BY <1>6, <1>8 DEF Ledger!Next

-----------------------------------------------------------------------------
(* The refinement.                                                         *)

LEMMA LedgerStep ==
    ASSUME Honest, LedgerInv, [Next]_vars
    PROVE  Unstored' /\ [Ledger!Next]_(Ledger!ledgerVars)
<1> DEFINE Goal == Unstored' /\ [Ledger!Next]_(Ledger!ledgerVars)
<1>0. PlaceInv /\ Unstored
  BY DEF LedgerInv
<1>1. ASSUME Still, closed' \in {closed, TRUE} PROVE Goal
  <2>1. Accepted' = Accepted
    BY <1>1 DEF Still, Accepted
  <2> QED
    BY <1>0, <1>1, <2>1, StillIsLedger DEF Unstored
<1>2. ASSUME NEW t \in Tasks, Takes(t), closed' \in {closed, TRUE} PROVE Goal
  <2>1. Accepted' = Accepted
    BY <1>2 DEF Takes, Accepted
  <2> QED
    BY <1>0, <1>2, <2>1, TakesIsLedger DEF Unstored
<1>3. ASSUME NEW w \in Tasks, NEW k \in Nat, Appends(w, k) PROVE Goal
  <2>1. Accepted \subseteq Accepted'
    BY <1>0, <1>3, Newcomers DEF Appends
  <2> QED
    BY <1>0, <1>3, <2>1, AppendsIsLedger DEF Unstored
<1>4. ASSUME NEW t \in Tasks, FlushStored(t) PROVE Goal
  BY <1>4, StoredIsLedger
<1>5. ASSUME NEW t \in Tasks, FlushFailed(t) PROVE Goal
  <2>1. Accepted' = Accepted
    BY <1>5 DEF FlushFailed, InnerReturns, Accepted
  <2> QED
    BY <1>0, <1>5, <2>1, FailedIsLedger DEF Unstored
<1>6. ASSUME NEW t \in Tasks, Loses(t) PROVE Goal
  BY <1>6 DEF Loses, Honest, Lossless
<1> QED
  BY <1>1, <1>2, <1>3, <1>4, <1>5, <1>6, StepKinds

LEMMA LedgerInit == Init => Ledger!Init /\ Unstored
<1> SUFFICES ASSUME Init PROVE Ledger!Init /\ Unstored
  OBVIOUS
<1>1. Pending = {} /\ Written = {}
  BY Nothing DEF Init, Pending, Buffered, InFlight, Written
<1> QED
  BY <1>1 DEF Init, Ledger!Init, Unstored

\* With backends that write a batch in one transaction and report what they
\* wrote, and no cancellation, the wrapper implements the ledger: each accepted
\* point is pending until it is delivered or shed, shed only over the cap, and
\* every shed point counted (class BatchingStorage, database.py:570-716).
THEOREM WrapperIsLedger == Honest => (Spec => ImplementsLedger)
<1> SUFFICES ASSUME Honest PROVE Spec => ImplementsLedger
  OBVIOUS
<1>1. Init => Ledger!Init /\ Unstored
  BY LedgerInit
<1>2. PlaceInv /\ Unstored /\ [Next]_vars => Unstored' /\ [Ledger!Next]_(Ledger!ledgerVars)
  BY LedgerStep DEF LedgerInv
<1> QED
  BY <1>1, <1>2, PlaceInvariant, PTL DEF Spec, ImplementsLedger, Ledger!Spec
=============================================================================
