--------------------------- MODULE ShutdownProofs ---------------------------
(***************************************************************************)
(* The order of shutdown: whatever signals arrive and whenever, the        *)
(* storage is closed only after the feed and its consumer have ended, and  *)
(* what was accepted is kept if no stop() begins in haste.  And the feed's *)
(* queue: every point received is accounted for.  The storage inside       *)
(* behaves as its own module says, so what is proved of it holds.          *)
(***************************************************************************)
EXTENDS Shutdown, SequenceTheorems, TLAPS

Tasks == Storage!Tasks
Places == Storage!Places

\* How far the feed, its consumer, the storage and main() have come together.
Order ==
    /\ pc \in [Tasks -> Places]
    /\ main = "initializing" => pc[Loop] = "off" /\ feed = "none"
    /\ main = "failing" => feed = "none"
    /\ task => feed # "none"
    /\ pc[Loop] # "off" /\ ~task => feed \in {"none", "done"}
    /\ feed \in {"none", "created"} => consumer = "none"
    /\ feed = "draining" => consumer = "done"
    /\ feed = "done" => consumer \in {"none", "done"}
    /\ closed => feed \in {"none", "done"}

LEMMA TaskFacts ==
    /\ Loop \in Tasks /\ Consumer \in Tasks /\ Stoppers \subseteq Tasks
    /\ Loop \notin Stoppers /\ Loop # Consumer
    /\ Main \in Stoppers /\ Signals \subseteq Stoppers
BY LifeAssumption DEF Tasks, Storage!Tasks, Stoppers

-----------------------------------------------------------------------------
(* What the storage's steps do to the periodic task's place.                *)

\* The places keep their type, no periodic task appears or disappears, and the
\* storage is not closed.
Apart ==
    /\ pc' \in [Tasks -> Places]
    /\ pc'[Loop] = "off" <=> pc[Loop] = "off"
    /\ closed' = closed

LEMMA AfterFlushPlace ==
    ASSUME NEW t \in Tasks
    PROVE  Storage!AfterFlush(t) \in Places \ {"off"}
BY LifeAssumption
   DEF Tasks, Storage!Tasks, Stoppers, Storage!AfterFlush, Places, Storage!Places

LEMMA HandOverKeeps ==
    ASSUME NEW t \in Tasks, NEW b, pc \in [Tasks -> Places],
           t = Loop => pc[Loop] # "off", Storage!HandOver(t, b)
    PROVE  /\ pc' \in [Tasks -> Places]
           /\ pc'[Loop] = "off" <=> pc[Loop] = "off"
BY TaskFacts, AfterFlushPlace DEF Storage!HandOver, Places, Storage!Places

LEMMA StoreKeeps ==
    ASSUME pc \in [Tasks -> Places], Storage!StoreDataPoint(Consumer)
    PROVE  Apart
<1>1. closed' = closed
  BY DEF Storage!StoreDataPoint, Storage!Put, Storage!AppendPoints
<1>2. pc' = pc \/ \E b : Storage!HandOver(Consumer, b)
  BY DEF Storage!StoreDataPoint, Storage!Put, Storage!AppendPoints, Storage!BeginFlush
<1> QED
  BY <1>1, <1>2, TaskFacts, HandOverKeeps DEF Apart

LEMMA LoopStepsKeep ==
    ASSUME pc \in [Tasks -> Places], Storage!LoopBegins \/ Storage!LoopWake
    PROVE  Apart /\ pc[Loop] # "off"
<1>1. CASE Storage!LoopBegins
  BY <1>1, TaskFacts DEF Storage!LoopBegins, Apart, Places, Storage!Places
<1>2. CASE Storage!LoopWake
  <2>1. /\ pc[Loop] = "waiting" /\ closed' = closed
        /\ Storage!HandOver(Loop, buffer)
    BY <1>2 DEF Storage!LoopWake, Storage!BeginFlush
  <2> QED
    BY <2>1, TaskFacts, HandOverKeeps DEF Apart
<1> QED
  BY <1>1, <1>2

LEMMA ReturnKeeps ==
    ASSUME NEW t \in Tasks, pc \in [Tasks -> Places],
           Storage!FlushStored(t) \/ Storage!FlushFailed(t)
    PROVE  Apart
<1>1. /\ pc[t] = "writing" /\ closed' = closed
      /\ pc' = [pc EXCEPT ![t] = Storage!AfterFlush(t)]
  BY DEF Storage!FlushStored, Storage!FlushFailed, Storage!InnerReturns
<1> QED
  BY <1>1, TaskFacts, AfterFlushPlace DEF Apart

LEMMA CancelFlushKeeps ==
    ASSUME NEW t \in Tasks, pc \in [Tasks -> Places], Storage!CancelFlush(t)
    PROVE  Apart
<1>1. /\ pc[t] = "writing" /\ closed' = closed
      /\ pc' = [pc EXCEPT ![t] = "cancelled"]
  BY DEF Storage!CancelFlush, Storage!DropBatch
<1> QED
  BY <1>1, TaskFacts DEF Apart, Places, Storage!Places

LEMMA CancelJoinKeeps ==
    ASSUME NEW s \in Stoppers, pc \in [Tasks -> Places], Storage!CancelJoin(s)
    PROVE  Apart
<1>1. /\ pc[Loop] \in {"started", "waiting", "writing"} /\ closed' = closed
      /\ pc' = [pc EXCEPT ![Loop] = "done"]
  BY DEF Storage!CancelJoin, Storage!DropBatch
<1> QED
  BY <1>1, TaskFacts DEF Apart, Places, Storage!Places

LEMMA ClosingKeeps ==
    ASSUME NEW s \in Stoppers, pc \in [Tasks -> Places],
           Storage!CloseJoined(s) \/ Storage!CloseInner(s)
    PROVE  Apart
<1>1. CASE Storage!CloseJoined(s)
  <2>1. closed' = closed /\ Storage!HandOver(s, buffer)
    BY <1>1 DEF Storage!CloseJoined, Storage!BeginFlush
  <2> QED
    BY <2>1, TaskFacts, HandOverKeeps DEF Apart
<1>2. CASE Storage!CloseInner(s)
  BY <1>2, TaskFacts DEF Storage!CloseInner, Apart, Places, Storage!Places
<1> QED
  BY <1>1, <1>2

\* The beginning of close() keeps the places too; it may close the storage.
LEMMA CloseKeeps ==
    ASSUME NEW s \in Stoppers, pc \in [Tasks -> Places],
           Storage!CloseAgain(s) \/ Storage!CloseAndJoin(s)
    PROVE  /\ pc' \in [Tasks -> Places]
           /\ pc'[Loop] = "off" <=> pc[Loop] = "off"
BY TaskFacts DEF Storage!CloseAgain, Storage!CloseAndJoin, Places, Storage!Places

-----------------------------------------------------------------------------
(* The invariant.                                                           *)

LEMMA OrderInit == Init => Order
BY TaskFacts DEF Init, Order, Storage!Init, Tasks, Places, Storage!Places

\* A step that closes the sinks of a feed that has ended, or of none.
LEMMA CloseSinksKeeps ==
    ASSUME NEW s \in Stoppers, Order, CloseSinks(s),
           pc[Loop] # "off" => feed \in {"none", "done"},
           main' \in {"initializing", "failing"} => main' = main
    PROVE  Order'
<1>1. /\ UNCHANGED <<feed, consumer>> /\ task' = FALSE
      /\ \/ pc[Loop] = "off" /\ UNCHANGED <<pc, closed>>
         \/ pc[Loop] # "off" /\ (Storage!CloseAgain(s) \/ Storage!CloseAndJoin(s))
  BY DEF CloseSinks, feedVars, storageVars
<1>2. CASE pc[Loop] = "off"
  BY <1>1, <1>2 DEF Order
<1>3. CASE pc[Loop] # "off"
  <2>1. pc' \in [Tasks -> Places] /\ pc'[Loop] # "off"
    BY <1>1, <1>3, CloseKeeps DEF Order
  <2>2. main' # "initializing"
    BY <1>3 DEF Order
  <2> QED
    BY <1>1, <1>3, <2>1, <2>2 DEF Order
<1> QED
  BY <1>2, <1>3

\* A step of the storage alone.
LEMMA StorageKeeps ==
    ASSUME Order, Apart, UNCHANGED <<feed, consumer, task>>, main' = main
    PROVE  Order'
BY DEF Order, Apart

\* Every step keeps the order of shutdown.
LEMMA OrderStep == Order /\ [Next]_vars => Order'
<1> SUFFICES ASSUME Order, [Next]_vars PROVE Order'
  OBVIOUS
<1> USE TaskFacts
<1>0. pc \in [Tasks -> Places]
  BY DEF Order
<1>1. CASE Starts
  <2>1. /\ main = "initializing" /\ task' = TRUE /\ feed' = "created"
        /\ main' \notin {"initializing", "failing"} /\ consumer' = consumer
        /\ ~closed /\ closed' = closed
        /\ pc' = [pc EXCEPT ![Loop] = "started"]
    BY <1>1 DEF Starts, Storage!Start
  <2> QED
    BY <1>0, <2>1 DEF Order, Places, Storage!Places
<1>2. CASE InitFails \/ FailedStops
  BY <1>2, CloseSinksKeeps DEF InitFails, FailedStops, Order
<1>2a. CASE WiringFails
  <2>1. /\ main = "initializing" /\ main' = "failing" /\ UNCHANGED <<feed, consumer, task>>
        /\ ~closed /\ closed' = closed
        /\ pc' = [pc EXCEPT ![Loop] = "started"]
    BY <1>2a DEF WiringFails, Storage!Start, feedVars
  <2> QED
    BY <1>0, <2>1 DEF Order, Places, Storage!Places
<1>3. CASE Collected
  <2>1. CASE CloseSinks(Main) /\ main' = "stopping" /\ (IF task THEN feed = "done" ELSE ~running)
    BY <2>1, CloseSinksKeeps DEF Order
  <2>2. CASE main' = "awaiting" /\ UNCHANGED <<storageVars, feedVars, task>>
    BY <2>2 DEF Order, storageVars, feedVars
  <2> QED
    BY <1>3, <2>1, <2>2 DEF Collected
<1>4. CASE FeedEnded
  BY <1>4, CloseSinksKeeps DEF FeedEnded, NextWaiter
<1>5. CASE Ends
  BY <1>5 DEF Ends, Order, storageVars, feedVars
<1>6. CASE FeedBegins
  BY <1>6 DEF FeedBegins, Order, storageVars, lifeVars
<1>7. CASE Receive
  BY <1>7 DEF Receive, Order, storageVars, feedVars, lifeVars
<1>8. CASE FeedCancelled
  BY <1>8 DEF FeedCancelled, Order, storageVars, lifeVars
<1>9. CASE FeedCancelledAgain
  BY <1>9 DEF FeedCancelledAgain, Order, storageVars, lifeVars
<1>10. CASE ConsumerCancelled
  <2>1. /\ consumer = "stopping" /\ consumer' = "done"
        /\ UNCHANGED <<feed, task, main>>
        /\ Apart
    <3>1. Storage!CancelFlush(Consumer) \/ UNCHANGED <<pc, closed>>
      BY <1>10 DEF ConsumerCancelled, storageVars
    <3>2. Apart
      BY <1>0, <3>1, CancelFlushKeeps DEF Apart
    <3> QED
      BY <1>10, <3>2 DEF ConsumerCancelled, lifeVars
  <2> QED
    BY <2>1 DEF Order, Apart
<1>11. CASE FeedJoined
  BY <1>11 DEF FeedJoined, Order, storageVars, lifeVars
<1>12. CASE FeedDrained
  BY <1>12 DEF FeedDrained, Order, storageVars, lifeVars
<1>13. ASSUME NEW stores \in BOOLEAN, Consume(stores) PROVE Order'
  <2>1. Storage!StoreDataPoint(Consumer) \/ UNCHANGED <<pc, closed>>
    BY <1>13 DEF Consume, storageVars
  <2>2. Apart
    BY <1>0, <2>1, StoreKeeps DEF Apart
  <2>3. UNCHANGED <<feed, consumer, task>> /\ main' = main
    BY <1>13 DEF Consume, feedVars, lifeVars
  <2> QED
    BY <2>2, <2>3, StorageKeeps
<1>14. ASSUME NEW s \in Signals, Signal(s) PROVE Order'
  BY <1>14 DEF Signal, Order, storageVars, feedVars
<1>15. ASSUME NEW s \in Signals, StopBegins(s) PROVE Order'
  <2>1. CASE AwaitFeed(s)
    BY <2>1 DEF AwaitFeed, Order, storageVars
  <2>2. CASE ~(task /\ feed # "done") /\ CloseSinks(s) /\ UNCHANGED <<waiters, main>>
    BY <2>2, CloseSinksKeeps DEF Order
  <2> QED
    BY <1>15, <2>1, <2>2 DEF StopBegins
<1>16. ASSUME NEW s \in Signals, StopResumes(s) PROVE Order'
  BY <1>16, CloseSinksKeeps DEF StopResumes, NextWaiter
<1>17. ASSUME NEW s \in Signals, CutOff(s) PROVE Order'
  <2>1. \/ UNCHANGED <<pc, closed>>
        \/ Storage!CancelJoin(s) \/ Storage!CancelFlush(s)
        \/ Storage!CloseInner(s) \/ Storage!CloseJoined(s)
    BY <1>17 DEF CutOff, storageVars
  <2>2. s \in Stoppers /\ s \in Tasks
    OBVIOUS
  <2>3. Apart
    <3>1. CASE UNCHANGED <<pc, closed>>
      BY <1>0, <3>1 DEF Apart
    <3>2. CASE Storage!CancelJoin(s)
      BY <1>0, <2>2, <3>2, CancelJoinKeeps
    <3>3. CASE Storage!CancelFlush(s)
      BY <1>0, <2>2, <3>3, CancelFlushKeeps
    <3>4. CASE Storage!CloseInner(s) \/ Storage!CloseJoined(s)
      BY <1>0, <2>2, <3>4, ClosingKeeps
    <3> QED
      BY <2>1, <3>1, <3>2, <3>3, <3>4
  <2>4. UNCHANGED <<feed, consumer, task>> /\ main' = main
    BY <1>17 DEF CutOff, feedVars
  <2> QED
    BY <2>3, <2>4, StorageKeeps
<1>18. ASSUME NEW s \in Stoppers, Closing(s) PROVE Order'
  BY <1>0, <1>18, ClosingKeeps, StorageKeeps DEF Closing, feedVars, lifeVars
<1>19. ASSUME NEW t \in Storage!Tasks, FlushReturns(t) PROVE Order'
  BY <1>0, <1>19, ReturnKeeps, StorageKeeps DEF FlushReturns, feedVars, lifeVars, Tasks
<1>20. CASE LoopSteps
  BY <1>0, <1>20, LoopStepsKeep, StorageKeeps DEF LoopSteps, feedVars, lifeVars
<1>21. CASE UNCHANGED vars
  BY <1>21 DEF Order, vars, storageVars, feedVars, lifeVars
<1> QED
  BY <1>1, <1>2, <1>2a, <1>3, <1>4, <1>5, <1>6, <1>7, <1>8, <1>9, <1>10, <1>11, <1>12,
     <1>13, <1>14, <1>15, <1>16, <1>17, <1>18, <1>19, <1>20, <1>21
     DEF Next, Step

\* The storage is closed only when the live feed and its consumer have ended, or were
\* never begun, whatever signals arrive and at whatever moment of the start or of
\* another stop().
THEOREM SinksClosedLast == Spec => []SinksOutliveFeed
<1>1. Order => SinksOutliveFeed
  BY DEF Order, SinksOutliveFeed
<1> QED
  BY <1>1, OrderInit, OrderStep, PTL DEF Spec

-----------------------------------------------------------------------------
(* The hand-off queue.                                                      *)

Increasing(s) == \A i, j \in DOMAIN s : i < j => s[i] < s[j]

\* The points wait in the order they came.
QueueInv ==
    /\ offered \in Nat
    /\ queue \in Seq(Nat) /\ Len(queue) <= QueueSize
    /\ Increasing(queue)
    /\ FeedAccounted

\* Taking the first point of an increasing queue leaves larger ones.
LEMMA HeadLeaves ==
    ASSUME NEW s \in Seq(Nat), s # <<>>, Increasing(s)
    PROVE  /\ Tail(s) \in Seq(Nat) /\ Len(Tail(s)) = Len(s) - 1 /\ Increasing(Tail(s))
           /\ Range(s) = Range(Tail(s)) \cup {Head(s)}
           /\ \A q \in Range(Tail(s)) : Head(s) < q
<1> DEFINE n == Len(s)
           t == Tail(s)
<1>1. /\ n \in Nat \ {0} /\ DOMAIN s = 1 .. n /\ Head(s) = s[1]
  BY EmptySeq
<1>2. /\ t \in Seq(Nat) /\ Len(t) = n - 1 /\ DOMAIN t = 1 .. n - 1
      /\ \A i \in 1 .. n - 1 : t[i] = s[i + 1]
  BY <1>1
<1>3. \A i, j \in 1 .. n : i < j => s[i] < s[j]
  BY <1>1 DEF Increasing
<1> HIDE DEF n, t
<1>4. \A i \in 1 .. n - 1 : i + 1 \in 1 .. n
  BY <1>1
<1>5. Increasing(t)
  <2> SUFFICES ASSUME NEW i \in 1 .. n - 1, NEW j \in 1 .. n - 1, i < j PROVE t[i] < t[j]
    BY <1>2 DEF Increasing
  <2>1. i + 1 \in 1 .. n /\ j + 1 \in 1 .. n /\ i + 1 < j + 1
    BY <1>4
  <2> QED
    BY <1>2, <1>3, <2>1
<1>6. \A i \in 1 .. n - 1 : s[1] < t[i]
  <2> SUFFICES ASSUME NEW i \in 1 .. n - 1 PROVE s[1] < s[i + 1]
    BY <1>2
  <2>1. 1 \in 1 .. n /\ i + 1 \in 1 .. n /\ 1 < i + 1
    BY <1>1, <1>4
  <2> QED
    BY <1>3, <2>1
<1>7. Range(s) = Range(t) \cup {s[1]}
  <2>1. \A i \in 1 .. n : i = 1 \/ (i - 1 \in 1 .. n - 1 /\ t[i - 1] = s[i])
    BY <1>1, <1>2
  <2>2. 1 \in 1 .. n
    BY <1>1
  <2> QED
    <3>1. Range(s) = {s[i] : i \in 1 .. n} /\ Range(t) = {t[i] : i \in 1 .. n - 1}
      BY <1>1, <1>2 DEF Range
    <3>2. \A i \in 1 .. n : s[i] \in Range(t) \cup {s[1]}
      BY <2>1, <3>1
    <3>3. \A i \in 1 .. n - 1 : t[i] \in Range(s)
      BY <1>2, <1>4, <3>1
    <3> QED
      BY <2>2, <3>1, <3>2, <3>3
<1> QED
  BY <1>1, <1>2, <1>5, <1>6, <1>7 DEF Range, n, t

\* A larger point joins an increasing queue.
LEMMA Joins ==
    ASSUME NEW s \in Seq(Nat), Increasing(s), NEW p \in Nat, \A q \in Range(s) : q < p
    PROVE  /\ Append(s, p) \in Seq(Nat) /\ Len(Append(s, p)) = Len(s) + 1
           /\ Increasing(Append(s, p))
           /\ Range(Append(s, p)) = Range(s) \cup {p}
<1> DEFINE n == Len(s)
           t == Append(s, p)
<1>1. n \in Nat /\ DOMAIN s = 1 .. n
  OBVIOUS
<1>2. /\ t \in Seq(Nat) /\ Len(t) = n + 1 /\ DOMAIN t = 1 .. n + 1
      /\ t[n + 1] = p /\ \A i \in 1 .. n : t[i] = s[i]
  BY <1>1
<1>3. \A i, j \in 1 .. n : i < j => s[i] < s[j]
  BY <1>1 DEF Increasing
<1>4. \A i \in 1 .. n : s[i] < p
  BY <1>1 DEF Range
<1> HIDE DEF n, t
<1>5. \A i \in 1 .. n + 1 : i \in 1 .. n \/ i = n + 1
  BY <1>1
<1>6. n + 1 \in 1 .. n + 1 /\ \A i \in 1 .. n : i \in 1 .. n + 1 /\ ~(n + 1 < i)
  BY <1>1
<1>7. Increasing(t)
  <2> SUFFICES ASSUME NEW i \in 1 .. n + 1, NEW j \in 1 .. n + 1, i < j PROVE t[i] < t[j]
    BY <1>2 DEF Increasing
  <2>1. i \in 1 .. n
    BY <1>1
  <2> QED
    BY <1>2, <1>3, <1>4, <1>5, <2>1
<1>8. Range(t) = Range(s) \cup {p}
  BY <1>1, <1>2, <1>5, <1>6 DEF Range
<1> QED
  BY <1>2, <1>7, <1>8 DEF n, t

\* Only the socket and the consumer move the queue.
LEMMA QueueMoves ==
    ASSUME [Next]_vars
    PROVE  \/ Receive
           \/ \E stores \in BOOLEAN : Consume(stores)
           \/ UNCHANGED queueVars
BY DEF Next, Step, vars, Starts, InitFails, WiringFails, FailedStops, Collected,
   FeedEnded, Ends, FeedBegins, FeedCancelled, FeedCancelledAgain, ConsumerCancelled, FeedJoined, FeedDrained, Signal, StopBegins,
   StopResumes, CutOff, Closing, FlushReturns, LoopSteps, CloseSinks, AwaitFeed

LEMMA QueueStep == QueueInv /\ [Next]_vars => QueueInv'
<1> SUFFICES ASSUME QueueInv, [Next]_vars PROVE QueueInv'
  OBVIOUS
<1>1. /\ offered \in Nat /\ queue \in Seq(Nat) /\ Len(queue) \in Nat
      /\ Len(queue) <= QueueSize /\ Increasing(queue)
      /\ shed \cup taken \cup Range(queue) = 1 .. offered
      /\ shed \cap taken = {}
      /\ \A p \in shed \cup taken : \A q \in Range(queue) : p < q
  BY DEF QueueInv, FeedAccounted
<1>2. QueueSize \in Nat \ {0}
  BY LifeAssumption
<1>3. CASE Receive
  <2> DEFINE p == offered + 1
  <2>1. offered' = p /\ taken' = taken /\ p \in Nat
    BY <1>1, <1>3 DEF Receive
  <2>2. \A q \in shed \cup taken \cup Range(queue) : q < p
    BY <1>1
  <2>3. (1 .. offered) \cup {p} = 1 .. p
    BY <1>1
  <2>4. Enqueue(p)
    BY <1>3, <2>1 DEF Receive
  <2> HIDE DEF p
  <2>5. CASE Len(queue) < QueueSize
    <3>1. queue' = Append(queue, p) /\ shed' = shed
      BY <2>4, <2>5 DEF Enqueue
    <3>2. /\ queue' \in Seq(Nat) /\ Len(queue') = Len(queue) + 1 /\ Increasing(queue')
          /\ Range(queue') = Range(queue) \cup {p}
      BY <1>1, <2>1, <2>2, <3>1, Joins
    <3>3. Len(queue') <= QueueSize
      BY <1>1, <1>2, <2>5, <3>2
    <3>4. FeedAccounted'
      BY <1>1, <2>1, <2>2, <2>3, <3>1, <3>2 DEF FeedAccounted
    <3> QED
      BY <2>1, <3>2, <3>3, <3>4 DEF QueueInv
  <2>6. CASE ~(Len(queue) < QueueSize)
    <3> DEFINE t == Tail(queue)
    <3>1. queue' = Append(t, p) /\ shed' = shed \cup {Head(queue)}
      BY <2>4, <2>6 DEF Enqueue
    <3>2. queue # <<>> /\ Len(queue) = QueueSize
      BY <1>1, <1>2, <2>6
    <3>3. /\ t \in Seq(Nat) /\ Len(t) = Len(queue) - 1 /\ Increasing(t)
          /\ Range(queue) = Range(t) \cup {Head(queue)}
          /\ \A q \in Range(t) : Head(queue) < q
      BY <1>1, <3>2, HeadLeaves
    <3> HIDE DEF t
    <3>4. \A q \in Range(t) : q < p
      BY <2>2, <3>3
    <3>5. /\ queue' \in Seq(Nat) /\ Len(queue') = Len(t) + 1 /\ Increasing(queue')
          /\ Range(queue') = Range(t) \cup {p}
      BY <2>1, <3>1, <3>3, <3>4, Joins
    <3>6. Len(queue') <= QueueSize
      BY <1>1, <3>3, <3>5
    <3>7. Head(queue) \in Nat /\ Head(queue) < p /\ Head(queue) \notin taken
      <4>1. Head(queue) \in Nat /\ Head(queue) \in Range(queue)
        BY <1>1, <3>2, <3>3, EmptySeq
      <4>2. Head(queue) < p /\ ~(Head(queue) < Head(queue))
        BY <2>2, <4>1
      <4> QED
        BY <1>1, <4>1, <4>2
    <3>8. FeedAccounted'
      <4>1. shed' \cup taken' \cup Range(queue') = 1 .. offered'
        BY <1>1, <2>1, <2>3, <3>1, <3>3, <3>5
      <4>2. shed' \cap taken' = {}
        BY <1>1, <2>1, <3>1, <3>7
      <4>3. \A o \in shed' \cup taken' : \A q \in Range(queue') : o < q
        BY <1>1, <2>1, <2>2, <3>1, <3>3, <3>5, <3>7
      <4> QED
        BY <4>1, <4>2, <4>3 DEF FeedAccounted
    <3> QED
      BY <2>1, <3>5, <3>6, <3>8 DEF QueueInv
  <2> QED
    BY <2>5, <2>6
<1>4. ASSUME NEW stores \in BOOLEAN, Consume(stores) PROVE QueueInv'
  <2> DEFINE t == Tail(queue)
  <2>1. /\ queue # <<>> /\ queue' = t /\ taken' = taken \cup {Head(queue)}
        /\ UNCHANGED <<offered, shed>>
    BY <1>4 DEF Consume
  <2>2. /\ t \in Seq(Nat) /\ Len(t) = Len(queue) - 1 /\ Increasing(t)
        /\ Range(queue) = Range(t) \cup {Head(queue)}
        /\ \A q \in Range(t) : Head(queue) < q
    BY <1>1, <2>1, HeadLeaves
  <2> HIDE DEF t
  <2>3. Len(t) <= QueueSize
    BY <1>1, <1>2, <2>2
  <2>4. Head(queue) \notin shed
    <3>1. Head(queue) \in 1 .. offered /\ ~(Head(queue) < Head(queue))
      BY <1>1, <2>2
    <3> QED
      BY <1>1, <2>2, <3>1
  <2>5. FeedAccounted'
    BY <1>1, <2>1, <2>2, <2>4 DEF FeedAccounted
  <2> QED
    BY <1>1, <2>1, <2>2, <2>3, <2>5 DEF QueueInv
<1>5. CASE UNCHANGED queueVars
  BY <1>5 DEF QueueInv, FeedAccounted, queueVars
<1> QED
  BY <1>3, <1>4, <1>5, QueueMoves

LEMMA QueueInit == Init => QueueInv
<1> SUFFICES ASSUME Init PROVE QueueInv
  OBVIOUS
<1>1. offered = 0 /\ queue = <<>> /\ shed = {} /\ taken = {}
  BY DEF Init
<1>2. queue \in Seq(Nat) /\ Len(queue) = 0 /\ DOMAIN queue = {}
  BY <1>1, EmptySeq
<1>3. Len(queue) <= QueueSize
  BY <1>2, LifeAssumption
<1>4. Range(queue) = {} /\ Increasing(queue)
  BY <1>2 DEF Range, Increasing
<1> QED
  BY <1>1, <1>2, <1>3, <1>4 DEF QueueInv, FeedAccounted

\* Every point received is queued, was taken, or is counted as dropped, and the
\* older ones leave first: for every limit of the queue and whenever the feed ends.
THEOREM FeedPointsAccounted == Spec => []FeedAccounted
<1>1. QueueInv => FeedAccounted
  BY DEF QueueInv
<1> QED
  BY <1>1, QueueInit, QueueStep, PTL DEF Spec

-----------------------------------------------------------------------------
(* The storage inside.                                                      *)

\* What a step of the process does to the storage is a step of BatchingStorage.
LEMMA StorageSteps ==
    ASSUME [Next]_vars
    PROVE  Storage!Next \/ UNCHANGED Storage!vars
<1> USE TaskFacts
<1> DEFINE Same == UNCHANGED Storage!vars
           Does == Storage!Next \/ Same
<1>0. UNCHANGED storageVars => Same
  BY DEF storageVars, Storage!vars
<1>a. Stoppers \subseteq Storage!Tasks /\ Consumer \in Storage!Tasks
  BY DEF Tasks
<1>b. ASSUME NEW s \in Stoppers, CloseSinks(s) PROVE Does
  <2>1. UNCHANGED storageVars \/ Storage!CloseAgain(s) \/ Storage!CloseAndJoin(s)
    BY <1>b DEF CloseSinks
  <2> QED
    BY <1>0, <2>1 DEF Storage!Next
<1>1. CASE Starts \/ WiringFails
  BY <1>1 DEF Starts, WiringFails, Storage!Next
<1>2. CASE InitFails \/ FailedStops \/ FeedEnded
  BY <1>2, <1>b DEF InitFails, FailedStops, FeedEnded
<1>3. CASE Collected
  BY <1>0, <1>3, <1>b DEF Collected
<1>4. CASE \/ Ends \/ FeedBegins \/ Receive \/ FeedCancelled \/ FeedCancelledAgain
           \/ FeedJoined \/ FeedDrained
  BY <1>0, <1>4 DEF Ends, FeedBegins, Receive, FeedCancelled, FeedCancelledAgain,
     FeedJoined, FeedDrained
<1>5. CASE ConsumerCancelled
  <2>1. Storage!CancelFlush(Consumer) \/ UNCHANGED storageVars
    BY <1>5 DEF ConsumerCancelled
  <2> QED
    BY <1>0, <1>a, <2>1 DEF Storage!Next
<1>6. ASSUME NEW stores \in BOOLEAN, Consume(stores) PROVE Does
  <2>1. Storage!StoreDataPoint(Consumer) \/ UNCHANGED storageVars
    BY <1>6 DEF Consume
  <2> QED
    BY <1>0, <2>1 DEF Storage!Next
<1>7. ASSUME NEW s \in Signals, Signal(s) PROVE Does
  BY <1>0, <1>7 DEF Signal
<1>8. ASSUME NEW s \in Signals, StopBegins(s) \/ StopResumes(s) PROVE Does
  <2>1. UNCHANGED storageVars \/ CloseSinks(s)
    BY <1>8 DEF StopBegins, StopResumes, AwaitFeed
  <2> QED
    BY <1>0, <1>b, <2>1
<1>9. ASSUME NEW s \in Signals, CutOff(s) PROVE Does
  <2>1. \/ UNCHANGED storageVars
        \/ Storage!CancelJoin(s) \/ Storage!CancelFlush(s)
        \/ Storage!CloseInner(s) \/ Storage!CloseJoined(s)
    BY <1>9 DEF CutOff
  <2> QED
    BY <1>0, <1>a, <2>1 DEF Storage!Next
<1>10. ASSUME NEW s \in Stoppers, Closing(s) PROVE Does
  BY <1>10 DEF Closing, Storage!Next
<1>11. ASSUME NEW t \in Storage!Tasks, FlushReturns(t) PROVE Does
  BY <1>11 DEF FlushReturns, Storage!Next
<1>12. CASE LoopSteps
  BY <1>12 DEF LoopSteps, Storage!Next
<1>13. CASE UNCHANGED vars
  BY <1>0, <1>13 DEF vars
<1> QED
  BY <1>1, <1>2, <1>3, <1>4, <1>5, <1>6, <1>7, <1>8, <1>9, <1>10, <1>11, <1>12, <1>13
     DEF Next, Step

\* The storage that the process drives is one that BatchingStorage allows: all
\* that is proved of that module holds here, however the process starts and ends.
THEOREM StorageInside == Spec => Storage!Spec
<1>1. Init => Storage!Init
  BY DEF Init
<1>2. [Next]_vars => [Storage!Next]_(Storage!vars)
  BY StorageSteps
<1> QED
  BY <1>1, <1>2, PTL DEF Spec, Storage!Spec

-----------------------------------------------------------------------------
(***************************************************************************)
(* The types of the process: those of the storage inside it, which are     *)
(* proved in the storage's own module and carried over, and its own.       *)
(***************************************************************************)

Inside == INSTANCE BatchingStorageProofs WITH
    Writers <- {Consumer},
    Readers <- {},
    Closers <- Stoppers,
    Cancellable <- Stoppers \cup {Consumer},
    MaxBatch <- 1,
    MaxPoints <- MaxOffered

-----------------------------------------------------------------------------
(* Inside is the Storage of Shutdown: the same module and the same values. *)

\* The variables are the same.
LEMMA SameVars == Inside!vars = Storage!vars
BY DEF Inside!vars, Storage!vars

\* So are the initial states.
LEMMA SameInit == Storage!Init => Inside!Init
BY DEF Inside!Init, Storage!Init, Inside!Tasks, Storage!Tasks

\* What the backends may do, and what flush() makes of it.
LEMMA SameOutcomes ==
    /\ \A S : Storage!InnerOutcomes(S) = Inside!InnerOutcomes(S)
    /\ \A o : /\ Storage!NothingReported(o) = Inside!NothingReported(o)
              /\ Storage!RecordWrites(o) = Inside!RecordWrites(o)
    /\ \A t : Storage!AfterFlush(t) = Inside!AfterFlush(t)
<1>1. \A b, S : Storage!BackendOutcomes(b, S) = Inside!BackendOutcomes(b, S)
  BY DEF Storage!BackendOutcomes, Inside!BackendOutcomes
<1>2. \A S : Storage!InnerOutcomes(S) = Inside!InnerOutcomes(S)
  BY <1>1 DEF Storage!InnerOutcomes, Inside!InnerOutcomes
<1>3. \A o : Storage!NothingReported(o) = Inside!NothingReported(o)
  BY DEF Storage!NothingReported, Inside!NothingReported
<1>4. \A o : Storage!RecordWrites(o) = Inside!RecordWrites(o)
  BY DEF Storage!RecordWrites, Inside!RecordWrites
<1>5. \A t : Storage!AfterFlush(t) = Inside!AfterFlush(t)
  BY DEF Storage!AfterFlush, Inside!AfterFlush
<1> QED
  BY <1>2, <1>3, <1>4, <1>5

\* The library's Range, in each of them.
LEMMA SameRange == \A f : Storage!Range(f) = Range(f) /\ Inside!Range(f) = Range(f)
BY DEF Storage!Range, Inside!Range, Range

\* The end of a call of the inner store.
LEMMA SameReturns ==
    ASSUME NEW t, NEW refused, Storage!InnerReturns(t, refused)
    PROVE  Inside!InnerReturns(t, refused)
<1>1. PICK o \in Storage!InnerOutcomes(Storage!Range(batch[t])) :
        Storage!NothingReported(o) = refused /\ Storage!RecordWrites(o)
  BY DEF Storage!InnerReturns
<1>2. o \in Inside!InnerOutcomes(Inside!Range(batch[t]))
  <2>1. Storage!Range(batch[t]) = Inside!Range(batch[t])
    BY SameRange
  <2> QED
    BY <1>1, <2>1, SameOutcomes
<1>3. Inside!NothingReported(o) = refused
  BY <1>1, SameOutcomes
<1>4. Inside!RecordWrites(o)
  BY <1>1, SameOutcomes
<1>5. Storage!AfterFlush(t) = Inside!AfterFlush(t)
  BY SameOutcomes
<1> QED
  BY <1>2, <1>3, <1>4, <1>5 DEF Storage!InnerReturns, Inside!InnerReturns

\* A batch lost to a cancellation.
LEMMA SameDrop ==
    ASSUME NEW t, NEW then, Storage!DropBatch(t, then)
    PROVE  Inside!DropBatch(t, then)
<1>1. PICK o \in Storage!InnerOutcomes(Storage!Range(batch[t])) : Storage!RecordWrites(o)
  BY DEF Storage!DropBatch
<1>2. o \in Inside!InnerOutcomes(Inside!Range(batch[t]))
  <2>1. Storage!Range(batch[t]) = Inside!Range(batch[t])
    BY SameRange
  <2> QED
    BY <1>1, <2>1, SameOutcomes
<1>3. Inside!RecordWrites(o)
  BY <1>1, SameOutcomes
<1> QED
  BY <1>2, <1>3 DEF Storage!DropBatch, Inside!DropBatch

\* A batch put back.
LEMMA SameRefill ==
    ASSUME NEW b, Storage!Refill(b)
    PROVE  Inside!Refill(b)
BY DEF Storage!Refill, Inside!Refill, Storage!EnforceCap, Inside!EnforceCap,
   Storage!Over, Inside!Over, Storage!Capped, Inside!Capped,
   Storage!Evictees, Inside!Evictees

\* The beginning of a flush.
LEMMA SameFlush ==
    ASSUME NEW t, NEW b, Storage!BeginFlush(t, b)
    PROVE  Inside!BeginFlush(t, b)
BY DEF Storage!BeginFlush, Inside!BeginFlush, Storage!HandOver, Inside!HandOver,
   Storage!AfterFlush, Inside!AfterFlush, Storage!Flushing, Inside!Flushing,
   Storage!Tasks, Inside!Tasks

\* Points added to the buffer.
LEMMA SameAppend ==
    ASSUME NEW w, NEW k, Storage!AppendPoints(w, k)
    PROVE  Inside!AppendPoints(w, k)
BY DEF Storage!AppendPoints, Inside!AppendPoints, Storage!EnforceCap, Inside!EnforceCap,
   Storage!Over, Inside!Over, Storage!Capped, Inside!Capped,
   Storage!Evictees, Inside!Evictees, Storage!BeginFlush, Inside!BeginFlush,
   Storage!HandOver, Inside!HandOver, Storage!AfterFlush, Inside!AfterFlush,
   Storage!Flushing, Inside!Flushing, Storage!Tasks, Inside!Tasks

\* The steps of the storage that cancel no task.
StorageCalm ==
    \/ Storage!Start \/ Storage!LoopBegins \/ Storage!LoopWake
    \/ Storage!StoreDataPoint(Consumer) \/ Storage!StoreDataPoints(Consumer)
    \/ \E t \in Storage!Tasks : Storage!FlushStored(t) \/ Storage!FlushFailed(t)
    \/ \E c \in Stoppers :
        \/ Storage!CloseAgain(c) \/ Storage!CloseAndJoin(c) \/ Storage!CloseUnstarted(c)
        \/ Storage!CloseJoined(c) \/ Storage!CloseInner(c)

\* They are the same in both.
LEMMA SameCalm == StorageCalm => Inside!Calm
<1> SUFFICES ASSUME StorageCalm PROVE Inside!Calm
  OBVIOUS
<1>0. Storage!Tasks = Inside!Tasks
  BY DEF Storage!Tasks, Inside!Tasks
<1>1. CASE Storage!Start
  BY <1>1 DEF Storage!Start, Inside!Start, Inside!Calm
<1>2. CASE Storage!LoopBegins
  BY <1>2 DEF Storage!LoopBegins, Inside!LoopBegins, Inside!Calm
<1>3. CASE Storage!LoopWake
  BY <1>3, SameFlush DEF Storage!LoopWake, Inside!LoopWake, Inside!Calm
<1>4. ASSUME Storage!StoreDataPoint(Consumer) \/ Storage!StoreDataPoints(Consumer)
      PROVE  Inside!Calm
  <2>1. Inside!StoreDataPoint(Consumer) \/ Inside!StoreDataPoints(Consumer)
    BY <1>4, SameAppend DEF Storage!StoreDataPoint, Storage!StoreDataPoints, Storage!Put,
       Inside!StoreDataPoint, Inside!StoreDataPoints, Inside!Put
  <2> QED
    BY <2>1 DEF Inside!Calm
<1>5. ASSUME NEW t \in Storage!Tasks, Storage!FlushStored(t) \/ Storage!FlushFailed(t)
      PROVE  Inside!Calm
  <2>1. CASE Storage!FlushStored(t)
    <3>1. Inside!FlushStored(t)
      BY <2>1, SameReturns DEF Storage!FlushStored, Inside!FlushStored
    <3> QED
      BY <1>0, <3>1 DEF Inside!Calm
  <2>2. CASE Storage!FlushFailed(t)
    <3>1. Inside!FlushFailed(t)
      BY <2>2, SameReturns, SameRefill DEF Storage!FlushFailed, Inside!FlushFailed
    <3> QED
      BY <1>0, <3>1 DEF Inside!Calm
  <2> QED
    BY <1>5, <2>1, <2>2
<1>6. ASSUME NEW c \in Stoppers,
             \/ Storage!CloseAgain(c) \/ Storage!CloseAndJoin(c) \/ Storage!CloseUnstarted(c)
             \/ Storage!CloseJoined(c) \/ Storage!CloseInner(c)
      PROVE  Inside!Calm
  <2>1. CASE Storage!CloseAgain(c)
    BY <2>1 DEF Storage!CloseAgain, Inside!CloseAgain, Inside!Calm
  <2>2. CASE Storage!CloseAndJoin(c)
    BY <2>2 DEF Storage!CloseAndJoin, Inside!CloseAndJoin, Inside!Calm
  <2>3. CASE Storage!CloseUnstarted(c)
    <3>1. Inside!CloseUnstarted(c)
      BY <2>3, SameFlush DEF Storage!CloseUnstarted, Inside!CloseUnstarted
    <3> QED
      BY <3>1 DEF Inside!Calm
  <2>4. CASE Storage!CloseJoined(c)
    <3>1. Inside!CloseJoined(c)
      BY <2>4, SameFlush DEF Storage!CloseJoined, Inside!CloseJoined
    <3> QED
      BY <3>1 DEF Inside!Calm
  <2>5. CASE Storage!CloseInner(c)
    BY <2>5 DEF Storage!CloseInner, Inside!CloseInner, Inside!Calm
  <2> QED
    BY <1>6, <2>1, <2>2, <2>3, <2>4, <2>5
<1> QED
  BY <1>1, <1>2, <1>3, <1>4, <1>5, <1>6 DEF StorageCalm

\* Every step of the one is a step of the other.
LEMMA SameNext == Storage!Next => Inside!Next
<1> SUFFICES ASSUME Storage!Next PROVE Inside!Next
  OBVIOUS
<1>0. Storage!Tasks = Inside!Tasks
  BY DEF Storage!Tasks, Inside!Tasks
<1>1. \/ StorageCalm
      \/ \E t \in Storage!Tasks : Storage!CancelFlush(t)
      \/ \E c \in Stoppers : Storage!CancelJoin(c)
  BY DEF Storage!Next, StorageCalm
<1>2. CASE StorageCalm
  <2>1. Inside!Calm
    BY <1>2, SameCalm
  <2> QED
    BY <2>1 DEF Inside!Calm, Inside!Next
<1>3. ASSUME NEW t \in Storage!Tasks, Storage!CancelFlush(t) PROVE Inside!Next
  <2>1. Inside!CancelFlush(t)
    BY <1>3, SameDrop DEF Storage!CancelFlush, Inside!CancelFlush
  <2> QED
    BY <1>0, <2>1 DEF Inside!Next
<1>4. ASSUME NEW c \in Stoppers, Storage!CancelJoin(c) PROVE Inside!Next
  <2>1. Inside!CancelJoin(c)
    BY <1>4, SameDrop DEF Storage!CancelJoin, Inside!CancelJoin
  <2> QED
    BY <2>1 DEF Inside!Next
<1> QED
  BY <1>1, <1>2, <1>3, <1>4

\* The values meet the assumptions of the storage's module.
LEMMA InsideAssumptions == Inside!SizesAssumption /\ Inside!TasksAssumption
BY LifeAssumption DEF Inside!SizesAssumption, Inside!TasksAssumption, Stoppers

\* The invariant proved there is one here.
LEMMA InsideInit == Init => Inside!PlaceInv
<1>1. Inside!Init => Inside!PlaceInv
  BY InsideAssumptions, Inside!PlaceInit
<1> QED
  BY <1>1, SameInit DEF Init

\* And every step of the process is one of the storage inside, or none.
LEMMA StepInside == [Next]_vars => [Inside!Next]_(Inside!vars)
<1> SUFFICES ASSUME [Next]_vars PROVE Inside!Next \/ UNCHANGED Inside!vars
  OBVIOUS
<1>1. Storage!Next \/ UNCHANGED Storage!vars
  BY StorageSteps
<1>2. CASE Storage!Next
  BY <1>2, SameNext
<1>3. CASE UNCHANGED Storage!vars
  BY <1>3 DEF Storage!vars, Inside!vars
<1> QED
  BY <1>1, <1>2, <1>3

\* So every step keeps that invariant.
LEMMA InsideStep == Inside!PlaceInv /\ [Next]_vars => Inside!PlaceInv'
<1>1. Inside!PlaceInv /\ [Inside!Next]_(Inside!vars) => Inside!PlaceInv'
  BY InsideAssumptions, Inside!PlaceStep
<1> QED
  BY <1>1, StepInside

\* What of it the types need.
LEMMA InsideTypes ==
    ASSUME Inside!PlaceInv
    PROVE  /\ Storage!TypeOK
           /\ \A t \in Storage!Tasks : Range(batch[t]) \subseteq Storage!Accepted
<1>1. Inside!TypeOK /\ Inside!Known
  BY DEF Inside!PlaceInv, Inside!CapInv
<1>2. Storage!TypeOK
  BY <1>1 DEF Inside!TypeOK, Storage!TypeOK, Inside!Points, Storage!Points,
     Inside!Tasks, Storage!Tasks, Inside!Places, Storage!Places
<1>3. ASSUME NEW t \in Storage!Tasks PROVE Range(batch[t]) \subseteq Storage!Accepted
  <2>1. t \in Inside!Tasks
    BY DEF Inside!Tasks, Storage!Tasks
  <2>2. Inside!Range(batch[t]) \subseteq Inside!Accepted
    BY <1>1, <2>1 DEF Inside!Known, Inside!Pending, Inside!InFlight
  <2>3. Inside!Range(batch[t]) = Range(batch[t])
    BY SameRange
  <2> QED
    BY <2>2, <2>3 DEF Inside!Accepted, Storage!Accepted
<1> QED
  BY <1>2, <1>3

\* Points are only ever added to those accepted.
LEMMA AcceptedGrow ==
    ASSUME Storage!TypeOK, Storage!Next \/ UNCHANGED Storage!vars
    PROVE  Storage!Accepted \subseteq Storage!Accepted'
<1>1. accepted \in Nat
  BY DEF Storage!TypeOK
<1>2. accepted' = accepted \/ \E k \in Nat : accepted' = accepted + k
  BY LifeAssumption
     DEF Storage!Next, Storage!vars, Storage!Start, Storage!LoopBegins, Storage!LoopWake,
     Storage!BeginFlush, Storage!HandOver, Storage!StoreDataPoint, Storage!StoreDataPoints,
     Storage!Put, Storage!AppendPoints, Storage!FlushStored, Storage!FlushFailed,
     Storage!InnerReturns, Storage!CancelFlush, Storage!DropBatch, Storage!CloseAgain,
     Storage!CloseAndJoin, Storage!CloseUnstarted, Storage!CloseJoined, Storage!CloseInner,
     Storage!CancelJoin
<1> QED
  BY <1>1, <1>2 DEF Storage!Accepted

-----------------------------------------------------------------------------
(* The process's own state.                                                *)

OwnTypes ==
    /\ offered \in 0 .. MaxOffered
    /\ historical \in BOOLEAN
    /\ feed \in {"none", "created", "listening", "joining", "draining", "done"}
    /\ feedCancel \in BOOLEAN
    /\ task \in BOOLEAN
    /\ consumer \in {"none", "running", "stopping", "done"}
    /\ running \in BOOLEAN
    /\ main \in {"initializing", "failing", "collecting", "awaiting", "stopping", "ended"}
    /\ stop \in [Stoppers -> {"no", "called", "feed", "storage", "done"}]
    /\ doomed \subseteq Signals
    /\ hasty \in BOOLEAN

\* Who awaits the feed, once each.
Waiting ==
    /\ waiters \in Seq(Stoppers) /\ IsInjective(waiters)
    /\ \A s \in Range(waiters) :
         (s = Main /\ main = "awaiting") \/ (s \in Signals /\ stop[s] = "feed")

\* The end of stop() keeps the types.
LEMMA CloseSinksTypes ==
    ASSUME NEW s \in Stoppers, OwnTypes, CloseSinks(s),
           main' \in {main, "stopping"}, hasty' \in BOOLEAN
    PROVE  OwnTypes'
BY DEF OwnTypes, CloseSinks, queueVars, feedVars

\* Every step keeps the types.
LEMMA OwnStep ==
    ASSUME OwnTypes, [Next]_vars
    PROVE  OwnTypes'
<1> USE TaskFacts
<1>1. CASE Starts \/ WiringFails
  BY <1>1 DEF Starts, WiringFails, OwnTypes, queueVars, feedVars
<1>2. CASE InitFails \/ FailedStops \/ FeedEnded
  <2>1. CloseSinks(Main) /\ main' = "stopping" /\ hasty' = hasty
    BY <1>2 DEF InitFails, FailedStops, FeedEnded
  <2> QED
    BY <2>1, CloseSinksTypes DEF OwnTypes
<1>3. CASE Collected
  <2>1. CASE CloseSinks(Main) /\ main' = "stopping" /\ hasty' = hasty
    BY <2>1, CloseSinksTypes DEF OwnTypes
  <2>2. CASE main' = "awaiting" /\ UNCHANGED <<queueVars, feedVars, task, running, stop, doomed, hasty,
                                               historical>>
    BY <2>2 DEF OwnTypes, queueVars, feedVars
  <2> QED
    BY <1>3, <2>1, <2>2 DEF Collected
<1>4. CASE Ends
  BY <1>4 DEF Ends, OwnTypes, queueVars, feedVars
<1>5. CASE FeedBegins \/ FeedCancelled \/ FeedCancelledAgain \/ FeedJoined \/ FeedDrained
  <2>1. UNCHANGED <<offered, historical, task, running, main, stop, doomed, hasty>>
    BY <1>5 DEF FeedBegins, FeedCancelled, FeedCancelledAgain, FeedJoined, FeedDrained,
       queueVars, lifeVars
  <2>2. /\ feed' \in {"none", "created", "listening", "joining", "draining", "done"}
        /\ consumer' \in {"none", "running", "stopping", "done"}
        /\ feedCancel' = FALSE
    BY <1>5 DEF FeedBegins, FeedCancelled, FeedCancelledAgain, FeedJoined, FeedDrained, OwnTypes
  <2> QED
    BY <2>1, <2>2 DEF OwnTypes
<1>6. CASE Receive
  <2>1. offered' \in 0 .. MaxOffered
    BY <1>6, LifeAssumption DEF Receive, OwnTypes
  <2> QED
    BY <1>6, <2>1 DEF Receive, OwnTypes, feedVars, lifeVars
<1>7. CASE ConsumerCancelled
  BY <1>7 DEF ConsumerCancelled, OwnTypes, queueVars, lifeVars
<1>8. ASSUME NEW stores \in BOOLEAN, Consume(stores) PROVE OwnTypes'
  BY <1>8 DEF Consume, OwnTypes, feedVars, lifeVars
<1>9. ASSUME NEW s \in Signals, Signal(s) PROVE OwnTypes'
  BY <1>9 DEF Signal, OwnTypes, queueVars, feedVars
<1>10. ASSUME NEW s \in Signals, StopBegins(s) \/ StopResumes(s) PROVE OwnTypes'
  <2>0. hasty' \in BOOLEAN
    BY <1>10 DEF StopBegins, StopResumes, OwnTypes
  <2>1. CASE AwaitFeed(s)
    BY <2>0, <2>1 DEF AwaitFeed, OwnTypes, queueVars
  <2>2. CASE CloseSinks(s) /\ main' = main
    BY <2>0, <2>2, CloseSinksTypes
  <2> QED
    BY <1>10, <2>1, <2>2 DEF StopBegins, StopResumes
<1>11. ASSUME NEW s \in Signals, CutOff(s) PROVE OwnTypes'
  BY <1>11 DEF CutOff, OwnTypes, queueVars, feedVars
<1>12. ASSUME \/ LoopSteps \/ \E s \in Stoppers : Closing(s)
              \/ \E t \in Storage!Tasks : FlushReturns(t)
       PROVE  OwnTypes'
  BY <1>12 DEF LoopSteps, Closing, FlushReturns, OwnTypes, queueVars, feedVars, lifeVars
<1>13. CASE UNCHANGED vars
  BY <1>13 DEF vars, OwnTypes, queueVars, feedVars, lifeVars
<1> QED
  BY <1>1, <1>2, <1>3, <1>4, <1>5, <1>6, <1>7, <1>8, <1>9, <1>10, <1>11, <1>12, <1>13
     DEF Next, Step

\* One more waits, who did not.
LEMMA WaiterJoins ==
    ASSUME waiters \in Seq(Stoppers), IsInjective(waiters), NEW s \in Stoppers,
           s \notin Range(waiters), waiters' = Append(waiters, s)
    PROVE  /\ waiters' \in Seq(Stoppers) /\ IsInjective(waiters')
           /\ Range(waiters') = Range(waiters) \cup {s}
<1> DEFINE n == Len(waiters)
           w == waiters'
<1>1. n \in Nat /\ DOMAIN waiters = 1 .. n
  OBVIOUS
<1>2. /\ w \in Seq(Stoppers) /\ DOMAIN w = 1 .. n + 1
      /\ w[n + 1] = s /\ \A i \in 1 .. n : w[i] = waiters[i]
  BY <1>1
<1>3. \A i \in 1 .. n + 1 : i \in 1 .. n \/ i = n + 1
  BY <1>1
<1>4. n + 1 \in 1 .. n + 1 /\ \A i \in 1 .. n : i \in 1 .. n + 1
  BY <1>1
<1>5. /\ Range(waiters) = {waiters[i] : i \in 1 .. n}
      /\ Range(w) = {w[i] : i \in 1 .. n + 1}
  BY <1>1, <1>2 DEF Range
<1> HIDE DEF n, w
<1>6. Range(w) = Range(waiters) \cup {s}
  <2>1. \A i \in 1 .. n + 1 : w[i] \in Range(waiters) \cup {s}
    BY <1>2, <1>3, <1>5
  <2>2. s \in Range(w) /\ \A i \in 1 .. n : waiters[i] \in Range(w)
    BY <1>2, <1>4, <1>5
  <2> QED
    BY <1>5, <2>1, <2>2
<1>7. IsInjective(w)
  <2> SUFFICES ASSUME NEW i \in 1 .. n + 1, NEW j \in 1 .. n + 1, w[i] = w[j] PROVE i = j
    BY <1>2 DEF IsInjective
  <2>1. \A k \in 1 .. n : w[k] # s
    BY <1>2, <1>5
  <2>2. CASE i \in 1 .. n /\ j \in 1 .. n
    BY <1>1, <1>2, <2>2 DEF IsInjective
  <2> QED
    BY <1>2, <1>3, <2>1, <2>2
<1> QED
  BY <1>2, <1>6, <1>7 DEF w

\* The first goes on.
LEMMA WaiterLeaves ==
    ASSUME waiters \in Seq(Stoppers), IsInjective(waiters), waiters # <<>>,
           waiters' = Tail(waiters)
    PROVE  /\ waiters' \in Seq(Stoppers) /\ IsInjective(waiters')
           /\ Range(waiters') = Range(waiters) \ {Head(waiters)}
<1> DEFINE n == Len(waiters)
           w == waiters'
<1>1. n \in Nat \ {0} /\ DOMAIN waiters = 1 .. n /\ Head(waiters) = waiters[1]
  BY EmptySeq
<1>2. /\ w \in Seq(Stoppers) /\ DOMAIN w = 1 .. n - 1
      /\ \A i \in 1 .. n - 1 : w[i] = waiters[i + 1]
  BY <1>1
<1>3. /\ Range(waiters) = {waiters[i] : i \in 1 .. n}
      /\ Range(w) = {w[i] : i \in 1 .. n - 1}
  BY <1>1, <1>2 DEF Range
<1>4. \A i, j \in 1 .. n : waiters[i] = waiters[j] => i = j
  BY <1>1 DEF IsInjective
<1> HIDE DEF n, w
<1>5. /\ \A i \in 1 .. n - 1 : i + 1 \in 1 .. n /\ i + 1 # 1
      /\ \A i \in 1 .. n : i = 1 \/ (i - 1 \in 1 .. n - 1 /\ (i - 1) + 1 = i)
      /\ 1 \in 1 .. n
  BY <1>1
<1>6. IsInjective(w)
  <2> SUFFICES ASSUME NEW i \in 1 .. n - 1, NEW j \in 1 .. n - 1, w[i] = w[j] PROVE i = j
    BY <1>2 DEF IsInjective
  <2>1. i + 1 = j + 1
    BY <1>2, <1>4, <1>5
  <2> QED
    BY <1>1, <2>1
<1>7. Range(w) = Range(waiters) \ {waiters[1]}
  <2>1. \A i \in 1 .. n - 1 : w[i] \in Range(waiters) /\ w[i] # waiters[1]
    BY <1>2, <1>3, <1>4, <1>5
  <2>2. \A i \in 1 .. n : waiters[i] = waiters[1] \/ waiters[i] \in Range(w)
    BY <1>2, <1>3, <1>5
  <2> QED
    BY <1>3, <2>1, <2>2
<1> QED
  BY <1>1, <1>2, <1>6, <1>7 DEF w

\* Every step keeps the tasks that wait apart.
LEMMA WaitingStep ==
    ASSUME Waiting, OwnTypes, [Next]_vars
    PROVE  Waiting'
<1> USE TaskFacts
<1>0. waiters \in Seq(Stoppers) /\ IsInjective(waiters)
  BY DEF Waiting
<1>a. Main \in Range(waiters) => main = "awaiting"
  BY LifeAssumption DEF Waiting
<1>1. CASE Starts
  <2>1. main = "initializing" /\ stop' = stop
        /\ \/ waiters' = waiters
           \/ waiters' = Append(waiters, Main) /\ main' = "awaiting"
    BY <1>1 DEF Starts
  <2> QED
    BY <1>0, <1>a, <2>1, WaiterJoins DEF Waiting
<1>2. CASE InitFails \/ FailedStops
  BY <1>2, LifeAssumption DEF InitFails, FailedStops, CloseSinks, Waiting, OwnTypes
<1>2a. CASE WiringFails
  BY <1>2a, LifeAssumption DEF WiringFails, Waiting
<1>3. CASE Collected
  <2>1. CASE CloseSinks(Main) /\ waiters' = waiters
    BY <1>3, <1>a, <2>1, LifeAssumption DEF Collected, CloseSinks, Waiting, OwnTypes
  <2>2. CASE main' = "awaiting" /\ waiters' = Append(waiters, Main) /\ stop' = stop
    BY <1>0, <1>3, <1>a, <2>2, WaiterJoins DEF Collected, Waiting
  <2> QED
    BY <1>3, <2>1, <2>2 DEF Collected
<1>4. CASE FeedEnded
  <2>1. waiters # <<>> /\ Head(waiters) = Main /\ waiters' = Tail(waiters) /\ CloseSinks(Main)
    BY <1>4 DEF FeedEnded, NextWaiter
  <2>2. \A s \in Signals : stop'[s] = stop[s]
    BY <2>1, LifeAssumption DEF CloseSinks, OwnTypes
  <2> QED
    BY <1>0, <2>1, <2>2, WaiterLeaves DEF Waiting
<1>5. CASE Ends
  <2>1. Range(waiters) = {} /\ waiters' = waiters
    BY <1>5, EmptySeq DEF Ends, Range
  <2> QED
    BY <1>0, <2>1 DEF Waiting
<1>6. CASE \/ FeedBegins \/ FeedCancelled \/ FeedCancelledAgain \/ FeedJoined \/ FeedDrained
           \/ Receive \/ ConsumerCancelled
  BY <1>6 DEF FeedBegins, FeedCancelled, FeedCancelledAgain, FeedJoined, FeedDrained,
     Receive, ConsumerCancelled, Waiting, lifeVars
<1>7. ASSUME NEW stores \in BOOLEAN, Consume(stores) PROVE Waiting'
  BY <1>7 DEF Consume, Waiting, lifeVars
<1>8. ASSUME NEW s \in Signals, Signal(s) PROVE Waiting'
  BY <1>8 DEF Signal, Waiting, OwnTypes
<1>9. ASSUME NEW s \in Signals, StopBegins(s) PROVE Waiting'
  <2>1. stop[s] = "called" /\ s \notin Range(waiters)
    BY <1>9, LifeAssumption DEF StopBegins, Waiting
  <2>2. CASE AwaitFeed(s)
    <3>1. waiters' = Append(waiters, s) /\ stop' = [stop EXCEPT ![s] = "feed"] /\ main' = main
      BY <2>2 DEF AwaitFeed
    <3> QED
      BY <1>0, <2>1, <3>1, WaiterJoins DEF Waiting, OwnTypes
  <2>3. CASE CloseSinks(s) /\ UNCHANGED <<waiters, main>>
    BY <2>1, <2>3 DEF CloseSinks, Waiting, OwnTypes
  <2> QED
    BY <1>9, <2>2, <2>3 DEF StopBegins
<1>10. ASSUME NEW s \in Signals, StopResumes(s) PROVE Waiting'
  <2>1. /\ waiters # <<>> /\ Head(waiters) = s /\ waiters' = Tail(waiters)
        /\ CloseSinks(s) /\ main' = main
    BY <1>10 DEF StopResumes, NextWaiter
  <2>2. \A r \in Signals \ {s} : stop'[r] = stop[r]
    BY <2>1 DEF CloseSinks, OwnTypes
  <2> QED
    BY <1>0, <2>1, <2>2, WaiterLeaves DEF Waiting
<1>11. ASSUME NEW s \in Signals, CutOff(s) PROVE Waiting'
  <2>1. /\ UNCHANGED <<waiters, main>>
        /\ \/ stop[s] = "called" /\ stop' = [stop EXCEPT ![s] = "done"]
           \/ stop' = stop
    BY <1>11 DEF CutOff
  <2> QED
    BY <2>1 DEF Waiting, OwnTypes
<1>12. ASSUME \/ LoopSteps \/ \E s \in Stoppers : Closing(s)
              \/ \E t \in Storage!Tasks : FlushReturns(t)
       PROVE  Waiting'
  BY <1>12 DEF LoopSteps, Closing, FlushReturns, Waiting, lifeVars
<1>13. CASE UNCHANGED vars
  BY <1>13 DEF vars, Waiting, lifeVars
<1> QED
  BY <1>1, <1>2, <1>2a, <1>3, <1>4, <1>5, <1>6, <1>7, <1>8, <1>9, <1>10, <1>11, <1>12, <1>13
     DEF Next, Step

-----------------------------------------------------------------------------
\* What the consumer was cancelled with had been accepted.
CutKnown == cut \subseteq Storage!Accepted

\* The consumer is cancelled with points that were accepted.
LEMMA CutStep ==
    ASSUME Inside!PlaceInv, CutKnown, [Next]_vars
    PROVE  CutKnown'
<1>1. Storage!Accepted \subseteq Storage!Accepted'
  BY InsideTypes, StorageSteps, AcceptedGrow
<1>2. cut' = cut \/ cut' = Range(batch[Consumer])
  BY DEF Next, Step, vars, Starts, InitFails, WiringFails, FailedStops, Collected, FeedEnded, Ends, FeedBegins, Receive,
     Consume, FeedCancelled, FeedCancelledAgain, ConsumerCancelled, FeedJoined, FeedDrained,
     Signal, StopBegins, StopResumes, CutOff, Closing, FlushReturns, LoopSteps, CloseSinks,
     AwaitFeed, feedVars
<1>3. Range(batch[Consumer]) \subseteq Storage!Accepted
  BY InsideTypes, TaskFacts DEF Tasks
<1> QED
  BY <1>1, <1>2, <1>3 DEF CutKnown

TypeInv == Inside!PlaceInv /\ QueueInv /\ OwnTypes /\ Waiting /\ CutKnown

\* The process begins in the invariant.
LEMMA TypeInvInit == Init => TypeInv
<1> SUFFICES ASSUME Init PROVE TypeInv
  OBVIOUS
<1>1. Inside!PlaceInv /\ QueueInv
  BY InsideInit, QueueInit
<1>2. OwnTypes
  <2>1. offered \in 0 .. MaxOffered
    BY LifeAssumption DEF Init
  <2>2. stop \in [Stoppers -> {"no", "called", "feed", "storage", "done"}] /\ doomed \subseteq Signals
    BY DEF Init
  <2> QED
    BY <2>1, <2>2 DEF Init, OwnTypes
<1>3. Waiting
  <2>1. waiters = <<>> /\ waiters \in Seq(Stoppers) /\ DOMAIN waiters = {}
    BY EmptySeq DEF Init
  <2> QED
    BY <2>1 DEF Waiting, IsInjective, Range
<1>4. CutKnown
  BY DEF Init, CutKnown
<1> QED
  BY <1>1, <1>2, <1>3, <1>4 DEF TypeInv

\* The state of the process has its type, that of the storage inside included:
\* the hand-off queue keeps its bound, and no task awaits the feed twice.
THEOREM ProcessTyped == Spec => []TypeOK
<1>1. TypeInv /\ [Next]_vars => TypeInv'
  BY InsideStep, QueueStep, OwnStep, WaitingStep, CutStep DEF TypeInv
<1>2. TypeInv => TypeOK
  <2> SUFFICES ASSUME TypeInv PROVE TypeOK
    OBVIOUS
  <2>1. Storage!TypeOK
    BY InsideTypes DEF TypeInv
  <2>2. queue \in Seq(Nat) /\ Range(queue) \subseteq 1 .. offered
    BY DEF TypeInv, QueueInv, FeedAccounted
  <2>3. queue \in Seq(1 .. offered)
    <3>1. Len(queue) \in Nat /\ DOMAIN queue = 1 .. Len(queue)
      BY <2>2
    <3>2. \A i \in 1 .. Len(queue) : queue[i] \in 1 .. offered
      BY <2>2, <3>1 DEF Range
    <3> DEFINE n == Len(queue)
    <3> HIDE DEF n
    <3>3. SubSeq(queue, 1, n) \in Seq(1 .. offered)
      <4>1. 1 \in Int /\ n \in Int /\ \A i \in 1 .. n : queue[i] \in 1 .. offered
        BY <3>1, <3>2 DEF n
      <4> QED
        BY <4>1, SubSeqProperties
    <3>4. SubSeq(queue, 1, n) = queue
      BY <2>2, SubSeqFull DEF n
    <3> QED
      BY <3>3, <3>4
  <2>4. shed \subseteq 1 .. offered /\ taken \subseteq 1 .. offered /\ Len(queue) <= QueueSize
    BY DEF TypeInv, QueueInv, FeedAccounted
  <2>5. OwnTypes /\ Waiting /\ CutKnown
    BY DEF TypeInv
  <2> QED
    BY <2>1, <2>3, <2>4, <2>5 DEF TypeOK, OwnTypes, Waiting, CutKnown
<1> QED
  BY <1>1, <1>2, TypeInvInit, PTL DEF Spec

-----------------------------------------------------------------------------
(***************************************************************************)
(* Nothing accepted is lost when each stop() begins while main() awaits a  *)
(* live feed, or once the storage is being closed.                         *)
(***************************************************************************)

\* Before the storage is started there is no feed, nothing is accepted, and
\* no stop() gets as far as the storage.
Unborn ==
    /\ pc[Loop] = "off" =>
        /\ feed = "none" /\ accepted = 0 /\ ~task /\ ~feedCancel /\ ~closed /\ waiters = <<>>
        /\ \A s \in Stoppers : pc[s] = "idle" /\ stop[s] \in {"no", "called", "done"}
    /\ main = "initializing" => doomed = {} /\ stop[Main] = "no"

\* The consumer runs while the feed does, has a batch out only until it ends, and
\* is cancelled once.
ConsumerOrder ==
    /\ feed = "listening" => consumer = "running"
    /\ consumer = "none" => pc[Consumer] = "idle"
    /\ consumer # "done" => pc[Consumer] \in {"idle", "writing"}
    /\ consumer = "done" => pc[Consumer] \in {"idle", "cancelled"}
    /\ consumer # "done" => cut = {}

\* main() is the first to await the feed, or fails before there is one, so it is the
\* one that closes the storage; every stop() of a signal finds that closed.
MainFirst ==
    /\ main # "initializing"
    /\ main \in {"failing", "collecting"} =>
        /\ waiters = <<>> /\ ~closed
        /\ pc[Main] = "idle" /\ stop[Main] = "no"
        /\ \A s \in Signals : stop[s] \notin {"feed", "storage"}
    /\ main = "collecting" => task
    /\ main = "awaiting" =>
        /\ waiters # <<>> /\ Head(waiters) = Main
        /\ task /\ ~closed
        /\ pc[Main] = "idle" /\ stop[Main] = "no"
    /\ main \in {"stopping", "ended"} =>
        /\ closed /\ stop[Main] = "storage"
        /\ pc[Main] \in {"joining", "writing", "closing", "done"}
        /\ pc[Main] = "done" => pc[Loop] = "done"
    /\ main = "ended" => pc[Main] = "done"

SignalSecond ==
    /\ \A s \in Signals :
        /\ pc[s] \in {"idle", "done"}
        /\ stop[s] = "storage" => closed /\ pc[s] = "done"
        /\ stop[s] = "feed" => s \in Range(waiters)
    /\ (feedCancel \/ feed \in {"joining", "draining", "done"})
        => \E s \in Signals : stop[s] \in {"feed", "storage"}
    /\ \A s \in doomed : stop[s] = "called"

StopOrder == (~hasty /\ pc[Loop] # "off") => MainFirst /\ SignalSecond

\* What has vanished is what the consumer was cancelled with.
Kept == (~hasty /\ AtomicBackends = Backends) => Inside!Vanished \subseteq cut

-----------------------------------------------------------------------------
(* What a step does to the places of the tasks.                             *)

\* Only task t moves.
Moves(t) == \A u \in Tasks \ {t} : pc'[u] = pc[u]

\* Where a task resumes after its flush.
LEMMA Resumes ==
    /\ Storage!AfterFlush(Consumer) = "idle"
    /\ \A s \in Stoppers : Storage!AfterFlush(s) = "closing"
    /\ Storage!AfterFlush(Loop) \in {"done", "waiting"}
BY LifeAssumption DEF Storage!AfterFlush, Stoppers

LEMMA HandOverMoves ==
    ASSUME pc \in [Tasks -> Places], NEW t \in Tasks, NEW b, Storage!HandOver(t, b)
    PROVE  Moves(t) /\ pc'[t] \in {"writing", Storage!AfterFlush(t)}
BY DEF Storage!HandOver, Moves

\* The consumer hands a batch over, or keeps its place.
LEMMA ConsumeMoves ==
    ASSUME pc \in [Tasks -> Places], NEW stores \in BOOLEAN, Consume(stores)
    PROVE  Moves(Consumer) /\ pc'[Consumer] \in {"idle", "writing"} /\ closed' = closed
<1>1. pc[Consumer] = "idle" /\ (storageVars' = storageVars \/ Storage!StoreDataPoint(Consumer))
  BY DEF Consume
<1>2. CASE storageVars' = storageVars
  BY <1>1, <1>2 DEF storageVars, Moves
<1>3. CASE Storage!StoreDataPoint(Consumer)
  <2>1. closed' = closed /\ (pc' = pc \/ \E b : Storage!HandOver(Consumer, b))
    BY <1>3 DEF Storage!StoreDataPoint, Storage!Put, Storage!AppendPoints, Storage!BeginFlush
  <2> QED
    BY <1>1, <2>1, TaskFacts, Resumes, HandOverMoves DEF Moves
<1> QED
  BY <1>1, <1>2, <1>3

LEMMA LoopMoves ==
    ASSUME pc \in [Tasks -> Places], LoopSteps
    PROVE  Moves(Loop) /\ pc[Loop] \in {"started", "waiting"} /\ pc'[Loop] # "off"
           /\ closed' = closed
<1>1. CASE Storage!LoopBegins
  BY <1>1, TaskFacts DEF Storage!LoopBegins, Moves
<1>2. CASE Storage!LoopWake
  <2>1. closed' = closed /\ pc[Loop] = "waiting" /\ Storage!HandOver(Loop, buffer)
    BY <1>2 DEF Storage!LoopWake, Storage!BeginFlush
  <2> QED
    BY <2>1, TaskFacts, Resumes, HandOverMoves
<1> QED
  BY <1>1, <1>2 DEF LoopSteps

LEMMA ReturnMoves ==
    ASSUME pc \in [Tasks -> Places], NEW t \in Tasks, FlushReturns(t)
    PROVE  Moves(t) /\ pc[t] = "writing" /\ pc'[t] = Storage!AfterFlush(t) /\ closed' = closed
BY DEF FlushReturns, Storage!FlushStored, Storage!FlushFailed, Storage!InnerReturns, Moves

LEMMA ClosingMoves ==
    ASSUME pc \in [Tasks -> Places], NEW s \in Stoppers, Closing(s)
    PROVE  /\ Moves(s) /\ closed' = closed
           /\ \/ pc[s] = "joining" /\ pc'[s] \in {"writing", "closing"}
              \/ pc[s] = "closing" /\ pc'[s] = "done"
<1>1. CASE Storage!CloseJoined(s)
  <2>1. closed' = closed /\ pc[s] = "joining" /\ Storage!HandOver(s, buffer)
    BY <1>1 DEF Storage!CloseJoined, Storage!BeginFlush
  <2> QED
    BY <2>1, TaskFacts, Resumes, HandOverMoves
<1>2. CASE Storage!CloseInner(s)
  BY <1>2, TaskFacts DEF Storage!CloseInner, Moves
<1> QED
  BY <1>1, <1>2 DEF Closing

\* stop() begins to close the storage, if there is one.
LEMMA SinksMoves ==
    ASSUME pc \in [Tasks -> Places], NEW s \in Stoppers, CloseSinks(s)
    PROVE  /\ Moves(s) /\ task' = FALSE
           /\ UNCHANGED <<feed, feedCancel, consumer, cut, doomed, historical, accepted>>
           /\ pc[Loop] = "off" =>
                pc' = pc /\ closed' = closed /\ stop' = [stop EXCEPT ![s] = "done"]
           /\ pc[Loop] # "off" =>
                /\ pc[s] = "idle" /\ closed' = TRUE
                /\ pc'[s] = IF closed THEN "done" ELSE "joining"
                /\ stop' = [stop EXCEPT ![s] = "storage"]
<1>1. /\ task' = FALSE /\ UNCHANGED <<feed, feedCancel, consumer, cut, doomed, historical>>
  BY DEF CloseSinks, feedVars
<1>2. CASE pc[Loop] = "off"
  BY <1>1, <1>2 DEF CloseSinks, storageVars, Moves
<1>3. CASE pc[Loop] # "off"
  <2>1. Storage!CloseAgain(s) \/ Storage!CloseAndJoin(s)
    BY <1>3 DEF CloseSinks
  <2>2. stop' = [stop EXCEPT ![s] = "storage"]
    BY <1>3 DEF CloseSinks
  <2>3. Moves(s) /\ accepted' = accepted /\ pc[s] = "idle" /\ closed' = TRUE
        /\ pc'[s] = IF closed THEN "done" ELSE "joining"
    BY <2>1, TaskFacts DEF Storage!CloseAgain, Storage!CloseAndJoin, Moves
  <2> QED
    BY <1>1, <1>3, <2>2, <2>3
<1> QED
  BY <1>2, <1>3

-----------------------------------------------------------------------------
(* Every step keeps the order in which the tasks stop the process.          *)

\* A stop() begun in haste is remembered.
LEMMA HastyStays ==
    ASSUME OwnTypes, [Next]_vars, ~hasty'
    PROVE  ~hasty
BY DEF Next, Step, vars, OwnTypes, Starts, InitFails, WiringFails, FailedStops, Collected,
   FeedEnded, Ends, FeedBegins, Receive, Consume, FeedCancelled, FeedCancelledAgain,
   ConsumerCancelled, FeedJoined, FeedDrained, Signal, StopBegins, StopResumes, CutOff,
   Closing, FlushReturns, LoopSteps, lifeVars

LEMMA UnbornStep ==
    ASSUME Order, OwnTypes, Unborn, ConsumerOrder, [Next]_vars
    PROVE  Unborn'
<1> USE TaskFacts
<1>0. pc \in [Tasks -> Places]
  BY DEF Order
<1>a. ASSUME NEW s \in Stoppers, CloseSinks(s), waiters' \in {waiters, Tail(waiters)},
             waiters' # waiters => pc[Loop] # "off",
             \/ main' = main /\ s # Main
             \/ main' # "initializing"
      PROVE  Unborn'
  <2>1. CASE pc[Loop] = "off"
    BY <1>a, <2>1, <1>0, SinksMoves DEF Unborn, OwnTypes
  <2>2. CASE pc[Loop] # "off"
    <3>1. pc'[Loop] # "off"
      BY <1>a, <2>2, <1>0, SinksMoves DEF Moves
    <3>2. main # "initializing"
      BY <2>2 DEF Order
    <3> QED
      BY <1>a, <3>1, <3>2 DEF Unborn
  <2> QED
    BY <2>1, <2>2
<1>b. pc[Loop] = "off" => feed = "none" /\ consumer = "none" /\ pc[Consumer] = "idle"
  BY DEF Order, Unborn, ConsumerOrder
<1>1. CASE Starts \/ WiringFails
  BY <1>0, <1>1 DEF Starts, WiringFails, Storage!Start, Unborn
<1>2. CASE InitFails \/ FailedStops
  BY <1>2, <1>a DEF InitFails, FailedStops
<1>3. CASE Collected
  <2>1. CASE CloseSinks(Main) /\ main' = "stopping" /\ waiters' = waiters
    BY <2>1, <1>a
  <2>2. CASE task /\ main' = "awaiting" /\ UNCHANGED pc
    BY <2>2 DEF Unborn
  <2> QED
    BY <1>3, <2>1, <2>2 DEF Collected, storageVars
<1>4. CASE FeedEnded
  BY <1>4, <1>a DEF FeedEnded, NextWaiter, Unborn
<1>5. CASE Ends
  BY <1>5 DEF Ends, Unborn, storageVars, feedVars
<1>6. CASE \/ FeedBegins \/ Receive \/ FeedCancelled \/ FeedCancelledAgain
           \/ FeedJoined \/ FeedDrained
  <2>1. feed # "none" /\ UNCHANGED <<pc, main, doomed, stop>>
    BY <1>6 DEF FeedBegins, Receive, FeedCancelled, FeedCancelledAgain, FeedJoined,
       FeedDrained, storageVars, lifeVars
  <2> QED
    BY <2>1 DEF Unborn
<1>7. CASE ConsumerCancelled
  <2>1. consumer = "stopping" /\ UNCHANGED <<main, doomed, stop>>
        /\ (pc' = pc \/ Storage!CancelFlush(Consumer))
    BY <1>7 DEF ConsumerCancelled, storageVars, lifeVars
  <2>2. pc'[Loop] # "off"
    BY <1>0, <1>b, <2>1, CancelFlushKeeps DEF Apart
  <2> QED
    BY <2>1, <2>2 DEF Unborn
<1>8. ASSUME NEW stores \in BOOLEAN, Consume(stores) PROVE Unborn'
  <2>1. consumer = "running" /\ UNCHANGED <<main, doomed, stop>>
    BY <1>8 DEF Consume, lifeVars
  <2>2. pc'[Loop] = pc[Loop]
    BY <1>0, <1>8, ConsumeMoves DEF Moves
  <2> QED
    BY <1>b, <2>1, <2>2 DEF Unborn
<1>9. ASSUME NEW s \in Signals, Signal(s) PROVE Unborn'
  BY <1>9, LifeAssumption DEF Signal, Unborn, OwnTypes, storageVars, feedVars
<1>10. ASSUME NEW s \in Signals, StopBegins(s) PROVE Unborn'
  <2>0. s # Main
    BY LifeAssumption
  <2>1. CASE AwaitFeed(s)
    BY <2>0, <2>1 DEF AwaitFeed, Unborn, OwnTypes, storageVars
  <2>2. CASE CloseSinks(s) /\ UNCHANGED <<waiters, main>>
    BY <2>0, <2>2, <1>a
  <2> QED
    BY <1>10, <2>1, <2>2 DEF StopBegins
<1>11. ASSUME NEW s \in Signals, StopResumes(s) PROVE Unborn'
  <2>1. s # Main /\ waiters' = Tail(waiters) /\ main' = main /\ CloseSinks(s) /\ waiters # <<>>
    BY <1>11, LifeAssumption DEF StopResumes, NextWaiter
  <2> QED
    BY <2>1, <1>a DEF Unborn
<1>12. ASSUME NEW s \in Signals, CutOff(s) PROVE Unborn'
  <2>1. main' = main /\ main # "initializing"
    BY <1>12 DEF CutOff, Unborn
  <2>2. CASE pc[Loop] = "off"
    <3>1. UNCHANGED storageVars /\ stop' = [stop EXCEPT ![s] = "done"]
      BY <1>12, <2>2 DEF CutOff, Unborn
    <3> QED
      BY <1>12, <2>1, <3>1 DEF CutOff, Unborn, OwnTypes, storageVars, feedVars
  <2>3. CASE pc[Loop] # "off"
    <3>1. pc'[Loop] # "off"
      BY <1>0, <1>12, <2>3, CancelJoinKeeps, CancelFlushKeeps, ClosingKeeps
         DEF CutOff, Apart, storageVars
    <3> QED
      BY <2>1, <3>1 DEF Unborn
  <2> QED
    BY <2>2, <2>3
<1>13. ASSUME NEW s \in Stoppers, Closing(s) PROVE Unborn'
  <2>1. UNCHANGED <<main, doomed, stop>>
    BY <1>13 DEF Closing, lifeVars
  <2>2. pc'[Loop] = pc[Loop] /\ pc[s] # "idle"
    BY <1>0, <1>13, ClosingMoves DEF Moves
  <2> QED
    BY <2>1, <2>2 DEF Unborn
<1>14. ASSUME NEW t \in Storage!Tasks, FlushReturns(t) PROVE Unborn'
  <2>1. UNCHANGED <<main, doomed, stop>>
    BY <1>14 DEF FlushReturns, lifeVars
  <2>2. t \in Tasks /\ pc[t] = "writing" /\ Moves(t) /\ pc'[t] = Storage!AfterFlush(t)
    BY <1>0, <1>14, ReturnMoves DEF Tasks
  <2>3. pc[Loop] # "off" /\ pc'[Loop] # "off"
    <3>1. t \in Stoppers \cup {Consumer, Loop}
      BY <2>2 DEF Tasks, Storage!Tasks
    <3>2. pc[Loop] # "off"
      BY <1>b, <2>2, <3>1 DEF Unborn
    <3> QED
      BY <2>2, <3>2, Resumes DEF Moves
  <2> QED
    BY <2>1, <2>3 DEF Unborn
<1>15. CASE LoopSteps
  <2>1. UNCHANGED <<main, doomed, stop>>
    BY <1>15 DEF LoopSteps, lifeVars
  <2>2. pc'[Loop] # "off"
    BY <1>0, <1>15, LoopMoves
  <2> QED
    BY <2>1, <2>2 DEF Unborn
<1>16. CASE UNCHANGED vars
  BY <1>16 DEF vars, Unborn, storageVars, feedVars, lifeVars
<1> QED
  BY <1>1, <1>2, <1>3, <1>4, <1>5, <1>6, <1>7, <1>8, <1>9, <1>10, <1>11, <1>12,
     <1>13, <1>14, <1>15, <1>16 DEF Next, Step

LEMMA ConsumerStep ==
    ASSUME Order, ConsumerOrder, [Next]_vars
    PROVE  ConsumerOrder'
<1> USE TaskFacts
<1>0. pc \in [Tasks -> Places] /\ Consumer \notin Stoppers
  BY LifeAssumption DEF Order
<1>a. ASSUME pc'[Consumer] = pc[Consumer], UNCHANGED <<consumer, cut>>,
             feed' \in {feed, "created", "draining", "done"}
      PROVE  ConsumerOrder'
  BY <1>a DEF ConsumerOrder
<1>b. ASSUME NEW s \in Stoppers, CloseSinks(s) PROVE ConsumerOrder'
  BY <1>0, <1>b, <1>a, SinksMoves DEF Moves
<1>1. CASE Starts \/ WiringFails
  BY <1>0, <1>1, <1>a DEF Starts, WiringFails, Storage!Start, feedVars
<1>2. CASE InitFails \/ FailedStops \/ FeedEnded
  BY <1>2, <1>b DEF InitFails, FailedStops, FeedEnded
<1>3. CASE Collected
  BY <1>3, <1>a, <1>b DEF Collected, storageVars, feedVars
<1>4. CASE \/ Ends \/ Receive \/ FeedCancelledAgain \/ FeedJoined \/ FeedDrained
  BY <1>4, <1>a DEF Ends, Receive, FeedCancelledAgain, FeedJoined, FeedDrained,
     storageVars, feedVars
<1>5. CASE FeedBegins
  BY <1>5 DEF FeedBegins, ConsumerOrder, Order, storageVars
<1>6. CASE FeedCancelled
  BY <1>6 DEF FeedCancelled, ConsumerOrder, storageVars
<1>7. CASE ConsumerCancelled
  <2>1. consumer = "stopping" /\ consumer' = "done" /\ feed' = feed
    BY <1>7 DEF ConsumerCancelled
  <2>2. CASE pc[Consumer] = "writing"
    <3>1. Storage!CancelFlush(Consumer)
      BY <1>7, <2>2 DEF ConsumerCancelled
    <3>2. pc'[Consumer] = "cancelled"
      BY <1>0, <3>1 DEF Storage!CancelFlush, Storage!DropBatch
    <3> QED
      BY <2>1, <3>2 DEF ConsumerOrder
  <2>3. CASE pc[Consumer] # "writing"
    BY <1>7, <2>1, <2>3 DEF ConsumerCancelled, ConsumerOrder, storageVars
  <2> QED
    BY <2>2, <2>3
<1>8. ASSUME NEW stores \in BOOLEAN, Consume(stores) PROVE ConsumerOrder'
  <2>1. consumer = "running" /\ UNCHANGED <<consumer, cut, feed>>
    BY <1>8 DEF Consume, feedVars
  <2> QED
    BY <1>0, <1>8, <2>1, ConsumeMoves DEF ConsumerOrder
<1>9. ASSUME NEW s \in Signals, Signal(s) PROVE ConsumerOrder'
  BY <1>9, <1>a DEF Signal, storageVars, feedVars
<1>10. ASSUME NEW s \in Signals, StopBegins(s) \/ StopResumes(s) PROVE ConsumerOrder'
  BY <1>10, <1>a, <1>b DEF StopBegins, StopResumes, AwaitFeed, storageVars
<1>11. ASSUME NEW s \in Signals, CutOff(s) PROVE ConsumerOrder'
  <2>1. UNCHANGED <<consumer, cut, feed>>
    BY <1>11 DEF CutOff, feedVars
  <2>2. pc'[Consumer] = pc[Consumer]
    <3>1. Consumer # s /\ Consumer # Loop
      BY <1>0
    <3>2. CASE UNCHANGED storageVars
      BY <3>2 DEF storageVars
    <3>3. CASE Storage!CancelJoin(s)
      BY <1>0, <3>1, <3>3 DEF Storage!CancelJoin, Storage!DropBatch
    <3>4. CASE Storage!CancelFlush(s)
      BY <1>0, <3>1, <3>4 DEF Storage!CancelFlush, Storage!DropBatch
    <3>5. CASE Storage!CloseInner(s)
      BY <1>0, <3>1, <3>5 DEF Storage!CloseInner
    <3>6. CASE Storage!CloseJoined(s)
      BY <1>0, <3>1, <3>6 DEF Storage!CloseJoined, Storage!BeginFlush, Storage!HandOver
    <3> QED
      BY <1>11, <3>2, <3>3, <3>4, <3>5, <3>6 DEF CutOff
  <2> QED
    BY <2>1, <2>2, <1>a
<1>12. ASSUME NEW s \in Stoppers, Closing(s) PROVE ConsumerOrder'
  BY <1>0, <1>12, <1>a, ClosingMoves DEF Closing, Moves, feedVars
<1>13. ASSUME NEW t \in Storage!Tasks, FlushReturns(t) PROVE ConsumerOrder'
  <2>1. t \in Tasks /\ UNCHANGED <<consumer, cut, feed>> /\ (t = Consumer => consumer = "running")
    BY <1>13 DEF FlushReturns, feedVars, Tasks
  <2>2. CASE t = Consumer
    BY <1>0, <1>13, <2>1, <2>2, ReturnMoves, Resumes DEF ConsumerOrder
  <2>3. CASE t # Consumer
    BY <1>0, <1>13, <2>1, <2>3, <1>a, ReturnMoves DEF Moves
  <2> QED
    BY <2>2, <2>3
<1>14. CASE LoopSteps
  BY <1>0, <1>14, <1>a, LoopMoves DEF LoopSteps, Moves, feedVars
<1>15. CASE UNCHANGED vars
  BY <1>15, <1>a DEF vars, storageVars, feedVars
<1> QED
  BY <1>1, <1>2, <1>3, <1>4, <1>5, <1>6, <1>7, <1>8, <1>9, <1>10, <1>11, <1>12,
     <1>13, <1>14, <1>15 DEF Next, Step

\* A step that leaves the places of the stoppers alone, and all that stop() sets.
LEMMA StopStill ==
    ASSUME pc[Loop] # "off", MainFirst, SignalSecond,
           \A s \in Stoppers : pc'[s] = pc[s],
           pc[Loop] = "done" => pc'[Loop] = "done",
           UNCHANGED <<closed, feed, feedCancel, task, waiters, main, stop, doomed>>
    PROVE  MainFirst' /\ SignalSecond'
<1>1. MainFirst'
  BY TaskFacts DEF MainFirst
<1>2. SignalSecond'
  BY TaskFacts DEF SignalSecond
<1> QED
  BY <1>1, <1>2

\* A step of the feed, which a cancellation has set in motion.
LEMMA FeedStill ==
    ASSUME pc[Loop] # "off", MainFirst, SignalSecond,
           UNCHANGED <<pc, closed, task, waiters, main, stop, doomed>>,
           feedCancel \/ feed \in {"joining", "draining"}
    PROVE  MainFirst' /\ SignalSecond'
<1>1. MainFirst'
  BY DEF MainFirst
<1>2. SignalSecond'
  BY DEF SignalSecond
<1> QED
  BY <1>1, <1>2

\* Only the start of the storage creates the periodic task.
LEMMA StaysOff ==
    ASSUME Order, [Next]_vars, pc[Loop] = "off", ~Starts, ~WiringFails
    PROVE  pc'[Loop] = "off"
<1> USE TaskFacts
<1>0. pc \in [Tasks -> Places]
  BY DEF Order
<1>1. CASE \/ InitFails \/ FailedStops \/ Collected \/ FeedEnded
           \/ \E s \in Signals : StopBegins(s) \/ StopResumes(s)
  <2>1. UNCHANGED pc \/ \E s \in Stoppers : CloseSinks(s)
    BY <1>1 DEF InitFails, FailedStops, Collected, FeedEnded, StopBegins, StopResumes,
       AwaitFeed, storageVars
  <2> QED
    BY <1>0, <2>1, SinksMoves
<1>2. CASE ConsumerCancelled
  <2>1. UNCHANGED pc \/ Storage!CancelFlush(Consumer)
    BY <1>2 DEF ConsumerCancelled, storageVars
  <2> QED
    BY <1>0, <2>1, CancelFlushKeeps DEF Apart
<1>3. ASSUME NEW stores \in BOOLEAN, Consume(stores) PROVE pc'[Loop] = "off"
  BY <1>0, <1>3, ConsumeMoves DEF Moves
<1>4. ASSUME NEW s \in Signals, CutOff(s) PROVE pc'[Loop] = "off"
  BY <1>0, <1>4, CancelJoinKeeps, CancelFlushKeeps, ClosingKeeps DEF CutOff, Apart, storageVars
<1>5. ASSUME NEW s \in Stoppers, Closing(s) PROVE pc'[Loop] = "off"
  BY <1>0, <1>5, ClosingMoves DEF Moves
<1>6. ASSUME NEW t \in Storage!Tasks, FlushReturns(t) PROVE pc'[Loop] = "off"
  BY <1>0, <1>6, ReturnMoves DEF Moves, Tasks
<1>7. CASE LoopSteps
  BY <1>0, <1>7, LoopMoves
<1>8. CASE \/ Ends \/ FeedBegins \/ Receive \/ FeedCancelled \/ FeedCancelledAgain
           \/ FeedJoined \/ FeedDrained \/ UNCHANGED vars \/ \E s \in Signals : Signal(s)
  BY <1>8 DEF Ends, FeedBegins, Receive, FeedCancelled, FeedCancelledAgain, FeedJoined,
     FeedDrained, vars, Signal, storageVars
<1> QED
  BY <1>1, <1>2, <1>3, <1>4, <1>5, <1>6, <1>7, <1>8 DEF Next, Step

\* A stop() that finds the storage closed changes nothing but its own place.
LEMMA SecondCloses ==
    ASSUME pc \in [Tasks -> Places], OwnTypes, pc[Loop] # "off", MainFirst, SignalSecond,
           closed, NEW s \in Signals, s \notin doomed, CloseSinks(s), main' = main,
           \A r \in Signals \ {s} : r \in Range(waiters) => r \in Range(waiters')
    PROVE  MainFirst' /\ SignalSecond'
<1> USE TaskFacts
<1>0. s # Main /\ s # Loop
  BY LifeAssumption DEF Stoppers
<1>1. /\ closed' = TRUE /\ pc'[s] = "done" /\ Moves(s)
      /\ stop' = [stop EXCEPT ![s] = "storage"]
      /\ UNCHANGED <<feed, feedCancel, doomed>>
  BY SinksMoves
<1>2. pc'[Main] = pc[Main] /\ pc'[Loop] = pc[Loop] /\ stop'[Main] = stop[Main]
  BY <1>0, <1>1 DEF Moves, OwnTypes
<1>3. main \notin {"failing", "collecting", "awaiting"}
  BY DEF MainFirst
<1>4. MainFirst'
  BY <1>1, <1>2, <1>3 DEF MainFirst
<1>5. \A r \in Signals \ {s} : r \in Tasks \ {s} /\ stop'[r] = stop[r] /\ pc'[r] = pc[r]
  BY <1>1 DEF OwnTypes, Moves
<1>6. stop'[s] = "storage"
  BY <1>1 DEF OwnTypes
<1>7. \A r \in doomed : r \in Signals \ {s}
  BY DEF OwnTypes
<1>8. SignalSecond'
  BY <1>1, <1>5, <1>6, <1>7 DEF SignalSecond
<1> QED
  BY <1>4, <1>8

LEMMA StopOrderStep ==
    ASSUME Order, OwnTypes, Waiting, Inside!CloseInv, Unborn, StopOrder, [Next]_vars
    PROVE  StopOrder'
<1> USE TaskFacts
<1> SUFFICES ASSUME ~hasty', pc'[Loop] # "off" PROVE MainFirst' /\ SignalSecond'
  BY DEF StopOrder
<1> DEFINE Goal == MainFirst' /\ SignalSecond'
<1>0. pc \in [Tasks -> Places]
  BY DEF Order
<1>a. ~hasty
  BY HastyStays
<1>1. CASE Starts \/ WiringFails
  <2>1. /\ main = "initializing" /\ closed' = closed /\ UNCHANGED <<feedCancel, stop, doomed>>
        /\ feed' \in {feed, "created"}
        /\ pc' = [pc EXCEPT ![Loop] = "started"]
        /\ \/ main' = "awaiting" /\ task' /\ waiters' = Append(waiters, Main)
           \/ main' = "collecting" /\ task' /\ waiters' = waiters
           \/ main' = "failing" /\ waiters' = waiters
    BY <1>1 DEF Starts, WiringFails, Storage!Start, feedVars
  <2>2. /\ feed = "none" /\ ~closed /\ waiters = <<>> /\ doomed = {} /\ ~feedCancel
        /\ stop[Main] = "no" /\ \A s \in Stoppers : pc[s] = "idle" /\ stop[s] \in {"no", "called", "done"}
    BY <2>1 DEF Order, Unborn
  <2>3. \A s \in Stoppers : pc'[s] = "idle"
    BY <1>0, <2>1, <2>2
  <2>4. main' = "awaiting" => waiters' # <<>> /\ Head(waiters') = Main
    BY <2>1, <2>2
  <2>5. MainFirst'
    BY <2>1, <2>2, <2>3, <2>4 DEF MainFirst
  <2>6. SignalSecond'
    BY <2>1, <2>2, <2>3 DEF SignalSecond
  <2> QED
    BY <2>5, <2>6
<1>2. CASE InitFails
  BY <1>0, <1>2, SinksMoves DEF InitFails, Order
<1> SUFFICES ASSUME pc[Loop] # "off" PROVE Goal
  <2>1. CASE pc[Loop] = "off"
    BY <1>1, <2>1, StaysOff
  <2> QED
    BY <2>1
<1>b. MainFirst /\ SignalSecond
  BY <1>a DEF StopOrder
<1>3. CASE Collected
  <2>1. ~feedCancel /\ feed \notin {"joining", "draining", "done"}
    BY <1>3, <1>b DEF Collected, MainFirst, SignalSecond
  <2>2. /\ main = "collecting" /\ main' = "awaiting" /\ waiters' = Append(waiters, Main)
        /\ UNCHANGED <<pc, closed, feed, feedCancel, task, stop, doomed>>
    BY <1>3, <1>b, <2>1 DEF Collected, MainFirst, storageVars, feedVars
  <2>3. waiters' # <<>> /\ Head(waiters') = Main
    BY <1>b, <2>2 DEF MainFirst
  <2>4. MainFirst'
    BY <1>b, <2>2, <2>3 DEF MainFirst
  <2>5. \A s \in Signals : stop[s] # "feed"
    BY <1>b, <2>2 DEF MainFirst
  <2>6. SignalSecond'
    BY <1>b, <2>2, <2>5 DEF SignalSecond
  <2> QED
    BY <2>4, <2>6
<1>4. CASE FeedEnded \/ FailedStops
  <2>1. /\ main \in {"awaiting", "failing"} /\ main' = "stopping" /\ CloseSinks(Main)
        /\ \/ waiters' = waiters
           \/ waiters' = Tail(waiters) /\ waiters # <<>> /\ Head(waiters) = Main
    BY <1>4 DEF FeedEnded, FailedStops, NextWaiter
  <2>2. /\ closed' = TRUE /\ pc'[Main] = "joining" /\ Moves(Main)
        /\ stop' = [stop EXCEPT ![Main] = "storage"]
        /\ UNCHANGED <<feed, feedCancel, doomed>>
    BY <1>0, <1>b, <2>1, SinksMoves DEF MainFirst
  <2>3. MainFirst'
    BY <2>1, <2>2 DEF MainFirst, OwnTypes
  <2>4. \A s \in Signals : s \in Tasks \ {Main} /\ stop'[s] = stop[s] /\ pc'[s] = pc[s]
    BY <2>2, LifeAssumption DEF OwnTypes, Moves
  <2>5. \A s \in Signals : s \in Range(waiters) => s \in Range(waiters')
    BY <2>1, WaiterLeaves, LifeAssumption DEF Waiting
  <2>6. doomed \subseteq Signals
    BY DEF OwnTypes
  <2>7. SignalSecond'
    BY <1>b, <2>2, <2>4, <2>5, <2>6 DEF SignalSecond
  <2> QED
    BY <2>3, <2>7
<1>5. CASE Ends
  <2>1. /\ main = "stopping" /\ Over(Main) /\ waiters = <<>> /\ main' = "ended"
        /\ doomed' = {s \in Signals : stop[s] # "no" /\ ~Over(s)}
        /\ UNCHANGED <<pc, closed, feed, feedCancel, task, waiters, stop>>
    BY <1>5 DEF Ends, storageVars, feedVars
  <2>2. MainFirst'
    BY <1>b, <2>1 DEF MainFirst, Over
  <2>3. \A s \in doomed' : stop[s] = "called"
    <3> SUFFICES ASSUME NEW s \in Signals, stop[s] # "no", ~Over(s) PROVE stop[s] = "called"
      BY <2>1
    <3>1. Range(waiters) = {}
      BY <2>1, EmptySeq DEF Range
    <3>2. stop[s] # "feed"
      BY <1>b, <3>1 DEF SignalSecond
    <3>3. stop[s] # "storage"
      BY <1>b DEF SignalSecond, Over
    <3> QED
      BY <3>2, <3>3 DEF OwnTypes, Over
  <2>4. SignalSecond'
    BY <1>b, <2>1, <2>3 DEF SignalSecond
  <2> QED
    BY <2>2, <2>4
<1>6. CASE FeedBegins
  <2>1. CASE feedCancel
    BY <1>6, <1>a, <1>b, <2>1, FeedStill DEF FeedBegins, storageVars, lifeVars
  <2>2. CASE ~feedCancel
    <3>1. feed' = "listening" /\ UNCHANGED <<pc, closed, task, waiters, main, stop, doomed>>
          /\ feedCancel' = FALSE
      BY <1>6, <2>2 DEF FeedBegins, storageVars, lifeVars
    <3>2. MainFirst'
      BY <1>b, <3>1 DEF MainFirst
    <3>3. SignalSecond'
      BY <1>b, <3>1 DEF SignalSecond
    <3> QED
      BY <3>2, <3>3
  <2> QED
    BY <2>1, <2>2
<1>7. CASE FeedCancelled \/ FeedCancelledAgain \/ FeedJoined \/ FeedDrained
  BY <1>7, <1>a, <1>b, FeedStill
     DEF FeedCancelled, FeedCancelledAgain, FeedJoined, FeedDrained, storageVars, lifeVars
<1>8. CASE Receive
  BY <1>8, <1>a, <1>b, StopStill DEF Receive, storageVars, feedVars, lifeVars
<1>9. CASE ConsumerCancelled
  <2>1. Storage!CancelFlush(Consumer) \/ UNCHANGED <<pc, closed>>
    BY <1>9 DEF ConsumerCancelled, storageVars
  <2>2. UNCHANGED <<closed, feed, feedCancel, task, waiters, main, stop, doomed>>
    BY <1>9, <2>1
       DEF ConsumerCancelled, lifeVars, Storage!CancelFlush, Storage!DropBatch
  <2>3. \A u \in Tasks \ {Consumer} : pc'[u] = pc[u]
    BY <1>0, <2>1 DEF Storage!CancelFlush, Storage!DropBatch
  <2>4. Consumer \notin Stoppers /\ Consumer # Loop
    BY LifeAssumption
  <2> QED
    BY <1>a, <1>b, <2>2, <2>3, <2>4, StopStill
<1>10. ASSUME NEW stores \in BOOLEAN, Consume(stores) PROVE Goal
  <2>1. UNCHANGED <<closed, feed, feedCancel, task, waiters, main, stop, doomed>>
    BY <1>0, <1>10, ConsumeMoves DEF Consume, feedVars, lifeVars
  <2>2. Consumer \notin Stoppers /\ Consumer # Loop
    BY LifeAssumption
  <2>3. \A u \in Tasks \ {Consumer} : pc'[u] = pc[u]
    BY <1>0, <1>10, ConsumeMoves DEF Moves
  <2> QED
    BY <1>a, <1>b, <2>1, <2>2, <2>3, StopStill
<1>11. ASSUME NEW s \in Signals, Signal(s) PROVE Goal
  <2>1. /\ stop' = [stop EXCEPT ![s] = "called"] /\ stop[s] = "no" /\ s # Main
        /\ UNCHANGED <<pc, closed, feed, feedCancel, task, waiters, main, doomed>>
    BY <1>11, LifeAssumption DEF Signal, storageVars, feedVars
  <2>2. MainFirst'
    BY <1>b, <2>1 DEF MainFirst, OwnTypes
  <2>3. SignalSecond'
    BY <1>b, <2>1 DEF SignalSecond, OwnTypes
  <2> QED
    BY <2>2, <2>3
<1>12. ASSUME NEW s \in Signals, StopBegins(s) PROVE Goal
  <2>0. /\ stop[s] = "called" /\ s # Main /\ s \notin doomed
        /\ closed \/ (main = "awaiting" /\ feed # "done")
    BY <1>12, LifeAssumption DEF StopBegins, Early
  <2>1. CASE AwaitFeed(s)
    <3>1. /\ task /\ feed # "done" /\ feedCancel' = TRUE /\ waiters' = Append(waiters, s)
          /\ stop' = [stop EXCEPT ![s] = "feed"]
          /\ UNCHANGED <<pc, closed, feed, task, main, doomed>>
      BY <2>1 DEF AwaitFeed, storageVars
    <3>2. main = "awaiting"
      BY <2>0, <3>1 DEF Order
    <3>3. waiters # <<>> /\ waiters \in Seq(Stoppers) /\ Head(waiters) = Main
      BY <1>b, <3>2 DEF MainFirst, Waiting
    <3>4. waiters' # <<>> /\ Head(waiters') = Main
      BY <3>1, <3>3
    <3>5. s \notin Range(waiters)
      BY <2>0, LifeAssumption DEF Waiting
    <3>6. Range(waiters') = Range(waiters) \cup {s}
      BY <3>1, <3>5, WaiterJoins DEF Waiting
    <3>7. MainFirst'
      BY <1>b, <2>0, <3>1, <3>2, <3>4 DEF MainFirst, OwnTypes
    <3>8. SignalSecond'
      BY <1>b, <2>0, <3>1, <3>6 DEF SignalSecond, OwnTypes
    <3> QED
      BY <3>7, <3>8
  <2>2. CASE ~(task /\ feed # "done") /\ CloseSinks(s) /\ UNCHANGED <<waiters, main>>
    <3>1. closed
      BY <1>b, <2>0, <2>2 DEF MainFirst
    <3> QED
      BY <1>0, <1>b, <2>0, <2>2, <3>1, SecondCloses
  <2> QED
    BY <1>12, <2>1, <2>2 DEF StopBegins
<1>13. ASSUME NEW s \in Signals, StopResumes(s) PROVE Goal
  <2>1. /\ stop[s] = "feed" /\ s # Main /\ feed = "done" /\ waiters # <<>> /\ Head(waiters) = s
        /\ waiters' = Tail(waiters) /\ CloseSinks(s) /\ main' = main
    BY <1>13, LifeAssumption DEF StopResumes, NextWaiter
  <2>2. main \notin {"failing", "collecting", "awaiting"} /\ closed
    BY <1>b, <2>1 DEF MainFirst, OwnTypes
  <2>3. s \notin doomed
    BY <1>b, <2>1 DEF SignalSecond
  <2>4. \A r \in Signals \ {s} : r \in Range(waiters) => r \in Range(waiters')
    BY <2>1, WaiterLeaves DEF Waiting
  <2> QED
    BY <1>0, <1>b, <2>1, <2>2, <2>3, <2>4, SecondCloses
<1>14. ASSUME NEW s \in Signals, CutOff(s) PROVE Goal
  <2>1. /\ stop[s] = "called" /\ stop' = [stop EXCEPT ![s] = "done"]
        /\ doomed' = doomed \ {s} /\ s # Main
        /\ UNCHANGED <<pc, closed, feed, feedCancel, task, waiters, main>>
    BY <1>14, <1>b, LifeAssumption DEF CutOff, SignalSecond, storageVars, feedVars
  <2>2. \A r \in Stoppers \ {s} : stop'[r] = stop[r]
    BY <2>1 DEF OwnTypes
  <2>3. stop'[s] = "done"
    BY <2>1 DEF OwnTypes
  <2>4. MainFirst'
    BY <1>b, <2>1, <2>2, <2>3 DEF MainFirst
  <2>5. doomed \subseteq Signals
    BY DEF OwnTypes
  <2>6. SignalSecond'
    BY <1>b, <2>1, <2>2, <2>3, <2>5 DEF SignalSecond
  <2> QED
    BY <2>4, <2>6
<1>15. ASSUME NEW s \in Stoppers, Closing(s) PROVE Goal
  <2>1. /\ Moves(s) /\ closed' = closed
        /\ \/ pc[s] = "joining" /\ pc'[s] \in {"writing", "closing"}
           \/ pc[s] = "closing" /\ pc'[s] = "done"
        /\ UNCHANGED <<feed, feedCancel, task, waiters, main, stop, doomed>>
    BY <1>0, <1>15, ClosingMoves DEF Closing, feedVars, lifeVars
  <2>2. s = Main
    BY <1>b, <2>1 DEF SignalSecond, Stoppers
  <2>3. main \in {"stopping", "ended"} /\ pc[Main] # "done" /\ main # "ended"
    BY <1>b, <2>1, <2>2 DEF MainFirst, OwnTypes
  <2>4. pc[Main] = "closing" => pc[Loop] = "done"
    BY <2>2 DEF Inside!CloseInv, Inside!CloseOrder
  <2>5. pc'[Loop] = pc[Loop] /\ \A r \in Signals : pc'[r] = pc[r]
    BY <2>1, <2>2, LifeAssumption DEF Moves
  <2>6. MainFirst'
    BY <1>b, <2>1, <2>2, <2>3, <2>4, <2>5 DEF MainFirst
  <2>7. SignalSecond'
    BY <1>b, <2>1, <2>5 DEF SignalSecond
  <2> QED
    BY <2>6, <2>7
<1>16. ASSUME NEW t \in Storage!Tasks, FlushReturns(t) PROVE Goal
  <2>1. /\ t \in Tasks /\ Moves(t) /\ pc[t] = "writing" /\ pc'[t] = Storage!AfterFlush(t)
        /\ UNCHANGED <<closed, feed, feedCancel, task, waiters, main, stop, doomed>>
    BY <1>0, <1>16, ReturnMoves DEF FlushReturns, feedVars, lifeVars, Tasks
  <2>2. CASE t \in Stoppers
    <3>1. t = Main /\ pc'[Main] = "closing"
      BY <1>b, <2>1, <2>2, Resumes DEF SignalSecond, Stoppers
    <3>2. main = "stopping"
      BY <1>b, <2>1, <3>1 DEF MainFirst, OwnTypes
    <3>3. \A r \in Signals : pc'[r] = pc[r]
      BY <2>1, <3>1, LifeAssumption DEF Moves
    <3>4. MainFirst'
      BY <1>b, <2>1, <3>1, <3>2 DEF MainFirst
    <3>5. SignalSecond'
      BY <1>b, <2>1, <3>3 DEF SignalSecond
    <3> QED
      BY <3>4, <3>5
  <2>3. CASE t \notin Stoppers
    <3>1. /\ \A s \in Stoppers : pc'[s] = pc[s]
          /\ pc[Loop] = "done" => pc'[Loop] = "done"
      BY <2>1, <2>3 DEF Moves
    <3> QED
      BY <1>a, <1>b, <2>1, <3>1, StopStill
  <2> QED
    BY <2>2, <2>3
<1>17. CASE LoopSteps
  <2>1. /\ Moves(Loop) /\ pc[Loop] \in {"started", "waiting"}
        /\ UNCHANGED <<closed, feed, feedCancel, task, waiters, main, stop, doomed>>
    BY <1>0, <1>17, LoopMoves DEF LoopSteps, feedVars, lifeVars
  <2>2. \A s \in Stoppers : pc'[s] = pc[s]
    BY <2>1 DEF Moves
  <2> QED
    BY <1>a, <1>b, <2>1, <2>2, StopStill
<1>18. CASE UNCHANGED vars
  BY <1>18, <1>a, <1>b, StopStill DEF vars, storageVars, feedVars, lifeVars
<1> QED
  BY <1>1, <1>2, <1>3, <1>4, <1>5, <1>6, <1>7, <1>8, <1>9, <1>10, <1>11, <1>12,
     <1>13, <1>14, <1>15, <1>16, <1>17, <1>18 DEF Next, Step

-----------------------------------------------------------------------------
(* What vanishes, if anything does.                                         *)

\* The points are those of the storage inside.
LEMMA SamePoints ==
    /\ Inside!Tasks = Tasks
    /\ Storage!Accepted \ (Storage!Written \cup evicted)
         = Inside!Accepted \ (Inside!Written \cup evicted)
BY DEF Storage!Accepted, Inside!Accepted, Storage!Written, Inside!Written,
   Tasks, Storage!Tasks, Inside!Tasks

\* All steps of the process but two cancel no task of the storage.
LEMMA CalmSteps ==
    ASSUME [Next]_vars
    PROVE  \/ StorageCalm \/ UNCHANGED Storage!vars
           \/ ConsumerCancelled /\ pc[Consumer] = "writing" /\ Storage!CancelFlush(Consumer)
           \/ \E s \in Signals : CutOff(s)
<1> USE TaskFacts
<1> DEFINE Same == UNCHANGED Storage!vars
           Does == StorageCalm \/ Same
<1>0. UNCHANGED storageVars => Same
  BY DEF storageVars, Storage!vars
<1>a. ASSUME NEW s \in Stoppers, CloseSinks(s) PROVE Does
  <2>1. UNCHANGED storageVars \/ Storage!CloseAgain(s) \/ Storage!CloseAndJoin(s)
    BY <1>a DEF CloseSinks
  <2> QED
    BY <1>0, <2>1 DEF StorageCalm
<1>1. ASSUME Starts \/ WiringFails PROVE Does
  BY <1>1 DEF Starts, WiringFails, StorageCalm
<1>2. ASSUME InitFails \/ FailedStops \/ FeedEnded PROVE Does
  BY <1>2, <1>a DEF InitFails, FailedStops, FeedEnded
<1>3. ASSUME Collected PROVE Does
  BY <1>0, <1>3, <1>a DEF Collected
<1>4. ASSUME \/ Ends \/ FeedBegins \/ Receive \/ FeedCancelled \/ FeedCancelledAgain
             \/ FeedJoined \/ FeedDrained
      PROVE  Does
  BY <1>0, <1>4 DEF Ends, FeedBegins, Receive, FeedCancelled, FeedCancelledAgain,
     FeedJoined, FeedDrained
<1>5. ASSUME ConsumerCancelled
      PROVE  Does \/ (pc[Consumer] = "writing" /\ Storage!CancelFlush(Consumer))
  BY <1>0, <1>5 DEF ConsumerCancelled
<1>6. ASSUME NEW stores \in BOOLEAN, Consume(stores) PROVE Does
  <2>1. Storage!StoreDataPoint(Consumer) \/ UNCHANGED storageVars
    BY <1>6 DEF Consume
  <2> QED
    BY <1>0, <2>1 DEF StorageCalm
<1>7. ASSUME NEW s \in Signals, Signal(s) PROVE Does
  BY <1>0, <1>7 DEF Signal
<1>8. ASSUME NEW s \in Signals, StopBegins(s) \/ StopResumes(s) PROVE Does
  <2>1. UNCHANGED storageVars \/ CloseSinks(s)
    BY <1>8 DEF StopBegins, StopResumes, AwaitFeed
  <2> QED
    BY <1>0, <1>a, <2>1
<1>9. ASSUME NEW s \in Stoppers, Closing(s) PROVE Does
  BY <1>9 DEF Closing, StorageCalm
<1>10. ASSUME NEW t \in Storage!Tasks, FlushReturns(t) PROVE Does
  BY <1>10 DEF FlushReturns, StorageCalm
<1>11. ASSUME LoopSteps PROVE Does
  BY <1>11 DEF LoopSteps, StorageCalm
<1>12. ASSUME UNCHANGED vars PROVE Does
  BY <1>0, <1>12 DEF vars
<1> QED
  BY <1>1, <1>2, <1>3, <1>4, <1>5, <1>6, <1>7, <1>8, <1>9, <1>10, <1>11, <1>12 DEF Next, Step

\* A batch is lost only with the consumer that holds it: no stop() is cut off with
\* one, and of the feed's cancellations the consumer sees one.
LEMMA KeptStep ==
    ASSUME Inside!PlaceInv, OwnTypes, Unborn, ConsumerOrder, StopOrder, Kept, [Next]_vars
    PROVE  Kept'
<1> SUFFICES ASSUME ~hasty', AtomicBackends = Backends
             PROVE  Inside!Vanished' \subseteq cut'
  BY DEF Kept
<1>1. ~hasty /\ Inside!Vanished \subseteq cut
  BY HastyStays DEF Kept
<1>2. Inside!CapInv
  BY DEF Inside!PlaceInv
<1>3. cut' = cut \/ (ConsumerCancelled /\ pc[Consumer] = "writing")
  BY DEF Next, Step, vars, Starts, InitFails, WiringFails, FailedStops, Collected, FeedEnded, Ends, FeedBegins, Receive,
     Consume, FeedCancelled, FeedCancelledAgain, ConsumerCancelled, FeedJoined, FeedDrained,
     Signal, StopBegins, StopResumes, CutOff, Closing, FlushReturns, LoopSteps, CloseSinks,
     AwaitFeed, feedVars
<1>4. CASE ConsumerCancelled /\ pc[Consumer] = "writing"
  <2>1. Storage!CancelFlush(Consumer) /\ cut' = Range(batch[Consumer]) /\ consumer = "stopping"
    BY <1>4 DEF ConsumerCancelled
  <2>2. Inside!DropBatch(Consumer, "cancelled")
    BY <2>1, SameDrop DEF Storage!CancelFlush
  <2>3. Consumer \in Inside!Tasks
    BY SamePoints, TaskFacts
  <2>4. /\ Inside!TraceKept
        /\ Inside!InFlight \subseteq Inside!Traceable' \cup Inside!Range(batch[Consumer])
    BY <1>2, <2>2, <2>3, InsideAssumptions, Inside!DroppingKeepsTrace
  <2>5. Inside!Vanished = {}
    BY <1>1, <2>1 DEF ConsumerOrder
  <2>6. Inside!Vanished' \subseteq Inside!Range(batch[Consumer])
    BY <2>4, <2>5 DEF Inside!TraceKept, Inside!Vanished, Inside!Traceable, Inside!Pending
  <2> QED
    BY <2>1, <2>6, SameRange
<1>5. CASE StorageCalm \/ UNCHANGED Storage!vars
  <2>1. [Inside!Calm]_(Inside!vars)
    BY <1>5, SameCalm, SameVars DEF Storage!vars, Inside!vars
  <2>2. Inside!TraceKept /\ Inside!BatchesKept
    BY <1>2, <2>1, InsideAssumptions, Inside!CalmKeepsTrace DEF Inside!CalmTrace
  <2>3. Inside!Vanished' \subseteq Inside!Vanished
    BY <2>2 DEF Inside!TraceKept, Inside!BatchesKept, Inside!Vanished, Inside!Traceable,
       Inside!Pending
  <2> QED
    BY <1>1, <1>3, <1>4, <2>3
<1>6. ASSUME NEW s \in Signals, CutOff(s) PROVE Inside!Vanished' \subseteq cut'
  <2>1. stop[s] # "storage"
    BY <1>1, <1>6, TaskFacts DEF StopOrder, SignalSecond, CutOff, Unborn
  <2>2. UNCHANGED <<storageVars, cut>>
    BY <1>6, <2>1 DEF CutOff, feedVars
  <2>3. Inside!Vanished' = Inside!Vanished
    BY <2>2 DEF storageVars, Inside!Vanished, Inside!Traceable, Inside!Pending,
       Inside!Accepted, Inside!Buffered, Inside!InFlight, Inside!Written
  <2> QED
    BY <1>1, <2>2, <2>3
<1> QED
  BY <1>4, <1>5, <1>6, CalmSteps

StopInv ==
    /\ TypeInv /\ Order /\ Inside!CloseInv
    /\ Unborn /\ ConsumerOrder /\ StopOrder /\ Kept

LEMMA StopInvInit == Init => StopInv
<1> SUFFICES ASSUME Init PROVE StopInv
  OBVIOUS
<1>1. TypeInv /\ Order
  BY TypeInvInit, OrderInit
<1>2. Inside!CloseInv
  BY SameInit, InsideAssumptions, Inside!CloseInit DEF Init
<1>3. /\ pc[Loop] = "off" /\ pc[Consumer] = "idle" /\ accepted = 0 /\ ~closed
      /\ \A s \in Stoppers : pc[s] = "idle"
  BY TaskFacts DEF Init, Storage!Init, Tasks
<1>4. Unborn /\ ConsumerOrder /\ StopOrder
  BY <1>3, TaskFacts DEF Init, Unborn, ConsumerOrder, StopOrder
<1>5. Inside!Vanished = {}
  BY <1>3 DEF Inside!Vanished, Inside!Accepted
<1> QED
  BY <1>1, <1>2, <1>4, <1>5 DEF StopInv, Kept

LEMMA StopInvStep == StopInv /\ [Next]_vars => StopInv'
<1> SUFFICES ASSUME StopInv, [Next]_vars PROVE StopInv'
  OBVIOUS
<1> USE DEF StopInv
<1>1. TypeInv'
  BY InsideStep, QueueStep, OwnStep, WaitingStep, CutStep DEF TypeInv
<1>2. Order'
  BY OrderStep
<1>3. Inside!CloseInv'
  <2>1. [Inside!Next]_(Inside!vars)
    BY StepInside
  <2>2. Inside!CloseOrder' /\ Inside!Drained'
    BY <2>1, InsideAssumptions, Inside!CloseOrderStep, Inside!DrainedStep
  <2>3. Inside!TypeOK' /\ Inside!BatchPlace'
    BY <1>1 DEF TypeInv, Inside!PlaceInv, Inside!CapInv
  <2> QED
    BY <2>2, <2>3 DEF Inside!CloseInv
<1>5. Unborn' /\ ConsumerOrder'
  BY UnbornStep, ConsumerStep DEF TypeInv
<1>6. StopOrder'
  BY StopOrderStep DEF TypeInv
<1>7. Kept'
  BY KeptStep DEF TypeInv
<1> QED
  BY <1>1, <1>2, <1>3, <1>5, <1>6, <1>7

\* In the end nobody holds a batch and the buffer has been taken, so a point that
\* is neither stored nor counted went with the consumer.
LEMMA StopKeeps ==
    ASSUME StopInv, AtomicBackends = Backends
    PROVE  OrderlyStopKeepsAll
<1> SUFFICES ASSUME main = "ended", \A s \in Stoppers : stop[s] = "no" \/ Over(s),
                    ~hasty, ~failed
             PROVE  Storage!Accepted \ (Storage!Written \cup evicted) \subseteq cut
  BY DEF OrderlyStopKeepsAll, LostAtEnd
<1> USE DEF StopInv
<1>2. CASE pc[Loop] = "off"
  BY <1>2 DEF Unborn, Storage!Accepted
<1>3. CASE pc[Loop] # "off"
  <2>1. MainFirst /\ SignalSecond
    BY <1>3 DEF StopOrder
  <2>2. closed /\ pc[Main] = "done" /\ pc[Loop] = "done"
    BY <2>1 DEF MainFirst
  <2>3. pc[Consumer] \in {"idle", "cancelled"}
    BY <2>2 DEF Order, ConsumerOrder
  <2>4. \A s \in Stoppers : pc[s] \in {"idle", "done"}
    BY <2>1, <2>2 DEF SignalSecond, Stoppers
  <2>5. \A t \in Inside!Tasks : batch[t] = <<>>
    <3>1. \A t \in Inside!Tasks : t \in Stoppers \cup {Consumer, Loop}
      BY DEF Inside!Tasks
    <3>2. \A t \in Inside!Tasks : pc[t] # "writing"
      BY <2>2, <2>3, <2>4, <3>1
    <3> QED
      BY <3>2 DEF Inside!CloseInv, Inside!BatchPlace
  <2>6. buffer = <<>>
    BY <2>2, <2>4 DEF Inside!CloseInv, Inside!Drained
  <2>7. Inside!Pending = {}
    <3>1. Inside!Range(<<>>) = {}
      BY SameRange, EmptySeq DEF Range
    <3> QED
      BY <2>5, <2>6, <3>1 DEF Inside!Pending, Inside!Buffered, Inside!InFlight
  <2>8. Inside!Vanished \subseteq cut
    BY DEF Kept
  <2> QED
    BY <2>7, <2>8, SamePoints DEF Inside!Vanished, Inside!Traceable
<1> QED
  BY <1>2, <1>3

\* Backends that write a batch in one transaction lose nothing, however many signals
\* come and whether history is collected at the start or not, if each stop() began
\* while main() awaited a live feed, or when the storage was being closed already
\* or not created yet: once main() and every stop() have returned, each point
\* accepted is stored or counted, or was in the batch that the consumer was
\* cancelled with, unless a flush failed (stop and start, orchestrator.py; close,
\* database.py).
THEOREM StopLosesNothing == AtomicBackends = Backends => (Spec => []OrderlyStopKeepsAll)
<1> SUFFICES ASSUME AtomicBackends = Backends PROVE Spec => []OrderlyStopKeepsAll
  OBVIOUS
<1>1. StopInv => OrderlyStopKeepsAll
  BY StopKeeps
<1> QED
  BY <1>1, StopInvInit, StopInvStep, PTL DEF Spec
=============================================================================
