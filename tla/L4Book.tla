------------------------------- MODULE L4Book -------------------------------
(***************************************************************************)
(* The order-level book of book/l4_book.py as operators on a record.       *)
(*                                                                         *)
(* The dict of orders and the two SortedDicts of price levels are one      *)
(* sequence of resting orders in the order of their insertion: the queue   *)
(* of a level is the part of it with that side and price, and a level      *)
(* whose last order goes has no part.  Prices and sizes are small          *)
(* integers; BadDecimal is a string Decimal() refuses and None an absent   *)
(* value.                                                                  *)
(***************************************************************************)
EXTENDS Lists, SequencesExt

None == -2

BadDecimal == -1

\* L4Book.__init__
EmptyBook(coin) ==
    [coin |-> coin, height |-> None, stale |-> FALSE, anomaly_count |-> 0, orders |-> <<>>]

Anomaly(book) == [book EXCEPT !.anomaly_count = @ + 1]

Holds(book, oid) == \E i \in DOMAIN book.orders : book.orders[i].oid = oid

Slot(book, oid) == CHOOSE i \in DOMAIN book.orders : book.orders[i].oid = oid

Delete(book, oid) == [book EXCEPT !.orders = RemoveAt(@, Slot(book, oid))]

\* An oid announced again is cancelled and joins the back of its queue.
Insert(book, order) ==
    LET known == Holds(book, order.oid)
        freed == IF known THEN Anomaly(Delete(book, order.oid)) ELSE book
    IN  IF BadDecimal \in {order.px, order.sz} THEN Anomaly(book)
        ELSE [freed EXCEPT !.orders = Append(@, [oid |-> order.oid, side |-> order.side,
                                                 px |-> order.px, sz |-> order.sz])]

ApplyNew(book, diff) == IF diff.sz = None THEN Anomaly(book) ELSE Insert(book, diff)

\* The new size is applied in place even where the feed's old size is not the
\* book's: the feed wins and the divergence is counted.
ApplyUpdate(book, diff) ==
    LET i       == Slot(book, diff.oid)
        flagged == IF diff.orig_sz \notin {None, book.orders[i].sz} THEN Anomaly(book) ELSE book
    IN  IF ~Holds(book, diff.oid) \/ diff.new_sz \in {None, BadDecimal} THEN Anomaly(book)
        ELSE IF diff.new_sz = 0 THEN Delete(Anomaly(flagged), diff.oid)
        ELSE [flagged EXCEPT !.orders[i].sz = diff.new_sz]

ApplyRemove(book, diff) ==
    IF Holds(book, diff.oid) THEN Delete(book, diff.oid) ELSE Anomaly(book)

\* A diff of another coin is counted and ignored.
Apply(book, diff) ==
    CASE diff.coin # book.coin -> Anomaly(book)
      [] OTHER -> CASE diff.kind = "new"    -> ApplyNew(book, diff)
                    [] diff.kind = "update" -> ApplyUpdate(book, diff)
                    [] diff.kind = "remove" -> ApplyRemove(book, diff)

\* Mutant: a gap in the heights goes unnoticed.
ApplyBlockTrusting(book, batch) ==
    [Fold(Apply, book, batch.diffs) EXCEPT !.height = batch.height]

\* Any height but the next one marks the book stale; its diffs are applied all the same.
ApplyBlock(book, batch) ==
    LET gap   == book.height # None /\ batch.height # book.height + 1
        begun == IF gap THEN [Anomaly(book) EXCEPT !.stale = TRUE] ELSE book
    IN  [Fold(Apply, begun, batch.diffs) EXCEPT !.height = batch.height]

\* The only way out of staleness.
LoadSnapshot(book, snapshot) ==
    LET reset == IF book.coin = snapshot.coin THEN EmptyBook(snapshot.coin)
                 ELSE Anomaly(EmptyBook(snapshot.coin))
    IN  [Fold(Insert, reset, snapshot.orders) EXCEPT !.height = snapshot.height]

-----------------------------------------------------------------------------
(* The BookView reads *)

Side(book, side) == {book.orders[i].px : i \in {j \in DOMAIN book.orders : book.orders[j].side = side}}

LevelOrders(book, side, px) == SelectSeq(book.orders, LAMBDA o : o.side = side /\ o.px = px)

LevelSize(book, side, px) ==
    Fold(LAMBDA total, o : total + o.sz, 0, LevelOrders(book, side, px))

BestBid(book) == IF Side(book, "B") = {} THEN None ELSE Max(Side(book, "B"))

BestAsk(book) == IF Side(book, "A") = {} THEN None ELSE Min(Side(book, "A"))

IsCrossed(book) ==
    /\ None \notin {BestBid(book), BestAsk(book)}
    /\ BestBid(book) >= BestAsk(book)

\* Twice the mid, which is exact for integer prices.
TwiceMid(book) ==
    IF None \in {BestBid(book), BestAsk(book)} THEN None ELSE BestBid(book) + BestAsk(book)

\* Orders and size ahead of an order within its level.
QueuePosition(book, oid) ==
    IF ~Holds(book, oid) THEN None
    ELSE LET i     == Slot(book, oid)
             ahead == SelectSeq(SubSeq(book.orders, 1, i - 1),
                                LAMBDA o : o.side = book.orders[i].side /\ o.px = book.orders[i].px)
         IN  <<Len(ahead), Fold(LAMBDA total, o : total + o.sz, 0, ahead)>>
=============================================================================
