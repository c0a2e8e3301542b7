------------------------------- MODULE L2Book -------------------------------
(***************************************************************************)
(* The aggregated book of book/l2_book.py.  A level is kept as one         *)
(* anonymous order, so that both books are read by the operators of        *)
(* L4Book, as both classes implement one BookView.                         *)
(***************************************************************************)
EXTENDS L4Book, TLC

Anonymous(side, row) == [oid |-> None, side |-> side, px |-> row.px, sz |-> row.sz]

\* _parse_side(): levels that do not parse are left out, the others sorted best first.
ParseSide(rows, side) ==
    LET good   == SelectSeq(rows, LAMBDA row : BadDecimal \notin {row.px, row.sz})
        sorted == SortSeq(good, LAMBDA x, y : IF side = "B" THEN x.px > y.px ELSE x.px < y.px)
    IN  [i \in DOMAIN sorted |-> Anonymous(side, sorted[i])]

\* A snapshot replaces the whole book, and never makes it stale.
UpdateFromSnapshot(book, bids, asks) ==
    LET skipped == Len(bids) + Len(asks) - Len(ParseSide(bids, "B")) - Len(ParseSide(asks, "A"))
    IN  [book EXCEPT !.orders = ParseSide(bids, "B") \o ParseSide(asks, "A"),
                     !.anomaly_count = @ + skipped]
=============================================================================
