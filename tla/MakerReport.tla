---------------------------- MODULE MakerReport ----------------------------
(***************************************************************************)
(* What sim/report.py and sim/sweep.py make of the passes of the maker     *)
(* simulator: the decomposition of one pass, its time buckets, their       *)
(* regimes, and the verdict of the gate.  Prices are twice the real ones,  *)
(* so that mids are integers; vol ranks buckets by their squared changes   *)
(* of the mid.                                                             *)
(***************************************************************************)
EXTENDS QueueSim

CONSTANTS Fee,      \* fee per unit of notional
          AdverseDt, BucketMs, MinDaysForVerdict

Notional(fill) == 2 * fill.px * fill.sz

Signed(fill, n) == IF fill.side = "B" THEN n ELSE 0 - n

Sum(Value(_), s) == Fold(LAMBDA total, x : total + Value(x), 0, s)

\* Engine._apply_fill(): what a fill does to the cash.
CashOf(fill) == 0 - Signed(fill, Notional(fill)) - Fee * Notional(fill)

InventoryOf(fill) == Signed(fill, fill.sz)

\* RunResult.total_pnl()
TotalPnl(result) ==
    result.cash + result.inventory * (IF result.mids = <<>> THEN 0 ELSE Last(result.mids).mid)

-----------------------------------------------------------------------------
(* decompose() *)

\* _mid_at(): the last mid at or before a time.
MidsUpTo(mids, t) == SelectSeq(mids, LAMBDA m : m.t <= t)

\* Fills too close to the end have no later mid to look up.
DriftSkipped(result, fill) ==
    \/ result.mids = <<>> \/ fill.twice_mid = None
    \/ fill.t_ms + AdverseDt > Last(result.mids).t
    \/ MidsUpTo(result.mids, fill.t_ms + AdverseDt) = <<>>

Edge(fill) == IF fill.twice_mid = None THEN 0 ELSE Signed(fill, fill.twice_mid - 2 * fill.px) * fill.sz

Drift(result, fill) ==
    IF DriftSkipped(result, fill) THEN 0
    ELSE Signed(fill, Last(MidsUpTo(result.mids, fill.t_ms + AdverseDt)).mid - fill.twice_mid) * fill.sz

Decompose(result) ==
    LET capture == Sum(Edge, result.fills)
        drift   == Sum(LAMBDA f : Drift(result, f), result.fills)
        fees    == Fee * Sum(Notional, result.fills)
    IN  [total_pnl |-> TotalPnl(result), spread_capture |-> capture, post_fill_drift |-> drift,
         fees |-> 0 - fees, mark_residual |-> TotalPnl(result) - (capture + drift - fees),
         fill_count |-> Len(result.fills), filled_notional |-> Sum(Notional, result.fills)]

-----------------------------------------------------------------------------
(* _bucketize() *)

\* Mutant: the last, shorter bucket is forgotten.
EdgesShort(start, end) ==
    [i \in 1..((end - start + BucketMs - 1) \div BucketMs) |-> start + (i - 1) * BucketMs]

\* The edges range(start, end, bucket_ms) and the end.
Edges(start, end) ==
    LET n == (end - start + BucketMs - 1) \div BucketMs
    IN  [i \in 1..n |-> start + (i - 1) * BucketMs] \o <<end>>

\* Equity at a bucket's right edge: the fills and the last mid up to it.
Equity(result, edge) ==
    LET fills == SelectSeq(result.fills, LAMBDA f : f.t_ms <= edge)
        mids  == MidsUpTo(result.mids, edge)
    IN  Sum(CashOf, fills) + Sum(InventoryOf, fills) * Last(mids).mid

\* The squared returns of the mids after one edge (from the start for the first
\* bucket) up to the next.
Vol(result, from, to) ==
    LET mids == result.mids
        in   == SelectSeq([i \in DOMAIN mids |-> i],
                          LAMBDA i : i > 1 /\ mids[i].t > from /\ mids[i].t <= to)
    IN  Sum(LAMBDA i : (mids[i].mid - mids[i - 1].mid) * (mids[i].mid - mids[i - 1].mid), in)

Bucketize(result) ==
    LET edges == Edges(result.mids[1].t, Last(result.mids).t)
    IN  IF result.mids = <<>> THEN <<>>
        ELSE [k \in 1..(Len(edges) - 1) |->
                [t_start |-> edges[k],
                 vol     |-> Vol(result, IF k = 1 THEN 0 ELSE edges[k], edges[k + 1]),
                 pnl     |-> Equity(result, edges[k + 1]) - IF k = 1 THEN 0 ELSE Equity(result, edges[k])]]

-----------------------------------------------------------------------------
(* The regimes and the gate, over cells [day, bound, result] of one coin and parameter *)

Pessimistic(cells) == {c \in cells : c.bound = "pessimistic"}

Pooled(cells) ==
    SortSeq(Fold(LAMBDA s, c : s \o [k \in DOMAIN Bucketize(c.result) |-> Bucketize(c.result)[k].vol],
                 <<>>, SetToSeq(Pessimistic(cells))), <)

\* _label_regimes(): terciles of the vols of the pessimistic cells.
Regime(cells, bucket) ==
    LET vols == Pooled(cells)
    IN  IF bucket.vol <= vols[Len(vols) \div 3 + 1] THEN "calm"
        ELSE IF bucket.vol <= vols[(2 * Len(vols)) \div 3 + 1] THEN "mid"
        ELSE "volatile"

RegimePnl(cells, regime) ==
    Sum(LAMBDA c : Sum(LAMBDA b : b.pnl,
                       SelectSeq(Bucketize(c.result), LAMBDA b : Regime(cells, b) = regime)),
        SetToSeq(Pessimistic(cells)))

\* _verdicts(), of one coin and one point of the grid.
Verdict(cells) ==
    LET pess        == Pessimistic(cells)
        day_pnls    == {TotalPnl(c.result) : c \in pess}
        regime_pnls == [r \in {"calm", "mid", "volatile"} |-> RegimePnl(cells, r)]
    IN  [passes_days    |-> pess # {} /\ \A pnl \in day_pnls : pnl > 0,
         passes_regimes |-> \A r \in DOMAIN regime_pnls : regime_pnls[r] >= 0,
         regime_pnls    |-> regime_pnls,
         bound_total    |-> Sum(LAMBDA c : TotalPnl(c.result), SetToSeq(pess)),
         advisory       |-> Cardinality({c.day : c \in pess}) < MinDaysForVerdict]
=============================================================================
