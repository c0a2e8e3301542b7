------------------------------ MODULE QueueSim ------------------------------
(***************************************************************************)
(* The queue simulator of sim/queue.py and the fill rules of sim/fills.py, *)
(* as operators on a record.  A simulator keeps, for each price level it   *)
(* quotes at, one queue of segments, front first: real volume, anonymous   *)
(* or with its order id, and its own orders.  The view is the book the     *)
(* event source shares with it, in whatever state that is when it reads.   *)
(*                                                                         *)
(* The bounds are "pessimistic", "optimistic" and "exact"; the pro-rata    *)
(* bound, whose sizes are fractions, is left out, and so are the counters  *)
(* of get_stats().                                                         *)
(***************************************************************************)
EXTENDS L2Book, FiniteSets

NewSim(bound) ==
    [bound |-> bound, next_id |-> 1, registry |-> <<>>, levels |-> <<>>, seen |-> FALSE]

Real(oid, sz) == [kind |-> "real", oid |-> oid, sz |-> sz]

Own(order_id, sz) == [kind |-> "own", oid |-> order_id, sz |-> sz]

Least(m, n) == IF m < n THEN m ELSE n

Without(f, key) == [k \in DOMAIN f \ {key} |-> f[k]]

Volume(segments) == Fold(LAMBDA total, s : total + s.sz, 0, segments)

RealOf(segments) == SelectSeq(segments, LAMBDA s : s.kind = "real")

OwnIds(segments) == {segments[i].oid : i \in {j \in DOMAIN segments : segments[j].kind = "own"}}

-----------------------------------------------------------------------------
(* place() and cancel() *)

\* _seed_real(): before any book there is nothing to seed with.
Seed(sim, view, side, px) ==
    LET queue == LevelOrders(view, side, px)
    IN  IF ~sim.seen \/ queue = <<>> THEN <<>>
        ELSE IF sim.bound = "exact" THEN [i \in DOMAIN queue |-> Real(queue[i].oid, queue[i].sz)]
        ELSE <<Real(None, LevelSize(view, side, px))>>

Place(sim, view, side, px, sz) ==
    LET key   == <<side, px>>
        level == IF key \in DOMAIN sim.levels THEN sim.levels[key]
                 ELSE [segments |-> Seed(sim, view, side, px), consumed |-> 0]
    IN  [sim EXCEPT !.next_id = @ + 1,
                    !.registry = (sim.next_id :> key) @@ @,
                    !.levels = (key :> [level EXCEPT !.segments = Append(@, Own(sim.next_id, sz))]) @@ @]

\* _drop_level_if_unquoted()
DropUnquoted(sim, key) ==
    IF key \in DOMAIN sim.levels /\ OwnIds(sim.levels[key].segments) = {}
    THEN [sim EXCEPT !.levels = Without(@, key)] ELSE sim

\* An order that is already gone is not found.
Cancel(sim, order_id) ==
    LET key == sim.registry[order_id]
    IN  IF order_id \notin DOMAIN sim.registry THEN sim
        ELSE DropUnquoted(
                [sim EXCEPT !.registry = Without(@, order_id),
                            !.levels[key].segments =
                                SelectSeq(@, LAMBDA s : ~(s.kind = "own" /\ s.oid = order_id))], key)

-----------------------------------------------------------------------------
(* on_trade() *)

RestingSideHit(aggressor) == IF aggressor = "B" THEN "A" ELSE "B"

TradeReaches(side, level_px, trade_px) ==
    IF side = "B" THEN level_px >= trade_px ELSE level_px <= trade_px

TradeThrough(side, level_px, trade_px) ==
    IF side = "B" THEN trade_px < level_px ELSE trade_px > level_px

\* One segment of _fill_through() or _fill_at_price(): a trade through the level
\* fills every own order of it, one at its price consumes the queue in order.
\* Under the exact model the volume taken is remembered and the diffs settle it.
Walk(exact, through, acc, segment) ==
    LET already   == IF exact THEN Least(segment.sz, acc.skip) ELSE 0
        available == segment.sz - already
        taken     == IF through THEN 0 ELSE Least(acc.budget, available)
        filled    == IF through THEN segment.sz ELSE Least(acc.budget, segment.sz)
    IN  IF ~through /\ acc.budget = 0
        THEN [acc EXCEPT !.segments = Append(@, segment)]
        ELSE IF segment.kind = "real"
        THEN [acc EXCEPT !.skip = @ - already, !.ahead = @ + available, !.budget = @ - taken,
                         !.consumed = IF exact THEN @ + taken ELSE @,
                         !.segments = Append(@, IF exact THEN segment ELSE [segment EXCEPT !.sz = @ - taken])]
        ELSE [acc EXCEPT !.budget = IF through THEN @ ELSE @ - filled,
                         !.segments = Append(@, [segment EXCEPT !.sz = @ - filled]),
                         !.fills = Append(@, [order_id |-> segment.oid, sz |-> filled, ahead |-> acc.ahead])]

\* What a trade makes of one level: [fills, segments, consumed].
FillLevel(sim, key, trade) ==
    LET level == sim.levels[key]
        exact == sim.bound = "exact"
    IN  Fold(LAMBDA acc, s : Walk(exact, TradeThrough(key[1], key[2], trade.px), acc, s),
             [budget |-> trade.sz, skip |-> level.consumed, consumed |-> level.consumed,
              ahead |-> 0, segments |-> <<>>, fills |-> <<>>],
             level.segments)

\* Mutant: a filled order stays in the registry.
SweepFilledListed(sim, key, walked) ==
    LET left == SelectSeq(walked.segments,
                          LAMBDA s : s.sz > 0 \/ (s.kind = "real" /\ sim.bound = "exact"))
    IN  DropUnquoted([sim EXCEPT !.levels[key] = [segments |-> left, consumed |-> walked.consumed]], key)

\* _sweep_filled(): own orders that are filled go, and empty anonymous volume.
SweepFilled(sim, key, walked) ==
    LET gone == {s.oid : s \in {t \in ToSet(walked.segments) : t.kind = "own" /\ t.sz = 0}}
        left == SelectSeq(walked.segments,
                          LAMBDA s : s.sz > 0 \/ (s.kind = "real" /\ sim.bound = "exact"))
    IN  DropUnquoted(
            [sim EXCEPT !.registry = [id \in DOMAIN @ \ gone |-> @[id]],
                        !.levels[key] = [segments |-> left, consumed |-> walked.consumed]], key)

\* _emit(): the fill is at the price of the level and has the mid of the shared view.
Emit(fill, key, trade, view, seen) ==
    [order_id |-> fill.order_id, side |-> key[1], px |-> key[2], sz |-> fill.sz, t_ms |-> trade.t_ms,
     ahead |-> fill.ahead, twice_mid |-> IF seen THEN TwiceMid(view) ELSE None]

BestFirst(keys) ==
    SortSeq(SetToSeq(keys), LAMBDA k, l : IF k[1] = "B" THEN k[2] > l[2] ELSE k[2] < l[2])

OnTrade(sim, view, trade) ==
    LET side    == RestingSideHit(trade.side)
        reached == {k \in DOMAIN sim.levels : k[1] = side /\ TradeReaches(side, k[2], trade.px)}
        Hit(acc, key) ==
            LET walked == FillLevel(acc.sim, key, trade)
            IN  [sim   |-> SweepFilled(acc.sim, key, walked),
                 fills |-> acc.fills \o [i \in DOMAIN walked.fills |->
                                           Emit(walked.fills[i], key, trade, view, sim.seen)]]
    IN  Fold(Hit, [sim |-> sim, fills |-> <<>>], BestFirst(reached))

-----------------------------------------------------------------------------
(* on_book() *)

\* Mutant: the pessimistic bound takes cancelled volume from the front.
CanceledSwapped(bound, segments, volume, i) ==
    LET first == IF bound = "pessimistic" THEN SubSeq(segments, 1, i - 1)
                 ELSE SubSeq(segments, i + 1, Len(segments))
        left  == volume - Volume(RealOf(first))
    IN  IF segments[i].kind = "own" \/ left <= 0 THEN 0 ELSE Least(segments[i].sz, left)

\* Volume taken from the i-th segment when real volume is cancelled: behind-first
\* (pessimistic) or front-first (optimistic).
Canceled(bound, segments, volume, i) ==
    LET first == IF bound = "pessimistic" THEN SubSeq(segments, i + 1, Len(segments))
                 ELSE SubSeq(segments, 1, i - 1)
        left  == volume - Volume(RealOf(first))
    IN  IF segments[i].kind = "own" \/ left <= 0 THEN 0 ELSE Least(segments[i].sz, left)

RemoveReal(bound, segments, volume) ==
    SelectSeq([i \in DOMAIN segments |-> [segments[i] EXCEPT !.sz = @ - Canceled(bound, segments, volume, i)]],
              LAMBDA s : s.kind = "own" \/ s.sz > 0)

\* _reconcile_l2_levels(): net growth joins at the back.
Reconcile(sim, view, key) ==
    LET level == sim.levels[key]
        delta == LevelSize(view, key[1], key[2]) - Volume(RealOf(level.segments))
    IN  CASE delta > 0 -> [level EXCEPT !.segments = Append(@, Real(None, delta))]
          [] delta < 0 -> [level EXCEPT !.segments = RemoveReal(sim.bound, @, 0 - delta)]
          [] OTHER     -> level

\* _apply_exact_diffs(), for one diff of one level.
ApplyExact(segments, diff) ==
    LET slot  == {i \in DOMAIN segments : segments[i].kind = "real" /\ segments[i].oid = diff.oid}
        spot  == Min(slot)
        sized == IF diff.kind = "update" THEN diff.new_sz ELSE 0
    IN  CASE diff.kind = "new" -> Append(segments, Real(diff.oid, diff.sz))
          [] OTHER -> IF slot = {} THEN segments
                      ELSE IF sized = 0 THEN RemoveAt(segments, spot)
                      ELSE [segments EXCEPT ![spot].sz = sized]

Settle(sim, key, diffs) ==
    LET here == SelectSeq(diffs, LAMBDA d : <<d.side, d.px>> = key)
    IN  [segments |-> Fold(ApplyExact, sim.levels[key].segments, here), consumed |-> 0]

\* An exact simulator follows the diffs of the block, the others the sizes of the view.
OnBook(sim, view, diffs) ==
    [sim EXCEPT !.seen = TRUE,
                !.levels = [key \in DOMAIN @ |-> IF sim.bound = "exact" THEN Settle(sim, key, diffs)
                                                 ELSE Reconcile(sim, view, key)]]

-----------------------------------------------------------------------------
(* Reads *)

\* Real volume ahead of an own order; what this block's trades walked past is behind them.
QueueAhead(sim, order_id) ==
    LET level == sim.levels[sim.registry[order_id]]
        at    == CHOOSE i \in DOMAIN level.segments :
                    level.segments[i].kind = "own" /\ level.segments[i].oid = order_id
        real  == Volume(RealOf(SubSeq(level.segments, 1, at - 1)))
    IN  real - Least(real, level.consumed)

Remaining(sim, order_id) ==
    Volume(SelectSeq(sim.levels[sim.registry[order_id]].segments,
                     LAMBDA s : s.kind = "own" /\ s.oid = order_id))

OpenOrders(sim) ==
    LET ids == SortSeq(SetToSeq(DOMAIN sim.registry), <)
    IN  [i \in DOMAIN ids |-> [order_id |-> ids[i], side |-> sim.registry[ids[i]][1],
                               px |-> sim.registry[ids[i]][2], sz |-> Remaining(sim, ids[i])]]
=============================================================================
