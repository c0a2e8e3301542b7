---------------------------- MODULE MakerPolicy ----------------------------
(***************************************************************************)
(* The quoting policies of sim/policy.py: what they want to have resting   *)
(* after a block, and the actions that bring it about.  The windowed       *)
(* order-flow imbalance is computed as in _RollingOfi; its normalizer is   *)
(* left out, so a signal has the sign of the imbalance and the strength    *)
(* the caller gives it.                                                    *)
(***************************************************************************)
EXTENDS QueueSim

CONSTANTS QuoteSize, WidthTicks, SkewGain, SkewCut, InventoryLimit, WindowMs, Warmup

ASSUME PolicyConstants ==
    /\ QuoteSize \in Nat \ {0} /\ InventoryLimit \in Nat
    /\ \A n \in {WidthTicks, SkewGain, SkewCut, WindowMs, Warmup} : n \in Nat

NoQuotes == [B |-> None, A |-> None]

TwoSided(view) == None \notin {BestBid(view), BestAsk(view)}

-----------------------------------------------------------------------------
(* _RollingOfi *)

NewOfi == [best |-> <<>>, events |-> <<>>, updates |-> 0]

Best(view) == [bid |-> BestBid(view), bid_sz |-> LevelSize(view, "B", BestBid(view)),
               ask |-> BestAsk(view), ask_sz |-> LevelSize(view, "A", BestAsk(view))]

\* Cont-Kukanov-Stoikov: what the change of the best levels adds to the imbalance.
Flow(before, after) ==
    (IF after.bid >= before.bid THEN after.bid_sz ELSE 0) - (IF after.bid <= before.bid THEN before.bid_sz ELSE 0)
    - (IF after.ask <= before.ask THEN after.ask_sz ELSE 0) + (IF after.ask >= before.ask THEN before.ask_sz ELSE 0)

UpdateOfi(ofi, view, t) ==
    LET grown == IF ofi.best = <<>> THEN ofi.events
                 ELSE Append(ofi.events, [t |-> t, flow |-> Flow(ofi.best[1], Best(view))])
    IN  IF ~TwoSided(view) THEN ofi
        ELSE [best    |-> <<Best(view)>>,
              events  |-> SelectSeq(grown, LAMBDA e : e.t >= t - WindowMs),
              updates |-> Least(ofi.updates + 1, Warmup)]

\* A one-sided book and a cold normalizer give no signal.
Signal(ofi, view, strength) ==
    LET sum == Fold(LAMBDA total, e : total + e.flow, 0, ofi.events)
    IN  IF ~TwoSided(view) \/ ofi.updates < Warmup THEN 0
        ELSE CASE sum > 0 -> strength
               [] sum = 0 -> 0
               [] sum < 0 -> 0 - strength

-----------------------------------------------------------------------------
(* The policies *)

\* The inventory bands trump the signal.
WithinBands(desired, inventory) ==
    [B |-> IF inventory >= InventoryLimit THEN None ELSE desired.B,
     A |-> IF inventory <= 0 - InventoryLimit THEN None ELSE desired.A]

\* ReferenceOfiPolicy: join the touch, pull the side about to be run over.
ReferenceDesired(view, signal, inventory) ==
    IF ~TwoSided(view) \/ IsCrossed(view) THEN NoQuotes
    ELSE WithinBands([B |-> IF signal <= 0 - SkewCut THEN None ELSE BestBid(view),
                      A |-> IF signal >= SkewCut THEN None ELSE BestAsk(view)], inventory)

\* WidthPolicy: quote behind the touch and shift with the signal, never into the spread.
WidthDesired(view, signal, inventory) ==
    LET shift == SkewGain * signal
    IN  IF ~TwoSided(view) \/ IsCrossed(view) THEN NoQuotes
        ELSE WithinBands([B |-> BestBid(view) - Max({0, WidthTicks - shift}),
                          A |-> BestAsk(view) + Max({0, WidthTicks + shift})], inventory)

\* Mutant: a quote is placed whether or not one rests already.
SideActionsBlind(side, want, orders) ==
    IF want = None THEN <<>> ELSE <<[kind |-> "place", side |-> side, px |-> want, sz |-> QuoteSize]>>

\* Of the open orders of a side the first that rests where it is wanted is kept
\* and the others are cancelled; a quote is placed where none was kept.
SideActions(side, want, orders) ==
    LET mine   == SelectSeq(orders, LAMBDA o : o.side = side)
        fits   == {i \in DOMAIN mine : want # None /\ mine[i].px = want}
        others == SelectSeq([i \in DOMAIN mine |-> i], LAMBDA i : fits = {} \/ i # Min(fits))
    IN  [k \in DOMAIN others |-> [kind |-> "cancel", order_id |-> mine[others[k]].order_id]]
        \o IF want = None \/ fits # {} THEN <<>>
           ELSE <<[kind |-> "place", side |-> side, px |-> want, sz |-> QuoteSize]>>

Actions(desired, orders) ==
    SideActions("B", desired.B, orders) \o SideActions("A", desired.A, orders)
=============================================================================
