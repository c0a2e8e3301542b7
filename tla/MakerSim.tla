------------------------------ MODULE MakerSim ------------------------------
(***************************************************************************)
(* The replay engine of sim/engine.py over the event sources of            *)
(* sim/events.py: one pass per queue bound, each with its own simulator,   *)
(* actions in flight and ledger, driven by the same tape.                  *)
(*                                                                         *)
(* The tape is what an exchange does: a market of unit orders moves by     *)
(* trades, which take the front of the best level, and by orders that join *)
(* or leave.  A source publishes its book now and then: "capture" as       *)
(* snapshots of the levels, "l4" as a diff per block, some of which are    *)
(* lost.  Sources update the one book they share with the simulators       *)
(* before they hand over the event.  Funding is off, as in the sweep.      *)
(***************************************************************************)
EXTENDS MakerPolicy, MakerReport

CONSTANTS Opening,   \* the market's orders at the start
          Joins,     \* <<side, px>> where orders may join
          Sources,   \* of "capture", "l4"
          Policies,  \* of "script", "reference", "width"
          Scripts,   \* what a scripted policy submits: sequences of an action per block
          Movable,   \* the orders that may leave other than by a trade
          Strengths, \* strengths of a signal
          Delay,     \* submit_delay_ms; a block takes 2 ms here
          MaxBlocks, \* policy -> bound
          MaxTrade, MaxQuiet, MaxOrders

ASSUME MakerConstants ==
    /\ Sources \subseteq {"capture", "l4"} /\ Policies \subseteq {"script", "reference", "width"}
    /\ \A n \in {Delay, MaxTrade, MaxQuiet, MaxOrders} : n \in Nat

VARIABLES source, policy, script,
          market, \* the exchange's book: an L4Book that saw every block
          view,   \* the book of the event source, shared with the simulators
          buffer, \* trades_buf
          ofi,    \* the policy's rolling imbalance
          mids,   \* mid_series
          passes, \* bound -> [sim, pending, inventory, cash, fills]
          quiet   \* bound: blocks without a book event

vars == <<source, policy, script, market, view, buffer, ofi, mids, passes, quiet>>

Bounds == IF source = "l4" THEN {"pessimistic", "optimistic", "exact"} ELSE {"pessimistic", "optimistic"}

\* Blocks are 2 ms apart and their trades in between.
Now == 2 * market.height

-----------------------------------------------------------------------------
(* The exchange *)

\* A trade takes up to n orders from the front of the best level of a side.
Taken(side, n) ==
    LET queue == LevelOrders(market, side, IF side = "B" THEN BestBid(market) ELSE BestAsk(market))
    IN  SubSeq(queue, 1, Least(n, Len(queue)))

Diff(kind, o) ==
    [coin |-> market.coin, kind |-> kind, oid |-> o.oid, side |-> o.side, px |-> o.px,
     sz |-> 1, orig_sz |-> None, new_sz |-> None]

\* One order a block may join, with an id of its own, until there are MaxOrders.
NewOid == 10 + market.height

JoinsNow == IF Len(market.orders) < MaxOrders THEN Joins ELSE {}

\* What one block of the exchange holds: [trades, diffs].
Tape ==
    LET hits   == {<<>>} \cup {Taken(s, n) : s \in {"B", "A"}, n \in 1..MaxTrade}
        Free(hit)  == {i \in DOMAIN market.orders : /\ market.orders[i].oid \in Movable
                                                    /\ market.orders[i] \notin ToSet(hit)}
        Moves(hit) == {<<>>}
            \cup {<<Diff("remove", market.orders[i])>> : i \in Free(hit)}
            \cup {<<Diff("new", [oid |-> NewOid, side |-> j[1], px |-> j[2]])>> : j \in JoinsNow}
    IN  UNION {{[hit |-> hit, diffs |-> [i \in DOMAIN hit |-> Diff("remove", hit[i])] \o move]
                  : move \in Moves(hit)} : hit \in hits}

\* The print of a trade: the aggressor is on the other side.
Prints(hit) ==
    IF hit = <<>> THEN <<>>
    ELSE <<[side |-> RestingSideHit(hit[1].side), px |-> hit[1].px, sz |-> Len(hit), t_ms |-> Now + 1]>>

Batch(block) == [height |-> market.height + 1, diffs |-> block.diffs]

-----------------------------------------------------------------------------
(* The engine *)

ApplyAction(sim, action, book) ==
    CASE action.kind = "place"  -> Place(sim, book, action.side, action.px, action.sz)
      [] action.kind = "cancel" -> Cancel(sim, action.order_id)

EvictAll(sim) == Fold(LAMBDA s, order : Cancel(s, order.order_id), sim, OpenOrders(sim))

\* The loop's body up to the policy: actions that are due rest, the block's trades
\* print, its book follows, a stale book evicts every order, and the ledger is kept.
Drive(pass, book, trades, diffs, t) ==
    LET due     == SelectSeq(pass.pending, LAMBDA p : p.effective <= t)
        rested  == Fold(LAMBDA s, p : ApplyAction(s, p.action, book), pass.sim, due)
        Match(acc, trade) ==
            LET hit == OnTrade(acc.sim, book, trade)
            IN  [sim |-> hit.sim, fills |-> acc.fills \o hit.fills]
        printed == Fold(Match, [sim |-> rested, fills |-> <<>>], trades)
        booked  == OnBook(printed.sim, book, diffs)
    IN  [sim       |-> IF book.stale THEN EvictAll(booked) ELSE booked,
         pending   |-> SelectSeq(pass.pending, LAMBDA p : p.effective > t),
         inventory |-> pass.inventory + Sum(InventoryOf, printed.fills),
         cash      |-> pass.cash + Sum(CashOf, printed.fills),
         fills     |-> pass.fills \o printed.fills]

\* The policy's actions take effect after the latency.
Submit(pass, actions, t) ==
    [pass EXCEPT !.pending = @ \o [i \in DOMAIN actions |-> [effective |-> t + Delay, action |-> actions[i]]]]

\* A scripted policy stands for any that does not look at its own fills.
Scripted(block) == IF block \in DOMAIN script THEN <<script[block]>> ELSE <<>>

Decision(pass, book, signal, block) ==
    LET orders == OpenOrders(pass.sim)
    IN  CASE policy = "script"    -> Scripted(block)
          [] policy = "reference" -> Actions(ReferenceDesired(book, signal, pass.inventory), orders)
          [] policy = "width"     -> Actions(WidthDesired(book, signal, pass.inventory), orders)

\* mid = view.mid() or mid
MidsAfter(book, t) ==
    LET mid == IF TwiceMid(book) # None THEN TwiceMid(book)
               ELSE IF mids = <<>> THEN None ELSE Last(mids).mid
    IN  IF mid = None THEN mids ELSE Append(mids, [t |-> t, mid |-> mid])

-----------------------------------------------------------------------------
Init ==
    /\ source \in Sources /\ policy \in Policies
    /\ script \in (IF policy = "script" THEN Scripts ELSE {<<>>})
    /\ market = [EmptyBook("BTC") EXCEPT !.height = 0, !.orders = Opening]
    /\ view = IF source = "l4" THEN market ELSE EmptyBook("BTC")
    /\ buffer = <<>> /\ ofi = NewOfi /\ mids = <<>> /\ quiet = 0
    /\ passes = [b \in Bounds |-> [sim |-> NewSim(b), pending |-> <<>>, inventory |-> 0,
                                   cash |-> 0, fills |-> <<>>]]

\* A block between two snapshots of a capture, or one whose diffs were lost.
QuietBlock ==
    /\ market.height < MaxBlocks[policy] /\ quiet < MaxQuiet
    /\ \E block \in Tape :
          /\ market' = ApplyBlock(market, Batch(block))
          /\ buffer' = buffer \o Prints(block.hit)
    /\ quiet' = quiet + 1
    /\ UNCHANGED <<source, policy, script, view, ofi, mids, passes>>

Rows(book, side) ==
    LET prices == SetToSeq(Side(book, side))
    IN  [i \in DOMAIN prices |-> [px |-> prices[i], sz |-> LevelSize(book, side, prices[i])]]

\* iter_capture_events() and iter_l4_events(): the shared book is updated, then the
\* event is handed over, after the trades up to its time.
Published(block) ==
    IF source = "l4" THEN ApplyBlock(view, Batch(block))
    ELSE LET moved == ApplyBlock(market, Batch(block))
         IN  UpdateFromSnapshot(view, Rows(moved, "B"), Rows(moved, "A"))

BookEvent ==
    /\ market.height < MaxBlocks[policy]
    /\ \E block \in Tape, strength \in Strengths :
       \E book \in {Published(block)}, t \in {Now + 2} :
          /\ market' = ApplyBlock(market, Batch(block))
          /\ view' = book
          /\ ofi' = IF policy = "script" THEN ofi ELSE UpdateOfi(ofi, book, t)
          /\ mids' = MidsAfter(book, t)
          /\ passes' = [b \in Bounds |->
                LET pass == Drive(passes[b], book, buffer \o Prints(block.hit), block.diffs, t)
                IN  Submit(pass, Decision(pass, book, Signal(ofi', book, strength), t \div 2), t)]
    /\ buffer' = <<>>
    /\ UNCHANGED <<source, policy, script, quiet>>

Next == QuietBlock \/ BookEvent

Spec == Init /\ [][Next]_vars
-----------------------------------------------------------------------------
(* Properties *)

Filled(pass, id) ==
    Sum(LAMBDA f : f.sz, SelectSeq(pass.fills, LAMBDA f : f.order_id = id))

\* However trades, books, late cancels and evictions follow each other, the registry and the
\* queues of a simulator hold the same orders, levels without an order are forgotten, and no
\* order is filled for more than its size, nor while some of it still rests.
OrdersConserved ==
    \A b \in Bounds :
        LET pass == passes[b]
            sim  == pass.sim
        IN  /\ \A key \in DOMAIN sim.levels :
                  LET own == OwnIds(sim.levels[key].segments)
                  IN  own # {} /\ own = {id \in DOMAIN sim.registry : sim.registry[id] = key}
            /\ \A id \in DOMAIN sim.registry : /\ sim.registry[id] \in DOMAIN sim.levels
                                               /\ Remaining(sim, id) > 0
                                               /\ Filled(pass, id) + Remaining(sim, id) = QuoteSize
            /\ \A id \in 1..(sim.next_id - 1) : Filled(pass, id) <= QuoteSize

\* The bounds bracket: given the same tape and the same actions, the pessimistic pass never
\* fills more than the optimistic one, and until the first fill none of its orders is nearer
\* the front.  (Afterwards one can be: what fills an own order leaves real volume in place.)
BoundsOrdered ==
    policy = "script" =>
        LET low  == passes["pessimistic"]
            high == passes["optimistic"]
        IN  /\ Sum(LAMBDA f : f.sz, low.fills) <= Sum(LAMBDA f : f.sz, high.fills)
            /\ high.fills = <<>> =>
                  \A id \in DOMAIN low.sim.registry : QueueAhead(low.sim, id) >= QueueAhead(high.sim, id)

\* Actions in flight carry the inventory past its band, but only by the orders that can have
\* been sent while the first of them was on its way and while its replacement was.
BlocksInFlight == (Delay + 1) \div 2

OvershootBounded ==
    policy # "script" =>
        \A b \in Bounds :
            LET limit == InventoryLimit + (2 * BlocksInFlight - 1) * QuoteSize
            IN  passes[b].inventory \in (1 - limit)..(limit - 1)

ResultOf(b) == [cash |-> passes[b].cash, inventory |-> passes[b].inventory,
                fills |-> passes[b].fills, mids |-> mids]

\* What the mid has done beyond the horizon of the drift.
LateMove(result, fill) ==
    LET from == IF DriftSkipped(result, fill) THEN fill.twice_mid
                ELSE Last(MidsUpTo(result.mids, fill.t_ms + AdverseDt)).mid
    IN  Signed(fill, Last(result.mids).mid - from) * fill.sz

\* Wherever a pass ends, its reports add up: the residual of the decomposition is the move of
\* the mid after the horizon of each fill, and the PnL of the buckets of all regimes is the
\* PnL the gate adds up, as soon as there are two mids to make a bucket of.
ReportsAddUp ==
    /\ \A b \in Bounds :
          LET fills == passes[b].fills
          IN  (mids # <<>> /\ \A i \in DOMAIN fills : fills[i].twice_mid # None) =>
                 Decompose(ResultOf(b)).mark_residual = Sum(LAMBDA f : LateMove(ResultOf(b), f), fills)
    /\ LET verdict == Verdict({[day |-> 1, bound |-> b, result |-> ResultOf(b)] : b \in Bounds})
       IN  Len(mids) > 1 => verdict.bound_total = verdict.regime_pnls["calm"] + verdict.regime_pnls["mid"]
                                                   + verdict.regime_pnls["volatile"]

\* The exact bound knows the queue: after each block that follows the last, the real orders of
\* a level it quotes at are those of the book, in their order and with their sizes.
ExactIsGroundTruth ==
    (source = "l4" /\ ~view.stale) =>
        \A key \in DOMAIN passes["exact"].sim.levels :
            LET real == RealOf(passes["exact"].sim.levels[key].segments)
            IN  [i \in DOMAIN real |-> real[i].oid]
                   = LET queue == LevelOrders(view, key[1], key[2]) IN [i \in DOMAIN queue |-> queue[i].oid]
=============================================================================
