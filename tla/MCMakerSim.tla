----------------------------- MODULE MCMakerSim -----------------------------
(* One order at the best bid, one behind it, one at the best ask. *)
EXTENDS MakerSim

MCOpening == << [oid |-> 1, side |-> "B", px |-> 2, sz |-> 1],
                [oid |-> 3, side |-> "B", px |-> 1, sz |-> 1], [oid |-> 4, side |-> "A", px |-> 4, sz |-> 1] >>

MCJoins == {<<"B", 2>>}

Bid(px) == [kind |-> "place", side |-> "B", px |-> px, sz |-> QuoteSize]

Ask(px) == [kind |-> "place", side |-> "A", px |-> px, sz |-> QuoteSize]

Pull(order_id) == [kind |-> "cancel", order_id |-> order_id]

MCScripts == {<<Bid(2), Bid(2)>>, <<Bid(2), Ask(4), Pull(1)>>}

MCMaxBlocks == [script |-> 5, reference |-> 6, width |-> 5]
=============================================================================
