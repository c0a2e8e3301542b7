--------------------------- MODULE MCLivePipeline ---------------------------
(* One tracked coin, days of three units, candles of two. *)
EXTENDS LivePipeline

Trade(px, age) == [coin |-> "BTC", px |-> px, sz |-> 1, side |-> "B", age |-> age]

Trades(snapshot, rows) == [channel |-> "trades", snapshot |-> snapshot, rows |-> rows]

Level(px, sz) == [px |-> px, sz |-> sz]

L2(bids, asks) == [channel |-> "l2Book", coin |-> "BTC", age |-> 0, bids |-> bids, asks |-> asks]

\* Trades on time, late, ahead of the clock, not sound, of an unknown coin and
\* with a number that does not parse; books that are sound, crossed, unsorted;
\* the other channels.
MCFrames ==
    {Trades(TRUE, <<Trade(9, 3)>>),
     Trades(FALSE, <<Trade(10, 0), Trade(11, 1)>>),
     Trades(FALSE, <<Trade(12, 2)>>),
     Trades(FALSE, <<[Trade(13, -1) EXCEPT !.sz = 20]>>),
     Trades(FALSE, <<Trade(0, 0), [Trade(10, 0) EXCEPT !.coin = "DOGE"], Trade(BadDecimal, 0)>>),
     L2(<<Level(8, 1), Level(9, 0), Level(9, 2)>>, <<Level(10, 1)>>),
     L2(<<Level(10, 1)>>, <<Level(10, 1)>>),
     [channel |-> "allMids", rows |-> <<[coin |-> "BTC", px |-> 10, sz |-> None],
                                        [coin |-> "BTC", px |-> BadDecimal, sz |-> None]>>],
     [channel |-> "bbo", coin |-> "BTC", age |-> 1, bid |-> Level(9, 1), ask |-> None],
     [channel |-> "activeAssetCtx", coin |-> "BTC", mark |-> 11, oracle |-> 10, funding |-> BadDecimal],
     [channel |-> "user", data |-> <<>>],
     [channel |-> "not JSON"]}

MCBoundaries == <<1, 2>>

MCRecovered == {[coin |-> "BTC", age |-> 3, data |-> [px |-> 10, sz |-> 1, side |-> "B"]]}

Sold(px, age) == [age |-> age, px |-> px, sz |-> 1, side |-> "B"]

Line(trades) == [json |-> TRUE, trades |-> trades]

\* Three hours: one out of order, one spoiled by a number, one of a single trade.
MCHistories == {<< <<Line(<<Sold(10, 3), Sold(9, 4)>>), Line(<<>>)>>,
                   <<Line(<<Sold(9, 3)>>), Line(<<Sold(BadDecimal, 2)>>)>>,
                   <<Line(<<Sold(11, 1)>>)>> >>}
=============================================================================
