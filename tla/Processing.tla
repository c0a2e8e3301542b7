----------------------------- MODULE Processing -----------------------------
(***************************************************************************)
(* processors/data_processor.py: trades are kept for an hour and folded    *)
(* into candles, snapshots replace a book per symbol, the closes of the    *)
(* candles feed the indicators.                                            *)
(*                                                                         *)
(* A time stamp has a zone or none: pandas gives the archive's rows none,  *)
(* and Python raises where the two are ordered against each other.         *)
(***************************************************************************)
EXTENDS Validation, L2Book

CONSTANTS
    MaxTrades,    \* cap of the buffer of a symbol
    Retention,    \* how long the buffer keeps a trade
    Interval,     \* length of the candle of the live path
    MaxHistory,   \* closes and volumes kept per symbol
    MinHistory    \* indicators need so many

NewProcessor ==
    [trades |-> [s \in Symbols |-> <<>>], books |-> [s \in Symbols |-> <<>>],
     ctx |-> [s \in Symbols |-> <<>>],
     closes |-> [s \in Symbols |-> <<>>], volumes |-> [s \in Symbols |-> <<>>]]

-----------------------------------------------------------------------------
(* OHLCVProcessor *)

\* The buffer with the trade, old ones evicted from the front only: up to the
\* first that is young, or has no zone and ends the call with an exception.
Buffered(trades, p, now) ==
    LET all  == LastN(Append(trades, p), MaxTrades)
        stop == SelectInSeq(all, LAMBDA t : ~t.zoned \/ t.ts > now - Retention)
    IN  IF stop = 0 THEN <<>> ELSE SubSeq(all, stop, Len(all))

AddTradeRaises(trades) == trades # <<>> /\ ~trades[1].zoned

\* The scan of the whole buffer compares every stamp with the window's.
CandleRaises(trades, zoned) == \E i \in DOMAIN trades : trades[i].zoned # zoned

\* Mutant: the scan ends at the first trade beyond the window.
WindowBroken(trades, end, interval) ==
    LET stop == SelectInSeq(trades, LAMBDA t : t.ts >= end)
    IN  SelectSeq(IF stop = 0 THEN trades ELSE SubSeq(trades, 1, stop - 1),
                  LAMBDA t : end - interval <= t.ts /\ t.ts < end)

Window(trades, end, interval) ==
    SelectSeq(trades, LAMBDA t : end - interval <= t.ts /\ t.ts < end)

\* Open and close are those of the order of arrival.  No candle, no element.
Candle(trades, end, interval) ==
    LET inside == Window(trades, end, interval)
        prices == {inside[i].data.px : i \in DOMAIN inside}
        sizes  == [i \in DOMAIN inside |-> inside[i].data.sz]
        values == [i \in DOMAIN inside |-> inside[i].data.px * inside[i].data.sz]
    IN  IF inside = <<>> THEN <<>>
        ELSE <<[open |-> inside[1].data.px, close |-> inside[Len(inside)].data.px,
                high |-> Max(prices), low |-> Min(prices), count |-> Len(inside),
                volume |-> Total(sizes), value |-> Total(values)]>>

-----------------------------------------------------------------------------
(* OrderBookProcessor *)

UpdateOrderbook(books, p) ==
    [books EXCEPT ![p.symbol] =
        LET book == IF @ = <<>> THEN EmptyBook(p.symbol) ELSE @[1]
        IN  <<UpdateFromSnapshot(book, p.data.bids, p.data.asks)>>]

\* The sizes of the best n levels of a side.
DepthSizes(book, side, n) ==
    LET rows == SelectSeq(book.orders, LAMBDA o : o.side = side)
    IN  [i \in 1..Min({n, Len(rows)}) |-> rows[i].sz]

BookMetrics(books, symbol) ==
    LET book     == books[symbol][1]
        sum(side, n) == Total(DepthSizes(book, side, n))
        deep     == Len(book.orders)
    IN  IF books[symbol] = <<>> THEN <<>>
        ELSE IF None \in {BestBid(book), BestAsk(book)} THEN <<>>
        ELSE <<[bid |-> BestBid(book), ask |-> BestAsk(book), mid2 |-> TwiceMid(book),
                spread |-> BestAsk(book) - BestBid(book), crossed |-> IsCrossed(book),
                bids |-> sum("B", deep), asks |-> sum("A", deep),
                bids5 |-> sum("B", 5), asks5 |-> sum("A", 5)]>>

-----------------------------------------------------------------------------
(* TechnicalIndicatorProcessor *)

UpdatePrices(proc, symbol, candle) ==
    [proc EXCEPT !.closes[symbol] = LastN(Append(@, candle.close), MaxHistory),
                 !.volumes[symbol] = LastN(Append(@, candle.volume), MaxHistory)]

\* The sums the indicators are quotients of; the exponential average is left out.
Indicators(proc, symbol) ==
    LET prices == proc.closes[symbol]
        moves  == [i \in 1..Len(prices) - 1 |-> prices[i + 1] - prices[i]]
        recent == LastN(moves, 14)
        band   == LastN(prices, 20)
    IN  IF Len(prices) < MinHistory THEN <<>>
        ELSE <<[sma |-> [n \in {k \in {10, 20, 50} : k <= Len(prices)} |-> Total(LastN(prices, n))],
                gains |-> Total(SelectSeq(recent, LAMBDA d : d > 0)),
                losses |-> -Total(SelectSeq(recent, LAMBDA d : d < 0)),
                spread2 |-> Len(band) * Total([i \in DOMAIN band |-> band[i] * band[i]])
                            - Total(band) * Total(band),
                change |-> IF moves = <<>> THEN 0 ELSE moves[Len(moves)],
                volume |-> Total(LastN(proc.volumes[symbol], 10))]>>

-----------------------------------------------------------------------------
(* DataProcessor *)

\* What process_market_data() keeps of a point before anything is computed.
Ingested(proc, p, now) ==
    CASE p.type = "trade"     -> [proc EXCEPT !.trades[p.symbol] = Buffered(@, p, now)]
      [] p.type = "orderbook" -> [proc EXCEPT !.books = UpdateOrderbook(@, p)]
      [] p.type = "asset_ctx" -> [proc EXCEPT !.ctx[p.symbol] = <<p.data>>]
      [] OTHER                -> proc

\* A trade is followed by a processed point unless its buffer holds a stamp of the other kind.
Processable(proc, p) ==
    /\ p.type = "trade"
    /\ ~AddTradeRaises(proc.trades[p.symbol])
    /\ ~CandleRaises(proc.trades[p.symbol], p.zoned)

CandleOf(proc, p) == Candle(proc.trades[p.symbol], p.ts, Interval)

WithIndicators(proc, p) ==
    IF CandleOf(proc, p) = <<>> THEN proc ELSE UpdatePrices(proc, p.symbol, CandleOf(proc, p)[1])

\* proc is the processor after the trade, updated is WithIndicators of it.
ProcessedPoint(proc, updated, p) ==
    LET candle == CandleOf(proc, p)
    IN  Point(p.symbol, "processed", p.ts,
              [ohlcv |-> candle, metrics |-> BookMetrics(proc.books, p.symbol),
               indicators |-> IF candle = <<>> THEN <<>> ELSE Indicators(updated, p.symbol),
               ctx |-> proc.ctx[p.symbol]])

\* bulk_process_historical_data() for one symbol.  The rows have no zone: one at
\* the front of the buffer raises, and is the last to be buffered; else the
\* scan for the first candle raises on a trade of the live path.
BulkBuffered(trades, symbol, rows, now) ==
    LET row(r) == [Point(symbol, "trade", now - r.age, r.data) EXCEPT !.zoned = FALSE]
    IN  Fold(LAMBDA s, r : IF AddTradeRaises(s) THEN s ELSE Buffered(s, row(r), now), trades, rows)

\* The candles of the shortest timeframe, of a buffer that raises nowhere.
BulkCandles(trades, symbol, rows, now) ==
    LET stamps == {now - rows[i].age : i \in DOMAIN rows}
        ends   == {e \in Min(stamps) + 1..Max(stamps) + Interval :
                       /\ (e - Min(stamps)) % Interval = 0
                       /\ e - Interval < Max(stamps)
                       /\ Window(trades, e, Interval) # <<>>}
    IN  IF rows = <<>> \/ AddTradeRaises(trades) \/ CandleRaises(trades, FALSE) THEN {}
        ELSE {Point(symbol, "ohlcv", e, [ohlcv |-> Candle(trades, e, Interval)]) : e \in ends}
=============================================================================
