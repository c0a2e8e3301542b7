------------------------------- MODULE Intake -------------------------------
(***************************************************************************)
(* What the websocket collector does with one message: it is parsed into   *)
(* points, which go to a ring buffer per coin and type, to the histogram   *)
(* of their channel and to the bounded queue of the consumer.              *)
(*                                                                         *)
(* A message carries the age of its exchange stamp when it is read; the    *)
(* channels without a stamp take the local clock.  BadDecimal is a string  *)
(* float() refuses, None an absent value.                                  *)
(***************************************************************************)
EXTENDS LatencyHistogram, TLC

CONSTANTS Symbols, RingSize, QueueSize

Types == {"orderbook", "trade", "ticker", "asset_ctx", "bbo"}

\* The channels whose points carry an exchange stamp, and so have a histogram.
Timed == {"l2Book", "trades", "bbo"}

NewFeed ==
    [rings |-> [key \in Symbols \X Types |-> <<>>], primed |-> {}, queue |-> <<>>,
     dropped |-> 0, latency |-> [c \in Timed |-> NewHistogram], last_message |-> None]

Point(symbol, type, ts, data) ==
    [symbol |-> symbol, type |-> type, ts |-> ts, zoned |-> TRUE, data |-> data]

IfTracked(coin, point) == IF coin \in Symbols THEN <<point>> ELSE <<>>

L2BookPoints(m, now) ==
    IfTracked(m.coin, Point(m.coin, "orderbook", now - m.age, [bids |-> m.bids, asks |-> m.asks]))

BboPoints(m, now) ==
    IfTracked(m.coin, Point(m.coin, "bbo", now - m.age, [bid |-> m.bid, ask |-> m.ask]))

\* The rows of tracked coins before the first whose numbers do not parse.
Tracked(rows) == Only(rows, LAMBDA r : r.coin \in Symbols)

Good(rows) ==
    LET bad == SelectInSeq(Tracked(rows), LAMBDA r : BadDecimal \in {r.px, r.sz})
    IN  IF bad = 0 THEN Tracked(rows) ELSE SubSeq(Tracked(rows), 1, bad - 1)

TradesPoints(m, now) ==
    LET rows == Good(m.rows)
    IN  [i \in DOMAIN rows |-> Point(rows[i].coin, "trade", now - rows[i].age,
                                     [px |-> rows[i].px, sz |-> rows[i].sz, side |-> rows[i].side])]

TickerPoints(m, now) ==
    LET rows == Good(m.rows)
    IN  [i \in DOMAIN rows |-> Point(rows[i].coin, "ticker", now, [mid |-> rows[i].px])]

\* A number that is absent or does not parse is None; a context without any is skipped.
AssetCtxPoints(m, now) ==
    LET num(v) == IF v = BadDecimal THEN None ELSE v
        ctx    == [mark |-> num(m.mark), oracle |-> num(m.oracle), funding |-> num(m.funding)]
        basis  == IF None \in {ctx.mark, ctx.oracle} THEN None ELSE ctx.mark - ctx.oracle
    IN  IF \A k \in DOMAIN ctx : ctx[k] = None THEN <<>>
        ELSE IfTracked(m.coin, Point(m.coin, "asset_ctx", now, ctx @@ [basis |-> basis]))

UserPoints(m, now) == <<Point("USER_EVENT", "user_event", now, m.data)>>

Parsed(m, now) ==
    CASE m.channel = "bbo"            -> BboPoints(m, now)
      [] m.channel = "l2Book"         -> L2BookPoints(m, now)
      [] m.channel = "trades"         -> TradesPoints(m, now)
      [] m.channel = "allMids"        -> TickerPoints(m, now)
      [] m.channel = "activeAssetCtx" -> AssetCtxPoints(m, now)
      [] m.channel = "user"           -> UserPoints(m, now)
      [] OTHER                        -> <<>>

\* One row that does not parse loses the whole message to the queue, though
\* the rows before it are in the rings by then.
Delivered(m, now) ==
    IF m.channel \in {"trades", "allMids"} /\ Good(m.rows) # Tracked(m.rows) THEN <<>>
    ELSE Parsed(m, now)

Ring(rings, p) ==
    IF <<p.symbol, p.type>> \notin DOMAIN rings THEN rings
    ELSE [rings EXCEPT ![<<p.symbol, p.type>>] =
              IF Len(@) < RingSize THEN Append(@, p) ELSE Append(Tail(@), p)]

\* _enqueue(): a full queue drops its oldest point.
Push(feed, p) ==
    IF Len(feed.queue) < QueueSize THEN [feed EXCEPT !.queue = Append(@, p)]
    ELSE [feed EXCEPT !.queue = Append(Tail(@), p), !.dropped = @ + 1]

\* The points whose latency counts: the first trades of a coin on a connection
\* are a snapshot of old ones.  A stamp of zero counts as absent.
Measured(feed, m, now) ==
    Only(Delivered(m, now),
         LAMBDA p : p.ts # 0 /\ (m.channel = "trades" => p.symbol \in feed.primed))

ProcessMessage(feed, m, now) ==
    LET points   == Delivered(m, now)
        timed(h) == Fold(LAMBDA a, p : Record(a, now - p.ts), h, Measured(feed, m, now))
        read     == [feed EXCEPT !.rings = Fold(Ring, @, Parsed(m, now)),
                                 !.latency = [c \in Timed |-> IF c = m.channel THEN timed(@[c]) ELSE @[c]],
                                 !.primed = IF m.channel = "trades"
                                            THEN @ \cup {points[i].symbol : i \in DOMAIN points} ELSE @,
                                 !.last_message = now]
    IN  IF m.channel = "not JSON" THEN feed ELSE Fold(Push, read, points)

\* Mutant: the coins stay primed over a reconnect.
ConnectedPrimed(feed) == feed

\* A new connection: the snapshots of recent trades will be sent again.
Connected(feed) == [feed EXCEPT !.primed = {}]
=============================================================================
