------------------------------ MODULE Archive ------------------------------
(***************************************************************************)
(* collectors/historical_collector.py on the trades of one symbol: the     *)
(* hourly files a collection asks for become one frame of rows.            *)
(*                                                                         *)
(* A file is a sequence of lines [json, trades]: a line in the wrapping of *)
(* a websocket frame holds any number of trades, a bare record is one, and *)
(* a line that is not JSON holds none.  A trade is [age, px, sz, side],    *)
(* None where a key is absent and BadDecimal where float() raises.         *)
(***************************************************************************)
EXTENDS L4Book

\* What get() puts in the place of a number that is absent.
OrZero(number) == IF number = None THEN 0 ELSE number

Row(trade) ==
    [age |-> trade.age,
     data |-> [px |-> OrZero(trade.px), sz |-> OrZero(trade.sz), side |-> trade.side]]

\* One line or number that does not parse, and nothing of the file is used.
Unreadable(file) ==
    \E i \in DOMAIN file :
        \/ ~file[i].json
        \/ \E j \in DOMAIN file[i].trades :
              BadDecimal \in {file[i].trades[j].px, file[i].trades[j].sz}

TradeRows(file) ==
    LET trades == Fold(LAMBDA s, line : s \o line.trades, <<>>, file)
    IN  IF Unreadable(file) THEN <<>> ELSE [i \in DOMAIN trades |-> Row(trades[i])]

\* download_historical_data(): a file that is not downloaded or does not
\* decompress is left out, and so is one without rows; what two or more give is
\* sorted by time, what one gives is taken as it is.
Downloaded(files, failed) ==
    LET asked  == [i \in DOMAIN files |-> IF i \in failed THEN <<>> ELSE TradeRows(files[i])]
        frames == SelectSeq(asked, LAMBDA rows : rows # <<>>)
        rows   == Fold(LAMBDA s, frame : s \o frame, <<>>, frames)
    IN  IF Len(frames) < 2 THEN rows ELSE SortSeq(rows, LAMBDA a, b : a.age > b.age)
=============================================================================
