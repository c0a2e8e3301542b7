----------------------------- MODULE Validation -----------------------------
(***************************************************************************)
(* utils/validation.py: a point is sanitized, then checked against what    *)
(* its symbol and type have shown so far; the findings pile up for the     *)
(* quality reports until a daily job clears the old ones.                  *)
(***************************************************************************)
EXTENDS Intake

CONSTANTS
    HistoryCap,  \* prices and sizes kept per symbol
    StampCap,    \* time stamps kept per symbol and type
    SpikeWindow, \* sizes a spike is measured against
    Fresh,       \* an older point is stale
    Ahead,       \* a point further in the future is wrong
    TooClose,    \* two stamps nearer than this are duplicates
    ReportSpan   \* a report covers so much time, and a clearing keeps it

NewChecks ==
    [prices |-> [s \in Symbols |-> <<>>], sizes |-> [s \in Symbols |-> <<>>],
     stamps |-> [key \in Symbols \X Types \cup {<<"USER_EVENT", "user_event">>} |-> <<>>],
     results |-> <<>>]

LastN(s, n) == IF Len(s) <= n THEN s ELSE SubSeq(s, Len(s) - n + 1, Len(s))

Total(s) == Fold(LAMBDA a, b : a + b, 0, s)

-----------------------------------------------------------------------------
(* DataSanitizer: a sequence of the one point, empty where it cannot be used *)

\* The exchange's sides B and A are not among the known ones.
SanitizedTrade(p) ==
    IF p.data.px <= 0 \/ p.data.sz <= 0 THEN <<>>
    ELSE <<[p EXCEPT !.data.side = IF @ \in {"buy", "sell", "bid", "ask"} THEN @ ELSE "unknown"]>>

Usable(rows) == SelectSeq(rows, LAMBDA r : r.px > 0 /\ r.sz > 0)

SanitizedOrderbook(p) ==
    LET bids == SortSeq(Usable(p.data.bids), LAMBDA x, y : x.px > y.px)
        asks == SortSeq(Usable(p.data.asks), LAMBDA x, y : x.px < y.px)
    IN  IF <<>> \in {bids, asks} THEN <<>>
        ELSE IF bids[1].px >= asks[1].px THEN <<>>
        ELSE <<[p EXCEPT !.data = [bids |-> bids, asks |-> asks]]>>

Sanitized(p) ==
    CASE p.type = "trade"     -> SanitizedTrade(p)
      [] p.type = "orderbook" -> SanitizedOrderbook(p)
      [] OTHER                -> <<p>>

-----------------------------------------------------------------------------
(* DataValidator *)

Finding(p, level, kind) == [level |-> level, kind |-> kind, symbol |-> p.symbol, ts |-> p.ts]

When(condition, finding) == IF condition THEN <<finding>> ELSE <<>>

MissingFindings(p) == When(DOMAIN p.data = {}, Finding(p, "error", "missing"))

\* The change against the last price seen, whatever the time of either trade.
TradeFindings(checks, p) ==
    LET seen == checks.prices[p.symbol]
        last == IF seen = <<>> THEN p.data.px ELSE seen[Len(seen)]
        move == IF p.data.px > last THEN p.data.px - last ELSE last - p.data.px
    IN  When(p.data.px <= 0, Finding(p, "error", "value"))
        \o When(p.data.sz <= 0, Finding(p, "error", "value"))
        \o When(last > 0 /\ 10 * move > last, Finding(p, "warning", "outlier"))

Descending(rows) == \A i, j \in DOMAIN rows : i < j => rows[i].px >= rows[j].px

BookFindings(p) ==
    LET bids == p.data.bids
        asks == p.data.asks
        both == <<>> \notin {bids, asks}
    IN  When(bids = <<>>, Finding(p, "error", "value"))
        \o When(asks = <<>>, Finding(p, "error", "value"))
        \o When(~Descending(bids), Finding(p, "error", "order"))
        \o When(~Descending(Reverse(asks)), Finding(p, "error", "order"))
        \o When(both /\ bids[1].px >= asks[1].px, Finding(p, "critical", "crossed"))
        \o When(both /\ 20 * (asks[1].px - bids[1].px) > bids[1].px, Finding(p, "warning", "spread"))

SizeFindings(checks, p) ==
    LET recent == LastN(checks.sizes[p.symbol], SpikeWindow)
    IN  When(recent # <<>> /\ p.data.sz * Len(recent) > 10 * Total(recent),
             Finding(p, "warning", "outlier"))

\* Duplicates are looked for among the points of the same symbol and type.
TimeFindings(checks, p, now) ==
    LET near(t) == p.ts - t < TooClose /\ t - p.ts < TooClose
        stamps  == checks.stamps[<<p.symbol, p.type>>]
    IN  When(p.ts > now + Ahead, Finding(p, "error", "future"))
        \o When(now - p.ts > Fresh, Finding(p, "warning", "stale"))
        \o When(\E i \in DOMAIN stamps : near(stamps[i]), Finding(p, "warning", "duplicate"))

FindingsOf(checks, p, now) ==
    MissingFindings(p)
    \o (CASE p.type = "trade"     -> TradeFindings(checks, p) \o SizeFindings(checks, p)
          [] p.type = "orderbook" -> BookFindings(p)
          [] OTHER                -> <<>>)
    \o TimeFindings(checks, p, now)

\* Every check also remembers the point it was given.
Checked(checks, p, now) ==
    LET keep(s, x) == LastN(Append(s, x), HistoryCap)
        base == [checks EXCEPT !.results = @ \o FindingsOf(checks, p, now),
                               !.stamps[<<p.symbol, p.type>>] = LastN(Append(@, p.ts), StampCap)]
    IN  IF p.type # "trade" THEN base
        ELSE [base EXCEPT !.prices[p.symbol] = keep(@, p.data.px), !.sizes[p.symbol] = keep(@, p.data.sz)]

\* ValidationCallback: the sanitized point unless a finding is critical, and
\* what the checks remember.
Validated(checks, p, now) ==
    LET clean    == Sanitized(p)
        found    == FindingsOf(checks, clean[1], now)
        critical == \E i \in DOMAIN found : found[i].level = "critical"
    IN  IF clean = <<>> THEN [checks |-> checks, point |-> <<>>]
        ELSE [checks |-> Checked(checks, clean[1], now), point |-> IF critical THEN <<>> ELSE clean]

-----------------------------------------------------------------------------
(* Quality reports *)

CountOf(results, level) == Len(SelectSeq(results, LAMBDA r : r.level = level))

\* Scores are numerators over twice the findings of the symbol: the ratio is
\* of findings, not of points, and is nought where nothing was found.
QualityMetrics(checks, symbol, now) ==
    LET found  == Only(checks.results, LAMBDA r : r.symbol = symbol /\ r.ts >= now - ReportSpan)
        stamps == UNION {Range(checks.stamps[key]) : key \in {k \in DOMAIN checks.stamps : k[1] = symbol}}
        of(kind) == Len(SelectSeq(found, LAMBDA r : r.kind = kind))
    IN  [total |-> Len(found), errors |-> CountOf(found, "error"),
         warnings |-> CountOf(found, "warning"),
         duplicates |-> of("duplicate"), outliers |-> of("outlier"),
         completeness |-> 2 * Len(found) - 2 * CountOf(found, "error"),
         accuracy |-> 2 * Len(found) - 2 * CountOf(found, "error") - CountOf(found, "warning"),
         freshness |-> IF stamps = {} THEN ReportSpan ELSE now - Max(stamps)]

QualityReport(checks, now) ==
    [symbols |-> [s \in Symbols |-> QualityMetrics(checks, s, now)],
     found |-> Len(checks.results),
     levels |-> [level \in {"warning", "error", "critical"} |-> CountOf(checks.results, level)]]

\* Mutant: the results of a symbol go with its first old one.
ClearOldResultsAll(checks, now) ==
    [checks EXCEPT !.results =
        IF \E i \in DOMAIN @ : @[i].ts < now - ReportSpan THEN <<>> ELSE @]

ClearOldResults(checks, now) ==
    [checks EXCEPT !.results = Only(@, LAMBDA r : r.ts >= now - ReportSpan)]
=============================================================================
