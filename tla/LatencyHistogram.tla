-------------------------- MODULE LatencyHistogram --------------------------
(* The fixed-bucket histogram of utils/latency.py, in whole time units. *)
EXTENDS L4Book

CONSTANT Boundaries \* upper ends of the buckets, ascending

ASSUME BoundariesAscend ==
    /\ Boundaries \in Seq(Nat)
    /\ \A i, j \in DOMAIN Boundaries : i < j => Boundaries[i] < Boundaries[j]

NewHistogram ==
    [counts |-> [i \in 1..Len(Boundaries) + 1 |-> 0], count |-> 0, total |-> 0,
     least |-> None, greatest |-> None, negative |-> 0]

\* bisect_left: the first bucket whose end is no smaller; one more takes the overflow.
Bucket(ms) ==
    LET i == SelectInSeq(Boundaries, LAMBDA b : b >= ms)
    IN  IF i = 0 THEN Len(Boundaries) + 1 ELSE i

\* A stamp ahead of the local clock counts apart, and as a latency of nought.
Record(h, delta) ==
    LET ms == IF delta < 0 THEN 0 ELSE delta
    IN  [h EXCEPT !.negative = IF delta < 0 THEN @ + 1 ELSE @,
                  !.counts[Bucket(ms)] = @ + 1, !.count = @ + 1, !.total = @ + ms,
                  !.least = IF @ = None THEN ms ELSE Min({@, ms}),
                  !.greatest = IF @ = None THEN ms ELSE Max({@, ms})]

\* The end of the bucket that holds the pct-th percentile, the greatest value in the overflow.
Percentile(h, pct) ==
    LET upTo(i) == Fold(LAMBDA a, b : a + b, 0, SubSeq(h.counts, 1, i))
        holding == {i \in DOMAIN h.counts : 100 * upTo(i) >= pct * h.count}
    IN  IF h.count = 0 THEN None
        ELSE IF Min(holding) <= Len(Boundaries) THEN Boundaries[Min(holding)] ELSE h.greatest

Summary(h) == [p50 |-> Percentile(h, 50), p95 |-> Percentile(h, 95), p99 |-> Percentile(h, 99)]
=============================================================================
