------------------------------- MODULE Lists -------------------------------
(***************************************************************************)
(* Loops over sequences: what a loop has made of one when it ends, and     *)
(* what a filter leaves of one.                                            *)
(***************************************************************************)
EXTENDS Integers, Sequences, Functions

\* A sequence, of whatever its elements are.
IsList(s) == s \in Seq(Range(s))

\* FoldLeft of SequencesExt as a recursive function.  The one-element set makes
\* TLC evaluate what has been folded so far once, however often op uses it.
Fold(op(_, _), base, s) ==
    LET upTo[i \in 0..Len(s)] ==
            IF i = 0 THEN base ELSE CHOOSE r \in {op(a, s[i]) : a \in {upTo[i - 1]}} : TRUE
    IN  upTo[Len(s)]

\* The elements of s that are in S, in their order.
Among(s, S) == Fold(LAMBDA kept, x : IF x \in S THEN Append(kept, x) ELSE kept, <<>>, s)

\* SelectSeq.
Only(s, Test(_)) == Among(s, {x \in Range(s) : Test(x)})

\* A map with the value of one key set.
With(map, key, value) ==
    [k \in DOMAIN map \cup {key} |-> IF k = key THEN value ELSE map[k]]
=============================================================================
