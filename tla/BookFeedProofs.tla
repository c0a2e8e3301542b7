--------------------------- MODULE BookFeedProofs ---------------------------
(***************************************************************************)
(* What the order-level feeds keep however the node's writes are cut and   *)
(* whatever is lost, sent twice, spoiled or restarted: every book is the   *)
(* one the chain says, and tailing is replaying.                           *)
(***************************************************************************)
EXTENDS BookFeed, SequenceTheorems, FiniteSetTheorems, TLAPS

-----------------------------------------------------------------------------
(* Sequences *)

LEMMA EmptyList == IsList(<<>>)
BY DEF IsList

LEMMA ListIn ==
  ASSUME NEW S, NEW s \in Seq(S)
  PROVE  IsList(s) /\ Range(s) \subseteq S
<1>1. s = [i \in 1 .. Len(s) |-> s[i]] /\ Len(s) \in Nat /\ DOMAIN s = 1 .. Len(s)
  OBVIOUS
<1>2. \A i \in 1 .. Len(s) : s[i] \in Range(s) /\ s[i] \in S
  BY <1>1 DEF Range
<1> QED BY <1>1, <1>2 DEF IsList, Range

LEMMA ListOf ==
  ASSUME NEW n \in Nat, NEW s, s = [i \in 1 .. n |-> s[i]]
  PROVE  IsList(s) /\ Len(s) = n /\ DOMAIN s = 1 .. n
<1>1. \A i \in 1 .. n : s[i] \in Range(s)
  BY DEF Range
<1>2. s \in Seq(Range(s))
  BY <1>1
<1>3. DOMAIN s = 1 .. n
  OBVIOUS
<1> HIDE DEF IsList
<1> QED BY <1>2, <1>3, LenProperties DEF IsList

LEMMA ListDomain ==
  ASSUME NEW s, IsList(s)
  PROVE  /\ Len(s) \in Nat /\ DOMAIN s = 1 .. Len(s) /\ s = [i \in 1 .. Len(s) |-> s[i]]
         /\ \A i \in DOMAIN s : s[i] \in Range(s)
         /\ \A x \in Range(s) : \E i \in DOMAIN s : s[i] = x
BY DEF IsList, Range

LEMMA AppendList ==
  ASSUME NEW s, IsList(s), NEW x
  PROVE  /\ IsList(Append(s, x)) /\ Range(Append(s, x)) = Range(s) \cup {x}
         /\ Len(Append(s, x)) = Len(s) + 1 /\ DOMAIN Append(s, x) = 1 .. Len(s) + 1
         /\ Append(s, x)[Len(s) + 1] = x
         /\ \A i \in 1 .. Len(s) : Append(s, x)[i] = s[i]
<1> DEFINE U == Range(s) \cup {x}
           t == Append(s, x)
           n == Len(s)
<1>1. s \in Seq(U) /\ x \in U /\ n \in Nat
  BY ListDomain DEF IsList
<1> HIDE DEF U
<1>2. /\ t \in Seq(U) /\ DOMAIN t = 1 .. n + 1 /\ Len(t) = n + 1 /\ t[n + 1] = x
      /\ \A i \in 1 .. n : t[i] = s[i]
  BY <1>1, AppendProperties
<1> HIDE DEF t
<1>3. IsList(t)
  BY <1>2, ListIn
<1>4. DOMAIN s = 1 .. n
  BY ListDomain
<1> HIDE DEF n
<1>5. Range(t) = U
  <2>1. ASSUME NEW y \in Range(t) PROVE y \in U
    BY <1>2, <1>3, <2>1, ListIn
  <2>2. ASSUME NEW y \in Range(s) PROVE y \in Range(t)
    <3>1. PICK i \in 1 .. n : s[i] = y
      BY <1>4 DEF Range
    <3>2. i \in DOMAIN t /\ t[i] = y
      BY <1>1, <1>2, <3>1
    <3> QED BY <3>2 DEF Range
  <2>3. x \in Range(t)
    <3>1. n + 1 \in DOMAIN t
      BY <1>1, <1>2
    <3> QED BY <1>2, <3>1 DEF Range
  <2> QED BY <2>1, <2>2, <2>3 DEF U
<1> QED BY <1>2, <1>3, <1>5 DEF t, U, n

LEMMA ConcatList ==
  ASSUME NEW s, IsList(s), NEW t, IsList(t)
  PROVE  /\ IsList(s \o t) /\ Range(s \o t) = Range(s) \cup Range(t)
         /\ Len(s \o t) = Len(s) + Len(t) /\ DOMAIN (s \o t) = 1 .. Len(s) + Len(t)
         /\ \A i \in 1 .. Len(s) : (s \o t)[i] = s[i]
         /\ \A i \in 1 .. Len(t) : (s \o t)[Len(s) + i] = t[i]
<1> DEFINE U == Range(s) \cup Range(t)
           u == s \o t
           m == Len(s)
           n == Len(t)
<1>1. s \in Seq(U) /\ t \in Seq(U) /\ m \in Nat /\ n \in Nat
  BY ListDomain DEF IsList
<1> HIDE DEF U
<1>2. /\ u \in Seq(U) /\ Len(u) = m + n /\ DOMAIN u = 1 .. m + n
      /\ \A i \in 1 .. m : u[i] = s[i]
      /\ \A i \in 1 .. n : u[m + i] = t[i]
  BY <1>1, ConcatProperties
<1> HIDE DEF u
<1>3. IsList(u)
  BY <1>2, ListIn
<1>4. DOMAIN s = 1 .. m /\ DOMAIN t = 1 .. n
  BY ListDomain
<1> HIDE DEF m, n
<1>5. Range(u) = U
  <2>1. ASSUME NEW y \in Range(u) PROVE y \in U
    BY <1>2, <1>3, <2>1, ListIn
  <2>2. ASSUME NEW y \in Range(s) PROVE y \in Range(u)
    <3>1. PICK i \in 1 .. m : s[i] = y
      BY <1>4 DEF Range
    <3>2. i \in DOMAIN u /\ u[i] = y
      BY <1>1, <1>2, <3>1
    <3> QED BY <3>2 DEF Range
  <2>3. ASSUME NEW y \in Range(t) PROVE y \in Range(u)
    <3>1. PICK i \in 1 .. n : t[i] = y
      BY <1>4 DEF Range
    <3>2. m + i \in DOMAIN u /\ u[m + i] = y
      BY <1>1, <1>2, <3>1
    <3> QED BY <3>2 DEF Range
  <2> QED BY <2>1, <2>2, <2>3 DEF U
<1> QED BY <1>2, <1>3, <1>5 DEF u, U, m, n

LEMMA ListEqual ==
  ASSUME NEW s, IsList(s), NEW t, IsList(t), Len(s) = Len(t),
         \A i \in 1 .. Len(s) : s[i] = t[i]
  PROVE  s = t
BY ListDomain

NoMatter(c, a) == TRUE

SiftOp(S, kept, x) == IF x \in S THEN Append(kept, x) ELSE kept
Filter == INSTANCE Folding WITH Op <- SiftOp, Good <- NoMatter

LEMMA AmongSifts ==
  /\ Filter!Sifts
  /\ \A s, S : Among(s, S) = Filter!Sift(S, s)
<1>1. Filter!Sifts
  BY DEF Filter!Sifts, SiftOp
<1>2. ASSUME NEW s, NEW S PROVE Among(s, S) = Filter!Sift(S, s)
  BY DEF Filter!Sift, Filter!Folded, Filter!Fold, SiftOp, Among, Fold
<1> QED BY <1>1, <1>2

LEMMA AmongList ==
  ASSUME NEW s, IsList(s), NEW S
  PROVE  /\ IsList(Among(s, S)) /\ Range(Among(s, S)) = Range(s) \cap S
<1>1. Among(s, S) \in Seq(Range(s) \cap S)
  BY AmongSifts, Filter!SiftSeq DEF IsList
<1>2. IsList(Among(s, S)) /\ Range(Among(s, S)) \subseteq Range(s) \cap S
  BY <1>1, ListIn
<1>3. ASSUME NEW x \in Range(s) \cap S PROVE x \in Range(Among(s, S))
  <2>1. PICK i \in DOMAIN s : s[i] = x
    BY ListDomain
  <2>2. s[i] \in S /\ s \in Seq(Range(s))
    BY <2>1 DEF IsList
  <2>3. \E k \in DOMAIN Filter!Sift(S, s) : Filter!Sift(S, s)[k] = s[i]
    BY <2>2, AmongSifts, Filter!SiftFinds
  <2> QED BY <2>1, <2>3, AmongSifts DEF Range
<1> QED BY <1>2, <1>3

LEMMA AmongEmpty == \A S : Among(<<>>, S) = <<>>
BY AmongSifts, Filter!SiftEmpty

LEMMA AmongAppend ==
  ASSUME NEW s, IsList(s), NEW x, NEW S
  PROVE  Among(Append(s, x), S) = IF x \in S THEN Append(Among(s, S), x) ELSE Among(s, S)
<1> DEFINE T == Range(s) \cup {x}
<1>1. s \in Seq(T) /\ x \in T
  BY DEF IsList
<1> HIDE DEF T
<1>2. Filter!Sift(S, Append(s, x)) = IF x \in S THEN Append(Filter!Sift(S, s), x) ELSE Filter!Sift(S, s)
  BY <1>1, AmongSifts, Filter!SiftAppend
<1> QED BY <1>2, AmongSifts

LEMMA AmongConcat ==
  ASSUME NEW s, IsList(s), NEW t, IsList(t), NEW S
  PROVE  Among(s \o t, S) = Among(s, S) \o Among(t, S)
<1> DEFINE T == Range(s) \cup Range(t)
<1>1. s \in Seq(T) /\ t \in Seq(T)
  BY DEF IsList
<1> HIDE DEF T
<1>2. Filter!Sift(S, s \o t) = Filter!Sift(S, s) \o Filter!Sift(S, t)
  BY <1>1, AmongSifts, Filter!SiftConcat
<1> QED BY <1>2, AmongSifts

LEMMA AmongSame ==
  ASSUME NEW s, IsList(s), NEW S, NEW R, \A x \in Range(s) : x \in S <=> x \in R
  PROVE  Among(s, S) = Among(s, R)
<1>1. s \in Seq(Range(s))
  BY DEF IsList
<1>2. Filter!Sift(S, s) = Filter!Sift(R, s)
  BY <1>1, AmongSifts, Filter!SiftSame
<1> QED BY <1>2, AmongSifts

LEMMA AmongAll ==
  ASSUME NEW s, IsList(s), NEW S, Range(s) \subseteq S
  PROVE  Among(s, S) = s
<1>1. s \in Seq(Range(s))
  BY DEF IsList
<1>2. Filter!Sift(S, s) = s
  BY <1>1, AmongSifts, Filter!SiftAll
<1> QED BY <1>2, AmongSifts

LEMMA AmongTwice ==
  ASSUME NEW s, IsList(s), NEW S, NEW R
  PROVE  Among(Among(s, S), R) = Among(s, S \cap R)
<1>1. s \in Seq(Range(s))
  BY DEF IsList
<1>2. Filter!Sift(R, Filter!Sift(S, s)) = Filter!Sift(S \cap R, s)
  BY <1>1, AmongSifts, Filter!SiftTwice
<1> QED BY <1>2, AmongSifts

LEMMA AmongAllButOne ==
  ASSUME NEW s, IsList(s), NEW S, NEW k \in DOMAIN s, s[k] \notin S,
         \A i \in DOMAIN s \ {k} : s[i] \in S
  PROVE  Among(s, S) = RemoveAt(s, k)
<1>1. s \in Seq(Range(s))
  BY DEF IsList
<1>2. Filter!Sift(S, s) = SubSeq(s, 1, k - 1) \o SubSeq(s, k + 1, Len(s))
  BY <1>1, AmongSifts, Filter!SiftAllButOne
<1> QED BY <1>2, AmongSifts DEF RemoveAt

\* The greatest of a set of indices.
LEMMA GreatestExists ==
  ASSUME NEW n \in Nat, NEW S, S \subseteq 1 .. n, S # {}
  PROVE  Max(S) \in S /\ \A i \in S : i <= Max(S)
<1> DEFINE A == {m \in Nat : \A R \in SUBSET (1 .. m) : R # {} => \E g \in R : \A i \in R : g >= i}
<1>1. 0 \in A
  <2>1. 1 .. 0 = {}
    OBVIOUS
  <2> QED BY <2>1
<1>2. \A m \in Nat : m \in A => m + 1 \in A
  <2> SUFFICES ASSUME NEW m \in Nat, m \in A, NEW R \in SUBSET (1 .. m + 1), R # {}
               PROVE  \E g \in R : \A i \in R : g >= i
    OBVIOUS
  <2>1. CASE m + 1 \in R
    BY <2>1
  <2>2. CASE m + 1 \notin R
    <3>1. R \in SUBSET (1 .. m)
      BY <2>2
    <3> QED BY <3>1
  <2> QED BY <2>1, <2>2
<1> HIDE DEF A
<1>3. n \in A
  BY <1>1, <1>2, Filter!SetInduction
<1>4. \E g \in S : \A i \in S : g >= i
  BY <1>3 DEF A
<1> QED BY <1>4 DEF Max

\* What holds of every two elements in their order, as a set of pairs.
Pairwise(s, R) == \A i, j \in DOMAIN s : i < j => <<s[i], s[j]>> \in R

LEMMA PairwiseAppend ==
  ASSUME NEW s, IsList(s), NEW x, NEW R
  PROVE  Pairwise(Append(s, x), R) <=> Pairwise(s, R) /\ \A y \in Range(s) : <<y, x>> \in R
<1> DEFINE t == Append(s, x)
           n == Len(s)
<1>1. /\ n \in Nat /\ DOMAIN s = 1 .. n /\ DOMAIN t = 1 .. n + 1 /\ t[n + 1] = x
      /\ \A i \in 1 .. n : t[i] = s[i]
      /\ \A i \in 1 .. n : s[i] \in Range(s)
      /\ \A y \in Range(s) : \E i \in 1 .. n : s[i] = y
  BY AppendList, ListDomain
<1> HIDE DEF t, n
<1>2. ASSUME Pairwise(t, R) PROVE Pairwise(s, R) /\ \A y \in Range(s) : <<y, x>> \in R
  <2>1. Pairwise(s, R)
    <3> SUFFICES ASSUME NEW i \in 1 .. n, NEW j \in 1 .. n, i < j PROVE <<s[i], s[j]>> \in R
      BY <1>1 DEF Pairwise
    <3>1. i \in DOMAIN t /\ j \in DOMAIN t /\ t[i] = s[i] /\ t[j] = s[j]
      BY <1>1
    <3> QED BY <1>2, <3>1 DEF Pairwise
  <2>2. ASSUME NEW y \in Range(s) PROVE <<y, x>> \in R
    <3>1. PICK i \in 1 .. n : s[i] = y
      BY <1>1
    <3>2. i \in DOMAIN t /\ n + 1 \in DOMAIN t /\ i < n + 1 /\ t[i] = y
      BY <1>1, <3>1
    <3>3. <<t[i], t[n + 1]>> \in R
      BY <1>2, <3>2 DEF Pairwise
    <3> QED BY <1>1, <3>2, <3>3
  <2> QED BY <2>1, <2>2
<1>3. ASSUME Pairwise(s, R), \A y \in Range(s) : <<y, x>> \in R PROVE Pairwise(t, R)
  <2> SUFFICES ASSUME NEW i \in 1 .. n + 1, NEW j \in 1 .. n + 1, i < j PROVE <<t[i], t[j]>> \in R
    BY <1>1 DEF Pairwise
  <2>1. i \in 1 .. n /\ t[i] = s[i]
    BY <1>1
  <2>2. CASE j = n + 1
    BY <1>1, <1>3, <2>1, <2>2
  <2>3. CASE j # n + 1
    <3>1. j \in 1 .. n /\ t[j] = s[j]
      BY <1>1, <2>3
    <3> QED BY <1>1, <1>3, <2>1, <3>1 DEF Pairwise
  <2> QED BY <2>2, <2>3
<1> QED BY <1>2, <1>3 DEF t

LEMMA PairwiseConcat ==
  ASSUME NEW s, IsList(s), NEW t, IsList(t), NEW R, Pairwise(s, R), Pairwise(t, R),
         \A x \in Range(s), y \in Range(t) : <<x, y>> \in R
  PROVE  Pairwise(s \o t, R)
<1> DEFINE u == s \o t
           m == Len(s)
           n == Len(t)
<1>1. /\ m \in Nat /\ n \in Nat /\ DOMAIN s = 1 .. m /\ DOMAIN t = 1 .. n /\ DOMAIN u = 1 .. m + n
      /\ \A i \in 1 .. m : u[i] = s[i]
      /\ \A i \in 1 .. n : u[m + i] = t[i]
      /\ \A i \in 1 .. m : s[i] \in Range(s)
      /\ \A i \in 1 .. n : t[i] \in Range(t)
  <2>1. /\ m \in Nat /\ DOMAIN s = 1 .. m /\ n \in Nat /\ DOMAIN t = 1 .. n
        /\ \A i \in 1 .. m : s[i] \in Range(s)
        /\ \A i \in 1 .. n : t[i] \in Range(t)
    BY ListDomain
  <2> QED BY <2>1, ConcatList
<1> HIDE DEF u, m, n
<1> SUFFICES ASSUME NEW i \in 1 .. m + n, NEW j \in 1 .. m + n, i < j PROVE <<u[i], u[j]>> \in R
  BY <1>1 DEF Pairwise, u
<1>2. ASSUME NEW k \in 1 .. m + n, k > m PROVE k - m \in 1 .. n /\ u[k] = t[k - m]
  <2>1. k - m \in 1 .. n /\ m + (k - m) = k
    BY <1>1, <1>2
  <2> QED BY <1>1, <2>1
<1>3. CASE j <= m
  <2>1. i \in 1 .. m /\ j \in 1 .. m
    BY <1>1, <1>3
  <2> QED BY <1>1, <2>1 DEF Pairwise
<1>4. CASE i <= m /\ j > m
  <2>1. i \in 1 .. m /\ j - m \in 1 .. n /\ u[j] = t[j - m]
    BY <1>1, <1>2, <1>4
  <2> QED BY <1>1, <2>1
<1>5. CASE i > m
  <2>1. j > m /\ i - m < j - m
    BY <1>1, <1>5
  <2>2. i - m \in 1 .. n /\ u[i] = t[i - m] /\ j - m \in 1 .. n /\ u[j] = t[j - m]
    BY <1>2, <1>5, <2>1
  <2> QED BY <1>1, <2>1, <2>2 DEF Pairwise
<1> QED BY <1>1, <1>3, <1>4, <1>5

LEMMA AmongPairwise ==
  ASSUME NEW s, IsList(s), NEW S, NEW R, Pairwise(s, R)
  PROVE  Pairwise(Among(s, S), R)
<1> DEFINE T == Range(s)
           P == {r \in Seq(T) : Pairwise(r, R) => Pairwise(Among(r, S), R)}
<1>1. <<>> \in P
  <2>1. Pairwise(<<>>, R) /\ <<>> \in Seq(T)
    BY DEF Pairwise
  <2> QED BY <2>1, AmongEmpty
<1>2. \A r \in Seq(T), x \in T : r \in P => Append(r, x) \in P
  <2> SUFFICES ASSUME NEW r \in Seq(T), NEW x \in T, r \in P, Pairwise(Append(r, x), R)
               PROVE  Pairwise(Among(Append(r, x), S), R)
    BY AppendProperties
  <2>1. IsList(r) /\ IsList(Among(r, S)) /\ Range(Among(r, S)) = Range(r) \cap S
    BY ListIn, AmongList
  <2>2. Pairwise(r, R) /\ \A y \in Range(r) : <<y, x>> \in R
    BY <2>1, PairwiseAppend
  <2>3. Pairwise(Among(r, S), R)
    BY <2>2
  <2>4. Among(Append(r, x), S) = IF x \in S THEN Append(Among(r, S), x) ELSE Among(r, S)
    BY <2>1, AmongAppend
  <2>5. Pairwise(Append(Among(r, S), x), R)
    BY <2>1, <2>2, <2>3, PairwiseAppend
  <2> QED BY <2>3, <2>4, <2>5
<1> HIDE DEF P
<1>3. Seq(T) \subseteq P
  BY <1>1, <1>2, Filter!SequenceInduction
<1> QED BY <1>3 DEF P, IsList

-----------------------------------------------------------------------------
(* Books *)

LEMMA OidsPairwise ==
  ASSUME NEW s, IsList(s), NEW T, Range(s) \subseteq T
  PROVE  OidsOnce(s) <=> Pairwise(s, {p \in T \X T : p[1].oid # p[2].oid})
<1> DEFINE n == Len(s)
<1>1. n \in Nat /\ DOMAIN s = 1 .. n /\ \A i \in 1 .. n : s[i] \in T
  BY ListDomain
<1> HIDE DEF n
<1>2. ASSUME OidsOnce(s) PROVE Pairwise(s, {p \in T \X T : p[1].oid # p[2].oid})
  BY <1>1, <1>2 DEF OidsOnce, Pairwise
<1>3. ASSUME Pairwise(s, {p \in T \X T : p[1].oid # p[2].oid}) PROVE OidsOnce(s)
  <2> SUFFICES ASSUME NEW i \in 1 .. n, NEW j \in 1 .. n, s[i].oid = s[j].oid, i # j
               PROVE  FALSE
    BY <1>1 DEF OidsOnce
  <2>0. i < j \/ j < i
    BY <1>1
  <2>1. <<s[i], s[j]>> \in {p \in T \X T : p[1].oid # p[2].oid}
        \/ <<s[j], s[i]>> \in {p \in T \X T : p[1].oid # p[2].oid}
    BY <1>1, <1>3, <2>0 DEF Pairwise
  <2> QED BY <2>1
<1> QED BY <1>2, <1>3

LEMMA AmongOids ==
  ASSUME NEW s, IsList(s), OidsOnce(s), NEW S
  PROVE  OidsOnce(Among(s, S))
<1> DEFINE T == Range(s)
           R == {p \in T \X T : p[1].oid # p[2].oid}
<1>1. Pairwise(s, R)
  BY OidsPairwise
<1>2. Pairwise(Among(s, S), R) /\ IsList(Among(s, S)) /\ Range(Among(s, S)) \subseteq T
  BY <1>1, AmongPairwise, AmongList
<1> HIDE DEF T
<1> QED BY <1>2, OidsPairwise

LEMMA AppendOids ==
  ASSUME NEW s, IsList(s), OidsOnce(s), NEW x, \A y \in Range(s) : y.oid # x.oid
  PROVE  OidsOnce(Append(s, x))
<1> DEFINE T == Range(s) \cup {x}
           R == {p \in T \X T : p[1].oid # p[2].oid}
<1>1. Pairwise(s, R)
  BY OidsPairwise
<1>2. \A y \in Range(s) : <<y, x>> \in R
  OBVIOUS
<1>3. Pairwise(Append(s, x), R) /\ IsList(Append(s, x)) /\ Range(Append(s, x)) = T
  BY <1>1, <1>2, PairwiseAppend, AppendList
<1> HIDE DEF T
<1> QED BY <1>3, OidsPairwise

IsOrder(o) == o = [oid |-> o.oid, side |-> o.side, px |-> o.px, sz |-> o.sz]

OrdersFine(orders) ==
    IsList(orders) /\ OidsOnce(orders) /\ \A o \in Range(orders) : IsOrder(o)

IsBook(b) ==
    /\ DOMAIN b = {"coin", "height", "stale", "anomaly_count", "orders"}
    /\ OrdersFine(b.orders)
    /\ b.stale \in BOOLEAN /\ b.anomaly_count \in Nat

LEMMA EmptyBookFine ==
  ASSUME NEW c
  PROVE  /\ IsBook(EmptyBook(c)) /\ EmptyBook(c).coin = c /\ EmptyBook(c).height = None
         /\ EmptyBook(c).stale = FALSE /\ EmptyBook(c).anomaly_count = 0
         /\ EmptyBook(c).orders = <<>>
BY EmptyList DEF IsBook, EmptyBook, OrdersFine, OidsOnce, Range

\* What an operation on the orders of a book leaves alone.
Keeps(b, n) ==
    /\ IsBook(n)
    /\ n.coin = b.coin /\ n.height = b.height /\ n.stale = b.stale
    /\ n.anomaly_count >= b.anomaly_count

LEMMA AnomalyFine ==
  ASSUME NEW b, IsBook(b)
  PROVE  /\ Keeps(b, Anomaly(b)) /\ Anomaly(b).orders = b.orders
         /\ Anomaly(b).anomaly_count = b.anomaly_count + 1
BY DEF IsBook, Anomaly, Keeps

LEMMA SlotFound ==
  ASSUME NEW b, IsBook(b), NEW oid, Holds(b, oid)
  PROVE  /\ Slot(b, oid) \in DOMAIN b.orders
         /\ b.orders[Slot(b, oid)].oid = oid
         /\ \A i \in DOMAIN b.orders : b.orders[i].oid = oid => i = Slot(b, oid)
BY DEF IsBook, OrdersFine, OidsOnce, Holds, Slot

\* The orders of a book without those of an oid.
Without(orders, oid) == Among(orders, {o \in Range(orders) : o.oid # oid})

LEMMA DeleteFine ==
  ASSUME NEW b, IsBook(b), NEW oid, Holds(b, oid)
  PROVE  /\ Keeps(b, Delete(b, oid))
         /\ Delete(b, oid).orders = RemoveAt(b.orders, Slot(b, oid))
         /\ Delete(b, oid).orders = Without(b.orders, oid)
         /\ Delete(b, oid).anomaly_count = b.anomaly_count
         /\ ~Holds(Delete(b, oid), oid)
<1> DEFINE s == b.orders
           n == Delete(b, oid)
           k == Slot(b, oid)
           S == {o \in Range(s) : o.oid # oid}
<1>1. IsList(s) /\ OidsOnce(s) /\ \A o \in Range(s) : IsOrder(o)
  BY DEF IsBook, OrdersFine
<1>2. /\ k \in DOMAIN s /\ s[k].oid = oid /\ \A i \in DOMAIN s : s[i].oid = oid => i = k
  BY SlotFound
<1>3. /\ DOMAIN n = DOMAIN b /\ n.orders = RemoveAt(s, k) /\ n.coin = b.coin /\ n.height = b.height
      /\ n.stale = b.stale /\ n.anomaly_count = b.anomaly_count
  BY DEF Delete, IsBook
<1>4. /\ s[k] \notin S /\ \A i \in DOMAIN s \ {k} : s[i] \in S
  BY <1>1, <1>2, ListDomain
<1> HIDE DEF s, n, k
<1>5. Among(s, S) = RemoveAt(s, k)
  BY <1>1, <1>2, <1>4, AmongAllButOne
<1>6. /\ IsList(Among(s, S)) /\ Range(Among(s, S)) = S /\ OidsOnce(Among(s, S))
  BY <1>1, AmongList, AmongOids
<1>7. OrdersFine(n.orders)
  BY <1>1, <1>3, <1>5, <1>6 DEF OrdersFine
<1>8. ~Holds(n, oid)
  <2>1. \A i \in DOMAIN n.orders : n.orders[i] \in S
    BY <1>3, <1>5, <1>6, ListDomain
  <2> QED BY <2>1 DEF Holds
<1>9. Keeps(b, n)
  BY <1>3, <1>7 DEF Keeps, IsBook
<1> QED BY <1>3, <1>5, <1>8, <1>9 DEF s, n, k, Without

\* A book with other orders.
LEMMA WithOrders ==
  ASSUME NEW b, IsBook(b), NEW orders, OrdersFine(orders)
  PROVE  /\ Keeps(b, [b EXCEPT !.orders = orders])
         /\ [b EXCEPT !.orders = orders].orders = orders
         /\ [b EXCEPT !.orders = orders].anomaly_count = b.anomaly_count
BY DEF IsBook, Keeps

OrderOf(d) == [oid |-> d.oid, side |-> d.side, px |-> d.px, sz |-> d.sz]

LEMMA NotHeld ==
  ASSUME NEW b, IsBook(b), NEW oid, ~Holds(b, oid)
  PROVE  \A o \in Range(b.orders) : o.oid # oid
BY ListDomain DEF IsBook, OrdersFine, Holds

LEMMA InsertFine ==
  ASSUME NEW b, IsBook(b), NEW d
  PROVE  /\ Keeps(b, Insert(b, d))
         /\ (BadDecimal \notin {d.px, d.sz} /\ ~Holds(b, d.oid)) =>
               /\ Insert(b, d).orders = Append(b.orders, OrderOf(d))
               /\ Insert(b, d).anomaly_count = b.anomaly_count
<1>1. CASE BadDecimal \in {d.px, d.sz}
  BY <1>1, AnomalyFine DEF Insert
<1>2. CASE BadDecimal \notin {d.px, d.sz}
  <2> DEFINE f == IF Holds(b, d.oid) THEN Anomaly(Delete(b, d.oid)) ELSE b
             n == Append(f.orders, OrderOf(d))
  <2>1. /\ Keeps(b, f) /\ ~Holds(f, d.oid)
        /\ ~Holds(b, d.oid) => f = b
    <3>1. CASE Holds(b, d.oid)
      <4> DEFINE e == Delete(b, d.oid)
      <4>1. Keeps(b, e) /\ ~Holds(e, d.oid)
        BY <3>1, DeleteFine
      <4> HIDE DEF e
      <4>2. Keeps(e, Anomaly(e)) /\ Anomaly(e).orders = e.orders
        BY <4>1, AnomalyFine DEF Keeps
      <4>3. Keeps(b, Anomaly(e)) /\ ~Holds(Anomaly(e), d.oid)
        BY <4>1, <4>2 DEF Keeps, Holds, IsBook
      <4> QED BY <3>1, <4>3 DEF e
    <3>2. CASE ~Holds(b, d.oid)
      BY <3>2 DEF Keeps, IsBook
    <3> QED BY <3>1, <3>2
  <2>2. Insert(b, d) = [f EXCEPT !.orders = n]
    <3>1. [f EXCEPT !.orders = Append(@, OrderOf(d))] = [f EXCEPT !.orders = n]
      OBVIOUS
    <3> QED BY <1>2, <3>1 DEF Insert, OrderOf
  <2> HIDE DEF f
  <2>3. OrdersFine(n)
    <3>1. IsList(f.orders) /\ OidsOnce(f.orders) /\ \A o \in Range(f.orders) : IsOrder(o)
      BY <2>1 DEF Keeps, IsBook, OrdersFine
    <3>2. \A o \in Range(f.orders) : o.oid # OrderOf(d).oid
      BY <2>1, NotHeld DEF Keeps, OrderOf
    <3>3. IsOrder(OrderOf(d))
      BY DEF IsOrder, OrderOf
    <3>4. IsList(n) /\ Range(n) = Range(f.orders) \cup {OrderOf(d)} /\ OidsOnce(n)
      BY <3>1, <3>2, AppendList, AppendOids
    <3> QED BY <3>1, <3>3, <3>4 DEF OrdersFine
  <2>4. /\ Keeps(f, [f EXCEPT !.orders = n])
        /\ [f EXCEPT !.orders = n].orders = n
        /\ [f EXCEPT !.orders = n].anomaly_count = f.anomaly_count
    <3> HIDE DEF n
    <3> QED BY <2>1, <2>3, WithOrders DEF Keeps
  <2>5. Keeps(b, Insert(b, d))
    BY <2>1, <2>2, <2>4 DEF Keeps, IsBook
  <2> QED BY <2>1, <2>2, <2>4, <2>5
<1> QED BY <1>1, <1>2

\* The size of the order in one slot.
Resized(orders, i, sz) == [orders EXCEPT ![i].sz = sz]

LEMMA ResizedFine ==
  ASSUME NEW orders, OrdersFine(orders), NEW i \in DOMAIN orders, NEW sz
  PROVE  /\ OrdersFine(Resized(orders, i, sz))
         /\ Len(Resized(orders, i, sz)) = Len(orders)
         /\ \A k \in DOMAIN orders :
               Resized(orders, i, sz)[k] = IF k # i THEN orders[k]
                                           ELSE [oid |-> orders[k].oid, side |-> orders[k].side,
                                                 px |-> orders[k].px, sz |-> sz]
<1> DEFINE n == Resized(orders, i, sz)
           m == Len(orders)
           new == [oid |-> orders[i].oid, side |-> orders[i].side, px |-> orders[i].px, sz |-> sz]
<1>1. /\ m \in Nat /\ DOMAIN orders = 1 .. m /\ orders = [k \in 1 .. m |-> orders[k]]
      /\ \A k \in 1 .. m : IsOrder(orders[k])
  BY ListDomain DEF OrdersFine
<1>2. n[i] = new
  <2>1. n[i] = [orders[i] EXCEPT !.sz = sz]
    BY <1>1 DEF Resized
  <2>2. orders[i] = [oid |-> orders[i].oid, side |-> orders[i].side,
                     px |-> orders[i].px, sz |-> orders[i].sz]
    BY <1>1 DEF IsOrder
  <2> QED BY <2>1, <2>2
<1>3. n = [k \in 1 .. m |-> n[k]] /\ \A k \in 1 .. m : k # i => n[k] = orders[k]
  BY <1>1 DEF Resized
<1> HIDE DEF n, m
<1>4. IsList(n) /\ Len(n) = m /\ DOMAIN n = 1 .. m
  BY <1>1, <1>3, ListOf
<1>5. \A k \in 1 .. m : n[k].oid = orders[k].oid /\ IsOrder(n[k])
  BY <1>1, <1>2, <1>3 DEF IsOrder
<1>6. OidsOnce(n)
  BY <1>1, <1>4, <1>5 DEF OidsOnce, OrdersFine
<1>7. \A o \in Range(n) : IsOrder(o)
  BY <1>4, <1>5, ListDomain
<1> QED BY <1>1, <1>2, <1>3, <1>4, <1>6, <1>7 DEF OrdersFine, n, m

LEMMA ApplyUpdateFine ==
  ASSUME NEW b, IsBook(b), NEW d
  PROVE  /\ Keeps(b, ApplyUpdate(b, d))
         /\ d.new_sz \notin {None, BadDecimal, 0} =>
               ApplyUpdate(b, d).orders = IF Holds(b, d.oid)
                                          THEN Resized(b.orders, Slot(b, d.oid), d.new_sz)
                                          ELSE b.orders
<1> DEFINE i == Slot(b, d.oid)
           f == IF d.orig_sz \notin {None, b.orders[i].sz} THEN Anomaly(b) ELSE b
           n == Resized(b.orders, i, d.new_sz)
<1>1. CASE ~Holds(b, d.oid) \/ d.new_sz \in {None, BadDecimal}
  <2>1. ApplyUpdate(b, d) = Anomaly(b)
    BY <1>1 DEF ApplyUpdate
  <2> QED BY <1>1, <2>1, AnomalyFine
<1>2. CASE Holds(b, d.oid) /\ d.new_sz \notin {None, BadDecimal}
  <2>1. Keeps(b, f) /\ f.orders = b.orders
    BY AnomalyFine DEF Keeps, IsBook
  <2>2. i \in DOMAIN b.orders
    BY <1>2, SlotFound
  <2>3. CASE d.new_sz = 0
    <3>1. ApplyUpdate(b, d) = Delete(Anomaly(f), d.oid)
      BY <1>2, <2>3 DEF ApplyUpdate
    <3> HIDE DEF f
    <3>2. Keeps(f, Anomaly(f)) /\ Anomaly(f).orders = f.orders
      BY <2>1, AnomalyFine DEF Keeps
    <3>3. Holds(Anomaly(f), d.oid)
      BY <1>2, <2>1, <3>2 DEF Holds
    <3>4. Keeps(Anomaly(f), Delete(Anomaly(f), d.oid))
      BY <3>2, <3>3, DeleteFine DEF Keeps
    <3>5. Keeps(b, Delete(Anomaly(f), d.oid))
      BY <2>1, <3>2, <3>4 DEF Keeps, IsBook
    <3> QED BY <2>3, <3>1, <3>5
  <2>4. CASE d.new_sz # 0
    <3>1. ApplyUpdate(b, d) = [f EXCEPT !.orders[i].sz = d.new_sz]
      BY <1>2, <2>4 DEF ApplyUpdate
    <3> HIDE DEF f
    <3>2. [f EXCEPT !.orders[i].sz = d.new_sz] = [f EXCEPT !.orders = Resized(f.orders, i, d.new_sz)]
      BY DEF Resized
    <3>3. OrdersFine(n)
      BY <2>2, ResizedFine DEF IsBook
    <3> HIDE DEF n
    <3>4. Keeps(f, [f EXCEPT !.orders = n]) /\ [f EXCEPT !.orders = n].orders = n
      BY <2>1, <3>3, WithOrders DEF Keeps
    <3>5. ApplyUpdate(b, d) = [f EXCEPT !.orders = n]
      BY <2>1, <3>1, <3>2 DEF n
    <3>6. Keeps(b, ApplyUpdate(b, d))
      BY <2>1, <3>4, <3>5 DEF Keeps, IsBook
    <3> QED BY <1>2, <3>4, <3>5, <3>6 DEF n
  <2> QED BY <2>3, <2>4
<1> QED BY <1>1, <1>2

LEMMA ApplyRemoveFine ==
  ASSUME NEW b, IsBook(b), NEW d
  PROVE  /\ Keeps(b, ApplyRemove(b, d))
         /\ ApplyRemove(b, d).orders = IF Holds(b, d.oid) THEN RemoveAt(b.orders, Slot(b, d.oid))
                                       ELSE b.orders
BY DeleteFine, AnomalyFine DEF ApplyRemove

Kinds == {"new", "update", "remove"}

LEMMA ApplyFine ==
  ASSUME NEW b, IsBook(b), NEW d, d.kind \in Kinds
  PROVE  Keeps(b, Apply(b, d))
<1>1. CASE d.coin # b.coin
  BY <1>1, AnomalyFine DEF Apply
<1>2. CASE d.coin = b.coin
  <2>1. Keeps(b, ApplyNew(b, d))
    BY InsertFine, AnomalyFine DEF ApplyNew
  <2>2. Keeps(b, ApplyUpdate(b, d)) /\ Keeps(b, ApplyRemove(b, d))
    BY ApplyUpdateFine, ApplyRemoveFine
  <2>3. /\ d.kind = "new" => Apply(b, d) = ApplyNew(b, d)
        /\ d.kind = "update" => Apply(b, d) = ApplyUpdate(b, d)
        /\ d.kind = "remove" => Apply(b, d) = ApplyRemove(b, d)
    BY <1>2 DEF Apply
  <2> QED BY <2>1, <2>2, <2>3 DEF Kinds
<1> QED BY <1>1, <1>2

-----------------------------------------------------------------------------
(* What a history of diffs says and what a book makes of it *)

Following(T) == {p \in T \X T : Follows(p[1], p[2])}

History(ds) ==
    /\ IsList(ds)
    /\ \A d \in Range(ds) : Sound(d)
    /\ \A i, j \in DOMAIN ds : i < j => Follows(ds[i], ds[j])

LEMMA HistoryPairs ==
  ASSUME NEW ds, IsList(ds), NEW T, Range(ds) \subseteq T
  PROVE  History(ds) <=> (\A d \in Range(ds) : Sound(d)) /\ Pairwise(ds, Following(T))
<1>1. \A i \in DOMAIN ds : ds[i] \in T
  BY ListDomain
<1> QED BY <1>1 DEF History, Pairwise, Following

LEMMA HistoryAppend ==
  ASSUME NEW ds, IsList(ds), NEW d
  PROVE  History(Append(ds, d)) <=> History(ds) /\ Sound(d) /\ \A x \in Range(ds) : Follows(x, d)
<1> DEFINE T == Range(ds) \cup {d}
<1>1. IsList(Append(ds, d)) /\ Range(Append(ds, d)) = T
  BY AppendList
<1>2. Pairwise(Append(ds, d), Following(T))
        <=> Pairwise(ds, Following(T)) /\ \A x \in Range(ds) : <<x, d>> \in Following(T)
  BY PairwiseAppend
<1>3. History(Append(ds, d)) <=> (\A x \in T : Sound(x)) /\ Pairwise(Append(ds, d), Following(T))
  BY <1>1, HistoryPairs
<1>4. History(ds) <=> (\A x \in Range(ds) : Sound(x)) /\ Pairwise(ds, Following(T))
  <2>1. Range(ds) \subseteq T
    OBVIOUS
  <2> HIDE DEF T
  <2> QED BY <2>1, HistoryPairs
<1>5. \A x \in Range(ds) : <<x, d>> \in Following(T) <=> Follows(x, d)
  BY DEF Following
<1> QED BY <1>2, <1>3, <1>4, <1>5

LEMMA HistoryConcat ==
  ASSUME NEW ds, NEW es, History(ds), History(es),
         \A x \in Range(ds), y \in Range(es) : Follows(x, y)
  PROVE  History(ds \o es)
<1> DEFINE T == Range(ds) \cup Range(es)
<1>1. IsList(ds) /\ IsList(es)
  BY DEF History
<1>2. IsList(ds \o es) /\ Range(ds \o es) = T
  BY <1>1, ConcatList
<1>3. Range(ds) \subseteq T /\ Range(es) \subseteq T
  OBVIOUS
<1>4. \A x \in Range(ds), y \in Range(es) : <<x, y>> \in Following(T)
  BY DEF Following
<1> HIDE DEF T
<1>5. /\ Pairwise(ds, Following(T)) /\ \A x \in Range(ds) : Sound(x)
      /\ Pairwise(es, Following(T)) /\ \A x \in Range(es) : Sound(x)
  BY <1>1, <1>3, HistoryPairs
<1>6. Pairwise(ds \o es, Following(T))
  BY <1>1, <1>4, <1>5, PairwiseConcat
<1>7. \A x \in T : Sound(x)
  BY <1>5 DEF T
<1> QED BY <1>2, <1>6, <1>7, HistoryPairs

LEMMA HistoryAmong ==
  ASSUME NEW ds, History(ds), NEW S
  PROVE  History(Among(ds, S))
<1> DEFINE T == Range(ds)
<1>1. IsList(ds) /\ Pairwise(ds, Following(T)) /\ \A x \in T : Sound(x)
  <2>1. IsList(ds)
    BY DEF History
  <2> QED BY <2>1, HistoryPairs
<1>2. IsList(Among(ds, S)) /\ Range(Among(ds, S)) \subseteq T /\ Pairwise(Among(ds, S), Following(T))
  BY <1>1, AmongList, AmongPairwise
<1> HIDE DEF T
<1> QED BY <1>1, <1>2, HistoryPairs

AliveSet(ds) == {d \in Range(ds) : d.kind = "new" /\ ~Removed(ds, d.oid)}

Alive(ds) == Among(ds, AliveSet(ds))

Item(ds, o) == [oid |-> o.oid, side |-> o.side, px |-> o.px, sz |-> LastSize(ds, o)]

LEMMA RestingIs ==
  ASSUME NEW ds, IsList(ds)
  PROVE  /\ IsList(Alive(ds)) /\ Range(Alive(ds)) = AliveSet(ds)
         /\ IsList(Resting(ds)) /\ Len(Resting(ds)) = Len(Alive(ds))
         /\ \A k \in 1 .. Len(Alive(ds)) : Resting(ds)[k] = Item(ds, Alive(ds)[k])
<1> DEFINE al == Alive(ds)
           r == Resting(ds)
<1>1. IsList(al) /\ Range(al) = AliveSet(ds)
  <2>1. AliveSet(ds) \subseteq Range(ds)
    BY DEF AliveSet
  <2> QED BY <2>1, AmongList DEF Alive
<1>2. r = [k \in DOMAIN al |-> Item(ds, al[k])]
  BY DEF Resting, Only, Alive, AliveSet, Item
<1> HIDE DEF al, r
<1>3. Len(al) \in Nat /\ DOMAIN al = 1 .. Len(al)
  BY <1>1, ListDomain
<1>4. r = [k \in 1 .. Len(al) |-> r[k]] /\ \A k \in 1 .. Len(al) : r[k] = Item(ds, al[k])
  BY <1>2, <1>3
<1>5. IsList(r) /\ Len(r) = Len(al)
  BY <1>3, <1>4, ListOf
<1> QED BY <1>1, <1>4, <1>5 DEF al, r

LEMMA RemovedAppend ==
  ASSUME NEW ds, IsList(ds), NEW d, NEW oid
  PROVE  Removed(Append(ds, d), oid) <=> Removed(ds, oid) \/ (d.oid = oid /\ d.kind = "remove")
<1> DEFINE t == Append(ds, d)
           n == Len(ds)
<1>1. /\ n \in Nat /\ DOMAIN ds = 1 .. n /\ DOMAIN t = 1 .. n + 1 /\ t[n + 1] = d
      /\ \A i \in 1 .. n : t[i] = ds[i]
  BY AppendList, ListDomain
<1> HIDE DEF t, n
<1>2. 1 .. n + 1 = (1 .. n) \cup {n + 1}
  BY <1>1
<1>3. Removed(t, oid) <=> Removed(ds, oid) \/ (d.oid = oid /\ d.kind = "remove")
  BY <1>1, <1>2 DEF Removed
<1> QED BY <1>3 DEF t

LEMMA LastSizeAppend ==
  ASSUME NEW ds, IsList(ds), NEW d, NEW o
  PROVE  LastSize(Append(ds, d), o) = IF d.oid = o.oid /\ d.kind = "update" THEN d.new_sz
                                      ELSE LastSize(ds, o)
<1> DEFINE t == Append(ds, d)
           n == Len(ds)
           U(s) == {j \in DOMAIN s : s[j].oid = o.oid /\ s[j].kind = "update"}
<1>1. /\ n \in Nat /\ DOMAIN ds = 1 .. n /\ DOMAIN t = 1 .. n + 1 /\ t[n + 1] = d
      /\ \A i \in 1 .. n : t[i] = ds[i]
  BY AppendList, ListDomain
<1>2. /\ LastSize(t, o) = IF U(t) = {} THEN o.sz ELSE t[Max(U(t))].new_sz
      /\ LastSize(ds, o) = IF U(ds) = {} THEN o.sz ELSE ds[Max(U(ds))].new_sz
  BY DEF LastSize
<1> HIDE DEF t, n
<1>3. CASE d.oid = o.oid /\ d.kind = "update"
  <2>1. n + 1 \in U(t) /\ U(t) \subseteq 1 .. n + 1
    BY <1>1, <1>3
  <2> HIDE DEF U
  <2>2. Max(U(t)) \in U(t) /\ \A i \in U(t) : i <= Max(U(t))
    BY <1>1, <2>1, GreatestExists
  <2>3. Max(U(t)) = n + 1
    BY <1>1, <2>1, <2>2
  <2> QED BY <1>1, <1>2, <1>3, <2>1, <2>3 DEF t
<1>4. CASE ~(d.oid = o.oid /\ d.kind = "update")
  <2>1. U(t) = U(ds) /\ U(ds) \subseteq 1 .. n
    BY <1>1, <1>4
  <2> HIDE DEF U
  <2>2. CASE U(ds) = {}
    BY <1>2, <1>4, <2>1, <2>2 DEF t
  <2>3. CASE U(ds) # {}
    <3>1. Max(U(ds)) \in 1 .. n
      BY <1>1, <2>1, <2>3, GreatestExists
    <3> QED BY <1>1, <1>2, <1>4, <2>1, <2>3, <3>1 DEF t
  <2> QED BY <2>2, <2>3
<1> QED BY <1>3, <1>4

LEMMA AliveAppend ==
  ASSUME NEW ds, NEW d, IsList(ds), History(Append(ds, d))
  PROVE  /\ d.kind = "new" => Alive(Append(ds, d)) = Append(Alive(ds), d)
         /\ d.kind = "update" => Alive(Append(ds, d)) = Alive(ds)
         /\ d.kind = "remove" => Alive(Append(ds, d)) = Without(Alive(ds), d.oid)
<1> DEFINE t == Append(ds, d)
           A == AliveSet(ds)
           B == AliveSet(t)
<1>1. /\ IsList(t) /\ Range(t) = Range(ds) \cup {d}
      /\ Sound(d) /\ \A x \in Range(ds) : Follows(x, d)
  BY AppendList, HistoryAppend
<1>2. \A x : Removed(t, x.oid) <=> Removed(ds, x.oid) \/ (d.oid = x.oid /\ d.kind = "remove")
  BY RemovedAppend
<1>3. Among(t, B) = IF d \in B THEN Append(Among(ds, B), d) ELSE Among(ds, B)
  BY AmongAppend
<1>4. \A x : x \in A <=> x \in Range(ds) /\ x.kind = "new" /\ ~Removed(ds, x.oid)
  BY DEF AliveSet
<1>5. \A x : x \in B <=> x \in Range(t) /\ x.kind = "new" /\ ~Removed(t, x.oid)
  BY DEF AliveSet
<1> HIDE DEF A, B, t
<1>6. CASE d.kind = "new"
  <2>1. \A x \in Range(ds) : x.oid # d.oid
    BY <1>1, <1>6 DEF Follows
  <2>2. ~Removed(ds, d.oid)
    BY <2>1, ListDomain DEF Removed
  <2>3. d \in B
    BY <1>1, <1>2, <1>5, <1>6, <2>2
  <2>4. \A x \in Range(ds) : x \in B <=> x \in A
    BY <1>1, <1>2, <1>4, <1>5, <1>6
  <2>5. Among(ds, B) = Among(ds, A)
    BY <2>4, AmongSame
  <2> QED BY <1>3, <1>6, <2>3, <2>5 DEF Alive, A, B, t
<1>7. CASE d.kind = "update"
  <2>1. d \notin B /\ \A x \in Range(ds) : x \in B <=> x \in A
    BY <1>1, <1>2, <1>4, <1>5, <1>7
  <2>2. Among(ds, B) = Among(ds, A)
    BY <2>1, AmongSame
  <2> QED BY <1>3, <1>7, <2>1, <2>2 DEF Alive, A, B, t
<1>8. CASE d.kind = "remove"
  <2> DEFINE W == {x \in Range(Alive(ds)) : x.oid # d.oid}
  <2>1. Range(Alive(ds)) = A
    BY RestingIs DEF A
  <2>2. d \notin B
    BY <1>5, <1>8
  <2>3. \A x \in Range(ds) : x \in B <=> x \in A \cap W
    BY <1>1, <1>2, <1>4, <1>5, <1>8, <2>1
  <2> HIDE DEF W
  <2>4. Among(ds, B) = Among(ds, A \cap W)
    BY <2>3, AmongSame
  <2>5. Among(Among(ds, A), W) = Among(ds, A \cap W)
    BY AmongTwice
  <2>6. Among(ds, A) = Alive(ds)
    BY DEF Alive, A
  <2> QED BY <1>3, <1>8, <2>2, <2>4, <2>5, <2>6 DEF Alive, B, t, W, Without
<1>9. d.kind \in Kinds
  BY <1>1 DEF Sound, Kinds
<1> QED BY <1>6, <1>7, <1>8, <1>9 DEF Kinds

LEMMA RemoveAtList ==
  ASSUME NEW s, IsList(s), NEW k \in DOMAIN s
  PROVE  /\ IsList(RemoveAt(s, k)) /\ Len(RemoveAt(s, k)) = Len(s) - 1
         /\ \A i \in 1 .. Len(s) - 1 : RemoveAt(s, k)[i] = IF i < k THEN s[i] ELSE s[i + 1]
<1> DEFINE n == Len(s)
           a == SubSeq(s, 1, k - 1)
           b == SubSeq(s, k + 1, n)
           u == a \o b
           T == Range(s)
<1>1. n \in Nat /\ k \in 1 .. n /\ (\A i \in 1 .. n : s[i] \in T) /\ s \in Seq(T)
  BY ListDomain DEF IsList
<1>2. a \in Seq(T) /\ Len(a) = k - 1 /\ \A i \in 1 .. k - 1 : a[i] = s[i]
  BY <1>1
<1>3. b \in Seq(T) /\ Len(b) = n - k /\ \A i \in 1 .. n - k : b[i] = s[k + i]
  <2> HIDE DEF n, T
  <2>1. \A i \in k + 1 .. n : s[i] \in T
    BY <1>1
  <2>2. /\ Len(b) = IF k + 1 <= n THEN n - (k + 1) + 1 ELSE 0
        /\ \A i \in 1 .. n - (k + 1) + 1 : b[i] = s[(k + 1) + i - 1]
        /\ b \in Seq(T)
    BY <1>1, <2>1, SubSeqProperties
  <2>3. Len(b) = n - k
    BY <1>1, <2>2
  <2>4. ASSUME NEW i \in 1 .. n - k PROVE b[i] = s[k + i]
    <3>1. i \in 1 .. n - (k + 1) + 1 /\ (k + 1) + i - 1 = k + i
      BY <1>1
    <3> HIDE DEF b
    <3> QED BY <2>2, <3>1
  <2> QED BY <2>2, <2>3, <2>4
<1> HIDE DEF a, b, T, n
<1>4. /\ u \in Seq(T) /\ Len(u) = Len(a) + Len(b)
      /\ \A i \in 1 .. Len(a) + Len(b) : u[i] = IF i <= Len(a) THEN a[i] ELSE b[i - Len(a)]
  BY <1>2, <1>3, ConcatProperties
<1> HIDE DEF u
<1>5. IsList(u)
  BY <1>4, ListIn
<1>6. Len(u) = n - 1
  BY <1>1, <1>2, <1>3, <1>4
<1>7. ASSUME NEW i \in 1 .. n - 1 PROVE u[i] = IF i < k THEN s[i] ELSE s[i + 1]
  <2>0. u[i] = IF i <= k - 1 THEN a[i] ELSE b[i - (k - 1)]
    <3>1. Len(a) + Len(b) = n - 1
      BY <1>1, <1>2, <1>3
    <3> QED BY <1>2, <1>4, <3>1
  <2>1. CASE i < k
    <3>1. i \in 1 .. k - 1 /\ i <= k - 1
      BY <1>1, <2>1
    <3> QED BY <1>2, <2>0, <2>1, <3>1
  <2>2. CASE i >= k
    <3>1. i - (k - 1) \in 1 .. n - k /\ k + (i - (k - 1)) = i + 1 /\ ~(i <= k - 1) /\ ~(i < k)
      BY <1>1, <2>2
    <3>2. b[i - (k - 1)] = s[k + (i - (k - 1))]
      BY <1>3, <3>1
    <3> QED BY <2>0, <3>1, <3>2
  <2> QED BY <1>1, <2>1, <2>2
<1> QED BY <1>5, <1>6, <1>7 DEF RemoveAt, a, b, u, n

\* A book that holds what the history says goes on holding it.
LEMMA ReplayStep ==
  ASSUME NEW b, IsBook(b), NEW ds, IsList(ds), NEW d, History(Append(ds, d)),
         b.orders = Resting(ds), d.coin = b.coin
  PROVE  Apply(b, d).orders = Resting(Append(ds, d))
<1> DEFINE t == Append(ds, d)
           al == Alive(ds)
           n == Len(al)
           r == Resting(ds)
           q == Resting(t)
<1>1. /\ IsList(t) /\ Sound(d) /\ History(ds) /\ \A x \in Range(ds) : Follows(x, d)
  BY AppendList, HistoryAppend
<1>2. /\ IsList(al) /\ Range(al) = AliveSet(ds) /\ IsList(r) /\ Len(r) = n
      /\ \A k \in 1 .. n : r[k] = Item(ds, al[k])
  BY RestingIs
<1>3. /\ n \in Nat /\ DOMAIN al = 1 .. n /\ DOMAIN r = 1 .. n
      /\ \A k \in 1 .. n : al[k] \in Range(ds) /\ al[k].kind = "new"
  BY <1>2, ListDomain DEF AliveSet
<1>4. /\ IsList(Alive(t)) /\ IsList(q) /\ Len(q) = Len(Alive(t))
      /\ \A k \in 1 .. Len(Alive(t)) : q[k] = Item(t, Alive(t)[k])
  BY <1>1, RestingIs
<1>5. /\ d.kind = "new" => Alive(t) = Append(al, d)
      /\ d.kind = "update" => Alive(t) = al
      /\ d.kind = "remove" => Alive(t) = Without(al, d.oid)
  BY AliveAppend
<1>6. \A o : LastSize(t, o) = IF d.oid = o.oid /\ d.kind = "update" THEN d.new_sz ELSE LastSize(ds, o)
  BY LastSizeAppend
<1>7. b.orders = r
  OBVIOUS
<1>8. \A oid : Holds(b, oid) <=> \E k \in 1 .. n : al[k].oid = oid
  BY <1>2, <1>3, <1>7 DEF Holds, Item
<1> HIDE DEF al, r, q, t, n
<1>9. CASE d.kind = "new"
  <2>1. \A x \in Range(ds) : x.oid # d.oid
    BY <1>1, <1>9 DEF Follows
  <2>2. ~Holds(b, d.oid)
    BY <1>3, <1>8, <2>1
  <2>3. Apply(b, d).orders = Append(r, OrderOf(d))
    <3>1. d.sz # None /\ BadDecimal \notin {d.px, d.sz}
      BY <1>1, <1>9 DEF Sound
    <3>2. Apply(b, d) = Insert(b, d)
      BY <1>9, <3>1 DEF Apply, ApplyNew
    <3> QED BY <1>7, <2>2, <3>1, <3>2, InsertFine
  <2>4. LastSize(t, d) = d.sz
    <3>1. \A j \in DOMAIN ds : ds[j].oid # d.oid
      BY <2>1, ListDomain
    <3>2. LastSize(ds, d) = d.sz
      BY <3>1 DEF LastSize
    <3> QED BY <1>6, <1>9, <3>2
  <2>5. /\ Len(Alive(t)) = n + 1 /\ Alive(t)[n + 1] = d
        /\ \A k \in 1 .. n : Alive(t)[k] = al[k]
    BY <1>2, <1>5, <1>9, AppendList DEF n
  <2> DEFINE p == Append(r, OrderOf(d))
  <2>6. /\ IsList(p) /\ Len(p) = n + 1 /\ p[n + 1] = OrderOf(d)
        /\ \A k \in 1 .. n : p[k] = r[k]
    BY <1>2, AppendList
  <2> HIDE DEF p
  <2>7. ASSUME NEW k \in 1 .. n + 1 PROVE p[k] = q[k]
    <3>1. CASE k = n + 1
      BY <1>4, <2>4, <2>5, <2>6, <3>1 DEF Item, OrderOf
    <3>2. CASE k # n + 1
      <4>1. k \in 1 .. n
        BY <1>3, <3>2
      <4>2. q[k] = Item(t, al[k]) /\ p[k] = Item(ds, al[k])
        BY <1>2, <1>4, <2>5, <2>6, <4>1
      <4> QED BY <1>6, <1>9, <4>2 DEF Item
    <3> QED BY <3>1, <3>2
  <2>8. p = q
    BY <1>4, <2>5, <2>6, <2>7, ListEqual
  <2> QED BY <2>3, <2>8 DEF p, q, t
<1>10. CASE d.kind = "update"
  <2>1. Apply(b, d).orders = IF Holds(b, d.oid) THEN Resized(r, Slot(b, d.oid), d.new_sz) ELSE r
    <3>1. d.new_sz \notin {None, BadDecimal, 0}
      BY <1>1, <1>10 DEF Sound
    <3>2. Apply(b, d) = ApplyUpdate(b, d)
      BY <1>10 DEF Apply
    <3> QED BY <1>7, <3>1, <3>2, ApplyUpdateFine
  <2>2. Alive(t) = al /\ Len(q) = n /\ \A k \in 1 .. n : q[k] = Item(t, al[k])
    BY <1>4, <1>5, <1>10 DEF n
  <2>3. \A k \in 1 .. n : q[k] = IF al[k].oid = d.oid
                                 THEN [oid |-> r[k].oid, side |-> r[k].side, px |-> r[k].px, sz |-> d.new_sz]
                                 ELSE r[k]
    BY <1>2, <1>6, <1>10, <2>2 DEF Item
  <2>4. CASE Holds(b, d.oid)
    <3> DEFINE i == Slot(b, d.oid)
               p == Resized(r, i, d.new_sz)
    <3>1. i \in 1 .. n /\ \A k \in 1 .. n : al[k].oid = d.oid <=> k = i
      <4>1. i \in 1 .. n /\ r[i].oid = d.oid /\ \A k \in 1 .. n : r[k].oid = d.oid => k = i
        BY <1>3, <1>7, <2>4, SlotFound
      <4>2. \A k \in 1 .. n : r[k].oid = al[k].oid
        BY <1>2 DEF Item
      <4> QED BY <4>1, <4>2
    <3>2. OrdersFine(r)
      BY <1>7 DEF IsBook
    <3>3. /\ OrdersFine(p) /\ Len(p) = n
          /\ \A k \in 1 .. n : p[k] = IF k # i THEN r[k]
                                      ELSE [oid |-> r[k].oid, side |-> r[k].side, px |-> r[k].px,
                                            sz |-> d.new_sz]
      <4> HIDE DEF i
      <4>1. i \in DOMAIN r
        BY <1>3, <3>1
      <4>2. /\ OrdersFine(p) /\ Len(p) = Len(r)
            /\ \A k \in DOMAIN r : p[k] = IF k # i THEN r[k]
                                          ELSE [oid |-> r[k].oid, side |-> r[k].side,
                                                px |-> r[k].px, sz |-> d.new_sz]
        BY <3>2, <4>1, ResizedFine
      <4> HIDE DEF p
      <4> QED BY <1>2, <1>3, <4>2
    <3> HIDE DEF p, i
    <3>4. \A k \in 1 .. n : p[k] = q[k]
      BY <2>3, <3>1, <3>3
    <3>5. p = q
      BY <1>4, <2>2, <3>3, <3>4, ListEqual DEF OrdersFine
    <3> QED BY <2>1, <2>4, <3>5 DEF p, q, t, i
  <2>5. CASE ~Holds(b, d.oid)
    <3>1. \A k \in 1 .. n : r[k] = q[k]
      BY <1>8, <2>3, <2>5
    <3>2. r = q
      BY <1>2, <1>4, <2>2, <3>1, ListEqual
    <3> QED BY <2>1, <2>5, <3>2 DEF q, t
  <2> QED BY <2>4, <2>5
<1>11. CASE d.kind = "remove"
  <2>1. Apply(b, d).orders = IF Holds(b, d.oid) THEN RemoveAt(r, Slot(b, d.oid)) ELSE r
    <3>1. Apply(b, d) = ApplyRemove(b, d)
      BY <1>11 DEF Apply
    <3> QED BY <1>7, <3>1, ApplyRemoveFine
  <2>2. \A o : LastSize(t, o) = LastSize(ds, o)
    BY <1>6, <1>11
  <2>3. Alive(t) = Without(al, d.oid)
    BY <1>5, <1>11
  <2>4. CASE Holds(b, d.oid)
    <3> DEFINE i == Slot(b, d.oid)
               S == {x \in Range(al) : x.oid # d.oid}
               p == RemoveAt(r, i)
               a == RemoveAt(al, i)
    <3>1. i \in 1 .. n /\ \A k \in 1 .. n : al[k].oid = d.oid <=> k = i
      <4>1. i \in 1 .. n /\ r[i].oid = d.oid /\ \A k \in 1 .. n : r[k].oid = d.oid => k = i
        BY <1>3, <1>7, <2>4, SlotFound
      <4>2. \A k \in 1 .. n : r[k].oid = al[k].oid
        BY <1>2 DEF Item
      <4> QED BY <4>1, <4>2
    <3> HIDE DEF i
    <3>2. al[i] \notin S /\ \A k \in DOMAIN al \ {i} : al[k] \in S
      BY <1>2, <1>3, <3>1, ListDomain
    <3>3. Among(al, S) = a
      <4> HIDE DEF S, i
      <4>1. IsList(al) /\ i \in DOMAIN al
        BY <1>2, <1>3, <3>1, ListDomain
      <4> QED BY <3>2, <4>1, AmongAllButOne
    <3>4. Alive(t) = a
      <4> HIDE DEF a
      <4> QED BY <2>3, <3>3, SMTT(30) DEF Without
    <3>5. /\ IsList(a) /\ Len(a) = n - 1
          /\ \A k \in 1 .. n - 1 : a[k] = IF k < i THEN al[k] ELSE al[k + 1]
      BY <1>2, <1>3, <3>1, RemoveAtList DEF n
    <3>6. /\ IsList(p) /\ Len(p) = n - 1
          /\ \A k \in 1 .. n - 1 : p[k] = IF k < i THEN r[k] ELSE r[k + 1]
      BY <1>2, <1>3, <3>1, RemoveAtList
    <3> HIDE DEF a, p
    <3>7. ASSUME NEW k \in 1 .. n - 1 PROVE p[k] = q[k]
      <4>1. q[k] = Item(ds, a[k])
        BY <1>4, <2>2, <3>4, <3>5 DEF Item
      <4>2. k \in 1 .. n /\ k + 1 \in 1 .. n
        BY <1>3
      <4> QED BY <1>2, <3>5, <3>6, <4>1, <4>2
    <3>8. p = q
      BY <1>4, <3>4, <3>5, <3>6, <3>7, ListEqual
    <3> QED BY <2>1, <2>4, <3>8 DEF p, q, t, i
  <2>5. CASE ~Holds(b, d.oid)
    <3> DEFINE S == {x \in Range(al) : x.oid # d.oid}
    <3>1. Range(al) \subseteq S
      <4>1. \A x \in Range(al) : \E k \in 1 .. n : al[k] = x
        BY <1>2, <1>3, ListDomain, SMTT(30)
      <4> QED BY <1>8, <2>5, <4>1
    <3>2. Among(al, S) = al
      <4> HIDE DEF S
      <4> QED BY <1>2, <3>1, AmongAll
    <3>3. Alive(t) = al
      BY <2>3, <3>2 DEF Without
    <3>4. \A k \in 1 .. n : r[k] = q[k]
      BY <1>2, <1>4, <2>2, <3>3, ZenonT(40) DEF Item, n
    <3>5. r = q
      BY <1>2, <1>4, <3>3, <3>4, ListEqual DEF n
    <3> QED BY <2>1, <2>5, <3>5 DEF q, t
  <2> QED BY <2>4, <2>5
<1>12. d.kind \in Kinds
  BY <1>1 DEF Sound, Kinds
<1> QED BY <1>9, <1>10, <1>11, <1>12 DEF Kinds

LEMMA ConcatAppend ==
  ASSUME NEW s, IsList(s), NEW t, IsList(t), NEW x
  PROVE  s \o Append(t, x) = Append(s \o t, x)
<1> DEFINE T == Range(s) \cup Range(t) \cup {x}
           h == s \o t
<1>1. s \in Seq(T) /\ t \in Seq(T) /\ x \in T
  BY DEF IsList
<1> HIDE DEF T
<1>2. h \in Seq(T) /\ <<x>> \in Seq(T)
  BY <1>1, ConcatProperties
<1>3. Append(t, x) = t \o <<x>>
  BY <1>1, AppendIsConcat
<1>4. (s \o t) \o <<x>> = s \o (t \o <<x>>)
  BY <1>1, <1>2, ConcatAssociative
<1> HIDE DEF h
<1>5. Append(h, x) = h \o <<x>>
  BY <1>1, <1>2, AppendIsConcat
<1> QED BY <1>3, <1>4, <1>5 DEF h

LEMMA ConcatNothing ==
  ASSUME NEW s, IsList(s)
  PROVE  s \o <<>> = s /\ <<>> \o s = s
BY ConcatEmptySeq DEF IsList

LEMMA ListConcat ==
  ASSUME NEW s, IsList(s), NEW t, IsList(t), NEW u, IsList(u)
  PROVE  s \o (t \o u) = (s \o t) \o u
<1> DEFINE T == Range(s) \cup Range(t) \cup Range(u)
<1>1. s \in Seq(T) /\ t \in Seq(T) /\ u \in Seq(T)
  BY DEF IsList
<1> HIDE DEF T
<1> QED BY <1>1, ConcatAssociative

ApplyOp(c, b, d) == Apply(b, d)
Player == INSTANCE Folding WITH Op <- ApplyOp, Good <- Keeps

LEMMA PlayFolds == \A c, b, ds : Player!Folded(c, b, ds) = Fold(Apply, b, ds)
BY DEF Player!Folded, Player!Fold, Fold, ApplyOp

LEMMA PlayEmpty == \A b : Fold(Apply, b, <<>>) = b
BY PlayFolds, Player!FoldEmpty

LEMMA PlayAppend ==
  ASSUME NEW b, NEW ds, IsList(ds), NEW d
  PROVE  Fold(Apply, b, Append(ds, d)) = Apply(Fold(Apply, b, ds), d)
<1> DEFINE T == Range(ds) \cup {d}
<1>1. ds \in Seq(T) /\ d \in T
  BY DEF IsList
<1> HIDE DEF T
<1>2. Player!Folded(0, b, Append(ds, d)) = ApplyOp(0, Player!Folded(0, b, ds), d)
  BY <1>1, Player!FoldAppend
<1> QED BY <1>2, PlayFolds DEF ApplyOp

LEMMA PlayFine ==
  ASSUME NEW b, IsBook(b), NEW ds, IsList(ds), \A d \in Range(ds) : d.kind \in Kinds
  PROVE  Keeps(b, Fold(Apply, b, ds))
<1>1. Len(ds) \in Nat /\ \A i \in 1 .. Len(ds) : ds[i].kind \in Kinds
  BY ListDomain
<1>2. Keeps(b, b)
  BY DEF Keeps, IsBook
<1>3. ASSUME NEW a, NEW i, Keeps(b, a) /\ i \in 1 .. Len(ds) PROVE Keeps(b, ApplyOp(b, a, ds[i]))
  <2>1. Keeps(a, Apply(a, ds[i]))
    BY <1>1, <1>3, ApplyFine DEF Keeps
  <2> QED BY <1>3, <2>1 DEF Keeps, ApplyOp, IsBook
<1>4. Keeps(b, Player!Folded(b, b, ds))
  BY <1>1, <1>2, <1>3, Player!FoldKeeps
<1> QED BY <1>4, PlayFolds

\* A book that holds what the history says still does after what follows.
LEMMA PlayHistory ==
  ASSUME NEW b, IsBook(b), NEW ds, IsList(ds), NEW es, IsList(es), History(ds \o es),
         b.orders = Resting(ds), \A d \in Range(es) : d.coin = b.coin
  PROVE  Keeps(b, Fold(Apply, b, es)) /\ Fold(Apply, b, es).orders = Resting(ds \o es)
<1> DEFINE T == Range(es)
           P == {r \in Seq(T) : History(ds \o r) => Fold(Apply, b, r).orders = Resting(ds \o r)}
<1>1. \A d \in T : d.kind \in Kinds /\ d.coin = b.coin
  BY ConcatList DEF History, Sound, Kinds
<1>2. <<>> \in P
  <2>1. <<>> \in Seq(T)
    OBVIOUS
  <2> QED BY <2>1, PlayEmpty, ConcatNothing
<1>3. \A r \in Seq(T), x \in T : r \in P => Append(r, x) \in P
  <2> SUFFICES ASSUME NEW r \in Seq(T), NEW x \in T, r \in P, History(ds \o Append(r, x))
               PROVE  Fold(Apply, b, Append(r, x)).orders = Resting(ds \o Append(r, x))
    BY AppendProperties
  <2>1. IsList(r) /\ Range(r) \subseteq T
    BY ListIn
  <2>2. ds \o Append(r, x) = Append(ds \o r, x) /\ IsList(ds \o r)
    <3>1. ds \o Append(r, x) = Append(ds \o r, x)
      BY <2>1, ConcatAppend
    <3> QED BY <2>1, <3>1, ConcatList
  <2> DEFINE h == ds \o r
             a == Fold(Apply, b, r)
  <2>3. IsList(h) /\ History(Append(h, x)) /\ (History(h) => a.orders = Resting(h))
    BY <2>2
  <2>4. Keeps(b, a)
    BY <1>1, <2>1, PlayFine
  <2>5. Fold(Apply, b, Append(r, x)) = Apply(a, x)
    BY <2>1, PlayAppend
  <2> HIDE DEF h, a
  <2>6. a.orders = Resting(h)
    BY <2>3, HistoryAppend
  <2>7. Apply(a, x).orders = Resting(Append(h, x))
    BY <1>1, <2>3, <2>4, <2>6, ReplayStep DEF Keeps
  <2> QED BY <2>2, <2>5, <2>7 DEF h
<1>4. Keeps(b, Fold(Apply, b, es))
  BY <1>1, PlayFine
<1> HIDE DEF P
<1>5. Seq(T) \subseteq P
  BY <1>2, <1>3, Filter!SequenceInduction
<1> QED BY <1>4, <1>5 DEF P, IsList

LEMMA RestingNothing == Resting(<<>>) = <<>>
<1>1. Alive(<<>>) = <<>>
  BY AmongEmpty DEF Alive
<1>2. IsList(Resting(<<>>)) /\ Len(Resting(<<>>)) = 0
  BY <1>1, EmptyList, RestingIs
<1> QED BY <1>2, EmptyList, ListEqual

\* What a history says could be the orders of a book.
LEMMA RestingFine ==
  ASSUME NEW ds, History(ds), NEW c, \A d \in Range(ds) : d.coin = c
  PROVE  /\ OrdersFine(Resting(ds))
         /\ \A o \in Range(Resting(ds)) : BadDecimal \notin {o.px, o.sz}
<1> DEFINE b == EmptyBook(c)
<1>1. IsList(ds) /\ \A d \in Range(ds) : Sound(d)
  BY DEF History
<1>2. OrdersFine(Resting(ds))
  <2>1. IsBook(b) /\ b.coin = c /\ b.orders = Resting(<<>>)
    BY EmptyBookFine, RestingNothing
  <2> HIDE DEF b
  <2>2. IsList(<<>>) /\ <<>> \o ds = ds
    BY <1>1, EmptyList, ConcatNothing
  <2>3. Keeps(b, Fold(Apply, b, ds)) /\ Fold(Apply, b, ds).orders = Resting(<<>> \o ds)
    <3>1. History(<<>> \o ds)
      BY <2>2
    <3> QED BY <1>1, <2>1, <2>2, <3>1, PlayHistory
  <2> QED BY <2>2, <2>3 DEF Keeps, IsBook
<1>3. ASSUME NEW o \in Range(Resting(ds)) PROVE BadDecimal \notin {o.px, o.sz}
  <2>1. /\ IsList(Resting(ds)) /\ IsList(Alive(ds)) /\ Len(Resting(ds)) = Len(Alive(ds))
        /\ Range(Alive(ds)) = AliveSet(ds)
        /\ \A k \in 1 .. Len(Alive(ds)) : Resting(ds)[k] = Item(ds, Alive(ds)[k])
    BY <1>1, RestingIs
  <2>2. PICK k \in 1 .. Len(Alive(ds)) : Resting(ds)[k] = o
    BY <2>1, ListDomain
  <2> DEFINE x == Alive(ds)[k]
             U == {j \in DOMAIN ds : ds[j].oid = x.oid /\ ds[j].kind = "update"}
  <2>3. x \in Range(ds) /\ x.kind = "new"
    BY <2>1, <2>2, ListDomain DEF AliveSet
  <2>4. o.px = x.px /\ o.sz = LastSize(ds, x)
    <3>1. o = Item(ds, x)
      BY <2>1, <2>2
    <3> HIDE DEF x
    <3> QED BY <3>1 DEF Item
  <2> HIDE DEF x
  <2>5. x.px # BadDecimal /\ x.sz # BadDecimal
    BY <1>1, <2>3 DEF Sound
  <2>6. CASE U = {}
    BY <2>4, <2>5, <2>6 DEF LastSize
  <2>7. CASE U # {}
    <3>1. U \subseteq 1 .. Len(ds) /\ Len(ds) \in Nat
      BY <1>1, ListDomain
    <3> DEFINE m == Max(U)
    <3>2. m \in U
      <4> HIDE DEF U
      <4> QED BY <2>7, <3>1, GreatestExists
    <3>3. o.sz = ds[m].new_sz
      BY <2>4, <2>7 DEF LastSize
    <3> HIDE DEF m
    <3>4. ds[m] \in Range(ds) /\ ds[m].kind = "update"
      BY <1>1, <3>2, ListDomain
    <3> QED BY <1>1, <2>4, <2>5, <3>3, <3>4 DEF Sound
  <2> QED BY <2>6, <2>7
<1> QED BY <1>2, <1>3

InsertOp(c, b, o) == Insert(b, o)
Loader == INSTANCE Folding WITH Op <- InsertOp, Good <- Keeps

LEMMA LoadFolds == \A c, b, s : Loader!Folded(c, b, s) = Fold(Insert, b, s)
BY DEF Loader!Folded, Loader!Fold, Fold, InsertOp

\* The orders of a snapshot, inserted one after the other.
LEMMA InsertAll ==
  ASSUME NEW b, IsBook(b), b.orders = <<>>, NEW s, OrdersFine(s),
         \A o \in Range(s) : BadDecimal \notin {o.px, o.sz}
  PROVE  Keeps(b, Fold(Insert, b, s)) /\ Fold(Insert, b, s).orders = s
<1> DEFINE T == Range(s)
           P == {r \in Seq(T) : OidsOnce(r) => /\ Keeps(b, Fold(Insert, b, r))
                                               /\ Fold(Insert, b, r).orders = r}
<1>1. \A o \in T : IsOrder(o) /\ BadDecimal \notin {o.px, o.sz}
  BY DEF OrdersFine
<1>2. <<>> \in P
  <2>1. Fold(Insert, b, <<>>) = b
    BY LoadFolds, Loader!FoldEmpty
  <2>2. Keeps(b, b)
    BY DEF Keeps, IsBook
  <2>3. <<>> \in Seq(T)
    OBVIOUS
  <2> QED BY <2>1, <2>2, <2>3
<1>3. \A r \in Seq(T), x \in T : r \in P => Append(r, x) \in P
  <2> SUFFICES ASSUME NEW r \in Seq(T), NEW x \in T, r \in P, OidsOnce(Append(r, x))
               PROVE  /\ Keeps(b, Fold(Insert, b, Append(r, x)))
                      /\ Fold(Insert, b, Append(r, x)).orders = Append(r, x)
    BY AppendProperties
  <2> DEFINE a == Fold(Insert, b, r)
             n == Len(r)
             t == Append(r, x)
  <2>1. /\ IsList(r) /\ n \in Nat /\ DOMAIN r = 1 .. n /\ DOMAIN t = 1 .. n + 1
        /\ t[n + 1] = x /\ \A i \in 1 .. n : t[i] = r[i]
    BY ListIn, AppendProperties
  <2>2. \A i \in 1 .. n : i \in 1 .. n + 1 /\ i # n + 1 /\ n + 1 \in 1 .. n + 1
    BY <2>1
  <2>3. OidsOnce(r) /\ \A i \in 1 .. n : r[i].oid # x.oid
    <3> HIDE DEF n, t
    <3> QED BY <2>1, <2>2 DEF OidsOnce, t
  <2>4. Keeps(b, a) /\ a.orders = r
    BY <2>3
  <2>5. Fold(Insert, b, t) = Insert(a, x)
    <3>1. Loader!Folded(0, b, Append(r, x)) = InsertOp(0, Loader!Folded(0, b, r), x)
      BY Loader!FoldAppend
    <3> QED BY <3>1, LoadFolds DEF InsertOp
  <2> HIDE DEF a, n, t
  <2>6. ~Holds(a, x.oid)
    BY <2>1, <2>3, <2>4 DEF Holds
  <2>7. Keeps(a, Insert(a, x)) /\ Insert(a, x).orders = Append(a.orders, OrderOf(x))
    <3>1. IsBook(a) /\ BadDecimal \notin {x.px, x.sz}
      BY <1>1, <2>4 DEF Keeps
    <3> QED BY <2>6, <3>1, InsertFine
  <2>8. OrderOf(x) = x
    BY <1>1 DEF OrderOf, IsOrder
  <2>9. Keeps(b, Insert(a, x))
    BY <2>4, <2>7 DEF Keeps, IsBook
  <2> QED BY <2>4, <2>5, <2>7, <2>8, <2>9 DEF t
<1> HIDE DEF P
<1>4. s \in P
  BY <1>2, <1>3, Loader!SequenceInduction DEF OrdersFine, IsList
<1> QED BY <1>4 DEF P, OrdersFine

Loaded(n, c, h, s) ==
    IsBook(n) /\ n.coin = c /\ n.height = h /\ n.stale = FALSE /\ n.orders = s

LEMMA LoadSnapshotFine ==
  ASSUME NEW book, NEW c, NEW h, NEW s, OrdersFine(s),
         \A o \in Range(s) : BadDecimal \notin {o.px, o.sz}
  PROVE  Loaded(LoadSnapshot(book, [coin |-> c, height |-> h, orders |-> s]), c, h, s)
<1> DEFINE r == IF book.coin = c THEN EmptyBook(c) ELSE Anomaly(EmptyBook(c))
           n == LoadSnapshot(book, [coin |-> c, height |-> h, orders |-> s])
           f == Fold(Insert, r, s)
<1>1. IsBook(r) /\ r.coin = c /\ r.stale = FALSE /\ r.orders = <<>>
  <2> DEFINE e == EmptyBook(c)
  <2>1. IsBook(e) /\ e.coin = c /\ e.stale = FALSE /\ e.orders = <<>>
    BY EmptyBookFine
  <2> HIDE DEF e
  <2>2. Keeps(e, Anomaly(e)) /\ Anomaly(e).orders = e.orders
    BY <2>1, AnomalyFine
  <2> QED BY <2>1, <2>2 DEF Keeps, e
<1>2. n = [f EXCEPT !.height = h]
  BY DEF LoadSnapshot
<1> HIDE DEF r, n
<1>3. Keeps(r, f) /\ f.orders = s
  BY <1>1, InsertAll
<1> HIDE DEF f
<1>4. IsBook(n) /\ n.coin = c /\ n.height = h /\ n.stale = FALSE /\ n.orders = s
  BY <1>1, <1>2, <1>3 DEF Keeps, IsBook
<1> QED BY <1>4 DEF Loaded, n

\* A block: what it makes of the book, and when the book is stale after it.
LEMMA ApplyBlockFine ==
  ASSUME NEW b, IsBook(b), NEW height, NEW ds, IsList(ds), \A d \in Range(ds) : d.kind \in Kinds
  PROVE  LET n == ApplyBlock(b, [height |-> height, diffs |-> ds])
         IN  /\ IsBook(n) /\ n.coin = b.coin /\ n.height = height
             /\ n.stale = (b.stale \/ (b.height # None /\ height # b.height + 1))
             /\ n.anomaly_count >= b.anomaly_count
             /\ \A es : (/\ IsList(es) /\ History(es \o ds) /\ b.orders = Resting(es)
                         /\ \A d \in Range(ds) : d.coin = b.coin)
                           => n.orders = Resting(es \o ds)
<1> DEFINE gap == b.height # None /\ height # b.height + 1
           g == IF gap THEN [Anomaly(b) EXCEPT !.stale = TRUE] ELSE b
           f == Fold(Apply, g, ds)
           n == ApplyBlock(b, [height |-> height, diffs |-> ds])
<1>1. n = [f EXCEPT !.height = height]
  BY DEF ApplyBlock
<1>2. /\ IsBook(g) /\ g.coin = b.coin /\ g.orders = b.orders /\ g.stale = (b.stale \/ gap)
      /\ g.anomaly_count >= b.anomaly_count
  <2> DEFINE e == Anomaly(b)
  <2>1. Keeps(b, e) /\ e.orders = b.orders
    BY AnomalyFine
  <2> HIDE DEF e
  <2>2. /\ IsBook([e EXCEPT !.stale = TRUE])
        /\ [e EXCEPT !.stale = TRUE].coin = b.coin
        /\ [e EXCEPT !.stale = TRUE].orders = b.orders
        /\ [e EXCEPT !.stale = TRUE].stale = TRUE
        /\ [e EXCEPT !.stale = TRUE].anomaly_count >= b.anomaly_count
    BY <2>1 DEF Keeps, IsBook
  <2> HIDE DEF gap
  <2>3. CASE gap
    BY <2>2, <2>3 DEF e
  <2>4. CASE ~gap
    BY <2>4 DEF IsBook
  <2> QED BY <2>3, <2>4
<1> HIDE DEF g, n, gap
<1>3. Keeps(g, f)
  BY <1>2, PlayFine
<1>4. ASSUME NEW es, IsList(es), History(es \o ds), b.orders = Resting(es),
             \A d \in Range(ds) : d.coin = b.coin
      PROVE  f.orders = Resting(es \o ds)
  BY <1>2, <1>4, PlayHistory
<1> HIDE DEF f
<1>5. /\ IsBook(n) /\ n.coin = f.coin /\ n.height = height /\ n.stale = f.stale
      /\ n.anomaly_count = f.anomaly_count /\ n.orders = f.orders
  BY <1>1, <1>3 DEF Keeps, IsBook
<1>6. n.anomaly_count >= b.anomaly_count
  BY <1>2, <1>3, <1>5 DEF Keeps, IsBook
<1> QED BY <1>2, <1>3, <1>4, <1>5, <1>6 DEF Keeps, n, gap

-----------------------------------------------------------------------------
(* The chain *)

OneEach(ch) == \A h \in DOMAIN ch : Len(ch[h].diffs) = 1

ChainFine(ch) ==
    /\ IsList(ch)
    /\ \A h \in DOMAIN ch : ch[h].drift \in Drifts /\ History(ch[h].diffs)
    /\ \A g, h \in DOMAIN ch : g < h =>
          \A x \in Range(ch[g].diffs), y \in Range(ch[h].diffs) : Follows(x, y)

\* The blocks sealed so far stay as they are.
Grown(ch, new) == Len(ch) <= Len(new) /\ \A h \in DOMAIN ch : new[h] = ch[h]

LEMMA ChainsFine ==
  ASSUME NEW c \in Chains
  PROVE  ChainFine(c)
<1>1. /\ IsList(c)
      /\ \A h \in DOMAIN c :
            /\ c[h].drift \in Drifts
            /\ IsList(c[h].diffs)
            /\ \A i \in DOMAIN c[h].diffs : Sound(c[h].diffs[i])
      /\ \A g, h \in DOMAIN c : \A i \in DOMAIN c[g].diffs, j \in DOMAIN c[h].diffs :
            g < h \/ (g = h /\ i < j) => Follows(c[g].diffs[i], c[h].diffs[j])
  BY ChainsAssumption
<1>2. ASSUME NEW h \in DOMAIN c PROVE History(c[h].diffs)
  <2> DEFINE ds == c[h].diffs
  <2>1. IsList(ds) /\ \A i \in DOMAIN ds : Sound(ds[i])
    BY <1>1
  <2>2. \A i, j \in DOMAIN ds : i < j => Follows(ds[i], ds[j])
    BY <1>1
  <2> HIDE DEF ds
  <2>3. \A d \in Range(ds) : Sound(d)
    BY <2>1, ListDomain
  <2> QED BY <2>1, <2>2, <2>3 DEF History, ds
<1>3. ASSUME NEW g \in DOMAIN c, NEW h \in DOMAIN c, g < h,
             NEW x \in Range(c[g].diffs), NEW y \in Range(c[h].diffs)
      PROVE  Follows(x, y)
  <2>1. PICK i \in DOMAIN c[g].diffs : c[g].diffs[i] = x
    BY <1>1, ListDomain
  <2>2. PICK j \in DOMAIN c[h].diffs : c[h].diffs[j] = y
    BY <1>1, ListDomain
  <2> QED BY <1>1, <1>3, <2>1, <2>2
<1> QED BY <1>1, <1>2, <1>3 DEF ChainFine

LEMMA SealedFine ==
  ASSUME ChainFine(chain), Sealed, source = "events" => OneEach(chain)
  PROVE  /\ ChainFine(chain') /\ Grown(chain, chain') /\ Len(chain') = Len(chain) + 1
         /\ source = "events" => OneEach(chain')
<1> DEFINE n == Len(chain)
<1>1. PICK c \in Chains : /\ n < Len(c) /\ SubSeq(c, 1, n) = chain
                          /\ source = "events" => \A h \in DOMAIN c : Len(c[h].diffs) = 1
                          /\ chain' = Append(chain, c[n + 1])
  BY DEF Sealed
<1>2. ChainFine(c)
  BY ChainsFine
<1>3. IsList(chain) /\ n \in Nat /\ DOMAIN chain = 1 .. n
  BY ListDomain DEF ChainFine
<1>4. /\ IsList(chain') /\ Len(chain') = n + 1 /\ DOMAIN chain' = 1 .. n + 1 /\ chain'[n + 1] = c[n + 1]
      /\ \A h \in 1 .. n : chain'[h] = chain[h]
  BY <1>1, <1>3, AppendList
<1>5. IsList(c) /\ Len(c) \in Nat /\ DOMAIN c = 1 .. Len(c)
  BY <1>2, ListDomain DEF ChainFine
<1>6. \A h \in 1 .. n : SubSeq(c, 1, n)[h] = c[h]
  BY <1>1, <1>3, <1>5
<1> HIDE DEF n
<1>7. \A h \in 1 .. n : chain[h] = c[h]
  BY <1>1, <1>6
<1>8. ASSUME NEW h \in 1 .. n + 1 PROVE chain'[h] = c[h] /\ h \in DOMAIN c
  <2>1. h \in 1 .. n \/ h = n + 1
    BY <1>3
  <2>2. h \in 1 .. Len(c)
    BY <1>1, <1>3, <1>5
  <2> QED BY <1>4, <1>5, <1>7, <2>1, <2>2
<1>9. ChainFine(chain')
  BY <1>2, <1>4, <1>8 DEF ChainFine
<1>10. source = "events" => OneEach(chain')
  BY <1>1, <1>4, <1>8 DEF OneEach
<1>11. Grown(chain, chain')
  BY <1>3, <1>4 DEF Grown, n
<1> QED BY <1>4, <1>9, <1>10, <1>11 DEF n

LEMMA OfCoinFine ==
  ASSUME NEW ds, IsList(ds), NEW c
  PROVE  /\ IsList(OfCoin(ds, c)) /\ Range(OfCoin(ds, c)) = {d \in Range(ds) : d.coin = c}
         /\ History(ds) => History(OfCoin(ds, c))
<1> DEFINE S == {d \in Range(ds) : d.coin = c}
<1>1. OfCoin(ds, c) = Among(ds, S)
  BY DEF OfCoin, Only
<1>2. Range(ds) \cap S = S
  OBVIOUS
<1> HIDE DEF S
<1>3. IsList(Among(ds, S)) /\ Range(Among(ds, S)) = S
  BY <1>2, AmongList
<1>4. History(ds) => History(Among(ds, S))
  BY HistoryAmong
<1> QED BY <1>1, <1>3, <1>4 DEF S

LEMMA AllowedFine ==
  ASSUME NEW ds, IsList(ds)
  PROVE  /\ IsList(Allowed(ds)) /\ Range(Allowed(ds)) = {d \in Range(ds) : d.coin \in Tracked}
         /\ \A c \in Tracked : OfCoin(Allowed(ds), c) = OfCoin(ds, c)
<1> DEFINE S == {d \in Range(ds) : d.coin \in Tracked}
<1>1. Allowed(ds) = Among(ds, S)
  BY DEF Allowed, Only
<1>2. IsList(Among(ds, S)) /\ Range(Among(ds, S)) = S
  <2>1. Range(ds) \cap S = S
    OBVIOUS
  <2> HIDE DEF S
  <2> QED BY <2>1, AmongList
<1>3. ASSUME NEW c \in Tracked PROVE OfCoin(Allowed(ds), c) = OfCoin(ds, c)
  <2> DEFINE A == {d \in Range(ds) : d.coin = c}
             B == {d \in S : d.coin = c}
  <2>1. OfCoin(ds, c) = Among(ds, A)
    BY DEF OfCoin, Only
  <2>2. OfCoin(Allowed(ds), c) = Among(Among(ds, S), B)
    BY <1>1, <1>2 DEF OfCoin, Only
  <2>3. \A d \in Range(ds) : d \in S \cap B <=> d \in A
    OBVIOUS
  <2> HIDE DEF A, B, S
  <2>4. Among(ds, S \cap B) = Among(ds, A)
    BY <2>3, AmongSame
  <2> QED BY <2>1, <2>2, <2>4, AmongTwice
<1> QED BY <1>1, <1>2, <1>3

\* DiffsOf() of any chain.
DiffsIn(ch, coin, from, to) ==
    Fold(LAMBDA ds, block : ds \o OfCoin(block.diffs, coin), <<>>, SubSeq(ch, from, to))

GatherOp(c, ds, block) == ds \o OfCoin(block.diffs, c)
Gather == INSTANCE Folding WITH Op <- GatherOp, Good <- NoMatter

LEMMA GatherFolds ==
  \A ch, c, from, to : DiffsIn(ch, c, from, to) = Gather!Folded(c, <<>>, SubSeq(ch, from, to))
BY DEF DiffsIn, Gather!Folded, Gather!Fold, Fold, GatherOp

LEMMA DiffsNone ==
  ASSUME NEW ch, NEW c, NEW from \in Int, NEW to \in Int, from > to
  PROVE  DiffsIn(ch, c, from, to) = <<>>
<1>1. SubSeq(ch, from, to) = <<>>
  OBVIOUS
<1> QED BY <1>1, GatherFolds, Gather!FoldEmpty

LEMMA SubSeqMore ==
  ASSUME NEW ch, IsList(ch), NEW from \in Nat, NEW to \in Nat,
         1 <= from, from <= to + 1, to + 1 <= Len(ch)
  PROVE  /\ SubSeq(ch, from, to) \in Seq(Range(ch)) /\ ch[to + 1] \in Range(ch)
         /\ SubSeq(ch, from, to + 1) = Append(SubSeq(ch, from, to), ch[to + 1])
<1> DEFINE s == SubSeq(ch, from, to)
           t == SubSeq(ch, from, to + 1)
           T == Range(ch)
           x == ch[to + 1]
<1>1. /\ Len(ch) \in Nat /\ DOMAIN ch = 1 .. Len(ch)
      /\ \A i \in 1 .. Len(ch) : ch[i] \in T
  BY ListDomain
<1>2. s \in Seq(T) /\ x \in T /\ t = Append(s, x)
  <2> HIDE DEF T
  <2>1. \A i \in from .. to : ch[i] \in T
    BY <1>1
  <2>2. \A i \in from .. to + 1 : ch[i] \in T
    BY <1>1
  <2>3. /\ s \in Seq(T) /\ Len(s) = to - from + 1
        /\ \A i \in 1 .. to - from + 1 : s[i] = ch[from + i - 1]
    BY <2>1, SubSeqProperties
  <2>4. /\ t \in Seq(T) /\ Len(t) = (to + 1) - from + 1
        /\ \A i \in 1 .. (to + 1) - from + 1 : t[i] = ch[from + i - 1]
    BY <2>2, SubSeqProperties
  <2>5. x \in T
    BY <1>1
  <2> DEFINE n == to - from + 1
             u == Append(s, x)
  <2>6. n \in Nat /\ (to + 1) - from + 1 = n + 1 /\ from + (n + 1) - 1 = to + 1
    OBVIOUS
  <2> HIDE DEF s, t, n
  <2>7. u \in Seq(T) /\ Len(u) = n + 1 /\ u[n + 1] = x /\ \A i \in 1 .. n : u[i] = s[i]
    BY <2>3, <2>5, <2>6, AppendProperties DEF n
  <2> HIDE DEF u
  <2>8. ASSUME NEW i \in 1 .. n + 1 PROVE t[i] = u[i]
    <3>1. i \in 1 .. n \/ i = n + 1
      BY <2>6
    <3>2. t[i] = ch[from + i - 1]
      BY <2>4, <2>6
    <3>3. i \in 1 .. n => s[i] = ch[from + i - 1]
      BY <2>3 DEF n
    <3> QED BY <2>6, <2>7, <3>1, <3>2, <3>3
  <2>9. t = u
    BY <2>4, <2>6, <2>7, <2>8, SeqEqual
  <2> QED BY <2>3, <2>5, <2>9 DEF u
<1> QED BY <1>2

LEMMA DiffsMore ==
  ASSUME NEW ch, IsList(ch), NEW c, NEW from \in Nat, NEW to \in Nat,
         1 <= from, from <= to + 1, to + 1 <= Len(ch)
  PROVE  DiffsIn(ch, c, from, to + 1) = DiffsIn(ch, c, from, to) \o OfCoin(ch[to + 1].diffs, c)
<1> DEFINE s == SubSeq(ch, from, to)
           x == ch[to + 1]
           T == Range(ch)
<1>1. s \in Seq(T) /\ x \in T /\ SubSeq(ch, from, to + 1) = Append(s, x)
  BY SubSeqMore
<1> HIDE DEF s, x, T
<1>2. Gather!Folded(c, <<>>, Append(s, x)) = GatherOp(c, Gather!Folded(c, <<>>, s), x)
  BY <1>1, Gather!FoldAppend
<1> QED BY <1>1, <1>2, GatherFolds DEF GatherOp, s, x

LEMMA SubSeqSame ==
  ASSUME NEW s, NEW t, NEW from \in Int, NEW to \in Int, \A i \in from .. to : s[i] = t[i]
  PROVE  SubSeq(s, from, to) = SubSeq(t, from, to)
<1>1. \A i \in 1 .. (1 + to - from) : i + from - 1 \in from .. to
  OBVIOUS
<1> QED BY <1>1

LEMMA DiffsGrown ==
  ASSUME NEW ch, IsList(ch), NEW new, IsList(new), Grown(ch, new),
         NEW c, NEW from \in Nat, NEW to \in Nat, 1 <= from, to <= Len(ch)
  PROVE  DiffsIn(new, c, from, to) = DiffsIn(ch, c, from, to)
<1>1. Len(ch) \in Nat /\ DOMAIN ch = 1 .. Len(ch)
  BY ListDomain
<1>2. \A i \in 1 .. (1 + to - from) : i + from - 1 \in 1 .. Len(ch)
  BY <1>1
<1>3. SubSeq(new, from, to) = SubSeq(ch, from, to)
  BY <1>1, <1>2 DEF Grown
<1> QED BY <1>3, GatherFolds

\* What was announced of a coin over some heights is a history of that coin.
LEMMA DiffsFine ==
  ASSUME NEW ch, ChainFine(ch), NEW c, NEW from \in Nat, NEW to \in Nat, 1 <= from, to <= Len(ch)
  PROVE  /\ History(DiffsIn(ch, c, from, to))
         /\ \A d \in Range(DiffsIn(ch, c, from, to)) :
               d.coin = c /\ \E h \in from .. to : d \in Range(ch[h].diffs)
<1> DEFINE D(k) == DiffsIn(ch, c, from, k)
           Fine(k) == /\ History(D(k))
                      /\ \A d \in Range(D(k)) : d.coin = c /\ \E h \in from .. k : d \in Range(ch[h].diffs)
           A == {k \in Nat : k <= Len(ch) => Fine(k)}
<1>1. IsList(ch) /\ Len(ch) \in Nat /\ DOMAIN ch = 1 .. Len(ch)
  BY ListDomain DEF ChainFine
<1>2. ASSUME NEW k \in Nat, k < from PROVE Fine(k)
  <2>1. D(k) = <<>>
    BY <1>2, DiffsNone
  <2>2. Range(<<>>) = {}
    BY DEF Range
  <2> QED BY <2>1, <2>2, EmptyList DEF History
<1>3. 0 \in A
  BY <1>2
<1> HIDE DEF Fine
<1>4. \A k \in Nat : k \in A => k + 1 \in A
  <2> SUFFICES ASSUME NEW k \in Nat, k <= Len(ch) => Fine(k), k + 1 <= Len(ch)
               PROVE  Fine(k + 1)
    OBVIOUS
  <2>1. CASE k + 1 < from
    BY <1>2, <2>1
  <2>2. CASE from <= k + 1
    <3> DEFINE e == OfCoin(ch[k + 1].diffs, c)
               f == D(k)
    <3>1. D(k + 1) = f \o e
      BY <1>1, <2>2, DiffsMore
    <3>2. k + 1 \in DOMAIN ch /\ History(ch[k + 1].diffs)
      BY <1>1 DEF ChainFine
    <3>3. History(e) /\ Range(e) = {d \in Range(ch[k + 1].diffs) : d.coin = c}
      BY <3>2, OfCoinFine DEF History
    <3>4. History(f) /\ \A d \in Range(f) : d.coin = c /\ \E h \in from .. k : d \in Range(ch[h].diffs)
      BY <1>1 DEF Fine
    <3> HIDE DEF e, f
    <3>5. ASSUME NEW x \in Range(f), NEW y \in Range(e) PROVE Follows(x, y)
      <4>1. PICK h \in from .. k : x \in Range(ch[h].diffs)
        BY <3>4
      <4>2. h \in DOMAIN ch /\ h < k + 1
        BY <1>1
      <4> QED BY <3>2, <3>3, <4>1, <4>2 DEF ChainFine
    <3>6. History(f \o e)
      BY <3>3, <3>4, <3>5, HistoryConcat
    <3>7. Range(f \o e) = Range(f) \cup Range(e)
      BY <3>3, <3>4, ConcatList DEF History
    <3>8. ASSUME NEW d \in Range(f \o e)
          PROVE  d.coin = c /\ \E h \in from .. k + 1 : d \in Range(ch[h].diffs)
      <4>1. from .. k \subseteq from .. k + 1 /\ k + 1 \in from .. k + 1
        BY <2>2
      <4> QED BY <3>3, <3>4, <3>7, <4>1
    <3> QED BY <3>1, <3>6, <3>8 DEF Fine
  <2> QED BY <2>1, <2>2
<1> HIDE DEF A
<1>5. to \in A
  BY <1>3, <1>4, Gather!SetInduction
<1> QED BY <1>5 DEF A, Fine

-----------------------------------------------------------------------------
(* Documents and what is parsed of them *)

\* What a parse of the document of some diffs comes to.
ParsedBlock(item, skips, height, ds) ==
    /\ item.kind = "block" /\ item.height = height /\ IsList(item.diffs)
    /\ item = [kind |-> "block", height |-> height, diffs |-> item.diffs]
    /\ Range(item.diffs) \subseteq Range(ds)
    /\ skips = 0 => item.diffs = ds

LEMMA BlockParsed ==
  ASSUME NEW line, line.shape = "block", NEW ds, IsList(ds), IsList(line.elements),
         Len(line.elements) = Len(ds), \A i \in 1 .. Len(ds) : line.elements[i].diff = ds[i],
         NEW strict \in BOOLEAN
  PROVE  /\ SkipsOf(line) \in Nat
         /\ \/ ParseLine(line, strict) = Raised /\ strict
            \/ ParseLine(line, strict) = Nothing /\ SkipsOf(line) # 0
            \/ ParsedBlock(ParseLine(line, strict), SkipsOf(line), line.height, ds)
<1> DEFINE es == line.elements
           S == {e \in Range(es) : Usable(e)}
           R == {e \in Range(es) : ~Usable(e)}
           used == Among(es, S)
           bad == Among(es, R)
           n == Len(ds)
           got == [i \in DOMAIN used |-> used[i].diff]
           item == [kind |-> "block", height |-> line.height, diffs |-> got]
           missing == IF ParseLine(line, FALSE) = Nothing THEN 1 ELSE 0
<1>1. /\ n \in Nat /\ DOMAIN ds = 1 .. n /\ DOMAIN es = 1 .. n
      /\ \A x \in Range(es) : \E i \in 1 .. n : es[i] = x
      /\ \A i \in 1 .. n : ds[i] \in Range(ds)
  <2>0. IsList(es) /\ Len(es) = Len(ds)
    OBVIOUS
  <2> HIDE DEF es
  <2>1. n \in Nat /\ DOMAIN ds = 1 .. n /\ \A i \in 1 .. n : ds[i] \in Range(ds)
    BY ListDomain
  <2>2. DOMAIN es = 1 .. n /\ \A x \in Range(es) : \E i \in DOMAIN es : es[i] = x
    BY <2>0, ListDomain
  <2> QED BY <2>1, <2>2
<1>2. Only(es, Usable) = used /\ Only(es, LAMBDA e : ~Usable(e)) = bad
  BY DEF Only
<1>3. /\ IsList(used) /\ Range(used) = S /\ IsList(bad) /\ Range(bad) = R
  <2>1. Range(es) \cap S = S /\ Range(es) \cap R = R
    OBVIOUS
  <2> HIDE DEF S, R, es
  <2> QED BY <2>1, AmongList DEF es
<1>4. \A e \in S : e.diff \in Range(ds)
  BY <1>1
<1>5. IsList(got) /\ Range(got) \subseteq Range(ds)
  <2> HIDE DEF used, S
  <2>1. Len(used) \in Nat /\ DOMAIN used = 1 .. Len(used) /\ \A i \in DOMAIN used : used[i] \in S
    BY <1>3, ListDomain
  <2>2. got = [i \in 1 .. Len(used) |-> got[i]] /\ \A i \in 1 .. Len(used) : got[i] \in Range(ds)
    BY <1>4, <2>1
  <2> HIDE DEF got
  <2>3. IsList(got) /\ DOMAIN got = 1 .. Len(used)
    BY <2>1, <2>2, ListOf
  <2>4. \A x \in Range(got) : \E i \in DOMAIN got : got[i] = x
    BY DEF Range
  <2> QED BY <2>2, <2>3, <2>4
<1>6. Len(bad) \in Nat
  <2> HIDE DEF bad
  <2> QED BY <1>3, ListDomain
<1>7. SkipsOf(line) = (IF line.keys # "missing" THEN Len(bad) ELSE 0) + missing
  BY <1>2 DEF SkipsOf, DroppedElements
<1>8. SkipsOf(line) \in Nat
  <2>1. missing \in Nat
    OBVIOUS
  <2> HIDE DEF bad, missing
  <2> QED BY <1>6, <1>7, <2>1
<1>9. /\ ParseLine(line, strict) = IF strict /\ ~(line.keys = "canonical" /\ \A i \in DOMAIN es : Verified(es[i]))
                                   THEN Raised
                                   ELSE IF line.keys \in {"missing", "nonnumeric"} THEN Nothing ELSE item
      /\ ParseLine(line, FALSE) = IF line.keys \in {"missing", "nonnumeric"} THEN Nothing ELSE item
  <2>1. \A st \in BOOLEAN : ParseLine(line, st) = ParseBlock(line, st)
    BY DEF ParseLine
  <2>2. Only(es, Usable) = used
    BY <1>2
  <2>3. \A st \in BOOLEAN :
           ParseBlock(line, st) =
              IF st /\ ~(line.keys = "canonical" /\ \A i \in DOMAIN es : Verified(es[i])) THEN Raised
              ELSE IF line.keys \in {"missing", "nonnumeric"} THEN Nothing ELSE item
    <3> DEFINE Diffs(u) == [i \in DOMAIN u |-> u[i].diff]
    <3>1. \A st \in BOOLEAN :
             ParseBlock(line, st) =
                IF st /\ ~(line.keys = "canonical" /\ \A i \in DOMAIN es : Verified(es[i])) THEN Raised
                ELSE IF line.keys \in {"missing", "nonnumeric"} THEN Nothing
                ELSE [kind |-> "block", height |-> line.height, diffs |-> Diffs(Only(es, Usable))]
      BY DEF ParseBlock
    <3>2. item = [kind |-> "block", height |-> line.height, diffs |-> Diffs(used)]
      OBVIOUS
    <3> HIDE DEF Diffs, used, item
    <3> QED BY <2>2, <3>1, <3>2
  <2> HIDE DEF item
  <2> QED BY <2>1, <2>3
<1>10. item.diffs = got /\ item.kind = "block" /\ item.height = line.height /\ item # Nothing
  BY DEF Nothing
<1>11. ASSUME Len(bad) = 0 PROVE got = ds
  <2>1. R = {}
    <3> HIDE DEF bad, R
    <3> QED BY <1>3, <1>11, ListDomain
  <2>2. Range(es) \subseteq S
    BY <2>1
  <2>3. used = es
    <3> HIDE DEF S, es
    <3> QED BY <2>2, AmongAll DEF es
  <2>4. got = [i \in 1 .. n |-> ds[i]]
    BY <1>1, <2>3
  <2>5. ds = [i \in 1 .. n |-> ds[i]]
    BY ListDomain
  <2> QED BY <2>4, <2>5
<1> HIDE DEF used, bad, R, S, got, es
<1>12. CASE ParseLine(line, strict) = Nothing
  <2>1. missing = 1
    <3>1. Raised # Nothing
      BY DEF Raised, Nothing
    <3> HIDE DEF item
    <3>2. ParseLine(line, FALSE) = Nothing
      BY <1>9, <1>10, <1>12, <3>1
    <3> QED BY <3>2
  <2> HIDE DEF missing
  <2> QED BY <1>6, <1>7, <1>8, <1>12, <2>1
<1>13. CASE ParseLine(line, strict) = item
  <2>1. SkipsOf(line) = 0 => Len(bad) = 0
    <3>1. line.keys # "missing"
      <4>1. Raised # item
        BY DEF Raised
      <4> HIDE DEF item
      <4> QED BY <1>9, <1>10, <1>13, <4>1
    <3>2. missing \in {0, 1}
      OBVIOUS
    <3> HIDE DEF missing
    <3> QED BY <1>6, <1>7, <3>1, <3>2
  <2>2. ParsedBlock(item, SkipsOf(line), line.height, ds)
    BY <1>5, <1>11, <2>1, SMTT(30) DEF ParsedBlock
  <2> QED BY <1>8, <1>13, <2>2
<1> HIDE DEF item
<1> QED BY <1>8, <1>9, <1>12, <1>13

LEMMA DocumentElements ==
  ASSUME NEW height, NEW ds, IsList(ds), NEW drift
  PROVE  LET es == Document(height, ds, drift).elements
         IN  IsList(es) /\ Len(es) = Len(ds) /\ \A i \in 1 .. Len(ds) : es[i].diff = ds[i]
<1> DEFINE es == Document(height, ds, drift).elements
<1>1. es = [i \in DOMAIN ds |->
              Element(ds[i], IF source = "events" THEN drift
                             ELSE IF drift = "element" /\ i = Len(ds) THEN drift ELSE "none")]
  BY DEF Document
<1>2. Len(ds) \in Nat /\ DOMAIN ds = 1 .. Len(ds)
  BY ListDomain
<1> HIDE DEF es
<1>3. es = [i \in 1 .. Len(ds) |-> es[i]]
  BY <1>1, <1>2
<1>4. IsList(es) /\ Len(es) = Len(ds)
  BY <1>2, <1>3, ListOf, SMTT(30)
<1>5. \A i \in 1 .. Len(ds) : es[i].diff = ds[i]
  BY <1>1, <1>2 DEF Element
<1> QED BY <1>1, <1>2, <1>4, <1>5 DEF es

\* A document that is no block comes to nothing, or to an event of its diff.
LEMMA NoBlockParsed ==
  ASSUME NEW line, line.shape \in {"garbage", "event", "other"}, NEW strict \in BOOLEAN
  PROVE  /\ SkipsOf(line) \in Nat
         /\ \/ ParseLine(line, strict) = Raised /\ strict
            \/ ParseLine(line, strict) = Nothing /\ SkipsOf(line) # 0
            \/ /\ line.shape = "event"
               /\ ParseLine(line, strict) = [kind |-> "event", diff |-> line.elements[1].diff]
<1>1. DroppedElements(line) = 0
  BY DEF DroppedElements
<1>2. SkipsOf(line) = IF ParseLine(line, FALSE) = Nothing THEN 1 ELSE 0
  <2> DEFINE m == IF ParseLine(line, FALSE) = Nothing THEN 1 ELSE 0
  <2>1. SkipsOf(line) = 0 + m
    BY <1>1 DEF SkipsOf
  <2>2. m \in {0, 1}
    OBVIOUS
  <2> HIDE DEF m
  <2>3. SkipsOf(line) = m
    BY <2>1, <2>2
  <2> QED BY <2>3 DEF m
<1>3. ASSUME ParseLine(line, strict) = Nothing PROVE ParseLine(line, FALSE) = Nothing
  BY <1>3 DEF ParseLine, ParseEvent, Nothing, Raised
<1>4. \/ ParseLine(line, strict) = Raised /\ strict
      \/ ParseLine(line, strict) = Nothing
      \/ /\ line.shape = "event"
         /\ ParseLine(line, strict) = [kind |-> "event", diff |-> line.elements[1].diff]
  BY DEF ParseLine, ParseEvent
<1>5. SkipsOf(line) \in Nat /\ (ParseLine(line, FALSE) = Nothing => SkipsOf(line) # 0)
  <2>1. CASE ParseLine(line, FALSE) = Nothing
    BY <1>2, <2>1
  <2>2. CASE ParseLine(line, FALSE) # Nothing
    <3>1. SkipsOf(line) = 0
      BY <1>2, <2>2
    <3>2. SkipsOf(line) \in Nat
      BY <3>1
    <3> QED BY <2>2, <3>2, Zenon
  <2> QED BY <2>1, <2>2
<1> DEFINE item == ParseLine(line, strict)
<1>6. item = Nothing => SkipsOf(line) # 0
  BY <1>3, <1>5
<1> HIDE DEF item
<1> QED BY <1>4, <1>5, <1>6 DEF item

\* The document of a block, or of a coin's part of it.
LEMMA DocumentParsed ==
  ASSUME NEW height, NEW ds, IsList(ds), NEW drift \in Drifts, NEW strict \in BOOLEAN,
         source = "events" => Len(ds) = 1
  PROVE  LET doc  == Document(height, ds, drift)
             item == ParseLine(doc, strict)
         IN  /\ SkipsOf(doc) \in Nat /\ doc.height = height
             /\ \/ item = Raised /\ strict
                \/ item = Nothing /\ SkipsOf(doc) # 0
                \/ source # "events" /\ ParsedBlock(item, SkipsOf(doc), height, ds)
                \/ source = "events" /\ item = [kind |-> "event", diff |-> ds[1]]
<1> DEFINE doc == Document(height, ds, drift)
<1>1. /\ doc.height = height
      /\ \/ doc.shape \in {"garbage", "other"}
         \/ doc.shape = "event" /\ source = "events"
         \/ doc.shape = "block" /\ source # "events"
  BY DEF Document
<1>2. /\ IsList(doc.elements) /\ Len(doc.elements) = Len(ds)
      /\ \A i \in 1 .. Len(ds) : doc.elements[i].diff = ds[i]
  <2> DEFINE es == Document(height, ds, drift).elements
  <2>1. IsList(es) /\ Len(es) = Len(ds) /\ \A i \in 1 .. Len(ds) : es[i].diff = ds[i]
    BY DocumentElements
  <2> QED BY <2>1
<1> HIDE DEF doc
<1>3. CASE doc.shape = "block" /\ source # "events"
  <2>1. /\ SkipsOf(doc) \in Nat
        /\ \/ ParseLine(doc, strict) = Raised /\ strict
           \/ ParseLine(doc, strict) = Nothing /\ SkipsOf(doc) # 0
           \/ ParsedBlock(ParseLine(doc, strict), SkipsOf(doc), doc.height, ds)
    BY <1>2, <1>3, BlockParsed
  <2> QED BY <1>1, <1>3, <2>1 DEF doc
<1>4. CASE doc.shape \in {"garbage", "other", "event"} /\ (doc.shape = "event" => source = "events")
  <2>1. /\ SkipsOf(doc) \in Nat
        /\ \/ ParseLine(doc, strict) = Raised /\ strict
           \/ ParseLine(doc, strict) = Nothing /\ SkipsOf(doc) # 0
           \/ /\ doc.shape = "event"
              /\ ParseLine(doc, strict) = [kind |-> "event", diff |-> doc.elements[1].diff]
    BY <1>4, NoBlockParsed
  <2>2. source = "events" => doc.elements[1].diff = ds[1]
    <3> SUFFICES ASSUME source = "events" PROVE doc.elements[1].diff = ds[1]
      OBVIOUS
    <3>1. 1 \in 1 .. Len(ds)
      <4>1. Len(ds) = 1
        OBVIOUS
      <4> QED BY <4>1
    <3> QED BY <1>2, <3>1
  <2> QED BY <1>1, <1>4, <2>1, <2>2 DEF doc
<1> QED BY <1>1, <1>3, <1>4

LEMMA GarbageParsed ==
  ASSUME NEW strict \in BOOLEAN
  PROVE  /\ SkipsOf(Garbage) \in Nat
         /\ \/ ParseLine(Garbage, strict) = Raised /\ strict
            \/ ParseLine(Garbage, strict) = Nothing /\ SkipsOf(Garbage) # 0
<1>1. Garbage.shape = "garbage"
  BY DEF Garbage
<1> QED BY <1>1, NoBlockParsed

\* The document of a height of a chain, and all that a line of a file can hold.
DocOf(ch, h) == Document(h, ch[h].diffs, ch[h].drift)

Docs(ch) == {Garbage} \cup {DocOf(ch, h) : h \in DOMAIN ch}

\* What is parsed of a line of the files.
Parsed(ch, doc, item, skips, strict) ==
    /\ skips \in Nat
    /\ \/ item = Raised /\ strict
       \/ item = Nothing /\ skips # 0
       \/ \E h \in DOMAIN ch :
             /\ doc = DocOf(ch, h) /\ doc.height = h
             /\ \/ source # "events" /\ ParsedBlock(item, skips, h, ch[h].diffs)
                \/ source = "events" /\ item = [kind |-> "event", diff |-> ch[h].diffs[1]]

LEMMA DocsParsed ==
  ASSUME NEW ch, ChainFine(ch), source = "events" => OneEach(ch), NEW doc \in Docs(ch),
         NEW strict \in BOOLEAN
  PROVE  Parsed(ch, doc, ParseLine(doc, strict), SkipsOf(doc), strict)
<1>1. CASE doc = Garbage
  BY <1>1, GarbageParsed DEF Parsed
<1>2. CASE doc # Garbage
  <2>1. PICK h \in DOMAIN ch : doc = DocOf(ch, h)
    BY <1>2 DEF Docs
  <2>2. /\ IsList(ch[h].diffs) /\ ch[h].drift \in Drifts
        /\ source = "events" => Len(ch[h].diffs) = 1
    BY DEF ChainFine, History, OneEach
  <2> DEFINE ds == ch[h].diffs
  <2>3. /\ SkipsOf(doc) \in Nat /\ doc.height = h
        /\ \/ ParseLine(doc, strict) = Raised /\ strict
           \/ ParseLine(doc, strict) = Nothing /\ SkipsOf(doc) # 0
           \/ source # "events" /\ ParsedBlock(ParseLine(doc, strict), SkipsOf(doc), h, ds)
           \/ source = "events" /\ ParseLine(doc, strict) = [kind |-> "event", diff |-> ds[1]]
    BY <2>1, <2>2, DocumentParsed DEF DocOf
  <2> QED BY <2>1, <2>3 DEF Parsed
<1> QED BY <1>1, <1>2

-----------------------------------------------------------------------------
(* A line of the files *)

FeedFields(f) ==
    /\ DOMAIN f = {"strict", "books", "skips", "failed", "since", "last", "dropped"}
    /\ f.strict \in BOOLEAN /\ f.failed \in BOOLEAN /\ f.skips \in Nat
    /\ f.since \in Nat /\ f.last \in Nat

BooksFine(ch, books) ==
    \A c \in DOMAIN books : /\ c \in Tracked /\ IsBook(books[c]) /\ books[c].coin = c
                            /\ books[c].height \in {None} \cup (1 .. Len(ch))

FeedFine(ch, f) == FeedFields(f) /\ BooksFine(ch, f.books)

LEMMA NewFeedFine ==
  ASSUME NEW ch, NEW strict \in BOOLEAN
  PROVE  /\ FeedFine(ch, NewFeed(strict)) /\ DOMAIN NewFeed(strict).books = {}
         /\ NewFeed(strict).last = 0 /\ NewFeed(strict).since = 0 /\ NewFeed(strict).dropped = {}
         /\ NewFeed(strict).strict = strict /\ NewFeed(strict).failed = FALSE
         /\ NewFeed(strict).skips = 0
BY DEF NewFeed, FeedFine, FeedFields, BooksFine

LEMMA BookOfFine ==
  ASSUME NEW ch, NEW f, BooksFine(ch, f.books), NEW c
  PROVE  /\ IsBook(BookOf(f, c)) /\ BookOf(f, c).coin = c
         /\ BookOf(f, c).height \in {None} \cup (1 .. Len(ch))
BY EmptyBookFine DEF BookOf, BooksFine

\* What changes with a line that is used, the books apart.
Advanced(f, n, h, skips) ==
    /\ FeedFields(n) /\ n.strict = f.strict /\ n.failed = FALSE
    /\ n.skips = f.skips + skips
    /\ n.dropped = IF skips = 0 THEN f.dropped ELSE f.dropped \cup Coins
    /\ n.since = IF f.since = 0 \/ h # f.last + 1 THEN h ELSE f.since
    /\ n.last = h

\* What a line does, case by case.
Taken(ch, f, n, doc, item, skips) ==
    \/ /\ f.failed /\ n = f
    \/ /\ ~f.failed /\ item = Raised /\ f.strict
       /\ n = [f EXCEPT !.failed = TRUE]
    \/ /\ ~f.failed /\ item = Nothing /\ skips # 0
       /\ n = [f EXCEPT !.skips = @ + skips, !.dropped = @ \cup Coins]
    \/ /\ ~f.failed /\ source # "events"
       /\ \E h \in DOMAIN ch : /\ doc.height = h /\ ParsedBlock(item, skips, h, ch[h].diffs)
                               /\ Advanced(f, n, h, skips)
                               /\ n.books = BooksAfterBlock(f, item)
    \/ /\ ~f.failed /\ source = "events"
       /\ \E h \in DOMAIN ch : /\ doc.height = h
                               /\ item = [kind |-> "event", diff |-> ch[h].diffs[1]]
                               /\ Advanced(f, n, h, skips)
                               /\ n.books = BooksAfterEvent(f, ch[h].diffs[1])

LEMMA LineTaken ==
  ASSUME NEW ch, ChainFine(ch), source = "events" => OneEach(ch), NEW f, FeedFields(f),
         NEW line, LineDocument(line) \in Docs(ch)
  PROVE  LET doc == LineDocument(line)
         IN  /\ Parsed(ch, doc, ParseLine(doc, f.strict), SkipsOf(doc), f.strict)
             /\ Taken(ch, f, TakeLine(f, line), doc, ParseLine(doc, f.strict), SkipsOf(doc))
<1> DEFINE doc == LineDocument(line)
           item == ParseLine(doc, f.strict)
           skips == SkipsOf(doc)
           n == TakeLine(f, line)
           g == CountSkips(f, doc, Coins)
<1>1. Parsed(ch, doc, item, skips, f.strict)
  <2>1. f.strict \in BOOLEAN
    BY DEF FeedFields
  <2> HIDE DEF doc
  <2> QED BY <2>1, DocsParsed DEF doc
<1>2. n = IF f.failed THEN f
          ELSE IF item = Raised THEN [f EXCEPT !.failed = TRUE]
          ELSE ProcessItem(g, item, doc.height)
  BY DEF TakeLine
<1>3. /\ g = [f EXCEPT !.skips = @ + skips, !.dropped = IF skips = 0 THEN @ ELSE @ \cup Coins]
  BY DEF CountSkips
<1> HIDE DEF doc, item, skips, n, g
<1>4. skips \in Nat
  BY <1>1 DEF Parsed
<1>5. /\ FeedFields(g) /\ g.strict = f.strict /\ g.failed = f.failed /\ g.books = f.books
      /\ g.skips = f.skips + skips /\ g.since = f.since /\ g.last = f.last
      /\ g.dropped = IF skips = 0 THEN f.dropped ELSE f.dropped \cup Coins
  BY <1>3, <1>4 DEF FeedFields
<1>6. ASSUME f.failed PROVE Taken(ch, f, n, doc, item, skips)
  BY <1>2, <1>6 DEF Taken
<1>7. ASSUME ~f.failed, item = Raised PROVE Taken(ch, f, n, doc, item, skips)
  <2>1. f.strict
    BY <1>1, <1>7 DEF Parsed, ParsedBlock, Raised, Nothing
  <2> QED BY <1>2, <1>7, <2>1 DEF Taken
<1>8. ASSUME ~f.failed, item = Nothing, skips # 0 PROVE Taken(ch, f, n, doc, item, skips)
  <2>1. n = g
    BY <1>2, <1>8 DEF ProcessItem, Raised, Nothing
  <2> QED BY <1>3, <1>8, <2>1 DEF Taken
<1> DEFINE used == Noted(g, doc.height)
<1>9. ASSUME doc.height \in Nat, NEW books, ~f.failed, n = [used EXCEPT !.books = books]
      PROVE  Advanced(f, n, doc.height, skips) /\ n.books = books
  <2>1. /\ FeedFields(used) /\ used.strict = f.strict /\ used.failed = f.failed
        /\ used.skips = f.skips + skips /\ used.last = doc.height
        /\ used.since = IF f.since = 0 \/ doc.height # f.last + 1 THEN doc.height ELSE f.since
        /\ used.dropped = IF skips = 0 THEN f.dropped ELSE f.dropped \cup Coins
    BY <1>5, <1>9 DEF FeedFields, Noted
  <2> HIDE DEF used
  <2>2. /\ FeedFields(n) /\ n.strict = used.strict /\ n.failed = used.failed /\ n.books = books
        /\ n.skips = used.skips /\ n.last = used.last /\ n.since = used.since
        /\ n.dropped = used.dropped
    BY <1>9, <2>1 DEF FeedFields
  <2>3. n.failed = FALSE
    BY <1>9, <2>1, <2>2 DEF FeedFields
  <2> QED BY <2>1, <2>2, <2>3 DEF Advanced
<1> HIDE DEF used
<1>10. ASSUME NEW h \in DOMAIN ch, doc.height = h, ~f.failed, source # "events",
              ParsedBlock(item, skips, h, ch[h].diffs)
       PROVE  Taken(ch, f, n, doc, item, skips)
  <2>1. n = [used EXCEPT !.books = BooksAfterBlock(g, item)]
    <3>1. item.kind = "block" /\ item # Raised
      BY <1>10 DEF ParsedBlock, Raised
    <3>2. ProcessItem(g, item, doc.height) = [used EXCEPT !.books = BooksAfterBlock(g, item)]
      BY <3>1 DEF ProcessItem, used
    <3> QED BY <1>2, <1>10, <3>1, <3>2
  <2>2. h \in Nat
    BY ListDomain DEF ChainFine
  <2>3. BooksAfterBlock(g, item) = BooksAfterBlock(f, item)
    BY <1>5 DEF BooksAfterBlock, BookOf
  <2>4. Advanced(f, n, h, skips) /\ n.books = BooksAfterBlock(f, item)
    BY <1>9, <1>10, <2>1, <2>2, <2>3
  <2> QED BY <1>10, <2>4 DEF Taken
<1>11. ASSUME NEW h \in DOMAIN ch, doc.height = h, ~f.failed, source = "events",
              item = [kind |-> "event", diff |-> ch[h].diffs[1]]
       PROVE  Taken(ch, f, n, doc, item, skips)
  <2> DEFINE d == ch[h].diffs[1]
  <2>1. n = [used EXCEPT !.books = BooksAfterEvent(g, d)]
    <3>1. item.kind = "event" /\ item # Raised /\ item.diff = d
      BY <1>11 DEF Raised
    <3>2. ProcessItem(g, item, doc.height) = [used EXCEPT !.books = BooksAfterEvent(g, item.diff)]
      BY <3>1 DEF ProcessItem, used
    <3> QED BY <1>2, <1>11, <3>1, <3>2
  <2>2. h \in Nat
    BY ListDomain DEF ChainFine
  <2>3. BooksAfterEvent(g, d) = BooksAfterEvent(f, d)
    BY <1>5 DEF BooksAfterEvent, BookOf
  <2>4. Advanced(f, n, h, skips) /\ n.books = BooksAfterEvent(f, d)
    BY <1>9, <1>11, <2>1, <2>2, <2>3
  <2> QED BY <1>11, <2>4 DEF Taken
<1>12. Taken(ch, f, n, doc, item, skips)
  <2>1. \/ item = Raised
        \/ item = Nothing /\ skips # 0
        \/ \E h \in DOMAIN ch :
             /\ doc.height = h
             /\ \/ source # "events" /\ ParsedBlock(item, skips, h, ch[h].diffs)
                \/ source = "events" /\ item = [kind |-> "event", diff |-> ch[h].diffs[1]]
    BY <1>1 DEF Parsed
  <2>2. ASSUME NEW h \in DOMAIN ch, doc.height = h, ~f.failed,
               \/ source # "events" /\ ParsedBlock(item, skips, h, ch[h].diffs)
               \/ source = "events" /\ item = [kind |-> "event", diff |-> ch[h].diffs[1]]
        PROVE  Taken(ch, f, n, doc, item, skips)
    BY <1>10, <1>11, <2>2
  <2> QED BY <1>6, <1>7, <1>8, <2>1, <2>2
<1> QED BY <1>1, <1>12 DEF doc, item, skips, n

\* The books after a block whose diffs are among those of a height of the chain.
LEMMA BlockBooks ==
  ASSUME NEW ch, ChainFine(ch), NEW f, BooksFine(ch, f.books), NEW h \in DOMAIN ch,
         NEW item, item.height = h, IsList(item.diffs), Range(item.diffs) \subseteq Range(ch[h].diffs)
  PROVE  LET books == BooksAfterBlock(f, item)
         IN  /\ BooksFine(ch, books)
             /\ DOMAIN books = DOMAIN f.books
                               \cup {c \in Tracked : \E d \in Range(item.diffs) : d.coin = c}
             /\ \A c \in DOMAIN books :
                   books[c] = ApplyBlock(BookOf(f, c), [height |-> h, diffs |-> OfCoin(item.diffs, c)])
<1> DEFINE allowed == Allowed(item.diffs)
           books == BooksAfterBlock(f, item)
           D == DOMAIN f.books \cup {allowed[i].coin : i \in DOMAIN allowed}
<1>1. /\ IsList(allowed) /\ Range(allowed) = {d \in Range(item.diffs) : d.coin \in Tracked}
      /\ \A c \in Tracked : OfCoin(allowed, c) = OfCoin(item.diffs, c)
  BY AllowedFine
<1>2. books = [c \in D |-> ApplyBlock(BookOf(f, c), [height |-> item.height, diffs |-> OfCoin(allowed, c)])]
  BY DEF BooksAfterBlock
<1>3. {allowed[i].coin : i \in DOMAIN allowed} = {c \in Tracked : \E d \in Range(item.diffs) : d.coin = c}
  <2> HIDE DEF allowed
  <2>1. ASSUME NEW i \in DOMAIN allowed
        PROVE  allowed[i].coin \in {c \in Tracked : \E d \in Range(item.diffs) : d.coin = c}
    <3>1. allowed[i] \in Range(allowed)
      BY <1>1, ListDomain
    <3> QED BY <1>1, <3>1
  <2>2. ASSUME NEW c \in Tracked, NEW d \in Range(item.diffs), d.coin = c
        PROVE  \E i \in DOMAIN allowed : allowed[i].coin = c
    <3>1. d \in Range(allowed)
      BY <1>1, <2>2
    <3>2. PICK i \in DOMAIN allowed : allowed[i] = d
      BY <1>1, <3>1, ListDomain
    <3> QED BY <2>2, <3>2
  <2> QED BY <2>1, <2>2
<1> HIDE DEF books, allowed
<1>4. DOMAIN books = D /\ D \subseteq Tracked
  BY <1>2, <1>3 DEF BooksFine
<1>5. \A c \in DOMAIN books :
         books[c] = ApplyBlock(BookOf(f, c), [height |-> h, diffs |-> OfCoin(item.diffs, c)])
  BY <1>1, <1>2, <1>4
<1>6. BooksFine(ch, books)
  <2> SUFFICES ASSUME NEW c \in DOMAIN books
               PROVE  /\ c \in Tracked /\ IsBook(books[c]) /\ books[c].coin = c
                      /\ books[c].height \in {None} \cup (1 .. Len(ch))
    BY DEF BooksFine
  <2> DEFINE e == OfCoin(item.diffs, c)
             b == BookOf(f, c)
  <2>1. IsBook(b) /\ b.coin = c
    BY BookOfFine
  <2>2. IsList(e) /\ Range(e) \subseteq Range(item.diffs)
    BY OfCoinFine
  <2>3. \A d \in Range(e) : d.kind \in Kinds
    BY <2>2 DEF ChainFine, History, Sound, Kinds
  <2> HIDE DEF e, b
  <2>4. LET n == ApplyBlock(b, [height |-> h, diffs |-> e])
        IN  IsBook(n) /\ n.coin = b.coin /\ n.height = h
    BY <2>1, <2>2, <2>3, ApplyBlockFine
  <2>5. h \in 1 .. Len(ch)
    BY ListDomain DEF ChainFine
  <2> QED BY <1>4, <1>5, <2>1, <2>4, <2>5 DEF e, b
<1> QED BY <1>3, <1>4, <1>5, <1>6 DEF books

LEMMA EventBooks ==
  ASSUME NEW ch, NEW f, BooksFine(ch, f.books), NEW d, d.kind \in Kinds
  PROVE  BooksFine(ch, BooksAfterEvent(f, d))
<1>1. CASE d.coin \in Tracked
  <2> DEFINE b == BookOf(f, d.coin)
             n == Apply(b, d)
             books == With(f.books, d.coin, n)
  <2>1. IsBook(b) /\ b.coin = d.coin /\ b.height \in {None} \cup (1 .. Len(ch))
    BY BookOfFine
  <2> HIDE DEF b
  <2>2. Keeps(b, n)
    BY <2>1, ApplyFine
  <2>3. DOMAIN books = DOMAIN f.books \cup {d.coin}
    BY DEF With
  <2>4. \A c \in DOMAIN books : books[c] = IF c = d.coin THEN n ELSE f.books[c]
    BY DEF With
  <2>5. BooksAfterEvent(f, d) = books
    BY <1>1 DEF BooksAfterEvent, b
  <2> HIDE DEF books, n
  <2>6. BooksFine(ch, books)
    BY <1>1, <2>1, <2>2, <2>3, <2>4 DEF BooksFine, Keeps
  <2> QED BY <2>5, <2>6
<1>2. CASE d.coin \notin Tracked
  BY <1>2 DEF BooksAfterEvent
<1> QED BY <1>1, <1>2

LEMMA TakeLineFine ==
  ASSUME NEW ch, ChainFine(ch), source = "events" => OneEach(ch), NEW f, FeedFine(ch, f),
         NEW line, LineDocument(line) \in Docs(ch)
  PROVE  FeedFine(ch, TakeLine(f, line)) /\ TakeLine(f, line).strict = f.strict
<1> DEFINE doc == LineDocument(line)
           item == ParseLine(doc, f.strict)
           skips == SkipsOf(doc)
           n == TakeLine(f, line)
<1>1. Taken(ch, f, n, doc, item, skips) /\ skips \in Nat
  BY LineTaken DEF FeedFine, Parsed
<1> HIDE DEF doc, item, skips, n
<1>2. CASE n = f \/ n = [f EXCEPT !.failed = TRUE]
               \/ n = [f EXCEPT !.skips = @ + skips, !.dropped = @ \cup Coins]
  <2>1. CASE n = f
    BY <2>1 DEF FeedFine, n
  <2>2. CASE n = [f EXCEPT !.failed = TRUE]
    BY <2>2 DEF FeedFine, FeedFields, n
  <2>3. CASE n = [f EXCEPT !.skips = @ + skips, !.dropped = @ \cup Coins]
    BY <1>1, <2>3 DEF FeedFine, FeedFields, n
  <2> QED BY <1>2, <2>1, <2>2, <2>3
<1>3. ASSUME NEW h \in DOMAIN ch, ParsedBlock(item, skips, h, ch[h].diffs),
             Advanced(f, n, h, skips), n.books = BooksAfterBlock(f, item)
      PROVE  FeedFine(ch, n) /\ n.strict = f.strict
  <2>1. BooksFine(ch, BooksAfterBlock(f, item))
    BY <1>3, BlockBooks DEF ParsedBlock, FeedFine
  <2> QED BY <1>3, <2>1 DEF Advanced, FeedFine
<1>4. ASSUME NEW h \in DOMAIN ch, source = "events", Advanced(f, n, h, skips),
             n.books = BooksAfterEvent(f, ch[h].diffs[1])
      PROVE  FeedFine(ch, n) /\ n.strict = f.strict
  <2>1. IsList(ch[h].diffs) /\ Len(ch[h].diffs) = 1 /\ \A d \in Range(ch[h].diffs) : d.kind \in Kinds
    BY <1>4 DEF ChainFine, History, OneEach, Sound, Kinds
  <2>2. ch[h].diffs[1].kind \in Kinds
    BY <2>1, ListDomain
  <2>3. BooksFine(ch, BooksAfterEvent(f, ch[h].diffs[1]))
    BY <2>2, EventBooks DEF FeedFine
  <2> QED BY <1>4, <2>3 DEF Advanced, FeedFine
<1> QED BY <1>1, <1>2, <1>3, <1>4 DEF Taken, n

-----------------------------------------------------------------------------
(* What the feed of a node knows after a line *)

\* Of a coin nothing of which was dropped: its book holds what the chain announced in
\* the unbroken run, and if it has no book, the chain announced nothing.
CoinGood(ch, f, c) ==
    /\ c \in DOMAIN f.books /\ ~f.books[c].stale =>
          /\ source # "events" => f.books[c].height = f.last
          /\ f.books[c].orders = Resting(DiffsIn(ch, c, f.since, f.last))
    /\ c \notin DOMAIN f.books /\ f.last # 0 => DiffsIn(ch, c, f.since, f.last) = <<>>

FeedGood(ch, f) ==
    /\ FeedFine(ch, f)
    /\ f.last = 0 => f.since = 0 /\ DOMAIN f.books = {}
    /\ f.last # 0 => f.since \in 1 .. f.last /\ f.last \in 1 .. Len(ch)
    /\ \A c \in Tracked \ f.dropped : CoinGood(ch, f, c)

\* The run a line of a height belongs to.
RunFrom(f, h) == IF f.since = 0 \/ h # f.last + 1 THEN h ELSE f.since

LEMMA BeforeLine ==
  ASSUME NEW ch, ChainFine(ch), NEW f, FeedGood(ch, f), NEW h \in DOMAIN ch
  PROVE  LET from == RunFrom(f, h)
         IN  /\ from \in 1 .. h
             /\ \A c \in Tracked \ f.dropped :
                   LET ds == DiffsIn(ch, c, from, h - 1)
                       es == OfCoin(ch[h].diffs, c)
                   IN  /\ IsList(ds) /\ IsList(es) /\ History(ds \o es)
                       /\ DiffsIn(ch, c, from, h) = ds \o es
                       /\ \A d \in Range(es) : d.coin = c
                       /\ c \in DOMAIN f.books => f.last # 0
                       /\ c \in DOMAIN f.books /\ ~f.books[c].stale /\ h = f.last + 1
                             => f.books[c].orders = Resting(ds)
                       /\ c \notin DOMAIN f.books => ds = <<>>
<1> DEFINE from == RunFrom(f, h)
<1>1. IsList(ch) /\ Len(ch) \in Nat /\ DOMAIN ch = 1 .. Len(ch) /\ h \in Nat /\ 1 <= h /\ h <= Len(ch)
  BY ListDomain DEF ChainFine
<1>2. f.since \in Nat /\ f.last \in Nat
  BY DEF FeedGood, FeedFine, FeedFields
<1>3. from \in Nat /\ 1 <= from /\ from <= h
  BY <1>1, <1>2 DEF FeedGood, RunFrom
<1>4. ASSUME NEW c \in Tracked \ f.dropped
      PROVE  LET ds == DiffsIn(ch, c, from, h - 1)
                 es == OfCoin(ch[h].diffs, c)
             IN  /\ IsList(ds) /\ IsList(es) /\ History(ds \o es)
                 /\ DiffsIn(ch, c, from, h) = ds \o es
                 /\ \A d \in Range(es) : d.coin = c
                 /\ c \in DOMAIN f.books => f.last # 0
                 /\ c \in DOMAIN f.books /\ ~f.books[c].stale /\ h = f.last + 1
                       => f.books[c].orders = Resting(ds)
                 /\ c \notin DOMAIN f.books => ds = <<>>
  <2> DEFINE ds == DiffsIn(ch, c, from, h - 1)
             es == OfCoin(ch[h].diffs, c)
  <2>1. IsList(ch[h].diffs)
    BY DEF ChainFine, History
  <2>2. IsList(es) /\ \A d \in Range(es) : d.coin = c
    BY <2>1, OfCoinFine
  <2>3. DiffsIn(ch, c, from, h) = ds \o es
    <3> DEFINE k == h - 1
    <3>1. k \in Nat /\ from <= k + 1 /\ k + 1 <= Len(ch) /\ k + 1 = h
      BY <1>1, <1>3
    <3> HIDE DEF from, k
    <3>2. DiffsIn(ch, c, from, k + 1) = DiffsIn(ch, c, from, k) \o OfCoin(ch[k + 1].diffs, c)
      BY <1>1, <1>3, <3>1, DiffsMore
    <3> QED BY <3>1, <3>2 DEF k
  <2>4. History(DiffsIn(ch, c, from, h))
    BY <1>1, <1>3, DiffsFine
  <2>5. IsList(ds)
    <3>1. h - 1 \in Nat /\ h - 1 <= Len(ch)
      BY <1>1
    <3>2. History(ds)
      BY <1>3, <3>1, DiffsFine
    <3> QED BY <3>2 DEF History
  <2>6. c \in DOMAIN f.books => f.last # 0
    BY DEF FeedGood
  <2>7. ASSUME c \in DOMAIN f.books, ~f.books[c].stale, h = f.last + 1
        PROVE  f.books[c].orders = Resting(ds)
    <3>1. f.since # 0 /\ from = f.since /\ h - 1 = f.last
      BY <1>1, <1>2, <2>6, <2>7 DEF FeedGood, RunFrom
    <3> QED BY <2>7, <3>1 DEF FeedGood, CoinGood
  <2>8. ASSUME c \notin DOMAIN f.books PROVE ds = <<>>
    <3>1. CASE from = h
      <4>1. h - 1 \in Int /\ from \in Int /\ from > h - 1
        BY <1>1, <1>3, <3>1
      <4> QED BY <4>1, DiffsNone
    <3>2. CASE from # h
      <4>1. f.since # 0 /\ from = f.since /\ h - 1 = f.last /\ f.last # 0
        BY <1>1, <1>2, <3>2 DEF FeedGood, RunFrom
      <4> QED BY <2>8, <4>1 DEF FeedGood, CoinGood
    <3> QED BY <3>1, <3>2
  <2> QED BY <2>2, <2>3, <2>4, <2>5, <2>6, <2>7, <2>8
<1> QED BY <1>3, <1>4

LEMMA BlockGood ==
  ASSUME NEW ch, ChainFine(ch), source # "events", NEW f, FeedGood(ch, f), NEW h \in DOMAIN ch,
         NEW item, NEW skips \in Nat, ParsedBlock(item, skips, h, ch[h].diffs),
         NEW n, Advanced(f, n, h, skips), n.books = BooksAfterBlock(f, item),
         NEW c \in Tracked \ n.dropped
  PROVE  CoinGood(ch, n, c)
<1> DEFINE from == RunFrom(f, h)
           ds == DiffsIn(ch, c, from, h - 1)
           es == OfCoin(ch[h].diffs, c)
           b == BookOf(f, c)
<1>1. skips = 0 /\ c \in Tracked \ f.dropped /\ item.diffs = ch[h].diffs
  BY FeedConstants DEF Advanced, ParsedBlock
<1>2. n.last = h /\ n.since = from /\ h # 0
  BY ListDomain DEF Advanced, RunFrom, ChainFine
<1>3. /\ IsList(ds) /\ IsList(es) /\ History(ds \o es)
      /\ DiffsIn(ch, c, from, h) = ds \o es
      /\ \A d \in Range(es) : d.coin = c
      /\ c \in DOMAIN f.books => f.last # 0
      /\ c \in DOMAIN f.books /\ ~f.books[c].stale /\ h = f.last + 1
            => f.books[c].orders = Resting(ds)
      /\ c \notin DOMAIN f.books => ds = <<>>
  BY <1>1, BeforeLine
<1>4. BooksFine(ch, f.books) /\ IsList(ch[h].diffs) /\ History(ch[h].diffs)
  BY DEF FeedGood, FeedFine, ChainFine, History
<1>5. /\ DOMAIN n.books = DOMAIN f.books \cup {x \in Tracked : \E d \in Range(ch[h].diffs) : d.coin = x}
      /\ \A x \in DOMAIN n.books :
            n.books[x] = ApplyBlock(BookOf(f, x), [height |-> h, diffs |-> OfCoin(ch[h].diffs, x)])
  <2>1. item.height = h /\ IsList(item.diffs) /\ Range(item.diffs) \subseteq Range(ch[h].diffs)
    BY DEF ParsedBlock
  <2> QED BY <1>1, <1>4, <2>1, BlockBooks
<1>6. Range(es) = {d \in Range(ch[h].diffs) : d.coin = c}
  BY <1>4, OfCoinFine
<1>7. IsBook(b) /\ b.coin = c
  BY <1>4, BookOfFine
<1>8. c \notin DOMAIN f.books => b.orders = Resting(<<>>) /\ b.height = None /\ b.stale = FALSE
  BY EmptyBookFine, RestingNothing DEF BookOf, EmptyBook
<1>9. c \in DOMAIN f.books => b = f.books[c]
  BY DEF BookOf
<1>10. \A d \in Range(es) : d.kind \in Kinds
  BY <1>4, <1>6 DEF History, Sound, Kinds
<1> HIDE DEF ds, es, b, from
<1>11. ASSUME c \in DOMAIN n.books, ~n.books[c].stale
       PROVE  n.books[c].height = h /\ n.books[c].orders = Resting(ds \o es)
  <2> DEFINE m == ApplyBlock(b, [height |-> h, diffs |-> es])
  <2>1. n.books[c] = m
    BY <1>5, <1>11 DEF b, es
  <2>2. /\ m.height = h
        /\ m.stale = (b.stale \/ (b.height # None /\ h # b.height + 1))
        /\ b.orders = Resting(ds) => m.orders = Resting(ds \o es)
    BY <1>3, <1>7, <1>10, ApplyBlockFine
  <2> HIDE DEF m
  <2>3. ~b.stale /\ (b.height = None \/ h = b.height + 1)
    BY <1>11, <2>1, <2>2
  <2>4. b.orders = Resting(ds)
    <3>1. CASE c \in DOMAIN f.books
      <4>1. b.height = f.last /\ f.last # 0 /\ f.last \in Nat
        BY <1>1, <1>3, <1>9, <2>3, <3>1 DEF FeedGood, CoinGood, FeedFine, FeedFields
      <4>2. h = f.last + 1
        BY <2>3, <4>1 DEF None
      <4> QED BY <1>3, <1>9, <2>3, <3>1, <4>2
    <3>2. CASE c \notin DOMAIN f.books
      BY <1>3, <1>8, <3>2
    <3> QED BY <3>1, <3>2
  <2> QED BY <2>1, <2>2, <2>4
<1>12. ASSUME c \notin DOMAIN n.books PROVE ds \o es = <<>>
  <2>1. Range(es) = {} /\ ds = <<>>
    BY <1>1, <1>3, <1>5, <1>6, <1>12
  <2>2. es = <<>>
    <3>1. Len(es) = 0
      BY <1>3, <2>1, ListDomain
    <3> QED BY <1>3, <3>1, EmptyList, ListEqual
  <2> QED BY <2>1, <2>2
<1> QED BY <1>2, <1>3, <1>11, <1>12 DEF CoinGood

LEMMA OneElement ==
  ASSUME NEW d
  PROVE  /\ IsList(<<d>>) /\ Range(<<d>>) = {d} /\ <<d>> = Append(<<>>, d)
         /\ \A S : Among(<<d>>, S) = IF d \in S THEN <<d>> ELSE <<>>
         /\ \A b : Fold(Apply, b, <<d>>) = Apply(b, d)
<1>1. <<d>> = Append(<<>>, d)
  OBVIOUS
<1>2. IsList(Append(<<>>, d)) /\ Range(Append(<<>>, d)) = Range(<<>>) \cup {d}
  BY EmptyList, AppendList
<1>3. Range(<<>>) = {}
  BY DEF Range
<1>4. ASSUME NEW S PROVE Among(<<d>>, S) = IF d \in S THEN <<d>> ELSE <<>>
  <2>1. Among(Append(<<>>, d), S) = IF d \in S THEN Append(Among(<<>>, S), d) ELSE Among(<<>>, S)
    BY EmptyList, AmongAppend
  <2>2. Among(<<>>, S) = <<>>
    BY AmongEmpty
  <2> QED BY <1>1, <2>1, <2>2
<1>5. ASSUME NEW b PROVE Fold(Apply, b, <<d>>) = Apply(b, d)
  <2>1. Fold(Apply, b, Append(<<>>, d)) = Apply(Fold(Apply, b, <<>>), d)
    BY EmptyList, PlayAppend
  <2>2. Fold(Apply, b, <<>>) = b
    BY PlayEmpty
  <2> QED BY <1>1, <2>1, <2>2
<1> QED BY <1>1, <1>2, <1>3, <1>4, <1>5

\* A bare event says nothing of its height: it must be the one after the last.
LEMMA EventGood ==
  ASSUME NEW ch, ChainFine(ch), OneEach(ch), source = "events", NEW f, FeedGood(ch, f),
         NEW h \in DOMAIN ch, f.last \in {0, h - 1}, NEW skips \in Nat,
         NEW n, Advanced(f, n, h, skips), n.books = BooksAfterEvent(f, ch[h].diffs[1]),
         NEW c \in Tracked \ n.dropped
  PROVE  CoinGood(ch, n, c)
<1> DEFINE from == RunFrom(f, h)
           ds == DiffsIn(ch, c, from, h - 1)
           es == OfCoin(ch[h].diffs, c)
           b == BookOf(f, c)
           d == ch[h].diffs[1]
<1>1. skips = 0 /\ c \in Tracked \ f.dropped
  BY FeedConstants DEF Advanced
<1>2. n.last = h /\ n.since = from /\ h # 0 /\ h \in Nat
  BY ListDomain DEF Advanced, RunFrom, ChainFine
<1>3. /\ IsList(ds) /\ IsList(es) /\ History(ds \o es)
      /\ DiffsIn(ch, c, from, h) = ds \o es
      /\ \A e \in Range(es) : e.coin = c
      /\ c \in DOMAIN f.books => f.last # 0
      /\ c \in DOMAIN f.books /\ ~f.books[c].stale /\ h = f.last + 1
            => f.books[c].orders = Resting(ds)
      /\ c \notin DOMAIN f.books => ds = <<>>
  BY <1>1, BeforeLine
<1>4. IsList(ch[h].diffs) /\ Len(ch[h].diffs) = 1 /\ Range(ch[h].diffs) = {d}
  <2>1. IsList(ch[h].diffs) /\ Len(ch[h].diffs) = 1
    BY DEF ChainFine, History, OneEach
  <2> QED BY <2>1, ListDomain
<1>5. IsBook(b) /\ b.coin = c
  BY BookOfFine DEF FeedGood, FeedFine
<1>6. Range(es) = {e \in {d} : e.coin = c}
  BY <1>4, OfCoinFine
<1>7. es = IF d.coin = c THEN <<d>> ELSE <<>>
  <2> DEFINE S == {e \in Range(ch[h].diffs) : e.coin = c}
  <2>1. es = Among(ch[h].diffs, S)
    BY DEF OfCoin, Only
  <2>2. ch[h].diffs = <<d>>
    <3>1. IsList(<<d>>) /\ Len(<<d>>) = 1 /\ <<d>>[1] = d
      BY OneElement
    <3> QED BY <1>4, <3>1, ListEqual
  <2>3. d \in S <=> d.coin = c
    BY <1>4
  <2> HIDE DEF S, d
  <2>4. Among(<<d>>, S) = IF d \in S THEN <<d>> ELSE <<>>
    BY OneElement
  <2> QED BY <2>1, <2>2, <2>3, <2>4
<1>8. c \in DOMAIN f.books /\ ~f.books[c].stale => f.books[c].orders = Resting(ds)
  BY <1>2, <1>3 DEF FeedGood, FeedFine, FeedFields
<1>9. c \notin DOMAIN f.books => b.orders = Resting(<<>>) /\ b.stale = FALSE
  BY EmptyBookFine, RestingNothing DEF BookOf
<1>10. c \in DOMAIN f.books => b = f.books[c]
  BY DEF BookOf
<1>11. n.books = IF d.coin \in Tracked THEN With(f.books, d.coin, Apply(BookOf(f, d.coin), d)) ELSE f.books
  BY DEF BooksAfterEvent
<1> HIDE DEF ds, es, b, from, d
<1>12. CASE d.coin = c
  <2>1. Fold(Apply, b, es) = Apply(b, d)
    <3>1. Fold(Apply, b, <<d>>) = Apply(b, d)
      BY OneElement
    <3> QED BY <1>7, <1>12, <3>1
  <2>2. n.books[c] = Apply(b, d) /\ c \in DOMAIN n.books
    BY <1>1, <1>11, <1>12 DEF With, b
  <2>3. ASSUME ~n.books[c].stale PROVE n.books[c].orders = Resting(ds \o es)
    <3>1. \A e \in Range(es) : e.kind \in Kinds
      <4>1. d \in Range(ch[h].diffs)
        BY <1>4
      <4> QED BY <1>6, <4>1 DEF ChainFine, History, Sound, Kinds
    <3>2. Keeps(b, Fold(Apply, b, es))
      BY <1>3, <1>5, <3>1, PlayFine
    <3>3. ~b.stale
      BY <2>1, <2>2, <2>3, <3>2 DEF Keeps
    <3>4. b.orders = Resting(ds)
      BY <1>3, <1>8, <1>9, <1>10, <3>3
    <3>5. Fold(Apply, b, es).orders = Resting(ds \o es)
      BY <1>3, <1>5, <3>4, PlayHistory
    <3> QED BY <2>1, <2>2, <3>5
  <2> QED BY <1>2, <1>3, <2>2, <2>3 DEF CoinGood
<1>13. CASE d.coin # c
  <2>1. es = <<>> /\ ds \o es = ds
    BY <1>3, <1>7, <1>13, ConcatNothing
  <2>2. /\ c \in DOMAIN n.books <=> c \in DOMAIN f.books
        /\ c \in DOMAIN f.books => n.books[c] = f.books[c]
    BY <1>11, <1>13 DEF With
  <2> QED BY <1>2, <1>3, <1>8, <2>1, <2>2 DEF CoinGood
<1> QED BY <1>12, <1>13

LEMMA TakeLineGood ==
  ASSUME NEW ch, ChainFine(ch), source = "events" => OneEach(ch), NEW f, FeedGood(ch, f),
         NEW line, LineDocument(line) \in Docs(ch),
         source = "events" => \/ f.failed \/ Tracked \subseteq f.dropped
                              \/ \E h \in DOMAIN ch : /\ LineDocument(line) = DocOf(ch, h)
                                                      /\ f.last \in {0, h - 1}
  PROVE  LET n == TakeLine(f, line)
         IN  /\ FeedGood(ch, n) /\ n.strict = f.strict
             /\ \A h \in DOMAIN ch : LineDocument(line) = DocOf(ch, h) =>
                   n.failed \/ Tracked \subseteq n.dropped \/ n.last = h
<1> DEFINE doc == LineDocument(line)
           item == ParseLine(doc, f.strict)
           skips == SkipsOf(doc)
           n == TakeLine(f, line)
           Seen == \A h \in DOMAIN ch : doc = DocOf(ch, h) =>
                      n.failed \/ Tracked \subseteq n.dropped \/ n.last = h
<1>1. FeedFine(ch, f) /\ FeedFields(f) /\ FeedFine(ch, n) /\ n.strict = f.strict
  BY TakeLineFine DEF FeedGood, FeedFine
<1>2. Taken(ch, f, n, doc, item, skips) /\ skips \in Nat
  BY <1>1, LineTaken DEF Parsed
<1>3. \A h \in DOMAIN ch : doc = DocOf(ch, h) => doc.height = h
  BY DEF DocOf, Document
<1>4. Tracked \subseteq Coins
  BY FeedConstants
<1>5. source = "events" => \/ f.failed \/ Tracked \subseteq f.dropped
                           \/ \E h \in DOMAIN ch : doc = DocOf(ch, h) /\ f.last \in {0, h - 1}
  OBVIOUS
<1> HIDE DEF doc, item, skips, n
<1>6. ASSUME f.failed, n = f PROVE FeedGood(ch, n) /\ Seen
  BY <1>6
<1>7. ASSUME n = [f EXCEPT !.failed = TRUE] PROVE FeedGood(ch, n) /\ Seen
  <2>1. n.failed = TRUE /\ n.books = f.books /\ n.last = f.last /\ n.since = f.since /\ n.dropped = f.dropped
    BY <1>1, <1>7 DEF FeedFields
  <2> QED BY <1>1, <2>1 DEF FeedGood, CoinGood
<1>8. ASSUME n = [f EXCEPT !.skips = @ + skips, !.dropped = @ \cup Coins] PROVE FeedGood(ch, n) /\ Seen
  <2>1. n.books = f.books /\ n.last = f.last /\ n.since = f.since /\ n.dropped = f.dropped \cup Coins
    BY <1>1, <1>8 DEF FeedFields
  <2>2. Tracked \subseteq n.dropped
    BY <1>4, <2>1
  <2> QED BY <1>1, <2>1, <2>2 DEF FeedGood
<1>9. ASSUME NEW h \in DOMAIN ch, doc.height = h, Advanced(f, n, h, skips),
             \A c \in Tracked \ n.dropped : CoinGood(ch, n, c)
      PROVE  FeedGood(ch, n) /\ Seen
  <2>1. RunFrom(f, h) \in 1 .. h
    BY BeforeLine
  <2>2. h \in 1 .. Len(ch) /\ h # 0
    BY ListDomain DEF ChainFine
  <2>3. n.last = h /\ n.since = RunFrom(f, h)
    BY <1>9 DEF Advanced, RunFrom
  <2> QED BY <1>1, <1>3, <1>9, <2>1, <2>2, <2>3 DEF FeedGood
<1>10. ASSUME NEW h \in DOMAIN ch, doc.height = h, Advanced(f, n, h, skips), source # "events",
              ParsedBlock(item, skips, h, ch[h].diffs), n.books = BooksAfterBlock(f, item)
       PROVE  FeedGood(ch, n) /\ Seen
  <2>1. \A c \in Tracked \ n.dropped : CoinGood(ch, n, c)
    BY <1>2, <1>10, BlockGood
  <2> QED BY <1>9, <1>10, <2>1
<1>11. ASSUME NEW h \in DOMAIN ch, doc.height = h, Advanced(f, n, h, skips), source = "events", ~f.failed,
              n.books = BooksAfterEvent(f, ch[h].diffs[1])
       PROVE  FeedGood(ch, n) /\ Seen
  <2>1. CASE Tracked \subseteq f.dropped
    <3>1. Tracked \subseteq n.dropped
      BY <1>11, <2>1 DEF Advanced
    <3> QED BY <1>9, <1>11, <3>1
  <2>2. CASE f.last \in {0, h - 1}
    <3>1. \A c \in Tracked \ n.dropped : CoinGood(ch, n, c)
      BY <1>2, <1>11, <2>2, EventGood
    <3> QED BY <1>9, <1>11, <3>1
  <2> QED BY <1>3, <1>5, <1>11, <2>1, <2>2
<1>12. FeedGood(ch, n) /\ Seen
  BY <1>2, <1>6, <1>7, <1>8, <1>10, <1>11 DEF Taken
<1> QED BY <1>1, <1>12 DEF doc, n

-----------------------------------------------------------------------------
(* Lines, one after the other *)

ReadOp(c, f, line) == TakeLine(f, line)
Reader == INSTANCE Folding WITH Op <- ReadOp, Good <- NoMatter

LEMMA ConsumeFolds == \A c, f, lines : Reader!Folded(c, f, lines) = Consume(f, lines)
BY DEF Reader!Folded, Reader!Fold, Consume, Fold, ReadOp

LEMMA ConsumeNothing == \A f : Consume(f, <<>>) = f
BY ConsumeFolds, Reader!FoldEmpty

LEMMA ConsumeMore ==
  ASSUME NEW T, NEW lines \in Seq(T), NEW line \in T, NEW f
  PROVE  Consume(f, Append(lines, line)) = TakeLine(Consume(f, lines), line)
<1>1. Reader!Folded(0, f, Append(lines, line)) = ReadOp(0, Reader!Folded(0, f, lines), line)
  BY Reader!FoldAppend
<1> QED BY <1>1, ConsumeFolds DEF ReadOp

LEMMA ConsumeConcat ==
  ASSUME NEW s, IsList(s), NEW t, IsList(t), NEW f
  PROVE  Consume(f, s \o t) = Consume(Consume(f, s), t)
<1> DEFINE T == Range(s) \cup Range(t)
<1>1. s \in Seq(T) /\ t \in Seq(T)
  BY DEF IsList
<1> HIDE DEF T
<1>2. Reader!Folded(0, f, s \o t) = Reader!Folded(0, Reader!Folded(0, f, s), t)
  BY <1>1, Reader!FoldConcat
<1> QED BY <1>2, ConsumeFolds

Documented(ch, lines) == \A line \in Range(lines) : LineDocument(line) \in Docs(ch)

\* Whatever is read, the feed keeps its shape.
LEMMA ConsumeFine ==
  ASSUME NEW ch, ChainFine(ch), source = "events" => OneEach(ch), NEW f, FeedFine(ch, f),
         NEW lines, IsList(lines), Documented(ch, lines)
  PROVE  FeedFine(ch, Consume(f, lines)) /\ Consume(f, lines).strict = f.strict
<1> DEFINE T == Range(lines)
           P == {r \in Seq(T) : FeedFine(ch, Consume(f, r)) /\ Consume(f, r).strict = f.strict}
<1>1. <<>> \in P
  BY ConsumeNothing
<1>2. \A r \in Seq(T), x \in T : r \in P => Append(r, x) \in P
  <2> SUFFICES ASSUME NEW r \in Seq(T), NEW x \in T, r \in P
               PROVE  FeedFine(ch, Consume(f, Append(r, x))) /\ Consume(f, Append(r, x)).strict = f.strict
    OBVIOUS
  <2> DEFINE g == Consume(f, r)
  <2>1. FeedFine(ch, g) /\ g.strict = f.strict
    OBVIOUS
  <2>2. Consume(f, Append(r, x)) = TakeLine(g, x)
    BY ConsumeMore
  <2>3. LineDocument(x) \in Docs(ch)
    BY DEF Documented
  <2> HIDE DEF g
  <2>4. FeedFine(ch, TakeLine(g, x)) /\ TakeLine(g, x).strict = g.strict
    BY <2>1, <2>3, TakeLineFine
  <2> QED BY <2>1, <2>2, <2>4
<1>3. Seq(T) \subseteq P
  <2> HIDE DEF P, T
  <2> QED BY <1>1, <1>2, Reader!SequenceInduction
<1> QED BY <1>3 DEF IsList

\* Whatever is read of blocks, the feed knows what it knows.
LEMMA ConsumeGood ==
  ASSUME NEW ch, ChainFine(ch), source # "events", NEW f, FeedGood(ch, f),
         NEW lines, IsList(lines), Documented(ch, lines)
  PROVE  FeedGood(ch, Consume(f, lines))
<1> DEFINE T == Range(lines)
           P == {r \in Seq(T) : FeedGood(ch, Consume(f, r))}
<1>1. <<>> \in P
  BY ConsumeNothing
<1>2. \A r \in Seq(T), x \in T : r \in P => Append(r, x) \in P
  <2> SUFFICES ASSUME NEW r \in Seq(T), NEW x \in T, r \in P
               PROVE  FeedGood(ch, Consume(f, Append(r, x)))
    OBVIOUS
  <2> DEFINE g == Consume(f, r)
  <2>1. FeedGood(ch, g)
    OBVIOUS
  <2>2. Consume(f, Append(r, x)) = TakeLine(g, x)
    BY ConsumeMore
  <2>3. LineDocument(x) \in Docs(ch)
    BY DEF Documented
  <2> HIDE DEF g
  <2>4. FeedGood(ch, TakeLine(g, x))
    BY <2>1, <2>3, TakeLineGood
  <2> QED BY <2>1, <2>2, <2>4
<1>3. Seq(T) \subseteq P
  <2> HIDE DEF P, T
  <2> QED BY <1>1, <1>2, Reader!SequenceInduction
<1> QED BY <1>3 DEF IsList

\* Lines that hold the heights after one, and a feed that has read up to that one.
Run(ch, lines, height) ==
    \A j \in 1 .. Len(lines) :
       height + j \in DOMAIN ch /\ LineDocument(lines[j]) = DocOf(ch, height + j)

Ready(f, height) == f.failed \/ Tracked \subseteq f.dropped \/ f.last \in {0, height}

LEMMA ConsumeRun ==
  ASSUME NEW ch, ChainFine(ch), OneEach(ch), source = "events", NEW f, FeedGood(ch, f),
         NEW height \in Nat, Ready(f, height), NEW lines, IsList(lines), Run(ch, lines, height)
  PROVE  FeedGood(ch, Consume(f, lines)) /\ Ready(Consume(f, lines), height + Len(lines))
<1> DEFINE T == Range(lines)
           P == {r \in Seq(T) : Run(ch, r, height) =>
                   FeedGood(ch, Consume(f, r)) /\ Ready(Consume(f, r), height + Len(r))}
<1>1. <<>> \in P
  <2>1. Len(<<>>) = 0 /\ height + 0 = height
    OBVIOUS
  <2> QED BY <2>1, ConsumeNothing
<1>2. \A r \in Seq(T), x \in T : r \in P => Append(r, x) \in P
  <2> SUFFICES ASSUME NEW r \in Seq(T), NEW x \in T, r \in P, Run(ch, Append(r, x), height)
               PROVE  /\ FeedGood(ch, Consume(f, Append(r, x)))
                      /\ Ready(Consume(f, Append(r, x)), height + Len(Append(r, x)))
    OBVIOUS
  <2> DEFINE g == Consume(f, r)
             u == Append(r, x)
             k == Len(r)
             h == height + (k + 1)
  <2>1. /\ k \in Nat /\ Len(u) = k + 1 /\ u[k + 1] = x
        /\ \A j \in 1 .. k : u[j] = r[j]
    OBVIOUS
  <2>2. Run(ch, r, height) /\ h \in DOMAIN ch /\ LineDocument(x) = DocOf(ch, h)
    <3>1. \A j \in 1 .. k : j \in 1 .. k + 1
      BY <2>1
    <3>2. k + 1 \in 1 .. k + 1
      BY <2>1
    <3> HIDE DEF k, u
    <3>3. \A j \in 1 .. k + 1 : height + j \in DOMAIN ch /\ LineDocument(u[j]) = DocOf(ch, height + j)
      BY <2>1 DEF Run, u
    <3> QED BY <2>1, <3>1, <3>2, <3>3 DEF Run, k
  <2>3. FeedGood(ch, g) /\ Ready(g, height + k)
    BY <2>2
  <2>4. Consume(f, u) = TakeLine(g, x)
    BY ConsumeMore
  <2>5. LineDocument(x) \in Docs(ch)
    BY <2>2 DEF Docs
  <2>6. h - 1 = height + k
    BY <2>1
  <2> HIDE DEF g, k, h, u
  <2>7. FeedGood(ch, TakeLine(g, x)) /\ (\/ TakeLine(g, x).failed \/ Tracked \subseteq TakeLine(g, x).dropped
                                         \/ TakeLine(g, x).last = h)
    BY <2>2, <2>3, <2>5, <2>6, TakeLineGood DEF Ready
  <2>8. height + Len(u) = h
    BY <2>1 DEF h
  <2> QED BY <2>4, <2>7, <2>8 DEF Ready, u
<1>3. Seq(T) \subseteq P
  <2> HIDE DEF P, T
  <2> QED BY <1>1, <1>2, Reader!SequenceInduction
<1> QED BY <1>3 DEF IsList

\* Blocks that are added change nothing of what is known of the ones before.
LEMMA GoodGrown ==
  ASSUME NEW ch, ChainFine(ch), NEW new, ChainFine(new), Grown(ch, new), NEW f
  PROVE  /\ BooksFine(ch, f.books) => BooksFine(new, f.books)
         /\ FeedFine(ch, f) => FeedFine(new, f)
         /\ FeedGood(ch, f) => FeedGood(new, f)
<1>1. IsList(ch) /\ IsList(new) /\ Len(ch) \in Nat /\ Len(new) \in Nat /\ Len(ch) <= Len(new)
  BY ListDomain DEF ChainFine, Grown
<1>2. BooksFine(ch, f.books) => BooksFine(new, f.books)
  <2>1. 1 .. Len(ch) \subseteq 1 .. Len(new)
    BY <1>1
  <2> QED BY <2>1 DEF BooksFine
<1>3. FeedFine(ch, f) => FeedFine(new, f)
  BY <1>2 DEF FeedFine
<1>4. ASSUME FeedGood(ch, f) PROVE FeedGood(new, f)
  <2>1. f.last # 0 => \A c : DiffsIn(new, c, f.since, f.last) = DiffsIn(ch, c, f.since, f.last)
    BY <1>1, <1>4, DiffsGrown DEF FeedGood
  <2>2. f.last # 0 => f.last \in 1 .. Len(new)
    BY <1>1, <1>4 DEF FeedGood
  <2>3. \A c \in Tracked \ f.dropped : CoinGood(new, f, c)
    BY <1>4, <2>1 DEF FeedGood, CoinGood
  <2> QED BY <1>3, <1>4, <2>2, <2>3 DEF FeedGood
<1> QED BY <1>2, <1>3, <1>4

-----------------------------------------------------------------------------
(* Texts and their lines *)

CutOp(c, split, token) == SplitToken(split, token)
Cutter == INSTANCE Folding WITH Op <- CutOp, Good <- NoMatter

LEMMA SplitFolds ==
  \A text : Cutter!Folded(0, [lines |-> <<>>, rest |-> <<>>], text) = Split(text)
BY DEF Cutter!Folded, Cutter!Fold, Split, Fold, CutOp

LEMMA SplitEmpty ==
  Split(<<>>) = [lines |-> <<>>, rest |-> <<>>] /\ Lines(<<>>) = <<>> /\ Rest(<<>>) = <<>>
BY SplitFolds, Cutter!FoldEmpty DEF Lines, Rest

LEMMA SplitAppend ==
  ASSUME NEW T, NEW s \in Seq(T), NEW x \in T
  PROVE  Split(Append(s, x)) = SplitToken(Split(s), x)
<1>1. Cutter!Folded(0, [lines |-> <<>>, rest |-> <<>>], Append(s, x))
        = CutOp(0, Cutter!Folded(0, [lines |-> <<>>, rest |-> <<>>], s), x)
  BY Cutter!FoldAppend
<1> QED BY <1>1, SplitFolds DEF CutOp

LEMMA SplitIs ==
  ASSUME NEW text, IsList(text)
  PROVE  Split(text) = [lines |-> Lines(text), rest |-> Rest(text)]
<1> DEFINE T == Range(text)
           P == {s \in Seq(T) : Split(s) = [lines |-> Split(s).lines, rest |-> Split(s).rest]}
<1>1. <<>> \in P
  BY SplitEmpty
<1>2. \A s \in Seq(T), x \in T : s \in P => Append(s, x) \in P
  <2> SUFFICES ASSUME NEW s \in Seq(T), NEW x \in T, s \in P
               PROVE  Split(Append(s, x)) = [lines |-> Split(Append(s, x)).lines, rest |-> Split(Append(s, x)).rest]
    OBVIOUS
  <2> DEFINE p == Split(s)
             q == Split(Append(s, x))
  <2>1. q = SplitToken(p, x) /\ p = [lines |-> p.lines, rest |-> p.rest]
    BY SplitAppend
  <2> HIDE DEF p, q
  <2>2. CASE x.ends
    BY <2>1, <2>2 DEF SplitToken, q
  <2>3. CASE ~x.ends
    <3>1. q = [lines |-> p.lines, rest |-> Append(p.rest, x)]
      BY <2>1, <2>3 DEF SplitToken
    <3> QED BY <3>1 DEF q
  <2> QED BY <2>2, <2>3
<1>3. Seq(T) \subseteq P
  <2> HIDE DEF P, T
  <2> QED BY <1>1, <1>2, Reader!SequenceInduction
<1> QED BY <1>3 DEF IsList, Lines, Rest

LEMMA LinesAppend ==
  ASSUME NEW text, IsList(text), NEW x
  PROVE  /\ Lines(Append(text, x)) = IF x.ends THEN Append(Lines(text), Append(Rest(text), x)) ELSE Lines(text)
         /\ Rest(Append(text, x)) = IF x.ends THEN <<>> ELSE Append(Rest(text), x)
<1> DEFINE T == Range(text) \cup {x}
           p == Split(text)
           q == Split(Append(text, x))
<1>1. text \in Seq(T) /\ x \in T
  BY DEF IsList
<1> HIDE DEF T
<1>2. q = SplitToken(p, x)
  BY <1>1, SplitAppend
<1>3. p = [lines |-> Lines(text), rest |-> Rest(text)]
  BY SplitIs
<1>4. Lines(Append(text, x)) = q.lines /\ Rest(Append(text, x)) = q.rest
  BY DEF Lines, Rest
<1> HIDE DEF p, q
<1>5. CASE x.ends
  BY <1>2, <1>3, <1>4, <1>5 DEF SplitToken
<1>6. CASE ~x.ends
  <2>1. q = [lines |-> Lines(text), rest |-> Append(Rest(text), x)]
    BY <1>2, <1>3, <1>6 DEF SplitToken
  <2> QED BY <1>4, <1>6, <2>1
<1> QED BY <1>5, <1>6

\* The lines of a text are made of its tokens, and none of its rest ends a line.
LEMMA LinesFine ==
  ASSUME NEW text, IsList(text)
  PROVE  /\ IsList(Lines(text)) /\ IsList(Rest(text)) /\ Range(Rest(text)) \subseteq Range(text)
         /\ \A line \in Range(Lines(text)) : IsList(line) /\ Range(line) \subseteq Range(text)
         /\ \A x \in Range(Rest(text)) : ~x.ends
<1> DEFINE T == Range(text)
           Fine(s) == /\ IsList(Lines(s)) /\ IsList(Rest(s)) /\ Range(Rest(s)) \subseteq T
                      /\ \A line \in Range(Lines(s)) : IsList(line) /\ Range(line) \subseteq T
                      /\ \A x \in Range(Rest(s)) : ~x.ends
           P == {s \in Seq(T) : Fine(s)}
<1>0. Range(<<>>) = {}
  BY DEF Range
<1>1. <<>> \in P
  BY <1>0, SplitEmpty, EmptyList
<1>2. \A s \in Seq(T), x \in T : s \in P => Append(s, x) \in P
  <2> SUFFICES ASSUME NEW s \in Seq(T), NEW x \in T, s \in P PROVE Fine(Append(s, x))
    OBVIOUS
  <2> DEFINE lines == Lines(s)
             rest == Rest(s)
             u == Append(s, x)
             r == Append(rest, x)
             l == Append(lines, r)
  <2>1. IsList(s)
    BY ListIn
  <2>2. /\ Lines(u) = IF x.ends THEN l ELSE lines
        /\ Rest(u) = IF x.ends THEN <<>> ELSE r
    BY <2>1, LinesAppend
  <2>3. /\ IsList(lines) /\ IsList(rest) /\ Range(rest) \subseteq T
        /\ \A line \in Range(lines) : IsList(line) /\ Range(line) \subseteq T
        /\ \A y \in Range(rest) : ~y.ends
    OBVIOUS
  <2> HIDE DEF lines, rest, u, r, l, T
  <2>4. IsList(r) /\ Range(r) = Range(rest) \cup {x}
    BY <2>3, AppendList DEF r
  <2>5. IsList(l) /\ Range(l) = Range(lines) \cup {r}
    BY <2>3, AppendList DEF l
  <2>6. CASE x.ends
    BY <1>0, <2>2, <2>3, <2>4, <2>5, <2>6, EmptyList DEF u
  <2>7. CASE ~x.ends
    BY <2>2, <2>3, <2>4, <2>7 DEF u
  <2> QED BY <2>6, <2>7
<1>3. Seq(T) \subseteq P
  <2> HIDE DEF P, T
  <2> QED BY <1>1, <1>2, Reader!SequenceInduction
<1> QED BY <1>3 DEF IsList

\* A partial line is no line yet.
LEMMA RestStays ==
  ASSUME NEW text, IsList(text), \A x \in Range(text) : ~x.ends
  PROVE  Lines(text) = <<>> /\ Rest(text) = text
<1> DEFINE T == Range(text)
           P == {s \in Seq(T) : Lines(s) = <<>> /\ Rest(s) = s}
<1>1. <<>> \in P
  BY SplitEmpty
<1>2. \A s \in Seq(T), x \in T : s \in P => Append(s, x) \in P
  <2> SUFFICES ASSUME NEW s \in Seq(T), NEW x \in T, s \in P
               PROVE  Lines(Append(s, x)) = <<>> /\ Rest(Append(s, x)) = Append(s, x)
    OBVIOUS
  <2>1. IsList(s)
    BY ListIn
  <2> QED BY <2>1, LinesAppend
<1>3. Seq(T) \subseteq P
  <2> HIDE DEF P, T
  <2> QED BY <1>1, <1>2, Reader!SequenceInduction
<1> QED BY <1>3 DEF IsList

\* Wherever a text is cut, the lines are those of the first part and those of its
\* partial line with the second.
LEMMA LinesConcat ==
  ASSUME NEW u, IsList(u), NEW v, IsList(v)
  PROVE  /\ Lines(u \o v) = Lines(u) \o Lines(Rest(u) \o v)
         /\ Rest(u \o v) = Rest(Rest(u) \o v)
<1> DEFINE T == Range(v)
           r == Rest(u)
           Fine(s) == Lines(u \o s) = Lines(u) \o Lines(r \o s) /\ Rest(u \o s) = Rest(r \o s)
           P == {s \in Seq(T) : Fine(s)}
<1>1. IsList(Lines(u)) /\ IsList(r) /\ Lines(r) = <<>> /\ Rest(r) = r
  <2>1. IsList(Lines(u)) /\ IsList(r) /\ \A x \in Range(r) : ~x.ends
    BY LinesFine
  <2> HIDE DEF r
  <2> QED BY <2>1, RestStays
<1>2. <<>> \in P
  <2>1. u \o <<>> = u /\ r \o <<>> = r /\ Lines(u) \o <<>> = Lines(u)
    <3> HIDE DEF r
    <3> QED BY <1>1, ConcatNothing
  <2> HIDE DEF r
  <2>2. Lines(r \o <<>>) = <<>> /\ Rest(r \o <<>>) = r
    BY <1>1, <2>1, Zenon
  <2>3. Lines(u \o <<>>) = Lines(u) /\ Rest(u \o <<>>) = r
    BY <2>1, Zenon DEF r
  <2>4. Lines(u \o <<>>) = Lines(u) \o Lines(r \o <<>>)
    BY <2>1, <2>2, <2>3, Zenon
  <2>5. Fine(<<>>)
    BY <2>2, <2>3, <2>4, Zenon
  <2> QED BY <2>5
<1>3. \A s \in Seq(T), x \in T : s \in P => Append(s, x) \in P
  <2> SUFFICES ASSUME NEW s \in Seq(T), NEW x \in T, s \in P PROVE Fine(Append(s, x))
    BY SMTT(30)
  <2> DEFINE us == u \o s
             w == r \o s
  <2>1. IsList(s)
    BY ListIn
  <2>2. IsList(us) /\ u \o Append(s, x) = Append(us, x)
    <3>1. IsList(u \o s)
      BY <2>1, ConcatList
    <3> QED BY <2>1, <3>1, ConcatAppend
  <2>3. IsList(w) /\ r \o Append(s, x) = Append(w, x)
    <3> HIDE DEF r
    <3>1. IsList(w)
      BY <1>1, <2>1, ConcatList
    <3> QED BY <1>1, <2>1, <3>1, ConcatAppend
  <2>4. Lines(us) = Lines(u) \o Lines(w) /\ Rest(us) = Rest(w)
    OBVIOUS
  <2> HIDE DEF us, w
  <2>5. /\ Lines(Append(us, x)) = IF x.ends THEN Append(Lines(us), Append(Rest(us), x)) ELSE Lines(us)
        /\ Rest(Append(us, x)) = IF x.ends THEN <<>> ELSE Append(Rest(us), x)
    BY <2>2, LinesAppend
  <2>6. /\ Lines(Append(w, x)) = IF x.ends THEN Append(Lines(w), Append(Rest(w), x)) ELSE Lines(w)
        /\ Rest(Append(w, x)) = IF x.ends THEN <<>> ELSE Append(Rest(w), x)
    BY <2>3, LinesAppend
  <2>7. Lines(u) \o Append(Lines(w), Append(Rest(w), x)) = Append(Lines(u) \o Lines(w), Append(Rest(w), x))
    <3>1. IsList(Lines(w))
      BY <2>3, LinesFine
    <3> QED BY <1>1, <3>1, ConcatAppend
  <2>8. Lines(Append(us, x)) = Lines(u) \o Lines(Append(w, x))
    BY <2>4, <2>5, <2>6, <2>7
  <2>9. Rest(Append(us, x)) = Rest(Append(w, x))
    BY <2>4, <2>5, <2>6
  <2> QED BY <2>2, <2>3, <2>8, <2>9
<1>4. Seq(T) \subseteq P
  <2> HIDE DEF P, T
  <2> QED BY <1>2, <1>3, Reader!SequenceInduction
<1> QED BY <1>4 DEF IsList

-----------------------------------------------------------------------------
(* What tail() has read of the files *)

FilesFine(fs) == IsList(fs) /\ \A i \in DOMAIN fs : IsList(fs[i])

Joined(fs, from, to) ==
    Fold(LAMBDA lines, file : lines \o FileLines(file), <<>>, SubSeq(fs, from, to))

\* ReadLines of any files, and of a cursor anywhere.
LinesRead(fs, from, at, pos) == Joined(fs, from, at - 1) \o Lines(SubSeq(fs[at], 1, pos))

\* What a cycle finds in the file it is in.
NewIn(fs, at, pos) == Rest(SubSeq(fs[at], 1, pos)) \o SubSeq(fs[at], pos + 1, Len(fs[at]))

JoinOp(c, lines, file) == lines \o FileLines(file)
Joiner == INSTANCE Folding WITH Op <- JoinOp, Good <- NoMatter

LEMMA JoinFolds ==
  \A fs, from, to : Joined(fs, from, to) = Joiner!Folded(0, <<>>, SubSeq(fs, from, to))
BY DEF Joined, Joiner!Folded, Joiner!Fold, Fold, JoinOp

LEMMA JoinedNone ==
  ASSUME NEW fs, NEW from \in Int, NEW to \in Int, from > to
  PROVE  Joined(fs, from, to) = <<>>
<1>1. SubSeq(fs, from, to) = <<>>
  OBVIOUS
<1> QED BY <1>1, JoinFolds, Joiner!FoldEmpty

LEMMA JoinedMore ==
  ASSUME NEW fs, IsList(fs), NEW from \in Nat, NEW to \in Nat,
         1 <= from, from <= to + 1, to + 1 <= Len(fs)
  PROVE  Joined(fs, from, to + 1) = Joined(fs, from, to) \o FileLines(fs[to + 1])
<1> DEFINE s == SubSeq(fs, from, to)
           x == fs[to + 1]
           T == Range(fs)
<1>1. s \in Seq(T) /\ x \in T /\ SubSeq(fs, from, to + 1) = Append(s, x)
  BY SubSeqMore
<1> HIDE DEF s, x, T
<1>2. Joiner!Folded(0, <<>>, Append(s, x)) = JoinOp(0, Joiner!Folded(0, <<>>, s), x)
  BY <1>1, Joiner!FoldAppend
<1> QED BY <1>1, <1>2, JoinFolds DEF JoinOp, s, x

LEMMA FileLinesFine ==
  ASSUME NEW text, IsList(text)
  PROVE  /\ IsList(FileLines(text))
         /\ \A line \in Range(FileLines(text)) : IsList(line) /\ Range(line) \subseteq Range(text)
<1>1. /\ IsList(Lines(text)) /\ IsList(Rest(text)) /\ Range(Rest(text)) \subseteq Range(text)
      /\ \A line \in Range(Lines(text)) : IsList(line) /\ Range(line) \subseteq Range(text)
  BY LinesFine
<1> DEFINE l == Lines(text)
           r == Rest(text)
<1>2. FileLines(text) = IF r = <<>> THEN l ELSE Append(l, r)
  BY DEF FileLines
<1> HIDE DEF l, r
<1>3. IsList(Append(l, r)) /\ Range(Append(l, r)) = Range(l) \cup {r}
  BY <1>1, AppendList DEF l
<1> QED BY <1>1, <1>2, <1>3 DEF l, r

LEMMA JoinedFine ==
  ASSUME NEW fs, FilesFine(fs), NEW from \in Nat, NEW to \in Nat, 1 <= from, to <= Len(fs)
  PROVE  /\ IsList(Joined(fs, from, to))
         /\ \A line \in Range(Joined(fs, from, to)) :
               IsList(line) /\ \E i \in DOMAIN fs : Range(line) \subseteq Range(fs[i])
<1> DEFINE Fine(k) == /\ IsList(Joined(fs, from, k))
                      /\ \A line \in Range(Joined(fs, from, k)) :
                            IsList(line) /\ \E i \in DOMAIN fs : Range(line) \subseteq Range(fs[i])
           A == {k \in Nat : k <= Len(fs) => Fine(k)}
<1>1. IsList(fs) /\ Len(fs) \in Nat /\ DOMAIN fs = 1 .. Len(fs)
  BY ListDomain DEF FilesFine
<1>2. ASSUME NEW k \in Nat, k < from PROVE Fine(k)
  <2>1. Joined(fs, from, k) = <<>>
    BY <1>2, JoinedNone
  <2>2. Range(<<>>) = {}
    BY DEF Range
  <2> QED BY <2>1, <2>2, EmptyList
<1>3. 0 \in A
  BY <1>2
<1>4. ASSUME NEW k \in Nat, from <= k + 1, k + 1 <= Len(fs), Fine(k) PROVE Fine(k + 1)
  <2> DEFINE j == Joined(fs, from, k)
             l == FileLines(fs[k + 1])
  <2>1. Joined(fs, from, k + 1) = j \o l
    BY <1>1, <1>4, JoinedMore
  <2>2. k + 1 \in DOMAIN fs
    BY <1>1, <1>4
  <2>3. IsList(l) /\ \A line \in Range(l) : IsList(line) /\ Range(line) \subseteq Range(fs[k + 1])
    BY <2>2, FileLinesFine DEF FilesFine
  <2>4. IsList(j)
    BY <1>4
  <2>5. IsList(j \o l) /\ Range(j \o l) = Range(j) \cup Range(l)
    <3> HIDE DEF j, l
    <3> QED BY <2>3, <2>4, ConcatList
  <2> QED BY <1>4, <2>1, <2>2, <2>3, <2>5
<1> HIDE DEF Fine
<1>5. \A k \in Nat : k \in A => k + 1 \in A
  <2> SUFFICES ASSUME NEW k \in Nat, k \in A, k + 1 <= Len(fs) PROVE Fine(k + 1)
    OBVIOUS
  <2>1. CASE k + 1 < from
    BY <1>2, <2>1
  <2>2. CASE from <= k + 1
    <3>1. Fine(k)
      BY <1>1
    <3> QED BY <1>4, <2>2, <3>1
  <2> QED BY <2>1, <2>2
<1> HIDE DEF A
<1>6. to \in A
  BY <1>3, <1>5, Joiner!SetInduction
<1> QED BY <1>6 DEF A, Fine

\* A file is what is before a place in it and what is after.
LEMMA CutFile ==
  ASSUME NEW t, IsList(t), NEW pos \in 0 .. Len(t)
  PROVE  LET before == SubSeq(t, 1, pos)
             after == SubSeq(t, pos + 1, Len(t))
         IN  /\ IsList(before) /\ IsList(after) /\ t = before \o after
             /\ Range(before) \subseteq Range(t) /\ Range(after) \subseteq Range(t)
             /\ Len(before) = pos
<1> DEFINE T == Range(t)
           before == SubSeq(t, 1, pos)
           after == SubSeq(t, pos + 1, Len(t))
           n == Len(t)
           u == before \o after
<1>1. n \in Nat /\ DOMAIN t = 1 .. n /\ \A i \in 1 .. n : t[i] \in T
  BY ListDomain
<1> HIDE DEF T, n
<1>2. before \in Seq(T) /\ Len(before) = pos /\ \A i \in 1 .. pos : before[i] = t[i]
  <2>1. \A i \in 1 .. pos : t[i] \in T
    BY <1>1 DEF n
  <2>2. before \in Seq(T) /\ Len(before) = pos - 1 + 1 /\ \A i \in 1 .. pos - 1 + 1 : before[i] = t[1 + i - 1]
    BY <2>1, SubSeqProperties
  <2>3. pos - 1 + 1 = pos /\ \A i \in 1 .. pos : 1 + i - 1 = i
    OBVIOUS
  <2> QED BY <2>2, <2>3
<1>3. after \in Seq(T) /\ Len(after) = n - pos /\ \A i \in 1 .. n - pos : after[i] = t[pos + i]
  <2>1. \A i \in pos + 1 .. n : t[i] \in T
    BY <1>1 DEF n
  <2>2. pos + 1 \in 1 .. n + 1
    BY <1>1 DEF n
  <2>3. /\ after \in Seq(T)
        /\ Len(after) = IF pos + 1 <= n THEN n - (pos + 1) + 1 ELSE 0
        /\ \A i \in 1 .. n - (pos + 1) + 1 : after[i] = t[(pos + 1) + i - 1]
    BY <1>1, <2>1, <2>2, SubSeqProperties DEF n
  <2>4. n - (pos + 1) + 1 = n - pos /\ \A i \in 1 .. n - pos : (pos + 1) + i - 1 = pos + i
    BY <1>1 DEF n
  <2>5. Len(after) = n - pos
    <3>1. n \in Nat /\ pos \in 0 .. n
      BY <1>1 DEF n
    <3>2. (IF pos + 1 <= n THEN n - (pos + 1) + 1 ELSE 0) = n - pos
      BY <3>1
    <3> HIDE DEF after
    <3> QED BY <2>3, <3>2
  <2> QED BY <2>3, <2>4, <2>5
<1>4. IsList(before) /\ Range(before) \subseteq T /\ IsList(after) /\ Range(after) \subseteq T
  BY <1>2, <1>3, ListIn
<1> HIDE DEF before, after
<1>5. /\ IsList(u) /\ Len(u) = pos + (n - pos)
      /\ \A i \in 1 .. pos : u[i] = before[i]
      /\ \A i \in 1 .. n - pos : u[pos + i] = after[i]
  <2>1. /\ IsList(u) /\ Len(u) = Len(before) + Len(after)
        /\ \A i \in 1 .. Len(before) : u[i] = before[i]
        /\ \A i \in 1 .. Len(after) : u[Len(before) + i] = after[i]
    BY <1>4, ConcatList
  <2> HIDE DEF u
  <2> QED BY <1>2, <1>3, <2>1
<1> HIDE DEF u
<1>6. \A i \in 1 .. n : t[i] = u[i]
  <2> TAKE i \in 1 .. n
  <2>1. CASE i <= pos
    BY <1>2, <1>5, <2>1
  <2>2. CASE i > pos
    <3>1. i - pos \in 1 .. n - pos /\ pos + (i - pos) = i
      BY <1>1, <2>2
    <3> QED BY <1>3, <1>5, <3>1
  <2> QED BY <1>1, <2>1, <2>2
<1>7. t = u
  BY <1>1, <1>5, <1>6, ListEqual DEF n
<1> QED BY <1>2, <1>4, <1>7 DEF u, T, before, after, n

\* A cycle that finds the file it left off in.
LEMMA ReadSame ==
  ASSUME NEW fs, FilesFine(fs), NEW at \in DOMAIN fs, NEW from \in 1 .. at, NEW pos \in 0 .. Len(fs[at])
  PROVE  LET new == NewIn(fs, at, pos)
         IN  /\ IsList(new) /\ Range(new) \subseteq Range(fs[at])
             /\ LinesRead(fs, from, at, Len(fs[at])) = LinesRead(fs, from, at, pos) \o Lines(new)
             /\ Joined(fs, from, at) = LinesRead(fs, from, at, pos) \o FileLines(new)
             /\ Rest(new) = Rest(fs[at])
             /\ Lines(fs[at]) = Lines(SubSeq(fs[at], 1, pos)) \o Lines(new)
<1> DEFINE t == fs[at]
           before == SubSeq(t, 1, pos)
           after == SubSeq(t, pos + 1, Len(t))
           new == NewIn(fs, at, pos)
           j == Joined(fs, from, at - 1)
<1>1. IsList(t) /\ IsList(fs) /\ Len(fs) \in Nat /\ at \in 1 .. Len(fs)
  BY ListDomain DEF FilesFine
<1>2. Len(t) \in Nat /\ SubSeq(t, 1, Len(t)) = t
  <2>1. Len(t) \in Nat
    BY <1>1, ListDomain
  <2> QED BY <1>1, <2>1 DEF IsList
<1>3. /\ IsList(before) /\ IsList(after) /\ t = before \o after
      /\ Range(before) \subseteq Range(t) /\ Range(after) \subseteq Range(t)
  BY <1>1, CutFile
<1>4. new = Rest(before) \o after
  BY DEF NewIn
<1>5. IsList(j)
  <2>1. at - 1 \in Nat /\ at - 1 <= Len(fs) /\ from \in Nat /\ 1 <= from
    BY <1>1
  <2> QED BY <2>1, JoinedFine
<1>6. Joined(fs, from, at) = j \o FileLines(t)
  <2> DEFINE k == at - 1
  <2>1. k \in Nat /\ k + 1 = at /\ k + 1 <= Len(fs) /\ from \in Nat /\ 1 <= from /\ from <= k + 1
    BY <1>1
  <2> HIDE DEF k
  <2>2. Joined(fs, from, k + 1) = Joined(fs, from, k) \o FileLines(fs[k + 1])
    BY <1>1, <2>1, JoinedMore
  <2> QED BY <2>1, <2>2 DEF k
<1>7. /\ LinesRead(fs, from, at, Len(t)) = j \o Lines(t)
      /\ LinesRead(fs, from, at, pos) = j \o Lines(before)
  BY <1>2 DEF LinesRead
<1> HIDE DEF t, before, after, new, j
<1>8. IsList(Rest(before)) /\ IsList(Lines(before)) /\ Range(Rest(before)) \subseteq Range(before)
  BY <1>3, LinesFine
<1>9. IsList(new) /\ Range(new) \subseteq Range(t)
  BY <1>3, <1>4, <1>8, ConcatList
<1>10. Lines(t) = Lines(before) \o Lines(new) /\ Rest(t) = Rest(new)
  BY <1>3, <1>4, LinesConcat
<1>11. FileLines(t) = Lines(before) \o FileLines(new)
  <2>1. IsList(Lines(new)) /\ IsList(Rest(new))
    BY <1>9, LinesFine
  <2>2. Lines(before) \o Append(Lines(new), Rest(new)) = Append(Lines(before) \o Lines(new), Rest(new))
    BY <1>8, <2>1, ConcatAppend
  <2> QED BY <1>10, <2>2 DEF FileLines
<1>12. \A r : IsList(r) => j \o (Lines(before) \o r) = (j \o Lines(before)) \o r
  BY <1>5, <1>8, ListConcat
<1>13. IsList(Lines(new)) /\ IsList(FileLines(new))
  BY <1>9, LinesFine, FileLinesFine
<1> QED BY <1>6, <1>7, <1>9, <1>10, <1>11, <1>12, <1>13 DEF t, before, new

\* A cycle that goes on to the next file.
LEMMA ReadNext ==
  ASSUME NEW fs, FilesFine(fs), NEW at \in DOMAIN fs, at + 1 \in DOMAIN fs, NEW from \in 1 .. at,
         NEW pos \in 0 .. Len(fs[at])
  PROVE  LinesRead(fs, from, at + 1, Len(fs[at + 1]))
           = (LinesRead(fs, from, at, pos) \o FileLines(NewIn(fs, at, pos))) \o Lines(fs[at + 1])
<1> DEFINE next == fs[at + 1]
<1>1. Joined(fs, from, at) = LinesRead(fs, from, at, pos) \o FileLines(NewIn(fs, at, pos))
  BY ReadSame
<1>2. SubSeq(next, 1, Len(next)) = next
  <2>1. IsList(next)
    BY DEF FilesFine
  <2>2. Len(next) \in Nat
    BY <2>1, ListDomain
  <2> QED BY <2>1, <2>2 DEF IsList
<1> DEFINE k == at + 1
           l == LinesRead(fs, from, at, pos) \o FileLines(NewIn(fs, at, pos))
<1>3. k - 1 = at
  BY ListDomain DEF FilesFine
<1>4. LinesRead(fs, from, k, Len(next)) = Joined(fs, from, k - 1) \o Lines(SubSeq(next, 1, Len(next)))
  BY DEF LinesRead
<1> HIDE DEF k, next, l
<1>5. LinesRead(fs, from, k, Len(next)) = l \o Lines(next)
  BY <1>1, <1>2, <1>3, <1>4 DEF l
<1> QED BY <1>5 DEF k, next, l

LEMMA ReadFirst ==
  ASSUME NEW fs, FilesFine(fs), NEW at \in DOMAIN fs
  PROVE  LinesRead(fs, at, at, Len(fs[at])) = Lines(fs[at])
<1>1. IsList(fs[at]) /\ at \in Nat
  BY ListDomain DEF FilesFine
<1>2. SubSeq(fs[at], 1, Len(fs[at])) = fs[at]
  <2>1. Len(fs[at]) \in Nat
    BY <1>1, ListDomain
  <2> QED BY <1>1, <2>1 DEF IsList
<1>3. Joined(fs, at, at - 1) = <<>>
  BY <1>1, JoinedNone
<1>4. IsList(Lines(fs[at]))
  BY <1>1, LinesFine
<1>5. <<>> \o Lines(fs[at]) = Lines(fs[at])
  BY <1>4, ConcatNothing
<1> QED BY <1>2, <1>3, <1>5 DEF LinesRead

LEMMA LinesReadFine ==
  ASSUME NEW fs, FilesFine(fs), NEW at \in DOMAIN fs, NEW from \in 1 .. at, NEW pos \in 0 .. Len(fs[at])
  PROVE  /\ IsList(LinesRead(fs, from, at, pos))
         /\ \A line \in Range(LinesRead(fs, from, at, pos)) :
               IsList(line) /\ \E i \in DOMAIN fs : Range(line) \subseteq Range(fs[i])
<1> DEFINE t == fs[at]
           before == SubSeq(t, 1, pos)
           j == Joined(fs, from, at - 1)
<1>1. IsList(t) /\ IsList(fs) /\ Len(fs) \in Nat /\ at \in 1 .. Len(fs)
  BY ListDomain DEF FilesFine
<1>2. /\ IsList(j)
      /\ \A line \in Range(j) : IsList(line) /\ \E i \in DOMAIN fs : Range(line) \subseteq Range(fs[i])
  <2>1. at - 1 \in Nat /\ at - 1 <= Len(fs) /\ from \in Nat /\ 1 <= from
    BY <1>1
  <2> QED BY <2>1, JoinedFine
<1>3. IsList(before) /\ Range(before) \subseteq Range(t)
  BY <1>1, CutFile
<1> HIDE DEF before, j
<1>4. /\ IsList(Lines(before))
      /\ \A line \in Range(Lines(before)) : IsList(line) /\ Range(line) \subseteq Range(before)
  BY <1>3, LinesFine
<1> DEFINE l == Lines(before)
<1> HIDE DEF l
<1>5. IsList(j \o l) /\ Range(j \o l) = Range(j) \cup Range(l)
  BY <1>2, <1>4, ConcatList DEF l
<1>6. LinesRead(fs, from, at, pos) = j \o l
  BY DEF LinesRead, j, l, before
<1> QED BY <1>2, <1>3, <1>4, <1>5, <1>6 DEF l

\* What is appended to the last file, or to the files, changes nothing of what was read.
LEMMA ReadStays ==
  ASSUME NEW fs, FilesFine(fs), NEW new, FilesFine(new), Len(fs) <= Len(new),
         NEW at \in DOMAIN fs, NEW from \in 1 .. at, NEW pos \in 0 .. Len(fs[at]),
         \A i \in 1 .. at - 1 : new[i] = fs[i],
         Len(fs[at]) <= Len(new[at]), \A i \in 1 .. Len(fs[at]) : new[at][i] = fs[at][i]
  PROVE  /\ LinesRead(new, from, at, pos) = LinesRead(fs, from, at, pos)
         /\ SubSeq(new[at], 1, pos) = SubSeq(fs[at], 1, pos)
         /\ pos \in 0 .. Len(new[at])
<1>1. /\ IsList(fs) /\ Len(fs) \in Nat /\ at \in 1 .. Len(fs) /\ IsList(fs[at]) /\ Len(fs[at]) \in Nat
      /\ IsList(new) /\ Len(new) \in Nat /\ at \in DOMAIN new /\ IsList(new[at]) /\ Len(new[at]) \in Nat
  <2>1. IsList(fs) /\ IsList(new) /\ IsList(fs[at])
    BY DEF FilesFine
  <2>2. Len(fs) \in Nat /\ Len(new) \in Nat /\ DOMAIN fs = 1 .. Len(fs) /\ DOMAIN new = 1 .. Len(new)
    BY <2>1, ListDomain
  <2>3. at \in DOMAIN new
    BY <2>2
  <2>4. IsList(new[at])
    BY <2>3 DEF FilesFine
  <2>5. Len(fs[at]) \in Nat /\ Len(new[at]) \in Nat
    BY <2>1, <2>4, ListDomain
  <2> QED BY <2>1, <2>2, <2>3, <2>4, <2>5
<1>2. SubSeq(new[at], 1, pos) = SubSeq(fs[at], 1, pos)
  <2>1. \A i \in 1 .. pos : new[at][i] = fs[at][i]
    BY <1>1
  <2> QED BY <2>1, SubSeqSame
<1>3. SubSeq(new, from, at - 1) = SubSeq(fs, from, at - 1)
  <2>1. \A i \in from .. at - 1 : new[i] = fs[i]
    BY <1>1
  <2>2. from \in Int /\ at - 1 \in Int
    BY <1>1
  <2> QED BY <2>1, <2>2, SubSeqSame
<1>4. Joined(new, from, at - 1) = Joined(fs, from, at - 1)
  BY <1>3, JoinFolds
<1>5. LinesRead(new, from, at, pos) = LinesRead(fs, from, at, pos)
  BY <1>2, <1>4 DEF LinesRead
<1>6. pos \in 0 .. Len(new[at])
  BY <1>1
<1> QED BY <1>2, <1>5, <1>6

-----------------------------------------------------------------------------
(* The inductive invariant *)

ChainInv ==
    /\ source \in {"blocks", "events", "quicknode"}
    /\ ChainFine(chain) /\ (source = "events" => OneEach(chain))

\* Every token of the files is of the document of a height.
NodeFine(ch, fs, h, w) ==
    /\ FilesFine(fs) /\ (source = "quicknode" => fs = <<>>)
    /\ \A i \in DOMAIN fs : \A x \in Range(fs[i]) : x.document \in Docs(ch)
    /\ h \in Nat /\ w \in 0 .. Len(ch)
    /\ h # 0 => h = w /\ fs # <<>>

NodeInv == NodeFine(chain, files, half, written)

\* The whole lines of all the files.
AllLines(fs) == Joined(fs, 1, Len(fs) - 1) \o Lines(fs[Len(fs)])

\* Each height was written once, in order.
Ordered(ch, fs, h, w) ==
    /\ fs = <<>> => w = 0
    /\ fs # <<>> =>
          /\ Run(ch, AllLines(fs), 0)
          /\ w = Len(AllLines(fs)) + (IF h = 0 THEN 0 ELSE 1)
          /\ h = 0 => Rest(fs[Len(fs)]) = <<>>
          /\ h # 0 => \E x : Rest(fs[Len(fs)]) = <<x>> /\ x.document = DocOf(ch, h)

\* So does a node that never crashed.
OrderInv == source = "events" /\ faults = 0 => Ordered(chain, files, half, written)

\* The buffer is the partial line before the place the cursor is at.
CursorInv ==
    /\ cursor.file \in 0 .. Len(files)
    /\ cursor.file = 0 => cursor.buffer = <<>>
    /\ cursor.file # 0 => /\ cursor.pos \in 0 .. Len(files[cursor.file])
                          /\ cursor.buffer = Rest(SubSeq(files[cursor.file], 1, cursor.pos))
    /\ first \in 0 .. cursor.file /\ (first = 0 <=> cursor.file = 0)

FeedInv ==
    /\ FeedFine(chain, feed)
    /\ source = "blocks" => FeedGood(chain, feed)
    /\ source # "quicknode" /\ first = 0 => feed = NewFeed(feed.strict)
    /\ source # "quicknode" /\ first # 0 /\ ~jumped =>
          feed = Consume(NewFeed(feed.strict), LinesRead(files, first, cursor.file, cursor.pos))

\* A stream that delivers diffs has a book, and one that is not stale is what the chain
\* says at its height.
StreamFine(ch, s, f, c) ==
    /\ DOMAIN s = {"up", "snapshot", "next", "streak", "silent"}
    /\ s.snapshot \in 0 .. Len(ch)
    /\ s.up => s.next \in Nat /\ s.next >= 1
    /\ s.up /\ s.snapshot = 0 => c \in DOMAIN f.books
    /\ c \in DOMAIN f.books =>
          /\ f.books[c].height \in 1 .. Len(ch)
          /\ ~f.books[c].stale /\ c \notin f.dropped =>
                f.books[c].orders = Resting(DiffsIn(ch, c, 1, f.books[c].height))

StreamsInv ==
    /\ DOMAIN streams = Tracked
    /\ source # "quicknode" => \A c \in Tracked : ~streams[c].up
    /\ source = "quicknode" => \A c \in Tracked : StreamFine(chain, streams[c], feed, c)

FaultsInv == faults \in 0 .. MaxFaults

FeedsInv == ChainInv /\ NodeInv /\ OrderInv /\ CursorInv /\ FeedInv /\ StreamsInv /\ FaultsInv


LEMMA InitFeeds ==
  ASSUME Init
  PROVE  FeedsInv
<1>1. PICK mode \in Modes : source = mode[1] /\ feed = NewFeed(mode[2])
  BY DEF Init
<1>2. mode[1] \in {"blocks", "events", "quicknode"} /\ mode[2] \in BOOLEAN
  BY FeedConstants
<1>3. chain = <<>> /\ files = <<>> /\ half = 0 /\ written = 0 /\ faults = 0 /\ first = 0
  BY DEF Init
<1>4. /\ cursor.file = 0 /\ cursor.buffer = <<>>
      /\ streams = [c \in Tracked |-> Unconnected]
  BY DEF Init
<1>5. Len(<<>>) = 0 /\ DOMAIN <<>> = {} /\ IsList(<<>>)
  BY EmptyList
<1>6. ChainInv
  BY <1>1, <1>2, <1>3, <1>5 DEF ChainInv, ChainFine, OneEach
<1>7. NodeInv
  BY <1>3, <1>5 DEF NodeInv, NodeFine, FilesFine
<1>8. OrderInv
  BY <1>3 DEF OrderInv, Ordered
<1>9. CursorInv
  BY <1>3, <1>4, <1>5 DEF CursorInv
<1> DEFINE strict == mode[2]
           f == NewFeed(strict)
<1>10. FeedFine(chain, f) /\ DOMAIN f.books = {} /\ f.last = 0 /\ f.since = 0 /\ f.strict = strict
  BY <1>2, NewFeedFine
<1>11. feed = f
  BY <1>1
<1> HIDE DEF f, strict
<1>12. FeedGood(chain, f)
  BY <1>10 DEF FeedGood, CoinGood
<1>13. FeedInv
  BY <1>3, <1>10, <1>11, <1>12 DEF FeedInv, f
<1>14. StreamsInv
  BY <1>3, <1>4, <1>5, <1>10, <1>11 DEF StreamsInv, StreamFine, Unconnected
<1>15. FaultsInv
  BY <1>3, FeedConstants DEF FaultsInv
<1> QED BY <1>6, <1>7, <1>8, <1>9, <1>13, <1>14, <1>15 DEF FeedsInv

LEMMA ChainStep ==
  ASSUME ChainInv, [Next]_vars
  PROVE  ChainInv' /\ source' = source /\ Grown(chain, chain')
<1>0. Len(chain) \in Nat /\ DOMAIN chain = 1 .. Len(chain)
  BY ListDomain DEF ChainInv, ChainFine
<1>1. ASSUME source' = source, chain' = chain PROVE ChainInv' /\ Grown(chain, chain')
  BY <1>0, <1>1 DEF ChainInv, Grown
<1>2. ASSUME source' = source, Sealed PROVE ChainInv' /\ Grown(chain, chain')
  <2>1. ChainFine(chain') /\ Grown(chain, chain') /\ (source = "events" => OneEach(chain'))
    BY <1>2, SealedFine DEF ChainInv
  <2> QED BY <1>2, <2>1 DEF ChainInv
<1>3. source' = source /\ (chain' = chain \/ Sealed)
  <2>1. CASE Produce \/ NewHour \/ WriteHead \/ WriteTail \/ NodeCrash \/ Poll \/ Restart
    BY <2>1 DEF Produce, NewHour, WriteHead, WriteTail, NodeCrash, Poll, Restart
  <2>2. ASSUME NEW c \in Tracked,
               Subscribe(c) \/ Snapshot(c) \/ StreamDiff(c) \/ StreamBreaks(c) \/ StreamLoses(c)
        PROVE  source' = source /\ chain' = chain
    BY <2>2 DEF Subscribe, Snapshot, StreamDiff, StreamBreaks, StreamLoses
  <2>3. CASE UNCHANGED vars
    BY <2>3 DEF vars
  <2> QED BY <2>1, <2>2, <2>3 DEF Next
<1> QED BY <1>1, <1>2, <1>3

\* What is said of the chain's documents stays said.
LEMMA DocsStay ==
  ASSUME NEW ch, ChainFine(ch), NEW new, ChainFine(new), Grown(ch, new)
  PROVE  /\ \A doc \in Docs(ch) : doc \in Docs(new)
         /\ \A h \in DOMAIN ch : h \in DOMAIN new /\ DocOf(new, h) = DocOf(ch, h)
         /\ \A lines, height : Run(ch, lines, height) => Run(new, lines, height)
         /\ Len(ch) \in Nat /\ Len(new) \in Nat /\ Len(ch) <= Len(new)
         /\ DOMAIN ch = 1 .. Len(ch) /\ DOMAIN new = 1 .. Len(new)
<1>1. /\ Len(ch) \in Nat /\ Len(new) \in Nat /\ Len(ch) <= Len(new)
      /\ DOMAIN ch = 1 .. Len(ch) /\ DOMAIN new = 1 .. Len(new)
  BY ListDomain DEF ChainFine, Grown
<1>2. \A h \in DOMAIN ch : h \in DOMAIN new /\ DocOf(new, h) = DocOf(ch, h)
  BY <1>1 DEF Grown, DocOf
<1>3. \A doc \in Docs(ch) : doc \in Docs(new)
  BY <1>2 DEF Docs
<1>4. \A lines, height : Run(ch, lines, height) => Run(new, lines, height)
  BY <1>2 DEF Run
<1> QED BY <1>1, <1>2, <1>3, <1>4

LEMMA Steady ==
  ASSUME source' = source
  PROVE  /\ FeedGood(chain, feed)' <=> FeedGood(chain', feed')
         /\ NodeInv' <=> NodeFine(chain', files', half', written')
         /\ OrderInv' <=> (source = "events" /\ faults' = 0 => Ordered(chain', files', half', written'))
<1>1. FeedGood(chain, feed)' <=> FeedGood(chain', feed')
  BY DEF FeedGood, CoinGood
<1>2. NodeInv' <=> NodeFine(chain', files', half', written')
  BY DEF NodeInv, NodeFine, Docs, DocOf, Document
<1>3. Ordered(chain, files, half, written)' <=> Ordered(chain', files', half', written')
  BY DEF Ordered, Run, DocOf, Document
<1>4. OrderInv' <=> (source = "events" /\ faults' = 0 => Ordered(chain', files', half', written'))
  BY <1>3 DEF OrderInv
<1> QED BY <1>1, <1>2, <1>4

LEMMA NodeGrown ==
  ASSUME NEW ch, ChainFine(ch), NEW new, ChainFine(new), Grown(ch, new), NEW fs, NEW h, NEW w,
         NodeFine(ch, fs, h, w)
  PROVE  NodeFine(new, fs, h, w) /\ (Ordered(ch, fs, h, w) => Ordered(new, fs, h, w))
<1>1. /\ \A doc \in Docs(ch) : doc \in Docs(new)
      /\ \A k \in DOMAIN ch : k \in DOMAIN new /\ DocOf(new, k) = DocOf(ch, k)
      /\ \A lines, height : Run(ch, lines, height) => Run(new, lines, height)
      /\ Len(ch) \in Nat /\ Len(new) \in Nat /\ Len(ch) <= Len(new)
      /\ DOMAIN ch = 1 .. Len(ch) /\ DOMAIN new = 1 .. Len(new)
  BY DocsStay
<1>2. NodeFine(new, fs, h, w)
  <2>1. w \in 0 .. Len(new)
    BY <1>1 DEF NodeFine
  <2> QED BY <1>1, <2>1 DEF NodeFine
<1>3. h # 0 => DocOf(new, h) = DocOf(ch, h)
  <2>1. h # 0 => h \in DOMAIN ch
    BY <1>1 DEF NodeFine
  <2> QED BY <1>1, <2>1
<1>4. Ordered(ch, fs, h, w) => Ordered(new, fs, h, w)
  BY <1>1, <1>3 DEF Ordered
<1> QED BY <1>2, <1>4

LEMMA JoinedOf ==
  ASSUME NEW fs, NEW new, NEW n \in Int, \A i \in 1 .. n : new[i] = fs[i]
  PROVE  Joined(new, 1, n) = Joined(fs, 1, n)
<1>1. SubSeq(new, 1, n) = SubSeq(fs, 1, n)
  BY SubSeqSame
<1> QED BY <1>1, JoinFolds

LEMMA HourFine ==
  ASSUME NEW ch, ChainFine(ch), source # "quicknode", NEW fs, NEW w, NodeFine(ch, fs, 0, w)
  PROVE  LET new == Append(fs, <<>>)
         IN  NodeFine(ch, new, 0, w) /\ (Ordered(ch, fs, 0, w) => Ordered(ch, new, 0, w))
<1> DEFINE n == Len(fs)
           new == Append(fs, <<>>)
<1>1. FilesFine(fs) /\ IsList(fs) /\ n \in Nat /\ DOMAIN fs = 1 .. n
  BY ListDomain DEF NodeFine, FilesFine
<1>2. /\ IsList(new) /\ Len(new) = n + 1 /\ DOMAIN new = 1 .. n + 1 /\ new[n + 1] = <<>>
      /\ \A i \in 1 .. n : new[i] = fs[i]
  BY <1>1, AppendList
<1> HIDE DEF n, new
<1>3. NodeFine(ch, new, 0, w)
  <2>1. ASSUME NEW i \in DOMAIN new PROVE IsList(new[i]) /\ \A x \in Range(new[i]) : x.document \in Docs(ch)
    <3>1. CASE i \in 1 .. n
      <4>1. new[i] = fs[i] /\ i \in DOMAIN fs
        BY <1>1, <1>2, <3>1
      <4> QED BY <4>1 DEF NodeFine, FilesFine
    <3>2. CASE i = n + 1
      <4>1. new[i] = <<>> /\ Range(<<>>) = {}
        BY <1>2, <3>2 DEF Range
      <4> QED BY <4>1, EmptyList
    <3> QED BY <1>1, <1>2, <3>1, <3>2
  <2> QED BY <1>2, <2>1 DEF NodeFine, FilesFine
<1>4. ASSUME Ordered(ch, fs, 0, w) PROVE Ordered(ch, new, 0, w)
  <2> DEFINE j == Joined(fs, 1, n)
  <2>1. Lines(<<>>) = <<>> /\ Rest(<<>>) = <<>> /\ n + 1 - 1 = n /\ new # <<>>
    <3>1. Len(<<>>) = 0
      OBVIOUS
    <3> QED BY <1>1, <1>2, <3>1, SplitEmpty
  <2>2. Joined(new, 1, n) = j
    BY <1>1, <1>2, JoinedOf
  <2>3. IsList(j)
    <3>1. 1 \in Nat /\ 1 <= 1 /\ n <= Len(fs)
      BY <1>1 DEF n
    <3> QED BY <1>1, <3>1, JoinedFine
  <2> HIDE DEF j
  <2>4. AllLines(new) = j
    <3>1. AllLines(new) = Joined(new, 1, Len(new) - 1) \o Lines(new[Len(new)])
      BY DEF AllLines
    <3>2. j \o <<>> = j
      BY <2>3, ConcatNothing
    <3>3. Len(new) - 1 = n /\ new[Len(new)] = <<>>
      BY <1>1, <1>2
    <3>4. AllLines(new) = Joined(new, 1, n) \o Lines(<<>>)
      BY <3>1, <3>3, Zenon
    <3> QED BY <2>1, <2>2, <3>2, <3>4
  <2>5. Len(j) \in Nat
    BY <2>3, ListDomain
  <2>6. Run(ch, j, 0) /\ w = Len(j)
    <3>1. CASE n = 0
      <4>1. j = <<>> /\ Len(<<>>) = 0
        BY <3>1, JoinedNone DEF j
      <4>2. fs = <<>>
        BY <1>1, <3>1, <4>1, EmptyList, ListEqual DEF n
      <4>3. w = 0
        BY <1>4, <4>2 DEF Ordered
      <4> QED BY <4>1, <4>3 DEF Run
    <3>2. CASE n # 0
      <4> DEFINE k == n - 1
                 t == fs[n]
      <4>1. k \in Nat /\ k + 1 = n /\ 1 <= k + 1 /\ k + 1 <= Len(fs)
        BY <1>1, <3>2 DEF n
      <4>2. fs # <<>>
        <5>1. Len(<<>>) = 0
          OBVIOUS
        <5> QED BY <3>2, <5>1 DEF n
      <4>3. Run(ch, AllLines(fs), 0) /\ w = Len(AllLines(fs)) + 0 /\ Rest(t) = <<>>
        BY <1>4, <4>2 DEF Ordered, n
      <4>4. AllLines(fs) = Joined(fs, 1, k) \o Lines(t)
        BY DEF AllLines, n
      <4>5. FileLines(t) = Lines(t)
        BY <4>3 DEF FileLines
      <4> HIDE DEF k
      <4>6. Joined(fs, 1, k + 1) = Joined(fs, 1, k) \o FileLines(fs[k + 1])
        BY <1>1, <4>1, JoinedMore
      <4>7. j = AllLines(fs)
        BY <4>1, <4>4, <4>5, <4>6 DEF j
      <4> QED BY <2>5, <4>3, <4>7
    <3> QED BY <3>1, <3>2
  <2> QED BY <1>2, <2>1, <2>4, <2>5, <2>6 DEF Ordered
<1> QED BY <1>3, <1>4 DEF new

LEMMA TwoElements ==
  ASSUME NEW x, NEW y
  PROVE  Append(<<x>>, y) = <<x, y>>
<1> DEFINE s == <<x>>
           t == Append(s, y)
           u == <<x, y>>
<1>1. IsList(s) /\ Len(s) = 1 /\ s[1] = x
  BY OneElement
<1>2. IsList(u) /\ Len(u) = 2 /\ u[1] = x /\ u[2] = y
  <2>1. u \in Seq({x, y}) /\ Len(u) = 2 /\ u[1] = x /\ u[2] = y
    OBVIOUS
  <2> QED BY <2>1, ListIn
<1> HIDE DEF s, u
<1>3. IsList(t) /\ Len(t) = Len(s) + 1 /\ t[Len(s) + 1] = y /\ \A i \in 1 .. Len(s) : t[i] = s[i]
  BY <1>1, AppendList, ZenonT(40)
<1> HIDE DEF t
<1>4. \A i \in 1 .. Len(t) : t[i] = u[i]
  BY <1>1, <1>2, <1>3
<1>5. t = u
  BY <1>1, <1>2, <1>3, <1>4, ListEqual
<1> QED BY <1>5 DEF s, t, u

\* Half a line is added to the last file.
TokenAdded(ch, fs, x, new) ==
    /\ Len(fs) \in Nat \ {0} /\ Len(new) = Len(fs) /\ IsList(new)
    /\ DOMAIN new = 1 .. Len(fs) /\ DOMAIN fs = 1 .. Len(fs)
    /\ new # <<>> /\ source # "quicknode"
    /\ FilesFine(new) /\ \A i \in DOMAIN new : \A y \in Range(new[i]) : y.document \in Docs(ch)
    /\ IsList(fs[Len(fs)]) /\ new[Len(fs)] = Append(fs[Len(fs)], x)
    /\ \A i \in 1 .. Len(fs) - 1 : new[i] = fs[i]
    /\ IsList(AllLines(fs))
    /\ AllLines(new) = Joined(fs, 1, Len(fs) - 1) \o Lines(new[Len(fs)])
    /\ AllLines(fs) = Joined(fs, 1, Len(fs) - 1) \o Lines(fs[Len(fs)])
    /\ IsList(Joined(fs, 1, Len(fs) - 1)) /\ IsList(Lines(fs[Len(fs)]))

LEMMA TokenWritten ==
  ASSUME NEW ch, ChainFine(ch), NEW fs, NEW h, NEW w, NodeFine(ch, fs, h, w), fs # <<>>,
         NEW x, x.document \in Docs(ch)
  PROVE  TokenAdded(ch, fs, x, [fs EXCEPT ![Len(fs)] = Append(@, x)])
<1> DEFINE n == Len(fs)
           new == [fs EXCEPT ![n] = Append(@, x)]
           j == Joined(fs, 1, n - 1)
           T == Range(fs) \cup {Append(fs[n], x)}
<1>1. FilesFine(fs) /\ IsList(fs) /\ n \in Nat /\ DOMAIN fs = 1 .. n /\ fs = [i \in 1 .. n |-> fs[i]]
      /\ \A i \in 1 .. n : fs[i] \in Range(fs)
  BY ListDomain DEF NodeFine, FilesFine
<1>2. n # 0
  BY <1>1, EmptyList, ListEqual
<1>3. n \in 1 .. n
  BY <1>1, <1>2
<1>4. IsList(fs[n])
  BY <1>1, <1>3 DEF FilesFine
<1> HIDE DEF n
<1>5. /\ new = [i \in 1 .. n |-> new[i]] /\ new[n] = Append(fs[n], x)
      /\ \A i \in 1 .. n : i # n => new[i] = fs[i]
  BY <1>1, <1>3
<1> HIDE DEF new
<1>6. IsList(new) /\ Len(new) = n /\ DOMAIN new = 1 .. n
  BY <1>1, <1>5, ListOf
<1>7. IsList(new[n]) /\ Range(new[n]) = Range(fs[n]) \cup {x}
  <2>1. IsList(Append(fs[n], x)) /\ Range(Append(fs[n], x)) = Range(fs[n]) \cup {x}
    BY <1>4, AppendList
  <2> QED BY <1>5, <2>1
<1>8. \A i \in DOMAIN new : IsList(new[i]) /\ \A y \in Range(new[i]) : y.document \in Docs(ch)
  <2> TAKE i \in DOMAIN new
  <2>1. CASE i = n
    BY <1>1, <1>3, <1>7, <2>1 DEF NodeFine
  <2>2. CASE i # n
    BY <1>1, <1>5, <1>6, <2>2 DEF NodeFine, FilesFine
  <2> QED BY <2>1, <2>2
<1>9. \A i \in 1 .. n - 1 : new[i] = fs[i]
  BY <1>1, <1>5
<1>10. Joined(new, 1, n - 1) = j
  <2>1. n - 1 \in Int
    BY <1>1
  <2> QED BY <1>9, <2>1, JoinedOf DEF j
<1>11. IsList(j)
  <2>1. n - 1 \in Nat /\ n - 1 <= Len(fs) /\ 1 \in Nat /\ 1 <= 1
    BY <1>1, <1>2 DEF n
  <2> QED BY <1>1, <2>1, JoinedFine
<1>12. AllLines(new) = j \o Lines(new[n])
  BY <1>6, <1>10 DEF AllLines
<1>13. AllLines(fs) = j \o Lines(fs[n])
  BY DEF AllLines, n
<1> HIDE DEF j
<1>14. IsList(Lines(fs[n]))
  BY <1>4, LinesFine
<1>15. IsList(AllLines(fs))
  BY <1>11, <1>13, <1>14, ConcatList
<1>16. new # <<>> /\ source # "quicknode"
  <2>1. Len(<<>>) = 0
    OBVIOUS
  <2> QED BY <1>2, <1>6, <2>1 DEF NodeFine
<1> QED BY <1>1, <1>2, <1>4, <1>5, <1>6, <1>8, <1>9, <1>11, <1>12, <1>13, <1>14, <1>15, <1>16
        DEF n, new, j, FilesFine, TokenAdded

LEMMA HeadFine ==
  ASSUME NEW ch, ChainFine(ch), NEW fs, NEW w, NodeFine(ch, fs, 0, w), fs # <<>>,
         w + 1 \in DOMAIN ch, NEW x, x.document = DocOf(ch, w + 1), ~x.ends
  PROVE  LET new == [fs EXCEPT ![Len(fs)] = Append(@, x)]
         IN  /\ NodeFine(ch, new, w + 1, w + 1)
             /\ Ordered(ch, fs, 0, w) => Ordered(ch, new, w + 1, w + 1)
<1> DEFINE n == Len(fs)
           new == [fs EXCEPT ![n] = Append(@, x)]
           j == Joined(fs, 1, n - 1)
           t == fs[n]
<1>0. x.document \in Docs(ch)
  BY DEF Docs
<1>1. /\ n \in Nat \ {0} /\ Len(new) = n /\ IsList(new) /\ DOMAIN new = 1 .. n
      /\ new # <<>> /\ source # "quicknode"
      /\ FilesFine(new) /\ \A i \in DOMAIN new : \A y \in Range(new[i]) : y.document \in Docs(ch)
      /\ IsList(t) /\ new[n] = Append(t, x)
      /\ IsList(AllLines(fs))
      /\ AllLines(new) = j \o Lines(new[n])
      /\ AllLines(fs) = j \o Lines(t)
  <2>1. TokenAdded(ch, fs, x, new)
    BY <1>0, TokenWritten
  <2> HIDE DEF new
  <2> QED BY <2>1 DEF TokenAdded
<1> HIDE DEF n, new, j, t
<1>2. Lines(Append(t, x)) = Lines(t) /\ Rest(Append(t, x)) = Append(Rest(t), x)
  BY <1>1, LinesAppend
<1>3. w + 1 \in 0 .. Len(ch) /\ w \in Nat /\ w + 1 # 0
  BY ListDomain DEF ChainFine, NodeFine
<1>4. NodeFine(ch, new, w + 1, w + 1)
  BY <1>1, <1>3 DEF NodeFine
<1>5. ASSUME Ordered(ch, fs, 0, w) PROVE Ordered(ch, new, w + 1, w + 1)
  <2>1. Run(ch, AllLines(fs), 0) /\ w = Len(AllLines(fs)) + 0 /\ Rest(t) = <<>>
    BY <1>5 DEF Ordered, n, t
  <2>2. AllLines(new) = AllLines(fs) /\ Len(AllLines(fs)) \in Nat
    <3>1. Len(AllLines(fs)) \in Nat
      BY <1>1, ListDomain
    <3> QED BY <1>1, <1>2, <3>1
  <2>3. Rest(new[n]) = <<x>>
    <3>1. Append(<<>>, x) = <<x>>
      OBVIOUS
    <3> QED BY <1>1, <1>2, <2>1, <3>1
  <2>4. w + 1 = Len(AllLines(new)) + 1
    BY <2>1, <2>2
  <2>5. Run(ch, AllLines(new), 0)
    BY <2>1, <2>2
  <2>6. Rest(new[Len(new)]) = <<x>>
    BY <1>1, <2>3
  <2> HIDE DEF new
  <2> QED BY <1>1, <1>3, <2>4, <2>5, <2>6 DEF Ordered
<1> QED BY <1>4, <1>5 DEF new, n

LEMMA TailFine ==
  ASSUME NEW ch, ChainFine(ch), NEW fs, NEW h, NEW w, NodeFine(ch, fs, h, w), h # 0,
         NEW x, x.document = DocOf(ch, h), x.ends
  PROVE  LET new == [fs EXCEPT ![Len(fs)] = Append(@, x)]
         IN  /\ NodeFine(ch, new, 0, w)
             /\ Ordered(ch, fs, h, w) => Ordered(ch, new, 0, w)
<1> DEFINE n == Len(fs)
           new == [fs EXCEPT ![n] = Append(@, x)]
           j == Joined(fs, 1, n - 1)
           t == fs[n]
<1>0. /\ DOMAIN ch = 1 .. Len(ch) /\ Len(ch) \in Nat /\ h \in DOMAIN ch /\ h = w
      /\ x.document \in Docs(ch) /\ fs # <<>> /\ w \in 0 .. Len(ch)
  BY ListDomain DEF Docs, ChainFine, NodeFine
<1>1. /\ n \in Nat \ {0} /\ Len(new) = n /\ IsList(new) /\ DOMAIN new = 1 .. n
      /\ new # <<>> /\ source # "quicknode"
      /\ FilesFine(new) /\ \A i \in DOMAIN new : \A y \in Range(new[i]) : y.document \in Docs(ch)
      /\ IsList(t) /\ new[n] = Append(t, x)
      /\ IsList(AllLines(fs))
      /\ AllLines(new) = j \o Lines(new[n])
      /\ AllLines(fs) = j \o Lines(t)
      /\ IsList(j) /\ IsList(Lines(t))
  <2>1. TokenAdded(ch, fs, x, new)
    BY <1>0, TokenWritten
  <2> HIDE DEF new
  <2> QED BY <2>1 DEF TokenAdded
<1> HIDE DEF n, new, j, t
<1> DEFINE line == Append(Rest(t), x)
           all == AllLines(fs)
<1>2. Lines(Append(t, x)) = Append(Lines(t), line) /\ Rest(Append(t, x)) = <<>>
  BY <1>1, LinesAppend
<1>3. NodeFine(ch, new, 0, w)
  BY <1>0, <1>1 DEF NodeFine
<1>4. ASSUME Ordered(ch, fs, h, w) PROVE Ordered(ch, new, 0, w)
  <2>1. PICK y : Rest(t) = <<y>> /\ y.document = DocOf(ch, h)
    BY <1>0, <1>4 DEF Ordered, n, t
  <2>2. Run(ch, all, 0) /\ w = Len(all) + 1
    BY <1>0, <1>4 DEF Ordered, n, t
  <2>3. LineDocument(line) = DocOf(ch, h)
    <3>0. Append(<<y>>, x) = <<y, x>>
      BY TwoElements
    <3>1. line = <<y, x>>
      BY <2>1, <3>0
    <3>2. Len(<<y, x>>) = 2 /\ <<y, x>>[1] = y /\ <<y, x>>[2] = x
      OBVIOUS
    <3> HIDE DEF line
    <3> QED BY <2>1, <3>1, <3>2 DEF LineDocument
  <2> HIDE DEF line
  <2>4. AllLines(new) = Append(all, line)
    <3>1. j \o Append(Lines(t), line) = Append(j \o Lines(t), line)
      BY <1>1, ConcatAppend
    <3> QED BY <1>1, <1>2, <3>1
  <2> HIDE DEF all
  <2>5. IsList(all)
    BY <1>1 DEF all
  <2>6. /\ Len(Append(all, line)) = Len(all) + 1 /\ Append(all, line)[Len(all) + 1] = line
        /\ \A i \in 1 .. Len(all) : Append(all, line)[i] = all[i]
    BY <2>5, AppendList
  <2>7. Len(all) \in Nat
    BY <2>5, ListDomain
  <2> DEFINE k == Len(all)
             u == Append(all, line)
  <2>8. Run(ch, u, 0)
    <3> HIDE DEF k, u
    <3>1. k \in Nat /\ Len(u) = k + 1 /\ h = k + 1 /\ u[k + 1] = line /\ \A i \in 1 .. k : u[i] = all[i]
      BY <1>0, <2>2, <2>6, <2>7 DEF k, u
    <3>2. \A i \in 1 .. k : 0 + i \in DOMAIN ch /\ LineDocument(all[i]) = DocOf(ch, 0 + i)
      BY <2>2 DEF Run, k
    <3>3. ASSUME NEW i \in 1 .. k + 1
          PROVE  0 + i \in DOMAIN ch /\ LineDocument(u[i]) = DocOf(ch, 0 + i)
      <4>1. CASE i = k + 1
        <5>1. 0 + i = h /\ u[i] = line
          BY <3>1, <4>1
        <5> QED BY <1>0, <2>3, <5>1
      <4>2. CASE i # k + 1
        <5>1. i \in 1 .. k
          BY <3>1, <4>2
        <5> QED BY <3>1, <3>2, <5>1
      <4> QED BY <4>1, <4>2
    <3> QED BY <3>1, <3>3 DEF Run
  <2>9. w = Len(u) + 0
    BY <2>2, <2>6, <2>7
  <2>10. Rest(new[Len(new)]) = <<>>
    BY <1>1, <1>2
  <2> HIDE DEF u
  <2>11. AllLines(new) = u
    BY <2>4 DEF u
  <2> QED BY <1>1, <2>8, <2>9, <2>10, <2>11 DEF Ordered
<1> QED BY <1>3, <1>4 DEF new, n

\* The writing of half a line, as the node of the next state sees it.
LEMMA WriteTokenIs ==
  ASSUME source' = source, NEW h, NEW ends, WriteToken(h, ends)
  PROVE  files' = [files EXCEPT ![Len(files)] = Append(@, [document |-> DocOf(chain', h), ends |-> ends])]
BY DEF WriteToken, DocOf, Document

LEMMA NodeStep ==
  ASSUME ChainInv, NodeInv, OrderInv, FaultsInv, [Next]_vars
  PROVE  NodeInv' /\ OrderInv'
<1>1. source' = source /\ ChainFine(chain) /\ ChainFine(chain') /\ Grown(chain, chain')
  BY ChainStep DEF ChainInv
<1>2. NodeFine(chain, files, half, written) /\ (source = "events" /\ faults = 0 => Ordered(chain, files, half, written))
  BY DEF NodeInv, OrderInv
<1>3. NodeFine(chain', files, half, written) /\ (Ordered(chain, files, half, written) => Ordered(chain', files, half, written))
  BY <1>1, <1>2, NodeGrown
<1>4. faults \in Nat
  BY FeedConstants DEF FaultsInv
<1>5. ASSUME NodeFine(chain', files', half', written'),
             source = "events" /\ faults' = 0 =>
                faults = 0 /\ (Ordered(chain', files, half, written) => Ordered(chain', files', half', written'))
      PROVE  NodeInv' /\ OrderInv'
  BY <1>1, <1>2, <1>3, <1>5, Steady
<1>6. ASSUME files' = files, half' = half, written' = written, faults' = faults \/ faults' = faults + 1
      PROVE  NodeInv' /\ OrderInv'
  BY <1>3, <1>4, <1>5, <1>6
<1>7. CASE Produce \/ Poll \/ Restart \/ UNCHANGED vars
  BY <1>6, <1>7 DEF Produce, Poll, Restart, nodeVars, vars
<1>8. CASE NewHour
  <2>1. source # "quicknode" /\ half = 0 /\ files' = Append(files, <<>>) /\ half' = half /\ written' = written /\ faults' = faults
    BY <1>8 DEF NewHour
  <2>2. NodeFine(chain', files', 0, written) /\ (Ordered(chain', files, 0, written) => Ordered(chain', files', 0, written))
    BY <1>1, <1>3, <2>1, HourFine
  <2> QED BY <1>5, <2>1, <2>2
<1>9. CASE WriteHead
  <2> DEFINE x == [document |-> DocOf(chain', written + 1), ends |-> FALSE]
  <2>1. /\ files # <<>> /\ half = 0 /\ half' = written + 1 /\ written' = written + 1 /\ faults' = faults
        /\ WriteToken(written + 1, FALSE)
        /\ IF written < Len(chain) THEN UNCHANGED chain ELSE Sealed
    BY <1>9 DEF WriteHead
  <2>2. files' = [files EXCEPT ![Len(files)] = Append(@, x)]
    BY <1>1, <2>1, WriteTokenIs
  <2>3. written + 1 \in DOMAIN chain'
    <3>1. /\ Len(chain) \in Nat /\ DOMAIN chain = 1 .. Len(chain) /\ written \in 0 .. Len(chain)
          /\ Len(chain') \in Nat /\ DOMAIN chain' = 1 .. Len(chain')
      BY <1>1, <1>2, ListDomain DEF ChainFine, NodeFine
    <3>2. Len(chain') >= written + 1
      <4>1. CASE written < Len(chain)
        BY <2>1, <3>1, <4>1
      <4>2. CASE ~(written < Len(chain))
        <5>1. Len(chain') = Len(chain) + 1
          BY <2>1, <4>2, SealedFine DEF ChainInv
        <5> QED BY <3>1, <5>1
      <4> QED BY <4>1, <4>2
    <3> QED BY <3>1, <3>2
  <2>4. x.document = DocOf(chain', written + 1) /\ ~x.ends
    OBVIOUS
  <2> HIDE DEF x
  <2>5. /\ NodeFine(chain', files', written + 1, written + 1)
        /\ Ordered(chain', files, 0, written) => Ordered(chain', files', written + 1, written + 1)
    BY <1>1, <1>3, <2>1, <2>2, <2>3, <2>4, HeadFine
  <2> QED BY <1>5, <2>1, <2>5
<1>10. CASE WriteTail
  <2> DEFINE x == [document |-> DocOf(chain', half), ends |-> TRUE]
  <2>1. half # 0 /\ half' = 0 /\ written' = written /\ faults' = faults /\ WriteToken(half, TRUE)
    BY <1>10 DEF WriteTail
  <2>2. files' = [files EXCEPT ![Len(files)] = Append(@, x)]
    BY <1>1, <2>1, WriteTokenIs
  <2>3. x.document = DocOf(chain', half) /\ x.ends
    OBVIOUS
  <2> HIDE DEF x
  <2>4. /\ NodeFine(chain', files', 0, written)
        /\ Ordered(chain', files, half, written) => Ordered(chain', files', 0, written)
    BY <1>1, <1>3, <2>1, <2>2, <2>3, TailFine
  <2> QED BY <1>5, <2>1, <2>4
<1>11. CASE NodeCrash
  <2>1. half # 0 /\ half' = 0 /\ faults' = faults + 1 /\ written' \in {half - 1, half} /\ files' = files
    BY <1>11 DEF NodeCrash
  <2>2. half \in Nat /\ half = written /\ written \in 0 .. Len(chain') /\ Len(chain') \in Nat
    BY <1>1, <1>3, <2>1, ListDomain DEF NodeFine, ChainFine
  <2>3. written' \in 0 .. Len(chain')
    BY <2>1, <2>2
  <2>4. NodeFine(chain', files', half', written')
    BY <1>3, <2>1, <2>3 DEF NodeFine
  <2> QED BY <1>4, <1>5, <2>1, <2>4
<1>12. ASSUME NEW c \in Tracked,
              Subscribe(c) \/ Snapshot(c) \/ StreamDiff(c) \/ StreamBreaks(c) \/ StreamLoses(c)
       PROVE  NodeInv' /\ OrderInv'
  <2>1. files' = files /\ half' = half /\ written' = written /\ (faults' = faults \/ faults' = faults + 1)
    BY <1>12 DEF Subscribe, Snapshot, StreamDiff, StreamBreaks, StreamLoses, nodeVars
  <2> QED BY <1>6, <2>1
<1> QED BY <1>7, <1>8, <1>9, <1>10, <1>11, <1>12 DEF Next

-----------------------------------------------------------------------------
(* The cursor *)

\* What was written stays; only the last file is written to.
Extends(fs, new) ==
    /\ Len(fs) <= Len(new)
    /\ \A i \in 1 .. Len(fs) : /\ i < Len(fs) => new[i] = fs[i]
                               /\ Len(fs[i]) <= Len(new[i])
                               /\ \A k \in 1 .. Len(fs[i]) : new[i][k] = fs[i][k]

LEMMA Appends ==
  ASSUME NEW fs, FilesFine(fs), fs # <<>>, NEW x
  PROVE  Extends(fs, [fs EXCEPT ![Len(fs)] = Append(@, x)])
<1> DEFINE n == Len(fs)
           new == [fs EXCEPT ![n] = Append(@, x)]
<1>1. /\ IsList(fs) /\ n \in Nat /\ DOMAIN fs = 1 .. n /\ fs = [i \in 1 .. n |-> fs[i]]
      /\ \A i \in 1 .. n : IsList(fs[i])
  BY ListDomain DEF FilesFine
<1>2. n # 0
  BY <1>1, EmptyList, ListEqual
<1> HIDE DEF n
<1>3. /\ new = [i \in 1 .. n |-> new[i]] /\ new[n] = Append(fs[n], x)
      /\ \A i \in 1 .. n : i # n => new[i] = fs[i]
  <2>1. n \in 1 .. n
    BY <1>1, <1>2
  <2> QED BY <1>1, <2>1
<1> HIDE DEF new
<1>4. Len(new) = n
  BY <1>1, <1>3, ListOf
<1>5. /\ Len(fs[n]) <= Len(new[n]) /\ \A k \in 1 .. Len(fs[n]) : new[n][k] = fs[n][k]
  <2>1. n \in 1 .. n
    BY <1>1, <1>2
  <2>2. IsList(fs[n])
    BY <1>1, <2>1
  <2>3. Len(fs[n]) \in Nat
    BY <2>2, ListDomain
  <2>4. /\ Len(Append(fs[n], x)) = Len(fs[n]) + 1
        /\ \A k \in 1 .. Len(fs[n]) : Append(fs[n], x)[k] = fs[n][k]
    BY <2>2, AppendList
  <2> QED BY <1>3, <2>3, <2>4
<1>6. \A i \in 1 .. n : Len(fs[i]) \in Nat
  BY <1>1, ListDomain
<1> QED BY <1>1, <1>3, <1>4, <1>5, <1>6 DEF Extends, n, new

LEMMA FilesGrow ==
  ASSUME ChainInv, NodeInv, [Next]_vars
  PROVE  Extends(files, files')
<1>1. FilesFine(files) /\ IsList(files) /\ Len(files) \in Nat /\ DOMAIN files = 1 .. Len(files)
  BY ListDomain DEF NodeInv, NodeFine, FilesFine
<1>2. \A i \in 1 .. Len(files) : Len(files[i]) \in Nat
  BY <1>1, ListDomain DEF FilesFine
<1>3. CASE files' = files
  BY <1>1, <1>2, <1>3 DEF Extends
<1>4. CASE files' = Append(files, <<>>)
  <2> DEFINE new == Append(files, <<>>)
  <2>1. Len(new) = Len(files) + 1 /\ \A i \in 1 .. Len(files) : new[i] = files[i]
    BY <1>1, AppendList
  <2> HIDE DEF new
  <2>2. Extends(files, new)
    BY <1>1, <1>2, <2>1 DEF Extends
  <2> QED BY <1>4, <2>2 DEF new
<1>5. CASE files # <<>> /\ \E x : files' = [files EXCEPT ![Len(files)] = Append(@, x)]
  BY <1>1, <1>5, Appends, ZenonT(40)
<1>6. files' = files \/ files' = Append(files, <<>>)
      \/ (files # <<>> /\ \E x : files' = [files EXCEPT ![Len(files)] = Append(@, x)])
  <2>1. CASE Produce \/ NodeCrash \/ Poll \/ Restart \/ UNCHANGED vars
    BY <2>1 DEF Produce, NodeCrash, Poll, Restart, nodeVars, vars
  <2>2. CASE NewHour
    BY <2>2 DEF NewHour
  <2>3. CASE WriteHead
    BY <2>3 DEF WriteHead, WriteToken
  <2>4. CASE WriteTail
    <3>1. files # <<>>
      BY <2>4 DEF WriteTail, NodeInv, NodeFine
    <3> QED BY <2>4, <3>1 DEF WriteTail, WriteToken
  <2>5. ASSUME NEW c \in Tracked,
               Subscribe(c) \/ Snapshot(c) \/ StreamDiff(c) \/ StreamBreaks(c) \/ StreamLoses(c)
        PROVE  files' = files
    BY <2>5 DEF Subscribe, Snapshot, StreamDiff, StreamBreaks, StreamLoses, nodeVars
  <2> QED BY <2>1, <2>2, <2>3, <2>4, <2>5 DEF Next
<1> QED BY <1>3, <1>4, <1>5, <1>6

\* What is read stays read as the files grow.
LEMMA CursorStays ==
  ASSUME NEW fs, FilesFine(fs), NEW new, FilesFine(new), Extends(fs, new),
         NEW at \in 1 .. Len(fs), NEW from \in 1 .. at, NEW pos \in 0 .. Len(fs[at])
  PROVE  /\ LinesRead(new, from, at, pos) = LinesRead(fs, from, at, pos)
         /\ SubSeq(new[at], 1, pos) = SubSeq(fs[at], 1, pos)
         /\ pos \in 0 .. Len(new[at]) /\ at \in 0 .. Len(new)
<1>1. Len(fs) \in Nat /\ DOMAIN fs = 1 .. Len(fs) /\ Len(new) \in Nat
  BY ListDomain DEF FilesFine
<1>2. \A i \in 1 .. at - 1 : new[i] = fs[i]
  BY <1>1 DEF Extends
<1>3. /\ Len(fs) <= Len(new) /\ Len(fs[at]) <= Len(new[at])
      /\ \A i \in 1 .. Len(fs[at]) : new[at][i] = fs[at][i]
  BY DEF Extends
<1>4. /\ LinesRead(new, from, at, pos) = LinesRead(fs, from, at, pos)
      /\ SubSeq(new[at], 1, pos) = SubSeq(fs[at], 1, pos)
      /\ pos \in 0 .. Len(new[at])
  BY <1>1, <1>2, <1>3, ReadStays
<1> QED BY <1>1, <1>3, <1>4

\* What a cycle of tail() finds.
LEMMA PollFinds ==
  ASSUME NodeInv, CursorInv, Poll
  PROVE  LET n == LatestFile
         IN  /\ FilesFine(files) /\ n \in DOMAIN files /\ n \in Nat /\ cursor.file \in 0 .. n
             /\ source # "quicknode" /\ files' = files
             /\ cursor' = [running |-> cursor'.running, file |-> n, pos |-> Len(files[n]),
                           buffer |-> Rest(files[n])]
             /\ Rest(Unread) = Rest(files[n])
             /\ first' = (IF first = 0 THEN n ELSE first)
             /\ cursor.file # 0 => /\ cursor.file \in DOMAIN files /\ first \in 1 .. cursor.file
                                   /\ cursor.pos \in 0 .. Len(files[cursor.file])
                                   /\ Appended = NewIn(files, cursor.file, cursor.pos)
             /\ feed' = Consume(Drained, Lines(Unread))
             /\ jumped' = (jumped \/ (cursor.file # 0 /\ n > cursor.file + 1))
<1> DEFINE n == LatestFile
<1>1. /\ source # "quicknode" /\ files # <<>> /\ files' = files
      /\ first' = IF first = 0 THEN n ELSE first
      /\ feed' = Consume(Drained, Lines(Unread))
      /\ jumped' = (jumped \/ (cursor.file # 0 /\ n > cursor.file + 1))
  BY DEF Poll, MoveOn, Unfinished, nodeVars
<1>2. cursor' = [running |-> cursor'.running, file |-> n, pos |-> Len(files[n]), buffer |-> Rest(Unread)]
  <2>1. PICK f : MoveOn(~f.failed)
    BY DEF Poll
  <2>2. cursor' = [running |-> ~f.failed, file |-> n, pos |-> Len(files[n]), buffer |-> Rest(Unread)]
    BY <2>1 DEF MoveOn
  <2> QED BY <2>2
<1>3. FilesFine(files) /\ IsList(files) /\ n \in Nat /\ DOMAIN files = 1 .. n /\ Len(files) = n
  BY ListDomain DEF NodeInv, NodeFine, FilesFine, LatestFile
<1>4. n # 0
  <2>1. Len(<<>>) = 0
    OBVIOUS
  <2> QED BY <1>1, <1>3, <2>1, EmptyList, ListEqual
<1>5. n \in DOMAIN files /\ cursor.file \in 0 .. n
  BY <1>3, <1>4 DEF CursorInv
<1>6. cursor.file # 0 => /\ cursor.file \in DOMAIN files /\ first \in 1 .. cursor.file
                         /\ cursor.pos \in 0 .. Len(files[cursor.file])
  BY <1>3, <1>5 DEF CursorInv
<1>7. cursor.file # 0 => Appended = NewIn(files, cursor.file, cursor.pos)
  BY DEF CursorInv, Appended, NewIn
<1>8. Rest(Unread) = Rest(files[n])
  <2>1. CASE cursor.file = n
    <3> DEFINE new == NewIn(files, cursor.file, cursor.pos)
    <3>1. Rest(new) = Rest(files[n])
      BY <1>3, <1>4, <1>6, <2>1, ReadSame
    <3>2. Unread = new
      BY <1>4, <1>7, <2>1 DEF Unread
    <3> QED BY <3>1, <3>2
  <2>2. CASE cursor.file # n
    BY <2>2 DEF Unread
  <2> QED BY <2>1, <2>2
<1> QED BY <1>1, <1>2, <1>3, <1>5, <1>6, <1>7, <1>8

LEMMA CursorStep ==
  ASSUME ChainInv, NodeInv, NodeInv', CursorInv, [Next]_vars
  PROVE  CursorInv'
<1>1. FilesFine(files) /\ FilesFine(files') /\ Extends(files, files') /\ Len(files) \in Nat /\ Len(files') \in Nat
  <2>1. FilesFine(files) /\ FilesFine(files')
    BY DEF NodeInv, NodeFine
  <2> QED BY <2>1, FilesGrow, ListDomain DEF FilesFine
<1>2. ASSUME cursor' = cursor, first' = first PROVE CursorInv'
  <2>1. CASE cursor.file = 0
    BY <1>1, <1>2, <2>1 DEF CursorInv
  <2>2. CASE cursor.file # 0
    <3>1. cursor.file \in 1 .. Len(files) /\ first \in 1 .. cursor.file /\ cursor.pos \in 0 .. Len(files[cursor.file])
      BY <1>1, <2>2 DEF CursorInv
    <3>2. /\ SubSeq(files'[cursor.file], 1, cursor.pos) = SubSeq(files[cursor.file], 1, cursor.pos)
          /\ cursor.pos \in 0 .. Len(files'[cursor.file]) /\ cursor.file \in 0 .. Len(files')
      BY <1>1, <3>1, CursorStays
    <3> QED BY <1>2, <2>2, <3>1, <3>2 DEF CursorInv
  <2> QED BY <2>1, <2>2
<1>3. CASE Poll
  <2> DEFINE n == LatestFile
  <2>1. /\ n \in DOMAIN files /\ n \in Nat /\ cursor.file \in 0 .. n /\ files' = files
        /\ cursor' = [running |-> cursor'.running, file |-> n, pos |-> Len(files[n]), buffer |-> Rest(files[n])]
        /\ first' = (IF first = 0 THEN n ELSE first)
    BY <1>3, PollFinds
  <2>2. n = Len(files) /\ n # 0 /\ IsList(files[n])
    BY <1>1, <2>1, ListDomain DEF LatestFile, FilesFine
  <2>3. Len(files[n]) \in Nat /\ SubSeq(files[n], 1, Len(files[n])) = files[n]
    <3>1. Len(files[n]) \in Nat
      BY <2>2, ListDomain
    <3> QED BY <2>2, <3>1 DEF IsList
  <2> HIDE DEF n
  <2>4. cursor'.file = n /\ cursor'.pos = Len(files[n]) /\ cursor'.buffer = Rest(files[n])
    BY <2>1
  <2>5. first' \in 1 .. n
    BY <2>1, <2>2 DEF CursorInv
  <2>6. cursor'.buffer = Rest(SubSeq(files'[cursor'.file], 1, cursor'.pos))
    <3>1. Rest(SubSeq(files[n], 1, Len(files[n]))) = Rest(files[n])
      BY <2>3, Zenon
    <3> QED BY <2>1, <2>4, <3>1
  <2>7. cursor'.pos \in 0 .. Len(files'[cursor'.file]) /\ cursor'.file \in 0 .. Len(files')
    BY <2>1, <2>2, <2>3, <2>4
  <2>8. cursor'.file # 0 /\ first' # 0 /\ first' \in 0 .. cursor'.file
    BY <2>2, <2>4, <2>5
  <2> QED BY <2>6, <2>7, <2>8 DEF CursorInv
<1>4. CASE Restart
  <2>1. cursor' = [running |-> TRUE, file |-> 0, pos |-> 0, buffer |-> <<>>] /\ first' = 0
    BY <1>4 DEF Restart
  <2> QED BY <1>1, <2>1 DEF CursorInv
<1>5. CASE Produce \/ NewHour \/ WriteHead \/ WriteTail \/ NodeCrash \/ UNCHANGED vars
  BY <1>2, <1>5 DEF Produce, NewHour, WriteHead, WriteTail, NodeCrash, vars
<1>6. ASSUME NEW c \in Tracked,
             Subscribe(c) \/ Snapshot(c) \/ StreamDiff(c) \/ StreamBreaks(c) \/ StreamLoses(c)
      PROVE  CursorInv'
  BY <1>2, <1>6 DEF Subscribe, Snapshot, StreamDiff, StreamBreaks, StreamLoses
<1> QED BY <1>3, <1>4, <1>5, <1>6 DEF Next

-----------------------------------------------------------------------------
(* The feed of the node's files *)

LEMMA LinesDocumented ==
  ASSUME NEW ch, NEW text, IsList(text), \A x \in Range(text) : x.document \in Docs(ch)
  PROVE  /\ IsList(Lines(text)) /\ Documented(ch, Lines(text))
         /\ IsList(FileLines(text)) /\ Documented(ch, FileLines(text))
<1>1. /\ IsList(Lines(text)) /\ IsList(FileLines(text))
      /\ \A line \in Range(Lines(text)) : IsList(line) /\ Range(line) \subseteq Range(text)
      /\ \A line \in Range(FileLines(text)) : IsList(line) /\ Range(line) \subseteq Range(text)
  BY LinesFine, FileLinesFine
<1>2. ASSUME NEW line, IsList(line), Range(line) \subseteq Range(text) PROVE LineDocument(line) \in Docs(ch)
  <2>1. CASE Len(line) = 2
    <3>1. line[1] \in Range(line)
      BY <1>2, <2>1, ListDomain
    <3>2. line[1].document \in Docs(ch)
      BY <1>2, <3>1
    <3> QED BY <3>2 DEF LineDocument, Docs
  <2>2. CASE Len(line) # 2
    BY <2>2 DEF LineDocument, Docs
  <2> QED BY <2>1, <2>2
<1> QED BY <1>1, <1>2 DEF Documented

LEMMA ReadDocumented ==
  ASSUME NEW ch, NEW fs, NEW h, NEW w, NodeFine(ch, fs, h, w), NEW at \in DOMAIN fs, NEW from \in 1 .. at,
         NEW pos \in 0 .. Len(fs[at])
  PROVE  LET new == NewIn(fs, at, pos)
         IN  /\ IsList(Lines(new)) /\ Documented(ch, Lines(new))
             /\ IsList(FileLines(new)) /\ Documented(ch, FileLines(new))
             /\ IsList(Lines(fs[at])) /\ Documented(ch, Lines(fs[at]))
             /\ IsList(LinesRead(fs, from, at, pos))
<1> DEFINE new == NewIn(fs, at, pos)
<1>1. FilesFine(fs) /\ \A x \in Range(fs[at]) : x.document \in Docs(ch)
  BY DEF NodeFine
<1>2. IsList(new) /\ Range(new) \subseteq Range(fs[at])
  BY <1>1, ReadSame
<1> HIDE DEF new
<1>3. /\ IsList(Lines(new)) /\ Documented(ch, Lines(new))
      /\ IsList(FileLines(new)) /\ Documented(ch, FileLines(new))
  BY <1>1, <1>2, LinesDocumented
<1>4. IsList(Lines(fs[at])) /\ Documented(ch, Lines(fs[at]))
  BY <1>1, LinesDocumented DEF FilesFine
<1>5. IsList(LinesRead(fs, from, at, pos))
  BY <1>1, LinesReadFine
<1> QED BY <1>3, <1>4, <1>5 DEF new

LEMMA PollStep ==
  ASSUME ChainInv, NodeInv, CursorInv, FeedInv, Poll
  PROVE  FeedInv'
<1> DEFINE n == LatestFile
           f == feed
           at == cursor.file
           pos == cursor.pos
           read == LinesRead(files, first, at, pos)
           new == NewIn(files, at, pos)
           N == NewFeed(f.strict)
           used == IF at \in {0, n} THEN <<>> ELSE FileLines(new)
           lines == IF at = n THEN Lines(new) ELSE Lines(files[n])
           g == Consume(f, used)
<1>0. [Next]_vars
  BY DEF Next
<1>1. /\ FilesFine(files) /\ n \in DOMAIN files /\ n \in Nat /\ at \in 0 .. n
      /\ source # "quicknode" /\ files' = files
      /\ cursor' = [running |-> cursor'.running, file |-> n, pos |-> Len(files[n]),
                    buffer |-> Rest(files[n])]
      /\ first' = (IF first = 0 THEN n ELSE first)
      /\ at # 0 => /\ at \in DOMAIN files /\ first \in 1 .. at
                   /\ pos \in 0 .. Len(files[at])
                   /\ Appended = new
      /\ feed' = Consume(Drained, Lines(Unread))
      /\ jumped' = (jumped \/ (at # 0 /\ n > at + 1))
  BY PollFinds
<1>2. source' = source /\ chain' = chain
  BY DEF Poll
<1>3. n # 0
  <2>1. IsList(files)
    BY <1>1 DEF FilesFine
  <2> QED BY <1>1, <2>1, ListDomain
<1>4. Drained = g
  <2>1. Consume(f, <<>>) = f
    BY ConsumeNothing
  <2> QED BY <1>1, <2>1 DEF Drained
<1>5. Lines(Unread) = lines
  BY <1>1, <1>3 DEF Unread
<1>6. /\ at # 0 => /\ IsList(Lines(new)) /\ Documented(chain, Lines(new))
                   /\ IsList(FileLines(new)) /\ Documented(chain, FileLines(new)) /\ IsList(read)
      /\ IsList(Lines(files[n])) /\ Documented(chain, Lines(files[n]))
  <2>1. at # 0 => /\ IsList(Lines(new)) /\ Documented(chain, Lines(new))
                  /\ IsList(FileLines(new)) /\ Documented(chain, FileLines(new)) /\ IsList(read)
    BY <1>1, ReadDocumented DEF NodeInv
  <2>2. IsList(files[n]) /\ \A x \in Range(files[n]) : x.document \in Docs(chain)
    BY <1>1 DEF NodeInv, NodeFine, FilesFine
  <2> QED BY <2>1, <2>2, LinesDocumented
<1>7. IsList(used) /\ Documented(chain, used) /\ IsList(lines) /\ Documented(chain, lines)
  <2>1. IsList(<<>>) /\ Documented(chain, <<>>)
    BY EmptyList DEF Documented, Range
  <2> QED BY <1>1, <1>3, <1>6, <2>1
<1>8. ChainFine(chain) /\ (source = "events" => OneEach(chain)) /\ FeedFine(chain, f)
      /\ (source # "events" => FeedGood(chain, f))
  BY <1>1 DEF ChainInv, FeedInv
<1>9. /\ feed' = Consume(g, lines)
  BY <1>1, <1>4, <1>5
<1> HIDE DEF used, lines, g
<1>10. FeedFine(chain, feed') /\ feed'.strict = f.strict
  <2>1. FeedFine(chain, g) /\ g.strict = f.strict
    BY <1>7, <1>8, ConsumeFine DEF g
  <2>2. FeedFine(chain, Consume(g, lines)) /\ Consume(g, lines).strict = g.strict
    BY <1>7, <1>8, <2>1, ConsumeFine
  <2> QED BY <1>9, <2>1, <2>2
<1>11. source # "events" => FeedGood(chain, feed')
  <2> SUFFICES ASSUME source # "events" PROVE FeedGood(chain, feed')
    OBVIOUS
  <2>1. FeedGood(chain, g)
    BY <1>7, <1>8, ConsumeGood DEF g
  <2>2. FeedGood(chain, Consume(g, lines))
    BY <1>7, <1>8, <2>1, ConsumeGood
  <2> QED BY <1>9, <2>2
<1>12. ASSUME ~jumped' PROVE feed' = Consume(N, LinesRead(files, first', n, Len(files[n])))
  <2>1. CASE at = 0
    <3>1. first = 0 /\ f = N
      BY <1>1, <2>1 DEF CursorInv, FeedInv
    <3>2. first' = n /\ LinesRead(files, n, n, Len(files[n])) = Lines(files[n])
      BY <1>1, <3>1, ReadFirst
    <3>3. g = f
      BY <2>1, ConsumeNothing DEF g, used
    <3>4. lines = Lines(files[n])
      BY <1>3, <2>1 DEF lines
    <3> HIDE DEF N, f
    <3> QED BY <1>9, <3>1, <3>2, <3>3, <3>4
  <2>2. CASE at # 0
    <3>1. first # 0 /\ first' = first /\ f = Consume(N, read)
      BY <1>1, <1>12, <2>2 DEF CursorInv, FeedInv
    <3>2. CASE at = n
      <4>1. g = f /\ lines = Lines(new)
        BY <3>2, ConsumeNothing DEF g, used, lines
      <4>2. LinesRead(files, first, n, Len(files[n])) = read \o Lines(new)
        BY <1>1, <2>2, <3>2, ReadSame
      <4>3. IsList(read) /\ IsList(Lines(new))
        BY <1>6, <2>2
      <4> HIDE DEF read, new, N, f
      <4>4. Consume(N, read \o Lines(new)) = Consume(Consume(N, read), Lines(new))
        BY <4>3, ConsumeConcat
      <4> QED BY <1>9, <3>1, <4>1, <4>2, <4>4
    <3>3. CASE at # n
      <4>0. ~(n > at + 1)
        <5> HIDE DEF n, at
        <5> QED BY <1>1, <1>12, <2>2
      <4>1. at + 1 = n
        <5>1. n \in Nat /\ at \in 0 .. n /\ at # n
          BY <1>1, <3>3
        <5> HIDE DEF n, at
        <5> QED BY <4>0, <5>1
      <4>2. g = Consume(f, FileLines(new)) /\ lines = Lines(files[n])
        BY <2>2, <3>3 DEF g, used, lines
      <4>3. LinesRead(files, first, n, Len(files[n])) = (read \o FileLines(new)) \o Lines(files[n])
        <5>1. LinesRead(files, first, at + 1, Len(files[at + 1])) = (read \o FileLines(new)) \o Lines(files[at + 1])
          BY <1>1, <2>2, <4>1, ReadNext
        <5> HIDE DEF at, read, new, n
        <5> QED BY <4>1, <5>1
      <4>4. IsList(read) /\ IsList(FileLines(new)) /\ IsList(Lines(files[n]))
        BY <1>6, <2>2
      <4> DEFINE l == FileLines(new)
                 m == Lines(files[n])
      <4> HIDE DEF read, new, N, f, l, m
      <4>5. IsList(read \o l) /\ IsList(read) /\ IsList(l) /\ IsList(m)
        BY <4>4, ConcatList DEF l, m
      <4>6. Consume(N, (read \o l) \o m) = Consume(Consume(N, read \o l), m)
        BY <4>5, ConsumeConcat
      <4>7. Consume(N, read \o l) = Consume(Consume(N, read), l)
        BY <4>5, ConsumeConcat
      <4> QED BY <1>9, <3>1, <4>2, <4>3, <4>6, <4>7 DEF l, m
    <3> QED BY <3>2, <3>3
  <2> QED BY <2>1, <2>2
<1>13. cursor'.file = n /\ cursor'.pos = Len(files[n])
  BY <1>1
<1>14. first' # 0
  BY <1>1, <1>3
<1>15. source = "blocks" => FeedGood(chain, feed)'
  BY <1>2, <1>11, Steady
<1> QED BY <1>1, <1>2, <1>10, <1>12, <1>13, <1>14, <1>15 DEF FeedInv

-----------------------------------------------------------------------------
(* The streams *)

\* A stream that only changes its connection, of a book that stays.
LEMMA StreamStays ==
  ASSUME NEW ch, ChainFine(ch), NEW new, ChainFine(new), Grown(ch, new),
         NEW s, NEW f, NEW c, StreamFine(ch, s, f, c),
         NEW t, DOMAIN t = {"up", "snapshot", "next", "streak", "silent"},
         t.snapshot \in 0 .. Len(new), t.up => t.next \in Nat /\ t.next >= 1,
         t.up /\ t.snapshot = 0 => c \in DOMAIN f.books,
         NEW g, c \in DOMAIN g.books <=> c \in DOMAIN f.books,
         c \in DOMAIN f.books => g.books[c] = f.books[c],
         c \in f.dropped => c \in g.dropped
  PROVE  StreamFine(new, t, g, c)
<1>1. IsList(ch) /\ IsList(new) /\ Len(ch) \in Nat /\ Len(new) \in Nat /\ Len(ch) <= Len(new)
  BY ListDomain DEF ChainFine, Grown
<1>2. ASSUME c \in DOMAIN f.books
      PROVE  /\ f.books[c].height \in 1 .. Len(new)
             /\ DiffsIn(new, c, 1, f.books[c].height) = DiffsIn(ch, c, 1, f.books[c].height)
  <2> DEFINE h == f.books[c].height
  <2>1. h \in 1 .. Len(ch)
    BY <1>2 DEF StreamFine
  <2> HIDE DEF h
  <2>2. h \in Nat /\ h <= Len(ch) /\ h \in 1 .. Len(new) /\ 1 \in Nat /\ 1 <= 1
    BY <1>1, <2>1
  <2>3. DiffsIn(new, c, 1, h) = DiffsIn(ch, c, 1, h)
    BY <1>1, <2>2, DiffsGrown
  <2> QED BY <2>2, <2>3 DEF h
<1> QED BY <1>2 DEF StreamFine

\* The feed with another book of a coin.
Rebooked(f, g, c, b) ==
    /\ FeedFields(g) /\ g.strict = f.strict
    /\ g.books = With(f.books, c, b)
    /\ f.dropped \ {c} \subseteq g.dropped

LEMMA RebookedFine ==
  ASSUME NEW ch, NEW f, FeedFine(ch, f), NEW g, NEW c \in Tracked, NEW b, Rebooked(f, g, c, b),
         IsBook(b), b.coin = c, b.height \in 1 .. Len(ch)
  PROVE  /\ FeedFine(ch, g) /\ c \in DOMAIN g.books /\ g.books[c] = b
         /\ \A d \in Tracked \ {c} : /\ d \in DOMAIN g.books <=> d \in DOMAIN f.books
                                     /\ d \in DOMAIN f.books => g.books[d] = f.books[d]
                                     /\ d \in f.dropped => d \in g.dropped
<1>1. /\ DOMAIN g.books = DOMAIN f.books \cup {c}
      /\ \A d \in DOMAIN f.books \cup {c} : g.books[d] = IF d = c THEN b ELSE f.books[d]
  BY DEF Rebooked, With
<1>2. BooksFine(ch, g.books)
  BY <1>1 DEF FeedFine, BooksFine
<1> QED BY <1>1, <1>2 DEF FeedFine, Rebooked

\* _load_snapshot() makes of the book what the chain had resting at the height.
LEMMA SnapshotTaken ==
  ASSUME ChainInv, FeedInv, StreamsInv, NEW c \in Tracked, Snapshot(c)
  PROVE  LET h == streams[c].snapshot
         IN  /\ source = "quicknode" /\ h \in 1 .. Len(chain)
             /\ streams' = [streams EXCEPT ![c].snapshot = 0]
             /\ \E b : /\ Rebooked(feed, feed', c, b) /\ IsBook(b) /\ b.coin = c /\ b.height = h
                       /\ b.orders = Resting(DiffsIn(chain, c, 1, h))
<1> DEFINE h == streams[c].snapshot
           ds == DiffsIn(chain, c, 1, h)
           s == Resting(ds)
           b == LoadSnapshot(BookOf(feed, c), [coin |-> c, height |-> h, orders |-> s])
<1>1. /\ streams[c].up /\ h # 0 /\ streams' = [streams EXCEPT ![c].snapshot = 0]
      /\ DiffsOf(c, 1, h) = ds
      /\ feed' = [feed EXCEPT !.books = With(@, c, b), !.dropped = @ \ {c}]
  BY DEF Snapshot, SnapshotRead, DiffsOf, DiffsIn
<1>2. source = "quicknode" /\ StreamFine(chain, streams[c], feed, c)
  BY <1>1 DEF StreamsInv, ChainInv
<1>3. ChainFine(chain) /\ Len(chain) \in Nat
  BY ListDomain DEF ChainInv, ChainFine
<1>4. h \in 1 .. Len(chain)
  BY <1>1, <1>2, <1>3 DEF StreamFine
<1> HIDE DEF h
<1>5. h \in Nat /\ h <= Len(chain) /\ 1 \in Nat /\ 1 <= 1
  BY <1>3, <1>4
<1>6. History(ds) /\ \A d \in Range(ds) : d.coin = c
  <2> DEFINE one == 1
  <2>1. one \in Nat /\ one <= one
    OBVIOUS
  <2> HIDE DEF one
  <2>2. /\ History(DiffsIn(chain, c, one, h))
        /\ \A d \in Range(DiffsIn(chain, c, one, h)) :
              d.coin = c /\ \E k \in one .. h : d \in Range(chain[k].diffs)
    <3>1. 1 <= one
      BY DEF one
    <3> QED BY <1>3, <1>5, <2>1, <3>1, DiffsFine
  <2> QED BY <2>2 DEF one
<1> HIDE DEF ds
<1>7. OrdersFine(s) /\ \A o \in Range(s) : BadDecimal \notin {o.px, o.sz}
  BY <1>6, RestingFine
<1> HIDE DEF s
<1>9. IsBook(b) /\ b.coin = c /\ b.height = h /\ b.orders = s
  <2> DEFINE book == BookOf(feed, c)
             n == LoadSnapshot(book, [coin |-> c, height |-> h, orders |-> s])
  <2> HIDE DEF book
  <2>1. IsBook(n) /\ n.coin = c /\ n.height = h /\ n.stale = FALSE /\ n.orders = s
    <3>1. Loaded(n, c, h, s)
      BY <1>7, LoadSnapshotFine
    <3> QED BY <3>1 DEF Loaded
  <2> QED BY <2>1 DEF book
<1> HIDE DEF b
<1>10. Rebooked(feed, feed', c, b)
  BY <1>1 DEF FeedInv, FeedFine, FeedFields, Rebooked
<1> QED BY <1>1, <1>2, <1>4, <1>9, <1>10 DEF h, s, ds

\* A document of a block, and the book of its coin after it.
Rebuilt(ch, c, h, book, skips, b) ==
    /\ IsBook(b) /\ b.coin = c /\ b.height = h
    /\ (/\ ~b.stale /\ skips = 0
        /\ ~book.stale => book.orders = Resting(DiffsIn(ch, c, 1, book.height)))
          => b.orders = Resting(DiffsIn(ch, c, 1, h))

LEMMA DiffBook ==
  ASSUME NEW ch, ChainFine(ch), NEW c, NEW h \in DOMAIN ch,
         NEW book, IsBook(book), book.coin = c, book.height \in 1 .. Len(ch),
         NEW item, NEW skips, ParsedBlock(item, skips, h, OfCoin(ch[h].diffs, c))
  PROVE  Rebuilt(ch, c, h, book, skips, ApplyBlock(book, item))
<1> DEFINE es == OfCoin(ch[h].diffs, c)
           ds == item.diffs
           k == book.height
           old == DiffsIn(ch, c, 1, k)
           b == ApplyBlock(book, [height |-> h, diffs |-> ds])
<1>1. IsList(ch) /\ Len(ch) \in Nat /\ DOMAIN ch = 1 .. Len(ch) /\ History(ch[h].diffs)
  BY ListDomain DEF ChainFine
<1>2. History(es) /\ \A d \in Range(es) : d.coin = c
  BY <1>1, OfCoinFine DEF History
<1>3. /\ item.height = h /\ IsList(ds) /\ Range(ds) \subseteq Range(es)
      /\ skips = 0 => ds = es
  BY DEF ParsedBlock
<1>4. ApplyBlock(book, item) = b
  BY <1>3 DEF ApplyBlock
<1> HIDE DEF es, ds
<1>5. \A d \in Range(ds) : d.kind \in Kinds /\ d.coin = c
  BY <1>2, <1>3 DEF History, Sound, Kinds
<1>6. /\ IsBook(b) /\ b.coin = book.coin /\ b.height = h
      /\ b.stale = (book.stale \/ (k # None /\ h # k + 1))
      /\ \A past : (/\ IsList(past) /\ History(past \o ds) /\ book.orders = Resting(past)
                    /\ \A d \in Range(ds) : d.coin = book.coin)
                      => b.orders = Resting(past \o ds)
  BY <1>3, <1>5, ApplyBlockFine
<1> HIDE DEF b, k
<1>7. ASSUME ~b.stale, skips = 0, ~book.stale => book.orders = Resting(old)
      PROVE  b.orders = Resting(DiffsIn(ch, c, 1, h))
  <2>1. ~book.stale /\ ~(k # None /\ h # k + 1)
    BY <1>6, <1>7
  <2>2. k # None
    BY DEF k, None
  <2>3. h = k + 1 /\ k \in Nat /\ k + 1 <= Len(ch)
    BY <1>1, <2>1, <2>2 DEF k
  <2> DEFINE one == 1
  <2>4. one \in Nat /\ 1 <= one /\ one <= k + 1
    BY <2>3 DEF k
  <2> HIDE DEF one
  <2>5. DiffsIn(ch, c, one, k + 1) = DiffsIn(ch, c, one, k) \o OfCoin(ch[k + 1].diffs, c)
    BY <1>1, <2>3, <2>4, DiffsMore
  <2>6. DiffsIn(ch, c, one, h) = old \o es
    BY <2>3, <2>5 DEF one, es
  <2>7. History(DiffsIn(ch, c, one, h)) /\ History(old)
    <3>1. h \in Nat /\ h <= Len(ch) /\ k <= Len(ch)
      BY <1>1, <2>3
    <3>2. History(DiffsIn(ch, c, one, h))
      BY <2>4, <3>1, DiffsFine
    <3>3. History(DiffsIn(ch, c, one, k))
      BY <2>3, <2>4, <3>1, DiffsFine
    <3> QED BY <3>2, <3>3 DEF one
  <2>8. IsList(old) /\ History(old \o ds) /\ ds = es
    BY <1>3, <1>7, <2>6, <2>7 DEF History
  <2> HIDE DEF old
  <2>9. b.orders = Resting(old \o ds)
    BY <1>5, <1>6, <1>7, <2>1, <2>8
  <2> QED BY <2>6, <2>8, <2>9 DEF one
<1> QED BY <1>4, <1>6, <1>7 DEF k, Rebuilt

\* _apply_diff(), case by case.
LEMMA DiffTaken ==
  ASSUME ChainInv, FeedInv, StreamsInv, NEW c \in Tracked, StreamDiff(c)
  PROVE  LET h     == streams[c].next
             moved == [streams EXCEPT ![c].next = @ + 1]
         IN  /\ source = "quicknode" /\ h \in DOMAIN chain /\ c \in DOMAIN feed.books
             /\ streams[c].up /\ streams[c].snapshot = 0
             /\ \/ feed' = feed /\ streams' = Break(c)
                \/ /\ streams' = moved
                   /\ \E skips \in Nat :
                         feed' = [feed EXCEPT !.skips = @ + skips,
                                              !.dropped = IF skips = 0 THEN @ ELSE @ \cup {c}]
                \/ /\ streams' = moved
                   /\ \E b : /\ Rebooked(feed, feed', c, b) /\ IsBook(b) /\ b.coin = c /\ b.height = h
                             /\ ~b.stale /\ c \notin feed'.dropped =>
                                   b.orders = Resting(DiffsIn(chain, c, 1, h))
<1> DEFINE h == streams[c].next
           ds == OfCoin(chain[h].diffs, c)
           doc == StreamDocument(c)
           item == ParseLine(doc, feed.strict)
           skips == SkipsOf(doc)
           f == CountSkips(feed, doc, {c})
           b == ApplyBlock(BookOf(f, c), item)
<1>1. /\ streams[c].up /\ streams[c].snapshot = 0 /\ h <= Len(chain)
      /\ streams' = IF item = Raised THEN Break(c) ELSE [streams EXCEPT ![c].next = @ + 1]
      /\ feed' = CASE item = Raised       -> feed
                   [] item.kind = "block" -> [f EXCEPT !.books = With(@, c, b)]
                   [] item = Nothing      -> f
  BY DEF StreamDiff, DiffRead
<1>2. source = "quicknode" /\ StreamFine(chain, streams[c], feed, c)
  BY <1>1 DEF StreamsInv, ChainInv
<1>3. ChainFine(chain) /\ Len(chain) \in Nat /\ DOMAIN chain = 1 .. Len(chain)
  BY ListDomain DEF ChainInv, ChainFine
<1>4. h \in DOMAIN chain /\ c \in DOMAIN feed.books
  BY <1>1, <1>2, <1>3 DEF StreamFine
<1>5. IsList(ds) /\ chain[h].drift \in Drifts /\ feed.strict \in BOOLEAN
  BY <1>3, <1>4, OfCoinFine DEF ChainFine, History, FeedInv, FeedFine, FeedFields
<1>6. /\ skips \in Nat
      /\ \/ item = Raised
         \/ item = Nothing /\ skips # 0
         \/ ParsedBlock(item, skips, h, ds)
  <2> DEFINE drift == chain[h].drift
             strict == feed.strict
             d == Document(h, ds, drift)
  <2>1. doc = d
    BY DEF StreamDocument
  <2>2. drift \in Drifts /\ strict \in BOOLEAN /\ source # "events"
    BY <1>2, <1>5
  <2> HIDE DEF drift, strict, h, ds
  <2>3. /\ SkipsOf(d) \in Nat /\ d.height = h
        /\ \/ ParseLine(d, strict) = Raised /\ strict
           \/ ParseLine(d, strict) = Nothing /\ SkipsOf(d) # 0
           \/ source # "events" /\ ParsedBlock(ParseLine(d, strict), SkipsOf(d), h, ds)
           \/ source = "events" /\ ParseLine(d, strict) = [kind |-> "event", diff |-> ds[1]]
    BY <1>5, <2>2, DocumentParsed
  <2> HIDE DEF d
  <2> QED BY <2>1, <2>2, <2>3 DEF strict
<1>7. f = [feed EXCEPT !.skips = @ + skips, !.dropped = IF skips = 0 THEN @ ELSE @ \cup {c}]
  BY DEF CountSkips
<1>8. FeedFine(chain, feed) /\ FeedFields(feed) /\ BookOf(f, c) = feed.books[c] /\ f.books = feed.books
  <2> HIDE DEF skips, f
  <2>1. FeedFine(chain, feed) /\ FeedFields(feed) /\ f.books = feed.books
    BY <1>7 DEF FeedInv, FeedFine, FeedFields
  <2> QED BY <1>4, <2>1 DEF BookOf
<1> HIDE DEF h, ds, item, skips, f
<1>9. CASE item = Raised
  <2>1. item.kind # "block" /\ item # Nothing
    BY <1>9 DEF Raised, Nothing
  <2>2. feed' = feed /\ streams' = Break(c)
    BY <1>1, <1>9, <2>1
  <2>3. source = "quicknode" /\ h \in DOMAIN chain /\ c \in DOMAIN feed.books
        /\ streams[c].up /\ streams[c].snapshot = 0
    BY <1>1, <1>2, <1>4
  <2> QED BY <2>2, <2>3, Zenon DEF h
<1>10. CASE item = Nothing
  <2>1. feed' = f /\ streams' = [streams EXCEPT ![c].next = @ + 1]
    BY <1>1, <1>10 DEF Raised, Nothing
  <2>2. \E n \in Nat : feed' = [feed EXCEPT !.skips = @ + n,
                                            !.dropped = IF n = 0 THEN @ ELSE @ \cup {c}]
    BY <1>6, <1>7, <2>1
  <2>3. source = "quicknode" /\ h \in DOMAIN chain /\ c \in DOMAIN feed.books
        /\ streams[c].up /\ streams[c].snapshot = 0
    BY <1>1, <1>2, <1>4
  <2> QED BY <2>1, <2>2, <2>3, Zenon DEF h
<1>11. CASE ParsedBlock(item, skips, h, ds)
  <2>1. item.kind = "block" /\ item # Raised /\ item # Nothing
    BY <1>11 DEF ParsedBlock, Raised, Nothing
  <2>2. feed' = [f EXCEPT !.books = With(@, c, b)] /\ streams' = [streams EXCEPT ![c].next = @ + 1]
    <3> HIDE DEF b
    <3> QED BY <1>1, <2>1
  <2> DEFINE book == feed.books[c]
  <2>3. IsBook(book) /\ book.coin = c /\ book.height \in 1 .. Len(chain)
    BY <1>2, <1>4, <1>8 DEF FeedFine, BooksFine, StreamFine
  <2>4. ~book.stale /\ c \notin feed.dropped => book.orders = Resting(DiffsIn(chain, c, 1, book.height))
    BY <1>2, <1>4 DEF StreamFine
  <2>5. b = ApplyBlock(book, item)
    BY <1>8
  <2> HIDE DEF book, b
  <2>6. Rebuilt(chain, c, h, book, skips, b)
    BY <1>3, <1>4, <1>11, <2>3, <2>5, DiffBook DEF ds
  <2>7. Rebooked(feed, feed', c, b) /\ (c \notin feed'.dropped => skips = 0 /\ c \notin feed.dropped)
    BY <1>6, <1>7, <1>8, <2>2 DEF FeedFields, Rebooked
  <2>8. /\ IsBook(b) /\ b.coin = c /\ b.height = h
        /\ ~b.stale /\ c \notin feed'.dropped => b.orders = Resting(DiffsIn(chain, c, 1, h))
    BY <2>4, <2>6, <2>7 DEF Rebuilt
  <2>9. \E x : /\ Rebooked(feed, feed', c, x) /\ IsBook(x) /\ x.coin = c /\ x.height = h
               /\ ~x.stale /\ c \notin feed'.dropped => x.orders = Resting(DiffsIn(chain, c, 1, h))
    BY <2>7, <2>8
  <2> QED BY <1>1, <1>2, <1>4, <2>2, <2>9 DEF h
<1> QED BY <1>6, <1>9, <1>10, <1>11

\* What the streams do with a coin's stream.
LEMMA StreamsStep ==
  ASSUME ChainInv, FeedInv, StreamsInv, [Next]_vars
  PROVE  StreamsInv'
<1>1. source' = source /\ ChainFine(chain) /\ ChainFine(chain') /\ Grown(chain, chain')
  BY ChainStep DEF ChainInv
<1>2. DOMAIN streams = Tracked /\ Len(chain) \in Nat /\ Len(chain') \in Nat /\ Len(chain) <= Len(chain')
  BY <1>1, ListDomain DEF StreamsInv, ChainFine, Grown
<1> DEFINE Fields == {"up", "snapshot", "next", "streak", "silent"}
           Connected(t, d) == /\ DOMAIN t = Fields
                              /\ t.snapshot \in 0 .. Len(chain')
                              /\ t.up => t.next \in Nat /\ t.next >= 1
                              /\ t.up /\ t.snapshot = 0 => d \in DOMAIN feed.books
           Same(g, d) == /\ d \in DOMAIN g.books <=> d \in DOMAIN feed.books
                         /\ d \in DOMAIN feed.books => g.books[d] = feed.books[d]
                         /\ d \in feed.dropped => d \in g.dropped
<1>3. ASSUME source = "quicknode", NEW d \in Tracked
      PROVE  StreamFine(chain, streams[d], feed, d) /\ Connected(streams[d], d)
  <2>1. StreamFine(chain, streams[d], feed, d)
    BY <1>3 DEF StreamsInv
  <2>2. streams[d].snapshot \in 0 .. Len(chain')
    BY <1>2, <2>1 DEF StreamFine
  <2> QED BY <2>1, <2>2 DEF StreamFine
<1> HIDE DEF Connected, Same
<1>4. ASSUME source = "quicknode", NEW d \in Tracked, Connected(streams'[d], d), Same(feed', d)
      PROVE  StreamFine(chain', streams'[d], feed', d)
  <2> DEFINE t == streams'[d]
             s == streams[d]
             f == feed
             g == feed'
             new == chain'
             ch == chain
  <2>1. StreamFine(ch, s, f, d)
    BY <1>3, <1>4
  <2>2. /\ DOMAIN t = Fields
        /\ t.snapshot \in 0 .. Len(new)
        /\ t.up => t.next \in Nat /\ t.next >= 1
        /\ t.up /\ t.snapshot = 0 => d \in DOMAIN f.books
    BY <1>4 DEF Connected
  <2>3. /\ d \in DOMAIN g.books <=> d \in DOMAIN f.books
        /\ d \in DOMAIN f.books => g.books[d] = f.books[d]
        /\ d \in f.dropped => d \in g.dropped
    BY <1>4 DEF Same
  <2>4. ChainFine(ch) /\ ChainFine(new) /\ Grown(ch, new)
    BY <1>1
  <2> HIDE DEF t, s, f, g, new, ch
  <2>5. StreamFine(new, t, g, d)
    BY <2>1, <2>2, <2>3, <2>4, StreamStays
  <2> QED BY <2>5 DEF t, g, new
<1>5. ASSUME streams' = streams, feed' = feed PROVE StreamsInv'
  <2>1. \A d \in Tracked : Same(feed', d)
    BY <1>5 DEF Same
  <2>2. source = "quicknode" => \A d \in Tracked : StreamFine(chain', streams'[d], feed', d)
    BY <1>3, <1>4, <1>5, <2>1
  <2> QED BY <1>1, <1>5, <2>2 DEF StreamsInv
\* A step of the stream of c, which leaves the others alone.
<1>6. ASSUME source = "quicknode", NEW c \in Tracked, NEW t, streams' = [streams EXCEPT ![c] = t],
             \A d \in Tracked \ {c} : Same(feed', d), StreamFine(chain', t, feed', c)
      PROVE  StreamsInv'
  <2>1. DOMAIN streams' = Tracked /\ streams'[c] = t /\ \A d \in Tracked \ {c} : streams'[d] = streams[d]
    BY <1>2, <1>6
  <2>2. ASSUME NEW d \in Tracked PROVE StreamFine(chain', streams'[d], feed', d)
    <3>1. CASE d = c
      BY <1>6, <2>1, <3>1
    <3>2. CASE d # c
      <4>1. streams'[d] = streams[d] /\ Same(feed', d) /\ Connected(streams[d], d)
        BY <1>3, <1>6, <2>1, <3>2
      <4>2. Connected(streams'[d], d)
        BY <4>1
      <4> QED BY <1>4, <1>6, <4>1, <4>2
    <3> QED BY <3>1, <3>2
  <2> QED BY <1>1, <1>6, <2>1, <2>2 DEF StreamsInv
\* One that leaves all books alone.
<1>7. ASSUME source = "quicknode", NEW c \in Tracked, NEW t, streams' = [streams EXCEPT ![c] = t],
             Connected(t, c), \A d \in Tracked : Same(feed', d)
      PROVE  StreamsInv'
  <2>1. streams'[c] = t
    BY <1>2, <1>7
  <2>2. Connected(streams'[c], c)
    BY <1>7, <2>1
  <2>3. StreamFine(chain', t, feed', c)
    BY <1>4, <1>7, <2>1, <2>2
  <2> QED BY <1>6, <1>7, <2>3
<1>8. ASSUME NEW c \in Tracked, Subscribe(c) PROVE StreamsInv'
  <2> DEFINE t == [streams[c] EXCEPT !.up = TRUE, !.streak = 0,
                                     !.snapshot = Len(chain), !.next = Len(chain) + 1]
  <2>1. source = "quicknode" /\ streams' = [streams EXCEPT ![c] = t] /\ feed' = feed /\ chain # <<>>
        /\ chain' = chain
    BY <1>8 DEF Subscribe
  <2>2. DOMAIN streams[c] = Fields
    BY <1>3, <2>1 DEF Connected
  <2>3. DOMAIN t = Fields /\ t.snapshot = Len(chain) /\ t.next = Len(chain) + 1
    BY <2>2
  <2>4. Len(chain) # 0
    <3>1. Len(<<>>) = 0
      OBVIOUS
    <3> QED BY <1>1, <2>1, <3>1, EmptyList, ListEqual DEF ChainFine
  <2>5. \A d \in Tracked : Same(feed', d)
    BY <2>1 DEF Same
  <2> HIDE DEF t
  <2>6. Connected(t, c)
    BY <1>2, <2>1, <2>3, <2>4 DEF Connected
  <2> QED BY <1>7, <2>1, <2>5, <2>6
<1>9. ASSUME NEW c \in Tracked, Snapshot(c) PROVE StreamsInv'
  <2> DEFINE h == streams[c].snapshot
             t == [streams[c] EXCEPT !.snapshot = 0]
             f == feed
             g == feed'
             ch == chain
  <2>1. /\ source = "quicknode" /\ h \in 1 .. Len(ch)
        /\ streams' = [streams EXCEPT ![c].snapshot = 0]
        /\ \E b : /\ Rebooked(f, g, c, b) /\ IsBook(b) /\ b.coin = c /\ b.height = h
                  /\ b.orders = Resting(DiffsIn(ch, c, 1, h))
    BY <1>9, SnapshotTaken
  <2>2. PICK b : /\ Rebooked(f, g, c, b) /\ IsBook(b) /\ b.coin = c /\ b.height = h
                 /\ b.orders = Resting(DiffsIn(ch, c, 1, h))
    BY <2>1
  <2>3. chain' = ch /\ streams' = [streams EXCEPT ![c] = t]
    BY <1>9, <2>1 DEF Snapshot
  <2>4. DOMAIN t = Fields /\ t.snapshot = 0 /\ (t.up => t.next \in Nat /\ t.next >= 1)
    BY <1>3, <2>1 DEF Connected
  <2>5. FeedFine(ch, f)
    BY DEF FeedInv
  <2> HIDE DEF t, f, g, ch, h
  <2>6. /\ c \in DOMAIN g.books /\ g.books[c] = b
        /\ \A d \in Tracked \ {c} : /\ d \in DOMAIN g.books <=> d \in DOMAIN f.books
                                    /\ d \in DOMAIN f.books => g.books[d] = f.books[d]
                                    /\ d \in f.dropped => d \in g.dropped
    BY <2>1, <2>2, <2>5, RebookedFine
  <2>7. \A d \in Tracked \ {c} : Same(g, d)
    BY <2>6 DEF Same, f
  <2>8. StreamFine(chain', t, g, c)
    BY <1>2, <2>1, <2>2, <2>3, <2>4, <2>6 DEF StreamFine
  <2> QED BY <1>6, <2>1, <2>3, <2>7, <2>8 DEF g
<1>10. ASSUME source = "quicknode", NEW c \in Tracked, streams' = Break(c), feed' = feed PROVE StreamsInv'
  <2> DEFINE t == [up |-> FALSE, snapshot |-> 0, next |-> 0, streak |-> streams[c].streak + 1,
                   silent |-> IF streams[c].snapshot = 0 THEN 1 ELSE streams[c].silent + 1]
  <2>1. streams' = [streams EXCEPT ![c] = t]
    BY <1>10 DEF Break
  <2>2. DOMAIN t = Fields /\ t.snapshot = 0 /\ t.up = FALSE
    OBVIOUS
  <2>3. \A d \in Tracked : Same(feed', d)
    BY <1>10 DEF Same
  <2> HIDE DEF t
  <2>4. Connected(t, c)
    BY <1>2, <2>2 DEF Connected
  <2> QED BY <1>7, <1>10, <2>1, <2>3, <2>4
\* The next message is delivered or lost.
<1>11. ASSUME source = "quicknode", NEW c \in Tracked, streams' = [streams EXCEPT ![c].next = @ + 1],
              \A d \in Tracked : Same(feed', d)
       PROVE  StreamsInv'
  <2> DEFINE t == [streams[c] EXCEPT !.next = @ + 1]
  <2>1. streams' = [streams EXCEPT ![c] = t]
    BY <1>11
  <2>2. Connected(streams[c], c)
    BY <1>3, <1>11
  <2>3. /\ DOMAIN t = Fields /\ t.snapshot = streams[c].snapshot /\ t.up = streams[c].up
        /\ t.next = streams[c].next + 1
    BY <2>2 DEF Connected
  <2> HIDE DEF t
  <2>4. Connected(t, c)
    <3>1. t.up => t.next \in Nat /\ t.next >= 1
      <4> SUFFICES ASSUME t.up PROVE t.next \in Nat /\ t.next >= 1
        OBVIOUS
      <4>1. streams[c].next \in Nat
        BY <2>2, <2>3 DEF Connected
      <4> QED BY <2>3, <4>1
    <3>2. t.up /\ t.snapshot = 0 => c \in DOMAIN feed.books
      BY <2>2, <2>3 DEF Connected
    <3>3. DOMAIN t = Fields /\ t.snapshot \in 0 .. Len(chain')
      BY <2>2, <2>3 DEF Connected
    <3> QED BY <3>1, <3>2, <3>3 DEF Connected
  <2> QED BY <1>7, <1>11, <2>1, <2>4
<1>12. ASSUME NEW c \in Tracked, StreamBreaks(c) \/ StreamLoses(c) PROVE StreamsInv'
  <2>1. feed' = feed /\ streams[c].up /\ (streams' = Break(c) \/ streams' = [streams EXCEPT ![c].next = @ + 1])
    BY <1>12 DEF StreamBreaks, StreamLoses
  <2>2. source = "quicknode"
    BY <2>1 DEF StreamsInv, ChainInv
  <2>3. \A d \in Tracked : Same(feed', d)
    BY <2>1 DEF Same
  <2> QED BY <1>10, <1>11, <2>1, <2>2, <2>3
<1>13. ASSUME NEW c \in Tracked, StreamDiff(c) PROVE StreamsInv'
  <2> DEFINE h == streams[c].next
             t == [streams[c] EXCEPT !.next = @ + 1]
             f == feed
             g == feed'
             ch == chain
             moved == [streams EXCEPT ![c].next = @ + 1]
  <2>1. /\ source = "quicknode" /\ h \in DOMAIN ch /\ c \in DOMAIN f.books
        /\ streams[c].up /\ streams[c].snapshot = 0
        /\ \/ feed' = feed /\ streams' = Break(c)
           \/ /\ streams' = moved
              /\ \E skips \in Nat : g = [f EXCEPT !.skips = @ + skips,
                                                  !.dropped = IF skips = 0 THEN @ ELSE @ \cup {c}]
           \/ /\ streams' = moved
              /\ \E b : /\ Rebooked(f, g, c, b) /\ IsBook(b) /\ b.coin = c /\ b.height = h
                        /\ ~b.stale /\ c \notin g.dropped => b.orders = Resting(DiffsIn(ch, c, 1, h))
    BY <1>13, DiffTaken
  <2>2. FeedFine(ch, f) /\ chain' = ch /\ ChainFine(ch)
    BY <1>1, <1>13 DEF FeedInv, StreamDiff
  <2>3. CASE feed' = feed /\ streams' = Break(c)
    BY <1>10, <2>1, <2>3
  <2>4. ASSUME streams' = moved, NEW skips \in Nat,
               g = [f EXCEPT !.skips = @ + skips, !.dropped = IF skips = 0 THEN @ ELSE @ \cup {c}]
        PROVE  StreamsInv'
    <3>1. g.books = f.books /\ f.dropped \subseteq g.dropped
      BY <2>2, <2>4 DEF FeedFine, FeedFields
    <3> HIDE DEF f, g
    <3>2. \A d \in Tracked : Same(g, d)
      BY <3>1 DEF Same, f
    <3> QED BY <1>11, <2>1, <2>4, <3>2 DEF g
  <2>5. ASSUME streams' = moved, NEW b, Rebooked(f, g, c, b), IsBook(b), b.coin = c, b.height = h,
               ~b.stale /\ c \notin g.dropped => b.orders = Resting(DiffsIn(ch, c, 1, h))
        PROVE  StreamsInv'
    <3>1. Connected(streams[c], c)
      BY <1>3, <2>1
    <3>2. /\ DOMAIN t = Fields /\ t.snapshot = 0 /\ t.next \in Nat /\ t.next >= 1
          /\ streams' = [streams EXCEPT ![c] = t]
      <4>1. h \in Nat /\ DOMAIN streams[c] = Fields
        BY <2>1, <3>1 DEF Connected
      <4>2. DOMAIN t = Fields /\ t.snapshot = 0 /\ t.next = h + 1
        BY <2>1, <4>1
      <4>3. streams' = [streams EXCEPT ![c] = t]
        BY <2>5
      <4> HIDE DEF t, h
      <4> QED BY <4>1, <4>2, <4>3
    <3>3. h \in 1 .. Len(ch)
      BY <2>1, <2>2, ListDomain DEF ChainFine
    <3> HIDE DEF t, f, g, ch, h
    <3>4. /\ c \in DOMAIN g.books /\ g.books[c] = b
          /\ \A d \in Tracked \ {c} : /\ d \in DOMAIN g.books <=> d \in DOMAIN f.books
                                      /\ d \in DOMAIN f.books => g.books[d] = f.books[d]
                                      /\ d \in f.dropped => d \in g.dropped
      BY <2>2, <2>5, <3>3, RebookedFine
    <3>5. \A d \in Tracked \ {c} : Same(g, d)
      BY <3>4 DEF Same, f
    <3>6. StreamFine(ch, t, g, c)
      <4>1. 0 \in 0 .. Len(ch)
        BY <1>2 DEF ch
      <4> QED BY <2>5, <3>2, <3>3, <3>4, <4>1 DEF StreamFine
    <3> QED BY <1>6, <2>1, <2>2, <3>2, <3>5, <3>6 DEF g
  <2> HIDE DEF f, g, ch, h, t, moved
  <2> QED BY <2>1, <2>3, <2>4, <2>5
<1>14. CASE Restart
  <2>1. streams' = [c \in Tracked |-> Unconnected] /\ feed' = NewFeed(feed.strict)
    BY <1>14 DEF Restart
  <2>2. feed.strict \in BOOLEAN
    BY DEF FeedInv, FeedFine, FeedFields
  <2> DEFINE strict == feed.strict
             g == NewFeed(strict)
             new == chain'
  <2>3. DOMAIN g.books = {} /\ feed' = g
    <3> HIDE DEF strict
    <3>1. strict \in BOOLEAN
      BY <2>2 DEF strict
    <3>2. DOMAIN NewFeed(strict).books = {}
      BY <3>1, NewFeedFine
    <3> QED BY <2>1, <3>2 DEF strict
  <2>4. 0 \in 0 .. Len(new)
    BY <1>2
  <2> HIDE DEF g, new
  <2>5. \A c \in Tracked : StreamFine(new, Unconnected, g, c)
    BY <2>3, <2>4 DEF StreamFine, Unconnected
  <2>6. Unconnected.up = FALSE
    BY DEF Unconnected
  <2>7. DOMAIN streams' = Tracked /\ \A c \in Tracked : streams'[c] = Unconnected
    BY <2>1
  <2> QED BY <1>1, <2>3, <2>5, <2>6, <2>7 DEF StreamsInv, new
<1>15. CASE Produce \/ NewHour \/ WriteHead \/ WriteTail \/ NodeCrash \/ UNCHANGED vars
  BY <1>5, <1>15 DEF Produce, NewHour, WriteHead, WriteTail, NodeCrash, vars
<1>16. CASE Poll
  <2>1. source # "quicknode" /\ streams' = streams
    BY <1>16 DEF Poll, MoveOn, Unfinished
  <2> QED BY <1>1, <2>1 DEF StreamsInv
<1> QED BY <1>8, <1>9, <1>12, <1>13, <1>14, <1>15, <1>16 DEF Next

LEMMA FaultsStep ==
  ASSUME FaultsInv, [Next]_vars
  PROVE  FaultsInv'
<1>1. MaxFaults \in Nat /\ faults \in Nat
  BY FeedConstants DEF FaultsInv
<1>2. faults' = faults \/ (faults < MaxFaults /\ faults' = faults + 1)
  <2>1. CASE Produce \/ NewHour \/ WriteHead \/ WriteTail \/ NodeCrash \/ Poll \/ Restart \/ UNCHANGED vars
    BY <2>1 DEF Produce, NewHour, WriteHead, WriteTail, NodeCrash, Poll, Restart, vars
  <2>2. ASSUME NEW c \in Tracked,
               Subscribe(c) \/ Snapshot(c) \/ StreamDiff(c) \/ StreamBreaks(c) \/ StreamLoses(c)
        PROVE  faults' = faults \/ (faults < MaxFaults /\ faults' = faults + 1)
    BY <2>2 DEF Subscribe, Snapshot, StreamDiff, StreamBreaks, StreamLoses
  <2> QED BY <2>1, <2>2 DEF Next
<1> QED BY <1>1, <1>2 DEF FaultsInv

-----------------------------------------------------------------------------
(* The feed *)

\* A step that changes only the files or the chain.
LEMMA FeedStays ==
  ASSUME ChainInv, NodeInv, NodeInv', CursorInv, FeedInv, [Next]_vars,
         feed' = feed, cursor' = cursor, first' = first, jumped' = jumped
  PROVE  FeedInv'
<1>1. source' = source /\ ChainFine(chain) /\ ChainFine(chain') /\ Grown(chain, chain')
  BY ChainStep DEF ChainInv
<1>2. FilesFine(files) /\ FilesFine(files') /\ Extends(files, files')
  <2>1. FilesFine(files) /\ FilesFine(files')
    BY DEF NodeInv, NodeFine
  <2> QED BY <2>1, FilesGrow
<1>3. FeedFine(chain, feed) /\ (source = "blocks" => FeedGood(chain, feed))
  BY DEF FeedInv
<1>4. FeedFine(chain', feed) /\ (source = "blocks" => FeedGood(chain', feed))
  BY <1>1, <1>3, GoodGrown
<1>5. first # 0 => LinesRead(files', first, cursor.file, cursor.pos)
                     = LinesRead(files, first, cursor.file, cursor.pos)
  <2> SUFFICES ASSUME first # 0
               PROVE  LinesRead(files', first, cursor.file, cursor.pos)
                        = LinesRead(files, first, cursor.file, cursor.pos)
    OBVIOUS
  <2> DEFINE at == cursor.file
             pos == cursor.pos
  <2>1. Len(files) \in Nat
    BY <1>2, ListDomain DEF FilesFine
  <2>2. at \in 1 .. Len(files) /\ first \in 1 .. at /\ pos \in 0 .. Len(files[at])
    BY <2>1 DEF CursorInv
  <2> HIDE DEF at, pos
  <2>3. LinesRead(files', first, at, pos) = LinesRead(files, first, at, pos)
    BY <1>2, <2>2, CursorStays
  <2> QED BY <2>3 DEF at, pos
<1>6. source = "blocks" => FeedGood(chain, feed)'
  BY <1>1, <1>4, Steady
<1>7. FeedFine(chain, feed)'
  BY <1>4 DEF FeedFine, BooksFine, FeedFields
<1>8. source # "quicknode" /\ first = 0 => feed = NewFeed(feed.strict)
  BY DEF FeedInv
<1>9. source # "quicknode" /\ first # 0 /\ ~jumped =>
         feed = Consume(NewFeed(feed.strict), LinesRead(files', first, cursor.file, cursor.pos))
  BY <1>5 DEF FeedInv
<1> QED BY <1>1, <1>6, <1>7, <1>8, <1>9 DEF FeedInv

LEMMA FeedStep ==
  ASSUME ChainInv, NodeInv, NodeInv', CursorInv, FeedInv, StreamsInv, [Next]_vars
  PROVE  FeedInv'
<1>1. source' = source /\ ChainFine(chain) /\ ChainFine(chain')
  BY ChainStep DEF ChainInv
<1>2. CASE Poll
  BY <1>2, PollStep
<1>3. CASE Produce \/ NewHour \/ WriteHead \/ WriteTail \/ NodeCrash \/ UNCHANGED vars
  BY <1>3, FeedStays DEF Produce, NewHour, WriteHead, WriteTail, NodeCrash, vars
<1>4. ASSUME NEW c \in Tracked, Subscribe(c) \/ StreamBreaks(c) \/ StreamLoses(c) PROVE FeedInv'
  BY <1>4, FeedStays DEF Subscribe, StreamBreaks, StreamLoses
<1>5. ASSUME source = "quicknode", FeedFine(chain, feed'), chain' = chain PROVE FeedInv'
  BY <1>1, <1>5 DEF FeedInv, FeedFine, BooksFine, FeedFields
<1>6. ASSUME NEW c \in Tracked, Snapshot(c) PROVE FeedInv'
  <2> DEFINE h == streams[c].snapshot
             f == feed
             g == feed'
             ch == chain
  <2>1. /\ source = "quicknode" /\ h \in 1 .. Len(ch)
        /\ streams' = [streams EXCEPT ![c].snapshot = 0]
        /\ \E b : /\ Rebooked(f, g, c, b) /\ IsBook(b) /\ b.coin = c /\ b.height = h
                  /\ b.orders = Resting(DiffsIn(ch, c, 1, h))
    BY <1>6, SnapshotTaken
  <2>2. chain' = chain /\ FeedFine(ch, f)
    BY <1>6 DEF Snapshot, FeedInv
  <2> HIDE DEF h, f, g, ch
  <2>3. FeedFine(ch, g)
    BY <2>1, <2>2, RebookedFine
  <2> QED BY <1>5, <2>1, <2>2, <2>3 DEF g, ch
<1>7. ASSUME NEW c \in Tracked, StreamDiff(c) PROVE FeedInv'
  <2> DEFINE h == streams[c].next
             f == feed
             g == feed'
             ch == chain
             moved == [streams EXCEPT ![c].next = @ + 1]
  <2>1. /\ source = "quicknode" /\ h \in DOMAIN ch /\ c \in DOMAIN f.books
        /\ streams[c].up /\ streams[c].snapshot = 0
        /\ \/ feed' = feed /\ streams' = Break(c)
           \/ /\ streams' = moved
              /\ \E skips \in Nat : g = [f EXCEPT !.skips = @ + skips,
                                                  !.dropped = IF skips = 0 THEN @ ELSE @ \cup {c}]
           \/ /\ streams' = moved
              /\ \E b : /\ Rebooked(f, g, c, b) /\ IsBook(b) /\ b.coin = c /\ b.height = h
                        /\ ~b.stale /\ c \notin g.dropped => b.orders = Resting(DiffsIn(ch, c, 1, h))
    BY <1>7, DiffTaken
  <2>2. chain' = chain /\ FeedFine(ch, f) /\ DOMAIN ch = 1 .. Len(ch)
    BY <1>1, <1>7, ListDomain DEF StreamDiff, FeedInv, ChainFine
  <2> HIDE DEF h, ch
  <2>3. ASSUME NEW skips \in Nat, g = [f EXCEPT !.skips = @ + skips,
                                                !.dropped = IF skips = 0 THEN @ ELSE @ \cup {c}]
        PROVE  FeedFine(ch, g)
    <3> HIDE DEF f, g
    <3> QED BY <2>2, <2>3 DEF FeedFine, FeedFields
  <2>4. ASSUME NEW b, Rebooked(f, g, c, b), IsBook(b), b.coin = c, b.height = h PROVE FeedFine(ch, g)
    <3> HIDE DEF f, g
    <3> QED BY <2>1, <2>2, <2>4, RebookedFine
  <2>5. feed' = feed => FeedFine(ch, g)
    BY <2>2
  <2> HIDE DEF f, g, moved
  <2>6. FeedFine(ch, g)
    BY <2>1, <2>3, <2>4, <2>5
  <2> QED BY <1>5, <2>1, <2>2, <2>6 DEF g, ch
<1>8. CASE Restart
  <2> DEFINE strict == feed.strict
             g == NewFeed(strict)
             new == chain'
  <2>1. feed' = g /\ first' = 0
    BY <1>8 DEF Restart
  <2>2. strict \in BOOLEAN
    BY DEF FeedInv, FeedFine, FeedFields
  <2> HIDE DEF strict
  <2>3. FeedFine(new, g) /\ DOMAIN g.books = {} /\ g.last = 0 /\ g.since = 0 /\ g.strict = strict
    BY <2>2, NewFeedFine
  <2> HIDE DEF g
  <2>4. FeedGood(new, g)
    BY <2>3 DEF FeedGood, CoinGood
  <2> HIDE DEF new
  <2>5. FeedGood(chain, feed)'
    BY <1>1, <2>1, <2>4, Steady DEF new
  <2>6. FeedFine(chain, feed)'
    BY <2>5 DEF FeedGood
  <2>7. feed' = NewFeed(feed'.strict)
    BY <2>1, <2>3 DEF g
  <2> QED BY <2>1, <2>5, <2>6, <2>7 DEF FeedInv
<1> QED BY <1>2, <1>3, <1>4, <1>6, <1>7, <1>8 DEF Next

LEMMA FeedsStep ==
  ASSUME FeedsInv, [Next]_vars
  PROVE  FeedsInv'
<1>1. ChainInv /\ NodeInv /\ OrderInv /\ CursorInv /\ FeedInv /\ StreamsInv /\ FaultsInv
  BY DEF FeedsInv
<1>2. ChainInv'
  BY <1>1, ChainStep
<1>3. NodeInv' /\ OrderInv'
  BY <1>1, NodeStep
<1>4. CursorInv'
  BY <1>1, <1>3, CursorStep
<1>5. FeedInv'
  BY <1>1, <1>3, FeedStep
<1>6. StreamsInv'
  BY <1>1, StreamsStep
<1>7. FaultsInv'
  BY <1>1, FaultsStep
<1> QED BY <1>2, <1>3, <1>4, <1>5, <1>6, <1>7 DEF FeedsInv

\* The inductive invariant holds of every behaviour: of the chain, of the files, of the
\* place tail() is at in them, of the feed and of the streams.
THEOREM FeedsHold == Spec => []FeedsInv
<1>1. Init => FeedsInv
  BY InitFeeds
<1>2. FeedsInv /\ [Next]_vars => FeedsInv'
  BY FeedsStep
<1> QED BY <1>1, <1>2, PTL DEF Spec

\* The buffer of tail() never holds a whole line, its position is within its file, and no
\* book of either feed holds an order twice, whatever is produced, written, lost or sent.
THEOREM FeedsTyped == Spec => []TypeOK
<1>1. FeedsInv => TypeOK
  <2> SUFFICES ASSUME FeedsInv PROVE TypeOK
    OBVIOUS
  <2>1. ChainInv /\ NodeInv /\ CursorInv /\ FeedInv /\ FaultsInv
    BY DEF FeedsInv
  <2>2. FeedFields(feed) /\ BooksFine(chain, feed.books)
    BY <2>1 DEF FeedInv, FeedFine
  <2>3. \A c \in DOMAIN feed.books : /\ c \in Tracked /\ feed.books[c].coin = c
                                     /\ feed.books[c].height \in {None} \cup (1 .. Len(chain))
                                     /\ OidsOnce(feed.books[c].orders)
    BY <2>2 DEF BooksFine, IsBook, OrdersFine
  <2>4. feed.skips \in Nat
    BY <2>2 DEF FeedFields
  <2>5. \A i \in DOMAIN cursor.buffer : ~cursor.buffer[i].ends
    <3>1. CASE cursor.file = 0
      BY <2>1, <3>1 DEF CursorInv
    <3>2. CASE cursor.file # 0
      <4> DEFINE text == files[cursor.file]
                 pos == cursor.pos
                 read == SubSeq(text, 1, pos)
      <4>1. IsList(files) /\ cursor.file \in 0 .. Len(files)
        BY <2>1 DEF NodeInv, NodeFine, FilesFine, CursorInv
      <4>2. cursor.file \in DOMAIN files
        BY <3>2, <4>1, ListDomain
      <4>3. IsList(text) /\ pos \in 0 .. Len(text) /\ cursor.buffer = Rest(read)
        BY <2>1, <3>2, <4>2 DEF NodeInv, NodeFine, FilesFine, CursorInv
      <4> HIDE DEF text, pos
      <4>4. IsList(read)
        BY <4>3, CutFile
      <4> HIDE DEF read
      <4>5. IsList(Rest(read)) /\ \A x \in Range(Rest(read)) : ~x.ends
        BY <4>4, LinesFine
      <4>6. \A i \in DOMAIN Rest(read) : Rest(read)[i] \in Range(Rest(read))
        BY <4>5, ListDomain
      <4> QED BY <4>3, <4>5, <4>6
    <3> QED BY <3>1, <3>2
  <2> QED BY <2>1, <2>3, <2>4, <2>5 DEF TypeOK, CursorInv, FaultsInv
<1> QED BY <1>1, FeedsHold, PTL

-----------------------------------------------------------------------------
(* The lines that were read are some of those that were written *)

Begins(s, t) == IsList(s) /\ IsList(t) /\ Len(s) <= Len(t) /\ \A i \in 1 .. Len(s) : t[i] = s[i]

LEMMA BeginsConcat ==
  ASSUME NEW s, IsList(s), NEW t, IsList(t)
  PROVE  Begins(s, s \o t)
<1>1. Len(s) \in Nat /\ Len(t) \in Nat
  BY ListDomain
<1>2. /\ IsList(s \o t) /\ Len(s \o t) = Len(s) + Len(t)
      /\ \A i \in 1 .. Len(s) : (s \o t)[i] = s[i]
  BY ConcatList
<1> QED BY <1>1, <1>2 DEF Begins

LEMMA BeginsThen ==
  ASSUME NEW s, NEW t, NEW u, Begins(s, t), Begins(t, u)
  PROVE  Begins(s, u)
<1>1. Len(s) \in Nat /\ Len(t) \in Nat /\ Len(u) \in Nat
  BY ListDomain DEF Begins
<1>2. Len(s) <= Len(u) /\ \A i \in 1 .. Len(s) : i \in 1 .. Len(t)
  BY <1>1 DEF Begins
<1> QED BY <1>2 DEF Begins

\* The lines of the files up to one begin those up to a later one.
LEMMA JoinedBegins ==
  ASSUME NEW fs, FilesFine(fs), NEW from \in Nat, NEW k \in Nat, NEW to \in Nat,
         1 <= from, from <= k + 1, k <= to, to <= Len(fs)
  PROVE  Begins(Joined(fs, from, k), Joined(fs, from, to))
<1> DEFINE Fine(m) == Begins(Joined(fs, from, k), Joined(fs, from, m))
           A == {m \in Nat : k <= m /\ m <= Len(fs) => Fine(m)}
<1>1. IsList(fs) /\ Len(fs) \in Nat /\ DOMAIN fs = 1 .. Len(fs)
  BY ListDomain DEF FilesFine
<1>2. Begins(Joined(fs, from, k), Joined(fs, from, k))
  <2> DEFINE j == Joined(fs, from, k)
  <2>1. IsList(j)
    <3>1. k <= Len(fs)
      BY <1>1
    <3> QED BY <3>1, JoinedFine
  <2> HIDE DEF j
  <2>2. Len(j) \in Nat
    BY <2>1, ListDomain
  <2> QED BY <2>1, <2>2 DEF Begins, j
<1>3. 0 \in A
  <2>1. k <= 0 => k = 0
    OBVIOUS
  <2> QED BY <1>2, <2>1
<1> HIDE DEF Fine
<1>4. \A m \in Nat : m \in A => m + 1 \in A
  <2> SUFFICES ASSUME NEW m \in Nat, m \in A, k <= m + 1, m + 1 <= Len(fs) PROVE Fine(m + 1)
    OBVIOUS
  <2>1. CASE k = m + 1
    BY <1>2, <2>1 DEF Fine
  <2>2. CASE k # m + 1
    <3>1. k <= m /\ m <= Len(fs) /\ from <= m + 1 /\ m + 1 \in DOMAIN fs
      BY <1>1, <2>2
    <3> DEFINE s == Joined(fs, from, k)
               t == Joined(fs, from, m)
               l == FileLines(fs[m + 1])
    <3>2. Begins(s, t) /\ Joined(fs, from, m + 1) = t \o l
      <4>1. Begins(s, t)
        BY <3>1 DEF Fine
      <4> QED BY <1>1, <3>1, <4>1, JoinedMore
    <3>3. IsList(l)
      BY <3>1, FileLinesFine DEF FilesFine
    <3> HIDE DEF s, t, l
    <3>4. Begins(t, t \o l)
      BY <3>2, <3>3, BeginsConcat DEF Begins
    <3>5. Begins(s, t \o l)
      BY <3>2, <3>4, BeginsThen
    <3> QED BY <3>2, <3>5 DEF s, Fine
  <2> QED BY <2>1, <2>2
<1> HIDE DEF A
<1>5. to \in A
  BY <1>3, <1>4, Joiner!SetInduction
<1> QED BY <1>5 DEF A, Fine

LEMMA JoinedSplit ==
  ASSUME NEW fs, FilesFine(fs), NEW from \in Nat, NEW to \in Nat,
         1 <= from, from <= to + 1, to <= Len(fs)
  PROVE  Joined(fs, 1, to) = Joined(fs, 1, from - 1) \o Joined(fs, from, to)
<1> DEFINE b == Joined(fs, 1, from - 1)
           Fine(m) == Joined(fs, 1, m) = b \o Joined(fs, from, m)
           A == {m \in Nat : from <= m + 1 /\ m <= Len(fs) => Fine(m)}
<1>1. IsList(fs) /\ Len(fs) \in Nat /\ DOMAIN fs = 1 .. Len(fs)
  BY ListDomain DEF FilesFine
<1>2. IsList(b)
  <2> DEFINE k == from - 1
             one == 1
  <2>1. k \in Nat /\ k <= Len(fs) /\ one \in Nat /\ 1 <= one
    BY <1>1
  <2> HIDE DEF k, one
  <2>2. IsList(Joined(fs, one, k))
    BY <2>1, JoinedFine
  <2> QED BY <2>2 DEF k, one
<1>3. b = b \o Joined(fs, from, from - 1)
  <2>1. Joined(fs, from, from - 1) = <<>>
    BY JoinedNone
  <2> HIDE DEF b
  <2> QED BY <1>2, <2>1, ConcatNothing
<1>4. 0 \in A
  <2>1. from <= 0 + 1 => from - 1 = 0
    OBVIOUS
  <2> QED BY <1>3, <2>1
<1> HIDE DEF Fine
<1>5. \A m \in Nat : m \in A => m + 1 \in A
  <2> SUFFICES ASSUME NEW m \in Nat, m \in A, from <= m + 1 + 1, m + 1 <= Len(fs) PROVE Fine(m + 1)
    OBVIOUS
  <2>1. CASE from = m + 1 + 1
    <3>1. from - 1 = m + 1
      BY <2>1
    <3> QED BY <1>3, <3>1 DEF Fine
  <2>2. CASE from # m + 1 + 1
    <3>1. from <= m + 1 /\ m <= Len(fs) /\ m + 1 \in DOMAIN fs /\ 1 <= m + 1
      BY <1>1, <2>2
    <3> DEFINE t == Joined(fs, from, m)
               u == Joined(fs, 1, m)
               l == FileLines(fs[m + 1])
               one == 1
    <3>2. u = b \o t
      BY <3>1 DEF Fine
    <3>3. Joined(fs, from, m + 1) = t \o l
      BY <1>1, <3>1, JoinedMore
    <3>4. Joined(fs, one, m + 1) = Joined(fs, one, m) \o l
      <4>1. one \in Nat /\ 1 <= one /\ one <= m + 1
        BY <3>1
      <4> HIDE DEF one
      <4> QED BY <1>1, <3>1, <4>1, JoinedMore
    <3>5. IsList(t)
      BY <3>1, JoinedFine
    <3>6. IsList(l)
      BY <3>1, FileLinesFine DEF FilesFine
    <3> HIDE DEF t, l, b
    <3>7. b \o (t \o l) = (b \o t) \o l
      BY <1>2, <3>5, <3>6, ListConcat
    <3> QED BY <3>2, <3>3, <3>4, <3>7 DEF Fine
  <2> QED BY <2>1, <2>2
<1> HIDE DEF A
<1>6. to \in A
  BY <1>4, <1>5, Joiner!SetInduction
<1> QED BY <1>6 DEF A, Fine

LEMMA ReadBegins ==
  ASSUME NEW fs, FilesFine(fs), NEW at \in DOMAIN fs, NEW from \in 1 .. at, NEW pos \in 0 .. Len(fs[at])
  PROVE  /\ Begins(Joined(fs, 1, from - 1) \o LinesRead(fs, from, at, pos), AllLines(fs))
         /\ IsList(Joined(fs, 1, from - 1)) /\ IsList(LinesRead(fs, from, at, pos))
<1> DEFINE n == Len(fs)
           one == 1
           a == Joined(fs, one, from - 1)
           b == Joined(fs, from, at - 1)
           c == Lines(SubSeq(fs[at], 1, pos))
           r == LinesRead(fs, one, at, pos)
           new == NewIn(fs, at, pos)
<1>1. /\ IsList(fs) /\ n \in Nat /\ DOMAIN fs = 1 .. n /\ \A i \in 1 .. n : IsList(fs[i])
      /\ at \in 1 .. n /\ at \in Nat /\ from \in Nat /\ at - 1 \in Nat /\ from - 1 \in Nat
      /\ one \in Nat /\ one \in 1 .. at /\ one <= one
  BY ListDomain DEF FilesFine
<1>2. IsList(a) /\ IsList(b) /\ Joined(fs, one, at - 1) = a \o b
  <2> DEFINE k == from - 1
             m == at - 1
  <2>1. k \in Nat /\ m \in Nat /\ k <= Len(fs) /\ m <= Len(fs) /\ 1 <= from /\ from <= m + 1 /\ 1 <= one
    BY <1>1
  <2>2. Joined(fs, one, m) = Joined(fs, one, k) \o Joined(fs, from, m)
    <3> HIDE DEF m
    <3> QED BY <1>1, <2>1, JoinedSplit
  <2> HIDE DEF k, m, one
  <2>3. IsList(Joined(fs, one, k)) /\ IsList(Joined(fs, from, m))
    BY <1>1, <2>1, JoinedFine
  <2> QED BY <2>2, <2>3 DEF k, m
<1>3. IsList(c)
  <2> DEFINE s == SubSeq(fs[at], 1, pos)
  <2>1. IsList(s)
    BY <1>1, CutFile
  <2> HIDE DEF s
  <2>2. IsList(Lines(s))
    BY <2>1, LinesFine
  <2> QED BY <2>2 DEF s
<1>4. r = (a \o b) \o c /\ LinesRead(fs, from, at, pos) = b \o c
  BY <1>2 DEF LinesRead
<1>5. r = a \o (b \o c) /\ IsList(r) /\ IsList(b \o c)
  <2> HIDE DEF a, b, c, r
  <2>1. IsList(b \o c)
    BY <1>2, <1>3, ConcatList
  <2>2. IsList(a \o (b \o c))
    BY <1>2, <2>1, ConcatList
  <2>3. a \o (b \o c) = (a \o b) \o c
    BY <1>2, <1>3, ListConcat, SMTT(30)
  <2> QED BY <1>4, <2>1, <2>2, <2>3
<1> HIDE DEF one
<1>6. /\ IsList(new)
      /\ LinesRead(fs, one, at, Len(fs[at])) = r \o Lines(new)
      /\ Joined(fs, one, at) = r \o FileLines(new)
  BY <1>1, ReadSame
<1>7. IsList(Lines(new)) /\ IsList(FileLines(new))
  <2> HIDE DEF new
  <2> QED BY <1>6, LinesFine, FileLinesFine
<1> DEFINE j == Joined(fs, one, n - 1)
           l == Lines(fs[n])
<1>8. AllLines(fs) = j \o l
  BY DEF AllLines, one
<1>9. CASE at = n
  <2>1. LinesRead(fs, one, at, Len(fs[at])) = j \o l
    <3>1. IsList(fs[at]) /\ Len(fs[at]) \in Nat
      BY <1>1, ListDomain
    <3>2. SubSeq(fs[at], 1, Len(fs[at])) = fs[at]
      BY <3>1 DEF IsList
    <3> QED BY <1>9, <3>2 DEF LinesRead
  <2>2. Begins(r, AllLines(fs))
    <3> DEFINE k == Lines(new)
    <3> HIDE DEF r, k
    <3>1. Begins(r, r \o k)
      BY <1>5, <1>7, BeginsConcat DEF k
    <3> QED BY <1>6, <1>8, <2>1, <3>1 DEF k
  <2> QED BY <1>2, <1>4, <1>5, <2>2 DEF one
<1>10. CASE at # n
  <2>1. at <= n - 1 /\ n - 1 \in Nat /\ n - 1 <= n /\ one <= at + 1 /\ n \in 1 .. n
    BY <1>1, <1>10
  <2> DEFINE k == n - 1
             s == Joined(fs, one, at)
             f == FileLines(new)
  <2>2. Begins(s, j)
    <3>1. k \in Nat /\ at <= k /\ k <= Len(fs) /\ 1 <= one
      BY <2>1 DEF one
    <3> HIDE DEF k
    <3>2. Begins(Joined(fs, one, at), Joined(fs, one, k))
      BY <1>1, <2>1, <3>1, JoinedBegins
    <3> QED BY <3>2 DEF k
  <2>3. IsList(l)
    <3>1. IsList(fs[n])
      BY <1>1, <2>1
    <3> QED BY <3>1, LinesFine
  <2>4. s = r \o f
    BY <1>6
  <2> HIDE DEF s, f, r, j, l
  <2>5. Begins(r, r \o f)
    BY <1>5, <1>7, BeginsConcat DEF f
  <2>6. Begins(j, j \o l)
    BY <2>2, <2>3, BeginsConcat DEF Begins
  <2>7. Begins(r, j \o l)
    <3>1. Begins(r, j)
      BY <2>2, <2>4, <2>5, BeginsThen
    <3> QED BY <2>6, <3>1, BeginsThen
  <2> QED BY <1>2, <1>4, <1>5, <1>8, <2>7 DEF one
<1> QED BY <1>9, <1>10

LEMMA RunOf ==
  ASSUME NEW ch, NEW a, IsList(a), NEW b, IsList(b), NEW all, Begins(a \o b, all), Run(ch, all, 0)
  PROVE  Run(ch, b, Len(a))
<1>1. /\ Len(a) \in Nat /\ Len(b) \in Nat /\ Len(a \o b) = Len(a) + Len(b)
      /\ \A j \in 1 .. Len(b) : (a \o b)[Len(a) + j] = b[j]
  <2>1. Len(a) \in Nat /\ Len(b) \in Nat
    BY ListDomain
  <2>2. Len(a \o b) = Len(a) + Len(b) /\ \A j \in 1 .. Len(b) : (a \o b)[Len(a) + j] = b[j]
    BY ConcatList
  <2> QED BY <2>1, <2>2
<1>2. Len(all) \in Nat /\ Len(a \o b) <= Len(all) /\ \A i \in 1 .. Len(a \o b) : all[i] = (a \o b)[i]
  BY ListDomain DEF Begins
<1>3. ASSUME NEW j \in 1 .. Len(b)
      PROVE  Len(a) + j \in DOMAIN ch /\ LineDocument(b[j]) = DocOf(ch, Len(a) + j)
  <2> DEFINE i == Len(a) + j
             s == a \o b
  <2>1. i \in 1 .. Len(s) /\ i \in 1 .. Len(all) /\ 0 + i = i
    BY <1>1, <1>2
  <2>2. s[i] = b[j]
    BY <1>1
  <2>3. all[i] = s[i]
    <3> HIDE DEF i
    <3> QED BY <1>2, <2>1
  <2> HIDE DEF i, s
  <2>4. 0 + i \in DOMAIN ch /\ LineDocument(all[i]) = DocOf(ch, 0 + i)
    BY <2>1 DEF Run
  <2> QED BY <2>1, <2>2, <2>3, <2>4 DEF i
<1> QED BY <1>3 DEF Run

\* Where the node's files say of the chain what they should, the feed knows it.
LEMMA FeedKnows ==
  ASSUME FeedsInv, source # "quicknode", source = "events" => ~jumped /\ faults = 0
  PROVE  FeedGood(chain, feed)
<1>1. ChainInv /\ NodeInv /\ OrderInv /\ CursorInv /\ FeedInv
  BY DEF FeedsInv
<1>2. CASE source = "blocks"
  BY <1>1, <1>2 DEF FeedInv
<1>3. CASE source = "events"
  <2> DEFINE strict == feed.strict
             g == NewFeed(strict)
             ch == chain
  <2>1. strict \in BOOLEAN
    BY <1>1 DEF FeedInv, FeedFine, FeedFields
  <2>2. ChainFine(ch) /\ OneEach(ch)
    BY <1>1, <1>3 DEF ChainInv
  <2> HIDE DEF strict, ch
  <2>3. FeedFine(ch, g) /\ DOMAIN g.books = {} /\ g.last = 0 /\ g.since = 0
    BY <2>1, NewFeedFine
  <2> HIDE DEF g
  <2>4. FeedGood(ch, g) /\ \A k : Ready(g, k)
    BY <2>3 DEF FeedGood, CoinGood, Ready
  <2>5. CASE first = 0
    <3>1. feed = g
      BY <1>1, <1>3, <2>5 DEF FeedInv, g, strict
    <3> QED BY <2>4, <3>1 DEF ch
  <2>6. CASE first # 0
    <3> DEFINE at == cursor.file
               pos == cursor.pos
               fs == files
               a == Joined(fs, 1, first - 1)
               b == LinesRead(fs, first, at, pos)
               all == AllLines(fs)
               k == Len(a)
    <3>1. FilesFine(fs) /\ at \in 0 .. Len(fs) /\ at # 0 /\ pos \in 0 .. Len(fs[at]) /\ first \in 0 .. at
      BY <1>1, <2>6 DEF NodeInv, NodeFine, CursorInv
    <3>2. at \in DOMAIN fs /\ first \in 1 .. at
      <4>1. DOMAIN fs = 1 .. Len(fs) /\ Len(fs) \in Nat
        BY <3>1, ListDomain DEF FilesFine
      <4> HIDE DEF fs, at
      <4> QED BY <2>6, <3>1, <4>1
    <3>3. feed = Consume(g, b)
      BY <1>1, <1>3, <2>6 DEF FeedInv, g, strict
    <3>4. Run(ch, all, 0)
      <4>1. fs # <<>>
        <5>1. DOMAIN <<>> = {}
          OBVIOUS
        <5> QED BY <3>2, <5>1
      <4> QED BY <1>1, <1>3, <4>1 DEF OrderInv, Ordered, ch
    <3> HIDE DEF fs, at, pos
    <3>5. Begins(a \o b, all) /\ IsList(a) /\ IsList(b)
      BY <3>1, <3>2, ReadBegins
    <3> HIDE DEF a, b, all
    <3>6. Run(ch, b, k)
      BY <3>4, <3>5, RunOf
    <3>7. k \in Nat
      BY <3>5, ListDomain
    <3> HIDE DEF k
    <3>8. FeedGood(ch, Consume(g, b))
      BY <1>3, <2>2, <2>4, <3>5, <3>6, <3>7, ConsumeRun
    <3> QED BY <3>3, <3>8 DEF ch
  <2> QED BY <2>5, <2>6
<1> QED BY <1>1, <1>2, <1>3 DEF ChainInv

\* What a book that is not stale, and of which nothing was reported as skipped, holds: of the
\* provider's stream, exactly the orders the chain has resting at its height, whatever was
\* lost, repeated or reconnected; of the node's blocks, those of them that were announced since
\* the feed began to read (an older order is missing after a restart), whatever the cuts
\* between the writes, the hours, the crashes and the restarts; of the node's bare events, the
\* same, but only of a behaviour with no fault so far and no file jumped over.
THEOREM BooksFaithful == Spec => []BookFaithful
<1>1. FeedsInv => BookFaithful
  <2> SUFFICES ASSUME FeedsInv, NEW c \in DOMAIN feed.books, ~feed.books[c].stale, c \notin feed.dropped,
                      source = "events" => ~jumped /\ faults = 0
               PROVE  feed.books[c].orders = Resting(DiffsOf(c, From, Reached(c)))
    BY DEF BookFaithful
  <2>1. FeedFine(chain, feed) /\ StreamsInv /\ ChainInv
    BY DEF FeedsInv, FeedInv
  <2>2. c \in Tracked
    BY <2>1 DEF FeedFine, BooksFine
  <2>3. \A from, to : DiffsOf(c, from, to) = DiffsIn(chain, c, from, to)
    BY DEF DiffsOf, DiffsIn
  <2>4. CASE source = "quicknode"
    <3>1. StreamFine(chain, streams[c], feed, c)
      BY <2>1, <2>2, <2>4 DEF StreamsInv
    <3>2. feed.books[c].orders = Resting(DiffsIn(chain, c, 1, feed.books[c].height))
      BY <3>1 DEF StreamFine
    <3>3. From = 1 /\ Reached(c) = feed.books[c].height
      BY <2>4 DEF From, Reached
    <3> QED BY <2>3, <3>2, <3>3
  <2>5. CASE source # "quicknode"
    <3>1. FeedGood(chain, feed)
      BY <2>5, FeedKnows
    <3>2. CoinGood(chain, feed, c)
      BY <2>2, <3>1 DEF FeedGood
    <3>3. /\ source # "events" => feed.books[c].height = feed.last
          /\ feed.books[c].orders = Resting(DiffsIn(chain, c, feed.since, feed.last))
      BY <3>2 DEF CoinGood
    <3>4. From = feed.since /\ Reached(c) = feed.last
      BY <2>5, <3>3 DEF From, Reached
    <3> QED BY <2>3, <3>3, <3>4
  <2> QED BY <2>4, <2>5
<1> QED BY <1>1, FeedsHold, PTL

-----------------------------------------------------------------------------
(* Two books of one coin with the same orders stay so *)

Shape(b) ==
    DOMAIN b = {"coin", "height", "stale", "anomaly_count", "orders"} /\ b.anomaly_count \in Nat

\* One counts some anomalies more than the other.
Twin(a, b, k) ==
    /\ Shape(a) /\ Shape(b)
    /\ a.coin = b.coin /\ a.orders = b.orders /\ a.anomaly_count = b.anomaly_count + k

LEMMA TwinAnomaly ==
  ASSUME NEW k \in Nat, NEW a, NEW b, Twin(a, b, k)
  PROVE  Twin(Anomaly(a), Anomaly(b), k)
BY DEF Twin, Shape, Anomaly

LEMMA TwinOrders ==
  ASSUME NEW k \in Nat, NEW a, NEW b, Twin(a, b, k), NEW s
  PROVE  Twin([a EXCEPT !.orders = s], [b EXCEPT !.orders = s], k)
BY DEF Twin, Shape

LEMMA TwinSlots ==
  ASSUME NEW k \in Nat, NEW a, NEW b, Twin(a, b, k), NEW oid
  PROVE  Slot(a, oid) = Slot(b, oid) /\ (Holds(a, oid) <=> Holds(b, oid))
<1>1. a.orders = b.orders
  BY DEF Twin
<1>2. Slot(a, oid) = Slot(b, oid)
  BY <1>1 DEF Slot
<1> QED BY <1>1, <1>2 DEF Holds

LEMMA TwinDelete ==
  ASSUME NEW k \in Nat, NEW a, NEW b, Twin(a, b, k), NEW oid
  PROVE  Twin(Delete(a, oid), Delete(b, oid), k)
<1> DEFINE s == RemoveAt(a.orders, Slot(a, oid))
<1>1. Delete(a, oid) = [a EXCEPT !.orders = s]
  BY DEF Delete
<1>2. Delete(b, oid) = [b EXCEPT !.orders = s]
  <2>1. RemoveAt(b.orders, Slot(b, oid)) = s
    BY TwinSlots DEF Twin
  <2> HIDE DEF s
  <2> QED BY <2>1 DEF Delete
<1> HIDE DEF s
<1>3. Twin([a EXCEPT !.orders = s], [b EXCEPT !.orders = s], k)
  BY TwinOrders
<1> QED BY <1>1, <1>2, <1>3

LEMMA TwinInsert ==
  ASSUME NEW k \in Nat, NEW a, NEW b, Twin(a, b, k), NEW d
  PROVE  Twin(Insert(a, d), Insert(b, d), k)
<1>1. CASE BadDecimal \in {d.px, d.sz}
  BY <1>1, TwinAnomaly DEF Insert
<1>2. CASE BadDecimal \notin {d.px, d.sz}
  <2> DEFINE f == IF Holds(a, d.oid) THEN Anomaly(Delete(a, d.oid)) ELSE a
             g == IF Holds(b, d.oid) THEN Anomaly(Delete(b, d.oid)) ELSE b
             s == Append(f.orders, OrderOf(d))
  <2>1. Twin(f, g, k)
    <3>1. Holds(a, d.oid) <=> Holds(b, d.oid)
      BY TwinSlots
    <3> DEFINE e == Delete(a, d.oid)
               h == Delete(b, d.oid)
    <3>2. Twin(e, h, k)
      BY TwinDelete
    <3> HIDE DEF e, h
    <3>3. Twin(Anomaly(e), Anomaly(h), k)
      BY <3>2, TwinAnomaly
    <3> QED BY <3>1, <3>3 DEF e, h
  <2>2. Insert(a, d) = [f EXCEPT !.orders = s]
    <3>1. [f EXCEPT !.orders = Append(@, OrderOf(d))] = [f EXCEPT !.orders = s]
      OBVIOUS
    <3> QED BY <1>2, <3>1 DEF Insert, OrderOf
  <2>3. Insert(b, d) = [g EXCEPT !.orders = s]
    <3>1. [g EXCEPT !.orders = Append(@, OrderOf(d))] = [g EXCEPT !.orders = s]
      <4>1. g.orders = f.orders
        BY <2>1 DEF Twin
      <4> HIDE DEF f, g
      <4> QED BY <4>1
    <3> QED BY <1>2, <3>1 DEF Insert, OrderOf
  <2> HIDE DEF f, g, s
  <2> QED BY <2>1, <2>2, <2>3, TwinOrders
<1> QED BY <1>1, <1>2

LEMMA TwinUpdate ==
  ASSUME NEW k \in Nat, NEW a, NEW b, Twin(a, b, k), NEW d
  PROVE  Twin(ApplyUpdate(a, d), ApplyUpdate(b, d), k)
<1> DEFINE i == Slot(a, d.oid)
           f == IF d.orig_sz \notin {None, a.orders[i].sz} THEN Anomaly(a) ELSE a
           g == IF d.orig_sz \notin {None, b.orders[i].sz} THEN Anomaly(b) ELSE b
           s == Resized(a.orders, i, d.new_sz)
<1>1. Slot(b, d.oid) = i /\ (Holds(a, d.oid) <=> Holds(b, d.oid)) /\ a.orders = b.orders
  BY TwinSlots DEF Twin
<1>2. Twin(f, g, k) /\ f.orders = a.orders /\ g.orders = a.orders
  <2>1. Twin(Anomaly(a), Anomaly(b), k)
    BY TwinAnomaly
  <2>2. Anomaly(a).orders = a.orders /\ Anomaly(b).orders = b.orders
    BY DEF Anomaly, Twin, Shape
  <2> QED BY <1>1, <2>1, <2>2
<1>3. CASE ~Holds(a, d.oid) \/ d.new_sz \in {None, BadDecimal}
  <2>1. ApplyUpdate(a, d) = Anomaly(a) /\ ApplyUpdate(b, d) = Anomaly(b)
    BY <1>1, <1>3 DEF ApplyUpdate
  <2>2. Twin(Anomaly(a), Anomaly(b), k)
    BY TwinAnomaly
  <2> QED BY <2>1, <2>2, SMTT(30)
<1>4. CASE Holds(a, d.oid) /\ d.new_sz \notin {None, BadDecimal} /\ d.new_sz = 0
  <2>1. ApplyUpdate(a, d) = Delete(Anomaly(f), d.oid) /\ ApplyUpdate(b, d) = Delete(Anomaly(g), d.oid)
    BY <1>1, <1>4 DEF ApplyUpdate
  <2> HIDE DEF f, g
  <2> DEFINE e == Anomaly(f)
             h == Anomaly(g)
  <2>2. Twin(e, h, k)
    BY <1>2, TwinAnomaly
  <2> HIDE DEF e, h
  <2> QED BY <2>1, <2>2, TwinDelete DEF e, h
<1>5. CASE Holds(a, d.oid) /\ d.new_sz \notin {None, BadDecimal} /\ d.new_sz # 0
  <2>1. /\ ApplyUpdate(a, d) = [f EXCEPT !.orders[i].sz = d.new_sz]
        /\ ApplyUpdate(b, d) = [g EXCEPT !.orders[i].sz = d.new_sz]
    BY <1>1, <1>5 DEF ApplyUpdate
  <2> HIDE DEF f, g
  <2>2. /\ [f EXCEPT !.orders[i].sz = d.new_sz] = [f EXCEPT !.orders = s]
        /\ [g EXCEPT !.orders[i].sz = d.new_sz] = [g EXCEPT !.orders = s]
    BY <1>2 DEF Resized
  <2> HIDE DEF s
  <2> QED BY <1>2, <2>1, <2>2, TwinOrders
<1> QED BY <1>3, <1>4, <1>5

LEMMA TwinApply ==
  ASSUME NEW k \in Nat, NEW a, NEW b, Twin(a, b, k), NEW d, d.kind \in Kinds
  PROVE  Twin(Apply(a, d), Apply(b, d), k)
<1>1. a.coin = b.coin
  BY DEF Twin
<1>2. CASE d.coin # b.coin
  BY <1>1, <1>2, TwinAnomaly DEF Apply
<1>3. CASE d.coin = b.coin
  <2>1. Twin(ApplyNew(a, d), ApplyNew(b, d), k)
    BY TwinAnomaly, TwinInsert DEF ApplyNew
  <2>2. Twin(ApplyUpdate(a, d), ApplyUpdate(b, d), k)
    BY TwinUpdate
  <2>3. Twin(ApplyRemove(a, d), ApplyRemove(b, d), k)
    BY TwinAnomaly, TwinDelete, TwinSlots DEF ApplyRemove
  <2>4. \A x : x.coin = b.coin =>
           /\ d.kind = "new" => Apply(x, d) = ApplyNew(x, d)
           /\ d.kind = "update" => Apply(x, d) = ApplyUpdate(x, d)
           /\ d.kind = "remove" => Apply(x, d) = ApplyRemove(x, d)
    BY <1>3 DEF Apply
  <2>5. /\ d.kind = "new" => Apply(a, d) = ApplyNew(a, d) /\ Apply(b, d) = ApplyNew(b, d)
        /\ d.kind = "update" => Apply(a, d) = ApplyUpdate(a, d) /\ Apply(b, d) = ApplyUpdate(b, d)
        /\ d.kind = "remove" => Apply(a, d) = ApplyRemove(a, d) /\ Apply(b, d) = ApplyRemove(b, d)
    BY <1>1, <2>4
  <2> QED BY <2>1, <2>2, <2>3, <2>5 DEF Kinds
<1> QED BY <1>2, <1>3

LEMMA TwinPlay ==
  ASSUME NEW k \in Nat, NEW a, NEW b, Twin(a, b, k), NEW ds, IsList(ds), \A d \in Range(ds) : d.kind \in Kinds
  PROVE  Twin(Fold(Apply, a, ds), Fold(Apply, b, ds), k)
<1> DEFINE T == Range(ds)
           P == {r \in Seq(T) : Twin(Fold(Apply, a, r), Fold(Apply, b, r), k)}
<1>1. <<>> \in P
  BY PlayEmpty
<1>2. \A r \in Seq(T), x \in T : r \in P => Append(r, x) \in P
  <2> SUFFICES ASSUME NEW r \in Seq(T), NEW x \in T, r \in P
               PROVE  Twin(Fold(Apply, a, Append(r, x)), Fold(Apply, b, Append(r, x)), k)
    OBVIOUS
  <2> DEFINE e == Fold(Apply, a, r)
             f == Fold(Apply, b, r)
  <2>1. Twin(e, f, k) /\ IsList(r) /\ x.kind \in Kinds
    BY ListIn
  <2>2. Fold(Apply, a, Append(r, x)) = Apply(e, x) /\ Fold(Apply, b, Append(r, x)) = Apply(f, x)
    BY <2>1, PlayAppend
  <2> HIDE DEF e, f
  <2>3. Twin(Apply(e, x), Apply(f, x), k)
    BY <2>1, TwinApply
  <2> QED BY <2>2, <2>3
<1>3. Seq(T) \subseteq P
  <2> HIDE DEF P, T
  <2> QED BY <1>1, <1>2, Reader!SequenceInduction
<1> QED BY <1>3 DEF IsList

-----------------------------------------------------------------------------
(* What replay() reports and what tail() has *)

\* The one book of a report, and the feed's of the same coin.
Close(b, c) ==
    /\ b.coin = c.coin /\ b.orders = c.orders /\ b.height = c.height
    /\ c.stale => b.stale
    /\ \E k \in Nat : Twin(b, c, k) /\ (~b.stale => k = 0)

LEMMA BookShape == \A b : IsBook(b) => Shape(b)
BY DEF IsBook, Shape

\* A block finds the gap it makes in the feed's book in the report's as well.
LEMMA BlockClose ==
  ASSUME NEW b, IsBook(b), NEW c, IsBook(c), NEW k \in Nat, Twin(b, c, k), ~b.stale => k = 0,
         c.stale => b.stale, c.height \in {b.height, None},
         NEW h, NEW ds, IsList(ds), \A d \in Range(ds) : d.kind \in Kinds
  PROVE  Close(ApplyBlock(b, [height |-> h, diffs |-> ds]), ApplyBlock(c, [height |-> h, diffs |-> ds]))
<1> DEFINE Gap(x) == x.height # None /\ h # x.height + 1
           e == IF Gap(b) THEN [Anomaly(b) EXCEPT !.stale = TRUE] ELSE b
           f == IF Gap(c) THEN [Anomaly(c) EXCEPT !.stale = TRUE] ELSE c
           j == IF Gap(b) /\ ~Gap(c) THEN k + 1 ELSE k
           m == Fold(Apply, e, ds)
           n == Fold(Apply, f, ds)
           x == ApplyBlock(b, [height |-> h, diffs |-> ds])
           y == ApplyBlock(c, [height |-> h, diffs |-> ds])
<1>1. x = [m EXCEPT !.height = h] /\ y = [n EXCEPT !.height = h]
  BY DEF ApplyBlock
<1>2. /\ x.coin = b.coin /\ x.height = h /\ x.stale = (b.stale \/ Gap(b))
      /\ y.coin = c.coin /\ y.height = h /\ y.stale = (c.stale \/ Gap(c))
  BY ApplyBlockFine
<1>3. Gap(c) => Gap(b)
  OBVIOUS
<1> HIDE DEF Gap
<1>4. /\ DOMAIN b = {"coin", "height", "stale", "anomaly_count", "orders"} /\ b.anomaly_count \in Nat
      /\ DOMAIN c = {"coin", "height", "stale", "anomaly_count", "orders"} /\ c.anomaly_count \in Nat
      /\ b.coin = c.coin /\ b.orders = c.orders /\ b.anomaly_count = c.anomaly_count + k
  BY DEF Twin, Shape
<1>5. /\ DOMAIN e = {"coin", "height", "stale", "anomaly_count", "orders"} /\ e.coin = b.coin /\ e.orders = b.orders
      /\ e.anomaly_count = b.anomaly_count + IF Gap(b) THEN 1 ELSE 0
  BY <1>4 DEF Anomaly
<1>6. /\ DOMAIN f = {"coin", "height", "stale", "anomaly_count", "orders"} /\ f.coin = c.coin /\ f.orders = c.orders
      /\ f.anomaly_count = c.anomaly_count + IF Gap(c) THEN 1 ELSE 0
  BY <1>4 DEF Anomaly
<1>7. Twin(e, f, j) /\ j \in Nat
  <2> HIDE DEF e, f
  <2> QED BY <1>3, <1>4, <1>5, <1>6 DEF Twin, Shape
<1> HIDE DEF e, f
<1>8. ~x.stale => j = 0
  BY <1>2
<1> HIDE DEF j, x, y
<1>9. Twin(m, n, j)
  BY <1>7, TwinPlay
<1> HIDE DEF m, n
<1>10. Twin(x, y, j) /\ x.orders = y.orders
  BY <1>1, <1>9 DEF Twin, Shape
<1>11. x.coin = y.coin /\ x.height = y.height /\ (y.stale => x.stale)
  BY <1>2, <1>3, <1>4
<1>12. \E i \in Nat : Twin(x, y, i) /\ (~x.stale => i = 0)
  BY <1>7, <1>8, <1>10
<1> QED BY <1>10, <1>11, <1>12 DEF Close, x, y

LEMMA EventClose ==
  ASSUME NEW b, IsBook(b), NEW c, IsBook(c), Close(b, c), NEW d, d.kind \in Kinds
  PROVE  Close(Apply(b, d), Apply(c, d))
<1> DEFINE x == Apply(b, d)
           y == Apply(c, d)
<1>1. /\ x.coin = b.coin /\ x.height = b.height /\ x.stale = b.stale
      /\ y.coin = c.coin /\ y.height = c.height /\ y.stale = c.stale
  BY ApplyFine DEF Keeps
<1>2. PICK k \in Nat : Twin(b, c, k) /\ (~b.stale => k = 0)
  BY DEF Close
<1>3. Twin(x, y, k)
  BY <1>2, TwinApply
<1> HIDE DEF x, y
<1>4. x.orders = y.orders /\ x.coin = y.coin
  BY <1>3 DEF Twin
<1>5. \E i \in Nat : Twin(x, y, i) /\ (~x.stale => i = 0)
  BY <1>1, <1>2, <1>3
<1> QED BY <1>1, <1>4, <1>5 DEF Close, x, y

\* A book without a coin has seen nothing but blocks without diffs.
Blank(b) == b.coin = NoCoin => b.orders = <<>> /\ (~b.stale => b.anomaly_count = 0)

Mirrors(f, r) ==
    /\ DOMAIN r = {"book", "blocks", "diffs", "others", "skips"}
    /\ r.skips = f.skips /\ f.skips \in Nat /\ ~f.failed /\ f.strict = FALSE
    /\ IsBook(r.book) /\ Blank(r.book)
    /\ source = "events" => r.book.height = None
    /\ r.book.coin = NoCoin => DOMAIN f.books = {}
    /\ r.book.coin \in Tracked => r.book.coin \in DOMAIN f.books /\ Close(r.book, f.books[r.book.coin])

\* The book once it has a name.
NamedBook(b, diffs) == IF b.coin = NoCoin /\ diffs # <<>> THEN [b EXCEPT !.coin = diffs[1].coin] ELSE b

\* The book after an item.
BookAfter(b, item) ==
    LET diffs == CASE item.kind = "event" -> <<item.diff>>
                   [] item.kind = "block" -> item.diffs
                   [] OTHER               -> <<>>
        named == NamedBook(b, diffs)
        kept  == OfCoin(diffs, named.coin)
    IN  IF item.kind = "block" THEN ApplyBlock(named, [height |-> item.height, diffs |-> kept])
        ELSE Fold(Apply, named, kept)

LEMMA ReportedItem ==
  ASSUME NEW r, DOMAIN r = {"book", "blocks", "diffs", "others", "skips"}, NEW item
  PROVE  /\ DOMAIN ReportItem(r, item) = {"book", "blocks", "diffs", "others", "skips"}
         /\ ReportItem(r, item).skips = r.skips
         /\ ReportItem(r, item).book = IF item = Nothing THEN r.book ELSE BookAfter(r.book, item)
<1> DEFINE diffs == CASE item.kind = "event" -> <<item.diff>>
                      [] item.kind = "block" -> item.diffs
                      [] OTHER               -> <<>>
           m == Named(r, diffs)
           kept == OfCoin(diffs, m.book.coin)
           book == IF item.kind = "block" THEN ApplyBlock(m.book, [height |-> item.height, diffs |-> kept])
                   ELSE Fold(Apply, m.book, kept)
           blocks == m.blocks + IF item.kind = "block" THEN 1 ELSE 0
           ours == m.diffs + Len(kept)
           others == m.others + Len(diffs) - Len(kept)
<1>1. CASE item = Nothing
  BY <1>1 DEF ReportItem
<1>2. CASE item # Nothing
  <2>1. ReportItem(r, item) = [m EXCEPT !.book = book, !.diffs = ours, !.others = others, !.blocks = blocks]
    BY <1>2 DEF ReportItem
  <2> HIDE DEF diffs
  <2>2. DOMAIN m = DOMAIN r /\ m.skips = r.skips /\ m.book = NamedBook(r.book, diffs)
    BY DEF Named, NamedBook
  <2>3. book = BookAfter(r.book, item)
    BY <2>2 DEF BookAfter, diffs
  <2> HIDE DEF m, book, blocks, ours, others
  <2> QED BY <1>2, <2>1, <2>2, <2>3
<1> QED BY <1>1, <1>2

\* What the book of a report is after a line, next to the books of the feed.
Mirrored(b, books) ==
    /\ IsBook(b) /\ Blank(b)
    /\ b.coin = NoCoin => DOMAIN books = {}
    /\ b.coin \in Tracked => b.coin \in DOMAIN books /\ Close(b, books[b.coin])

LEMMA NamedFine ==
  ASSUME NEW b, IsBook(b), NEW diffs, IsList(diffs), \A d \in Range(diffs) : d.coin \in Coins
  PROVE  LET n == NamedBook(b, diffs)
         IN  /\ IsBook(n) /\ n.orders = b.orders /\ n.height = b.height /\ n.stale = b.stale
             /\ n.anomaly_count = b.anomaly_count
             /\ b.coin # NoCoin => n = b
             /\ n.coin = NoCoin => n = b /\ diffs = <<>>
             /\ b.coin = NoCoin /\ n.coin # NoCoin => diffs[1] \in Range(diffs) /\ n.coin = diffs[1].coin
<1> DEFINE n == NamedBook(b, diffs)
<1>1. CASE b.coin = NoCoin /\ diffs # <<>>
  <2>1. n = [b EXCEPT !.coin = diffs[1].coin]
    BY <1>1 DEF NamedBook
  <2>2. diffs[1] \in Range(diffs)
    <3>1. Len(diffs) # 0
      <4>1. Len(<<>>) = 0
        OBVIOUS
      <4> QED BY <1>1, <4>1, EmptyList, ListEqual
    <3>2. Len(diffs) \in Nat /\ DOMAIN diffs = 1 .. Len(diffs) /\ \A i \in DOMAIN diffs : diffs[i] \in Range(diffs)
      BY ListDomain
    <3>3. 1 \in DOMAIN diffs
      BY <3>1, <3>2
    <3> QED BY <3>2, <3>3
  <2> HIDE DEF n
  <2>3. n.coin = diffs[1].coin /\ n.coin # NoCoin
    BY <2>1, <2>2, FeedConstants DEF IsBook
  <2>4. /\ IsBook(n) /\ n.orders = b.orders /\ n.height = b.height /\ n.stale = b.stale
        /\ n.anomaly_count = b.anomaly_count
    BY <2>1 DEF IsBook
  <2> QED BY <1>1, <2>2, <2>3, <2>4 DEF n
<1>2. CASE ~(b.coin = NoCoin /\ diffs # <<>>)
  <2>1. n = b
    BY <1>2 DEF NamedBook
  <2> QED BY <1>2, <2>1
<1> QED BY <1>1, <1>2

LEMMA MirrorBlock ==
  ASSUME NEW ch, ChainFine(ch), NEW f, BooksFine(ch, f.books), NEW b, Mirrored(b, f.books),
         NEW h \in DOMAIN ch, NEW item, item.kind = "block", item.height = h, IsList(item.diffs),
         Range(item.diffs) \subseteq Range(ch[h].diffs)
  PROVE  Mirrored(BookAfter(b, item), BooksAfterBlock(f, item))
<1> DEFINE diffs == item.diffs
           n == NamedBook(b, diffs)
           c == n.coin
           kept == OfCoin(diffs, c)
           x == ApplyBlock(n, [height |-> h, diffs |-> kept])
           books == BooksAfterBlock(f, item)
<1>1. BookAfter(b, item) = x
  BY DEF BookAfter
<1>2. /\ DOMAIN books = DOMAIN f.books \cup {k \in Tracked : \E d \in Range(diffs) : d.coin = k}
      /\ \A k \in DOMAIN books :
            books[k] = ApplyBlock(BookOf(f, k), [height |-> h, diffs |-> OfCoin(diffs, k)])
  BY BlockBooks
<1>3. IsList(diffs) /\ \A d \in Range(diffs) : d.kind \in Kinds /\ d.coin \in Coins
  BY DEF ChainFine, History, Sound, Kinds
<1>4. IsBook(b)
  BY DEF Mirrored
<1> HIDE DEF books, x, diffs
<1>5. /\ IsBook(n) /\ n.orders = b.orders /\ n.height = b.height /\ n.stale = b.stale
      /\ n.anomaly_count = b.anomaly_count
      /\ b.coin # NoCoin => n = b
      /\ c = NoCoin => n = b /\ diffs = <<>>
      /\ b.coin = NoCoin /\ c # NoCoin => diffs[1] \in Range(diffs) /\ c = diffs[1].coin
  BY <1>3, <1>4, NamedFine
<1> HIDE DEF n
<1>6. IsList(kept) /\ \A d \in Range(kept) : d.kind \in Kinds
  <2>1. IsList(kept) /\ Range(kept) = {d \in Range(diffs) : d.coin = c}
    BY <1>3, OfCoinFine
  <2> QED BY <1>3, <2>1
<1>7. IsBook(x) /\ x.coin = c
  <2> HIDE DEF kept
  <2> QED BY <1>5, <1>6, ApplyBlockFine DEF x
<1>8. CASE c = NoCoin
  <2>1. n = b /\ diffs = <<>> /\ b.orders = <<>> /\ (~b.stale => b.anomaly_count = 0) /\ DOMAIN f.books = {}
    BY <1>5, <1>8 DEF Mirrored, Blank
  <2>2. kept = <<>>
    <3>1. OfCoin(<<>>, c) = <<>>
      <4>1. \A S : Among(<<>>, S) = <<>>
        BY AmongEmpty
      <4> QED BY <4>1 DEF OfCoin, Only
    <3> QED BY <2>1, <3>1
  <2> DEFINE gap == b.height # None /\ h # b.height + 1
  <2>3. x = [(IF gap THEN [Anomaly(b) EXCEPT !.stale = TRUE] ELSE b) EXCEPT !.height = h]
    <3>1. \A y : Fold(Apply, y, <<>>) = y
      BY PlayEmpty
    <3> HIDE DEF kept
    <3>2. x = ApplyBlock(b, [height |-> h, diffs |-> <<>>])
      BY <2>1, <2>2 DEF x
    <3> DEFINE begun == IF gap THEN [Anomaly(b) EXCEPT !.stale = TRUE] ELSE b
    <3>3. x = [Fold(Apply, begun, <<>>) EXCEPT !.height = h]
      BY <3>2 DEF ApplyBlock
    <3> HIDE DEF begun
    <3>4. x = [begun EXCEPT !.height = h]
      BY <3>1, <3>3
    <3> QED BY <3>4 DEF begun
  <2> HIDE DEF gap, kept
  <2>4. x.orders = <<>> /\ (~x.stale => x.anomaly_count = 0)
    <3>1. CASE gap
      BY <1>4, <2>1, <2>3, <3>1 DEF Anomaly, IsBook
    <3>2. CASE ~gap
      BY <1>4, <2>1, <2>3, <3>2 DEF IsBook
    <3> QED BY <3>1, <3>2
  <2>5. DOMAIN books = {}
    BY <1>2, <2>1, EmptyList DEF Range
  <2>6. c \notin Tracked
    BY <1>8, FeedConstants
  <2> QED BY <1>1, <1>7, <2>4, <2>5, <2>6 DEF Mirrored, Blank, books
<1>9. CASE c # NoCoin /\ c \notin Tracked
  BY <1>1, <1>7, <1>9 DEF Mirrored, Blank, books
<1>10. CASE c # NoCoin /\ c \in Tracked
  <2> DEFINE y == BookOf(f, c)
  <2>1. c \in DOMAIN books /\ IsBook(y) /\ (y.stale => n.stale) /\ y.height \in {n.height, None}
        /\ \E k \in Nat : Twin(n, y, k) /\ (~n.stale => k = 0)
    <3>1. CASE b.coin = NoCoin
      <4>1. DOMAIN f.books = {} /\ b.orders = <<>> /\ (~b.stale => b.anomaly_count = 0)
        BY <3>1 DEF Mirrored, Blank
      <4>2. y = EmptyBook(c)
        BY <4>1 DEF BookOf
      <4>3. c \in DOMAIN books
        BY <1>2, <1>5, <1>10, <3>1
      <4> HIDE DEF y, c
      <4>4. /\ IsBook(y) /\ y.coin = c /\ y.height = None /\ y.stale = FALSE /\ y.anomaly_count = 0
            /\ y.orders = <<>>
        BY <4>2, EmptyBookFine
      <4> DEFINE k == n.anomaly_count
      <4>5. k \in Nat /\ n.orders = <<>> /\ (~n.stale => k = 0)
        BY <1>5, <4>1 DEF IsBook
      <4>6. Twin(n, y, k)
        <5>1. Shape(n) /\ Shape(y)
          BY <1>5, <4>4, BookShape
        <5>2. n.coin = y.coin
          BY <4>4 DEF c
        <5> QED BY <4>4, <4>5, <5>1, <5>2 DEF Twin
      <4> HIDE DEF k
      <4> QED BY <4>3, <4>4, <4>5, <4>6
    <3>2. CASE b.coin # NoCoin
      <4>1. n = b
        BY <1>5, <3>2
      <4>2. b.coin \in DOMAIN f.books /\ Close(b, f.books[b.coin]) /\ b.coin = c
        BY <1>10, <4>1 DEF Mirrored
      <4>3. y = f.books[c] /\ c \in DOMAIN books
        BY <1>2, <4>2 DEF BookOf
      <4>4. IsBook(y)
        BY <4>2, <4>3 DEF BooksFine
      <4> HIDE DEF y, c
      <4>5. Close(n, y)
        BY <4>1, <4>2, <4>3
      <4> QED BY <4>3, <4>4, <4>5 DEF Close
    <3> QED BY <3>1, <3>2
  <2>2. PICK k \in Nat : Twin(n, y, k) /\ (~n.stale => k = 0)
    BY <2>1
  <2> DEFINE z == ApplyBlock(y, [height |-> h, diffs |-> kept])
  <2>3. books[c] = z
    BY <1>2, <2>1
  <2> HIDE DEF y, kept, c
  <2>4. Close(x, z)
    BY <1>5, <1>6, <2>1, <2>2, BlockClose DEF x
  <2> QED BY <1>1, <1>7, <1>10, <2>1, <2>3, <2>4 DEF Mirrored, Blank, books
<1> QED BY <1>8, <1>9, <1>10

LEMMA MirrorEvent ==
  ASSUME NEW ch, NEW f, BooksFine(ch, f.books), NEW b, Mirrored(b, f.books), b.height = None,
         NEW d, d.kind \in Kinds, d.coin \in Coins
  PROVE  LET x == BookAfter(b, [kind |-> "event", diff |-> d])
         IN  Mirrored(x, BooksAfterEvent(f, d)) /\ x.height = None
<1> DEFINE diffs == <<d>>
           n == NamedBook(b, diffs)
           c == n.coin
           kept == OfCoin(diffs, c)
           x == BookAfter(b, [kind |-> "event", diff |-> d])
           books == BooksAfterEvent(f, d)
<1>1. x = Fold(Apply, n, kept)
  BY DEF BookAfter
<1>2. IsList(diffs) /\ Range(diffs) = {d} /\ diffs[1] = d /\ diffs # <<>>
  BY DEF IsList, Range
<1>3. IsBook(b)
  BY DEF Mirrored
<1> HIDE DEF x, books, diffs
<1>4. /\ IsBook(n) /\ n.orders = b.orders /\ n.height = b.height /\ n.stale = b.stale
      /\ n.anomaly_count = b.anomaly_count
      /\ b.coin # NoCoin => n = b
      /\ c # NoCoin
      /\ b.coin = NoCoin => c = d.coin
  <2>1. /\ IsBook(n) /\ n.orders = b.orders /\ n.height = b.height /\ n.stale = b.stale
        /\ n.anomaly_count = b.anomaly_count
        /\ b.coin # NoCoin => n = b
        /\ c = NoCoin => n = b /\ diffs = <<>>
        /\ b.coin = NoCoin /\ c # NoCoin => diffs[1] \in Range(diffs) /\ c = diffs[1].coin
    BY <1>2, <1>3, NamedFine
  <2> QED BY <1>2, <2>1
<1> HIDE DEF n
<1>5. x = IF d.coin = c THEN Apply(n, d) ELSE n
  <2> DEFINE S == {e \in Range(diffs) : e.coin = c}
  <2>1. kept = Among(diffs, S)
    BY DEF OfCoin, Only
  <2>2. d \in S <=> d.coin = c
    BY <1>2
  <2> HIDE DEF S
  <2>3. /\ Among(<<d>>, S) = IF d \in S THEN <<d>> ELSE <<>>
        /\ Fold(Apply, n, <<d>>) = Apply(n, d)
    BY OneElement
  <2>4. kept = IF d.coin = c THEN <<d>> ELSE <<>>
    BY <2>1, <2>2, <2>3 DEF diffs
  <2>5. Fold(Apply, n, <<>>) = n
    BY PlayEmpty
  <2> HIDE DEF kept, c
  <2> QED BY <1>1, <2>3, <2>4, <2>5
<1>6. IsBook(x) /\ x.coin = c /\ x.height = None
  <2>1. Keeps(n, Apply(n, d))
    BY <1>4, ApplyFine
  <2> QED BY <1>4, <1>5, <2>1 DEF Keeps
<1>7. ASSUME c \in Tracked PROVE c \in DOMAIN books /\ Close(x, books[c])
  <2> DEFINE y == BookOf(f, c)
  <2>1. CASE d.coin = c
    <3>1. books = With(f.books, c, Apply(y, d))
      BY <1>7, <2>1 DEF BooksAfterEvent, books
    <3>2. c \in DOMAIN books /\ books[c] = Apply(y, d)
      BY <3>1 DEF With
    <3>3. IsBook(y) /\ Close(n, y)
      <4>1. CASE b.coin = NoCoin
        <5>1. DOMAIN f.books = {} /\ b.orders = <<>> /\ (~b.stale => b.anomaly_count = 0)
          BY <4>1 DEF Mirrored, Blank
        <5>2. y = EmptyBook(c)
          BY <5>1 DEF BookOf
        <5> HIDE DEF y
        <5>3. /\ IsBook(y) /\ y.coin = c /\ y.height = None /\ y.stale = FALSE /\ y.anomaly_count = 0
              /\ y.orders = <<>>
          BY <5>2, EmptyBookFine
        <5> DEFINE k == n.anomaly_count
        <5>4. k \in Nat /\ n.orders = <<>> /\ (~n.stale => k = 0) /\ n.height = None
          BY <1>4, <5>1 DEF IsBook
        <5>5. Shape(n) /\ Shape(y) /\ n.coin = y.coin
          BY <1>4, <5>3, BookShape
        <5>6. Twin(n, y, k)
          BY <5>3, <5>4, <5>5 DEF Twin
        <5> HIDE DEF k
        <5> QED BY <5>3, <5>4, <5>5, <5>6 DEF Close
      <4>2. CASE b.coin # NoCoin
        <5>1. n = b /\ c = b.coin
          BY <1>4, <4>2
        <5>2. c \in DOMAIN f.books /\ Close(b, f.books[c])
          BY <1>7, <5>1 DEF Mirrored
        <5>3. y = f.books[c] /\ IsBook(y)
          BY <5>2 DEF BookOf, BooksFine
        <5> HIDE DEF y, c
        <5> QED BY <5>1, <5>2, <5>3
      <4> QED BY <4>1, <4>2
    <3> HIDE DEF y, c
    <3>4. Close(Apply(n, d), Apply(y, d))
      BY <1>4, <3>3, EventClose
    <3> QED BY <1>5, <2>1, <3>2, <3>4
  <2>2. CASE d.coin # c
    <3>1. n = b /\ c = b.coin /\ x = n
      BY <1>4, <1>5, <2>2
    <3>2. c \in DOMAIN f.books /\ Close(b, f.books[c])
      BY <1>7, <3>1 DEF Mirrored
    <3>3. c \in DOMAIN books /\ books[c] = f.books[c]
      BY <2>2, <3>2 DEF BooksAfterEvent, With, books
    <3> HIDE DEF c
    <3> QED BY <3>1, <3>2, <3>3
  <2> QED BY <2>1, <2>2
<1>8. Mirrored(x, books)
  BY <1>4, <1>6, <1>7 DEF Mirrored, Blank
<1> QED BY <1>6, <1>8 DEF x, books

\* A line of the files does the same to both.
LEMMA MirrorLine ==
  ASSUME NEW ch, ChainFine(ch), source = "events" => OneEach(ch), NEW f, FeedFine(ch, f),
         NEW r, Mirrors(f, r), NEW line, LineDocument(line) \in Docs(ch)
  PROVE  Mirrors(TakeLine(f, line), ReportLine(r, line))
<1> DEFINE doc == LineDocument(line)
           item == ParseLine(doc, FALSE)
           skips == SkipsOf(doc)
           n == TakeLine(f, line)
           i == ReportItem(r, item)
           p == ReportLine(r, line)
<1>1. FeedFields(f) /\ BooksFine(ch, f.books) /\ f.strict = FALSE /\ ~f.failed
  BY DEF FeedFine, Mirrors
<1>2. Parsed(ch, doc, item, skips, FALSE) /\ Taken(ch, f, n, doc, item, skips)
  <2>1. /\ Parsed(ch, doc, ParseLine(doc, f.strict), skips, f.strict)
        /\ Taken(ch, f, n, doc, ParseLine(doc, f.strict), skips)
    BY <1>1, LineTaken
  <2> HIDE DEF doc, skips, n
  <2> QED BY <1>1, <2>1
<1>3. p = [i EXCEPT !.skips = @ + skips]
  BY DEF ReportLine
<1> HIDE DEF doc, item, skips, n, p
<1>4. /\ DOMAIN r = {"book", "blocks", "diffs", "others", "skips"}
      /\ r.skips = f.skips /\ f.skips \in Nat
      /\ Mirrored(r.book, f.books) /\ (source = "events" => r.book.height = None)
  BY DEF Mirrors, Mirrored
<1>5. /\ DOMAIN i = {"book", "blocks", "diffs", "others", "skips"} /\ i.skips = r.skips
      /\ i.book = IF item = Nothing THEN r.book ELSE BookAfter(r.book, item)
  BY <1>4, ReportedItem
<1> HIDE DEF i
<1>6. /\ DOMAIN p = {"book", "blocks", "diffs", "others", "skips"} /\ p.skips = f.skips + skips
      /\ p.book = IF item = Nothing THEN r.book ELSE BookAfter(r.book, item)
  BY <1>3, <1>4, <1>5
<1>7. skips \in Nat
  BY <1>2 DEF Parsed
<1>8. ASSUME n.skips = f.skips + skips, n.failed = FALSE, n.strict = FALSE,
             Mirrored(p.book, n.books), source = "events" => p.book.height = None
      PROVE  Mirrors(n, p)
  <2>1. n.skips \in Nat
    BY <1>4, <1>7, <1>8
  <2> QED BY <1>6, <1>8, <2>1 DEF Mirrors, Mirrored
<1>9. ASSUME item = Nothing, n = [f EXCEPT !.skips = @ + skips, !.dropped = @ \cup Coins]
      PROVE  Mirrors(n, p)
  <2>1. /\ n.skips = f.skips + skips /\ n.failed = f.failed /\ n.strict = f.strict
        /\ n.books = f.books
    BY <1>1, <1>9 DEF FeedFields
  <2>2. p.book = r.book
    BY <1>6, <1>9
  <2>3. n.failed = FALSE
    BY <1>1, <2>1 DEF FeedFields
  <2> QED BY <1>1, <1>4, <1>8, <2>1, <2>2, <2>3
<1>10. ASSUME source # "events", NEW h \in DOMAIN ch, ParsedBlock(item, skips, h, ch[h].diffs),
              Advanced(f, n, h, skips), n.books = BooksAfterBlock(f, item)
       PROVE  Mirrors(n, p)
  <2>1. /\ item.kind = "block" /\ item.height = h /\ IsList(item.diffs)
        /\ Range(item.diffs) \subseteq Range(ch[h].diffs)
    BY <1>10 DEF ParsedBlock
  <2>2. item # Nothing
    BY <2>1 DEF Nothing
  <2>3. Mirrored(BookAfter(r.book, item), BooksAfterBlock(f, item))
    BY <1>1, <1>4, <2>1, MirrorBlock
  <2>4. p.book = BookAfter(r.book, item)
    BY <1>6, <2>2
  <2>5. n.skips = f.skips + skips /\ n.failed = FALSE /\ n.strict = FALSE
    BY <1>1, <1>10 DEF Advanced
  <2> QED BY <1>8, <1>10, <2>3, <2>4, <2>5
<1>11. ASSUME source = "events", NEW h \in DOMAIN ch, item = [kind |-> "event", diff |-> ch[h].diffs[1]],
              Advanced(f, n, h, skips), n.books = BooksAfterEvent(f, ch[h].diffs[1])
       PROVE  Mirrors(n, p)
  <2> DEFINE d == ch[h].diffs[1]
  <2>1. d.kind \in Kinds /\ d.coin \in Coins
    <3>1. IsList(ch[h].diffs) /\ Len(ch[h].diffs) = 1
      BY <1>11 DEF ChainFine, History, OneEach
    <3>2. d \in Range(ch[h].diffs)
      <4> DEFINE s == ch[h].diffs
      <4>1. DOMAIN s = 1 .. 1 /\ \A k \in DOMAIN s : s[k] \in Range(s)
        <5> HIDE DEF s
        <5> QED BY <3>1, ListDomain DEF s
      <4> QED BY <4>1
    <3> QED BY <3>2 DEF ChainFine, History, Sound, Kinds
  <2>2. item # Nothing
    BY <1>11 DEF Nothing
  <2>3. p.book = BookAfter(r.book, [kind |-> "event", diff |-> d])
    BY <1>6, <1>11, <2>2
  <2>4. n.skips = f.skips + skips /\ n.failed = FALSE /\ n.strict = FALSE
    BY <1>1, <1>11 DEF Advanced
  <2>5. n.books = BooksAfterEvent(f, d)
    BY <1>11
  <2> HIDE DEF d
  <2>6. LET x == BookAfter(r.book, [kind |-> "event", diff |-> d])
        IN  Mirrored(x, BooksAfterEvent(f, d)) /\ x.height = None
    BY <1>1, <1>4, <1>11, <2>1, MirrorEvent
  <2> QED BY <1>8, <2>3, <2>4, <2>5, <2>6
<1>12. item # Raised
  BY <1>2 DEF Parsed, ParsedBlock, Raised, Nothing
<1>13. Mirrors(n, p)
  BY <1>1, <1>2, <1>9, <1>10, <1>11, <1>12 DEF Taken
<1> QED BY <1>13 DEF n, p

ReportOp(c, r, line) == ReportLine(r, line)
Reporter == INSTANCE Folding WITH Op <- ReportOp, Good <- NoMatter

LEMMA ReportFolds == \A c, b, lines : Reporter!Folded(c, NewReport(b), lines) = Report(b, lines)
BY DEF Reporter!Folded, Reporter!Fold, Report, Fold, ReportOp

LEMMA ReportNothing == \A b : Report(b, <<>>) = NewReport(b)
BY ReportFolds, Reporter!FoldEmpty

LEMMA ReportMore ==
  ASSUME NEW T, NEW lines \in Seq(T), NEW line \in T, NEW b
  PROVE  Report(b, Append(lines, line)) = ReportLine(Report(b, lines), line)
<1> DEFINE r == NewReport(b)
<1>1. /\ Reporter!Folded(0, r, Append(lines, line)) = Report(b, Append(lines, line))
      /\ Reporter!Folded(0, r, lines) = Report(b, lines)
  BY ReportFolds
<1> HIDE DEF r
<1>2. Reporter!Folded(0, r, Append(lines, line)) = ReportOp(0, Reporter!Folded(0, r, lines), line)
  BY Reporter!FoldAppend
<1> QED BY <1>1, <1>2 DEF ReportOp

\* A report of a tolerant feed's lines mirrors the feed.
LEMMA MirrorLines ==
  ASSUME NEW ch, ChainFine(ch), source = "events" => OneEach(ch),
         NEW lines, IsList(lines), Documented(ch, lines)
  PROVE  Mirrors(Consume(NewFeed(FALSE), lines), Report(EmptyBook(NoCoin), lines))
<1> DEFINE g == NewFeed(FALSE)
           b == EmptyBook(NoCoin)
           T == Range(lines)
           P == {s \in Seq(T) : FeedFine(ch, Consume(g, s)) /\ Mirrors(Consume(g, s), Report(b, s))}
<1>1. FeedFine(ch, g) /\ Mirrors(g, NewReport(b))
  <2>1. FALSE \in BOOLEAN
    OBVIOUS
  <2>2. /\ FeedFine(ch, g) /\ DOMAIN g.books = {} /\ g.strict = FALSE /\ g.failed = FALSE /\ g.skips = 0
    BY <2>1, NewFeedFine
  <2>3. /\ IsBook(b) /\ b.coin = NoCoin /\ b.height = None /\ b.stale = FALSE /\ b.anomaly_count = 0
        /\ b.orders = <<>>
    BY EmptyBookFine
  <2> HIDE DEF g, b
  <2>4. /\ DOMAIN NewReport(b) = {"book", "blocks", "diffs", "others", "skips"}
        /\ NewReport(b).book = b /\ NewReport(b).skips = 0
    BY DEF NewReport
  <2>5. NoCoin \notin Tracked
    BY FeedConstants
  <2>6. Mirrors(g, NewReport(b))
    BY <2>2, <2>3, <2>4, <2>5 DEF Mirrors, Blank
  <2> QED BY <2>2, <2>6
<1> HIDE DEF g, b
<1>2. <<>> \in P
  BY <1>1, ConsumeNothing, ReportNothing
<1>3. \A s \in Seq(T), x \in T : s \in P => Append(s, x) \in P
  <2> SUFFICES ASSUME NEW s \in Seq(T), NEW x \in T, s \in P
               PROVE  /\ FeedFine(ch, Consume(g, Append(s, x)))
                      /\ Mirrors(Consume(g, Append(s, x)), Report(b, Append(s, x)))
    OBVIOUS
  <2> DEFINE f == Consume(g, s)
             r == Report(b, s)
  <2>1. FeedFine(ch, f) /\ Mirrors(f, r)
    OBVIOUS
  <2>2. Consume(g, Append(s, x)) = TakeLine(f, x) /\ Report(b, Append(s, x)) = ReportLine(r, x)
    BY ConsumeMore, ReportMore
  <2>3. LineDocument(x) \in Docs(ch)
    BY DEF Documented
  <2> HIDE DEF f, r
  <2>4. FeedFine(ch, TakeLine(f, x)) /\ Mirrors(TakeLine(f, x), ReportLine(r, x))
    BY <2>1, <2>3, TakeLineFine, MirrorLine
  <2> QED BY <2>2, <2>4
<1>4. Seq(T) \subseteq P
  <2> HIDE DEF P, T
  <2> QED BY <1>2, <1>3, Reporter!SequenceInduction
<1> QED BY <1>4 DEF IsList, g, b

LEMMA ReadsDocumented ==
  ASSUME NEW ch, NEW fs, NEW h, NEW w, NodeFine(ch, fs, h, w), NEW at \in DOMAIN fs, NEW from \in 1 .. at,
         NEW pos \in 0 .. Len(fs[at])
  PROVE  IsList(LinesRead(fs, from, at, pos)) /\ Documented(ch, LinesRead(fs, from, at, pos))
<1> DEFINE lines == LinesRead(fs, from, at, pos)
<1>1. FilesFine(fs) /\ \A i \in DOMAIN fs : \A x \in Range(fs[i]) : x.document \in Docs(ch)
  BY DEF NodeFine
<1>2. IsList(lines) /\ \A line \in Range(lines) :
         IsList(line) /\ \E i \in DOMAIN fs : Range(line) \subseteq Range(fs[i])
  BY <1>1, LinesReadFine
<1> HIDE DEF lines
<1>3. ASSUME NEW line \in Range(lines) PROVE LineDocument(line) \in Docs(ch)
  <2>1. CASE Len(line) = 2
    <3>1. line[1] \in Range(line)
      <4>1. IsList(line)
        BY <1>2
      <4> QED BY <2>1, <4>1, ListDomain
    <3>2. line[1].document \in Docs(ch)
      BY <1>1, <1>2, <3>1
    <3> QED BY <3>2 DEF LineDocument, Docs
  <2>2. CASE Len(line) # 2
    BY <2>2 DEF LineDocument, Docs
  <2> QED BY <2>1, <2>2
<1> QED BY <1>2, <1>3 DEF Documented, lines

LEMMA MirrorAgrees ==
  ASSUME NEW report, Mirrors(feed, report)
  PROVE  ReportAgrees(report)
<1>1. report.skips = feed.skips
  BY DEF Mirrors
<1>2. ASSUME report.book.coin \in Tracked
      PROVE  LET book == feed.books[report.book.coin]
             IN  /\ report.book.coin \in DOMAIN feed.books
                 /\ report.book.orders = book.orders
                 /\ report.book.height = book.height
                 /\ book.stale => report.book.stale
                 /\ report.book.anomaly_count >= book.anomaly_count
                 /\ ~report.book.stale => report.book.anomaly_count = book.anomaly_count
  <2> DEFINE a == report.book
             b == feed.books[report.book.coin]
  <2>1. a.coin \in DOMAIN feed.books /\ Close(a, b)
    BY <1>2 DEF Mirrors
  <2> HIDE DEF a, b
  <2>2. a.orders = b.orders /\ a.height = b.height /\ (b.stale => a.stale)
    BY <2>1 DEF Close
  <2>3. PICK k \in Nat : Twin(a, b, k) /\ (~a.stale => k = 0)
    BY <2>1 DEF Close
  <2>4. b.anomaly_count \in Nat /\ a.anomaly_count = b.anomaly_count + k
    BY <2>3 DEF Twin, Shape
  <2>5. a.anomaly_count >= b.anomaly_count
    BY <2>4
  <2>6. ASSUME ~a.stale PROVE a.anomaly_count = b.anomaly_count
    BY <2>3, <2>4, <2>6
  <2> QED BY <2>1, <2>2, <2>5, <2>6 DEF a, b
<1> QED BY <1>1, <1>2 DEF ReportAgrees

\* Tailing is replaying: however the node's writes were cut into chunks and wherever the hours
\* turned, tail() has made of the files it opened what replay_files() makes of them, and the
\* one book of replay() agrees with the feed's of that coin.
THEOREM TailReplays == Spec => []TailIsReplay
<1>1. FeedsInv => TailIsReplay
  <2> SUFFICES ASSUME FeedsInv, source # "quicknode", first # 0, ~jumped
               PROVE  /\ feed = Replayed
                      /\ ~feed.strict => ReportAgrees(Report(EmptyBook(NoCoin), ReadLines))
    BY DEF TailIsReplay
  <2> DEFINE lines == LinesRead(files, first, cursor.file, cursor.pos)
  <2>1. ChainInv /\ NodeInv /\ CursorInv /\ FeedInv
    BY DEF FeedsInv
  <2>2. ReadLines = lines
    BY DEF ReadLines, LinesRead, Joined
  <2>3. feed = Consume(NewFeed(feed.strict), lines)
    BY <2>1 DEF FeedInv
  <2>4. cursor.file \in DOMAIN files /\ first \in 1 .. cursor.file /\ cursor.pos \in 0 .. Len(files[cursor.file])
    <3> DEFINE n == Len(files)
               at == cursor.file
    <3>1. at \in 0 .. n /\ at # 0 /\ cursor.pos \in 0 .. Len(files[at]) /\ first \in 0 .. at
      BY <2>1 DEF CursorInv
    <3>2. n \in Nat /\ DOMAIN files = 1 .. n
      BY <2>1, ListDomain DEF NodeInv, NodeFine, FilesFine
    <3> HIDE DEF n, at
    <3>3. at \in 1 .. n /\ first \in 1 .. at
      BY <3>1, <3>2
    <3> QED BY <3>1, <3>2, <3>3 DEF at
  <2>5. IsList(lines) /\ Documented(chain, lines)
    BY <2>1, <2>4, ReadsDocumented DEF NodeInv
  <2> HIDE DEF lines
  <2>6. ASSUME ~feed.strict PROVE ReportAgrees(Report(EmptyBook(NoCoin), lines))
    <3>1. feed.strict = FALSE
      BY <2>1, <2>6 DEF FeedInv, FeedFine, FeedFields
    <3>2. feed = Consume(NewFeed(FALSE), lines)
      BY <2>3, <3>1
    <3>3. Mirrors(Consume(NewFeed(FALSE), lines), Report(EmptyBook(NoCoin), lines))
      BY <2>1, <2>5, MirrorLines DEF ChainInv
    <3>4. Mirrors(feed, Report(EmptyBook(NoCoin), lines))
      BY <3>2, <3>3, Zenon
    <3> QED BY <3>4, MirrorAgrees
  <2> QED BY <2>2, <2>3, <2>6 DEF Replayed
<1> QED BY <1>1, FeedsHold, PTL
=============================================================================
