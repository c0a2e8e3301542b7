--------------------------- MODULE RawSpoolProofs ---------------------------
(***************************************************************************)
(* What TLAPS proves of the frame archive, for every number of hours and   *)
(* frames, every batch length and queue limit: writes may stop within a    *)
(* line, opens and uploads may fail, close() may be cancelled and the      *)
(* process killed at any point.                                            *)
(***************************************************************************)
EXTENDS RawSpool, SequenceTheorems, FiniteSetTheorems, WellFoundedInduction, TLAPS

-----------------------------------------------------------------------------
(* Sequences of frames.                                                    *)

\* The frames of s were offered in the order in which they stand.
Ordered(s) == \A i, j \in DOMAIN s : i < j => s[i].id < s[j].id

\* Every frame of S was offered before every frame of T.
Below(S, T) == \A p \in S, q \in T : p.id < q.id

\* A set of naturals has a least element.
LEMMA Least ==
    ASSUME NEW T \in SUBSET Nat, T # {}
    PROVE  \E m \in T : \A n \in T : m <= n
<1> DEFINE R == OpToRel(<, Nat)
<1>1. PICK m \in T : \A n \in T : ~(<<n, m>> \in R)
  <2>1. IsWellFoundedOn(R, Nat)
    BY NatLessThanWellFounded
  <2> HIDE DEF R
  <2> QED
    BY <2>1, WFMin
<1>2. \A n \in T : ~(n < m)
  BY <1>1 DEF OpToRel
<1> QED
  BY <1>2

\* A batch begins with a run of frames of one hour.
LEMMA Run ==
    ASSUME NEW s \in Seq(Frames), s # <<>>
    PROVE  /\ RunLength(s) \in 1 .. Len(s)
           /\ \A i \in 1 .. RunLength(s) : s[i].hour = s[1].hour
<1> DEFINE T == {n \in 1 .. Len(s) : n = Len(s) \/ s[n + 1].hour # s[1].hour}
<1>1. Len(s) \in Nat \ {0}
  BY EmptySeq
<1>2. PICK m \in T : \A n \in T : m <= n
  <2>1. Len(s) \in T /\ T \in SUBSET Nat
    BY <1>1
  <2> HIDE DEF T
  <2> QED
    BY <2>1, Least
<1>3. m \in 1 .. Len(s) /\ (m < Len(s) => s[m + 1].hour # s[1].hour)
  BY <1>1, <1>2
<1>4. \A i \in 1 .. m : s[i].hour = s[1].hour
  <2> SUFFICES ASSUME NEW i \in 1 .. m, i # 1 PROVE s[i].hour = s[1].hour
    OBVIOUS
  <2>1. i - 1 \in 1 .. Len(s) /\ i - 1 < m /\ (i - 1) + 1 = i /\ i - 1 # Len(s)
    BY <1>1, <1>3
  <2>2. i - 1 \notin T
    <3> HIDE DEF T
    <3>1. i - 1 \in T => m <= i - 1
      BY <1>2
    <3> QED
      BY <2>1, <3>1, <1>3
  <2> QED
    BY <2>1, <2>2
<1>5. \E n \in 1 .. Len(s) :
        /\ \A i \in 1 .. n : s[i].hour = s[1].hour
        /\ n < Len(s) => s[n + 1].hour # s[1].hour
  BY <1>3, <1>4
<1> QED
  BY <1>5 DEF RunLength

\* Two ordered sequences, the one before the other, are ordered together.
LEMMA OrderedConcat ==
    ASSUME NEW a \in Seq(Frames), NEW b \in Seq(Frames), Ordered(a), Ordered(b),
           Below(Range(a), Range(b))
    PROVE  Ordered(a \o b)
<1> DEFINE m == Len(a)
           n == Len(b)
           c == a \o b
<1>1. m \in Nat /\ n \in Nat /\ DOMAIN a = 1 .. m /\ DOMAIN b = 1 .. n
  BY LenProperties
<1>2. DOMAIN c = 1 .. m + n
  BY ConcatProperties, LenProperties
<1>3. \A i \in 1 .. m + n : c[i] = IF i <= m THEN a[i] ELSE b[i - m]
  BY ConcatProperties
<1>4. /\ \A i \in 1 .. m : a[i] \in Range(a)
      /\ \A i \in 1 .. n : b[i] \in Range(b)
  BY <1>1 DEF Range
<1>5. \A i, j \in 1 .. m : i < j => a[i].id < a[j].id
  BY <1>1 DEF Ordered
<1>6. \A i, j \in 1 .. n : i < j => b[i].id < b[j].id
  BY <1>1 DEF Ordered
<1> HIDE DEF m, n, c
<1>7. ASSUME NEW i \in 1 .. m + n, NEW j \in 1 .. m + n, i < j
      PROVE  c[i].id < c[j].id
  <2>1. CASE j <= m
    BY <1>1, <1>3, <1>5, <1>7, <2>1
  <2>2. CASE i > m
    <3>1. /\ i - m \in 1 .. n /\ j - m \in 1 .. n /\ i - m < j - m
          /\ c[i] = b[i - m] /\ c[j] = b[j - m]
      BY <1>1, <1>3, <1>7, <2>2
    <3> QED
      BY <3>1, <1>6
  <2>3. CASE i <= m /\ j > m
    <3>1. i \in 1 .. m /\ j - m \in 1 .. n /\ c[i] = a[i] /\ c[j] = b[j - m]
      BY <1>1, <1>3, <2>3
    <3> QED
      BY <3>1, <1>4 DEF Below
  <2> QED
    BY <1>1, <2>1, <2>2, <2>3
<1> QED
  BY <1>2, <1>7 DEF Ordered, c

\* Cutting a sequence: the two pieces, between them, are the whole.
LEMMA Cut ==
    ASSUME NEW s \in Seq(Frames), NEW n \in Nat
    PROVE  /\ Take(s, n) \in Seq(Frames) /\ Rest(s, n) \in Seq(Frames)
           /\ Range(s) = Range(Take(s, n)) \cup Range(Rest(s, n))
           /\ Len(Rest(s, n)) <= Len(s)
           /\ Ordered(s) => /\ Ordered(Take(s, n)) /\ Ordered(Rest(s, n))
                            /\ Below(Range(Take(s, n)), Range(Rest(s, n)))
           /\ s # <<>> /\ n # 0 => Take(s, n) # <<>> /\ Take(s, n)[1] = s[1]
           /\ \A i \in DOMAIN Take(s, n) : i <= n /\ i \in DOMAIN s /\ Take(s, n)[i] = s[i]
<1> DEFINE k == IF n < Len(s) THEN n ELSE Len(s)
           l == Len(s)
           t == Take(s, n)
           r == Rest(s, n)
<1>1. l \in Nat /\ DOMAIN s = 1 .. l /\ \A i \in 1 .. l : s[i] \in Frames
  BY LenProperties, ElementOfSeq
<1>2. k \in 0 .. l /\ k <= n /\ (k < l => k = n) /\ (k = l \/ k = n)
  <2> HIDE DEF l
  <2>1. CASE n < l
    <3>1. k = n
      BY <2>1 DEF l
    <3> QED
      BY <1>1, <2>1, <3>1
  <2>2. CASE ~(n < l)
    <3>1. k = l
      BY <2>2 DEF l
    <3> QED
      BY <1>1, <2>2, <3>1
  <2> QED
    BY <2>1, <2>2
<1> HIDE DEF k, l
<1>3. /\ t \in Seq(Frames) /\ Len(t) = k /\ \A i \in 1 .. k : t[i] = s[i]
  <2>1. t = SubSeq(s, 1, k)
    BY DEF Take, k
  <2>2. /\ SubSeq(s, 1, k) \in Seq(Frames)
        /\ Len(SubSeq(s, 1, k)) = IF 1 <= k THEN k - 1 + 1 ELSE 0
        /\ \A i \in 1 .. k - 1 + 1 : SubSeq(s, 1, k)[i] = s[1 + i - 1]
    <3>1. 1 \in Int /\ k \in Int /\ \A i \in 1 .. k : s[i] \in Frames
      BY <1>1, <1>2
    <3> QED
      BY <3>1, SubSeqProperties
  <2> HIDE DEF t
  <2>3. Len(t) = k
    BY <2>1, <2>2, <1>2
  <2>4. \A i \in 1 .. k : t[i] = s[i]
    BY <2>1, <2>2, <1>2
  <2> QED
    BY <2>1, <2>2, <2>3, <2>4
<1>4. /\ r \in Seq(Frames) /\ Len(r) = l - k /\ \A i \in 1 .. l - k : r[i] = s[k + i]
  <2>1. r = SubSeq(s, n + 1, l)
    BY DEF Rest, l
  <2>2. /\ SubSeq(s, n + 1, l) \in Seq(Frames)
        /\ Len(SubSeq(s, n + 1, l)) = IF n + 1 <= l THEN l - (n + 1) + 1 ELSE 0
        /\ \A i \in 1 .. l - (n + 1) + 1 : SubSeq(s, n + 1, l)[i] = s[n + 1 + i - 1]
    <3>1. n + 1 \in Int /\ l \in Int /\ \A i \in n + 1 .. l : s[i] \in Frames
      BY <1>1
    <3> QED
      BY <3>1, SubSeqProperties
  <2>3. l - k = IF n + 1 <= l THEN l - n ELSE 0
    BY <1>1, <1>2
  <2> HIDE DEF r
  <2>4. Len(r) = l - k
    BY <1>1, <2>1, <2>2, <2>3
  <2>5. ASSUME NEW i \in 1 .. l - k PROVE r[i] = s[k + i]
    <3>1. k = n /\ i \in 1 .. l - (n + 1) + 1 /\ n + 1 + i - 1 = k + i
      BY <1>1, <1>2, <2>3
    <3> QED
      BY <3>1, <2>1, <2>2
  <2> QED
    BY <2>1, <2>2, <2>4, <2>5
<1> HIDE DEF t, r
<1>5. DOMAIN t = 1 .. k /\ DOMAIN r = 1 .. l - k
  BY <1>3, <1>4, LenProperties
<1>6. Range(s) = Range(t) \cup Range(r)
  <2>1. Range(t) \subseteq Range(s) /\ Range(r) \subseteq Range(s)
    <3>1. \A i \in 1 .. k : i \in 1 .. l
      BY <1>1, <1>2
    <3>2. \A i \in 1 .. l - k : k + i \in 1 .. l
      BY <1>1, <1>2
    <3> QED
      BY <3>1, <3>2, <1>1, <1>3, <1>4, <1>5 DEF Range
  <2>2. ASSUME NEW i \in 1 .. l PROVE s[i] \in Range(t) \cup Range(r)
    <3>1. CASE i <= k
      <4>1. i \in 1 .. k
        BY <1>2, <3>1
      <4> QED
        BY <4>1, <1>3, <1>5 DEF Range
    <3>2. CASE i > k
      <4>1. i - k \in 1 .. l - k /\ k + (i - k) = i
        BY <1>1, <1>2, <3>2
      <4> QED
        BY <4>1, <1>4, <1>5 DEF Range
    <3> QED
      BY <1>2, <3>1, <3>2
  <2> QED
    BY <2>1, <2>2, <1>1 DEF Range
<1>7. ASSUME Ordered(s)
      PROVE  Ordered(t) /\ Ordered(r) /\ Below(Range(t), Range(r))
  <2>0. \A i, j \in 1 .. l : i < j => s[i].id < s[j].id
    BY <1>1, <1>7 DEF Ordered
  <2>1. \A i \in 1 .. k : i \in 1 .. l /\ t[i] = s[i]
    BY <1>1, <1>2, <1>3
  <2>2. \A i \in 1 .. l - k : k + i \in 1 .. l /\ r[i] = s[k + i]
    BY <1>1, <1>2, <1>4
  <2>3. Ordered(t)
    BY <1>5, <2>0, <2>1 DEF Ordered
  <2>4. ASSUME NEW i \in 1 .. l - k, NEW j \in 1 .. l - k, i < j PROVE r[i].id < r[j].id
    <3>1. k + i < k + j
      BY <1>1, <1>2, <2>4
    <3> QED
      BY <3>1, <2>0, <2>2
  <2>5. ASSUME NEW i \in 1 .. k, NEW j \in 1 .. l - k PROVE t[i].id < r[j].id
    <3>1. i < k + j
      BY <1>1, <1>2
    <3> QED
      BY <3>1, <2>0, <2>1, <2>2
  <2> QED
    BY <1>5, <2>3, <2>4, <2>5 DEF Ordered, Below, Range
<1>8. ASSUME s # <<>>, n # 0 PROVE t # <<>> /\ t[1] = s[1]
  <2>1. l # 0
    BY <1>8, EmptySeq DEF l
  <2>2. k \in Nat /\ k # 0 /\ 1 \in 1 .. k
    BY <1>1, <1>2, <1>8, <2>1
  <2> QED
    BY <1>3, <2>2, EmptySeq
<1>9. \A i \in DOMAIN t : i <= n /\ i \in DOMAIN s /\ t[i] = s[i]
  BY <1>1, <1>2, <1>3, <1>5
<1>10. Len(r) <= l
  BY <1>1, <1>2, <1>4
<1> QED
  BY <1>3, <1>4, <1>6, <1>7, <1>8, <1>9, <1>10 DEF t, r, l

\* The empty sequence.
LEMMA NoFrames == <<>> \in Seq(Frames) /\ Range(<<>>) = {} /\ Ordered(<<>>) /\ Len(<<>>) = 0
<1>1. <<>> \in Seq(Frames) /\ Len(<<>>) = 0 /\ DOMAIN <<>> = {}
  BY EmptySeq
<1> QED
  BY <1>1 DEF Range, Ordered

\* A sequence that is not empty begins with one of its frames.
LEMMA SomeFrames ==
    ASSUME NEW s \in Seq(Frames)
    PROVE  /\ s # <<>> => s[1] \in Range(s) /\ s[1] \in Frames
           /\ Range(s) \subseteq Frames
           /\ Range(s) = {} => s = <<>>
<1>1. Len(s) \in Nat /\ DOMAIN s = 1 .. Len(s) /\ \A i \in 1 .. Len(s) : s[i] \in Frames
  BY LenProperties, ElementOfSeq
<1>2. s # <<>> => Len(s) \in Nat \ {0}
  BY EmptySeq
<1>3. s # <<>> => 1 \in 1 .. Len(s)
  BY <1>2
<1> QED
  BY <1>1, <1>3 DEF Range

-----------------------------------------------------------------------------
(* The text of frames.                                                     *)

\* The frames whose text is among the pieces S.
Named(S) == {p.frame : p \in S}

\* What a sequence of pieces is.
LEMMA SomePieces ==
    ASSUME NEW s \in Seq(Pieces)
    PROVE  /\ Len(s) \in Nat /\ DOMAIN s = 1 .. Len(s)
           /\ \A i \in 1 .. Len(s) : s[i] \in Pieces /\ s[i] \in Range(s)
           /\ \A p \in Range(s) : p \in Pieces /\ \E i \in 1 .. Len(s) : s[i] = p
           /\ Range(s) = {} => s = <<>>
           /\ s # <<>> => Len(s) # 0
<1>1. Len(s) \in Nat /\ DOMAIN s = 1 .. Len(s) /\ \A i \in 1 .. Len(s) : s[i] \in Pieces
  BY LenProperties, ElementOfSeq
<1>2. s # <<>> => Len(s) \in Nat \ {0}
  BY EmptySeq
<1>3. s # <<>> => 1 \in 1 .. Len(s)
  BY <1>2
<1> QED
  BY <1>1, <1>2, <1>3 DEF Range

LEMMA NoPieces ==
    /\ <<>> \in Seq(Pieces) /\ Range(<<>>) = {} /\ Named(Range(<<>>)) = {}
    /\ Len(<<>>) = 0 /\ Whole(<<>>) = {}
    /\ \A h \in Hours : Faithful(<<>>, h)
<1>1. <<>> \in Seq(Pieces) /\ Len(<<>>) = 0 /\ DOMAIN <<>> = {}
  BY EmptySeq
<1> QED
  BY <1>1 DEF Range, Named, Whole, Faithful

\* Nothing comes before itself.
LEMMA Before1 ==
    ASSUME NEW p \in Pieces
    PROVE  ~Before(p, p)
BY DEF Before, Pieces, Frames

\* The two pieces of a line.
LEMMA TwoPieces ==
    ASSUME NEW f \in Frames
    PROVE  /\ Beginning(f) \in Pieces /\ Ending(f) \in Pieces
           /\ Beginning(f).frame = f /\ Beginning(f).part = 1
           /\ Ending(f).frame = f /\ Ending(f).part = 2
BY DEF Beginning, Ending, Pieces

\* A text cut off anywhere is as faithful as the whole.
LEMMA FaithfulPart ==
    ASSUME NEW h \in Hours, NEW s \in Seq(Pieces), NEW t \in Seq(Pieces),
           Len(s) <= Len(t), \A i \in 1 .. Len(s) : s[i] = t[i], Faithful(t, h)
    PROVE  Faithful(s, h)
<1>1. /\ Len(s) \in Nat /\ DOMAIN s = 1 .. Len(s)
      /\ Len(t) \in Nat /\ DOMAIN t = 1 .. Len(t)
  BY SomePieces
<1> SUFFICES ASSUME NEW i \in 1 .. Len(s)
             PROVE  /\ s[i].frame.hour = h
                    /\ \A j \in 1 .. Len(s) : i < j => Before(s[i], s[j])
                    /\ s[i].part = 2 => WholeAt(s, i - 1)
  BY <1>1 DEF Faithful
<1>2. i \in 1 .. Len(t) /\ s[i] = t[i] /\ \A j \in 1 .. Len(s) : j \in 1 .. Len(t) /\ s[j] = t[j]
  BY <1>1
<1>3. /\ t[i].frame.hour = h
      /\ \A j \in 1 .. Len(t) : i < j => Before(t[i], t[j])
      /\ t[i].part = 2 => WholeAt(t, i - 1)
  BY <1>1, <1>2 DEF Faithful
<1>4. ASSUME s[i].part = 2 PROVE WholeAt(s, i - 1)
  <2>1. /\ i - 1 \in 1 .. Len(t) /\ (i - 1) + 1 = i
        /\ t[i - 1] = Beginning(t[i - 1].frame) /\ t[i] = Ending(t[i - 1].frame)
    BY <1>1, <1>2, <1>3, <1>4 DEF WholeAt
  <2>2. i - 1 \in 1 .. Len(s) /\ s[i - 1] = t[i - 1]
    BY <1>1, <1>2, <2>1
  <2> QED
    BY <1>1, <1>2, <2>1, <2>2 DEF WholeAt
<1> QED
  BY <1>2, <1>3, <1>4

\* Text of later frames may follow.
LEMMA FaithfulConcat ==
    ASSUME NEW h \in Hours, NEW a \in Seq(Pieces), NEW b \in Seq(Pieces),
           Faithful(a, h), Faithful(b, h), Below(Named(Range(a)), Named(Range(b)))
    PROVE  Faithful(a \o b, h)
<1> DEFINE m == Len(a)
           n == Len(b)
           c == a \o b
<1>1. /\ m \in Nat /\ n \in Nat /\ DOMAIN a = 1 .. m /\ DOMAIN b = 1 .. n
      /\ \A i \in 1 .. m : a[i] \in Range(a)
      /\ \A i \in 1 .. n : b[i] \in Range(b)
  BY SomePieces
<1>2. DOMAIN c = 1 .. m + n
  BY ConcatProperties, LenProperties
<1>3. \A i \in 1 .. m + n : c[i] = IF i <= m THEN a[i] ELSE b[i - m]
  BY ConcatProperties
<1>4. \A i \in 1 .. m, j \in 1 .. n : Before(a[i], b[j])
  BY <1>1 DEF Named, Below, Before
<1>5. \A i \in 1 .. m : /\ a[i].frame.hour = h
                        /\ \A j \in 1 .. m : i < j => Before(a[i], a[j])
                        /\ a[i].part = 2 => WholeAt(a, i - 1)
  BY <1>1 DEF Faithful
<1>6. \A i \in 1 .. n : /\ b[i].frame.hour = h
                        /\ \A j \in 1 .. n : i < j => Before(b[i], b[j])
                        /\ b[i].part = 2 => WholeAt(b, i - 1)
  BY <1>1 DEF Faithful
<1> HIDE DEF m, n, c
<1> SUFFICES ASSUME NEW i \in 1 .. m + n
             PROVE  /\ c[i].frame.hour = h
                    /\ \A j \in 1 .. m + n : i < j => Before(c[i], c[j])
                    /\ c[i].part = 2 => WholeAt(c, i - 1)
  BY <1>2 DEF Faithful, c
<1>7. CASE i <= m
  <2>1. i \in 1 .. m /\ c[i] = a[i]
    BY <1>1, <1>3, <1>7
  <2>2. ASSUME NEW j \in 1 .. m + n, i < j PROVE Before(c[i], c[j])
    <3>1. CASE j <= m
      BY <1>1, <1>3, <1>5, <2>1, <2>2, <3>1
    <3>2. CASE j > m
      <4>1. j - m \in 1 .. n /\ c[j] = b[j - m]
        BY <1>1, <1>3, <3>2
      <4> QED
        BY <1>4, <2>1, <4>1
    <3> QED
      BY <1>1, <3>1, <3>2
  <2>3. ASSUME c[i].part = 2 PROVE WholeAt(c, i - 1)
    <3>1. WholeAt(a, i - 1)
      BY <1>5, <2>1, <2>3
    <3>2. i - 1 \in 1 .. m /\ i - 1 \in 1 .. m + n /\ (i - 1) + 1 = i /\ i - 1 <= m
      BY <1>1, <2>1, <3>1 DEF WholeAt
    <3>3. c[i - 1] = a[i - 1]
      BY <1>3, <3>2
    <3> QED
      BY <1>2, <2>1, <3>1, <3>2, <3>3 DEF WholeAt
  <2> QED
    BY <1>5, <2>1, <2>2, <2>3
<1>8. CASE i > m
  <2>1. i - m \in 1 .. n /\ c[i] = b[i - m]
    BY <1>1, <1>3, <1>8
  <2>2. ASSUME NEW j \in 1 .. m + n, i < j PROVE Before(c[i], c[j])
    <3>1. j - m \in 1 .. n /\ c[j] = b[j - m] /\ i - m < j - m
      BY <1>1, <1>3, <1>8, <2>2
    <3> QED
      BY <1>6, <2>1, <3>1
  <2>3. ASSUME c[i].part = 2 PROVE WholeAt(c, i - 1)
    <3>1. WholeAt(b, (i - m) - 1)
      BY <1>6, <2>1, <2>3
    <3>2. (i - m) - 1 \in 1 .. n /\ ((i - m) - 1) + 1 = i - m
      BY <1>1, <2>1, <3>1 DEF WholeAt
    <3>3. /\ i - 1 \in 1 .. m + n /\ (i - 1) + 1 = i /\ ~(i - 1 <= m)
          /\ (i - 1) - m = (i - m) - 1
      BY <1>1, <3>2
    <3>4. c[i - 1] = b[(i - m) - 1]
      BY <1>3, <3>3
    <3> QED
      BY <1>2, <2>1, <3>1, <3>2, <3>3, <3>4 DEF WholeAt
  <2> QED
    BY <1>6, <2>1, <2>2, <2>3
<1> QED
  BY <1>1, <1>7, <1>8

\* A faithful text has each piece once.
LEMMA Once ==
    ASSUME NEW h \in Hours, NEW a \in Seq(Pieces), NEW b \in Seq(Pieces), Faithful(a \o b, h)
    PROVE  Range(a) \cap Range(b) = {}
<1> DEFINE m == Len(a)
           n == Len(b)
           c == a \o b
<1> SUFFICES ASSUME NEW i \in 1 .. m, NEW j \in 1 .. n, a[i] = b[j] PROVE FALSE
  BY SomePieces
<1>1. /\ m \in Nat /\ n \in Nat
      /\ DOMAIN c = 1 .. m + n
      /\ \A k \in 1 .. m + n : c[k] = IF k <= m THEN a[k] ELSE b[k - m]
  BY ConcatProperties, LenProperties
<1>2. a[i] \in Pieces
  BY SomePieces
<1> HIDE DEF m, n, c
<1>3. /\ i \in 1 .. m + n /\ m + j \in 1 .. m + n /\ i < m + j
      /\ c[i] = a[i] /\ c[m + j] = b[j]
  <2>1. i \in 1 .. m + n /\ m + j \in 1 .. m + n /\ i < m + j /\ i <= m /\ ~(m + j <= m)
        /\ (m + j) - m = j
    BY <1>1
  <2> QED
    BY <1>1, <2>1
<1>4. Before(c[i], c[m + j])
  BY <1>1, <1>3 DEF Faithful, c
<1> QED
  BY <1>2, <1>3, <1>4, Before1

\* What is whole in a text stays so with text before or behind it.
LEMMA WholeConcat ==
    ASSUME NEW a \in Seq(Pieces), NEW b \in Seq(Pieces)
    PROVE  Whole(a) \cup Whole(b) \subseteq Whole(a \o b)
<1> DEFINE m == Len(a)
           n == Len(b)
           c == a \o b
<1>1. /\ m \in Nat /\ n \in Nat /\ DOMAIN a = 1 .. m /\ DOMAIN b = 1 .. n
      /\ DOMAIN c = 1 .. m + n
      /\ \A k \in 1 .. m + n : c[k] = IF k <= m THEN a[k] ELSE b[k - m]
  BY ConcatProperties, LenProperties
<1> HIDE DEF m, n, c
<1>2. ASSUME NEW i \in 1 .. m, WholeAt(a, i) PROVE a[i].frame \in Whole(c)
  <2>1. /\ i \in 1 .. m + n /\ i + 1 \in 1 .. m + n /\ i <= m /\ i + 1 <= m
    BY <1>1, <1>2 DEF WholeAt
  <2>2. c[i] = a[i] /\ c[i + 1] = a[i + 1]
    BY <1>1, <2>1
  <2>3. WholeAt(c, i)
    BY <1>1, <1>2, <2>1, <2>2 DEF WholeAt
  <2> QED
    BY <1>1, <2>1, <2>2, <2>3 DEF Whole
<1>3. ASSUME NEW i \in 1 .. n, WholeAt(b, i) PROVE b[i].frame \in Whole(c)
  <2>1. /\ m + i \in 1 .. m + n /\ (m + i) + 1 \in 1 .. m + n
        /\ ~(m + i <= m) /\ ~((m + i) + 1 <= m)
        /\ (m + i) - m = i /\ ((m + i) + 1) - m = i + 1
    BY <1>1, <1>3 DEF WholeAt
  <2>2. c[m + i] = b[i] /\ c[(m + i) + 1] = b[i + 1]
    BY <1>1, <2>1
  <2>3. WholeAt(c, m + i)
    BY <1>1, <1>3, <2>1, <2>2 DEF WholeAt
  <2> QED
    BY <1>1, <2>1, <2>2, <2>3 DEF Whole
<1> QED
  BY <1>1, <1>2, <1>3 DEF Whole, c

\* What is whole in a text begins in it.
LEMMA WholeBegins ==
    ASSUME NEW s \in Seq(Pieces)
    PROVE  /\ \A f \in Whole(s) : Beginning(f) \in Range(s)
           /\ Whole(s) \subseteq Named(Range(s))
           /\ Named(Range(s)) \subseteq Frames
<1>1. \A i \in DOMAIN s : s[i] \in Range(s)
  BY SomePieces
<1>2. Whole(s) \subseteq Named(Range(s))
  BY <1>1 DEF Whole, Named
<1>3. Named(Range(s)) \subseteq Frames
  BY SomePieces DEF Named, Pieces
<1>4. ASSUME NEW i \in DOMAIN s, WholeAt(s, i) PROVE Beginning(s[i].frame) \in Range(s)
  BY <1>1, <1>4 DEF WholeAt
<1> QED
  BY <1>2, <1>3, <1>4 DEF Whole

\* The number of the piece of a text tells the frame and the half.
LEMMA Halves ==
    ASSUME NEW n \in Nat, NEW i \in 1 .. 2 * n
    PROVE  \/ /\ i % 2 = 1 /\ (i + 1) \div 2 \in 1 .. n
              /\ i = 2 * ((i + 1) \div 2) - 1
           \/ /\ i % 2 = 0 /\ i \div 2 \in 1 .. n
              /\ i = 2 * (i \div 2)
OBVIOUS

LEMMA Doubles ==
    ASSUME NEW k \in Nat \ {0}
    PROVE  /\ (2 * k - 1) % 2 = 1 /\ ((2 * k - 1) + 1) \div 2 = k
           /\ (2 * k) % 2 = 0 /\ (2 * k) \div 2 = k
OBVIOUS

\* The lines of frames of one hour, in the order offered.
LEMMA Lines ==
    ASSUME NEW s \in Seq(Frames)
    PROVE  /\ Text(s) \in Seq(Pieces) /\ Len(Text(s)) = 2 * Len(s)
           /\ Named(Range(Text(s))) = Range(s) /\ Range(s) \subseteq Whole(Text(s))
           /\ \A f \in Range(s) : Beginning(f) \in Range(Text(s))
           /\ s = <<>> => Text(s) = <<>>
           /\ \A h \in Hours : Ordered(s) /\ (\A f \in Range(s) : f.hour = h)
                                => Faithful(Text(s), h)
<1> DEFINE n == Len(s)
           x == Text(s)
<1>1. n \in Nat /\ DOMAIN s = 1 .. n /\ \A k \in 1 .. n : s[k] \in Frames /\ s[k] \in Range(s)
  BY LenProperties, ElementOfSeq DEF Range
<1>2. \A i \in 1 .. 2 * n : x[i] = IF i % 2 = 1 THEN Beginning(s[(i + 1) \div 2]) ELSE Ending(s[i \div 2])
  BY DEF Text
<1>3. DOMAIN x = 1 .. 2 * n
  BY DEF Text
<1>4. x = [i \in 1 .. 2 * n |->
             IF i % 2 = 1 THEN Beginning(s[(i + 1) \div 2]) ELSE Ending(s[i \div 2])]
  BY DEF Text
<1> HIDE DEF n, x
<1>5. \A k \in 1 .. n : /\ 2 * k - 1 \in 1 .. 2 * n /\ 2 * k \in 1 .. 2 * n
                        /\ x[2 * k - 1] = Beginning(s[k]) /\ x[2 * k] = Ending(s[k])
  <2> TAKE k \in 1 .. n
  <2>1. k \in Nat \ {0} /\ 2 * k - 1 \in 1 .. 2 * n /\ 2 * k \in 1 .. 2 * n
    BY <1>1
  <2>2. /\ (2 * k - 1) % 2 = 1 /\ ((2 * k - 1) + 1) \div 2 = k
        /\ (2 * k) % 2 = 0 /\ (2 * k) \div 2 = k
    BY <2>1, Doubles
  <2> QED
    BY <1>2, <2>1, <2>2
<1>6. \A k \in 1 .. n : /\ Beginning(s[k]) \in Pieces /\ Ending(s[k]) \in Pieces
                        /\ Beginning(s[k]).frame = s[k] /\ Beginning(s[k]).part = 1
                        /\ Ending(s[k]).frame = s[k] /\ Ending(s[k]).part = 2
  BY <1>1, TwoPieces
<1>7. \A i \in 1 .. 2 * n : \E k \in 1 .. n :
        /\ x[i] \in Pieces /\ x[i].frame = s[k]
        /\ (i = 2 * k - 1 /\ x[i].part = 1) \/ (i = 2 * k /\ x[i].part = 2)
  <2> TAKE i \in 1 .. 2 * n
  <2>1. PICK k \in 1 .. n : i = 2 * k - 1 \/ i = 2 * k
    BY <1>1, Halves
  <2>2. CASE i = 2 * k - 1
    <3>1. x[i] = Beginning(s[k])
      BY <1>5, <2>2
    <3> QED
      BY <1>6, <2>2, <3>1
  <2>3. CASE i = 2 * k
    <3>1. x[i] = Ending(s[k])
      BY <1>5, <2>3
    <3> QED
      BY <1>6, <2>3, <3>1
  <2> QED
    BY <2>1, <2>2, <2>3
<1>8. \A i \in 1 .. 2 * n : x[i] \in Pieces
  BY <1>7
<1>9. x \in Seq(Pieces) /\ Len(x) = 2 * n
  <2>1. 2 * n \in Nat
    BY <1>1
  <2>2. x \in [1 .. 2 * n -> Pieces]
    BY <1>4, <1>3, <1>8
  <2> QED
    BY <2>1, <2>2, SeqDef, LenProperties
<1>10. \A i \in 1 .. 2 * n : x[i] \in Range(x)
  BY <1>3 DEF Range
<1>11. \A k \in 1 .. n : WholeAt(x, 2 * k - 1) /\ x[2 * k - 1].frame = s[k]
  <2> TAKE k \in 1 .. n
  <2>1. (2 * k - 1) + 1 = 2 * k
    BY <1>1
  <2> QED
    BY <1>3, <1>5, <1>6, <2>1 DEF WholeAt
<1>12. Range(s) \subseteq Whole(x)
  <2>1. \A k \in 1 .. n : s[k] \in Whole(x)
    BY <1>3, <1>5, <1>11 DEF Whole
  <2> QED
    BY <1>1, <2>1 DEF Range
<1>13. \A f \in Range(s) : Beginning(f) \in Range(x)
  BY <1>1, <1>5, <1>10 DEF Range
<1>14. Named(Range(x)) = Range(s)
  <2>1. \A i \in 1 .. 2 * n : x[i].frame \in Range(s)
    BY <1>1, <1>7
  <2>2. Named(Range(x)) \subseteq Range(s)
    BY <1>3, <2>1 DEF Named, Range
  <2>3. Range(s) \subseteq Named(Range(x))
    <3>1. \A f \in Range(s) : f \in Frames
      BY <1>1 DEF Range
    <3>2. \A f \in Range(s) : f = Beginning(f).frame
      BY <3>1, TwoPieces
    <3> QED
      BY <1>13, <3>2 DEF Named
  <2> QED
    BY <2>2, <2>3
<1>15. s = <<>> => x = <<>>
  <2>1. s = <<>> => n = 0
    BY DEF n
  <2>2. s = <<>> => Len(x) = 0
    BY <1>9, <2>1
  <2> QED
    BY <1>9, <2>2, SomePieces
<1>16. ASSUME NEW h \in Hours, Ordered(s), \A f \in Range(s) : f.hour = h
       PROVE  Faithful(x, h)
  <2>1. \A k, l \in 1 .. n : k < l => s[k].id < s[l].id
    BY <1>1, <1>16 DEF Ordered
  <2>2. \A k \in 1 .. n : s[k].hour = h
    BY <1>1, <1>16
  <2> SUFFICES ASSUME NEW i \in 1 .. 2 * n
               PROVE  /\ x[i].frame.hour = h
                      /\ \A j \in 1 .. 2 * n : i < j => Before(x[i], x[j])
                      /\ x[i].part = 2 => WholeAt(x, i - 1)
    BY <1>3 DEF Faithful
  <2>4. PICK k \in 1 .. n :
          /\ x[i].frame = s[k]
          /\ (i = 2 * k - 1 /\ x[i].part = 1) \/ (i = 2 * k /\ x[i].part = 2)
    BY <1>7
  <2>5. ASSUME NEW j \in 1 .. 2 * n, i < j PROVE Before(x[i], x[j])
    <3>2. PICK l \in 1 .. n :
            /\ x[j].frame = s[l]
            /\ (j = 2 * l - 1 /\ x[j].part = 1) \/ (j = 2 * l /\ x[j].part = 2)
      BY <1>7
    <3>3. k < l \/ (k = l /\ i = 2 * k - 1 /\ j = 2 * l)
      BY <1>1, <2>4, <2>5, <3>2
    <3>4. CASE k < l
      BY <2>1, <2>4, <3>2, <3>4 DEF Before
    <3>5. CASE k = l /\ i = 2 * k - 1 /\ j = 2 * l
      <4>1. i # 2 * k /\ j # 2 * l - 1
        BY <1>1, <3>5
      <4>2. x[i].frame = x[j].frame /\ x[i].part = 1 /\ x[j].part = 2
        BY <2>4, <3>2, <3>5, <4>1
      <4> QED
        BY <4>2 DEF Before
    <3> QED
      BY <3>3, <3>4, <3>5
  <2>6. ASSUME x[i].part = 2 PROVE WholeAt(x, i - 1)
    <3>1. i - 1 = 2 * k - 1
      BY <1>1, <2>4, <2>6
    <3> QED
      BY <1>11, <3>1
  <2> QED
    BY <2>2, <2>4, <2>5, <2>6
<1> QED
  BY <1>9, <1>12, <1>13, <1>14, <1>15, <1>16 DEF n, x

-----------------------------------------------------------------------------
(* What stands where.                                                      *)

\* The frames with text in the files d, and those whole in them.
Files(d) == UNION {Named(Range(d[h])) : h \in Hours}
Wholes(d) == UNION {Whole(d[h]) : h \in Hours}

\* The frames on their way, in the order in which they go it: the files d, the
\* text x that belongs to the open file of hour cur and is not yet in it, the
\* rest t of the batch, and the queue q.
Sound(U, d, x, t, q, cur) ==
    /\ d \in [Hours -> Seq(Pieces)]
    /\ x \in Seq(Pieces)
    /\ {t, q} \subseteq Seq(Frames)
    /\ \A h \in Hours : Faithful(d[h], h)
    /\ x # <<>> => cur \in Hours
    /\ cur \in Hours => Faithful(d[cur] \o x, cur)
    /\ Ordered(t) /\ Ordered(q) /\ Below(Range(t), Range(q))
    /\ Below(Files(d) \cup Named(Range(x)), Range(t) \cup Range(q))
    /\ Files(d) \cup Named(Range(x)) \cup Range(t) \cup Range(q) \subseteq U

\* Less on the way, and as ordered.
LEMMA Less ==
    ASSUME NEW U, NEW d, NEW x, NEW t, NEW q, NEW cur, Sound(U, d, x, t, q, cur),
           NEW x1 \in {x, <<>>}, NEW t1 \in {t, <<>>}, NEW q1 \in Seq(Frames),
           Ordered(q1), Range(q1) \subseteq Range(q), NEW cur1,
           cur1 = cur \/ x1 = <<>>
    PROVE  Sound(U, d, x1, t1, q1, cur1)
<1>1. Range(x1) \subseteq Range(x) /\ Range(t1) \subseteq Range(t)
  BY NoFrames, NoPieces
<1>2. {t1, q1} \subseteq Seq(Frames) /\ x1 \in Seq(Pieces) /\ Ordered(t1)
  BY NoFrames, NoPieces DEF Sound
<1>3. x1 # <<>> => cur1 \in Hours
  BY DEF Sound
<1>4. cur1 \in Hours => Faithful(d[cur1] \o x1, cur1)
  <2>1. CASE x1 = <<>>
    BY <2>1, ConcatEmptySeq DEF Sound
  <2>2. CASE x1 # <<>>
    BY <2>2 DEF Sound
  <2> QED
    BY <2>1, <2>2
<1>5. Named(Range(x1)) \subseteq Named(Range(x))
  BY <1>1 DEF Named
<1> QED
  BY <1>1, <1>2, <1>3, <1>4, <1>5 DEF Sound, Below

\* Appending to one file leaves the others, and what was whole stays so.
LEMMA ExtendFiles ==
    ASSUME NEW d \in [Hours -> Seq(Pieces)], NEW cur \in Hours, NEW w \in Seq(Pieces)
    PROVE  /\ Extend(d, cur, w) \in [Hours -> Seq(Pieces)]
           /\ Extend(d, cur, w)[cur] = d[cur] \o w
           /\ \A h \in Hours \ {cur} : Extend(d, cur, w)[h] = d[h]
           /\ Files(Extend(d, cur, w)) = Files(d) \cup Named(Range(w))
           /\ Wholes(d) \cup Whole(w) \subseteq Wholes(Extend(d, cur, w))
<1> DEFINE e == Extend(d, cur, w)
<1>1. d[cur] \o w \in Seq(Pieces) /\ Range(d[cur] \o w) = Range(d[cur]) \cup Range(w)
  BY ConcatProperties, RangeConcatenation
<1>2. /\ e \in [Hours -> Seq(Pieces)]
      /\ e[cur] = d[cur] \o w
      /\ \A h \in Hours \ {cur} : e[h] = d[h]
  BY <1>1 DEF Extend
<1>3. Files(e) = Files(d) \cup Named(Range(w))
  <2> HIDE DEF e
  <2> DEFINE others == UNION {Named(Range(d[h])) : h \in Hours \ {cur}}
  <2>1. Files(d) = Named(Range(d[cur])) \cup others
    BY DEF Files
  <2>2. Files(e) = Named(Range(e[cur])) \cup others
    BY <1>2 DEF Files
  <2>3. Named(Range(e[cur])) = Named(Range(d[cur])) \cup Named(Range(w))
    BY <1>1, <1>2 DEF Named
  <2> QED
    BY <2>1, <2>2, <2>3
<1>4. Wholes(d) \cup Whole(w) \subseteq Wholes(e)
  <2>1. Whole(d[cur]) \cup Whole(w) \subseteq Whole(e[cur])
    BY <1>2, WholeConcat
  <2> HIDE DEF e
  <2>2. \A h \in Hours : Whole(d[h]) \subseteq Whole(e[h])
    BY <1>2, <2>1
  <2> QED
    BY <2>1, <2>2 DEF Wholes
<1> QED
  BY <1>2, <1>3, <1>4

\* The first n pieces of a text, and those after them up to the m-th.
LEMMA Parts ==
    ASSUME NEW x \in Seq(Pieces), NEW n \in 0 .. Len(x), NEW m \in 0 .. Len(x)
    PROVE  /\ Take(x, n) \in Seq(Pieces) /\ SubSeq(x, n + 1, m) \in Seq(Pieces)
           /\ Len(Take(x, n)) = n
           /\ Len(SubSeq(x, n + 1, m)) = IF n < m THEN m - n ELSE 0
           /\ \A i \in 1 .. n : Take(x, n)[i] = x[i]
           /\ n < m => \A i \in 1 .. m - n : SubSeq(x, n + 1, m)[i] = x[n + i]
           /\ Range(Take(x, n)) \cup Range(SubSeq(x, n + 1, m)) \subseteq Range(x)
<1> DEFINE l == Len(x)
           w == Take(x, n)
           r == SubSeq(x, n + 1, m)
<1>1. l \in Nat /\ n \in 0 .. l /\ m \in 0 .. l /\ \A i \in 1 .. l : x[i] \in Pieces /\ x[i] \in Range(x)
  BY SomePieces
<1> HIDE DEF l
<1>2. w = SubSeq(x, 1, n)
  BY <1>1 DEF Take, l
<1>3. /\ w \in Seq(Pieces) /\ Len(w) = n /\ \A i \in 1 .. n : w[i] = x[i]
  <2>1. 1 \in Int /\ n \in Int /\ \A i \in 1 .. n : x[i] \in Pieces
    BY <1>1
  <2>2. /\ SubSeq(x, 1, n) \in Seq(Pieces)
        /\ Len(SubSeq(x, 1, n)) = IF 1 <= n THEN n - 1 + 1 ELSE 0
        /\ \A i \in 1 .. n - 1 + 1 : SubSeq(x, 1, n)[i] = x[1 + i - 1]
    BY <2>1, SubSeqProperties
  <2> HIDE DEF w
  <2> QED
    BY <1>1, <1>2, <2>2
<1>4. /\ r \in Seq(Pieces) /\ Len(r) = IF n < m THEN m - n ELSE 0
      /\ n < m => \A i \in 1 .. m - n : r[i] = x[n + i]
  <2>1. n + 1 \in Int /\ m \in Int /\ \A i \in n + 1 .. m : x[i] \in Pieces
    BY <1>1
  <2>2. /\ SubSeq(x, n + 1, m) \in Seq(Pieces)
        /\ Len(SubSeq(x, n + 1, m)) = IF n + 1 <= m THEN m - (n + 1) + 1 ELSE 0
        /\ \A i \in 1 .. m - (n + 1) + 1 : SubSeq(x, n + 1, m)[i] = x[n + 1 + i - 1]
    BY <2>1, SubSeqProperties
  <2>3. Len(r) = IF n < m THEN m - n ELSE 0
    BY <1>1, <2>2
  <2>4. ASSUME n < m, NEW i \in 1 .. m - n PROVE r[i] = x[n + i]
    <3>1. i \in 1 .. m - (n + 1) + 1 /\ n + 1 + i - 1 = n + i
      BY <1>1, <2>4
    <3> QED
      BY <2>2, <3>1
  <2> QED
    BY <2>2, <2>3, <2>4
<1> HIDE DEF w, r
<1>5. Range(w) \subseteq Range(x)
  <2>1. DOMAIN w = 1 .. n /\ \A i \in 1 .. n : i \in 1 .. l
    BY <1>1, <1>3, LenProperties
  <2> QED
    BY <1>1, <1>3, <2>1 DEF Range
<1>6. Range(r) \subseteq Range(x)
  <2>1. CASE n < m
    <3>1. DOMAIN r = 1 .. m - n /\ \A i \in 1 .. m - n : n + i \in 1 .. l
      BY <1>1, <1>4, <2>1, LenProperties
    <3> QED
      BY <1>1, <1>4, <2>1, <3>1 DEF Range
  <2>2. CASE ~(n < m)
    <3>1. r = <<>>
      BY <1>4, <2>2, SomePieces
    <3> QED
      BY <3>1, NoPieces
  <2> QED
    BY <2>1, <2>2
<1> QED
  BY <1>3, <1>4, <1>5, <1>6 DEF w, r

\* A write that stops anywhere: the first n pieces are in the file, and those up
\* to the m-th stay in the buffer.  The file and its buffer are then a part, from
\* its start, of what they would have been.
LEMMA Stops ==
    ASSUME NEW U, NEW d, NEW x, NEW t, NEW q, NEW cur \in Hours,
           Sound(U, d, x, t, q, cur), NEW n \in 0 .. Len(x), NEW m \in 0 .. Len(x)
    PROVE  /\ Sound(U, Extend(d, cur, Take(x, n)), SubSeq(x, n + 1, m), t, q, cur)
           /\ Take(x, n) \in Seq(Pieces) /\ SubSeq(x, n + 1, m) \in Seq(Pieces)
<1> DEFINE w == Take(x, n)
           r == SubSeq(x, n + 1, m)
           e == Extend(d, cur, w)
           a == d[cur]
<1>1. d \in [Hours -> Seq(Pieces)] /\ x \in Seq(Pieces) /\ a \in Seq(Pieces)
  BY DEF Sound
<1>2. Len(x) \in Nat /\ Len(a) \in Nat
  BY <1>1, SomePieces
<1>3. /\ w \in Seq(Pieces) /\ r \in Seq(Pieces)
      /\ Len(w) = n /\ Len(r) = (IF n < m THEN m - n ELSE 0)
      /\ \A i \in 1 .. n : w[i] = x[i]
      /\ n < m => \A i \in 1 .. m - n : r[i] = x[n + i]
      /\ Range(w) \cup Range(r) \subseteq Range(x)
  BY <1>1, Parts
<1>4. /\ e \in [Hours -> Seq(Pieces)]
      /\ e[cur] = a \o w
      /\ \A h \in Hours \ {cur} : e[h] = d[h]
      /\ Files(e) = Files(d) \cup Named(Range(w))
  BY <1>1, <1>3, ExtendFiles
<1>5. Faithful(a \o x, cur)
  BY DEF Sound
<1> HIDE DEF w, r, e, a
<1>6. /\ a \o x \in Seq(Pieces) /\ Len(a \o x) = Len(a) + Len(x)
      /\ \A i \in 1 .. Len(a) + Len(x) : (a \o x)[i] = IF i <= Len(a) THEN a[i] ELSE x[i - Len(a)]
  BY <1>1, ConcatProperties
<1>7. /\ a \o w \in Seq(Pieces) /\ Len(a \o w) = Len(a) + n
      /\ \A i \in 1 .. Len(a) + n : (a \o w)[i] = IF i <= Len(a) THEN a[i] ELSE w[i - Len(a)]
  BY <1>1, <1>3, ConcatProperties
<1>8. ASSUME NEW i \in 1 .. Len(a) + n PROVE (a \o w)[i] = (a \o x)[i]
  <2>1. i \in 1 .. Len(a) + Len(x)
    BY <1>2
  <2>2. CASE i <= Len(a)
    BY <1>6, <1>7, <2>1, <2>2
  <2>3. CASE ~(i <= Len(a))
    <3>1. i - Len(a) \in 1 .. n
      BY <1>2, <2>3
    <3> QED
      BY <1>3, <1>6, <1>7, <2>1, <2>3, <3>1
  <2> QED
    BY <2>2, <2>3
<1>9. Faithful(e[cur], cur)
  <2> DEFINE b == a \o w
             c == a \o x
  <2>1. /\ b \in Seq(Pieces) /\ c \in Seq(Pieces) /\ Len(b) <= Len(c)
        /\ \A i \in 1 .. Len(b) : b[i] = c[i]
    BY <1>2, <1>6, <1>7, <1>8
  <2>2. Faithful(c, cur) /\ e[cur] = b
    BY <1>4, <1>5
  <2> HIDE DEF b, c
  <2> QED
    BY <2>1, <2>2, FaithfulPart
<1>10. Faithful(e[cur] \o r, cur)
  <2> DEFINE b == a \o w
             k == Len(r)
  <2>0. b \in Seq(Pieces) /\ Len(b) = Len(a) + n
    BY <1>7
  <2>a. \A i \in 1 .. Len(a) + n : b[i] = (a \o x)[i]
    BY <1>8
  <2>b. e[cur] = b
    BY <1>4
  <2>c. r \in Seq(Pieces)
    BY <1>3
  <2> HIDE DEF b
  <2>1. /\ b \o r \in Seq(Pieces) /\ Len(b \o r) = Len(b) + k
        /\ \A i \in 1 .. Len(b) + k : (b \o r)[i] = IF i <= Len(b) THEN b[i] ELSE r[i - Len(b)]
    BY <2>0, <2>c, ConcatProperties
  <2>3. ASSUME NEW i \in 1 .. Len(b) + k PROVE (b \o r)[i] = (a \o x)[i]
    <3>1. CASE i <= Len(b)
      <4>1. i \in 1 .. Len(a) + n
        BY <1>2, <2>0, <3>1
      <4> QED
        BY <2>1, <2>a, <3>1, <4>1
    <3>2. CASE ~(i <= Len(b))
      <4>1. /\ n < m /\ i - Len(b) \in 1 .. m - n
            /\ i \in 1 .. Len(a) + Len(x) /\ ~(i <= Len(a))
            /\ i - Len(a) = n + (i - Len(b))
        BY <1>2, <1>3, <2>0, <3>2
      <4>2. (b \o r)[i] = r[i - Len(b)] /\ (a \o x)[i] = x[i - Len(a)]
        BY <1>6, <2>1, <3>2, <4>1
      <4>3. r[i - Len(b)] = x[n + (i - Len(b))]
        BY <1>3, <4>1
      <4> QED
        BY <4>1, <4>2, <4>3
    <3> QED
      BY <3>1, <3>2
  <2>4. Len(b \o r) <= Len(a \o x)
    BY <1>2, <1>3, <1>6, <2>1, <2>0
  <2>5. \A i \in 1 .. Len(b \o r) : (b \o r)[i] = (a \o x)[i]
    BY <2>1, <2>3
  <2>6. Faithful(b \o r, cur)
    BY <1>5, <1>6, <2>1, <2>4, <2>5, FaithfulPart
  <2> QED
    BY <2>6, <2>b
<1>11. \A h \in Hours : Faithful(e[h], h)
  BY <1>4, <1>9 DEF Sound
<1>12. Named(Range(w)) \cup Named(Range(r)) \subseteq Named(Range(x))
  BY <1>3 DEF Named
<1>13. /\ Below(Files(e) \cup Named(Range(r)), Range(t) \cup Range(q))
       /\ Files(e) \cup Named(Range(r)) \cup Range(t) \cup Range(q) \subseteq U
  BY <1>4, <1>12 DEF Sound, Below
<1> QED
  BY <1>3, <1>4, <1>10, <1>11, <1>13 DEF Sound, w, r, e

\* A write that brings the whole text to the file.
LEMMA Writes ==
    ASSUME NEW U, NEW d, NEW x, NEW t, NEW q, NEW cur \in Hours,
           Sound(U, d, x, t, q, cur)
    PROVE  Sound(U, Extend(d, cur, x), <<>>, t, q, cur)
<1>1. x \in Seq(Pieces) /\ Len(x) \in Nat
  BY SomePieces DEF Sound
<1> DEFINE n == Len(x)
           w == Take(x, n)
           r == SubSeq(x, n + 1, n)
<1>2. n \in 0 .. Len(x)
  BY <1>1
<1>3. Sound(U, Extend(d, cur, w), r, t, q, cur)
  BY <1>2, Stops
<1>4. /\ w \in Seq(Pieces) /\ r \in Seq(Pieces)
      /\ Len(w) = n /\ Len(r) = 0
      /\ \A i \in 1 .. n : w[i] = x[i]
  BY <1>1, <1>2, Parts
<1> HIDE DEF w, r
<1>5. r = <<>>
  BY <1>4, SomePieces
<1>6. w = x
  BY <1>1, <1>4, SeqEqual
<1> QED
  BY <1>3, <1>5, <1>6

\* A write that stops, with nothing kept of the rest.
LEMMA Breaks ==
    ASSUME NEW U, NEW d, NEW x, NEW t, NEW q, NEW cur \in Hours,
           Sound(U, d, x, t, q, cur), NEW n \in 0 .. Len(x)
    PROVE  Sound(U, Extend(d, cur, Take(x, n)), <<>>, t, q, cur) /\ Take(x, n) \in Seq(Pieces)
<1>1. x \in Seq(Pieces) /\ Len(x) \in Nat /\ 0 \in 0 .. Len(x)
  BY SomePieces DEF Sound
<1> DEFINE r == SubSeq(x, n + 1, 0)
<1>2. Sound(U, Extend(d, cur, Take(x, n)), r, t, q, cur) /\ Take(x, n) \in Seq(Pieces)
  BY <1>1, Stops
<1>3. r \in Seq(Pieces) /\ Len(r) = 0
  BY <1>1, Parts
<1> HIDE DEF r
<1> QED
  BY <1>2, <1>3, SomePieces

\* The first run of the batch t goes to the open file, whose hour it has.
LEMMA Hands ==
    ASSUME NEW U, NEW d, NEW r, NEW t, NEW q, t # <<>>,
           Sound(U, d, r, t, q, t[1].hour)
    PROVE  /\ Sound(U, d, r \o Text(Take(t, RunLength(t))), Rest(t, RunLength(t)), q, t[1].hour)
           /\ Take(t, RunLength(t)) \in Seq(Frames)
           /\ Range(Take(t, RunLength(t))) \cup Range(Rest(t, RunLength(t))) = Range(t)
<1> DEFINE n == RunLength(t)
           c == Take(t, n)
           u == Rest(t, n)
           h == t[1].hour
           y == Text(c)
           a == d[h]
<1>1. /\ t \in Seq(Frames) /\ r \in Seq(Pieces) /\ Ordered(t)
      /\ d \in [Hours -> Seq(Pieces)]
  BY DEF Sound
<1>2. n \in 1 .. Len(t) /\ \A i \in 1 .. n : t[i].hour = h
  BY <1>1, Run
<1>3. n \in Nat /\ Len(t) \in Nat
  BY <1>1, <1>2, LenProperties
<1>4. h \in Hours
  BY <1>1, SomeFrames DEF Frames
<1>5. Sound(U, d, r, t, q, h)
  OBVIOUS
<1>6. a \in Seq(Pieces) /\ Range(a) \subseteq UNION {Range(d[k]) : k \in Hours}
  BY <1>1, <1>4
<1> HIDE DEF n, h
<1>7. /\ c \in Seq(Frames) /\ u \in Seq(Frames)
      /\ Range(t) = Range(c) \cup Range(u)
      /\ Ordered(c) /\ Ordered(u) /\ Below(Range(c), Range(u))
      /\ \A i \in DOMAIN c : i <= n /\ i \in DOMAIN t /\ c[i] = t[i]
  BY <1>1, <1>3, Cut
<1> HIDE DEF c, u
<1>8. \A f \in Range(c) : f.hour = h
  <2> SUFFICES ASSUME NEW i \in DOMAIN c PROVE c[i].hour = h
    BY DEF Range
  <2>1. i \in 1 .. n /\ c[i] = t[i]
    BY <1>1, <1>3, <1>7, LenProperties
  <2> QED
    BY <2>1, <1>2
<1>9. y \in Seq(Pieces) /\ Named(Range(y)) = Range(c) /\ Faithful(y, h)
  BY <1>4, <1>7, <1>8, Lines
<1> HIDE DEF y
<1>10. r \o y \in Seq(Pieces) /\ Range(r \o y) = Range(r) \cup Range(y)
  BY <1>1, <1>9, ConcatProperties, RangeConcatenation
<1>11. a \o r \in Seq(Pieces) /\ Range(a \o r) = Range(a) \cup Range(r)
  BY <1>1, <1>6, ConcatProperties, RangeConcatenation
<1>12. (a \o r) \o y = a \o (r \o y)
  <2>1. \A s1, s2, s3 \in Seq(Pieces) : (s1 \o s2) \o s3 = s1 \o (s2 \o s3)
    BY ConcatAssociative
  <2> QED
    BY <1>1, <1>6, <1>9, <2>1
<1>13. Faithful(a \o r, h)
  BY <1>4, <1>5 DEF Sound
<1>14. Below(Named(Range(a \o r)), Named(Range(y)))
  <2>1. Below(Files(d) \cup Named(Range(r)), Range(c))
    BY <1>5, <1>7 DEF Sound, Below
  <2>2. Named(Range(a)) \subseteq Files(d)
    BY <1>4 DEF Files
  <2>3. Named(Range(a \o r)) \subseteq Files(d) \cup Named(Range(r))
    BY <1>11, <2>2 DEF Named
  <2> QED
    BY <1>9, <2>1, <2>3 DEF Below
<1>15. Faithful(a \o (r \o y), h)
  <2> DEFINE b == a \o r
  <2>1. b \in Seq(Pieces) /\ Faithful(b, h) /\ Below(Named(Range(b)), Named(Range(y)))
    BY <1>11, <1>13, <1>14
  <2> HIDE DEF b
  <2>2. Faithful(b \o y, h)
    BY <1>4, <1>9, <2>1, FaithfulConcat
  <2> QED
    BY <1>12, <2>2 DEF b
<1>16. Named(Range(r \o y)) = Named(Range(r)) \cup Range(c)
  BY <1>9, <1>10 DEF Named
<1>17. /\ Below(Files(d) \cup Named(Range(r \o y)), Range(u) \cup Range(q))
       /\ Below(Range(u), Range(q))
       /\ Files(d) \cup Named(Range(r \o y)) \cup Range(u) \cup Range(q) \subseteq U
  <2>1. /\ Below(Files(d) \cup Named(Range(r)), Range(t) \cup Range(q))
        /\ Below(Range(t), Range(q))
        /\ Files(d) \cup Named(Range(r)) \cup Range(t) \cup Range(q) \subseteq U
    BY <1>5 DEF Sound
  <2>2. Below(Files(d) \cup Named(Range(r)), Range(u) \cup Range(q))
    BY <1>7, <2>1 DEF Below
  <2>3. Below(Range(c), Range(u) \cup Range(q)) /\ Below(Range(u), Range(q))
    BY <1>7, <2>1 DEF Below
  <2>4. Below(Files(d) \cup Named(Range(r)) \cup Range(c), Range(u) \cup Range(q))
    BY <2>2, <2>3 DEF Below
  <2> QED
    BY <1>7, <1>16, <2>1, <2>3, <2>4
<1>18. Sound(U, d, r \o y, u, q, h)
  BY <1>4, <1>5, <1>7, <1>10, <1>15, <1>17 DEF Sound
<1> QED
  BY <1>7, <1>18 DEF n, c, u, h, y

-----------------------------------------------------------------------------
(* The pieces of a step of the writer.                                     *)

\* The object store has every file that is neither open nor out of date.
Mirrored(d) == \A h \in Hours \ (unsynced \cup {current}) : mirror[h] = d[h]

\* The state a write has left, in the middle of a step: the files d, what the
\* open file's buffer holds, and the frames t and q to come.
Loaded(d, r, t, q) == TypeOK /\ Sound(offered, d, r, t, q, current) /\ Mirrored(d)

\* The files at the end of the step.
Landed(d, t, q) ==
    /\ Sound(offered, disk', residue' \o Text(chunk'), todo', q, current')
    /\ MirrorComplete'
    /\ residue' \in Seq(Pieces) /\ chunk' \in Seq(Frames)
    /\ Range(chunk') \cup Range(todo') \subseteq Range(t)
    /\ Wholes(d) \subseteq Wholes(disk')
    /\ current' \in Hours \cup {NoHour}
    /\ mirror' \in [Hours -> Seq(Pieces)]
    /\ unsynced' \subseteq Hours

\* With no chunk out, what is on its way to the file is what its buffer holds.
LEMMA NoChunk ==
    ASSUME NEW r \in Seq(Pieces)
    PROVE  r \o Text(<<>>) = r
<1>1. <<>> \in Seq(Frames)
  BY EmptySeq
<1>2. Text(<<>>) = <<>>
  BY <1>1, Lines
<1> QED
  BY <1>2, ConcatEmptySeq

\* _finalize_current: nothing more belongs to the file, and the store has it.
LEMMA Finalizes ==
    ASSUME NEW d, NEW r, NEW t, NEW q, Loaded(d, r, t, q), Finalize(d, r), NEW cur
    PROVE  /\ Sound(offered, disk', <<>>, t, q, cur)
           /\ \A h \in Hours \ unsynced' : mirror'[h] = disk'[h]
           /\ mirror' \in [Hours -> Seq(Pieces)] /\ unsynced' \subseteq Hours
           /\ Wholes(d) \subseteq Wholes(disk')
<1>0. q \in Seq(Frames) /\ Ordered(q) /\ d \in [Hours -> Seq(Pieces)] /\ r \in Seq(Pieces)
  BY DEF Loaded, Sound
<1>1. CASE current = NoHour
  <2>1. disk' = d /\ mirror' = mirror /\ unsynced' = unsynced
    BY <1>1 DEF Finalize
  <2>2. Sound(offered, d, <<>>, t, q, cur)
    BY <1>0, Less DEF Loaded
  <2>3. \A h \in Hours : h # current
    BY <1>1, SpoolAssumption
  <2> QED
    BY <2>1, <2>2, <2>3 DEF Loaded, Mirrored, TypeOK
<1>2. CASE current # NoHour
  <2>1. current \in Hours
    BY <1>2 DEF Loaded, TypeOK
  <2>2. PICK n \in 0 .. Len(r) :
          /\ disk' = Extend(d, current, Take(r, n))
          /\ \/ /\ mirror' = [mirror EXCEPT ![current] = disk'[current]]
                /\ unsynced' = unsynced \ {current}
             \/ /\ unsynced' = unsynced \cup {current}
                /\ UNCHANGED mirror
    BY <1>2 DEF Finalize
  <2>4. Sound(offered, disk', <<>>, t, q, current) /\ Take(r, n) \in Seq(Pieces)
    BY <2>1, <2>2, Breaks DEF Loaded
  <2>5. Sound(offered, disk', <<>>, t, q, cur)
    BY <1>0, <2>4, Less
  <2>7. /\ disk' \in [Hours -> Seq(Pieces)]
        /\ \A h \in Hours \ {current} : disk'[h] = d[h]
        /\ Wholes(d) \subseteq Wholes(disk')
    <3> DEFINE w == Take(r, n)
    <3>1. disk' = Extend(d, current, w) /\ w \in Seq(Pieces)
      BY <2>2, <2>4
    <3> HIDE DEF w
    <3>2. /\ Extend(d, current, w) \in [Hours -> Seq(Pieces)]
          /\ \A h \in Hours \ {current} : Extend(d, current, w)[h] = d[h]
          /\ Wholes(d) \subseteq Wholes(Extend(d, current, w))
      BY <1>0, <2>1, <3>1, ExtendFiles
    <3> QED
      BY <3>1, <3>2
  <2>8. mirror' \in [Hours -> Seq(Pieces)] /\ unsynced' \subseteq Hours
    BY <2>1, <2>2, <2>7 DEF Loaded, TypeOK
  <2>9. \A h \in Hours \ unsynced' : mirror'[h] = disk'[h]
    BY <2>1, <2>2, <2>7 DEF Loaded, TypeOK, Mirrored
  <2> QED
    BY <2>5, <2>7, <2>8, <2>9
<1> QED
  BY <1>1, <1>2

\* _handle_for, and the next chunk on its way to the executor.
LEMMA BeginsChunk ==
    ASSUME NEW d, NEW r, NEW t, NEW q, Loaded(d, r, t, q), t # <<>>, BeginChunk(t, d, r)
    PROVE  Landed(d, t, q) /\ Range(chunk') \cup Range(todo') = Range(t)
<1> DEFINE h == t[1].hour
<1>1. t \in Seq(Frames) /\ r \in Seq(Pieces)
  BY DEF Loaded, Sound
<1>2. h \in Hours
  BY <1>1, SomeFrames DEF Frames
<1>3. Switch(h, d, r) /\ chunk' = Take(t, RunLength(t)) /\ todo' = Rest(t, RunLength(t))
  BY DEF BeginChunk
<1> HIDE DEF h
<1>4. /\ Sound(offered, disk', residue', t, q, h)
      /\ MirrorComplete'
      /\ residue' \in Seq(Pieces) /\ Wholes(d) \subseteq Wholes(disk') /\ current' = h
      /\ mirror' \in [Hours -> Seq(Pieces)] /\ unsynced' \subseteq Hours
  <2>1. CASE h = current
    BY <1>1, <1>3, <2>1 DEF Switch, Loaded, Mirrored, MirrorComplete, TypeOK
  <2>2. CASE h # current
    <3>1. Finalize(d, r) /\ residue' = <<>> /\ current' = h
      BY <1>3, <2>2 DEF Switch
    <3> QED
      BY <3>1, Finalizes, NoPieces DEF MirrorComplete
  <2> QED
    BY <2>1, <2>2
<1>5. /\ Sound(offered, disk', residue' \o Text(chunk'), todo', q, h)
      /\ chunk' \in Seq(Frames)
      /\ Range(chunk') \cup Range(todo') = Range(t)
  BY <1>3, <1>4, Hands DEF h
<1> QED
  BY <1>2, <1>4, <1>5 DEF Landed

\* The file is finalized with no batch in hand.
LEMMA Closes ==
    ASSUME NEW d, NEW r, NEW t, NEW q, Loaded(d, r, t, q), Finalize(d, r),
           residue' = <<>>, current' = NoHour, chunk' = <<>>, todo' = <<>>
    PROVE  Landed(d, t, q)
<1>1. /\ Sound(offered, disk', <<>>, t, q, NoHour)
      /\ \A h \in Hours \ unsynced' : mirror'[h] = disk'[h]
      /\ mirror' \in [Hours -> Seq(Pieces)] /\ unsynced' \subseteq Hours
      /\ Wholes(d) \subseteq Wholes(disk')
  BY Finalizes
<1>2. q \in Seq(Frames) /\ Ordered(q)
  BY DEF Loaded, Sound
<1>3. Sound(offered, disk', <<>>, <<>>, q, NoHour)
  BY <1>1, <1>2, Less
<1>4. residue' \o Text(chunk') = <<>>
  BY NoPieces, NoChunk
<1> QED
  BY <1>1, <1>3, <1>4, NoFrames, NoPieces DEF Landed, MirrorComplete

\* Every way on from a write keeps the archive in order.
LEMMA NextLands ==
    ASSUME NEW d, NEW r, NEW t, NEW q, Loaded(d, r, t, q), NextChunk(t, d, r)
    PROVE  Landed(d, t, q)
<1>1. ASSUME t # <<>>, BeginChunk(t, d, r) PROVE Landed(d, t, q)
  BY <1>1, BeginsChunk
<1>2. ASSUME AbandonBatch(t, d, r) PROVE Landed(d, t, q)
  BY <1>2, Closes DEF AbandonBatch, SwitchFails
<1>3. ASSUME EndBatch(d, r), writer = "off" PROVE Landed(d, t, q)
  BY <1>3, Closes DEF EndBatch, FinishClose
<1>4. ASSUME EndBatch(d, r), writer # "off" PROVE Landed(d, t, q)
  <2>1. /\ disk' = d /\ residue' = r /\ chunk' = <<>> /\ todo' = <<>>
        /\ UNCHANGED <<current, mirror, unsynced>>
    BY <1>4 DEF EndBatch
  <2>2. q \in Seq(Frames) /\ Ordered(q) /\ r \in Seq(Pieces)
    BY DEF Loaded, Sound
  <2>3. Sound(offered, d, r, <<>>, q, current)
    BY <2>2, Less DEF Loaded
  <2>4. residue' \o Text(chunk') = r
    BY <2>1, <2>2, NoChunk
  <2> QED
    BY <2>1, <2>2, <2>3, <2>4, NoFrames DEF Landed, Loaded, Mirrored, MirrorComplete, TypeOK
<1> QED
  BY <1>1, <1>2, <1>3, <1>4 DEF NextChunk

-----------------------------------------------------------------------------
(* The inductive invariant.                                                *)

\* All the frames there are, in one order: the files, what the open file still
\* lacks, the rest of the batch, the queue.
InOrder == Sound(offered, disk, Data, todo, queue, current)

\* Frames are numbered as they are offered.
Numbered == IsFiniteSet(offered) /\ \A f \in offered : f.id <= Cardinality(offered)

\* A frame on its way is not counted as dropped, and one counted as written is in
\* the files.
Uncounted(S) == S \cap counted = {}
Apart == /\ counted \subseteq offered
         /\ written \subseteq OnDisk /\ written \cap counted = {}
         /\ Uncounted(Range(chunk) \cup Range(todo) \cup Range(queue))

\* Who has a batch in hand.
Batched == /\ chunk # <<>> \/ todo # <<>>
                => writer = "writing" \/ (writer = "off" /\ closer = "draining")
           /\ closer = "draining" => closing /\ writer = "off"

Inv == TypeOK /\ InOrder /\ Numbered /\ Apart /\ Batched /\ MirrorComplete

\* What is on its way to the open file.
LEMMA DataIs ==
    ASSUME TypeOK
    PROVE  /\ Data \in Seq(Pieces) /\ Len(Data) \in Nat
           /\ Len(residue) \in 0 .. Len(Data)
           /\ Named(Range(Data)) = Named(Range(residue)) \cup Range(chunk)
           /\ \A f \in Range(chunk) : Beginning(f) \in Range(Data)
           /\ Range(chunk) \subseteq Whole(Data)
           /\ chunk = <<>> => Data = residue
           /\ chunk # <<>> => Data # <<>>
<1> DEFINE y == Text(chunk)
<1>1. residue \in Seq(Pieces) /\ chunk \in Seq(Frames)
  BY DEF TypeOK
<1>2. /\ y \in Seq(Pieces) /\ Named(Range(y)) = Range(chunk)
      /\ Range(chunk) \subseteq Whole(y)
      /\ \A f \in Range(chunk) : Beginning(f) \in Range(y)
  BY <1>1, Lines
<1>3. Data = residue \o y
  BY DEF Data
<1>4. chunk = <<>> => Data = residue
  BY <1>1, <1>3, NoChunk
<1> HIDE DEF y
<1>5. /\ Data \in Seq(Pieces) /\ Len(Data) = Len(residue) + Len(y)
      /\ Range(Data) = Range(residue) \cup Range(y)
      /\ Whole(y) \subseteq Whole(Data)
  BY <1>1, <1>2, <1>3, ConcatProperties, RangeConcatenation, WholeConcat
<1>6. Len(residue) \in Nat /\ Len(y) \in Nat
  BY <1>1, <1>2, LenProperties
<1>7. Named(Range(Data)) = Named(Range(residue)) \cup Range(chunk)
  BY <1>2, <1>5 DEF Named
<1>8. chunk # <<>> => Data # <<>>
  <2>1. chunk # <<>> => Range(Data) # {}
    BY <1>1, <1>2, <1>5, SomeFrames
  <2> QED
    BY <2>1, NoPieces
<1>9. Len(Data) \in Nat /\ Len(residue) \in 0 .. Len(Data)
  BY <1>5, <1>6
<1>10. /\ \A f \in Range(chunk) : Beginning(f) \in Range(Data)
       /\ Range(chunk) \subseteq Whole(Data)
  BY <1>2, <1>5
<1> QED
  BY <1>4, <1>5, <1>7, <1>8, <1>9, <1>10

\* No frame was offered before itself.
LEMMA Disjoint ==
    ASSUME NEW S, NEW T \in SUBSET Frames, Below(S, T)
    PROVE  S \cap T = {}
BY DEF Below, Frames

\* A frame in the files is in that of its hour, and none of the chunk is there.
LEMMA Placed ==
    ASSUME NEW U, NEW d, NEW x, NEW t, NEW q, NEW cur, Sound(U, d, x, t, q, cur)
    PROVE  /\ \A h \in Hours : \A p \in Range(d[h]) : p.frame.hour = h
           /\ \A f \in Wholes(d) : f.hour \in Hours /\ f \in Whole(d[f.hour])
           /\ \A h \in Hours : Range(d[h]) \cap Range(x) = {}
<1>1. /\ d \in [Hours -> Seq(Pieces)] /\ x \in Seq(Pieces)
      /\ \A h \in Hours : d[h] \in Seq(Pieces) /\ Faithful(d[h], h)
  BY DEF Sound
<1>2. ASSUME NEW h \in Hours, NEW p \in Range(d[h]) PROVE p.frame.hour = h
  <2>1. PICK i \in DOMAIN d[h] : p = d[h][i]
    BY DEF Range
  <2> QED
    BY <1>1, <2>1 DEF Faithful
<1>3. ASSUME NEW h \in Hours, NEW f \in Whole(d[h]) PROVE f.hour = h
  <2>1. Beginning(f) \in Range(d[h]) /\ f \in Frames
    BY <1>1, WholeBegins
  <2>2. Beginning(f).frame.hour = h
    BY <1>2, <2>1
  <2> QED
    BY <2>1, <2>2, TwoPieces
<1>4. ASSUME NEW f \in Wholes(d) PROVE f.hour \in Hours /\ f \in Whole(d[f.hour])
  <2>1. PICK h \in Hours : f \in Whole(d[h])
    BY DEF Wholes
  <2> QED
    BY <1>3, <2>1
<1>5. ASSUME NEW h \in Hours, NEW p \in Range(d[h]) \cap Range(x) PROVE FALSE
  <2>1. x # <<>>
    BY NoPieces
  <2>2. cur \in Hours /\ Faithful(d[cur] \o x, cur)
    BY <2>1 DEF Sound
  <2>3. PICK i \in 1 .. Len(x) : x[i] = p
    BY <1>1, SomePieces
  <2>4. p.frame.hour = cur
    <3> DEFINE a == d[cur]
    <3>1. a \in Seq(Pieces)
      BY <1>1, <2>2
    <3>2. Faithful(a \o x, cur)
      BY <2>2
    <3> HIDE DEF a
    <3>3. /\ Len(a) \in Nat /\ Len(x) \in Nat
          /\ DOMAIN (a \o x) = 1 .. Len(a) + Len(x)
          /\ \A k \in 1 .. Len(a) + Len(x) :
                (a \o x)[k] = IF k <= Len(a) THEN a[k] ELSE x[k - Len(a)]
      BY <1>1, <3>1, ConcatProperties, LenProperties
    <3>4. /\ Len(a) + i \in 1 .. Len(a) + Len(x) /\ ~(Len(a) + i <= Len(a))
          /\ (Len(a) + i) - Len(a) = i
      BY <3>3
    <3>5. (a \o x)[Len(a) + i] = p
      BY <2>3, <3>3, <3>4
    <3> QED
      BY <3>2, <3>3, <3>4, <3>5 DEF Faithful
  <2>5. h = cur
    BY <1>2, <2>4
  <2> QED
    BY <1>1, <2>2, <2>5, Once
<1> QED
  BY <1>2, <1>4, <1>5

\* What the rest of the step leaves of Inv once the files have landed: the frames
\* of t were uncounted, and the counters moved from the files d as they were.
LEMMA Settles ==
    ASSUME NEW d, NEW t, Landed(d, t, queue'), queue' \in Seq(Frames), Numbered,
           offered' = offered, counted' \subseteq offered, written' \subseteq Wholes(d),
           written' \cap counted' = {},
           (Range(t) \cup Range(queue')) \cap counted' = {}
    PROVE  InOrder' /\ Numbered' /\ Apart' /\ MirrorComplete' /\ todo' \in Seq(Frames)
<1>1. InOrder' /\ MirrorComplete' /\ todo' \in Seq(Frames)
  BY DEF Landed, InOrder, Sound, Data
<1>2. Numbered'
  BY DEF Numbered
<1>3. OnDisk' = Wholes(disk')
  BY DEF OnDisk, Wholes
<1>4. Apart'
  BY <1>3 DEF Landed, Apart, Uncounted
<1> QED
  BY <1>1, <1>2, <1>4

-----------------------------------------------------------------------------
(* The steps.                                                              *)

\* A new spool on an empty directory satisfies the invariant.
THEOREM Starts == Init => Inv
<1> SUFFICES ASSUME Init PROVE Inv
  OBVIOUS
<1>1. TypeOK
  <2>1. disk \in [Hours -> Seq(Pieces)] /\ mirror \in [Hours -> Seq(Pieces)]
    BY NoPieces DEF Init
  <2>2. 0 <= QueueSize /\ 0 \in 0 .. MaxKills
    BY SpoolAssumption
  <2> QED
    BY <2>1, <2>2, NoFrames, NoPieces DEF Init, TypeOK, WriterPlaces, CloserPlaces
<1>2. Data = <<>>
  BY <1>1, DataIs DEF Init
<1>3. Files(disk) = {} /\ OnDisk = {}
  BY NoPieces DEF Init, Files, OnDisk
<1>4. InOrder
  <2>1. \A h \in Hours : Faithful(disk[h], h)
    BY NoPieces DEF Init
  <2>2. current \notin Hours
    BY SpoolAssumption DEF Init
  <2> QED
    BY <1>1, <1>2, <1>3, <2>1, <2>2, NoFrames, NoPieces DEF Init, InOrder, Sound, Below, TypeOK
<1>5. Numbered
  BY FS_EmptySet DEF Init, Numbered
<1>6. Apart /\ Batched /\ MirrorComplete
  BY <1>3, NoFrames DEF Init, Apart, Uncounted, Batched, MirrorComplete
<1> QED
  BY <1>1, <1>4, <1>5, <1>6 DEF Inv

\* A new frame is after all there are.
LEMMA Enqueues ==
    ASSUME Inv, NEW hour \in Hours, Enqueue(hour)
    PROVE  Inv'
<1> DEFINE frame == [id |-> Cardinality(offered) + 1, hour |-> hour]
<1>1. /\ ~closing /\ frame.id <= MaxFrames
      /\ offered' = offered \cup {frame}
      /\ IF Len(queue) < QueueSize
         THEN queue' = Append(queue, frame) /\ UNCHANGED counted
         ELSE counted' = counted \cup {frame} /\ UNCHANGED queue
      /\ UNCHANGED <<written, closing, closed, writer, closer, todo, chunk,
                     residue, current, disk, mirror, unsynced, kills>>
  BY DEF Enqueue, fileVars
<1>2. IsFiniteSet(offered) /\ Cardinality(offered) \in Nat
  BY FS_CardinalityType DEF Inv, Numbered
<1>3. frame \in Frames /\ frame.id = Cardinality(offered) + 1
  BY <1>1, <1>2, SpoolAssumption DEF Frames
<1>4. \A f \in offered : f \in Frames /\ f.id < frame.id
  BY <1>2, <1>3 DEF Inv, Numbered, TypeOK, Frames
<1>5. frame \notin offered
  BY <1>3, <1>4 DEF Frames
<1> HIDE DEF frame
<1>6. Numbered'
  <2>1. IsFiniteSet(offered') /\ Cardinality(offered') = Cardinality(offered) + 1
    BY <1>1, <1>2, <1>5, FS_AddElement
  <2> QED
    <3>1. \A f \in offered : f.id \in Nat /\ f.id < Cardinality(offered) + 1
      BY <1>3, <1>4 DEF Frames
    <3>2. \A f \in offered' : f.id <= Cardinality(offered) + 1
      BY <1>1, <1>2, <1>3, <3>1
    <3> QED
      BY <2>1, <3>2 DEF Numbered
<1>7. OnDisk' = OnDisk /\ Data' = Data
  BY <1>1 DEF OnDisk, Data
<1>8. TypeOK /\ Sound(offered, disk, Data, todo, queue, current)
  BY DEF Inv, InOrder
<1>9. queue \in Seq(Frames) /\ Len(queue) \in Nat /\ Ordered(queue) /\ Range(queue) \subseteq offered
  BY <1>8, LenProperties DEF TypeOK, Sound
<1>10. MirrorComplete' /\ Batched'
  BY <1>1 DEF Inv, MirrorComplete, Batched
<1>11. CASE Len(queue) < QueueSize
  <2>1. queue' = Append(queue, frame) /\ counted' = counted
    BY <1>1, <1>11
  <2>2. /\ queue' \in Seq(Frames) /\ Len(queue') = Len(queue) + 1
        /\ Range(queue') = Range(queue) \cup {frame} /\ Ordered(queue')
    <3>1. Append(queue, frame) = queue \o <<frame>>
      BY <1>3, <1>9, AppendIsConcat
    <3>2. <<frame>> \in Seq(Frames) /\ Range(<<frame>>) = {frame} /\ Ordered(<<frame>>)
      BY <1>3 DEF Range, Ordered
    <3>3. Below(Range(queue), Range(<<frame>>))
      BY <1>4, <1>9, <3>2 DEF Below
    <3>4. Ordered(queue \o <<frame>>)
      BY <1>9, <3>2, <3>3, OrderedConcat
    <3>5. /\ queue \o <<frame>> \in Seq(Frames)
          /\ Range(queue \o <<frame>>) = Range(queue) \cup {frame}
      <4> DEFINE one == <<frame>>
      <4>1. one \in Seq(Frames) /\ Range(one) = {frame}
        BY <3>2
      <4> HIDE DEF one
      <4>2. queue \o one \in Seq(Frames)
        BY <1>9, <4>1, ConcatProperties
      <4>3. Range(queue \o one) = Range(queue) \cup Range(one)
        BY <1>9, <4>1, RangeConcatenation
      <4> QED
        BY <4>1, <4>2, <4>3 DEF one
    <3>6. Len(Append(queue, frame)) = Len(queue) + 1
      BY <1>3, <1>9
    <3> QED
      BY <2>1, <3>1, <3>4, <3>5, <3>6
  <2>3. Len(queue') <= QueueSize
    BY <1>9, <1>11, <2>2, SpoolAssumption
  <2>4. TypeOK'
    BY <1>1, <1>3, <1>8, <2>1, <2>2, <2>3 DEF TypeOK
  <2>5. InOrder'
    BY <1>1, <1>4, <1>7, <1>8, <2>2 DEF InOrder, Sound, Below
  <2>6. Apart'
    BY <1>1, <1>5, <1>7, <2>1, <2>2 DEF Inv, Apart, Uncounted
  <2> QED
    BY <1>6, <1>10, <2>4, <2>5, <2>6 DEF Inv
<1>12. CASE ~(Len(queue) < QueueSize)
  <2>1. counted' = counted \cup {frame} /\ queue' = queue
    BY <1>1, <1>12
  <2>2. TypeOK'
    BY <1>1, <1>3, <1>8, <2>1 DEF TypeOK
  <2>3. InOrder'
    BY <1>1, <1>7, <1>8, <2>1 DEF InOrder, Sound
  <2>4. Range(chunk) \subseteq Named(Range(Data))
    BY <1>8, DataIs
  <2>5. frame \notin written \cup Range(chunk) \cup Range(todo) \cup Range(queue)
    <3>1. OnDisk \subseteq Files(disk)
      <4>1. \A h \in Hours : Whole(disk[h]) \subseteq Named(Range(disk[h]))
        BY <1>8, WholeBegins DEF TypeOK
      <4> QED
        BY <4>1 DEF OnDisk, Files
    <3>2. written \subseteq OnDisk
      BY DEF Inv, Apart
    <3> QED
      BY <1>5, <1>8, <2>4, <3>1, <3>2 DEF Sound
  <2>6. Apart'
    BY <1>1, <1>7, <2>1, <2>5 DEF Inv, Apart, Uncounted
  <2> QED
    BY <1>6, <1>10, <2>2, <2>3, <2>6 DEF Inv
<1> QED
  BY <1>11, <1>12

\* Steps that only move the tasks.
LEMMA TasksMove ==
    ASSUME Inv,
           UNCHANGED <<queue, offered, counted, written, closed, todo, chunk, residue,
                       current, disk, mirror, unsynced, kills>>,
           writer' \in WriterPlaces, closer' \in CloserPlaces, closing' \in BOOLEAN,
           Batched'
    PROVE  Inv'
<1>1. TypeOK'
  BY DEF Inv, TypeOK
<1>2. InOrder' /\ Numbered' /\ MirrorComplete'
  BY DEF Inv, InOrder, Numbered, MirrorComplete, Data
<1>3. Apart'
  BY DEF Inv, Apart, Uncounted, OnDisk
<1> QED
  BY <1>1, <1>2, <1>3 DEF Inv

\* A batch is taken from the queue: nothing else was in hand.
LEMMA TakesBatch ==
    ASSUME Inv, chunk = <<>>, todo = <<>>, NEW n \in Nat \ {0}
    PROVE  /\ Loaded(disk, residue, Take(queue, n), Rest(queue, n))
           /\ Rest(queue, n) \in Seq(Frames) /\ Len(Rest(queue, n)) <= QueueSize
           /\ (Range(Take(queue, n)) \cup Range(Rest(queue, n))) \cap counted = {}
           /\ queue # <<>> => Take(queue, n) # <<>>
<1>1. TypeOK /\ Sound(offered, disk, Data, todo, queue, current)
  BY DEF Inv, InOrder
<1>2. Data = residue /\ queue \in Seq(Frames)
  BY <1>1, DataIs DEF TypeOK
<1>3. Sound(offered, disk, residue, todo, queue, current)
  BY <1>1, <1>2
<1> DEFINE t == Take(queue, n)
           q == Rest(queue, n)
<1>4. /\ t \in Seq(Frames) /\ q \in Seq(Frames) /\ Range(queue) = Range(t) \cup Range(q)
      /\ Ordered(t) /\ Ordered(q) /\ Below(Range(t), Range(q))
      /\ Len(q) <= Len(queue) /\ (queue # <<>> => t # <<>>)
  BY <1>2, <1>3, Cut DEF Sound
<1> HIDE DEF t, q
<1>5. Sound(offered, disk, residue, t, q, current)
  BY <1>3, <1>4 DEF Sound, Below
<1>6. Mirrored(disk)
  BY DEF Inv, MirrorComplete, Mirrored
<1>7. Len(q) <= QueueSize
  BY <1>1, <1>2, <1>4, LenProperties, SpoolAssumption DEF TypeOK
<1>8. (Range(t) \cup Range(q)) \cap counted = {}
  BY <1>4 DEF Inv, Apart, Uncounted
<1> QED
  BY <1>1, <1>4, <1>5, <1>6, <1>7, <1>8 DEF Loaded, t, q

\* _writer_loop hands a batch to _write_batch.
LEMMA Takes ==
    ASSUME Inv, WriterTakes
    PROVE  Inv'
<1> DEFINE n == BatchLines + 1
           t == Take(queue, n)
           q == Rest(queue, n)
<1>1. n \in Nat \ {0}
  BY SpoolAssumption
<1>2. /\ writer = "waiting" /\ queue # <<>> /\ queue' = q
      /\ \/ /\ BeginChunk(t, disk, residue) /\ writer' = "writing"
            /\ UNCHANGED <<closer, closed>>
         \/ AbandonBatch(t, disk, residue)
      /\ UNCHANGED <<offered, counted, written, closing, kills>>
  BY DEF WriterTakes
<1>3. chunk = <<>> /\ todo = <<>>
  BY <1>2 DEF Inv, Batched
<1>4. /\ Loaded(disk, residue, t, q) /\ q \in Seq(Frames) /\ Len(q) <= QueueSize
      /\ (Range(t) \cup Range(q)) \cap counted = {} /\ t # <<>>
  BY <1>1, <1>2, <1>3, TakesBatch
<1> HIDE DEF n, t, q
<1>5. Landed(disk, t, q)
  <2>1. CASE BeginChunk(t, disk, residue)
    BY <1>4, <2>1, BeginsChunk
  <2>2. CASE AbandonBatch(t, disk, residue)
    BY <1>4, <2>2, Closes DEF AbandonBatch, SwitchFails
  <2> QED
    BY <1>2, <2>1, <2>2
<1>6. TypeOK /\ Numbered /\ counted \subseteq offered /\ written \subseteq Wholes(disk)
      /\ written \cap counted = {}
  BY DEF Inv, Apart, OnDisk, Wholes
<1>7. InOrder' /\ Numbered' /\ Apart' /\ MirrorComplete' /\ todo' \in Seq(Frames)
  BY <1>2, <1>4, <1>5, <1>6, Settles
<1>8. Batched' /\ writer' \in WriterPlaces /\ closer' \in CloserPlaces /\ closed' \in BOOLEAN
  <2>1. CASE BeginChunk(t, disk, residue) /\ writer' = "writing" /\ UNCHANGED <<closer, closed>>
    BY <1>2, <1>6, <2>1 DEF Inv, Batched, TypeOK, WriterPlaces
  <2>2. CASE AbandonBatch(t, disk, residue)
    BY <1>2, <1>6, <2>2 DEF Inv, Batched, TypeOK, WriterPlaces, AbandonBatch
  <2> QED
    BY <1>2, <2>1, <2>2
<1>9. TypeOK'
  BY <1>2, <1>4, <1>5, <1>6, <1>7, <1>8 DEF TypeOK, Landed, Sound
<1> QED
  BY <1>7, <1>8, <1>9 DEF Inv

\* The executor answers, having written the part w of what the file lacked and
\* left the part r in its buffer.
LEMMA Answers ==
    ASSUME Inv, chunk # <<>>, NEW w \in Seq(Pieces), NEW r \in Seq(Pieces),
           Sound(offered, Extend(disk, current, w), r, todo, queue, current),
           NextChunk(todo, Extend(disk, current, w), r),
           UNCHANGED <<queue, offered, closing, kills>>,
           written' \in SUBSET Frames, counted' \subseteq offered,
           written' \subseteq Wholes(Extend(disk, current, w)), written' \cap counted' = {},
           (Range(todo) \cup Range(queue)) \cap counted' = {}
    PROVE  Inv'
<1> DEFINE d == Extend(disk, current, w)
<1>1. TypeOK /\ Numbered /\ Batched /\ MirrorComplete
  BY DEF Inv
<1>2. current \in Hours
  <2>1. Data # <<>>
    BY <1>1, DataIs
  <2> QED
    BY <2>1 DEF Inv, InOrder, Sound
<1>3. /\ d \in [Hours -> Seq(Pieces)]
      /\ \A h \in Hours \ {current} : d[h] = disk[h]
  <2>1. disk \in [Hours -> Seq(Pieces)]
    BY <1>1 DEF TypeOK
  <2>2. /\ Extend(disk, current, w) \in [Hours -> Seq(Pieces)]
        /\ \A h \in Hours \ {current} : Extend(disk, current, w)[h] = disk[h]
    BY <1>2, <2>1, ExtendFiles
  <2> QED
    BY <2>2
<1>a. written' \subseteq Wholes(d)
  OBVIOUS
<1> HIDE DEF d
<1>4. Loaded(d, r, todo, queue)
  BY <1>1, <1>3 DEF Loaded, Mirrored, MirrorComplete, d
<1>5. Landed(d, todo, queue)
  BY <1>4, NextLands DEF d
<1>6. InOrder' /\ Numbered' /\ Apart' /\ MirrorComplete' /\ todo' \in Seq(Frames)
  BY <1>1, <1>5, <1>a, Settles DEF TypeOK
<1>7. Batched' /\ writer' \in WriterPlaces /\ closer' \in CloserPlaces /\ closed' \in BOOLEAN
  <2>1. CASE BeginChunk(todo, d, r) /\ UNCHANGED <<writer, closer, closed>>
    BY <1>1, <2>1 DEF Batched, TypeOK
  <2>2. CASE AbandonBatch(todo, d, r)
    BY <1>1, <2>2 DEF Batched, TypeOK, AbandonBatch, WriterPlaces, CloserPlaces
  <2>3. CASE EndBatch(d, r)
    BY <1>1, <2>3 DEF Batched, TypeOK, EndBatch, FinishClose, WriterPlaces, CloserPlaces
  <2> QED
    BY <2>1, <2>2, <2>3 DEF NextChunk, d
<1>8. TypeOK'
  BY <1>1, <1>5, <1>6, <1>7, SpoolAssumption DEF TypeOK, Landed, Sound, Frames
<1> QED
  BY <1>6, <1>7, <1>8 DEF Inv

\* The executor's two answers.
LEMMA WriteAnswers ==
    ASSUME Inv, WriteDone \/ WriteFails
    PROVE  Inv'
<1>1. TypeOK /\ Sound(offered, disk, Data, todo, queue, current)
  BY DEF Inv, InOrder
<1>2. chunk # <<>> /\ UNCHANGED <<queue, offered, closing, kills>>
  BY DEF WriteDone, WriteFails, queueVars
<1>3. /\ Data \in Seq(Pieces) /\ Len(Data) \in Nat /\ Data # <<>>
      /\ Len(residue) \in 0 .. Len(Data)
      /\ Range(chunk) \subseteq Named(Range(Data)) /\ Range(chunk) \subseteq Whole(Data)
      /\ \A f \in Range(chunk) : Beginning(f) \in Range(Data)
  BY <1>1, <1>2, DataIs
<1>4. current \in Hours /\ disk \in [Hours -> Seq(Pieces)]
  BY <1>1, <1>3 DEF Sound
<1>5. /\ Range(chunk) \subseteq Frames /\ Range(chunk) \subseteq offered
      /\ Range(todo) \cup Range(queue) \subseteq Frames
  BY <1>1, <1>3, SomeFrames DEF TypeOK, Sound
<1>6. /\ counted \subseteq offered /\ written \subseteq Wholes(disk)
      /\ written \cap counted = {} /\ written \subseteq Frames
      /\ (Range(chunk) \cup Range(todo) \cup Range(queue)) \cap counted = {}
  BY <1>1 DEF Inv, Apart, Uncounted, OnDisk, Wholes, TypeOK
<1>7. CASE WriteDone
  <2>1. /\ written' = written \cup Range(chunk) /\ counted' = counted
        /\ NextChunk(todo, Extend(disk, current, Data), <<>>)
    BY <1>7 DEF WriteDone
  <2>2. Sound(offered, Extend(disk, current, Data), <<>>, todo, queue, current)
    BY <1>1, <1>4, Writes
  <2>3. Wholes(disk) \cup Whole(Data) \subseteq Wholes(Extend(disk, current, Data))
    BY <1>3, <1>4, ExtendFiles
  <2>4. /\ written' \in SUBSET Frames /\ counted' \subseteq offered
        /\ written' \subseteq Wholes(Extend(disk, current, Data))
        /\ written' \cap counted' = {}
        /\ (Range(todo) \cup Range(queue)) \cap counted' = {}
    BY <1>3, <1>5, <1>6, <2>1, <2>3
  <2> QED
    BY <1>2, <1>3, <2>1, <2>2, <2>4, NoPieces, Answers
<1>8. CASE WriteFails
  <2>1. PICK n \in 0 .. Len(Data), m \in {Len(residue), Len(Data)} :
          NextChunk(todo, Extend(disk, current, Take(Data, n)), SubSeq(Data, n + 1, m))
    BY <1>8 DEF WriteFails, Kept
  <2>2. counted' = counted \cup Range(chunk) /\ written' = written
    BY <1>8 DEF WriteFails
  <2>3. m \in 0 .. Len(Data)
    BY <1>3
  <2> DEFINE w == Take(Data, n)
             r == SubSeq(Data, n + 1, m)
  <2>4. /\ Sound(offered, Extend(disk, current, w), r, todo, queue, current)
        /\ w \in Seq(Pieces) /\ r \in Seq(Pieces)
    BY <1>1, <1>4, <2>3, Stops
  <2>5. NextChunk(todo, Extend(disk, current, w), r)
    BY <2>1
  <2> HIDE DEF w, r
  <2>6. Range(chunk) \cap Wholes(disk) = {}
    <3> SUFFICES ASSUME NEW f \in Range(chunk), f \in Wholes(disk) PROVE FALSE
      OBVIOUS
    <3>1. f.hour \in Hours /\ f \in Whole(disk[f.hour])
      BY <1>1, Placed
    <3>2. Beginning(f) \in Range(disk[f.hour])
      BY <1>4, <3>1, WholeBegins
    <3> QED
      BY <1>1, <1>3, <3>1, <3>2, Placed
  <2>7. Range(chunk) \cap (Range(todo) \cup Range(queue)) = {}
    <3>1. Below(Range(chunk), Range(todo) \cup Range(queue))
      BY <1>1, <1>3 DEF Sound, Below
    <3> QED
      BY <1>5, <3>1, Disjoint
  <2>8. Wholes(disk) \subseteq Wholes(Extend(disk, current, w))
    BY <1>4, <2>4, ExtendFiles
  <2>9. /\ written' \in SUBSET Frames /\ counted' \subseteq offered
        /\ written' \subseteq Wholes(Extend(disk, current, w))
        /\ written' \cap counted' = {}
        /\ (Range(todo) \cup Range(queue)) \cap counted' = {}
    BY <1>5, <1>6, <2>2, <2>6, <2>7, <2>8
  <2> QED
    BY <1>2, <2>4, <2>5, <2>9, Answers
<1> QED
  BY <1>7, <1>8

\* The batch is cut off: what is in the files stays there, and the rest of the
\* frames in hand are nowhere.
LEMMA Cuts ==
    ASSUME Inv, CutBatch, UNCHANGED <<queue, offered, counted, written, closing, closed,
                                      current, mirror, unsynced, kills>>,
           writer' \in WriterPlaces, closer' \in CloserPlaces,
           closer' = "draining" => closing' /\ writer' = "off"
    PROVE  Inv'
<1>1. /\ TypeOK /\ Sound(offered, disk, Data, todo, queue, current)
      /\ Numbered /\ Apart /\ MirrorComplete
  BY DEF Inv, InOrder
<1>2. /\ Data \in Seq(Pieces) /\ Len(Data) \in Nat /\ Len(residue) \in 0 .. Len(Data)
      /\ queue \in Seq(Frames) /\ Ordered(queue) /\ disk \in [Hours -> Seq(Pieces)]
  BY <1>1, DataIs DEF TypeOK, Sound
<1>3. PICK n \in 0 .. Len(Data), m \in {Len(residue), Len(Data)} :
        /\ disk' = IF Data = <<>> THEN disk ELSE Extend(disk, current, Take(Data, n))
        /\ residue' = SubSeq(Data, n + 1, m)
  BY DEF CutBatch, Kept
<1>4. chunk' = <<>> /\ todo' = <<>> /\ m \in 0 .. Len(Data)
  BY <1>2 DEF CutBatch
<1> DEFINE w == Take(Data, n)
           r == SubSeq(Data, n + 1, m)
<1>5. w \in Seq(Pieces) /\ r \in Seq(Pieces) /\ Range(r) \subseteq Range(Data) /\ residue' = r
  BY <1>2, <1>3, <1>4, Parts
<1>6. /\ Sound(offered, disk', residue', todo, queue, current)
      /\ Wholes(disk) \subseteq Wholes(disk')
      /\ \A h \in Hours \ {current} : disk'[h] = disk[h]
  <2>1. CASE Data = <<>>
    <3>1. disk' = disk
      BY <1>3, <2>1
    <3>2. residue' = <<>>
      BY <1>5, <2>1, NoPieces, SomePieces
    <3> QED
      BY <1>1, <2>1, <3>1, <3>2
  <2>2. CASE Data # <<>>
    <3>1. disk' = Extend(disk, current, w) /\ current \in Hours
      BY <1>1, <1>3, <2>2 DEF Sound
    <3>2. Sound(offered, Extend(disk, current, w), r, todo, queue, current)
      BY <1>1, <1>4, <3>1, Stops
    <3> HIDE DEF w, r
    <3>3. /\ Wholes(disk) \subseteq Wholes(Extend(disk, current, w))
          /\ \A h \in Hours \ {current} : Extend(disk, current, w)[h] = disk[h]
      BY <1>2, <1>5, <3>1, ExtendFiles
    <3> QED
      BY <1>5, <3>1, <3>2, <3>3
  <2> QED
    BY <2>1, <2>2
<1>7. Sound(offered, disk', residue', <<>>, queue, current)
  BY <1>2, <1>6, Less
<1>8. MirrorComplete'
  BY <1>1, <1>6 DEF MirrorComplete
<1> HIDE DEF w, r
<1>9. residue' \o Text(chunk') = residue'
  BY <1>4, <1>5, NoChunk
<1>10. Landed(disk, todo, queue)
  BY <1>1, <1>4, <1>5, <1>6, <1>7, <1>8, <1>9, NoFrames DEF Landed, TypeOK
<1>11. /\ counted \subseteq offered /\ written \subseteq Wholes(disk) /\ written \cap counted = {}
       /\ (Range(todo) \cup Range(queue)) \cap counted = {}
  BY <1>1 DEF Apart, Uncounted, OnDisk, Wholes
<1>12. InOrder' /\ Numbered' /\ Apart' /\ MirrorComplete' /\ todo' \in Seq(Frames)
  BY <1>1, <1>2, <1>10, <1>11, Settles
<1>13. TypeOK'
  BY <1>1, <1>4, <1>5, <1>7, NoFrames DEF TypeOK, Sound
<1>14. Batched'
  BY <1>4 DEF Batched
<1> QED
  BY <1>12, <1>13, <1>14 DEF Inv

\* close() comes to its end with no batch in hand.
LEMMA Finishes ==
    ASSUME Inv, FinishClose(disk, residue), chunk = <<>>, todo = <<>>,
           UNCHANGED <<queue, offered, counted, written, writer, todo, chunk, kills>>,
           closing' \in BOOLEAN
    PROVE  Inv'
<1>1. TypeOK /\ Sound(offered, disk, Data, todo, queue, current)
  BY DEF Inv, InOrder
<1>2. Data = residue
  BY <1>1, DataIs
<1>3. Loaded(disk, residue, todo, queue)
  BY <1>1, <1>2 DEF Inv, Loaded, Mirrored, MirrorComplete
<1>4. Landed(disk, todo, queue)
  BY <1>3, Closes DEF FinishClose
<1>5. /\ Numbered /\ counted \subseteq offered /\ written \subseteq Wholes(disk)
      /\ written \cap counted = {} /\ (Range(todo) \cup Range(queue)) \cap counted = {}
  BY DEF Inv, Apart, Uncounted, OnDisk, Wholes
<1>6. InOrder' /\ Numbered' /\ Apart' /\ MirrorComplete' /\ todo' \in Seq(Frames)
  BY <1>1, <1>4, <1>5, Settles DEF TypeOK
<1>7. TypeOK' /\ Batched'
  BY <1>1, <1>4, <1>6 DEF TypeOK, Landed, Sound, FinishClose, CloserPlaces, Batched
<1> QED
  BY <1>6, <1>7 DEF Inv

\* close() of a spool that was never started writes one batch itself.
LEMMA ClosesUnstarted ==
    ASSUME Inv, CloseUnstarted
    PROVE  Inv'
<1> DEFINE n == BatchLines
           t == Take(queue, n)
           q == Rest(queue, n)
<1>1. n \in Nat \ {0}
  BY SpoolAssumption
<1>2. /\ closer = "idle" /\ writer = "off" /\ closing' = TRUE /\ queue' = q
      /\ \/ t = <<>> /\ FinishClose(disk, residue) /\ UNCHANGED <<todo, chunk>>
         \/ /\ t # <<>> /\ BeginChunk(t, disk, residue)
            /\ closer' = "draining" /\ UNCHANGED closed
         \/ t # <<>> /\ AbandonBatch(t, disk, residue)
      /\ UNCHANGED <<offered, counted, written, writer, kills>>
  BY DEF CloseUnstarted
<1>3. chunk = <<>> /\ todo = <<>>
  BY <1>2 DEF Inv, Batched
<1>4. /\ Loaded(disk, residue, t, q) /\ q \in Seq(Frames) /\ Len(q) <= QueueSize
      /\ (Range(t) \cup Range(q)) \cap counted = {}
  BY <1>1, <1>3, TakesBatch
<1> HIDE DEF n, t, q
<1>5. Landed(disk, t, q)
  <2>1. CASE t = <<>> /\ FinishClose(disk, residue) /\ UNCHANGED <<todo, chunk>>
    BY <1>3, <1>4, <2>1, Closes DEF FinishClose
  <2>2. CASE t # <<>> /\ BeginChunk(t, disk, residue)
    BY <1>4, <2>2, BeginsChunk
  <2>3. CASE AbandonBatch(t, disk, residue)
    BY <1>4, <2>3, Closes DEF AbandonBatch, SwitchFails
  <2> QED
    BY <1>2, <2>1, <2>2, <2>3
<1>6. TypeOK /\ Numbered /\ counted \subseteq offered /\ written \subseteq Wholes(disk)
      /\ written \cap counted = {}
  BY DEF Inv, Apart, OnDisk, Wholes
<1>7. InOrder' /\ Numbered' /\ Apart' /\ MirrorComplete' /\ todo' \in Seq(Frames)
  BY <1>2, <1>4, <1>5, <1>6, Settles
<1>8. Batched' /\ closer' \in CloserPlaces /\ closed' \in BOOLEAN
  <2>1. CASE t = <<>> /\ FinishClose(disk, residue) /\ UNCHANGED <<todo, chunk>>
    BY <1>2, <1>3, <2>1 DEF Batched, FinishClose, CloserPlaces
  <2>2. CASE closer' = "draining" /\ UNCHANGED closed
    BY <1>2, <1>6, <2>2 DEF Batched, TypeOK, CloserPlaces
  <2>3. CASE AbandonBatch(t, disk, residue)
    BY <1>2, <1>6, <2>3 DEF Batched, TypeOK, AbandonBatch, CloserPlaces
  <2> QED
    BY <1>2, <2>1, <2>2, <2>3
<1>9. TypeOK'
  BY <1>2, <1>4, <1>5, <1>6, <1>7, <1>8 DEF TypeOK, Landed, Sound
<1> QED
  BY <1>7, <1>8, <1>9 DEF Inv

\* The process dies with a part of what it had for the open file written.
LEMMA Restarts ==
    ASSUME Inv, KillAndRestart
    PROVE  Inv'
<1>1. /\ TypeOK /\ Sound(offered, disk, Data, todo, queue, current)
      /\ Numbered /\ Apart /\ MirrorComplete
  BY DEF Inv, InOrder
<1>2. disk \in [Hours -> Seq(Pieces)]
  BY <1>1 DEF Sound
<1>3. PICK n \in 0 .. Len(Data) :
        disk' = IF current = NoHour THEN disk ELSE Extend(disk, current, Take(Data, n))
  BY DEF KillAndRestart
<1>4. /\ kills < MaxKills /\ kills' = kills + 1
      /\ unsynced' = unsynced \cup ({current} \ {NoHour}) /\ mirror' = mirror
      /\ queue' = <<>> /\ closing' = FALSE /\ closed' = FALSE /\ writer' = "off"
      /\ closer' = "idle" /\ todo' = <<>> /\ chunk' = <<>> /\ residue' = <<>>
      /\ current' = NoHour /\ UNCHANGED <<offered, counted, written>>
  BY DEF KillAndRestart
<1>6. /\ Sound(offered, disk', <<>>, todo, queue, current)
      /\ Wholes(disk) \subseteq Wholes(disk')
      /\ \A h \in Hours \ {current} : disk'[h] = disk[h]
  <2>1. CASE current = NoHour
    <3>1. disk' = disk /\ queue \in Seq(Frames) /\ Ordered(queue)
      BY <1>1, <1>3, <2>1 DEF Sound
    <3> QED
      BY <1>1, <3>1, Less
  <2>2. CASE current # NoHour
    <3> DEFINE w == Take(Data, n)
    <3>1. disk' = Extend(disk, current, w) /\ current \in Hours
      BY <1>1, <1>3, <2>2 DEF TypeOK
    <3>2. Sound(offered, Extend(disk, current, w), <<>>, todo, queue, current) /\ w \in Seq(Pieces)
      BY <1>1, <3>1, Breaks
    <3> HIDE DEF w
    <3>3. /\ Wholes(disk) \subseteq Wholes(Extend(disk, current, w))
          /\ \A h \in Hours \ {current} : Extend(disk, current, w)[h] = disk[h]
      BY <1>2, <3>1, <3>2, ExtendFiles
    <3> QED
      BY <3>1, <3>2, <3>3
  <2> QED
    BY <2>1, <2>2
<1>7. Sound(offered, disk', <<>>, <<>>, <<>>, NoHour)
  <2>1. Range(<<>>) \subseteq Range(queue)
    BY NoFrames
  <2> QED
    BY <1>6, <2>1, NoFrames, Less
<1>8. MirrorComplete'
  <2>1. \A h \in Hours \ unsynced' : h # current /\ h \notin unsynced
    BY <1>4, SpoolAssumption
  <2> QED
    BY <1>1, <1>4, <1>6, <2>1 DEF MirrorComplete
<1>9. residue' \o Text(chunk') = <<>>
  BY <1>4, NoPieces, NoChunk
<1>10. unsynced' \subseteq Hours
  BY <1>1, <1>4 DEF TypeOK
<1>11. Landed(disk, todo, <<>>)
  BY <1>1, <1>4, <1>6, <1>7, <1>8, <1>9, <1>10, NoFrames, NoPieces DEF Landed, TypeOK
<1>12. /\ counted \subseteq offered /\ written \subseteq Wholes(disk) /\ written \cap counted = {}
       /\ Range(todo) \cap counted = {}
  BY <1>1 DEF Apart, Uncounted, OnDisk, Wholes
<1>13. InOrder' /\ Numbered' /\ Apart' /\ MirrorComplete' /\ todo' \in Seq(Frames)
  <2>1. (Range(todo) \cup Range(queue')) \cap counted' = {}
    BY <1>4, <1>12, NoFrames
  <2> QED
    BY <1>1, <1>4, <1>11, <1>12, <2>1, NoFrames, Settles
<1>14. TypeOK'
  <2>1. Len(queue') <= QueueSize /\ kills' \in 0 .. MaxKills
    BY <1>1, <1>4, NoFrames, SpoolAssumption DEF TypeOK
  <2>2. disk' \in [Hours -> Seq(Pieces)]
    BY <1>7 DEF Sound
  <2> QED
    BY <1>1, <1>4, <1>10, <2>1, <2>2, NoFrames, NoPieces DEF TypeOK, WriterPlaces, CloserPlaces
<1>15. Batched'
  BY <1>4 DEF Batched
<1> QED
  BY <1>13, <1>14, <1>15 DEF Inv

\* Every step of the spool keeps the invariant.
THEOREM Steps == Inv /\ [Next]_vars => Inv'
<1> SUFFICES ASSUME Inv, [Next]_vars PROVE Inv'
  OBVIOUS
<1>0. TypeOK /\ Batched
  BY DEF Inv
<1>1. ASSUME NEW h \in Hours, Enqueue(h) PROVE Inv'
  BY <1>1, Enqueues
<1>2. CASE Start
  BY <1>0, <1>2, TasksMove DEF Start, queueVars, fileVars, TypeOK, Batched, WriterPlaces
<1>3. CASE WriterTakes
  BY <1>3, Takes
<1>4. CASE WriterExits
  BY <1>0, <1>4, TasksMove DEF WriterExits, queueVars, fileVars, TypeOK, Batched, WriterPlaces
<1>5. CASE WriteDone \/ WriteFails
  BY <1>5, WriteAnswers
<1>6. CASE CloseAndJoin
  BY <1>0, <1>6, TasksMove DEF CloseAndJoin, queueVars, fileVars, TypeOK, Batched, CloserPlaces
<1>7. CASE CloseUnstarted
  BY <1>7, ClosesUnstarted
<1>8. CASE CloseJoined
  BY <1>0, <1>8, Finishes DEF CloseJoined, queueVars, TypeOK, Batched
<1>9. CASE CloseRaises
  BY <1>0, <1>9, TasksMove DEF CloseRaises, queueVars, fileVars, TypeOK, Batched, CloserPlaces
<1>10. CASE CancelJoin
  BY <1>0, <1>10, Cuts DEF CancelJoin, queueVars, TypeOK, Batched, WriterPlaces
<1>11. CASE CancelDrain
  BY <1>0, <1>11, Cuts DEF CancelDrain, queueVars, TypeOK, CloserPlaces
<1>12. CASE KillAndRestart
  BY <1>12, Restarts
<1>13. CASE UNCHANGED vars
  BY <1>0, <1>13, TasksMove DEF vars, TypeOK, Batched
<1> QED
  BY <1>1, <1>2, <1>3, <1>4, <1>5, <1>6, <1>7, <1>8, <1>9, <1>10, <1>11, <1>12, <1>13
     DEF Next

-----------------------------------------------------------------------------
(* The theorems.                                                           *)

\* The inductive invariant holds of every state the spool can be in.
THEOREM AlwaysInv == Spec => []Inv
<1>1. Init => Inv
  BY Starts
<1>2. Inv /\ [Next]_vars => Inv'
  BY Steps
<1> QED
  BY <1>1, <1>2, PTL DEF Spec

\* The state keeps its types, and the queue its bound, whatever fails.
THEOREM SpoolTyped == Spec => []TypeOK
<1>1. Inv => TypeOK
  BY DEF Inv
<1> QED
  BY <1>1, AlwaysInv, PTL

\* The files hold text of their hour, in the order in which _write_batch was given
\* the frames and none of it twice, and the end of a line only with its beginning,
\* though the clock may step back into an hour, writes stop within a line with text
\* left in the buffer, and the process be killed and append to what it left.
THEOREM FilesFaithful == Spec => []ArchiveFaithful
<1>1. Inv => ArchiveFaithful
  BY DEF Inv, InOrder, Sound, ArchiveFaithful
<1> QED
  BY <1>1, AlwaysInv, PTL

\* What is whole in the files and what is cut off there before something else.
LEMMA Counts ==
    ASSUME Inv
    PROVE  CountersHonest
<1>1. /\ TypeOK /\ Sound(offered, disk, Data, todo, queue, current)
      /\ written \subseteq OnDisk /\ written \cap counted = {}
  BY DEF Inv, InOrder, Apart
<1>2. OnDisk = Wholes(disk)
  BY DEF OnDisk, Wholes
<1> SUFFICES ASSUME NEW f \in written
             PROVE  \E i \in DOMAIN disk[f.hour] :
                      /\ disk[f.hour][i].frame = f /\ WholeAt(disk[f.hour], i)
                      /\ \/ i = 1
                         \/ disk[f.hour][i - 1].part = 2
                         \/ disk[f.hour][i - 1].frame \in counted \cup Lost
  BY <1>1 DEF CountersHonest
<1> DEFINE h == f.hour
           s == disk[h]
<1>3. h \in Hours /\ f \in Whole(s)
  BY <1>1, <1>2, Placed
<1>4. /\ s \in Seq(Pieces) /\ Faithful(s, h)
      /\ DOMAIN s = 1 .. Len(s) /\ Len(s) \in Nat
      /\ \A i \in 1 .. Len(s) : s[i] \in Pieces /\ s[i] \in Range(s)
  BY <1>1, <1>3, SomePieces DEF Sound
<1>5. \A k \in Hours : disk[k] \in Seq(Pieces) /\ Faithful(disk[k], k)
  BY <1>1 DEF Sound
<1> HIDE DEF h, s
<1>6. PICK i \in DOMAIN s : WholeAt(s, i) /\ s[i].frame = f
  BY <1>3 DEF Whole
<1>7. ASSUME i # 1, s[i - 1].part # 2 PROVE s[i - 1].frame \in counted \cup Lost
  <2> DEFINE p == s[i - 1]
             g == p.frame
  <2>1. i \in 1 .. Len(s) /\ i - 1 \in 1 .. Len(s) /\ (i - 1) + 1 = i
    BY <1>4, <1>6, <1>7
  <2>2. p \in Pieces /\ p \in Range(s)
    BY <1>4, <2>1
  <2>3. g \in Frames /\ p = Beginning(g)
    BY <1>7, <2>2 DEF Pieces, Beginning
  <2>4. s[i].part = 1
    <3>1. f \in Frames
      BY <1>1 DEF TypeOK
    <3> QED
      BY <1>6, <3>1, TwoPieces DEF WholeAt
  <2>5. p \in Range(disk[h])
    BY <2>2 DEF s
  <2>6. g \in Files(disk)
    BY <1>3, <2>5 DEF Files, Named
  <2> HIDE DEF p, g
  <2>7. g \in offered /\ g \notin Range(todo) \cup Range(queue)
    <3>1. Below(Files(disk), Range(todo) \cup Range(queue)) /\ Files(disk) \subseteq offered
      BY <1>1 DEF Sound, Below
    <3>2. ~(g.id < g.id)
      BY <2>3 DEF Frames
    <3> QED
      BY <2>6, <3>1, <3>2 DEF Below
  <2>8. g \notin Range(chunk)
    <3>1. \A e \in Range(chunk) : Beginning(e) \in Range(Data)
      BY <1>1, DataIs
    <3>2. Range(disk[h]) \cap Range(Data) = {}
      BY <1>1, <1>3, Placed
    <3> QED
      BY <2>3, <2>5, <3>1, <3>2
  <2>9. g \notin OnDisk
    <3> SUFFICES ASSUME g \in OnDisk PROVE FALSE
      OBVIOUS
    <3>1. g.hour = h
      BY <1>1, <1>3, <2>3, <2>5, Placed, TwoPieces
    <3>2. g \in Whole(s)
      BY <1>1, <1>2, <3>1, Placed DEF s
    <3>3. PICK j \in DOMAIN s : WholeAt(s, j) /\ s[j].frame = g
      BY <3>2 DEF Whole
    <3>4. s[j] = p /\ s[j + 1].part = 2 /\ j \in 1 .. Len(s) /\ j + 1 \in 1 .. Len(s)
      BY <1>4, <2>3, <3>3, TwoPieces DEF WholeAt
    <3>5. j = i - 1
      <4>1. \A k, l \in 1 .. Len(s) : k < l => Before(s[k], s[l])
        BY <1>4 DEF Faithful
      <4>2. s[i - 1] = p /\ ~Before(p, p)
        BY <2>2, Before1 DEF p
      <4>3. ~(j < i - 1) /\ ~(i - 1 < j)
        BY <2>1, <3>4, <4>1, <4>2
      <4> QED
        BY <1>4, <2>1, <3>4, <4>3
    <3> QED
      BY <2>1, <2>4, <3>4, <3>5
  <2>10. g \in counted \cup Lost
    BY <2>7, <2>8, <2>9 DEF Lost, Held
  <2> QED
    BY <2>10 DEF g, p
<1> QED
  BY <1>6, <1>7 DEF s, h

\* Whatever written_lines counts is whole in the file of its hour, spool_dropped
\* counts nothing that written_lines does, and what a written line may have been
\* glued to is the text of a frame that was counted or lost with its task.
THEOREM CountersTrue == Spec => []CountersHonest
<1>1. Inv => CountersHonest
  BY Counts
<1> QED
  BY <1>1, AlwaysInv, PTL

\* A file that is not open is in the object store as it is on disk, except where
\* its last upload failed or the process was killed with the file open.
THEOREM StoreComplete == Spec => []MirrorComplete
<1>1. Inv => MirrorComplete
  BY DEF Inv
<1> QED
  BY <1>1, AlwaysInv, PTL

-----------------------------------------------------------------------------
(* The end of close(), and what is lost before it.                         *)

\* A writer that ended left nothing, and nothing moves after close().
Ended == /\ writer = "done" => closing /\ queue = <<>>
         /\ closer # "idle" => closing
         /\ closed => /\ closer = "done" /\ writer \in {"off", "done", "cancelled"}
                      /\ current = NoHour

LEMMA EndedSteps == Inv /\ Ended /\ [Next]_vars => Ended'
<1> SUFFICES ASSUME Inv, Ended, [Next]_vars PROVE Ended'
  OBVIOUS
<1>0. TypeOK /\ Batched
  BY DEF Inv
<1>1. ASSUME NEW h \in Hours, Enqueue(h) PROVE Ended'
  BY <1>1 DEF Enqueue, Ended, fileVars
<1>2. CASE Start
  BY <1>2 DEF Start, Ended, queueVars, fileVars
<1>3. CASE WriterTakes
  <2>1. writer = "waiting" /\ UNCHANGED closing /\ writer' \in {"writing", "dead"}
        /\ UNCHANGED <<closer, closed>>
    BY <1>3 DEF WriterTakes, AbandonBatch
  <2> QED
    BY <2>1 DEF Ended
<1>4. CASE WriterExits
  BY <1>4 DEF WriterExits, Ended, queueVars, fileVars
<1>5. CASE WriteDone \/ WriteFails
  <2>1. /\ chunk # <<>> /\ UNCHANGED <<closing, queue>>
        /\ \E d, r : NextChunk(todo, d, r)
    BY <1>5 DEF WriteDone, WriteFails, queueVars
  <2>2. PICK d, r : NextChunk(todo, d, r)
    BY <2>1
  <2>3. writer = "writing" \/ (writer = "off" /\ closer = "draining")
    BY <1>0, <2>1 DEF Batched
  <2>4. ~closed
    BY <2>3 DEF Ended
  <2>5. CASE UNCHANGED <<writer, closer, closed>>
    BY <2>1, <2>3, <2>4, <2>5 DEF Ended
  <2>6. CASE AbandonBatch(todo, d, r)
    BY <2>1, <2>3, <2>4, <2>6 DEF AbandonBatch, Ended
  <2>7. CASE EndBatch(d, r)
    BY <2>1, <2>3, <2>4, <2>7 DEF EndBatch, FinishClose, Ended
  <2> QED
    BY <2>2, <2>5, <2>6, <2>7 DEF NextChunk
<1>6. CASE CloseAndJoin
  BY <1>6 DEF CloseAndJoin, Ended, queueVars, fileVars
<1>7. CASE CloseUnstarted
  <2>1. /\ closer = "idle" /\ writer = "off" /\ closing' = TRUE /\ writer' = "off"
        /\ \/ FinishClose(disk, residue)
           \/ UNCHANGED closed
    BY <1>7 DEF CloseUnstarted, AbandonBatch
  <2> QED
    BY <2>1 DEF FinishClose, Ended
<1>8. CASE CloseJoined
  BY <1>8 DEF CloseJoined, FinishClose, Ended, queueVars
<1>9. CASE CloseRaises
  BY <1>9 DEF CloseRaises, Ended, queueVars, fileVars
<1>10. CASE CancelJoin
  BY <1>10 DEF CancelJoin, Ended, queueVars
<1>11. CASE CancelDrain
  BY <1>11 DEF CancelDrain, Ended, queueVars
<1>12. CASE KillAndRestart
  BY <1>12 DEF KillAndRestart, Ended
<1>13. CASE UNCHANGED vars
  BY <1>13 DEF vars, Ended
<1> QED
  BY <1>1, <1>2, <1>3, <1>4, <1>5, <1>6, <1>7, <1>8, <1>9, <1>10, <1>11, <1>12, <1>13
     DEF Next

\* When close() has returned and the writer came to its own end, nothing is
\* queued, half-written or open, however the two interleaved.
THEOREM ClosedIsDrained == Spec => []CloseDrains
<1>1. Init => Ended
  BY DEF Init, Ended
<1>2. Inv /\ Ended => CloseDrains
  <2> SUFFICES ASSUME Inv, Ended, closed, writer = "done"
               PROVE  queue = <<>> /\ current = NoHour /\ Held = {}
    BY DEF CloseDrains
  <2>1. queue = <<>> /\ current = NoHour /\ chunk = <<>> /\ todo = <<>>
    BY DEF Inv, Batched, Ended
  <2> QED
    BY <2>1, NoFrames DEF Held
<1> QED
  BY <1>1, <1>2, EndedSteps, AlwaysInv, PTL DEF Spec

\* A step after which the writer still runs, or came to its own end, loses no
\* frame.
Running == writer' \in {"waiting", "writing", "done"}

LEMMA LosesNone ==
    ASSUME Inv, [Next]_vars, Running
    PROVE  Lost' \subseteq Lost
<1> DEFINE None == Lost' \subseteq Lost
<1>0. TypeOK /\ Batched /\ Sound(offered, disk, Data, todo, queue, current)
  BY DEF Inv, InOrder
<1>a. OnDisk = Wholes(disk) /\ OnDisk' = Wholes(disk')
  BY DEF OnDisk, Wholes
<1>b. ASSUME UNCHANGED <<offered, queue, todo, chunk, disk, counted>> PROVE None
  BY <1>b DEF Lost, Held, OnDisk
<1>1. ASSUME NEW hour \in Hours, Enqueue(hour) PROVE None
  <2> DEFINE frame == [id |-> Cardinality(offered) + 1, hour |-> hour]
  <2>1. /\ frame.id <= MaxFrames
        /\ offered' = offered \cup {frame}
        /\ \/ queue' = Append(queue, frame) /\ UNCHANGED counted
           \/ counted' = counted \cup {frame} /\ UNCHANGED queue
        /\ UNCHANGED <<todo, chunk, disk>>
    BY <1>1 DEF Enqueue, fileVars
  <2>2. frame \in Frames
    BY <2>1, FS_CardinalityType, SpoolAssumption DEF Inv, Numbered, Frames
  <2> HIDE DEF frame
  <2>3. ASSUME queue' = Append(queue, frame)
        PROVE  Range(queue') = Range(queue) \cup {frame}
    <3>1. queue \in Seq(Frames) /\ Append(queue, frame) = queue \o <<frame>>
      BY <1>0, <2>2, AppendIsConcat DEF TypeOK
    <3> DEFINE one == <<frame>>
    <3>2. one \in Seq(Frames) /\ Range(one) = {frame}
      BY <2>2 DEF Range
    <3> HIDE DEF one
    <3>3. Range(queue \o one) = Range(queue) \cup Range(one)
      BY <3>1, <3>2, RangeConcatenation
    <3> QED
      BY <2>3, <3>1, <3>2, <3>3 DEF one
  <2>4. OnDisk' = OnDisk
    BY <2>1 DEF OnDisk
  <2>5. Range(todo') = Range(todo) /\ Range(chunk') = Range(chunk)
    BY <2>1
  <2>6. CASE queue' = Append(queue, frame) /\ UNCHANGED counted
    BY <2>1, <2>3, <2>4, <2>5, <2>6 DEF Lost, Held
  <2>7. CASE counted' = counted \cup {frame} /\ UNCHANGED queue
    BY <2>1, <2>4, <2>5, <2>7 DEF Lost, Held
  <2> QED
    BY <2>1, <2>6, <2>7
<1>2. CASE WriterTakes
  <2> DEFINE n == BatchLines + 1
             t == Take(queue, n)
             q == Rest(queue, n)
  <2>1. /\ writer = "waiting" /\ queue # <<>> /\ queue' = q
        /\ BeginChunk(t, disk, residue) \/ writer' = "dead"
        /\ UNCHANGED <<offered, counted>>
    BY <1>2 DEF WriterTakes, AbandonBatch
  <2>2. chunk = <<>> /\ todo = <<>> /\ n \in Nat \ {0}
    BY <1>0, <2>1, SpoolAssumption DEF Batched
  <2>3. Loaded(disk, residue, t, q) /\ t # <<>> /\ Range(queue) = Range(t) \cup Range(q)
    BY <1>0, <2>1, <2>2, TakesBatch, Cut DEF TypeOK
  <2> HIDE DEF n, t, q
  <2>4. BeginChunk(t, disk, residue)
    BY <2>1 DEF Running
  <2>5. Wholes(disk) \subseteq Wholes(disk') /\ Range(chunk') \cup Range(todo') = Range(t)
    BY <2>3, <2>4, BeginsChunk DEF Landed
  <2>6. Range(chunk) = {} /\ Range(todo) = {}
    BY <2>2, NoFrames
  <2> QED
    BY <1>a, <2>1, <2>3, <2>5, <2>6 DEF Lost, Held
<1>3. CASE WriteDone \/ WriteFails
  <2>1. /\ Data \in Seq(Pieces) /\ Len(residue) \in 0 .. Len(Data)
        /\ Range(chunk) \subseteq Whole(Data) /\ (chunk # <<>> => Data # <<>>)
    BY <1>0, DataIs
  <2>2. UNCHANGED <<queue, offered>> /\ chunk # <<>> /\ counted \subseteq counted'
    BY <1>3 DEF WriteDone, WriteFails, queueVars
  <2>3. current \in Hours /\ disk \in [Hours -> Seq(Pieces)]
    BY <1>0, <2>1, <2>2 DEF Sound
  <2>4. PICK w \in Seq(Pieces), r \in Seq(Pieces) :
          /\ NextChunk(todo, Extend(disk, current, w), r)
          /\ Sound(offered, Extend(disk, current, w), r, todo, queue, current)
          /\ Range(chunk) \subseteq Whole(w) \cup counted'
    <3>1. CASE WriteDone
      <4>1. NextChunk(todo, Extend(disk, current, Data), <<>>)
        BY <3>1 DEF WriteDone
      <4>2. Sound(offered, Extend(disk, current, Data), <<>>, todo, queue, current)
        BY <1>0, <2>3, Writes
      <4> QED
        BY <2>1, <4>1, <4>2, NoPieces
    <3>2. CASE WriteFails
      <4>1. PICK n \in 0 .. Len(Data), m \in {Len(residue), Len(Data)} :
              NextChunk(todo, Extend(disk, current, Take(Data, n)), SubSeq(Data, n + 1, m))
        BY <3>2 DEF WriteFails, Kept
      <4>2. m \in 0 .. Len(Data)
        BY <2>1, SomePieces
      <4> DEFINE w == Take(Data, n)
                 r == SubSeq(Data, n + 1, m)
      <4>3. /\ Sound(offered, Extend(disk, current, w), r, todo, queue, current)
            /\ w \in Seq(Pieces) /\ r \in Seq(Pieces)
        BY <1>0, <2>3, <4>2, Stops
      <4>4. NextChunk(todo, Extend(disk, current, w), r)
        BY <4>1
      <4>5. Range(chunk) \subseteq counted'
        BY <3>2 DEF WriteFails
      <4> HIDE DEF w, r
      <4> QED
        BY <4>3, <4>4, <4>5
    <3> QED
      BY <1>3, <3>1, <3>2
  <2> DEFINE d == Extend(disk, current, w)
  <2>5. /\ Wholes(disk) \cup Whole(w) \subseteq Wholes(d)
        /\ \A h \in Hours \ {current} : d[h] = disk[h]
    BY <2>3, ExtendFiles
  <2>6. NextChunk(todo, d, r) /\ Sound(offered, d, r, todo, queue, current)
    BY <2>4
  <2> HIDE DEF d
  <2>7. Loaded(d, r, todo, queue)
    BY <1>0, <2>5, <2>6 DEF Inv, Loaded, Mirrored, MirrorComplete
  <2>8. Wholes(d) \subseteq Wholes(disk')
    BY <2>6, <2>7, NextLands DEF Landed
  <2>9. Range(todo) \subseteq Range(chunk') \cup Range(todo')
    <3>1. CASE todo = <<>>
      BY <3>1, NoFrames
    <3>2. CASE todo # <<>> /\ BeginChunk(todo, d, r)
      BY <2>7, <3>2, BeginsChunk
    <3>3. CASE todo # <<>> /\ AbandonBatch(todo, d, r)
      <4>1. writer' = "dead" \/ (writer = "off" /\ writer' = writer)
        BY <3>3 DEF AbandonBatch
      <4> QED
        BY <4>1 DEF Running
    <3> QED
      BY <2>6, <3>1, <3>2, <3>3 DEF NextChunk
  <2> QED
    BY <1>a, <2>2, <2>4, <2>5, <2>8, <2>9 DEF Lost, Held
<1>4. CASE Start \/ WriterExits \/ CloseAndJoin \/ CloseRaises
  BY <1>4, <1>b DEF Start, WriterExits, CloseAndJoin, CloseRaises, queueVars, fileVars
<1>5. CASE CloseUnstarted \/ KillAndRestart \/ CancelJoin
  BY <1>5 DEF CloseUnstarted, KillAndRestart, CancelJoin, Running
<1>6. CASE CloseJoined
  <2>1. /\ writer \in {"done", "cancelled"} /\ Finalize(disk, residue)
        /\ UNCHANGED <<offered, queue, todo, chunk, counted>>
    BY <1>6 DEF CloseJoined, FinishClose, queueVars
  <2>2. Loaded(disk, residue, todo, queue)
    <3>1. Data = residue
      BY <1>0, <2>1, DataIs DEF Batched
    <3> QED
      BY <1>0, <3>1 DEF Inv, Loaded, Mirrored, MirrorComplete
  <2>3. Wholes(disk) \subseteq Wholes(disk')
    BY <2>1, <2>2, Finalizes
  <2> QED
    BY <1>a, <2>1, <2>3 DEF Lost, Held
<1>7. CASE CancelDrain
  BY <1>0, <1>7 DEF CancelDrain, Batched, Running
<1>8. CASE UNCHANGED vars
  BY <1>8, <1>b DEF vars
<1> QED
  BY <1>1, <1>2, <1>3, <1>4, <1>5, <1>6, <1>7, <1>8 DEF Next

\* Frames are lost uncounted only together with the task that holds them.
THEOREM LossWithWriter == Spec => LossEndsWriter
<1>1. Inv /\ [Next]_vars => [Lost' \subseteq Lost \/ writer' \in {"off", "dead", "cancelled"}]_vars
  <2> SUFFICES ASSUME Inv, [Next]_vars, writer' \notin {"off", "dead", "cancelled"}
               PROVE  Lost' \subseteq Lost
    OBVIOUS
  <2>1. Running
    BY Steps DEF Inv, TypeOK, WriterPlaces, Running
  <2> QED
    BY <2>1, LosesNone
<1> QED
  BY <1>1, AlwaysInv, PTL DEF Spec, LossEndsWriter
=============================================================================
