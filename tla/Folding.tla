------------------------------ MODULE Folding ------------------------------
(***************************************************************************)
(* What Fold of Lists computes, for every operator and every sequence: it  *)
(* goes on with each element that is appended, and keeps whatever its      *)
(* operator keeps.  A proof that needs these facts of an operator takes an *)
(* instance of this module.                                                *)
(***************************************************************************)
EXTENDS Lists, FiniteSets, FiniteSetTheorems

CONSTANTS
    Op(_, _, _),  \* what is folded, in a context ...
    Good(_, _)    \* ... and what it keeps there

Folded(c, base, s) == Fold(LAMBDA a, x : Op(c, a, x), base, s)

\* Induction, without a parameter: a set that holds zero and every successor.
LEMMA SetInduction ==
  ASSUME NEW A, 0 \in A, \A k \in Nat : k \in A => k + 1 \in A
  PROVE  Nat \subseteq A
<1> SUFFICES ASSUME NEW n \in Nat, n \notin A PROVE FALSE
  OBVIOUS
<1> DEFINE B == A \cap (0 .. n)
           f == [k \in B |-> k + 1]
<1>1. IsFiniteSet(B)
  <2>1. IsFiniteSet(0 .. n)
    BY FS_Interval
  <2>2. B \in SUBSET (0 .. n)
    OBVIOUS
  <2> HIDE DEF B
  <2> QED BY <2>1, <2>2, FS_Subset
<1>2. 0 \in B
  OBVIOUS
<1>3. \A k \in B : k \in Int /\ k + 1 \in B \ {0}
  OBVIOUS
<1> HIDE DEF B
<1>4. f \in Injection(B, B \ {0})
  <2>1. f \in [B -> B \ {0}]
    BY <1>3
  <2>2. \A j, k \in B : f[j] = f[k] => j = k
    BY <1>3
  <2> QED BY <2>1, <2>2 DEF Injection, IsInjective
<1>5. IsFiniteSet(B \ {0}) /\ Cardinality(B \ {0}) = Cardinality(B) - 1
  BY <1>1, <1>2, FS_RemoveElement
<1> HIDE DEF f
<1>6. Cardinality(B) <= Cardinality(B \ {0})
  BY <1>4, <1>5, FS_Injection
<1>7. Cardinality(B) \in Nat
  BY <1>1, FS_CardinalityType
<1> QED BY <1>5, <1>6, <1>7

\* The same of the sequences over a set: the empty one, and each with one more.
LEMMA SequenceInduction ==
  ASSUME NEW S, NEW P, <<>> \in P,
         \A s \in Seq(S), x \in S : s \in P => Append(s, x) \in P
  PROVE  Seq(S) \subseteq P
<1> DEFINE Lens == {n \in Nat : \A s \in Seq(S) : Len(s) = n => s \in P}
<1>1. 0 \in Lens
  <2>1. \A s \in Seq(S) : Len(s) = 0 => s = <<>>
    OBVIOUS
  <2> QED BY <2>1
<1>2. \A n \in Nat : n \in Lens => n + 1 \in Lens
  <2> SUFFICES ASSUME NEW n \in Nat, n \in Lens, NEW s \in Seq(S), Len(s) = n + 1
               PROVE  s \in P
    OBVIOUS
  <2> DEFINE front == SubSeq(s, 1, n)
             last == s[n + 1]
  <2>1. front \in Seq(S) /\ Len(front) = n /\ last \in S /\ s = Append(front, last)
    OBVIOUS
  <2>2. front \in P
    BY <2>1
  <2> HIDE DEF front, last
  <2> QED BY <2>1, <2>2
<1> HIDE DEF Lens
<1>3. Nat \subseteq Lens
  BY <1>1, <1>2, SetInduction
<1> QED BY <1>3 DEF Lens

-----------------------------------------------------------------------------

\* The intermediate results after each of the first n elements.
Chain(c, f, base, s, n) ==
    f = [i \in 0 .. n |-> f[i]] /\ f[0] = base /\ \A i \in 1 .. n : f[i] = Op(c, f[i - 1], s[i])

LEMMA ChainExtended ==
  ASSUME NEW c, NEW base, NEW s, NEW n \in Nat, NEW f, Chain(c, f, base, s, n)
  PROVE  \E g : Chain(c, g, base, s, n + 1)
<1> DEFINE g == [i \in 0 .. n + 1 |-> IF i = n + 1 THEN Op(c, f[n], s[n + 1]) ELSE f[i]]
<1>1. g = [i \in 0 .. n + 1 |-> g[i]]
  OBVIOUS
<1>2. \A i \in 0 .. n : g[i] = f[i]
  OBVIOUS
<1>3. g[n + 1] = Op(c, f[n], s[n + 1])
  OBVIOUS
<1> HIDE DEF g
<1>4. \A i \in 1 .. n + 1 : g[i] = Op(c, g[i - 1], s[i])
  <2> SUFFICES ASSUME NEW i \in 1 .. n + 1
               PROVE  g[i] = Op(c, g[i - 1], s[i])
    OBVIOUS
  <2>1. CASE i = n + 1
    BY <1>2, <1>3, <2>1
  <2>2. CASE i # n + 1
    <3>1. i \in 1 .. n /\ i \in 0 .. n /\ i - 1 \in 0 .. n
      BY <2>2
    <3> QED BY <1>2, <3>1 DEF Chain
  <2> QED BY <2>1, <2>2
<1>5. g[0] = base
  BY <1>2 DEF Chain
<1> QED BY <1>1, <1>4, <1>5 DEF Chain

LEMMA ChainExists ==
  ASSUME NEW c, NEW base, NEW s, NEW n \in Nat
  PROVE  \E f : Chain(c, f, base, s, n)
<1> DEFINE Lens == {k \in Nat : \E f : Chain(c, f, base, s, k)}
<1>1. 0 \in Lens
  <2>1. Chain(c, [i \in 0 .. 0 |-> base], base, s, 0)
    BY DEF Chain
  <2> QED BY <2>1
<1>2. \A k \in Nat : k \in Lens => k + 1 \in Lens
  BY ChainExtended
<1> HIDE DEF Lens
<1>3. n \in Lens
  BY <1>1, <1>2, SetInduction
<1> QED BY <1>3 DEF Lens

\* Two chains over the same elements agree.
LEMMA ChainUnique ==
  ASSUME NEW c, NEW base, NEW s, NEW t, NEW m \in Nat, NEW n \in Nat, m <= n,
         NEW f, Chain(c, f, base, s, m), NEW g, Chain(c, g, base, t, n),
         \A i \in 1 .. m : s[i] = t[i]
  PROVE  f[m] = g[m]
<1> DEFINE Same == {k \in Nat : k <= m => f[k] = g[k]}
<1>1. 0 \in Same
  BY DEF Chain
<1>2. \A k \in Nat : k \in Same => k + 1 \in Same
  <2> SUFFICES ASSUME NEW k \in Nat, k \in Same, k + 1 <= m
               PROVE  f[k + 1] = g[k + 1]
    OBVIOUS
  <2>1. f[k] = g[k] /\ k + 1 \in 1 .. m /\ k + 1 \in 1 .. n /\ (k + 1) - 1 = k
    OBVIOUS
  <2>2. f[k + 1] = Op(c, f[k], s[k + 1]) /\ g[k + 1] = Op(c, g[k], t[k + 1])
    BY <2>1 DEF Chain
  <2> QED BY <2>1, <2>2
<1> HIDE DEF Same
<1>3. m \in Same
  BY <1>1, <1>2, SetInduction
<1> QED BY <1>3 DEF Same

LEMMA FoldIsChain ==
  ASSUME NEW c, NEW base, NEW s, Len(s) \in Nat
  PROVE  \E f : Chain(c, f, base, s, Len(s)) /\ Folded(c, base, s) = f[Len(s)]
<1> DEFINE Next1(a0, x) == CHOOSE r \in {Op(c, a, x) : a \in {a0}} : TRUE
           Eqn(f) == [i \in 0 .. Len(s) |->
                         IF i = 0 THEN base ELSE CHOOSE r \in {Op(c, a, s[i]) : a \in {f[i - 1]}} : TRUE]
           h == CHOOSE f : f = Eqn(f)
<1>1. \A a0, x : (CHOOSE r \in {Op(c, a, x) : a \in {a0}} : TRUE) = Op(c, a0, x)
  OBVIOUS
<1>2. \A f : Eqn(f) = [i \in 0 .. Len(s) |-> IF i = 0 THEN base ELSE Op(c, f[i - 1], s[i])]
  BY <1>1
<1>3. PICK g : Chain(c, g, base, s, Len(s))
  BY ChainExists
<1>4. g = [i \in 0 .. Len(s) |-> IF i = 0 THEN base ELSE Op(c, g[i - 1], s[i])]
  <2>1. \A i \in 0 .. Len(s) : g[i] = IF i = 0 THEN base ELSE Op(c, g[i - 1], s[i])
    BY <1>3 DEF Chain
  <2> QED BY <1>3, <2>1 DEF Chain
<1>5. h = Eqn(h)
  <2>1. g = Eqn(g)
    BY <1>2, <1>4
  <2> HIDE DEF Eqn
  <2> QED BY <2>1
<1>6. Folded(c, base, s) = h[Len(s)]
  BY DEF Folded, Fold
<1>7. h = [i \in 0 .. Len(s) |-> IF i = 0 THEN base ELSE Op(c, h[i - 1], s[i])]
  BY <1>2, <1>5
<1> HIDE DEF h
<1>8. Chain(c, h, base, s, Len(s))
  BY <1>7 DEF Chain
<1> QED BY <1>6, <1>8

-----------------------------------------------------------------------------

THEOREM FoldEmpty ==
  ASSUME NEW c, NEW base
  PROVE  Folded(c, base, <<>>) = base
<1>1. Len(<<>>) = 0
  OBVIOUS
<1> QED BY <1>1, FoldIsChain DEF Chain

THEOREM FoldAppend ==
  ASSUME NEW c, NEW S, NEW s \in Seq(S), NEW x \in S, NEW base
  PROVE  Folded(c, base, Append(s, x)) = Op(c, Folded(c, base, s), x)
<1> DEFINE t == Append(s, x)
           n == Len(s)
<1>1. n \in Nat /\ Len(t) = n + 1 /\ t[n + 1] = x /\ \A i \in 1 .. n : s[i] = t[i]
  OBVIOUS
<1> HIDE DEF t, n
<1>2. PICK f : Chain(c, f, base, s, n) /\ Folded(c, base, s) = f[n]
  BY <1>1, FoldIsChain DEF n
<1>3. PICK g : Chain(c, g, base, t, n + 1) /\ Folded(c, base, t) = g[n + 1]
  BY <1>1, FoldIsChain
<1>4. f[n] = g[n]
  BY <1>1, <1>2, <1>3, ChainUnique
<1>5. g[n + 1] = Op(c, g[n], t[n + 1])
  <2>1. n + 1 \in 1 .. n + 1 /\ (n + 1) - 1 = n
    BY <1>1
  <2> QED BY <1>3, <2>1 DEF Chain
<1> QED BY <1>1, <1>2, <1>3, <1>4, <1>5 DEF t

THEOREM FoldKeeps ==
  ASSUME NEW c, NEW base, NEW s, Len(s) \in Nat, Good(c, base),
         \A a, i : Good(c, a) /\ i \in 1 .. Len(s) => Good(c, Op(c, a, s[i]))
  PROVE  Good(c, Folded(c, base, s))
<1>1. PICK f : Chain(c, f, base, s, Len(s)) /\ Folded(c, base, s) = f[Len(s)]
  BY FoldIsChain
<1> DEFINE Fine == {k \in Nat : k <= Len(s) => Good(c, f[k])}
<1>2. 0 \in Fine
  BY <1>1 DEF Chain
<1>3. \A k \in Nat : k \in Fine => k + 1 \in Fine
  <2> SUFFICES ASSUME NEW k \in Nat, k \in Fine, k + 1 <= Len(s)
               PROVE  Good(c, f[k + 1])
    OBVIOUS
  <2>1. Good(c, f[k]) /\ k + 1 \in 1 .. Len(s) /\ (k + 1) - 1 = k
    OBVIOUS
  <2>2. f[k + 1] = Op(c, f[k], s[k + 1])
    BY <1>1, <2>1 DEF Chain
  <2> QED BY <2>1, <2>2
<1> HIDE DEF Fine
<1>4. Len(s) \in Fine
  BY <1>2, <1>3, SetInduction
<1> QED BY <1>1, <1>4 DEF Fine

\* Folding over two sequences, one after the other.
THEOREM FoldConcat ==
  ASSUME NEW c, NEW S, NEW s \in Seq(S), NEW t \in Seq(S), NEW base
  PROVE  Folded(c, base, s \o t) = Folded(c, Folded(c, base, s), t)
<1> DEFINE m == Len(s)
           n == Len(t)
           u == s \o t
<1>1. /\ m \in Nat /\ n \in Nat /\ Len(u) = m + n
      /\ \A i \in 1 .. m : s[i] = u[i]
      /\ \A i \in 1 .. n : t[i] = u[m + i]
  OBVIOUS
<1> HIDE DEF m, n, u
<1>2. PICK f : Chain(c, f, base, s, m) /\ Folded(c, base, s) = f[m]
  BY <1>1, FoldIsChain DEF m
<1>3. PICK g : Chain(c, g, base, u, m + n) /\ Folded(c, base, u) = g[m + n]
  <2>1. Len(u) \in Nat
    BY <1>1
  <2>2. \E g : Chain(c, g, base, u, Len(u)) /\ Folded(c, base, u) = g[Len(u)]
    BY <2>1, FoldIsChain
  <2> QED BY <1>1, <2>2
<1>4. PICK h : Chain(c, h, f[m], t, n) /\ Folded(c, f[m], t) = h[n]
  BY <1>1, FoldIsChain DEF n
<1>5. f[m] = g[m]
  <2>1. m <= m + n /\ m + n \in Nat
    BY <1>1
  <2> QED BY <1>1, <1>2, <1>3, <2>1, ChainUnique
<1> DEFINE Same == {k \in Nat : k <= n => h[k] = g[m + k]}
<1>6. 0 \in Same
  BY <1>1, <1>4, <1>5 DEF Chain
<1>7. \A k \in Nat : k \in Same => k + 1 \in Same
  <2> SUFFICES ASSUME NEW k \in Nat, k \in Same, k + 1 <= n
               PROVE  h[k + 1] = g[m + (k + 1)]
    OBVIOUS
  <2>1. h[k] = g[m + k]
    BY <1>1
  <2> HIDE DEF Same
  <2>2. /\ k + 1 \in 1 .. n /\ (k + 1) - 1 = k
        /\ m + (k + 1) \in 1 .. m + n /\ (m + (k + 1)) - 1 = m + k
    BY <1>1
  <2>3. h[k + 1] = Op(c, h[k], t[k + 1])
    BY <1>4, <2>2 DEF Chain
  <2>4. g[m + (k + 1)] = Op(c, g[m + k], u[m + (k + 1)])
    BY <1>3, <2>2 DEF Chain
  <2> QED BY <1>1, <2>1, <2>2, <2>3, <2>4
<1> HIDE DEF Same
<1>8. n \in Same
  BY <1>1, <1>6, <1>7, SetInduction
<1>9. h[n] = g[m + n]
  BY <1>1, <1>8 DEF Same
<1> QED BY <1>2, <1>3, <1>4, <1>9 DEF u

-----------------------------------------------------------------------------
(* The operator of Among, which leaves the elements of the set that is its *)
(* context.                                                                *)

Sifts == \A S, a, x : Op(S, a, x) = IF x \in S THEN Append(a, x) ELSE a

Sift(S, s) == Folded(S, <<>>, s)

THEOREM SiftEmpty ==
  ASSUME NEW S
  PROVE  Sift(S, <<>>) = <<>>
BY FoldEmpty DEF Sift

THEOREM SiftAppend ==
  ASSUME Sifts, NEW S, NEW T, NEW s \in Seq(T), NEW x \in T
  PROVE  Sift(S, Append(s, x)) = IF x \in S THEN Append(Sift(S, s), x) ELSE Sift(S, s)
BY FoldAppend DEF Sift, Sifts

\* What is left is of the set, and comes from the sequence.
THEOREM SiftSeq ==
  ASSUME Sifts, NEW S, NEW T, NEW s \in Seq(T)
  PROVE  Sift(S, s) \in Seq(T \cap S)
<1> DEFINE P == {r \in Seq(T) : Sift(S, r) \in Seq(T \cap S)}
<1>1. <<>> \in P
  <2>1. <<>> \in Seq(T) /\ <<>> \in Seq(T \cap S)
    OBVIOUS
  <2> QED BY <2>1, SiftEmpty
<1>2. \A r \in Seq(T), x \in T : r \in P => Append(r, x) \in P
  <2> SUFFICES ASSUME NEW r \in Seq(T), NEW x \in T, r \in P PROVE Append(r, x) \in P
    OBVIOUS
  <2>1. Append(r, x) \in Seq(T) /\ Sift(S, r) \in Seq(T \cap S)
    OBVIOUS
  <2> DEFINE f == Sift(S, r)
  <2> HIDE DEF f
  <2>2. CASE x \in S
    <3>1. Sift(S, Append(r, x)) = Append(f, x)
      BY <2>2, SiftAppend DEF f
    <3>2. f \in Seq(T \cap S) /\ x \in T \cap S
      BY <2>1, <2>2 DEF f
    <3>3. Append(f, x) \in Seq(T \cap S)
      BY <3>2
    <3> QED BY <2>1, <3>1, <3>3
  <2>3. CASE x \notin S
    <3>1. Sift(S, Append(r, x)) = Sift(S, r)
      BY <2>3, SiftAppend
    <3> QED BY <2>1, <3>1
  <2> QED BY <2>2, <2>3
<1> HIDE DEF P
<1>3. Seq(T) \subseteq P
  BY <1>1, <1>2, SequenceInduction
<1> QED BY <1>3 DEF P

THEOREM SiftConcat ==
  ASSUME Sifts, NEW S, NEW T, NEW s \in Seq(T), NEW t \in Seq(T)
  PROVE  Sift(S, s \o t) = Sift(S, s) \o Sift(S, t)
<1> DEFINE P == {r \in Seq(T) : Sift(S, s \o r) = Sift(S, s) \o Sift(S, r)}
<1>0. Sift(S, s) \in Seq(T \cap S)
  BY SiftSeq
<1>1. <<>> \in P
  <2>1. <<>> \in Seq(T) /\ s \o <<>> = s
    OBVIOUS
  <2>2. Sift(S, s) \o <<>> = Sift(S, s)
    BY <1>0
  <2> QED BY <2>1, <2>2, SiftEmpty
<1>2. \A r \in Seq(T), x \in T : r \in P => Append(r, x) \in P
  <2> SUFFICES ASSUME NEW r \in Seq(T), NEW x \in T, r \in P PROVE Append(r, x) \in P
    OBVIOUS
  <2>1. /\ Append(r, x) \in Seq(T) /\ s \o r \in Seq(T)
        /\ s \o Append(r, x) = Append(s \o r, x)
    OBVIOUS
  <2>2. Sift(S, r) \in Seq(T \cap S)
    BY SiftSeq
  <2>3. Sift(S, s \o r) = Sift(S, s) \o Sift(S, r)
    OBVIOUS
  <2>4. CASE x \in S
    <3>1. Sift(S, s \o Append(r, x)) = Append(Sift(S, s) \o Sift(S, r), x)
      BY <2>1, <2>3, <2>4, SiftAppend
    <3>2. Sift(S, Append(r, x)) = Append(Sift(S, r), x)
      BY <2>4, SiftAppend
    <3>3. x \in T \cap S
      BY <2>4
    <3> DEFINE U == T \cap S
               f == Sift(S, s)
               g == Sift(S, r)
    <3>4. f \in Seq(U) /\ g \in Seq(U) /\ x \in U
      BY <1>0, <2>2, <3>3
    <3> HIDE DEF U, f, g
    <3>a. Append(f \o g, x) = f \o Append(g, x)
      <4> DEFINE h == f \o g
      <4>1. h \in Seq(U) /\ <<x>> \in Seq(U)
        BY <3>4
      <4>2. Append(g, x) = g \o <<x>>
        BY <3>4
      <4>3. (f \o g) \o <<x>> = f \o (g \o <<x>>)
        BY <3>4, <4>1
      <4> HIDE DEF h
      <4>4. Append(h, x) = h \o <<x>>
        BY <3>4, <4>1
      <4> QED BY <4>2, <4>3, <4>4 DEF h
    <3>5. Append(Sift(S, s) \o Sift(S, r), x) = Sift(S, s) \o Append(Sift(S, r), x)
      BY <3>a DEF f, g
    <3> QED BY <2>1, <3>1, <3>2, <3>5
  <2>5. CASE x \notin S
    <3> DEFINE u == s \o r
    <3>0. u \in Seq(T)
      BY <2>1
    <3> HIDE DEF u
    <3>a. Sift(S, Append(u, x)) = Sift(S, u)
      BY <2>5, <3>0, SiftAppend
    <3>1. Sift(S, Append(s \o r, x)) = Sift(S, s \o r)
      BY <3>a DEF u
    <3>2. Sift(S, Append(r, x)) = Sift(S, r)
      BY <2>5, SiftAppend
    <3> QED BY <2>1, <2>3, <3>1, <3>2
  <2> QED BY <2>4, <2>5
<1> HIDE DEF P
<1>3. Seq(T) \subseteq P
  BY <1>1, <1>2, SequenceInduction
<1> QED BY <1>3 DEF P

\* Sets that agree on the sequence leave the same of it.
THEOREM SiftSame ==
  ASSUME Sifts, NEW S, NEW R, NEW T, NEW s \in Seq(T), \A x \in T : x \in S <=> x \in R
  PROVE  Sift(S, s) = Sift(R, s)
<1> DEFINE P == {r \in Seq(T) : Sift(S, r) = Sift(R, r)}
<1>1. <<>> \in P
  BY SiftEmpty
<1>2. \A r \in Seq(T), x \in T : r \in P => Append(r, x) \in P
  <2> SUFFICES ASSUME NEW r \in Seq(T), NEW x \in T, r \in P PROVE Append(r, x) \in P
    OBVIOUS
  <2>1. Sift(S, Append(r, x)) = IF x \in S THEN Append(Sift(S, r), x) ELSE Sift(S, r)
    BY SiftAppend
  <2>2. Sift(R, Append(r, x)) = IF x \in R THEN Append(Sift(R, r), x) ELSE Sift(R, r)
    BY SiftAppend
  <2>3. Append(r, x) \in Seq(T) /\ Sift(S, r) = Sift(R, r)
    OBVIOUS
  <2>4. x \in S <=> x \in R
    OBVIOUS
  <2>5. Sift(S, Append(r, x)) = Sift(R, Append(r, x))
    BY <2>1, <2>2, <2>3, <2>4
  <2> QED BY <2>3, <2>5
<1> HIDE DEF P
<1>3. Seq(T) \subseteq P
  BY <1>1, <1>2, SequenceInduction
<1> QED BY <1>3 DEF P

\* A set that has all of the sequence leaves it, one that has nothing of it nothing.
THEOREM SiftAll ==
  ASSUME Sifts, NEW S, NEW T, NEW s \in Seq(T), T \subseteq S
  PROVE  Sift(S, s) = s
<1> DEFINE P == {r \in Seq(T) : Sift(S, r) = r}
<1>1. <<>> \in P
  BY SiftEmpty
<1>2. \A r \in Seq(T), x \in T : r \in P => Append(r, x) \in P
  BY SiftAppend
<1> HIDE DEF P
<1>3. Seq(T) \subseteq P
  BY <1>1, <1>2, SequenceInduction
<1> QED BY <1>3 DEF P

THEOREM SiftNone ==
  ASSUME Sifts, NEW S, NEW T, NEW s \in Seq(T), T \cap S = {}
  PROVE  Sift(S, s) = <<>>
<1>1. Sift(S, s) \in Seq({})
  BY SiftSeq
<1> DEFINE r == Sift(S, s)
<1>2. r = <<>>
  <2> HIDE DEF r
  <2>1. ASSUME r \in Seq({}) PROVE Len(r) = 0
    BY <2>1
  <2> QED BY <1>1, <2>1 DEF r
<1> QED BY <1>2

\* Nothing that belongs to the set is left out.
THEOREM SiftFinds ==
  ASSUME Sifts, NEW S, NEW T, NEW s \in Seq(T), NEW i \in DOMAIN s, s[i] \in S
  PROVE  \E k \in DOMAIN Sift(S, s) : Sift(S, s)[k] = s[i]
<1> DEFINE Found(r) == \A j \in DOMAIN r : r[j] \in S => \E k \in DOMAIN Sift(S, r) : Sift(S, r)[k] = r[j]
           P == {r \in Seq(T) : Found(r)}
<1>1. <<>> \in P
  OBVIOUS
<1>0. \A r \in Seq(T), x \in T : Append(r, x) \in Seq(T)
  OBVIOUS
<1>2. \A r \in Seq(T), x \in T : r \in P => Append(r, x) \in P
  <2> SUFFICES ASSUME NEW r \in Seq(T), NEW x \in T, r \in P,
                      NEW j \in DOMAIN Append(r, x), Append(r, x)[j] \in S
               PROVE  \E k \in DOMAIN Sift(S, Append(r, x)) : Sift(S, Append(r, x))[k] = Append(r, x)[j]
    BY <1>0
  <2>0. Sift(S, r) \in Seq(T \cap S) /\ Found(r)
    BY SiftSeq
  <2> HIDE DEF Found
  <2>1. CASE x \in S
    <3>1. Sift(S, Append(r, x)) = Append(Sift(S, r), x)
      BY <2>1, SiftAppend
    <3> DEFINE f == Sift(S, r)
    <3>2. f \in Seq(T \cap S) /\ x \in T \cap S
      BY <2>0, <2>1
    <3> HIDE DEF f
    <3>3. CASE j = Len(r) + 1
      <4>1. Append(f, x)[Len(f) + 1] = x /\ Len(f) + 1 \in DOMAIN Append(f, x) /\ Append(r, x)[j] = x
        BY <3>2, <3>3
      <4> QED BY <3>1, <4>1 DEF f
    <3>4. CASE j # Len(r) + 1
      <4>1. j \in DOMAIN r /\ Append(r, x)[j] = r[j]
        BY <3>4
      <4>2. PICK k \in DOMAIN f : f[k] = r[j]
        BY <2>0, <4>1 DEF Found, f
      <4>3. k \in DOMAIN Append(f, x) /\ Append(f, x)[k] = f[k]
        BY <3>2
      <4> QED BY <3>1, <4>1, <4>2, <4>3 DEF f
    <3> QED BY <3>3, <3>4
  <2>2. CASE x \notin S
    <3>1. j \in DOMAIN r /\ Append(r, x)[j] = r[j]
      BY <2>2
    <3>2. Sift(S, Append(r, x)) = Sift(S, r)
      BY <2>2, SiftAppend
    <3> QED BY <2>0, <3>1, <3>2 DEF Found
  <2> QED BY <2>1, <2>2
<1> HIDE DEF P
<1>3. s \in P
  BY <1>1, <1>2, SequenceInduction
<1> QED BY <1>3 DEF P

\* Sifting what was sifted.
THEOREM SiftTwice ==
  ASSUME Sifts, NEW S, NEW R, NEW T, NEW s \in Seq(T)
  PROVE  Sift(R, Sift(S, s)) = Sift(S \cap R, s)
<1> DEFINE P == {r \in Seq(T) : Sift(R, Sift(S, r)) = Sift(S \cap R, r)}
<1>1. <<>> \in P
  BY SiftEmpty
<1>2. \A r \in Seq(T), x \in T : r \in P => Append(r, x) \in P
  <2> SUFFICES ASSUME NEW r \in Seq(T), NEW x \in T, r \in P PROVE Append(r, x) \in P
    OBVIOUS
  <2>1. Append(r, x) \in Seq(T) /\ Sift(S, r) \in Seq(T \cap S)
    BY SiftSeq
  <2>2. CASE x \in S
    <3>1. Sift(S, Append(r, x)) = Append(Sift(S, r), x)
      BY <2>2, SiftAppend
    <3>2. x \in T \cap S
      BY <2>2
    <3> DEFINE f == Sift(S, r)
               U == T \cap S
    <3>0. f \in Seq(U) /\ x \in U
      BY <2>1, <3>2
    <3> HIDE DEF f, U
    <3>a. Sift(R, Append(f, x)) = IF x \in R THEN Append(Sift(R, f), x) ELSE Sift(R, f)
      BY <3>0, SiftAppend
    <3>3. Sift(R, Append(Sift(S, r), x)) = IF x \in R THEN Append(Sift(R, Sift(S, r)), x)
                                           ELSE Sift(R, Sift(S, r))
      BY <3>a DEF f
    <3>4. Sift(S \cap R, Append(r, x)) = IF x \in R THEN Append(Sift(S \cap R, r), x)
                                         ELSE Sift(S \cap R, r)
      BY <2>2, SiftAppend
    <3> QED BY <2>1, <3>1, <3>3, <3>4
  <2>3. CASE x \notin S
    <3>1. Sift(S, Append(r, x)) = Sift(S, r)
      BY <2>3, SiftAppend
    <3>2. Sift(S \cap R, Append(r, x)) = Sift(S \cap R, r)
      BY <2>3, SiftAppend
    <3> QED BY <2>1, <3>1, <3>2
  <2> QED BY <2>2, <2>3
<1> HIDE DEF P
<1>3. s \in P
  BY <1>1, <1>2, SequenceInduction
<1> QED BY <1>3 DEF P

\* A set that has all but one of the elements leaves the sequence without that one.
THEOREM SiftAllButOne ==
  ASSUME Sifts, NEW S, NEW T, NEW s \in Seq(T), NEW k \in DOMAIN s, s[k] \notin S,
         \A i \in DOMAIN s \ {k} : s[i] \in S
  PROVE  Sift(S, s) = SubSeq(s, 1, k - 1) \o SubSeq(s, k + 1, Len(s))
<1> DEFINE a == SubSeq(s, 1, k - 1)
           b == SubSeq(s, k + 1, Len(s))
           x == s[k]
<1>1. /\ a \in Seq(T) /\ b \in Seq(T) /\ x \in T /\ a \in Seq(T \cap S) /\ b \in Seq(T \cap S)
      /\ Append(a, x) \in Seq(T)
  OBVIOUS
<1>2. s = Append(a, x) \o b
  <2> DEFINE n == Len(s)
             h == Append(a, x)
             u == h \o b
  <2>1. n \in Nat /\ k \in 1 .. n /\ \A i \in 1 .. n : s[i] \in T
    OBVIOUS
  <2>2. Len(a) = k - 1 /\ \A i \in 1 .. k - 1 : a[i] = s[i]
    BY <2>1
  <2>3. Len(b) = n - k /\ \A i \in 1 .. n - k : b[i] = s[k + i]
    <3>1. \A i \in k + 1 .. n : s[i] \in T
      BY <2>1
    <3>2. /\ Len(b) = IF k + 1 <= n THEN n - (k + 1) + 1 ELSE 0
          /\ \A i \in 1 .. n - (k + 1) + 1 : b[i] = s[(k + 1) + i - 1]
      BY <2>1, <3>1
    <3> QED BY <2>1, <3>2
  <2> HIDE DEF a, b, x, n
  <2>4. Len(h) = k /\ h \in Seq(T) /\ (\A i \in 1 .. k - 1 : h[i] = a[i]) /\ h[k] = x
    BY <1>1, <2>1, <2>2
  <2> HIDE DEF h
  <2>a. /\ u \in Seq(T) /\ Len(u) = Len(h) + Len(b)
        /\ \A i \in 1 .. Len(h) + Len(b) : u[i] = IF i <= Len(h) THEN h[i] ELSE b[i - Len(h)]
    <3>1. h \in Seq(T) /\ b \in Seq(T)
      BY <1>1, <2>4
    <3> QED BY <3>1
  <2>5. /\ u \in Seq(T) /\ Len(u) = n
        /\ \A i \in 1 .. n : u[i] = IF i <= k THEN h[i] ELSE b[i - k]
    <3> HIDE DEF u
    <3>1. Len(h) + Len(b) = n
      BY <2>1, <2>3, <2>4
    <3> QED BY <2>4, <2>a, <3>1
  <2> HIDE DEF u
  <2>6. ASSUME NEW i \in 1 .. n PROVE s[i] = u[i]
    <3>1. CASE i < k
      BY <2>1, <2>2, <2>4, <2>5, <3>1
    <3>2. CASE i = k
      BY <2>1, <2>4, <2>5, <3>2 DEF x
    <3>3. CASE i > k
      <4>1. i - k \in 1 .. n - k /\ k + (i - k) = i
        BY <2>1, <3>3
      <4> QED BY <2>1, <2>3, <2>5, <3>3, <4>1
    <3> QED BY <2>1, <3>1, <3>2, <3>3
  <2>7. s = u
    BY <2>5, <2>6 DEF n
  <2> QED BY <2>7 DEF u, h
<1> HIDE DEF a, b, x
<1>3. Sift(S, s) = Sift(S, Append(a, x)) \o Sift(S, b)
  BY <1>1, <1>2, SiftConcat
<1>4. Sift(S, Append(a, x)) = Sift(S, a)
  BY <1>1, SiftAppend DEF x
<1>5. Sift(S, a) = a
  <2>1. T \cap S \subseteq S
    OBVIOUS
  <2> QED BY <1>1, <2>1, SiftAll
<1>6. Sift(S, b) = b
  <2>1. T \cap S \subseteq S
    OBVIOUS
  <2> QED BY <1>1, <2>1, SiftAll
<1> QED BY <1>3, <1>4, <1>5, <1>6 DEF a, b
=============================================================================
