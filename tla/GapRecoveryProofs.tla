------------------------- MODULE GapRecoveryProofs -------------------------
(***************************************************************************)
(* Theorems about GapRecovery: the type of its state, and that no missed   *)
(* trade is forgotten without a reason, whatever the threshold, the age    *)
(* limit, the length of the queue and the order of events.                 *)
(***************************************************************************)
EXTENDS GapRecovery, SequenceTheorems, WellFoundedInduction, TLAPS

-----------------------------------------------------------------------------
(* Sequences of gaps and the trades they ask for.                           *)

LEMMA LeastNatural ==
    ASSUME NEW T \in SUBSET Nat, T # {}
    PROVE  \E x \in T : \A y \in T : x <= y
<1> DEFINE R == OpToRel(<, Nat)
<1>1. \A x, y \in T : y < x => <<y, x>> \in R
  BY DEF OpToRel
<1>2. IsWellFoundedOn(R, Nat)
  BY NatLessThanWellFounded
<1> HIDE DEF R
<1>3. PICK x \in T : \A y \in T : ~ (<<y, x>> \in R)
  BY <1>2, WFMin
<1>4. \A y \in T : x <= y
  <2> TAKE y \in T
  <2>1. ~ (y < x)
    BY <1>1, <1>3
  <2>2. x \in Nat /\ y \in Nat
    OBVIOUS
  <2> QED
    BY <2>1, <2>2
<1> QED
  BY <1>4

LEMMA InWindows ==
    ASSUME NEW q \in Seq(Gaps), NEW t
    PROVE  t \in Windows(q) <=> \E i \in 1 .. Len(q) : t \in Window(q[i])
<1>1. DOMAIN q = 1 .. Len(q)
  OBVIOUS
<1>2. Range(q) = {q[i] : i \in 1 .. Len(q)}
  BY <1>1, Zenon DEF Range
<1> QED
  BY <1>2, Zenon DEF Windows

\* A push keeps the queue within its bound and forgets only what it displaces.
LEMMA PushedKeeps ==
    ASSUME NEW q \in Seq(Gaps), NEW g \in Gaps, Len(q) <= MaxPending
    PROVE  /\ Pushed(q, g) \in Seq(Gaps)
           /\ Len(Pushed(q, g)) <= MaxPending
           /\ Windows(q) \subseteq Windows(Pushed(q, g)) \cup Displaced(q)
           /\ Window(g) \subseteq Windows(Pushed(q, g))
<1> DEFINE p == Pushed(q, g)
<1>0. MaxPending \in Nat \ {0}
  BY GapAssumption
<1>1. CASE Len(q) < MaxPending
  <2>1. /\ p \in Seq(Gaps) /\ Len(p) = Len(q) + 1
        /\ p[Len(p)] = g
        /\ \A i \in 1 .. Len(q) : p[i] = q[i]
    BY <1>1 DEF Pushed
  <2>2. Len(q) \in Nat
    OBVIOUS
  <2> HIDE DEF p
  <2>3. ASSUME NEW t, t \in Windows(q) PROVE t \in Windows(p)
    <3>1. PICK i \in 1 .. Len(q) : t \in Window(q[i])
      BY <2>3, InWindows
    <3>2. i \in 1 .. Len(p) /\ t \in Window(p[i])
      BY <2>1, <2>2, <3>1
    <3> QED
      BY <2>1, <3>2, InWindows
  <2>4. ASSUME NEW t, t \in Window(g) PROVE t \in Windows(p)
    <3>1. Len(p) \in 1 .. Len(p) /\ t \in Window(p[Len(p)])
      BY <2>1, <2>2, <2>4
    <3> QED
      BY <2>1, <3>1, InWindows
  <2> QED
    BY <1>0, <1>1, <2>1, <2>2, <2>3, <2>4 DEF p
<1>2. CASE ~ (Len(q) < MaxPending)
  <2>1. Len(q) \in Nat /\ Len(q) >= 1
    BY <1>0, <1>2
  <2>2. /\ p \in Seq(Gaps) /\ Len(p) = Len(q)
        /\ p[Len(p)] = g
        /\ \A i \in 2 .. Len(q) : p[i - 1] = q[i]
    <3>1. /\ Tail(q) \in Seq(Gaps) /\ Len(Tail(q)) = Len(q) - 1
          /\ \A i \in 1 .. Len(q) - 1 : Tail(q)[i] = q[i + 1]
      BY <2>1
    <3>2. p = Append(Tail(q), g)
      BY <1>2 DEF Pushed
    <3> HIDE DEF p
    <3> QED
      BY <2>1, <3>1, <3>2
  <2>3. Displaced(q) = Window(q[1])
    BY <1>2, <2>1 DEF Displaced
  <2> HIDE DEF p
  <2>4. ASSUME NEW t, t \in Windows(q), t \notin Window(q[1]) PROVE t \in Windows(p)
    <3>1. PICK i \in 1 .. Len(q) : t \in Window(q[i])
      BY <2>4, InWindows
    <3>2. i \in 2 .. Len(q)
      BY <2>1, <2>4, <3>1
    <3>3. i - 1 \in 1 .. Len(p) /\ t \in Window(p[i - 1])
      BY <2>1, <2>2, <3>1, <3>2
    <3> QED
      BY <2>2, <3>3, InWindows
  <2>5. ASSUME NEW t, t \in Window(g) PROVE t \in Windows(p)
    <3>1. Len(p) \in 1 .. Len(p) /\ t \in Window(p[Len(p)])
      BY <2>1, <2>2, <2>5
    <3> QED
      BY <2>2, <3>1, InWindows
  <2> QED
    BY <1>0, <1>2, <2>1, <2>2, <2>3, <2>4, <2>5 DEF p
<1> QED
  BY <1>1, <1>2

\* A batch is its first gap and the rest.
LEMMA HeadAndTail ==
    ASSUME NEW q \in Seq(Gaps), q # <<>>
    PROVE  /\ Head(q) \in Gaps
           /\ Tail(q) \in Seq(Gaps)
           /\ Windows(q) \subseteq Window(Head(q)) \cup Windows(Tail(q))
<1>1. /\ Len(q) \in Nat /\ Len(q) >= 1
      /\ Head(q) = q[1] /\ q[1] \in Gaps
      /\ Tail(q) \in Seq(Gaps) /\ Len(Tail(q)) = Len(q) - 1
      /\ \A i \in 1 .. Len(q) - 1 : Tail(q)[i] = q[i + 1]
  OBVIOUS
<1>2. ASSUME NEW t, t \in Windows(q), t \notin Window(Head(q))
      PROVE  t \in Windows(Tail(q))
  <2>1. PICK i \in 1 .. Len(q) : t \in Window(q[i])
    BY <1>2, InWindows
  <2>2. i \in 2 .. Len(q)
    BY <1>1, <1>2, <2>1
  <2>3. i - 1 \in 1 .. Len(Tail(q)) /\ t \in Window(Tail(q)[i - 1])
    BY <1>1, <2>1, <2>2
  <2> QED
    BY <1>1, <2>3, InWindows
<1> QED
  BY <1>1, <1>2

\* What is left of a batch after the old gaps at its front, and what they asked
\* for, are all of it.
LEMMA YoungOrGivenUp ==
    ASSUME NEW q \in Seq(Gaps), NEW u
    PROVE  /\ FromYoung(q, u) \in Seq(Gaps)
           /\ Windows(q) \subseteq GivenUp(q, u) \cup Windows(FromYoung(q, u))
           /\ GivenUp(q, u) \subseteq Ticks
<1> DEFINE young == {i \in DOMAIN q : ~TooOld(q[i], u)}
           f == FromYoung(q, u)
<1>0. Len(q) \in Nat /\ DOMAIN q = 1 .. Len(q)
  OBVIOUS
<1>1. CASE young = {}
  <2>1. f = <<>>
    BY <1>1 DEF FromYoung
  <2>2. SubSeq(q, 1, Len(q) - Len(f)) = q
    <3>1. Len(f) = 0
      BY <2>1
    <3>2. SubSeq(q, 1, Len(q)) = q
      OBVIOUS
    <3> HIDE DEF f
    <3> QED
      BY <1>0, <3>1, <3>2
  <2>3. GivenUp(q, u) = Windows(q)
    BY <2>2 DEF GivenUp
  <2>4. Windows(q) \subseteq Ticks
    BY Zenon DEF Windows, Window
  <2> QED
    BY <2>1, <2>3, <2>4
<1>2. CASE young # {}
  <2> DEFINE k == CHOOSE i \in young : \A j \in young : i <= j
  <2>1. \E i \in young : \A j \in young : i <= j
    <3>1. young \in SUBSET Nat
      BY <1>0
    <3> HIDE DEF young
    <3> QED
      BY <1>2, <3>1, LeastNatural
  <2>2. k \in young
    BY <2>1
  <2>3. k \in 1 .. Len(q)
    BY <1>0, <2>2
  <2>4. f = SubSeq(q, k, Len(q))
    BY <1>2 DEF FromYoung
  <2> HIDE DEF k, f, young
  <2>5. /\ f \in Seq(Gaps) /\ Len(f) = Len(q) - k + 1
        /\ \A i \in 1 .. Len(q) - k + 1 : f[i] = q[k + i - 1]
    BY <1>0, <2>3, <2>4
  <2> DEFINE old == SubSeq(q, 1, Len(q) - Len(f))
  <2>6. /\ old \in Seq(Gaps) /\ Len(old) = k - 1
        /\ \A i \in 1 .. k - 1 : old[i] = q[i]
    <3>1. Len(q) - Len(f) = k - 1
      BY <1>0, <2>3, <2>5
    <3>2. old = SubSeq(q, 1, k - 1)
      BY <3>1
    <3> HIDE DEF old
    <3> QED
      BY <1>0, <2>3, <3>2
  <2>7. GivenUp(q, u) = Windows(old)
    BY DEF GivenUp, f
  <2> HIDE DEF old
  <2>8. ASSUME NEW t, t \in Windows(q), t \notin Windows(old) PROVE t \in Windows(f)
    <3>1. PICK i \in 1 .. Len(q) : t \in Window(q[i])
      BY <2>8, InWindows
    <3>2. ~ (i \in 1 .. k - 1)
      BY <2>6, <2>8, <3>1, InWindows
    <3>3. i - k + 1 \in 1 .. Len(f) /\ f[i - k + 1] = q[i]
      BY <1>0, <2>3, <2>5, <3>1, <3>2
    <3> QED
      BY <2>5, <3>1, <3>3, InWindows
  <2>9. Windows(old) \subseteq Ticks
    BY Zenon DEF Windows, Window
  <2> QED
    BY <2>5, <2>7, <2>8, <2>9 DEF f
<1> QED
  BY <1>1, <1>2

-----------------------------------------------------------------------------
(* The inductive invariant.                                                 *)

\* How the parts of a connection's state, and of the job's, belong together.
Coherent ==
    /\ conn = "up" => last = now
    /\ conn = "stalled" => last # Never
    /\ conn = "down" => lostAt = last
    /\ conn = "subscribing" => last = Never \/ last <= since
    /\ job = "fetching" <=> todo # <<>>

Sound == TypeOK /\ Coherent

LEMMA Windowed ==
    /\ \A g : Window(g) \subseteq Ticks
    /\ \A q : Windows(q) \subseteq Ticks
    /\ \A q : Displaced(q) \subseteq Ticks
    /\ \A g, fs : Found(g, fs) \subseteq Window(g)
BY Zenon DEF Window, Windows, Displaced, Found

LEMMA SoundInit == Init => Sound
BY GapAssumption DEF Init, Sound, TypeOK, Coherent, Times

\* Every step preserves the types and keeps the parts of the state together.
LEMMA SoundStep == Sound /\ [Next]_vars => Sound'
<1> SUFFICES ASSUME Sound, [Next]_vars PROVE Sound'
  OBVIOUS
<1> USE GapAssumption
<1>1. CASE Tick
  BY <1>1 DEF Tick, Sound, TypeOK, Coherent, Times, Ticks, jobVars
<1>2. CASE Connect
  <2> DEFINE gap == Gap(lostAt, now)
  <2>1. \/ forgone' = forgone /\ pending' = pending
        \/ forgone' = forgone \cup Window(gap) /\ pending' = pending
        \/ /\ lostAt # Never
           /\ forgone' = forgone \cup Displaced(pending)
           /\ pending' = Pushed(pending, gap)
    BY <1>2 DEF Connect
  <2>2. pending \in Seq(Gaps) /\ Len(pending) <= MaxPending /\ forgone \subseteq Ticks
    BY DEF Sound, TypeOK
  <2>3. lostAt # Never => gap \in Gaps
    BY DEF Sound, TypeOK, Gap, Gaps, Times
  <2>4. forgone' \subseteq Ticks
    BY <2>1, <2>2, Windowed
  <2>5. pending' \in Seq(Gaps) /\ Len(pending') <= MaxPending
    BY <2>1, <2>2, <2>3, PushedKeeps
  <2> QED
    BY <1>2, <2>4, <2>5 DEF Connect, Sound, TypeOK, Coherent, Times, jobVars
<1>3. CASE Subscribed
  <2>1. forgone' \subseteq Ticks /\ snap' \subseteq Ticks
    BY <1>3, Windowed DEF Subscribed, Sound, TypeOK
  <2> QED
    BY <1>3, <2>1 DEF Subscribed, Sound, TypeOK, Coherent, Times, jobVars
<1>4. CASE Stall
  BY <1>4 DEF Stall, Sound, TypeOK, Coherent, Times, jobVars
<1>5. CASE Drop
  BY <1>5 DEF Drop, Sound, TypeOK, Coherent, Times, jobVars
<1>6. ASSUME NEW h \in Hours, Publish(h) PROVE Sound'
  BY <1>6 DEF Publish, Sound, TypeOK, Coherent, Times, feedVars, jobVars
<1>7. CASE RetryBegins
  <2>1. pending \in Seq(Gaps) /\ forgone \subseteq Ticks
    BY DEF Sound, TypeOK
  <2>2. todo' \in Seq(Gaps) /\ forgone' \subseteq Ticks
    BY <1>7, <2>1, YoungOrGivenUp DEF RetryBegins, GoOn
  <2>3. IF todo' = <<>> THEN job' = "idle" /\ began' = 0
                        ELSE job' = "fetching" /\ began' = now
    BY <1>7 DEF RetryBegins, GoOn
  <2> QED
    BY <1>7, <2>2, <2>3 DEF RetryBegins, Sound, TypeOK, Coherent, Times, feedVars
<1>8. CASE Fetched
  <2>1. PICK fs \in Downloads(Head(todo)) : FetchedFiles(fs)
    BY <1>8 DEF Fetched
  <2> DEFINE g == Head(todo)
             got == Found(g, fs)
  <2>2. /\ pending \in Seq(Gaps) /\ Len(pending) <= MaxPending
        /\ todo \in Seq(Gaps) /\ todo # <<>>
        /\ {forgone, recovered, partial} \subseteq SUBSET Ticks
    BY <1>8 DEF Fetched, Sound, TypeOK, Coherent
  <2>3. g \in Gaps /\ Tail(todo) \in Seq(Gaps)
    BY <2>2, HeadAndTail
  <2>4. got \subseteq Ticks /\ Window(g) \subseteq Ticks
    BY Windowed
  <2>5. /\ recovered' = recovered \cup got
        /\ partial' = (IF got = {} THEN partial ELSE partial \cup Window(g)) \ recovered'
        /\ pending' = IF got = {} THEN Pushed(pending, g) ELSE pending
        /\ todo' = FromYoung(Tail(todo), began)
        /\ IF todo' = <<>> THEN job' = "idle" /\ began' = 0
                            ELSE job' = "fetching" /\ began' = began
        /\ forgone' = forgone \cup GivenUp(Tail(todo), began)
                              \cup (IF got = {} THEN Displaced(pending) ELSE {})
        /\ UNCHANGED <<now, feedVars, published>>
    BY <2>1 DEF FetchedFiles, Replay, GoOn
  <2> HIDE DEF g, got
  <2>6. pending' \in Seq(Gaps) /\ Len(pending') <= MaxPending
    BY <2>2, <2>3, <2>5, PushedKeeps
  <2>7. todo' \in Seq(Gaps)
    BY <2>3, <2>5, YoungOrGivenUp
  <2>8. {forgone', recovered', partial'} \subseteq SUBSET Ticks
    <3>1. GivenUp(Tail(todo), began) \subseteq Ticks /\ Displaced(pending) \subseteq Ticks
      BY <2>3, YoungOrGivenUp, Windowed
    <3> QED
      BY <2>2, <2>4, <2>5, <3>1
  <2> QED
    BY <2>5, <2>6, <2>7, <2>8 DEF Sound, TypeOK, Coherent, Times, feedVars
<1>9. CASE UNCHANGED vars
  BY <1>9 DEF Sound, TypeOK, Coherent, vars, feedVars, jobVars
<1> QED
  BY <1>1, <1>2, <1>3, <1>4, <1>5, <1>6, <1>7, <1>8, <1>9 DEF Next

\* The state has its type in every behaviour, and the queue of gaps never grows
\* beyond gap_max_pending.
THEOREM GapTypeCorrect == Spec => []TypeOK
<1>1. Sound => TypeOK
  BY DEF Sound
<1> QED
  BY <1>1, SoundInit, SoundStep, PTL DEF Spec

-----------------------------------------------------------------------------
(* No trade is forgotten.                                                   *)

\* When the current hole begins, in each place of the connection.
LEMMA OpenFrom ==
    ASSUME TypeOK
    PROVE  /\ conn = "up" => Open = {t \in Ticks : now < t /\ t <= now}
           /\ conn = "stalled" => Open = {t \in Ticks : last < t /\ t <= now}
           /\ conn = "subscribing" /\ last = Never =>
                Open = {t \in Ticks : 0 < t /\ t <= now}
           /\ conn = "subscribing" /\ last # Never =>
                Open = {t \in Ticks : since < t /\ t <= now}
           /\ conn = "down" /\ lostAt = Never =>
                Open = {t \in Ticks : 0 < t /\ t <= now}
           /\ conn = "down" /\ lostAt # Never =>
                Open = {t \in Ticks : lostAt < t /\ t <= now}
BY DEF Open, Window, Gap, TypeOK

LEMMA HoleExplainedInit == Init => EveryHoleExplained
BY DEF Init, EveryHoleExplained

\* Every step leaves each trade received, asked for, recovered or given up.
LEMMA HoleExplainedStep ==
    ASSUME Sound, Sound', EveryHoleExplained, [Next]_vars
    PROVE  EveryHoleExplained'
<1> USE GapAssumption
<1> DEFINE kept == live \cup snap \cup Windows(pending) \cup Windows(todo)
                   \cup recovered \cup forgone \cup partial
<1>0. /\ TypeOK /\ TypeOK' /\ Coherent /\ Coherent'
      /\ now \in Nat /\ now <= MaxTime
  BY DEF Sound, TypeOK, Times
<1>a. ASSUME now' = now, kept \subseteq kept', Open \subseteq Open' \cup kept'
      PROVE  EveryHoleExplained'
  BY <1>a DEF EveryHoleExplained
<1>1. CASE Tick
  <2>1. /\ now' = now + 1 /\ now' \in Ticks
        /\ UNCHANGED <<conn, since, lostAt, snap, forgone, pending, todo,
                       recovered, partial>>
        /\ live \subseteq live'
        /\ conn = "up" => now' \in live'
        /\ conn # "up" => last' = last
    BY <1>0, <1>1 DEF Tick, jobVars, Ticks
  <2>2. Open \subseteq Open' \cup live'
    <3>1. CASE conn = "up"
      <4>1. Open = {}
        BY <1>0, <3>1, OpenFrom DEF Ticks
      <4> QED
        BY <4>1
    <3>2. CASE conn = "stalled"
      <4>1. Open = {t \in Ticks : last < t /\ t <= now}
        BY <1>0, <3>2, OpenFrom
      <4>2. Open' = {t \in Ticks : last < t /\ t <= now + 1}
        BY <2>1, <3>2 DEF Open, Window, Gap
      <4>3. last \in Nat
        BY <1>0, <3>2 DEF TypeOK, Coherent
      <4> QED
        BY <1>0, <4>1, <4>2, <4>3 DEF Ticks
    <3>3. CASE conn \in {"subscribing", "down"}
      <4> DEFINE from == IF conn = "subscribing"
                         THEN IF last = Never THEN 0 ELSE since
                         ELSE IF lostAt = Never THEN 0 ELSE lostAt
      <4>1. Open = {t \in Ticks : from < t /\ t <= now}
        BY <1>0, <3>3, OpenFrom
      <4>2. Open' = {t \in Ticks : from < t /\ t <= now + 1}
        BY <2>1, <3>3 DEF Open, Window, Gap
      <4>3. from \in Nat
        BY <1>0, <3>3 DEF TypeOK
      <4> HIDE DEF from
      <4> QED
        BY <1>0, <4>1, <4>2, <4>3 DEF Ticks
    <3> QED
      BY <1>0, <3>1, <3>2, <3>3 DEF TypeOK
  <2>3. now' \in Open' \cup live'
    BY <1>0, <2>1 DEF Open, Window, Gap, TypeOK, Coherent
  <2>4. 1 .. now' \subseteq (1 .. now) \cup {now'}
    BY <1>0, <2>1
  <2> QED
    BY <2>1, <2>2, <2>3, <2>4 DEF EveryHoleExplained
<1>2. CASE Connect
  <2> DEFINE gap == Gap(lostAt, now)
  <2>1. \/ /\ lostAt # Never
           /\ pending' = Pushed(pending, gap)
           /\ forgone' = forgone \cup Displaced(pending)
        \/ lostAt # Never /\ pending' = pending /\ forgone' = forgone \cup Window(gap)
        \/ lostAt = Never /\ pending' = pending /\ forgone' = forgone
    BY <1>2 DEF Connect
  <2>2. /\ conn = "down" /\ conn' = "subscribing" /\ since' = now
        /\ UNCHANGED <<now, last, live, snap, todo, recovered, partial>>
    BY <1>2 DEF Connect, jobVars
  <2>3. lostAt # Never => Open = Window(gap)
    BY <1>0, <2>2, OpenFrom DEF Window, Gap
  <2>4. lostAt = Never => Open' = Open
    BY <1>0, <2>2 DEF Open, Window, Gap, Coherent
  <2>5. lostAt # Never => gap \in Gaps
    BY <1>0 DEF TypeOK, Gap, Gaps, Times
  <2>6. pending \in Seq(Gaps) /\ Len(pending) <= MaxPending
    BY <1>0 DEF TypeOK
  <2> HIDE DEF gap
  <2>7. /\ Windows(pending) \subseteq Windows(pending)' \cup forgone'
        /\ forgone \subseteq forgone'
        /\ lostAt # Never => Open \subseteq Windows(pending)' \cup forgone'
    <3>1. CASE lostAt # Never /\ pending' = Pushed(pending, gap)
                              /\ forgone' = forgone \cup Displaced(pending)
      BY <2>3, <2>5, <2>6, <3>1, PushedKeeps
    <3>2. CASE pending' = pending /\ forgone' = forgone \cup Window(gap)
      BY <2>3, <3>2
    <3>3. CASE lostAt = Never /\ pending' = pending /\ forgone' = forgone
      BY <3>3
    <3> QED
      BY <2>1, <3>1, <3>2, <3>3
  <2>8. kept \subseteq kept'
    BY <2>2, <2>7
  <2>9. Open \subseteq Open' \cup kept'
    BY <2>4, <2>7
  <2> QED
    BY <1>a, <2>2, <2>8, <2>9
<1>3. CASE Subscribed
  <2>1. /\ UNCHANGED <<now, live, pending, todo, recovered, partial>>
        /\ snap \cup forgone \subseteq snap' \cup forgone' \cup live
        /\ Window(Gap(IF last = Never THEN 0 ELSE since, now))
              \subseteq snap' \cup forgone' \cup live
        /\ conn = "subscribing"
    BY <1>3 DEF Subscribed, jobVars
  <2>2. Open \subseteq kept'
    BY <1>0, <2>1 DEF Open
  <2> QED
    BY <1>a, <2>1, <2>2
<1>4. CASE Stall
  <2>1. /\ UNCHANGED <<now, last, live, snap, pending, todo, recovered, partial, forgone>>
        /\ conn = "up" /\ conn' = "stalled"
    BY <1>4 DEF Stall, jobVars
  <2>2. Open \subseteq Open'
    BY <1>0, <2>1 DEF Open, Coherent
  <2> QED
    BY <1>a, <2>1, <2>2
<1>5. CASE Drop
  <2>1. /\ UNCHANGED <<now, since, last, live, snap, pending, todo, recovered, partial, forgone>>
        /\ conn # "down" /\ conn' = "down" /\ lostAt' = last
    BY <1>5 DEF Drop, jobVars
  <2>2. Open \subseteq Open'
    <3>1. CASE last = Never
      <4>1. conn = "subscribing"
        BY <1>0, <2>1, <3>1 DEF TypeOK, Coherent
      <4>2. Open = {t \in Ticks : 0 < t /\ t <= now}
        BY <1>0, <3>1, <4>1, OpenFrom
      <4>3. Open' = {t \in Ticks : 0 < t /\ t <= now}
        BY <2>1, <3>1 DEF Open, Window, Gap
      <4> QED
        BY <4>2, <4>3
    <3>2. CASE last # Never
      <4>1. Open' = {t \in Ticks : last < t /\ t <= now}
        BY <2>1, <3>2 DEF Open, Window, Gap
      <4>2. last \in Nat /\ since \in Nat
        BY <1>0, <3>2 DEF TypeOK
      <4>3. CASE conn = "subscribing"
        <5>1. Open = {t \in Ticks : since < t /\ t <= now}
          BY <1>0, <3>2, <4>3, OpenFrom
        <5>2. last <= since
          BY <1>0, <3>2, <4>3 DEF Coherent
        <5> QED
          BY <1>0, <4>1, <4>2, <5>1, <5>2 DEF Ticks
      <4>4. CASE conn = "stalled"
        BY <1>0, <4>1, <4>4, OpenFrom
      <4>5. CASE conn = "up"
        <5>1. Open = {}
          BY <1>0, <4>5, OpenFrom DEF Ticks
        <5> QED
          BY <5>1
      <4> QED
        BY <1>0, <2>1, <4>3, <4>4, <4>5 DEF TypeOK
    <3> QED
      BY <3>1, <3>2
  <2> QED
    BY <1>a, <2>1, <2>2
<1>6. ASSUME NEW h \in Hours, Publish(h) PROVE EveryHoleExplained'
  BY <1>6 DEF Publish, feedVars, jobVars, EveryHoleExplained, Open
<1>7. CASE RetryBegins
  <2>1. /\ UNCHANGED <<now, feedVars, recovered, partial>>
        /\ job = "idle"
        /\ todo' = FromYoung(pending, now)
        /\ forgone' = forgone \cup GivenUp(pending, now)
    BY <1>7 DEF RetryBegins, GoOn
  <2>2. Windows(todo) = {}
    <3>1. todo = <<>>
      BY <1>0, <2>1 DEF Coherent
    <3>2. todo \in Seq(Gaps) /\ Len(todo) = 0
      BY <1>0, <3>1 DEF TypeOK
    <3>3. ASSUME NEW t, t \in Windows(todo) PROVE FALSE
      <4>1. PICK i \in 1 .. Len(todo) : t \in Window(todo[i])
        BY <3>2, <3>3, InWindows
      <4> QED
        BY <3>2, <4>1
    <3> QED
      BY <3>3
  <2>3. Windows(pending) \subseteq forgone' \cup Windows(todo)'
    BY <1>0, <2>1, YoungOrGivenUp DEF TypeOK
  <2>4. kept \subseteq kept'
    BY <2>1, <2>2, <2>3 DEF feedVars
  <2>5. Open' = Open
    BY <2>1 DEF Open, feedVars
  <2> QED
    BY <1>a, <2>1, <2>4, <2>5
<1>8. CASE Fetched
  <2>1. PICK fs \in Downloads(Head(todo)) : FetchedFiles(fs)
    BY <1>8 DEF Fetched
  <2> DEFINE g == Head(todo)
             got == Found(g, fs)
  <2>2. /\ UNCHANGED <<now, feedVars>>
        /\ recovered' = recovered \cup got
        /\ partial' = (IF got = {} THEN partial ELSE partial \cup Window(g)) \ recovered'
        /\ pending' = IF got = {} THEN Pushed(pending, g) ELSE pending
        /\ todo' = FromYoung(Tail(todo), began)
        /\ forgone' = forgone \cup GivenUp(Tail(todo), began)
                              \cup (IF got = {} THEN Displaced(pending) ELSE {})
    BY <2>1 DEF FetchedFiles, Replay, GoOn
  <2>3. /\ pending \in Seq(Gaps) /\ Len(pending) <= MaxPending
        /\ todo \in Seq(Gaps) /\ todo # <<>>
    BY <1>0, <1>8 DEF Fetched, TypeOK, Coherent
  <2>4. /\ g \in Gaps /\ Tail(todo) \in Seq(Gaps)
        /\ Windows(todo) \subseteq Window(g) \cup Windows(Tail(todo))
    BY <2>3, HeadAndTail
  <2> HIDE DEF g, got
  <2>5. Windows(Tail(todo)) \subseteq forgone' \cup Windows(todo)'
    BY <2>2, <2>4, YoungOrGivenUp
  <2>6. /\ Windows(pending) \subseteq Windows(pending)' \cup forgone'
        /\ Window(g) \subseteq Windows(pending)' \cup recovered' \cup partial'
    <3>1. CASE got = {}
      BY <2>2, <2>3, <2>4, <3>1, PushedKeeps
    <3>2. CASE got # {}
      BY <2>2, <3>2
    <3> QED
      BY <3>1, <3>2
  <2>7. kept \subseteq kept'
    BY <2>2, <2>4, <2>5, <2>6 DEF feedVars
  <2>8. Open' = Open
    BY <2>2 DEF Open, feedVars
  <2> QED
    BY <1>a, <2>2, <2>7, <2>8
<1>9. CASE UNCHANGED vars
  BY <1>9 DEF vars, feedVars, jobVars, EveryHoleExplained, Open
<1> QED
  BY <1>1, <1>2, <1>3, <1>4, <1>5, <1>6, <1>7, <1>8, <1>9 DEF Next

\* Each trade that happened was received, is in the hole the next connection will
\* measure, in a gap queued or being fetched, was recovered, or was given up for
\* a reason the code has.
THEOREM NoTradeForgotten == Spec => []EveryHoleExplained
<1>1. Sound /\ EveryHoleExplained /\ [Next]_vars => (Sound /\ EveryHoleExplained)'
  BY SoundStep, HoleExplainedStep
<1>2. Init => Sound /\ EveryHoleExplained
  BY SoundInit, HoleExplainedInit
<1> QED
  BY <1>1, <1>2, PTL DEF Spec

-----------------------------------------------------------------------------
(* Nothing the socket delivered as it happened is replayed.                 *)

LEMMA InWindowsOf ==
    ASSUME NEW q \in Seq(Gaps), NEW i \in 1 .. Len(q)
    PROVE  Window(q[i]) \subseteq Windows(q)
BY InWindows

LEMMA WindowsWithin ==
    ASSUME NEW q \in Seq(Gaps), NEW W, \A i \in 1 .. Len(q) : Window(q[i]) \subseteq W
    PROVE  Windows(q) \subseteq W
BY InWindows

\* Queueing, taking and skipping gaps asks for nothing more.
LEMMA PushedAsks ==
    ASSUME NEW q \in Seq(Gaps), NEW g \in Gaps, Len(q) <= MaxPending
    PROVE  Windows(Pushed(q, g)) \subseteq Windows(q) \cup Window(g)
<1> DEFINE p == Pushed(q, g)
<1>1. p \in Seq(Gaps)
  BY PushedKeeps
<1>2. \A i \in 1 .. Len(p) : p[i] = g \/ \E j \in 1 .. Len(q) : p[i] = q[j]
  <2>0. Len(q) \in Nat /\ MaxPending \in Nat \ {0}
    BY GapAssumption
  <2>1. CASE Len(q) < MaxPending
    BY <2>0, <2>1 DEF Pushed
  <2>2. CASE ~ (Len(q) < MaxPending)
    <3>1. /\ Tail(q) \in Seq(Gaps) /\ Len(Tail(q)) = Len(q) - 1
          /\ \A i \in 1 .. Len(q) - 1 : Tail(q)[i] = q[i + 1]
      BY <2>0, <2>2
    <3>2. p = Append(Tail(q), g)
      BY <2>2 DEF Pushed
    <3> HIDE DEF p
    <3>3. /\ Len(p) = Len(q) /\ p[Len(q)] = g
          /\ \A i \in 1 .. Len(q) - 1 : p[i] = q[i + 1]
      BY <2>0, <3>1, <3>2
    <3> QED
      BY <2>0, <3>3
  <2> QED
    BY <2>1, <2>2
<1> HIDE DEF p
<1>3. \A i \in 1 .. Len(p) : Window(p[i]) \subseteq Windows(q) \cup Window(g)
  BY <1>2, InWindowsOf
<1>4. Windows(p) \subseteq Windows(q) \cup Window(g)
  BY <1>1, <1>3, WindowsWithin
<1> QED
  BY <1>4 DEF p

LEMMA TailAsks ==
    ASSUME NEW q \in Seq(Gaps), q # <<>>
    PROVE  Window(Head(q)) \subseteq Windows(q) /\ Windows(Tail(q)) \subseteq Windows(q)
<1>1. /\ Len(q) \in Nat /\ Len(q) >= 1 /\ Head(q) = q[1]
      /\ Tail(q) \in Seq(Gaps) /\ Len(Tail(q)) = Len(q) - 1
      /\ \A i \in 1 .. Len(q) - 1 : Tail(q)[i] = q[i + 1]
  OBVIOUS
<1>2. \A i \in 1 .. Len(Tail(q)) : i + 1 \in 1 .. Len(q)
  BY <1>1
<1>3. \A i \in 1 .. Len(Tail(q)) : Window(Tail(q)[i]) \subseteq Windows(q)
  BY <1>1, <1>2, InWindowsOf
<1>4. Windows(Tail(q)) \subseteq Windows(q)
  BY <1>1, <1>3, WindowsWithin
<1>5. 1 \in 1 .. Len(q)
  BY <1>1
<1>6. Window(q[1]) \subseteq Windows(q)
  BY <1>5, InWindowsOf
<1> QED
  BY <1>1, <1>4, <1>6

LEMMA YoungAsks ==
    ASSUME NEW q \in Seq(Gaps), NEW u
    PROVE  Windows(FromYoung(q, u)) \subseteq Windows(q)
<1> DEFINE young == {i \in DOMAIN q : ~TooOld(q[i], u)}
           f == FromYoung(q, u)
<1>0. Len(q) \in Nat /\ DOMAIN q = 1 .. Len(q) /\ f \in Seq(Gaps)
  BY YoungOrGivenUp
<1>1. \A i \in 1 .. Len(f) : \E j \in 1 .. Len(q) : f[i] = q[j]
  <2>1. CASE young = {}
    <3>1. f = <<>>
      BY <2>1 DEF FromYoung
    <3> HIDE DEF f
    <3> QED
      BY <3>1
  <2>2. CASE young # {}
    <3> DEFINE k == CHOOSE i \in young : \A j \in young : i <= j
    <3>1. young \in SUBSET Nat
      BY <1>0
    <3>2. f = SubSeq(q, k, Len(q))
      BY <2>2 DEF FromYoung
    <3> HIDE DEF f
    <3>3. k \in 1 .. Len(q)
      <4> HIDE DEF young
      <4>1. k \in young
        BY <2>2, <3>1, LeastNatural
      <4> QED
        BY <1>0, <4>1 DEF young
    <3> HIDE DEF k
    <3>4. Len(f) = Len(q) - k + 1 /\ \A i \in 1 .. Len(f) : f[i] = q[k + i - 1]
      BY <1>0, <3>2, <3>3
    <3>5. \A i \in 1 .. Len(f) : k + i - 1 \in 1 .. Len(q)
      BY <1>0, <3>3, <3>4
    <3> QED
      BY <3>4, <3>5
  <2> QED
    BY <2>1, <2>2
<1> HIDE DEF f
<1>2. \A i \in 1 .. Len(f) : Window(f[i]) \subseteq Windows(q)
  BY <1>1, InWindowsOf
<1>3. Windows(f) \subseteq Windows(q)
  BY <1>0, <1>2, WindowsWithin
<1> QED
  BY <1>3 DEF f

\* What is asked for or replayed is past, and was not delivered as it happened;
\* what was came no later than the last message.
Apart ==
    /\ \A t \in live : last # Never /\ t <= last
    /\ Windows(pending) \cup Windows(todo) \cup recovered \subseteq (1 .. now) \ live

LEMMA ApartInit == Init => Apart
<1> SUFFICES ASSUME Init PROVE Apart
  OBVIOUS
<1>1. \A q : q = <<>> => Windows(q) = {}
  <2>1. <<>> \in Seq(Gaps) /\ Len(<<>>) = 0
    OBVIOUS
  <2>2. \A i \in 1 .. Len(<<>>) : Window(<<>>[i]) \subseteq {}
    BY <2>1
  <2>3. Windows(<<>>) \subseteq {}
    BY <2>1, <2>2, WindowsWithin
  <2> QED
    BY <2>3
<1> QED
  BY <1>1 DEF Init, Apart

LEMMA ApartStep ==
    ASSUME Sound, Apart, [Next]_vars
    PROVE  Apart'
<1> USE GapAssumption
<1>0. /\ TypeOK /\ Coherent
      /\ now \in Nat /\ live \subseteq Ticks
      /\ pending \in Seq(Gaps) /\ Len(pending) <= MaxPending
      /\ todo \in Seq(Gaps)
  BY DEF Sound, TypeOK, Times
<1>a. ASSUME now' = now, live' = live, last' \in {last, now},
             Windows(pending)' \subseteq (1 .. now) \ live,
             Windows(todo)' \subseteq (1 .. now) \ live,
             recovered' \subseteq (1 .. now) \ live
      PROVE  Apart'
  <2>1. \A t \in live : last' # Never /\ t <= last'
    <3>1. \A t \in live : last # Never /\ t <= last
      BY DEF Apart
    <3>2. \A t \in live : last \in 0 .. now
      BY <1>0, <3>1 DEF TypeOK
    <3> QED
      BY <1>0, <1>a, <3>1, <3>2 DEF Ticks
  <2> QED
    BY <1>a, <2>1 DEF Apart
<1>1. CASE Tick
  <2>1. /\ now' = now + 1
        /\ UNCHANGED <<pending, todo, recovered>>
        /\ \/ live' = live /\ last' = last
           \/ live' = live \cup {now'} /\ last' = now'
    BY <1>1 DEF Tick, jobVars
  <2>2. \A t \in live' : last' # Never /\ t <= last'
    <3>1. \A t \in live : last # Never /\ t <= last /\ last \in 0 .. now /\ t \in Nat
      BY <1>0 DEF Apart, TypeOK, Ticks
    <3>2. now' # Never /\ now' \in Nat
      BY <1>0, <2>1
    <3>3. CASE live' = live /\ last' = last
      BY <3>1, <3>3
    <3>4. CASE live' = live \cup {now'} /\ last' = now'
      <4>1. \A t \in live : t <= now'
        BY <1>0, <2>1, <3>1
      <4> QED
        BY <3>2, <3>4, <4>1
    <3> QED
      BY <2>1, <3>3, <3>4
  <2>3. (1 .. now) \ live \subseteq (1 .. now') \ live'
    BY <1>0, <2>1
  <2> QED
    BY <2>1, <2>2, <2>3 DEF Apart
<1>2. CASE Connect
  <2> DEFINE gap == Gap(lostAt, now)
  <2>1. /\ conn = "down"
        /\ \/ pending' = pending
           \/ lostAt # Never /\ pending' = Pushed(pending, gap)
        /\ UNCHANGED <<now, last, live, todo, recovered>>
    BY <1>2 DEF Connect, jobVars
  <2>2. ASSUME lostAt # Never
        PROVE  gap \in Gaps /\ Window(gap) \subseteq (1 .. now) \ live
    <3>1. last = lostAt /\ lostAt \in 0 .. now
      BY <1>0, <2>1, <2>2 DEF TypeOK, Coherent
    <3>2. \A t \in live : t <= last
      BY DEF Apart
    <3> QED
      BY <1>0, <3>1, <3>2 DEF Gap, Gaps, Window, Times, Ticks, TypeOK
  <2> HIDE DEF gap
  <2>3. Windows(pending)' \subseteq (1 .. now) \ live
    <3>1. CASE pending' = pending
      BY <3>1 DEF Apart
    <3>2. CASE lostAt # Never /\ pending' = Pushed(pending, gap)
      <4>1. Windows(Pushed(pending, gap)) \subseteq Windows(pending) \cup Window(gap)
        BY <1>0, <2>2, <3>2, PushedAsks
      <4> QED
        BY <2>2, <3>2, <4>1 DEF Apart
    <3> QED
      BY <2>1, <3>1, <3>2
  <2> QED
    BY <1>a, <2>1, <2>3 DEF Apart
<1>3. CASE Subscribed
  BY <1>3, <1>a DEF Subscribed, Apart, jobVars
<1>4. CASE Stall
  BY <1>4 DEF Stall, Apart, jobVars
<1>5. CASE Drop
  BY <1>5 DEF Drop, Apart, jobVars
<1>6. ASSUME NEW h \in Hours, Publish(h) PROVE Apart'
  BY <1>6 DEF Publish, Apart, feedVars, jobVars
<1>7. CASE RetryBegins
  <2>1. /\ pending' = <<>> /\ todo' = FromYoung(pending, now)
        /\ UNCHANGED <<now, feedVars, recovered>>
    BY <1>7 DEF RetryBegins, GoOn
  <2>2. Windows(todo)' \subseteq Windows(pending)
    BY <1>0, <2>1, YoungAsks
  <2>3. Windows(pending)' \subseteq {}
    <3>1. pending' \in Seq(Gaps) /\ Len(pending') = 0
      BY <2>1
    <3>2. \A i \in 1 .. Len(pending') : Window(pending'[i]) \subseteq {}
      BY <3>1
    <3> QED
      BY <3>1, <3>2, WindowsWithin
  <2> QED
    BY <1>a, <2>1, <2>2, <2>3 DEF Apart, feedVars
<1>8. CASE Fetched
  <2>1. PICK fs \in Downloads(Head(todo)) : FetchedFiles(fs)
    BY <1>8 DEF Fetched
  <2> DEFINE g == Head(todo)
             got == Found(g, fs)
  <2>2. /\ UNCHANGED <<now, feedVars>>
        /\ recovered' = recovered \cup got
        /\ pending' = IF got = {} THEN Pushed(pending, g) ELSE pending
        /\ todo' = FromYoung(Tail(todo), began)
    BY <2>1 DEF FetchedFiles, Replay, GoOn
  <2>3. todo # <<>>
    BY <1>0, <1>8 DEF Fetched, Coherent
  <2>4. /\ g \in Gaps /\ Tail(todo) \in Seq(Gaps)
        /\ Window(g) \subseteq Windows(todo) /\ Windows(Tail(todo)) \subseteq Windows(todo)
    BY <1>0, <2>3, HeadAndTail, TailAsks
  <2>5. got \subseteq Window(g)
    BY Windowed
  <2> HIDE DEF g, got
  <2>6. Windows(todo)' \subseteq Windows(todo)
    BY <2>2, <2>4, YoungAsks
  <2>7. Windows(pending)' \subseteq Windows(pending) \cup Windows(todo)
    <3>1. Windows(Pushed(pending, g)) \subseteq Windows(pending) \cup Window(g)
      BY <1>0, <2>4, PushedAsks
    <3> QED
      BY <2>2, <2>4, <3>1
  <2> QED
    BY <1>a, <2>2, <2>4, <2>5, <2>6, <2>7 DEF Apart, feedVars
<1>9. CASE UNCHANGED vars
  BY <1>9 DEF Apart, vars, feedVars, jobVars
<1> QED
  BY <1>1, <1>2, <1>3, <1>4, <1>5, <1>6, <1>7, <1>8, <1>9 DEF Next

\* A trade that the socket delivered as it happened is never replayed from the
\* archive as well: whatever the connections, retries and failed downloads between,
\* no gap asks for it.  A trade of a subscription's snapshot may be (ReceivedOnce).
THEOREM NothingReceivedReplayed == Spec => []NoLiveReplay
<1>1. Sound /\ Apart /\ [Next]_vars => (Sound /\ Apart)'
  BY SoundStep, ApartStep
<1>2. Init => Sound /\ Apart
  BY SoundInit, ApartInit
<1>3. Apart => NoLiveReplay
  BY DEF Apart, NoLiveReplay
<1> QED
  BY <1>1, <1>2, <1>3, PTL DEF Spec
=============================================================================
