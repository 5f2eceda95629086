-------------------------- MODULE HbmInterfaceProof --------------------------
(***************************************************************************)
(* Proofs about HbmInterface, for any lines, any sizes of the queues and   *)
(* of the ring, and a DRAM that answers in any order.                      *)
(***************************************************************************)
EXTENDS HbmInterface, Arithmetic, SequenceTheorems

(* The queues hold numbers of lines, and a half is sent only of a line     *)
(* that is there.                                                          *)
Place == [addr : Nat, got : Nat]

LinesInv ==
  /\ {p5Line, p6Line, memEdge, edges} \subseteq Option(Nat)
  /\ q6 \in Seq(Nat) /\ buffer \in Seq(Nat) /\ edge_buffer \in Seq(Nat)
  /\ halfSent \in BOOLEAN /\ (halfSent => buffer # <<>>)
  /\ ring \in Seq(Place)

RingLines(r) == [i \in DOMAIN r |-> LineOfAddr(r[i].addr)]
Unsent == IF halfSent THEN Tail(buffer) ELSE buffer

-----------------------------------------------------------------------------
(***************************************************************************)
(* Queues of numbers as one stream.                                        *)
(***************************************************************************)
Join(s, t) == s \o t

LEMMA NoneIsNew == None \notin Nat /\ None \notin Line /\ Line \subseteq Nat
BY HbmAssumption

ThreeSeqs(S, r, s, t) == r \in Seq(S) /\ s \in Seq(S) /\ t \in Seq(S)

LEMMA Regroup ==
  ASSUME NEW S, NEW r, NEW s, NEW t, ThreeSeqs(S, r, s, t)
  PROVE  Join(Join(r, s), t) = Join(r, Join(s, t)) /\ Join(r, s) \in Seq(S)
<1>1. r \in Seq(S) /\ s \in Seq(S) /\ t \in Seq(S)
  BY DEF ThreeSeqs
<1>2. (r \o s) \o t = r \o (s \o t)
  BY <1>1, ConcatAssociative
<1> QED
  BY <1>1, <1>2, ConcatProperties DEF Join

LEMMA Associative ==
  ASSUME NEW S
  PROVE  \A r, s, t \in Seq(S) : Join(Join(r, s), t) = Join(r, Join(s, t)) /\ Join(r, s) \in Seq(S)
<1> SUFFICES ASSUME NEW r \in Seq(S), NEW s \in Seq(S), NEW t \in Seq(S)
             PROVE  Join(Join(r, s), t) = Join(r, Join(s, t)) /\ Join(r, s) \in Seq(S)
  OBVIOUS
<1>1. ThreeSeqs(S, r, s, t)
  BY DEF ThreeSeqs
<1> QED
  BY <1>1, Regroup

LEMMA HeldType ==
  ASSUME NEW x \in Option(Nat)
  PROVE  Held(x) \in Seq(Nat)
BY DEF Held, Option

LEMMA Behind ==
  ASSUME NEW q \in Seq(Nat), NEW x \in Option(Nat)
  PROVE  Push(q, x) = Join(q, Held(x)) /\ Push(q, x) \in Seq(Nat)
<1>1. CASE x = None
  BY <1>1, ConcatEmptySeq DEF Push, Join, Held
<1>2. CASE x # None
  <2>1. x \in Nat
    BY <1>2 DEF Option
  <2> QED
    BY <1>2, <2>1, AppendIsConcat DEF Push, Join, Held
<1> QED
  BY <1>1, <1>2

LEMMA FrontAndRest ==
  ASSUME NEW q \in Seq(Nat), q # <<>>
  PROVE  Join(<<Head(q)>>, Tail(q)) = q /\ Head(q) \in Nat /\ Tail(q) \in Seq(Nat)
<1>1. /\ Head(q) \in Nat /\ Tail(q) \in Seq(Nat) /\ Len(Tail(q)) = Len(q) - 1 /\ Head(q) = q[1]
      /\ Len(q) \in Nat \ {0} /\ \A i \in 1 .. Len(Tail(q)) : Tail(q)[i] = q[i + 1]
  BY HeadTailProperties, LenProperties
<1>2. /\ <<Head(q)>> \in Seq(Nat) /\ Len(<<Head(q)>>) = 1 /\ <<Head(q)>>[1] = Head(q)
  BY <1>1
<1> DEFINE j == <<Head(q)>> \o Tail(q)
<1>3. /\ j \in Seq(Nat) /\ Len(j) = 1 + Len(Tail(q))
      /\ \A i \in 1 .. 1 + Len(Tail(q)) : j[i] = IF i <= 1 THEN <<Head(q)>>[i] ELSE Tail(q)[i - 1]
  BY <1>1, <1>2, ConcatProperties
<1> HIDE DEF j
<1>4. ASSUME NEW i \in 1 .. Len(q) PROVE j[i] = q[i]
  <2>1. CASE i = 1
    BY <1>1, <1>2, <1>3, <2>1
  <2>2. CASE i > 1
    <3>1. j[i] = Tail(q)[i - 1]
      BY <1>1, <1>3, <2>2
    <3>2. i - 1 \in 1 .. Len(Tail(q)) /\ (i - 1) + 1 = i
      BY <1>1, <2>2
    <3> QED
      BY <1>1, <3>1, <3>2
  <2> QED
    BY <2>1, <2>2
<1>5. Len(j) = Len(q)
  BY <1>1, <1>3
<1>6. j = q
  BY <1>3, <1>4, <1>5, SeqEqual
<1> QED
  BY <1>1, <1>6 DEF j, Join

(* What a queue gives away and what is left of it are what it was.         *)
Gives(q, c) == IF c THEN Head(q) ELSE None
Keeps(q, c, x) == Push(IF c THEN Tail(q) ELSE q, x)

LEMMA QueueStep ==
  ASSUME NEW q \in Seq(Nat), NEW x \in Option(Nat), NEW c \in BOOLEAN, c => q # <<>>
  PROVE  /\ Join(Held(Gives(q, c)), Keeps(q, c, x)) = Join(q, Held(x))
         /\ Gives(q, c) \in Option(Nat) /\ Keeps(q, c, x) \in Seq(Nat)
<1>0. Held(x) \in Seq(Nat)
  BY HeldType
<1>1. CASE c
  <2>1. Join(<<Head(q)>>, Tail(q)) = q /\ Head(q) \in Nat /\ Tail(q) \in Seq(Nat)
    BY <1>1, FrontAndRest
  <2>2. Held(Head(q)) = <<Head(q)>> /\ <<Head(q)>> \in Seq(Nat)
    BY <2>1, NoneIsNew DEF Held
  <2>3. Push(Tail(q), x) = Join(Tail(q), Held(x)) /\ Push(Tail(q), x) \in Seq(Nat)
    BY <2>1, Behind
  <2>4. \A s, t, u \in Seq(Nat) : Join(Join(s, t), u) = Join(s, Join(t, u))
    BY Associative
  <2>5. Join(<<Head(q)>>, Join(Tail(q), Held(x))) = Join(Join(<<Head(q)>>, Tail(q)), Held(x))
    BY <1>0, <2>1, <2>2, <2>4
  <2> QED
    BY <1>1, <2>1, <2>2, <2>3, <2>5 DEF Gives, Keeps, Option
<1>2. CASE ~c
  <2>1. Push(q, x) = Join(q, Held(x)) /\ Push(q, x) \in Seq(Nat)
    BY Behind
  <2>2. Join(<<>>, Push(q, x)) = Push(q, x)
    BY <2>1, ConcatEmptySeq DEF Join
  <2> QED
    BY <1>2, <2>1, <2>2 DEF Gives, Keeps, Option, Held
<1> QED
  BY <1>1, <1>2

(* Five streams in a row, each of which gives its front to the next.       *)
FiveStreams(T, e, b, bb, m, mm, r, rr, re, w, ww, p, pp, q, qq, x) ==
  /\ \A s, t, u \in T : Join(Join(s, t), u) = Join(s, Join(t, u)) /\ Join(s, t) \in T
  /\ {e, b, bb, m, mm, r, rr, re, w, ww, p, pp, q, qq, x} \subseteq T
  /\ Join(e, bb) = Join(b, m) /\ Join(mm, rr) = re
  /\ Join(re, ww) = Join(r, Join(w, p)) /\ Join(pp, qq) = Join(q, x)

LEMMA AllInOne ==
  ASSUME NEW T, NEW e, NEW b, NEW bb, NEW m, NEW mm, NEW r, NEW rr, NEW re, NEW w, NEW ww,
         NEW p, NEW pp, NEW q, NEW qq, NEW x,
         FiveStreams(T, e, b, bb, m, mm, r, rr, re, w, ww, p, pp, q, qq, x)
  PROVE  Join(e, Join(Join(Join(Join(Join(bb, mm), rr), ww), pp), qq))
           = Join(Join(Join(Join(Join(Join(b, m), r), w), p), q), x)
<1>0. /\ \A s, t, u \in T : Join(Join(s, t), u) = Join(s, Join(t, u)) /\ Join(s, t) \in T
      /\ e \in T /\ b \in T /\ bb \in T /\ m \in T /\ mm \in T /\ r \in T /\ rr \in T /\ re \in T
      /\ w \in T /\ ww \in T /\ p \in T /\ pp \in T /\ q \in T /\ qq \in T /\ x \in T
      /\ Join(e, bb) = Join(b, m) /\ Join(mm, rr) = re
      /\ Join(re, ww) = Join(r, Join(w, p)) /\ Join(pp, qq) = Join(q, x)
  BY DEF FiveStreams
<1> DEFINE z  == Join(q, x)
           a1 == Join(bb, mm)
           a2 == Join(a1, rr)
           a3 == Join(a2, ww)
           a4 == Join(a3, pp)
           c1 == Join(b, m)
           c2 == Join(c1, r)
           c3 == Join(c2, w)
           c4 == Join(c3, p)
           v  == Join(re, ww)
           wp == Join(w, p)
<1>1. /\ z \in T /\ a1 \in T /\ a2 \in T /\ a3 \in T
      /\ c1 \in T /\ c2 \in T /\ c3 \in T /\ c4 \in T
      /\ v \in T /\ wp \in T
  <2>1. z \in T /\ a1 \in T /\ c1 \in T /\ v \in T
        /\ wp \in T
    BY <1>0
  <2>2. a2 \in T /\ c2 \in T
    BY <1>0, <2>1
  <2>3. a3 \in T /\ c3 \in T
    BY <1>0, <2>2
  <2>4. c4 \in T
    BY <1>0, <2>3
  <2> QED
    BY <1>0, <2>1, <2>2, <2>3, <2>4
<1> HIDE DEF z, a1, a2, a3, c1, c2, c3, c4, v, wp
<1>2. Join(a4, qq) = Join(a3, z)
  BY <1>0, <1>1 DEF z
<1>3. a3 = Join(bb, v)
  <2>1. a2 = Join(bb, re)
    BY <1>0 DEF a1, a2
  <2> QED
    BY <1>0, <2>1 DEF a3, v
<1>4. Join(e, Join(Join(bb, v), z)) = Join(Join(c1, v), z)
  <2>1. Join(Join(e, Join(bb, v)), z) = Join(e, Join(Join(bb, v), z))
    BY <1>0, <1>1, <1>3
  <2>2. Join(Join(e, bb), v) = Join(e, Join(bb, v))
    BY <1>0, <1>1
  <2> QED
    BY <1>0, <2>1, <2>2 DEF c1
<1>5. Join(c1, v) = c4
  <2>1. c4 = Join(c2, wp)
    BY <1>0, <1>1 DEF c4, c3, wp
  <2>2. Join(c2, wp) = Join(c1, Join(r, wp))
    BY <1>0, <1>1 DEF c2
  <2> QED
    BY <1>0, <2>1, <2>2 DEF v, wp
<1>6. Join(c4, z) = Join(Join(c4, q), x)
  BY <1>0, <1>1 DEF z
<1>7. Join(e, Join(a4, qq)) = Join(Join(c4, q), x)
  BY <1>0, <1>2, <1>3, <1>4, <1>5, <1>6
<1> QED
  BY <1>0, <1>7 DEF a4, a3, a2, a1, c4, c3, c2, c1

-----------------------------------------------------------------------------
(***************************************************************************)
(* The controller.                                                         *)
(***************************************************************************)
LEMMA HalfFacts ==
  ASSUME NEW l \in Nat
  PROVE  /\ HalfAddr(l, 0) \in Nat /\ HalfAddr(l, 1) \in Nat
         /\ LineOfAddr(HalfAddr(l, 0)) = l /\ LineOfAddr(HalfAddr(l, 1)) = l
         /\ IsFirstHalf(HalfAddr(l, 0)) /\ ~IsFirstHalf(HalfAddr(l, 1))
BY DEF HalfAddr, LineOfAddr, IsFirstHalf, HALF_BYTES

LEMMA RingFacts ==
  ASSUME NEW r \in Seq(Place)
  PROVE  /\ RingLines(r) \in Seq(Nat) /\ Len(RingLines(r)) = Len(r)
         /\ \A i \in 1 .. Len(r) : RingLines(r)[i] = LineOfAddr(r[i].addr)
         /\ r = <<>> <=> RingLines(r) = <<>>
         /\ r # <<>> => /\ Head(RingLines(r)) = LineOfAddr(Head(r).addr)
                        /\ Tail(RingLines(r)) = RingLines(Tail(r)) /\ Tail(r) \in Seq(Place)
<1> DEFINE t == RingLines(r)
<1>1. DOMAIN r = 1 .. Len(r) /\ Len(r) \in Nat /\ \A i \in 1 .. Len(r) : r[i] \in Place
  BY LenProperties, ElementOfSeq
<1>2. \A i \in 1 .. Len(r) : LineOfAddr(r[i].addr) \in Nat
  <2>1. \A a \in Nat : LineOfAddr(a) \in Nat
    BY DEF LineOfAddr, HALF_BYTES
  <2> QED
    BY <1>1, <2>1 DEF Place
<1>3. t = [i \in 1 .. Len(r) |-> LineOfAddr(r[i].addr)]
  BY <1>1 DEF RingLines
<1>4. t \in Seq(Nat) /\ Len(t) = Len(r)
  BY <1>1, <1>2, <1>3
<1>5. \A i \in 1 .. Len(r) : t[i] = LineOfAddr(r[i].addr)
  BY <1>3
<1> HIDE DEF t
<1>6. r = <<>> <=> t = <<>>
  BY <1>4
<1>7. ASSUME r # <<>>
      PROVE  Head(t) = LineOfAddr(Head(r).addr) /\ Tail(t) = RingLines(Tail(r)) /\ Tail(r) \in Seq(Place)
  <2>1. /\ Tail(r) \in Seq(Place) /\ Len(Tail(r)) = Len(r) - 1 /\ Head(r) = r[1] /\ 1 \in 1 .. Len(r)
        /\ \A i \in 1 .. Len(Tail(r)) : Tail(r)[i] = r[i + 1]
        /\ DOMAIN Tail(r) = 1 .. Len(Tail(r))
    BY <1>1, <1>7, HeadTailProperties, LenProperties
  <2>2. /\ t # <<>> /\ Tail(t) \in Seq(Nat) /\ Len(Tail(t)) = Len(t) - 1 /\ Head(t) = t[1]
        /\ \A i \in 1 .. Len(Tail(t)) : Tail(t)[i] = t[i + 1]
    BY <1>4, <1>6, <1>7, HeadTailProperties
  <2>3. RingLines(Tail(r)) = [i \in 1 .. Len(r) - 1 |-> LineOfAddr(Tail(r)[i].addr)]
    BY <2>1 DEF RingLines
  <2>4. Tail(t) = [i \in 1 .. Len(r) - 1 |-> Tail(t)[i]]
    BY <1>4, <2>2, LenProperties
  <2>5. \A i \in 1 .. Len(r) - 1 : Tail(t)[i] = LineOfAddr(Tail(r)[i].addr)
    <3> SUFFICES ASSUME NEW i \in 1 .. Len(r) - 1 PROVE Tail(t)[i] = LineOfAddr(Tail(r)[i].addr)
      OBVIOUS
    <3>1. i + 1 \in 1 .. Len(r)
      BY <1>1
    <3> QED
      BY <1>4, <1>5, <2>1, <2>2, <3>1
  <2>6. Tail(t) = RingLines(Tail(r))
    BY <2>3, <2>4, <2>5
  <2> QED
    BY <1>5, <2>1, <2>2, <2>6
<1> QED
  BY <1>4, <1>5, <1>6, <1>7 DEF t

LEMMA RingAppend ==
  ASSUME NEW r \in Seq(Place), NEW x \in Place
  PROVE  /\ Append(r, x) \in Seq(Place)
         /\ RingLines(Append(r, x)) = Join(RingLines(r), <<LineOfAddr(x.addr)>>)
<1> DEFINE a == Append(r, x)
           l == LineOfAddr(x.addr)
           s == RingLines(r)
           j == Append(s, l)
<1>1. /\ a \in Seq(Place) /\ Len(a) = Len(r) + 1 /\ Len(r) \in Nat
      /\ \A i \in 1 .. Len(r) : a[i] = r[i]
      /\ a[Len(r) + 1] = x
  BY AppendProperties, LenProperties
<1>2. /\ RingLines(a) \in Seq(Nat) /\ Len(RingLines(a)) = Len(a)
      /\ \A i \in 1 .. Len(a) : RingLines(a)[i] = LineOfAddr(a[i].addr)
  BY <1>1, RingFacts
<1>3. /\ s \in Seq(Nat) /\ Len(s) = Len(r)
      /\ \A i \in 1 .. Len(r) : s[i] = LineOfAddr(r[i].addr)
  BY RingFacts
<1>4. l \in Nat
  BY DEF Place, LineOfAddr, HALF_BYTES
<1> HIDE DEF a, s
<1>5. /\ j \in Seq(Nat) /\ Len(j) = Len(s) + 1 /\ j[Len(s) + 1] = l
      /\ \A i \in 1 .. Len(s) : j[i] = s[i]
  BY <1>3, <1>4, AppendProperties
<1> HIDE DEF j
<1>6. \A i \in 1 .. Len(a) : RingLines(a)[i] = j[i]
  <2> SUFFICES ASSUME NEW i \in 1 .. Len(a) PROVE RingLines(a)[i] = j[i]
    OBVIOUS
  <2>1. CASE i = Len(r) + 1
    BY <1>1, <1>2, <1>3, <1>5, <2>1
  <2>2. CASE i \in 1 .. Len(r)
    BY <1>1, <1>2, <1>3, <1>5, <2>2
  <2> QED
    BY <1>1, <2>1, <2>2
<1>7. RingLines(a) = j
  BY <1>1, <1>2, <1>3, <1>5, <1>6, SeqEqual
<1>8. j = Join(s, <<l>>)
  BY <1>3, <1>4, AppendIsConcat DEF j, Join
<1> QED
  BY <1>1, <1>7, <1>8 DEF a, s

(* Counting answers leaves the lines where they are.                       *)
LEMMA CountedFacts ==
  ASSUME NEW r \in Seq(Place), NEW groups
  PROVE  Counted(r, groups) \in Seq(Place) /\ RingLines(Counted(r, groups)) = RingLines(r)
<1> DEFINE n(i) == Cardinality({p \in Filled(r, LineOfAddr(r[i].addr), groups) : p[1] = i})
<1>1. DOMAIN r = 1 .. Len(r) /\ Len(r) \in Nat /\ \A i \in 1 .. Len(r) : r[i] \in Place
  BY LenProperties, ElementOfSeq
<1>2. ASSUME NEW i \in 1 .. Len(r) PROVE n(i) \in Nat
  <2> DEFINE A == {p \in Filled(r, LineOfAddr(r[i].addr), groups) : p[1] = i}
  <2>1. A \subseteq (1 .. Len(r)) \X {1, 2}
    BY <1>1 DEF Filled, Missing
  <2>2. IsFiniteSet(1 .. Len(r)) /\ IsFiniteSet({1, 2})
    <3>1. {1, 2} = 1 .. 2
      OBVIOUS
    <3>2. IsFiniteSet(1 .. Len(r)) /\ IsFiniteSet(1 .. 2)
      <4>1. 1 \in Int /\ 2 \in Int /\ Len(r) \in Int
        BY <1>1
      <4> QED
        BY <4>1, FS_Interval
    <3> QED
      BY <3>1, <3>2
  <2>3. IsFiniteSet((1 .. Len(r)) \X {1, 2})
    BY <2>2, FS_Product
  <2>4. IsFiniteSet(A)
    BY <2>1, <2>3, FS_Subset
  <2> HIDE DEF A
  <2>5. Cardinality(A) \in Nat
    BY <2>4, FS_CardinalityType
  <2> QED
    BY <2>5 DEF A
<1>3. Counted(r, groups) = [i \in 1 .. Len(r) |-> [r[i] EXCEPT !.got = @ + n(i)]]
  BY <1>1 DEF Counted
<1> HIDE DEF n
<1>4. \A i \in 1 .. Len(r) : /\ [r[i] EXCEPT !.got = @ + n(i)] \in Place
                             /\ [r[i] EXCEPT !.got = @ + n(i)].addr = r[i].addr
  BY <1>1, <1>2 DEF Place
<1> DEFINE c == Counted(r, groups)
<1>5. c \in Seq(Place) /\ Len(c) = Len(r) /\ DOMAIN c = 1 .. Len(r)
  <2>1. \A i \in 1 .. Len(r) : [r[i] EXCEPT !.got = @ + n(i)] \in Place
    BY <1>4
  <2>2. c \in [1 .. Len(r) -> Place]
    BY <1>3, <2>1
  <2>3. c \in Seq(Place) /\ DOMAIN c = 1 .. Len(r)
    BY <1>1, <2>2, SeqDef
  <2> QED
    BY <1>1, <2>3, LenProperties
<1>6. \A i \in 1 .. Len(r) : c[i].addr = r[i].addr
  BY <1>3, <1>4
<1> HIDE DEF c
<1>7. RingLines(c) = RingLines(r)
  BY <1>1, <1>5, <1>6 DEF RingLines
<1> QED
  BY <1>5, <1>7 DEF c

(* A first half enters its line into the ring, a second half takes it from *)
(* the queue: the line is in one of them.                                  *)
LEMMA SendHalfStep ==
  ASSUME LinesInv, SendHalf
  PROVE  /\ Join(RingLines(Entered), Unsent') = Join(RingLines(ring), Join(Unsent, Held(p6Line)))
         /\ buffer' \in Seq(Nat) /\ halfSent' \in BOOLEAN /\ (halfSent' => buffer' # <<>>)
         /\ Unsent' \in Seq(Nat) /\ Unsent \in Seq(Nat) /\ Entered \in Seq(Place)
<1> DEFINE unsent == IF halfSent THEN Tail(Lines) ELSE Lines
           r == RingLines(ring)
<1>0. /\ buffer \in Seq(Nat) /\ p6Line \in Option(Nat) /\ halfSent \in BOOLEAN
      /\ (halfSent => buffer # <<>>) /\ ring \in Seq(Place)
  BY DEF LinesInv
<1>1. Lines \in Seq(Nat) /\ Lines = Join(buffer, Held(p6Line)) /\ Held(p6Line) \in Seq(Nat)
  BY <1>0, Behind, HeldType DEF Lines
<1>2. Unsent \in Seq(Nat) /\ unsent \in Seq(Nat) /\ (halfSent => Lines # <<>>)
      /\ unsent = Join(Unsent, Held(p6Line))
  <2>1. CASE halfSent
    <3>1. Tail(buffer) \in Seq(Nat)
      BY <1>0, <2>1, FrontAndRest
    <3>2. /\ Push(Tail(buffer), p6Line) = Join(Tail(buffer), Held(p6Line))
          /\ Push(Tail(buffer), p6Line) \in Seq(Nat)
      BY <1>0, <3>1, Behind
    <3>3. Lines # <<>> /\ Tail(Lines) = Push(Tail(buffer), p6Line)
      <4>1. CASE p6Line = None
        BY <1>0, <2>1, <4>1 DEF Lines, Push
      <4>2. CASE p6Line # None
        <5>1. Lines = Append(buffer, p6Line) /\ Push(Tail(buffer), p6Line) = Append(Tail(buffer), p6Line)
          BY <4>2 DEF Lines, Push
        <5>2. Tail(Append(buffer, p6Line)) = Append(Tail(buffer), p6Line)
          BY <1>0, <2>1, HeadTailAppend
        <5>3. Append(buffer, p6Line) # <<>>
          BY <1>0
        <5> QED
          BY <5>1, <5>2, <5>3
      <4> QED
        BY <4>1, <4>2
    <3> QED
      BY <2>1, <3>1, <3>2, <3>3 DEF Unsent
  <2>2. CASE ~halfSent
    BY <1>0, <1>1, <2>2 DEF Unsent
  <2> QED
    BY <2>1, <2>2
<1>3. RingLines(ring) \in Seq(Nat)
  BY <1>0, RingFacts
<1>4. CASE ~Sends
  <2>1. buffer' = Lines /\ halfSent' = halfSent /\ Entered = ring
    BY <1>4 DEF SendHalf, Entered
  <2>2. Unsent' = unsent
    BY <2>1 DEF Unsent
  <2> QED
    BY <1>0, <1>1, <1>2, <2>1, <2>2
<1>5. CASE Sends
  <2>1. Lines # <<>> /\ Head(Lines) \in Nat /\ Tail(Lines) \in Seq(Nat)
        /\ Join(<<Head(Lines)>>, Tail(Lines)) = Lines
    BY <1>1, <1>5, FrontAndRest DEF Sends, Wants
  <2>2. CASE halfSent
    <3>1. buffer' = Tail(Lines) /\ halfSent' = FALSE
      BY <1>5, <2>2 DEF SendHalf
    <3>2. NextHalf = HalfAddr(Head(Lines), 1)
      BY <2>2 DEF NextHalf
    <3>3. ~IsFirstHalf(NextHalf)
      BY <2>1, <3>2, HalfFacts
    <3>4. Entered = ring /\ Unsent' = unsent
      BY <2>2, <3>1, <3>3 DEF Entered, Unsent
    <3> QED
      BY <1>0, <1>2, <2>1, <3>1, <3>4
  <2>3. CASE ~halfSent
    <3> DEFINE x == [addr |-> NextHalf, got |-> 0]
    <3>1. buffer' = Lines /\ halfSent' = TRUE
      BY <1>5, <2>3 DEF SendHalf
    <3>2. NextHalf = HalfAddr(Head(Lines), 0)
      BY <2>3 DEF NextHalf
    <3>3. IsFirstHalf(NextHalf) /\ LineOfAddr(NextHalf) = Head(Lines) /\ NextHalf \in Nat
      BY <2>1, <3>2, HalfFacts
    <3>4. Entered = Append(ring, x) /\ x \in Place /\ x.addr = NextHalf
      BY <1>5, <3>3 DEF Entered, Place
    <3>5. Entered \in Seq(Place)
          /\ RingLines(Entered) = Join(RingLines(ring), <<LineOfAddr(x.addr)>>)
      BY <1>0, <3>4, RingAppend
    <3>6. RingLines(Entered) = Join(r, <<Head(Lines)>>)
      BY <3>3, <3>4, <3>5
    <3>7. Unsent' = Tail(Lines)
      BY <3>1 DEF Unsent
    <3>8. <<Head(Lines)>> \in Seq(Nat)
      BY <2>1
    <3>9. ThreeSeqs(Nat, r, <<Head(Lines)>>, Tail(Lines))
      BY <1>3, <2>1, <3>8 DEF ThreeSeqs
    <3>10. Join(Join(r, <<Head(Lines)>>), Tail(Lines)) = Join(r, Lines)
      <4> HIDE DEF r
      <4>1. Join(Join(r, <<Head(Lines)>>), Tail(Lines)) = Join(r, Join(<<Head(Lines)>>, Tail(Lines)))
        BY <3>9, Regroup
      <4> QED
        BY <2>1, <4>1
    <3>11. Lines = Join(Unsent, Held(p6Line))
      BY <1>2, <2>3
    <3> QED
      BY <1>1, <1>2, <2>1, <3>1, <3>5, <3>6, <3>7, <3>10, <3>11
  <2> QED
    BY <1>0, <2>2, <2>3
<1> QED
  BY <1>4, <1>5

(* The oldest line goes to the register of the controller.                 *)
LEMMA DeliverStep ==
  ASSUME LinesInv, NEW groups, SendHalf, DeliverLine(groups)
  PROVE  /\ memEdge' \in Option(Nat) /\ ring' \in Seq(Place)
         /\ Join(Held(memEdge'), RingLines(ring')) = RingLines(Entered)
<1> DEFINE e == RingLines(Entered)
<1>1. Entered \in Seq(Place)
  BY SendHalfStep
<1>2. /\ e \in Seq(Nat) /\ (Entered = <<>> <=> e = <<>>)
      /\ Entered # <<>> => /\ Head(e) = LineOfAddr(Head(Entered).addr)
                           /\ Tail(e) = RingLines(Tail(Entered)) /\ Tail(Entered) \in Seq(Place)
  BY <1>1, RingFacts
<1>3. Delivers \in BOOLEAN /\ (Delivers => Entered # <<>>)
  BY DEF Delivers
<1>4. memEdge' = Gives(e, Delivers)
  BY <1>2, <1>3 DEF DeliverLine, Gives
<1>5. Kept \in Seq(Place) /\ RingLines(Kept) = IF Delivers THEN Tail(e) ELSE e
  BY <1>1, <1>2, <1>3 DEF Kept
<1>6. ring' \in Seq(Place) /\ RingLines(ring') = RingLines(Kept)
  <2>1. ring' = Counted(Kept, groups)
    BY DEF DeliverLine
  <2> QED
    BY <1>5, <2>1, CountedFacts
<1>7. RingLines(ring') = Keeps(e, Delivers, None)
  BY <1>5, <1>6 DEF Keeps, Push
<1> HIDE DEF e
<1>8. /\ Join(Held(Gives(e, Delivers)), Keeps(e, Delivers, None)) = Join(e, Held(None))
      /\ Gives(e, Delivers) \in Option(Nat)
  <2>1. None \in Option(Nat) /\ (Delivers => e # <<>>)
    BY <1>2, <1>3 DEF Option
  <2> QED
    BY <1>2, <1>3, <2>1, QueueStep
<1>9. Join(e, Held(None)) = e
  BY <1>2, ConcatEmptySeq DEF Join, Held
<1> QED
  BY <1>4, <1>6, <1>7, <1>8, <1>9 DEF e

(* The two queues of stage 6.                                              *)
LEMMA StageStep ==
  ASSUME LinesInv, SendRqst, RecvEdge
  PROVE  /\ Join(Held(p6Line'), q6') = Join(q6, Held(p5Line))
         /\ p6Line' \in Option(Nat) /\ q6' \in Seq(Nat)
         /\ Join(Held(edges'), edge_buffer') = Join(edge_buffer, Held(memEdge))
         /\ edges' \in Option(Nat) /\ edge_buffer' \in Seq(Nat)
         /\ edges' # None => edge_buffer # <<>> /\ edges' = Head(edge_buffer)
<1> DEFINE s == ~memFull /\ q6 # <<>>
           c == edge_buffer # <<>>
<1>1. /\ q6 \in Seq(Nat) /\ edge_buffer \in Seq(Nat)
      /\ p5Line \in Option(Nat) /\ memEdge \in Option(Nat)
  BY DEF LinesInv
<1>2. p6Line' = Gives(q6, s) /\ q6' = Keeps(q6, s, p5Line)
  BY DEF SendRqst, Gives, Keeps
<1>3. edges' = Gives(edge_buffer, c) /\ edge_buffer' = Keeps(edge_buffer, c, memEdge)
  BY DEF RecvEdge, Gives, Keeps
<1>4. s \in BOOLEAN /\ c \in BOOLEAN /\ (s => q6 # <<>>) /\ (c => edge_buffer # <<>>)
  OBVIOUS
<1>5. edges' # None => edge_buffer # <<>> /\ edges' = Head(edge_buffer)
  BY DEF RecvEdge
<1> HIDE DEF s, c
<1> QED
  BY <1>1, <1>2, <1>3, <1>4, <1>5, QueueStep

-----------------------------------------------------------------------------
(***************************************************************************)
(* The whole interface is one queue.                                       *)
(***************************************************************************)
Row(b, m, r, w, p, q) == Join(Join(Join(Join(Join(b, m), r), w), p), q)

LEMMA RowIsUnderWay ==
  UnderWay = Row(edge_buffer, Held(memEdge), RingLines(ring), Unsent, Held(p6Line), q6)
BY DEF UnderWay, Row, Join, RingLines, Unsent

LEMMA InvInit == Init => LinesInv
<1> SUFFICES ASSUME Init PROVE LinesInv
  OBVIOUS
<1>1. /\ p5Line = None /\ p6Line = None /\ memEdge = None /\ edges = None
      /\ q6 = <<>> /\ buffer = <<>> /\ edge_buffer = <<>> /\ halfSent = FALSE /\ ring = <<>>
  BY DEF Init
<1>2. <<>> \in Seq(Nat) /\ <<>> \in Seq(Place)
  BY EmptySeq
<1>3. {p5Line, p6Line, memEdge, edges} \subseteq Option(Nat)
  BY <1>1 DEF Option
<1> QED
  BY <1>1, <1>2, <1>3 DEF LinesInv

LEMMA InvTick ==
  ASSUME LinesInv, NEW scheduled, NEW issued, NEW done, Tick(scheduled, issued, done)
  PROVE  LinesInv'
<1>1. SendRqst /\ RecvEdge /\ SendHalf /\ DeliverLine(SubSeq(return_queue, 1, done))
  BY DEF Tick
<1>2. p5Line' \in Option(Nat)
  BY NoneIsNew DEF Tick, CombineEdgeRqst, Option
<1>3. /\ p6Line' \in Option(Nat) /\ q6' \in Seq(Nat)
      /\ edges' \in Option(Nat) /\ edge_buffer' \in Seq(Nat)
  BY <1>1, StageStep
<1>4. buffer' \in Seq(Nat) /\ halfSent' \in BOOLEAN /\ (halfSent' => buffer' # <<>>)
  BY <1>1, SendHalfStep
<1>5. memEdge' \in Option(Nat) /\ ring' \in Seq(Place)
  BY <1>1, DeliverStep
<1> QED
  BY <1>2, <1>3, <1>4, <1>5 DEF LinesInv

LEMMA InvNext == LinesInv /\ [Next]_vars => LinesInv'
<1>1. ASSUME LinesInv, Next PROVE LinesInv'
  BY <1>1, InvTick DEF Next
<1>2. ASSUME LinesInv, UNCHANGED vars PROVE LinesInv'
  BY <1>2 DEF LinesInv, vars, stage6, controller
<1> QED
  BY <1>1, <1>2

(* In a tick the queue takes what was requested and loses what is answered.*)
LEMMA StreamStep ==
  ASSUME LinesInv, NEW scheduled, NEW issued, NEW done, Tick(scheduled, issued, done)
  PROVE  /\ Join(Held(edges'), UnderWay') = Join(UnderWay, Held(p5Line))
         /\ UnderWay \in Seq(Nat) /\ UnderWay' \in Seq(Nat)
         /\ edges' # None => UnderWay # <<>>
<1>0. LinesInv'
  BY InvTick
<1>1. SendRqst /\ RecvEdge /\ SendHalf /\ DeliverLine(SubSeq(return_queue, 1, done))
  BY DEF Tick
<1> DEFINE e  == Held(edges')
           b  == edge_buffer
           bb == edge_buffer'
           m  == Held(memEdge)
           mm == Held(memEdge')
           r  == RingLines(ring)
           rr == RingLines(ring')
           re == RingLines(Entered)
           w  == Unsent
           ww == Unsent'
           p  == Held(p6Line)
           pp == Held(p6Line')
           q  == q6
           qq == q6'
           x  == Held(p5Line)
<1>2. /\ Join(pp, qq) = Join(q, x) /\ Join(e, bb) = Join(b, m)
      /\ edges' # None => b # <<>>
  BY <1>1, StageStep
<1>3. Join(re, ww) = Join(r, Join(w, p)) /\ Entered \in Seq(Place) /\ w \in Seq(Nat) /\ ww \in Seq(Nat)
  BY <1>1, SendHalfStep
<1>4. Join(mm, rr) = re
  BY <1>1, DeliverStep
<1>5. /\ e \in Seq(Nat) /\ b \in Seq(Nat) /\ bb \in Seq(Nat) /\ m \in Seq(Nat) /\ mm \in Seq(Nat)
      /\ p \in Seq(Nat) /\ pp \in Seq(Nat) /\ q \in Seq(Nat) /\ qq \in Seq(Nat) /\ x \in Seq(Nat)
  <2>1. /\ edges' \in Option(Nat) /\ memEdge \in Option(Nat) /\ memEdge' \in Option(Nat)
        /\ p6Line \in Option(Nat) /\ p6Line' \in Option(Nat) /\ p5Line \in Option(Nat)
        /\ b \in Seq(Nat) /\ bb \in Seq(Nat) /\ q \in Seq(Nat) /\ qq \in Seq(Nat)
    BY <1>0 DEF LinesInv
  <2> QED
    BY <2>1, HeldType
<1>6. r \in Seq(Nat) /\ rr \in Seq(Nat) /\ re \in Seq(Nat)
  BY <1>0, <1>3, RingFacts DEF LinesInv
<1> DEFINE T == Seq(Nat)
<1>7. \A s, t, u \in T : Join(Join(s, t), u) = Join(s, Join(t, u)) /\ Join(s, t) \in T
  BY Associative
<1>8. UnderWay = Row(b, m, r, w, p, q)
  BY RowIsUnderWay
<1>9. UnderWay' = Row(bb, mm, rr, ww, pp, qq)
  BY RowIsUnderWay DEF UnderWay, Row, Join, RingLines, Unsent
<1> HIDE DEF e, b, bb, m, mm, r, rr, re, w, ww, p, pp, q, qq, x, T
<1>10. Join(e, Row(bb, mm, rr, ww, pp, qq)) = Join(Row(b, m, r, w, p, q), x)
  <2>1. /\ e \in T /\ b \in T /\ bb \in T /\ m \in T /\ mm \in T /\ r \in T /\ rr \in T /\ re \in T
        /\ w \in T /\ ww \in T /\ p \in T /\ pp \in T /\ q \in T /\ qq \in T /\ x \in T
    BY <1>3, <1>5, <1>6 DEF T
  <2>2. Join(e, bb) = Join(b, m) /\ Join(mm, rr) = re
    BY <1>2, <1>4
  <2>3. Join(re, ww) = Join(r, Join(w, p)) /\ Join(pp, qq) = Join(q, x)
    BY <1>2, <1>3
  <2>4. Join(e, Join(Join(Join(Join(Join(bb, mm), rr), ww), pp), qq))
          = Join(Join(Join(Join(Join(Join(b, m), r), w), p), q), x)
    <3>1. FiveStreams(T, e, b, bb, m, mm, r, rr, re, w, ww, p, pp, q, qq, x)
      BY <1>7, <2>1, <2>2, <2>3 DEF FiveStreams
    <3> QED
      BY <3>1, AllInOne
  <2> QED
    BY <2>4 DEF Row
<1>11. /\ \A s1, s2, s3, s4, s5, s6 \in T : Row(s1, s2, s3, s4, s5, s6) \in T
  BY <1>7 DEF Row
<1>12. Row(b, m, r, w, p, q) \in Seq(Nat) /\ Row(bb, mm, rr, ww, pp, qq) \in Seq(Nat)
  BY <1>3, <1>5, <1>6, <1>11 DEF T
<1>13. edges' # None => UnderWay # <<>>
  <2> SUFFICES ASSUME b # <<>> PROVE Row(b, m, r, w, p, q) # <<>>
    BY <1>2, <1>8
  <2>1. \A s, t \in Seq(Nat) : s # <<>> => Join(s, t) # <<>> /\ Join(s, t) \in Seq(Nat)
    BY ConcatEqualIffEmpty, ConcatProperties DEF Join
  <2>2. Join(b, m) # <<>> /\ Join(b, m) \in Seq(Nat)
    BY <1>5, <2>1
  <2>3. Join(Join(b, m), r) # <<>> /\ Join(Join(b, m), r) \in Seq(Nat)
    BY <1>6, <2>1, <2>2
  <2>4. Join(Join(Join(b, m), r), w) # <<>> /\ Join(Join(Join(b, m), r), w) \in Seq(Nat)
    BY <1>3, <2>1, <2>3
  <2>5. /\ Join(Join(Join(Join(b, m), r), w), p) # <<>>
        /\ Join(Join(Join(Join(b, m), r), w), p) \in Seq(Nat)
    BY <1>5, <2>1, <2>4
  <2> QED
    BY <1>5, <2>1, <2>5 DEF Row
<1> QED
  BY <1>8, <1>9, <1>10, <1>12, <1>13 DEF e, x

LEMMA AbstractInit == Init => Abstract!Init
<1> SUFFICES ASSUME Init PROVE Abstract!Init
  OBVIOUS
<1>1. RingLines(ring) = <<>>
  <2>1. ring = <<>> /\ ring \in Seq(Place)
    BY DEF Init
  <2> QED
    BY <2>1, RingFacts
<1>2. <<>> \o <<>> = <<>>
  BY ConcatEmptySeq
<1>3. Row(<<>>, <<>>, <<>>, <<>>, <<>>, <<>>) = <<>>
  BY <1>2 DEF Row, Join
<1>4. UnderWay = <<>>
  <2>1. UnderWay = Row(edge_buffer, Held(memEdge), RingLines(ring), Unsent, Held(p6Line), q6)
    BY RowIsUnderWay
  <2>2. /\ edge_buffer = <<>> /\ Held(memEdge) = <<>> /\ Unsent = <<>> /\ Held(p6Line) = <<>>
        /\ q6 = <<>>
    BY DEF Init, Held, Unsent
  <2> QED
    BY <1>1, <1>3, <2>1, <2>2
<1> QED
  BY <1>4 DEF Init, Abstract!Init

LEMMA AbstractNext ==
  ASSUME LinesInv, [Next]_vars
  PROVE  [Abstract!Next]_(Abstract!vars)
<1>1. ASSUME NEW scheduled, NEW issued, NEW done, Tick(scheduled, issued, done)
      PROVE  Abstract!Next
  <2>1. p5Line' \in Line \union {None}
    BY <1>1 DEF Tick, CombineEdgeRqst, Option
  <2> DEFINE u == UnderWay
             v == UnderWay'
  <2>2. /\ Join(Held(edges'), v) = Join(u, Held(p5Line))
        /\ u \in Seq(Nat) /\ v \in Seq(Nat) /\ (edges' # None => u # <<>>)
    BY <1>1, StreamStep
  <2>3. p5Line \in Option(Nat) /\ edges' \in Option(Nat)
    BY <1>1, InvTick DEF LinesInv
  <2>4. Abstract!Requested = Push(u, p5Line)
    BY DEF Abstract!Requested, Push
  <2> HIDE DEF u, v
  <2>5. Push(u, p5Line) = Join(u, Held(p5Line))
    BY <2>2, <2>3, Behind
  <2>6. CASE edges' = None
    <3>1. Join(<<>>, v) = v
      BY <2>2, ConcatEmptySeq DEF Join
    <3>2. v = Push(u, p5Line)
      BY <2>2, <2>5, <2>6, <3>1 DEF Held
    <3> QED
      BY <2>1, <2>4, <2>6, <3>2 DEF Abstract!Next, u, v
  <2>7. CASE edges' # None
    <3>1. edges' \in Nat /\ Held(edges') = <<edges'>>
      BY <2>3, <2>7 DEF Option, Held
    <3> DEFINE n == edges'
               j == <<n>> \o v
    <3>2. j = Push(u, p5Line)
      BY <2>2, <2>5, <3>1 DEF Join
    <3>3. Head(j) = n /\ Tail(j) = v
      <4>1. n \in Nat /\ v \in Seq(Nat)
        BY <2>2, <3>1
      <4> HIDE DEF n
      <4> QED
        BY <4>1
    <3>4. Head(Push(u, p5Line)) = Head(u)
      BY <2>2, <2>7 DEF Push
    <3>5. /\ u # <<>> /\ edges' = Head(u) /\ v = Tail(Push(u, p5Line))
      BY <2>2, <2>7, <3>2, <3>3, <3>4
    <3> QED
      BY <2>1, <2>4, <3>5 DEF Abstract!Next, u, v
  <2> QED
    BY <2>6, <2>7
<1>2. CASE UNCHANGED vars
  <2>1. UnderWay' = UnderWay
    BY <1>2 DEF vars, stage6, controller, UnderWay
  <2> QED
    BY <1>2, <2>1 DEF Abstract!vars, vars, stage6
<1> QED
  BY <1>1, <1>2 DEF Next

(* Whatever lines are requested, and in whatever order the DRAM answers    *)
(* the halves: the lines come back in the order of the requests, each one  *)
(* once (6_HBM_Interface.cpp, rq_reorder_buffer).                          *)
THEOREM ReorderingRefines == Spec => ImplementsOrderedMemory
<1>1. Init => LinesInv /\ Abstract!Init
  BY InvInit, AbstractInit
<1>2. LinesInv /\ [Next]_vars => LinesInv' /\ [Abstract!Next]_(Abstract!vars)
  BY InvNext, AbstractNext
<1> QED
  BY <1>1, <1>2, PTL DEF Spec, ImplementsOrderedMemory, Abstract!Spec

-----------------------------------------------------------------------------
(***************************************************************************)
(* The addresses of the halves.                                            *)
(***************************************************************************)
LEMMA AddressFacts ==
  ASSUME NEW l \in Nat, NEW h \in {0, 1}
  PROVE  /\ ReadOf(l, h) \in Nat /\ ChannelOf(ReadOf(l, h)) = Channel
         /\ OriAddr(ReadOf(l, h)) = HalfAddr(l, h) /\ LineOfAddr(OriAddr(ReadOf(l, h))) = l
<1> DEFINE a == HalfAddr(l, h)
           q == a \div PAGE
           m == a % PAGE
           x == ReadOf(l, h)
<1>1. a \in Nat /\ Channel \in 0 .. 7 /\ PAGE = 2048 /\ LineOfAddr(a) = l
  BY HbmAssumption DEF HalfAddr, LineOfAddr, HALF_BYTES, PAGE
<1> HIDE DEF a
<1>2. q \in Nat /\ m \in 0 .. 2047 /\ a = q * 2048 + m
  BY <1>1
<1>3. x = Channel * 2048 + m + q * 16384
  BY <1>1 DEF ReadOf, DramAddr, a
<1> HIDE DEF q, m, x
<1>4. x \in Nat /\ x % 2048 = m /\ x \div 2048 = Channel + 8 * q /\ x \div 16384 = q
  BY <1>1, <1>2, <1>3
<1>5. (Channel + 8 * q) % 8 = Channel
  BY <1>1, <1>2
<1>6. ChannelOf(x) = Channel /\ OriAddr(x) = a
  <2>1. ChannelOf(x) = (x \div 2048) % 8
    BY DEF ChannelOf, PAGE
  <2>2. OriAddr(x) = (x % 2048) + (x \div 16384) * 2048
    BY DEF OriAddr, PAGE
  <2> QED
    BY <1>2, <1>4, <1>5, <2>1, <2>2
<1> QED
  BY <1>1, <1>4, <1>6 DEF a, x

LEMMA TwoReads ==
  ASSUME NEW l \in Nat
  PROVE  ReadOf(l, 0) # ReadOf(l, 1)
<1>1. OriAddr(ReadOf(l, 0)) = HalfAddr(l, 0) /\ OriAddr(ReadOf(l, 1)) = HalfAddr(l, 1)
  BY AddressFacts
<1>2. HalfAddr(l, 0) # HalfAddr(l, 1)
  BY DEF HalfAddr, HALF_BYTES
<1> QED
  BY <1>1, <1>2

LEMMA AddressCases ==
  /\ Address \subseteq Nat
  /\ \A l \in Line : ReadOf(l, 0) \in Address /\ ReadOf(l, 1) \in Address
  /\ \A a \in Address : /\ ChannelOf(a) = Channel /\ LineOfAddr(OriAddr(a)) \in Line
                        /\ a \in {ReadOf(LineOfAddr(OriAddr(a)), 0), ReadOf(LineOfAddr(OriAddr(a)), 1)}
<1>1. \A l \in Line : ReadOf(l, 0) \in Address /\ ReadOf(l, 1) \in Address
  BY DEF Address, ReadOf
<1>2. \A a \in Address : \E l \in Line : a = ReadOf(l, 0) \/ a = ReadOf(l, 1)
  BY DEF Address, ReadOf
<1>3. ASSUME NEW l \in Line, NEW h \in {0, 1}
      PROVE  /\ ReadOf(l, h) \in Nat /\ ChannelOf(ReadOf(l, h)) = Channel
             /\ LineOfAddr(OriAddr(ReadOf(l, h))) = l
  BY NoneIsNew, AddressFacts
<1> QED
  BY <1>1, <1>2, <1>3

(* An answer belongs to a line if its address is that of one of its halves.*)
OfLine(a, line) == ChannelOf(a) = Channel /\ LineOfAddr(OriAddr(a)) = line

LEMMA OfLineCases ==
  ASSUME NEW line \in Line, NEW a \in Address
  PROVE  OfLine(a, line) <=> a = ReadOf(line, 0) \/ a = ReadOf(line, 1)
<1>1. line \in Nat
  BY NoneIsNew
<1>2. /\ OfLine(ReadOf(line, 0), line) /\ OfLine(ReadOf(line, 1), line)
  BY <1>1, AddressFacts DEF OfLine
<1> QED
  BY <1>2, AddressCases DEF OfLine

-----------------------------------------------------------------------------
(***************************************************************************)
(* The answers in a queue of groups.                                       *)
(***************************************************************************)
Groups(b) == Seq([addr : Address, n : 1 .. b])

(* The queue u is s, followed by t.                                        *)
Splits(b, u, s, t) ==
  /\ b \in Nat /\ u \in Groups(b) /\ s \in Groups(b) /\ t \in Groups(b)
  /\ Len(u) = Len(s) + Len(t)
  /\ \A i \in 1 .. Len(s) : u[i] = s[i]
  /\ \A i \in 1 .. Len(t) : u[Len(s) + i] = t[i]

LEMMA GroupsFacts ==
  ASSUME NEW b \in Nat, NEW g \in Groups(b)
  PROVE  /\ Len(g) \in Nat /\ DOMAIN g = 1 .. Len(g)
         /\ \A k \in 1 .. Len(g) : g[k].addr \in Address /\ g[k].n \in 1 .. b
<1>1. Len(g) \in Nat /\ DOMAIN g = 1 .. Len(g)
  BY LenProperties DEF Groups
<1>2. \A k \in 1 .. Len(g) : g[k] \in [addr : Address, n : 1 .. b]
  BY ElementOfSeq DEF Groups
<1> QED
  BY <1>1, <1>2

LEMMA AnswerMember ==
  ASSUME NEW b \in Nat, NEW g \in Groups(b), NEW line
  PROVE  /\ AnswersFor(line, g) \subseteq (1 .. Len(g)) \X (1 .. b)
         /\ \A k \in 1 .. Len(g) : \A j \in 1 .. b :
              <<k, j>> \in AnswersFor(line, g) <=> j <= g[k].n /\ OfLine(g[k].addr, line)
<1> DEFINE all == UNION {{k} \X (1 .. g[k].n) : k \in DOMAIN g}
<1>1. /\ Len(g) \in Nat /\ DOMAIN g = 1 .. Len(g)
      /\ \A k \in 1 .. Len(g) : g[k].n \in 1 .. b
  BY GroupsFacts
<1>2. \A a \in all : \E k \in 1 .. Len(g) : a \in {k} \X (1 .. g[k].n)
  BY <1>1
<1>3. \A k \in 1 .. Len(g) : 1 .. g[k].n \subseteq 1 .. b
  BY <1>1
<1>4. all \subseteq (1 .. Len(g)) \X (1 .. b)
  BY <1>2, <1>3
<1>5. \A k \in 1 .. Len(g) : \A j \in 1 .. b : <<k, j>> \in all <=> j <= g[k].n
  <2> SUFFICES ASSUME NEW k \in 1 .. Len(g), NEW j \in 1 .. b
               PROVE  <<k, j>> \in all <=> j <= g[k].n
    OBVIOUS
  <2>1. <<k, j>> \in all => j <= g[k].n
    <3> SUFFICES ASSUME <<k, j>> \in all PROVE j <= g[k].n
      OBVIOUS
    <3>1. PICK i \in 1 .. Len(g) : <<k, j>> \in {i} \X (1 .. g[i].n)
      BY <1>2
    <3> QED
      BY <1>1, <3>1
  <2>2. j <= g[k].n => <<k, j>> \in all
    <3> SUFFICES ASSUME j <= g[k].n PROVE <<k, j>> \in all
      OBVIOUS
    <3>1. <<k, j>> \in {k} \X (1 .. g[k].n)
      BY <1>1
    <3> QED
      BY <1>1, <3>1
  <2> QED
    BY <2>1, <2>2
<1>6. AnswersFor(line, g) = {a \in all : OfLine(g[a[1]].addr, line)}
  BY DEF AnswersFor, OfLine
<1> HIDE DEF all
<1> QED
  BY <1>4, <1>5, <1>6

LEMMA AnswersFinite ==
  ASSUME NEW b \in Nat, NEW g \in Groups(b), NEW line
  PROVE  IsFiniteSet(AnswersFor(line, g)) /\ Cardinality(AnswersFor(line, g)) \in Nat
<1>1. Len(g) \in Nat
  BY GroupsFacts
<1>2. IsFiniteSet(1 .. Len(g)) /\ IsFiniteSet(1 .. b)
  <2>1. 1 \in Int /\ Len(g) \in Int /\ b \in Int
    BY <1>1
  <2> QED
    BY <2>1, FS_Interval
<1>3. IsFiniteSet((1 .. Len(g)) \X (1 .. b))
  BY <1>2, FS_Product
<1>4. IsFiniteSet(AnswersFor(line, g))
  BY <1>3, AnswerMember, FS_Subset
<1> QED
  BY <1>4, FS_CardinalityType

LEMMA AnswersSplit ==
  ASSUME NEW b, NEW u, NEW s, NEW t, Splits(b, u, s, t), NEW line
  PROVE  Cardinality(AnswersFor(line, u))
           = Cardinality(AnswersFor(line, s)) + Cardinality(AnswersFor(line, t))
<1> DEFINE U == AnswersFor(line, u)
           S == AnswersFor(line, s)
           T == AnswersFor(line, t)
           m == Len(s)
           n == Len(t)
           f == [a \in T |-> <<a[1] + m, a[2]>>]
           R == {f[a] : a \in T}
<1>0. b \in Nat /\ u \in Groups(b) /\ s \in Groups(b) /\ t \in Groups(b)
  BY DEF Splits
<1>1. m \in Nat /\ n \in Nat /\ Len(u) = m + n
      /\ (\A i \in 1 .. m : u[i] = s[i]) /\ (\A i \in 1 .. n : u[m + i] = t[i])
  BY <1>0, GroupsFacts DEF Splits
<1>2. /\ U \subseteq (1 .. m + n) \X (1 .. b)
      /\ \A k \in 1 .. m + n : \A j \in 1 .. b : <<k, j>> \in U <=> j <= u[k].n /\ OfLine(u[k].addr, line)
  BY <1>0, <1>1, AnswerMember
<1>3. /\ S \subseteq (1 .. m) \X (1 .. b)
      /\ \A k \in 1 .. m : \A j \in 1 .. b : <<k, j>> \in S <=> j <= s[k].n /\ OfLine(s[k].addr, line)
  BY <1>0, AnswerMember
<1>4. /\ T \subseteq (1 .. n) \X (1 .. b)
      /\ \A k \in 1 .. n : \A j \in 1 .. b : <<k, j>> \in T <=> j <= t[k].n /\ OfLine(t[k].addr, line)
  BY <1>0, AnswerMember
<1>5. IsFiniteSet(S) /\ IsFiniteSet(T) /\ Cardinality(S) \in Nat /\ Cardinality(T) \in Nat
  BY <1>0, AnswersFinite
<1> HIDE DEF U, S, T, m, n
<1>6. IsFiniteSet(R) /\ Cardinality(R) = Cardinality(T)
  <2>1. \A x, y \in T : f[x] = f[y] => x = y
    <3>1. \A x \in T : x = <<x[1], x[2]>> /\ x[1] \in Int
      BY <1>4
    <3> QED
      BY <1>1, <3>1
  <2>2. f \in Bijection(T, R)
    BY <2>1 DEF Bijection, Injection, IsInjective, Surjection
  <2> HIDE DEF f, R
  <2> QED
    BY <1>5, <2>2, FS_Bijection DEF ExistsBijection
<1>7. /\ R \subseteq (m + 1 .. m + n) \X (1 .. b)
      /\ \A k \in m + 1 .. m + n : \A j \in 1 .. b : <<k, j>> \in R <=> <<k - m, j>> \in T
  <2>1. \A a \in T : f[a] = <<a[1] + m, a[2]>> /\ a[1] \in 1 .. n /\ a[2] \in 1 .. b
    BY <1>4
  <2>2. R \subseteq (m + 1 .. m + n) \X (1 .. b)
    <3> SUFFICES ASSUME NEW a \in T PROVE f[a] \in (m + 1 .. m + n) \X (1 .. b)
      OBVIOUS
    <3>1. a[1] + m \in m + 1 .. m + n
      <4>1. \A i \in 1 .. n : i + m \in m + 1 .. m + n
        BY <1>1
      <4> QED
        BY <2>1, <4>1
    <3> QED
      BY <2>1, <3>1
  <2>3. ASSUME NEW k \in m + 1 .. m + n, NEW j \in 1 .. b PROVE <<k, j>> \in R <=> <<k - m, j>> \in T
    <3>1. ASSUME <<k, j>> \in R PROVE <<k - m, j>> \in T
      <4>1. PICK a \in T : f[a] = <<k, j>>
        BY <3>1
      <4>2. a = <<a[1], a[2]>> /\ a[1] + m = k /\ a[2] = j /\ a[1] \in Int
        BY <1>4, <2>1, <4>1
      <4>3. a[1] = k - m
        BY <1>1, <4>2
      <4> QED
        BY <4>2, <4>3
    <3>2. ASSUME <<k - m, j>> \in T PROVE <<k, j>> \in R
      <4>1. f[<<k - m, j>>] = <<(k - m) + m, j>>
        BY <3>2
      <4>2. (k - m) + m = k
        BY <1>1
      <4> QED
        BY <3>2, <4>1, <4>2
    <3> QED
      BY <3>1, <3>2
  <2> QED
    BY <2>2, <2>3
<1> HIDE DEF R
<1>8. U = S \union R
  <2>1. \A k \in 1 .. m : \A j \in 1 .. b : <<k, j>> \in U <=> <<k, j>> \in S \union R
    <3> SUFFICES ASSUME NEW k \in 1 .. m, NEW j \in 1 .. b
                 PROVE  <<k, j>> \in U <=> <<k, j>> \in S \union R
      OBVIOUS
    <3>1. k \in 1 .. m + n /\ k \notin m + 1 .. m + n /\ u[k] = s[k]
      BY <1>1
    <3> QED
      BY <1>2, <1>3, <1>7, <3>1
  <2>2. \A k \in m + 1 .. m + n : \A j \in 1 .. b : <<k, j>> \in U <=> <<k, j>> \in S \union R
    <3> SUFFICES ASSUME NEW k \in m + 1 .. m + n, NEW j \in 1 .. b
                 PROVE  <<k, j>> \in U <=> <<k, j>> \in S \union R
      OBVIOUS
    <3>1. k \in 1 .. m + n /\ k \notin 1 .. m /\ k - m \in 1 .. n /\ m + (k - m) = k
      BY <1>1
    <3>2. u[k] = t[k - m]
      BY <1>1, <3>1
    <3> QED
      BY <1>2, <1>3, <1>4, <1>7, <3>1, <3>2
  <2>3. \A k \in 1 .. m + n : k \in 1 .. m \/ k \in m + 1 .. m + n
    BY <1>1
  <2>4. S \union R \subseteq (1 .. m + n) \X (1 .. b)
    <3>1. 1 .. m \subseteq 1 .. m + n /\ m + 1 .. m + n \subseteq 1 .. m + n
      BY <1>1
    <3> QED
      BY <1>3, <1>7, <3>1
  <2> QED
    BY <1>2, <2>1, <2>2, <2>3, <2>4
<1>9. S \cap R = {}
  <2>1. \A k \in 1 .. m : k \notin m + 1 .. m + n
    BY <1>1
  <2> QED
    BY <1>3, <1>7, <2>1
<1>10. Cardinality(S \union R) = Cardinality(S) + Cardinality(R) - Cardinality(S \cap R)
  BY <1>5, <1>6, FS_Union
<1>11. Cardinality(S \cap R) = 0
  BY <1>9, FS_EmptySet
<1>12. Cardinality(U) = Cardinality(S) + Cardinality(T)
  BY <1>5, <1>6, <1>8, <1>10, <1>11
<1> QED
  BY <1>12 DEF U, S, T

(* The queue with the answered groups in front and the issued ones behind. *)
LEMMA SplitAt ==
  ASSUME NEW b \in Nat, NEW q \in Groups(b), NEW done \in 0 .. Len(q)
  PROVE  Splits(b, q, SubSeq(q, 1, done), SubSeq(q, done + 1, Len(q)))
<1> DEFINE G == [addr : Address, n : 1 .. b]
           s == SubSeq(q, 1, done)
           t == SubSeq(q, done + 1, Len(q))
<1>1. Len(q) \in Nat /\ done \in Nat /\ done <= Len(q) /\ \A k \in 1 .. Len(q) : q[k] \in G
  <2>1. q \in Seq(G)
    BY DEF Groups
  <2> HIDE DEF G
  <2>2. Len(q) \in Nat /\ \A k \in 1 .. Len(q) : q[k] \in G
    BY <2>1, LenProperties, ElementOfSeq
  <2> QED
    BY <2>2
<1> HIDE DEF G
<1>2. s \in Seq(G) /\ Len(s) = done /\ \A i \in 1 .. done : s[i] = q[i]
  <2>1. \A i \in 1 .. done : q[i] \in G
    BY <1>1
  <2>2. /\ s \in Seq(G) /\ Len(s) = IF 1 <= done THEN done - 1 + 1 ELSE 0
        /\ \A i \in 1 .. done - 1 + 1 : s[i] = q[1 + i - 1]
    <3> HIDE DEF s
    <3>1. 1 \in Int /\ done \in Int
      BY <1>1
    <3> QED
      BY <2>1, <3>1, SubSeqProperties DEF s
  <2>3. done - 1 + 1 = done /\ \A i \in 1 .. done : 1 + i - 1 = i
    BY <1>1
  <2> HIDE DEF s
  <2> QED
    BY <1>1, <2>2, <2>3
<1>3. t \in Seq(G) /\ Len(t) = Len(q) - done /\ \A i \in 1 .. Len(q) - done : t[i] = q[done + i]
  <2>1. \A i \in done + 1 .. Len(q) : q[i] \in G
    BY <1>1
  <2>2. /\ t \in Seq(G) /\ Len(t) = IF done + 1 <= Len(q) THEN Len(q) - (done + 1) + 1 ELSE 0
        /\ \A i \in 1 .. Len(q) - (done + 1) + 1 : t[i] = q[done + 1 + i - 1]
    <3> HIDE DEF t
    <3>1. done + 1 \in Int /\ Len(q) \in Int
      BY <1>1
    <3> QED
      BY <2>1, <3>1, SubSeqProperties DEF t
  <2>3. Len(q) - (done + 1) + 1 = Len(q) - done /\ \A i \in Int : done + 1 + i - 1 = done + i
    BY <1>1
  <2> HIDE DEF t
  <2>4. Len(t) = Len(q) - done
    BY <1>1, <2>2
  <2>5. \A i \in 1 .. Len(q) - done : t[i] = q[done + i]
    <3> SUFFICES ASSUME NEW i \in 1 .. Len(q) - done PROVE t[i] = q[done + i]
      OBVIOUS
    <3>1. i \in 1 .. Len(q) - (done + 1) + 1 /\ done + 1 + i - 1 = done + i
      BY <1>1
    <3>2. t[i] = q[done + 1 + i - 1]
      BY <2>2, <3>1
    <3> QED
      BY <3>1, <3>2
  <2> QED
    BY <2>2, <2>4, <2>5
<1> HIDE DEF s, t
<1>4. /\ s \in Groups(b) /\ t \in Groups(b) /\ Len(q) = Len(s) + Len(t)
      /\ \A i \in 1 .. Len(s) : q[i] = s[i]
      /\ \A i \in 1 .. Len(t) : q[Len(s) + i] = t[i]
  BY <1>1, <1>2, <1>3 DEF Groups, G
<1> QED
  BY <1>4 DEF Splits, s, t

LEMMA SplitJoined ==
  ASSUME NEW b \in Nat, NEW s \in Groups(b), NEW t \in Groups(b)
  PROVE  Splits(b, s \o t, s, t)
<1> DEFINE G == [addr : Address, n : 1 .. b]
           u == s \o t
<1>1. s \in Seq(G) /\ t \in Seq(G)
  BY DEF Groups
<1> HIDE DEF G
<1>2. Len(s) \in Nat /\ Len(t) \in Nat
  BY <1>1, LenProperties
<1>3. /\ u \in Seq(G) /\ Len(u) = Len(s) + Len(t)
      /\ \A i \in 1 .. Len(s) + Len(t) : u[i] = IF i <= Len(s) THEN s[i] ELSE t[i - Len(s)]
  BY <1>1, ConcatProperties
<1> HIDE DEF u
<1>4. \A i \in 1 .. Len(s) : u[i] = s[i]
  <2>1. \A i \in 1 .. Len(s) : i \in 1 .. Len(s) + Len(t) /\ i <= Len(s)
    BY <1>2
  <2> QED
    BY <1>3, <2>1
<1>5. \A i \in 1 .. Len(t) : u[Len(s) + i] = t[i]
  <2>1. \A i \in 1 .. Len(t) : /\ Len(s) + i \in 1 .. Len(s) + Len(t) /\ ~(Len(s) + i <= Len(s))
                               /\ (Len(s) + i) - Len(s) = i
    BY <1>2
  <2> QED
    BY <1>3, <2>1
<1> QED
  BY <1>3, <1>4, <1>5 DEF Splits, Groups, G, u

(* The issued reads: every address at most once, with all of its reads.    *)
Issue(issued, requested) ==
  [i \in DOMAIN issued |-> [addr |-> issued[i], n |-> requested[issued[i]]]]
Issuable(issued, requested) ==
  /\ issued \in Seq(Address) /\ requested \in [Address -> Nat]
  /\ \A i \in 1 .. Len(issued) : requested[issued[i]] > 0
  /\ \A i, j \in 1 .. Len(issued) : issued[i] = issued[j] => i = j
LeftFor(issued, requested, a) ==
  IF \E i \in DOMAIN issued : issued[i] = a THEN 0 ELSE requested[a]

LEMMA IssueType ==
  ASSUME NEW issued, NEW requested, Issuable(issued, requested), NEW b \in Nat,
         \A a \in Address : requested[a] <= b
  PROVE  /\ Issue(issued, requested) \in Groups(b) /\ Len(Issue(issued, requested)) = Len(issued)
         /\ \A i \in 1 .. Len(issued) : /\ Issue(issued, requested)[i].addr = issued[i]
                                        /\ Issue(issued, requested)[i].n = requested[issued[i]]
<1> DEFINE g == Issue(issued, requested)
           G == [addr : Address, n : 1 .. b]
<1>1. /\ DOMAIN issued = 1 .. Len(issued) /\ Len(issued) \in Nat
      /\ \A i \in 1 .. Len(issued) : issued[i] \in Address
  BY LenProperties, ElementOfSeq DEF Issuable
<1>2. g = [i \in 1 .. Len(issued) |-> [addr |-> issued[i], n |-> requested[issued[i]]]]
  BY <1>1 DEF Issue
<1>3. \A i \in 1 .. Len(issued) : requested[issued[i]] \in 1 .. b
  BY <1>1 DEF Issuable
<1>4. \A i \in 1 .. Len(issued) :
        g[i] \in G /\ g[i].addr = issued[i] /\ g[i].n = requested[issued[i]]
  BY <1>1, <1>2, <1>3
<1>5. g \in [1 .. Len(issued) -> G]
  BY <1>2, <1>4
<1> HIDE DEF g, G
<1>6. g \in Seq(G) /\ Len(g) = Len(issued)
  BY <1>1, <1>5, SeqDef, LenProperties
<1> QED
  BY <1>4, <1>6 DEF g, G, Groups

(* The answers that an issue owes to one address.                          *)
Own(issued, requested, a) ==
  {x \in (DOMAIN issued) \X Nat : issued[x[1]] = a /\ x[2] \in 1 .. requested[a]}

LEMMA IssueCount ==
  ASSUME NEW issued, NEW requested, Issuable(issued, requested), NEW a \in Address
  PROVE  /\ IsFiniteSet(Own(issued, requested, a)) /\ Cardinality(Own(issued, requested, a)) \in Nat
         /\ Cardinality(Own(issued, requested, a)) + LeftFor(issued, requested, a) = requested[a]
<1> DEFINE own == {x \in (DOMAIN issued) \X Nat : issued[x[1]] = a /\ x[2] \in 1 .. requested[a]}
<1>0. own = Own(issued, requested, a)
  BY DEF Own
<1>1. requested[a] \in Nat /\ DOMAIN issued = 1 .. Len(issued) /\ Len(issued) \in Nat
  BY LenProperties DEF Issuable
<1>2. ASSUME \E i \in DOMAIN issued : issued[i] = a
      PROVE  IsFiniteSet(own) /\ Cardinality(own) + LeftFor(issued, requested, a) = requested[a]
  <2>1. PICK i \in DOMAIN issued : issued[i] = a
    BY <1>2
  <2>2. \A j \in DOMAIN issued : issued[j] = a => j = i
    BY <1>1, <2>1 DEF Issuable
  <2>3. own = {i} \X (1 .. requested[a])
    <3> DEFINE R == 1 .. requested[a]
    <3>1. R \subseteq Nat
      BY <1>1
    <3> HIDE DEF R
    <3>2. ASSUME NEW x \in (DOMAIN issued) \X Nat
          PROVE  issued[x[1]] = a /\ x[2] \in R <=> x \in {i} \X R
      <4>1. x = <<x[1], x[2]>> /\ x[1] \in DOMAIN issued
        OBVIOUS
      <4>2. issued[x[1]] = a <=> x[1] = i
        BY <2>1, <2>2, <4>1
      <4> QED
        BY <4>1, <4>2
    <3>3. {i} \X R \subseteq (DOMAIN issued) \X Nat
      BY <3>1
    <3>4. {x \in (DOMAIN issued) \X Nat : issued[x[1]] = a /\ x[2] \in R} = {i} \X R
      BY <3>2, <3>3
    <3> QED
      BY <3>4 DEF R
  <2>4. IsFiniteSet({i}) /\ Cardinality({i}) = 1
    BY FS_Singleton
  <2>5. IsFiniteSet(1 .. requested[a]) /\ Cardinality(1 .. requested[a]) = requested[a]
    <3>1. 1 \in Int /\ requested[a] \in Int
      BY <1>1
    <3>2. /\ IsFiniteSet(1 .. requested[a])
          /\ Cardinality(1 .. requested[a]) = IF 1 > requested[a] THEN 0 ELSE requested[a] - 1 + 1
      BY <3>1, FS_Interval
    <3> QED
      BY <1>1, <3>2
  <2>7. LeftFor(issued, requested, a) = 0
    BY <1>2 DEF LeftFor
  <2> HIDE DEF own
  <2>6. IsFiniteSet(own) /\ Cardinality(own) = 1 * requested[a]
    <3> DEFINE R == 1 .. requested[a]
    <3>1. IsFiniteSet(R) /\ Cardinality(R) = requested[a] /\ own = {i} \X R
      BY <2>3, <2>5
    <3> HIDE DEF R
    <3>2. IsFiniteSet({i} \X R) /\ Cardinality({i} \X R) = Cardinality({i}) * Cardinality(R)
      BY <2>4, <3>1, FS_Product
    <3> QED
      BY <2>4, <3>1, <3>2
  <2>8. Cardinality(own) + LeftFor(issued, requested, a) = requested[a]
    BY <1>1, <2>6, <2>7
  <2> QED
    BY <2>6, <2>8
<1>3. ASSUME ~ \E i \in DOMAIN issued : issued[i] = a
      PROVE  IsFiniteSet(own) /\ Cardinality(own) + LeftFor(issued, requested, a) = requested[a]
  <2>1. own = {}
    <3>1. \A x \in (DOMAIN issued) \X Nat : x[1] \in DOMAIN issued
      OBVIOUS
    <3>2. \A x \in (DOMAIN issued) \X Nat : issued[x[1]] # a
      BY <1>3, <3>1
    <3> QED
      BY <3>2
  <2>2. LeftFor(issued, requested, a) = requested[a]
    BY <1>3 DEF LeftFor
  <2> HIDE DEF own
  <2>3. IsFiniteSet(own) /\ Cardinality(own) = 0
    BY <2>1, FS_EmptySet
  <2> QED
    BY <1>1, <2>2, <2>3
<1>4. IsFiniteSet(own) /\ Cardinality(own) + LeftFor(issued, requested, a) = requested[a]
  BY <1>2, <1>3
<1> HIDE DEF own
<1> QED
  BY <1>0, <1>4, FS_CardinalityType

(* What an issue owes to a line and what is left unissued is what was      *)
(* requested.                                                              *)
LEMMA IssueAnswers ==
  ASSUME NEW issued, NEW requested, Issuable(issued, requested), NEW b \in Nat,
         \A a \in Address : requested[a] <= b, NEW line \in Line
  PROVE  Cardinality(AnswersFor(line, Issue(issued, requested)))
           + LeftFor(issued, requested, ReadOf(line, 0)) + LeftFor(issued, requested, ReadOf(line, 1))
         = requested[ReadOf(line, 0)] + requested[ReadOf(line, 1)]
<1> DEFINE g == Issue(issued, requested)
           d == ReadOf(line, 0)
           e == ReadOf(line, 1)
           D == Own(issued, requested, d)
           E == Own(issued, requested, e)
           A == AnswersFor(line, g)
<1>1. /\ g \in Groups(b) /\ Len(g) = Len(issued)
      /\ \A i \in 1 .. Len(issued) : g[i].addr = issued[i] /\ g[i].n = requested[issued[i]]
  BY IssueType
<1>2. /\ DOMAIN issued = 1 .. Len(issued) /\ Len(issued) \in Nat
      /\ \A i \in 1 .. Len(issued) : issued[i] \in Address
      /\ \A a \in Address : requested[a] \in Nat /\ requested[a] <= b
  BY LenProperties, ElementOfSeq DEF Issuable
<1>3. d \in Address /\ e \in Address /\ d # e
  BY AddressCases, TwoReads, NoneIsNew
<1>4. \A a \in Address : OfLine(a, line) <=> a = d \/ a = e
  BY OfLineCases
<1>5. /\ A \subseteq (1 .. Len(issued)) \X (1 .. b)
      /\ \A k \in 1 .. Len(issued) : \A j \in 1 .. b :
           <<k, j>> \in A <=> j <= g[k].n /\ OfLine(g[k].addr, line)
  BY <1>1, AnswerMember
<1>6. /\ IsFiniteSet(D) /\ Cardinality(D) \in Nat
      /\ Cardinality(D) + LeftFor(issued, requested, d) = requested[d]
      /\ IsFiniteSet(E) /\ Cardinality(E) \in Nat
      /\ Cardinality(E) + LeftFor(issued, requested, e) = requested[e]
  BY <1>3, IssueCount
<1>7. ASSUME NEW a \in Address
      PROVE  /\ Own(issued, requested, a) \subseteq (1 .. Len(issued)) \X (1 .. b)
             /\ \A k \in 1 .. Len(issued) : \A j \in 1 .. b :
                  <<k, j>> \in Own(issued, requested, a) <=> issued[k] = a /\ j <= requested[a]
  <2>1. requested[a] \in Nat /\ requested[a] <= b
    BY <1>2
  <2>2. \A j \in 1 .. requested[a] : j \in 1 .. b
    BY <2>1
  <2>3. \A j \in 1 .. b : j \in 1 .. requested[a] <=> j <= requested[a]
    BY <2>1
  <2>4. \A j \in 1 .. b : j \in Nat
    OBVIOUS
  <2> QED
    BY <1>2, <2>2, <2>3, <2>4 DEF Own
<1>8. /\ D \subseteq (1 .. Len(issued)) \X (1 .. b) /\ E \subseteq (1 .. Len(issued)) \X (1 .. b)
      /\ \A k \in 1 .. Len(issued) : \A j \in 1 .. b :
           /\ <<k, j>> \in D <=> issued[k] = d /\ j <= requested[d]
           /\ <<k, j>> \in E <=> issued[k] = e /\ j <= requested[e]
  BY <1>3, <1>7
<1> HIDE DEF g, d, e, D, E, A
<1>9. \A k \in 1 .. Len(issued) : \A j \in 1 .. b :
        /\ <<k, j>> \in A <=> <<k, j>> \in D \/ <<k, j>> \in E
        /\ ~(<<k, j>> \in D /\ <<k, j>> \in E)
  <2> SUFFICES ASSUME NEW k \in 1 .. Len(issued), NEW j \in 1 .. b
               PROVE  /\ <<k, j>> \in A <=> <<k, j>> \in D \/ <<k, j>> \in E
                      /\ ~(<<k, j>> \in D /\ <<k, j>> \in E)
    OBVIOUS
  <2>1. <<k, j>> \in A <=> j <= requested[issued[k]] /\ (issued[k] = d \/ issued[k] = e)
    BY <1>1, <1>2, <1>4, <1>5
  <2>2. /\ <<k, j>> \in D <=> issued[k] = d /\ j <= requested[d]
        /\ <<k, j>> \in E <=> issued[k] = e /\ j <= requested[e]
    BY <1>8
  <2> QED
    BY <1>3, <2>1, <2>2
<1>10. A = D \union E /\ D \cap E = {}
  BY <1>5, <1>8, <1>9
<1>11. Cardinality(A) = Cardinality(D) + Cardinality(E) - Cardinality(D \cap E)
  BY <1>6, <1>10, FS_Union
<1>12. Cardinality(D \cap E) = 0
  BY <1>10, FS_EmptySet
<1>13. LeftFor(issued, requested, d) \in Nat /\ LeftFor(issued, requested, e) \in Nat
  BY <1>2, <1>3 DEF LeftFor
<1>14. Cardinality(A) + LeftFor(issued, requested, d) + LeftFor(issued, requested, e)
         = requested[d] + requested[e]
  <2>1. requested[d] \in Nat /\ requested[e] \in Nat
    BY <1>2, <1>3
  <2> QED
    BY <1>6, <1>11, <1>12, <1>13, <2>1
<1> QED
  BY <1>14 DEF A, d, e, g

-----------------------------------------------------------------------------
(***************************************************************************)
(* The halves that the entries of the ring miss.                           *)
(***************************************************************************)
LEMMA EntryFacts ==
  ASSUME NEW r \in Seq(Entry)
  PROVE  /\ Len(r) \in Nat /\ DOMAIN r = 1 .. Len(r)
         /\ \A i \in 1 .. Len(r) : r[i].addr \in Nat /\ r[i].got \in 0 .. 2
<1>1. Len(r) \in Nat /\ DOMAIN r = 1 .. Len(r) /\ \A i \in 1 .. Len(r) : r[i] \in Entry
  BY LenProperties, ElementOfSeq
<1> QED
  BY <1>1 DEF Entry

LEMMA MissingMember ==
  ASSUME NEW r \in Seq(Entry), NEW line
  PROVE  /\ Missing(r, line) \subseteq (1 .. Len(r)) \X {1, 2}
         /\ \A i \in 1 .. Len(r) : \A k \in {1, 2} :
              <<i, k>> \in Missing(r, line) <=> LineOfAddr(r[i].addr) = line /\ k > r[i].got
<1>1. DOMAIN r = 1 .. Len(r)
  BY EntryFacts
<1> QED
  BY <1>1 DEF Missing

LEMMA MissingFinite ==
  ASSUME NEW r \in Seq(Entry), NEW line
  PROVE  /\ IsFiniteSet(Missing(r, line)) /\ Cardinality(Missing(r, line)) \in Nat
         /\ Cardinality(Missing(r, line)) <= 2 * Len(r)
<1> DEFINE n == Len(r)
           all == (1 .. n) \X {1, 2}
           M == Missing(r, line)
<1>1. n \in Nat /\ M \subseteq all
  BY EntryFacts, MissingMember
<1> HIDE DEF n, M
<1>2. IsFiniteSet(1 .. n) /\ Cardinality(1 .. n) = n
  <2>1. 1 \in Int /\ n \in Int
    BY <1>1
  <2>2. IsFiniteSet(1 .. n) /\ Cardinality(1 .. n) = IF 1 > n THEN 0 ELSE n - 1 + 1
    BY <2>1, FS_Interval
  <2> QED
    BY <1>1, <2>2
<1>3. IsFiniteSet({1, 2}) /\ Cardinality({1, 2}) = 2
  <2>1. 1 \in Int /\ 2 \in Int /\ {1, 2} = 1 .. 2
    OBVIOUS
  <2>2. IsFiniteSet(1 .. 2) /\ Cardinality(1 .. 2) = IF 1 > 2 THEN 0 ELSE 2 - 1 + 1
    BY <2>1, FS_Interval
  <2>3. IsFiniteSet(1 .. 2) /\ Cardinality(1 .. 2) = 2
    BY <2>2
  <2> QED
    BY <2>1, <2>3, Zenon
<1>4. IsFiniteSet(all) /\ Cardinality(all) = n * 2
  <2> DEFINE I == 1 .. n
             H == {1, 2}
  <2>1. IsFiniteSet(I) /\ Cardinality(I) = n /\ IsFiniteSet(H) /\ Cardinality(H) = 2 /\ all = I \X H
    BY <1>2, <1>3
  <2> HIDE DEF I, H, all
  <2>2. IsFiniteSet(I \X H) /\ Cardinality(I \X H) = Cardinality(I) * Cardinality(H)
    BY <2>1, FS_Product
  <2> QED
    BY <2>1, <2>2
<1> HIDE DEF all
<1>5. IsFiniteSet(M) /\ Cardinality(M) <= Cardinality(all)
  BY <1>1, <1>4, FS_Subset
<1>6. Cardinality(M) \in Nat
  BY <1>5, FS_CardinalityType
<1>7. Cardinality(M) <= 2 * n
  BY <1>1, <1>4, <1>5, <1>6
<1> QED
  BY <1>5, <1>6, <1>7 DEF M, n

(* A line that is entered misses both halves.                              *)
LEMMA MissingAppend ==
  ASSUME NEW r \in Seq(Entry), NEW a \in Nat, NEW line
  PROVE  /\ Append(r, [addr |-> a, got |-> 0]) \in Seq(Entry)
         /\ Cardinality(Missing(Append(r, [addr |-> a, got |-> 0]), line))
              = Cardinality(Missing(r, line)) + (IF LineOfAddr(a) = line THEN 2 ELSE 0)
<1> DEFINE x == [addr |-> a, got |-> 0]
           s == Append(r, x)
           n == Len(r)
           M == Missing(r, line)
           N == Missing(s, line)
<1>1. x \in Entry /\ x.addr = a /\ x.got = 0
  BY DEF Entry
<1>2. /\ s \in Seq(Entry) /\ Len(s) = n + 1 /\ n \in Nat /\ s[n + 1] = x
      /\ \A i \in 1 .. n : s[i] = r[i]
  BY <1>1, AppendProperties, EntryFacts
<1> HIDE DEF s
<1>3. /\ M \subseteq (1 .. n) \X {1, 2}
      /\ \A i \in 1 .. n : \A k \in {1, 2} :
           <<i, k>> \in M <=> LineOfAddr(r[i].addr) = line /\ k > r[i].got
      /\ N \subseteq (1 .. n + 1) \X {1, 2}
      /\ \A i \in 1 .. n + 1 : \A k \in {1, 2} :
           <<i, k>> \in N <=> LineOfAddr(s[i].addr) = line /\ k > s[i].got
  BY <1>2, MissingMember
<1>4. IsFiniteSet(M) /\ Cardinality(M) \in Nat
  BY MissingFinite
<1> HIDE DEF M, N, x, n
<1>5. \A i \in 1 .. n + 1 : i \in 1 .. n \/ i = n + 1
  BY <1>2
<1>6. \A i \in 1 .. n : i \in 1 .. n + 1 /\ i # n + 1
  BY <1>2
<1>7. \A i \in 1 .. n : \A k \in {1, 2} : <<i, k>> \in N <=> <<i, k>> \in M
  BY <1>2, <1>3, <1>6
<1>8. \A k \in {1, 2} : <<n + 1, k>> \in N <=> LineOfAddr(a) = line
  <2>1. n + 1 \in 1 .. n + 1
    BY <1>2
  <2>2. s[n + 1].addr = a /\ s[n + 1].got = 0 /\ \A k \in {1, 2} : k > 0
    BY <1>1, <1>2
  <2> QED
    BY <1>3, <2>1, <2>2
<1>9. CASE LineOfAddr(a) = line
  <2>1. N = M \union {<<n + 1, 1>>} \union {<<n + 1, 2>>}
    <3>1. \A p \in N : p \in M \/ p \in {<<n + 1, 1>>, <<n + 1, 2>>}
      <4> SUFFICES ASSUME NEW p \in N PROVE p \in M \/ p \in {<<n + 1, 1>>, <<n + 1, 2>>}
        OBVIOUS
      <4>1. p = <<p[1], p[2]>> /\ p[1] \in 1 .. n + 1 /\ p[2] \in {1, 2}
        BY <1>3
      <4>2. CASE p[1] \in 1 .. n
        BY <1>7, <4>1, <4>2
      <4>3. CASE p[1] = n + 1
        BY <4>1, <4>3
      <4> QED
        BY <1>5, <4>1, <4>2, <4>3
    <3>2. M \subseteq N
      <4> SUFFICES ASSUME NEW p \in M PROVE p \in N
        OBVIOUS
      <4>1. p = <<p[1], p[2]>> /\ p[1] \in 1 .. n /\ p[2] \in {1, 2}
        BY <1>3
      <4> QED
        BY <1>7, <4>1
    <3>3. <<n + 1, 1>> \in N /\ <<n + 1, 2>> \in N
      BY <1>8, <1>9
    <3> QED
      BY <3>1, <3>2, <3>3
  <2>2. <<n + 1, 1>> \notin M /\ <<n + 1, 2>> \notin M \union {<<n + 1, 1>>}
    BY <1>3, <1>6
  <2>3. /\ IsFiniteSet(M \union {<<n + 1, 1>>})
        /\ Cardinality(M \union {<<n + 1, 1>>}) = Cardinality(M) + 1
    BY <1>4, <2>2, FS_AddElement
  <2>4. Cardinality(N) = Cardinality(M \union {<<n + 1, 1>>}) + 1
    BY <2>1, <2>2, <2>3, FS_AddElement
  <2> QED
    BY <1>2, <1>4, <1>9, <2>3, <2>4 DEF M, N, s, x
<1>10. CASE LineOfAddr(a) # line
  <2>1. N = M
    <3>1. ASSUME NEW p \in N PROVE p \in M
      <4>1. p = <<p[1], p[2]>> /\ p[1] \in 1 .. n + 1 /\ p[2] \in {1, 2}
        BY <1>3
      <4>2. p[1] # n + 1
        BY <1>8, <1>10, <4>1
      <4> QED
        BY <1>5, <1>7, <4>1, <4>2
    <3>2. ASSUME NEW p \in M PROVE p \in N
      <4>1. p = <<p[1], p[2]>> /\ p[1] \in 1 .. n /\ p[2] \in {1, 2}
        BY <1>3
      <4> QED
        BY <1>7, <4>1
    <3> QED
      BY <3>1, <3>2
  <2> QED
    BY <1>2, <1>4, <1>10, <2>1 DEF M, N, s, x
<1> QED
  BY <1>9, <1>10

(* An entry that has both halves leaves without missing any.               *)
LEMMA MissingTail ==
  ASSUME NEW r \in Seq(Entry), r # <<>>, Head(r).got = 2, NEW line
  PROVE  /\ Tail(r) \in Seq(Entry) /\ Len(Tail(r)) = Len(r) - 1
         /\ \A i \in 1 .. Len(Tail(r)) : Tail(r)[i] = r[i + 1]
         /\ Cardinality(Missing(Tail(r), line)) = Cardinality(Missing(r, line))
<1> DEFINE t == Tail(r)
           n == Len(r)
           M == Missing(r, line)
           N == Missing(t, line)
           f == [p \in N |-> <<p[1] + 1, p[2]>>]
<1>1. /\ t \in Seq(Entry) /\ Len(t) = n - 1 /\ n \in Nat \ {0} /\ r[1].got = 2
      /\ \A i \in 1 .. n - 1 : t[i] = r[i + 1]
  <2>1. n \in Nat /\ n # 0
    BY EntryFacts
  <2> QED
    BY <2>1, HeadTailProperties
<1> HIDE DEF t
<1>2. /\ M \subseteq (1 .. n) \X {1, 2}
      /\ \A i \in 1 .. n : \A k \in {1, 2} :
           <<i, k>> \in M <=> LineOfAddr(r[i].addr) = line /\ k > r[i].got
      /\ N \subseteq (1 .. n - 1) \X {1, 2}
      /\ \A i \in 1 .. n - 1 : \A k \in {1, 2} :
           <<i, k>> \in N <=> LineOfAddr(t[i].addr) = line /\ k > t[i].got
  BY <1>1, MissingMember
<1>3. IsFiniteSet(N)
  BY <1>1, MissingFinite
<1> HIDE DEF M, N, n
<1>4. \A i \in 1 .. n - 1 : i + 1 \in 1 .. n
  BY <1>1
<1>5. \A i \in 1 .. n - 1 : \A k \in {1, 2} : <<i, k>> \in N <=> <<i + 1, k>> \in M
  <2> SUFFICES ASSUME NEW i \in 1 .. n - 1, NEW k \in {1, 2}
               PROVE  <<i, k>> \in N <=> <<i + 1, k>> \in M
    OBVIOUS
  <2>1. i + 1 \in 1 .. n /\ t[i] = r[i + 1]
    BY <1>1, <1>4
  <2>2. <<i, k>> \in N <=> LineOfAddr(t[i].addr) = line /\ k > t[i].got
    BY <1>2
  <2>3. <<i + 1, k>> \in M <=> LineOfAddr(r[i + 1].addr) = line /\ k > r[i + 1].got
    BY <1>2, <2>1
  <2> QED
    BY <2>1, <2>2, <2>3
<1>6. f \in Bijection(N, M)
  <2>1. \A p \in N : /\ p = <<p[1], p[2]>> /\ p[1] \in 1 .. n - 1 /\ p[2] \in {1, 2}
                     /\ f[p] = <<p[1] + 1, p[2]>>
    BY <1>2
  <2>2. f \in [N -> M]
    <3>1. \A p \in N : f[p] \in M
      BY <1>5, <2>1
    <3> QED
      BY <3>1
  <2>3. \A p, q \in N : f[p] = f[q] => p = q
    BY <2>1
  <2>4. \A m \in M : \E p \in N : f[p] = m
    <3> SUFFICES ASSUME NEW m \in M PROVE \E p \in N : f[p] = m
      OBVIOUS
    <3>1. m = <<m[1], m[2]>> /\ m[1] \in 1 .. n /\ m[2] \in {1, 2}
      BY <1>2
    <3>2. m[1] # 1
      <4>1. m[1] = 1 => ~(m[2] > r[m[1]].got)
        BY <1>1, <3>1
      <4> QED
        BY <1>2, <3>1, <4>1
    <3>3. m[1] - 1 \in 1 .. n - 1 /\ (m[1] - 1) + 1 = m[1]
      BY <1>1, <3>1, <3>2
    <3>4. <<m[1] - 1, m[2]>> \in N
      BY <1>5, <3>1, <3>3
    <3>5. f[<<m[1] - 1, m[2]>>] = m
      BY <3>1, <3>3, <3>4
    <3> QED
      BY <3>4, <3>5
  <2> HIDE DEF f
  <2> QED
    BY <2>2, <2>3, <2>4 DEF Bijection, Injection, IsInjective, Surjection
<1>7. Cardinality(M) = Cardinality(N)
  BY <1>3, <1>6, FS_Bijection DEF ExistsBijection
<1> QED
  BY <1>1, <1>7 DEF M, N, t, n

(* The answers fill the first places that miss one.                        *)
LEMMA FilledFacts ==
  ASSUME NEW r \in Seq(Entry), NEW line, NEW groups, NEW n \in Nat,
         Cardinality(AnswersFor(line, groups)) = n, n <= Cardinality(Missing(r, line))
  PROVE  /\ Filled(r, line, groups) \subseteq Missing(r, line)
         /\ Cardinality(Filled(r, line, groups)) = n
         /\ \A p \in Filled(r, line, groups) : \A q \in Missing(r, line) :
              Before(q, p) => q \in Filled(r, line, groups)
<1> DEFINE M == Missing(r, line)
           key == [p \in M |-> 2 * p[1] + p[2]]
           F == Filled(r, line, groups)
<1>1. M \subseteq (1 .. Len(r)) \X {1, 2} /\ Len(r) \in Nat /\ IsFiniteSet(M)
  BY MissingMember, MissingFinite, EntryFacts
<1> HIDE DEF M
<1>2. \A p \in M : p = <<p[1], p[2]>> /\ p[1] \in Nat /\ p[2] \in {1, 2}
  BY <1>1
<1>3. \A p \in M : key[p] = 2 * p[1] + p[2]
  OBVIOUS
<1> HIDE DEF key
<1>4. \A p, q \in M : Before(q, p) <=> key[q] < key[p]
  BY <1>2, <1>3 DEF Before
<1>5. Keyed(M, key)
  <2>1. key \in [M -> Nat]
    BY <1>2, <1>3 DEF key
  <2>2. \A p, q \in M : key[p] = key[q] => p = q
    <3> SUFFICES ASSUME NEW p \in M, NEW q \in M, key[p] = key[q] PROVE p = q
      OBVIOUS
    <3>1. /\ p = <<p[1], p[2]>> /\ p[1] \in Nat /\ p[2] \in {1, 2}
          /\ q = <<q[1], q[2]>> /\ q[1] \in Nat /\ q[2] \in {1, 2}
      BY <1>2
    <3>2. 2 * p[1] + p[2] = 2 * q[1] + q[2]
      BY <1>3
    <3>3. p[1] = q[1] /\ p[2] = q[2]
      BY <3>1, <3>2
    <3> QED
      BY <3>1, <3>3
  <2> QED
    BY <1>1, <2>1, <2>2 DEF Keyed
<1>6. \A p \in M : {q \in M : Before(q, p)} = Below(M, key, p)
  BY <1>4 DEF Below
<1>7. F = {p \in M : Cardinality({q \in M : Before(q, p)}) < n}
  BY DEF Filled, M
<1>8. F = FirstOf(M, key, n)
  BY <1>6, <1>7 DEF FirstOf
<1>9. Cardinality(F) = n
  <2>1. n <= Cardinality(M)
    BY DEF M
  <2> QED
    BY <1>5, <1>8, <2>1, FirstCount
<1>10. ASSUME NEW p \in F, NEW q \in M, Before(q, p) PROVE q \in F
  <2>1. p \in M /\ Cardinality(Below(M, key, p)) < n
    BY <1>8 DEF FirstOf
  <2>2. key[q] < key[p]
    BY <1>4, <1>10, <2>1
  <2>3. /\ Cardinality(Below(M, key, q)) < Cardinality(Below(M, key, p))
        /\ Cardinality(Below(M, key, q)) \in Nat /\ Cardinality(Below(M, key, p)) \in Nat
    BY <1>5, <2>1, <2>2, RankGrows
  <2>4. Cardinality(Below(M, key, q)) < n
    BY <2>1, <2>3
  <2> QED
    BY <1>8, <2>4 DEF FirstOf
<1>11. F \subseteq M
  BY <1>7
<1> QED
  BY <1>9, <1>10, <1>11 DEF F, M

(* What the entry at i gets, and what it misses afterwards.                *)
LEMMA FilledAt ==
  ASSUME NEW got \in 0 .. 2, NEW i, NEW F,
         \A p \in F : p[1] = i => p \in {<<i, 1>>, <<i, 2>>},
         \A k \in {1, 2} : <<i, k>> \in F => k > got,
         <<i, 2>> \in F /\ got = 0 => <<i, 1>> \in F
  PROVE  LET n == Cardinality({p \in F : p[1] = i})
         IN  /\ n \in 0 .. 2 /\ got + n \in 0 .. 2
             /\ \A k \in {1, 2} : k > got + n <=> k > got /\ <<i, k>> \notin F
<1> DEFINE S == {p \in F : p[1] = i}
           n == Cardinality(S)
<1>1. /\ \A p \in S : p = <<i, 1>> \/ p = <<i, 2>>
      /\ <<i, 1>> \in S <=> <<i, 1>> \in F
      /\ <<i, 2>> \in S <=> <<i, 2>> \in F
      /\ <<i, 1>> # <<i, 2>>
  OBVIOUS
<1>2. Cardinality({}) = 0 /\ Cardinality({<<i, 1>>}) = 1 /\ Cardinality({<<i, 2>>}) = 1
  BY FS_EmptySet, FS_Singleton
<1>3. Cardinality({<<i, 1>>} \union {<<i, 2>>}) = 2
  <2>1. IsFiniteSet({<<i, 1>>})
    BY FS_Singleton
  <2>2. Cardinality({<<i, 1>>} \union {<<i, 2>>}) = Cardinality({<<i, 1>>}) + 1
    BY <1>1, <2>1, FS_AddElement
  <2> QED
    BY <1>2, <2>2
<1>4. CASE <<i, 1>> \notin F /\ <<i, 2>> \notin F
  <2>1. S = {}
    BY <1>1, <1>4
  <2>2. n = 0
    BY <1>2, <2>1
  <2> QED
    BY <1>4, <2>2
<1>5. CASE <<i, 1>> \in F /\ <<i, 2>> \notin F
  <2>1. S = {<<i, 1>>}
    BY <1>1, <1>5
  <2>2. n = 1
    BY <1>2, <2>1
  <2>3. got = 0
    BY <1>5
  <2> QED
    BY <1>5, <2>2, <2>3
<1>6. CASE <<i, 1>> \notin F /\ <<i, 2>> \in F
  <2>1. S = {<<i, 2>>}
    BY <1>1, <1>6
  <2>2. n = 1
    BY <1>2, <2>1
  <2>3. got = 1
    BY <1>6
  <2> QED
    BY <1>6, <2>2, <2>3
<1>7. CASE <<i, 1>> \in F /\ <<i, 2>> \in F
  <2>1. S = {<<i, 1>>} \union {<<i, 2>>}
    BY <1>1, <1>7
  <2>2. n = 2
    BY <1>3, <2>1
  <2>3. got = 0
    BY <1>7
  <2> QED
    BY <1>7, <2>2, <2>3
<1> QED
  BY <1>4, <1>5, <1>6, <1>7

(* The answers are taken from what the ring misses, for every line.        *)
LEMMA MissingCounted ==
  ASSUME NEW r \in Seq(Entry), NEW groups,
         \A i \in 1 .. Len(r) :
           /\ Cardinality(AnswersFor(LineOfAddr(r[i].addr), groups)) \in Nat
           /\ Cardinality(AnswersFor(LineOfAddr(r[i].addr), groups))
                <= Cardinality(Missing(r, LineOfAddr(r[i].addr)))
  PROVE  /\ Counted(r, groups) \in Seq(Entry) /\ Len(Counted(r, groups)) = Len(r)
         /\ \A i \in 1 .. Len(r) : Counted(r, groups)[i].addr = r[i].addr
         /\ \A line : Missing(Counted(r, groups), line)
                        = Missing(r, line) \ Filled(r, line, groups)
<1> DEFINE c == Counted(r, groups)
           l(i) == LineOfAddr(r[i].addr)
           n(i) == Cardinality({p \in Filled(r, l(i), groups) : p[1] = i})
<1>1. /\ Len(r) \in Nat /\ DOMAIN r = 1 .. Len(r)
      /\ \A i \in 1 .. Len(r) : r[i].addr \in Nat /\ r[i].got \in 0 .. 2
      /\ \A i \in 1 .. Len(r) : r[i] \in Entry
  BY EntryFacts, ElementOfSeq
<1>2. ASSUME NEW i \in 1 .. Len(r)
      PROVE  /\ n(i) \in 0 .. 2 /\ r[i].got + n(i) \in 0 .. 2
             /\ \A k \in {1, 2} : k > r[i].got + n(i)
                  <=> k > r[i].got /\ <<i, k>> \notin Filled(r, l(i), groups)
  <2> DEFINE F == Filled(r, l(i), groups)
             M == Missing(r, l(i))
  <2>1. F \subseteq M /\ \A p \in F : \A q \in M : Before(q, p) => q \in F
    BY FilledFacts
  <2>2. /\ M \subseteq (1 .. Len(r)) \X {1, 2}
        /\ \A k \in {1, 2} : <<i, k>> \in M <=> k > r[i].got
    BY MissingMember
  <2> HIDE DEF F, M
  <2>3. \A p \in F : p[1] = i => p \in {<<i, 1>>, <<i, 2>>}
    BY <2>1, <2>2
  <2>4. \A k \in {1, 2} : <<i, k>> \in F => k > r[i].got
    BY <2>1, <2>2
  <2>5. <<i, 2>> \in F /\ r[i].got = 0 => <<i, 1>> \in F
    <3>1. Before(<<i, 1>>, <<i, 2>>)
      BY DEF Before
    <3>2. r[i].got = 0 => <<i, 1>> \in M
      BY <2>2
    <3> QED
      BY <2>1, <3>1, <3>2
  <2>6. r[i].got \in 0 .. 2
    BY <1>1
  <2> QED
    BY <2>3, <2>4, <2>5, <2>6, FilledAt DEF F
<1>3. c = [i \in 1 .. Len(r) |-> [r[i] EXCEPT !.got = @ + n(i)]]
  BY <1>1 DEF Counted
<1> HIDE DEF n, c
<1>4. \A i \in 1 .. Len(r) :
        c[i] \in Entry /\ c[i].addr = r[i].addr /\ c[i].got = r[i].got + n(i)
  BY <1>1, <1>2, <1>3 DEF Entry
<1>5. c \in Seq(Entry) /\ Len(c) = Len(r)
  <2>1. c \in [1 .. Len(r) -> Entry]
    BY <1>3, <1>4
  <2> QED
    BY <1>1, <2>1, SeqDef, LenProperties
<1>6. ASSUME NEW line PROVE Missing(c, line) = Missing(r, line) \ Filled(r, line, groups)
  <2> DEFINE M == Missing(r, line)
             N == Missing(c, line)
             F == Filled(r, line, groups)
  <2>1. /\ M \subseteq (1 .. Len(r)) \X {1, 2}
        /\ \A i \in 1 .. Len(r) : \A k \in {1, 2} :
             <<i, k>> \in M <=> LineOfAddr(r[i].addr) = line /\ k > r[i].got
        /\ N \subseteq (1 .. Len(r)) \X {1, 2}
        /\ \A i \in 1 .. Len(r) : \A k \in {1, 2} :
             <<i, k>> \in N <=> LineOfAddr(c[i].addr) = line /\ k > c[i].got
    BY <1>5, MissingMember
  <2> HIDE DEF M, N, F
  <2>2. ASSUME NEW i \in 1 .. Len(r), NEW k \in {1, 2}
        PROVE  <<i, k>> \in N <=> <<i, k>> \in M \ F
    <3>1. <<i, k>> \in N <=> l(i) = line /\ k > r[i].got + n(i)
      BY <1>4, <2>1
    <3>2. k > r[i].got + n(i) <=> k > r[i].got /\ <<i, k>> \notin Filled(r, l(i), groups)
      BY <1>2 DEF n
    <3>3. l(i) = line => Filled(r, l(i), groups) = F
      BY DEF F
    <3>4. <<i, k>> \in M <=> l(i) = line /\ k > r[i].got
      BY <2>1
    <3> QED
      BY <3>1, <3>2, <3>3, <3>4
  <2>3. N = M \ F
    <3>1. \A p \in (1 .. Len(r)) \X {1, 2} :
            p = <<p[1], p[2]>> /\ p[1] \in 1 .. Len(r) /\ p[2] \in {1, 2}
      OBVIOUS
    <3>2. ASSUME NEW p \in (1 .. Len(r)) \X {1, 2} PROVE p \in N <=> p \in M \ F
      <4>1. p = <<p[1], p[2]>> /\ p[1] \in 1 .. Len(r) /\ p[2] \in {1, 2}
        BY <3>1
      <4>2. <<p[1], p[2]>> \in N <=> <<p[1], p[2]>> \in M \ F
        BY <2>2, <4>1
      <4> QED
        BY <4>1, <4>2
    <3> QED
      BY <2>1, <3>2
  <2> QED
    BY <2>3 DEF M, N, F
<1> QED
  BY <1>4, <1>5, <1>6 DEF c

-----------------------------------------------------------------------------
(***************************************************************************)
(* The inductive invariant.  The queues are never longer than what comes   *)
(* in after they are full; the first line of the controller's queue is     *)
(* there while its second half waits; and the ring, the DRAM and the       *)
(* waiting half agree (AnswersMatch), which in turn bounds the DRAM.       *)
(***************************************************************************)
StageBound == p6Full = Full(q6) /\ (Len(q6) > FIFO_SIZE => p5Line = None)

ControllerBound ==
  /\ halfSent => buffer # <<>>
  /\ memFull = (Halves(buffer, halfSent) > FIFO_SIZE)
  /\ Halves(buffer, halfSent) <= FIFO_SIZE + 4
  /\ Halves(buffer, halfSent) > FIFO_SIZE + 2 => p6Line = None

Requests(r) == \A i \in DOMAIN r : LineOfAddr(r[i].addr) \in Line

Inv == TypeOK /\ StageBound /\ ControllerBound /\ Requests(ring) /\ AnswersMatch

Waits(line) == IF halfSent /\ Head(buffer) = line THEN 1 ELSE 0

LEMMA Sizes ==
  /\ RING \in Nat /\ RING >= 3 /\ FIFO_SIZE \in Nat \ {0} /\ Reads = 2 * (RING - 1) /\ Reads \in Nat
  /\ None \notin Line /\ Line \subseteq Nat
<1>1. RING \in Nat /\ RING >= 3 /\ FIFO_SIZE \in Nat \ {0}
  BY HbmAssumption
<1>2. Reads = 2 * (RING - 1) /\ Reads \in Nat
  BY <1>1 DEF Reads
<1> QED
  BY <1>1, <1>2, NoneIsNew

LEMMA PushFacts ==
  ASSUME NEW q \in Seq(Line), NEW x \in Option(Line)
  PROVE  /\ Push(q, x) \in Seq(Line) /\ Len(q) \in Nat
         /\ Len(Push(q, x)) = Len(q) + (IF x = None THEN 0 ELSE 1)
         /\ q # <<>> => Push(q, x) # <<>> /\ Head(Push(q, x)) = Head(q)
         /\ x # None => Push(q, x) # <<>>
<1>1. Len(q) \in Nat
  BY LenProperties
<1>2. CASE x = None
  BY <1>1, <1>2 DEF Push
<1>3. CASE x # None
  <2>1. x \in Line
    BY <1>3 DEF Option
  <2>2. Push(q, x) = Append(q, x)
    BY <1>3 DEF Push
  <2>3. /\ Append(q, x) \in Seq(Line) /\ Len(Append(q, x)) = Len(q) + 1
        /\ Append(q, x) # <<>> /\ \A i \in 1 .. Len(q) : Append(q, x)[i] = q[i]
    BY <2>1, AppendProperties
  <2>4. q # <<>> => Head(Append(q, x)) = Head(q)
    BY <2>1, HeadTailAppend
  <2> QED
    BY <1>1, <1>3, <2>2, <2>3, <2>4
<1> QED
  BY <1>2, <1>3

LEMMA PopFacts ==
  ASSUME NEW q \in Seq(Line), q # <<>>
  PROVE  Head(q) \in Line /\ Tail(q) \in Seq(Line) /\ Len(Tail(q)) = Len(q) - 1 /\ Len(q) \in Nat \ {0}
<1>1. Len(q) \in Nat /\ Len(q) # 0
  BY LenProperties
<1> QED
  BY <1>1, HeadTailProperties

(* The queues of stage 6.                                                  *)
LEMMA StageBounds ==
  ASSUME Inv, NEW scheduled, NEW issued, NEW done, Tick(scheduled, issued, done)
  PROVE  /\ {p5Line', p6Line', edges'} \subseteq Option(Line)
         /\ q6' \in Seq(Line) /\ edge_buffer' \in Seq(Line) /\ p6Full' \in BOOLEAN
         /\ Len(q6') <= FIFO_SIZE + 1 /\ Len(edge_buffer') <= 1
         /\ p6Full' = Full(q6') /\ (Len(q6') > FIFO_SIZE => p5Line' = None)
         /\ memFull => p6Line' = None
<1>1. /\ p5Line \in Option(Line) /\ memEdge \in Option(Line)
      /\ q6 \in Seq(Line) /\ edge_buffer \in Seq(Line)
      /\ Len(q6) <= FIFO_SIZE + 1 /\ Len(edge_buffer) <= 1
      /\ p6Full = Full(q6) /\ (Len(q6) > FIFO_SIZE => p5Line = None)
  BY DEF Inv, TypeOK, StageBound
<1>2. p5Line' \in Option(Line) /\ (p6Full => p5Line' = None)
  BY DEF Tick, CombineEdgeRqst, Option
<1>3. /\ p6Line' \in Option(Line) /\ q6' \in Seq(Line) /\ p6Full' \in BOOLEAN
      /\ p6Full' = Full(q6') /\ (memFull => p6Line' = None)
      /\ Len(q6') \in Nat /\ Len(q6) \in Nat
      /\ Len(q6') <= Len(q6) + (IF p5Line = None THEN 0 ELSE 1)
  <2> DEFINE sends == ~memFull /\ q6 # <<>>
             rest == IF sends THEN Tail(q6) ELSE q6
  <2>1. /\ p6Line' = IF sends THEN Head(q6) ELSE None
        /\ q6' = Push(rest, p5Line)
        /\ p6Full' = Full(q6')
    BY DEF Tick, SendRqst
  <2>2. rest \in Seq(Line) /\ Len(rest) \in Nat /\ Len(q6) \in Nat /\ Len(rest) <= Len(q6)
    <3>1. CASE sends
      <4>1. Tail(q6) \in Seq(Line) /\ Len(Tail(q6)) = Len(q6) - 1 /\ Len(q6) \in Nat \ {0}
        BY <1>1, <3>1, PopFacts
      <4> QED
        BY <3>1, <4>1
    <3>2. CASE ~sends
      <4>1. Len(q6) \in Nat
        BY <1>1, LenProperties
      <4> QED
        BY <1>1, <3>2, <4>1
    <3> QED
      BY <3>1, <3>2
  <2>3. sends => Head(q6) \in Line
    BY <1>1, PopFacts
  <2> HIDE DEF rest
  <2>4. /\ Push(rest, p5Line) \in Seq(Line)
        /\ Len(Push(rest, p5Line)) = Len(rest) + (IF p5Line = None THEN 0 ELSE 1)
    BY <1>1, <2>2, PushFacts
  <2>5. p6Line' \in Option(Line) /\ (memFull => p6Line' = None)
    BY <2>1, <2>3 DEF Option
  <2>6. p6Full' \in BOOLEAN
    BY <2>1 DEF Full
  <2> QED
    BY <2>1, <2>2, <2>4, <2>5, <2>6
<1>4. /\ edges' \in Option(Line) /\ edge_buffer' \in Seq(Line) /\ Len(edge_buffer') <= 1
  <2> DEFINE rest == IF edge_buffer = <<>> THEN <<>> ELSE Tail(edge_buffer)
  <2>1. /\ edges' = IF edge_buffer = <<>> THEN None ELSE Head(edge_buffer)
        /\ edge_buffer' = Push(rest, memEdge)
    BY DEF Tick, RecvEdge
  <2>2. rest \in Seq(Line) /\ Len(rest) = 0
    <3>1. CASE edge_buffer = <<>>
      BY <3>1, EmptySeq
    <3>2. CASE edge_buffer # <<>>
      <4>1. Tail(edge_buffer) \in Seq(Line) /\ Len(Tail(edge_buffer)) = Len(edge_buffer) - 1
            /\ Len(edge_buffer) \in Nat \ {0}
        BY <1>1, <3>2, PopFacts
      <4> QED
        BY <1>1, <3>2, <4>1
    <3> QED
      BY <3>1, <3>2
  <2>3. edge_buffer # <<>> => Head(edge_buffer) \in Line
    BY <1>1, PopFacts
  <2> HIDE DEF rest
  <2>4. /\ Push(rest, memEdge) \in Seq(Line)
        /\ Len(Push(rest, memEdge)) = Len(rest) + (IF memEdge = None THEN 0 ELSE 1)
    BY <1>1, <2>2, PushFacts
  <2> QED
    BY <2>1, <2>2, <2>3, <2>4 DEF Option
<1>5. Len(q6') <= FIFO_SIZE + 1 /\ (Len(q6') > FIFO_SIZE => p5Line' = None)
  <2>1. FIFO_SIZE \in Nat
    BY Sizes
  <2>2. Len(q6) >= FIFO_SIZE => p5Line' = None
    BY <1>1, <1>2 DEF Full
  <2>3. CASE p5Line = None
    <3>1. Len(q6') <= Len(q6)
      BY <1>3, <2>3
    <3> QED
      BY <1>1, <1>3, <2>1, <2>2, <3>1
  <2>4. CASE p5Line # None
    <3>1. Len(q6') <= Len(q6) + 1 /\ ~(Len(q6) > FIFO_SIZE)
      BY <1>1, <1>3, <2>4
    <3> QED
      BY <1>3, <2>1, <2>2, <3>1
  <2> QED
    BY <2>3, <2>4
<1> QED
  BY <1>2, <1>3, <1>4, <1>5

(* The queue of the controller.                                            *)
LEMMA LinesFacts ==
  ASSUME Inv
  PROVE  /\ Lines \in Seq(Line) /\ Len(Lines) \in Nat
         /\ Len(Lines) = Len(buffer) + (IF p6Line = None THEN 0 ELSE 1)
         /\ halfSent => Lines # <<>> /\ Head(Lines) = Head(buffer)
         /\ Lines # <<>> => /\ Head(Lines) \in Line /\ Tail(Lines) \in Seq(Line)
                            /\ Len(Tail(Lines)) = Len(Lines) - 1 /\ Len(Lines) \in Nat \ {0}
<1>1. buffer \in Seq(Line) /\ p6Line \in Option(Line) /\ (halfSent => buffer # <<>>)
  BY DEF Inv, TypeOK, ControllerBound
<1>2. /\ Lines \in Seq(Line) /\ Len(Lines) = Len(buffer) + (IF p6Line = None THEN 0 ELSE 1)
      /\ halfSent => Lines # <<>> /\ Head(Lines) = Head(buffer)
  BY <1>1, PushFacts DEF Lines
<1>3. Len(Lines) \in Nat
  BY <1>2, LenProperties
<1>4. Lines # <<>> => /\ Head(Lines) \in Line /\ Tail(Lines) \in Seq(Line)
                      /\ Len(Tail(Lines)) = Len(Lines) - 1 /\ Len(Lines) \in Nat \ {0}
  BY <1>2, PopFacts
<1> QED
  BY <1>2, <1>3, <1>4

LEMMA ControllerBounds ==
  ASSUME Inv, NEW scheduled, NEW issued, NEW done, Tick(scheduled, issued, done)
  PROVE  /\ buffer' \in Seq(Line) /\ halfSent' \in BOOLEAN /\ memFull' \in BOOLEAN
         /\ 2 * Len(buffer') <= FIFO_SIZE + 5
         /\ ControllerBound'
<1> DEFINE H == Halves(buffer, halfSent)
           G == Halves(buffer', halfSent')
<1>1. /\ buffer \in Seq(Line) /\ halfSent \in BOOLEAN /\ p6Line \in Option(Line)
      /\ memFull = (H > FIFO_SIZE) /\ H <= FIFO_SIZE + 4 /\ (H > FIFO_SIZE + 2 => p6Line = None)
  BY DEF Inv, TypeOK, ControllerBound
<1>2. /\ buffer' = IF Sends /\ halfSent THEN Tail(Lines) ELSE Lines
      /\ halfSent' = IF Sends THEN ~halfSent ELSE halfSent
      /\ memFull' = (G > FIFO_SIZE)
  BY DEF Tick, SendHalf
<1>3. Sends => Lines # <<>>
  BY DEF Sends, Wants
<1>4. Len(buffer) \in Nat
  BY <1>1, LenProperties
<1>5. buffer' \in Seq(Line) /\ halfSent' \in BOOLEAN /\ memFull' \in BOOLEAN
  <2>1. Lines \in Seq(Line) /\ (Lines # <<>> => Tail(Lines) \in Seq(Line))
    BY LinesFacts
  <2>2. buffer' \in Seq(Line)
    BY <1>2, <1>3, <2>1
  <2>3. halfSent' \in BOOLEAN
    BY <1>1, <1>2
  <2>4. memFull' \in BOOLEAN
    BY <1>2
  <2> QED
    BY <2>2, <2>3, <2>4
<1>6. Len(buffer') \in Nat
  BY <1>5, LenProperties
<1>7. /\ H = 2 * Len(buffer) - (IF halfSent THEN 1 ELSE 0) /\ H \in Int
      /\ G = 2 * Len(buffer') - (IF halfSent' THEN 1 ELSE 0) /\ G \in Int
  BY <1>4, <1>6 DEF Halves
<1>8. G <= H + (IF p6Line = None THEN 0 ELSE 2)
  <2>1. CASE Sends /\ halfSent
    <3>1. Len(buffer') = Len(Lines) - 1 /\ halfSent' = FALSE
      BY <1>2, <1>3, <2>1, LinesFacts
    <3> QED
      BY <1>4, <1>6, <1>7, <2>1, <3>1, LinesFacts
  <2>2. CASE Sends /\ ~halfSent
    <3>1. Len(buffer') = Len(Lines) /\ halfSent' = TRUE
      BY <1>2, <2>2
    <3> QED
      BY <1>4, <1>6, <1>7, <2>2, <3>1, LinesFacts
  <2>3. CASE ~Sends
    <3>1. Len(buffer') = Len(Lines) /\ halfSent' = halfSent
      BY <1>2, <2>3
    <3> QED
      BY <1>4, <1>6, <1>7, <2>3, <3>1, LinesFacts
  <2> QED
    BY <1>1, <2>1, <2>2, <2>3
<1>9. memFull => p6Line' = None
  BY StageBounds
<1>10. halfSent' => buffer' # <<>>
  BY <1>1, <1>2, <1>3, LinesFacts
<1> HIDE DEF H, G
<1>11. G <= FIFO_SIZE + 4 /\ (G > FIFO_SIZE + 2 => p6Line' = None)
  <2>1. FIFO_SIZE \in Nat /\ H \in Int /\ G \in Int
    BY <1>7, Sizes
  <2>2. H > FIFO_SIZE => p6Line' = None
    BY <1>1, <1>9
  <2>3. CASE p6Line = None
    <3>1. G <= H
      BY <1>8, <2>1, <2>3
    <3> QED
      BY <1>1, <2>1, <2>2, <3>1
  <2>4. CASE p6Line # None
    <3>1. G <= H + 2 /\ ~(H > FIFO_SIZE + 2)
      BY <1>1, <1>8, <2>4
    <3> QED
      BY <2>1, <2>2, <3>1
  <2> QED
    BY <2>3, <2>4
<1>12. 2 * Len(buffer') <= FIFO_SIZE + 5
  BY <1>5, <1>6, <1>7, <1>11, Sizes
<1> QED
  BY <1>2, <1>5, <1>10, <1>11, <1>12 DEF ControllerBound, G


-----------------------------------------------------------------------------
(***************************************************************************)
(* Sending a half: what the ring misses more is what the DRAM owes more or *)
(* the second half that waits.                                             *)
(***************************************************************************)
Sent(line) == IF Sends /\ Head(Lines) = line THEN 1 ELSE 0

LEMMA HalfChoice ==
  ASSUME Inv, Sends
  PROVE  /\ Head(Lines) \in Line /\ Head(Lines) \in Nat /\ NextHalf \in Nat
         /\ LineOfAddr(NextHalf) = Head(Lines)
         /\ IsFirstHalf(NextHalf) <=> ~halfSent
         /\ DramAddr(Channel, NextHalf) = ReadOf(Head(Lines), IF halfSent THEN 1 ELSE 0)
<1>1. Lines # <<>>
  BY DEF Sends, Wants
<1>2. Head(Lines) \in Line
  BY <1>1, LinesFacts
<1>3. Head(Lines) \in Nat
  BY <1>2, Sizes
<1>4. CASE halfSent
  <2>1. NextHalf = HalfAddr(Head(Lines), 1)
    BY <1>4 DEF NextHalf
  <2>2. /\ HalfAddr(Head(Lines), 1) \in Nat /\ LineOfAddr(HalfAddr(Head(Lines), 1)) = Head(Lines)
        /\ ~IsFirstHalf(HalfAddr(Head(Lines), 1))
    BY <1>3, HalfFacts
  <2>3. DramAddr(Channel, NextHalf) = ReadOf(Head(Lines), 1)
    BY <2>1 DEF ReadOf
  <2> QED
    BY <1>2, <1>3, <1>4, <2>1, <2>2, <2>3
<1>5. CASE ~halfSent
  <2>1. NextHalf = HalfAddr(Head(Lines), 0)
    BY <1>5 DEF NextHalf
  <2>2. /\ HalfAddr(Head(Lines), 0) \in Nat /\ LineOfAddr(HalfAddr(Head(Lines), 0)) = Head(Lines)
        /\ IsFirstHalf(HalfAddr(Head(Lines), 0))
    BY <1>3, HalfFacts
  <2>3. DramAddr(Channel, NextHalf) = ReadOf(Head(Lines), 0)
    BY <2>1 DEF ReadOf
  <2> QED
    BY <1>2, <1>3, <1>5, <2>1, <2>2, <2>3
<1> QED
  BY <1>4, <1>5

LEMMA EnteredType ==
  ASSUME Inv
  PROVE  /\ Entered \in Seq(Entry) /\ Len(Entered) \in Nat /\ Len(Entered) <= RING - 1
         /\ Requests(Entered)
<1>1. /\ ring \in Seq(Entry) /\ Len(ring) < RING /\ Requests(ring)
      /\ Len(ring) \in Nat /\ DOMAIN ring = 1 .. Len(ring) /\ RING \in Nat
  BY EntryFacts, Sizes DEF Inv, TypeOK
<1>2. CASE Sends /\ IsFirstHalf(NextHalf)
  <2> DEFINE e == [addr |-> NextHalf, got |-> 0]
  <2>1. Entered = Append(ring, e)
    BY <1>2 DEF Entered
  <2>2. NextHalf \in Nat /\ LineOfAddr(NextHalf) \in Line /\ ~(Len(ring) >= RING - 1)
    BY <1>2, HalfChoice DEF Sends, Wants, RingFull
  <2>3. e \in Entry
    BY <2>2 DEF Entry
  <2>4. e.addr = NextHalf
    OBVIOUS
  <2> HIDE DEF e
  <2>5. /\ Append(ring, e) \in Seq(Entry) /\ Len(Append(ring, e)) = Len(ring) + 1
        /\ \A i \in 1 .. Len(ring) : Append(ring, e)[i] = ring[i]
        /\ Append(ring, e)[Len(ring) + 1] = e
    BY <1>1, <2>3, AppendProperties
  <2>6. Requests(Append(ring, e))
    <3>1. DOMAIN Append(ring, e) = 1 .. Len(ring) + 1
      BY <2>5, EntryFacts
    <3>2. ASSUME NEW i \in 1 .. Len(ring) + 1 PROVE LineOfAddr(Append(ring, e)[i].addr) \in Line
      <4>1. CASE i \in 1 .. Len(ring)
        BY <1>1, <2>5, <4>1 DEF Requests
      <4>2. CASE i = Len(ring) + 1
        BY <2>2, <2>4, <2>5, <4>2
      <4> QED
        BY <1>1, <4>1, <4>2
    <3> QED
      BY <3>1, <3>2 DEF Requests
  <2> QED
    BY <1>1, <2>1, <2>2, <2>5, <2>6
<1>3. CASE ~(Sends /\ IsFirstHalf(NextHalf))
  <2>1. Entered = ring
    BY <1>3 DEF Entered
  <2> QED
    BY <1>1, <2>1
<1> QED
  BY <1>2, <1>3

LEMMA SendCount ==
  ASSUME Inv, SendHalf, NEW line \in Line
  PROVE  /\ Cardinality(Missing(Entered, line)) + Waits(line)
              = Cardinality(Missing(ring, line)) + Sent(line) + Waits(line)'
         /\ Cardinality(Missing(ring, line)) \in Nat
<1> DEFINE M == Cardinality(Missing(ring, line))
           E == Cardinality(Missing(Entered, line))
           first == Head(Lines) = line
<1>1. ring \in Seq(Entry) /\ halfSent \in BOOLEAN
  BY DEF Inv, TypeOK
<1>2. M \in Nat
  BY <1>1, MissingFinite
<1>3. /\ buffer' = IF Sends /\ halfSent THEN Tail(Lines) ELSE Lines
      /\ halfSent' = IF Sends THEN ~halfSent ELSE halfSent
  BY DEF SendHalf
<1>4. halfSent => Head(Lines) = Head(buffer)
  BY LinesFacts
<1>5. Waits(line) = IF halfSent /\ Head(buffer) = line THEN 1 ELSE 0
  BY DEF Waits
<1>6. Waits(line)' = IF halfSent' /\ Head(buffer') = line THEN 1 ELSE 0
  BY DEF Waits
<1>7. CASE Sends /\ ~halfSent
  <2>1. NextHalf \in Nat /\ LineOfAddr(NextHalf) = Head(Lines) /\ IsFirstHalf(NextHalf)
    BY <1>7, HalfChoice
  <2>2. Entered = Append(ring, [addr |-> NextHalf, got |-> 0])
    BY <1>7, <2>1 DEF Entered
  <2>3. E = M + (IF LineOfAddr(NextHalf) = line THEN 2 ELSE 0)
    BY <1>1, <2>1, <2>2, MissingAppend
  <2>4. halfSent' /\ Head(buffer') = Head(Lines)
    BY <1>3, <1>7
  <2>5. Waits(line) = 0 /\ Waits(line)' = (IF first THEN 1 ELSE 0)
        /\ Sent(line) = (IF first THEN 1 ELSE 0) /\ E = M + (IF first THEN 2 ELSE 0)
    BY <1>5, <1>6, <1>7, <2>1, <2>3, <2>4 DEF Sent
  <2> HIDE DEF M, E, first
  <2>6. E + Waits(line) = M + Sent(line) + Waits(line)'
    BY <1>2, <2>5
  <2> QED
    BY <1>2, <2>6 DEF M, E
<1>8. CASE Sends /\ halfSent
  <2>1. ~IsFirstHalf(NextHalf)
    BY <1>8, HalfChoice
  <2>2. Entered = ring
    BY <2>1 DEF Entered
  <2>3. Waits(line) = (IF first THEN 1 ELSE 0) /\ Waits(line)' = 0
        /\ Sent(line) = (IF first THEN 1 ELSE 0) /\ E = M
    BY <1>3, <1>4, <1>5, <1>6, <1>8, <2>2 DEF Sent
  <2> HIDE DEF M, E, first
  <2>4. E + Waits(line) = M + Sent(line) + Waits(line)'
    BY <1>2, <2>3
  <2> QED
    BY <1>2, <2>4 DEF M, E
<1>9. CASE ~Sends
  <2>1. Entered = ring
    BY <1>9 DEF Entered
  <2>2. Waits(line)' = Waits(line) /\ Sent(line) = 0 /\ E = M /\ Waits(line) \in {0, 1}
    BY <1>3, <1>4, <1>5, <1>6, <1>9, <2>1 DEF Sent
  <2> HIDE DEF M, E, first
  <2>3. E + Waits(line) = M + Sent(line) + Waits(line)'
    BY <1>2, <2>2
  <2> QED
    BY <1>2, <2>3 DEF M, E
<1> QED
  BY <1>7, <1>8, <1>9

LEMMA RequestedCount ==
  ASSUME Inv
  PROVE  /\ Requested \in [Address -> Nat] /\ \A a \in Address : Requested[a] <= Reads + 1
         /\ \A line \in Line : Requested[ReadOf(line, 0)] + Requested[ReadOf(line, 1)]
                                 = Owed(line) + Sent(line)
         /\ Accepted \subseteq Address
<1>1. pending \in [Address -> 0 .. Reads] /\ Reads \in Nat
  BY Sizes DEF Inv, TypeOK
<1>2. Accepted \subseteq Address
  <2>1. ASSUME Sends PROVE DramAddr(Channel, NextHalf) \in Address
    <3>1. Head(Lines) \in Line
          /\ DramAddr(Channel, NextHalf) = ReadOf(Head(Lines), IF halfSent THEN 1 ELSE 0)
      BY <2>1, HalfChoice
    <3>2. ReadOf(Head(Lines), 0) \in Address /\ ReadOf(Head(Lines), 1) \in Address
      BY <3>1, AddressCases
    <3> QED
      BY <3>1, <3>2
  <2> QED
    BY <2>1 DEF Accepted, Sends
<1>3. \A a \in Address : /\ pending[a] \in Nat /\ pending[a] <= Reads
                         /\ Requested[a] = IF a \in Accepted THEN pending[a] + 1 ELSE pending[a]
  BY <1>1 DEF Requested
<1>4. \A a \in Address : Requested[a] \in Nat /\ Requested[a] <= Reads + 1
  BY <1>1, <1>3
<1>5. Requested \in [Address -> Nat]
  BY <1>4 DEF Requested
<1>6. ASSUME NEW line \in Line
      PROVE  Requested[ReadOf(line, 0)] + Requested[ReadOf(line, 1)] = Owed(line) + Sent(line)
  <2> DEFINE a == ReadOf(line, 0)
             b == ReadOf(line, 1)
             l == Head(Lines)
             x == ReadOf(l, IF halfSent THEN 1 ELSE 0)
  <2>1. a \in Address /\ b \in Address /\ a # b
    <3>1. line \in Nat
      BY Sizes
    <3> QED
      BY <3>1, AddressCases, TwoReads
  <2>2. Owed(line) = pending[a] + pending[b]
    BY DEF Owed
  <2>3. CASE Sends
    <3>1. l \in Line /\ Accepted = {x}
      BY <2>3, HalfChoice DEF Accepted, Sends
    <3>2. l \in Nat /\ line \in Nat
      BY <3>1, Sizes
    <3>3. CASE l = line
      <4>1. x \in {a, b}
        BY <3>3
      <4>2. Sent(line) = 1
        BY <2>3, <3>3 DEF Sent
      <4> HIDE DEF a, b, x
      <4>3. CASE x = a
        <5>1. Requested[a] = pending[a] + 1 /\ Requested[b] = pending[b]
          BY <1>3, <2>1, <3>1, <4>3
        <5>2. pending[a] \in Nat /\ pending[b] \in Nat
          BY <1>3, <2>1
        <5>3. Requested[a] + Requested[b] = Owed(line) + Sent(line)
          BY <2>2, <4>2, <5>1, <5>2
        <5> QED
          BY <5>3 DEF a, b
      <4>4. CASE x = b
        <5>1. Requested[b] = pending[b] + 1 /\ Requested[a] = pending[a]
          BY <1>3, <2>1, <3>1, <4>4
        <5>2. pending[a] \in Nat /\ pending[b] \in Nat
          BY <1>3, <2>1
        <5>3. Requested[a] + Requested[b] = Owed(line) + Sent(line)
          BY <2>2, <4>2, <5>1, <5>2
        <5> QED
          BY <5>3 DEF a, b
      <4> QED
        BY <4>1, <4>3, <4>4
    <3>4. CASE l # line
      <4>1. LineOfAddr(OriAddr(x)) = l
        BY <3>2, AddressFacts
      <4>2. LineOfAddr(OriAddr(a)) = line /\ LineOfAddr(OriAddr(b)) = line
        BY <3>2, AddressFacts
      <4>3. a \notin Accepted /\ b \notin Accepted
        BY <3>1, <3>4, <4>1, <4>2
      <4>4. Sent(line) = 0
        BY <3>4 DEF Sent
      <4> HIDE DEF a, b, x
      <4>5. Requested[a] = pending[a] /\ Requested[b] = pending[b]
            /\ pending[a] \in Nat /\ pending[b] \in Nat
        BY <1>3, <2>1, <4>3
      <4>6. Requested[a] + Requested[b] = Owed(line) + Sent(line)
        BY <2>2, <4>4, <4>5
      <4> QED
        BY <4>6 DEF a, b
    <3> QED
      BY <3>3, <3>4
  <2>4. CASE ~Sends
    <3>1. Accepted = {} /\ Sent(line) = 0
      BY <2>4 DEF Accepted, Sends, Sent
    <3> HIDE DEF a, b
    <3>2. Requested[a] = pending[a] /\ Requested[b] = pending[b]
          /\ pending[a] \in Nat /\ pending[b] \in Nat
      BY <1>3, <2>1, <3>1
    <3>3. Requested[a] + Requested[b] = Owed(line) + Sent(line)
      BY <2>2, <3>1, <3>2
    <3> QED
      BY <3>3 DEF a, b
  <2> QED
    BY <2>3, <2>4
<1> QED
  BY <1>2, <1>4, <1>5, <1>6


-----------------------------------------------------------------------------
(***************************************************************************)
(* Delivering and answering.  The line delivered misses nothing.  The DRAM *)
(* never has more answers for a line than the ring misses, so every answer *)
(* finds its place.                                                        *)
(***************************************************************************)
Misses(r, line)   == Cardinality(Missing(r, line))
Answers(line, g)  == Cardinality(AnswersFor(line, g))

LEMMA KeptType ==
  ASSUME Inv
  PROVE  /\ Kept \in Seq(Entry) /\ Len(Kept) \in Nat /\ Len(Kept) <= RING - 1 /\ Requests(Kept)
         /\ \A line : Misses(Kept, line) = Misses(Entered, line)
         /\ Delivers => LineOfAddr(Head(Entered).addr) \in Line
<1>1. /\ Entered \in Seq(Entry) /\ Len(Entered) \in Nat /\ Len(Entered) <= RING - 1
      /\ Requests(Entered) /\ RING \in Nat
  BY EnteredType, Sizes
<1>2. CASE Delivers
  <2>1. Entered # <<>> /\ Head(Entered).got = 2 /\ Kept = Tail(Entered)
    BY <1>2 DEF Delivers, Kept
  <2>2. /\ Tail(Entered) \in Seq(Entry) /\ Len(Tail(Entered)) = Len(Entered) - 1
        /\ \A i \in 1 .. Len(Tail(Entered)) : Tail(Entered)[i] = Entered[i + 1]
        /\ \A line : Misses(Tail(Entered), line) = Misses(Entered, line)
    BY <1>1, <2>1, MissingTail DEF Misses
  <2>3. Len(Entered) # 0
    BY <1>1, <2>1, EmptySeq
  <2>4. DOMAIN Entered = 1 .. Len(Entered) /\ DOMAIN Tail(Entered) = 1 .. Len(Tail(Entered))
    BY <1>1, <2>2, EntryFacts
  <2>5. Len(Tail(Entered)) \in Nat /\ Len(Tail(Entered)) <= RING - 1
    BY <1>1, <2>2, <2>3
  <2>6. ASSUME NEW i \in 1 .. Len(Tail(Entered)) PROVE LineOfAddr(Tail(Entered)[i].addr) \in Line
    <3>1. i + 1 \in 1 .. Len(Entered)
      BY <1>1, <2>2, <2>5
    <3> QED
      BY <1>1, <2>2, <2>4, <3>1 DEF Requests
  <2>7. Requests(Tail(Entered))
    BY <2>4, <2>6 DEF Requests
  <2>8. Head(Entered) = Entered[1] /\ 1 \in DOMAIN Entered
    BY <1>1, <2>1, <2>3, <2>4, HeadTailProperties
  <2>9. LineOfAddr(Head(Entered).addr) \in Line
    BY <1>1, <2>8 DEF Requests
  <2> QED
    BY <2>1, <2>2, <2>5, <2>7, <2>9
<1>3. CASE ~Delivers
  <2>1. Kept = Entered
    BY <1>3 DEF Kept
  <2> QED
    BY <1>1, <1>3, <2>1
<1> QED
  BY <1>2, <1>3

(* After the second half was sent or not, and before the answers.          *)
LEMMA Balance ==
  ASSUME Inv, SendHalf, NEW line \in Line
  PROVE  /\ Misses(Kept, line)
              = Owed(line) + Sent(line) + Answers(line, return_queue) + Waits(line)'
         /\ {Owed(line), Sent(line), Answers(line, return_queue), Waits(line)',
             Misses(Kept, line)} \subseteq Nat
<1>1. return_queue \in Groups(Reads) /\ Reads \in Nat /\ pending \in [Address -> 0 .. Reads]
      /\ ReadOf(line, 0) \in Address /\ ReadOf(line, 1) \in Address
  BY Sizes, AddressCases DEF Inv, TypeOK, Groups
<1>2. Answers(line, return_queue) \in Nat
  BY <1>1, AnswersFinite DEF Answers
<1>3. Owed(line) \in Nat
  <2>1. pending[ReadOf(line, 0)] \in 0 .. Reads /\ pending[ReadOf(line, 1)] \in 0 .. Reads
    BY <1>1
  <2> QED
    BY <1>1, <2>1 DEF Owed
<1>4. Sent(line) \in {0, 1} /\ Waits(line) \in {0, 1}
  BY DEF Sent, Waits
<1>5. Waits(line)' \in {0, 1}
  BY DEF Waits
<1>6. Misses(ring, line) = Owed(line) + Answers(line, return_queue) + Waits(line)
  BY DEF Inv, AnswersMatch, Misses, Answers, Waits
<1>7. /\ Misses(Entered, line) + Waits(line) = Misses(ring, line) + Sent(line) + Waits(line)'
      /\ Misses(ring, line) \in Nat
  BY SendCount DEF Misses
<1>8. Misses(Entered, line) \in Nat
  BY EnteredType, MissingFinite DEF Misses
<1>9. Misses(Kept, line) = Misses(Entered, line)
  BY KeptType
<1> DEFINE w == Waits(line)
           v == Waits(line)'
           o == Owed(line)
           s == Sent(line)
           n == Answers(line, return_queue)
           r == Misses(ring, line)
           e == Misses(Entered, line)
           k == Misses(Kept, line)
<1>10. /\ n \in Nat /\ o \in Nat /\ r \in Nat /\ e \in Nat
       /\ s \in Nat /\ w \in Nat /\ v \in Nat
       /\ r = o + n + w /\ e + w = r + s + v /\ k = e
  BY <1>2, <1>3, <1>4, <1>5, <1>6, <1>7, <1>8, <1>9
<1> HIDE DEF w, v, o, s, n, r, e, k
<1>11. k = o + s + n + v
  BY <1>10
<1>12. {o, s, n, v, k} \subseteq Nat
  BY <1>10
<1> QED
  BY <1>11, <1>12 DEF v, o, s, n, k

LEMMA AnswerStep ==
  ASSUME Inv, SendHalf, NEW done \in 0 .. Len(return_queue),
         DeliverLine(SubSeq(return_queue, 1, done))
  PROVE  /\ ring' \in Seq(Entry) /\ Len(ring') \in Nat /\ Len(ring') <= RING - 1
         /\ Requests(ring') /\ memEdge' \in Option(Line)
         /\ \A line \in Line :
              /\ Misses(ring', line) + Answers(line, SubSeq(return_queue, 1, done))
                   = Misses(Kept, line)
              /\ {Misses(ring', line), Answers(line, SubSeq(return_queue, 1, done)),
                  Answers(line, SubSeq(return_queue, done + 1, Len(return_queue)))} \subseteq Nat
              /\ Answers(line, return_queue)
                   = Answers(line, SubSeq(return_queue, 1, done))
                     + Answers(line, SubSeq(return_queue, done + 1, Len(return_queue)))
<1> DEFINE g == SubSeq(return_queue, 1, done)
           h == SubSeq(return_queue, done + 1, Len(return_queue))
<1>1. return_queue \in Groups(Reads) /\ Reads \in Nat
  BY Sizes DEF Inv, TypeOK, Groups
<1>2. Splits(Reads, return_queue, g, h)
  BY <1>1, SplitAt
<1>3. g \in Groups(Reads) /\ h \in Groups(Reads)
  BY <1>2 DEF Splits
<1>4. /\ memEdge' = IF Delivers THEN LineOfAddr(Head(Entered).addr) ELSE None
      /\ ring' = Counted(Kept, g)
  BY DEF DeliverLine
<1> HIDE DEF g, h
<1>5. \A line : /\ Answers(line, return_queue) = Answers(line, g) + Answers(line, h)
                /\ Answers(line, g) \in Nat /\ Answers(line, h) \in Nat
  BY <1>1, <1>2, <1>3, AnswersSplit, AnswersFinite DEF Answers
<1>6. /\ Kept \in Seq(Entry) /\ Len(Kept) \in Nat /\ Len(Kept) <= RING - 1 /\ Requests(Kept)
      /\ DOMAIN Kept = 1 .. Len(Kept)
  BY KeptType, EntryFacts
<1>7. ASSUME NEW line \in Line PROVE Answers(line, g) <= Misses(Kept, line)
  <2>1. /\ Misses(Kept, line)
             = Owed(line) + Sent(line) + Answers(line, return_queue) + Waits(line)'
        /\ {Owed(line), Sent(line), Answers(line, return_queue), Waits(line)',
            Misses(Kept, line)} \subseteq Nat
    BY Balance
  <2>2. /\ Answers(line, return_queue) = Answers(line, g) + Answers(line, h)
        /\ Answers(line, g) \in Nat /\ Answers(line, h) \in Nat
    BY <1>5
  <2> QED
    BY <2>1, <2>2
<1>8. \A i \in 1 .. Len(Kept) : LineOfAddr(Kept[i].addr) \in Line
  BY <1>6 DEF Requests
<1>9. \A i \in 1 .. Len(Kept) :
        /\ Cardinality(AnswersFor(LineOfAddr(Kept[i].addr), g)) \in Nat
        /\ Cardinality(AnswersFor(LineOfAddr(Kept[i].addr), g))
             <= Cardinality(Missing(Kept, LineOfAddr(Kept[i].addr)))
  BY <1>5, <1>7, <1>8 DEF Answers, Misses
<1>10. /\ ring' \in Seq(Entry) /\ Len(ring') = Len(Kept)
       /\ \A i \in 1 .. Len(Kept) : ring'[i].addr = Kept[i].addr
       /\ \A line : Missing(ring', line) = Missing(Kept, line) \ Filled(Kept, line, g)
  BY <1>4, <1>6, <1>9, MissingCounted
<1>11. Requests(ring')
  <2>1. DOMAIN ring' = 1 .. Len(Kept)
    BY <1>10, EntryFacts
  <2> QED
    BY <1>8, <1>10, <2>1 DEF Requests
<1>12. memEdge' \in Option(Line)
  BY <1>4, KeptType DEF Option
<1>13. ASSUME NEW line \in Line
       PROVE  Misses(ring', line) + Answers(line, g) = Misses(Kept, line) /\ Misses(ring', line) \in Nat
  <2> DEFINE M == Missing(Kept, line)
             F == Filled(Kept, line, g)
  <2>1. IsFiniteSet(M) /\ Cardinality(M) \in Nat
    BY <1>6, MissingFinite
  <2>2. F \subseteq M /\ Cardinality(F) = Answers(line, g)
    <3>1. Answers(line, g) \in Nat /\ Answers(line, g) <= Misses(Kept, line)
      BY <1>5, <1>7
    <3>2. \A n \in Nat : Cardinality(AnswersFor(line, g)) = n /\ n <= Cardinality(Missing(Kept, line))
            => F \subseteq M /\ Cardinality(F) = n
      BY <1>6, FilledFacts
    <3> QED
      BY <3>1, <3>2 DEF Answers, Misses
  <2>3. Missing(ring', line) = M \ F
    BY <1>10
  <2> HIDE DEF M, F
  <2>4. /\ IsFiniteSet(F) /\ Cardinality(M \ F) = Cardinality(M) - Cardinality(M \cap F)
        /\ M \cap F = F /\ Cardinality(M \ F) \in Nat
    <3>1. IsFiniteSet(F) /\ IsFiniteSet(M \ F)
      BY <2>1, <2>2, FS_Subset
    <3>2. M \cap F = F
      BY <2>2
    <3> QED
      BY <2>1, <3>1, <3>2, FS_Difference, FS_CardinalityType
  <2>5. Misses(ring', line) = Cardinality(M) - Answers(line, g) /\ Misses(ring', line) \in Nat
    BY <2>2, <2>3, <2>4 DEF Misses
  <2>6. Misses(Kept, line) = Cardinality(M)
    BY DEF Misses, M
  <2>7. Answers(line, g) \in Nat
    BY <1>5
  <2> QED
    BY <2>1, <2>5, <2>6, <2>7
<1> QED
  BY <1>5, <1>6, <1>10, <1>11, <1>12, <1>13 DEF g, h


-----------------------------------------------------------------------------
(***************************************************************************)
(* Issuing and returning.  What is issued leaves the reads pending and     *)
(* enters the answers to come, one for one.                                *)
(***************************************************************************)
LEMMA IssuesFacts ==
  ASSUME Inv, NEW scheduled, NEW issued \in Issues(scheduled)
  PROVE  Issuable(issued, Requested)
<1> DEFINE issuable == {a \in Address : Requested[a] > 0 /\ a \notin ReadQueue \ scheduled}
<1>1. PICK n \in 0 .. DRAM_TICKS : issued \in [1 .. n -> issuable]
  BY DEF Issues
<1>2. \A i, j \in DOMAIN issued : issued[i] = issued[j] => i = j
  BY DEF Issues
<1>3. n \in Nat
  BY HbmAssumption
<1>4. issued \in [1 .. n -> Address] /\ \A i \in 1 .. n : Requested[issued[i]] > 0
  BY <1>1
<1>5. issued \in Seq(Address) /\ Len(issued) = n /\ DOMAIN issued = 1 .. n
  <2>1. issued \in Seq(Address)
    BY <1>3, <1>4, SeqDef
  <2> QED
    BY <1>3, <1>4, <2>1, LenProperties
<1>6. Requested \in [Address -> Nat]
  BY RequestedCount
<1> QED
  BY <1>2, <1>4, <1>5, <1>6 DEF Issuable

LEMMA Widen ==
  ASSUME NEW g \in Groups(Reads)
  PROVE  g \in Groups(Reads + 1)
<1>1. Reads \in Nat
  BY Sizes
<1>2. [addr : Address, n : 1 .. Reads] \subseteq [addr : Address, n : 1 .. Reads + 1]
  <2>1. 1 .. Reads \subseteq 1 .. Reads + 1
    BY <1>1
  <2> QED
    BY <2>1
<1>3. g \in [1 .. Len(g) -> [addr : Address, n : 1 .. Reads]] /\ Len(g) \in Nat
  BY LenProperties DEF Groups
<1> DEFINE S == [addr : Address, n : 1 .. Reads + 1]
<1>4. g \in [1 .. Len(g) -> S]
  BY <1>2, <1>3
<1> HIDE DEF S
<1>5. g \in Seq(S)
  BY <1>3, <1>4, SeqDef
<1> QED
  BY <1>5 DEF Groups, S

LEMMA ReturnStep ==
  ASSUME Inv, NEW scheduled, NEW issued \in Issues(scheduled),
         NEW done \in 0 .. Len(return_queue), Dram(scheduled, issued, done)
  PROVE  /\ return_queue' \in Groups(Reads + 1)
         /\ pending' \in [Address -> Nat]
         /\ \A line \in Line :
              Owed(line)' + Answers(line, return_queue')
                = Owed(line) + Sent(line)
                  + Answers(line, SubSeq(return_queue, done + 1, Len(return_queue)))
         /\ read_queue' \subseteq Address /\ answered' \in BOOLEAN
<1> DEFINE h == SubSeq(return_queue, done + 1, Len(return_queue))
           new == Issue(issued, Requested)
<1>1. /\ read_queue' = ReadQueue \ scheduled
      /\ pending' = [a \in Address |-> LeftFor(issued, Requested, a)]
      /\ return_queue' = h \o new
      /\ answered' = (done > 0)
  BY DEF Dram, LeftFor, Issue
<1>2. return_queue \in Groups(Reads) /\ Reads \in Nat /\ read_queue \subseteq Address
  BY Sizes DEF Inv, TypeOK, Groups
<1>3. h \in Groups(Reads + 1)
  BY <1>2, SplitAt, Widen DEF Splits
<1>4. /\ Issuable(issued, Requested) /\ Requested \in [Address -> Nat]
      /\ \A a \in Address : Requested[a] <= Reads + 1
      /\ Accepted \subseteq Address
  BY IssuesFacts, RequestedCount
<1>5. new \in Groups(Reads + 1) /\ Reads + 1 \in Nat
  BY <1>2, <1>4, IssueType
<1>6. \A a \in Address : LeftFor(issued, Requested, a) \in Nat
  BY <1>4 DEF LeftFor
<1>7. pending' \in [Address -> Nat]
  BY <1>1, <1>6
<1> HIDE DEF h, new
<1>8. Splits(Reads + 1, return_queue', h, new) /\ return_queue' \in Groups(Reads + 1)
  BY <1>1, <1>3, <1>5, SplitJoined DEF Splits
<1>9. ASSUME NEW line \in Line
      PROVE  Owed(line)' + Answers(line, return_queue')
               = Owed(line) + Sent(line) + Answers(line, h)
  <2> DEFINE a == ReadOf(line, 0)
             b == ReadOf(line, 1)
             x == LeftFor(issued, Requested, a)
             y == LeftFor(issued, Requested, b)
             p == Answers(line, return_queue')
             q == Answers(line, h)
             r == Answers(line, new)
             s == Owed(line)
             t == Sent(line)
             u == Requested[a]
             v == Requested[b]
  <2>1. a \in Address /\ b \in Address
    BY AddressCases
  <2>2. x \in Nat /\ y \in Nat /\ u \in Nat /\ v \in Nat
    BY <1>4, <1>6, <2>1
  <2>3. Owed(line)' = x + y
    BY <1>1, <2>1 DEF Owed
  <2>4. p = q + r
    BY <1>8, AnswersSplit DEF Answers
  <2>5. q \in Nat /\ r \in Nat
    BY <1>3, <1>5, AnswersFinite DEF Answers
  <2>6. r + x + y = u + v
    BY <1>4, <1>5, IssueAnswers DEF Answers, new
  <2>7. u + v = s + t
    BY RequestedCount
  <2> HIDE DEF a, b, x, y, p, q, r, s, t, u, v
  <2>8. x + y + p = s + t + q
    <3>1. x + y + p = x + y + (q + r)
      BY <2>4
    <3>2. x + y + (q + r) = (r + x + y) + q
      BY <2>2, <2>5
    <3> QED
      BY <2>6, <2>7, <3>1, <3>2
  <2> QED
    BY <2>3, <2>8 DEF p, q, s, t
<1>10. read_queue' \subseteq Address
  BY <1>1, <1>2, <1>4 DEF ReadQueue
<1>11. answered' \in BOOLEAN
  BY <1>1
<1> QED
  BY <1>7, <1>8, <1>9, <1>10, <1>11 DEF h

(* A group of answers is no longer than all answers for its line.          *)
LEMMA GroupBound ==
  ASSUME NEW b \in Nat, NEW g \in Groups(b), NEW k \in 1 .. Len(g)
  PROVE  /\ LineOfAddr(OriAddr(g[k].addr)) \in Line
         /\ g[k].n <= Answers(LineOfAddr(OriAddr(g[k].addr)), g)
<1> DEFINE line == LineOfAddr(OriAddr(g[k].addr))
           n == g[k].n
           A == AnswersFor(line, g)
<1>1. g[k].addr \in Address /\ n \in 1 .. b
  BY GroupsFacts
<1>2. line \in Line /\ OfLine(g[k].addr, line)
  BY <1>1, AddressCases DEF OfLine
<1>3. \A j \in 1 .. b : <<k, j>> \in A <=> j <= n /\ OfLine(g[k].addr, line)
  BY AnswerMember
<1>4. IsFiniteSet(A) /\ Cardinality(A) \in Nat
  BY AnswersFinite
<1> DEFINE B == {k}
           C == 1 .. n
<1>5. \A j \in C : <<k, j>> \in A
  BY <1>1, <1>2, <1>3
<1> HIDE DEF A, line, n
<1>6. IsFiniteSet(B) /\ Cardinality(B) = 1
  BY FS_Singleton
<1>7. IsFiniteSet(C) /\ Cardinality(C) = n
  <2>1. n \in Int /\ ~(1 > n) /\ n - 1 + 1 = n
    BY <1>1
  <2>2. IsFiniteSet(1 .. n) /\ Cardinality(1 .. n) = IF 1 > n THEN 0 ELSE n - 1 + 1
    BY <2>1, FS_Interval
  <2> QED
    BY <2>1, <2>2
<1>8. B \X C \subseteq A
  BY <1>5
<1> HIDE DEF B, C
<1>9. Cardinality(B \X C) = Cardinality(B) * Cardinality(C)
  BY <1>6, <1>7, FS_Product
<1>10. Cardinality(B \X C) <= Cardinality(A)
  BY <1>4, <1>8, FS_Subset
<1>11. n <= Cardinality(A)
  BY <1>1, <1>6, <1>7, <1>9, <1>10
<1> QED
  BY <1>2, <1>11 DEF Answers, A, line, n


-----------------------------------------------------------------------------
(* The counts agree after a tick, and with them the bounds of the DRAM     *)
(* follow from the size of the ring.                                       *)
LEMMA MatchStep ==
  ASSUME Inv, NEW scheduled, NEW issued \in Issues(scheduled),
         NEW done \in 0 .. Len(return_queue), Tick(scheduled, issued, done)
  PROVE  /\ AnswersMatch'
         /\ \A line \in Line : /\ Owed(line)' <= Reads /\ Answers(line, return_queue') <= Reads
<1>1. SendHalf /\ DeliverLine(SubSeq(return_queue, 1, done)) /\ Dram(scheduled, issued, done)
  BY DEF Tick
<1>2. /\ ring' \in Seq(Entry) /\ Len(ring') \in Nat /\ Len(ring') <= RING - 1
      /\ return_queue' \in Groups(Reads + 1) /\ pending' \in [Address -> Nat]
      /\ Reads = 2 * (RING - 1) /\ Reads \in Nat /\ RING \in Nat
  BY <1>1, AnswerStep, ReturnStep, Sizes
<1>3. ASSUME NEW line \in Line
      PROVE  /\ Misses(ring', line) = Owed(line)' + Answers(line, return_queue') + Waits(line)'
             /\ Owed(line)' <= Reads /\ Answers(line, return_queue') <= Reads
  <2> DEFINE a1 == Answers(line, SubSeq(return_queue, 1, done))
             a2 == Answers(line, SubSeq(return_queue, done + 1, Len(return_queue)))
             a  == Answers(line, return_queue)
             aa == Answers(line, return_queue')
             m  == Misses(Kept, line)
             mm == Misses(ring', line)
             o  == Owed(line)
             oo == Owed(line)'
             s  == Sent(line)
             w  == Waits(line)'
  <2>1. m = o + s + a + w /\ o \in Nat /\ s \in Nat /\ a \in Nat /\ w \in Nat /\ m \in Nat
    BY <1>1, Balance
  <2>2. mm + a1 = m /\ mm \in Nat /\ a1 \in Nat /\ a2 \in Nat /\ a = a1 + a2
    BY <1>1, AnswerStep
  <2>3. oo + aa = o + s + a2
    BY <1>1, ReturnStep
  <2>4. aa \in Nat
    BY <1>2, AnswersFinite DEF Answers
  <2>5. oo \in Nat
    <3>1. ReadOf(line, 0) \in Address /\ ReadOf(line, 1) \in Address
      BY AddressCases
    <3> QED
      BY <1>2, <3>1 DEF Owed
  <2>6. mm <= 2 * Len(ring')
    BY <1>2, MissingFinite DEF Misses
  <2> HIDE DEF a1, a2, a, aa, m, mm, o, oo, s, w
  <2>7. mm = oo + aa + w
    BY <2>1, <2>2, <2>3, <2>4, <2>5
  <2>8. 2 * Len(ring') <= Reads
    BY <1>2
  <2>9. oo <= Reads /\ aa <= Reads
    BY <1>2, <2>1, <2>2, <2>4, <2>5, <2>6, <2>7, <2>8
  <2> QED
    BY <2>7, <2>9 DEF mm, oo, aa, w
<1>4. AnswersMatch'
  BY <1>3 DEF AnswersMatch, Misses, Answers, Waits
<1> QED
  BY <1>3, <1>4

LEMMA DramType ==
  ASSUME Inv, NEW scheduled, NEW issued \in Issues(scheduled),
         NEW done \in 0 .. Len(return_queue), Tick(scheduled, issued, done)
  PROVE  /\ pending' \in [Address -> 0 .. Reads]
         /\ return_queue' \in Seq([addr : Address, n : 1 .. Reads])
         /\ read_queue' \subseteq Address /\ answered' \in BOOLEAN
<1>1. Dram(scheduled, issued, done)
  BY DEF Tick
<1>2. /\ return_queue' \in Groups(Reads + 1) /\ pending' \in [Address -> Nat]
      /\ read_queue' \subseteq Address /\ answered' \in BOOLEAN
      /\ Reads \in Nat /\ Reads + 1 \in Nat
  BY <1>1, ReturnStep, Sizes
<1>3. ASSUME NEW a \in Address PROVE pending'[a] \in 0 .. Reads
  <2> DEFINE line == LineOfAddr(OriAddr(a))
             x == ReadOf(line, 0)
             y == ReadOf(line, 1)
  <2>1. line \in Line /\ a \in {x, y}
    BY AddressCases
  <2>2. x \in Address /\ y \in Address
    BY <2>1, AddressCases
  <2>3. Owed(line)' = pending'[x] + pending'[y]
    BY DEF Owed
  <2>4. Owed(line)' <= Reads
    BY <2>1, MatchStep
  <2> HIDE DEF line, x, y
  <2>5. pending'[x] \in Nat /\ pending'[y] \in Nat /\ pending'[x] + pending'[y] <= Reads
    BY <1>2, <2>2, <2>3, <2>4
  <2>6. pending'[x] <= Reads /\ pending'[y] <= Reads
    BY <1>2, <2>5
  <2> QED
    BY <1>2, <2>1, <2>5, <2>6
<1>4. pending' \in [Address -> 0 .. Reads]
  BY <1>2, <1>3
<1> DEFINE g == return_queue'
<1>5. ASSUME NEW k \in 1 .. Len(g) PROVE g[k] \in [addr : Address, n : 1 .. Reads]
  <2>1. g[k] \in [addr : Address, n : 1 .. Reads + 1]
    <3> DEFINE T == [addr : Address, n : 1 .. Reads + 1]
    <3>1. g \in Seq(T)
      BY <1>2 DEF Groups
    <3> HIDE DEF T, g
    <3>2. g \in [1 .. Len(g) -> T]
      BY <3>1, LenProperties
    <3>3. g[k] \in T
      BY <3>2
    <3> QED
      BY <3>3 DEF T
  <2>2. /\ LineOfAddr(OriAddr(g[k].addr)) \in Line
        /\ g[k].n <= Answers(LineOfAddr(OriAddr(g[k].addr)), g)
    BY <1>2, GroupBound
  <2>3. Answers(LineOfAddr(OriAddr(g[k].addr)), g) <= Reads
    BY <2>2, MatchStep
  <2>4. Answers(LineOfAddr(OriAddr(g[k].addr)), g) \in Nat
    BY <1>2, AnswersFinite DEF Answers
  <2>5. g[k].addr \in Address /\ g[k].n \in 1 .. Reads + 1 /\ g[k] = [addr |-> g[k].addr, n |-> g[k].n]
    BY <2>1
  <2>6. g[k].n \in 1 .. Reads
    BY <1>2, <2>2, <2>3, <2>4, <2>5
  <2> QED
    BY <2>5, <2>6
<1>6. g \in Seq([addr : Address, n : 1 .. Reads])
  <2> DEFINE S == [addr : Address, n : 1 .. Reads]
             T == [addr : Address, n : 1 .. Reads + 1]
  <2>1. g \in Seq(T)
    BY <1>2 DEF Groups
  <2>2. \A k \in 1 .. Len(g) : g[k] \in S
    BY <1>5
  <2> HIDE DEF S, T, g
  <2>3. g \in [1 .. Len(g) -> T] /\ Len(g) \in Nat
    BY <2>1, LenProperties
  <2>4. g \in [1 .. Len(g) -> S]
    BY <2>2, <2>3
  <2>5. g \in Seq(S)
    BY <2>3, <2>4, SeqDef
  <2> QED
    BY <2>5 DEF S
<1> QED
  BY <1>2, <1>4, <1>6

LEMMA CorrectTick ==
  ASSUME Inv, NEW scheduled, NEW issued \in Issues(scheduled),
         NEW done \in 0 .. Len(return_queue), Tick(scheduled, issued, done)
  PROVE  Inv'
<1>1. /\ {p5Line', p6Line', edges'} \subseteq Option(Line)
      /\ q6' \in Seq(Line) /\ edge_buffer' \in Seq(Line) /\ p6Full' \in BOOLEAN
      /\ Len(q6') <= FIFO_SIZE + 1 /\ Len(edge_buffer') <= 1
  BY StageBounds
<1>2. StageBound'
  <2>1. p6Full' = Full(q6') /\ (Len(q6') > FIFO_SIZE => p5Line' = None)
    BY StageBounds
  <2> QED
    BY <2>1 DEF StageBound, Full
<1>3. /\ buffer' \in Seq(Line) /\ halfSent' \in BOOLEAN /\ memFull' \in BOOLEAN
      /\ 2 * Len(buffer') <= FIFO_SIZE + 5 /\ ControllerBound'
  BY ControllerBounds
<1>4. /\ ring' \in Seq(Entry) /\ Len(ring') < RING
      /\ Requests(ring') /\ memEdge' \in Option(Line)
  <2>1. SendHalf /\ DeliverLine(SubSeq(return_queue, 1, done))
    BY DEF Tick
  <2>2. /\ ring' \in Seq(Entry) /\ Len(ring') \in Nat /\ Len(ring') <= RING - 1
        /\ Requests(ring') /\ memEdge' \in Option(Line)
    BY <2>1, AnswerStep
  <2>3. Len(ring') < RING
    BY <2>2, Sizes
  <2> QED
    BY <2>2, <2>3
<1>5. Requests(ring)'
  BY <1>4 DEF Requests
<1>6. TypeOK'
  BY <1>1, <1>3, <1>4, DramType DEF TypeOK
<1>7. AnswersMatch'
  BY MatchStep
<1> QED
  BY <1>2, <1>3, <1>5, <1>6, <1>7 DEF Inv

LEMMA CorrectInit == Init => Inv
<1> SUFFICES ASSUME Init PROVE Inv
  OBVIOUS
<1>1. FIFO_SIZE \in Nat /\ FIFO_SIZE # 0 /\ RING \in Nat /\ RING >= 3 /\ Reads \in Nat
  BY Sizes
<1>2. Len(<<>>) = 0
  OBVIOUS
<1>3. TypeOK
  <2>1. \A S : <<>> \in Seq(S)
    OBVIOUS
  <2>2. pending \in [Address -> 0 .. Reads]
    <3>1. 0 \in 0 .. Reads
      BY <1>1
    <3> QED
      BY <3>1 DEF Init
  <2>3. /\ Len(q6) <= FIFO_SIZE + 1 /\ Len(edge_buffer) <= 1 /\ Len(ring) < RING
        /\ 2 * Len(buffer) <= FIFO_SIZE + 5
    BY <1>1, <1>2 DEF Init
  <2>4. {p5Line, p6Line, memEdge, edges} \subseteq Option(Line)
    BY DEF Init, Option
  <2>5. q6 \in Seq(Line) /\ buffer \in Seq(Line) /\ edge_buffer \in Seq(Line) /\ ring \in Seq(Entry)
        /\ return_queue \in Seq([addr : Address, n : 1 .. Reads])
    BY <2>1 DEF Init
  <2> QED
    BY <2>2, <2>3, <2>4, <2>5 DEF TypeOK, Init
<1>4. StageBound
  <2>1. Len(q6) = 0 /\ p6Full = FALSE
    BY <1>2 DEF Init
  <2>2. ~(Len(q6) >= FIFO_SIZE) /\ ~(Len(q6) > FIFO_SIZE)
    BY <1>1, <2>1
  <2>3. Full(q6) = FALSE
    BY <2>2 DEF Full
  <2> QED
    BY <2>1, <2>2, <2>3 DEF StageBound
<1>5. ControllerBound
  <2>1. Halves(buffer, halfSent) = 0 /\ halfSent = FALSE /\ memFull = FALSE
    BY <1>2 DEF Init, Halves
  <2> DEFINE H == Halves(buffer, halfSent)
  <2>2. H = 0
    BY <2>1
  <2> HIDE DEF H
  <2>3. ~(H > FIFO_SIZE) /\ H <= FIFO_SIZE + 4 /\ ~(H > FIFO_SIZE + 2)
    BY <1>1, <2>2
  <2>4. (H > FIFO_SIZE) = FALSE
    BY <1>1, <2>2
  <2>5. memFull = (H > FIFO_SIZE)
    <3>1. memFull = FALSE
      BY <2>1
    <3> QED
      BY <2>4, <3>1, Zenon
  <2> QED
    BY <2>1, <2>3, <2>5 DEF ControllerBound, H
<1>6. Requests(ring)
  <2>1. DOMAIN ring = {}
    BY DEF Init
  <2> QED
    BY <2>1 DEF Requests
<1>7. AnswersMatch
  <2>1. ASSUME NEW line \in Line
        PROVE  Cardinality(Missing(ring, line)) =
                 Owed(line) + Cardinality(AnswersFor(line, return_queue))
                   + (IF halfSent /\ Head(buffer) = line THEN 1 ELSE 0)
    <3>1. Missing(ring, line) = {}
      BY DEF Init, Missing
    <3>2. AnswersFor(line, return_queue) = {}
      BY DEF Init, AnswersFor
    <3>3. Owed(line) = 0
      BY AddressCases DEF Init, Owed
    <3>4. Cardinality({}) = 0
      BY FS_EmptySet
    <3>5. ~halfSent
      BY DEF Init
    <3> QED
      BY <3>1, <3>2, <3>3, <3>4, <3>5
  <2> QED
    BY <2>1 DEF AnswersMatch
<1> QED
  BY <1>3, <1>4, <1>5, <1>6, <1>7 DEF Inv

LEMMA CorrectNext == Inv /\ [Next]_vars => Inv'
<1> SUFFICES ASSUME Inv, [Next]_vars PROVE Inv'
  OBVIOUS
<1>1. CASE Next
  <2>1. PICK scheduled \in Schedules : \E issued \in Issues(scheduled) :
          \E done \in 0 .. Len(return_queue) : Tick(scheduled, issued, done)
    BY <1>1 DEF Next
  <2>2. PICK issued \in Issues(scheduled) :
          \E done \in 0 .. Len(return_queue) : Tick(scheduled, issued, done)
    BY <2>1
  <2>3. PICK done \in 0 .. Len(return_queue) : Tick(scheduled, issued, done)
    BY <2>2
  <2> QED
    BY <2>3, CorrectTick
<1>2. CASE UNCHANGED vars
  <2>1. UNCHANGED <<stage6, controller, dram>>
    BY <1>2 DEF vars
  <2>2. TypeOK'
    BY <2>1 DEF Inv, TypeOK, stage6, controller, dram
  <2>3. StageBound'
    BY <2>1 DEF Inv, StageBound, Full, stage6
  <2>4. ControllerBound'
    BY <2>1 DEF Inv, ControllerBound, Halves, stage6, controller
  <2>5. Requests(ring)'
    BY <2>1 DEF Inv, Requests, controller
  <2>6. AnswersMatch'
    BY <2>1 DEF Inv, AnswersMatch, Owed, controller, dram
  <2> QED
    BY <2>2, <2>3, <2>4, <2>5, <2>6 DEF Inv
<1> QED
  BY <1>1, <1>2

(* What the stage, the controller's buffers and the DRAM keep in every     *)
(* state, for any number of lines, any size of the ring from 3 and any     *)
(* capacities: the checks of Stage_Full and HBM_Controller_Full, seen a    *)
(* tick late, and of rq_reorder_ptr (6_HBM_Interface.cpp).                 *)
THEOREM InterfaceCorrect == Spec => []Inv
<1>1. Spec => Init /\ [][Next]_vars
  BY DEF Spec
<1> QED
  BY <1>1, CorrectInit, CorrectNext, PTL

(* The types, and the bounds of all queues of 6_HBM_Interface.cpp.         *)
THEOREM TypeCorrect == Spec => []TypeOK
<1>1. Inv => TypeOK
  BY DEF Inv
<1> QED
  BY <1>1, InterfaceCorrect, PTL

(* dummy_call_back_0 finds a place for every answer: what the entries of a *)
(* line in rq_reorder_buffer still miss is what the DRAM owes for it, in   *)
(* its order of answers whatever it is, and the second half to be sent.    *)
THEOREM AnswersMatchHolds == Spec => []AnswersMatch
<1>1. Inv => AnswersMatch
  BY DEF Inv
<1> QED
  BY <1>1, InterfaceCorrect, PTL

=============================================================================
