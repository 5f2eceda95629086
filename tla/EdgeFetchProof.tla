---------------------------- MODULE EdgeFetchProof ----------------------------
(***************************************************************************)
(* Proofs about EdgeFetch, for any graph, any number of cores and queues   *)
(* of any size.                                                            *)
(***************************************************************************)
EXTENDS EdgeFetch, Arithmetic, SequenceTheorems

-----------------------------------------------------------------------------
(* The offsets of the graph.                                               *)

(* LOffset is defined recursively: the function its definition asks for    *)
(* exists, because one on 0 .. n can be continued to n + 1.                *)
OffsetsUpTo(n, f) ==
  f = [v \in 0 .. n |-> IF v = 0 THEN 0 ELSE f[v - 1] + Degree[v - 1]]

LEMMA OffsetsExist == \E f : OffsetsUpTo(VERTEX_NUM, f)
<1> DEFINE Bad == {n \in 0 .. VERTEX_NUM : ~ \E f : OffsetsUpTo(n, f)}
<1>0. VERTEX_NUM \in Nat
  BY ChannelAssumption
<1>1. SUFFICES ASSUME Bad # {} PROVE FALSE
  BY <1>0
<1>2. PICK n \in Bad : \A m \in Bad : n <= m
  <2>1. Bad \subseteq Nat
    BY <1>0
  <2> QED
    BY <1>1, <2>1, LeastExists, Zenon
<1>3. OffsetsUpTo(0, [v \in 0 .. 0 |-> 0])
  BY DEF OffsetsUpTo
<1>4. n # 0 /\ n - 1 \in 0 .. VERTEX_NUM /\ n - 1 \notin Bad
  BY <1>0, <1>2, <1>3
<1>5. PICK f : OffsetsUpTo(n - 1, f)
  BY <1>4
<1> DEFINE g == [v \in 0 .. n |-> IF v = n THEN f[n - 1] + Degree[n - 1] ELSE f[v]]
<1>6. \A v \in 0 .. n : g[v] = IF v = 0 THEN 0 ELSE g[v - 1] + Degree[v - 1]
  <2> SUFFICES ASSUME NEW v \in 0 .. n
               PROVE  g[v] = IF v = 0 THEN 0 ELSE g[v - 1] + Degree[v - 1]
    OBVIOUS
  <2>1. CASE v = n
    BY <1>0, <1>2, <1>4, <2>1
  <2>2. CASE v # n
    <3>1. v \in 0 .. n - 1
      BY <1>0, <1>2, <2>2
    <3>2. f[v] = IF v = 0 THEN 0 ELSE f[v - 1] + Degree[v - 1]
      BY <1>5, <3>1 DEF OffsetsUpTo
    <3>3. g[v] = f[v] /\ (v # 0 => g[v - 1] = f[v - 1])
      BY <1>0, <1>2, <2>2, <3>1
    <3> QED
      BY <3>2, <3>3
  <2> QED
    BY <2>1, <2>2
<1>7. OffsetsUpTo(n, g)
  <2> HIDE DEF g
  <2>1. g = [v \in 0 .. n |-> g[v]]
    BY DEF g
  <2> QED
    BY <1>6, <2>1 DEF OffsetsUpTo
<1> QED
  BY <1>2, <1>7

LEMMA OffsetsAreRecursive == OffsetsUpTo(VERTEX_NUM, LOffset)
BY OffsetsExist DEF OffsetsUpTo, LOffset

LEMMA Offsets ==
  /\ \A v \in 0 .. VERTEX_NUM : LOffset[v] \in Nat
  /\ \A v \in Vertex : LOffset[v + 1] = LOffset[v] + Degree[v]
<1> DEFINE Bad == {v \in 0 .. VERTEX_NUM : LOffset[v] \notin Nat}
<1>0. VERTEX_NUM \in Nat /\ \A v \in Vertex : Degree[v] \in Nat
  BY ChannelAssumption
<1>1. \A v \in 0 .. VERTEX_NUM :
        LOffset[v] = IF v = 0 THEN 0 ELSE LOffset[v - 1] + Degree[v - 1]
  BY OffsetsAreRecursive DEF OffsetsUpTo
<1>2. \A v \in Vertex : LOffset[v + 1] = LOffset[v] + Degree[v]
  <2> SUFFICES ASSUME NEW v \in Vertex PROVE LOffset[v + 1] = LOffset[v] + Degree[v]
    OBVIOUS
  <2>1. v + 1 \in 0 .. VERTEX_NUM /\ v + 1 # 0 /\ (v + 1) - 1 = v
    BY <1>0 DEF Vertex
  <2> QED
    BY <1>1, <2>1
<1>3. Bad = {}
  <2> SUFFICES ASSUME Bad # {} PROVE FALSE
    OBVIOUS
  <2>1. Bad \subseteq Nat
    BY <1>0
  <2>2. PICK v \in Bad : \A w \in Bad : v <= w
    BY <2>1, LeastExists, Zenon
  <2>3. v # 0
    BY <1>0, <1>1, <2>2
  <2>4. v - 1 \in Vertex /\ LOffset[v - 1] \in Nat
    BY <1>0, <2>2, <2>3 DEF Vertex
  <2> QED
    BY <1>0, <1>1, <2>2, <2>3, <2>4
<1> QED
  BY <1>2, <1>3

LEMMA OffsetsAscend ==
  ASSUME NEW v \in 0 .. VERTEX_NUM, NEW w \in 0 .. VERTEX_NUM, v <= w
  PROVE  LOffset[v] <= LOffset[w]
<1> DEFINE Bad == {u \in 0 .. VERTEX_NUM : v <= u /\ ~(LOffset[v] <= LOffset[u])}
<1>0. VERTEX_NUM \in Nat /\ \A u \in Vertex : Degree[u] \in Nat
  BY ChannelAssumption
<1>1. SUFFICES ASSUME Bad # {} PROVE FALSE
  BY <1>0
<1>2. Bad \subseteq Nat
  BY <1>0
<1>3. PICK u \in Bad : \A t \in Bad : u <= t
  BY <1>1, <1>2, LeastExists, Zenon
<1>4. u # v
  BY <1>3, Offsets
<1>5. u - 1 \in Vertex /\ v <= u - 1 /\ u - 1 \in 0 .. VERTEX_NUM /\ (u - 1) + 1 = u
  BY <1>0, <1>3, <1>4 DEF Vertex
<1>6. LOffset[v] <= LOffset[u - 1]
  BY <1>0, <1>3, <1>5
<1>7. LOffset[u] = LOffset[u - 1] + Degree[u - 1]
  BY <1>5, Offsets
<1> QED
  BY <1>0, <1>3, <1>5, <1>6, <1>7, Offsets

(* The edges of a vertex are a range within those of the channel, as long  *)
(* as its degree, and those of a later vertex lie behind them.             *)
LEMMA RangeFacts ==
  ASSUME NEW v \in Vertex
  PROVE  /\ LOffset[v] \in Nat /\ LOffset[v + 1] \in Nat /\ EDGE_NUM \in Nat
         /\ LOffset[v] <= LOffset[v + 1] /\ LOffset[v + 1] <= EDGE_NUM
         /\ LOffset[v + 1] - LOffset[v] = Degree[v] /\ Degree[v] \in Nat
         /\ EdgesOf(v) \subseteq 0 .. EDGE_NUM - 1
<1>0. VERTEX_NUM \in Nat /\ v + 1 \in 0 .. VERTEX_NUM /\ v \in 0 .. VERTEX_NUM
      /\ VERTEX_NUM \in 0 .. VERTEX_NUM /\ Degree[v] \in Nat
  BY ChannelAssumption DEF Vertex
<1>1. LOffset[v + 1] <= LOffset[VERTEX_NUM]
  BY <1>0, OffsetsAscend
<1>2. LOffset[v + 1] = LOffset[v] + Degree[v]
  BY Offsets
<1>3. LOffset[v] \in Nat /\ LOffset[v + 1] \in Nat /\ LOffset[VERTEX_NUM] \in Nat
  BY <1>0, Offsets
<1> QED
  BY <1>0, <1>1, <1>2, <1>3 DEF EDGE_NUM, EdgesOf

LEMMA EdgesAscend ==
  ASSUME NEW v \in Vertex, NEW w \in Vertex, v < w,
         NEW e \in EdgesOf(v), NEW f \in EdgesOf(w)
  PROVE  e < f
<1>0. VERTEX_NUM \in Nat /\ v + 1 \in 0 .. VERTEX_NUM /\ w \in 0 .. VERTEX_NUM /\ v + 1 <= w
  BY ChannelAssumption DEF Vertex
<1>1. LOffset[v + 1] <= LOffset[w]
  BY <1>0, OffsetsAscend
<1> QED
  BY <1>1, RangeFacts DEF EdgesOf

LEMMA OneSource ==
  ASSUME NEW v \in Vertex, NEW w \in Vertex, NEW e \in EdgesOf(v), e \in EdgesOf(w)
  PROVE  v = w
<1>1. v \in Int /\ w \in Int /\ e \in Int
  BY ChannelAssumption DEF Vertex, EdgesOf
<1>2. ~(v < w)
  BY <1>1, EdgesAscend
<1>3. ~(w < v)
  BY <1>1, EdgesAscend
<1> QED
  BY <1>1, <1>2, <1>3

-----------------------------------------------------------------------------
(* Queues: what is pushed and popped, and how the length changes.          *)

Opt(x) == IF x = None THEN <<>> ELSE <<x>>

LEMMA PushFacts ==
  ASSUME NEW S, None \notin S, NEW q \in Seq(S), NEW x \in Option(S)
  PROVE  /\ Push(q, x) \in Seq(S) /\ Push(q, x) = q \o Opt(x) /\ Opt(x) \in Seq(S)
         /\ Len(Push(q, x)) = Len(q) + Held(x) /\ Held(x) \in 0 .. 1
         /\ Len(Opt(x)) = Held(x)
<1>1. CASE x = None
  BY <1>1, ConcatEmptySeq DEF Push, Opt, Held
<1>2. CASE x # None
  <2>1. x \in S
    BY <1>2 DEF Option
  <2> QED
    BY <1>2, <2>1, AppendProperties, AppendIsConcat DEF Push, Opt, Held
<1> QED
  BY <1>1, <1>2

LEMMA PopFacts ==
  ASSUME NEW S, NEW q \in Seq(S), q # <<>>
  PROVE  /\ Head(q) \in S /\ Tail(q) \in Seq(S) /\ Len(Tail(q)) = Len(q) - 1
         /\ Len(q) \in Nat \ {0} /\ Head(q) = q[1]
BY HeadTailProperties

LEMMA CountFacts ==
  ASSUME NEW cond \in BOOLEAN, NEW ct \in 0 .. WAIT_END_DELAY
  PROVE  Count(cond, ct) \in 0 .. WAIT_END_DELAY /\ Ended(cond, ct) \in BOOLEAN
BY ChannelAssumption DEF Count, Ended

-----------------------------------------------------------------------------
(***************************************************************************)
(* Types.                                                                  *)
(***************************************************************************)

LEMMA Positive ==
  /\ CACHELINE_LEN \in Nat \ {0} /\ VERTEX_NUM \in Nat /\ EDGE_NUM \in Nat
  /\ INFINITE_OFFSET \in Nat /\ Vertex \subseteq Nat /\ Core \subseteq Nat
  /\ WAIT_END_DELAY \in Nat /\ MAX_ITERATION \in Nat /\ FIFO_SIZE \in Nat \ {0}
<1>1. VERTEX_NUM \in Nat /\ CACHELINE_LEN \in Nat \ {0}
  BY ChannelAssumption
<1>2. EDGE_NUM \in Nat
  BY <1>1, Offsets DEF EDGE_NUM
<1> QED
  BY <1>1, <1>2, ChannelAssumption DEF INFINITE_OFFSET, Vertex, Core

LEMMA NoneIsNone ==
  /\ None \notin Nat /\ None \notin Vertex /\ None \notin EdgeRange /\ None \notin Request
  /\ None \notin Job \union {Idle} /\ None \notin Update
BY NoneAssumption, Positive

(* The range at the head of the queue is that of a vertex.                 *)
LEMMA HeadRange ==
  ASSUME NEW r \in EdgeRange
  PROVE  \E v \in Vertex : r = OffsetOf(v) /\ r.lo = LOffset[v] /\ r.hi = LOffset[v + 1] - 1
BY DEF EdgeRange, OffsetOf

LEMMA LoHi ==
  ASSUME TypeOK, NEW c \in Core, offset[c] # <<>>
  PROVE  /\ Lo(c) \in Nat /\ Hi(c) \in Int /\ Hi(c) < EDGE_NUM /\ Hi(c) >= Lo(c) - 1
         /\ \E v \in Vertex : /\ Head(offset[c]) = OffsetOf(v) /\ Lo(c) = LOffset[v]
                              /\ Hi(c) = LOffset[v + 1] - 1
<1>1. Head(offset[c]) \in EdgeRange
  <2>1. offset[c] \in Seq(EdgeRange)
    BY DEF TypeOK
  <2> QED
    BY <2>1, PopFacts
<1>2. PICK v \in Vertex : /\ Head(offset[c]) = OffsetOf(v)
                         /\ Head(offset[c]).lo = LOffset[v]
                         /\ Head(offset[c]).hi = LOffset[v + 1] - 1
  BY <1>1, HeadRange
<1> QED
  BY <1>2, RangeFacts DEF Lo, Hi

LEMMA LineLane ==
  ASSUME NEW e \in Int
  PROVE  /\ Line(e) \in Int /\ Lane(e) \in Core
         /\ e = Line(e) * CACHELINE_LEN + Lane(e)
BY Positive, Digits DEF Line, Lane, Core

(* Where the next line of a vertex with edges starts.                      *)
LEMMA StartFacts ==
  ASSUME TypeOK, NEW c \in Core, offset[c] # <<>>, ~NoEdges(c)
  PROVE  /\ Hi(c) \in Nat /\ Lo(c) <= Hi(c) /\ Start(c) \in Nat
         /\ Line(Start(c)) \in Nat /\ Line(Hi(c)) \in Nat
         /\ Line(Start(c)) <= Line(Hi(c)) /\ Line(Hi(c)) <= EDGE_NUM
         /\ Lane(Start(c)) \in Core /\ Lane(Hi(c)) \in Core
         /\ Hi(c) < EDGE_NUM
         /\ Start(c) = Line(Start(c)) * CACHELINE_LEN + Lane(Start(c))
         /\ Hi(c) = Line(Hi(c)) * CACHELINE_LEN + Lane(Hi(c))
<1>1. /\ Lo(c) \in Nat /\ Hi(c) \in Nat /\ Lo(c) <= Hi(c) /\ Hi(c) < EDGE_NUM
  BY LoHi DEF NoEdges
<1>2. nowLOffset[c] \in Nat
  BY Positive DEF TypeOK
<1>3. Line(Lo(c)) <= Line(Hi(c))
  BY <1>1, Positive, QuotientMonotone DEF Line
<1>4. /\ Line(Hi(c)) \in Nat /\ Line(Hi(c)) <= Hi(c)
      /\ Line(nowLOffset[c]) \in Nat /\ Line(Lo(c)) \in Nat
  BY <1>1, <1>2, Positive, QuotientSmall DEF Line
<1>5. Start(c) \in Nat /\ Line(Start(c)) \in Nat /\ Line(Start(c)) <= Line(Hi(c))
  <2>1. CASE Line(nowLOffset[c]) > Line(Hi(c))
    BY <1>1, <1>3, <1>4, <2>1 DEF Start
  <2>2. CASE ~(Line(nowLOffset[c]) > Line(Hi(c)))
    BY <1>2, <1>4, <2>2 DEF Start
  <2> QED
    BY <2>1, <2>2
<1>6. /\ Lane(Start(c)) \in Core /\ Lane(Hi(c)) \in Core
      /\ Start(c) = Line(Start(c)) * CACHELINE_LEN + Lane(Start(c))
      /\ Hi(c) = Line(Hi(c)) * CACHELINE_LEN + Lane(Hi(c))
  BY <1>1, <1>5, LineLane
<1> QED
  BY <1>1, <1>4, <1>5, <1>6, Positive

LEMMA InitType == Init => TypeOK
<1> SUFFICES ASSUME Init PROVE TypeOK
  OBVIOUS
<1>1. \A S : <<>> \in Seq(S)
  BY EmptySeq
<1>2. \A S : None \in Option(S)
  BY DEF Option
<1>3. /\ toSend \in [Core -> SUBSET Vertex] /\ active \in SUBSET Vertex
      /\ \A x : All(x) = [c \in Core |-> x]
  BY DEF Init, VerticesOf, All
<1>4. /\ 0 \in 0 .. WAIT_END_DELAY /\ INFINITE_OFFSET \in 0 .. INFINITE_OFFSET
      /\ 0 \in 0 .. MAX_ITERATION
  BY Positive
<1> QED
  BY <1>1, <1>2, <1>3, <1>4 DEF Init, TypeOK

LEMMA ReadOffsetType ==
  ASSUME TypeOK, ReadOffset
  PROVE  /\ p2V' \in [Core -> Option(Vertex)] /\ q2' \in [Core -> Seq(Vertex)]
         /\ ct2' \in [Core -> 0 .. WAIT_END_DELAY]
         /\ p2End' \in [Core -> BOOLEAN] /\ p2Full' \in [Core -> BOOLEAN]
<1>1. ASSUME NEW c \in Core
      PROVE  /\ p2V'[c] \in Option(Vertex)
             /\ q2'[c] \in Seq(Vertex)
  <2>1. /\ q2[c] \in Seq(Vertex) /\ p1V[c] \in Option(Vertex)
        /\ p2V'[c] = IF p4Full[c] \/ q2[c] = <<>> THEN None ELSE Head(q2[c])
        /\ q2'[c] = Push(IF p2V'[c] = None THEN q2[c] ELSE Tail(q2[c]), p1V[c])
    BY DEF TypeOK, ReadOffset
  <2>2. p2V'[c] \in Option(Vertex) /\ (p2V'[c] # None => q2[c] # <<>>)
    BY <2>1, PopFacts DEF Option
  <2>3. (IF p2V'[c] = None THEN q2[c] ELSE Tail(q2[c])) \in Seq(Vertex)
    BY <2>1, <2>2, PopFacts
  <2>4. Push(IF p2V'[c] = None THEN q2[c] ELSE Tail(q2[c]), p1V[c]) \in Seq(Vertex)
    BY <2>1, <2>3, PushFacts, NoneIsNone
  <2> QED
    BY <2>1, <2>2, <2>4
<1>2. ASSUME NEW c \in Core
      PROVE  ct2'[c] \in 0 .. WAIT_END_DELAY /\ p2End'[c] \in BOOLEAN
  <2>1. ct2[c] \in 0 .. WAIT_END_DELAY /\ Drained2(c) \in BOOLEAN
    BY DEF TypeOK, Drained2
  <2> QED
    BY <2>1, CountFacts DEF ReadOffset
<1>3. /\ p2V' = [c \in Core |-> p2V'[c]] /\ q2' = [c \in Core |-> q2'[c]]
      /\ ct2' = [c \in Core |-> ct2'[c]] /\ p2End' = [c \in Core |-> p2End'[c]]
  BY DEF ReadOffset
<1>4. p2Full' \in [Core -> BOOLEAN]
  BY DEF ReadOffset, Full
<1> QED
  BY <1>1, <1>2, <1>3, <1>4

LEMMA ReadMemoriesType ==
  ASSUME TypeOK, ReadMemories
  PROVE  /\ offsetData' \in [Core -> Option(EdgeRange)]
         /\ deltaRd' \in [Core -> Option(Vertex)] /\ deltaData' \in [Core -> Option(Vertex)]
         /\ srcV' \in [Core -> Option(Vertex)]
BY DEF TypeOK, ReadMemories, Option, EdgeRange

(* What stage 4 sends is a request for a line that the vertex lies on.     *)
LEMMA RequestType ==
  ASSUME TypeOK, NEW c \in Core, Send4(c), vId[c] # <<>>
  PROVE  [line |-> Line(Start(c)), mask |-> Mask(c), id |-> Head(vId[c]),
          val |-> Head(value[c]), deg |-> Hi(c) - Lo(c) + 1] \in Request
<1>1. offset[c] # <<>> /\ value[c] # <<>> /\ ~NoEdges(c)
  BY DEF Send4, Ready4
<1>2. Line(Start(c)) \in Nat /\ Hi(c) - Lo(c) + 1 \in Nat
  BY <1>1, StartFacts, LoHi
<1>3. Head(vId[c]) \in Vertex /\ Head(value[c]) \in Vertex
  <2>1. vId[c] \in Seq(Vertex) /\ value[c] \in Seq(Vertex)
    BY DEF TypeOK
  <2> QED
    BY <1>1, <2>1, PopFacts
<1>4. Mask(c) \in SUBSET Core
  BY DEF Mask
<1> QED
  BY <1>2, <1>3, <1>4 DEF Request

LEMMA NextLOffsetType ==
  ASSUME TypeOK, NEW c \in Core
  PROVE  NextLOffset(c) \in 0 .. INFINITE_OFFSET
<1>1. nowLOffset[c] \in 0 .. INFINITE_OFFSET /\ INFINITE_OFFSET \in Nat
  BY Positive DEF TypeOK
<1>2. ASSUME Ready4(c), ~p5Full[c], ~NoEdges(c), ~Done4(c)
      PROVE  (Line(Start(c)) + 1) * CACHELINE_LEN \in 0 .. INFINITE_OFFSET
  <2>1. Line(Start(c)) \in Nat /\ Line(Start(c)) <= EDGE_NUM
    BY <1>2, StartFacts, Positive DEF Ready4
  <2>2. (Line(Start(c)) + 1) * CACHELINE_LEN <= (EDGE_NUM + 1) * CACHELINE_LEN
    BY <2>1, Positive, ProductMonotone
  <2>3. (Line(Start(c)) + 1) * CACHELINE_LEN \in Nat
    BY <2>1, Positive
  <2> QED
    BY <2>2, <2>3, <1>1 DEF INFINITE_OFFSET
<1>3. ASSUME Len(offset[c]) > 1
      PROVE  offset[c][2].lo \in 0 .. INFINITE_OFFSET
  <2>1. offset[c] \in Seq(EdgeRange)
    BY DEF TypeOK
  <2>2. offset[c][2] \in EdgeRange
    BY <1>3, <2>1, ElementOfSeq
  <2>3. PICK v \in Vertex : offset[c][2].lo = LOffset[v]
    BY <2>2, HeadRange
  <2>4. offset[c][2].lo \in Nat /\ offset[c][2].lo <= EDGE_NUM
    BY <2>3, RangeFacts
  <2>5. EDGE_NUM + 1 <= (EDGE_NUM + 1) * CACHELINE_LEN
    <3>1. CACHELINE_LEN * (EDGE_NUM + 1) >= 1 * (EDGE_NUM + 1)
      BY Positive, ProductMonotone
    <3> QED
      BY <3>1, Positive
  <2> QED
    BY <2>4, <2>5, Positive DEF INFINITE_OFFSET
<1> QED
  BY <1>1, <1>2, <1>3 DEF NextLOffset

(* The lengths of the queues: nothing is lost between two memories, no     *)
(* register is on its way to a queue that has no room for it, and every    *)
(* job of a lane has its line.                                             *)
Lengths ==
  /\ \A c \in Core :
       /\ Len(q2[c]) + Held(p1V[c]) <= FIFO_SIZE + 1
       /\ Len(vId[c]) + Held(p2V[c]) <= FIFO_SIZE + 1
       /\ Len(offset[c]) + Held(offsetData[c]) = Len(vId[c])
       /\ Len(value[c]) + Held(srcV[c]) + Held(deltaData[c]) + Held(deltaRd[c]) = Len(vId[c])
       /\ Held(deltaRd[c]) = Held(offsetData[c])
       /\ Len(rqst[c]) + Held(p4[c]) <= FIFO_SIZE + 1
       /\ Len(q7[c]) + Held(p5V[c]) <= FIFO_SIZE + 1
  /\ Len(q6) + Held(p5Line) <= FIFO_SIZE + 1
  /\ OneLinePerJob

FullFlags ==
  /\ \A c \in Core : /\ p2Full[c] = Full(q2[c]) /\ p4Full[c] = Full(vId[c])
                     /\ p5Full[c] = Full(rqst[c])
  /\ p6Full = Full(q6) /\ p7Full = (\E i \in Core : Full(q7[i]))

QueueInv == TypeOK /\ Lengths /\ FullFlags

LEMMA HeldFacts == \A x : Held(x) \in 0 .. 1 /\ (Held(x) = 0 <=> x = None)
BY DEF Held

(* A vertex whose offsets have come is still in the queue of ids.          *)
LEMMA NoOffsetWithoutId ==
  ASSUME QueueInv, NEW c \in Core
  PROVE  /\ Len(offset[c]) <= Len(vId[c]) /\ Len(value[c]) <= Len(offset[c])
         /\ Len(offset[c]) \in Nat /\ Len(value[c]) \in Nat /\ Len(vId[c]) \in Nat
         /\ (offset[c] # <<>> => vId[c] # <<>>) /\ (value[c] # <<>> => offset[c] # <<>>)
<1>1. /\ offset[c] \in Seq(EdgeRange) /\ value[c] \in Seq(Vertex) /\ vId[c] \in Seq(Vertex)
  BY DEF QueueInv, TypeOK
<1>2. /\ Len(offset[c]) \in Nat /\ Len(value[c]) \in Nat /\ Len(vId[c]) \in Nat
  BY <1>1
<1>3. /\ Len(offset[c]) + Held(offsetData[c]) = Len(vId[c])
      /\ Len(value[c]) + Held(srcV[c]) + Held(deltaData[c]) + Held(deltaRd[c]) = Len(vId[c])
      /\ Held(deltaRd[c]) = Held(offsetData[c])
  BY DEF QueueInv, Lengths
<1>4. Len(offset[c]) <= Len(vId[c]) /\ Len(value[c]) <= Len(offset[c])
  BY <1>2, <1>3, HeldFacts
<1>5. /\ (offset[c] # <<>> <=> Len(offset[c]) > 0)
      /\ (value[c] # <<>> <=> Len(value[c]) > 0)
      /\ (vId[c] # <<>> <=> Len(vId[c]) > 0)
  BY <1>1, EmptySeq
<1> QED
  BY <1>2, <1>4, <1>5

LEMMA Pop4Type ==
  ASSUME NEW S, None \notin S, NEW c \in Core, NEW q \in Seq(S), Done4(c) => q # <<>>,
         NEW x \in Option(S)
  PROVE  Push(Pop4(c, q), x) \in Seq(S)
<1>1. Pop4(c, q) \in Seq(S)
  BY PopFacts DEF Pop4
<1> QED
  BY <1>1, PushFacts

LEMMA ReadEdgeType ==
  ASSUME QueueInv, ReadEdge
  PROVE  /\ p4' \in [Core -> Option(Request)] /\ nowLOffset' \in [Core -> 0 .. INFINITE_OFFSET]
         /\ vId' \in [Core -> Seq(Vertex)] /\ offset' \in [Core -> Seq(EdgeRange)]
         /\ value' \in [Core -> Seq(Vertex)] /\ ct4' \in [Core -> 0 .. WAIT_END_DELAY]
         /\ p4End' \in [Core -> BOOLEAN] /\ p4Full' \in [Core -> BOOLEAN]
<1>0. TypeOK
  BY DEF QueueInv
<1>1. ASSUME NEW c \in Core
      PROVE  /\ vId'[c] \in Seq(Vertex) /\ offset'[c] \in Seq(EdgeRange)
             /\ value'[c] \in Seq(Vertex)
  <2>1. /\ vId[c] \in Seq(Vertex) /\ offset[c] \in Seq(EdgeRange) /\ value[c] \in Seq(Vertex)
        /\ p2V[c] \in Option(Vertex) /\ offsetData[c] \in Option(EdgeRange)
        /\ srcV[c] \in Option(Vertex)
    BY <1>0 DEF TypeOK
  <2>2. Done4(c) => vId[c] # <<>> /\ offset[c] # <<>> /\ value[c] # <<>>
    BY NoOffsetWithoutId DEF Done4, Ready4
  <2>3. /\ vId'[c] = Push(Pop4(c, vId[c]), p2V[c])
        /\ offset'[c] = Push(Pop4(c, offset[c]), offsetData[c])
        /\ value'[c] = Push(Pop4(c, value[c]), srcV[c])
    BY DEF ReadEdge
  <2> QED
    BY <2>1, <2>2, <2>3, Pop4Type, NoneIsNone
<1>2. ASSUME NEW c \in Core
      PROVE  p4'[c] \in Option(Request) /\ nowLOffset'[c] \in 0 .. INFINITE_OFFSET
  <2>1. Send4(c) => offset[c] # <<>> /\ vId[c] # <<>>
    BY NoOffsetWithoutId DEF Send4, Ready4
  <2>2. p4'[c] \in Option(Request)
    BY <1>0, <2>1, RequestType DEF ReadEdge, Option
  <2> QED
    BY <1>0, <2>2, NextLOffsetType DEF ReadEdge
<1>3. ASSUME NEW c \in Core
      PROVE  ct4'[c] \in 0 .. WAIT_END_DELAY /\ p4End'[c] \in BOOLEAN
  <2>1. ct4[c] \in 0 .. WAIT_END_DELAY /\ Drained4(c) \in BOOLEAN
    BY <1>0 DEF TypeOK, Drained4
  <2> QED
    BY <2>1, CountFacts DEF ReadEdge
<1>4. /\ p4' = [c \in Core |-> p4'[c]] /\ nowLOffset' = [c \in Core |-> nowLOffset'[c]]
      /\ vId' = [c \in Core |-> vId'[c]] /\ offset' = [c \in Core |-> offset'[c]]
      /\ value' = [c \in Core |-> value'[c]] /\ ct4' = [c \in Core |-> ct4'[c]]
      /\ p4End' = [c \in Core |-> p4End'[c]]
  BY DEF ReadEdge
<1>5. p4Full' \in [Core -> BOOLEAN]
  BY DEF ReadEdge, Full
<1> QED
  BY <1>1, <1>2, <1>3, <1>4, <1>5

-----------------------------------------------------------------------------
(* Stage 5: the line that is requested, and who waits for it.              *)

LEMMA HeadRequest ==
  ASSUME TypeOK, NEW c \in Waiting
  PROVE  c \in Core /\ rqst[c] \in Seq(Request) /\ Head(rqst[c]) \in Request /\ rqst[c] # <<>>
<1>1. c \in Core /\ rqst[c] \in Seq(Request) /\ rqst[c] # <<>>
  BY DEF Waiting, TypeOK
<1> QED
  BY <1>1, PopFacts

LEMMA LowestFacts ==
  ASSUME TypeOK, Waiting # {}
  PROVE  /\ Lowest \in Nat /\ Served # {} /\ Served \subseteq Waiting
         /\ \A c \in Waiting : Lowest <= Head(rqst[c]).line
<1> DEFINE lines == {Head(rqst[c]).line : c \in Waiting}
<1>1. lines \subseteq Nat /\ lines # {}
  BY HeadRequest DEF Request
<1>2. PICK l \in lines : \A m \in lines : l <= m
  BY <1>1, LeastExists, Zenon
<1>3. Lowest \in lines /\ \A c \in Waiting : Lowest <= Head(rqst[c]).line
  BY <1>2 DEF Lowest
<1> QED
  BY <1>1, <1>3 DEF Served

(* A nonempty set of cores has a last one.                                 *)
LEMMA LastFacts ==
  ASSUME NEW S, S \subseteq Core, S # {}
  PROVE  LastOf(S) \in S /\ \A d \in S : d <= LastOf(S)
<1> DEFINE T == {CACHELINE_LEN - c : c \in S}
<1>1. T \subseteq Nat /\ T # {}
  <2>1. \A c \in S : CACHELINE_LEN - c \in Nat
    BY Positive DEF Core
  <2> QED
    BY <2>1
<1>2. PICK t \in T : \A u \in T : t <= u
  BY <1>1, LeastExists, Zenon
<1>3. PICK c \in S : t = CACHELINE_LEN - c
  BY <1>2
<1>4. \A d \in S : d <= c
  <2> SUFFICES ASSUME NEW d \in S PROVE d <= c
    OBVIOUS
  <2>1. CACHELINE_LEN - c <= CACHELINE_LEN - d
    BY <1>2, <1>3
  <2> QED
    BY <2>1, Positive
<1> QED
  BY <1>4 DEF LastOf

LEMMA UsersFacts ==
  ASSUME TypeOK, Waiting # {}, NEW i \in Core, Users(i) # {}
  PROVE  /\ LastOf(Users(i)) \in Served /\ LastOf(Users(i)) \in Waiting
         /\ i \in Head(rqst[LastOf(Users(i))]).mask
         /\ LaneJob(i) = [id |-> Head(rqst[LastOf(Users(i))]).id,
                          val |-> Head(rqst[LastOf(Users(i))]).val,
                          deg |-> Head(rqst[LastOf(Users(i))]).deg]
         /\ LaneJob(i) \in Job
<1>1. Users(i) \subseteq Core
  BY DEF Users, Served, Waiting
<1>2. LastOf(Users(i)) \in Users(i)
  BY <1>1, LastFacts
<1>3. LastOf(Users(i)) \in Served /\ LastOf(Users(i)) \in Waiting
      /\ i \in Head(rqst[LastOf(Users(i))]).mask
  BY <1>2 DEF Users, Served
<1>4. Head(rqst[LastOf(Users(i))]) \in Request
  BY <1>3, HeadRequest
<1>5. LaneJob(i) = [id |-> Head(rqst[LastOf(Users(i))]).id,
                   val |-> Head(rqst[LastOf(Users(i))]).val,
                   deg |-> Head(rqst[LastOf(Users(i))]).deg]
  BY DEF LaneJob
<1> QED
  BY <1>3, <1>4, <1>5 DEF Request, Job

LEMMA LaneJobType ==
  ASSUME TypeOK, Waiting # {}, NEW i \in Core
  PROVE  LaneJob(i) \in Job \union {Idle}
BY UsersFacts DEF LaneJob

LEMMA CombineType ==
  ASSUME TypeOK, CombineEdgeRqst
  PROVE  /\ rqst' \in [Core -> Seq(Request)] /\ p5Line' \in Option(Nat)
         /\ p5V' \in [Core -> Option(Job \union {Idle})] /\ ct5' \in 0 .. WAIT_END_DELAY
         /\ p5End' \in BOOLEAN /\ p5Full' \in [Core -> BOOLEAN]
<1>1. Send5 => Waiting # {}
  BY DEF Send5
<1>2. p5Line' \in Option(Nat) /\ p5V' \in [Core -> Option(Job \union {Idle})]
  BY <1>1, LowestFacts, LaneJobType DEF CombineEdgeRqst, Option
<1>3. ASSUME NEW c \in Core PROVE rqst'[c] \in Seq(Request)
  <2>1. rqst[c] \in Seq(Request) /\ p4[c] \in Option(Request)
    BY DEF TypeOK
  <2>2. (IF Popped5(c) THEN Tail(rqst[c]) ELSE rqst[c]) \in Seq(Request)
    BY <2>1, PopFacts DEF Popped5, Served, Waiting
  <2>3. Push(IF Popped5(c) THEN Tail(rqst[c]) ELSE rqst[c], p4[c]) \in Seq(Request)
    BY <2>1, <2>2, PushFacts, NoneIsNone
  <2> QED
    BY <2>3 DEF CombineEdgeRqst
<1>4. rqst' = [c \in Core |-> rqst'[c]]
  BY DEF CombineEdgeRqst
<1>5. ct5' \in 0 .. WAIT_END_DELAY /\ p5End' \in BOOLEAN
  <2>1. ct5 \in 0 .. WAIT_END_DELAY /\ Drained5 \in BOOLEAN
    BY DEF TypeOK, Drained5
  <2> QED
    BY <2>1, CountFacts DEF CombineEdgeRqst
<1>6. p5Full' \in [Core -> BOOLEAN]
  BY DEF CombineEdgeRqst, Full
<1> QED
  BY <1>2, <1>3, <1>4, <1>5, <1>6

LEMMA HbmInterfaceType ==
  ASSUME TypeOK, NEW accept \in BOOLEAN, NEW answer \in BOOLEAN, HbmInterface(accept, answer)
  PROVE  /\ q6' \in Seq(Nat) /\ memory' \in Seq(Nat) /\ edges' \in Option(Nat)
         /\ p6Full' \in BOOLEAN
<1>1. q6 \in Seq(Nat) /\ memory \in Seq(Nat) /\ p5Line \in Option(Nat)
  BY DEF TypeOK
<1>2. /\ (IF accept /\ q6 # <<>> THEN Tail(q6) ELSE q6) \in Seq(Nat)
      /\ (IF answer /\ memory # <<>> THEN Tail(memory) ELSE memory) \in Seq(Nat)
      /\ (IF accept /\ q6 # <<>> THEN <<Head(q6)>> ELSE <<>>) \in Seq(Nat)
      /\ (IF answer /\ memory # <<>> THEN Head(memory) ELSE None) \in Option(Nat)
  BY <1>1, PopFacts DEF Option
<1>3. Push(IF accept /\ q6 # <<>> THEN Tail(q6) ELSE q6, p5Line) \in Seq(Nat)
  BY <1>1, <1>2, PushFacts, NoneIsNone
<1>4. memory' \in Seq(Nat)
  BY <1>2, ConcatProperties DEF HbmInterface
<1> QED
  BY <1>2, <1>3, <1>4 DEF HbmInterface, Full

LEMMA ScheduleType ==
  ASSUME TypeOK, Schedule
  PROVE  /\ p7V' \in [Core -> Option(Update)] /\ q7' \in [Core -> Seq(Job \union {Idle})]
         /\ edge7' \in [Core -> Seq(Nat)] /\ ct7' \in [Core -> 0 .. WAIT_END_DELAY]
         /\ p7End' \in [Core -> BOOLEAN] /\ p7Full' \in BOOLEAN
<1>1. ASSUME NEW i \in Core
      PROVE  p7V'[i] \in Option(Update) /\ q7'[i] \in Seq(Job \union {Idle})
             /\ edge7'[i] \in Seq(Nat)
  <2>1. /\ q7[i] \in Seq(Job \union {Idle}) /\ edge7[i] \in Seq(Nat)
        /\ p5V[i] \in Option(Job \union {Idle}) /\ edges \in Option(Nat)
    BY DEF TypeOK
  <2>2. Joined(i) => q7[i] # <<>> /\ edge7[i] # <<>>
    BY DEF Joined
  <2>3. Joint(i) \in Option(Update)
    <3>1. Joined(i) => Head(q7[i]) \in Job \union {Idle} /\ Head(edge7[i]) \in Nat
      BY <2>1, <2>2, PopFacts
    <3> QED
      BY <3>1 DEF Joint, Option, Job, Update
  <2>4. (IF Joined(i) THEN Tail(q7[i]) ELSE q7[i]) \in Seq(Job \union {Idle})
    BY <2>1, <2>2, PopFacts
  <2>5. (IF TakesEdge(i) THEN Tail(edge7[i]) ELSE edge7[i]) \in Seq(Nat)
    BY <2>1, <2>2, PopFacts DEF TakesEdge
  <2>6. (IF edges = None THEN None ELSE edges * CACHELINE_LEN + i) \in Option(Nat)
    BY <2>1, Positive DEF Option
  <2>7. Push(IF Joined(i) THEN Tail(q7[i]) ELSE q7[i], p5V[i]) \in Seq(Job \union {Idle})
    BY <2>1, <2>4, PushFacts, NoneIsNone
  <2>8. Push(IF TakesEdge(i) THEN Tail(edge7[i]) ELSE edge7[i],
             IF edges = None THEN None ELSE edges * CACHELINE_LEN + i) \in Seq(Nat)
    BY <2>5, <2>6, PushFacts, NoneIsNone
  <2> QED
    BY <2>3, <2>7, <2>8 DEF Schedule
<1>2. ASSUME NEW i \in Core
      PROVE  ct7'[i] \in 0 .. WAIT_END_DELAY /\ p7End'[i] \in BOOLEAN
  <2>1. ct7[i] \in 0 .. WAIT_END_DELAY /\ Drained7(i) \in BOOLEAN
    BY DEF TypeOK, Drained7
  <2> QED
    BY <2>1, CountFacts DEF Schedule
<1>3. /\ p7V' = [i \in Core |-> p7V'[i]] /\ q7' = [i \in Core |-> q7'[i]]
      /\ edge7' = [i \in Core |-> edge7'[i]] /\ ct7' = [i \in Core |-> ct7'[i]]
      /\ p7End' = [i \in Core |-> p7End'[i]]
  BY DEF Schedule
<1>4. p7Full' \in BOOLEAN
  BY DEF Schedule
<1> QED
  BY <1>1, <1>2, <1>3, <1>4

(* Stage 1 sends the vertices in ascending order.                          *)
LEMMA LowestOfFacts ==
  ASSUME NEW S, S \subseteq Vertex, S # {}
  PROVE  LowestOf(S) \in S /\ \A w \in S : LowestOf(S) <= w
<1>1. S \subseteq Nat
  BY Positive
<1>2. PICK v \in S : \A w \in S : v <= w
  BY <1>1, LeastExists, Zenon
<1> QED
  BY <1>2 DEF LowestOf

LEMMA DeliveredType ==
  ASSUME delivered \in SUBSET Nat, p7V' \in [Core -> Option(Update)],
         delivered' = delivered \union {p7V'[i].edge : i \in {j \in Core : p7V'[j] # None}}
  PROVE  delivered' \in SUBSET Nat
<1>1. \A i \in Core : p7V'[i] # None => p7V'[i].edge \in Nat
  BY DEF Option, Update
<1> QED
  BY <1>1

LEMMA ReadActiveVertexType ==
  ASSUME TypeOK, NEW send \in SUBSET MaySend, ReadActiveVertex(send),
         p7V' \in [Core -> Option(Update)], p7End' \in [Core -> BOOLEAN]
  PROVE  /\ toSend' \in [Core -> SUBSET Vertex] /\ allSent' \in [Core -> BOOLEAN]
         /\ p1V' \in [Core -> Option(Vertex)] /\ p1End' \in [Core -> BOOLEAN]
         /\ iteration' \in 0 .. MAX_ITERATION /\ active' \in SUBSET Vertex
         /\ delivered' \in SUBSET Nat /\ stale' \in [Core -> BOOLEAN]
<1>1. \A c \in Core : toSend[c] \subseteq Vertex
  BY DEF TypeOK
<1>2. \A c \in send : LowestOf(toSend[c]) \in Vertex
  BY <1>1, LowestOfFacts DEF MaySend
<1>3. p1V' \in [Core -> Option(Vertex)]
  BY <1>2 DEF ReadActiveVertex, Option
<1>4. toSend' \in [Core -> SUBSET Vertex] /\ allSent' \in [Core -> BOOLEAN]
  BY <1>1 DEF ReadActiveVertex
<1>5. stale' \in [Core -> BOOLEAN]
  BY DEF ReadActiveVertex, TypeOK
<1>6. delivered' \in SUBSET Nat
  BY DeliveredType DEF ReadActiveVertex, TypeOK
<1> QED
  BY <1>3, <1>4, <1>5, <1>6 DEF ReadActiveVertex, TypeOK

LEMMA NextIterationType ==
  ASSUME TypeOK, NextIteration, p7End' \in [Core -> BOOLEAN]
  PROVE  /\ toSend' \in [Core -> SUBSET Vertex] /\ allSent' \in [Core -> BOOLEAN]
         /\ p1V' \in [Core -> Option(Vertex)] /\ p1End' \in [Core -> BOOLEAN]
         /\ iteration' \in 0 .. MAX_ITERATION /\ active' \in SUBSET Vertex
         /\ delivered' \in SUBSET Nat /\ stale' \in [Core -> BOOLEAN]
<1>1. active' \in SUBSET Vertex /\ \A c \in Core : active' \intersect VerticesOf(c) \subseteq Vertex
  BY DEF NextIteration
<1>2. iteration' \in 0 .. MAX_ITERATION
  BY Positive DEF NextIteration, TypeOK
<1>3. /\ toSend' \in [Core -> SUBSET Vertex] /\ allSent' \in [Core -> BOOLEAN]
      /\ p1V' \in [Core -> Option(Vertex)]
  BY <1>1 DEF NextIteration, All, Option
<1> QED
  BY <1>1, <1>2, <1>3 DEF NextIteration, TypeOK

LEMMA PipelineType ==
  ASSUME QueueInv, NEW full \in SUBSET Core, NEW accept \in BOOLEAN, NEW answer \in BOOLEAN,
         Pipeline(full, accept, answer),
         toSend' \in [Core -> SUBSET Vertex], allSent' \in [Core -> BOOLEAN],
         p1V' \in [Core -> Option(Vertex)], p1End' \in [Core -> BOOLEAN],
         iteration' \in 0 .. MAX_ITERATION, active' \in SUBSET Vertex,
         delivered' \in SUBSET Nat, stale' \in [Core -> BOOLEAN]
  PROVE  TypeOK'
<1>0. TypeOK
  BY DEF QueueInv
<1>1. /\ p2V' \in [Core -> Option(Vertex)] /\ q2' \in [Core -> Seq(Vertex)]
      /\ ct2' \in [Core -> 0 .. WAIT_END_DELAY]
      /\ p2End' \in [Core -> BOOLEAN] /\ p2Full' \in [Core -> BOOLEAN]
  BY <1>0, ReadOffsetType DEF Pipeline
<1>2. /\ offsetData' \in [Core -> Option(EdgeRange)]
      /\ deltaRd' \in [Core -> Option(Vertex)] /\ deltaData' \in [Core -> Option(Vertex)]
      /\ srcV' \in [Core -> Option(Vertex)]
  BY <1>0, ReadMemoriesType DEF Pipeline
<1>3. /\ p4' \in [Core -> Option(Request)] /\ nowLOffset' \in [Core -> 0 .. INFINITE_OFFSET]
      /\ vId' \in [Core -> Seq(Vertex)] /\ offset' \in [Core -> Seq(EdgeRange)]
      /\ value' \in [Core -> Seq(Vertex)] /\ ct4' \in [Core -> 0 .. WAIT_END_DELAY]
      /\ p4End' \in [Core -> BOOLEAN] /\ p4Full' \in [Core -> BOOLEAN]
  BY ReadEdgeType DEF Pipeline
<1>4. /\ rqst' \in [Core -> Seq(Request)] /\ p5Line' \in Option(Nat)
      /\ p5V' \in [Core -> Option(Job \union {Idle})] /\ ct5' \in 0 .. WAIT_END_DELAY
      /\ p5End' \in BOOLEAN /\ p5Full' \in [Core -> BOOLEAN]
  BY <1>0, CombineType DEF Pipeline
<1>5. /\ q6' \in Seq(Nat) /\ memory' \in Seq(Nat) /\ edges' \in Option(Nat)
      /\ p6Full' \in BOOLEAN
  BY <1>0, HbmInterfaceType DEF Pipeline
<1>6. /\ p7V' \in [Core -> Option(Update)] /\ q7' \in [Core -> Seq(Job \union {Idle})]
      /\ edge7' \in [Core -> Seq(Nat)] /\ ct7' \in [Core -> 0 .. WAIT_END_DELAY]
      /\ p7End' \in [Core -> BOOLEAN] /\ p7Full' \in BOOLEAN
  BY <1>0, ScheduleType DEF Pipeline
<1>7. networkFull' \in [Core -> BOOLEAN]
  BY DEF Pipeline
<1> QED
  BY <1>1, <1>2, <1>3, <1>4, <1>5, <1>6, <1>7 DEF TypeOK

-----------------------------------------------------------------------------
(***************************************************************************)
(* Lengths.                                                                *)
(***************************************************************************)

(* A register is filled only if the queue behind it was not full.          *)
LEMMA RoomFor ==
  ASSUME NEW S, None \notin S, NEW q \in Seq(S), NEW rest \in Seq(S), Len(rest) <= Len(q),
         NEW x \in Option(S), NEW y,
         Len(q) + Held(x) <= FIFO_SIZE + 1, y # None => ~Full(q)
  PROVE  Len(Push(rest, x)) + Held(y) <= FIFO_SIZE + 1
<1>1. Len(Push(rest, x)) = Len(rest) + Held(x)
  BY PushFacts
<1>2. Len(rest) \in Nat /\ Len(q) \in Nat /\ FIFO_SIZE \in Nat
  BY Positive, LenProperties
<1>3. Held(y) # 0 => Len(q) < FIFO_SIZE
  BY <1>2, HeldFacts DEF Full
<1> QED
  BY <1>1, <1>2, <1>3, HeldFacts

LEMMA Lengths2 ==
  ASSUME QueueInv, ReadOffset, NEW c \in Core, p1V'[c] # None => ~p2Full[c]
  PROVE  Len(q2'[c]) + Held(p1V'[c]) <= FIFO_SIZE + 1
<1>1. /\ q2[c] \in Seq(Vertex) /\ p1V[c] \in Option(Vertex) /\ p2Full[c] = Full(q2[c])
      /\ Len(q2[c]) + Held(p1V[c]) <= FIFO_SIZE + 1
  BY DEF QueueInv, TypeOK, FullFlags, Lengths
<1> DEFINE rest == IF p2V'[c] = None THEN q2[c] ELSE Tail(q2[c])
<1>2. q2'[c] = Push(rest, p1V[c]) /\ (p2V'[c] # None => q2[c] # <<>>)
  BY DEF ReadOffset
<1>3. rest \in Seq(Vertex) /\ Len(rest) <= Len(q2[c])
  BY <1>1, <1>2, PopFacts
<1> HIDE DEF rest
<1> QED
  BY <1>1, <1>2, <1>3, RoomFor, NoneIsNone

LEMMA Pop4Facts ==
  ASSUME NEW S, NEW c \in Core, NEW q \in Seq(S), Done4(c) => q # <<>>
  PROVE  /\ Pop4(c, q) \in Seq(S) /\ Len(Pop4(c, q)) <= Len(q)
         /\ Len(Pop4(c, q)) = Len(q) - (IF Done4(c) THEN 1 ELSE 0)
<1>1. Len(q) \in Nat
  BY LenProperties
<1> QED
  BY <1>1, PopFacts DEF Pop4

LEMMA Lengths4 ==
  ASSUME QueueInv, ReadOffset, ReadMemories, ReadEdge, NEW c \in Core
  PROVE  /\ Len(vId'[c]) + Held(p2V'[c]) <= FIFO_SIZE + 1
         /\ Len(offset'[c]) + Held(offsetData'[c]) = Len(vId'[c])
         /\ Len(value'[c]) + Held(srcV'[c]) + Held(deltaData'[c]) + Held(deltaRd'[c])
               = Len(vId'[c])
         /\ Held(deltaRd'[c]) = Held(offsetData'[c])
<1>1. /\ vId[c] \in Seq(Vertex) /\ offset[c] \in Seq(EdgeRange) /\ value[c] \in Seq(Vertex)
      /\ p2V[c] \in Option(Vertex) /\ offsetData[c] \in Option(EdgeRange)
      /\ srcV[c] \in Option(Vertex)
      /\ p4Full[c] = Full(vId[c])
  BY DEF QueueInv, TypeOK, FullFlags
<1>2. /\ Len(vId[c]) + Held(p2V[c]) <= FIFO_SIZE + 1
      /\ Len(offset[c]) + Held(offsetData[c]) = Len(vId[c])
      /\ Len(value[c]) + Held(srcV[c]) + Held(deltaData[c]) + Held(deltaRd[c]) = Len(vId[c])
  BY DEF QueueInv, Lengths
<1>3. Done4(c) => vId[c] # <<>> /\ offset[c] # <<>> /\ value[c] # <<>>
  BY NoOffsetWithoutId DEF Done4, Ready4
<1>4. /\ vId'[c] = Push(Pop4(c, vId[c]), p2V[c])
      /\ offset'[c] = Push(Pop4(c, offset[c]), offsetData[c])
      /\ value'[c] = Push(Pop4(c, value[c]), srcV[c])
  BY DEF ReadEdge
<1>5. /\ Held(deltaRd'[c]) = Held(p2V[c]) /\ Held(offsetData'[c]) = Held(p2V[c])
      /\ Held(deltaData'[c]) = Held(deltaRd[c]) /\ Held(srcV'[c]) = Held(deltaData[c])
  <2>1. offsetData'[c] = IF p2V[c] = None THEN None ELSE OffsetOf(p2V[c])
    BY DEF ReadMemories
  <2>2. p2V[c] # None => OffsetOf(p2V[c]) # None
    BY <1>1, NoneIsNone DEF Option, EdgeRange
  <2> QED
    BY <2>1, <2>2 DEF ReadMemories, Held
<1>6. p2V'[c] # None => ~Full(vId[c])
  BY <1>1 DEF ReadOffset
<1>7. /\ Pop4(c, vId[c]) \in Seq(Vertex) /\ Len(Pop4(c, vId[c])) <= Len(vId[c])
      /\ Len(Pop4(c, vId[c])) = Len(vId[c]) - (IF Done4(c) THEN 1 ELSE 0)
      /\ Pop4(c, offset[c]) \in Seq(EdgeRange)
      /\ Len(Pop4(c, offset[c])) = Len(offset[c]) - (IF Done4(c) THEN 1 ELSE 0)
      /\ Pop4(c, value[c]) \in Seq(Vertex)
      /\ Len(Pop4(c, value[c])) = Len(value[c]) - (IF Done4(c) THEN 1 ELSE 0)
  BY <1>1, <1>3, Pop4Facts
<1>8. Len(vId'[c]) + Held(p2V'[c]) <= FIFO_SIZE + 1
  BY <1>1, <1>2, <1>4, <1>6, <1>7, RoomFor, NoneIsNone
<1>9. /\ Len(vId'[c]) = Len(Pop4(c, vId[c])) + Held(p2V[c])
      /\ Len(offset'[c]) = Len(Pop4(c, offset[c])) + Held(offsetData[c])
      /\ Len(value'[c]) = Len(Pop4(c, value[c])) + Held(srcV[c])
  <2>1. Len(Push(Pop4(c, vId[c]), p2V[c])) = Len(Pop4(c, vId[c])) + Held(p2V[c])
    BY <1>1, <1>7, PushFacts, NoneIsNone
  <2>2. Len(Push(Pop4(c, offset[c]), offsetData[c]))
          = Len(Pop4(c, offset[c])) + Held(offsetData[c])
    BY <1>1, <1>7, PushFacts, NoneIsNone
  <2>3. Len(Push(Pop4(c, value[c]), srcV[c])) = Len(Pop4(c, value[c])) + Held(srcV[c])
    BY <1>1, <1>7, PushFacts, NoneIsNone
  <2> QED
    BY <1>4, <2>1, <2>2, <2>3
<1>10. Len(vId[c]) \in Nat /\ Len(offset[c]) \in Nat /\ Len(value[c]) \in Nat
  BY <1>1, LenProperties
<1> DEFINE done == IF Done4(c) THEN 1 ELSE 0
<1>11. /\ Len(Pop4(c, vId[c])) = Len(vId[c]) - done /\ done \in 0 .. 1
       /\ Len(Pop4(c, offset[c])) = Len(offset[c]) - done
       /\ Len(Pop4(c, value[c])) = Len(value[c]) - done
  BY <1>7
<1> HIDE DEF done
<1>12. Len(offset'[c]) + Held(offsetData'[c]) = Len(vId'[c])
  BY <1>2, <1>5, <1>9, <1>10, <1>11, HeldFacts
<1>13. Len(value'[c]) + Held(srcV'[c]) + Held(deltaData'[c]) + Held(deltaRd'[c]) = Len(vId'[c])
  <2>1. /\ Held(srcV[c]) \in Int /\ Held(deltaData[c]) \in Int /\ Held(deltaRd[c]) \in Int
        /\ Held(p2V[c]) \in Int
    BY HeldFacts
  <2>2. Len(value'[c]) + Held(srcV'[c]) + Held(deltaData'[c]) + Held(deltaRd'[c])
          = ((Len(value[c]) - done) + Held(srcV[c])) + Held(deltaData[c]) + Held(deltaRd[c])
              + Held(p2V[c])
    BY <1>5, <1>9, <1>11
  <2>3. Len(vId'[c]) = (Len(vId[c]) - done) + Held(p2V[c])
    BY <1>9, <1>11
  <2>4. ((Len(value[c]) - done) + Held(srcV[c])) + Held(deltaData[c]) + Held(deltaRd[c])
              + Held(p2V[c]) = (Len(vId[c]) - done) + Held(p2V[c])
    <3>1. Len(value[c]) + Held(srcV[c]) + Held(deltaData[c]) + Held(deltaRd[c]) = Len(vId[c])
      BY <1>2
    <3>2. Len(value[c]) \in Int /\ Len(vId[c]) \in Int /\ done \in Int
      BY <1>10, <1>11
    <3> DEFINE n == Len(vId[c])
               v == Len(value[c])
               a == Held(srcV[c])
               b == Held(deltaData[c])
               d == Held(deltaRd[c])
               p == Held(p2V[c])
    <3>3. /\ n \in Int /\ v \in Int /\ a \in Int /\ b \in Int /\ d \in Int /\ p \in Int
          /\ done \in Int /\ v + a + b + d = n
      BY <2>1, <3>1, <3>2
    <3> HIDE DEF n, v, a, b, d, p
    <3>4. ((v - done) + a) + b + d + p = (n - done) + p
      BY <3>3
    <3> QED
      BY <3>4 DEF n, v, a, b, d, p
  <2> QED
    BY <2>2, <2>3, <2>4
<1> QED
  BY <1>5, <1>8, <1>12, <1>13

LEMMA Lengths5 ==
  ASSUME QueueInv, ReadEdge, CombineEdgeRqst, NEW c \in Core
  PROVE  Len(rqst'[c]) + Held(p4'[c]) <= FIFO_SIZE + 1
<1>1. /\ rqst[c] \in Seq(Request) /\ p4[c] \in Option(Request) /\ p5Full[c] = Full(rqst[c])
      /\ Len(rqst[c]) + Held(p4[c]) <= FIFO_SIZE + 1
  BY DEF QueueInv, TypeOK, FullFlags, Lengths
<1> DEFINE rest == IF Popped5(c) THEN Tail(rqst[c]) ELSE rqst[c]
<1>2. rqst'[c] = Push(rest, p4[c]) /\ (p4'[c] # None => ~Full(rqst[c]))
  BY <1>1 DEF CombineEdgeRqst, ReadEdge, Send4
<1>3. rest \in Seq(Request) /\ Len(rest) <= Len(rqst[c])
  <2>1. Popped5(c) => rqst[c] # <<>>
    BY DEF Popped5, Served, Waiting
  <2> QED
    BY <1>1, <2>1, PopFacts, LenProperties
<1> HIDE DEF rest
<1> QED
  BY <1>1, <1>2, <1>3, RoomFor, NoneIsNone

LEMMA Lengths6 ==
  ASSUME QueueInv, CombineEdgeRqst, NEW accept \in BOOLEAN, NEW answer \in BOOLEAN,
         HbmInterface(accept, answer)
  PROVE  Len(q6') + Held(p5Line') <= FIFO_SIZE + 1
<1>1. /\ q6 \in Seq(Nat) /\ p5Line \in Option(Nat) /\ p6Full = Full(q6)
      /\ Len(q6) + Held(p5Line) <= FIFO_SIZE + 1
  BY DEF QueueInv, TypeOK, FullFlags, Lengths
<1> DEFINE rest == IF accept /\ q6 # <<>> THEN Tail(q6) ELSE q6
<1>2. q6' = Push(rest, p5Line) /\ (p5Line' # None => ~Full(q6))
  BY <1>1 DEF HbmInterface, CombineEdgeRqst, Send5
<1>3. rest \in Seq(Nat) /\ Len(rest) <= Len(q6)
  BY <1>1, PopFacts, LenProperties
<1> HIDE DEF rest
<1> QED
  BY <1>1, <1>2, <1>3, RoomFor, NoneIsNone

LEMMA Lengths7 ==
  ASSUME QueueInv, CombineEdgeRqst, Schedule, NEW i \in Core
  PROVE  Len(q7'[i]) + Held(p5V'[i]) <= FIFO_SIZE + 1
<1>1. /\ q7[i] \in Seq(Job \union {Idle}) /\ p5V[i] \in Option(Job \union {Idle})
      /\ p7Full = (\E j \in Core : Full(q7[j]))
      /\ Len(q7[i]) + Held(p5V[i]) <= FIFO_SIZE + 1
  BY DEF QueueInv, TypeOK, FullFlags, Lengths
<1> DEFINE rest == IF Joined(i) THEN Tail(q7[i]) ELSE q7[i]
<1>2. q7'[i] = Push(rest, p5V[i]) /\ (p5V'[i] # None => ~Full(q7[i]))
  BY <1>1 DEF Schedule, CombineEdgeRqst, Send5
<1>3. rest \in Seq(Job \union {Idle}) /\ Len(rest) <= Len(q7[i])
  BY <1>1, PopFacts, LenProperties DEF Joined
<1> HIDE DEF rest
<1> QED
  BY <1>1, <1>2, <1>3, RoomFor, NoneIsNone

(* A lane gets a job for every line that is requested and gives up both    *)
(* together.                                                               *)
LEMMA LineStep ==
  ASSUME QueueInv, NEW accept \in BOOLEAN, NEW answer \in BOOLEAN,
         CombineEdgeRqst, HbmInterface(accept, answer), Schedule
  PROVE  OneLinePerJob'
<1>1. /\ q6 \in Seq(Nat) /\ memory \in Seq(Nat) /\ p5Line \in Option(Nat) /\ edges \in Option(Nat)
      /\ TypeOK
  BY DEF QueueInv, TypeOK
<1> DEFINE taken == IF accept /\ q6 # <<>> THEN 1 ELSE 0
           given == IF answer /\ memory # <<>> THEN 1 ELSE 0
<1>2. Len(q6') = Len(q6) - taken + Held(p5Line)
  <2>1. (IF accept /\ q6 # <<>> THEN Tail(q6) ELSE q6) \in Seq(Nat)
        /\ Len(IF accept /\ q6 # <<>> THEN Tail(q6) ELSE q6) = Len(q6) - taken
    BY <1>1, PopFacts, LenProperties
  <2> QED
    BY <1>1, <2>1, PushFacts, NoneIsNone DEF HbmInterface
<1>3. Len(memory') = Len(memory) - given + taken
  <2>1. /\ (IF answer /\ memory # <<>> THEN Tail(memory) ELSE memory) \in Seq(Nat)
        /\ Len(IF answer /\ memory # <<>> THEN Tail(memory) ELSE memory) = Len(memory) - given
    BY <1>1, PopFacts, LenProperties
  <2>2. /\ (IF accept /\ q6 # <<>> THEN <<Head(q6)>> ELSE <<>>) \in Seq(Nat)
        /\ Len(IF accept /\ q6 # <<>> THEN <<Head(q6)>> ELSE <<>>) = taken
    BY <1>1, PopFacts
  <2> DEFINE left == IF answer /\ memory # <<>> THEN Tail(memory) ELSE memory
             sent == IF accept /\ q6 # <<>> THEN <<Head(q6)>> ELSE <<>>
  <2>3. memory' = left \o sent
    BY DEF HbmInterface
  <2>4. left \in Seq(Nat) /\ sent \in Seq(Nat)
        /\ Len(left) = Len(memory) - given /\ Len(sent) = taken
    BY <2>1, <2>2
  <2> HIDE DEF left, sent, given, taken
  <2> QED
    BY <2>3, <2>4, ConcatProperties
<1>4. Held(edges') = given
  <2>1. memory # <<>> => Head(memory) # None
    BY <1>1, PopFacts, NoneIsNone
  <2> QED
    BY <2>1 DEF HbmInterface, Held
<1>5. ASSUME NEW i \in Core
      PROVE  Len(q7'[i]) + Held(p5V'[i]) =
               Len(edge7'[i]) + Held(edges') + Len(memory') + Len(q6') + Held(p5Line')
  <2> DEFINE joined == IF Joined(i) THEN 1 ELSE 0
  <2>1. /\ q7[i] \in Seq(Job \union {Idle}) /\ p5V[i] \in Option(Job \union {Idle})
        /\ edge7[i] \in Seq(Nat)
    BY <1>1 DEF TypeOK
  <2>2. Len(q7'[i]) = Len(q7[i]) - joined + Held(p5V[i])
    <3>1. /\ (IF Joined(i) THEN Tail(q7[i]) ELSE q7[i]) \in Seq(Job \union {Idle})
          /\ Len(IF Joined(i) THEN Tail(q7[i]) ELSE q7[i]) = Len(q7[i]) - joined
      BY <2>1, PopFacts, LenProperties DEF Joined
    <3> QED
      BY <2>1, <3>1, PushFacts, NoneIsNone DEF Schedule
  <2>3. Len(edge7'[i]) = Len(edge7[i]) - joined + Held(edges)
    <3>1. /\ (IF Joined(i) THEN Tail(edge7[i]) ELSE edge7[i]) \in Seq(Nat)
          /\ Len(IF Joined(i) THEN Tail(edge7[i]) ELSE edge7[i]) = Len(edge7[i]) - joined
      BY <2>1, PopFacts, LenProperties DEF Joined
    <3> DEFINE e == IF edges = None THEN None ELSE edges * CACHELINE_LEN + i
    <3>2. e \in Option(Nat) /\ Held(e) = Held(edges)
      BY <1>1, Positive, NoneIsNone DEF Option, Held
    <3>3. edge7'[i] = Push(IF Joined(i) THEN Tail(edge7[i]) ELSE edge7[i], e)
      BY DEF Schedule, TakesEdge
    <3> HIDE DEF e
    <3> QED
      BY <3>1, <3>2, <3>3, PushFacts, NoneIsNone
  <2>4. Held(p5V'[i]) = Held(p5Line')
    <3>1. Send5 => Lowest # None /\ LaneJob(i) # None
      BY <1>1, LowestFacts, LaneJobType, NoneIsNone DEF Send5
    <3> QED
      BY <3>1 DEF CombineEdgeRqst, Held
  <2>5. Len(q7[i]) + Held(p5V[i]) =
          Len(edge7[i]) + Held(edges) + Len(memory) + Len(q6) + Held(p5Line)
    BY DEF QueueInv, Lengths, OneLinePerJob
  <2>6. /\ Len(q7[i]) \in Nat /\ Len(edge7[i]) \in Nat /\ Len(memory) \in Nat /\ Len(q6) \in Nat
    BY <1>1, <2>1, LenProperties
  <2>7. joined \in 0 .. 1 /\ taken \in 0 .. 1 /\ given \in 0 .. 1
    OBVIOUS
  <2>8. /\ Held(p5V[i]) \in Int /\ Held(edges) \in Int /\ Held(p5Line) \in Int
        /\ Held(p5Line') \in Int
    BY HeldFacts
  <2> HIDE DEF joined, taken, given
  <2>9. Len(q7'[i]) + Held(p5V'[i])
          = (Len(q7[i]) - joined + Held(p5V[i])) + Held(p5Line')
    BY <2>2, <2>4
  <2>10. Len(edge7'[i]) + Held(edges') + Len(memory') + Len(q6') + Held(p5Line')
           = (Len(edge7[i]) - joined + Held(edges)) + given + (Len(memory) - given + taken)
               + (Len(q6) - taken + Held(p5Line)) + Held(p5Line')
    BY <1>2, <1>3, <1>4, <2>3
  <2> QED
    <3>1. /\ Len(q7[i]) \in Int /\ Len(edge7[i]) \in Int /\ Len(memory) \in Int /\ Len(q6) \in Int
          /\ joined \in Int /\ taken \in Int /\ given \in Int
      BY <2>6, <2>7
    <3> DEFINE q == Len(q7[i])
               w == Held(p5V[i])
               e == Len(edge7[i])
               a == Held(edges)
               m == Len(memory)
               h == Len(q6)
               l == Held(p5Line)
               b == Held(p5Line')
    <3>2. /\ q \in Int /\ w \in Int /\ e \in Int /\ a \in Int /\ m \in Int /\ h \in Int
          /\ l \in Int /\ b \in Int /\ q + w = e + a + m + h + l
      BY <2>5, <2>8, <3>1
    <3> HIDE DEF q, w, e, a, m, h, l, b
    <3>3. (q - joined + w) + b
            = (e - joined + a) + given + (m - given + taken) + (h - taken + l) + b
      BY <3>1, <3>2
    <3> QED
      BY <2>9, <2>10, <3>3 DEF q, w, e, a, m, h, l, b
<1> QED
  BY <1>5 DEF OneLinePerJob

LEMMA FlagsStep ==
  ASSUME NEW full, NEW accept, NEW answer, Pipeline(full, accept, answer)
  PROVE  FullFlags'
BY DEF Pipeline, ReadOffset, ReadEdge, CombineEdgeRqst, HbmInterface, Schedule, FullFlags, Full

LEMMA LengthsStep ==
  ASSUME QueueInv, NEW full \in SUBSET Core, NEW accept \in BOOLEAN, NEW answer \in BOOLEAN,
         Pipeline(full, accept, answer), \A c \in Core : p1V'[c] # None => ~p2Full[c]
  PROVE  Lengths'
<1>1. /\ ReadOffset /\ ReadMemories /\ ReadEdge /\ CombineEdgeRqst
      /\ HbmInterface(accept, answer) /\ Schedule
  BY DEF Pipeline
<1>2. OneLinePerJob' /\ Len(q6') + Held(p5Line') <= FIFO_SIZE + 1
  BY <1>1, LineStep, Lengths6
<1>3. ASSUME NEW c \in Core
      PROVE  /\ Len(q2'[c]) + Held(p1V'[c]) <= FIFO_SIZE + 1
             /\ Len(vId'[c]) + Held(p2V'[c]) <= FIFO_SIZE + 1
             /\ Len(offset'[c]) + Held(offsetData'[c]) = Len(vId'[c])
             /\ Len(value'[c]) + Held(srcV'[c]) + Held(deltaData'[c]) + Held(deltaRd'[c])
                   = Len(vId'[c])
             /\ Held(deltaRd'[c]) = Held(offsetData'[c])
             /\ Len(rqst'[c]) + Held(p4'[c]) <= FIFO_SIZE + 1
             /\ Len(q7'[c]) + Held(p5V'[c]) <= FIFO_SIZE + 1
  BY <1>1, Lengths2, Lengths4, Lengths5, Lengths7
<1> QED
  BY <1>2, <1>3 DEF Lengths, Held

(* What a step is: the pipeline moves, and stage 1 sends or restarts.      *)
LEMMA StepCases ==
  ASSUME Next
  PROVE  \E full \in SUBSET Core, accept \in BOOLEAN, answer \in BOOLEAN :
           /\ Pipeline(full, accept, answer)
           /\ (\E send \in SUBSET MaySend : ReadActiveVertex(send)) \/ NextIteration
<1>1. PICK full \in SUBSET MayBlock, accept \in Choice(q6), answer \in Choice(memory) :
        Step(full, accept, answer)
  BY DEF Next
<1>2. full \in SUBSET Core /\ accept \in BOOLEAN /\ answer \in BOOLEAN
  BY DEF MayBlock, Choice
<1> QED
  BY <1>1, <1>2 DEF Step, Tick, Restart

LEMMA QueueInit == Init => QueueInv
<1> SUFFICES ASSUME Init PROVE QueueInv
  OBVIOUS
<1>1. Held(None) = 0 /\ Len(<<>>) = 0 /\ FIFO_SIZE \in Nat \ {0}
  BY Positive DEF Held
<1>2. Lengths
  BY <1>1 DEF Init, All, Lengths, OneLinePerJob
<1>3. FullFlags
  <2>1. Full(<<>>) = FALSE
    BY <1>1 DEF Full
  <2> QED
    BY <2>1 DEF Init, All, FullFlags
<1> QED
  BY <1>2, <1>3, InitType DEF QueueInv

LEMMA QueueStep == QueueInv /\ [Next]_vars => QueueInv'
<1> SUFFICES ASSUME QueueInv, [Next]_vars PROVE QueueInv'
  OBVIOUS
<1>0. TypeOK
  BY DEF QueueInv
<1>1. CASE Next
  <2>1. PICK full \in SUBSET Core, accept \in BOOLEAN, answer \in BOOLEAN :
          /\ Pipeline(full, accept, answer)
          /\ (\E send \in SUBSET MaySend : ReadActiveVertex(send)) \/ NextIteration
    BY <1>1, StepCases
  <2>2. p7V' \in [Core -> Option(Update)] /\ p7End' \in [Core -> BOOLEAN]
    BY <1>0, <2>1, ScheduleType DEF Pipeline
  <2>3. CASE \E send \in SUBSET MaySend : ReadActiveVertex(send)
    <3>1. PICK send \in SUBSET MaySend : ReadActiveVertex(send)
      BY <2>3
    <3>2. TypeOK'
      BY <1>0, <2>1, <2>2, <3>1, ReadActiveVertexType, PipelineType
    <3>3. \A c \in Core : p1V'[c] # None => ~p2Full[c]
      BY <3>1 DEF ReadActiveVertex, MaySend
    <3> QED
      BY <2>1, <3>2, <3>3, LengthsStep, FlagsStep DEF QueueInv
  <2>4. CASE NextIteration
    <3>1. TypeOK'
      BY <1>0, <2>1, <2>2, <2>4, NextIterationType, PipelineType
    <3>2. \A c \in Core : p1V'[c] # None => ~p2Full[c]
      BY <2>4 DEF NextIteration, All
    <3> QED
      BY <2>1, <3>1, <3>2, LengthsStep, FlagsStep DEF QueueInv
  <2> QED
    BY <2>1, <2>3, <2>4
<1>2. CASE UNCHANGED vars
  BY <1>2 DEF QueueInv, TypeOK, Lengths, OneLinePerJob, Held, FullFlags, Full, vars,
       stage2, source, stage4, stage5, stage7, history
<1> QED
  BY <1>1, <1>2

-----------------------------------------------------------------------------
LEMMA TailConcat ==
  ASSUME NEW S, NEW q \in Seq(S), NEW r \in Seq(S), q # <<>>
  PROVE  /\ Tail(q \o r) = Tail(q) \o r /\ Head(q \o r) = Head(q) /\ q \o r # <<>>
<1>1. /\ q \o r \in Seq(S) /\ Len(q \o r) = Len(q) + Len(r) /\ Len(q) \in Nat \ {0}
      /\ Len(r) \in Nat
      /\ \A i \in 1 .. Len(q) + Len(r) :
           (q \o r)[i] = IF i <= Len(q) THEN q[i] ELSE r[i - Len(q)]
  BY ConcatProperties, PopFacts, LenProperties
<1>2. q \o r # <<>>
  BY <1>1, EmptySeq
<1>3. /\ Tail(q) \in Seq(S) /\ Len(Tail(q)) = Len(q) - 1
      /\ \A i \in 1 .. Len(Tail(q)) : Tail(q)[i] = q[i + 1]
  BY HeadTailProperties
<1>4. /\ Tail(q \o r) \in Seq(S) /\ Len(Tail(q \o r)) = Len(q) + Len(r) - 1
      /\ \A i \in 1 .. Len(Tail(q \o r)) : Tail(q \o r)[i] = (q \o r)[i + 1]
  BY <1>1, <1>2, HeadTailProperties
<1>5. /\ Tail(q) \o r \in Seq(S) /\ Len(Tail(q) \o r) = Len(q) - 1 + Len(r)
      /\ \A i \in 1 .. Len(Tail(q)) + Len(r) :
           (Tail(q) \o r)[i] = IF i <= Len(Tail(q)) THEN Tail(q)[i] ELSE r[i - Len(Tail(q))]
  BY <1>3, ConcatProperties
<1>6. ASSUME NEW i \in 1 .. Len(Tail(q \o r))
      PROVE  Tail(q \o r)[i] = (Tail(q) \o r)[i]
  <2>1. i \in 1 .. Len(q) + Len(r) - 1 /\ i + 1 \in 1 .. Len(q) + Len(r)
    BY <1>1, <1>4
  <2>2. CASE i <= Len(q) - 1
    BY <1>1, <1>3, <1>4, <1>5, <2>1, <2>2
  <2>3. CASE i > Len(q) - 1
    <3>1. Tail(q \o r)[i] = r[(i + 1) - Len(q)]
      BY <1>1, <1>4, <2>1, <2>3
    <3>2. (Tail(q) \o r)[i] = r[i - (Len(q) - 1)]
      BY <1>1, <1>3, <1>5, <2>1, <2>3
    <3>3. (i + 1) - Len(q) = i - (Len(q) - 1)
      BY <1>1, <2>1
    <3> QED
      BY <3>1, <3>2, <3>3
  <2> QED
    BY <1>1, <2>1, <2>2, <2>3
<1>7. Tail(q \o r) = Tail(q) \o r
  <2>1. Len(Tail(q \o r)) = Len(Tail(q) \o r)
    BY <1>1, <1>4, <1>5
  <2> QED
    BY <1>4, <1>5, <1>6, <2>1, SeqEqual
<1>8. Head(q \o r) = Head(q)
  BY <1>1, <1>2, PopFacts
<1> QED
  BY <1>2, <1>7, <1>8

(***************************************************************************)
(* Streams.  A queue and the register in front of it are one sequence; a   *)
(* tick takes the first element from it, or none, and appends what enters  *)
(* the register.                                                           *)
(***************************************************************************)
Join(s, t)      == s \o t
Behind(q, x)    == Join(q, Opt(x))
Pushed(q, n, x) == Push(IF n = 1 THEN Tail(q) ELSE q, x)
Moved(s, n, x)  == Behind(IF n = 1 THEN Tail(s) ELSE s, x)
Taken(cond) == IF cond THEN 1 ELSE 0
Front(s, n) == IF n = 1 THEN Head(s) ELSE None

CanMove(S, s, n, x) ==
  /\ None \notin S /\ s \in Seq(S) /\ x \in Option(S)
  /\ n \in 0 .. 1 /\ (n = 1 => s # <<>>)

LEMMA OptType ==
  ASSUME NEW S, NEW x \in Option(S)
  PROVE  Opt(x) \in Seq(S)
BY DEF Opt, Option

LEMMA QueueMoves ==
  ASSUME NEW S, NEW q, NEW x, NEW n, CanMove(S, q, n, x), NEW y, y \in Option(S)
  PROVE  /\ Behind(Pushed(q, n, x), y) = Moved(Behind(q, x), n, y)
         /\ CanMove(S, Behind(q, x), n, y) /\ Front(Behind(q, x), n) = Front(q, n)
<1>0. None \notin S /\ q \in Seq(S) /\ x \in Option(S) /\ n \in 0 .. 1 /\ (n = 1 => q # <<>>)
  BY DEF CanMove
<1>1. Opt(x) \in Seq(S) /\ Opt(y) \in Seq(S) /\ q \o Opt(x) \in Seq(S)
      /\ Len(q \o Opt(x)) = Len(q) + Len(Opt(x))
  BY <1>0, OptType, ConcatProperties
<1>2. ASSUME n = 1
      PROVE  /\ Tail(q \o Opt(x)) = Tail(q) \o Opt(x) /\ q \o Opt(x) # <<>>
             /\ Head(q \o Opt(x)) = Head(q)
  BY <1>0, <1>1, <1>2, TailConcat
<1>3. Pushed(q, n, x) = (IF n = 1 THEN Tail(q) ELSE q) \o Opt(x)
  <2>1. (IF n = 1 THEN Tail(q) ELSE q) \in Seq(S)
    BY <1>0, PopFacts
  <2> QED
    BY <1>0, <2>1, PushFacts DEF Pushed
<1>4. Pushed(q, n, x) = IF n = 1 THEN Tail(q \o Opt(x)) ELSE q \o Opt(x)
  BY <1>2, <1>3
<1> QED
  BY <1>0, <1>1, <1>2, <1>4 DEF Moved, CanMove, Behind, Join, Front

(* Element by element: what was there has moved up by one place or none.   *)
LEMMA MovedElements ==
  ASSUME NEW S, NEW s, NEW n, NEW x, CanMove(S, s, n, x)
  PROVE  /\ Moved(s, n, x) \in Seq(S) /\ Len(Moved(s, n, x)) = Len(s) - n + Held(x)
         /\ Len(s) \in Nat
         /\ \A k \in 1 .. Len(Moved(s, n, x)) :
              IF k <= Len(s) - n
                THEN k + n \in 1 .. Len(s) /\ Moved(s, n, x)[k] = s[k + n]
                ELSE x # None /\ Moved(s, n, x)[k] = x /\ k = Len(Moved(s, n, x))
<1> DEFINE t == IF n = 1 THEN Tail(s) ELSE s
<1>0. None \notin S /\ s \in Seq(S) /\ x \in Option(S) /\ n \in 0 .. 1 /\ (n = 1 => s # <<>>)
  BY DEF CanMove
<1>1. /\ t \in Seq(S) /\ Len(t) = Len(s) - n
      /\ \A k \in 1 .. Len(t) : t[k] = s[k + n]
  BY <1>0, HeadTailProperties, LenProperties
<1>2. Opt(x) \in Seq(S) /\ Len(Opt(x)) = Held(x) /\ Held(x) \in 0 .. 1
      /\ (Held(x) = 1 => x # None /\ Opt(x)[1] = x)
  BY <1>0 DEF Opt, Held, Option
<1>3. /\ t \o Opt(x) \in Seq(S) /\ Len(t \o Opt(x)) = Len(t) + Len(Opt(x))
      /\ \A k \in 1 .. Len(t) + Len(Opt(x)) :
           (t \o Opt(x))[k] = IF k <= Len(t) THEN t[k] ELSE Opt(x)[k - Len(t)]
  <2> HIDE DEF t
  <2> QED
    BY <1>1, <1>2, ConcatProperties
<1>4. Moved(s, n, x) = t \o Opt(x)
  BY DEF Moved, Behind, Join
<1>5. Len(s) \in Nat /\ Len(t) \in Nat
  BY <1>0, <1>1, LenProperties
<1> HIDE DEF t
<1>6. ASSUME NEW k \in 1 .. Len(t) + Len(Opt(x))
      PROVE  IF k <= Len(s) - n
               THEN k + n \in 1 .. Len(s) /\ (t \o Opt(x))[k] = s[k + n]
               ELSE x # None /\ (t \o Opt(x))[k] = x /\ k = Len(t) + Len(Opt(x))
  BY <1>0, <1>1, <1>2, <1>3, <1>5
<1> QED
  BY <1>1, <1>2, <1>3, <1>4, <1>5, <1>6

LEMMA HeadAndTail ==
  ASSUME NEW S, NEW q \in Seq(S), q # <<>>
  PROVE  <<Head(q)>> \o Tail(q) = q
<1>1. /\ Head(q) \in S /\ Tail(q) \in Seq(S) /\ Len(Tail(q)) = Len(q) - 1 /\ Head(q) = q[1]
      /\ Len(q) \in Nat \ {0} /\ \A i \in 1 .. Len(Tail(q)) : Tail(q)[i] = q[i + 1]
  BY PopFacts, HeadTailProperties
<1>2. /\ <<Head(q)>> \in Seq(S) /\ Len(<<Head(q)>>) = 1 /\ <<Head(q)>>[1] = Head(q)
  BY <1>1
<1>3. /\ <<Head(q)>> \o Tail(q) \in Seq(S) /\ Len(<<Head(q)>> \o Tail(q)) = 1 + Len(Tail(q))
      /\ \A i \in 1 .. 1 + Len(Tail(q)) :
           (<<Head(q)>> \o Tail(q))[i] = IF i <= 1 THEN <<Head(q)>>[i] ELSE Tail(q)[i - 1]
  BY <1>1, <1>2, ConcatProperties
<1>4. ASSUME NEW i \in 1 .. Len(q) PROVE (<<Head(q)>> \o Tail(q))[i] = q[i]
  <2>1. CASE i = 1
    BY <1>1, <1>2, <1>3, <2>1
  <2>2. CASE i > 1
    <3>1. (<<Head(q)>> \o Tail(q))[i] = Tail(q)[i - 1]
      BY <1>1, <1>3, <2>2
    <3>2. i - 1 \in 1 .. Len(Tail(q)) /\ (i - 1) + 1 = i
      BY <1>1, <2>2
    <3> QED
      BY <1>1, <3>1, <3>2
  <2> QED
    BY <2>1, <2>2
<1>5. Len(<<Head(q)>> \o Tail(q)) = Len(q)
  BY <1>1, <1>3
<1> QED
  BY <1>3, <1>4, <1>5, SeqEqual

(* What is taken from a stream and put in front of it again changes        *)
(* nothing, so that two streams in a row are one.                          *)
LEMMA PutBack ==
  ASSUME NEW S, NEW b, NEW m, NEW y, CanMove(S, b, m, y)
  PROVE  /\ Join(Opt(Front(b, m)), Moved(b, m, y)) = Behind(b, y)
         /\ Front(b, m) \in Option(S) /\ Moved(b, m, y) \in Seq(S)
         /\ (m = 1 <=> Front(b, m) # None)
<1>0. None \notin S /\ b \in Seq(S) /\ y \in Option(S) /\ m \in 0 .. 1 /\ (m = 1 => b # <<>>)
  BY DEF CanMove
<1>1. Opt(y) \in Seq(S) /\ <<>> \in Seq(S) /\ b \o Opt(y) \in Seq(S)
  BY <1>0, OptType, ConcatProperties
<1>2. CASE m = 1
  <2>1. Head(b) \in S /\ Tail(b) \in Seq(S) /\ Head(b) # None
    BY <1>0, <1>2, PopFacts
  <2>2. Opt(Head(b)) = <<Head(b)>> /\ <<Head(b)>> \in Seq(S)
    BY <2>1 DEF Opt
  <2>3. <<Head(b)>> \o (Tail(b) \o Opt(y)) = (<<Head(b)>> \o Tail(b)) \o Opt(y)
    BY <1>1, <2>1, <2>2, ConcatAssociative
  <2>4. <<Head(b)>> \o Tail(b) = b
    BY <1>0, <1>2, HeadAndTail
  <2>5. Tail(b) \o Opt(y) \in Seq(S)
    BY <1>1, <2>1, ConcatProperties
  <2> QED
    BY <1>2, <2>1, <2>2, <2>3, <2>4, <2>5 DEF Moved, Option, Front, Behind, Join
<1>3. CASE m # 1
  BY <1>0, <1>1, <1>3, ConcatEmptySeq DEF Moved, Opt, Option, Front, Behind, Join
<1> QED
  BY <1>2, <1>3

ThreeSeqs(S, r, s, t) == r \in Seq(S) /\ s \in Seq(S) /\ t \in Seq(S)

LEMMA Regroup ==
  ASSUME NEW S, NEW r, NEW s, NEW t, ThreeSeqs(S, r, s, t)
  PROVE  Join(Join(r, s), t) = Join(r, Join(s, t)) /\ Join(r, s) \in Seq(S)
<1>1. r \in Seq(S) /\ s \in Seq(S) /\ t \in Seq(S)
  BY DEF ThreeSeqs
<1>2. (r \o s) \o t = r \o (s \o t)
  BY <1>1, ConcatAssociative
<1> QED
  BY <1>1, <1>2, ConcatProperties DEF Join

LEMMA StreamsInRow ==
  ASSUME NEW S, NEW a, NEW n, NEW b, NEW m, NEW y,
         CanMove(S, a, n, None), CanMove(S, b, m, y)
  PROVE  /\ Join(Moved(a, n, Front(b, m)), Moved(b, m, y)) = Moved(Join(a, b), n, y)
         /\ CanMove(S, Join(a, b), n, y) /\ Front(Join(a, b), n) = Front(a, n)
<1> DEFINE r == IF n = 1 THEN Tail(a) ELSE a
           x == Front(b, m)
<1>0. /\ None \notin S /\ a \in Seq(S) /\ n \in 0 .. 1 /\ (n = 1 => a # <<>>)
      /\ b \in Seq(S) /\ y \in Option(S) /\ m \in 0 .. 1 /\ (m = 1 => b # <<>>)
  BY DEF CanMove
<1>1. /\ Join(Opt(x), Moved(b, m, y)) = Behind(b, y) /\ x \in Option(S)
      /\ Moved(b, m, y) \in Seq(S)
  BY PutBack
<1>2. ThreeSeqs(S, r, Opt(x), Moved(b, m, y)) /\ ThreeSeqs(S, r, b, Opt(y))
  BY <1>0, <1>1, PopFacts, OptType DEF ThreeSeqs
<1>3. (IF n = 1 THEN Tail(Join(a, b)) ELSE Join(a, b)) = Join(r, b)
      /\ (n = 1 => Join(a, b) # <<>> /\ Head(Join(a, b)) = Head(a)) /\ Join(a, b) \in Seq(S)
  BY <1>0, TailConcat, ConcatProperties DEF Join
<1>4. Moved(a, n, x) = Join(r, Opt(x))
  BY DEF Moved, Behind
<1> HIDE DEF r, x
<1>5. Join(Join(r, Opt(x)), Moved(b, m, y)) = Join(Join(r, b), Opt(y))
  BY <1>1, <1>2, Regroup DEF Behind
<1>6. Moved(Join(a, b), n, y) = Join(Join(r, b), Opt(y))
  BY <1>3 DEF Moved, Behind
<1>7. CanMove(S, Join(a, b), n, y)
  BY <1>0, <1>3 DEF CanMove
<1>8. Front(Join(a, b), n) = Front(a, n)
  BY <1>3 DEF Front
<1> QED
  BY <1>4, <1>5, <1>6, <1>7, <1>8 DEF x

-----------------------------------------------------------------------------
(* The vertices of a core from stage 4 back to stage 1, oldest first, and  *)
(* what the memories answer about those that are in the queue of ids.      *)
VertexStream(c) == Join(Behind(vId[c], p2V[c]), Behind(q2[c], p1V[c]))

Ranges(q) == [k \in 1 .. Len(q) |-> OffsetOf(q[k])]

ValuesCome(c) == Join(Opt(srcV[c]), Join(Opt(deltaData[c]), Opt(deltaRd[c])))

Answers ==
  \A c \in Core : /\ Join(value[c], ValuesCome(c)) = vId[c]
                 /\ Behind(offset[c], offsetData[c]) = Ranges(vId[c])

LEMMA Done4Facts ==
  ASSUME QueueInv, NEW c \in Core
  PROVE  /\ Taken(Done4(c)) \in 0 .. 1 /\ (Done4(c) <=> Taken(Done4(c)) = 1)
         /\ Done4(c) => vId[c] # <<>> /\ offset[c] # <<>> /\ value[c] # <<>>
BY NoOffsetWithoutId DEF Done4, Ready4, Taken

LEMMA Pop4Moves ==
  ASSUME QueueInv, NEW c \in Core, NEW q
  PROVE  Pop4(c, q) = IF Taken(Done4(c)) = 1 THEN Tail(q) ELSE q
BY DEF Pop4, Taken

LEMMA VertexStreamMoves ==
  ASSUME QueueInv, ReadOffset, ReadEdge, NEW c \in Core, p1V'[c] \in Option(Vertex)
  PROVE  /\ VertexStream(c)' = Moved(VertexStream(c), Taken(Done4(c)), p1V'[c])
         /\ CanMove(Vertex, VertexStream(c), Taken(Done4(c)), p1V'[c])
<1>1. /\ vId[c] \in Seq(Vertex) /\ p2V[c] \in Option(Vertex) /\ q2[c] \in Seq(Vertex)
      /\ p1V[c] \in Option(Vertex) /\ TypeOK
  BY DEF QueueInv, TypeOK
<1> DEFINE n == Taken(Done4(c))
           m == Taken(~(p4Full[c] \/ q2[c] = <<>>))
           a == Behind(vId[c], p2V[c])
           b == Behind(q2[c], p1V[c])
           x == p2V'[c]
           y == p1V'[c]
<1>2. CanMove(Vertex, vId[c], n, p2V[c]) /\ CanMove(Vertex, q2[c], m, p1V[c])
  BY <1>1, Done4Facts, NoneIsNone DEF Taken, CanMove
<1>3. x = Front(q2[c], m)
  BY DEF ReadOffset, Taken, Front
<1>4. x \in Option(Vertex) /\ (m = 1 <=> x # None)
  <2> HIDE DEF m, x
  <2> QED
    BY <1>2, <1>3, PutBack
<1>5. q2'[c] = Pushed(q2[c], m, p1V[c])
  <2>1. q2'[c] = Push(IF x = None THEN q2[c] ELSE Tail(q2[c]), p1V[c])
    BY DEF ReadOffset
  <2> HIDE DEF m, x
  <2> QED
    BY <1>4, <2>1 DEF Pushed
<1>6. vId'[c] = Pushed(vId[c], n, p2V[c])
  BY Pop4Moves DEF ReadEdge, Pushed
<1> HIDE DEF n, m, x, y
<1>7. Behind(vId'[c], x) = Moved(a, n, x) /\ CanMove(Vertex, a, n, x)
  BY <1>2, <1>4, <1>6, QueueMoves
<1>8. y \in Option(Vertex)
  BY DEF y
<1>9. Behind(q2'[c], y) = Moved(b, m, y) /\ CanMove(Vertex, b, m, y) /\ Front(b, m) = x
  BY <1>2, <1>3, <1>5, <1>8, QueueMoves
<1> HIDE DEF a, b
<1>11. /\ Join(Moved(a, n, x), Moved(b, m, y)) = Moved(Join(a, b), n, y)
       /\ CanMove(Vertex, Join(a, b), n, y)
  <2>1. CanMove(Vertex, a, n, None)
    BY <1>7 DEF CanMove, Option
  <2> QED
    BY <1>9, <2>1, StreamsInRow
<1>12. VertexStream(c)' = Moved(Join(a, b), n, y)
  BY <1>7, <1>9, <1>11 DEF VertexStream, x, y
<1>13. VertexStream(c) = Join(a, b)
  BY DEF VertexStream, a, b
<1> QED
  BY <1>11, <1>12, <1>13 DEF n, y

(* Ranges commutes with the movement of a stream.                          *)
LEMMA RangesMoved ==
  ASSUME NEW s, NEW n, NEW x, CanMove(Vertex, s, n, x),
         NEW y, y = IF x = None THEN None ELSE OffsetOf(x)
  PROVE  /\ Ranges(Moved(s, n, x)) = Moved(Ranges(s), n, y)
         /\ CanMove(EdgeRange, Ranges(s), n, y) /\ Len(Ranges(s)) = Len(s)
<1> DEFINE t == Moved(s, n, x)
           u == Moved(Ranges(s), n, y)
<1>0. s \in Seq(Vertex) /\ x \in Option(Vertex) /\ n \in 0 .. 1 /\ (n = 1 => s # <<>>)
  BY DEF CanMove
<1>1. Len(s) \in Nat /\ \A k \in 1 .. Len(s) : s[k] \in Vertex
  BY <1>0, LenProperties, ElementOfSeq
<1>2. Ranges(s) \in Seq(EdgeRange) /\ Len(Ranges(s)) = Len(s)
      /\ (\A k \in 1 .. Len(s) : Ranges(s)[k] = OffsetOf(s[k]))
  BY <1>1 DEF Ranges, EdgeRange
<1>3. y \in Option(EdgeRange) /\ Held(y) = Held(x) /\ (y = None <=> x = None)
  <2>1. x # None => OffsetOf(x) \in EdgeRange
    BY <1>0 DEF Option, EdgeRange
  <2> QED
    BY <2>1, NoneIsNone DEF Option, Held
<1>4. CanMove(EdgeRange, Ranges(s), n, y)
  <2>1. n = 1 => Ranges(s) # <<>>
    BY <1>0, <1>1, <1>2, EmptySeq
  <2> QED
    BY <1>0, <1>2, <1>3, <2>1, NoneIsNone DEF CanMove
<1>5. /\ t \in Seq(Vertex) /\ Len(t) = Len(s) - n + Held(x)
      /\ \A k \in 1 .. Len(t) :
           IF k <= Len(s) - n THEN k + n \in 1 .. Len(s) /\ t[k] = s[k + n]
           ELSE x # None /\ t[k] = x /\ k = Len(t)
  BY MovedElements
<1>6. /\ u \in Seq(EdgeRange) /\ Len(u) = Len(s) - n + Held(x)
      /\ \A k \in 1 .. Len(u) :
           IF k <= Len(s) - n THEN k + n \in 1 .. Len(s) /\ u[k] = Ranges(s)[k + n]
           ELSE y # None /\ u[k] = y /\ k = Len(u)
  BY <1>2, <1>3, <1>4, MovedElements
<1>7. Ranges(t) \in Seq(EdgeRange) /\ Len(Ranges(t)) = Len(t)
      /\ (\A k \in 1 .. Len(t) : Ranges(t)[k] = OffsetOf(t[k]))
  <2>1. \A k \in 1 .. Len(t) : t[k] \in Vertex
    BY <1>5, ElementOfSeq
  <2> HIDE DEF t
  <2>2. Len(t) \in Nat
    BY <1>5, LenProperties
  <2> QED
    BY <2>1, <2>2 DEF Ranges, EdgeRange
<1>8. \A k \in 1 .. Len(t) : Ranges(t)[k] = u[k]
  <2> HIDE DEF t, u
  <2> SUFFICES ASSUME NEW k \in 1 .. Len(t) PROVE Ranges(t)[k] = u[k]
    OBVIOUS
  <2>1. CASE k <= Len(s) - n
    BY <1>2, <1>3, <1>5, <1>6, <1>7, <2>1
  <2>2. CASE ~(k <= Len(s) - n)
    BY <1>3, <1>5, <1>6, <1>7, <2>2
  <2> QED
    BY <2>1, <2>2
<1>9. Ranges(t) = u
  <2> HIDE DEF t, u
  <2> QED
    BY <1>3, <1>5, <1>6, <1>7, <1>8, SeqEqual
<1> QED
  BY <1>2, <1>4, <1>9

LEMMA PushedIsMoved ==
  ASSUME NEW S, NEW q, NEW n, NEW x, CanMove(S, q, n, x)
  PROVE  Pushed(q, n, x) = Moved(q, n, x)
<1>1. None \notin S /\ q \in Seq(S) /\ x \in Option(S) /\ n \in 0 .. 1 /\ (n = 1 => q # <<>>)
  BY DEF CanMove
<1>2. (IF n = 1 THEN Tail(q) ELSE q) \in Seq(S)
  BY <1>1, PopFacts
<1> QED
  BY <1>1, <1>2, PushFacts DEF Pushed, Moved, Behind, Join

(* Two registers in front of a queue: a tick moves all three.              *)
LEMMA RegistersMove ==
  ASSUME NEW S, NEW q, NEW n, NEW x, NEW y, NEW z, NEW w,
         CanMove(S, q, n, x), y \in Option(S), z \in Option(S), w \in Option(S)
  PROVE  /\ Join(Pushed(q, n, x), Join(Opt(y), Join(Opt(z), Opt(w))))
              = Moved(Join(q, Join(Opt(x), Join(Opt(y), Opt(z)))), n, w)
         /\ CanMove(S, Join(q, Join(Opt(x), Join(Opt(y), Opt(z)))), n, w)
         /\ Front(Join(q, Join(Opt(x), Join(Opt(y), Opt(z)))), n) = Front(q, n)
<1> DEFINE r == IF n = 1 THEN Tail(q) ELSE q
           a == Opt(x)
           b == Opt(y)
           d == Opt(z)
           e == Opt(w)
<1>0. /\ None \notin S /\ q \in Seq(S) /\ x \in Option(S) /\ n \in 0 .. 1
      /\ (n = 1 => q # <<>>)
  BY DEF CanMove
<1>1. r \in Seq(S)
  BY <1>0, PopFacts
<1>2. a \in Seq(S) /\ b \in Seq(S) /\ d \in Seq(S) /\ e \in Seq(S)
  BY <1>0, OptType
<1>3. Pushed(q, n, x) = Join(r, a)
  BY <1>0, <1>1, PushFacts DEF Pushed, Join
<1> HIDE DEF r, a, b, d, e
<1>4. Join(b, Join(d, e)) = Join(Join(b, d), e) /\ Join(b, d) \in Seq(S)
  <2>1. ThreeSeqs(S, b, d, e)
    BY <1>2 DEF ThreeSeqs
  <2> QED
    BY <2>1, Regroup
<1> DEFINE g == Join(b, d)
           f == Join(a, g)
<1>5. Join(a, Join(g, e)) = Join(f, e) /\ f \in Seq(S) /\ Join(g, e) \in Seq(S)
  <2>1. ThreeSeqs(S, a, g, e) /\ ThreeSeqs(S, g, e, e)
    BY <1>2, <1>4 DEF ThreeSeqs
  <2> HIDE DEF g
  <2> QED
    BY <2>1, Regroup
<1>6. Join(Join(r, a), Join(g, e)) = Join(r, Join(a, Join(g, e)))
  <2>1. ThreeSeqs(S, r, a, Join(g, e))
    BY <1>1, <1>2, <1>5 DEF ThreeSeqs
  <2> HIDE DEF g
  <2> QED
    BY <2>1, Regroup
<1>7. Join(r, Join(f, e)) = Join(Join(r, f), e)
  <2>1. ThreeSeqs(S, r, f, e)
    BY <1>1, <1>2, <1>5 DEF ThreeSeqs
  <2> HIDE DEF f
  <2> QED
    BY <2>1, Regroup
<1>8. f \in Seq(S)
  BY <1>5
<1> HIDE DEF f
<1>9. /\ (IF n = 1 THEN Tail(Join(q, f)) ELSE Join(q, f)) = Join(r, f)
      /\ (n = 1 => Join(q, f) # <<>> /\ Head(Join(q, f)) = Head(q)) /\ Join(q, f) \in Seq(S)
  BY <1>0, <1>8, TailConcat, ConcatProperties DEF Join, r
<1>10. Moved(Join(q, f), n, w) = Join(Join(r, f), e)
  BY <1>9 DEF Moved, Behind, e
<1>11. CanMove(S, Join(q, f), n, w) /\ Front(Join(q, f), n) = Front(q, n)
  BY <1>0, <1>9 DEF CanMove, Front
<1>12. Join(Pushed(q, n, x), Join(b, Join(d, e))) = Moved(Join(q, f), n, w)
  <2> HIDE DEF g
  <2>1. Join(b, Join(d, e)) = Join(g, e)
    BY <1>4 DEF g
  <2> QED
    BY <1>3, <1>5, <1>6, <1>7, <1>10, <2>1
<1> QED
  BY <1>11, <1>12 DEF f, a, b, d, e

LEMMA AnswersStep ==
  ASSUME QueueInv, Answers, ReadMemories, ReadEdge
  PROVE  Answers'
<1> SUFFICES ASSUME NEW c \in Core
             PROVE  /\ Join(value'[c], ValuesCome(c)') = vId'[c]
                    /\ Behind(offset'[c], offsetData'[c]) = Ranges(vId'[c])
  BY DEF Answers, ValuesCome, Behind, Join, Ranges, Opt
<1>1. /\ vId[c] \in Seq(Vertex) /\ p2V[c] \in Option(Vertex) /\ value[c] \in Seq(Vertex)
      /\ srcV[c] \in Option(Vertex) /\ deltaData[c] \in Option(Vertex)
      /\ deltaRd[c] \in Option(Vertex) /\ offset[c] \in Seq(EdgeRange)
      /\ offsetData[c] \in Option(EdgeRange)
  BY DEF QueueInv, TypeOK
<1> DEFINE n == Taken(Done4(c))
           x == p2V[c]
           y == IF x = None THEN None ELSE OffsetOf(x)
<1>2. /\ CanMove(Vertex, vId[c], n, x) /\ CanMove(Vertex, value[c], n, srcV[c])
      /\ CanMove(EdgeRange, offset[c], n, offsetData[c])
  BY <1>1, Done4Facts, NoneIsNone DEF CanMove
<1>3. /\ vId'[c] = Pushed(vId[c], n, x) /\ value'[c] = Pushed(value[c], n, srcV[c])
      /\ offset'[c] = Pushed(offset[c], n, offsetData[c])
  BY Pop4Moves DEF ReadEdge, Pushed
<1>4. /\ offsetData'[c] = y /\ srcV'[c] = deltaData[c] /\ deltaData'[c] = deltaRd[c]
      /\ deltaRd'[c] = x
  BY DEF ReadMemories
<1>5. /\ Join(value[c], Join(Opt(srcV[c]), Join(Opt(deltaData[c]), Opt(deltaRd[c])))) = vId[c]
      /\ Behind(offset[c], offsetData[c]) = Ranges(vId[c])
  BY DEF Answers, ValuesCome
<1>6. vId'[c] = Moved(vId[c], n, x)
  BY <1>2, <1>3, PushedIsMoved
<1>7. Join(value'[c], ValuesCome(c)') = vId'[c]
  <2>1. ValuesCome(c)' = Join(Opt(deltaData[c]), Join(Opt(deltaRd[c]), Opt(x)))
    BY <1>4 DEF ValuesCome
  <2> HIDE DEF n, x
  <2>2. deltaData[c] \in Option(Vertex) /\ deltaRd[c] \in Option(Vertex) /\ x \in Option(Vertex)
    BY <1>1 DEF x
  <2>3. Join(Pushed(value[c], n, srcV[c]), Join(Opt(deltaData[c]), Join(Opt(deltaRd[c]), Opt(x))))
          = Moved(vId[c], n, x)
    BY <1>2, <1>5, <2>2, RegistersMove
  <2> QED
    BY <1>3, <1>6, <2>1, <2>3
<1>8. Behind(offset'[c], offsetData'[c]) = Ranges(vId'[c])
  <2>1. /\ Ranges(Moved(vId[c], n, x)) = Moved(Ranges(vId[c]), n, y)
        /\ CanMove(EdgeRange, Ranges(vId[c]), n, y)
    BY <1>2, RangesMoved
  <2>2. y \in Option(EdgeRange)
    BY <2>1 DEF CanMove
  <2>3. Behind(Pushed(offset[c], n, offsetData[c]), y)
          = Moved(Behind(offset[c], offsetData[c]), n, y)
    BY <1>2, <2>2, QueueMoves
  <2> QED
    BY <1>3, <1>4, <1>5, <1>6, <2>1, <2>3
<1> QED
  BY <1>7, <1>8

LEMMA AnswersInit == Init => Answers
<1> SUFFICES ASSUME Init, NEW c \in Core
             PROVE  Join(value[c], ValuesCome(c)) = vId[c]
                    /\ Behind(offset[c], offsetData[c]) = Ranges(vId[c])
  BY DEF Answers
<1>1. /\ value[c] = <<>> /\ vId[c] = <<>> /\ offset[c] = <<>> /\ offsetData[c] = None
      /\ srcV[c] = None /\ deltaData[c] = None /\ deltaRd[c] = None
  BY DEF Init, All
<1>2. Opt(None) = <<>> /\ <<>> \o <<>> = <<>>
  BY ConcatEmptySeq, EmptySeq DEF Opt
<1>3. Ranges(<<>>) = <<>>
  BY DEF Ranges
<1> QED
  BY <1>1, <1>2, <1>3 DEF ValuesCome, Behind, Join

(* What the answers are worth: the ranges and the values are those of the  *)
(* vertices that stand at the same place in the queue of ids.              *)
LEMMA AnswersAtFront ==
  ASSUME QueueInv, Answers, NEW c \in Core
  PROVE  /\ \A k \in 1 .. Len(offset[c]) : /\ k \in 1 .. Len(vId[c])
                                           /\ offset[c][k] = OffsetOf(vId[c][k])
         /\ value[c] # <<>> => Head(value[c]) = Head(vId[c])
         /\ offset[c] # <<>> => /\ Head(vId[c]) \in Vertex /\ Head(vId[c]) = vId[c][1]
                                /\ 1 \in 1 .. Len(vId[c])
                                /\ Lo(c) = LOffset[Head(vId[c])]
                                /\ Hi(c) = LOffset[Head(vId[c]) + 1] - 1
<1>1. /\ vId[c] \in Seq(Vertex) /\ value[c] \in Seq(Vertex)
      /\ srcV[c] \in Option(Vertex) /\ deltaData[c] \in Option(Vertex)
      /\ deltaRd[c] \in Option(Vertex) /\ offset[c] \in Seq(EdgeRange)
      /\ offsetData[c] \in Option(EdgeRange)
  BY DEF QueueInv, TypeOK
<1>2. ASSUME NEW k \in 1 .. Len(offset[c])
      PROVE  k \in 1 .. Len(vId[c]) /\ offset[c][k] = OffsetOf(vId[c][k])
  <2>1. k \in 1 .. Len(vId[c])
    BY NoOffsetWithoutId
  <2>2. Opt(offsetData[c]) \in Seq(EdgeRange)
    BY <1>1, OptType
  <2>3. (offset[c] \o Opt(offsetData[c]))[k] = offset[c][k]
    <3> DEFINE m == Len(offset[c])
               n == Len(Opt(offsetData[c]))
    <3>0. m \in Nat /\ n \in Nat
      BY <1>1, <2>2, LenProperties
    <3>1. k \in 1 .. m
      OBVIOUS
    <3> HIDE DEF m, n
    <3>2. k \in 1 .. m + n /\ k <= m
      BY <3>0, <3>1
    <3> USE DEF m, n
    <3>3. k \in 1 .. Len(offset[c]) + Len(Opt(offsetData[c])) /\ k <= Len(offset[c])
      BY ONLY <3>2
    <3> QED
      BY <1>1, <2>2, <3>3, ConcatProperties
  <2>4. offset[c] \o Opt(offsetData[c]) = Ranges(vId[c])
    BY DEF Answers, Behind, Join
  <2> QED
    BY <2>1, <2>3, <2>4 DEF Ranges
<1>3. ASSUME value[c] # <<>> PROVE Head(value[c]) = Head(vId[c])
  <2>1. /\ Opt(srcV[c]) \in Seq(Vertex) /\ Opt(deltaData[c]) \in Seq(Vertex)
        /\ Opt(deltaRd[c]) \in Seq(Vertex)
    BY <1>1, OptType
  <2>2. ValuesCome(c) \in Seq(Vertex)
    BY <2>1, ConcatProperties DEF ValuesCome, Join
  <2>3. value[c] \o ValuesCome(c) = vId[c]
    BY DEF Answers, Join
  <2> QED
    BY <1>1, <1>3, <2>2, <2>3, TailConcat
<1>4. ASSUME offset[c] # <<>>
      PROVE  /\ Head(vId[c]) \in Vertex /\ Head(vId[c]) = vId[c][1] /\ 1 \in 1 .. Len(vId[c])
             /\ Lo(c) = LOffset[Head(vId[c])] /\ Hi(c) = LOffset[Head(vId[c]) + 1] - 1
  <2>1. vId[c] # <<>> /\ 1 \in 1 .. Len(offset[c]) /\ Head(offset[c]) = offset[c][1]
    BY <1>1, <1>4, NoOffsetWithoutId, PopFacts
  <2>2. Head(vId[c]) \in Vertex /\ Head(vId[c]) = vId[c][1]
    BY <1>1, <2>1, PopFacts
  <2>3. Head(offset[c]) = OffsetOf(Head(vId[c]))
    BY <1>2, <2>1, <2>2
  <2> QED
    BY <1>2, <2>1, <2>2, <2>3 DEF Lo, Hi, OffsetOf
<1> QED
  BY <1>2, <1>3, <1>4

-----------------------------------------------------------------------------
(***************************************************************************)
(* What the inductive invariants say of every reachable state.             *)
(***************************************************************************)

LEMMA QueueInvHolds == Spec => []QueueInv
BY QueueInit, QueueStep, PTL DEF Spec

(* TypeCorrect: every register, queue and counter of the front end keeps   *)
(* its type; now_loffset never exceeds INFINITE_OFFSET, and a request is   *)
(* for a line that exists (stages 2 to 7).                                 *)
THEOREM TypeCorrect == Spec => []TypeOK
<1>1. QueueInv => TypeOK
  BY DEF QueueInv
<1> QED
  BY <1>1, QueueInvHolds, PTL

(* OneLinePerJobHolds: on every lane the vertices on their way to stage 7  *)
(* are as many as the lines on their way, whatever stages 5, 6 and 7 are   *)
(* full and however the memory answers.                                    *)
THEOREM OneLinePerJobHolds == Spec => []OneLinePerJob
<1>1. QueueInv => OneLinePerJob
  BY DEF QueueInv, Lengths
<1> QED
  BY <1>1, QueueInvHolds, PTL

LEMMA BoundedQueuesFollows == QueueInv => BoundedQueues
<1> SUFFICES ASSUME QueueInv, NEW c \in Core
             PROVE  /\ Len(q2[c]) <= FIFO_SIZE + 1 /\ Len(vId[c]) <= FIFO_SIZE + 1
                    /\ Len(offset[c]) <= Len(vId[c]) /\ Len(value[c]) <= Len(offset[c])
                    /\ Len(rqst[c]) <= FIFO_SIZE + 1 /\ Len(q6) <= FIFO_SIZE + 1
                    /\ Len(q7[c]) <= FIFO_SIZE + 1 /\ Len(edge7[c]) <= FIFO_SIZE + 1
  BY DEF BoundedQueues
<1>1. /\ Len(q2[c]) \in Nat /\ Len(vId[c]) \in Nat /\ Len(rqst[c]) \in Nat
      /\ Len(q6) \in Nat /\ Len(q7[c]) \in Nat /\ Len(edge7[c]) \in Nat
      /\ Len(memory) \in Nat /\ FIFO_SIZE \in Nat
  <2>1. /\ q2[c] \in Seq(Vertex) /\ vId[c] \in Seq(Vertex) /\ rqst[c] \in Seq(Request)
        /\ q6 \in Seq(Nat) /\ q7[c] \in Seq(Job \union {Idle}) /\ edge7[c] \in Seq(Nat)
        /\ memory \in Seq(Nat)
    BY DEF QueueInv, TypeOK
  <2> QED
    BY <2>1, LenProperties, ChannelAssumption
<1>2. /\ Len(q2[c]) + Held(p1V[c]) <= FIFO_SIZE + 1
      /\ Len(vId[c]) + Held(p2V[c]) <= FIFO_SIZE + 1
      /\ Len(rqst[c]) + Held(p4[c]) <= FIFO_SIZE + 1
      /\ Len(q6) + Held(p5Line) <= FIFO_SIZE + 1
  BY DEF QueueInv, Lengths
<1>3. /\ Len(q2[c]) <= FIFO_SIZE + 1 /\ Len(vId[c]) <= FIFO_SIZE + 1
      /\ Len(rqst[c]) <= FIFO_SIZE + 1 /\ Len(q6) <= FIFO_SIZE + 1
  BY <1>1, <1>2, HeldFacts
<1>4. Len(q7[c]) <= FIFO_SIZE + 1 /\ Len(edge7[c]) <= FIFO_SIZE + 1
  <2> DEFINE a == Len(q7[c])
             b == Held(p5V[c])
             d == Len(edge7[c])
             e == Held(edges) + Len(memory) + Len(q6) + Held(p5Line)
  <2>1. a + b <= FIFO_SIZE + 1
    BY DEF QueueInv, Lengths
  <2>2. e \in Nat /\ b \in Nat
    <3>1. /\ Held(edges) \in Nat /\ Held(p5Line) \in Nat /\ Held(p5V[c]) \in Nat
      BY HeldFacts
    <3> QED
      BY <1>1, <3>1
  <2>3. a + b = d + e
    <3>1. Len(q7[c]) + Held(p5V[c]) =
            Len(edge7[c]) + Held(edges) + Len(memory) + Len(q6) + Held(p5Line)
      BY DEF QueueInv, Lengths, OneLinePerJob
    <3> QED
      BY <1>1, <3>1, HeldFacts
  <2>4. a \in Nat /\ d \in Nat /\ FIFO_SIZE \in Nat
    BY <1>1
  <2> HIDE DEF a, b, d, e
  <2>5. a <= FIFO_SIZE + 1 /\ d <= FIFO_SIZE + 1
    BY <2>1, <2>2, <2>3, <2>4
  <2> QED
    BY <2>5 DEF a, d
<1> QED
  BY <1>3, <1>4, NoOffsetWithoutId

(* BoundedQueuesHolds: full is seen a tick late, and still no queue of the *)
(* front end takes more than one entry beyond its limit; the queues behind *)
(* the memories and of edges, which no flag stops, are held by the queue   *)
(* of the vertices that wait for their answers.                            *)
THEOREM BoundedQueuesHolds == Spec => []BoundedQueues
BY BoundedQueuesFollows, QueueInvHolds, PTL

=============================================================================
