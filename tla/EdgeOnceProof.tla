---------------------------- MODULE EdgeOnceProof -----------------------------
(***************************************************************************)
(* Proofs about EdgeFetch, continued: from the queues to the edges.  The   *)
(* first part says what the ends of the stages mean and how the edges to   *)
(* be asked for become fewer; the second follows the edges of the active   *)
(* vertices from being to be asked for to asked, to fetched, to sent: each *)
(* is in one of these places.                                              *)
(***************************************************************************)
EXTENDS EdgeFetchProof


-----------------------------------------------------------------------------
(***************************************************************************)
(* The streams behind stage 4: the requests of a core, the vertices of a   *)
(* lane, and the edges of a lane, oldest first.                            *)
(***************************************************************************)
Requests(c) == Behind(rqst[c], p4[c])
Jobs(i)     == Behind(q7[i], p5V[i])

EdgeAt(i, line) == IF line = None THEN None ELSE line * CACHELINE_LEN + i
EdgesAt(i, s)   == [k \in 1 .. Len(s) |-> s[k] * CACHELINE_LEN + i]

Lines    == Join(memory, Behind(q6, p5Line))
Edges(i) == Join(Behind(edge7[i], EdgeAt(i, edges)), EdgesAt(i, Lines))

(***************************************************************************)
(* The ends.  Ended_s holds of a stage that has ended and holds nothing;   *)
(* an end that is up says so of its own stage and of all before it, except *)
(* that after a restart the levels of the iteration before fall one stage  *)
(* in a tick: in phase n those of stages n and behind are still the old    *)
(* ones, in phase 6 all are of this iteration.  Stages are counted without *)
(* the memories: 1, 2, 4, 5, 7.                                            *)
(***************************************************************************)
Sent(c)   == allSent[c] /\ toSend[c] = {}
Ended1(c) == p1End[c] /\ p1V[c] = None
Ended2(c) == p2End[c] /\ q2[c] = <<>> /\ p2V[c] = None /\ ct2[c] >= WAIT_END_DELAY
Ended4(c) == p4End[c] /\ vId[c] = <<>> /\ offsetData[c] = None /\ p4[c] = None
             /\ ct4[c] >= WAIT_END_DELAY
Ended5 == /\ p5End /\ p5Line = None /\ ct5 >= WAIT_END_DELAY
          /\ \A c \in Core : rqst[c] = <<>> /\ p5V[c] = None
Ended7(i) == p7End[i] /\ q7[i] = <<>> /\ p7V[i] = None /\ ct7[i] >= WAIT_END_DELAY

New1 == \A c \in Core : p1End[c] => Ended1(c) /\ Sent(c)
New2 == \A c \in Core : p2End[c] => Ended2(c) /\ p1End[c]
New4 == \A c \in Core : p4End[c] => Ended4(c) /\ p2End[c]
New5 == p5End => Ended5 /\ \A c \in Core : p4End[c]
New7 == \A i \in Core : p7End[i] => Ended7(i) /\ p5End

Old2 == \A c \in Core : Ended2(c)
Old4 == \A c \in Core : Ended4(c)
Old7 == \A i \in Core : Ended7(i)
Down(end) == \A c \in Core : ~end[c]

Phase1 == /\ \A c \in Core : Ended1(c) /\ ~allSent[c]
          /\ Old2 /\ Old4 /\ Ended5 /\ Old7
Phase2 == Down(p1End) /\ Old2 /\ Old4 /\ Ended5 /\ Old7
Phase3 == New1 /\ Down(p2End) /\ Old4 /\ Ended5 /\ Old7
Phase4 == New1 /\ New2 /\ Down(p4End) /\ Ended5 /\ Old7
Phase5 == New1 /\ New2 /\ New4 /\ ~p5End /\ Old7
Phase6 == New1 /\ New2 /\ New4 /\ New5 /\ New7 /\ \A c \in Core : ~stale[c]

Restarting == /\ Phase1 \/ Phase2 \/ Phase3 \/ Phase4 \/ Phase5
              /\ delivered = {} /\ \A c \in Core : stale[c]

Ends == /\ \A c \in Core : allSent[c] => toSend[c] = {}
        /\ Restarting \/ Phase6

(***************************************************************************)
(* The vertices of a core, and where the head of them stands.              *)
(***************************************************************************)
Own(c) == active \intersect VerticesOf(c)

VerticesOk ==
  \A c \in Core :
    /\ toSend[c] \subseteq Own(c)
    /\ \A k \in 1 .. Len(VertexStream(c)) :
         /\ VertexStream(c)[k] \in Own(c) \ toSend[c]
         /\ \A l \in 1 .. Len(VertexStream(c)) :
              VertexStream(c)[k] = VertexStream(c)[l] => k = l

NowOk ==
  \A c \in Core :
    IF offset[c] = <<>> THEN nowLOffset[c] = INFINITE_OFFSET
    ELSE \/ nowLOffset[c] \in {INFINITE_OFFSET, Lo(c)}
         \/ /\ value[c] # <<>> /\ Lo(c) < nowLOffset[c] /\ nowLOffset[c] <= Hi(c)
            /\ Lane(nowLOffset[c]) = 0

(***************************************************************************)
(* The edges that wait for a line, that are fetched, and that are still to *)
(* be asked for.                                                           *)
(***************************************************************************)
LineEdges(r) == {r.line * CACHELINE_LEN + i : i \in r.mask}

RequestsOk ==
  \A c \in Core : \A k \in 1 .. Len(Requests(c)) :
    LET r == Requests(c)[k]
    IN /\ r.id \in Own(c) /\ r.val = r.id /\ r.deg = Degree[r.id]
       /\ LineEdges(r) \subseteq EdgesOf(r.id)

JobsOk ==
  \A i \in Core : \A k \in 1 .. Len(Jobs(i)) :
    Jobs(i)[k] # Idle =>
      /\ Jobs(i)[k].val \in active /\ Jobs(i)[k].deg = Degree[Jobs(i)[k].val]
      /\ Edges(i)[k] \in EdgesOf(Jobs(i)[k].val) /\ Lane(Edges(i)[k]) = i

ToAsk(c) ==
  {e \in Nat :
     \/ \E v \in toSend[c] : e \in EdgesOf(v)
     \/ \E k \in 1 .. Len(VertexStream(c)) :
          /\ e \in EdgesOf(VertexStream(c)[k])
          /\ k = 1 /\ offset[c] # <<>> => e >= Start(c)}

Asked(c) == UNION {LineEdges(Requests(c)[k]) : k \in 1 .. Len(Requests(c))}

Fetched(i) == {Edges(i)[k] : k \in {l \in 1 .. Len(Jobs(i)) : Jobs(i)[l] # Idle}}

AskedOnce ==
  \A c \in Core : \A k, l \in 1 .. Len(Requests(c)) :
    k # l => LineEdges(Requests(c)[k]) \intersect LineEdges(Requests(c)[l]) = {}

FetchedOnce ==
  \A i \in Core : \A k, l \in 1 .. Len(Jobs(i)) :
    Jobs(i)[k] # Idle /\ Jobs(i)[l] # Idle /\ Edges(i)[k] = Edges(i)[l] => k = l

OnePlace ==
  /\ \A c \in Core : ToAsk(c) \intersect Asked(c) = {}
  /\ \A c, i \in Core : (ToAsk(c) \union Asked(c)) \intersect (Fetched(i) \union delivered) = {}
  /\ \A i \in Core : Fetched(i) \intersect delivered = {}

SomePlace ==
  \A c \in Core : \A v \in Own(c) : \A e \in EdgesOf(v) :
    e \in ToAsk(c) \union Asked(c) \union Fetched(Lane(e)) \union delivered

Flow == /\ VerticesOk /\ NowOk /\ RequestsOk /\ JobsOk /\ UpdateIsEdge
        /\ AskedOnce /\ FetchedOnce /\ OnePlace /\ SomePlace

EdgeInv == QueueInv /\ Answers /\ Ends /\ Flow

-----------------------------------------------------------------------------
(* The movements of the streams.                                           *)

LEMMA RequestsMove ==
  ASSUME QueueInv, CombineEdgeRqst, NEW c \in Core, p4'[c] \in Option(Request)
  PROVE  /\ Requests(c)' = Moved(Requests(c), Taken(Popped5(c)), p4'[c])
         /\ CanMove(Request, Requests(c), Taken(Popped5(c)), p4'[c])
         /\ Front(Requests(c), Taken(Popped5(c))) = Front(rqst[c], Taken(Popped5(c)))
<1> DEFINE n == Taken(Popped5(c))
           y == p4'[c]
<1>1. rqst[c] \in Seq(Request) /\ p4[c] \in Option(Request)
  BY DEF QueueInv, TypeOK
<1>2. Popped5(c) => rqst[c] # <<>>
  BY DEF Popped5, Served, Waiting
<1>3. CanMove(Request, rqst[c], n, p4[c])
  BY <1>1, <1>2, NoneIsNone DEF CanMove, Taken
<1>4. rqst'[c] = Pushed(rqst[c], n, p4[c])
  BY DEF CombineEdgeRqst, Pushed, Taken
<1>5. y \in Option(Request)
  OBVIOUS
<1> HIDE DEF n, y
<1>6. /\ Behind(Pushed(rqst[c], n, p4[c]), y) = Moved(Behind(rqst[c], p4[c]), n, y)
      /\ CanMove(Request, Behind(rqst[c], p4[c]), n, y)
      /\ Front(Behind(rqst[c], p4[c]), n) = Front(rqst[c], n)
  BY <1>3, <1>5, QueueMoves
<1>7. Requests(c)' = Behind(rqst'[c], y)
  BY DEF Requests, y
<1> QED
  BY <1>4, <1>6, <1>7 DEF Requests, n, y

LEMMA JobsMove ==
  ASSUME QueueInv, Schedule, NEW i \in Core, p5V'[i] \in Option(Job \union {Idle})
  PROVE  /\ Jobs(i)' = Moved(Jobs(i), Taken(Joined(i)), p5V'[i])
         /\ CanMove(Job \union {Idle}, Jobs(i), Taken(Joined(i)), p5V'[i])
         /\ Front(Jobs(i), Taken(Joined(i))) = Front(q7[i], Taken(Joined(i)))
<1> DEFINE S == Job \union {Idle}
           n == Taken(Joined(i))
           y == p5V'[i]
<1>1. q7[i] \in Seq(S) /\ p5V[i] \in Option(S)
  BY DEF QueueInv, TypeOK
<1>2. Joined(i) => q7[i] # <<>>
  BY DEF Joined
<1>3. CanMove(S, q7[i], n, p5V[i])
  BY <1>1, <1>2, NoneIsNone DEF CanMove, Taken
<1>4. q7'[i] = Pushed(q7[i], n, p5V[i])
  BY DEF Schedule, Pushed, Taken
<1>5. y \in Option(S)
  OBVIOUS
<1>7. Jobs(i)' = Behind(q7'[i], y)
  BY DEF Jobs
<1> HIDE DEF n, y, S
<1>6. /\ Behind(Pushed(q7[i], n, p5V[i]), y) = Moved(Behind(q7[i], p5V[i]), n, y)
      /\ CanMove(S, Behind(q7[i], p5V[i]), n, y)
      /\ Front(Behind(q7[i], p5V[i]), n) = Front(q7[i], n)
  BY <1>3, <1>5, QueueMoves
<1> QED
  BY <1>4, <1>6, <1>7 DEF Jobs, n, y, S

(* The lines asked of the memory: what it answers leaves the stream.       *)
LEMMA LinesMove ==
  ASSUME QueueInv, NEW accept \in BOOLEAN, NEW answer \in BOOLEAN,
         HbmInterface(accept, answer), p5Line' \in Option(Nat),
         NEW given, given = Taken(answer /\ memory # <<>>)
  PROVE  /\ Lines' = Moved(Lines, given, p5Line') /\ CanMove(Nat, Lines, given, p5Line')
         /\ edges' = Front(Lines, given)
<1> DEFINE taken == Taken(accept /\ q6 # <<>>)
           b == Behind(q6, p5Line)
           y == p5Line'
           x == Front(q6, taken)
<1>1. q6 \in Seq(Nat) /\ memory \in Seq(Nat) /\ p5Line \in Option(Nat)
  BY DEF QueueInv, TypeOK
<1>2. CanMove(Nat, q6, taken, p5Line) /\ CanMove(Nat, memory, given, None)
  BY <1>1, NoneIsNone DEF CanMove, Taken, Option
<1>3. q6' = Pushed(q6, taken, p5Line)
  BY DEF HbmInterface, Pushed, Taken
<1>4. y \in Option(Nat)
  OBVIOUS
<1>5. memory' = Moved(memory, given, x)
  <2>1. q6 # <<>> => Head(q6) # None
    BY <1>1, PopFacts, NoneIsNone
  <2>2. (IF accept /\ q6 # <<>> THEN <<Head(q6)>> ELSE <<>>) = Opt(x)
    BY <2>1 DEF Opt, Front, Taken
  <2>3. (IF answer /\ memory # <<>> THEN Tail(memory) ELSE memory)
           = IF given = 1 THEN Tail(memory) ELSE memory
    BY DEF Taken
  <2> QED
    BY <2>2, <2>3 DEF HbmInterface, Moved, Behind, Join
<1>6. edges' = Front(memory, given)
  BY DEF HbmInterface, Front, Taken
<1>7. Lines' = Join(memory', Behind(q6', y))
  BY DEF Lines
<1> HIDE DEF taken, y
<1>8. Behind(q6', y) = Moved(b, taken, y) /\ CanMove(Nat, b, taken, y) /\ Front(b, taken) = x
  BY <1>2, <1>3, <1>4, QueueMoves
<1> HIDE DEF b, x
<1>9. /\ Join(Moved(memory, given, Front(b, taken)), Moved(b, taken, y))
           = Moved(Join(memory, b), given, y)
      /\ CanMove(Nat, Join(memory, b), given, y)
      /\ Front(Join(memory, b), given) = Front(memory, given)
  BY <1>2, <1>8, StreamsInRow
<1>10. Lines = Join(memory, b)
  BY DEF Lines, b
<1> QED
  BY <1>5, <1>6, <1>7, <1>8, <1>9, <1>10 DEF y

(* A line is an edge on every lane: the streams of edges move like it.     *)
LEMMA EdgesAtMoved ==
  ASSUME NEW i \in Core, NEW s, NEW n, NEW x, CanMove(Nat, s, n, x)
  PROVE  /\ EdgesAt(i, Moved(s, n, x)) = Moved(EdgesAt(i, s), n, EdgeAt(i, x))
         /\ CanMove(Nat, EdgesAt(i, s), n, EdgeAt(i, x)) /\ Len(EdgesAt(i, s)) = Len(s)
         /\ Front(EdgesAt(i, s), n) = EdgeAt(i, Front(s, n))
<1> DEFINE t == Moved(s, n, x)
           r == EdgesAt(i, s)
           y == EdgeAt(i, x)
           u == Moved(r, n, y)
<1>0. s \in Seq(Nat) /\ x \in Option(Nat) /\ n \in 0 .. 1 /\ (n = 1 => s # <<>>)
  BY DEF CanMove
<1>1. Len(s) \in Nat /\ \A k \in 1 .. Len(s) : s[k] \in Nat
  BY <1>0, LenProperties, ElementOfSeq
<1>2. \A l \in Nat : l * CACHELINE_LEN + i \in Nat
  BY Positive
<1>3. /\ r \in Seq(Nat) /\ Len(r) = Len(s)
      /\ \A k \in 1 .. Len(s) : r[k] = s[k] * CACHELINE_LEN + i
  <2>1. r = [k \in 1 .. Len(s) |-> s[k] * CACHELINE_LEN + i]
    BY DEF EdgesAt
  <2> HIDE DEF r
  <2>2. r \in [1 .. Len(s) -> Nat]
    BY <1>1, <1>2, <2>1
  <2> QED
    BY <1>1, <2>1, <2>2
<1>4. /\ y \in Option(Nat) /\ Held(y) = Held(x) /\ (y = None <=> x = None)
      /\ (x # None => y = x * CACHELINE_LEN + i)
  <2>1. x # None => x * CACHELINE_LEN + i \in Nat
    BY <1>0, <1>2 DEF Option
  <2> QED
    BY <2>1, NoneIsNone DEF Option, Held, EdgeAt
<1>5. CanMove(Nat, r, n, y)
  <2>1. n = 1 => r # <<>>
    BY <1>0, <1>1, <1>3, EmptySeq
  <2> HIDE DEF r, y
  <2> QED
    BY <1>0, <1>3, <1>4, <2>1, NoneIsNone DEF CanMove
<1>6. /\ t \in Seq(Nat) /\ Len(t) = Len(s) - n + Held(x)
      /\ \A k \in 1 .. Len(t) :
           IF k <= Len(s) - n THEN k + n \in 1 .. Len(s) /\ t[k] = s[k + n]
           ELSE x # None /\ t[k] = x /\ k = Len(t)
  BY MovedElements
<1>7. /\ u \in Seq(Nat) /\ Len(u) = Len(r) - n + Held(y)
      /\ \A k \in 1 .. Len(u) :
           IF k <= Len(r) - n THEN k + n \in 1 .. Len(r) /\ u[k] = r[k + n]
           ELSE y # None /\ u[k] = y /\ k = Len(u)
  BY <1>5, MovedElements
<1>8. /\ EdgesAt(i, t) \in Seq(Nat) /\ Len(EdgesAt(i, t)) = Len(t)
      /\ \A k \in 1 .. Len(t) : EdgesAt(i, t)[k] = t[k] * CACHELINE_LEN + i
  <2> HIDE DEF t
  <2>1. \A k \in 1 .. Len(t) : t[k] \in Nat
    BY <1>6, ElementOfSeq
  <2>2. Len(t) \in Nat
    BY <1>6, LenProperties
  <2> DEFINE z == EdgesAt(i, t)
  <2>3. z = [k \in 1 .. Len(t) |-> t[k] * CACHELINE_LEN + i]
    BY DEF EdgesAt
  <2> HIDE DEF z
  <2>4. z \in [1 .. Len(t) -> Nat]
    BY <1>2, <2>1, <2>3
  <2>5. z \in Seq(Nat) /\ Len(z) = Len(t)
        /\ \A k \in 1 .. Len(t) : z[k] = t[k] * CACHELINE_LEN + i
    BY <2>2, <2>3, <2>4
  <2> QED
    BY <2>5 DEF z
<1> HIDE DEF t, r, u, y
<1>9. \A k \in 1 .. Len(t) : EdgesAt(i, t)[k] = u[k]
  <2> SUFFICES ASSUME NEW k \in 1 .. Len(t) PROVE EdgesAt(i, t)[k] = u[k]
    OBVIOUS
  <2>1. k \in 1 .. Len(u)
    BY <1>3, <1>4, <1>6, <1>7
  <2>2. CASE k <= Len(s) - n
    <3>1. k + n \in 1 .. Len(s) /\ t[k] = s[k + n]
      BY <1>6, <2>2
    <3>2. u[k] = r[k + n]
      BY <1>3, <1>7, <2>1, <2>2
    <3> QED
      BY <1>3, <1>8, <3>1, <3>2
  <2>3. CASE ~(k <= Len(s) - n)
    <3>1. t[k] = x /\ x # None
      BY <1>6, <2>3
    <3>2. u[k] = y
      BY <1>3, <1>7, <2>1, <2>3
    <3> QED
      BY <1>4, <1>8, <3>1, <3>2
  <2> QED
    BY <2>2, <2>3
<1>10. EdgesAt(i, t) = u
  <2>1. Len(EdgesAt(i, t)) = Len(u)
    BY <1>3, <1>4, <1>6, <1>7, <1>8
  <2> QED
    BY <1>7, <1>8, <1>9, <2>1, SeqEqual
<1>11. Front(r, n) = EdgeAt(i, Front(s, n))
  <2>1. CASE n = 1
    <3>1. s # <<>> /\ Head(s) = s[1] /\ Head(s) \in Nat /\ Len(s) \in Nat \ {0}
      BY <1>0, <2>1, PopFacts
    <3>2. r # <<>> /\ Head(r) = r[1] /\ 1 \in 1 .. Len(s)
      BY <1>3, <1>5, <2>1, <3>1, PopFacts DEF CanMove
    <3> QED
      BY <1>3, <2>1, <3>1, <3>2, NoneIsNone DEF Front, EdgeAt
  <2>2. CASE n # 1
    BY <2>2 DEF Front, EdgeAt
  <2> QED
    BY <2>1, <2>2
<1> QED
  BY <1>3, <1>5, <1>10, <1>11 DEF t, r, u, y

LEMMA EdgesMove ==
  ASSUME QueueInv, NEW accept \in BOOLEAN, NEW answer \in BOOLEAN,
         HbmInterface(accept, answer), Schedule, p5Line' \in Option(Nat), NEW i \in Core
  PROVE  /\ Edges(i)' = Moved(Edges(i), Taken(Joined(i)), EdgeAt(i, p5Line'))
         /\ CanMove(Nat, Edges(i), Taken(Joined(i)), EdgeAt(i, p5Line'))
         /\ Front(Edges(i), Taken(Joined(i))) = Front(edge7[i], Taken(Joined(i)))
<1> DEFINE n == Taken(Joined(i))
           given == Taken(answer /\ memory # <<>>)
           e == EdgeAt(i, edges)
           f == EdgeAt(i, edges')
           y == EdgeAt(i, p5Line')
           a == Behind(edge7[i], e)
           m == EdgesAt(i, Lines)
<1>1. edge7[i] \in Seq(Nat) /\ edges \in Option(Nat)
  BY DEF QueueInv, TypeOK
<1>2. /\ Lines' = Moved(Lines, given, p5Line') /\ CanMove(Nat, Lines, given, p5Line')
      /\ edges' = Front(Lines, given)
  BY LinesMove
<1>3. /\ EdgesAt(i, Lines') = Moved(m, given, y) /\ CanMove(Nat, m, given, y)
      /\ Front(m, given) = f
  <2> HIDE DEF given
  <2> QED
    BY <1>2, EdgesAtMoved
<1>4. e \in Option(Nat)
  BY <1>1, Positive DEF Option, EdgeAt
<1>5. CanMove(Nat, edge7[i], n, e)
  BY <1>1, <1>4, NoneIsNone DEF CanMove, Taken, Joined
<1>6. edge7'[i] = Pushed(edge7[i], n, e)
  BY DEF Schedule, Pushed, Taken, TakesEdge, EdgeAt
<1>7. Edges(i)' = Join(Behind(edge7'[i], f), EdgesAt(i, Lines'))
  BY DEF Edges, EdgeAt, EdgesAt
<1>8. Edges(i) = Join(a, m)
  BY DEF Edges
<1> HIDE DEF n, given, e, f, y, m
<1>9. f \in Option(Nat)
  BY <1>3, PutBack
<1>10. /\ Behind(edge7'[i], f) = Moved(a, n, f) /\ CanMove(Nat, a, n, f)
       /\ Front(a, n) = Front(edge7[i], n)
  BY <1>5, <1>6, <1>9, QueueMoves
<1> HIDE DEF a
<1>11. CanMove(Nat, a, n, None)
  BY <1>10 DEF CanMove, Option
<1>12. /\ Join(Moved(a, n, f), Moved(m, given, y)) = Moved(Join(a, m), n, y)
       /\ CanMove(Nat, Join(a, m), n, y) /\ Front(Join(a, m), n) = Front(a, n)
  BY <1>3, <1>11, StreamsInRow
<1> QED
  BY <1>3, <1>7, <1>8, <1>10, <1>12 DEF n, y

-----------------------------------------------------------------------------
(***************************************************************************)
(* The ends.                                                               *)
(***************************************************************************)

LEMMA CountStays ==
  ASSUME NEW ct \in 0 .. WAIT_END_DELAY
  PROVE  /\ ct >= WAIT_END_DELAY => Ended(TRUE, ct) /\ Count(TRUE, ct) >= WAIT_END_DELAY
         /\ \A cond \in BOOLEAN :
              Ended(cond, ct) => cond /\ ct >= WAIT_END_DELAY /\ Count(cond, ct) >= WAIT_END_DELAY
BY Positive DEF Count, Ended

(* One stage: it stays ended while the stage before has ended, and ends    *)
(* only after it.                                                          *)
LEMMA End2 ==
  ASSUME QueueInv, ReadOffset, NEW c \in Core
  PROVE  /\ Ended1(c) /\ Ended2(c) => Ended2(c)'
         /\ p2End'[c] => p1End[c] /\ Ended2(c)'
<1>1. ct2[c] \in 0 .. WAIT_END_DELAY /\ Drained2(c) \in BOOLEAN
  BY DEF QueueInv, TypeOK, Drained2
<1>2. /\ p2End'[c] = Ended(Drained2(c), ct2[c]) /\ ct2'[c] = Count(Drained2(c), ct2[c])
      /\ p2V'[c] = (IF p4Full[c] \/ q2[c] = <<>> THEN None ELSE Head(q2[c]))
      /\ q2'[c] = Push(IF p2V'[c] = None THEN q2[c] ELSE Tail(q2[c]), p1V[c])
  BY DEF ReadOffset
<1>3. ASSUME Drained2(c), ct2[c] >= WAIT_END_DELAY
      PROVE  Ended2(c)'
  <2>1. p2V'[c] = None /\ q2'[c] = <<>>
    BY <1>2, <1>3 DEF Drained2, Push
  <2>2. p2End'[c] /\ ct2'[c] >= WAIT_END_DELAY
    BY <1>1, <1>2, <1>3, CountStays
  <2> QED
    BY <2>1, <2>2 DEF Ended2
<1>4. Ended1(c) /\ Ended2(c) => Drained2(c) /\ ct2[c] >= WAIT_END_DELAY
  BY DEF Ended1, Ended2, Drained2
<1>5. p2End'[c] => Drained2(c) /\ ct2[c] >= WAIT_END_DELAY
  BY <1>1, <1>2, CountStays
<1> QED
  BY <1>3, <1>4, <1>5 DEF Drained2

LEMMA End4 ==
  ASSUME QueueInv, ReadMemories, ReadEdge, NEW c \in Core
  PROVE  /\ Ended2(c) /\ Ended4(c) => Ended4(c)'
         /\ p4End'[c] => p2End[c]
         /\ p4End'[c] /\ Ended2(c) => Ended4(c)'
<1>1. ct4[c] \in 0 .. WAIT_END_DELAY /\ Drained4(c) \in BOOLEAN
  BY DEF QueueInv, TypeOK, Drained4
<1>2. /\ p4End'[c] = Ended(Drained4(c), ct4[c]) /\ ct4'[c] = Count(Drained4(c), ct4[c])
      /\ ~Send4(c) => p4'[c] = None
      /\ vId'[c] = Push(Pop4(c, vId[c]), p2V[c])
  BY DEF ReadEdge
<1>3. ASSUME Drained4(c), ct4[c] >= WAIT_END_DELAY, Ended2(c)
      PROVE  Ended4(c)'
  <2>1. vId[c] = <<>> /\ p2V[c] = None
    BY <1>3 DEF Drained4, Ended2
  <2>2. offset[c] = <<>>
    BY <2>1, NoOffsetWithoutId
  <2>3. p4'[c] = None /\ ~Done4(c)
    BY <1>2, <2>2 DEF Send4, Done4, Ready4
  <2>4. vId'[c] = <<>>
    BY <1>2, <2>1, <2>3 DEF Push, Pop4
  <2>5. offsetData'[c] = None
    BY <2>1 DEF ReadMemories
  <2>6. p4End'[c] /\ ct4'[c] >= WAIT_END_DELAY
    BY <1>1, <1>2, <1>3, CountStays
  <2> QED
    BY <2>3, <2>4, <2>5, <2>6 DEF Ended4
<1>4. Ended2(c) /\ Ended4(c) => Drained4(c) /\ ct4[c] >= WAIT_END_DELAY
  BY DEF Ended2, Ended4, Drained4
<1>5. p4End'[c] => Drained4(c) /\ ct4[c] >= WAIT_END_DELAY
  BY <1>1, <1>2, CountStays
<1> QED
  BY <1>3, <1>4, <1>5 DEF Drained4

LEMMA End5 ==
  ASSUME QueueInv, CombineEdgeRqst
  PROVE  /\ (\A c \in Core : Ended4(c)) /\ Ended5 => Ended5'
         /\ p5End' => \A c \in Core : p4End[c]
         /\ p5End' /\ (\A c \in Core : Ended4(c)) => Ended5'
<1>1. ct5 \in 0 .. WAIT_END_DELAY /\ Drained5 \in BOOLEAN
  BY DEF QueueInv, TypeOK, Drained5
<1>2. /\ p5End' = Ended(Drained5, ct5) /\ ct5' = Count(Drained5, ct5)
  BY DEF CombineEdgeRqst
<1>3. ASSUME Drained5, ct5 >= WAIT_END_DELAY, \A c \in Core : Ended4(c)
      PROVE  Ended5'
  <2>1. Waiting = {} /\ ~Send5
    BY <1>3 DEF Drained5, Send5
  <2>2. p5Line' = None /\ \A i \in Core : p5V'[i] = None
    BY <2>1 DEF CombineEdgeRqst
  <2>3. ASSUME NEW c \in Core PROVE rqst'[c] = <<>>
    <3>1. rqst[c] = <<>> /\ p4[c] = None
      BY <1>3, <2>1 DEF Waiting, Ended4
    <3> QED
      BY <2>1, <3>1 DEF CombineEdgeRqst, Popped5, Push
  <2>4. p5End' /\ ct5' >= WAIT_END_DELAY
    BY <1>1, <1>2, <1>3, CountStays
  <2> QED
    BY <2>2, <2>3, <2>4 DEF Ended5
<1>4. (\A c \in Core : Ended4(c)) /\ Ended5 => Drained5 /\ ct5 >= WAIT_END_DELAY
  BY DEF Ended4, Ended5, Drained5, Waiting
<1>5. p5End' => Drained5 /\ ct5 >= WAIT_END_DELAY
  BY <1>1, <1>2, CountStays
<1> QED
  BY <1>3, <1>4, <1>5 DEF Drained5

LEMMA End7 ==
  ASSUME QueueInv, Schedule, NEW i \in Core
  PROVE  /\ Ended5 /\ Ended7(i) => Ended7(i)'
         /\ p7End'[i] => p5End
         /\ p7End'[i] /\ Ended5 => Ended7(i)'
<1>1. ct7[i] \in 0 .. WAIT_END_DELAY /\ Drained7(i) \in BOOLEAN
  BY DEF QueueInv, TypeOK, Drained7
<1>2. /\ p7End'[i] = Ended(Drained7(i), ct7[i]) /\ ct7'[i] = Count(Drained7(i), ct7[i])
      /\ p7V'[i] = Joint(i)
      /\ q7'[i] = Push(IF Joined(i) THEN Tail(q7[i]) ELSE q7[i], p5V[i])
  BY DEF Schedule
<1>3. ASSUME Drained7(i), ct7[i] >= WAIT_END_DELAY, Ended5
      PROVE  Ended7(i)'
  <2>1. q7[i] = <<>> /\ p5V[i] = None /\ ~Joined(i)
    BY <1>3 DEF Drained7, Joined, Ended5
  <2>2. p7V'[i] = None /\ q7'[i] = <<>>
    BY <1>2, <2>1 DEF Joint, Push
  <2>3. p7End'[i] /\ ct7'[i] >= WAIT_END_DELAY
    BY <1>1, <1>2, <1>3, CountStays
  <2> QED
    BY <2>2, <2>3 DEF Ended7
<1>4. Ended5 /\ Ended7(i) => Drained7(i) /\ ct7[i] >= WAIT_END_DELAY
  BY DEF Ended5, Ended7, Drained7
<1>5. p7End'[i] => Drained7(i) /\ ct7[i] >= WAIT_END_DELAY
  BY <1>1, <1>2, CountStays
<1> QED
  BY <1>3, <1>4, <1>5 DEF Drained7

(* The ends of an iteration come one after the other.                      *)
LEMMA NewEnds ==
  ASSUME QueueInv, NEW full, NEW accept, NEW answer, Pipeline(full, accept, answer),
         p1End' = allSent
  PROVE  /\ New1 => New2'
         /\ New1 /\ New2 => New4'
         /\ New2 /\ New4 => New5'
         /\ New4 /\ New5 => New7'
<1>0. ReadOffset /\ ReadMemories /\ ReadEdge /\ CombineEdgeRqst /\ Schedule
  BY DEF Pipeline
<1>1. ASSUME New1 PROVE New2'
  <2> SUFFICES ASSUME NEW c \in Core, p2End'[c] PROVE Ended2(c)' /\ p1End'[c]
    BY DEF New2, Ended2
  <2>1. p1End[c] /\ Ended2(c)'
    BY <1>0, End2
  <2> QED
    BY <1>1, <2>1 DEF New1, Sent
<1>2. ASSUME New1, New2 PROVE New4'
  <2> SUFFICES ASSUME NEW c \in Core, p4End'[c] PROVE Ended4(c)' /\ p2End'[c]
    BY DEF New4, Ended4
  <2>1. p2End[c]
    BY <1>0, End4
  <2>2. Ended2(c) /\ Ended1(c)
    BY <1>2, <2>1 DEF New1, New2
  <2>3. Ended2(c)' /\ Ended4(c)'
    BY <1>0, <2>2, End2, End4
  <2> QED
    BY <2>3 DEF Ended2
<1>3. ASSUME New2, New4 PROVE New5'
  <2> SUFFICES ASSUME p5End' PROVE Ended5' /\ \A c \in Core : p4End'[c]
    BY DEF New5, Ended5
  <2>1. \A c \in Core : p4End[c]
    BY <1>0, End5
  <2>2. \A c \in Core : Ended4(c) /\ Ended2(c)
    BY <1>3, <2>1 DEF New2, New4
  <2>3. \A c \in Core : Ended4(c)'
    BY <1>0, <2>2, End4
  <2> QED
    BY <1>0, <2>2, <2>3, End5 DEF Ended4
<1>4. ASSUME New4, New5 PROVE New7'
  <2> SUFFICES ASSUME NEW i \in Core, p7End'[i] PROVE Ended7(i)' /\ p5End'
    BY DEF New7, Ended7
  <2>1. p5End
    BY <1>0, End7
  <2>2. Ended5 /\ \A c \in Core : Ended4(c)
    BY <1>4, <2>1 DEF New4, New5
  <2>3. Ended7(i)' /\ Ended5'
    BY <1>0, <2>2, End5, End7
  <2> QED
    BY <2>3 DEF Ended5
<1> QED
  BY <1>1, <1>2, <1>3, <1>4

(* While the old ends fall, the stages behind stay ended.                  *)
LEMMA OldEnds ==
  ASSUME QueueInv, NEW full, NEW accept, NEW answer, Pipeline(full, accept, answer)
  PROVE  /\ (\A c \in Core : Ended1(c)) /\ Old2 => Old2'
         /\ Old2 /\ Old4 => Old4'
         /\ Old4 /\ Ended5 => Ended5'
         /\ Ended5 /\ Old7 => Old7'
         /\ Down(p1End) => Down(p2End)'
         /\ Down(p2End) => Down(p4End)'
         /\ Down(p4End) => ~p5End'
         /\ ~p5End => Down(p7End)'
<1>0. ReadOffset /\ ReadMemories /\ ReadEdge /\ CombineEdgeRqst /\ Schedule
  BY DEF Pipeline
<1>1. \A c \in Core : /\ Ended1(c) /\ Ended2(c) => Ended2(c)'
                      /\ Ended2(c) /\ Ended4(c) => Ended4(c)'
                      /\ Ended5 /\ Ended7(c) => Ended7(c)'
                      /\ p2End'[c] => p1End[c]
                      /\ p4End'[c] => p2End[c]
                      /\ p7End'[c] => p5End
  BY <1>0, End2, End4, End7
<1>2. /\ (\A c \in Core : Ended4(c)) /\ Ended5 => Ended5'
      /\ p5End' => \A c \in Core : p4End[c]
  BY <1>0, End5
<1>3. 0 \in Core
  BY Positive DEF Core
<1>4. /\ (\A c \in Core : Ended1(c)) /\ Old2 => Old2'
      /\ Old2 /\ Old4 => Old4'
      /\ Ended5 /\ Old7 => Old7'
  BY <1>1 DEF Old2, Old4, Old7, Ended2, Ended4, Ended7
<1>5. Old4 /\ Ended5 => Ended5'
  BY <1>2 DEF Old4
<1>6. /\ Down(p1End) => Down(p2End)'
      /\ Down(p2End) => Down(p4End)'
      /\ Down(p4End) => ~p5End'
      /\ ~p5End => Down(p7End)'
  BY <1>1, <1>2, <1>3 DEF Down
<1> QED
  BY <1>4, <1>5, <1>6

(* Stage 1 ends when it has nothing left to send.                          *)
LEMMA End1 ==
  ASSUME QueueInv, Ends, NEW send \in SUBSET MaySend, ReadActiveVertex(send)
  PROVE  /\ \A c \in Core : allSent'[c] => toSend'[c] = {}
         /\ New1' /\ p1End' = allSent /\ active' = active
         /\ \A c \in Core : Sent(c) => Sent(c)'
<1>1. \A c \in Core : allSent[c] => toSend[c] = {}
  BY DEF Ends
<1>2. ASSUME NEW c \in Core, toSend[c] = {}
      PROVE  toSend'[c] = {} /\ p1V'[c] = None /\ allSent'[c]
  <2>1. c \notin send
    BY <1>2 DEF MaySend
  <2> QED
    BY <1>2, <2>1 DEF ReadActiveVertex
<1>3. /\ p1End' = allSent /\ active' = active
      /\ \A c \in Core : allSent'[c] = (toSend[c] = {})
  BY DEF ReadActiveVertex
<1>4. \A c \in Core : p1End'[c] => Ended1(c)' /\ Sent(c)'
  BY <1>1, <1>2, <1>3 DEF Ended1, Sent
<1> QED
  BY <1>1, <1>2, <1>3, <1>4 DEF New1, Ended1, Sent

LEMMA NothingDelivered ==
  ASSUME NEW send, ReadActiveVertex(send), delivered = {}, \A c \in Core : stale[c], Old7'
  PROVE  delivered' = {} /\ \A c \in Core : stale'[c]
<1>1. \A i \in Core : p7V'[i] = None /\ p7End'[i]
  BY DEF Old7, Ended7
<1>2. delivered' = delivered \union {p7V'[i].edge : i \in {j \in Core : p7V'[j] # None}}
      /\ stale' = [c \in Core |-> stale[c] /\ p7End'[c]]
  BY DEF ReadActiveVertex
<1>3. {j \in Core : p7V'[j] # None} = {}
  BY <1>1
<1> QED
  BY <1>1, <1>2, <1>3

LEMMA EndsSend ==
  ASSUME QueueInv, Ends, NEW full, NEW accept, NEW answer, Pipeline(full, accept, answer),
         NEW send \in SUBSET MaySend, ReadActiveVertex(send)
  PROVE  Ends'
<1>1. /\ \A c \in Core : allSent'[c] => toSend'[c] = {}
      /\ New1' /\ p1End' = allSent
  BY End1
<1>2. /\ New1 => New2'
      /\ New1 /\ New2 => New4'
      /\ New2 /\ New4 => New5'
      /\ New4 /\ New5 => New7'
  BY <1>1, NewEnds
<1>3. /\ (\A c \in Core : Ended1(c)) /\ Old2 => Old2'
      /\ Old2 /\ Old4 => Old4'
      /\ Old4 /\ Ended5 => Ended5'
      /\ Ended5 /\ Old7 => Old7'
      /\ Down(p1End) => Down(p2End)'
      /\ Down(p2End) => Down(p4End)'
      /\ Down(p4End) => ~p5End'
      /\ ~p5End => Down(p7End)'
  BY OldEnds
<1>4. stale' = [c \in Core |-> stale[c] /\ p7End'[c]]
  BY DEF ReadActiveVertex
<1>5. CASE Restarting /\ ~Phase5
  <2>1. Old7'
    BY <1>3, <1>5 DEF Restarting, Phase1, Phase2, Phase3, Phase4
  <2>2. delivered' = {} /\ \A c \in Core : stale'[c]
    BY <1>5, <2>1, NothingDelivered DEF Restarting
  <2>3. CASE Phase1
    <3>1. (\A c \in Core : Ended1(c)) /\ Down(allSent) /\ Old2 /\ Old4 /\ Ended5 /\ Old7
      BY <2>3 DEF Phase1, Down
    <3>2. Phase2'
      BY <1>1, <1>3, <3>1 DEF Phase2, Down
    <3> QED
      BY <1>1, <2>2, <3>2 DEF Ends, Restarting
  <2>4. CASE Phase2
    <3>1. Phase3'
      BY <1>1, <1>3, <2>4 DEF Phase2, Phase3
    <3> QED
      BY <1>1, <2>2, <3>1 DEF Ends, Restarting
  <2>5. CASE Phase3
    <3>1. Phase4'
      BY <1>1, <1>2, <1>3, <2>5 DEF Phase3, Phase4
    <3> QED
      BY <1>1, <2>2, <3>1 DEF Ends, Restarting
  <2>6. CASE Phase4
    <3>1. Phase5'
      BY <1>1, <1>2, <1>3, <2>6 DEF Phase4, Phase5
    <3> QED
      BY <1>1, <2>2, <3>1 DEF Ends, Restarting
  <2> QED
    BY <1>5, <2>3, <2>4, <2>5, <2>6 DEF Restarting
<1>6. CASE Phase5
  <2>1. Down(p7End)'
    BY <1>3, <1>6 DEF Phase5
  <2>2. New7' /\ \A c \in Core : ~stale'[c]
    BY <1>4, <2>1 DEF Down, New7
  <2>3. Phase6'
    BY <1>1, <1>2, <1>6, <2>2 DEF Phase5, Phase6
  <2> QED
    BY <1>1, <2>3 DEF Ends
<1>7. CASE Phase6
  <2>1. Phase6'
    BY <1>1, <1>2, <1>4, <1>7 DEF Phase6
  <2> QED
    BY <1>1, <2>1 DEF Ends
<1> QED
  BY <1>5, <1>6, <1>7 DEF Ends

(* What the end of one scheduler means for all stages before it.           *)
LEMMA EndMeans ==
  ASSUME Ends, NEW i \in Core, p7End[i], ~stale[i]
  PROVE  /\ \A c \in Core : Ended1(c) /\ Sent(c) /\ Ended2(c) /\ Ended4(c)
         /\ Ended5 /\ Ended7(i)
         /\ (\A j \in Core : p7End[j]) => Old7
<1>1. Phase6
  BY DEF Ends, Restarting
<1>2. Ended7(i) /\ p5End
  BY <1>1 DEF Phase6, New7
<1>3. Ended5 /\ \A c \in Core : p4End[c]
  BY <1>1, <1>2 DEF Phase6, New5
<1>4. \A c \in Core : Ended4(c) /\ p2End[c]
  BY <1>1, <1>3 DEF Phase6, New4
<1>5. \A c \in Core : Ended2(c) /\ p1End[c]
  BY <1>1, <1>4 DEF Phase6, New2
<1>6. \A c \in Core : Ended1(c) /\ Sent(c)
  BY <1>1, <1>5 DEF Phase6, New1
<1>7. (\A j \in Core : p7End[j]) => Old7
  BY <1>1 DEF Phase6, New7, Old7
<1> QED
  BY <1>2, <1>3, <1>4, <1>5, <1>6, <1>7

LEMMA EndsRestart ==
  ASSUME QueueInv, Ends, NEW full, NEW accept, NEW answer, Pipeline(full, accept, answer),
         NextIteration
  PROVE  Ends' /\ Phase1' /\ delivered' = {}
<1>1. 0 \in Core
  BY Positive DEF Core
<1>2. /\ \A c \in Core : allSent[c] /\ p7End[c] /\ ~stale[c]
      /\ p1End' = allSent /\ p1V' = All(None) /\ allSent' = All(FALSE)
      /\ delivered' = {} /\ stale' = p7End'
  BY DEF NextIteration
<1>3. /\ \A c \in Core : Ended1(c) /\ Ended2(c) /\ Ended4(c)
      /\ Ended5 /\ Old7
  BY <1>1, <1>2, EndMeans
<1>4. /\ Old2' /\ Old4' /\ Ended5' /\ Old7'
  BY <1>3, OldEnds DEF Old2, Old4
<1>5. \A c \in Core : Ended1(c)' /\ ~allSent'[c]
  BY <1>2 DEF All, Ended1
<1>6. Phase1'
  BY <1>4, <1>5 DEF Phase1
<1>7. \A c \in Core : stale'[c]
  BY <1>2, <1>4 DEF Old7, Ended7
<1> QED
  BY <1>2, <1>5, <1>6, <1>7 DEF Ends, Restarting

LEMMA EndsInit == Init => Ends
<1> SUFFICES ASSUME Init PROVE Ends
  OBVIOUS
<1>1. /\ \A c \in Core : /\ ~allSent[c] /\ ~p1End[c] /\ ~p2End[c] /\ ~p4End[c] /\ ~p7End[c]
                         /\ ~stale[c]
      /\ ~p5End
  BY DEF Init, All
<1> QED
  BY <1>1 DEF Ends, Phase6, New1, New2, New4, New5, New7

-----------------------------------------------------------------------------
(***************************************************************************)
(* The beginning of an iteration: everything is empty, and all edges of    *)
(* the active vertices are still to be asked for.                          *)
(***************************************************************************)
Fresh ==
  /\ \A c \in Core : /\ toSend[c] = Own(c) /\ VertexStream(c) = <<>>
                     /\ offset[c] = <<>> /\ nowLOffset[c] = INFINITE_OFFSET
                     /\ Requests(c) = <<>> /\ Jobs(c) = <<>> /\ p7V[c] = None
  /\ delivered = {}

LEMMA NothingBehind == Behind(<<>>, None) = <<>> /\ Join(<<>>, <<>>) = <<>>
<1>1. Opt(None) = <<>> /\ <<>> \o <<>> = <<>>
  BY ConcatEmptySeq, EmptySeq DEF Opt
<1> QED
  BY <1>1 DEF Behind, Join

LEMMA FreshInit == Init => Fresh
<1> SUFFICES ASSUME Init PROVE Fresh
  OBVIOUS
<1>1. /\ \A c \in Core : /\ toSend[c] = Own(c) /\ vId[c] = <<>> /\ p2V[c] = None
                         /\ q2[c] = <<>> /\ p1V[c] = None
                         /\ offset[c] = <<>> /\ nowLOffset[c] = INFINITE_OFFSET
                         /\ rqst[c] = <<>> /\ p4[c] = None /\ q7[c] = <<>> /\ p5V[c] = None
                         /\ p7V[c] = None
      /\ delivered = {}
  BY DEF Init, All, Own
<1> QED
  BY <1>1, NothingBehind DEF Fresh, VertexStream, Requests, Jobs

LEMMA FreshRestart ==
  ASSUME QueueInv, Ends, NEW full, NEW accept, NEW answer, Pipeline(full, accept, answer),
         NextIteration
  PROVE  Fresh'
<1>1. Phase1' /\ delivered' = {}
  BY EndsRestart
<1>2. ASSUME NEW c \in Core
      PROVE  /\ vId'[c] = <<>> /\ p2V'[c] = None /\ q2'[c] = <<>> /\ p1V'[c] = None
             /\ rqst'[c] = <<>> /\ p4'[c] = None /\ q7'[c] = <<>> /\ p5V'[c] = None
             /\ p7V'[c] = None
  BY <1>1 DEF Phase1, Old2, Old4, Old7, Ended1, Ended2, Ended4, Ended5, Ended7
<1>3. ASSUME NEW c \in Core
      PROVE  toSend'[c] = Own(c)'
  BY DEF NextIteration, Own
<1>4. ASSUME NEW c \in Core
      PROVE  offset'[c] = <<>> /\ nowLOffset'[c] = INFINITE_OFFSET
  <2>1. p7End[c] /\ ~stale[c]
    BY DEF NextIteration
  <2>2. vId[c] = <<>> /\ offsetData[c] = None
    BY <2>1, EndMeans DEF Ended4
  <2>3. offset[c] = <<>>
    BY <2>2, NoOffsetWithoutId
  <2>4. ~Ready4(c) /\ ~Done4(c)
    BY <2>3 DEF Ready4, Done4
  <2> QED
    BY <2>2, <2>3, <2>4 DEF Pipeline, ReadEdge, NextLOffset, Pop4, Push
<1>5. ASSUME NEW c \in Core
      PROVE  VertexStream(c)' = <<>> /\ Requests(c)' = <<>> /\ Jobs(c)' = <<>>
  BY <1>2, NothingBehind DEF VertexStream, Requests, Jobs
<1> QED
  BY <1>1, <1>2, <1>3, <1>4, <1>5 DEF Fresh

LEMMA FreshIsFlow == Fresh => Flow
<1> SUFFICES ASSUME Fresh PROVE Flow
  OBVIOUS
<1>1. \A c \in Core : /\ 1 .. Len(VertexStream(c)) = {} /\ 1 .. Len(Requests(c)) = {}
                      /\ 1 .. Len(Jobs(c)) = {}
  <2>1. 1 .. Len(<<>>) = {}
    BY EmptySeq
  <2> QED
    BY <2>1 DEF Fresh
<1>2. VerticesOk
  BY <1>1 DEF Fresh, VerticesOk
<1>3. NowOk
  BY DEF Fresh, NowOk
<1>4. RequestsOk /\ AskedOnce
  BY <1>1 DEF RequestsOk, AskedOnce
<1>5. JobsOk /\ FetchedOnce
  BY <1>1 DEF JobsOk, FetchedOnce
<1>6. UpdateIsEdge
  BY DEF Fresh, UpdateIsEdge
<1>7. \A c \in Core : Asked(c) = {} /\ Fetched(c) = {}
  BY <1>1 DEF Asked, Fetched
<1>8. OnePlace
  BY <1>7 DEF OnePlace, Fresh
<1>9. SomePlace
  <2> SUFFICES ASSUME NEW c \in Core, NEW v \in Own(c), NEW e \in EdgesOf(v)
               PROVE  e \in ToAsk(c)
    BY DEF SomePlace
  <2>1. v \in Vertex /\ v \in toSend[c]
    BY DEF Own, VerticesOf, Fresh
  <2>2. e \in Nat
    BY <2>1, RangeFacts
  <2> QED
    BY <2>1, <2>2 DEF ToAsk
<1> QED
  BY <1>2, <1>3, <1>4, <1>5, <1>6, <1>8, <1>9 DEF Flow

-----------------------------------------------------------------------------
(***************************************************************************)
(* The vertices of a core.                                                 *)
(***************************************************************************)

LEMMA SentVertex ==
  ASSUME QueueInv, NEW send \in SUBSET MaySend, ReadActiveVertex(send), NEW c \in Core
  PROVE  /\ p1V'[c] \in Option(Vertex)
         /\ p1V'[c] # None => p1V'[c] \in toSend[c]
         /\ toSend'[c] = toSend[c] \ {p1V'[c]}
         /\ active' = active /\ Own(c)' = Own(c)
<1>1. toSend[c] \subseteq Vertex
  BY DEF QueueInv, TypeOK
<1>2. active' = active /\ Own(c)' = Own(c)
  BY DEF ReadActiveVertex, Own
<1>3. /\ p1V'[c] = IF c \in send THEN LowestOf(toSend[c]) ELSE None
      /\ toSend'[c] = IF c \in send THEN toSend[c] \ {LowestOf(toSend[c])} ELSE toSend[c]
  BY DEF ReadActiveVertex
<1>4. CASE c \in send
  <2>1. toSend[c] # {}
    BY <1>4 DEF MaySend
  <2>2. LowestOf(toSend[c]) \in toSend[c]
    BY <1>1, <2>1, LowestOfFacts
  <2> QED
    BY <1>1, <1>2, <1>3, <1>4, <2>2 DEF Option
<1>5. CASE c \notin send
  <2>1. None \notin toSend[c]
    BY <1>1, NoneIsNone
  <2> QED
    BY <1>2, <1>3, <1>5, <2>1 DEF Option
<1> QED
  BY <1>4, <1>5

LEMMA VerticesStep ==
  ASSUME QueueInv, VerticesOk, NEW full, NEW accept, NEW answer,
         Pipeline(full, accept, answer), NEW send \in SUBSET MaySend, ReadActiveVertex(send)
  PROVE  VerticesOk'
<1> SUFFICES ASSUME NEW c \in Core
             PROVE  /\ toSend'[c] \subseteq Own(c)'
                    /\ \A k \in 1 .. Len(VertexStream(c)') :
                         /\ VertexStream(c)'[k] \in Own(c)' \ toSend'[c]
                         /\ \A l \in 1 .. Len(VertexStream(c)') :
                              VertexStream(c)'[k] = VertexStream(c)'[l] => k = l
  BY DEF VerticesOk
<1> DEFINE s == VertexStream(c)
           t == VertexStream(c)'
           n == Taken(Done4(c))
           y == p1V'[c]
<1>1. /\ y \in Option(Vertex) /\ (y # None => y \in toSend[c])
      /\ toSend'[c] = toSend[c] \ {y} /\ Own(c)' = Own(c)
  BY SentVertex
<1>2. t = Moved(s, n, y) /\ CanMove(Vertex, s, n, y)
  BY <1>1, VertexStreamMoves DEF Pipeline
<1>3. /\ toSend[c] \subseteq Own(c)
      /\ \A k \in 1 .. Len(s) :
           /\ s[k] \in Own(c) \ toSend[c]
           /\ \A l \in 1 .. Len(s) : s[k] = s[l] => k = l
  BY DEF VerticesOk
<1> HIDE DEF s, t, n, y
<1>4. /\ Len(s) \in Nat /\ n \in 0 .. 1 /\ Len(t) \in Nat
      /\ \A k \in 1 .. Len(t) :
           IF k <= Len(s) - n THEN k + n \in 1 .. Len(s) /\ t[k] = s[k + n]
           ELSE y # None /\ t[k] = y /\ k = Len(t)
  <2>1. Moved(s, n, y) \in Seq(Vertex) /\ n \in 0 .. 1
    BY <1>2, MovedElements DEF CanMove
  <2> QED
    BY <1>2, <2>1, MovedElements, LenProperties
<1>5. ASSUME NEW k \in 1 .. Len(t)
      PROVE  t[k] \in Own(c)' \ toSend'[c]
  <2>1. CASE k <= Len(s) - n
    BY <1>1, <1>3, <1>4, <2>1
  <2>2. CASE ~(k <= Len(s) - n)
    BY <1>1, <1>3, <1>4, <2>2
  <2> QED
    BY <2>1, <2>2
<1>6. ASSUME NEW k \in 1 .. Len(t), NEW l \in 1 .. Len(t), t[k] = t[l]
      PROVE  k = l
  <2>1. k \in Int /\ l \in Int
    OBVIOUS
  <2>2. CASE k <= Len(s) - n /\ l <= Len(s) - n
    <3>1. k + n = l + n
      BY <1>3, <1>4, <1>6, <2>2
    <3> QED
      BY <1>4, <2>1, <3>1
  <2>3. CASE k <= Len(s) - n /\ ~(l <= Len(s) - n)
    <3>1. t[k] \notin toSend[c] /\ t[l] \in toSend[c]
      BY <1>1, <1>3, <1>4, <2>3
    <3> QED
      BY <1>6, <3>1
  <2>4. CASE ~(k <= Len(s) - n) /\ l <= Len(s) - n
    <3>1. t[l] \notin toSend[c] /\ t[k] \in toSend[c]
      BY <1>1, <1>3, <1>4, <2>4
    <3> QED
      BY <1>6, <3>1
  <2>5. CASE ~(k <= Len(s) - n) /\ ~(l <= Len(s) - n)
    BY <1>4, <2>5
  <2> QED
    BY <2>2, <2>3, <2>4, <2>5
<1>7. toSend'[c] \subseteq Own(c)'
  BY <1>1, <1>3
<1> QED
  BY <1>5, <1>6, <1>7 DEF t

-----------------------------------------------------------------------------
(***************************************************************************)
(* The head of the vertices: which of its edges have been asked for.       *)
(***************************************************************************)

LEMMA InfiniteLine == Line(INFINITE_OFFSET) = EDGE_NUM + 1
<1>1. 0 \in 0 .. CACHELINE_LEN - 1 /\ EDGE_NUM + 1 \in Int /\ CACHELINE_LEN \in Nat \ {0}
      /\ (EDGE_NUM + 1) * CACHELINE_LEN + 0 = (EDGE_NUM + 1) * CACHELINE_LEN
  BY Positive
<1> QED
  BY <1>1, DigitsUnique DEF Line, INFINITE_OFFSET

HeadOk ==
  \A c \in Core : offset[c] # <<>> =>
    /\ Head(vId[c]) \in Vertex /\ 1 \in 1 .. Len(VertexStream(c))
    /\ VertexStream(c)[1] = Head(vId[c])
    /\ EdgesOf(Head(vId[c])) = Lo(c) .. Hi(c) /\ Hi(c) - Lo(c) + 1 = Degree[Head(vId[c])]
    /\ nowLOffset[c] \in {INFINITE_OFFSET, Lo(c)} =>
         \A e \in Lo(c) .. Hi(c) : e >= Start(c)
    /\ Lo(c) < nowLOffset[c] /\ nowLOffset[c] <= Hi(c) => Start(c) = nowLOffset[c]
    /\ ~NoEdges(c) => Start(c) >= Lo(c)

LEMMA HeadOfStream ==
  ASSUME QueueInv, NEW c \in Core
  PROVE  /\ vId[c] # <<>> => /\ 1 \in 1 .. Len(VertexStream(c))
                             /\ VertexStream(c)[1] = Head(vId[c])
         /\ vId[c] = <<>> /\ VertexStream(c) # <<>> => offset[c] = <<>>
<1>1. /\ vId[c] \in Seq(Vertex) /\ p2V[c] \in Option(Vertex) /\ q2[c] \in Seq(Vertex)
      /\ p1V[c] \in Option(Vertex)
  BY DEF QueueInv, TypeOK
<1>2. /\ Behind(vId[c], p2V[c]) \in Seq(Vertex) /\ Behind(q2[c], p1V[c]) \in Seq(Vertex)
      /\ VertexStream(c) \in Seq(Vertex)
  BY <1>1, OptType, ConcatProperties DEF Behind, Join, VertexStream
<1>3. ASSUME vId[c] # <<>>
      PROVE  1 \in 1 .. Len(VertexStream(c)) /\ VertexStream(c)[1] = Head(vId[c])
  <2>1. Head(Behind(vId[c], p2V[c])) = Head(vId[c]) /\ Behind(vId[c], p2V[c]) # <<>>
    <3>1. Opt(p2V[c]) \in Seq(Vertex)
      BY <1>1, OptType
    <3> QED
      BY <1>1, <1>3, <3>1, TailConcat DEF Behind, Join
  <2>2. Head(VertexStream(c)) = Head(vId[c]) /\ VertexStream(c) # <<>>
    BY <1>2, <2>1, TailConcat DEF VertexStream, Join
  <2>3. VertexStream(c)[1] = Head(VertexStream(c)) /\ Len(VertexStream(c)) \in Nat \ {0}
    BY <1>2, <2>2, PopFacts
  <2> QED
    BY <2>2, <2>3
<1> QED
  BY <1>3, NoOffsetWithoutId

LEMMA HeadIsOk == QueueInv /\ Answers /\ NowOk => HeadOk
<1> SUFFICES ASSUME QueueInv, Answers, NowOk, NEW c \in Core, offset[c] # <<>>
             PROVE  /\ Head(vId[c]) \in Vertex /\ 1 \in 1 .. Len(VertexStream(c))
                    /\ VertexStream(c)[1] = Head(vId[c])
                    /\ EdgesOf(Head(vId[c])) = Lo(c) .. Hi(c)
                    /\ Hi(c) - Lo(c) + 1 = Degree[Head(vId[c])]
                    /\ nowLOffset[c] \in {INFINITE_OFFSET, Lo(c)} =>
                         \A e \in Lo(c) .. Hi(c) : e >= Start(c)
                    /\ Lo(c) < nowLOffset[c] /\ nowLOffset[c] <= Hi(c) =>
                         Start(c) = nowLOffset[c]
                    /\ ~NoEdges(c) => Start(c) >= Lo(c)
  BY DEF HeadOk
<1>0. TypeOK
  BY DEF QueueInv
<1>1. Head(vId[c]) \in Vertex /\ Lo(c) = LOffset[Head(vId[c])]
      /\ Hi(c) = LOffset[Head(vId[c]) + 1] - 1
  BY AnswersAtFront
<1>2. EdgesOf(Head(vId[c])) = Lo(c) .. Hi(c)
  BY <1>1 DEF EdgesOf
<1>3. Hi(c) - Lo(c) + 1 = Degree[Head(vId[c])]
  BY <1>1, RangeFacts
<1>4. 1 \in 1 .. Len(VertexStream(c)) /\ VertexStream(c)[1] = Head(vId[c])
  BY NoOffsetWithoutId, HeadOfStream
<1>5. Lo(c) \in Nat /\ Hi(c) \in Int /\ Hi(c) < EDGE_NUM /\ nowLOffset[c] \in Nat
      /\ Hi(c) >= Lo(c) - 1
  <2>1. nowLOffset[c] \in 0 .. INFINITE_OFFSET
    BY <1>0 DEF TypeOK
  <2>2. nowLOffset[c] \in Nat
    BY <2>1
  <2> QED
    BY <1>0, <2>2, LoHi
<1>6. ASSUME ~NoEdges(c)
      PROVE  /\ nowLOffset[c] \in {INFINITE_OFFSET, Lo(c)} => Start(c) = Lo(c)
             /\ Lo(c) < nowLOffset[c] /\ nowLOffset[c] <= Hi(c) => Start(c) = nowLOffset[c]
  <2>1. Line(Hi(c)) \in Nat /\ Line(Hi(c)) <= EDGE_NUM
    BY <1>0, <1>6, StartFacts
  <2>2. CASE nowLOffset[c] = INFINITE_OFFSET
    <3>1. Line(nowLOffset[c]) > Line(Hi(c))
      BY <2>1, <2>2, InfiniteLine, Positive
    <3>2. nowLOffset[c] > Hi(c)
      <4>1. INFINITE_OFFSET >= EDGE_NUM + 1
        <5>1. (EDGE_NUM + 1) * CACHELINE_LEN >= (EDGE_NUM + 1) * 1
          BY Positive
        <5> QED
          BY <5>1, Positive DEF INFINITE_OFFSET
      <4> QED
        BY <1>5, <2>2, <4>1, Positive
    <3> QED
      BY <1>5, <3>1, <3>2 DEF Start
  <2>3. CASE nowLOffset[c] = Lo(c)
    BY <1>5, <2>3 DEF Start
  <2>4. CASE Lo(c) < nowLOffset[c] /\ nowLOffset[c] <= Hi(c)
    <3>1. Line(nowLOffset[c]) <= Line(Hi(c))
      BY <1>5, <2>4, Positive, QuotientMonotone DEF Line
    <3>2. Line(nowLOffset[c]) \in Int
      BY <1>5, LineLane
    <3>3. Start(c) = nowLOffset[c]
      BY <2>1, <3>1, <3>2 DEF Start
    <3>4. nowLOffset[c] # INFINITE_OFFSET
      <4>1. Line(nowLOffset[c]) <= EDGE_NUM
        BY <2>1, <3>1, <3>2, Positive
      <4> QED
        BY <3>2, <4>1, InfiniteLine, Positive
    <3> QED
      BY <1>5, <2>4, <3>3, <3>4
  <2> QED
    BY <2>2, <2>3, <2>4
<1>7. NoEdges(c) => Lo(c) .. Hi(c) = {} /\ ~(Lo(c) < nowLOffset[c] /\ nowLOffset[c] <= Hi(c))
  BY <1>5 DEF NoEdges
<1>8. nowLOffset[c] \in {INFINITE_OFFSET, Lo(c)}
      \/ (Lo(c) < nowLOffset[c] /\ nowLOffset[c] <= Hi(c))
  BY DEF NowOk
<1>9. ~NoEdges(c) => Start(c) >= Lo(c)
  BY <1>5, <1>6, <1>8
<1>10. nowLOffset[c] \in {INFINITE_OFFSET, Lo(c)} => \A e \in Lo(c) .. Hi(c) : e >= Start(c)
  BY <1>5, <1>6, <1>7
<1> QED
  BY <1>1, <1>2, <1>3, <1>4, <1>6, <1>7, <1>9, <1>10

(* The request that is sent: the edges from where it starts to the end of  *)
(* the line or of the range.                                               *)
LEMMA RequestEdges ==
  ASSUME QueueInv, ReadEdge, NEW c \in Core, Send4(c), NEW e \in Nat
  PROVE  e \in LineEdges(p4'[c]) <=>
           Start(c) <= e /\ e <= Hi(c) /\ Line(e) = Line(Start(c))
<1> DEFINE s == Start(c)
           h == Hi(c)
           L == Line(s)
           C == CACHELINE_LEN
<1>1. /\ offset[c] # <<>> /\ ~NoEdges(c) /\ TypeOK
  BY DEF Send4, Ready4, QueueInv
<1>2. /\ h \in Nat /\ s \in Nat /\ L \in Nat /\ Line(h) \in Nat /\ L <= Line(h)
      /\ Lane(s) \in Core /\ Lane(h) \in Core /\ C \in Nat \ {0} /\ Core = 0 .. C - 1
      /\ s = L * C + Lane(s) /\ h = Line(h) * C + Lane(h)
  BY <1>1, StartFacts, Positive DEF Core
<1>3. LineEdges(p4'[c]) = {L * C + i : i \in Mask(c)}
  BY DEF ReadEdge, LineEdges
<1>4. Mask(c) = {i \in Core : i >= Lane(s) /\ (L = Line(h) => i <= Lane(h))}
  BY DEF Mask
<1> DEFINE f == Line(e)
           i == Lane(e)
           H == Line(h)
           a == Lane(s)
           b == Lane(h)
<1>5. f \in Int /\ i \in Core /\ e = f * C + i
  BY LineLane
<1>6. \A j \in Core : L * C + j = e <=> f = L /\ i = j
  <2>1. ASSUME NEW j \in Core, L * C + j = e
        PROVE  f = L /\ i = j
    <3>0. L \in Int /\ C \in Nat \ {0} /\ j \in 0 .. C - 1 /\ L * C + j = e
      BY <1>2, <2>1
    <3> HIDE DEF L, C
    <3>1. (L * C + j) % C = j /\ (L * C + j) \div C = L
      BY <3>0, DigitsUnique
    <3> QED
      BY <3>0, <3>1 DEF Line, Lane, C
  <2> QED
    BY <1>5, <2>1
<1>7. e \in LineEdges(p4'[c]) <=> f = L /\ i >= a /\ (L = H => i <= b)
  <2>1. e \in LineEdges(p4'[c]) <=> \E j \in Mask(c) : L * C + j = e
    BY <1>3
  <2> HIDE DEF s, h, L, C, f, i
  <2> QED
    BY <1>4, <1>5, <1>6, <2>1
<1>8. /\ a \in 0 .. C - 1 /\ b \in 0 .. C - 1 /\ i \in 0 .. C - 1 /\ f \in Int /\ H \in Nat
      /\ s = L * C + a /\ h = H * C + b
  BY <1>2, <1>5
<1> HIDE DEF s, h, L, C, f, i, H, a, b
<1>9. ASSUME f = L
      PROVE  (i >= a /\ (L = H => i <= b)) <=> (s <= e /\ e <= h)
  <2>1. L * C \in Int
    BY <1>2
  <2>2. s <= e <=> a <= i
    <3> DEFINE p == L * C
    <3>1. s = p + a /\ e = p + i /\ p \in Int /\ a \in Int /\ i \in Int
      BY <1>5, <1>8, <1>9, <2>1
    <3> HIDE DEF p
    <3> QED
      BY <3>1
  <2>3. CASE L = H
    <3> DEFINE p == L * C
    <3>1. h = p + b /\ e = p + i /\ p \in Int /\ b \in Int /\ i \in Int
      BY <1>5, <1>8, <1>9, <2>1, <2>3
    <3> HIDE DEF p
    <3>2. e <= h <=> i <= b
      BY <3>1
    <3> QED
      BY <2>2, <2>3, <3>2, <1>8
  <2>4. CASE L < H
    <3>1. H * C >= (L + 1) * C
      BY <1>2, <1>8, <2>4, ProductMonotone
    <3>2. (L + 1) * C = L * C + C
      BY <1>2
    <3> DEFINE p == L * C
               q == H * C
    <3>3. /\ q >= p + C /\ h = q + b /\ e = p + i /\ p \in Int /\ q \in Int /\ b \in Int
          /\ i \in Int /\ i <= C - 1 /\ 0 <= b /\ C \in Int
      BY <1>2, <1>5, <1>8, <1>9, <2>1, <3>1, <3>2
    <3> HIDE DEF p, q
    <3>4. e <= h
      BY <3>3
    <3> QED
      BY <1>2, <1>8, <2>2, <2>4, <3>4
  <2> QED
    BY <1>2, <1>8, <2>3, <2>4 DEF H
<1> QED
  BY <1>7, <1>9 DEF s, h, L, f

(* When the line is the last one of the range, these are all that are      *)
(* left; when it is not, the next request starts behind them.              *)
LEMMA LastRequest ==
  ASSUME QueueInv, ReadEdge, NEW c \in Core, Send4(c), NEW e \in Nat, Done4(c)
  PROVE  e \in LineEdges(p4'[c]) <=> Start(c) <= e /\ e <= Hi(c)
<1>1. offset[c] # <<>> /\ ~NoEdges(c) /\ TypeOK /\ Line(Start(c)) = Line(Hi(c))
  BY DEF Send4, Ready4, Done4, QueueInv
<1>2. Start(c) \in Nat /\ Hi(c) \in Nat /\ Line(Start(c)) \in Nat /\ Line(e) \in Int
  BY <1>1, StartFacts, LineLane
<1>3. ASSUME Start(c) <= e, e <= Hi(c) PROVE Line(e) = Line(Start(c))
  <2>1. Line(Start(c)) <= Line(e) /\ Line(e) <= Line(Hi(c))
    BY <1>2, <1>3, Positive, QuotientMonotone DEF Line
  <2> QED
    BY <1>1, <1>2, <2>1
<1> QED
  BY <1>3, RequestEdges

LEMMA NextRequest ==
  ASSUME QueueInv, ReadEdge, NEW c \in Core, Send4(c), ~Done4(c)
  PROVE  /\ Start(c) < nowLOffset'[c] /\ nowLOffset'[c] <= Hi(c) /\ Lane(nowLOffset'[c]) = 0
         /\ nowLOffset'[c] \in Nat
         /\ \A e \in Nat : e \in LineEdges(p4'[c]) <=> Start(c) <= e /\ e < nowLOffset'[c]
<1> DEFINE s == Start(c)
           h == Hi(c)
           L == Line(s)
           H == Line(h)
           C == CACHELINE_LEN
           m == nowLOffset'[c]
<1>1. offset[c] # <<>> /\ ~NoEdges(c) /\ TypeOK /\ L # H /\ Ready4(c) /\ ~p5Full[c]
  BY DEF Send4, Ready4, Done4, QueueInv
<1>2. /\ h \in Nat /\ s \in Nat /\ L \in Nat /\ H \in Nat /\ L < H
      /\ Lane(s) \in 0 .. C - 1 /\ Lane(h) \in 0 .. C - 1 /\ C \in Nat \ {0}
      /\ s = L * C + Lane(s) /\ h = H * C + Lane(h)
  BY <1>1, StartFacts, Positive DEF Core
<1>3. m = (L + 1) * C
  BY <1>1 DEF ReadEdge, NextLOffset
<1> DEFINE a == Lane(s)
           b == Lane(h)
<1>4. a \in 0 .. C - 1 /\ b \in 0 .. C - 1 /\ s = L * C + a /\ h = H * C + b
  BY <1>2
<1>5. Line(m) = L + 1 /\ Lane(m) = 0
  <2>1. 0 \in 0 .. C - 1 /\ L + 1 \in Int /\ (L + 1) * C + 0 = (L + 1) * C
    BY <1>2
  <2>2. ((L + 1) * C + 0) % C = 0 /\ ((L + 1) * C + 0) \div C = L + 1
    BY <1>2, <2>1, DigitsUnique
  <2> QED
    BY <1>3, <2>1, <2>2 DEF Line, Lane
<1>6. \A e \in Nat : e \in LineEdges(p4'[c]) <=> s <= e /\ e <= h /\ Line(e) = L
  BY RequestEdges
<1> HIDE DEF s, h, L, H, C, m, a, b
<1>7. s < m /\ m <= h /\ m \in Nat
  <2>1. H * C >= (L + 1) * C /\ (L + 1) * C = L * C + C
    BY <1>2, ProductMonotone
  <2> DEFINE p == L * C
             q == H * C
  <2>2. p \in Nat /\ q \in Nat /\ m = p + C /\ q >= p + C /\ s = p + a /\ h = q + b
    BY <1>2, <1>3, <1>4, <2>1
  <2> HIDE DEF p, q
  <2> QED
    BY <1>2, <1>4, <2>2
<1>8. ASSUME NEW e \in Nat
      PROVE  (s <= e /\ e <= h /\ Line(e) = L) <=> (s <= e /\ e < m)
  <2>1. Line(e) \in Int
    BY LineLane
  <2>2. ASSUME s <= e, e < m PROVE Line(e) = L
    <3>1. L <= Line(e)
      BY <1>2, <2>2, Positive, QuotientMonotone DEF Line, L
    <3>2. Line(e) < L + 1
      <4>1. e < (L + 1) * C /\ L + 1 \in Nat
        BY <1>2, <1>3, <2>2
      <4> QED
        BY <1>2, <4>1, QuotientBound DEF Line, C
    <3>3. L \in Int
      BY <1>2
    <3> QED
      BY <2>1, <3>1, <3>2, <3>3
  <2>3. ASSUME ~(e < m) PROVE Line(e) # L
    <3>1. Line(m) <= Line(e)
      BY <1>7, <2>3, Positive, QuotientMonotone DEF Line
    <3> QED
      BY <1>2, <1>5, <2>1, <3>1
  <2> QED
    BY <1>2, <1>7, <2>2, <2>3
<1>9. Lane(m) = 0
  BY <1>5
<1> QED
  BY <1>6, <1>7, <1>8, <1>9 DEF s, h, m, L

(* What stands at the head of the offsets after a tick.                    *)
LEMMA OffsetFront ==
  ASSUME QueueInv, ReadEdge, NEW c \in Core
  PROVE  /\ ~Done4(c) /\ offset[c] # <<>> =>
              offset'[c] # <<>> /\ Lo(c)' = Lo(c) /\ Hi(c)' = Hi(c)
         /\ Done4(c) => /\ offset[c] # <<>>
                        /\ Len(offset[c]) > 1 => offset'[c] # <<>> /\ Lo(c)' = offset[c][2].lo
         /\ value[c] # <<>> /\ ~Done4(c) => value'[c] # <<>>
<1> DEFINE n == Taken(Done4(c))
<1>1. /\ offset[c] \in Seq(EdgeRange) /\ offsetData[c] \in Option(EdgeRange)
      /\ value[c] \in Seq(Vertex) /\ srcV[c] \in Option(Vertex)
  BY DEF QueueInv, TypeOK
<1>2. n \in 0 .. 1 /\ (Done4(c) <=> n = 1) /\ (Done4(c) => offset[c] # <<>> /\ value[c] # <<>>)
  BY Done4Facts
<1>3. CanMove(EdgeRange, offset[c], n, offsetData[c]) /\ CanMove(Vertex, value[c], n, srcV[c])
  BY <1>1, <1>2, NoneIsNone DEF CanMove
<1>4. /\ offset'[c] = Pushed(offset[c], n, offsetData[c])
      /\ value'[c] = Pushed(value[c], n, srcV[c])
  BY Pop4Moves DEF ReadEdge, Pushed
<1>5. Lo(c)' = Head(offset'[c]).lo /\ Hi(c)' = Head(offset'[c]).hi
  BY DEF Lo, Hi
<1> HIDE DEF n
<1>6. /\ offset'[c] = Moved(offset[c], n, offsetData[c])
      /\ value'[c] = Moved(value[c], n, srcV[c])
  BY <1>3, <1>4, PushedIsMoved
<1>7. /\ offset'[c] \in Seq(EdgeRange)
      /\ Len(offset'[c]) = Len(offset[c]) - n + Held(offsetData[c]) /\ Len(offset[c]) \in Nat
      /\ \A k \in 1 .. Len(offset'[c]) :
           k <= Len(offset[c]) - n => offset'[c][k] = offset[c][k + n]
  BY <1>3, <1>6, MovedElements
<1>8. /\ value'[c] \in Seq(Vertex) /\ Len(value'[c]) = Len(value[c]) - n + Held(srcV[c])
      /\ Len(value[c]) \in Nat
  BY <1>3, <1>6, MovedElements
<1>9. offset'[c] # <<>> => Head(offset'[c]) = offset'[c][1] /\ 1 \in 1 .. Len(offset'[c])
  <2>1. offset'[c] # <<>> => Head(offset'[c]) = offset'[c][1] /\ Len(offset'[c]) \in Nat \ {0}
    BY <1>7, PopFacts
  <2> QED
    BY <2>1
<1>10. Held(offsetData[c]) \in Nat /\ Held(srcV[c]) \in Nat
  BY HeldFacts
<1>11. ASSUME ~Done4(c), offset[c] # <<>>
       PROVE  offset'[c] # <<>> /\ Lo(c)' = Lo(c) /\ Hi(c)' = Hi(c)
  <2>1. n = 0 /\ Len(offset[c]) \in Nat \ {0} /\ Head(offset[c]) = offset[c][1]
    BY <1>1, <1>2, <1>11, PopFacts
  <2>2. Len(offset'[c]) # 0
    BY <1>7, <1>10, <2>1
  <2>3. offset'[c] # <<>>
    BY <2>2, EmptySeq
  <2>4. offset'[c][1] = offset[c][1]
    BY <1>7, <1>9, <2>1, <2>3
  <2> QED
    BY <1>5, <1>9, <2>1, <2>3, <2>4 DEF Lo, Hi
<1>12. ASSUME Done4(c), Len(offset[c]) > 1
       PROVE  offset'[c] # <<>> /\ Lo(c)' = offset[c][2].lo
  <2>1. n = 1
    BY <1>2, <1>12
  <2>2. Len(offset'[c]) # 0
    BY <1>7, <1>10, <1>12, <2>1
  <2>3. offset'[c] # <<>>
    BY <2>2, EmptySeq
  <2>4. offset'[c][1] = offset[c][2]
    BY <1>7, <1>9, <1>12, <2>1, <2>3
  <2> QED
    BY <1>5, <1>9, <2>3, <2>4
<1>13. ASSUME value[c] # <<>>, ~Done4(c) PROVE value'[c] # <<>>
  <2>1. n = 0 /\ Len(value[c]) \in Nat \ {0}
    BY <1>1, <1>2, <1>13, PopFacts
  <2>2. Len(value'[c]) # 0
    BY <1>8, <1>10, <2>1
  <2> QED
    BY <2>2, EmptySeq
<1> QED
  BY <1>2, <1>11, <1>12, <1>13

LEMMA NowStep ==
  ASSUME QueueInv, NowOk, ReadEdge
  PROVE  NowOk'
<1> SUFFICES ASSUME NEW c \in Core
             PROVE  IF offset'[c] = <<>> THEN nowLOffset'[c] = INFINITE_OFFSET
                    ELSE \/ nowLOffset'[c] \in {INFINITE_OFFSET, Lo(c)'}
                         \/ /\ value'[c] # <<>> /\ Lo(c)' < nowLOffset'[c]
                            /\ nowLOffset'[c] <= Hi(c)' /\ Lane(nowLOffset'[c]) = 0
  BY DEF NowOk, Lane
<1>1. /\ ~Done4(c) /\ offset[c] # <<>> =>
            offset'[c] # <<>> /\ Lo(c)' = Lo(c) /\ Hi(c)' = Hi(c)
      /\ Done4(c) => /\ offset[c] # <<>>
                     /\ Len(offset[c]) > 1 => offset'[c] # <<>> /\ Lo(c)' = offset[c][2].lo
      /\ value[c] # <<>> /\ ~Done4(c) => value'[c] # <<>>
  BY OffsetFront
<1>2. nowLOffset'[c] = NextLOffset(c)
  BY DEF ReadEdge
<1>3. CASE ~Ready4(c)
  BY <1>2, <1>3 DEF NextLOffset
<1>4. CASE Ready4(c) /\ p5Full[c]
  <2>1. ~Done4(c) /\ nowLOffset'[c] = nowLOffset[c] /\ offset[c] # <<>> /\ value[c] # <<>>
    BY <1>2, <1>4 DEF NextLOffset, Done4, Ready4
  <2> QED
    BY <1>1, <2>1 DEF NowOk
<1>5. CASE Ready4(c) /\ ~p5Full[c] /\ NoEdges(c)
  BY <1>2, <1>5 DEF NextLOffset
<1>6. CASE Send4(c) /\ ~Done4(c)
  <2>1. /\ Start(c) < nowLOffset'[c] /\ nowLOffset'[c] <= Hi(c) /\ Lane(nowLOffset'[c]) = 0
        /\ nowLOffset'[c] \in Nat
    BY <1>6, NextRequest
  <2>2. offset[c] # <<>> /\ value[c] # <<>> /\ ~NoEdges(c) /\ TypeOK
    BY <1>6 DEF Send4, Ready4, QueueInv
  <2>3. Lo(c) <= Start(c) /\ Lo(c) \in Nat /\ Start(c) \in Nat
    <3>1. Lo(c) \in Nat /\ Start(c) \in Nat
      BY <2>2, LoHi, StartFacts
    <3>2. Start(c) \in {Lo(c), nowLOffset[c]}
      BY DEF Start
    <3>3. CASE nowLOffset[c] = INFINITE_OFFSET
      <4>1. Line(nowLOffset[c]) > Line(Hi(c))
        <5>1. Line(Hi(c)) \in Nat /\ Line(Hi(c)) <= EDGE_NUM
          BY <2>2, StartFacts
        <5> QED
          BY <3>3, <5>1, InfiniteLine, Positive
      <4> QED
        BY <3>1, <4>1 DEF Start
    <3>4. CASE nowLOffset[c] # INFINITE_OFFSET
      BY <2>2, <3>1, <3>2, <3>4 DEF NowOk
    <3> QED
      BY <3>1, <3>3, <3>4
  <2>4. Lo(c) < nowLOffset'[c]
    BY <2>1, <2>3
  <2> QED
    BY <1>1, <1>6, <2>1, <2>2, <2>4
<1>7. CASE Send4(c) /\ Done4(c)
  <2>1. nowLOffset'[c] = IF Len(offset[c]) > 1 THEN offset[c][2].lo ELSE INFINITE_OFFSET
    BY <1>2, <1>7 DEF NextLOffset, Send4
  <2> QED
    BY <1>1, <1>7, <2>1
<1> QED
  BY <1>3, <1>4, <1>5, <1>6, <1>7 DEF Send4

(* Only the beginning of a vertex, or what NextRequest found, can be where *)
(* the next head stands.                                                   *)
LEMMA NextNow ==
  ASSUME QueueInv, NowOk, ReadEdge, NEW c \in Core
  PROVE  /\ Done4(c) /\ offset'[c] # <<>> => nowLOffset'[c] \in {INFINITE_OFFSET, Lo(c)'}
         /\ ~Ready4(c) => /\ nowLOffset'[c] = INFINITE_OFFSET
                          /\ offset[c] # <<>> => nowLOffset[c] \in {INFINITE_OFFSET, Lo(c)}
         /\ Ready4(c) /\ ~Send4(c) /\ ~Done4(c) => nowLOffset'[c] = nowLOffset[c]
<1>1. nowLOffset'[c] = NextLOffset(c)
  BY DEF ReadEdge
<1>2. ASSUME Done4(c), offset'[c] # <<>> PROVE nowLOffset'[c] \in {INFINITE_OFFSET, Lo(c)'}
  <2>1. Ready4(c) /\ ~p5Full[c]
    BY <1>2 DEF Done4
  <2>2. Len(offset[c]) > 1 => Lo(c)' = offset[c][2].lo
    BY <1>2, OffsetFront
  <2> QED
    BY <1>1, <1>2, <2>1, <2>2 DEF NextLOffset
<1>3. ASSUME ~Ready4(c)
      PROVE  /\ nowLOffset'[c] = INFINITE_OFFSET
             /\ offset[c] # <<>> => nowLOffset[c] \in {INFINITE_OFFSET, Lo(c)}
  BY <1>1, <1>3 DEF NextLOffset, Ready4, NowOk
<1>4. ASSUME Ready4(c), ~Send4(c), ~Done4(c) PROVE nowLOffset'[c] = nowLOffset[c]
  BY <1>1, <1>4 DEF NextLOffset, Send4, Done4
<1> QED
  BY <1>2, <1>3, <1>4

-----------------------------------------------------------------------------
(***************************************************************************)
(* What is still to be asked for loses exactly what is asked for.          *)
(***************************************************************************)
NewEdges(r) == IF r = None THEN {} ELSE LineEdges(r)

LEMMA NewRequest ==
  ASSUME QueueInv, ReadEdge, NEW c \in Core
  PROVE  /\ p4'[c] \in Option(Request)
         /\ p4'[c] # None <=> Send4(c)
         /\ NewEdges(p4'[c]) = IF Send4(c) THEN LineEdges(p4'[c]) ELSE {}
<1>1. p4'[c] \in Option(Request)
  BY ReadEdgeType
<1>2. Send4(c) => p4'[c] \in Request
  <2>1. TypeOK /\ (Send4(c) => offset[c] # <<>> /\ vId[c] # <<>>)
    BY NoOffsetWithoutId DEF QueueInv, Send4, Ready4
  <2> QED
    BY <2>1, RequestType DEF ReadEdge
<1>3. ~Send4(c) => p4'[c] = None
  BY DEF ReadEdge
<1> QED
  BY <1>1, <1>2, <1>3, NoneIsNone DEF NewEdges

(* While the head stays, it loses what is asked for.                       *)
LEMMA HeadStays ==
  ASSUME QueueInv, NowOk, HeadOk, HeadOk', ReadEdge, NEW c \in Core, ~Done4(c),
         VertexStream(c)'[1] = VertexStream(c)[1],
         NEW e \in Nat, e \in EdgesOf(VertexStream(c)[1])
  PROVE  (offset'[c] # <<>> => e >= Start(c)')
           <=> (offset[c] # <<>> => e >= Start(c)) /\ e \notin NewEdges(p4'[c])
<1>1. NewEdges(p4'[c]) = IF Send4(c) THEN LineEdges(p4'[c]) ELSE {}
  BY NewRequest
<1>2. offset'[c] # <<>> =>
        /\ VertexStream(c)'[1] = Head(vId'[c])
        /\ EdgesOf(Head(vId'[c])) = Lo(c)' .. Hi(c)'
        /\ nowLOffset'[c] \in {INFINITE_OFFSET, Lo(c)'} =>
             \A f \in Lo(c)' .. Hi(c)' : f >= Start(c)'
        /\ Lo(c)' < nowLOffset'[c] /\ nowLOffset'[c] <= Hi(c)' => Start(c)' = nowLOffset'[c]
  BY DEF HeadOk, EdgesOf
<1>3. offset[c] # <<>> =>
        /\ VertexStream(c)[1] = Head(vId[c])
        /\ EdgesOf(Head(vId[c])) = Lo(c) .. Hi(c)
        /\ nowLOffset[c] \in {INFINITE_OFFSET, Lo(c)} => \A f \in Lo(c) .. Hi(c) : f >= Start(c)
        /\ ~NoEdges(c) => Start(c) >= Lo(c)
  BY DEF HeadOk
<1>4. offset[c] # <<>> => offset'[c] # <<>> /\ Lo(c)' = Lo(c) /\ Hi(c)' = Hi(c)
  BY OffsetFront
<1>5. CASE ~Ready4(c)
  <2>1. /\ nowLOffset'[c] = INFINITE_OFFSET
        /\ offset[c] # <<>> => nowLOffset[c] \in {INFINITE_OFFSET, Lo(c)}
    BY <1>5, NextNow
  <2>2. offset'[c] # <<>> => e >= Start(c)'
    BY <1>2, <2>1
  <2>3. offset[c] # <<>> => e >= Start(c)
    BY <1>3, <2>1
  <2>4. ~Send4(c)
    BY <1>5 DEF Send4
  <2> QED
    BY <1>1, <2>2, <2>3, <2>4
<1>6. CASE Ready4(c) /\ ~Send4(c)
  <2>1. nowLOffset'[c] = nowLOffset[c] /\ offset[c] # <<>>
    BY <1>6, NextNow DEF Ready4
  <2>2. Start(c)' = Start(c)
    BY <1>4, <2>1 DEF Start, Line
  <2> QED
    BY <1>1, <1>4, <1>6, <2>1, <2>2
<1>7. CASE Send4(c)
  <2>1. /\ Start(c) < nowLOffset'[c] /\ nowLOffset'[c] <= Hi(c) /\ nowLOffset'[c] \in Nat
        /\ e \in LineEdges(p4'[c]) <=> Start(c) <= e /\ e < nowLOffset'[c]
    BY <1>7, NextRequest
  <2>2. offset[c] # <<>> /\ ~NoEdges(c) /\ TypeOK
    BY <1>7 DEF Send4, Ready4, QueueInv
  <2>3. Start(c) \in Nat /\ Lo(c) \in Nat /\ Start(c) >= Lo(c)
    BY <1>3, <2>2, StartFacts, LoHi
  <2>4. Start(c)' = nowLOffset'[c]
    BY <1>2, <1>4, <2>1, <2>2, <2>3
  <2> QED
    BY <1>1, <1>4, <1>7, <2>1, <2>2, <2>3, <2>4
<1> QED
  BY <1>5, <1>6, <1>7

(* When the head goes, the rest of it has been asked for, and nothing of   *)
(* the next.                                                               *)
LEMMA HeadGoes ==
  ASSUME QueueInv, NowOk, HeadOk, HeadOk', ReadEdge, NEW c \in Core, Done4(c), NEW e \in Nat
  PROVE  /\ 1 \in 1 .. Len(VertexStream(c)) /\ offset[c] # <<>>
         /\ e \in NewEdges(p4'[c]) <=> e \in EdgesOf(VertexStream(c)[1]) /\ e >= Start(c)
         /\ e \in EdgesOf(VertexStream(c)'[1]) => (offset'[c] # <<>> => e >= Start(c)')
<1>1. NewEdges(p4'[c]) = IF Send4(c) THEN LineEdges(p4'[c]) ELSE {}
  BY NewRequest
<1>2. offset'[c] # <<>> =>
        /\ VertexStream(c)'[1] = Head(vId'[c])
        /\ EdgesOf(Head(vId'[c])) = Lo(c)' .. Hi(c)'
        /\ nowLOffset'[c] \in {INFINITE_OFFSET, Lo(c)'} =>
             \A f \in Lo(c)' .. Hi(c)' : f >= Start(c)'
  BY DEF HeadOk, EdgesOf
<1>3. offset[c] # <<>> /\ Ready4(c) /\ TypeOK
  BY DEF Done4, Ready4, QueueInv
<1>4. /\ VertexStream(c)[1] = Head(vId[c]) /\ 1 \in 1 .. Len(VertexStream(c))
      /\ EdgesOf(Head(vId[c])) = Lo(c) .. Hi(c)
      /\ ~NoEdges(c) => Start(c) >= Lo(c)
  BY <1>3 DEF HeadOk
<1>5. offset'[c] # <<>> => nowLOffset'[c] \in {INFINITE_OFFSET, Lo(c)'}
  BY NextNow
<1>6. e \in EdgesOf(VertexStream(c)'[1]) => (offset'[c] # <<>> => e >= Start(c)')
  BY <1>2, <1>5
<1>7. e \in NewEdges(p4'[c]) <=> e \in EdgesOf(VertexStream(c)[1]) /\ e >= Start(c)
  <2>1. CASE NoEdges(c)
    <3>1. ~Send4(c) /\ Lo(c) .. Hi(c) = {}
      BY <1>3, <2>1, LoHi DEF Send4, NoEdges
    <3> QED
      BY <1>1, <1>4, <3>1
  <2>2. CASE ~NoEdges(c)
    <3>1. Send4(c)
      BY <2>2 DEF Send4, Done4
    <3>2. e \in LineEdges(p4'[c]) <=> Start(c) <= e /\ e <= Hi(c)
      BY <3>1, LastRequest
    <3>3. Start(c) \in Nat /\ Hi(c) \in Nat /\ Lo(c) \in Nat
      BY <1>3, <2>2, StartFacts, LoHi
    <3> QED
      BY <1>1, <1>4, <2>2, <3>1, <3>2, <3>3
  <2> QED
    BY <2>1, <2>2
<1> QED
  BY <1>3, <1>4, <1>6, <1>7

(* The edges of the vertices to be sent and of a stream from place m on.   *)
InRest(e, T, s, m) ==
  (\E v \in T : e \in EdgesOf(v)) \/ \E k \in m .. Len(s) : e \in EdgesOf(s[k])

LEMMA RestMoves ==
  ASSUME NEW T \in SUBSET Vertex, NEW s, NEW n, NEW y,
         CanMove(Vertex, s, n, y), y # None => y \in T,
         NEW e, NEW m \in 1 .. 2, m <= Len(s) - n + 1
  PROVE  InRest(e, T \ {y}, Moved(s, n, y), m) <=> InRest(e, T, s, m + n)
<1> DEFINE t == Moved(s, n, y)
<1>1. /\ Len(s) \in Nat /\ n \in 0 .. 1 /\ Len(t) = Len(s) - n + Held(y)
      /\ \A k \in 1 .. Len(t) :
           IF k <= Len(s) - n THEN k + n \in 1 .. Len(s) /\ t[k] = s[k + n]
           ELSE y # None /\ t[k] = y /\ k = Len(t)
  <2>1. n \in 0 .. 1
    BY DEF CanMove
  <2> QED
    BY <2>1, MovedElements
<1>2. Held(y) \in 0 .. 1 /\ (Held(y) = 0 <=> y = None)
  BY HeldFacts
<1> HIDE DEF t
<1>3. ASSUME InRest(e, T \ {y}, t, m) PROVE InRest(e, T, s, m + n)
  <2>1. CASE \E v \in T \ {y} : e \in EdgesOf(v)
    BY <2>1 DEF InRest
  <2>2. CASE \E k \in m .. Len(t) : e \in EdgesOf(t[k])
    <3>1. PICK k \in m .. Len(t) : e \in EdgesOf(t[k])
      BY <2>2
    <3>2. k \in 1 .. Len(t)
      BY <1>1, <1>2
    <3>3. CASE k <= Len(s) - n
      <4>1. k + n \in m + n .. Len(s) /\ t[k] = s[k + n]
        BY <1>1, <3>2, <3>3
      <4> QED
        BY <3>1, <4>1 DEF InRest
    <3>4. CASE ~(k <= Len(s) - n)
      BY <1>1, <3>1, <3>2, <3>4 DEF InRest
    <3> QED
      BY <3>3, <3>4
  <2> QED
    BY <1>3, <2>1, <2>2 DEF InRest
<1>4. ASSUME InRest(e, T, s, m + n) PROVE InRest(e, T \ {y}, t, m)
  <2>1. CASE \E v \in T : e \in EdgesOf(v)
    <3>1. PICK v \in T : e \in EdgesOf(v)
      BY <2>1
    <3>2. CASE v = y /\ y # None
      <4>1. Len(t) = Len(s) - n + 1 /\ Len(t) \in m .. Len(t) /\ Len(t) \in 1 .. Len(t)
        BY <1>1, <1>2, <3>2
      <4>2. t[Len(t)] = y
        BY <1>1, <4>1
      <4> QED
        BY <3>1, <3>2, <4>1, <4>2 DEF InRest
    <3>3. CASE v # y
      BY <3>1, <3>3 DEF InRest
    <3>4. CASE v = y /\ y = None
      BY <3>1, <3>4, NoneIsNone
    <3> QED
      BY <3>2, <3>3, <3>4
  <2>2. CASE \E k \in m + n .. Len(s) : e \in EdgesOf(s[k])
    <3>1. PICK k \in m + n .. Len(s) : e \in EdgesOf(s[k])
      BY <2>2
    <3>2. k - n \in m .. Len(t) /\ k - n \in 1 .. Len(t) /\ k - n <= Len(s) - n
          /\ (k - n) + n = k
      BY <1>1, <1>2
    <3>3. t[k - n] = s[k]
      BY <1>1, <3>2
    <3> QED
      BY <3>1, <3>2, <3>3 DEF InRest
  <2> QED
    BY <1>4, <2>1, <2>2 DEF InRest
<1> QED
  BY <1>3, <1>4 DEF t

LEMMA ToAskStep ==
  ASSUME QueueInv, NowOk, HeadOk, HeadOk', VerticesOk, NEW full, NEW accept, NEW answer,
         Pipeline(full, accept, answer), NEW send \in SUBSET MaySend, ReadActiveVertex(send),
         NEW c \in Core
  PROVE  /\ ToAsk(c)' = ToAsk(c) \ NewEdges(p4'[c])
         /\ NewEdges(p4'[c]) \subseteq ToAsk(c)
<1> DEFINE s == VertexStream(c)
           t == VertexStream(c)'
           n == Taken(Done4(c))
           y == p1V'[c]
           New == NewEdges(p4'[c])
           InHead(e) == 1 <= Len(s) /\ e \in EdgesOf(s[1]) /\ (offset[c] # <<>> => e >= Start(c))
           InHeadNext(e) == /\ 1 <= Len(t) /\ e \in EdgesOf(t[1])
                            /\ offset'[c] # <<>> => e >= Start(c)'
<1>0. ReadEdge /\ ReadOffset /\ ReadMemories
  BY DEF Pipeline
<1>1. /\ y \in Option(Vertex) /\ (y # None => y \in toSend[c])
      /\ toSend'[c] = toSend[c] \ {y} /\ toSend[c] \subseteq Vertex
  BY SentVertex DEF QueueInv, TypeOK
<1>2. t = Moved(s, n, y) /\ CanMove(Vertex, s, n, y) /\ n \in 0 .. 1 /\ (Done4(c) <=> n = 1)
  BY <1>0, <1>1, VertexStreamMoves, Done4Facts
<1>3. Len(s) \in Nat /\ Len(t) \in Nat /\ Len(t) = Len(s) - n + Held(y)
  <2>1. t \in Seq(Vertex) /\ Len(s) \in Nat /\ Len(t) = Len(s) - n + Held(y)
    <3> HIDE DEF s, n, y, t
    <3> QED
      BY <1>2, MovedElements
  <2> QED
    BY <2>1, LenProperties
<1>4. /\ \A e \in Nat : e \in ToAsk(c) <=> InHead(e) \/ InRest(e, toSend[c], s, 2)
      /\ \A e \in Nat : e \in ToAsk(c)' <=> InHeadNext(e) \/ InRest(e, toSend'[c], t, 2)
      /\ ToAsk(c) \subseteq Nat /\ ToAsk(c)' \subseteq Nat
  <2>1. /\ ToAsk(c) = {e \in Nat :
              \/ \E v \in toSend[c] : e \in EdgesOf(v)
              \/ \E k \in 1 .. Len(s) :
                   e \in EdgesOf(s[k]) /\ (k = 1 /\ offset[c] # <<>> => e >= Start(c))}
        /\ ToAsk(c)' = {e \in Nat :
              \/ \E v \in toSend'[c] : e \in EdgesOf(v)
              \/ \E k \in 1 .. Len(t) :
                   e \in EdgesOf(t[k]) /\ (k = 1 /\ offset'[c] # <<>> => e >= Start(c)')}
    BY DEF ToAsk, EdgesOf
  <2> HIDE DEF s, t
  <2>2. \A k : k \in 1 .. Len(s) <=> (k = 1 /\ 1 <= Len(s)) \/ k \in 2 .. Len(s)
    BY <1>3
  <2>3. \A k : k \in 1 .. Len(t) <=> (k = 1 /\ 1 <= Len(t)) \/ k \in 2 .. Len(t)
    BY <1>3
  <2>4. \A k \in 2 .. Len(s) : k # 1
    OBVIOUS
  <2>5. \A k \in 2 .. Len(t) : k # 1
    OBVIOUS
  <2> QED
    BY <2>1, <2>2, <2>3, <2>4, <2>5 DEF InRest
<1>5. New \subseteq Nat
  <2>1. p4'[c] \in Option(Request)
    BY <1>0, NewRequest
  <2>2. ASSUME NEW r \in Request PROVE LineEdges(r) \subseteq Nat
    BY Positive DEF Request, LineEdges
  <2> QED
    BY <2>1, <2>2 DEF NewEdges, Option
<1>6. \A e \in Nat : ~(InHead(e) /\ InRest(e, toSend[c], s, 2))
  <2> SUFFICES ASSUME NEW e \in Nat, InHead(e), InRest(e, toSend[c], s, 2) PROVE FALSE
    OBVIOUS
  <2>1. 1 \in 1 .. Len(s) /\ e \in EdgesOf(s[1]) /\ s[1] \in Own(c) \ toSend[c] /\ s[1] \in Vertex
    BY <1>3 DEF VerticesOk, Own, VerticesOf
  <2>2. CASE \E v \in toSend[c] : e \in EdgesOf(v)
    BY <1>1, <2>1, <2>2, OneSource
  <2>3. CASE \E k \in 2 .. Len(s) : e \in EdgesOf(s[k])
    <3>1. PICK k \in 2 .. Len(s) : e \in EdgesOf(s[k])
      BY <2>3
    <3>2. k \in 1 .. Len(s) /\ k # 1
      BY <1>3
    <3>3. s[k] \in Vertex /\ s[k] # s[1]
      BY <2>1, <3>2 DEF VerticesOk, Own, VerticesOf
    <3> QED
      BY <2>1, <3>1, <3>3, OneSource
  <2> QED
    BY <2>2, <2>3 DEF InRest
<1>7. CASE Done4(c)
  <2>1. \A e \in Nat : /\ 1 \in 1 .. Len(s) /\ offset[c] # <<>>
                       /\ e \in New <=> e \in EdgesOf(s[1]) /\ e >= Start(c)
                       /\ e \in EdgesOf(t[1]) => (offset'[c] # <<>> => e >= Start(c)')
    BY <1>0, <1>7, HeadGoes
  <2>2. \A e \in Nat : e \in New <=> InHead(e)
    BY <1>3, <2>1
  <2>3. \A e \in Nat : InHeadNext(e) \/ InRest(e, toSend'[c], t, 2) <=> InRest(e, toSend'[c], t, 1)
    <3> HIDE DEF s, t, New
    <3>1. \A k : k \in 1 .. Len(t) <=> (k = 1 /\ 1 <= Len(t)) \/ k \in 2 .. Len(t)
      BY <1>3
    <3> QED
      BY <2>1, <3>1 DEF InRest
  <2>4. \A e \in Nat : InRest(e, toSend'[c], t, 1) <=> InRest(e, toSend[c], s, 2)
    <3>0. n = 1 /\ 1 \in 1 .. Len(s)
      <4>1. 0 \in Nat
        OBVIOUS
      <4> QED
        BY <1>2, <1>7, <2>1, <4>1
    <3>1. n = 1 /\ 1 <= Len(s) - n + 1 /\ 1 \in 1 .. 2 /\ 1 + n = 2 /\ Len(s) >= 1
      <4> HIDE DEF s, n
      <4> QED
        BY <1>3, <3>0
    <3> HIDE DEF s, t, n, y
    <3>2. \A e \in Nat : InRest(e, toSend[c] \ {y}, Moved(s, n, y), 1)
                           <=> InRest(e, toSend[c], s, 1 + n)
      BY <1>1, <1>2, <3>1, RestMoves
    <3> QED
      BY <1>1, <1>2, <3>1, <3>2
  <2> HIDE DEF s, t, n, y, New, InHead, InHeadNext
  <2>8. \A e \in Nat : e \in ToAsk(c)' <=> e \in ToAsk(c) /\ e \notin New
    BY <1>4, <1>6, <2>2, <2>3, <2>4
  <2>9. \A e \in Nat : e \in New => e \in ToAsk(c)
    BY <1>4, <2>2
  <2> QED
    BY <1>4, <1>5, <2>8, <2>9 DEF New
<1>8. CASE ~Done4(c) /\ Len(s) >= 1
  <2>0. n = 0 /\ t[1] = s[1] /\ Len(t) >= 1
    <3>1. n = 0
      BY <1>2, <1>8
    <3> HIDE DEF s, t, n, y
    <3>2. \A k \in 1 .. Len(t) : k <= Len(s) - n => t[k] = s[k + n]
      BY <1>2, MovedElements
    <3>3. 1 \in 1 .. Len(t) /\ 1 <= Len(s) - n /\ 1 + n = 1
      BY <1>3, <1>8, <3>1, HeldFacts
    <3> QED
      BY <1>3, <3>1, <3>2, <3>3
  <2>1. \A e \in Nat : InHeadNext(e) <=> InHead(e) /\ e \notin New
    <3> SUFFICES ASSUME NEW e \in Nat PROVE InHeadNext(e) <=> InHead(e) /\ e \notin New
      OBVIOUS
    <3>1. ASSUME e \in EdgesOf(s[1])
          PROVE  (offset'[c] # <<>> => e >= Start(c)')
                    <=> (offset[c] # <<>> => e >= Start(c)) /\ e \notin New
      BY <1>0, <1>8, <2>0, <3>1, HeadStays
    <3> QED
      BY <1>8, <2>0, <3>1
  <2>2. \A e \in Nat : e \in New => InHead(e)
    <3> SUFFICES ASSUME NEW e \in Nat, e \in New PROVE InHead(e)
      OBVIOUS
    <3>1. Send4(c) /\ e \in LineEdges(p4'[c])
      BY <1>0, NewRequest
    <3>2. Start(c) <= e /\ e <= Hi(c)
      BY <1>0, <3>1, RequestEdges
    <3>3. offset[c] # <<>> /\ ~NoEdges(c) /\ TypeOK
      BY <3>1 DEF Send4, Ready4, QueueInv
    <3>4. Start(c) \in Nat /\ Hi(c) \in Nat /\ Lo(c) \in Nat
      BY <3>3, StartFacts, LoHi
    <3>5. s[1] = Head(vId[c]) /\ EdgesOf(Head(vId[c])) = Lo(c) .. Hi(c) /\ Start(c) >= Lo(c)
      BY <3>3 DEF HeadOk
    <3> QED
      BY <1>8, <3>2, <3>4, <3>5
  <2>3. \A e \in Nat : InRest(e, toSend'[c], t, 2) <=> InRest(e, toSend[c], s, 2)
    <3>1. n = 0 /\ 2 <= Len(s) - n + 1 /\ 2 \in 1 .. 2 /\ 2 + n = 2
      BY <1>3, <1>8, <2>0
    <3> HIDE DEF s, t, n, y
    <3>2. \A e \in Nat : InRest(e, toSend[c] \ {y}, Moved(s, n, y), 2)
                           <=> InRest(e, toSend[c], s, 2 + n)
      BY <1>1, <1>2, <3>1, RestMoves
    <3> QED
      BY <1>1, <1>2, <3>1, <3>2
  <2> HIDE DEF s, t, n, y, New, InHead, InHeadNext
  <2>8. \A e \in Nat : e \in ToAsk(c)' <=> e \in ToAsk(c) /\ e \notin New
    BY <1>4, <1>6, <2>1, <2>2, <2>3
  <2>9. \A e \in Nat : e \in New => e \in ToAsk(c)
    BY <1>4, <2>2
  <2> QED
    BY <1>4, <1>5, <2>8, <2>9 DEF New
<1>9. CASE ~Done4(c) /\ ~(Len(s) >= 1)
  <2>0. n = 0 /\ Len(s) = 0
    BY <1>2, <1>3, <1>9
  <2>1. vId[c] = <<>>
    <3>1. 1 \notin 1 .. Len(s)
      BY <2>0
    <3> QED
      BY <3>1, HeadOfStream
  <2>2. offset[c] = <<>> /\ offsetData[c] = None
    <3>1. Len(offset[c]) + Held(offsetData[c]) = Len(vId[c]) /\ Len(vId[c]) = 0
      BY <2>1, EmptySeq DEF QueueInv, Lengths
    <3>2. Len(offset[c]) \in Nat
      BY NoOffsetWithoutId
    <3>3. Held(offsetData[c]) = 0
      BY <3>1, <3>2, HeldFacts
    <3> QED
      BY <2>1, <3>3, HeldFacts, NoOffsetWithoutId
  <2>3. offset'[c] = <<>>
    BY <1>0, <1>9, <2>2 DEF ReadEdge, Pop4, Push
  <2>4. New = {}
    <3>1. ~Send4(c)
      BY <2>2 DEF Send4, Ready4
    <3> QED
      BY <1>0, <3>1, NewRequest
  <2>5. \A e \in Nat : InHeadNext(e) \/ InRest(e, toSend'[c], t, 2) <=> InRest(e, toSend'[c], t, 1)
    <3> HIDE DEF s, t, New
    <3>1. \A k : k \in 1 .. Len(t) <=> (k = 1 /\ 1 <= Len(t)) \/ k \in 2 .. Len(t)
      BY <1>3
    <3> QED
      BY <2>3, <3>1 DEF InRest
  <2>6. \A e \in Nat : InRest(e, toSend'[c], t, 1) <=> InRest(e, toSend[c], s, 1)
    <3>1. n = 0 /\ 1 <= Len(s) - n + 1 /\ 1 \in 1 .. 2 /\ 1 + n = 1
      BY <2>0
    <3> HIDE DEF s, t, n, y
    <3>2. \A e \in Nat : InRest(e, toSend[c] \ {y}, Moved(s, n, y), 1)
                           <=> InRest(e, toSend[c], s, 1 + n)
      BY <1>1, <1>2, <3>1, RestMoves
    <3> QED
      BY <1>1, <1>2, <3>1, <3>2
  <2>7. \A e \in Nat : (InRest(e, toSend[c], s, 1) <=> InRest(e, toSend[c], s, 2)) /\ ~InHead(e)
    <3>1. 1 .. Len(s) = {} /\ 2 .. Len(s) = {} /\ ~(1 <= Len(s))
      BY <2>0
    <3> HIDE DEF s
    <3> QED
      BY <3>1 DEF InRest
  <2> HIDE DEF s, t, n, y, New, InHead, InHeadNext
  <2>8. \A e \in Nat : e \in ToAsk(c)' <=> e \in ToAsk(c) /\ e \notin New
    BY <1>4, <2>4, <2>5, <2>6, <2>7
  <2>9. \A e \in Nat : e \in New => e \in ToAsk(c)
    BY <1>4, <2>4
  <2> QED
    BY <1>4, <1>5, <2>8, <2>9 DEF New
<1> QED
  BY <1>7, <1>8, <1>9

-----------------------------------------------------------------------------
(***************************************************************************)
(* Where the elements of a moved stream come from and go to.               *)
(***************************************************************************)
Movement(s, n, x, t) ==
  /\ Len(s) \in Nat /\ Len(t) \in Nat /\ n \in 0 .. 1 /\ Len(t) = Len(s) - n + Held(x)
  /\ \A k \in 1 .. Len(t) : \/ k + n \in 1 + n .. Len(s) /\ t[k] = s[k + n]
                            \/ k = Len(t) /\ x # None /\ t[k] = x
  /\ \A k \in 1 + n .. Len(s) : k - n \in 1 .. Len(t) /\ t[k - n] = s[k]
  /\ x # None => Len(t) \in 1 .. Len(t) /\ t[Len(t)] = x
  /\ n = 1 => 1 \in 1 .. Len(s) /\ s[1] = Front(s, n) /\ Front(s, n) # None
  /\ n = 0 => Front(s, n) = None

LEMMA MovedFrom ==
  ASSUME NEW S, NEW s, NEW n, NEW x, CanMove(S, s, n, x), NEW t, t = Moved(s, n, x)
  PROVE  Movement(s, n, x, t)
<1>1. /\ s \in Seq(S) /\ x \in Option(S) /\ n \in 0 .. 1 /\ (n = 1 => s # <<>>)
      /\ None \notin S
  BY DEF CanMove
<1>2. /\ Moved(s, n, x) \in Seq(S) /\ Len(Moved(s, n, x)) = Len(s) - n + Held(x)
      /\ Len(s) \in Nat
      /\ \A k \in 1 .. Len(Moved(s, n, x)) :
           IF k <= Len(s) - n
             THEN k + n \in 1 .. Len(s) /\ Moved(s, n, x)[k] = s[k + n]
             ELSE x # None /\ Moved(s, n, x)[k] = x /\ k = Len(Moved(s, n, x))
  BY MovedElements
<1>3. /\ t \in Seq(S) /\ Len(t) = Len(s) - n + Held(x) /\ Len(s) \in Nat
      /\ \A k \in 1 .. Len(t) :
           IF k <= Len(s) - n THEN k + n \in 1 .. Len(s) /\ t[k] = s[k + n]
           ELSE x # None /\ t[k] = x /\ k = Len(t)
  BY <1>2
<1>4. Len(t) \in Nat /\ Held(x) \in 0 .. 1 /\ (Held(x) = 0 <=> x = None)
  BY <1>3, HeldFacts, LenProperties
<1>5. ASSUME NEW k \in 1 .. Len(t)
      PROVE  \/ k + n \in 1 + n .. Len(s) /\ t[k] = s[k + n]
             \/ k = Len(t) /\ x # None /\ t[k] = x
  <2>1. CASE k <= Len(s) - n
    <3>1. k + n \in 1 .. Len(s) /\ t[k] = s[k + n]
      BY <1>3, <2>1
    <3> QED
      BY <1>1, <1>3, <3>1
  <2>2. CASE ~(k <= Len(s) - n)
    BY <1>3, <2>2
  <2> QED
    BY <2>1, <2>2
<1>6. ASSUME NEW k \in 1 + n .. Len(s)
      PROVE  k - n \in 1 .. Len(t) /\ t[k - n] = s[k]
  <2>1. k - n \in 1 .. Len(t) /\ k - n <= Len(s) - n /\ (k - n) + n = k
    BY <1>1, <1>3, <1>4
  <2> QED
    BY <1>3, <2>1
<1>7. x # None => Len(t) \in 1 .. Len(t) /\ t[Len(t)] = x
  <2> SUFFICES ASSUME x # None PROVE Len(t) \in 1 .. Len(t) /\ t[Len(t)] = x
    OBVIOUS
  <2>0. n <= Len(s)
    <3>1. n = 1 => Len(s) >= 1
      BY <1>1, PopFacts
    <3> QED
      BY <1>1, <1>3, <3>1
  <2>1. Len(t) \in 1 .. Len(t) /\ ~(Len(t) <= Len(s) - n)
    BY <1>1, <1>3, <1>4, <2>0
  <2> QED
    BY <1>3, <2>1
<1>8. n = 1 => 1 \in 1 .. Len(s) /\ s[1] = Front(s, n) /\ Front(s, n) # None
  <2> SUFFICES ASSUME n = 1
               PROVE  1 \in 1 .. Len(s) /\ s[1] = Front(s, n) /\ Front(s, n) # None
    OBVIOUS
  <2>1. Len(s) \in Nat \ {0} /\ Head(s) = s[1] /\ Head(s) \in S
    BY <1>1, PopFacts
  <2> QED
    BY <1>1, <2>1 DEF Front
<1>9. n = 0 => Front(s, n) = None
  BY DEF Front
<1> QED
  BY <1>1, <1>3, <1>4, <1>5, <1>6, <1>7, <1>8, <1>9 DEF Movement

-----------------------------------------------------------------------------
(***************************************************************************)
(* From being to be asked for to asked: the requests of stage 4.           *)
(***************************************************************************)
RequestOk(own, r) == /\ r.id \in own /\ r.val = r.id /\ r.deg = Degree[r.id]
                     /\ LineEdges(r) \subseteq EdgesOf(r.id)

LEMMA LineEdgesFacts ==
  ASSUME NEW r \in Request
  PROVE  /\ LineEdges(r) \subseteq Nat
         /\ \A e \in LineEdges(r) : /\ Line(e) = r.line /\ Lane(e) \in r.mask
                                   /\ e = r.line * CACHELINE_LEN + Lane(e)
         /\ \A i \in r.mask : /\ i \in Core /\ r.line * CACHELINE_LEN + i \in LineEdges(r)
                             /\ Lane(r.line * CACHELINE_LEN + i) = i
<1>1. r.line \in Nat /\ r.mask \subseteq Core
  BY DEF Request
<1>2. ASSUME NEW i \in r.mask
      PROVE  /\ r.line * CACHELINE_LEN + i \in Nat /\ Line(r.line * CACHELINE_LEN + i) = r.line
             /\ Lane(r.line * CACHELINE_LEN + i) = i
  <2>1. i \in 0 .. CACHELINE_LEN - 1 /\ CACHELINE_LEN \in Nat \ {0} /\ i \in Nat
    BY <1>1, Positive DEF Core
  <2> DEFINE l == r.line
             C == CACHELINE_LEN
  <2>2. l \in Nat /\ C \in Nat \ {0} /\ i \in 0 .. C - 1
    BY <1>1, <2>1
  <2> HIDE DEF l, C
  <2>3. (l * C + i) % C = i /\ (l * C + i) \div C = l /\ l * C + i \in Nat
    BY <2>2, DigitsUnique
  <2> QED
    BY <2>3 DEF Line, Lane, l, C
<1> QED
  BY <1>1, <1>2 DEF LineEdges

LEMMA NewRequestOk ==
  ASSUME QueueInv, Answers, HeadOk, VerticesOk, ReadEdge, NEW c \in Core, Send4(c)
  PROVE  RequestOk(Own(c), p4'[c])
<1> DEFINE r == p4'[c]
           v == Head(vId[c])
<1>1. offset[c] # <<>> /\ value[c] # <<>> /\ ~NoEdges(c) /\ TypeOK
  BY DEF Send4, Ready4, QueueInv
<1>2. r = [line |-> Line(Start(c)), mask |-> Mask(c), id |-> v,
           val |-> Head(value[c]), deg |-> Hi(c) - Lo(c) + 1]
  BY DEF ReadEdge
<1>3. /\ v = VertexStream(c)[1] /\ 1 \in 1 .. Len(VertexStream(c))
      /\ EdgesOf(v) = Lo(c) .. Hi(c) /\ Hi(c) - Lo(c) + 1 = Degree[v] /\ Start(c) >= Lo(c)
  BY <1>1 DEF HeadOk
<1>4. v \in Own(c)
  BY <1>3 DEF VerticesOk
<1>5. Head(value[c]) = v
  BY <1>1, AnswersAtFront
<1>6. ASSUME NEW e \in LineEdges(r)
      PROVE  e \in EdgesOf(v)
  <2>1. r \in Request
    BY NewRequest, NoneIsNone DEF Option
  <2>2. e \in Nat
    BY <2>1, LineEdgesFacts
  <2>3. Start(c) <= e /\ e <= Hi(c)
    BY <2>2, RequestEdges
  <2>4. Start(c) \in Nat /\ Hi(c) \in Nat /\ Lo(c) \in Nat
    BY <1>1, StartFacts, LoHi
  <2> QED
    BY <1>3, <2>2, <2>3, <2>4
<1>7. r.id = v /\ r.val = Head(value[c]) /\ r.deg = Hi(c) - Lo(c) + 1
  BY <1>2
<1> HIDE DEF r, v
<1>8. RequestOk(Own(c), r)
  BY <1>3, <1>4, <1>5, <1>6, <1>7 DEF RequestOk
<1> QED
  BY <1>8 DEF r

LEMMA RequestsStep ==
  ASSUME QueueInv, Answers, HeadOk, VerticesOk, RequestsOk,
         NEW full, NEW accept, NEW answer, Pipeline(full, accept, answer),
         NEW send \in SUBSET MaySend, ReadActiveVertex(send)
  PROVE  RequestsOk'
<1> SUFFICES ASSUME NEW c \in Core, NEW k \in 1 .. Len(Requests(c)')
             PROVE  RequestOk(Own(c)', Requests(c)'[k])
  BY DEF RequestsOk, RequestOk
<1> DEFINE s == Requests(c)
           t == Requests(c)'
           n == Taken(Popped5(c))
           y == p4'[c]
<1>0. ReadEdge /\ CombineEdgeRqst
  BY DEF Pipeline
<1>1. y \in Option(Request) /\ (y # None <=> Send4(c))
  BY <1>0, NewRequest
<1>2. t = Moved(s, n, y) /\ CanMove(Request, s, n, y)
  BY <1>0, <1>1, RequestsMove
<1>3. active' = active
  BY DEF ReadActiveVertex
<1>4. Own(c)' = Own(c)
  BY <1>3 DEF Own
<1>5. \A l \in 1 .. Len(s) : RequestOk(Own(c), s[l])
  BY DEF RequestsOk, RequestOk
<1>6. y # None => RequestOk(Own(c), y)
  BY <1>0, <1>1, NewRequestOk
<1>7. RequestOk(Own(c), t[k])
  <2> HIDE DEF s, t, n, y
  <2>0. Movement(s, n, y, t)
    BY <1>2, MovedFrom
  <2>1. \/ k + n \in 1 + n .. Len(s) /\ t[k] = s[k + n]
        \/ k = Len(t) /\ y # None /\ t[k] = y
    <3>1. k \in 1 .. Len(t)
      BY DEF t
    <3> QED
      BY <2>0, <3>1 DEF Movement
  <2>2. n \in 0 .. 1 /\ Len(s) \in Nat
    BY <2>0 DEF Movement
  <2>3. CASE k + n \in 1 + n .. Len(s) /\ t[k] = s[k + n]
    <3>1. k + n \in 1 .. Len(s)
      BY <2>2, <2>3
    <3> QED
      BY <1>5, <2>3, <3>1
  <2>4. CASE y # None /\ t[k] = y
    BY <1>6, <2>4
  <2> QED
    BY <2>1, <2>3, <2>4
<1> QED
  BY <1>4, <1>7

(* What stage 5 takes from the requests of a core.                         *)
Granted(c) == NewEdges(Front(rqst[c], Taken(Popped5(c))))

LEMMA AskedStep ==
  ASSUME QueueInv, AskedOnce, ReadEdge, CombineEdgeRqst, NEW c \in Core,
         NewEdges(p4'[c]) \intersect Asked(c) = {}
  PROVE  /\ Asked(c)' = (Asked(c) \ Granted(c)) \union NewEdges(p4'[c])
         /\ Granted(c) \subseteq Asked(c)
         /\ \A k, l \in 1 .. Len(Requests(c)') : k # l =>
              LineEdges(Requests(c)'[k]) \intersect LineEdges(Requests(c)'[l]) = {}
<1> DEFINE s == Requests(c)
           t == Requests(c)'
           n == Taken(Popped5(c))
           y == p4'[c]
           G == Granted(c)
           New == NewEdges(y)
<1>1. y \in Option(Request)
  BY NewRequest
<1>2. /\ t = Moved(s, n, y) /\ CanMove(Request, s, n, y)
      /\ Front(s, n) = Front(rqst[c], n)
  BY <1>1, RequestsMove
<1>3. /\ Asked(c) = UNION {LineEdges(s[k]) : k \in 1 .. Len(s)}
      /\ Asked(c)' = UNION {LineEdges(t[k]) : k \in 1 .. Len(t)}
  BY DEF Asked, LineEdges
<1>4. \A k, l \in 1 .. Len(s) : k # l => LineEdges(s[k]) \intersect LineEdges(s[l]) = {}
  BY DEF AskedOnce
<1>5. G = NewEdges(Front(s, n))
  BY <1>2 DEF Granted
<1> HIDE DEF s, t, n, y, G, New
<1>6. /\ Len(s) \in Nat /\ Len(t) \in Nat /\ n \in 0 .. 1
      /\ \A k \in 1 .. Len(t) : \/ k + n \in 1 + n .. Len(s) /\ t[k] = s[k + n]
                                \/ k = Len(t) /\ y # None /\ t[k] = y
      /\ \A k \in 1 + n .. Len(s) : k - n \in 1 .. Len(t) /\ t[k - n] = s[k]
      /\ y # None => Len(t) \in 1 .. Len(t) /\ t[Len(t)] = y
      /\ n = 1 => 1 \in 1 .. Len(s) /\ s[1] = Front(s, n) /\ Front(s, n) # None
      /\ n = 0 => Front(s, n) = None
  <2>1. Movement(s, n, y, t)
    BY <1>2, MovedFrom
  <2> QED
    BY <2>1 DEF Movement
<1>7. G = IF n = 1 THEN LineEdges(s[1]) ELSE {}
  BY <1>5, <1>6 DEF NewEdges
<1>8. G \subseteq Asked(c)
  BY <1>3, <1>6, <1>7
<1>9. \A k \in 1 + n .. Len(s) : k \in 1 .. Len(s) /\ (n = 1 => k # 1)
  BY <1>6
<1>10. \A k \in 1 .. Len(s) : k \in 1 + n .. Len(s) \/ (n = 1 /\ k = 1)
  BY <1>6
<1>11. \A k \in 1 + n .. Len(s) : LineEdges(s[k]) \intersect G = {}
  BY <1>4, <1>6, <1>7, <1>9
<1>12. /\ \A e : e \in Asked(c) <=> \E k \in 1 .. Len(s) : e \in LineEdges(s[k])
       /\ \A e : e \in Asked(c)' <=> \E k \in 1 .. Len(t) : e \in LineEdges(t[k])
  BY <1>3
<1>13. \A e : e \in New <=> y # None /\ e \in LineEdges(y)
  BY DEF New, NewEdges
<1>14. New \intersect Asked(c) = {}
  BY DEF New, y
<1>15. ASSUME NEW e, e \in Asked(c)'
       PROVE  e \in (Asked(c) \ G) \union New
  <2>1. PICK k \in 1 .. Len(t) : e \in LineEdges(t[k])
    BY <1>12, <1>15
  <2>2. CASE k + n \in 1 + n .. Len(s) /\ t[k] = s[k + n]
    BY <1>9, <1>11, <1>12, <2>1, <2>2
  <2>3. CASE y # None /\ t[k] = y
    BY <1>13, <2>1, <2>3
  <2> QED
    BY <1>6, <2>2, <2>3
<1>16. ASSUME NEW e, e \in (Asked(c) \ G) \union New
       PROVE  e \in Asked(c)'
  <2>1. CASE e \in New
    BY <1>6, <1>12, <1>13, <2>1
  <2>2. CASE e \in Asked(c) \ G
    <3>1. PICK k \in 1 .. Len(s) : e \in LineEdges(s[k])
      BY <1>12, <2>2
    <3>2. k \in 1 + n .. Len(s)
      BY <1>7, <1>10, <2>2, <3>1
    <3> QED
      BY <1>6, <1>12, <3>1, <3>2
  <2> QED
    BY <1>16, <2>1, <2>2
<1>17. Asked(c)' = (Asked(c) \ G) \union New
  BY <1>15, <1>16
<1>18. ASSUME NEW k \in 1 .. Len(t), NEW l \in 1 .. Len(t), k # l
       PROVE  LineEdges(t[k]) \intersect LineEdges(t[l]) = {}
  <2> DEFINE Old(j) == j + n \in 1 + n .. Len(s) /\ t[j] = s[j + n]
             Last(j) == j = Len(t) /\ y # None /\ t[j] = y
  <2>1. (Old(k) \/ Last(k)) /\ (Old(l) \/ Last(l))
    BY <1>6
  <2>2. ASSUME NEW i \in 1 .. Len(t), NEW j \in 1 .. Len(t), Old(i), Last(j)
        PROVE  LineEdges(t[i]) \intersect LineEdges(t[j]) = {}
    <3>1. LineEdges(t[i]) \subseteq Asked(c)
      BY <1>9, <1>12, <2>2
    <3>2. LineEdges(t[j]) = New
      BY <1>13, <2>2
    <3> QED
      BY <1>14, <3>1, <3>2
  <2>3. CASE Old(k) /\ Old(l)
    <3>1. k + n # l + n
      BY <1>6, <1>18
    <3> QED
      BY <1>4, <1>9, <2>3, <3>1
  <2>4. CASE Last(k) /\ Last(l)
    BY <1>18, <2>4
  <2> HIDE DEF Old, Last
  <2> QED
    BY <2>1, <2>2, <2>3, <2>4
<1> QED
  BY <1>8, <1>17, <1>18 DEF G, New, y, t

-----------------------------------------------------------------------------
(***************************************************************************)
(* From asked to fetched: the lines of stage 5.                            *)
(***************************************************************************)
LEMMA FirstBehind ==
  ASSUME NEW S, NEW q, NEW x, CanMove(S, q, 1, x)
  PROVE  1 \in 1 .. Len(Behind(q, x)) /\ Behind(q, x)[1] = Head(q) /\ Head(q) # None
<1> DEFINE s == Behind(q, x)
<1>1. None \in Option(S)
  BY DEF Option
<1>2. CanMove(S, s, 1, None) /\ Front(s, 1) = Front(q, 1)
  BY <1>1, QueueMoves
<1> HIDE DEF s
<1>3. Movement(s, 1, None, Moved(s, 1, None))
  BY <1>2, MovedFrom
<1> QED
  BY <1>2, <1>3 DEF Movement, Front, s

LEMMA FirstRequest ==
  ASSUME QueueInv, RequestsOk, NEW c \in Waiting
  PROVE  /\ c \in Core /\ Head(rqst[c]) \in Request /\ RequestOk(Own(c), Head(rqst[c]))
         /\ 1 \in 1 .. Len(Requests(c)) /\ Requests(c)[1] = Head(rqst[c])
<1>1. c \in Core /\ rqst[c] \in Seq(Request) /\ Head(rqst[c]) \in Request /\ rqst[c] # <<>>
      /\ p4[c] \in Option(Request)
  BY HeadRequest DEF QueueInv, TypeOK
<1>2. CanMove(Request, rqst[c], 1, p4[c])
  BY <1>1, NoneIsNone DEF CanMove
<1>3. 1 \in 1 .. Len(Requests(c)) /\ Requests(c)[1] = Head(rqst[c])
  <2>1. 1 \in 1 .. Len(Behind(rqst[c], p4[c])) /\ Behind(rqst[c], p4[c])[1] = Head(rqst[c])
    BY <1>2, FirstBehind
  <2> QED
    BY <2>1 DEF Requests
<1> QED
  BY <1>1, <1>3 DEF RequestsOk, RequestOk

(* The requests for one lane of a line are for one edge, hence of one      *)
(* vertex, hence of one core.                                              *)
LEMMA LanesFollow == QueueInv /\ RequestsOk => LanesDisjoint
<1> SUFFICES ASSUME QueueInv, RequestsOk, NEW i \in Core, NEW c \in Users(i), NEW d \in Users(i)
             PROVE  c = d
  BY DEF LanesDisjoint
<1> DEFINE r == Head(rqst[c])
           s == Head(rqst[d])
           e == Lowest * CACHELINE_LEN + i
<1>1. /\ c \in Waiting /\ d \in Waiting /\ r.line = Lowest /\ s.line = Lowest
      /\ i \in r.mask /\ i \in s.mask
  BY DEF Users, Served
<1>2. /\ c \in Core /\ d \in Core /\ r \in Request /\ s \in Request
      /\ RequestOk(Own(c), r) /\ RequestOk(Own(d), s)
  BY <1>1, FirstRequest
<1>3. e \in LineEdges(r) /\ e \in LineEdges(s)
  BY <1>1, <1>2, LineEdgesFacts
<1> HIDE DEF r, s, e
<1>4. e \in EdgesOf(r.id) /\ e \in EdgesOf(s.id) /\ r.id \in Own(c) /\ s.id \in Own(d)
  BY <1>2, <1>3 DEF RequestOk
<1>5. r.id \in Vertex /\ s.id \in Vertex /\ r.id % CACHELINE_LEN = c /\ s.id % CACHELINE_LEN = d
  BY <1>4 DEF Own, VerticesOf
<1>6. r.id = s.id
  BY <1>4, <1>5, OneSource
<1> QED
  BY <1>5, <1>6

(* The edge a lane gets from the line stage 5 asks for.                    *)
Requested(i) ==
  IF Send5 /\ Users(i) # {} THEN {Lowest * CACHELINE_LEN + i} ELSE {}

LEMMA GrantedIsRequested ==
  ASSUME QueueInv, NEW i \in Core, NEW e
  PROVE  e \in Requested(i) <=> (\E c \in Core : e \in Granted(c)) /\ Lane(e) = i
<1>1. ASSUME NEW c \in Core
      PROVE  Granted(c) = IF Popped5(c) THEN LineEdges(Head(rqst[c])) ELSE {}
  <2>1. Popped5(c) => Head(rqst[c]) # None
    <3>1. Popped5(c) => c \in Waiting
      BY DEF Popped5, Served
    <3> QED
      BY <3>1, HeadRequest, NoneIsNone DEF QueueInv
  <2> QED
    BY <2>1 DEF Granted, NewEdges, Front, Taken
<1>2. ASSUME e \in Requested(i)
      PROVE  (\E c \in Core : e \in Granted(c)) /\ Lane(e) = i
  <2>1. Send5 /\ Users(i) # {} /\ e = Lowest * CACHELINE_LEN + i
    BY <1>2 DEF Requested
  <2>2. PICK c \in Users(i) : TRUE
    BY <2>1
  <2>3. c \in Waiting /\ Head(rqst[c]).line = Lowest /\ i \in Head(rqst[c]).mask /\ Popped5(c)
    BY <2>1, <2>2 DEF Users, Served, Popped5
  <2>4. c \in Core /\ Head(rqst[c]) \in Request
    BY <2>3, HeadRequest DEF QueueInv
  <2>5. e \in LineEdges(Head(rqst[c])) /\ Lane(e) = i
    BY <2>1, <2>3, <2>4, LineEdgesFacts
  <2> QED
    BY <1>1, <2>3, <2>4, <2>5
<1>3. ASSUME NEW c \in Core, e \in Granted(c), Lane(e) = i
      PROVE  e \in Requested(i)
  <2>1. Popped5(c) /\ e \in LineEdges(Head(rqst[c]))
    BY <1>1, <1>3
  <2>2. c \in Waiting /\ Head(rqst[c]).line = Lowest /\ Send5 /\ c \in Served
    BY <2>1 DEF Popped5, Served
  <2>3. Head(rqst[c]) \in Request
    BY <2>2, HeadRequest DEF QueueInv
  <2>4. i \in Head(rqst[c]).mask /\ e = Lowest * CACHELINE_LEN + i
    BY <1>3, <2>1, <2>2, <2>3, LineEdgesFacts
  <2>5. c \in Users(i)
    BY <2>2, <2>4 DEF Users
  <2> QED
    BY <2>2, <2>4, <2>5 DEF Requested
<1> QED
  BY <1>2, <1>3

JobOk(i, j, e) == /\ j.val \in active /\ j.deg = Degree[j.val]
                  /\ e \in EdgesOf(j.val) /\ Lane(e) = i

LEMMA NewJobOk ==
  ASSUME QueueInv, RequestsOk, CombineEdgeRqst, NEW i \in Core
  PROVE  /\ p5V'[i] \in Option(Job \union {Idle}) /\ p5Line' \in Option(Nat)
         /\ (p5V'[i] = None <=> p5Line' = None)
         /\ Requested(i) = IF p5V'[i] = None \/ p5V'[i] = Idle THEN {}
                           ELSE {EdgeAt(i, p5Line')}
         /\ p5V'[i] # None /\ p5V'[i] # Idle => JobOk(i, p5V'[i], EdgeAt(i, p5Line'))
<1>1. TypeOK
  BY DEF QueueInv
<1>2. /\ p5V'[i] = IF Send5 THEN LaneJob(i) ELSE None
      /\ p5Line' = IF Send5 THEN Lowest ELSE None
  BY DEF CombineEdgeRqst
<1>3. p5V'[i] \in Option(Job \union {Idle}) /\ p5Line' \in Option(Nat)
  BY <1>1, CombineType
<1>4. CASE ~Send5
  BY <1>2, <1>3, <1>4 DEF Requested
<1>5. CASE Send5 /\ Users(i) = {}
  <2>1. LaneJob(i) = Idle /\ Idle # None
    BY <1>5, NoneIsNone DEF LaneJob
  <2>2. Lowest # None
    BY <1>1, <1>5, LowestFacts, NoneIsNone DEF Send5
  <2> QED
    BY <1>2, <1>3, <1>5, <2>1, <2>2 DEF Requested
<1>6. CASE Send5 /\ Users(i) # {}
  <2> DEFINE c == LastOf(Users(i))
             r == Head(rqst[c])
             j == LaneJob(i)
  <2>1. Waiting # {}
    BY <1>6 DEF Send5
  <2>2. Lowest # None
    BY <1>1, <2>1, LowestFacts, NoneIsNone
  <2>3. /\ c \in Served /\ c \in Waiting /\ i \in r.mask
        /\ j = [id |-> r.id, val |-> r.val, deg |-> r.deg] /\ j \in Job
    BY <1>1, <1>6, <2>1, UsersFacts
  <2>4. r.line = Lowest
    BY <2>3 DEF Served
  <2>5. c \in Core /\ r \in Request /\ RequestOk(Own(c), r)
    BY <2>3, FirstRequest
  <2>6. EdgeAt(i, Lowest) = Lowest * CACHELINE_LEN + i
    BY <2>2 DEF EdgeAt
  <2>7. EdgeAt(i, Lowest) \in LineEdges(r) /\ Lane(EdgeAt(i, Lowest)) = i
    BY <2>3, <2>4, <2>5, <2>6, LineEdgesFacts
  <2>8. j # Idle /\ j # None
    <3>1. j.id \in Vertex /\ -1 \notin Vertex
      BY <2>3 DEF Job, Vertex
    <3> QED
      BY <2>3, <3>1, NoneIsNone DEF Idle
  <2>9. j.val = r.val /\ j.deg = r.deg
    BY <2>3
  <2> HIDE DEF c, r, j
  <2>10. JobOk(i, j, EdgeAt(i, Lowest))
    BY <2>5, <2>7, <2>9 DEF JobOk, RequestOk, Own
  <2> QED
    BY <1>2, <1>3, <1>6, <2>2, <2>6, <2>8, <2>10 DEF Requested, j
<1> QED
  BY <1>4, <1>5, <1>6

-----------------------------------------------------------------------------
(***************************************************************************)
(* From fetched to sent: the join of stage 7.                              *)
(***************************************************************************)
LEMMA BehindLength ==
  ASSUME NEW S, None \notin S, NEW q \in Seq(S), NEW x \in Option(S)
  PROVE  Behind(q, x) \in Seq(S) /\ Len(Behind(q, x)) = Len(q) + Held(x)
<1>1. Opt(x) \in Seq(S) /\ Len(Opt(x)) = Held(x)
  BY PushFacts
<1> DEFINE o == Opt(x)
<1> HIDE DEF o
<1> QED
  BY <1>1, ConcatProperties DEF Behind, Join, o

LEMMA JoinLength ==
  ASSUME NEW S, NEW q \in Seq(S), NEW r \in Seq(S)
  PROVE  Join(q, r) \in Seq(S) /\ Len(Join(q, r)) = Len(q) + Len(r)
BY ConcatProperties DEF Join

LEMMA EdgeAtType ==
  ASSUME NEW i \in Core, NEW x \in Option(Nat)
  PROVE  /\ EdgeAt(i, x) \in Option(Nat) /\ (EdgeAt(i, x) = None <=> x = None)
         /\ Held(EdgeAt(i, x)) = Held(x)
<1>1. CASE x = None
  BY <1>1 DEF EdgeAt, Option
<1>2. CASE x \in Nat
  <2>1. x * CACHELINE_LEN + i \in Nat
    BY <1>2, Positive
  <2> QED
    BY <1>2, <2>1, NoneIsNone DEF EdgeAt, Option, Held
<1> QED
  BY <1>1, <1>2 DEF Option

LEMMA EdgesAtLength ==
  ASSUME NEW i \in Core, NEW s \in Seq(Nat)
  PROVE  EdgesAt(i, s) \in Seq(Nat) /\ Len(EdgesAt(i, s)) = Len(s)
<1>1. CanMove(Nat, s, 0, None)
  BY NoneIsNone DEF CanMove, Option
<1>2. CanMove(Nat, EdgesAt(i, s), 0, EdgeAt(i, None)) /\ Len(EdgesAt(i, s)) = Len(s)
  BY <1>1, EdgesAtMoved
<1> QED
  BY <1>2 DEF CanMove

LEMMA SameLength ==
  ASSUME QueueInv, NEW i \in Core
  PROVE  Len(Jobs(i)) = Len(Edges(i))
<1> DEFINE S == Job \union {Idle}
           b == Behind(q6, p5Line)
           a == Behind(edge7[i], EdgeAt(i, edges))
           m == EdgesAt(i, Lines)
<1>1. /\ q7[i] \in Seq(S) /\ p5V[i] \in Option(S) /\ edge7[i] \in Seq(Nat)
      /\ edges \in Option(Nat) /\ memory \in Seq(Nat) /\ q6 \in Seq(Nat)
      /\ p5Line \in Option(Nat) /\ None \notin S /\ None \notin Nat
  BY NoneIsNone DEF QueueInv, TypeOK
<1>2. EdgeAt(i, edges) \in Option(Nat) /\ Held(EdgeAt(i, edges)) = Held(edges)
  BY <1>1, EdgeAtType
<1>3. Len(q7[i]) + Held(p5V[i])
        = Len(edge7[i]) + Held(edges) + Len(memory) + Len(q6) + Held(p5Line)
  BY DEF QueueInv, Lengths, OneLinePerJob
<1>4. Len(Jobs(i)) = Len(q7[i]) + Held(p5V[i])
  <2> HIDE DEF S
  <2> QED
    BY <1>1, BehindLength DEF Jobs
<1>5. b \in Seq(Nat) /\ Len(b) = Len(q6) + Held(p5Line)
  BY <1>1, BehindLength
<1>6. a \in Seq(Nat) /\ Len(a) = Len(edge7[i]) + Held(edges)
  BY <1>1, <1>2, BehindLength
<1> HIDE DEF a, b
<1>7. Lines \in Seq(Nat) /\ Len(Lines) = Len(memory) + Len(b)
  BY <1>1, <1>5, JoinLength DEF Lines, b
<1>8. m \in Seq(Nat) /\ Len(m) = Len(Lines)
  BY <1>7, EdgesAtLength
<1> HIDE DEF m
<1>9. Len(Edges(i)) = Len(a) + Len(m)
  BY <1>6, <1>8, JoinLength DEF Edges, a, m
<1>10. Len(memory) \in Int /\ Len(q6) \in Int /\ Held(p5Line) \in Int /\ Len(edge7[i]) \in Int
       /\ Held(edges) \in Int
  BY <1>1, LenProperties, HeldFacts
<1> DEFINE u == Len(memory)
           v == Len(q6)
           w == Held(p5Line)
           x == Len(edge7[i])
           y == Held(edges)
<1>11. /\ Len(Edges(i)) = (x + y) + (u + (v + w)) /\ Len(Jobs(i)) = x + y + u + v + w
       /\ u \in Int /\ v \in Int /\ w \in Int /\ x \in Int /\ y \in Int
  BY <1>3, <1>4, <1>5, <1>6, <1>7, <1>8, <1>9, <1>10
<1> HIDE DEF u, v, w, x, y
<1> QED
  BY <1>11

(* What a scheduler sends.                                                 *)
Left(i) == IF p7V'[i] = None THEN {} ELSE {p7V'[i].edge}

LEMMA SentIsFirst ==
  ASSUME QueueInv, Schedule, NEW i \in Core
  PROVE  /\ ~Joined(i) => p7V'[i] = None
         /\ Joined(i) /\ Head(q7[i]) = Idle => p7V'[i] = None
         /\ Joined(i) /\ Head(q7[i]) # Idle =>
              /\ p7V'[i] # None /\ p7V'[i].edge = Head(edge7[i])
              /\ p7V'[i].val = Head(q7[i]).val /\ p7V'[i].deg = Head(q7[i]).deg
<1>1. q7[i] \in Seq(Job \union {Idle}) /\ edge7[i] \in Seq(Nat)
  BY DEF QueueInv, TypeOK
<1>2. p7V'[i] = Joint(i)
  BY DEF Schedule
<1>3. ASSUME Joined(i), Head(q7[i]) # Idle
      PROVE  /\ Joint(i) # None /\ Joint(i).edge = Head(edge7[i])
             /\ Joint(i).val = Head(q7[i]).val /\ Joint(i).deg = Head(q7[i]).deg
  <2>1. q7[i] # <<>> /\ edge7[i] # <<>>
    BY <1>3 DEF Joined
  <2>2. Head(q7[i]) \in Job /\ Head(edge7[i]) \in Nat
    <3>1. Head(q7[i]) \in Job \union {Idle}
      BY <1>1, <2>1, PopFacts
    <3>2. Head(edge7[i]) \in Nat
      BY <1>1, <2>1, PopFacts
    <3> QED
      BY <1>3, <3>1, <3>2
  <2> DEFINE j == Head(q7[i])
             e == Head(edge7[i])
             u == [edge |-> e, val |-> j.val, deg |-> j.deg]
  <2>3. Joint(i) = u
    BY <1>3 DEF Joint
  <2>4. u \in Update
    <3>1. j.val \in Vertex /\ j.deg \in Nat /\ e \in Nat
      BY <2>2 DEF Job
    <3> HIDE DEF j, e
    <3> QED
      BY <3>1 DEF Update
  <2> QED
    BY <2>3, <2>4, NoneIsNone
<1> QED
  BY <1>2, <1>3 DEF Joint

LEMMA FetchedStep ==
  ASSUME QueueInv, RequestsOk, JobsOk, FetchedOnce, CombineEdgeRqst,
         NEW accept \in BOOLEAN, NEW answer \in BOOLEAN, HbmInterface(accept, answer),
         Schedule, NEW i \in Core, Requested(i) \intersect Fetched(i) = {}
  PROVE  /\ Fetched(i)' = (Fetched(i) \ Left(i)) \union Requested(i)
         /\ Left(i) \subseteq Fetched(i)
         /\ \A k \in 1 .. Len(Jobs(i)') :
              Jobs(i)'[k] # Idle => JobOk(i, Jobs(i)'[k], Edges(i)'[k])
         /\ \A k, l \in 1 .. Len(Jobs(i)') :
              Jobs(i)'[k] # Idle /\ Jobs(i)'[l] # Idle /\ Edges(i)'[k] = Edges(i)'[l] => k = l
         /\ p7V'[i] # None => JobOk(i, p7V'[i], p7V'[i].edge)
<1> DEFINE p == Jobs(i)
           q == Edges(i)
           r == Jobs(i)'
           s == Edges(i)'
           n == Taken(Joined(i))
           y == p5V'[i]
           z == EdgeAt(i, p5Line')
           New == Requested(i)
           Out == Left(i)
           F == Fetched(i)
<1>1. /\ y \in Option(Job \union {Idle}) /\ p5Line' \in Option(Nat)
      /\ (y = None <=> p5Line' = None)
      /\ New = IF y = None \/ y = Idle THEN {} ELSE {z}
      /\ y # None /\ y # Idle => JobOk(i, y, z)
  BY NewJobOk
<1>2. z # None <=> y # None
  BY <1>1, EdgeAtType
<1>3. /\ r = Moved(p, n, y) /\ CanMove(Job \union {Idle}, p, n, y)
      /\ Front(p, n) = Front(q7[i], n)
  BY <1>1, JobsMove
<1>4. /\ s = Moved(q, n, z) /\ CanMove(Nat, q, n, z) /\ Front(q, n) = Front(edge7[i], n)
  BY <1>1, EdgesMove
<1>5. Len(p) = Len(q)
  BY SameLength
<1>6. /\ F = {q[k] : k \in {l \in 1 .. Len(p) : p[l] # Idle}}
      /\ Fetched(i)' = {s[k] : k \in {l \in 1 .. Len(r) : r[l] # Idle}}
  BY DEF Fetched, Idle
<1>7. \A k \in 1 .. Len(p) : p[k] # Idle => JobOk(i, p[k], q[k])
  BY DEF JobsOk, JobOk
<1>8. \A k, l \in 1 .. Len(p) : p[k] # Idle /\ p[l] # Idle /\ q[k] = q[l] => k = l
  BY DEF FetchedOnce
<1>9. /\ n \in 0 .. 1 /\ (n = 1 <=> Joined(i))
      /\ n = 1 => Front(q7[i], n) = Head(q7[i]) /\ Front(edge7[i], n) = Head(edge7[i])
  BY DEF Taken, Front
<1> HIDE DEF p, q, r, s, n, y, z, New, Out, F
<1>10. Movement(p, n, y, r)
  BY <1>3, MovedFrom
<1>11. Movement(q, n, z, s)
  BY <1>4, MovedFrom
<1>12. /\ Len(p) \in Nat /\ Len(r) \in Nat /\ n \in 0 .. 1
       /\ n = 1 => 1 \in 1 .. Len(p) /\ p[1] = Front(p, n) /\ q[1] = Front(q, n)
  BY <1>10, <1>11 DEF Movement
<1>13. Len(r) = Len(s)
  <2>1. /\ Len(r) = Len(p) - n + Held(y) /\ Len(s) = Len(q) - n + Held(z)
    BY <1>10, <1>11 DEF Movement
  <2> QED
    BY <1>2, <1>5, <2>1 DEF Held
<1>14. ASSUME NEW k \in 1 .. Len(r)
       PROVE  \/ k + n \in 1 + n .. Len(p) /\ r[k] = p[k + n] /\ s[k] = q[k + n]
              \/ k = Len(r) /\ y # None /\ r[k] = y /\ s[k] = z
  <2>1. /\ Len(r) = Len(p) - n + Held(y) /\ Len(s) = Len(q) - n + Held(z)
        /\ Len(p) \in Nat /\ n \in 0 .. 1
    BY <1>10, <1>11 DEF Movement
  <2>2. \/ k + n \in 1 + n .. Len(p) /\ r[k] = p[k + n]
        \/ k = Len(r) /\ y # None /\ r[k] = y
    BY <1>10 DEF Movement
  <2>3. k \in 1 .. Len(s)
    BY <1>13
  <2>4. \/ k + n \in 1 + n .. Len(q) /\ s[k] = q[k + n]
        \/ k = Len(s) /\ z # None /\ s[k] = z
    BY <1>11, <2>3 DEF Movement
  <2>5. (y # None => Held(y) = 1) /\ (z # None => Held(z) = 1)
    BY DEF Held
  <2>6. CASE k = Len(r) /\ y # None
    <3>1. ~(k + n \in 1 + n .. Len(p)) /\ ~(k + n \in 1 + n .. Len(q))
      BY <1>5, <2>1, <2>5, <2>6
    <3> QED
      BY <2>2, <2>4, <2>6, <3>1
  <2>7. CASE ~(k = Len(r) /\ y # None)
    BY <1>2, <1>13, <2>2, <2>4, <2>7
  <2> QED
    BY <2>6, <2>7
<1>15. \A k \in 1 + n .. Len(p) : k - n \in 1 .. Len(r) /\ r[k - n] = p[k] /\ s[k - n] = q[k]
  BY <1>5, <1>10, <1>11 DEF Movement
<1>16. y # None => Len(r) \in 1 .. Len(r) /\ r[Len(r)] = y /\ s[Len(r)] = z
  BY <1>2, <1>10, <1>11, <1>13 DEF Movement
<1>17. /\ \A k \in 1 + n .. Len(p) : k \in 1 .. Len(p) /\ (n = 1 => k # 1)
       /\ \A k \in 1 .. Len(p) : k \in 1 + n .. Len(p) \/ (n = 1 /\ k = 1)
  BY <1>12
<1>18. Out = IF n = 1 /\ p[1] # Idle THEN {q[1]} ELSE {}
  <2>1. CASE n = 0
    <3>1. p7V'[i] = None
      BY <1>9, <2>1, SentIsFirst
    <3> QED
      BY <2>1, <3>1 DEF Left, Out
  <2>2. CASE n = 1
    <3>1. Joined(i) /\ p[1] = Head(q7[i]) /\ q[1] = Head(edge7[i])
      BY <1>3, <1>4, <1>9, <1>12, <2>2
    <3> QED
      BY <2>2, <3>1, SentIsFirst DEF Left, Out
  <2> QED
    BY <1>12, <2>1, <2>2
<1>19. p7V'[i] # None => JobOk(i, p7V'[i], p7V'[i].edge)
  <2> SUFFICES ASSUME p7V'[i] # None PROVE JobOk(i, p7V'[i], p7V'[i].edge)
    OBVIOUS
  <2>1. /\ Joined(i) /\ Head(q7[i]) # Idle /\ p7V'[i].edge = Head(edge7[i])
        /\ p7V'[i].val = Head(q7[i]).val /\ p7V'[i].deg = Head(q7[i]).deg
    BY SentIsFirst
  <2>2. p[1] = Head(q7[i]) /\ q[1] = Head(edge7[i]) /\ 1 \in 1 .. Len(p)
    BY <1>3, <1>4, <1>9, <1>12, <2>1
  <2>3. JobOk(i, p[1], q[1])
    BY <1>7, <2>1, <2>2
  <2> QED
    BY <2>1, <2>2, <2>3 DEF JobOk
<1>20. /\ \A e : e \in F <=> \E k \in 1 .. Len(p) : p[k] # Idle /\ e = q[k]
       /\ \A e : e \in Fetched(i)' <=> \E k \in 1 .. Len(r) : r[k] # Idle /\ e = s[k]
  BY <1>6
<1>21. Out \subseteq F
  BY <1>12, <1>18, <1>20
<1>22. \A k \in 1 + n .. Len(p) : p[k] # Idle => q[k] \notin Out
  BY <1>8, <1>12, <1>17, <1>18
<1>23. ASSUME NEW e, e \in Fetched(i)'
       PROVE  e \in (F \ Out) \union New
  <2>1. PICK k \in 1 .. Len(r) : r[k] # Idle /\ e = s[k]
    BY <1>20, <1>23
  <2>2. CASE k + n \in 1 + n .. Len(p) /\ r[k] = p[k + n] /\ s[k] = q[k + n]
    BY <1>17, <1>20, <1>22, <2>1, <2>2
  <2>3. CASE y # None /\ r[k] = y /\ s[k] = z
    BY <1>1, <2>1, <2>3
  <2> QED
    BY <1>14, <2>2, <2>3
<1>24. ASSUME NEW e, e \in (F \ Out) \union New
       PROVE  e \in Fetched(i)'
  <2>1. CASE e \in New
    BY <1>1, <1>16, <1>20, <2>1
  <2>2. CASE e \in F \ Out
    <3>1. PICK k \in 1 .. Len(p) : p[k] # Idle /\ e = q[k]
      BY <1>20, <2>2
    <3>2. k \in 1 + n .. Len(p)
      BY <1>17, <1>18, <2>2, <3>1
    <3> QED
      BY <1>15, <1>20, <3>1, <3>2
  <2> QED
    BY <1>24, <2>1, <2>2
<1>25. Fetched(i)' = (F \ Out) \union New
  BY <1>23, <1>24
<1>26. ASSUME NEW k \in 1 .. Len(r), r[k] # Idle
       PROVE  JobOk(i, r[k], s[k])
  <2>1. CASE k + n \in 1 + n .. Len(p) /\ r[k] = p[k + n] /\ s[k] = q[k + n]
    BY <1>7, <1>17, <1>26, <2>1
  <2>2. CASE y # None /\ r[k] = y /\ s[k] = z
    BY <1>1, <1>26, <2>2
  <2> QED
    BY <1>14, <2>1, <2>2
<1>27. ASSUME NEW k \in 1 .. Len(r), NEW l \in 1 .. Len(r), r[k] # Idle, r[l] # Idle, s[k] = s[l]
       PROVE  k = l
  <2> DEFINE Old(j) == j + n \in 1 + n .. Len(p) /\ r[j] = p[j + n] /\ s[j] = q[j + n]
             Last(j) == j = Len(r) /\ y # None /\ r[j] = y /\ s[j] = z
  <2>1. (Old(k) \/ Last(k)) /\ (Old(l) \/ Last(l))
    BY <1>14
  <2>2. ASSUME NEW a \in 1 .. Len(r), NEW b \in 1 .. Len(r), r[a] # Idle, r[b] # Idle,
               Old(a), Last(b)
        PROVE  s[a] # s[b]
    <3>1. s[a] \in F
      BY <1>17, <1>20, <2>2
    <3>2. s[b] \in New
      BY <1>1, <2>2
    <3>3. New \intersect F = {}
      BY DEF New, F
    <3> QED
      BY <3>1, <3>2, <3>3
  <2>3. CASE Old(k) /\ Old(l)
    <3>1. k + n = l + n
      BY <1>8, <1>17, <1>27, <2>3
    <3> QED
      BY <1>12, <3>1
  <2>4. CASE Last(k) /\ Last(l)
    BY <2>4
  <2> HIDE DEF Old, Last
  <2> QED
    BY <1>27, <2>1, <2>2, <2>3, <2>4
<1> QED
  BY <1>19, <1>21, <1>25, <1>26, <1>27 DEF F, Out, New, r, s

-----------------------------------------------------------------------------
(***************************************************************************)
(* Every edge is in one place.                                             *)
(***************************************************************************)
LEMMA EdgesOfCore ==
  ASSUME QueueInv, VerticesOk, RequestsOk, NEW c \in Core, NEW e \in ToAsk(c) \union Asked(c)
  PROVE  \E v \in Own(c) : e \in EdgesOf(v)
<1>1. CASE e \in ToAsk(c)
  <2>1. \/ \E v \in toSend[c] : e \in EdgesOf(v)
        \/ \E k \in 1 .. Len(VertexStream(c)) : e \in EdgesOf(VertexStream(c)[k])
    BY <1>1 DEF ToAsk
  <2> QED
    BY <2>1 DEF VerticesOk
<1>2. CASE e \in Asked(c)
  <2>1. PICK k \in 1 .. Len(Requests(c)) : e \in LineEdges(Requests(c)[k])
    BY <1>2 DEF Asked
  <2> QED
    BY <2>1 DEF RequestsOk
<1> QED
  BY <1>1, <1>2

LEMMA OneCore ==
  ASSUME QueueInv, VerticesOk, RequestsOk, NEW c \in Core, NEW d \in Core,
         NEW e, e \in ToAsk(c) \union Asked(c), e \in ToAsk(d) \union Asked(d)
  PROVE  c = d
<1>1. PICK v \in Own(c) : e \in EdgesOf(v)
  BY EdgesOfCore
<1>2. PICK w \in Own(d) : e \in EdgesOf(w)
  BY EdgesOfCore
<1>3. v \in Vertex /\ w \in Vertex /\ v % CACHELINE_LEN = c /\ w % CACHELINE_LEN = d
  BY DEF Own, VerticesOf
<1>4. v = w
  BY <1>1, <1>2, <1>3, OneSource
<1> QED
  BY <1>3, <1>4

LEMMA OneLane ==
  ASSUME JobsOk, NEW i \in Core, NEW e \in Fetched(i)
  PROVE  Lane(e) = i
BY DEF JobsOk, Fetched

(* One tick, as a movement of edges between the places.                    *)
EdgesGo ==
  /\ \A c \in Core : /\ ToAsk(c)' = ToAsk(c) \ NewEdges(p4'[c])
                     /\ NewEdges(p4'[c]) \subseteq ToAsk(c)
                     /\ Asked(c)' = (Asked(c) \ Granted(c)) \union NewEdges(p4'[c])
                     /\ Granted(c) \subseteq Asked(c)
  /\ \A i \in Core : /\ Fetched(i)' = (Fetched(i) \ Left(i)) \union Requested(i)
                     /\ Left(i) \subseteq Fetched(i)
                     /\ \A e : e \in Requested(i)
                                 <=> (\E c \in Core : e \in Granted(c)) /\ Lane(e) = i
  /\ \A e : e \in delivered' <=> e \in delivered \/ \E i \in Core : e \in Left(i)

LEMMA PlacesStep ==
  ASSUME QueueInv, VerticesOk, RequestsOk, JobsOk, OnePlace, SomePlace, EdgesGo,
         active' = active
  PROVE  OnePlace' /\ SomePlace'
<1>1. \A c, d \in Core : \A e :
        e \in ToAsk(c) \union Asked(c) /\ e \in ToAsk(d) \union Asked(d) => c = d
  BY OneCore
<1>2. \A i \in Core : \A e \in Fetched(i) : Lane(e) = i
  BY OneLane
<1>3. ASSUME NEW c \in Core
      PROVE  ToAsk(c)' \intersect Asked(c)' = {}
  BY DEF OnePlace, EdgesGo
<1>4. ASSUME NEW c \in Core, NEW e, e \in ToAsk(c)' \union Asked(c)'
      PROVE  e \in ToAsk(c) \union Asked(c) /\ e \notin Granted(c)
  BY <1>4 DEF OnePlace, EdgesGo
<1>5. ASSUME NEW c \in Core, NEW i \in Core, NEW e, e \in ToAsk(c)' \union Asked(c)'
      PROVE  e \notin Fetched(i)' /\ e \notin delivered'
  <2>1. e \in ToAsk(c) \union Asked(c) /\ e \notin Granted(c)
    BY <1>4, <1>5
  <2>2. e \notin delivered /\ \A j \in Core : e \notin Fetched(j)
    BY <2>1 DEF OnePlace
  <2>3. \A d \in Core : e \notin Granted(d)
    <3> SUFFICES ASSUME NEW d \in Core, e \in Granted(d) PROVE FALSE
      OBVIOUS
    <3>1. e \in Asked(d)
      BY DEF EdgesGo
    <3>2. c = d
      BY <1>1, <2>1, <3>1
    <3> QED
      BY <2>1, <3>2
  <2> QED
    BY <2>2, <2>3 DEF EdgesGo
<1>6. ASSUME NEW i \in Core, NEW e \in Fetched(i)'
      PROVE  e \notin delivered'
  <2>1. CASE e \in Fetched(i) \ Left(i)
    <3>1. e \notin delivered
      BY <2>1 DEF OnePlace
    <3>2. \A j \in Core : e \in Left(j) => j = i
      BY <1>2, <2>1 DEF EdgesGo
    <3> QED
      BY <2>1, <3>1, <3>2 DEF EdgesGo
  <2>2. CASE e \in Requested(i)
    <3>1. PICK d \in Core : e \in Granted(d)
      BY <2>2 DEF EdgesGo
    <3>2. e \in Asked(d)
      BY <3>1 DEF EdgesGo
    <3>3. e \notin delivered /\ \A j \in Core : e \notin Fetched(j)
      BY <3>2 DEF OnePlace
    <3> QED
      BY <3>3 DEF EdgesGo
  <2> QED
    BY <1>6, <2>1, <2>2 DEF EdgesGo
<1>7. ASSUME NEW c \in Core, NEW v \in Own(c), NEW e \in EdgesOf(v)
      PROVE  e \in ToAsk(c)' \union Asked(c)' \union Fetched(Lane(e))' \union delivered'
  <2>0. Lane(e) \in Core
    <3>1. v \in Vertex
      BY DEF Own, VerticesOf
    <3>2. e \in Nat
      BY <3>1, RangeFacts
    <3> QED
      BY <3>2, LineLane
  <2>1. e \in ToAsk(c) \union Asked(c) \union Fetched(Lane(e)) \union delivered
    BY DEF SomePlace
  <2>2. CASE e \in ToAsk(c)
    BY <2>2 DEF EdgesGo
  <2>3. CASE e \in Asked(c)
    <3>1. e \in Granted(c) => e \in Requested(Lane(e))
      BY <2>0 DEF EdgesGo
    <3> QED
      BY <2>0, <2>3, <3>1 DEF EdgesGo
  <2>4. CASE e \in Fetched(Lane(e))
    BY <2>0, <2>4 DEF EdgesGo
  <2>5. CASE e \in delivered
    BY <2>5 DEF EdgesGo
  <2> QED
    BY <2>1, <2>2, <2>3, <2>4, <2>5
<1>8. \A c \in Core : Own(c)' = Own(c)
  BY DEF Own
<1>9. OnePlace'
  BY <1>3, <1>5, <1>6 DEF OnePlace
<1>10. SomePlace'
  BY <1>7, <1>8 DEF SomePlace, EdgesOf, Lane
<1> QED
  BY <1>9, <1>10

-----------------------------------------------------------------------------
(***************************************************************************)
(* The invariant is inductive.                                             *)
(***************************************************************************)
LEMMA HeadIsOkNext == (QueueInv /\ Answers /\ NowOk => HeadOk)'
BY HeadIsOk, PTL

LEMMA FreshIsFlowNext == (Fresh => Flow)'
BY FreshIsFlow, PTL

LEMMA EdgesGoOn ==
  ASSUME EdgeInv, QueueInv', NEW full, NEW accept \in BOOLEAN, NEW answer \in BOOLEAN,
         Pipeline(full, accept, answer), NEW send \in SUBSET MaySend, ReadActiveVertex(send)
  PROVE  /\ Answers' /\ NowOk' /\ VerticesOk' /\ RequestsOk' /\ EdgesGo
         /\ \A c \in Core : NewEdges(p4'[c]) \intersect Asked(c) = {}
         /\ \A i \in Core : Requested(i) \intersect Fetched(i) = {}
<1>1. /\ QueueInv /\ Answers /\ NowOk /\ VerticesOk /\ RequestsOk /\ JobsOk
      /\ AskedOnce /\ FetchedOnce /\ OnePlace
  BY DEF EdgeInv, Flow
<1>2. /\ ReadOffset /\ ReadMemories /\ ReadEdge /\ CombineEdgeRqst
      /\ HbmInterface(accept, answer) /\ Schedule
  BY DEF Pipeline
<1>3. Answers'
  BY <1>1, <1>2, AnswersStep
<1>4. NowOk'
  BY <1>1, <1>2, NowStep
<1>5. HeadOk /\ HeadOk'
  BY <1>1, <1>3, <1>4, HeadIsOk, HeadIsOkNext
<1>6. VerticesOk'
  BY <1>1, VerticesStep
<1>7. RequestsOk'
  BY <1>1, <1>5, RequestsStep
<1>8. ASSUME NEW c \in Core
      PROVE  /\ ToAsk(c)' = ToAsk(c) \ NewEdges(p4'[c])
             /\ NewEdges(p4'[c]) \subseteq ToAsk(c)
  BY <1>1, <1>5, ToAskStep
<1>9. ASSUME NEW c \in Core
      PROVE  NewEdges(p4'[c]) \intersect Asked(c) = {}
  BY <1>1, <1>8 DEF OnePlace
<1>10. ASSUME NEW c \in Core
       PROVE  /\ Asked(c)' = (Asked(c) \ Granted(c)) \union NewEdges(p4'[c])
              /\ Granted(c) \subseteq Asked(c)
  BY <1>1, <1>2, <1>9, AskedStep
<1>11. ASSUME NEW i \in Core, NEW e
       PROVE  e \in Requested(i) <=> (\E c \in Core : e \in Granted(c)) /\ Lane(e) = i
  BY <1>1, GrantedIsRequested
<1>12. ASSUME NEW i \in Core
       PROVE  Requested(i) \intersect Fetched(i) = {}
  BY <1>1, <1>10, <1>11 DEF OnePlace
<1>13. ASSUME NEW i \in Core
       PROVE  /\ Fetched(i)' = (Fetched(i) \ Left(i)) \union Requested(i)
              /\ Left(i) \subseteq Fetched(i)
  BY <1>1, <1>2, <1>12, FetchedStep
<1>14. \A e : e \in delivered' <=> e \in delivered \/ \E i \in Core : e \in Left(i)
  BY DEF ReadActiveVertex, Left
<1>15. EdgesGo
  BY <1>8, <1>10, <1>11, <1>13, <1>14 DEF EdgesGo
<1> QED
  BY <1>3, <1>4, <1>6, <1>7, <1>9, <1>12, <1>15

LEMMA FlowStep ==
  ASSUME EdgeInv, QueueInv', NEW full, NEW accept \in BOOLEAN, NEW answer \in BOOLEAN,
         Pipeline(full, accept, answer), NEW send \in SUBSET MaySend, ReadActiveVertex(send)
  PROVE  Answers' /\ Flow'
<1>1. /\ QueueInv /\ VerticesOk /\ RequestsOk /\ JobsOk
      /\ AskedOnce /\ FetchedOnce /\ OnePlace /\ SomePlace
  BY DEF EdgeInv, Flow
<1>2. ReadEdge /\ CombineEdgeRqst /\ HbmInterface(accept, answer) /\ Schedule
  BY DEF Pipeline
<1>3. /\ Answers' /\ NowOk' /\ VerticesOk' /\ RequestsOk' /\ EdgesGo
      /\ \A c \in Core : NewEdges(p4'[c]) \intersect Asked(c) = {}
      /\ \A i \in Core : Requested(i) \intersect Fetched(i) = {}
  BY EdgesGoOn
<1>4. active' = active
  BY DEF ReadActiveVertex
<1>5. OnePlace' /\ SomePlace'
  BY <1>1, <1>3, <1>4, PlacesStep
<1>6. AskedOnce'
  <2>1. ASSUME NEW c \in Core
        PROVE  \A k, l \in 1 .. Len(Requests(c)') : k # l =>
                 LineEdges(Requests(c)'[k]) \intersect LineEdges(Requests(c)'[l]) = {}
    BY <1>1, <1>2, <1>3, AskedStep
  <2> QED
    BY <2>1 DEF AskedOnce, LineEdges
<1>7. ASSUME NEW i \in Core
      PROVE  /\ \A k \in 1 .. Len(Jobs(i)') :
                  Jobs(i)'[k] # Idle => JobOk(i, Jobs(i)'[k], Edges(i)'[k])
             /\ \A k, l \in 1 .. Len(Jobs(i)') :
                  Jobs(i)'[k] # Idle /\ Jobs(i)'[l] # Idle /\ Edges(i)'[k] = Edges(i)'[l]
                    => k = l
             /\ p7V'[i] # None => JobOk(i, p7V'[i], p7V'[i].edge)
  BY <1>1, <1>2, <1>3, FetchedStep
<1>8. JobsOk'
  BY <1>4, <1>7 DEF JobsOk, JobOk, Idle, EdgesOf, Lane
<1>9. FetchedOnce'
  BY <1>7 DEF FetchedOnce, Idle
<1>10. UpdateIsEdge'
  BY <1>4, <1>7 DEF UpdateIsEdge, JobOk, EdgesOf, Lane
<1> QED
  BY <1>3, <1>5, <1>6, <1>8, <1>9, <1>10 DEF Flow

LEMMA EdgeInit == Init => EdgeInv
<1> SUFFICES ASSUME Init PROVE EdgeInv
  OBVIOUS
<1> QED
  BY QueueInit, AnswersInit, EndsInit, FreshInit, FreshIsFlow DEF EdgeInv

LEMMA EdgeStep == EdgeInv /\ [Next]_vars => EdgeInv'
<1> SUFFICES ASSUME EdgeInv, [Next]_vars PROVE EdgeInv'
  OBVIOUS
<1>1. QueueInv /\ Answers /\ Ends
  BY DEF EdgeInv
<1>2. QueueInv'
  BY <1>1, QueueStep
<1>3. CASE Next
  <2>1. PICK full \in SUBSET Core, accept \in BOOLEAN, answer \in BOOLEAN :
          /\ Pipeline(full, accept, answer)
          /\ (\E send \in SUBSET MaySend : ReadActiveVertex(send)) \/ NextIteration
    BY <1>3, StepCases
  <2>2. CASE \E send \in SUBSET MaySend : ReadActiveVertex(send)
    <3>1. PICK send \in SUBSET MaySend : ReadActiveVertex(send)
      BY <2>2
    <3>2. Ends'
      BY <1>1, <2>1, <3>1, EndsSend
    <3>3. Answers' /\ Flow'
      BY <1>2, <2>1, <3>1, FlowStep
    <3> QED
      BY <1>2, <3>2, <3>3 DEF EdgeInv
  <2>3. CASE NextIteration
    <3>1. Ends'
      BY <1>1, <2>1, <2>3, EndsRestart
    <3>2. Flow'
      <4>1. Fresh'
        BY <1>1, <2>1, <2>3, FreshRestart
      <4> QED
        BY <4>1, FreshIsFlowNext
    <3>3. Answers'
      BY <1>1, <2>1, AnswersStep DEF Pipeline
    <3> QED
      BY <1>2, <3>1, <3>2, <3>3 DEF EdgeInv
  <2> QED
    BY <2>1, <2>2, <2>3
<1>4. CASE UNCHANGED vars
  <2>1. UNCHANGED <<p1V, p1End, q2, ct2, p2V, p2End, p2Full, toSend, allSent, offsetData,
                    deltaRd, deltaData, srcV, vId, offset, value, nowLOffset, ct4, p4, p4End,
                    p4Full, rqst, ct5, p5Line, p5V, p5End, p5Full, q6, memory, edges, q7,
                    edge7, ct7, p7V, p7End, active, delivered, stale>>
    BY <1>4 DEF vars, stage2, source, stage4, stage5, stage7, history
  <2>2. Answers'
    BY <1>1, <2>1 DEF Answers, ValuesCome, Behind, Join, Opt, Ranges, OffsetOf
  <2>3. Ends'
    BY <1>1, <2>1 DEF Ends, Restarting, Phase1, Phase2, Phase3, Phase4, Phase5, Phase6, New1,
         New2, New4, New5, New7, Old2, Old4, Old7, Down, Ended1, Ended2, Ended4, Ended5, Ended7,
         Sent
  <2>4. \A c \in Core : /\ VertexStream(c)' = VertexStream(c) /\ Requests(c)' = Requests(c)
                        /\ Jobs(c)' = Jobs(c) /\ Edges(c)' = Edges(c) /\ Own(c)' = Own(c)
    BY <2>1 DEF VertexStream, Requests, Jobs, Edges, Lines, Behind, Join, Opt, EdgeAt, EdgesAt,
         Own
  <2>5. \A c \in Core : /\ ToAsk(c)' = ToAsk(c) /\ Asked(c)' = Asked(c)
                        /\ Fetched(c)' = Fetched(c)
    BY <2>1, <2>4 DEF ToAsk, Asked, Fetched, Start, Lo, Hi, EdgesOf, Line, LineEdges, Idle
  <2>6. VerticesOk' /\ NowOk' /\ UpdateIsEdge'
    BY <2>1, <2>4 DEF EdgeInv, Flow, VerticesOk, NowOk, UpdateIsEdge, Lo, Hi, Lane, EdgesOf
  <2>7. RequestsOk' /\ AskedOnce'
    <3>1. RequestsOk'
      <4>1. \A c \in Core : \A k \in 1 .. Len(Requests(c)) : RequestOk(Own(c), Requests(c)[k])
        BY DEF EdgeInv, Flow, RequestsOk, RequestOk
      <4>2. \A c \in Core : \A k \in 1 .. Len(Requests(c)') : RequestOk(Own(c)', Requests(c)'[k])
        BY <2>4, <4>1
      <4> QED
        BY <4>2 DEF RequestsOk, RequestOk, EdgesOf, LineEdges
    <3>2. AskedOnce'
      <4>1. AskedOnce
        BY DEF EdgeInv, Flow
      <4>2. ASSUME NEW c \in Core
            PROVE  \A k, l \in 1 .. Len(Requests(c)') : k # l =>
                     LineEdges(Requests(c)'[k]) \intersect LineEdges(Requests(c)'[l]) = {}
        <5>1. \A k, l \in 1 .. Len(Requests(c)) : k # l =>
                LineEdges(Requests(c)[k]) \intersect LineEdges(Requests(c)[l]) = {}
          BY <4>1 DEF AskedOnce
        <5>2. Requests(c)' = Requests(c)
          BY <2>4
        <5> QED
          BY <5>1, <5>2
      <4> QED
        BY <4>2 DEF AskedOnce, LineEdges
    <3> QED
      BY <3>1, <3>2
  <2>8. JobsOk' /\ FetchedOnce'
    BY <2>1, <2>4 DEF EdgeInv, Flow, JobsOk, FetchedOnce, EdgesOf, Lane, Idle
  <2>9. OnePlace'
    BY <2>1, <2>5 DEF EdgeInv, Flow, OnePlace
  <2>10. SomePlace'
    <3>1. ASSUME NEW c \in Core, NEW v \in Own(c), NEW e \in EdgesOf(v)
          PROVE  e \in ToAsk(c)' \union Asked(c)' \union Fetched(Lane(e))' \union delivered'
      <4>1. v \in Vertex
        BY DEF Own, VerticesOf
      <4>2. Lane(e) \in Core
        BY <4>1, RangeFacts, LineLane
      <4>3. e \in ToAsk(c) \union Asked(c) \union Fetched(Lane(e)) \union delivered
        BY DEF EdgeInv, Flow, SomePlace
      <4> QED
        BY <2>1, <2>5, <4>2, <4>3
    <3> QED
      BY <2>4, <3>1 DEF SomePlace, EdgesOf, Lane
  <2> QED
    BY <1>2, <2>2, <2>3, <2>6, <2>7, <2>8, <2>9, <2>10 DEF EdgeInv, Flow
<1> QED
  BY <1>3, <1>4

LEMMA EdgeInvHolds == Spec => []EdgeInv
BY EdgeInit, EdgeStep, PTL DEF Spec

-----------------------------------------------------------------------------
(***************************************************************************)
(* What it says of the properties.                                         *)
(***************************************************************************)

(* UpdateIsEdgeHolds: what a scheduler sends is an edge of an active       *)
(* vertex, on the lane it lies on, with the value and the degree of that   *)
(* vertex, however the memory answers (stages 4 to 7).                     *)
THEOREM UpdateIsEdgeHolds == Spec => []UpdateIsEdge
<1>1. EdgeInv => UpdateIsEdge
  BY DEF EdgeInv, Flow
<1> QED
  BY <1>1, EdgeInvHolds, PTL

(* LanesDisjointHolds: no two cores that share a line of stage 5 claim the *)
(* same lane of it.                                                        *)
THEOREM LanesDisjointHolds == Spec => []LanesDisjoint
<1>1. EdgeInv => LanesDisjoint
  BY LanesFollow DEF EdgeInv, Flow
<1> QED
  BY <1>1, EdgeInvHolds, PTL

(* NoEdgeTwiceHolds: no scheduler sends an edge a second time in one       *)
(* iteration (stages 4 to 7).                                              *)
THEOREM NoEdgeTwiceHolds == Spec => NoEdgeTwice
<1>1. EdgeInv /\ EdgeInv' /\ [Next]_vars
        => [\A i \in Core : p7V'[i] # None => p7V'[i].edge \notin delivered]_vars
  <2> SUFFICES ASSUME EdgeInv, EdgeInv', Next, NEW i \in Core, p7V'[i] # None
               PROVE  p7V'[i].edge \notin delivered
    OBVIOUS
  <2>1. QueueInv /\ Ends /\ OnePlace /\ QueueInv'
    BY DEF EdgeInv, Flow
  <2>2. PICK full \in SUBSET Core, accept \in BOOLEAN, answer \in BOOLEAN :
          /\ Pipeline(full, accept, answer)
          /\ (\E send \in SUBSET MaySend : ReadActiveVertex(send)) \/ NextIteration
    BY StepCases
  <2>3. CASE \E send \in SUBSET MaySend : ReadActiveVertex(send)
    <3>1. PICK send \in SUBSET MaySend : ReadActiveVertex(send)
      BY <2>3
    <3>2. EdgesGo
      BY <2>1, <2>2, <3>1, EdgesGoOn
    <3>3. p7V'[i].edge \in Fetched(i)
      BY <3>2 DEF EdgesGo, Left
    <3> QED
      BY <2>1, <3>3 DEF OnePlace
  <2>4. CASE NextIteration
    <3>1. Fresh'
      BY <2>1, <2>2, <2>4, FreshRestart
    <3> QED
      BY <3>1 DEF Fresh
  <2> QED
    BY <2>2, <2>3, <2>4
<1> QED
  BY <1>1, EdgeInvHolds, PTL DEF Spec, NoEdgeTwice

LEMMA EndFollows == EdgeInv => EndIsComplete
<1> SUFFICES ASSUME EdgeInv, NEW i \in Core, p7End[i]
             PROVE  IF stale[i] THEN delivered = {}
                    ELSE /\ p7V[i] = None
                         /\ \A v \in active : \A e \in EdgesOf(v) : Lane(e) = i => e \in delivered
  BY DEF EndIsComplete
<1>1. QueueInv /\ Ends /\ SomePlace /\ TypeOK
  BY DEF EdgeInv, Flow, QueueInv
<1>2. CASE stale[i]
  BY <1>1, <1>2 DEF Ends, Restarting, Phase6
<1>3. CASE ~stale[i]
  <2>1. /\ \A c \in Core : Ended1(c) /\ Sent(c) /\ Ended2(c) /\ Ended4(c)
        /\ Ended5 /\ Ended7(i)
    BY <1>1, <1>3, EndMeans
  <2>2. \A c \in Core : /\ toSend[c] = {} /\ vId[c] = <<>> /\ p2V[c] = None
                        /\ q2[c] = <<>> /\ p1V[c] = None /\ rqst[c] = <<>> /\ p4[c] = None
                        /\ p5V[c] = None
    BY <2>1 DEF Ended1, Sent, Ended2, Ended4, Ended5
  <2>3. q7[i] = <<>> /\ p7V[i] = None
    BY <2>1 DEF Ended7
  <2>4. \A c \in Core : VertexStream(c) = <<>> /\ Requests(c) = <<>>
    BY <2>2, NothingBehind DEF VertexStream, Requests
  <2>5. Jobs(i) = <<>>
    BY <2>2, <2>3, NothingBehind DEF Jobs
  <2>6. 1 .. Len(<<>>) = {}
    BY EmptySeq
  <2>7. \A c \in Core : ToAsk(c) = {} /\ Asked(c) = {}
    BY <2>2, <2>4, <2>6 DEF ToAsk, Asked
  <2>8. Fetched(i) = {}
    BY <2>5, <2>6 DEF Fetched
  <2>9. ASSUME NEW v \in active, NEW e \in EdgesOf(v), Lane(e) = i
        PROVE  e \in delivered
    <3>1. v \in Vertex
      BY <1>1 DEF TypeOK
    <3>2. v % CACHELINE_LEN \in Core
      BY <3>1, Positive, LineLane DEF Lane
    <3>3. v \in Own(v % CACHELINE_LEN)
      BY <3>1 DEF Own, VerticesOf
    <3> QED
      BY <1>1, <2>7, <2>8, <2>9, <3>2, <3>3 DEF SomePlace
  <2> QED
    BY <1>3, <2>3, <2>9
<1> QED
  BY <1>2, <1>3

(* EndIsCompleteHolds: when a scheduler ends, every edge of an active      *)
(* vertex on its lane has been sent; the end level of the iteration before *)
(* has fallen by the time the first update of the next one leaves (stages  *)
(* 1 to 7).                                                                *)
THEOREM EndIsCompleteHolds == Spec => []EndIsComplete
BY EndFollows, EdgeInvHolds, PTL

=============================================================================
