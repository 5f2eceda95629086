------------------------------ MODULE EdgeFetch ------------------------------
(***************************************************************************)
(* The front end of the cores of one memory channel: stage 2 (queue of     *)
(* active vertices), stage 3 (offset memory), the source reads of stage    *)
(* 10, stage 4 (edge ranges cut into cache lines), stage 5 (requests of    *)
(* all cores combined), stage 6 (HBM interface) and stage 7 (vertex and    *)
(* edge joined into an update).                                            *)
(*                                                                         *)
(* One tick is one action, as in VertexRam.  A lane of a cache line is fed *)
(* to the scheduler of the core with the same number, so cores and lanes   *)
(* are one set.  The payload of an edge is its address; the value of a     *)
(* source is the vertex itself, so that a value says where it came from.   *)
(* The environment chooses when stage 1 sends, how long the memory takes,  *)
(* and which row buffers of the network are full.                          *)
(***************************************************************************)
EXTENDS Integers, Sequences, FiniteSets

CONSTANTS
  CACHELINE_LEN,   \* edges of a line, cores of a channel (parameter.h: 16)
  VERTEX_NUM,      \* vertices of the channel
  Degree,          \* the number of edges of every vertex
  FIFO_SIZE,       \* fill level at which a stage is full (16)
  WAIT_END_DELAY,  \* ticks an end condition has to last (20)
  None,            \* the content of a register whose DValid is 0
  MAX_ITERATION    \* bound: iterations explored

Vertex == 0 .. VERTEX_NUM - 1
Core   == 0 .. CACHELINE_LEN - 1

ASSUME ChannelAssumption ==
  /\ CACHELINE_LEN \in Nat \ {0} /\ VERTEX_NUM \in Nat /\ FIFO_SIZE \in Nat \ {0}
  /\ WAIT_END_DELAY \in Nat /\ MAX_ITERATION \in Nat
  /\ Degree \in [Vertex -> Nat]

(* Initialize_Offset_Uram: the edges of the vertices of a channel follow   *)
(* each other.                                                             *)
LOffset[v \in 0 .. VERTEX_NUM] == IF v = 0 THEN 0 ELSE LOffset[v - 1] + Degree[v - 1]

EdgesOf(v)   == LOffset[v] .. LOffset[v + 1] - 1
EDGE_NUM     == LOffset[VERTEX_NUM]
VerticesOf(c) == {v \in Vertex : v % CACHELINE_LEN = c}

Line(e) == e \div CACHELINE_LEN
Lane(e) == e % CACHELINE_LEN

INFINITE_OFFSET == (EDGE_NUM + 1) * CACHELINE_LEN  \* 1000000000 in the code

VARIABLES
  toSend,      \* stage 1: vertices of every core still to be sent
  allSent,     \* stage 1: iteration_end
  p1V, p1End,  \* P1: Active_V_ID, Iteration_End
  q2, ct2,     \* stage 2: v_id_buffer, end_ct
  p2V, p2End, p2Full,
  offsetData,  \* MEM: what the offset memory answers
  deltaRd, deltaData, srcV,   \* P10, MEM, P10: the way of a source's value
  vId, offset, value,         \* stage 4: its three queues
  nowLOffset, ct4,            \* stage 4: now_loffset, end_ct
  p4, p4End, p4Full,
  rqst, ct5,   \* stage 5: its four queues, end_ct
  p5Line, p5V, p5End, p5Full,
  q6, memory, p6Full,         \* stage 6: requests not sent, requests sent
  edges,       \* MEM: the line that arrives at stage 7, or None
  q7, edge7, ct7,             \* stage 7: vertices, edges, end_ct
  p7V, p7End, p7Full,
  networkFull, \* P8: Stage_Full of every node
  iteration, active, delivered, stale  \* history: the iteration, its active vertices,
                                       \* the edges sent, the cores whose old end is up

stage2 == <<p1V, p1End, q2, ct2, p2V, p2End, p2Full, toSend, allSent>>
source == <<offsetData, deltaRd, deltaData, srcV>>
stage4 == <<vId, offset, value, nowLOffset, ct4, p4, p4End, p4Full>>
stage5 == <<rqst, ct5, p5Line, p5V, p5End, p5Full>>
stage7 == <<q6, memory, p6Full, edges, q7, edge7, ct7, p7V, p7End, p7Full, networkFull>>
history == <<iteration, active, delivered, stale>>
vars   == <<stage2, source, stage4, stage5, stage7, history>>

OffsetOf(v) == [lo |-> LOffset[v], hi |-> LOffset[v + 1] - 1]
EdgeRange == {OffsetOf(v) : v \in Vertex}
Request == [line : Nat, mask : SUBSET Core, id : Vertex, val : Vertex, deg : Nat]
Job     == [id : Vertex, val : Vertex, deg : Nat]
Idle    == [id |-> -1, val |-> -1, deg |-> 0]   \* a lane nobody asked for
Update  == [edge : Nat, val : Vertex, deg : Nat]
Option(S) == S \union {None}

ASSUME NoneAssumption ==
  /\ None \notin Nat /\ None \notin EdgeRange /\ None \notin Request
  /\ None \notin Job \union {Idle} /\ None \notin Update

Push(q, x) == IF x = None THEN q ELSE Append(q, x)
All(x)     == [c \in Core |-> x]

(* Fault: a queue is full one entry too late.                              *)
FullLate(q) == Len(q) > FIFO_SIZE

Full(q) == Len(q) >= FIFO_SIZE

(* end_ct and Iteration_End, the same in stages 2, 4, 5 and 7.             *)
(* Fault: the counter is not held at its limit.                            *)
CountOn(cond, ct) == IF cond THEN ct + 1 ELSE 0

Count(cond, ct) == IF ~cond THEN 0 ELSE IF ct >= WAIT_END_DELAY THEN ct ELSE ct + 1
Ended(cond, ct) == cond /\ ct >= WAIT_END_DELAY

TypeOK ==
  /\ toSend \in [Core -> SUBSET Vertex] /\ allSent \in [Core -> BOOLEAN]
  /\ p1V \in [Core -> Option(Vertex)] /\ p2V \in [Core -> Option(Vertex)]
  /\ q2 \in [Core -> Seq(Vertex)]
  /\ offsetData \in [Core -> Option(EdgeRange)]
  /\ deltaRd \in [Core -> Option(Vertex)] /\ deltaData \in [Core -> Option(Vertex)]
  /\ srcV \in [Core -> Option(Vertex)]
  /\ vId \in [Core -> Seq(Vertex)] /\ offset \in [Core -> Seq(EdgeRange)]
  /\ value \in [Core -> Seq(Vertex)] /\ nowLOffset \in [Core -> 0 .. INFINITE_OFFSET]
  /\ p4 \in [Core -> Option(Request)] /\ rqst \in [Core -> Seq(Request)]
  /\ p5Line \in Option(Nat) /\ p5V \in [Core -> Option(Job \union {Idle})]
  /\ q6 \in Seq(Nat) /\ memory \in Seq(Nat) /\ edges \in Option(Nat)
  /\ q7 \in [Core -> Seq(Job \union {Idle})] /\ edge7 \in [Core -> Seq(Nat)]
  /\ p7V \in [Core -> Option(Update)] /\ networkFull \in [Core -> BOOLEAN]
  /\ \A end \in {p1End, p2End, p4End, p7End} : end \in [Core -> BOOLEAN]
  /\ \A full \in {p2Full, p4Full, p5Full} : full \in [Core -> BOOLEAN]
  /\ p5End \in BOOLEAN /\ p6Full \in BOOLEAN /\ p7Full \in BOOLEAN
  /\ \A ct \in {ct2, ct4, ct7} : ct \in [Core -> 0 .. WAIT_END_DELAY]
  /\ ct5 \in 0 .. WAIT_END_DELAY
  /\ iteration \in 0 .. MAX_ITERATION /\ active \in SUBSET Vertex
  /\ delivered \in SUBSET Nat /\ stale \in [Core -> BOOLEAN]

Init ==
  /\ active \in SUBSET Vertex /\ iteration = 0 /\ delivered = {} /\ stale = All(FALSE)
  /\ toSend = [c \in Core |-> active \intersect VerticesOf(c)] /\ allSent = All(FALSE)
  /\ p1V = All(None) /\ p1End = All(FALSE)
  /\ q2 = All(<<>>) /\ ct2 = All(0)
  /\ p2V = All(None) /\ p2End = All(FALSE) /\ p2Full = All(FALSE)
  /\ offsetData = All(None) /\ deltaRd = All(None) /\ deltaData = All(None)
  /\ srcV = All(None)
  /\ vId = All(<<>>) /\ offset = All(<<>>) /\ value = All(<<>>)
  /\ nowLOffset = All(INFINITE_OFFSET) /\ ct4 = All(0)
  /\ p4 = All(None) /\ p4End = All(FALSE) /\ p4Full = All(FALSE)
  /\ rqst = All(<<>>) /\ ct5 = 0
  /\ p5Line = None /\ p5V = All(None) /\ p5End = FALSE /\ p5Full = All(FALSE)
  /\ q6 = <<>> /\ memory = <<>> /\ p6Full = FALSE /\ edges = None
  /\ q7 = All(<<>>) /\ edge7 = All(<<>>) /\ ct7 = All(0)
  /\ p7V = All(None) /\ p7End = All(FALSE) /\ p7Full = FALSE
  /\ networkFull = All(FALSE)

-----------------------------------------------------------------------------
(* Stage 2: the queue between the bitmap and the memories.                 *)
Drained2(c) == p1End[c] /\ q2[c] = <<>> /\ p1V[c] = None

ReadOffset ==
  /\ p2V' = [c \in Core |-> IF p4Full[c] \/ q2[c] = <<>> THEN None ELSE Head(q2[c])]
  /\ q2' = [c \in Core |-> Push(IF p2V'[c] = None THEN q2[c] ELSE Tail(q2[c]), p1V[c])]
  /\ ct2' = [c \in Core |-> Count(Drained2(c), ct2[c])]
  /\ p2End' = [c \in Core |-> Ended(Drained2(c), ct2[c])]
  /\ p2Full' = [c \in Core |-> Full(q2'[c])]

(* The offsets take one tick, the value of the source takes three.         *)
ReadMemories ==
  /\ offsetData' = [c \in Core |->
       IF p2V[c] = None THEN None ELSE OffsetOf(p2V[c])]
  /\ deltaRd' = p2V /\ deltaData' = deltaRd /\ srcV' = deltaData

-----------------------------------------------------------------------------
(***************************************************************************)
(* Stage 4.  The edges lo .. hi of the oldest vertex are requested line by *)
(* line; now_loffset is where the next line starts, and lies in a line     *)
(* after hi when the vertex has not been begun.                            *)
(***************************************************************************)
Ready4(c) == offset[c] # <<>> /\ value[c] # <<>>
Lo(c)     == Head(offset[c]).lo
Hi(c)     == Head(offset[c]).hi
NoEdges(c) == Lo(c) = Hi(c) + 1
Send4(c)  == Ready4(c) /\ ~p5Full[c] /\ ~NoEdges(c)
Start(c)  == IF Line(nowLOffset[c]) > Line(Hi(c)) THEN Lo(c) ELSE nowLOffset[c]

(* Fault: the end of the range is not looked at in the last line.          *)
MaskOpen(c) == {i \in Core : i >= Lane(Start(c))}

Mask(c) ==
  {i \in Core : i >= Lane(Start(c)) /\ (Line(Start(c)) = Line(Hi(c)) => i <= Lane(Hi(c)))}

(* Fault: a vertex without edges is not popped.                            *)
Done4NoSkip(c) == Send4(c) /\ Line(Start(c)) = Line(Hi(c))

Done4(c) == Ready4(c) /\ ~p5Full[c] /\ (NoEdges(c) \/ Line(Start(c)) = Line(Hi(c)))

NextLOffset(c) ==
  IF ~Ready4(c) THEN INFINITE_OFFSET
  ELSE IF p5Full[c] THEN nowLOffset[c]
  ELSE IF NoEdges(c) THEN INFINITE_OFFSET
  ELSE IF ~Done4(c) THEN (Line(Start(c)) + 1) * CACHELINE_LEN
  ELSE IF Len(offset[c]) > 1 THEN offset[c][2].lo ELSE INFINITE_OFFSET

Drained4(c) == p2End[c] /\ vId[c] = <<>> /\ offsetData[c] = None

Pop4(c, q) == IF Done4(c) THEN Tail(q) ELSE q

ReadEdge ==
  /\ p4' = [c \in Core |->
       IF ~Send4(c) THEN None
       ELSE [line |-> Line(Start(c)), mask |-> Mask(c), id |-> Head(vId[c]),
             val |-> Head(value[c]), deg |-> Hi(c) - Lo(c) + 1]]
  /\ nowLOffset' = [c \in Core |-> NextLOffset(c)]
  /\ vId'    = [c \in Core |-> Push(Pop4(c, vId[c]), p2V[c])]
  /\ offset' = [c \in Core |-> Push(Pop4(c, offset[c]), offsetData[c])]
  /\ value'  = [c \in Core |-> Push(Pop4(c, value[c]), srcV[c])]
  /\ ct4' = [c \in Core |-> Count(Drained4(c), ct4[c])]
  /\ p4End' = [c \in Core |-> Ended(Drained4(c), ct4[c])]
  /\ p4Full' = [c \in Core |-> Full(vId'[c])]

-----------------------------------------------------------------------------
(***************************************************************************)
(* Stage 5.  The lowest line at the front of any queue is requested, for   *)
(* all cores that wait for it; each lane gets the vertex whose mask holds  *)
(* it, or none.                                                            *)
(***************************************************************************)
Waiting == {c \in Core : rqst[c] # <<>>}
Send5   == ~p6Full /\ ~p7Full /\ Waiting # {}
Lowest  == CHOOSE l \in {Head(rqst[c]).line : c \in Waiting} :
             \A c \in Waiting : l <= Head(rqst[c]).line
Served  == {c \in Waiting : Head(rqst[c]).line = Lowest}
Users(i) == {c \in Served : i \in Head(rqst[c]).mask}
LastOf(S) == CHOOSE c \in S : \A d \in S : d <= c

LaneJob(i) ==
  IF Users(i) = {} THEN Idle
  ELSE LET r == Head(rqst[LastOf(Users(i))])
       IN [id |-> r.id, val |-> r.val, deg |-> r.deg]

(* Fault: of those that share the line only the last one is popped.        *)
Popped5Last(c) == Send5 /\ c = LastOf(Served)

Popped5(c) == Send5 /\ c \in Served

Drained5 == (\A c \in Core : p4End[c]) /\ Waiting = {}

CombineEdgeRqst ==
  /\ p5Line' = IF Send5 THEN Lowest ELSE None
  /\ p5V' = [i \in Core |-> IF Send5 THEN LaneJob(i) ELSE None]
  /\ rqst' = [c \in Core |-> Push(IF Popped5(c) THEN Tail(rqst[c]) ELSE rqst[c], p4[c])]
  /\ ct5' = Count(Drained5, ct5)
  /\ p5End' = Ended(Drained5, ct5)
  /\ p5Full' = [c \in Core |-> Full(rqst'[c])]


-----------------------------------------------------------------------------
(* Stage 6 and the memory behind it, which answers in order after any      *)
(* time: accept is the controller not being full, answer a line coming.    *)
HbmInterface(accept, answer) ==
  /\ q6' = Push(IF accept /\ q6 # <<>> THEN Tail(q6) ELSE q6, p5Line)
  /\ memory' = (IF answer /\ memory # <<>> THEN Tail(memory) ELSE memory)
               \o (IF accept /\ q6 # <<>> THEN <<Head(q6)>> ELSE <<>>)
  /\ edges' = IF answer /\ memory # <<>> THEN Head(memory) ELSE None
  /\ p6Full' = Full(q6')

(* Stage 7: the oldest vertex and the oldest edge of a lane belong together.*)
Joined(i) == q7[i] # <<>> /\ edge7[i] # <<>> /\ ~networkFull[i]

(* Fault: a lane nobody asked for keeps its edge.                          *)
KeepIdleEdge(i) == Joined(i) /\ Head(q7[i]) # Idle

TakesEdge(i) == Joined(i)

Joint(i) ==
  IF ~Joined(i) \/ Head(q7[i]) = Idle THEN None
  ELSE [edge |-> Head(edge7[i]), val |-> Head(q7[i]).val, deg |-> Head(q7[i]).deg]

(* Fault: the end does not wait for the queue of vertices.                 *)
Drained7Early(i) == p5End

Drained7(i) == p5End /\ q7[i] = <<>>

Schedule ==
  /\ p7V' = [i \in Core |-> Joint(i)]
  /\ q7' = [i \in Core |-> Push(IF Joined(i) THEN Tail(q7[i]) ELSE q7[i], p5V[i])]
  /\ edge7' = [i \in Core |->
       Push(IF TakesEdge(i) THEN Tail(edge7[i]) ELSE edge7[i],
            IF edges = None THEN None ELSE edges * CACHELINE_LEN + i)]
  /\ ct7' = [i \in Core |-> Count(Drained7(i), ct7[i])]
  /\ p7End' = [i \in Core |-> Ended(Drained7(i), ct7[i])]
  /\ p7Full' = (\E i \in Core : Full(q7'[i]))

-----------------------------------------------------------------------------
(***************************************************************************)
(* The environment.  Stage 1 sends the vertices of a core from the lowest  *)
(* on, send being the cores whose bitmap shows one in this tick, and ends  *)
(* when none is left; it opens the next iteration, for all cores in one    *)
(* tick, some time after all schedulers have ended.                        *)
(***************************************************************************)
MaySend == {c \in Core : toSend[c] # {} /\ ~p2Full[c]}
LowestOf(S) == CHOOSE v \in S : \A w \in S : v <= w

ReadActiveVertex(send) ==
  /\ p1End' = allSent
  /\ p1V' = [c \in Core |-> IF c \in send THEN LowestOf(toSend[c]) ELSE None]
  /\ toSend' = [c \in Core |->
       IF c \in send THEN toSend[c] \ {LowestOf(toSend[c])} ELSE toSend[c]]
  /\ allSent' = [c \in Core |-> toSend[c] = {}]
  /\ UNCHANGED <<iteration, active>>
  /\ delivered' = delivered \union {p7V'[i].edge : i \in {j \in Core : p7V'[j] # None}}
  /\ stale' = [c \in Core |-> stale[c] /\ p7End'[c]]

NextIteration ==
  /\ iteration < MAX_ITERATION
  /\ \A c \in Core : allSent[c] /\ p7End[c] /\ ~stale[c]
  /\ p1End' = allSent /\ p1V' = All(None) /\ allSent' = All(FALSE)
  /\ iteration' = iteration + 1
  /\ active' \in SUBSET Vertex
  /\ toSend' = [c \in Core |-> active' \intersect VerticesOf(c)]
  /\ delivered' = {} /\ stale' = p7End'

Pipeline(full, accept, answer) ==
  /\ ReadOffset /\ ReadMemories /\ ReadEdge /\ CombineEdgeRqst
  /\ HbmInterface(accept, answer)
  /\ Schedule
  /\ networkFull' = [i \in Core |-> i \in full]

Tick(send, full, accept, answer) ==
  Pipeline(full, accept, answer) /\ ReadActiveVertex(send)

Restart(full, accept, answer) ==
  Pipeline(full, accept, answer) /\ NextIteration

(* Choices that make no difference are not offered: a full row buffer of   *)
(* the network matters to a lane with a vertex, an answer if there is one. *)
Choice(q) == IF q = <<>> THEN {FALSE} ELSE BOOLEAN
MayBlock  == {i \in Core : q7[i] # <<>> \/ p5V[i] # None}

Step(full, accept, answer) ==
  (\E send \in SUBSET MaySend : Tick(send, full, accept, answer))
    \/ Restart(full, accept, answer)

Next ==
  \E full \in SUBSET MayBlock, accept \in Choice(q6), answer \in Choice(memory) :
    Step(full, accept, answer)

Spec == Init /\ [][Next]_vars

(***************************************************************************)
(* The clock runs; the memory accepts and answers (the ideal controller of *)
(* this version does so in every tick), no row buffer of the network stays *)
(* full (HyperX drains), and stage 1 sends what its bitmap holds.          *)
(***************************************************************************)
Accepting  == []<>(q6 = <<>> \/ memory # <<>>)
Answering  == []<>(memory = <<>> \/ edges # None)
Unblocked(i) == []<>(~networkFull[i])
Sending(c)   == []<>(toSend[c] = {} \/ p2Full[c] \/ p1V[c] # None)

FairSpec ==
  /\ Spec /\ WF_vars(Next)
  /\ Accepting /\ Answering
  /\ \A c \in Core : Unblocked(c) /\ Sending(c)

-----------------------------------------------------------------------------
(***************************************************************************)
(* Correctness.                                                            *)
(***************************************************************************)

(* What leaves a scheduler is an edge of an active vertex, on the lane it  *)
(* lies on, with the value and the degree of that vertex: the streams of   *)
(* ids, offsets, values and edges, which are joined by position in stages  *)
(* 4 and 7, never slip against each other.                                 *)
UpdateIsEdge ==
  \A i \in Core : p7V[i] # None =>
    LET u == p7V[i]
    IN /\ u.val \in active /\ u.edge \in EdgesOf(u.val) /\ u.deg = Degree[u.val]
       /\ Lane(u.edge) = i

(* No edge is sent twice in an iteration.                                  *)
NoEdgeTwice ==
  [][\A i \in Core : p7V'[i] # None => p7V'[i].edge \notin delivered]_vars

(* When a scheduler ends, every edge of an active vertex on its lane has   *)
(* been sent; the end level of the iteration before has fallen by the time *)
(* the first update of the next one leaves.                                *)
EndIsComplete ==
  \A i \in Core : p7End[i] =>
    IF stale[i] THEN delivered = {}
    ELSE /\ p7V[i] = None
         /\ \A v \in active : \A e \in EdgesOf(v) : Lane(e) = i => e \in delivered

(* Under fairness all schedulers reach the end of every iteration: no      *)
(* stage waits for ever on a full one, also behind vertices without edges. *)
EndReached == []<>(\A i \in Core : p7End[i] /\ ~stale[i])

(* Two cores that wait for one line never claim the same lane of it.       *)
LanesDisjoint == \A i \in Core : \A c, d \in Users(i) : c = d

(* Every vertex a scheduler holds waits for one line that is on its way or *)
(* has come, and no line comes that nobody waits for.                      *)
Held(r) == IF r = None THEN 0 ELSE 1
OneLinePerJob ==
  \A i \in Core :
    Len(q7[i]) + Held(p5V[i]) =
      Len(edge7[i]) + Held(edges) + Len(memory) + Len(q6) + Held(p5Line)

(* Full is seen a tick late: every queue takes one entry more than its     *)
(* limit, and those filled in its wake no more than it.                    *)
BoundedQueues ==
  \A c \in Core :
    /\ Len(q2[c]) <= FIFO_SIZE + 1 /\ Len(vId[c]) <= FIFO_SIZE + 1
    /\ Len(offset[c]) <= Len(vId[c]) /\ Len(value[c]) <= Len(offset[c])
    /\ Len(rqst[c]) <= FIFO_SIZE + 1 /\ Len(q6) <= FIFO_SIZE + 1
    /\ Len(q7[c]) <= FIFO_SIZE + 1 /\ Len(edge7[c]) <= FIFO_SIZE + 1

=============================================================================
