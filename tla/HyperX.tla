------------------------------- MODULE HyperX -------------------------------
(***************************************************************************)
(* Stage 8, the network between the schedulers and the cores: a grid of    *)
(* HPX_ROW_NUM by HPX_COLUMN_NUM nodes.  An update enters the row buffer   *)
(* of the node it comes from, crosses to the row of its vertex within its  *)
(* column (row crossbar), then to the column of its vertex within that row *)
(* (column crossbar), and leaves from the local buffer of its node.        *)
(*                                                                         *)
(* One tick is one action.  The wires between the crossbars and the nodes  *)
(* (hy1_row_v_*, hy1_*_buffer_full) are copies of the fronts and the fill  *)
(* levels the buffers had after the tick before, so both are read off the  *)
(* buffers.  What the schedulers hand over (stage 7, which holds back      *)
(* while Stage_Full is up), when they end, and which cores are full are    *)
(* the environment's choice.                                               *)
(***************************************************************************)
EXTENDS Integers, Sequences, FiniteSets

CONSTANTS
  HPX_ROW_NUM,     \* parameter.h: PSEUDO_CHANNEL_NUM
  HPX_COLUMN_NUM,  \* parameter.h: GROUP_CORE_NUM
  FIFO_SIZE,       \* fill level at which a buffer is full (parameter.h: 16)
  CLK_PERIOD,      \* clk is kept modulo this multiple of both dimensions
  Vertex,          \* the vertices updates are for
  Source,          \* the nodes whose schedulers send; the others have ended
  None,            \* the content of a register whose DValid is 0
  MAX_SENT         \* bound: updates a scheduler sends in the iteration

ASSUME GridAssumption ==
  /\ HPX_ROW_NUM \in Nat \ {0} /\ HPX_COLUMN_NUM \in Nat \ {0}
  /\ FIFO_SIZE \in Nat \ {0} /\ MAX_SENT \in Nat
  /\ CLK_PERIOD \in Nat \ {0}
  /\ CLK_PERIOD % HPX_ROW_NUM = 0 /\ CLK_PERIOD % HPX_COLUMN_NUM = 0
  /\ Vertex \subseteq Nat

CORE_NUM == HPX_ROW_NUM * HPX_COLUMN_NUM
Row      == 0 .. HPX_ROW_NUM - 1
Column   == 0 .. HPX_COLUMN_NUM - 1
Node     == Row \X Column   \* node <<r, c>> serves core r * HPX_COLUMN_NUM + c

ASSUME SourceAssumption == Source \subseteq Node

(* The row and the column of a vertex, as the crossbars compute them.      *)
(* Fault: the column is taken from the wrong digit of the id.              *)
ColumnByQuotient(v) == (v \div HPX_COLUMN_NUM) % HPX_COLUMN_NUM

RowOf(v)    == (v % CORE_NUM) \div HPX_COLUMN_NUM
ColumnOf(v) == v % HPX_COLUMN_NUM

(* The node of the core whose memories hold the vertex.                    *)
Owner(v) == CHOOSE n \in Node : n[1] * HPX_COLUMN_NUM + n[2] = v % CORE_NUM

(* An update: its vertex and, for the properties, the node it should reach,*)
(* the node it entered at and its number among the updates of that node.   *)
Update == [id : Vertex, to : Node, from : Node, nr : 1 .. MAX_SENT]

ASSUME NoneAssumption == None \notin Update /\ None \notin Row /\ None \notin Column

VARIABLES
  clk,             \* the clock, which rotates the priorities
  scheduleV,       \* P7: update of every node's scheduler, or None
  scheduleEnd,     \* P7: Iteration_End of every node's scheduler
  rowBuffer,       \* row_v_id_buffer, row_v_value_buffer
  columnBuffer,    \* column_v_id_buffer, column_v_value_buffer
  localBuffer,     \* v_id_buffer, v_value_buffer
  endSeen,         \* iteration_end
  updateV,         \* P8: Update_V of every node, or None
  iterationEnd,    \* P8: Iteration_End of every node
  sent             \* number of updates every scheduler has sent

buffers  == <<rowBuffer, columnBuffer, localBuffer>>
schedule == <<scheduleV, scheduleEnd, sent>>
vars     == <<clk, schedule, buffers, endSeen, updateV, iterationEnd>>

TypeOK ==
  /\ clk \in 0 .. CLK_PERIOD - 1
  /\ scheduleV \in [Node -> Update \union {None}] /\ scheduleEnd \in [Node -> BOOLEAN]
  /\ rowBuffer \in [Node -> Seq(Update)] /\ columnBuffer \in [Node -> Seq(Update)]
  /\ localBuffer \in [Node -> Seq(Update)]
  /\ endSeen \in [Node -> BOOLEAN] /\ iterationEnd \in [Node -> BOOLEAN]
  /\ updateV \in [Node -> Update \union {None}]
  /\ sent \in [Node -> 0 .. MAX_SENT]

Init ==
  /\ clk \in 0 .. CLK_PERIOD - 1
  /\ scheduleV = [n \in Node |-> None]
  /\ scheduleEnd = [n \in Node |-> n \notin Source]
  /\ rowBuffer = [n \in Node |-> <<>>] /\ columnBuffer = [n \in Node |-> <<>>]
  /\ localBuffer = [n \in Node |-> <<>>]
  /\ endSeen = [n \in Node |-> FALSE] /\ iterationEnd = [n \in Node |-> FALSE]
  /\ updateV = [n \in Node |-> None]
  /\ sent = [n \in Node |-> 0]

-----------------------------------------------------------------------------
(***************************************************************************)
(* The crossbars.  An output that is not full takes the front of the first *)
(* input that wants it, counting from input clk % N on.                    *)
(***************************************************************************)
(* Fault: a buffer is full one update too late.                            *)
FullLate(q) == Len(q) > FIFO_SIZE

Full(q) == Len(q) >= FIFO_SIZE

First(inputs, N) ==
  CHOOSE i \in inputs : \A k \in inputs : (i - clk) % N <= (k - clk) % N

(* Within column c: the inputs are row buffers, the outputs column buffers.*)
RowRequests(c, r) ==
  {i \in Row : rowBuffer[<<i, c>>] # <<>> /\ RowOf(Head(rowBuffer[<<i, c>>]).id) = r}

(* Fault: the buffer that is asked whether it is full is the wrong one.    *)
RowWinnerOwnFull(c, r) ==
  IF RowRequests(c, r) = {} \/ Full(rowBuffer[<<r, c>>]) THEN None
  ELSE First(RowRequests(c, r), HPX_ROW_NUM)

RowWinner(c, r) ==
  IF RowRequests(c, r) = {} \/ Full(columnBuffer[<<r, c>>]) THEN None
  ELSE First(RowRequests(c, r), HPX_ROW_NUM)

(* Within row r: from column buffers to local buffers.                     *)
ColumnRequests(r, c) ==
  {j \in Column :
     columnBuffer[<<r, j>>] # <<>> /\ ColumnOf(Head(columnBuffer[<<r, j>>]).id) = c}

ColumnWinner(r, c) ==
  IF ColumnRequests(r, c) = {} \/ Full(localBuffer[<<r, c>>]) THEN None
  ELSE First(ColumnRequests(r, c), HPX_COLUMN_NUM)

(* Fault: the front is popped although another input was granted.          *)
ReadRowUngranted(n) ==
  /\ rowBuffer[n] # <<>>
  /\ ~Full(columnBuffer[<<RowOf(Head(rowBuffer[n]).id), n[2]>>])

ReadRow(n) ==
  /\ rowBuffer[n] # <<>>
  /\ RowWinner(n[2], RowOf(Head(rowBuffer[n]).id)) = n[1]

ReadColumn(n) ==
  /\ columnBuffer[n] # <<>>
  /\ ColumnWinner(n[1], ColumnOf(Head(columnBuffer[n]).id)) = n[2]

(* What arrives at node n from the row crossbar and the column crossbar.   *)
FromRow(n) ==
  IF RowWinner(n[2], n[1]) = None THEN None
  ELSE Head(rowBuffer[<<RowWinner(n[2], n[1]), n[2]>>])

FromColumn(n) ==
  IF ColumnWinner(n[1], n[2]) = None THEN None
  ELSE Head(columnBuffer[<<n[1], ColumnWinner(n[1], n[2])>>])

-----------------------------------------------------------------------------
(* One node: pops, then pushes, and stores what arrives even when full.    *)
(* Faults: DValid is not looked at; a later update is stored first.        *)
PushAlways(q, x) == Append(q, x)
PushFront(q, x)  == IF x = None THEN q ELSE <<x>> \o q

Push(q, x) == IF x = None THEN q ELSE Append(q, x)
Pop(q, b)  == IF b THEN Tail(q) ELSE q

(* Fault: the local buffer is not looked at.                               *)
EmptyButLocal(n) == rowBuffer[n] = <<>> /\ columnBuffer[n] = <<>>

Empty(n) == rowBuffer[n] = <<>> /\ columnBuffer[n] = <<>> /\ localBuffer[n] = <<>>

Output(n, full) == localBuffer[n] # <<>> /\ n \notin full

MoveUpdates(full) ==
  /\ updateV' = [n \in Node |-> IF Output(n, full) THEN Head(localBuffer[n]) ELSE None]
  /\ localBuffer' = [n \in Node |->
       Push(Pop(localBuffer[n], Output(n, full)), FromColumn(n))]
  /\ rowBuffer' = [n \in Node |-> Push(Pop(rowBuffer[n], ReadRow(n)), scheduleV[n])]
  /\ columnBuffer' = [n \in Node |-> Push(Pop(columnBuffer[n], ReadColumn(n)), FromRow(n))]

DetectEnd ==
  /\ iterationEnd' = [n \in Node |-> endSeen[n] /\ Empty(n)]
  /\ endSeen' = [n \in Node |-> scheduleEnd[n] /\ Empty(n)]

(***************************************************************************)
(* Stage 7 as the network sees it: a scheduler hands over an update unless *)
(* the row buffer of its node is full, and ends when it has none left.     *)
(***************************************************************************)
MaySend == {n \in Source : ~scheduleEnd[n] /\ ~Full(rowBuffer[n]) /\ sent[n] < MAX_SENT}

HandOver(S, v) ==
  /\ scheduleV' = [n \in Node |->
       IF n \in S THEN [id |-> v[n], to |-> Owner(v[n]), from |-> n, nr |-> sent[n] + 1]
       ELSE None]
  /\ sent' = [n \in Node |-> IF n \in S THEN sent[n] + 1 ELSE sent[n]]
  /\ \E E \in SUBSET {n \in Node \ S : ~scheduleEnd[n]} :
       scheduleEnd' = [n \in Node |-> scheduleEnd[n] \/ n \in E]

(* full: the cores that raise Dest_Core_Full in this tick.                 *)
Tick(full) ==
  /\ clk' = (clk + 1) % CLK_PERIOD
  /\ \E S \in SUBSET MaySend : \E v \in [S -> Vertex] : HandOver(S, v)
  /\ MoveUpdates(full)
  /\ DetectEnd

Next == \E full \in SUBSET {n \in Node : localBuffer[n] # <<>>} : Tick(full)

Spec == Init /\ [][Next]_vars

(* The clock runs, no core stays full for ever (stage 10 goes on writing   *)
(* back whatever it receives), and every scheduler comes to its end.       *)
Accepting(n) == \E full \in SUBSET ({m \in Node : localBuffer[m] # <<>>} \ {n}) : Tick(full)
Ending(n) == Next /\ scheduleEnd'[n]

FairSpec ==
  /\ Spec
  /\ \A n \in Node : WF_vars(Accepting(n))
  /\ \A n \in Source : WF_vars(Ending(n))

-----------------------------------------------------------------------------
(***************************************************************************)
(* Correctness.                                                            *)
(***************************************************************************)

(* The checks before the two error exits of the node, and one it does not  *)
(* make: what a column buffer holds is for its row, what a local buffer    *)
(* holds and what leaves it is for the core of its node.                   *)
NoMisroute ==
  \A n \in Node :
    /\ \A i \in 1 .. Len(columnBuffer[n]) : columnBuffer[n][i].to[1] = n[1]
    /\ \A i \in 1 .. Len(localBuffer[n]) : localBuffer[n][i].to = n
    /\ updateV[n] # None => updateV[n].to = n

(* The buffers are finite in hardware.  Between stages the fill level is   *)
(* seen a tick late, so a row buffer takes one update more than its limit; *)
(* inside the network it is not exceeded.                                  *)
BoundedBuffers ==
  \A n \in Node :
    /\ Len(rowBuffer[n]) + (IF scheduleV[n] = None THEN 0 ELSE 1) <= FIFO_SIZE + 1
    /\ Len(columnBuffer[n]) <= FIFO_SIZE
    /\ Len(localBuffer[n]) <= FIFO_SIZE

(* A node that signals its end sends nothing in that tick (stage 9 relies  *)
(* on it: an update hides the end that comes with it).                     *)
EndExcludesUpdate == \A n \in Node : iterationEnd[n] => updateV[n] = None

(* A node may signal its end and drop it again, but when all nodes signal  *)
(* it in the same tick no update is left anywhere: this is what stage 11   *)
(* takes the conjunction of the ends for.                                  *)
EndIsGlobal ==
  (\A n \in Node : iterationEnd[n]) =>
    \A n \in Node : scheduleEnd[n] /\ scheduleV[n] = None /\ Empty(n) /\ updateV[n] = None

(* The updates from s to d on their way, the next to arrive first: they    *)
(* take the same path, so they wait in at most one buffer per hop.         *)
Path(s, d) ==
  localBuffer[d] \o columnBuffer[<<d[1], s[2]>>] \o rowBuffer[s] \o Push(<<>>, scheduleV[s])

(* Those of a queue that go from s to d, in their order: the k-th of them   *)
(* has k - 1 before it.                                                    *)
Places(q, s, d) == {i \in DOMAIN q : q[i].from = s /\ q[i].to = d}
Nth(A, k)       == CHOOSE i \in A : Cardinality({j \in A : j < i}) = k - 1
Between(q, s, d) ==
  LET A == Places(q, s, d) IN [k \in 1 .. Cardinality(A) |-> q[Nth(A, k)]]

InFlight == [s \in Node |-> [d \in Node |-> Between(Path(s, d), s, d)]]

(* The network implements a FIFO channel between every two nodes: nothing  *)
(* is lost, duplicated or overtaken, whatever the arbitration decides.     *)
Network == INSTANCE Channels
             WITH offered <- scheduleV, inflight <- InFlight, delivered <- updateV
ChannelRefinement == Network!ChannelSpec

(* Once every scheduler has ended the network drains, and the end of the   *)
(* iteration is seen at all nodes.                                         *)
EndReached == <>[](\A n \in Node : iterationEnd[n])

=============================================================================
