----------------------------- MODULE ActiveVertex -----------------------------
(***************************************************************************)
(* Stage 1 of all cores (1_RD_Active_Vertex.cpp): two bitmaps of active    *)
(* vertices, one that is sent line by line and one that collects the marks *)
(* for the next iteration, and the barrier between iterations.             *)
(*                                                                         *)
(* One tick is one action.  It reads from the registers which stage 2 is   *)
(* full and the level of the global end of stage 11; the marks that arrive *)
(* from stage 10, at most one for every core, are chosen in the tick.      *)
(***************************************************************************)
EXTENDS Integers, FiniteSets

CONSTANTS
  CORE_NUM,       \* number of cores (parameter.h: 32)
  BitMap_Length,  \* BitMap_Compressed_Length, vertices of a line (32)
  BitMap_NUM,     \* BitMap_Compressed_NUM, lines of a bitmap (4)
  VTX_NUM,        \* vertices of the graph
  InEdges,        \* those an edge leads to: only they are marked
  MAX_ITERATION,  \* iterations to run, an argument of the program
  None            \* the content of a register whose DValid is 0

ASSUME SizeAssumption ==
  /\ CORE_NUM \in Nat \ {0} /\ BitMap_Length \in Nat \ {0} /\ BitMap_NUM \in Nat \ {0}
  /\ VTX_NUM \in Nat /\ MAX_ITERATION \in Nat \ {0} /\ None \notin Nat

(* The bitmap is dimensioned by hand (parameter.h 52): the graph has to fit.*)
ASSUME BitmapAssumption == VTX_NUM <= CORE_NUM * BitMap_Length * BitMap_NUM

Core   == 0 .. CORE_NUM - 1
Vertex == 0 .. VTX_NUM - 1
Bit    == 0 .. BitMap_Length - 1

ASSUME InEdgesAssumption == InEdges \subseteq Vertex

VerticesOf(c) == {v \in Vertex : v % CORE_NUM = c}

(* A vertex has a core, a line and a bit.                                  *)
Id(c, line, bit) == (line * BitMap_Length + bit) * CORE_NUM + c
LineOf(v) == (v \div CORE_NUM) \div BitMap_Length
BitOf(v)  == (v \div CORE_NUM) % BitMap_Length

VARIABLES
  iteration_id, iteration_end,  \* of every core
  vis_bitmap,        \* for every core and parity, the bits set in every line
  vis_bitmap_index,  \* of every core: the line that is sent
  vis_bitmap_now,    \* of every core: its bits that are not sent yet
  iteration_flag,    \* of every core: the global end was low a tick ago
  active_vertex_num, \* how much the number of marked vertices has grown
  iteration_end_flag,\* the program stops
  p1V, p1End,        \* P1: Active_V_ID, Iteration_End
  p2Full, p11End,    \* P2: Stage_Full of every core; P11: Iteration_End
  busy               \* history: a vertex was sent in this iteration

control == <<iteration_id, iteration_end, iteration_flag, iteration_end_flag>>
bitmaps == <<vis_bitmap, vis_bitmap_index, vis_bitmap_now, active_vertex_num>>
vars    == <<control, bitmaps, p1V, p1End, p2Full, p11End, busy>>

Mark == [id : InEdges, updated : BOOLEAN]
Option(S) == S \union {None}

(* The bitmap has one line more than it needs, which stays empty.          *)
BitMap == [0 .. BitMap_NUM -> SUBSET Bit]
Ones   == [l \in 0 .. BitMap_NUM |-> IF l < BitMap_NUM THEN Bit ELSE {}]

TypeOK ==
  /\ iteration_id \in [Core -> 0 .. MAX_ITERATION]
  /\ iteration_end \in [Core -> BOOLEAN] /\ iteration_flag \in [Core -> BOOLEAN]
  /\ iteration_end_flag \in BOOLEAN
  /\ vis_bitmap \in [Core -> [0 .. 1 -> BitMap]]
  /\ vis_bitmap_index \in [Core -> 0 .. BitMap_NUM]
  /\ vis_bitmap_now \in [Core -> SUBSET Bit] /\ active_vertex_num \in Int
  /\ p1V \in [Core -> Option(Vertex)] /\ p1End \in [Core -> BOOLEAN]
  /\ p2Full \in [Core -> BOOLEAN] /\ p11End \in BOOLEAN /\ busy \in BOOLEAN

(* The state that a reset of several ticks leaves: both bitmaps are full,  *)
(* so that the second iteration sends what the first one did not unmark.   *)
Init ==
  /\ iteration_id = [c \in Core |-> 0] /\ iteration_end = [c \in Core |-> FALSE]
  /\ vis_bitmap = [c \in Core |-> [p \in 0 .. 1 |-> Ones]]
  /\ vis_bitmap_index = [c \in Core |-> 0]
  /\ vis_bitmap_now = [c \in Core |-> Bit]
  /\ iteration_flag = [c \in Core |-> TRUE]
  /\ active_vertex_num = 0 /\ iteration_end_flag = FALSE
  /\ p1V = [c \in Core |-> None] /\ p1End = [c \in Core |-> FALSE]
  /\ p2Full = [c \in Core |-> FALSE] /\ p11End = FALSE /\ busy = FALSE

NowId(c)  == iteration_id[c] % 2
NextId(c) == (iteration_id[c] + 1) % 2

-----------------------------------------------------------------------------
(* The tree of wires that finds the lowest bit, and the vertex it sends: a *)
(* bit beyond the last vertex is taken but not sent.                       *)
ActiveIndex(c) == CHOOSE b \in vis_bitmap_now[c] : \A d \in vis_bitmap_now[c] : b <= d

InBitmap(c)   == vis_bitmap_index[c] < BitMap_NUM
LineDone(c)   == InBitmap(c) /\ vis_bitmap_now[c] = {}
HasBit(c)     == InBitmap(c) /\ vis_bitmap_now[c] # {}
Takes(c)      == HasBit(c) /\ ~p2Full[c]
ActiveId(c)   == Id(c, vis_bitmap_index[c], ActiveIndex(c))

SendVertex ==
  /\ p1V' = [c \in Core |->
       IF Takes(c) /\ ActiveId(c) < VTX_NUM THEN ActiveId(c) ELSE None]
  /\ p1End' = iteration_end

(* The iteration of a core: its end is set behind the last line, and the   *)
(* rising edge of the global end opens the next one.                       *)
(* Fault: the level of the end is taken for its edge.                      *)
RisesLevel(c) == p11End

Rises(c) == p11End /\ iteration_flag[c]

(* Fault: the flag is not set again.                                       *)
LowForEver(c) == ~p11End /\ iteration_flag[c]

Low(c) == ~p11End

ManageIteration ==
  /\ iteration_id' = [c \in Core |->
       IF iteration_end[c] /\ Rises(c) THEN iteration_id[c] + 1 ELSE iteration_id[c]]
  /\ iteration_end' = [c \in Core |->
       IF iteration_end[c] THEN ~Rises(c) ELSE ~InBitmap(c)]
  /\ iteration_flag' = [c \in Core |-> Low(c)]

(* iteration_end_flag is computed again for every core, so that what core  *)
(* 0 sets on finding no active vertex lasts only if there is no other one. *)
(* Fault: one iteration too many.                                          *)
StopLate == iteration_end_flag' = (iteration_id[CORE_NUM - 1] > MAX_ITERATION)

ManageStop ==
  iteration_end_flag' =
    (\/ iteration_id[CORE_NUM - 1] = MAX_ITERATION
     \/ CORE_NUM = 1 /\ iteration_end[0] /\ Rises(0) /\ active_vertex_num = 0)

-----------------------------------------------------------------------------
(* The line of the bitmap that is sent.                                    *)
(* Fault: a bit is cleared although stage 2 is full.                       *)
ClearedFull(c) == {ActiveIndex(c)}

Cleared(c) == IF Takes(c) THEN {ActiveIndex(c)} ELSE {}

ReadLine ==
  /\ vis_bitmap_index' = [c \in Core |->
       IF LineDone(c) THEN vis_bitmap_index[c] + 1
       ELSE IF ~InBitmap(c) /\ Rises(c) THEN 0 ELSE vis_bitmap_index[c]]
  /\ vis_bitmap_now' = [c \in Core |->
       IF LineDone(c) THEN vis_bitmap[c][NowId(c)][vis_bitmap_index[c] + 1]
       ELSE IF HasBit(c) THEN vis_bitmap_now[c] \ Cleared(c)
       ELSE IF ~InBitmap(c) /\ Rises(c) THEN vis_bitmap[c][NextId(c)][0]
       ELSE vis_bitmap_now[c]]

(* A line that was sent is cleared, and the marks are written.             *)
(* Fault: the line is not cleared.                                         *)
KeepLine(c) == vis_bitmap[c][NowId(c)]

SentLine(c) ==
  [vis_bitmap[c][NowId(c)] EXCEPT
     ![vis_bitmap_index[c]] = IF LineDone(c) THEN {} ELSE @]

Marked(c, m) ==
  IF m = None THEN vis_bitmap[c][NextId(c)]
  ELSE [vis_bitmap[c][NextId(c)] EXCEPT
          ![LineOf(m.id)] = IF m.updated THEN @ \union {BitOf(m.id)} ELSE @ \ {BitOf(m.id)}]

IsMarked(c, v) == BitOf(v) \in vis_bitmap[c][NextId(c)][LineOf(v)]

UpdateBitmap(marks) ==
  /\ vis_bitmap' = [c \in Core |-> [p \in 0 .. 1 |->
       IF p = NowId(c) THEN SentLine(c) ELSE Marked(c, marks[c])]]
  /\ LET on  == {c \in Core : marks[c] # None /\ marks[c].updated /\ ~IsMarked(c, marks[c].id)}
         off == {c \in Core : marks[c] # None /\ ~marks[c].updated /\ IsMarked(c, marks[c].id)}
     IN active_vertex_num' =
          (IF iteration_end[0] /\ Rises(0) THEN 0 ELSE active_vertex_num)
          + Cardinality(on) - Cardinality(off)

-----------------------------------------------------------------------------
(***************************************************************************)
(* The environment, which is the rest of the machine.  The global end is   *)
(* the end of all cores, delayed: it rises some time after all of them     *)
(* have ended and falls some time after the next iteration has begun.      *)
(* Marks come from updates of this iteration, and all of them before its   *)
(* end (VertexRam, EndIsComplete).                                         *)
(***************************************************************************)
NoMarks   == [c \in Core |-> None]
Marks     == {m \in [Core -> Option(Mark)] :
                \A c \in Core : m[c] # None => m[c].id \in VerticesOf(c)}
MarkInput == IF busy /\ ~p11End THEN Marks ELSE {NoMarks}

(* The end that was up has opened an iteration, and may last.              *)
MayEnd == p11End \/ \A c \in Core : p1End[c] /\ iteration_end[c]

(* A full stage 2 makes a difference to a core that has a bit to send.     *)
MayBlock == {c \in Core : HasBit(c)}

Environment ==
  /\ p11End' \in (IF MayEnd THEN BOOLEAN ELSE {FALSE})
  /\ \E full \in SUBSET MayBlock' : p2Full' = [c \in Core |-> c \in full]
  /\ busy' = ((\E c \in Core : p1V'[c] # None) \/ (busy /\ iteration_id' = iteration_id))

Stage1(marks) ==
  /\ SendVertex /\ ManageIteration /\ ManageStop
  /\ ReadLine /\ UpdateBitmap(marks)

Tick(marks) == ~iteration_end_flag /\ Stage1(marks) /\ Environment

Next == \E marks \in MarkInput : Tick(marks)

Spec == Init /\ [][Next]_vars

(* The clock runs, and marks do not arrive for ever (an edge is updated    *)
(* once in an iteration); the stage 2 of no core is full for ever; the     *)
(* global end rises when all cores have ended (EdgeFetch and VertexRam     *)
(* reach their ends) and falls when the next iteration has begun.          *)
FairSpec ==
  /\ Spec /\ WF_vars(Tick(NoMarks))
  /\ \A c \in Core : []<>(iteration_end_flag \/ ~p2Full[c])
  /\ []<>(p11End \/ ~\A c \in Core : p1End[c])
  /\ []<>(~p11End)

-----------------------------------------------------------------------------
(***************************************************************************)
(* Correctness.                                                            *)
(***************************************************************************)

(* The cores go through the iterations together: a core goes back to the   *)
(* first line exactly when its iteration counts up, which are two          *)
(* decisions in the code, and all cores do so in the same tick.            *)
InStep ==
  [][/\ \A c \in Core : vis_bitmap_index'[c] < vis_bitmap_index[c]
                          <=> iteration_id'[c] = iteration_id[c] + 1
     /\ \A c, d \in Core : iteration_id'[c] = iteration_id'[d]]_vars

(* active_vertex_num is the number of vertices marked for the next         *)
(* iteration, except that in the first iteration it starts at 0 when all   *)
(* bits are set.                                                           *)
MarkedBits ==
  {m \in Core \X (0 .. BitMap_NUM) \X Bit : m[3] \in vis_bitmap[m[1]][NextId(m[1])][m[2]]}

CountIsMarks ==
  active_vertex_num = Cardinality(MarkedBits)
    - (IF iteration_id[0] = 0 THEN CORE_NUM * BitMap_NUM * BitMap_Length ELSE 0)

(* Seen from outside, the bitmaps are two sets of vertices (ActiveSet): no *)
(* active vertex is skipped or sent twice, and no mark is lost, kept for a *)
(* later iteration or taken for one of this iteration.                     *)
ToSend(c) ==
  {v \in VerticesOf(c) :
     \/ LineOf(v) = vis_bitmap_index[c] /\ BitOf(v) \in vis_bitmap_now[c]
     \/ LineOf(v) > vis_bitmap_index[c] /\ BitOf(v) \in vis_bitmap[c][NowId(c)][LineOf(v)]}

Abstract == INSTANCE ActiveSet WITH
  toSend <- [c \in Core |-> ToSend(c)],
  marked <- [c \in Core |-> {v \in VerticesOf(c) : IsMarked(c, v)}]

ImplementsActiveSet == Abstract!Spec

(* Under fairness the program stops after MAX_ITERATION iterations, and    *)
(* never before: the test for no active vertex has no effect.              *)
Stops == <>(iteration_end_flag /\ \A c \in Core : iteration_id[c] = MAX_ITERATION)

=============================================================================
