---------------------------- MODULE RtlActiveVertex ----------------------------
(***************************************************************************)
(* Stage 1 of one core in hardware (M01_rd_active_vertex.v), and the end   *)
(* of the iteration on its way through the other stages.  The bitmaps are  *)
(* in block RAM: a line that is read arrives in a FIFO some ticks later.   *)
(*                                                                         *)
(* One tick of the clock is one action.  A vertex is named by its number   *)
(* within the core: its id is that number times CORE_NUM plus CORE_ID.     *)
(***************************************************************************)
EXTENDS Integers, Sequences

CONSTANTS
  BITMAP_COMPRESSED_LENGTH,    \* vertices of a line (accelerator.vh: 32)
  BITMAP_COMPRESSED_NUM_WIDTH, \* bits of the number of a line (10)
  bitmap_compressed_num,       \* lines the graph needs, counted from vertex_num
  VTX_NUM,                     \* vertices of the core
  InEdges,                     \* those an edge leads to: only they are marked
  ITERATION_WIDTH,             \* bits of the number of an iteration (4)
  iteration_num,               \* iterations to run, a register of the host
  PREFETCH_SIZE, PREFETCH_FULL,\* the prefetch FIFO: its size (16), prog_full (13)
  STAGES,                      \* stages behind this one that pass the end on
  None                         \* the content of a register that is not valid

ASSUME WidthAssumption ==
  /\ BITMAP_COMPRESSED_LENGTH \in Nat \ {0} /\ BITMAP_COMPRESSED_NUM_WIDTH \in Nat
  /\ ITERATION_WIDTH \in Nat \ {0} /\ iteration_num \in Nat /\ STAGES \in Nat \ {0}
  /\ bitmap_compressed_num \in 1 .. 2 ^ BITMAP_COMPRESSED_NUM_WIDTH
  /\ VTX_NUM \in 0 .. bitmap_compressed_num * BITMAP_COMPRESSED_LENGTH

(* Three lines are on their way when the FIFO says that it is full.        *)
ASSUME PrefetchAssumption ==
  PREFETCH_FULL \in Nat \ {0} /\ PREFETCH_SIZE \in Nat /\ PREFETCH_FULL + 3 <= PREFETCH_SIZE

Vertex == 0 .. VTX_NUM - 1
Bit    == 0 .. BITMAP_COMPRESSED_LENGTH - 1
Line   == 0 .. bitmap_compressed_num - 1
Stage  == 1 .. STAGES
IterationId == 0 .. 2 ^ ITERATION_WIDTH - 1

ASSUME InEdgesAssumption == InEdges \subseteq Vertex

(* A register that numbers lines has a bit more than it needs.             *)
IndexRange == 2 ^ (BITMAP_COMPRESSED_NUM_WIDTH + 1)
AllOnes == IndexRange - 1

LineOf(v) == v \div BITMAP_COMPRESSED_LENGTH
BitOf(v)  == v % BITMAP_COMPRESSED_LENGTH

VARIABLES
  local_iteration_id, iteration_end, iteration_lock,
  local_init_bitmap_id,         \* counts the lines before the first one is read
  vis_bitmap,                   \* the two block RAMs: the bits set in every line
  prefetch_addr, prefetch_valid,\* the line that is read, prefetch_addr_valid[0]
  bramRead,                     \* the two registers of the block RAM's read port
  prefetch,                     \* the prefetch FIFO
  local_vis_bitmap_now, local_vis_bitmap_index, local_vis_bitmap_index_lock,
  active_v_id,                  \* P1
  next_stage_full,              \* P2: stage_full
  backEnd, backId,              \* iteration_end and iteration_id of the stages
  busy                          \* history: a vertex was sent in this iteration

iteration == <<local_iteration_id, iteration_end, iteration_lock, local_init_bitmap_id>>
reading == <<prefetch_addr, prefetch_valid, bramRead, prefetch,
             local_vis_bitmap_now, local_vis_bitmap_index, local_vis_bitmap_index_lock>>
vars == <<iteration, reading, vis_bitmap, active_v_id, next_stage_full, backEnd, backId, busy>>

Option(S) == S \union {None}

(* The lines that are on their way find room in the FIFO, which would drop *)
(* them, and no line is read beyond the last.                              *)
TypeOK ==
  /\ local_iteration_id \in IterationId /\ iteration_end \in BOOLEAN
  /\ iteration_lock \in BOOLEAN /\ local_init_bitmap_id \in 0 .. bitmap_compressed_num
  /\ vis_bitmap \in [0 .. 1 -> [Line -> SUBSET Bit]]
  /\ prefetch_addr \in Line \union {AllOnes} /\ prefetch_valid \in BOOLEAN
  /\ bramRead \in [1 .. 2 -> Option(SUBSET Bit)] /\ prefetch \in Seq(SUBSET Bit)
  /\ local_vis_bitmap_now \in SUBSET Bit /\ local_vis_bitmap_index \in Line
  /\ local_vis_bitmap_index_lock \in BOOLEAN
  /\ active_v_id \in Option(Vertex) /\ next_stage_full \in BOOLEAN
  /\ backEnd \in [Stage -> BOOLEAN] /\ backId \in [Stage -> IterationId] /\ busy \in BOOLEAN
  /\ LET waiting == Len(prefetch) + (IF bramRead[1] # None THEN 1 ELSE 0)
                                  + (IF bramRead[2] # None THEN 1 ELSE 0)
     IN waiting + (IF prefetch_valid THEN 1 ELSE 0) <= PREFETCH_SIZE

(* After the reset.  All bits of the block RAMs are set when the device is *)
(* configured, and only then.                                              *)
Init ==
  /\ local_iteration_id = 0 /\ iteration_end = FALSE /\ iteration_lock = TRUE
  /\ local_init_bitmap_id = 0
  /\ vis_bitmap = [p \in 0 .. 1 |-> [l \in Line |-> Bit]]
  /\ prefetch_addr = AllOnes /\ prefetch_valid = FALSE
  /\ bramRead = [i \in 1 .. 2 |-> None] /\ prefetch = <<>>
  /\ local_vis_bitmap_now = {} /\ local_vis_bitmap_index = 0
  /\ local_vis_bitmap_index_lock = TRUE
  /\ active_v_id = None /\ next_stage_full = FALSE
  /\ backEnd = [s \in Stage |-> FALSE] /\ backId = [s \in Stage |-> 0] /\ busy = FALSE

-----------------------------------------------------------------------------
(* The wires.                                                              *)
now_bitmap_id  == local_iteration_id % 2
next_bitmap_id == (local_iteration_id + 1) % 2

iteration_done == local_iteration_id = iteration_num
Initialising   == local_init_bitmap_id < bitmap_compressed_num
Idle           == Initialising \/ iteration_done

HasBit == local_vis_bitmap_now # {}
active_vertex_index ==
  CHOOSE b \in local_vis_bitmap_now : \A d \in local_vis_bitmap_now : b <= d
ActiveId == local_vis_bitmap_index * BITMAP_COMPRESSED_LENGTH + active_vertex_index

(* The end of this iteration has come back, and had not a tick ago.        *)
EndOfThis == backEnd[STAGES] /\ backId[STAGES] = local_iteration_id

(* Fault: any end opens an iteration, for as long as it stands.            *)
AnyEnd == backEnd[STAGES]

iteration_change_flag == EndOfThis /\ iteration_lock

(* Fault: only the parity of the iteration is counted.                     *)
ParityId == (local_iteration_id + 1) % 2

NextIterationId == (local_iteration_id + 1) % 2 ^ ITERATION_WIDTH

AllRead ==
  /\ local_vis_bitmap_index >= bitmap_compressed_num - 1 /\ ~HasBit
  /\ prefetch = <<>> /\ ~local_vis_bitmap_index_lock

ManageIteration ==
  /\ iteration_lock' = (iteration_done \/ ~EndOfThis)
  /\ local_init_bitmap_id' =
       IF iteration_done THEN 0
       ELSE IF Initialising THEN local_init_bitmap_id + 1 ELSE local_init_bitmap_id
  /\ IF iteration_end /\ iteration_change_flag
       THEN local_iteration_id' = NextIterationId /\ iteration_end' = FALSE
       ELSE local_iteration_id' = local_iteration_id
            /\ iteration_end' = (iteration_end \/ AllRead)

-----------------------------------------------------------------------------
(* A bit beyond the last vertex is taken but not sent.                     *)
SendVertex ==
  active_v_id' = IF ~Idle /\ ~next_stage_full /\ HasBit /\ ActiveId < VTX_NUM
                 THEN ActiveId ELSE None

(* The lines are read in order, unless the FIFO is filling up, and again   *)
(* from the first when an iteration begins.                                *)
(* Fault: the FIFO says too late that it is filling up.                    *)
PrefetchFullLate == Len(prefetch) > PREFETCH_FULL

PrefetchFull == Len(prefetch) >= PREFETCH_FULL

MoreLines == prefetch_addr = AllOnes \/ prefetch_addr < bitmap_compressed_num - 1

PrefetchLine ==
  /\ prefetch_valid' = (~Idle /\ MoreLines /\ ~PrefetchFull)
  /\ prefetch_addr' =
       IF Idle \/ (~MoreLines /\ iteration_change_flag) THEN AllOnes
       ELSE IF prefetch_valid' THEN (prefetch_addr + 1) % IndexRange ELSE prefetch_addr

(* The block RAM answers in two ticks; its answer is written to the FIFO,  *)
(* which drops it if there is no room.                                     *)
Pops == ~Initialising /\ ~HasBit /\ prefetch # <<>>

ReadBlockRam ==
  /\ bramRead' =
       IF Idle THEN [i \in 1 .. 2 |-> None]
       ELSE [i \in 1 .. 2 |->
               IF i = 2 THEN bramRead[1]
               ELSE IF prefetch_valid THEN vis_bitmap[now_bitmap_id][prefetch_addr] ELSE None]
  /\ LET rest == IF Pops THEN Tail(prefetch) ELSE prefetch
     IN prefetch' = IF bramRead[2] # None /\ Len(prefetch) < PREFETCH_SIZE
                    THEN Append(rest, bramRead[2]) ELSE rest

(* The line that is sent.  The first one does not advance the index.       *)
ReadLine ==
  IF Idle \/ iteration_change_flag
    THEN /\ local_vis_bitmap_now' = {} /\ local_vis_bitmap_index' = 0
         /\ local_vis_bitmap_index_lock' = TRUE
    ELSE /\ local_vis_bitmap_now' =
              IF Pops THEN Head(prefetch)
              ELSE IF HasBit /\ ~next_stage_full
                   THEN local_vis_bitmap_now \ {active_vertex_index} ELSE local_vis_bitmap_now
         /\ local_vis_bitmap_index_lock' = (local_vis_bitmap_index_lock /\ ~Pops)
         /\ local_vis_bitmap_index' =
              IF Pops /\ ~(local_vis_bitmap_index = 0 /\ local_vis_bitmap_index_lock)
              THEN local_vis_bitmap_index + 1 ELSE local_vis_bitmap_index

(* The bit that is sent is cleared in the block RAM, already while stage 2 *)
(* is full.  Its address is computed with the width of the index, because  *)
(* it stands in a concatenation.  Marks go to the other block RAM.         *)
(* Fault: the address has a bit less.                                      *)
ClearNarrow == ActiveId % 2 ^ BITMAP_COMPRESSED_NUM_WIDTH

ClearAddress == ActiveId % IndexRange

Cleared ==
  LET bits == vis_bitmap[now_bitmap_id]
  IN IF HasBit THEN [bits EXCEPT ![LineOf(ClearAddress)] = @ \ {BitOf(ClearAddress)}] ELSE bits

Marked(mark) ==
  LET bits == vis_bitmap[next_bitmap_id]
  IN IF mark = None THEN bits
     ELSE [bits EXCEPT ![LineOf(mark.id)] =
             IF mark.updated THEN @ \union {BitOf(mark.id)} ELSE @ \ {BitOf(mark.id)}]

UpdateBitmap(mark) ==
  vis_bitmap' = [p \in 0 .. 1 |-> IF p = now_bitmap_id THEN Cleared ELSE Marked(mark)]

-----------------------------------------------------------------------------
(* Every other stage takes the id over in one tick, takes the end away in  *)
(* one tick, and raises it when its queues are empty, those of all cores   *)
(* (stages 5 and 11) and a number of ticks have passed: some time later.   *)
FrontEnd(s) == IF s = 1 THEN iteration_end ELSE backEnd[s - 1]
FrontId(s)  == IF s = 1 THEN local_iteration_id ELSE backId[s - 1]

PassEnd(drained) ==
  /\ backId' = [s \in Stage |-> FrontId(s)]
  /\ backEnd' = [s \in Stage |-> FrontEnd(s) /\ (backEnd[s] \/ s \in drained)]

(* A full stage 2 makes a difference while there is a bit to send.         *)
Environment(full) ==
  /\ next_stage_full' = full /\ (full => HasBit')
  /\ busy' = (active_v_id' # None \/ (busy /\ local_iteration_id' = local_iteration_id))

Mark == [id : InEdges, updated : BOOLEAN]

(* Marks come from updates of this iteration, and all of them before its   *)
(* end, which takes the same way (VertexRam, EndIsComplete).               *)
MarkInput == IF busy /\ ~backEnd[STAGES] THEN Option(Mark) ELSE {None}

Waiting == {s \in Stage : FrontEnd(s) /\ ~backEnd[s]}

Tick(mark, drained, full) ==
  /\ ManageIteration /\ SendVertex
  /\ PrefetchLine /\ ReadBlockRam /\ ReadLine /\ UpdateBitmap(mark)
  /\ PassEnd(drained) /\ Environment(full)

Next ==
  \E mark \in MarkInput, drained \in SUBSET Waiting, full \in BOOLEAN :
    Tick(mark, drained, full)

Spec == Init /\ [][Next]_vars

(* The clock runs, stage 2 is not full for ever, and every stage drains    *)
(* (EdgeFetch, HyperX and VertexRam reach their ends).                     *)
FairSpec ==
  /\ Spec /\ WF_vars(Next)
  /\ []<>(~next_stage_full)
  /\ \A s \in Stage : []<>(s \notin Waiting)

-----------------------------------------------------------------------------
(***************************************************************************)
(* Correctness.                                                            *)
(***************************************************************************)

(* The bitmap is read again from the first line exactly when the iteration *)
(* counts up: the code decides the first on the end alone, the second only *)
(* if this core has ended too, and the end of the iteration before still   *)
(* stands in the stages when the next one begins.                          *)
InStep == [][iteration_change_flag <=> local_iteration_id' # local_iteration_id]_vars

(* Seen from outside, the two block RAMs, the lines on their way and the   *)
(* line that is sent are two sets of vertices (ActiveSet): no active       *)
(* vertex is skipped or sent twice, and no mark is lost or kept.           *)
ToSend ==
  {v \in Vertex :
     \/ LineOf(v) = local_vis_bitmap_index /\ BitOf(v) \in local_vis_bitmap_now
     \/ /\ LineOf(v) > local_vis_bitmap_index \/ local_vis_bitmap_index_lock
        /\ BitOf(v) \in vis_bitmap[now_bitmap_id][LineOf(v)]}

Abstract == INSTANCE ActiveSet WITH
  CORE_NUM <- 1,
  toSend <- [c \in {0} |-> ToSend],
  marked <- [c \in {0} |-> {v \in Vertex : BitOf(v) \in vis_bitmap[next_bitmap_id][LineOf(v)]}],
  p1V <- [c \in {0} |-> active_v_id]

ImplementsActiveSet == Abstract!Spec

(* Up to the 31 iterations that accelerator.vh 43 allows are run to their  *)
(* end: stage 1 says that it is done, which the host waits for.            *)
Terminates == (iteration_num <= 31) => <>iteration_done

(* A line of the graph that has been sent is clear, so that its vertices   *)
(* are sent again, two iterations later, only if they are marked: also for *)
(* a line beyond the 64th, of the 1024 that accelerator.vh 28 provides.    *)
SentIsClear ==
  \A l \in Line : l < local_vis_bitmap_index => vis_bitmap[now_bitmap_id][l] = {}

=============================================================================
