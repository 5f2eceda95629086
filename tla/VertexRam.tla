------------------------------ MODULE VertexRam ------------------------------
(***************************************************************************)
(* The back end of one core of the simulator: stage 9                      *)
(* (Backend_Core), stage 10 (Vertex_RAM_Controller), the memories it       *)
(* read-modify-writes (DELTA1/DELTA2_BRAM, PR_URAM) and stage 11           *)
(* (Apply_Iteration_End).                                                  *)
(*                                                                         *)
(* The program is a clocked pipeline.  In one tick every stage reads the   *)
(* registers its neighbours wrote in the tick before (class pipe,          *)
(* pipe_manager::run), so a tick is one action: the conjunction of the     *)
(* stages, each of which constrains the primed value of its own queues and *)
(* output registers.  What is nondeterministic is what arrives from the    *)
(* network (stage 8), when the front end (stages 1 and 2) reads a source   *)
(* vertex, and when the other cores have finished the iteration.           *)
(*                                                                         *)
(* A register whose DValid flag is 0 holds None.  A vertex stands for its  *)
(* global id and for its row id / CORE_NUM in the memories of its core:    *)
(* the ids of one core are congruent modulo CORE_NUM, so the division maps *)
(* them one to one.  Ranks are integers: floating-point rounding is        *)
(* abstracted, the threshold test and the iteration tags are not.          *)
(***************************************************************************)
EXTENDS Integers, Sequences

CONSTANTS
  Vertex,          \* the vertices of this core
  Value,           \* the contributions an update can carry
  None,            \* the content of a register whose DValid is 0
  FLOAT_ADD_DELAY, \* depth of the conflict window (parameter.h: 14)
  WAIT_END_DELAY,  \* ticks an end condition has to last (parameter.h: 20)
  FULL_SIZE,       \* occupancy at which stage 10 raises Stage_Full (32)
  INV_E2,          \* 1 / E2, the convergence threshold (100)
  Delta1Init,      \* Initialize_Delta_Bram: ONE_OVER_N
  Delta2Init,      \* Initialize_Delta_Bram: ADDED_CONST - ONE_OVER_N
  PrInit,          \* Initialize_PR_Uram: ADDED_CONST
  MAX_ITERATION,   \* the last iteration explored
  MAX_UPDATES      \* bound: updates that reach this core in one iteration

ASSUME ParameterAssumption ==
  /\ Value \subseteq Int
  /\ FLOAT_ADD_DELAY \in Nat /\ FLOAT_ADD_DELAY >= 2  \* two reads are under way before
                                                     \* the first write is sent
  /\ WAIT_END_DELAY \in Nat /\ FULL_SIZE \in Nat \ {0} /\ INV_E2 \in Nat
  /\ MAX_ITERATION \in Nat /\ MAX_UPDATES \in Nat
  /\ Delta1Init \in Int /\ Delta2Init \in Int /\ PrInit \in Int

VARIABLES
  recvV,         \* P8: the update the network delivers, or None
  recvEnd,       \* P8: HPX_Recv_Iteration_End
  wrV,           \* P9: the update stage 9 hands to stage 10, or None
  wrEnd,         \* P9: Wr_Vertex_BRAM_Iteration_End
  destCoreFull,  \* P9: Dest_Core_Full, as the network sees it
  rdV,           \* P2: the source vertex whose delta is wanted, or None
  iterationID,   \* P2: Iteration_ID, which parity selects the memories by
  wrDelta,       \* stage 10: updates whose read has not been issued
  wrPr,          \* stage 10: updates that have not been written back
  activeDelta,   \* stage 10: vertex and new delta of every write-back
  activePr,      \* stage 10: new rank of every write-back
  conflictCheck, \* stage 10: the last FLOAT_ADD_DELAY reads issued
  endCt,         \* stage 10: end_ct
  deltaRd,       \* P10: address read from delta memory 0 / 1, or None
  deltaWr,       \* P10: write sent to delta memory 0 / 1, or None
  prRd, prWr,    \* P10: address read from, write sent to the rank memory
  srcV,          \* P10: Src_Recv_Update_V_Value, or None
  activeV,       \* P10: Backend_Active_V, or None
  iterationEnd,  \* P10: Iteration_End
  stageFull,     \* P10: Stage_Full
  deltaBram,     \* DELTA1_BRAM (0) and DELTA2_BRAM (1)
  prUram,        \* PR_URAM
  deltaData,     \* MEM: the delta memories' answers, or None
  prData,        \* MEM: the rank memory's answer, or None
  backendV,      \* P11: Active_V of stage 11, or None
  backendEnd,    \* P11: Iteration_End of stage 11
  phase,         \* stages 3 to 8 of all cores: "new" until the old end level
                 \*   drops, then "run", and "end" once nothing can arrive
  settled,       \* ticks phase has been "end", counted up to 2
  visNow,        \* stage 1: vertices still to be sent in this iteration
  visNext,       \* stage 1: vertices marked active for the next one
  iterationFlag, \* stage 1: iteration_flag
  sent,          \* updates that entered stage 9 in this iteration
  ledger         \* history: what those updates amount to, per vertex

network    == <<recvV, recvEnd, wrV, wrEnd, destCoreFull>>
controller == <<wrDelta, wrPr, activeDelta, activePr, conflictCheck, endCt,
                deltaRd, deltaWr, prRd, prWr, srcV, activeV, iterationEnd, stageFull>>
memory     == <<deltaBram, prUram, deltaData, prData>>
frontEnd   == <<rdV, iterationID, backendV, backendEnd, phase, settled, visNow,
                visNext, iterationFlag, sent, ledger>>
vars       == <<network, controller, memory, frontEnd>>

Update == [addr : Vertex, val : Value]
Delta  == [val : Int, tag : Nat]
Bank   == {0, 1}
Window == 0 .. FLOAT_ADD_DELAY - 1

(***************************************************************************)
(* Even iterations read the sources from DELTA1 and accumulate in DELTA2,  *)
(* odd iterations the other way round.                                     *)
(***************************************************************************)
Src == iterationID % 2
Dst == 1 - Src

Abs(x) == IF x < 0 THEN -x ELSE x

(* No DValid payload is None.                                              *)
ASSUME NoneAssumption ==
  /\ None \notin Vertex /\ None \notin Int /\ None \notin Update /\ None \notin Delta
  /\ None \notin [addr : Vertex, val : Int]
  /\ None \notin [addr : Vertex, val : Int, tag : Nat]
  /\ None \notin [addr : Vertex, updated : BOOLEAN]

Push(q, x) == IF x = None THEN q ELSE Append(q, x)

NetworkType ==
  /\ recvV \in Update \union {None} /\ wrV \in Update \union {None}
  /\ recvEnd \in BOOLEAN /\ wrEnd \in BOOLEAN /\ destCoreFull \in BOOLEAN
  /\ phase \in {"new", "run", "end"} /\ settled \in 0 .. 2
  /\ sent \in 0 .. MAX_UPDATES
  /\ ledger \in [Vertex -> [count : Nat, delta : Int, pr : Int]]

ControllerType ==
  /\ wrDelta \in Seq(Update) /\ wrPr \in Seq(Update)
  /\ activeDelta \in Seq([addr : Vertex, val : Int]) /\ activePr \in Seq(Int)
  /\ conflictCheck \in [Window -> Vertex \union {None}]
  /\ endCt \in 0 .. WAIT_END_DELAY
  /\ deltaRd \in [Bank -> Vertex \union {None}] /\ prRd \in Vertex \union {None}
  /\ deltaWr \in [Bank -> [addr : Vertex, val : Int, tag : Nat] \union {None}]
  /\ prWr \in [addr : Vertex, val : Int] \union {None}
  /\ srcV \in Delta \union {None}
  /\ activeV \in [addr : Vertex, updated : BOOLEAN] \union {None}
  /\ iterationEnd \in BOOLEAN /\ stageFull \in BOOLEAN

MemoryType ==
  /\ deltaBram \in [Bank -> [Vertex -> Delta]] /\ prUram \in [Vertex -> Int]
  /\ deltaData \in [Bank -> Delta \union {None}] /\ prData \in Int \union {None}

FrontEndType ==
  /\ rdV \in Vertex \union {None}
  /\ iterationID \in 0 .. MAX_ITERATION
  /\ backendV \in [addr : Vertex, updated : BOOLEAN] \union {None}
  /\ backendEnd \in BOOLEAN /\ iterationFlag \in BOOLEAN
  /\ visNow \subseteq Vertex /\ visNext \subseteq Vertex

TypeOK == NetworkType /\ ControllerType /\ MemoryType /\ FrontEndType

-----------------------------------------------------------------------------
(* The state in which the 100 ticks of reset leave the pipeline; stage 1   *)
(* loads both bitmaps with ones.                                           *)
Init ==
  /\ recvV = None /\ recvEnd = FALSE
  /\ wrV = None /\ wrEnd = FALSE /\ destCoreFull = FALSE
  /\ rdV = None /\ iterationID = 0
  /\ wrDelta = <<>> /\ wrPr = <<>> /\ activeDelta = <<>> /\ activePr = <<>>
  /\ conflictCheck = [i \in Window |-> None]
  /\ endCt = 0
  /\ deltaRd = [b \in Bank |-> None] /\ deltaWr = [b \in Bank |-> None]
  /\ prRd = None /\ prWr = None
  /\ srcV = None /\ activeV = None /\ iterationEnd = FALSE /\ stageFull = FALSE
  /\ deltaBram = [b \in Bank |-> [v \in Vertex |->
       [val |-> IF b = 0 THEN Delta1Init ELSE Delta2Init, tag |-> 0]]]
  /\ prUram = [v \in Vertex |-> PrInit]
  /\ deltaData = [b \in Bank |-> None] /\ prData = None
  /\ backendV = None /\ backendEnd = FALSE
  /\ phase = "run" /\ settled = 0 /\ visNow = Vertex /\ visNext = Vertex
  /\ iterationFlag = TRUE
  /\ sent = 0 /\ ledger = [v \in Vertex |-> [count |-> 0, delta |-> 0, pr |-> 0]]

-----------------------------------------------------------------------------
(* Stage 9: a register between the network and stage 10.                   *)
BackendCore ==
  /\ wrV' = recvV
  /\ wrEnd' = (recvEnd /\ recvV = None)
  /\ destCoreFull' = stageFull

(***************************************************************************)
(* Stage 10, reads.  The oldest update is issued unless the conflict       *)
(* window still holds its address.  The front end's source read goes to    *)
(* the other bank in the same tick.                                        *)
(***************************************************************************)
(* Fault: the read issued in the tick before is not compared.              *)
ConflictButLast == \E i \in Window \ {0} : conflictCheck[i] = Head(wrDelta).addr

Conflict == \E i \in Window : conflictCheck[i] = Head(wrDelta).addr

Issued == IF wrDelta # <<>> /\ ~Conflict THEN Head(wrDelta).addr ELSE None

SendReads ==
  /\ deltaRd' = [b \in Bank |-> IF b = Src THEN rdV ELSE Issued]
  /\ prRd' = Issued
  /\ conflictCheck' = [i \in Window |-> IF i = 0 THEN Issued ELSE conflictCheck[i - 1]]
  /\ wrDelta' = Push(IF Issued = None THEN wrDelta ELSE Tail(wrDelta), wrV)

(***************************************************************************)
(* Stage 10, write-back of the answer to the oldest update not yet written *)
(* (the push of the arriving update precedes it in the code).  A delta of  *)
(* an older iteration counts as zero.                                      *)
(***************************************************************************)
Pending == Push(wrPr, wrV)

(* Fault: the tag is ignored, the delta of two iterations ago counts.      *)
AccumulatedNoTag == Head(Pending).val + deltaData[Dst].val

Accumulated ==
  Head(Pending).val + (IF deltaData[Dst].tag = iterationID THEN deltaData[Dst].val ELSE 0)

(* Fault: the write keeps the tag that was read.                           *)
DeltaWriteOldTag ==
  IF deltaData[Dst] = None THEN None
  ELSE [addr |-> Head(Pending).addr, val |-> Accumulated, tag |-> deltaData[Dst].tag]

DeltaWrite ==
  IF deltaData[Dst] = None THEN None
  ELSE [addr |-> Head(Pending).addr, val |-> Accumulated, tag |-> iterationID]

PrWrite ==
  IF prData = None THEN None
  ELSE [addr |-> Head(Pending).addr, val |-> Head(Pending).val + prData]

(* Fault: an update that is written back stays queued.                     *)
UnwrittenKept == Pending

Unwritten == IF prData # None /\ deltaData[Dst] # None THEN Tail(Pending) ELSE Pending

(* Fault: the sum goes to the bank the sources are reading.                *)
WriteBackToSource ==
  /\ deltaWr' = [b \in Bank |-> IF b = Src THEN DeltaWrite ELSE None]
  /\ prWr' = PrWrite
  /\ wrPr' = Unwritten

WriteBack ==
  /\ deltaWr' = [b \in Bank |-> IF b = Dst THEN DeltaWrite ELSE None]
  /\ prWr' = PrWrite
  /\ wrPr' = Unwritten

(* The two conditions on which stage 10 prints an error and exits.         *)
Error1 == deltaData[Dst] # None /\ Pending = <<>>
Error2 == prData # None /\ deltaData[Dst] = None

(***************************************************************************)
(* Stage 10, output: the value for the source, and whether the vertex      *)
(* written back longest ago is active in the next iteration.               *)
(***************************************************************************)
Exceeds(delta, pr) ==
  INV_E2 * Abs(delta) > (IF iterationID = 0 THEN pr ELSE pr - delta)

OutputReady == activeDelta # <<>> /\ activePr # <<>>

SendOutputs ==
  /\ srcV' = deltaData[Src]
  /\ activeV' = IF OutputReady
                THEN [addr |-> Head(activeDelta).addr,
                      updated |-> Exceeds(Head(activeDelta).val, Head(activePr))]
                ELSE None
  /\ activeDelta' = Push(IF OutputReady THEN Tail(activeDelta) ELSE activeDelta,
                         IF DeltaWrite = None THEN None
                         ELSE [addr |-> DeltaWrite.addr, val |-> DeltaWrite.val])
  /\ activePr' = Push(IF OutputReady THEN Tail(activePr) ELSE activePr,
                      IF PrWrite = None THEN None ELSE PrWrite.val)

(* Stage 10, end of the iteration: nothing queued for WAIT_END_DELAY ticks. *)
Drained == wrEnd /\ wrDelta' = <<>> /\ wrPr' = <<>> /\ activeDelta' = <<>>

(* Faults: the end does not wait; end_ct passes its limit; Stage_Full late. *)
DetectEndAtOnce ==
  /\ iterationEnd' = Drained
  /\ endCt' = 0
  /\ stageFull' = (Len(wrPr') >= FULL_SIZE)

DetectEndLate ==
  /\ iterationEnd' = (Drained /\ endCt > WAIT_END_DELAY)
  /\ endCt' = IF ~Drained THEN 0 ELSE IF endCt > WAIT_END_DELAY THEN endCt ELSE endCt + 1
  /\ stageFull' = (Len(wrPr') >= FULL_SIZE)

DetectEndFullLate ==
  /\ iterationEnd' = (Drained /\ endCt >= WAIT_END_DELAY)
  /\ endCt' = IF ~Drained THEN 0 ELSE IF endCt >= WAIT_END_DELAY THEN endCt ELSE endCt + 1
  /\ stageFull' = (Len(wrPr') > FULL_SIZE)

DetectEnd ==
  /\ iterationEnd' = (Drained /\ endCt >= WAIT_END_DELAY)
  /\ endCt' = IF ~Drained THEN 0 ELSE IF endCt >= WAIT_END_DELAY THEN endCt ELSE endCt + 1
  /\ stageFull' = (Len(wrPr') >= FULL_SIZE)

VertexRamController ==
  /\ ~Error1 /\ ~Error2
  /\ SendReads /\ WriteBack /\ SendOutputs /\ DetectEnd

-----------------------------------------------------------------------------
(* The memories answer one tick later with the content before the write of *)
(* the same tick.                                                          *)
DeltaBram ==
  /\ deltaData' = [b \in Bank |->
       IF deltaRd[b] = None THEN None ELSE deltaBram[b][deltaRd[b]]]
  /\ deltaBram' = [b \in Bank |->
       IF deltaWr[b] = None THEN deltaBram[b]
       ELSE [deltaBram[b] EXCEPT ![deltaWr[b].addr] =
               [val |-> deltaWr[b].val, tag |-> deltaWr[b].tag]]]

PrUram ==
  /\ prData' = IF prRd = None THEN None ELSE prUram[prRd]
  /\ prUram' = IF prWr = None THEN prUram
               ELSE [prUram EXCEPT ![prWr.addr] = prWr.val]

(***************************************************************************)
(* Stage 11: the ends of all cores together.  The ends of the other cores  *)
(* pass the same two registers as the end of this core, so those of one    *)
(* tick can all be up only if two ticks before nothing could arrive        *)
(* anywhere; the others may need longer, and stay up as this core does.    *)
(***************************************************************************)
ApplyIterationEnd ==
  /\ backendV' = activeV
  /\ \/ backendEnd' = (iterationEnd /\ backendEnd)
     \/ settled = 2 /\ backendEnd' = iterationEnd

-----------------------------------------------------------------------------
(***************************************************************************)
(* The front end as this core sees it.  Stage 1 keeps the two bitmaps and  *)
(* opens the next iteration on a rising edge of the global end, if it has  *)
(* sent every vertex of the current one.                                   *)
(***************************************************************************)
(* Fault: the level of the global end is taken for its edge.               *)
NextIterationOnLevel == visNow = {} /\ backendEnd /\ iterationID < MAX_ITERATION

NextIteration ==
  visNow = {} /\ backendEnd /\ iterationFlag /\ iterationID < MAX_ITERATION

MarkActive(next) ==
  IF backendV = None THEN next
  ELSE IF backendV.updated THEN next \union {backendV.addr} ELSE next \ {backendV.addr}

(* A mark that comes with the edge goes to the bitmap that is current from  *)
(* now on: it is lost if it is in the line that has just been copied.  The *)
(* register of stage 2 between iteration_id and Iteration_ID is left out:  *)
(* in the tick it adds nothing is under way.                               *)
ReadActiveVertex ==
  /\ iterationFlag' = ~backendEnd
  /\ IF NextIteration
     THEN /\ iterationID' = iterationID + 1
          /\ visNow' \in {visNext, MarkActive(visNext)}
          /\ visNext' = {}
          /\ rdV' = None
     ELSE /\ iterationID' = iterationID
          /\ visNext' = MarkActive(visNext)
          /\ \/ rdV' = None /\ visNow' = visNow
             \/ \E v \in visNow : rdV' = v /\ visNow' = visNow \ {v}

(***************************************************************************)
(* Stages 3 to 8 as this core sees them.  The node of this core raises its *)
(* end when the sources of this core have been read and its own queues are *)
(* empty, and drops it again if another core sends it an update.  Nothing  *)
(* arrives any more once that holds of all nodes.  The ends of an          *)
(* iteration fall some time after the next one has begun, and before its   *)
(* first update arrives.  Updates stop while Dest_Core_Full is up.         *)
(***************************************************************************)
SourcesRead == visNow = {} /\ rdV = None /\ deltaRd[Src] = None /\ deltaData[Src] = None

Credit(u) ==
  /\ sent' = sent + 1
  /\ ledger' = [ledger EXCEPT ![u.addr] =
       [count |-> @.count + 1, delta |-> @.delta + u.val, pr |-> @.pr + u.val]]

NoUpdate == recvV' = None /\ UNCHANGED <<sent, ledger>>

Quiet ==    \* nothing arrives, the end level is low
  /\ phase \in {"new", "run"}
  /\ phase' = "run" /\ recvEnd' = FALSE
  /\ NoUpdate

Deliver ==  \* an update arrives
  /\ phase \in {"new", "run"}
  /\ phase' = "run" /\ recvEnd' = FALSE
  /\ ~destCoreFull /\ sent < MAX_UPDATES
  /\ \E u \in Update : recvV' = u /\ Credit(u)

EarlyEnd == \* this node is empty, others may still send to it
  /\ phase = "run" /\ SourcesRead
  /\ phase' = "run" /\ recvEnd' = TRUE
  /\ NoUpdate

StaleEnd == \* the end level of the previous iteration has not fallen yet
  /\ phase = "new"
  /\ phase' = "new" /\ recvEnd' = TRUE
  /\ NoUpdate

LastEnd == \* nothing can arrive any more
  /\ phase = "run" /\ SourcesRead
  /\ phase' = "end" /\ recvEnd' = TRUE
  /\ NoUpdate

HoldEnd ==  \* until stage 1 has opened the next iteration
  /\ phase = "end"
  /\ recvEnd' = TRUE
  /\ recvV' = None
  /\ IF NextIteration
     THEN /\ phase' = "new"
          /\ sent' = 0
          /\ ledger' = [v \in Vertex |->
                        [count |-> 0, delta |-> 0, pr |-> ledger[v].pr]]
     ELSE UNCHANGED <<phase, sent, ledger>>

HyperxNetwork ==
  /\ Quiet \/ Deliver \/ EarlyEnd \/ StaleEnd \/ LastEnd \/ HoldEnd
  /\ settled' = IF phase # "end" \/ phase' # "end" THEN 0
                ELSE IF settled = 2 THEN 2 ELSE settled + 1

Tick ==
  /\ BackendCore
  /\ VertexRamController
  /\ DeltaBram
  /\ PrUram
  /\ ApplyIterationEnd
  /\ ReadActiveVertex
  /\ HyperxNetwork

Next == Tick

Spec == Init /\ [][Next]_vars

(* pipe_manager::run is called in every pass of top's loop: the clock runs. *)
FairSpec == Spec /\ WF_vars(Tick)

-----------------------------------------------------------------------------
(***************************************************************************)
(* Correctness.                                                            *)
(***************************************************************************)

(* Stage 10 never takes one of its two error exits: whenever a memory      *)
(* answers there is an update waiting for the answer, and the rank memory  *)
(* answers only together with the delta memory of the iteration's parity.  *)
NoErrorExit == ~Error1 /\ ~Error2

(* The updates whose read-modify-write is under way: read requested, read  *)
(* answered, write sent.                                                   *)
Reading   == IF prRd = None THEN {} ELSE {prRd}
Answered  == IF prData = None \/ wrPr = <<>> THEN {} ELSE {Head(wrPr).addr}
Writing   == IF prWr = None THEN {} ELSE {prWr.addr}

(* No read-after-write hazard: two updates under way are never of the same *)
(* vertex, although only the address of each read is kept, in a window     *)
(* that is shifted in every tick.                                          *)
NoHazard ==
  /\ Reading \intersect Answered = {}
  /\ Reading \intersect Writing = {}
  /\ Answered \intersect Writing = {}

(* Stage_Full reaches the network through two registers, and stage 9 holds *)
(* one more update: the queue of a full stage 10 grows by at most three.   *)
BoundedOvershoot == Len(wrPr) <= FULL_SIZE + 3

(* The memories as they will be once the write on its way has landed.      *)
EffectiveDelta ==
  [b \in Bank |-> [v \in Vertex |->
     IF deltaWr[b] # None /\ deltaWr[b].addr = v
     THEN [val |-> deltaWr[b].val, tag |-> deltaWr[b].tag] ELSE deltaBram[b][v]]]

EffectivePr ==
  [v \in Vertex |-> IF prWr # None /\ prWr.addr = v THEN prWr.val ELSE prUram[v]]

(* The pipelined read-modify-write implements the indivisible one: no      *)
(* update is lost, applied twice, applied out of order or to the wrong     *)
(* iteration.                                                              *)
Store == INSTANCE VertexStore
           WITH iteration <- iterationID, pending <- wrPr,
                delta <- EffectiveDelta, pr <- EffectivePr
StoreRefinement == Store!StoreSpec

(* When stage 1 sees the global end, the iteration is over in this core:   *)
(* every contribution handed to stage 9 is in the memories, and the active *)
(* set is the verdict on the final delta of every vertex that received     *)
(* one (in iteration 0 the others keep the mark they were given at reset). *)
EndIsComplete ==
  NextIteration =>
    \A v \in Vertex :
      LET d == deltaBram[Dst][v]
          l == ledger[v]
      IN /\ prUram[v] = PrInit + l.pr
         /\ IF l.count > 0 \/ iterationID = 0
            THEN /\ d.tag = iterationID
                 /\ d.val = l.delta + (IF iterationID = 0 THEN Delta2Init ELSE 0)
            ELSE d.tag < iterationID
         /\ (v \in visNext) = IF l.count > 0 THEN Exceeds(d.val, prUram[v])
                                             ELSE iterationID = 0

(* A source never reads a delta that is older than the last iteration, nor *)
(* one that is still on its way to the memory (what reset left counts as   *)
(* the delta of iterations -1 and 0).                                      *)
SourceIsFresh ==
  deltaRd[Src] # None =>
    /\ deltaBram[Src][deltaRd[Src]].tag = IF iterationID = 0 THEN 0 ELSE iterationID - 1
    /\ deltaWr[Src] = None

(* While an iteration lasts, the deltas its sources read do not change.    *)
SourceBankStable ==
  [][iterationID' = iterationID => deltaBram'[Src] = deltaBram[Src]]_vars

(* Once the network has signalled the end of the iteration, stage 10       *)
(* drains: conflicts resolve and the end reaches stage 11.                 *)
EndFollows == phase = "end" ~> iterationEnd

-----------------------------------------------------------------------------
(***************************************************************************)
(* The inductive invariant behind these properties.                        *)
(***************************************************************************)
Held(r) == IF r = None THEN 0 ELSE 1

(* The update answered and the one being read are the oldest of wrPr and   *)
(* wrDelta is the rest; the two reads under way fill the first two slots   *)
(* of the conflict window.                                                 *)
Alignment ==
  /\ deltaRd[Dst] = prRd
  /\ deltaData[Dst] = None <=> prData = None
  /\ deltaWr[Dst] = None <=> prWr = None
  /\ deltaWr[Src] = None
  /\ Len(wrPr) = Held(prData) + Held(prRd) + Len(wrDelta)
  /\ \A i \in 1 .. Len(wrDelta) : wrDelta[i] = wrPr[Held(prData) + Held(prRd) + i]
  /\ prRd # None => prRd = wrPr[Held(prData) + 1].addr
  /\ conflictCheck[0] = prRd
  /\ prData # None => conflictCheck[1] = wrPr[1].addr

(* No two updates of one vertex are under way.                             *)
Distinct ==
  /\ prRd # None /\ prData # None => prRd # wrPr[1].addr
  /\ prRd # None /\ prWr # None => prRd # prWr.addr
  /\ prData # None /\ prWr # None => prWr.addr # wrPr[1].addr

(* What a memory has answered is still what it holds.                      *)
Currency ==
  /\ prData # None => /\ prData = prUram[wrPr[1].addr]
                      /\ deltaData[Dst] = deltaBram[Dst][wrPr[1].addr]
  /\ prWr # None => deltaWr[Dst].addr = prWr.addr

(* The end level travels from the network through stages 9, 10 and 11, and *)
(* so does its fall; an edge stage 1 counts is one of this iteration.      *)
EndLevels ==
  /\ recvEnd => recvV = None
  /\ wrEnd => wrV = None
  /\ iterationEnd => /\ wrDelta = <<>> /\ wrPr = <<>> /\ activeDelta = <<>>
                     /\ endCt = WAIT_END_DELAY
  /\ phase = "new" => recvEnd /\ wrEnd /\ iterationEnd /\ backendEnd
  /\ phase # "end" /\ backendEnd => ~iterationFlag
  /\ phase = "end" => /\ recvEnd /\ SourcesRead
                      /\ settled > 0 => wrEnd
                      /\ backendEnd /\ iterationFlag => settled = 2 /\ iterationEnd
  /\ phase # "end" => settled = 0

(* Updates that are queued in stage 10 or will be whatever it says now.    *)
Room ==
  /\ Len(wrPr) + Held(wrV) + Held(recvV) <= FULL_SIZE + 3
  /\ stageFull <=> Len(wrPr) >= FULL_SIZE
  /\ stageFull /\ ~destCoreFull => Len(wrPr) <= FULL_SIZE

(* The conjunction, checked on the small instances and proved inductive.   *)
PipelineInv == Alignment /\ Distinct /\ Currency /\ EndLevels /\ Room

=============================================================================
