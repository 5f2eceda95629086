-------------------------- MODULE RtlActiveVertexProof --------------------------
(***************************************************************************)
(* Proofs about RtlActiveVertex, for any graph, any widths, any FIFO that  *)
(* leaves room for three lines, and any number of stages and iterations.   *)
(***************************************************************************)
EXTENDS RtlActiveVertex, Arithmetic, SequenceTheorems

(* No payload is None.                                                     *)
NoneIsNew == None \notin SUBSET Bit /\ None \notin Nat /\ None \notin Mark

(* What is on its way from the block RAM, and what has been taken from it. *)
Held(r)   == IF r = None THEN 0 ELSE 1
Asked     == IF prefetch_valid THEN 1 ELSE 0
Popped    == IF local_vis_bitmap_index_lock THEN 0 ELSE local_vis_bitmap_index + 1
Requested == IF prefetch_addr = AllOnes THEN 0 ELSE prefetch_addr + 1

OnTheWay == Len(prefetch) + Held(bramRead[2]) + Held(bramRead[1]) + Asked

(* The lines are requested, and taken, one after the other; those that are *)
(* on their way have room.                                                 *)
Counting == Requested = Popped + OnTheWay /\ OnTheWay <= PREFETCH_FULL + 3

(* Nothing is read while stage 1 is idle, nor before the first line has    *)
(* come, nor when it has sent every line.                                  *)
Quiet ==
  /\ prefetch = <<>> /\ bramRead[1] = None /\ bramRead[2] = None /\ ~prefetch_valid
  /\ local_vis_bitmap_now = {}

Unread   == Quiet /\ prefetch_addr = AllOnes /\ local_vis_bitmap_index_lock /\ ~iteration_end
Finished == Quiet /\ prefetch_addr = bitmap_compressed_num - 1 /\ ~local_vis_bitmap_index_lock

Rest ==
  /\ Idle => Unread
  /\ local_vis_bitmap_index_lock => local_vis_bitmap_index = 0 /\ local_vis_bitmap_now = {}
  /\ iteration_end => Finished

(* The first stages have the number of this iteration, and an end of theirs*)
(* is its end; the others still have the number before it.                 *)
Chain ==
  \E k \in 0 .. STAGES : \A s \in Stage :
    IF s <= k THEN backId[s] = local_iteration_id /\ (backEnd[s] => iteration_end)
              ELSE (backId[s] + 1) % 2 ^ ITERATION_WIDTH = local_iteration_id

ReadInv == TypeOK /\ Counting /\ Rest /\ Chain

-----------------------------------------------------------------------------
(* The widths.                                                             *)
LEMMA Sizes ==
  /\ BITMAP_COMPRESSED_LENGTH \in Nat \ {0} /\ bitmap_compressed_num \in Nat \ {0}
  /\ VTX_NUM \in Nat /\ STAGES \in Nat \ {0}
  /\ PREFETCH_FULL \in Nat \ {0} /\ PREFETCH_SIZE \in Nat /\ PREFETCH_FULL + 3 <= PREFETCH_SIZE
  /\ IndexRange \in Nat /\ AllOnes \in Nat /\ bitmap_compressed_num <= AllOnes
  /\ \E h \in Nat \ {0} : 2 ^ ITERATION_WIDTH = 2 * h
<1>1. PICK w \in Nat : ITERATION_WIDTH = w + 1
  <2>1. ITERATION_WIDTH - 1 \in Nat /\ ITERATION_WIDTH = (ITERATION_WIDTH - 1) + 1
    BY WidthAssumption
  <2> QED
    BY <2>1
<1>2. 2 ^ ITERATION_WIDTH = 2 * 2 ^ w /\ 2 ^ w \in Nat \ {0}
  BY <1>1, PowerDoubles, PowerCounts
<1>3. BITMAP_COMPRESSED_NUM_WIDTH \in Nat
  BY WidthAssumption
<1>4. IndexRange = 2 * 2 ^ BITMAP_COMPRESSED_NUM_WIDTH /\ 2 ^ BITMAP_COMPRESSED_NUM_WIDTH \in Nat \ {0}
  BY <1>3, PowerDoubles, PowerCounts DEF IndexRange
<1>5. bitmap_compressed_num \in 1 .. 2 ^ BITMAP_COMPRESSED_NUM_WIDTH
  BY WidthAssumption
<1>6. IndexRange \in Nat /\ AllOnes \in Nat /\ bitmap_compressed_num <= AllOnes /\ bitmap_compressed_num \in Nat \ {0}
  BY <1>4, <1>5 DEF AllOnes
<1>7. VTX_NUM \in Nat
  <2>1. bitmap_compressed_num * BITMAP_COMPRESSED_LENGTH \in Int
    BY <1>6, WidthAssumption
  <2> QED
    BY <2>1, WidthAssumption
<1> QED
  BY <1>2, <1>6, <1>7, WidthAssumption, PrefetchAssumption

(* The number of an iteration differs from that of the next one, and its   *)
(* parity changes when it is counted up, also when it wraps around.        *)
LEMMA CountUp ==
  ASSUME NEW i \in IterationId
  PROVE  LET j == (i + 1) % 2 ^ ITERATION_WIDTH IN
         /\ i \in Nat /\ j \in IterationId /\ j # i
         /\ j % 2 = (i + 1) % 2 /\ (j + 1) % 2 = i % 2
         /\ i % 2 \in 0 .. 1 /\ (i + 1) % 2 \in 0 .. 1 /\ (i + 1) % 2 # i % 2
<1>1. PICK h \in Nat \ {0} : 2 ^ ITERATION_WIDTH = 2 * h
  BY Sizes
<1> DEFINE M == 2 ^ ITERATION_WIDTH
<1>2. i \in 0 .. M - 1
  BY DEF IterationId
<1> HIDE DEF M
<1>3. M \in Nat /\ M = 2 * h
  BY <1>1 DEF M
<1>4. CASE i = M - 1
  <2>1. (i + 1) % M = 0
    BY <1>3, <1>4
  <2>2. i \in Nat /\ i # 0 /\ i % 2 = 1 /\ (i + 1) % 2 = 0
    BY <1>3, <1>4
  <2> QED
    BY <1>1, <1>3, <2>1, <2>2 DEF IterationId, M
<1>5. CASE i < M - 1
  <2>1. (i + 1) % M = i + 1
    BY <1>2, <1>3, <1>5
  <2> QED
    BY <1>1, <1>2, <1>3, <1>5, <2>1 DEF IterationId, M
<1> QED
  BY <1>2, <1>3, <1>4, <1>5

LEMMA ParityIds ==
  ASSUME TypeOK
  PROVE  /\ now_bitmap_id \in 0 .. 1 /\ next_bitmap_id \in 0 .. 1 /\ now_bitmap_id # next_bitmap_id
  BY CountUp DEF TypeOK, now_bitmap_id, next_bitmap_id

(* The next line to be requested.                                          *)
LEMMA NextLine ==
  ASSUME TypeOK
  PROVE  /\ Requested \in 0 .. bitmap_compressed_num
         /\ MoreLines <=> Requested < bitmap_compressed_num
         /\ MoreLines => /\ (prefetch_addr + 1) % IndexRange = Requested
                         /\ Requested \in Line /\ Requested # AllOnes
         /\ prefetch_addr # AllOnes <=> prefetch_addr \in Line
<1>1. /\ bitmap_compressed_num \in Nat \ {0} /\ IndexRange \in Nat /\ AllOnes = IndexRange - 1
      /\ AllOnes \in Nat /\ bitmap_compressed_num <= AllOnes
  BY Sizes DEF AllOnes
<1>2. prefetch_addr \in Line \union {AllOnes}
  BY DEF TypeOK
<1>3. CASE prefetch_addr = AllOnes
  <2>1. (prefetch_addr + 1) % IndexRange = 0
    BY <1>1, <1>3
  <2> QED
    BY <1>1, <1>3, <2>1 DEF Line, MoreLines, Requested
<1>4. CASE prefetch_addr \in Line
  <2>1. prefetch_addr # AllOnes /\ (prefetch_addr + 1) % IndexRange = prefetch_addr + 1
    BY <1>1, <1>4 DEF Line
  <2> QED
    BY <1>1, <1>4, <2>1 DEF Line, MoreLines, Requested
<1> QED
  BY <1>2, <1>3, <1>4

-----------------------------------------------------------------------------
(* The ends.                                                               *)

(* An end with the number of this iteration is the end of this iteration.  *)
LEMMA EndIsThis ==
  ASSUME TypeOK, Chain, EndOfThis
  PROVE  iteration_end /\ \A s \in Stage : backId[s] = local_iteration_id
<1>1. PICK k \in 0 .. STAGES : \A s \in Stage :
        IF s <= k THEN backId[s] = local_iteration_id /\ (backEnd[s] => iteration_end)
                  ELSE (backId[s] + 1) % 2 ^ ITERATION_WIDTH = local_iteration_id
  BY DEF Chain
<1>2. STAGES \in Stage /\ STAGES \in Nat
  BY Sizes DEF Stage
<1>3. local_iteration_id \in IterationId
  BY DEF TypeOK
<1>4. (local_iteration_id + 1) % 2 ^ ITERATION_WIDTH # local_iteration_id
  BY <1>3, CountUp
<1>5. STAGES <= k
  BY <1>1, <1>2, <1>4 DEF EndOfThis
<1>6. \A s \in Stage : s <= k
  BY <1>2, <1>5 DEF Stage
<1> QED
  BY <1>1, <1>2, <1>5, <1>6 DEF EndOfThis

(* So the iteration counts up exactly on the edge that makes stage 1 read  *)
(* from the first line again.                                              *)
LEMMA CountStep ==
  ASSUME TypeOK, Chain, ManageIteration
  PROVE  /\ iteration_change_flag => iteration_end
         /\ iteration_change_flag => local_iteration_id' = NextIterationId /\ ~iteration_end'
         /\ ~iteration_change_flag => /\ local_iteration_id' = local_iteration_id
                                      /\ iteration_end' = (iteration_end \/ AllRead)
         /\ NextIterationId \in IterationId /\ NextIterationId # local_iteration_id
<1>1. iteration_change_flag => iteration_end
  BY EndIsThis DEF iteration_change_flag
<1>2. local_iteration_id \in IterationId
  BY DEF TypeOK
<1>3. NextIterationId \in IterationId /\ NextIterationId # local_iteration_id
  BY <1>2, CountUp DEF NextIterationId
<1> QED
  BY <1>1, <1>3 DEF ManageIteration

LEMMA ChainStep ==
  ASSUME TypeOK, Chain, ManageIteration, NEW drained \in SUBSET Waiting, PassEnd(drained)
  PROVE  Chain'
<1> USE DEF Stage
<1>1. PICK k \in 0 .. STAGES : \A s \in Stage :
        IF s <= k THEN backId[s] = local_iteration_id /\ (backEnd[s] => iteration_end)
                  ELSE (backId[s] + 1) % 2 ^ ITERATION_WIDTH = local_iteration_id
  BY DEF Chain
<1>2. STAGES \in Nat \ {0}
  BY Sizes
<1>3. \A s \in Stage : backId'[s] = FrontId(s) /\ (backEnd'[s] => FrontEnd(s))
  BY DEF PassEnd
<1>4. CASE ~iteration_change_flag
  <2> DEFINE m == IF k < STAGES THEN k + 1 ELSE k
  <2>1. m \in 0 .. STAGES
    BY <1>2
  <2>2. local_iteration_id' = local_iteration_id /\ (iteration_end => iteration_end')
    BY <1>4, CountStep
  <2> SUFFICES ASSUME NEW s \in Stage
               PROVE  IF s <= m THEN backId'[s] = local_iteration_id' /\ (backEnd'[s] => iteration_end')
                      ELSE (backId'[s] + 1) % 2 ^ ITERATION_WIDTH = local_iteration_id'
    BY <2>1 DEF Chain
  <2>3. CASE s = 1
    <3>1. FrontId(s) = local_iteration_id /\ (FrontEnd(s) => iteration_end)
      BY <2>3 DEF FrontId, FrontEnd
    <3>2. s <= m
      BY <1>2, <2>3
    <3> QED
      BY <1>3, <2>2, <3>1, <3>2
  <2>4. CASE s # 1
    <3>1. FrontId(s) = backId[s - 1] /\ FrontEnd(s) = backEnd[s - 1] /\ s - 1 \in Stage
      BY <1>2, <2>4 DEF FrontId, FrontEnd
    <3>2. s <= m <=> s - 1 <= k
      BY <1>2
    <3> QED
      BY <1>1, <1>3, <2>2, <3>1, <3>2
  <2> QED
    BY <2>3, <2>4
<1>5. CASE iteration_change_flag
  <2>1. \A s \in Stage : backId[s] = local_iteration_id
    BY <1>5, EndIsThis DEF iteration_change_flag
  <2>2. local_iteration_id' = (local_iteration_id + 1) % 2 ^ ITERATION_WIDTH
    BY <1>5, CountStep DEF NextIterationId
  <2>3. \A s \in Stage : backId'[s] = local_iteration_id
    <3> SUFFICES ASSUME NEW s \in Stage PROVE FrontId(s) = local_iteration_id
      BY <1>3
    <3>1. s # 1 => s - 1 \in Stage
      BY <1>2
    <3> QED
      BY <2>1, <3>1 DEF FrontId
  <2>4. 0 \in 0 .. STAGES /\ \A s \in Stage : ~(s <= 0)
    BY <1>2
  <2> QED
    BY <2>2, <2>3, <2>4 DEF Chain
<1> QED
  BY <1>4, <1>5

-----------------------------------------------------------------------------
(* The lines.                                                              *)

(* A line that arrives finds room.                                         *)
LEMMA RoomForLine ==
  ASSUME TypeOK, Counting
  PROVE  /\ bramRead[2] # None => Len(prefetch) < PREFETCH_SIZE
         /\ Len(prefetch) \in Nat /\ Held(bramRead[1]) \in 0 .. 1 /\ Held(bramRead[2]) \in 0 .. 1
         /\ Asked \in 0 .. 1 /\ OnTheWay \in Nat
         /\ Popped \in Nat /\ Popped + OnTheWay = Requested /\ Popped <= bitmap_compressed_num
<1>1. Len(prefetch) \in Nat
  BY DEF TypeOK
<1>2. Held(bramRead[1]) \in 0 .. 1 /\ Held(bramRead[2]) \in 0 .. 1 /\ Asked \in 0 .. 1
  BY DEF Held, Asked
<1>3. local_vis_bitmap_index \in Nat /\ Popped \in Nat
  BY Sizes DEF TypeOK, Line, Popped
<1>4. OnTheWay \in Nat /\ OnTheWay <= PREFETCH_FULL + 3 /\ Requested = Popped + OnTheWay
  BY <1>1, <1>2 DEF OnTheWay, Counting
<1>5. bramRead[2] # None => Len(prefetch) < PREFETCH_SIZE
  <2>1. bramRead[2] # None => Len(prefetch) + 1 <= OnTheWay
    BY <1>1, <1>2 DEF OnTheWay, Held
  <2> QED
    BY <1>1, <1>4, <2>1, Sizes
<1>6. Popped <= bitmap_compressed_num
  BY <1>3, <1>4, NextLine, Sizes
<1> QED
  BY <1>1, <1>2, <1>3, <1>4, <1>5, <1>6

(* A tick in which a line may be requested, may come and may be taken.     *)
LEMMA StreamStep ==
  ASSUME NoneIsNew, ReadInv, ~Idle, ~iteration_change_flag, PrefetchLine, ReadBlockRam, ReadLine
  PROVE  /\ prefetch \in Seq(SUBSET Bit)
         /\ prefetch' = LET rest == IF Pops THEN Tail(prefetch) ELSE prefetch
                       IN IF bramRead[2] # None THEN Append(rest, bramRead[2]) ELSE rest
         /\ bramRead'[2] = bramRead[1] /\ Held(bramRead'[1]) = Asked
         /\ bramRead'[1] # None => bramRead'[1] = vis_bitmap[now_bitmap_id][Requested - 1]
                                   /\ Requested - 1 \in Line
         /\ bramRead' \in [1 .. 2 -> Option(SUBSET Bit)]
         /\ Requested' = Requested + Asked' /\ prefetch_addr' \in Line \union {AllOnes}
         /\ Asked' = 1 => MoreLines /\ ~PrefetchFull
         /\ Popped' = Popped + (IF Pops THEN 1 ELSE 0)
         /\ Pops => Popped' = local_vis_bitmap_index' + 1 /\ ~local_vis_bitmap_index_lock'
         /\ ~Pops => /\ local_vis_bitmap_index' = local_vis_bitmap_index
                     /\ local_vis_bitmap_index_lock' = local_vis_bitmap_index_lock
<1> USE DEF ReadInv
<1>1. TypeOK /\ Counting
  OBVIOUS
<1>2. prefetch \in Seq(SUBSET Bit) /\ bramRead \in [1 .. 2 -> Option(SUBSET Bit)]
  BY DEF TypeOK
<1>3. bramRead[2] # None => Len(prefetch) < PREFETCH_SIZE
  BY <1>1, RoomForLine
<1>4. prefetch' = LET rest == IF Pops THEN Tail(prefetch) ELSE prefetch
                  IN IF bramRead[2] # None THEN Append(rest, bramRead[2]) ELSE rest
  BY <1>3 DEF ReadBlockRam
<1>5. bramRead'[2] = bramRead[1]
      /\ bramRead'[1] = IF prefetch_valid THEN vis_bitmap[now_bitmap_id][prefetch_addr] ELSE None
  BY DEF ReadBlockRam
<1>6. prefetch_valid => prefetch_addr \in Line /\ prefetch_addr = Requested - 1
  <2> SUFFICES ASSUME prefetch_valid PROVE prefetch_addr \in Line /\ prefetch_addr = Requested - 1
    OBVIOUS
  <2>1. Asked = 1 /\ OnTheWay >= 1
    BY <1>1, RoomForLine DEF OnTheWay, Asked
  <2>2. Requested >= 1
    BY <1>1, <2>1, RoomForLine
  <2>3. prefetch_addr # AllOnes
    BY <2>2 DEF Requested
  <2> QED
    BY <1>1, <2>3, NextLine DEF Requested, Line
<1>7. prefetch_valid => /\ vis_bitmap[now_bitmap_id][prefetch_addr] \in SUBSET Bit
                        /\ vis_bitmap[now_bitmap_id][prefetch_addr] # None
  <2>1. vis_bitmap[now_bitmap_id] \in [Line -> SUBSET Bit]
    BY <1>1, ParityIds DEF TypeOK
  <2> QED
    BY <1>6, <2>1 DEF NoneIsNew
<1>8. /\ Held(bramRead'[1]) = Asked
      /\ bramRead'[1] # None => /\ bramRead'[1] = vis_bitmap[now_bitmap_id][Requested - 1]
                                /\ Requested - 1 \in Line
  BY <1>5, <1>6, <1>7 DEF Held, Asked
<1>9. bramRead' \in [1 .. 2 -> Option(SUBSET Bit)]
  <2>1. bramRead'[1] \in Option(SUBSET Bit) /\ bramRead'[2] \in Option(SUBSET Bit)
    BY <1>2, <1>5, <1>7 DEF Option
  <2>2. bramRead' = [i \in 1 .. 2 |-> bramRead'[i]]
    BY DEF ReadBlockRam
  <2> QED
    BY <2>1, <2>2
<1>10. /\ Requested' = Requested + Asked' /\ prefetch_addr' \in Line \union {AllOnes}
       /\ Asked' = 1 => MoreLines /\ ~PrefetchFull
  <2>1. prefetch_valid' <=> MoreLines /\ ~PrefetchFull
    BY DEF PrefetchLine
  <2>2. prefetch_addr' = IF prefetch_valid' THEN (prefetch_addr + 1) % IndexRange ELSE prefetch_addr
    BY DEF PrefetchLine
  <2>3. CASE prefetch_valid'
    <3>1. prefetch_addr' = Requested /\ Requested \in Line /\ Requested # AllOnes
      BY <1>1, <2>1, <2>2, <2>3, NextLine
    <3>2. Requested' = Requested + 1
      BY <3>1 DEF Requested
    <3> QED
      BY <2>1, <2>3, <3>1, <3>2 DEF Asked
  <2>4. CASE ~prefetch_valid'
    <3>1. prefetch_addr' = prefetch_addr
      BY <2>2, <2>4
    <3>2. Requested' = Requested /\ Requested \in Nat
      BY <1>1, <3>1, NextLine DEF Requested
    <3> QED
      BY <1>1, <2>4, <3>1, <3>2 DEF Asked, TypeOK
  <2> QED
    BY <2>3, <2>4
<1>11. local_vis_bitmap_index \in Nat
  BY DEF TypeOK, Line
<1>12. /\ local_vis_bitmap_index_lock' = (local_vis_bitmap_index_lock /\ ~Pops)
       /\ local_vis_bitmap_index' =
            IF Pops /\ ~(local_vis_bitmap_index = 0 /\ local_vis_bitmap_index_lock)
            THEN local_vis_bitmap_index + 1 ELSE local_vis_bitmap_index
  BY DEF ReadLine
<1>13. local_vis_bitmap_index_lock => local_vis_bitmap_index = 0
  BY DEF Rest
<1>14. /\ Popped' = Popped + (IF Pops THEN 1 ELSE 0)
       /\ Pops => Popped' = local_vis_bitmap_index' + 1 /\ ~local_vis_bitmap_index_lock'
       /\ ~Pops => /\ local_vis_bitmap_index' = local_vis_bitmap_index
                   /\ local_vis_bitmap_index_lock' = local_vis_bitmap_index_lock
  <2> DEFINE lock == local_vis_bitmap_index_lock
  <2>1. lock \in BOOLEAN
    BY DEF TypeOK
  <2>2. CASE ~Pops
    BY <1>11, <1>12, <2>1, <2>2 DEF Popped
  <2>3. CASE Pops /\ lock
    BY <1>11, <1>12, <1>13, <2>1, <2>3 DEF Popped
  <2>4. CASE Pops /\ ~lock
    BY <1>11, <1>12, <2>1, <2>4 DEF Popped
  <2> QED
    BY <2>2, <2>3, <2>4
<1> QED
  BY <1>2, <1>4, <1>5, <1>8, <1>9, <1>10, <1>14

(* A tick of rest, or the one that ends an iteration.                      *)
LEMMA ResetStep ==
  ASSUME ReadInv, Idle \/ iteration_change_flag,
         ManageIteration, PrefetchLine, ReadBlockRam, ReadLine
  PROVE  /\ Unread' /\ local_vis_bitmap_index' = 0
         /\ Idle => ~iteration_change_flag
         /\ iteration_change_flag => Finished
<1> USE DEF ReadInv
<1>1. Idle => Unread /\ ~iteration_change_flag
  BY CountStep DEF Rest, Unread
<1>2. iteration_change_flag => Finished
  BY CountStep DEF Rest
<1>3. Quiet
  BY <1>1, <1>2 DEF Unread, Finished
<1>4. ~Pops /\ prefetch' = <<>>
  BY <1>3 DEF Quiet, Pops, ReadBlockRam
<1>5. bramRead' = [i \in 1 .. 2 |-> None]
  <2>1. CASE Idle
    BY <2>1 DEF ReadBlockRam
  <2>2. CASE ~Idle
    <3>1. bramRead' = [i \in 1 .. 2 |-> IF i = 2 THEN bramRead[1]
                         ELSE IF prefetch_valid THEN vis_bitmap[now_bitmap_id][prefetch_addr] ELSE None]
      BY <2>2 DEF ReadBlockRam
    <3>2. bramRead[1] = None /\ ~prefetch_valid
      BY <1>3 DEF Quiet
    <3> QED
      BY <3>1, <3>2
  <2> QED
    BY <2>1, <2>2
<1>6. bramRead'[1] = None /\ bramRead'[2] = None
  BY <1>5
<1>7. ~prefetch_valid' /\ prefetch_addr' = AllOnes
  <2>1. CASE Idle
    BY <2>1 DEF PrefetchLine
  <2>2. CASE iteration_change_flag
    <3>1. prefetch_addr = bitmap_compressed_num - 1 /\ prefetch_addr # AllOnes
      BY <1>2, <2>2, Sizes DEF Finished
    <3>2. ~MoreLines
      BY <3>1, Sizes DEF MoreLines
    <3> QED
      BY <2>2, <3>2 DEF PrefetchLine
  <2> QED
    BY <2>1, <2>2
<1>8. local_vis_bitmap_now' = {} /\ local_vis_bitmap_index' = 0 /\ local_vis_bitmap_index_lock'
  BY DEF ReadLine
<1>9. ~iteration_end'
  <2>1. CASE iteration_change_flag
    BY <2>1, CountStep
  <2>2. CASE Idle
    BY <1>1, <2>2, CountStep DEF Unread, AllRead
  <2> QED
    BY <2>1, <2>2
<1> QED
  BY <1>1, <1>2, <1>4, <1>6, <1>7, <1>8, <1>9 DEF Unread, Quiet

(* When the last line has been sent, all lines have been requested.        *)
LEMMA AllReadIsFinished ==
  ASSUME ReadInv, AllRead
  PROVE  Finished
<1> USE DEF ReadInv
<1>1. /\ ~local_vis_bitmap_index_lock /\ prefetch = <<>> /\ local_vis_bitmap_now = {}
      /\ local_vis_bitmap_index >= bitmap_compressed_num - 1
  BY DEF AllRead, HasBit
<1>2. Popped >= bitmap_compressed_num
  BY <1>1, Sizes DEF Popped, TypeOK, Line
<1>3. OnTheWay = 0 /\ Requested = bitmap_compressed_num
  BY <1>2, RoomForLine, NextLine, Sizes
<1>4. Held(bramRead[1]) = 0 /\ Held(bramRead[2]) = 0 /\ Asked = 0
  BY <1>3, RoomForLine DEF OnTheWay
<1>5. bramRead[1] = None /\ bramRead[2] = None /\ ~prefetch_valid
  BY <1>4 DEF Held, Asked
<1>6. prefetch_addr = bitmap_compressed_num - 1
  <2>1. Requested # 0
    BY <1>3, Sizes
  <2>2. prefetch_addr \in Line /\ Requested = prefetch_addr + 1
    BY <2>1, NextLine DEF Requested
  <2> QED
    BY <1>3, <2>2, Sizes DEF Line
<1> QED
  BY <1>1, <1>5, <1>6 DEF Finished, Quiet

(* A tick within an iteration.                                             *)
LEMMA FinishedStep ==
  ASSUME NoneIsNew, ReadInv, ~Idle, ~iteration_change_flag, Finished, PrefetchLine, ReadBlockRam, ReadLine
  PROVE  Finished' /\ local_vis_bitmap_index' = local_vis_bitmap_index
<1> USE DEF ReadInv
<1>1. Quiet /\ prefetch_addr = bitmap_compressed_num - 1 /\ ~local_vis_bitmap_index_lock
  BY DEF Finished
<1>2. ~Pops /\ prefetch' = <<>> /\ local_vis_bitmap_now' = {}
  BY <1>1 DEF Quiet, Pops, ReadBlockRam, ReadLine, HasBit
<1>3. bramRead'[2] = None /\ bramRead'[1] = None
  <2>1. bramRead'[2] = bramRead[1] /\ Held(bramRead'[1]) = Asked
    BY StreamStep
  <2>2. Asked = 0 /\ bramRead[1] = None
    BY <1>1 DEF Quiet, Asked
  <2> QED
    BY <2>1, <2>2 DEF Held
<1>4. ~prefetch_valid' /\ prefetch_addr' = prefetch_addr
  <2>1. prefetch_addr # AllOnes
    BY <1>1, Sizes
  <2>2. ~MoreLines
    BY <1>1, <2>1, Sizes DEF MoreLines
  <2> QED
    BY <2>2 DEF PrefetchLine
<1>5. /\ local_vis_bitmap_index' = local_vis_bitmap_index
      /\ local_vis_bitmap_index_lock' = local_vis_bitmap_index_lock
  BY <1>2, StreamStep
<1> QED
  BY <1>1, <1>2, <1>3, <1>4, <1>5 DEF Finished, Quiet

LEMMA IdleStep ==
  ASSUME ReadInv, ManageIteration, ~Idle, ~iteration_change_flag
  PROVE  ~Idle'
<1>1. local_iteration_id' = local_iteration_id
  BY CountStep DEF ReadInv
<1>2. local_init_bitmap_id' = local_init_bitmap_id
  BY DEF ManageIteration, Idle
<1> QED
  BY <1>1, <1>2 DEF Idle, Initialising, iteration_done

LEMMA RestStep ==
  ASSUME NoneIsNew, ReadInv, ManageIteration, PrefetchLine, ReadBlockRam, ReadLine
  PROVE  Rest'
<1> USE DEF ReadInv
<1>1. CASE Idle \/ iteration_change_flag
  BY <1>1, ResetStep DEF Rest, Unread, Quiet
<1>2. CASE ~Idle /\ ~iteration_change_flag
  <2>1. ~Idle'
    BY <1>2, IdleStep
  <2>2. iteration_end' => Finished'
    BY <1>2, CountStep, AllReadIsFinished, FinishedStep DEF Rest
  <2>3. local_vis_bitmap_index_lock' => local_vis_bitmap_index' = 0 /\ local_vis_bitmap_now' = {}
    <3> SUFFICES ASSUME local_vis_bitmap_index_lock'
                 PROVE  local_vis_bitmap_index' = 0 /\ local_vis_bitmap_now' = {}
      OBVIOUS
    <3>1. ~Pops
      BY <1>2, StreamStep
    <3>2. local_vis_bitmap_index_lock /\ local_vis_bitmap_index' = local_vis_bitmap_index
      BY <1>2, <3>1, StreamStep
    <3>3. local_vis_bitmap_index = 0 /\ local_vis_bitmap_now = {}
      BY <3>2 DEF Rest
    <3>4. local_vis_bitmap_now' = {}
      BY <1>2, <3>1, <3>3 DEF ReadLine, HasBit
    <3> QED
      BY <3>2, <3>3, <3>4
  <2> QED
    BY <2>1, <2>2, <2>3 DEF Rest
<1> QED
  BY <1>1, <1>2

LEMMA CountingStep ==
  ASSUME NoneIsNew, ReadInv, ManageIteration, PrefetchLine, ReadBlockRam, ReadLine
  PROVE  Counting'
<1> USE DEF ReadInv
<1>1. CASE Idle \/ iteration_change_flag
  <2>1. /\ prefetch' = <<>> /\ bramRead'[1] = None /\ bramRead'[2] = None /\ ~prefetch_valid'
        /\ prefetch_addr' = AllOnes /\ local_vis_bitmap_index_lock'
    BY <1>1, ResetStep DEF Unread, Quiet
  <2>2. OnTheWay' = 0 /\ Requested' = 0 /\ Popped' = 0
    BY <2>1 DEF OnTheWay, Held, Asked, Requested, Popped
  <2> QED
    BY <2>2, Sizes DEF Counting
<1>2. CASE ~Idle /\ ~iteration_change_flag
  <2> DEFINE p == IF Pops THEN 1 ELSE 0
             n == Len(prefetch)
             h1 == Held(bramRead[1])
             h2 == Held(bramRead[2])
             n9 == Len(prefetch')
             a9 == Asked'
  <2>1. /\ p \in 0 .. 1 /\ n \in Nat /\ h1 \in 0 .. 1 /\ h2 \in 0 .. 1 /\ Asked \in 0 .. 1
        /\ Popped + OnTheWay = Requested /\ Popped \in Nat
    BY RoomForLine
  <2>2. a9 \in 0 .. 1
    BY DEF Asked
  <2>3. n9 = n - p + h2
    <3>1. prefetch \in Seq(SUBSET Bit) /\ (Pops => prefetch # <<>>)
      BY <1>2, StreamStep DEF Pops
    <3> DEFINE rest == IF Pops THEN Tail(prefetch) ELSE prefetch
    <3>2. rest \in Seq(SUBSET Bit) /\ Len(rest) = n - p
      BY <3>1
    <3>3. prefetch' = IF bramRead[2] # None THEN Append(rest, bramRead[2]) ELSE rest
      BY <1>2, StreamStep
    <3>4. bramRead[2] \in Option(SUBSET Bit)
      BY DEF TypeOK
    <3> HIDE DEF rest, n, p
    <3>5. CASE bramRead[2] = None
      BY <2>1, <3>2, <3>3, <3>5 DEF Held, n, p
    <3>6. CASE bramRead[2] # None
      <4>1. Len(Append(rest, bramRead[2])) = Len(rest) + 1
        BY <3>2, <3>4, <3>6 DEF Option
      <4> QED
        BY <2>1, <3>2, <3>3, <3>6, <4>1 DEF Held, n, p
    <3> QED
      BY <3>5, <3>6
  <2>4. Held(bramRead'[2]) = h1 /\ Held(bramRead'[1]) = Asked
    BY <1>2, StreamStep
  <2>5. Requested' = Requested + a9 /\ Popped' = Popped + p
    BY <1>2, StreamStep
  <2>6. a9 = 1 => n < PREFETCH_FULL
    BY <1>2, StreamStep, Sizes, <2>1 DEF PrefetchFull
  <2>7. OnTheWay = n + h2 + h1 + Asked /\ OnTheWay' = n9 + Held(bramRead'[2]) + Held(bramRead'[1]) + a9
    BY DEF OnTheWay
  <2>8. OnTheWay <= PREFETCH_FULL + 3
    BY DEF Counting
  <2>9. PREFETCH_FULL \in Nat
    BY Sizes
  <2> HIDE DEF p, n, h1, h2, n9, a9
  <2>10. OnTheWay' = OnTheWay + a9 - p
    BY <2>1, <2>2, <2>3, <2>4, <2>7
  <2>11. OnTheWay' <= PREFETCH_FULL + 3
    <3>1. CASE a9 = 0
      BY <2>1, <2>7, <2>8, <2>9, <2>10, <3>1
    <3>2. CASE a9 = 1
      BY <2>1, <2>6, <2>7, <2>9, <2>10, <3>2
    <3> QED
      BY <2>2, <3>1, <3>2
  <2>12. OnTheWay \in Nat
    BY RoomForLine
  <2>13. Requested' = Popped' + OnTheWay'
    BY <2>1, <2>2, <2>5, <2>10, <2>12
  <2> QED
    BY <2>11, <2>13 DEF Counting
<1> QED
  BY <1>1, <1>2

-----------------------------------------------------------------------------
(* The vertex that is sent.                                                *)
LEMMA LowestBit ==
  ASSUME TypeOK, HasBit
  PROVE  /\ active_vertex_index \in local_vis_bitmap_now /\ active_vertex_index \in Bit
         /\ \A d \in local_vis_bitmap_now : active_vertex_index <= d
         /\ local_vis_bitmap_index \in Line /\ ActiveId \in Nat
<1>1. local_vis_bitmap_now \subseteq Bit /\ local_vis_bitmap_index \in Line
  BY DEF TypeOK
<1>2. Bit \subseteq Nat /\ Line \subseteq Nat
  BY Sizes DEF Bit, Line
<1>3. local_vis_bitmap_now \subseteq Nat /\ local_vis_bitmap_now # {}
  BY <1>1, <1>2 DEF HasBit
<1>4. \E b \in local_vis_bitmap_now : \A d \in local_vis_bitmap_now : b <= d
  BY <1>3, LeastExists
<1>5. /\ active_vertex_index \in local_vis_bitmap_now
      /\ \A d \in local_vis_bitmap_now : active_vertex_index <= d
  BY <1>4 DEF active_vertex_index
<1>6. local_vis_bitmap_index \in Nat /\ active_vertex_index \in Nat
  BY <1>1, <1>2, <1>5
<1>7. local_vis_bitmap_index * BITMAP_COMPRESSED_LENGTH \in Nat
  BY <1>6, Sizes
<1>8. ActiveId \in Nat
  BY <1>6, <1>7 DEF ActiveId
<1> QED
  BY <1>1, <1>5, <1>8

LEMMA SentType ==
  ASSUME TypeOK, SendVertex
  PROVE  active_v_id' \in Option(Vertex)
<1>1. CASE HasBit /\ ActiveId < VTX_NUM
  <2>1. ActiveId \in Vertex
    BY <1>1, LowestBit, Sizes DEF Vertex
  <2> QED
    BY <2>1 DEF SendVertex, Option
<1>2. CASE ~(HasBit /\ ActiveId < VTX_NUM)
  BY <1>2 DEF SendVertex, Option
<1> QED
  BY <1>1, <1>2

LEMMA MarkFacts ==
  ASSUME NoneIsNew, NEW mark \in MarkInput
  PROVE  /\ mark # None => /\ mark.id \in Vertex /\ mark.updated \in BOOLEAN
                           /\ ~backEnd[STAGES]
  BY InEdgesAssumption DEF MarkInput, Mark, Option

(* The place of a vertex in the bitmaps, and back.                         *)
LEMMA PlaceOf ==
  ASSUME NEW v \in Vertex
  PROVE  /\ v \in Nat /\ LineOf(v) \in Line /\ BitOf(v) \in Bit
         /\ v = LineOf(v) * BITMAP_COMPRESSED_LENGTH + BitOf(v)
<1> DEFINE N == BITMAP_COMPRESSED_LENGTH
           M == bitmap_compressed_num
<1>1. N \in Nat \ {0} /\ M \in Nat \ {0} /\ VTX_NUM \in Nat /\ VTX_NUM \in 0 .. M * N
  BY Sizes, WidthAssumption
<1>2. v \in Nat /\ v < VTX_NUM
  BY <1>1 DEF Vertex
<1> HIDE DEF N, M
<1>3. M * N \in Int
  BY <1>1
<1>4. v < M * N
  BY <1>1, <1>2, <1>3
<1>5. v \div N \in Nat /\ v \div N < M
  BY <1>1, <1>2, <1>4, QuotientBound
<1>6. v % N \in 0 .. N - 1 /\ v = (v \div N) * N + (v % N)
  BY <1>1, <1>2, Digits
<1> QED
  BY <1>1, <1>2, <1>5, <1>6 DEF N, M, LineOf, BitOf, Line, Bit

LEMMA IdPlace ==
  ASSUME NEW l \in Line, NEW b \in Bit
  PROVE  LET id == l * BITMAP_COMPRESSED_LENGTH + b IN
         id \in Nat /\ LineOf(id) = l /\ BitOf(id) = b
                /\ id < bitmap_compressed_num * BITMAP_COMPRESSED_LENGTH
<1> DEFINE N == BITMAP_COMPRESSED_LENGTH
           M == bitmap_compressed_num
<1>1. N \in Nat \ {0} /\ M \in Nat \ {0} /\ l \in 0 .. M - 1 /\ b \in 0 .. N - 1
  BY Sizes DEF Line, Bit
<1> HIDE DEF N, M
<1>2. (l * N + b) % N = b /\ (l * N + b) \div N = l
  BY <1>1, DigitsUnique
<1>3. l * N \in Nat
  BY <1>1
<1>4. M * N >= (l + 1) * N /\ (l + 1) * N = l * N + N
  BY <1>1, ProductMonotone
<1>5. l * N + b \in Nat /\ l * N + b < M * N
  BY <1>1, <1>3, <1>4
<1> QED
  BY <1>2, <1>5 DEF N, M, LineOf, BitOf

LEMMA PlaceOrder ==
  ASSUME NEW v \in Vertex, NEW w \in Vertex,
         \/ LineOf(v) < LineOf(w)
         \/ LineOf(v) = LineOf(w) /\ BitOf(v) <= BitOf(w)
  PROVE  v <= w
<1> DEFINE L == BITMAP_COMPRESSED_LENGTH
           a == LineOf(v)
           b == LineOf(w)
           x == BitOf(v)
           y == BitOf(w)
<1>1. /\ L \in Nat \ {0} /\ a \in Nat /\ b \in Nat /\ x \in 0 .. L - 1 /\ y \in 0 .. L - 1
      /\ v = a * L + x /\ w = b * L + y
  BY PlaceOf, Sizes DEF Line, Bit
<1>2. a < b \/ (a = b /\ x <= y)
  OBVIOUS
<1> HIDE DEF L, a, b, x, y
<1>3. a * L \in Nat /\ b * L \in Nat
  BY <1>1
<1>4. CASE a < b
  <2>1. b * L >= (a + 1) * L
    BY <1>1, <1>4, ProductMonotone
  <2>2. (a + 1) * L = a * L + L
    BY <1>1
  <2> QED
    BY <1>1, <1>3, <2>1, <2>2
<1>5. CASE a = b /\ x <= y
  BY <1>1, <1>3, <1>5
<1> QED
  BY <1>2, <1>4, <1>5

LEMMA BitmapStep ==
  ASSUME NoneIsNew, TypeOK, NEW mark \in MarkInput, UpdateBitmap(mark)
  PROVE  /\ vis_bitmap' \in [0 .. 1 -> [Line -> SUBSET Bit]]
         /\ vis_bitmap'[now_bitmap_id] = Cleared /\ vis_bitmap'[next_bitmap_id] = Marked(mark)
         /\ Cleared \in [Line -> SUBSET Bit]
         /\ Marked(mark) \in [Line -> SUBSET Bit]
<1> DEFINE now == vis_bitmap[now_bitmap_id]
           next == vis_bitmap[next_bitmap_id]
<1>1. now \in [Line -> SUBSET Bit] /\ next \in [Line -> SUBSET Bit]
  BY ParityIds DEF TypeOK
<1>2. Cleared \in [Line -> SUBSET Bit]
  BY <1>1 DEF Cleared
<1>3. Marked(mark) \in [Line -> SUBSET Bit]
  <2>1. CASE mark = None
    BY <1>1, <2>1 DEF Marked
  <2>2. CASE mark # None
    <3>1. LineOf(mark.id) \in Line /\ BitOf(mark.id) \in Bit
      BY <2>2, MarkFacts, PlaceOf
    <3> QED
      BY <1>1, <2>2, <3>1 DEF Marked
  <2> QED
    BY <2>1, <2>2
<1>4. vis_bitmap' = [p \in 0 .. 1 |-> IF p = now_bitmap_id THEN Cleared ELSE Marked(mark)]
  BY DEF UpdateBitmap
<1> QED
  BY <1>2, <1>3, <1>4, ParityIds

(* What is read stays within the lines of the graph.                       *)
LEMMA ReadType ==
  ASSUME NoneIsNew, ReadInv, ManageIteration, PrefetchLine, ReadBlockRam, ReadLine
  PROVE  /\ prefetch_addr' \in Line \union {AllOnes} /\ prefetch_valid' \in BOOLEAN
         /\ bramRead' \in [1 .. 2 -> Option(SUBSET Bit)] /\ prefetch' \in Seq(SUBSET Bit)
         /\ local_vis_bitmap_now' \in SUBSET Bit /\ local_vis_bitmap_index' \in Line
         /\ local_vis_bitmap_index_lock' \in BOOLEAN
<1> USE DEF ReadInv
<1>1. prefetch_valid' \in BOOLEAN
  BY DEF PrefetchLine
<1>2. local_vis_bitmap_index_lock' \in BOOLEAN
  BY DEF ReadLine
<1>3. CASE Idle \/ iteration_change_flag
  <2>1. Unread' /\ local_vis_bitmap_index' = 0
    BY <1>3, ResetStep
  <2>2. bramRead' = [i \in 1 .. 2 |-> bramRead'[i]]
    <3>1. CASE Idle
      BY <3>1 DEF ReadBlockRam
    <3>2. CASE ~Idle
      BY <3>2 DEF ReadBlockRam
    <3> QED
      BY <3>1, <3>2
  <2>3. bramRead'[1] = None /\ bramRead'[2] = None
    BY <2>1 DEF Unread, Quiet
  <2>4. bramRead' \in [1 .. 2 -> Option(SUBSET Bit)]
    BY <2>2, <2>3 DEF Option
  <2> QED
    BY <1>1, <1>2, <2>1, <2>4, Sizes DEF Unread, Quiet, Line
<1>4. CASE ~Idle /\ ~iteration_change_flag
  <2>1. /\ bramRead' \in [1 .. 2 -> Option(SUBSET Bit)] /\ prefetch_addr' \in Line \union {AllOnes}
        /\ prefetch \in Seq(SUBSET Bit)
    BY <1>4, StreamStep
  <2>8. bramRead[2] \in Option(SUBSET Bit)
    BY DEF TypeOK
  <2>2. Pops => prefetch # <<>>
    BY DEF Pops
  <2> DEFINE rest == IF Pops THEN Tail(prefetch) ELSE prefetch
  <2>3. rest \in Seq(SUBSET Bit)
    BY <2>1, <2>2
  <2>4. prefetch' = IF bramRead[2] # None THEN Append(rest, bramRead[2]) ELSE rest
    BY <1>4, StreamStep
  <2> HIDE DEF rest
  <2>5. prefetch' \in Seq(SUBSET Bit)
    BY <2>3, <2>4, <2>8 DEF Option
  <2>6. local_vis_bitmap_now' \in SUBSET Bit
    <3>1. Pops => Head(prefetch) \in SUBSET Bit
      BY <2>1, <2>2
    <3>2. local_vis_bitmap_now \in SUBSET Bit
      BY DEF TypeOK
    <3> QED
      BY <1>4, <3>1, <3>2 DEF ReadLine
  <2>7. local_vis_bitmap_index' \in Line
    <3>1. CASE ~Pops
      BY <1>4, <3>1, StreamStep DEF TypeOK
    <3>2. CASE Pops
      <4>1. Popped + 1 = local_vis_bitmap_index' + 1
        BY <1>4, <3>2, StreamStep
      <4>2. Popped < bitmap_compressed_num /\ Popped \in Nat
        <5>1. Len(prefetch) > 0
          BY <2>1, <3>2 DEF Pops
        <5>2. OnTheWay > 0
          BY <5>1, RoomForLine DEF OnTheWay
        <5> QED
          BY <5>2, RoomForLine, NextLine, Sizes
      <4>3. local_vis_bitmap_index' \in Int
        BY <1>4, <3>2, Sizes DEF ReadLine, TypeOK, Line
      <4>4. local_vis_bitmap_index' = Popped
        <5>1. \A i \in Int, n \in Nat : n + 1 = i + 1 => i = n
          OBVIOUS
        <5> QED
          BY <4>1, <4>2, <4>3, <5>1
      <4> QED
        BY <4>2, <4>4, Sizes DEF Line
    <3> QED
      BY <3>1, <3>2
  <2> QED
    BY <1>1, <1>2, <2>1, <2>5, <2>6, <2>7
<1> QED
  BY <1>3, <1>4

LEMMA TypeStep ==
  ASSUME NoneIsNew, ReadInv, NEW mark \in MarkInput, NEW drained \in SUBSET Waiting,
         NEW full \in BOOLEAN, Tick(mark, drained, full)
  PROVE  TypeOK'
<1> USE DEF ReadInv
<1>1. /\ ManageIteration /\ SendVertex /\ PrefetchLine /\ ReadBlockRam /\ ReadLine
      /\ UpdateBitmap(mark) /\ PassEnd(drained) /\ Environment(full)
  BY DEF Tick
<1>2. /\ local_iteration_id' \in IterationId /\ iteration_end' \in BOOLEAN
      /\ iteration_lock' \in BOOLEAN
  BY <1>1, CountStep DEF TypeOK, ManageIteration
<1>3. local_init_bitmap_id' \in 0 .. bitmap_compressed_num
  BY <1>1, Sizes DEF TypeOK, ManageIteration, Initialising
<1>4. vis_bitmap' \in [0 .. 1 -> [Line -> SUBSET Bit]]
  BY <1>1, BitmapStep
<1>5. active_v_id' \in Option(Vertex)
  BY <1>1, SentType
<1>6. next_stage_full' \in BOOLEAN /\ busy' \in BOOLEAN
  BY <1>1 DEF Environment
<1>7. backEnd' \in [Stage -> BOOLEAN] /\ backId' \in [Stage -> IterationId]
  <2>1. \A s \in Stage : FrontId(s) \in IterationId
    <3> SUFFICES ASSUME NEW s \in Stage PROVE FrontId(s) \in IterationId
      OBVIOUS
    <3>1. s # 1 => s - 1 \in Stage
      BY Sizes DEF Stage
    <3> QED
      BY <3>1 DEF FrontId, TypeOK
  <2>2. /\ backId' = [s \in Stage |-> FrontId(s)]
        /\ backEnd' = [s \in Stage |-> FrontEnd(s) /\ (backEnd[s] \/ s \in drained)]
    BY <1>1 DEF PassEnd
  <2> QED
    BY <2>1, <2>2
<1>8. (LET waiting == Len(prefetch) + (IF bramRead[1] # None THEN 1 ELSE 0)
                                    + (IF bramRead[2] # None THEN 1 ELSE 0)
       IN waiting + (IF prefetch_valid THEN 1 ELSE 0) <= PREFETCH_SIZE)'
  <2>1. OnTheWay' <= PREFETCH_FULL + 3 /\ PREFETCH_FULL + 3 <= PREFETCH_SIZE
        /\ PREFETCH_FULL \in Nat /\ PREFETCH_SIZE \in Nat
    BY <1>1, CountingStep, Sizes DEF Counting
  <2>2. Len(prefetch') \in Nat
    BY <1>1, ReadType
  <2> DEFINE a == IF bramRead'[1] # None THEN 1 ELSE 0
             b == IF bramRead'[2] # None THEN 1 ELSE 0
             c == IF prefetch_valid' THEN 1 ELSE 0
  <2>3. OnTheWay' = Len(prefetch') + b + a + c
    BY DEF OnTheWay, Held, Asked
  <2>4. a \in 0 .. 1 /\ b \in 0 .. 1 /\ c \in 0 .. 1
    OBVIOUS
  <2> SUFFICES Len(prefetch') + a + b + c <= PREFETCH_SIZE
    OBVIOUS
  <2> HIDE DEF a, b, c
  <2> QED
    BY <2>1, <2>2, <2>3, <2>4
<1>9. /\ prefetch_addr' \in Line \union {AllOnes} /\ prefetch_valid' \in BOOLEAN
      /\ bramRead' \in [1 .. 2 -> Option(SUBSET Bit)] /\ prefetch' \in Seq(SUBSET Bit)
      /\ local_vis_bitmap_now' \in SUBSET Bit /\ local_vis_bitmap_index' \in Line
      /\ local_vis_bitmap_index_lock' \in BOOLEAN
  BY <1>1, ReadType
<1> QED
  BY <1>2, <1>3, <1>4, <1>5, <1>6, <1>7, <1>8, <1>9 DEF TypeOK

LEMMA InitInv ==
  ASSUME NoneIsNew, Init
  PROVE  ReadInv
<1> USE Sizes DEF Init
<1>1. TypeOK
  <2>1. 0 \in IterationId /\ 0 \in Line /\ 0 \in 0 .. bitmap_compressed_num
    BY DEF IterationId, Line
  <2>2. vis_bitmap \in [0 .. 1 -> [Line -> SUBSET Bit]]
    OBVIOUS
  <2>3. prefetch \in Seq(SUBSET Bit) /\ Len(prefetch) = 0
    OBVIOUS
  <2>4. bramRead \in [1 .. 2 -> Option(SUBSET Bit)] /\ bramRead[1] = None /\ bramRead[2] = None
    BY DEF Option
  <2>5. /\ backEnd \in [Stage -> BOOLEAN] /\ backId \in [Stage -> IterationId]
        /\ active_v_id \in Option(Vertex)
    BY <2>1 DEF Option
  <2>6. /\ local_iteration_id \in IterationId /\ iteration_end \in BOOLEAN
        /\ iteration_lock \in BOOLEAN /\ local_init_bitmap_id \in 0 .. bitmap_compressed_num
        /\ prefetch_addr \in Line \union {AllOnes} /\ prefetch_valid = FALSE
        /\ local_vis_bitmap_now \in SUBSET Bit /\ local_vis_bitmap_index \in Line
        /\ local_vis_bitmap_index_lock \in BOOLEAN
        /\ next_stage_full \in BOOLEAN /\ busy \in BOOLEAN
    BY <2>1
  <2>7. PREFETCH_SIZE \in Nat
    OBVIOUS
  <2>8. LET waiting == Len(prefetch) + (IF bramRead[1] # None THEN 1 ELSE 0)
                                     + (IF bramRead[2] # None THEN 1 ELSE 0)
        IN waiting + (IF prefetch_valid THEN 1 ELSE 0) <= PREFETCH_SIZE
    BY ONLY <2>3, <2>4, <2>6, <2>7
  <2> QED
    BY ONLY <2>2, <2>3, <2>4, <2>5, <2>6, <2>8 DEF TypeOK
<1>2. Counting
  <2>1. Len(prefetch) = 0 /\ Held(bramRead[1]) = 0 /\ Held(bramRead[2]) = 0 /\ Asked = 0
    BY DEF Held, Asked
  <2>2. Requested = 0 /\ Popped = 0
    BY DEF Requested, Popped
  <2> QED
    BY <2>1, <2>2 DEF Counting, OnTheWay
<1>3. Rest
  BY DEF Rest, Unread, Quiet
<1>4. Chain
  <2>1. \A s \in Stage : s <= STAGES
    BY DEF Stage
  <2> QED
    BY <2>1 DEF Chain
<1> QED
  BY <1>1, <1>2, <1>3, <1>4 DEF ReadInv

LEMMA NextInv ==
  ASSUME NoneIsNew, ReadInv, [Next]_vars
  PROVE  ReadInv'
<1>1. CASE Next
  <2>1. PICK mark \in MarkInput, drained \in SUBSET Waiting, full \in BOOLEAN :
          Tick(mark, drained, full)
    BY <1>1 DEF Next
  <2>2. ManageIteration /\ PrefetchLine /\ ReadBlockRam /\ ReadLine /\ PassEnd(drained)
    BY <2>1 DEF Tick
  <2>3. TypeOK'
    BY <2>1, TypeStep
  <2>4. Counting' /\ Rest'
    BY <2>2, CountingStep, RestStep
  <2>5. Chain'
    BY <2>2, ChainStep DEF ReadInv
  <2> QED
    BY <2>3, <2>4, <2>5 DEF ReadInv
<1>2. CASE UNCHANGED vars
  <2> USE <1>2 DEF ReadInv, vars, iteration, reading
  <2>1. TypeOK'
    BY DEF TypeOK
  <2>2. Counting'
    BY DEF Counting, Requested, Popped, OnTheWay, Held, Asked
  <2>3. Rest'
    BY DEF Rest, Idle, Initialising, iteration_done, Unread, Finished, Quiet
  <2>4. Chain'
    BY DEF Chain
  <2> QED
    BY <2>1, <2>2, <2>3, <2>4
<1> QED
  BY <1>1, <1>2

LEMMA ReadInvHolds ==
  ASSUME NoneIsNew
  PROVE  Spec => []ReadInv
<1>1. Init => ReadInv
  BY InitInv
<1>2. ReadInv /\ [Next]_vars => ReadInv'
  BY NextInv
<1> QED
  BY <1>1, <1>2, PTL DEF Spec

(* However many lines, vertices and iterations there are: the FIFO has     *)
(* room for the lines that are on their way when it says that it is full,  *)
(* and no line beyond the last one of the graph is read.                   *)
THEOREM TypeCorrect ==
  ASSUME NoneIsNew
  PROVE  Spec => []TypeOK
<1>1. ReadInv => TypeOK
  BY DEF ReadInv
<1> QED
  BY <1>1, ReadInvHolds, PTL

(* The bitmap is read again from the first line exactly when the iteration *)
(* counts up (M01_rd_active_vertex.v): an end that still stands in the     *)
(* stages behind is that of the iteration before.                          *)
THEOREM InStepHolds ==
  ASSUME NoneIsNew
  PROVE  Spec => InStep
<1> DEFINE Exactly == iteration_change_flag <=> local_iteration_id' # local_iteration_id
<1>1. ReadInv /\ [Next]_vars => [Exactly]_vars
  <2> SUFFICES ASSUME ReadInv, Next PROVE Exactly
    OBVIOUS
  <2>1. ManageIteration
    BY DEF Next, Tick
  <2> QED
    BY <2>1, CountStep DEF ReadInv
<1> QED
  BY <1>1, ReadInvHolds, PTL DEF Spec, InStep

-----------------------------------------------------------------------------
(***************************************************************************)
(* The refinement.  The address of the bit that is cleared has the width   *)
(* of the index of a line: all that follows is about graphs whose vertices *)
(* it can number (with 32 vertices to a line, 64 lines of the 1024).       *)
(***************************************************************************)
FitsIndex == bitmap_compressed_num * BITMAP_COMPRESSED_LENGTH <= IndexRange

Bits(l) == vis_bitmap[now_bitmap_id][l]

(* The lines on their way are still those of the block RAM, in order.      *)
Content ==
  /\ \A i \in 1 .. Len(prefetch) : prefetch[i] = Bits(Popped + i - 1)
  /\ bramRead[2] # None => bramRead[2] = Bits(Popped + Len(prefetch))
  /\ bramRead[1] # None => bramRead[1] = Bits(Popped + Len(prefetch) + Held(bramRead[2]))

(* What has been sent is clear, and of the line that is sent so is what    *)
(* has been taken from it.                                                 *)
SentClear ==
  ~local_vis_bitmap_index_lock =>
    /\ \A l \in Line : l < local_vis_bitmap_index => Bits(l) = {}
    /\ Bits(local_vis_bitmap_index) \subseteq local_vis_bitmap_now

SendInv == ReadInv /\ Content /\ SentClear

(* The write to the block RAM reaches the bit that is sent, and no other.  *)
LEMMA ClearedLine ==
  ASSUME FitsIndex, TypeOK, NEW l \in Line
  PROVE  Cleared[l] = IF HasBit /\ l = local_vis_bitmap_index
                      THEN Bits(l) \ {active_vertex_index} ELSE Bits(l)
<1>1. vis_bitmap[now_bitmap_id] \in [Line -> SUBSET Bit]
  BY ParityIds DEF TypeOK
<1>2. CASE ~HasBit
  BY <1>2 DEF Cleared, Bits
<1>3. CASE HasBit
  <2>1. active_vertex_index \in Bit /\ local_vis_bitmap_index \in Line
    BY <1>3, LowestBit
  <2>2. /\ ActiveId \in Nat /\ LineOf(ActiveId) = local_vis_bitmap_index
        /\ BitOf(ActiveId) = active_vertex_index
        /\ ActiveId < bitmap_compressed_num * BITMAP_COMPRESSED_LENGTH
    BY <2>1, IdPlace DEF ActiveId
  <2>3. ActiveId < IndexRange /\ IndexRange \in Nat
    <3>1. bitmap_compressed_num * BITMAP_COMPRESSED_LENGTH \in Nat
      BY Sizes
    <3> QED
      BY <2>2, <3>1, Sizes DEF FitsIndex
  <2>4. ClearAddress = ActiveId
    BY <2>2, <2>3 DEF ClearAddress
  <2> QED
    BY <1>1, <1>3, <2>1, <2>2, <2>4 DEF Cleared, Bits
<1> QED
  BY <1>2, <1>3

(* The two block RAMs change places when the iteration counts up.          *)
LEMMA BankStep ==
  ASSUME ReadInv, ManageIteration
  PROVE  /\ ~iteration_change_flag => /\ now_bitmap_id' = now_bitmap_id
                                      /\ next_bitmap_id' = next_bitmap_id
         /\ iteration_change_flag => /\ now_bitmap_id' = next_bitmap_id
                                     /\ next_bitmap_id' = now_bitmap_id
<1>1. local_iteration_id \in IterationId
  BY DEF ReadInv, TypeOK
<1>2. CASE ~iteration_change_flag
  <2>1. local_iteration_id' = local_iteration_id
    BY <1>2, CountStep DEF ReadInv
  <2> QED
    BY <1>2, <2>1 DEF now_bitmap_id, next_bitmap_id
<1>3. CASE iteration_change_flag
  <2>1. local_iteration_id' = (local_iteration_id + 1) % 2 ^ ITERATION_WIDTH
    BY <1>3, CountStep DEF ReadInv, NextIterationId
  <2> QED
    BY <1>1, <1>3, <2>1, CountUp DEF now_bitmap_id, next_bitmap_id
<1> QED
  BY <1>2, <1>3

LEMMA BitsStep ==
  ASSUME NoneIsNew, FitsIndex, ReadInv, NEW mark \in MarkInput,
         ManageIteration, UpdateBitmap(mark), ~iteration_change_flag, NEW l \in Line
  PROVE  Bits(l)' = IF HasBit /\ l = local_vis_bitmap_index
                    THEN Bits(l) \ {active_vertex_index} ELSE Bits(l)
<1>1. TypeOK
  BY DEF ReadInv
<1>2. now_bitmap_id' = now_bitmap_id
  BY BankStep
<1>3. vis_bitmap'[now_bitmap_id] = Cleared
  BY <1>1, BitmapStep
<1>4. Bits(l)' = Cleared[l]
  BY <1>2, <1>3 DEF Bits
<1> QED
  BY <1>1, <1>4, ClearedLine

(* Only the line that is sent is written to in this block RAM.             *)
LEMMA LaterLines ==
  ASSUME NoneIsNew, FitsIndex, ReadInv, NEW mark \in MarkInput,
         ManageIteration, UpdateBitmap(mark), ~iteration_change_flag,
         NEW l \in Nat, Popped <= l, l < Requested
  PROVE  Bits(l)' = Bits(l)
<1>1. l \in Line
  BY NextLine, Sizes DEF ReadInv, Line
<1>2. HasBit => l # local_vis_bitmap_index
  <2>1. HasBit => Popped = local_vis_bitmap_index + 1
    BY DEF ReadInv, Rest, HasBit, Popped
  <2>2. local_vis_bitmap_index \in Nat
    BY Sizes DEF ReadInv, TypeOK, Line
  <2> QED
    BY <2>1, <2>2
<1> QED
  BY <1>1, <1>2, BitsStep

(* A FIFO whose lines are numbered from p, when the first one is taken or  *)
(* the next one arrives.                                                   *)
LEMMA TakeFirst ==
  ASSUME NEW S, NEW q \in Seq(S), q # <<>>, NEW f, NEW p \in Nat,
         \A i \in 1 .. Len(q) : q[i] = f[p + i - 1]
  PROVE  /\ Tail(q) \in Seq(S) /\ Len(Tail(q)) = Len(q) - 1 /\ Len(q) \in Nat \ {0}
         /\ \A i \in 1 .. Len(Tail(q)) : Tail(q)[i] = f[p + 1 + i - 1]
         /\ Head(q) = f[p] /\ Head(q) \in S
<1>1. Tail(q) \in Seq(S) /\ Len(Tail(q)) = Len(q) - 1 /\ Len(q) \in Nat \ {0} /\ Head(q) \in S
  OBVIOUS
<1>2. \A i \in 1 .. Len(Tail(q)) : Tail(q)[i] = q[i + 1] /\ i + 1 \in 1 .. Len(q)
  BY <1>1
<1>3. \A i \in 1 .. Len(Tail(q)) : p + (i + 1) - 1 = p + 1 + i - 1
  OBVIOUS
<1>4. Head(q) = q[1] /\ 1 \in 1 .. Len(q) /\ p + 1 - 1 = p
  BY <1>1
<1>5. Head(q) = f[p]
  BY <1>4
<1>6. ASSUME NEW i \in 1 .. Len(Tail(q)) PROVE Tail(q)[i] = f[p + 1 + i - 1]
  <2>1. Tail(q)[i] = f[p + (i + 1) - 1]
    BY <1>2
  <2> QED
    BY <1>3, <2>1
<1> QED
  BY <1>1, <1>5, <1>6

LEMMA AddLast ==
  ASSUME NEW S, NEW q \in Seq(S), NEW e \in S, NEW f, NEW p \in Nat,
         \A i \in 1 .. Len(q) : q[i] = f[p + i - 1], e = f[p + Len(q)]
  PROVE  /\ Len(Append(q, e)) = Len(q) + 1
         /\ \A i \in 1 .. Len(Append(q, e)) : Append(q, e)[i] = f[p + i - 1]
<1>1. Len(q) \in Nat /\ Len(Append(q, e)) = Len(q) + 1
  OBVIOUS
<1>2. ASSUME NEW i \in 1 .. Len(q) + 1 PROVE Append(q, e)[i] = f[p + i - 1]
  <2>1. CASE i = Len(q) + 1
    <3>1. p + i - 1 = p + Len(q) /\ Append(q, e)[i] = e
      BY <1>1, <2>1
    <3> QED
      BY <3>1
  <2>2. CASE i \in 1 .. Len(q)
    BY <2>2
  <2> QED
    BY <1>1, <2>1, <2>2
<1> QED
  BY <1>1, <1>2

(* Three registers follow one another: their numbers are those of the      *)
(* lines they hold.                                                        *)
LEMMA ContentStep ==
  ASSUME NoneIsNew, FitsIndex, ReadInv, Content, NEW mark \in MarkInput,
         ManageIteration, PrefetchLine, ReadBlockRam, ReadLine, UpdateBitmap(mark)
  PROVE  Content'
<1>1. CASE Idle \/ iteration_change_flag
  <2>1. Unread'
    BY <1>1, ResetStep
  <2>2. prefetch' = <<>> /\ bramRead'[1] = None /\ bramRead'[2] = None
    BY <2>1 DEF Unread, Quiet
  <2> QED
    BY <2>2 DEF Content
<1>2. CASE ~Idle /\ ~iteration_change_flag
  <2> DEFINE f == vis_bitmap[now_bitmap_id]
             g == vis_bitmap'[now_bitmap_id']
             n == Len(prefetch)
             h1 == Held(bramRead[1])
             h2 == Held(bramRead[2])
             p == Popped
             rest == IF Pops THEN Tail(prefetch) ELSE prefetch
             p2 == Popped'
  <2>1. /\ prefetch \in Seq(SUBSET Bit)
        /\ prefetch' = IF bramRead[2] # None THEN Append(rest, bramRead[2]) ELSE rest
        /\ bramRead'[2] = bramRead[1] /\ Held(bramRead'[1]) = Asked
        /\ bramRead'[1] # None => bramRead'[1] = f[Requested - 1]
        /\ p2 = p + (IF Pops THEN 1 ELSE 0)
    BY <1>2, StreamStep
  <2>2. /\ n \in Nat /\ h1 \in 0 .. 1 /\ h2 \in 0 .. 1 /\ Asked \in 0 .. 1
        /\ p \in Nat /\ Requested = p + (n + h2 + h1 + Asked)
    BY RoomForLine DEF ReadInv, Counting, OnTheWay
  <2>3. \A l \in Nat : p <= l /\ l < Requested => g[l] = f[l]
    BY <1>2, LaterLines DEF Bits
  <2>4. /\ \A i \in 1 .. n : prefetch[i] = f[p + i - 1]
        /\ bramRead[2] # None => bramRead[2] = f[p + n]
        /\ bramRead[1] # None => bramRead[1] = f[p + n + h2]
    BY DEF Content, Bits
  <2>5. /\ bramRead[2] \in Option(SUBSET Bit)
        /\ h1 = (IF bramRead[1] = None THEN 0 ELSE 1)
        /\ h2 = (IF bramRead[2] = None THEN 0 ELSE 1)
        /\ Asked = (IF bramRead'[1] = None THEN 0 ELSE 1)
        /\ Held(bramRead'[2]) = h1
    BY <2>1 DEF ReadInv, TypeOK, Held
  <2>6. Pops => prefetch # <<>>
    BY DEF Pops
  <2> DEFINE m == Len(rest)
  <2>13. n = Len(prefetch) /\ Popped = p
    OBVIOUS
  <2>14. \A i \in 1 .. Len(prefetch) : prefetch[i] = f[p + i - 1]
    BY <2>4
  <2>15. p2 = IF Pops THEN p + 1 ELSE p
    BY <2>1, <2>2
  <2> HIDE DEF f, g, n, p, p2, h1, h2
  <2>7. /\ rest \in Seq(SUBSET Bit) /\ m \in Nat /\ p2 \in Nat /\ p2 >= p /\ p2 + m = p + n
        /\ \A i \in 1 .. m : rest[i] = f[p2 + i - 1]
    <3>1. CASE Pops
      <4>1. /\ Tail(prefetch) \in Seq(SUBSET Bit) /\ Len(Tail(prefetch)) = Len(prefetch) - 1
            /\ Len(prefetch) \in Nat \ {0}
            /\ \A i \in 1 .. Len(Tail(prefetch)) : Tail(prefetch)[i] = f[p + 1 + i - 1]
        BY <2>1, <2>2, <2>14, <2>6, <3>1, TakeFirst
      <4>2. rest = Tail(prefetch) /\ p2 = p + 1
        BY <2>15, <3>1
      <4>3. \A i \in 1 .. m : rest[i] = f[p2 + i - 1]
        BY <4>1, <4>2
      <4>4. m = n - 1 /\ n \in Nat \ {0}
        BY <2>13, <4>1, <4>2
      <4>5. rest \in Seq(SUBSET Bit)
        BY <4>1, <4>2
      <4> HIDE DEF m, rest
      <4>6. p2 = p + 1 /\ p \in Nat
        BY <2>2, <4>2
      <4>7. m \in Nat /\ p2 \in Nat /\ p2 >= p /\ p2 + m = p + n
        BY ONLY <4>4, <4>6
      <4> QED
        BY ONLY <4>3, <4>5, <4>7
    <3>2. CASE ~Pops
      <4>1. rest = prefetch /\ p2 = p /\ m = n
        BY <2>13, <2>15, <3>2
      <4>2. \A i \in 1 .. m : rest[i] = f[p2 + i - 1]
        BY <2>13, <2>14, <4>1
      <4>3. rest \in Seq(SUBSET Bit)
        BY <2>1, <4>1
      <4> HIDE DEF m, rest
      <4>4. p2 = p /\ m = n /\ p \in Nat /\ n \in Nat
        BY <2>2, <4>1
      <4>5. m \in Nat /\ p2 \in Nat /\ p2 >= p /\ p2 + m = p + n
        BY ONLY <4>4
      <4> QED
        BY ONLY <4>2, <4>3, <4>5
    <3> QED
      BY <3>1, <3>2
  <2> HIDE DEF rest
  <2>8. /\ Len(prefetch') = m + h2
        /\ \A i \in 1 .. Len(prefetch') : prefetch'[i] = f[p2 + i - 1]
    <3>1. CASE bramRead[2] = None
      BY <2>1, <2>5, <2>7, <3>1
    <3>2. CASE bramRead[2] # None
      <4>1. bramRead[2] \in SUBSET Bit /\ bramRead[2] = f[p2 + m]
        BY <2>4, <2>5, <2>7, <3>2 DEF Option
      <4>2. prefetch' = Append(rest, bramRead[2]) /\ h2 = 1
        BY <2>1, <2>5, <3>2
      <4>3. /\ Len(Append(rest, bramRead[2])) = m + 1
            /\ \A i \in 1 .. Len(Append(rest, bramRead[2])) :
                 Append(rest, bramRead[2])[i] = f[p2 + i - 1]
        BY <2>7, <4>1, AddLast
      <4> QED
        BY <4>2, <4>3
    <3> QED
      BY <3>1, <3>2
  <2> HIDE DEF m
  <2>16. bramRead[1] # None => h1 = 1
    BY <2>5
  <2>17. bramRead'[1] # None => Asked = 1
    BY <2>5
  <2>9. /\ \A i \in 1 .. m + h2 : p2 + i - 1 \in Nat /\ p <= p2 + i - 1 /\ p2 + i - 1 < Requested
        /\ bramRead[1] # None => /\ p2 + (m + h2) = p + n + h2
                                 /\ p + n + h2 \in Nat /\ p <= p + n + h2 /\ p + n + h2 < Requested
        /\ bramRead'[1] # None => /\ p2 + (m + h2) + h1 = Requested - 1
                                  /\ Requested - 1 \in Nat /\ p <= Requested - 1
    <3> DEFINE a == Asked
               r == Requested
    <3>1. /\ n \in Nat /\ h1 \in 0 .. 1 /\ h2 \in 0 .. 1 /\ a \in 0 .. 1 /\ p \in Nat
          /\ r = p + (n + h2 + h1 + a)
      BY <2>2
    <3>2. (bramRead[1] # None => h1 = 1) /\ (bramRead'[1] # None => a = 1)
      BY <2>16, <2>17
    <3> HIDE DEF a, r
    <3>3. \A i \in 1 .. m + h2 : p2 + i - 1 \in Nat /\ p <= p2 + i - 1 /\ p2 + i - 1 < r
      BY ONLY <2>7, <3>1
    <3>4. h1 = 1 => /\ p2 + (m + h2) = p + n + h2
                    /\ p + n + h2 \in Nat /\ p <= p + n + h2 /\ p + n + h2 < r
      BY ONLY <2>7, <3>1
    <3>5. a = 1 => /\ p2 + (m + h2) + h1 = r - 1 /\ r - 1 \in Nat /\ p <= r - 1
      BY ONLY <2>7, <3>1
    <3> USE DEF a, r
    <3> QED
      BY <3>2, <3>3, <3>4, <3>5
  <2>10. \A i \in 1 .. Len(prefetch') : prefetch'[i] = g[p2 + i - 1]
    BY <2>3, <2>8, <2>9
  <2>11. bramRead[1] # None => bramRead[1] = g[p2 + Len(prefetch')]
    BY <2>3, <2>4, <2>8, <2>9
  <2>12. bramRead'[1] # None => bramRead'[1] = g[p2 + Len(prefetch') + h1]
    <3> SUFFICES ASSUME bramRead'[1] # None PROVE bramRead'[1] = g[p2 + Len(prefetch') + h1]
      OBVIOUS
    <3>1. Requested - 1 < Requested /\ Requested \in Int
      BY <2>2, <2>9
    <3>2. f[Requested - 1] = g[Requested - 1]
      BY <2>3, <2>9, <3>1
    <3> QED
      BY <2>1, <2>8, <2>9, <3>2
  <2> USE DEF g, p2
  <2> QED
    BY <2>1, <2>5, <2>10, <2>11, <2>12 DEF Content, Bits
<1> QED
  BY <1>1, <1>2

(* The first line of the FIFO is the one after those taken from it.        *)
LEMMA FirstLine ==
  ASSUME NoneIsNew, ReadInv, Content, ~Idle, ~iteration_change_flag, Pops,
         PrefetchLine, ReadBlockRam, ReadLine
  PROVE  /\ local_vis_bitmap_index' = Popped /\ Popped \in Line /\ Popped < Requested
         /\ local_vis_bitmap_now' = Bits(Popped) /\ ~local_vis_bitmap_index_lock'
         /\ local_vis_bitmap_now = {}
<1>1. prefetch # <<>> /\ prefetch \in Seq(SUBSET Bit) /\ local_vis_bitmap_now = {}
  BY StreamStep DEF Pops, HasBit
<1>2. Len(prefetch) \in Nat \ {0}
  BY <1>1
<1>3. Popped \in Nat /\ Popped < Requested /\ Popped \in Line
  <2>1. OnTheWay > 0
    BY <1>2, RoomForLine DEF OnTheWay, ReadInv
  <2> QED
    BY <2>1, RoomForLine, NextLine, Sizes DEF ReadInv, Line
<1>4. Head(prefetch) = Bits(Popped)
  <2> DEFINE f == vis_bitmap[now_bitmap_id]
  <2>1. \A i \in 1 .. Len(prefetch) : prefetch[i] = f[Popped + i - 1]
    BY DEF Content, Bits
  <2> HIDE DEF f
  <2>2. Head(prefetch) = f[Popped]
    BY <1>1, <1>3, <2>1, TakeFirst
  <2> QED
    BY <2>2 DEF f, Bits
<1>5. local_vis_bitmap_now' = Head(prefetch) /\ ~local_vis_bitmap_index_lock'
  BY DEF ReadLine
<1>6. local_vis_bitmap_index' = Popped
  <2>1. Popped' = Popped + 1 /\ Popped' = local_vis_bitmap_index' + 1
    BY StreamStep
  <2>2. local_vis_bitmap_index' \in Int
    BY Sizes DEF ReadLine, ReadInv, TypeOK, Line
  <2>3. \A i \in Int, n \in Nat : n + 1 = i + 1 => i = n
    OBVIOUS
  <2> QED
    BY <1>3, <2>1, <2>2, <2>3
<1> QED
  BY <1>1, <1>3, <1>4, <1>5, <1>6

(* What the next tick makes of the line that is sent.                      *)
LEMMA SendStep ==
  ASSUME TypeOK, ReadLine, ~Idle, ~iteration_change_flag, ~Pops
  PROVE  /\ local_vis_bitmap_index' = local_vis_bitmap_index
         /\ local_vis_bitmap_index_lock' = local_vis_bitmap_index_lock
         /\ local_vis_bitmap_now' = IF HasBit /\ ~next_stage_full
                                    THEN local_vis_bitmap_now \ {active_vertex_index}
                                    ELSE local_vis_bitmap_now
<1>1. local_vis_bitmap_index_lock' = local_vis_bitmap_index_lock
  <2>1. local_vis_bitmap_index_lock' = (local_vis_bitmap_index_lock /\ ~Pops)
    BY DEF ReadLine
  <2>2. local_vis_bitmap_index_lock \in BOOLEAN
    BY DEF TypeOK
  <2> QED
    BY <2>1, <2>2
<1>2. local_vis_bitmap_index' = local_vis_bitmap_index
  BY DEF ReadLine
<1>3. local_vis_bitmap_now' = IF HasBit /\ ~next_stage_full
                              THEN local_vis_bitmap_now \ {active_vertex_index}
                              ELSE local_vis_bitmap_now
  BY DEF ReadLine
<1> QED
  BY <1>1, <1>2, <1>3

LEMMA SentClearStep ==
  ASSUME NoneIsNew, FitsIndex, SendInv, NEW mark \in MarkInput,
         ManageIteration, PrefetchLine, ReadBlockRam, ReadLine, UpdateBitmap(mark)
  PROVE  SentClear'
<1> USE DEF SendInv
<1>0. local_vis_bitmap_index \in Line /\ \A l \in Line : l \in Nat
  BY Sizes DEF ReadInv, TypeOK, Line
<1>1. CASE Idle \/ iteration_change_flag
  BY <1>1, ResetStep DEF Unread, SentClear
<1>2. CASE ~Idle /\ ~iteration_change_flag /\ Pops
  <2>1. /\ local_vis_bitmap_index' = Popped /\ Popped \in Line
        /\ local_vis_bitmap_now' = Bits(Popped) /\ ~HasBit /\ local_vis_bitmap_now = {}
    BY <1>2, FirstLine DEF Pops
  <2>2. \A l \in Line : vis_bitmap'[now_bitmap_id'][l] = Bits(l)
    BY <1>2, <2>1, BitsStep DEF Bits
  <2>3. ASSUME NEW l \in Line, l < Popped PROVE Bits(l) = {}
    <3>1. ~local_vis_bitmap_index_lock /\ Popped = local_vis_bitmap_index + 1
      BY <1>0, <2>3 DEF Popped
    <3>2. l < local_vis_bitmap_index \/ l = local_vis_bitmap_index
      BY <1>0, <2>3, <3>1
    <3>3. l < local_vis_bitmap_index => Bits(l) = {}
      BY <3>1 DEF SentClear
    <3>4. Bits(local_vis_bitmap_index) = {}
      BY <2>1, <3>1 DEF SentClear
    <3> QED
      BY <3>2, <3>3, <3>4
  <2>4. \A l \in Line : l < local_vis_bitmap_index' => vis_bitmap'[now_bitmap_id'][l] = {}
    BY <2>1, <2>2, <2>3
  <2>5. vis_bitmap'[now_bitmap_id'][local_vis_bitmap_index'] \subseteq local_vis_bitmap_now'
    BY <2>1, <2>2
  <2> QED
    BY <2>4, <2>5 DEF SentClear, Bits
<1>3. CASE ~Idle /\ ~iteration_change_flag /\ ~Pops
  <2> SUFFICES ASSUME ~local_vis_bitmap_index_lock
               PROVE  /\ \A l \in Line : l < local_vis_bitmap_index =>
                           vis_bitmap'[now_bitmap_id'][l] = {}
                      /\ vis_bitmap'[now_bitmap_id'][local_vis_bitmap_index] \subseteq local_vis_bitmap_now'
    BY <1>3, SendStep DEF ReadInv, SentClear, Bits
  <2>1. \A l \in Line : vis_bitmap'[now_bitmap_id'][l] =
          IF HasBit /\ l = local_vis_bitmap_index THEN Bits(l) \ {active_vertex_index} ELSE Bits(l)
    BY <1>3, BitsStep DEF Bits
  <2>2. /\ \A l \in Line : l < local_vis_bitmap_index => Bits(l) = {}
        /\ Bits(local_vis_bitmap_index) \subseteq local_vis_bitmap_now
    BY DEF SentClear
  <2>3. local_vis_bitmap_now' = IF HasBit /\ ~next_stage_full
                                THEN local_vis_bitmap_now \ {active_vertex_index}
                                ELSE local_vis_bitmap_now
    BY <1>3, SendStep DEF ReadInv
  <2>4. \A l \in Line : l < local_vis_bitmap_index => vis_bitmap'[now_bitmap_id'][l] = {}
    BY <2>1, <2>2
  <2>5. vis_bitmap'[now_bitmap_id'][local_vis_bitmap_index] \subseteq local_vis_bitmap_now'
    <3>1. CASE HasBit
      BY <1>0, <2>1, <2>2, <2>3, <3>1
    <3>2. CASE ~HasBit
      BY <1>0, <2>1, <2>2, <2>3, <3>2
    <3> QED
      BY <3>1, <3>2
  <2> QED
    BY <2>4, <2>5
<1> QED
  BY <1>1, <1>2, <1>3

LEMMA SendInvInit ==
  ASSUME NoneIsNew, Init
  PROVE  SendInv
<1>1. ReadInv
  BY InitInv
<1>2. prefetch = <<>> /\ bramRead[1] = None /\ bramRead[2] = None /\ local_vis_bitmap_index_lock
  BY DEF Init
<1> QED
  BY <1>1, <1>2 DEF SendInv, Content, SentClear

LEMMA SendInvNext ==
  ASSUME NoneIsNew, FitsIndex, SendInv, [Next]_vars
  PROVE  SendInv'
<1>1. ReadInv'
  BY NextInv DEF SendInv
<1>2. CASE Next
  <2>1. PICK mark \in MarkInput, drained \in SUBSET Waiting, full \in BOOLEAN :
          Tick(mark, drained, full)
    BY <1>2 DEF Next
  <2>2. ManageIteration /\ PrefetchLine /\ ReadBlockRam /\ ReadLine /\ UpdateBitmap(mark)
    BY <2>1 DEF Tick
  <2>3. ReadInv /\ Content
    BY DEF SendInv
  <2>4. Content' /\ SentClear'
    BY <2>2, <2>3, ContentStep, SentClearStep
  <2> QED
    BY <1>1, <2>4 DEF SendInv
<1>3. CASE UNCHANGED vars
  <2>1. Content'
    BY <1>3 DEF SendInv, Content, Bits, Popped, Held, now_bitmap_id, vars, iteration, reading
  <2>2. SentClear'
    BY <1>3 DEF SendInv, SentClear, Bits, now_bitmap_id, vars, iteration, reading
  <2> QED
    BY <1>1, <2>1, <2>2 DEF SendInv
<1> QED
  BY <1>2, <1>3

-----------------------------------------------------------------------------
(***************************************************************************)
(* The two sets.                                                           *)
(***************************************************************************)
MarkedSet == {v \in Vertex : BitOf(v) \in vis_bitmap[next_bitmap_id][LineOf(v)]}

(* A vertex that is sent leaves the set, and is the lowest one in it.      *)
LEMMA TakeStep ==
  ASSUME NoneIsNew, FitsIndex, SendInv, NEW mark \in MarkInput,
         ManageIteration, SendVertex, PrefetchLine, ReadBlockRam, ReadLine, UpdateBitmap(mark),
         ~iteration_change_flag
  PROVE  \/ active_v_id' = None /\ ToSend' = ToSend
         \/ /\ active_v_id' \in ToSend /\ \A w \in ToSend : active_v_id' <= w
            /\ ToSend' = ToSend \ {active_v_id'}
<1> USE DEF SendInv
<1> DEFINE index == local_vis_bitmap_index
           g == vis_bitmap'[now_bitmap_id']
<1>0. /\ index \in Line /\ index \in Nat
      /\ \A v \in Vertex : LineOf(v) \in Line /\ LineOf(v) \in Nat
      /\ local_vis_bitmap_index_lock => index = 0 /\ local_vis_bitmap_now = {}
  BY PlaceOf, Sizes DEF ReadInv, TypeOK, Line, Rest
<1>1. \A l \in Line : g[l] = IF HasBit /\ l = index
                            THEN Bits(l) \ {active_vertex_index} ELSE Bits(l)
  BY BitsStep DEF Bits
<1>2. \A v \in Vertex : LineOf(v) > index => g[LineOf(v)] = Bits(LineOf(v))
  <2> HIDE DEF index, g
  <2>1. \A v \in Vertex : LineOf(v) > index => LineOf(v) # index
    BY <1>0
  <2> QED
    BY <1>0, <1>1, <2>1
<1>3. ToSend' = {v \in Vertex :
         \/ LineOf(v) = local_vis_bitmap_index' /\ BitOf(v) \in local_vis_bitmap_now'
         \/ /\ LineOf(v) > local_vis_bitmap_index' \/ local_vis_bitmap_index_lock'
            /\ BitOf(v) \in g[LineOf(v)]}
  BY DEF ToSend
<1>4. ToSend = {v \in Vertex :
         \/ LineOf(v) = index /\ BitOf(v) \in local_vis_bitmap_now
         \/ /\ LineOf(v) > index \/ local_vis_bitmap_index_lock
            /\ BitOf(v) \in Bits(LineOf(v))}
  BY DEF ToSend, Bits
<1> HIDE DEF g
<1>5. CASE Idle
  <2>1. local_vis_bitmap_index_lock /\ local_vis_bitmap_now = {} /\ ~HasBit
    BY <1>5 DEF ReadInv, Rest, Unread, Quiet, HasBit
  <2>2. local_vis_bitmap_index_lock' /\ local_vis_bitmap_now' = {}
    BY <1>5, ResetStep DEF Unread, Quiet
  <2>3. \A v \in Vertex : g[LineOf(v)] = Bits(LineOf(v))
    BY <1>0, <1>1, <2>1
  <2>4. active_v_id' = None
    BY <1>5 DEF SendVertex
  <2> QED
    BY <1>3, <1>4, <2>1, <2>2, <2>3, <2>4
<1>6. CASE ~Idle /\ Pops
  <2>1. /\ local_vis_bitmap_index' = Popped /\ Popped \in Line
        /\ local_vis_bitmap_now' = Bits(Popped) /\ ~local_vis_bitmap_index_lock'
        /\ local_vis_bitmap_now = {}
    BY <1>6, FirstLine
  <2>2. active_v_id' = None
    BY <1>6 DEF SendVertex, Pops
  <2>3. \A v \in Vertex : g[LineOf(v)] = Bits(LineOf(v))
    BY <1>0, <1>1, <2>1 DEF HasBit
  <2>4. \A v \in Vertex : (LineOf(v) > index \/ local_vis_bitmap_index_lock)
                            <=> (LineOf(v) = Popped \/ LineOf(v) > Popped)
    <3>1. Popped = IF local_vis_bitmap_index_lock THEN 0 ELSE index + 1
      BY DEF Popped
    <3>2. CASE local_vis_bitmap_index_lock
      BY <1>0, <3>1, <3>2
    <3>3. CASE ~local_vis_bitmap_index_lock
      BY <1>0, <3>1, <3>3
    <3> QED
      BY <3>2, <3>3
  <2>5. ToSend' = {v \in Vertex : (LineOf(v) = Popped \/ LineOf(v) > Popped)
                                  /\ BitOf(v) \in Bits(LineOf(v))}
    BY <1>3, <2>1, <2>3
  <2>6. ToSend = {v \in Vertex : (LineOf(v) > index \/ local_vis_bitmap_index_lock)
                                 /\ BitOf(v) \in Bits(LineOf(v))}
    BY <1>4, <2>1
  <2> QED
    BY <2>2, <2>4, <2>5, <2>6
<1>7. CASE ~Idle /\ ~Pops
  <2>1. /\ local_vis_bitmap_index' = index
        /\ local_vis_bitmap_index_lock' = local_vis_bitmap_index_lock
        /\ local_vis_bitmap_now' = IF HasBit /\ ~next_stage_full
                                   THEN local_vis_bitmap_now \ {active_vertex_index}
                                   ELSE local_vis_bitmap_now
    BY <1>7, SendStep DEF ReadInv
  <2>2. \A v \in Vertex : LineOf(v) > index \/ local_vis_bitmap_index_lock
                            => g[LineOf(v)] = Bits(LineOf(v))
    BY <1>0, <1>1, <1>2 DEF HasBit
  <2>3. ToSend' = {v \in Vertex :
           \/ LineOf(v) = index /\ BitOf(v) \in local_vis_bitmap_now'
           \/ /\ LineOf(v) > index \/ local_vis_bitmap_index_lock
              /\ BitOf(v) \in Bits(LineOf(v))}
    BY <1>3, <2>1, <2>2
  <2>4. CASE ~(HasBit /\ ~next_stage_full)
    <3>1. active_v_id' = None /\ local_vis_bitmap_now' = local_vis_bitmap_now
      BY <2>1, <2>4 DEF SendVertex
    <3> QED
      BY <1>4, <2>3, <3>1
  <2>5. CASE HasBit /\ ~next_stage_full
    <3> DEFINE b == active_vertex_index
               id == ActiveId
    <3>1. /\ b \in local_vis_bitmap_now /\ b \in Bit
          /\ \A d \in local_vis_bitmap_now : b <= d /\ d \in Bit
      BY <2>5, LowestBit DEF ReadInv, TypeOK
    <3>2. id \in Nat /\ LineOf(id) = index /\ BitOf(id) = b
          /\ id = index * BITMAP_COMPRESSED_LENGTH + b
      BY <1>0, <3>1, IdPlace DEF ActiveId
    <3>3. ~local_vis_bitmap_index_lock
      BY <1>0, <2>5 DEF HasBit
    <3>4. \A v \in Vertex : LineOf(v) = index /\ BitOf(v) = b <=> v = id
      BY <3>2, PlaceOf
    <3>5. active_v_id' = IF id < VTX_NUM THEN id ELSE None
      BY <1>7, <2>5 DEF SendVertex
    <3> HIDE DEF b, id, index
    <3>6. local_vis_bitmap_now' = local_vis_bitmap_now \ {b}
      BY <2>1, <2>5 DEF b
    <3>7. \A v \in Vertex : v \in ToSend' <=> v \in ToSend /\ v # id
      <4>1. \A v \in Vertex : LineOf(v) > index => LineOf(v) # index
        BY <1>0
      <4> QED
        BY <1>4, <2>3, <3>3, <3>4, <3>6, <4>1
    <3>8. ToSend \subseteq Vertex /\ ToSend' \subseteq Vertex
      BY <1>4, <2>3
    <3>9. CASE id < VTX_NUM
      <4>1. id \in Vertex
        BY <3>2, <3>9, Sizes DEF Vertex
      <4>2. id \in ToSend
        BY <1>4, <3>1, <3>2, <4>1
      <4>3. ASSUME NEW w \in ToSend PROVE id <= w
        <5>1. w \in Vertex /\ (LineOf(w) > index \/ (LineOf(w) = index /\ BitOf(w) \in local_vis_bitmap_now))
          BY <1>4, <3>3, <4>3
        <5>2. /\ id \in Vertex /\ LineOf(id) = index /\ BitOf(id) = b
              /\ LineOf(id) < LineOf(w) \/ (LineOf(id) = LineOf(w) /\ BitOf(id) <= BitOf(w))
          BY <1>0, <3>1, <3>2, <4>1, <5>1
        <5> QED
          BY <5>1, <5>2, PlaceOrder
      <4>4. ToSend' = ToSend \ {id}
        BY <3>7, <3>8
      <4>5. active_v_id' = id
        BY <3>5, <3>9
      <4> QED
        BY <4>2, <4>3, <4>4, <4>5
    <3>10. CASE ~(id < VTX_NUM)
      <4>1. \A v \in Vertex : v # id
        BY <3>2, <3>10, Sizes DEF Vertex
      <4>2. ToSend' = ToSend
        BY <3>7, <3>8, <4>1
      <4> QED
        BY <3>5, <3>10, <4>2
    <3> QED
      BY <3>9, <3>10
  <2> QED
    BY <2>4, <2>5
<1> QED
  BY <1>5, <1>6, <1>7

(* A mark adds one vertex to the other set, or takes it away.              *)
LEMMA MarkStep ==
  ASSUME NoneIsNew, ReadInv, NEW mark \in MarkInput,
         ManageIteration, UpdateBitmap(mark), ~iteration_change_flag
  PROVE  \/ MarkedSet' = MarkedSet
         \/ \E v \in Vertex : MarkedSet' \in {MarkedSet \union {v}, MarkedSet \ {v}}
<1>0. TypeOK
  BY DEF ReadInv
<1>1. MarkedSet' = {v \in Vertex : BitOf(v) \in Marked(mark)[LineOf(v)]}
  <2>1. next_bitmap_id' = next_bitmap_id /\ vis_bitmap'[next_bitmap_id] = Marked(mark)
    BY <1>0, BankStep, BitmapStep
  <2> QED
    BY <2>1 DEF MarkedSet
<1>2. CASE mark = None
  BY <1>1, <1>2 DEF Marked, MarkedSet
<1>3. CASE mark # None
  <2> DEFINE m == mark.id
             old == vis_bitmap[next_bitmap_id]
  <2>1. m \in Vertex /\ mark.updated \in BOOLEAN
    BY <1>3, MarkFacts
  <2>2. old \in [Line -> SUBSET Bit]
    BY <1>0, ParityIds DEF TypeOK
  <2>3. \A v \in Vertex : LineOf(v) \in Line
    BY PlaceOf
  <2>4. \A v \in Vertex : LineOf(v) = LineOf(m) /\ BitOf(v) = BitOf(m) => v = m
    BY <2>1, PlaceOf
  <2>5. MarkedSet = {v \in Vertex : BitOf(v) \in old[LineOf(v)]}
    BY DEF MarkedSet
  <2>6. CASE mark.updated
    <3>1. Marked(mark) = [old EXCEPT ![LineOf(m)] = @ \union {BitOf(m)}]
      BY <1>3, <2>6 DEF Marked
    <3>2. \A v \in Vertex :
            BitOf(v) \in Marked(mark)[LineOf(v)] <=> BitOf(v) \in old[LineOf(v)] \/ v = m
      BY <2>1, <2>2, <2>3, <2>4, <3>1
    <3>3. MarkedSet' = MarkedSet \union {m}
      BY <1>1, <2>1, <2>5, <3>2
    <3> QED
      BY <2>1, <3>3
  <2>7. CASE ~mark.updated
    <3>1. Marked(mark) = [old EXCEPT ![LineOf(m)] = @ \ {BitOf(m)}]
      BY <1>3, <2>7 DEF Marked
    <3>2. \A v \in Vertex :
            BitOf(v) \in Marked(mark)[LineOf(v)] <=> BitOf(v) \in old[LineOf(v)] /\ v # m
      BY <2>1, <2>2, <2>3, <2>4, <3>1
    <3>3. MarkedSet' = MarkedSet \ {m}
      BY <1>1, <2>1, <2>5, <3>2
    <3> QED
      BY <2>1, <3>3
  <2> QED
    BY <2>6, <2>7
<1> QED
  BY <1>2, <1>3

(* When the iteration counts up the two sets change places.                *)
LEMMA ChangeStep ==
  ASSUME NoneIsNew, FitsIndex, SendInv, NEW mark \in MarkInput,
         ManageIteration, SendVertex, PrefetchLine, ReadBlockRam, ReadLine, UpdateBitmap(mark),
         iteration_change_flag
  PROVE  /\ ToSend = {} /\ active_v_id' = None
         /\ ToSend' = MarkedSet /\ MarkedSet' = {}
<1> USE DEF SendInv
<1> DEFINE index == local_vis_bitmap_index
<1>0. /\ index \in Nat /\ TypeOK
      /\ \A v \in Vertex : LineOf(v) \in Line /\ LineOf(v) \in Nat
                           /\ LineOf(v) < bitmap_compressed_num
  <2>1. \A l \in Line : l \in Nat /\ l < bitmap_compressed_num
    BY Sizes DEF Line
  <2>2. index \in Line /\ TypeOK
    BY DEF ReadInv, TypeOK
  <2> QED
    BY <2>1, <2>2, PlaceOf
<1>1. Unread' /\ Finished
  BY ResetStep
<1>2. ~local_vis_bitmap_index_lock /\ local_vis_bitmap_now = {} /\ ~HasBit
  BY <1>1 DEF Finished, Quiet, HasBit
<1>3. index = bitmap_compressed_num - 1
  <2>1. Requested = bitmap_compressed_num
    <3>1. prefetch_addr = bitmap_compressed_num - 1
      BY <1>1 DEF Finished
    <3>2. prefetch_addr # AllOnes
      BY <3>1, Sizes
    <3> QED
      BY <3>1, <3>2, Sizes DEF Requested
  <2>2. OnTheWay = 0
    <3>1. /\ Len(prefetch) = 0 /\ Held(bramRead[1]) = 0 /\ Held(bramRead[2]) = 0 /\ Asked = 0
      BY <1>1 DEF Finished, Quiet, Held, Asked
    <3> QED
      BY <3>1 DEF OnTheWay
  <2>3. Popped = index + 1
    BY <1>2 DEF Popped
  <2>4. Popped + OnTheWay = Requested
    BY RoomForLine DEF ReadInv
  <2> QED
    BY <1>0, <2>1, <2>2, <2>3, <2>4, Sizes
<1>4. \A v \in Vertex : ~(LineOf(v) > index) /\ (LineOf(v) < index \/ LineOf(v) = index)
  BY <1>0, <1>3, Sizes
<1>5. ToSend = {}
  BY <1>2, <1>4 DEF ToSend
<1>6. active_v_id' = None
  BY <1>2 DEF SendVertex
<1>7. mark = None
  BY MarkFacts DEF iteration_change_flag, EndOfThis
<1>8. /\ now_bitmap_id' = next_bitmap_id /\ next_bitmap_id' = now_bitmap_id
      /\ vis_bitmap'[now_bitmap_id] = Cleared /\ vis_bitmap'[next_bitmap_id] = Marked(mark)
  BY <1>0, BankStep, BitmapStep
<1>9. /\ vis_bitmap'[now_bitmap_id] = vis_bitmap[now_bitmap_id]
      /\ vis_bitmap'[next_bitmap_id] = vis_bitmap[next_bitmap_id]
  BY <1>2, <1>7, <1>8 DEF Cleared, Marked
<1>10. ToSend' = MarkedSet
  <2>1. local_vis_bitmap_index_lock' /\ local_vis_bitmap_now' = {}
    BY <1>1 DEF Unread, Quiet
  <2>2. ToSend' = {v \in Vertex : BitOf(v) \in vis_bitmap'[now_bitmap_id'][LineOf(v)]}
    BY <2>1 DEF ToSend
  <2> QED
    BY <1>8, <1>9, <2>2 DEF MarkedSet
<1>11. MarkedSet' = {}
  <2>1. \A v \in Vertex : Bits(LineOf(v)) = {}
    <3> SUFFICES ASSUME NEW v \in Vertex PROVE Bits(LineOf(v)) = {}
      OBVIOUS
    <3>1. CASE LineOf(v) < index
      BY <1>0, <1>2, <3>1 DEF SentClear
    <3>2. CASE LineOf(v) = index
      BY <1>2, <3>2 DEF SentClear
    <3> QED
      BY <1>4, <3>1, <3>2
  <2>2. MarkedSet' = {v \in Vertex : BitOf(v) \in vis_bitmap'[next_bitmap_id'][LineOf(v)]}
    BY DEF MarkedSet
  <2> QED
    BY <1>8, <1>9, <2>1, <2>2 DEF Bits
<1> QED
  BY <1>5, <1>6, <1>10, <1>11

-----------------------------------------------------------------------------
(* This core alone is all the cores that the abstract specification has.   *)
LEMMA AbstractNames ==
  /\ Abstract!Core = {0} /\ Abstract!Vertex = Vertex
  /\ Abstract!VerticesOf(0) = Vertex
<1>1. Abstract!Core = {0} /\ Abstract!Vertex = Vertex
  BY DEF Abstract!Core, Abstract!Vertex, Vertex
<1>2. \A v \in Vertex : v % 1 = 0
  BY Sizes DEF Vertex
<1> QED
  BY <1>1, <1>2 DEF Abstract!VerticesOf

LEMMA AbstractInit ==
  ASSUME NoneIsNew, Init
  PROVE  Abstract!Init
<1>1. \A v \in Vertex : LineOf(v) \in Line /\ BitOf(v) \in Bit
  BY PlaceOf
<1>2. now_bitmap_id \in 0 .. 1 /\ next_bitmap_id \in 0 .. 1
  BY InitInv, ParityIds DEF ReadInv
<1>3. \A v \in Vertex : /\ BitOf(v) \in vis_bitmap[now_bitmap_id][LineOf(v)]
                        /\ BitOf(v) \in vis_bitmap[next_bitmap_id][LineOf(v)]
  BY <1>1, <1>2 DEF Init
<1>4. ToSend = Vertex /\ MarkedSet = Vertex
  <2>1. local_vis_bitmap_index_lock
    BY DEF Init
  <2> QED
    BY <1>3, <2>1 DEF ToSend, MarkedSet
<1>5. active_v_id = None
  BY DEF Init
<1> QED
  BY <1>4, <1>5, AbstractNames DEF Abstract!Init, MarkedSet

LEMMA AbstractNext ==
  ASSUME NoneIsNew, FitsIndex, SendInv, [Next]_vars
  PROVE  [Abstract!Next]_(Abstract!vars)
<1>1. ASSUME NEW mark \in MarkInput, NEW drained \in SUBSET Waiting, NEW full \in BOOLEAN,
             Tick(mark, drained, full)
      PROVE  Abstract!Next
  <2>1. /\ ManageIteration /\ SendVertex /\ PrefetchLine /\ ReadBlockRam /\ ReadLine
        /\ UpdateBitmap(mark) /\ ReadInv
    BY <1>1 DEF Tick, SendInv
  <2>2. /\ [c \in {0} |-> ToSend'] \in [Abstract!Core -> SUBSET Abstract!Vertex]
        /\ [c \in {0} |-> MarkedSet'] \in [Abstract!Core -> SUBSET Abstract!Vertex]
        /\ [c \in {0} |-> active_v_id'] \in [Abstract!Core -> Abstract!Vertex \union {None}]
    <3>1. ToSend' \subseteq Vertex /\ MarkedSet' \subseteq Vertex
      BY DEF ToSend, MarkedSet
    <3>2. active_v_id' \in Option(Vertex)
      BY <2>1, SentType DEF ReadInv
    <3> QED
      BY <3>1, <3>2, AbstractNames DEF Option
  <2>3. CASE iteration_change_flag
    <3>1. /\ ToSend = {} /\ active_v_id' = None
          /\ ToSend' = MarkedSet /\ MarkedSet' = {}
      BY <2>1, <2>3, ChangeStep
    <3>2. Abstract!NextIteration
      BY <3>1, AbstractNames DEF Abstract!NextIteration, MarkedSet
    <3> QED
      BY <2>2, <3>2 DEF Abstract!Next, MarkedSet
  <2>4. CASE ~iteration_change_flag
    <3>1. \/ active_v_id' = None /\ ToSend' = ToSend
          \/ /\ active_v_id' \in ToSend /\ \A w \in ToSend : active_v_id' <= w
             /\ ToSend' = ToSend \ {active_v_id'}
      BY <2>1, <2>4, TakeStep
    <3>2. Abstract!Send(0)
      BY <3>1 DEF Abstract!Send, Abstract!Lowest
    <3>3. \/ MarkedSet' = MarkedSet
          \/ \E v \in Vertex : MarkedSet' \in {MarkedSet \union {v}, MarkedSet \ {v}}
      BY <2>1, <2>4, MarkStep
    <3>4. Abstract!Mark(0)
      BY <3>3, AbstractNames DEF Abstract!Mark, MarkedSet
    <3>5. Abstract!Tick
      BY <3>2, <3>4, AbstractNames DEF Abstract!Tick
    <3> QED
      BY <2>2, <3>5 DEF Abstract!Next, MarkedSet
  <2> QED
    BY <2>3, <2>4
<1>2. CASE UNCHANGED vars
  <2>1. /\ ToSend' = ToSend /\ MarkedSet' = MarkedSet /\ active_v_id' = active_v_id
    BY <1>2 DEF vars, iteration, reading, ToSend, MarkedSet, now_bitmap_id, next_bitmap_id
  <2> QED
    BY <2>1 DEF Abstract!vars, MarkedSet
<1> QED
  BY <1>1, <1>2 DEF Next

(* Stage 1 in hardware sends every active vertex once, the lowest first,   *)
(* and the marks of an iteration are the active vertices of the next one:  *)
(* whatever the graph, the marks, the back pressure and the time that the  *)
(* end of an iteration takes, as long as the address of the clear reaches  *)
(* every vertex (M01_rd_active_vertex.v, the write port of the bitmap).    *)
THEOREM HardwareRefines ==
  ASSUME NoneIsNew, FitsIndex
  PROVE  Spec => ImplementsActiveSet
<1>1. Init => SendInv /\ Abstract!Init
  BY SendInvInit, AbstractInit
<1>2. SendInv /\ [Next]_vars => SendInv' /\ [Abstract!Next]_(Abstract!vars)
  BY SendInvNext, AbstractNext
<1> QED
  BY <1>1, <1>2, PTL DEF Spec, ImplementsActiveSet, Abstract!Spec

(* A line of the graph that has been sent is clear.  The hardware promises *)
(* it for all the lines its memory has; it holds for the lines that the    *)
(* address of the clear reaches.                                           *)
THEOREM SentIsClearHolds ==
  ASSUME NoneIsNew, FitsIndex
  PROVE  Spec => []SentIsClear
<1>1. Init => SendInv
  BY SendInvInit
<1>2. SendInv /\ [Next]_vars => SendInv'
  BY SendInvNext
<1>3. SendInv => SentIsClear
  <2> SUFFICES ASSUME SendInv, NEW l \in Line, l < local_vis_bitmap_index PROVE Bits(l) = {}
    BY DEF SentIsClear, Bits
  <2>1. ~local_vis_bitmap_index_lock
    <3>1. local_vis_bitmap_index_lock => local_vis_bitmap_index = 0
      BY DEF SendInv, ReadInv, Rest
    <3>2. l \in Nat
      BY Sizes DEF Line
    <3> QED
      BY <3>1, <3>2
  <2> QED
    BY <2>1 DEF SendInv, SentClear
<1> QED
  BY <1>1, <1>2, <1>3, PTL DEF Spec
====
