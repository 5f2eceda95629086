--------------------------- MODULE ActiveVertexProof ---------------------------
(***************************************************************************)
(* Proofs about ActiveVertex, for any number of cores, any size of the     *)
(* bitmap and any graph that fits in it.                                   *)
(***************************************************************************)
EXTENDS ActiveVertex, Arithmetic, FiniteSetTheorems

(* The inductive invariant.  The cores are in the same iteration; a core   *)
(* has ended behind its last line; the edge of the global end comes when   *)
(* all have ended, and no more when the program stops; the lines that were *)
(* sent, and the one line too many, are clear.                             *)
Together ==
  /\ \A c, d \in Core : iteration_id[c] = iteration_id[d] /\ iteration_flag[c] = iteration_flag[d]
  /\ \A c \in Core : iteration_end[c] => ~InBitmap(c)
  /\ \A c \in Core : Rises(c) => \A d \in Core : iteration_end[d]
  /\ iteration_end_flag \/ \A c \in Core :
       iteration_id[c] = MAX_ITERATION => ~iteration_end[c]

Clear ==
  \A c \in Core :
    /\ \A p \in 0 .. 1 : vis_bitmap[c][p][BitMap_NUM] = {}
    /\ \A l \in 0 .. BitMap_NUM : l < vis_bitmap_index[c] => vis_bitmap[c][NowId(c)][l] = {}
    /\ ~InBitmap(c) => vis_bitmap_now[c] = {}

Inv == TypeOK /\ Together /\ Clear

-----------------------------------------------------------------------------
(* A vertex is its core, its line and its bit.                             *)

LEMMA PlaceOf ==
  ASSUME NEW c \in Core, NEW v \in VerticesOf(c)
  PROVE  /\ LineOf(v) \in 0 .. BitMap_NUM - 1 /\ BitOf(v) \in Bit
         /\ v = Id(c, LineOf(v), BitOf(v))
<1> DEFINE q == v \div CORE_NUM
           K == BitMap_Length * BitMap_NUM
<1>1. /\ CORE_NUM \in Nat \ {0} /\ BitMap_Length \in Nat \ {0} /\ BitMap_NUM \in Nat
      /\ v \in Nat /\ v < VTX_NUM /\ VTX_NUM \in Nat /\ v % CORE_NUM = c /\ K \in Nat
  BY SizeAssumption DEF VerticesOf, Vertex
<1>2. v < K * CORE_NUM
  <2>1. CORE_NUM * BitMap_Length * BitMap_NUM = K * CORE_NUM
    BY <1>1
  <2> QED
    BY <1>1, <2>1, BitmapAssumption
<1>3. q \in Nat /\ q < K
  BY <1>1, <1>2, QuotientBound
<1>4. q < BitMap_NUM * BitMap_Length
  BY <1>1, <1>3
<1>5. q \div BitMap_Length \in Nat /\ q \div BitMap_Length < BitMap_NUM
  BY <1>1, <1>3, <1>4, QuotientBound
<1>6. /\ q % BitMap_Length \in 0 .. BitMap_Length - 1
      /\ q = (q \div BitMap_Length) * BitMap_Length + (q % BitMap_Length)
  BY <1>1, <1>3, Digits
<1>7. v = q * CORE_NUM + c
  BY <1>1, Digits
<1> QED
  BY <1>1, <1>5, <1>6, <1>7 DEF LineOf, BitOf, Bit, Id

LEMMA IdPlace ==
  ASSUME NEW c \in Core, NEW l \in 0 .. BitMap_NUM, NEW b \in Bit
  PROVE  /\ Id(c, l, b) \in Nat /\ Id(c, l, b) % CORE_NUM = c
         /\ LineOf(Id(c, l, b)) = l /\ BitOf(Id(c, l, b)) = b
<1> DEFINE q == l * BitMap_Length + b
<1>1. /\ CORE_NUM \in Nat \ {0} /\ BitMap_Length \in Nat \ {0} /\ l \in Nat /\ b \in Nat
      /\ c \in 0 .. CORE_NUM - 1 /\ b \in 0 .. BitMap_Length - 1
  BY SizeAssumption DEF Core, Bit
<1>2. l * BitMap_Length \in Nat /\ q \in Nat
  BY <1>1
<1>3. Id(c, l, b) = q * CORE_NUM + c /\ q * CORE_NUM \in Nat
  BY <1>1, <1>2 DEF Id
<1>4. Id(c, l, b) % CORE_NUM = c /\ Id(c, l, b) \div CORE_NUM = q
  <2>1. (q * CORE_NUM + c) % CORE_NUM = c /\ (q * CORE_NUM + c) \div CORE_NUM = q
    <3> HIDE DEF q
    <3> QED
      BY <1>1, <1>2, DigitsUnique
  <2> QED
    BY <1>3, <2>1
<1>5. q % BitMap_Length = b /\ q \div BitMap_Length = l
  BY <1>1, DigitsUnique
<1> QED
  BY <1>1, <1>3, <1>4, <1>5 DEF LineOf, BitOf

(* The order of two vertices of a core is that of line and bit.            *)
LEMMA PlaceOrder ==
  ASSUME NEW c \in Core, NEW v \in VerticesOf(c), NEW w \in VerticesOf(c),
         \/ LineOf(v) < LineOf(w)
         \/ LineOf(v) = LineOf(w) /\ BitOf(v) <= BitOf(w)
  PROVE  v <= w
<1> DEFINE L == BitMap_Length
           q(x) == LineOf(x) * L + BitOf(x)
<1>1. /\ CORE_NUM \in Nat \ {0} /\ L \in Nat \ {0} /\ c \in Nat
      /\ LineOf(v) \in Nat /\ LineOf(w) \in Nat
      /\ BitOf(v) \in 0 .. L - 1 /\ BitOf(w) \in 0 .. L - 1
      /\ v = q(v) * CORE_NUM + c /\ w = q(w) * CORE_NUM + c
  BY PlaceOf, SizeAssumption DEF Core, Bit, Id
<1>2. LineOf(v) * L \in Nat /\ LineOf(w) * L \in Nat
  BY <1>1
<1>3. q(v) <= q(w)
  <2>1. CASE LineOf(v) < LineOf(w)
    <3>1. LineOf(w) * L >= (LineOf(v) + 1) * L
      BY <1>1, <2>1, ProductMonotone
    <3>2. (LineOf(v) + 1) * L = LineOf(v) * L + L
      BY <1>1
    <3> QED
      BY <1>1, <1>2, <3>1, <3>2
  <2>2. CASE LineOf(v) = LineOf(w) /\ BitOf(v) <= BitOf(w)
    BY <1>1, <1>2, <2>2
  <2> QED
    BY <2>1, <2>2
<1>4. q(v) \in Int /\ q(w) \in Int
  BY <1>1, <1>2
<1>5. q(w) * CORE_NUM >= q(v) * CORE_NUM
  BY <1>1, <1>3, <1>4, ProductMonotone
<1>6. q(w) * CORE_NUM \in Int /\ q(v) * CORE_NUM \in Int
  BY <1>1, <1>4
<1> QED
  BY <1>1, <1>5, <1>6

(* The tree of wires finds the lowest bit.                                 *)
LEMMA LowestBit ==
  ASSUME NEW c \in Core, vis_bitmap_now[c] \in SUBSET Bit, vis_bitmap_now[c] # {}
  PROVE  /\ ActiveIndex(c) \in vis_bitmap_now[c]
         /\ \A d \in vis_bitmap_now[c] : ActiveIndex(c) <= d
<1>1. vis_bitmap_now[c] \subseteq Nat
  BY SizeAssumption DEF Bit
<1>2. \E x \in vis_bitmap_now[c] : \A y \in vis_bitmap_now[c] : x <= y
  BY <1>1, LeastExists, Zenon
<1> QED
  BY <1>2 DEF ActiveIndex

-----------------------------------------------------------------------------
(* What a step relies on.                                                  *)

LEMMA Sizes ==
  /\ CORE_NUM \in Nat \ {0} /\ BitMap_Length \in Nat \ {0} /\ BitMap_NUM \in Nat \ {0}
  /\ VTX_NUM \in Nat /\ MAX_ITERATION \in Nat \ {0} /\ None \notin Nat
  /\ 0 \in Core /\ CORE_NUM - 1 \in Core
BY SizeAssumption DEF Core

(* The parity of the iteration tells the two bitmaps apart.                *)
LEMMA Parity ==
  ASSUME NEW n \in Nat
  PROVE  n % 2 \in 0 .. 1 /\ (n + 1) % 2 \in 0 .. 1 /\ n % 2 # (n + 1) % 2
         /\ (n + 1 + 1) % 2 = n % 2
OBVIOUS

LEMMA ParityIds ==
  ASSUME TypeOK, NEW c \in Core
  PROVE  NowId(c) \in 0 .. 1 /\ NextId(c) \in 0 .. 1 /\ NowId(c) # NextId(c)
<1>1. iteration_id[c] \in Nat
  BY Sizes DEF TypeOK
<1> QED
  BY <1>1, Parity DEF NowId, NextId

(* What arrives as a mark.                                                 *)
LEMMA MarkFacts ==
  ASSUME NEW marks \in MarkInput, NEW c \in Core
  PROVE  /\ marks[c] # None =>
              /\ marks[c].id \in VerticesOf(c) /\ marks[c].updated \in BOOLEAN /\ ~p11End
<1>1. CASE marks = NoMarks
  BY <1>1 DEF NoMarks
<1>2. CASE marks \in Marks /\ ~p11End
  <2>1. marks \in [Core -> Option(Mark)] /\ (marks[c] # None => marks[c].id \in VerticesOf(c))
    BY <1>2 DEF Marks
  <2> QED
    BY <1>2, <2>1 DEF Option, Mark
<1> QED
  BY <1>1, <1>2 DEF MarkInput

(* The edge of the global end is seen by all cores, and all have ended.    *)
LEMMA EdgeOfAll ==
  ASSUME Inv, NEW c \in Core, Rises(c)
  PROVE  \A d \in Core : Rises(d) /\ iteration_end[d] /\ ~InBitmap(d) /\ vis_bitmap_now[d] = {}
BY DEF Inv, Together, Clear, Rises

LEMMA InitInv == Init => Inv
<1> SUFFICES ASSUME Init PROVE Inv
  OBVIOUS
<1>1. Ones \in BitMap /\ Ones[BitMap_NUM] = {}
  BY Sizes DEF Ones, BitMap, Bit
<1>2. TypeOK
  <2>1. [c \in Core |-> [p \in 0 .. 1 |-> Ones]] \in [Core -> [0 .. 1 -> BitMap]]
    BY <1>1
  <2>2. 0 \in 0 .. MAX_ITERATION /\ 0 \in 0 .. BitMap_NUM /\ 0 \in Int /\ None \in Option(Vertex)
    BY Sizes DEF Option
  <2> QED
    BY <2>1, <2>2 DEF Init, TypeOK
<1>3. Together
  BY Sizes DEF Init, Together, Rises
<1>4. Clear
  BY <1>1, Sizes DEF Init, Clear, InBitmap
<1> QED
  BY <1>2, <1>3, <1>4 DEF Inv

-----------------------------------------------------------------------------
(* One step.                                                               *)

LEMMA TakenBit ==
  ASSUME TypeOK, NEW c \in Core, HasBit(c)
  PROVE  /\ ActiveIndex(c) \in Bit /\ ActiveIndex(c) \in vis_bitmap_now[c]
         /\ vis_bitmap_index[c] \in 0 .. BitMap_NUM - 1 /\ ActiveId(c) \in Nat
<1>1. /\ vis_bitmap_now[c] \in SUBSET Bit /\ vis_bitmap_now[c] # {}
      /\ vis_bitmap_index[c] \in 0 .. BitMap_NUM - 1
  BY Sizes DEF TypeOK, HasBit, InBitmap
<1>2. ActiveIndex(c) \in vis_bitmap_now[c]
  BY <1>1, LowestBit
<1>3. vis_bitmap_index[c] \in 0 .. BitMap_NUM /\ ActiveIndex(c) \in Bit
  BY <1>1, <1>2, Sizes
<1>4. Id(c, vis_bitmap_index[c], ActiveIndex(c)) \in Nat
  BY <1>3, IdPlace
<1> QED
  BY <1>1, <1>2, <1>3, <1>4 DEF ActiveId

(* The two bitmaps of a core after a step.                                 *)
LEMMA BitmapStep ==
  ASSUME TypeOK, NEW marks \in MarkInput, UpdateBitmap(marks), NEW c \in Core
  PROVE  /\ vis_bitmap'[c] \in [0 .. 1 -> BitMap]
         /\ vis_bitmap'[c][NowId(c)] = SentLine(c)
         /\ vis_bitmap'[c][NextId(c)] = Marked(c, marks[c])
         /\ SentLine(c) \in BitMap /\ Marked(c, marks[c]) \in BitMap
         /\ \A l \in 0 .. BitMap_NUM :
              SentLine(c)[l] = IF LineDone(c) /\ l = vis_bitmap_index[c] THEN {}
                               ELSE vis_bitmap[c][NowId(c)][l]
<1>1. /\ vis_bitmap[c][NowId(c)] \in BitMap /\ vis_bitmap[c][NextId(c)] \in BitMap
      /\ vis_bitmap_index[c] \in 0 .. BitMap_NUM
  BY ParityIds DEF TypeOK
<1>2. SentLine(c) \in BitMap
  BY <1>1 DEF SentLine, BitMap
<1>3. Marked(c, marks[c]) \in BitMap
  <2>1. CASE marks[c] = None
    BY <1>1, <2>1 DEF Marked
  <2>2. CASE marks[c] # None
    <3>1. LineOf(marks[c].id) \in 0 .. BitMap_NUM /\ BitOf(marks[c].id) \in Bit
      BY <2>2, MarkFacts, PlaceOf, Sizes
    <3> QED
      BY <1>1, <2>2, <3>1 DEF Marked, BitMap
  <2> QED
    BY <2>1, <2>2
<1>4. /\ vis_bitmap'[c][NowId(c)] = SentLine(c)
      /\ vis_bitmap'[c][NextId(c)] = Marked(c, marks[c])
      /\ vis_bitmap'[c] = [p \in 0 .. 1 |-> IF p = NowId(c) THEN SentLine(c) ELSE Marked(c, marks[c])]
  BY ParityIds DEF UpdateBitmap
<1>5. \A l \in 0 .. BitMap_NUM :
        SentLine(c)[l] = IF LineDone(c) /\ l = vis_bitmap_index[c] THEN {}
                         ELSE vis_bitmap[c][NowId(c)][l]
  BY <1>1 DEF SentLine, BitMap
<1> QED
  BY <1>2, <1>3, <1>4, <1>5

(* The line that is sent after a step.                                     *)
LEMMA ReadStep ==
  ASSUME Inv, ReadLine, NEW c \in Core
  PROVE  /\ LineDone(c) =>
              /\ vis_bitmap_index'[c] = vis_bitmap_index[c] + 1
              /\ vis_bitmap_now'[c] = vis_bitmap[c][NowId(c)][vis_bitmap_index[c] + 1]
         /\ HasBit(c) =>
              /\ vis_bitmap_index'[c] = vis_bitmap_index[c]
              /\ vis_bitmap_now'[c] = vis_bitmap_now[c] \ Cleared(c)
         /\ ~InBitmap(c) /\ Rises(c) =>
              vis_bitmap_index'[c] = 0 /\ vis_bitmap_now'[c] = vis_bitmap[c][NextId(c)][0]
         /\ ~InBitmap(c) /\ ~Rises(c) =>
              /\ vis_bitmap_index'[c] = vis_bitmap_index[c]
              /\ vis_bitmap_now'[c] = vis_bitmap_now[c]
BY DEF ReadLine, LineDone, HasBit

LEMMA Trichotomy ==
  ASSUME NEW c \in Core
  PROVE  LineDone(c) \/ HasBit(c) \/ (~InBitmap(c) /\ Rises(c)) \/ (~InBitmap(c) /\ ~Rises(c))
BY DEF LineDone, HasBit

LEMMA ReadType ==
  ASSUME Inv, ReadLine, NEW c \in Core
  PROVE  vis_bitmap_index'[c] \in 0 .. BitMap_NUM /\ vis_bitmap_now'[c] \in SUBSET Bit
<1>1. /\ vis_bitmap_index[c] \in 0 .. BitMap_NUM /\ vis_bitmap_now[c] \in SUBSET Bit
  BY DEF Inv, TypeOK
<1>a. ASSUME NEW p \in 0 .. 1, NEW l \in 0 .. BitMap_NUM
      PROVE  vis_bitmap[c][p][l] \in SUBSET Bit
  <2>1. vis_bitmap[c][p] \in BitMap
    BY DEF Inv, TypeOK
  <2> QED
    BY <2>1 DEF BitMap
<1>2. CASE LineDone(c)
  <2>1. vis_bitmap_index[c] + 1 \in 0 .. BitMap_NUM
    BY <1>1, <1>2, Sizes DEF LineDone, InBitmap
  <2> QED
    BY <1>1, <1>a, <1>2, <2>1, ReadStep, ParityIds DEF Inv
<1>3. CASE HasBit(c)
  BY <1>1, <1>3, ReadStep
<1>4. CASE ~InBitmap(c) /\ Rises(c)
  BY <1>1, <1>a, <1>4, ReadStep, ParityIds, Sizes DEF Inv
<1>5. CASE ~InBitmap(c) /\ ~Rises(c)
  BY <1>1, <1>5, ReadStep
<1> QED
  BY <1>2, <1>3, <1>4, <1>5, Trichotomy

(* The next bitmap loses its last empty line as little as the present one. *)
LEMMA MarkedLines ==
  ASSUME TypeOK, NEW marks \in MarkInput, NEW c \in Core, NEW l \in 0 .. BitMap_NUM,
         marks[c] = None \/ l # LineOf(marks[c].id)
  PROVE  Marked(c, marks[c])[l] = vis_bitmap[c][NextId(c)][l]
<1>1. vis_bitmap[c][NextId(c)] \in BitMap
  BY ParityIds DEF TypeOK
<1> QED
  BY <1>1 DEF Marked, BitMap

(* A core counts up on the edge of the global end, and only then.          *)
LEMMA CountStep ==
  ASSUME Inv, ManageIteration, NEW c \in Core
  PROVE  /\ Rises(c) => iteration_id'[c] = iteration_id[c] + 1 /\ iteration_end'[c] = FALSE
         /\ ~Rises(c) => /\ iteration_id'[c] = iteration_id[c]
                         /\ iteration_end'[c] = (iteration_end[c] \/ ~InBitmap(c))
         /\ iteration_flag'[c] = ~p11End
<1>1. iteration_end[c] \in BOOLEAN
  BY DEF Inv, TypeOK
<1>2. Rises(c) => iteration_end[c]
  BY EdgeOfAll
<1> QED
  BY <1>1, <1>2 DEF ManageIteration, Low

LEMMA TypeStep ==
  ASSUME Inv, NEW marks \in MarkInput, Tick(marks)
  PROVE  TypeOK'
<1> USE DEF Tick, Stage1
<1>1. iteration_id' \in [Core -> 0 .. MAX_ITERATION]
  <2> SUFFICES ASSUME NEW c \in Core PROVE iteration_id'[c] \in 0 .. MAX_ITERATION
    BY DEF ManageIteration
  <2>1. /\ iteration_id[c] \in 0 .. MAX_ITERATION /\ MAX_ITERATION \in Nat
        /\ iteration_id[c] = MAX_ITERATION => ~iteration_end[c]
    <3>1. ~iteration_end_flag
      OBVIOUS
    <3> QED
      BY <3>1, Sizes DEF Inv, TypeOK, Together
  <2>2. CASE Rises(c)
    <3>1. iteration_end[c] /\ iteration_id'[c] = iteration_id[c] + 1
      BY <2>2, EdgeOfAll, CountStep
    <3> QED
      BY <2>1, <3>1
  <2>3. CASE ~Rises(c)
    BY <2>1, <2>3, CountStep
  <2> QED
    BY <2>2, <2>3
<1>2. iteration_end' \in [Core -> BOOLEAN] /\ iteration_flag' \in [Core -> BOOLEAN]
  <2> SUFFICES ASSUME NEW c \in Core
               PROVE  iteration_end'[c] \in BOOLEAN /\ iteration_flag'[c] \in BOOLEAN
    BY DEF ManageIteration
  <2>1. CASE Rises(c)
    BY <2>1, CountStep
  <2>2. CASE ~Rises(c)
    BY <2>2, CountStep
  <2> QED
    BY <2>1, <2>2
<1>3. iteration_end_flag' \in BOOLEAN
  BY DEF ManageStop
<1>4. vis_bitmap' \in [Core -> [0 .. 1 -> BitMap]]
  <2> SUFFICES ASSUME NEW c \in Core PROVE vis_bitmap'[c] \in [0 .. 1 -> BitMap]
    BY DEF UpdateBitmap
  <2> QED
    BY BitmapStep DEF Inv
<1>5. /\ vis_bitmap_index' \in [Core -> 0 .. BitMap_NUM]
      /\ vis_bitmap_now' \in [Core -> SUBSET Bit]
  <2> SUFFICES ASSUME NEW c \in Core
               PROVE  vis_bitmap_index'[c] \in 0 .. BitMap_NUM /\ vis_bitmap_now'[c] \in SUBSET Bit
    BY DEF ReadLine
  <2> QED
    BY ReadType
<1>6. active_vertex_num' \in Int
  <2> DEFINE on  == {c \in Core : marks[c] # None /\ marks[c].updated /\ ~IsMarked(c, marks[c].id)}
             off == {c \in Core : marks[c] # None /\ ~marks[c].updated /\ IsMarked(c, marks[c].id)}
  <2>1. IsFiniteSet(Core)
    BY Sizes, FS_Interval DEF Core
  <2>2. IsFiniteSet(on) /\ IsFiniteSet(off)
    BY <2>1, FS_Subset
  <2>3. Cardinality(on) \in Nat /\ Cardinality(off) \in Nat
    BY <2>2, FS_CardinalityType
  <2>4. active_vertex_num \in Int
    BY DEF Inv, TypeOK
  <2>5. active_vertex_num' = (IF iteration_end[0] /\ Rises(0) THEN 0 ELSE active_vertex_num)
                             + Cardinality(on) - Cardinality(off)
    BY DEF UpdateBitmap
  <2> QED
    BY <2>3, <2>4, <2>5
<1>7. p1V' \in [Core -> Option(Vertex)]
  <2> SUFFICES ASSUME NEW c \in Core PROVE p1V'[c] \in Option(Vertex)
    BY DEF SendVertex
  <2>1. CASE Takes(c) /\ ActiveId(c) < VTX_NUM
    <3>1. ActiveId(c) \in Nat
      BY <2>1, TakenBit DEF Inv, Takes
    <3> QED
      BY <2>1, <3>1, Sizes DEF SendVertex, Vertex, Option
  <2>2. CASE ~(Takes(c) /\ ActiveId(c) < VTX_NUM)
    BY <2>2 DEF SendVertex, Option
  <2> QED
    BY <2>1, <2>2
<1>8. p1End' \in [Core -> BOOLEAN]
  BY DEF SendVertex, Inv, TypeOK
<1>9. p2Full' \in [Core -> BOOLEAN] /\ p11End' \in BOOLEAN /\ busy' \in BOOLEAN
  <2>1. p11End' \in BOOLEAN
    BY DEF Environment
  <2>2. p2Full' \in [Core -> BOOLEAN]
    <3>1. PICK full \in SUBSET MayBlock' : p2Full' = [c \in Core |-> c \in full]
      BY DEF Environment
    <3> QED
      BY <3>1
  <2>3. busy' \in BOOLEAN
    BY DEF Environment
  <2> QED
    BY <2>1, <2>2, <2>3
<1> QED
  BY <1>1, <1>2, <1>3, <1>4, <1>5, <1>6, <1>7, <1>8, <1>9 DEF TypeOK

LEMMA TogetherStep ==
  ASSUME Inv, NEW marks \in MarkInput, Tick(marks)
  PROVE  Together'
<1> USE DEF Tick, Stage1
<1>0. /\ \A c \in Core : iteration_end[c] \in BOOLEAN /\ iteration_id[c] \in Nat
      /\ \A c, d \in Core : Rises(c) = Rises(d)
      /\ \A c, d \in Core : iteration_id[c] = iteration_id[d]
  BY Sizes DEF Inv, TypeOK, Together, Rises
<1>1. \A c, d \in Core : iteration_id'[c] = iteration_id'[d] /\ iteration_flag'[c] = iteration_flag'[d]
  <2> SUFFICES ASSUME NEW c \in Core, NEW d \in Core
               PROVE  iteration_id'[c] = iteration_id'[d] /\ iteration_flag'[c] = iteration_flag'[d]
    OBVIOUS
  <2>1. CASE Rises(c)
    BY <1>0, <2>1, CountStep
  <2>2. CASE ~Rises(c)
    BY <1>0, <2>2, CountStep
  <2> QED
    BY <2>1, <2>2
<1>2. ASSUME NEW c \in Core, iteration_end'[c]
      PROVE  ~(vis_bitmap_index'[c] < BitMap_NUM)
  <2>1. ~Rises(c)
    BY <1>2, CountStep
  <2>2. ~InBitmap(c)
    BY <1>0, <1>2, <2>1, CountStep DEF Inv, Together
  <2>3. vis_bitmap_index'[c] = vis_bitmap_index[c]
    BY <2>1, <2>2, ReadStep
  <2> QED
    BY <2>2, <2>3 DEF InBitmap
<1>3. ASSUME NEW c \in Core, p11End', iteration_flag'[c], NEW d \in Core
      PROVE  iteration_end'[d]
  <2>1. ~p11End
    BY <1>3, CountStep
  <2>2. iteration_end[d]
    BY <1>3, <2>1 DEF Environment, MayEnd
  <2>3. ~Rises(d)
    BY <2>1 DEF Rises
  <2> QED
    BY <2>2, <2>3, CountStep
<1>4. ASSUME ~iteration_end_flag', NEW c \in Core, iteration_id'[c] = MAX_ITERATION
      PROVE  ~iteration_end'[c]
  <2>1. iteration_id[c] # MAX_ITERATION
    BY <1>0, <1>4, Sizes DEF ManageStop
  <2>2. Rises(c)
    BY <1>4, <2>1, CountStep
  <2> QED
    BY <2>2, CountStep
<1> QED
  BY <1>1, <1>2, <1>3, <1>4 DEF Together, InBitmap, Rises

LEMMA ParityStep ==
  ASSUME Inv, ManageIteration, NEW c \in Core
  PROVE  /\ Rises(c) => NowId(c)' = NextId(c) /\ NextId(c)' = NowId(c)
         /\ ~Rises(c) => NowId(c)' = NowId(c) /\ NextId(c)' = NextId(c)
<1>1. iteration_id[c] \in Nat
  BY Sizes DEF Inv, TypeOK
<1>2. /\ Rises(c) => iteration_id'[c] = iteration_id[c] + 1
      /\ ~Rises(c) => iteration_id'[c] = iteration_id[c]
  BY CountStep
<1> QED
  BY <1>1, <1>2, Parity DEF NowId, NextId

LEMMA ClearStep ==
  ASSUME Inv, NEW marks \in MarkInput, Tick(marks)
  PROVE  Clear'
<1> USE DEF Tick, Stage1
<1> SUFFICES ASSUME NEW c \in Core
             PROVE  /\ \A p \in 0 .. 1 : vis_bitmap'[c][p][BitMap_NUM] = {}
                    /\ \A l \in 0 .. BitMap_NUM :
                         l < vis_bitmap_index'[c] => vis_bitmap'[c][NowId(c)'][l] = {}
                    /\ ~(vis_bitmap_index'[c] < BitMap_NUM) => vis_bitmap_now'[c] = {}
  BY DEF Clear, InBitmap
<1> DEFINE index == vis_bitmap_index[c]
<1>0. /\ index \in 0 .. BitMap_NUM /\ BitMap_NUM \in 0 .. BitMap_NUM /\ BitMap_NUM \in Nat
      /\ NowId(c) \in 0 .. 1 /\ NextId(c) \in 0 .. 1 /\ NowId(c) # NextId(c)
      /\ \A p \in 0 .. 1 : vis_bitmap[c][p][BitMap_NUM] = {}
      /\ \A l \in 0 .. BitMap_NUM : l < index => vis_bitmap[c][NowId(c)][l] = {}
  BY Sizes, ParityIds DEF Inv, TypeOK, Clear
<1>1. /\ vis_bitmap'[c][NowId(c)] = SentLine(c)
      /\ vis_bitmap'[c][NextId(c)] = Marked(c, marks[c])
      /\ \A l \in 0 .. BitMap_NUM :
           SentLine(c)[l] = IF LineDone(c) /\ l = index THEN {} ELSE vis_bitmap[c][NowId(c)][l]
  BY BitmapStep DEF Inv
<1>2. Marked(c, marks[c])[BitMap_NUM] = {}
  <2>1. marks[c] = None \/ BitMap_NUM # LineOf(marks[c].id)
    BY MarkFacts, PlaceOf, Sizes
  <2> QED
    BY <1>0, <2>1, MarkedLines DEF Inv
<1>3. \A p \in 0 .. 1 : vis_bitmap'[c][p][BitMap_NUM] = {}
  <2>1. SentLine(c)[BitMap_NUM] = {}
    BY <1>0, <1>1
  <2>2. \A p \in 0 .. 1 : p = NowId(c) \/ p = NextId(c)
    BY <1>0
  <2> QED
    BY <1>1, <1>2, <2>1, <2>2
<1>4. \A l \in 0 .. BitMap_NUM :
        l < vis_bitmap_index'[c] => vis_bitmap'[c][NowId(c)'][l] = {}
  <2>1. CASE LineDone(c)
    <3>1. vis_bitmap_index'[c] = index + 1 /\ ~Rises(c)
      BY <2>1, ReadStep, EdgeOfAll DEF LineDone
    <3>2. NowId(c)' = NowId(c)
      BY <3>1, ParityStep
    <3> SUFFICES ASSUME NEW l \in 0 .. BitMap_NUM, l < index + 1 PROVE SentLine(c)[l] = {}
      BY <1>1, <3>1, <3>2
    <3> QED
      BY <1>0, <1>1, <2>1
  <2>2. CASE HasBit(c) \/ (~InBitmap(c) /\ ~Rises(c))
    <3>1. vis_bitmap_index'[c] = index /\ ~Rises(c) /\ ~LineDone(c)
      BY <2>2, ReadStep, EdgeOfAll DEF HasBit, LineDone
    <3>2. NowId(c)' = NowId(c)
      BY <3>1, ParityStep
    <3> QED
      BY <1>0, <1>1, <3>1, <3>2
  <2>3. CASE ~InBitmap(c) /\ Rises(c)
    BY <2>3, ReadStep
  <2> QED
    BY <2>1, <2>2, <2>3, Trichotomy
<1>5. ~(vis_bitmap_index'[c] < BitMap_NUM) => vis_bitmap_now'[c] = {}
  <2>1. CASE LineDone(c)
    BY <1>0, <2>1, ReadStep DEF LineDone, InBitmap
  <2>2. CASE HasBit(c)
    BY <2>2, ReadStep DEF HasBit, InBitmap
  <2>3. CASE ~InBitmap(c) /\ Rises(c)
    BY <2>3, ReadStep, Sizes
  <2>4. CASE ~InBitmap(c) /\ ~Rises(c)
    BY <2>4, ReadStep DEF Inv, Clear
  <2> QED
    BY <2>1, <2>2, <2>3, <2>4, Trichotomy
<1> QED
  BY <1>3, <1>4, <1>5

LEMMA NextInv == Inv /\ [Next]_vars => Inv'
<1> SUFFICES ASSUME Inv, [Next]_vars PROVE Inv'
  OBVIOUS
<1>1. ASSUME NEW marks \in MarkInput, Tick(marks) PROVE Inv'
  BY <1>1, TypeStep, TogetherStep, ClearStep DEF Inv
<1>2. CASE UNCHANGED vars
  BY <1>2 DEF vars, control, bitmaps, Inv, TypeOK, Together, Clear, Rises, InBitmap, NowId
<1> QED
  BY <1>1, <1>2 DEF Next

-----------------------------------------------------------------------------
(***************************************************************************)
(* The theorems.                                                           *)
(***************************************************************************)

(* Inv is an invariant.                                                    *)
THEOREM StageOneCorrect == Spec => []Inv
BY InitInv, NextInv, PTL DEF Spec

(* Every variable keeps its type: no core reads beyond its bitmap, and     *)
(* none counts beyond MAX_ITERATION.                                       *)
THEOREM TypeCorrect == Spec => []TypeOK
<1>1. Inv => TypeOK
  BY DEF Inv
<1> QED
  BY <1>1, StageOneCorrect, PTL

(* All cores go back to their first line in the same tick, the one in      *)
(* which their iteration counts up.                                        *)
THEOREM InStepHolds == Spec => InStep
<1> DEFINE Step ==
      /\ \A c \in Core : vis_bitmap_index'[c] < vis_bitmap_index[c]
                           <=> iteration_id'[c] = iteration_id[c] + 1
      /\ \A c, d \in Core : iteration_id'[c] = iteration_id'[d]
<1>1. ASSUME Inv, [Next]_vars PROVE [Step]_vars
  <2> SUFFICES ASSUME NEW marks \in MarkInput, Tick(marks) PROVE Step
    BY <1>1 DEF Next
  <2>1. \A c, d \in Core : iteration_id'[c] = iteration_id'[d]
    BY <1>1, TogetherStep DEF Together
  <2>2. ASSUME NEW c \in Core
        PROVE  vis_bitmap_index'[c] < vis_bitmap_index[c]
                 <=> iteration_id'[c] = iteration_id[c] + 1
    <3>1. /\ vis_bitmap_index[c] \in 0 .. BitMap_NUM /\ iteration_id[c] \in Nat
      BY <1>1, Sizes DEF Inv, TypeOK
    <3>2. CASE Rises(c)
      <4>1. ~InBitmap(c)
        BY <1>1, <3>2, EdgeOfAll
      <4>2. vis_bitmap_index'[c] = 0 /\ iteration_id'[c] = iteration_id[c] + 1
        BY <1>1, <3>2, <4>1, ReadStep, CountStep DEF Tick, Stage1
      <4> QED
        BY <3>1, <4>1, <4>2, Sizes DEF InBitmap
    <3>3. CASE ~Rises(c)
      <4>1. iteration_id'[c] = iteration_id[c]
        BY <1>1, <3>3, CountStep DEF Tick, Stage1
      <4>2. vis_bitmap_index'[c] \in {vis_bitmap_index[c], vis_bitmap_index[c] + 1}
        BY <1>1, <3>3, ReadStep, Trichotomy DEF Tick, Stage1
      <4> QED
        BY <3>1, <4>1, <4>2
    <3> QED
      BY <3>2, <3>3
  <2> QED
    BY <2>1, <2>2
<1> QED
  BY <1>1, StageOneCorrect, PTL DEF Spec, InStep

-----------------------------------------------------------------------------
(***************************************************************************)
(* Stage 1 implements ActiveSet.                                           *)
(***************************************************************************)

MarkedIn(c) == {v \in VerticesOf(c) : IsMarked(c, v)}

LEMMA SubsetsOfVertex ==
  ASSUME NEW c \in Core
  PROVE  VerticesOf(c) \subseteq Vertex /\ ToSend(c) \subseteq VerticesOf(c)
         /\ MarkedIn(c) \subseteq VerticesOf(c)
BY DEF VerticesOf, ToSend, MarkedIn

(* The vertices to send after a step within an iteration.                  *)
LEMMA ToSendStep ==
  ASSUME Inv, NEW marks \in MarkInput, Tick(marks), NEW c \in Core, ~Rises(c)
  PROVE  ToSend(c)' =
           {v \in VerticesOf(c) :
              \/ LineOf(v) = vis_bitmap_index'[c] /\ BitOf(v) \in vis_bitmap_now'[c]
              \/ /\ LineOf(v) > vis_bitmap_index'[c]
                 /\ BitOf(v) \in vis_bitmap[c][NowId(c)][LineOf(v)]}
<1> USE DEF Tick, Stage1
<1>1. NowId(c)' = NowId(c)
  BY ParityStep
<1>2. /\ vis_bitmap'[c][NowId(c)] = SentLine(c)
      /\ \A l \in 0 .. BitMap_NUM :
           SentLine(c)[l] = IF LineDone(c) /\ l = vis_bitmap_index[c] THEN {}
                            ELSE vis_bitmap[c][NowId(c)][l]
  BY BitmapStep DEF Inv
<1>3. /\ vis_bitmap_index'[c] \in Nat /\ vis_bitmap_index[c] \in Nat
      /\ vis_bitmap_index'[c] >= vis_bitmap_index[c]
  <2>1. vis_bitmap_index[c] \in Nat
    BY Sizes DEF Inv, TypeOK
  <2>2. vis_bitmap_index'[c] \in {vis_bitmap_index[c], vis_bitmap_index[c] + 1}
    BY ReadStep, Trichotomy
  <2> QED
    BY <2>1, <2>2
<1>4. ASSUME NEW v \in VerticesOf(c), LineOf(v) > vis_bitmap_index'[c]
      PROVE  vis_bitmap'[c][NowId(c)][LineOf(v)] = vis_bitmap[c][NowId(c)][LineOf(v)]
  <2>1. LineOf(v) \in 0 .. BitMap_NUM /\ LineOf(v) # vis_bitmap_index[c]
    BY <1>3, <1>4, PlaceOf, Sizes
  <2> QED
    BY <1>2, <2>1
<1> QED
  BY <1>1, <1>4 DEF ToSend

LEMMA SendStep ==
  ASSUME Inv, NEW marks \in MarkInput, Tick(marks), NEW c \in Core, ~Rises(c)
  PROVE  \/ p1V'[c] = None /\ ToSend(c)' = ToSend(c)
         \/ /\ p1V'[c] \in ToSend(c) /\ \A w \in ToSend(c) : p1V'[c] <= w
            /\ ToSend(c)' = ToSend(c) \ {p1V'[c]}
<1> USE DEF Tick, Stage1
<1> DEFINE index == vis_bitmap_index[c]
<1>0. /\ index \in 0 .. BitMap_NUM /\ vis_bitmap_now[c] \in SUBSET Bit
      /\ \A v \in VerticesOf(c) : LineOf(v) \in 0 .. BitMap_NUM - 1
  BY PlaceOf DEF Inv, TypeOK
<1>1. CASE LineDone(c)
  <2>1. p1V'[c] = None
    BY <1>1 DEF SendVertex, Takes, HasBit, LineDone
  <2>2. /\ vis_bitmap_index'[c] = index + 1 /\ vis_bitmap_now[c] = {}
        /\ vis_bitmap_now'[c] = vis_bitmap[c][NowId(c)][index + 1]
    BY <1>1, ReadStep DEF LineDone
  <2>3. ToSend(c)' = ToSend(c)
    <3>1. \A v \in VerticesOf(c) :
            LineOf(v) > index <=> LineOf(v) = index + 1 \/ LineOf(v) > index + 1
      BY <1>0, Sizes
    <3> QED
      BY <2>2, <3>1, ToSendStep DEF ToSend
  <2> QED
    BY <2>1, <2>3
<1>2. CASE HasBit(c) /\ ~Takes(c)
  <2>1. p1V'[c] = None
    BY <1>2 DEF SendVertex
  <2>2. vis_bitmap_index'[c] = index /\ vis_bitmap_now'[c] = vis_bitmap_now[c]
    BY <1>2, ReadStep DEF Cleared
  <2>3. ToSend(c)' = ToSend(c)
    BY <2>2, ToSendStep DEF ToSend
  <2> QED
    BY <2>1, <2>3
<1>3. CASE Takes(c)
  <2> DEFINE b == ActiveIndex(c)
             id == ActiveId(c)
  <2>1. /\ HasBit(c) /\ vis_bitmap_index'[c] = index
        /\ vis_bitmap_now'[c] = vis_bitmap_now[c] \ {b}
    BY <1>3, ReadStep DEF Cleared, Takes
  <2>2. /\ b \in Bit /\ b \in vis_bitmap_now[c] /\ id \in Nat /\ index \in 0 .. BitMap_NUM
        /\ \A d \in vis_bitmap_now[c] : b <= d
    BY <1>0, <2>1, TakenBit, LowestBit DEF Inv, HasBit
  <2>3. /\ id % CORE_NUM = c /\ LineOf(id) = index /\ BitOf(id) = b
    BY <2>2, IdPlace DEF ActiveId
  <2>4. ToSend(c)' = {v \in ToSend(c) : ~(LineOf(v) = index /\ BitOf(v) = b)}
    BY <1>0, <2>1, ToSendStep DEF ToSend
  <2>5. \A v \in VerticesOf(c) : LineOf(v) = index /\ BitOf(v) = b => v = id
    BY PlaceOf DEF ActiveId
  <2>6. CASE id < VTX_NUM
    <3>1. p1V'[c] = id /\ id \in VerticesOf(c)
      BY <1>3, <2>2, <2>3, <2>6, Sizes DEF SendVertex, VerticesOf, Vertex
    <3>2. id \in ToSend(c)
      BY <2>2, <2>3, <3>1 DEF ToSend
    <3>3. ASSUME NEW w \in ToSend(c) PROVE id <= w
      <4>1. /\ w \in VerticesOf(c)
            /\ LineOf(w) > index \/ (LineOf(w) = index /\ BitOf(w) \in vis_bitmap_now[c])
        BY <3>3 DEF ToSend
      <4>2. LineOf(id) < LineOf(w) \/ (LineOf(id) = LineOf(w) /\ BitOf(id) <= BitOf(w))
        BY <1>0, <2>2, <2>3, <4>1
      <4> QED
        BY <3>1, <4>1, <4>2, PlaceOrder
    <3>4. ToSend(c)' = ToSend(c) \ {id}
      <4>1. ToSend(c) \subseteq VerticesOf(c)
        BY DEF ToSend
      <4> QED
        BY <2>3, <2>4, <2>5, <4>1
    <3> QED
      BY <3>1, <3>2, <3>3, <3>4
  <2>7. CASE ~(id < VTX_NUM)
    <3>1. p1V'[c] = None
      BY <2>7 DEF SendVertex
    <3>2. \A v \in VerticesOf(c) : v # id
      BY <2>7, Sizes DEF VerticesOf, Vertex
    <3>3. ToSend(c)' = ToSend(c)
      <4>1. ToSend(c) \subseteq VerticesOf(c)
        BY DEF ToSend
      <4> QED
        BY <2>4, <2>5, <3>2, <4>1
    <3> QED
      BY <3>1, <3>3
  <2> QED
    BY <2>6, <2>7
<1>4. CASE ~InBitmap(c)
  <2>1. p1V'[c] = None
    BY <1>4 DEF SendVertex, Takes, HasBit
  <2>2. vis_bitmap_index'[c] = index /\ vis_bitmap_now'[c] = vis_bitmap_now[c]
    BY <1>4, ReadStep
  <2>3. ToSend(c)' = ToSend(c)
    BY <2>2, ToSendStep DEF ToSend
  <2> QED
    BY <2>1, <2>3
<1> QED
  BY <1>1, <1>2, <1>3, <1>4 DEF LineDone, HasBit

LEMMA MarkStep ==
  ASSUME Inv, NEW marks \in MarkInput, Tick(marks), NEW c \in Core, ~Rises(c)
  PROVE  \/ MarkedIn(c)' = MarkedIn(c)
         \/ \E v \in VerticesOf(c) : MarkedIn(c)' \in {MarkedIn(c) \union {v}, MarkedIn(c) \ {v}}
<1> USE DEF Tick, Stage1
<1>1. /\ NextId(c)' = NextId(c)
      /\ vis_bitmap'[c][NextId(c)] = Marked(c, marks[c])
  BY ParityStep, BitmapStep DEF Inv
<1>2. MarkedIn(c)' = {v \in VerticesOf(c) : BitOf(v) \in Marked(c, marks[c])[LineOf(v)]}
  BY <1>1 DEF MarkedIn, IsMarked
<1>3. CASE marks[c] = None
  BY <1>2, <1>3 DEF Marked, MarkedIn, IsMarked
<1>4. CASE marks[c] # None
  <2> DEFINE m == marks[c].id
             old == vis_bitmap[c][NextId(c)]
  <2>1. m \in VerticesOf(c) /\ marks[c].updated \in BOOLEAN
    BY <1>4, MarkFacts
  <2>2. old \in BitMap
    BY ParityIds DEF Inv, TypeOK
  <2>3. \A v \in VerticesOf(c) : LineOf(v) \in 0 .. BitMap_NUM
    BY PlaceOf, Sizes
  <2>4. \A v \in VerticesOf(c) : LineOf(v) = LineOf(m) /\ BitOf(v) = BitOf(m) => v = m
    BY <2>1, PlaceOf
  <2>5. CASE marks[c].updated
    <3>1. Marked(c, marks[c]) = [old EXCEPT ![LineOf(m)] = @ \union {BitOf(m)}]
      BY <1>4, <2>5 DEF Marked
    <3>2. \A v \in VerticesOf(c) :
            BitOf(v) \in Marked(c, marks[c])[LineOf(v)] <=> BitOf(v) \in old[LineOf(v)] \/ v = m
      BY <2>1, <2>2, <2>3, <2>4, <3>1 DEF BitMap
    <3>3. MarkedIn(c)' = MarkedIn(c) \union {m}
      BY <1>2, <2>1, <3>2 DEF MarkedIn, IsMarked
    <3> QED
      BY <2>1, <3>3
  <2>6. CASE ~marks[c].updated
    <3>1. Marked(c, marks[c]) = [old EXCEPT ![LineOf(m)] = @ \ {BitOf(m)}]
      BY <1>4, <2>6 DEF Marked
    <3>2. \A v \in VerticesOf(c) :
            BitOf(v) \in Marked(c, marks[c])[LineOf(v)] <=> BitOf(v) \in old[LineOf(v)] /\ v # m
      BY <2>1, <2>2, <2>3, <2>4, <3>1 DEF BitMap
    <3>3. MarkedIn(c)' = MarkedIn(c) \ {m}
      BY <1>2, <2>1, <3>2 DEF MarkedIn, IsMarked
    <3> QED
      BY <2>1, <3>3
  <2> QED
    BY <2>5, <2>6
<1> QED
  BY <1>3, <1>4

(* On the edge of the global end the two sets change places.               *)
LEMMA EdgeStep ==
  ASSUME Inv, NEW marks \in MarkInput, Tick(marks), NEW c \in Core, Rises(c)
  PROVE  /\ ToSend(c) = {} /\ p1V'[c] = None
         /\ ToSend(c)' = MarkedIn(c) /\ MarkedIn(c)' = {}
<1> USE DEF Tick, Stage1
<1>1. ~InBitmap(c) /\ vis_bitmap_now[c] = {} /\ p11End
  BY EdgeOfAll DEF Rises
<1>2. vis_bitmap_index[c] = BitMap_NUM
  <2>1. vis_bitmap_index[c] \in 0 .. BitMap_NUM
    BY DEF Inv, TypeOK
  <2> QED
    BY <1>1, <2>1, Sizes DEF InBitmap
<1>3. \A v \in VerticesOf(c) : LineOf(v) \in 0 .. BitMap_NUM - 1
  BY PlaceOf
<1>4. ToSend(c) = {}
  BY <1>1, <1>2, <1>3, Sizes DEF ToSend
<1>5. p1V'[c] = None
  BY <1>1 DEF SendVertex, Takes, HasBit
<1>6. /\ vis_bitmap_index'[c] = 0 /\ vis_bitmap_now'[c] = vis_bitmap[c][NextId(c)][0]
      /\ NowId(c)' = NextId(c) /\ NextId(c)' = NowId(c)
  BY <1>1, ReadStep, ParityStep
<1>7. /\ vis_bitmap'[c][NextId(c)] = vis_bitmap[c][NextId(c)]
      /\ \A l \in 0 .. BitMap_NUM : vis_bitmap'[c][NowId(c)][l] = vis_bitmap[c][NowId(c)][l]
  <2>1. marks[c] = None /\ ~LineDone(c)
    BY <1>1, MarkFacts DEF LineDone
  <2>2. Marked(c, marks[c]) = vis_bitmap[c][NextId(c)]
    BY <2>1 DEF Marked
  <2>3. TypeOK /\ UpdateBitmap(marks)
    BY DEF Inv
  <2>4. /\ vis_bitmap'[c][NextId(c)] = Marked(c, marks[c])
        /\ vis_bitmap'[c][NowId(c)] = SentLine(c)
        /\ \A l \in 0 .. BitMap_NUM : SentLine(c)[l] = vis_bitmap[c][NowId(c)][l]
    BY <2>1, <2>3, BitmapStep
  <2> QED
    BY <2>2, <2>4
<1>8. ToSend(c)' = MarkedIn(c)
  <2>1. \A v \in VerticesOf(c) : LineOf(v) = 0 \/ LineOf(v) > 0
    BY <1>3, Sizes
  <2> QED
    BY <1>6, <1>7, <2>1 DEF ToSend, MarkedIn, IsMarked
<1>9. MarkedIn(c)' = {}
  <2>1. \A v \in VerticesOf(c) : vis_bitmap[c][NowId(c)][LineOf(v)] = {}
    BY <1>2, <1>3, Sizes DEF Inv, Clear
  <2> QED
    BY <1>3, <1>6, <1>7, <2>1, Sizes DEF MarkedIn, IsMarked
<1> QED
  BY <1>4, <1>5, <1>8, <1>9

LEMMA AbstractInit == Init => Abstract!Init
<1> SUFFICES ASSUME Init PROVE Abstract!Init
  OBVIOUS
<1>1. ASSUME NEW c \in Core
      PROVE  /\ ToSend(c) = VerticesOf(c) /\ MarkedIn(c) = VerticesOf(c)
             /\ VerticesOf(c) = Abstract!VerticesOf(c)
  <2>1. \A v \in VerticesOf(c) : LineOf(v) \in 0 .. BitMap_NUM - 1 /\ BitOf(v) \in Bit
    BY PlaceOf
  <2>2. \A l \in 0 .. BitMap_NUM - 1 : Ones[l] = Bit
    BY Sizes DEF Ones
  <2>3. NowId(c) \in 0 .. 1 /\ NextId(c) \in 0 .. 1
    BY InitInv, ParityIds DEF Inv
  <2>4. \A v \in VerticesOf(c) :
          BitOf(v) \in vis_bitmap[c][NowId(c)][LineOf(v)] /\ BitOf(v) \in vis_bitmap[c][NextId(c)][LineOf(v)]
    BY <2>1, <2>2, <2>3 DEF Init
  <2>5. \A v \in VerticesOf(c) : LineOf(v) = 0 \/ LineOf(v) > 0
    BY <2>1, Sizes
  <2> QED
    BY <2>1, <2>4, <2>5 DEF Init, ToSend, MarkedIn, IsMarked, VerticesOf, Vertex,
       Abstract!VerticesOf, Abstract!Vertex
<1> QED
  BY <1>1 DEF Init, MarkedIn, Abstract!Init, Abstract!Core, Core

LEMMA AbstractNext ==
  ASSUME Inv, [Next]_vars
  PROVE  [Abstract!Next]_(Abstract!vars)
<1>1. ASSUME NEW marks \in MarkInput, Tick(marks) PROVE Abstract!Next
  <2>0. Inv'
    BY <1>1, NextInv DEF Next
  <2>1. /\ [c \in Core |-> ToSend(c)'] \in [Core -> SUBSET Vertex]
        /\ [c \in Core |-> MarkedIn(c)'] \in [Core -> SUBSET Vertex]
        /\ p1V' \in [Core -> Vertex \union {None}]
    <3>1. \A c \in Core : ToSend(c)' \subseteq Vertex /\ MarkedIn(c)' \subseteq Vertex
      BY DEF ToSend, MarkedIn, VerticesOf
    <3>2. p1V' \in [Core -> Option(Vertex)]
      BY <2>0 DEF Inv, TypeOK
    <3> QED
      BY <3>1, <3>2 DEF Option
  <2>2. CASE \E c \in Core : Rises(c)
    <3>1. \A c \in Core : Rises(c)
      BY <2>2, EdgeOfAll
    <3>2. Abstract!NextIteration
      BY <1>1, <3>1, EdgeStep DEF Abstract!NextIteration, Abstract!Core, Core, MarkedIn
    <3> QED
      BY <2>1, <3>2 DEF Abstract!Next, Abstract!Core, Core, Abstract!Vertex, Vertex, MarkedIn
  <2>3. CASE \A c \in Core : ~Rises(c)
    <3>1. ASSUME NEW c \in Core PROVE Abstract!Send(c)
      BY <1>1, <2>3, SendStep DEF Abstract!Send, Abstract!Lowest, Abstract!Core, Core
    <3>2. ASSUME NEW c \in Core PROVE Abstract!Mark(c)
      BY <1>1, <2>3, MarkStep
         DEF Abstract!Mark, Abstract!VerticesOf, Abstract!Vertex, VerticesOf, Vertex, MarkedIn
    <3>3. Abstract!Tick
      BY <3>1, <3>2 DEF Abstract!Tick, Abstract!Core, Core
    <3> QED
      BY <2>1, <3>3 DEF Abstract!Next, Abstract!Core, Core, Abstract!Vertex, Vertex, MarkedIn
  <2> QED
    BY <2>2, <2>3
<1>2. CASE UNCHANGED vars
  <2>1. \A c \in Core : ToSend(c)' = ToSend(c) /\ MarkedIn(c)' = MarkedIn(c)
    BY <1>2 DEF vars, control, bitmaps, ToSend, MarkedIn, IsMarked, NowId, NextId
  <2> QED
    BY <1>2, <2>1 DEF Abstract!vars, vars, MarkedIn
<1> QED
  BY <1>1, <1>2 DEF Next

(* Stage 1 sends every active vertex once, the lowest first, and the marks *)
(* of an iteration are the active vertices of the next one, for all cores  *)
(* at once: whatever the graph, the marks and the back pressure.           *)
THEOREM StageOneRefines == Spec => ImplementsActiveSet
<1>1. Init => Abstract!Init
  BY AbstractInit
<1>2. Inv /\ [Next]_vars => [Abstract!Next]_(Abstract!vars)
  BY AbstractNext
<1> QED
  BY <1>1, <1>2, StageOneCorrect, PTL DEF Spec, ImplementsActiveSet, Abstract!Spec

-----------------------------------------------------------------------------
(***************************************************************************)
(* The counter of active vertices.                                         *)
(***************************************************************************)

Bits == Core \X (0 .. BitMap_NUM) \X Bit
BitsOf(cores, marks) == {<<c, LineOf(marks[c].id), BitOf(marks[c].id)>> : c \in cores}

TurnedOn(marks)  == {c \in Core : marks[c] # None /\ marks[c].updated /\ ~IsMarked(c, marks[c].id)}
TurnedOff(marks) == {c \in Core : marks[c] # None /\ ~marks[c].updated /\ IsMarked(c, marks[c].id)}

(* The bits of a rectangle of lines and bits of all cores.                 *)
LEMMA BitCount ==
  ASSUME NEW m \in Nat, NEW n \in Nat, NEW k \in Nat
  PROVE  LET box == (0 .. m - 1) \X (0 .. n - 1) \X (0 .. k - 1)
         IN  IsFiniteSet(box) /\ Cardinality(box) = m * n * k
<1> DEFINE M == 0 .. m - 1
           N == 0 .. n - 1
           K == 0 .. k - 1
           pairs == (M \X N) \X K
           f == [x \in pairs |-> <<x[1][1], x[1][2], x[2]>>]
<1>1. /\ IsFiniteSet(M) /\ Cardinality(M) = m
      /\ IsFiniteSet(N) /\ Cardinality(N) = n
      /\ IsFiniteSet(K) /\ Cardinality(K) = k
  <2>1. \A i \in Nat : IsFiniteSet(0 .. i - 1) /\ Cardinality(0 .. i - 1) = i
    <3> SUFFICES ASSUME NEW i \in Nat PROVE IsFiniteSet(0 .. i - 1) /\ Cardinality(0 .. i - 1) = i
      OBVIOUS
    <3>1. 0 \in Int /\ i - 1 \in Int
      OBVIOUS
    <3>2. /\ IsFiniteSet(0 .. i - 1)
          /\ Cardinality(0 .. i - 1) = IF 0 > i - 1 THEN 0 ELSE i - 1 - 0 + 1
      BY <3>1, FS_Interval
    <3> QED
      BY <3>2
  <2> QED
    BY <2>1
<1> HIDE DEF M, N, K
<1>2. IsFiniteSet(M \X N) /\ Cardinality(M \X N) = m * n
  BY <1>1, FS_Product
<1>3. IsFiniteSet(pairs) /\ Cardinality(pairs) = m * n * k
  BY <1>1, <1>2, FS_Product
<1>4. f \in Bijection(pairs, M \X N \X K)
  <2>1. \A x \in pairs : f[x] \in M \X N \X K
    OBVIOUS
  <2>2. \A x, y \in pairs : f[x] = f[y] => x = y
    OBVIOUS
  <2>3. \A t \in M \X N \X K : \E x \in pairs : f[x] = t
    <3> SUFFICES ASSUME NEW t \in M \X N \X K PROVE \E x \in pairs : f[x] = t
      OBVIOUS
    <3>1. <<<<t[1], t[2]>>, t[3]>> \in pairs /\ t = <<t[1], t[2], t[3]>>
      OBVIOUS
    <3>2. f[<<<<t[1], t[2]>>, t[3]>>] = t
      BY <3>1
    <3> QED
      BY <3>1, <3>2
  <2> QED
    BY <2>1, <2>2, <2>3 DEF Bijection, Injection, IsInjective, Surjection
<1>5. IsFiniteSet(M \X N \X K) /\ Cardinality(M \X N \X K) = m * n * k
  BY <1>3, <1>4, FS_Bijection DEF ExistsBijection
<1> QED
  BY <1>5 DEF M, N, K

(* What is taken from a set and what is added to it.                       *)
LEMMA Exchanged ==
  ASSUME NEW S, IsFiniteSet(S), NEW off \in SUBSET S, NEW on, IsFiniteSet(on), on \cap S = {}
  PROVE  Cardinality((S \ off) \union on) = Cardinality(S) + Cardinality(on) - Cardinality(off)
<1>1. IsFiniteSet(S \ off) /\ Cardinality(S \ off) = Cardinality(S) - Cardinality(off)
  <2>1. S \cap off = off
    OBVIOUS
  <2> QED
    BY <2>1, FS_Difference
<1>2. Cardinality((S \ off) \union on)
        = Cardinality(S \ off) + Cardinality(on) - Cardinality((S \ off) \cap on)
  BY <1>1, FS_Union
<1>3. Cardinality((S \ off) \cap on) = 0
  <2>1. (S \ off) \cap on = {}
    OBVIOUS
  <2> QED
    BY <2>1, FS_EmptySet
<1>4. IsFiniteSet(off)
  BY FS_Subset
<1>5. Cardinality(S) \in Nat /\ Cardinality(on) \in Nat /\ Cardinality(off) \in Nat
  BY <1>4, FS_CardinalityType
<1> QED
  BY <1>1, <1>2, <1>3, <1>5

(* The cores whose mark changes a bit and the bits that change.            *)
LEMMA BitsOfCores ==
  ASSUME NEW marks \in MarkInput, NEW cores \in SUBSET Core, \A c \in cores : marks[c] # None
  PROVE  /\ IsFiniteSet(BitsOf(cores, marks)) /\ IsFiniteSet(cores)
         /\ Cardinality(BitsOf(cores, marks)) = Cardinality(cores)
<1> DEFINE f == [c \in cores |-> <<c, LineOf(marks[c].id), BitOf(marks[c].id)>>]
<1>1. IsFiniteSet(cores)
  <2>1. IsFiniteSet(Core)
    BY Sizes, FS_Interval DEF Core
  <2> QED
    BY <2>1, FS_Subset
<1>2. f \in Bijection(cores, BitsOf(cores, marks))
  BY DEF Bijection, Injection, IsInjective, Surjection, BitsOf
<1> QED
  BY <1>1, <1>2, FS_Bijection DEF ExistsBijection

LEMMA BitsFinite ==
  /\ IsFiniteSet(Bits)
  /\ \A S : S \subseteq Bits => IsFiniteSet(S)
<1>1. Bits = (0 .. CORE_NUM - 1) \X (0 .. (BitMap_NUM + 1) - 1) \X (0 .. BitMap_Length - 1)
  BY Sizes DEF Bits, Core, Bit
<1>2. CORE_NUM \in Nat /\ BitMap_NUM + 1 \in Nat /\ BitMap_Length \in Nat
  BY Sizes
<1>3. IsFiniteSet(Bits)
  BY <1>1, <1>2, BitCount
<1> QED
  BY <1>3, FS_Subset

LEMMA InitCount == Init => CountIsMarks
<1> SUFFICES ASSUME Init PROVE CountIsMarks
  OBVIOUS
<1> DEFINE box == (0 .. CORE_NUM - 1) \X (0 .. BitMap_NUM - 1) \X (0 .. BitMap_Length - 1)
<1>1. \A c \in Core : vis_bitmap[c][NextId(c)] = Ones
  BY Parity DEF Init, NextId
<1>2. MarkedBits = box
  <2>1. \A m \in Bits : m \in MarkedBits <=> m[2] < BitMap_NUM
    BY <1>1, Sizes DEF MarkedBits, Bits, Ones
  <2>2. \A m \in Bits : m[2] < BitMap_NUM <=> m \in box
    BY Sizes DEF Bits, Core, Bit
  <2>3. MarkedBits \subseteq Bits /\ box \subseteq Bits
    BY Sizes DEF MarkedBits, Bits, Core, Bit
  <2> QED
    BY <2>1, <2>2, <2>3
<1>3. CORE_NUM \in Nat /\ BitMap_NUM \in Nat /\ BitMap_Length \in Nat
  BY Sizes
<1>4. Cardinality(box) = CORE_NUM * BitMap_NUM * BitMap_Length
  BY <1>3, BitCount
<1>5. CORE_NUM * BitMap_NUM * BitMap_Length \in Int
  BY <1>3
<1>6. active_vertex_num = 0 /\ iteration_id[0] = 0
  BY Sizes DEF Init
<1> QED
  BY <1>2, <1>4, <1>5, <1>6 DEF CountIsMarks

(* Within an iteration the marks change the bits they say.                 *)
LEMMA BitsStep ==
  ASSUME Inv, NEW marks \in MarkInput, Tick(marks), \A c \in Core : ~Rises(c)
  PROVE  /\ MarkedBits' = (MarkedBits \ BitsOf(TurnedOff(marks), marks))
                            \union BitsOf(TurnedOn(marks), marks)
         /\ BitsOf(TurnedOff(marks), marks) \subseteq MarkedBits
         /\ BitsOf(TurnedOn(marks), marks) \cap MarkedBits = {}
<1> USE DEF Tick, Stage1
<1>1. ASSUME NEW c \in Core
      PROVE  /\ NextId(c)' = NextId(c) /\ vis_bitmap'[c][NextId(c)] = Marked(c, marks[c])
             /\ vis_bitmap[c][NextId(c)] \in BitMap
  BY ParityStep, BitmapStep, ParityIds DEF Inv, TypeOK
<1>2. ASSUME NEW c \in Core, marks[c] # None
      PROVE  /\ LineOf(marks[c].id) \in 0 .. BitMap_NUM /\ BitOf(marks[c].id) \in Bit
             /\ marks[c].updated \in BOOLEAN
  BY <1>2, MarkFacts, PlaceOf, Sizes
<1>3. ASSUME NEW c \in Core, NEW l \in 0 .. BitMap_NUM, NEW b \in Bit
      PROVE  /\ <<c, l, b>> \in MarkedBits <=> b \in vis_bitmap[c][NextId(c)][l]
             /\ <<c, l, b>> \in MarkedBits' <=> b \in Marked(c, marks[c])[l]
             /\ <<c, l, b>> \in BitsOf(TurnedOff(marks), marks) <=>
                  /\ marks[c] # None /\ ~marks[c].updated /\ IsMarked(c, marks[c].id)
                  /\ l = LineOf(marks[c].id) /\ b = BitOf(marks[c].id)
             /\ <<c, l, b>> \in BitsOf(TurnedOn(marks), marks) <=>
                  /\ marks[c] # None /\ marks[c].updated /\ ~IsMarked(c, marks[c].id)
                  /\ l = LineOf(marks[c].id) /\ b = BitOf(marks[c].id)
  <2>1. <<c, l, b>> \in MarkedBits <=> b \in vis_bitmap[c][NextId(c)][l]
    BY DEF MarkedBits
  <2>2. <<c, l, b>> \in MarkedBits' <=> b \in Marked(c, marks[c])[l]
    BY <1>1 DEF MarkedBits
  <2>3. /\ <<c, l, b>> \in BitsOf(TurnedOff(marks), marks) <=>
             /\ marks[c] # None /\ ~marks[c].updated /\ IsMarked(c, marks[c].id)
             /\ l = LineOf(marks[c].id) /\ b = BitOf(marks[c].id)
        /\ <<c, l, b>> \in BitsOf(TurnedOn(marks), marks) <=>
             /\ marks[c] # None /\ marks[c].updated /\ ~IsMarked(c, marks[c].id)
             /\ l = LineOf(marks[c].id) /\ b = BitOf(marks[c].id)
    BY DEF BitsOf, TurnedOff, TurnedOn
  <2> QED
    BY <2>1, <2>2, <2>3
<1>4. ASSUME NEW c \in Core, NEW l \in 0 .. BitMap_NUM, NEW b \in Bit
      PROVE  b \in Marked(c, marks[c])[l] <=>
               \/ /\ b \in vis_bitmap[c][NextId(c)][l]
                  /\ <<c, l, b>> \notin BitsOf(TurnedOff(marks), marks)
               \/ <<c, l, b>> \in BitsOf(TurnedOn(marks), marks)
  <2> DEFINE old == vis_bitmap[c][NextId(c)]
  <2>0. old \in BitMap
    BY <1>1
  <2>1. CASE marks[c] = None
    BY <1>3, <2>1 DEF Marked
  <2>2. CASE marks[c] # None /\ marks[c].updated
    <3>1. Marked(c, marks[c])[l] = IF l = LineOf(marks[c].id) THEN old[l] \union {BitOf(marks[c].id)} ELSE old[l]
      BY <2>0, <2>2 DEF Marked, BitMap
    <3> QED
      BY <1>3, <2>2, <3>1 DEF IsMarked
  <2>3. CASE marks[c] # None /\ ~marks[c].updated
    <3>1. Marked(c, marks[c])[l] = IF l = LineOf(marks[c].id) THEN old[l] \ {BitOf(marks[c].id)} ELSE old[l]
      BY <2>0, <2>3 DEF Marked, BitMap
    <3> QED
      BY <1>3, <2>3, <3>1 DEF IsMarked
  <2> QED
    BY <2>1, <2>2, <2>3
<1>5. /\ MarkedBits \subseteq Bits /\ MarkedBits' \subseteq Bits
      /\ BitsOf(TurnedOff(marks), marks) \subseteq Bits
      /\ BitsOf(TurnedOn(marks), marks) \subseteq Bits
  BY <1>2 DEF MarkedBits, Bits, BitsOf, TurnedOff, TurnedOn
<1>6. \A m \in Bits : /\ m = <<m[1], m[2], m[3]>>
                      /\ m[1] \in Core /\ m[2] \in 0 .. BitMap_NUM /\ m[3] \in Bit
  BY DEF Bits
<1>7. \A m \in Bits :
        m \in MarkedBits' <=> \/ m \in MarkedBits /\ m \notin BitsOf(TurnedOff(marks), marks)
                              \/ m \in BitsOf(TurnedOn(marks), marks)
  BY <1>3, <1>4, <1>6
<1>8. \A m \in Bits :
        /\ m \in BitsOf(TurnedOff(marks), marks) => m \in MarkedBits
        /\ m \in BitsOf(TurnedOn(marks), marks) => m \notin MarkedBits
  BY <1>3, <1>6 DEF IsMarked
<1> QED
  BY <1>5, <1>7, <1>8

(* The edge of the global end leaves no bit marked.                        *)
LEMMA BitsCleared ==
  ASSUME Inv, NEW marks \in MarkInput, Tick(marks), \A c \in Core : Rises(c)
  PROVE  MarkedBits' = {}
<1> USE DEF Tick, Stage1
<1> SUFFICES ASSUME NEW c \in Core, NEW l \in 0 .. BitMap_NUM
             PROVE  vis_bitmap'[c][NextId(c)'][l] = {}
  BY DEF MarkedBits
<1>1. ~InBitmap(c) /\ vis_bitmap_index[c] = BitMap_NUM
  <2>1. ~InBitmap(c) /\ vis_bitmap_index[c] \in 0 .. BitMap_NUM
    BY EdgeOfAll DEF Inv, TypeOK
  <2> QED
    BY <2>1, Sizes DEF InBitmap
<1>2. NextId(c)' = NowId(c) /\ vis_bitmap'[c][NowId(c)] = SentLine(c)
  BY ParityStep, BitmapStep DEF Inv
<1>3. SentLine(c)[l] = vis_bitmap[c][NowId(c)][l]
  BY <1>1, BitmapStep DEF Inv, LineDone
<1>4. vis_bitmap[c][NowId(c)][l] = {}
  <2>1. NowId(c) \in 0 .. 1 /\ (l < BitMap_NUM \/ l = BitMap_NUM)
    BY ParityIds, Sizes DEF Inv
  <2> QED
    BY <1>1, <2>1 DEF Inv, Clear
<1> QED
  BY <1>2, <1>3, <1>4

LEMMA CountNext == Inv /\ CountIsMarks /\ [Next]_vars => CountIsMarks'
<1> SUFFICES ASSUME Inv, CountIsMarks, [Next]_vars PROVE CountIsMarks'
  OBVIOUS
<1> DEFINE all == CORE_NUM * BitMap_NUM * BitMap_Length
<1>1. ASSUME NEW marks \in MarkInput, Tick(marks) PROVE CountIsMarks'
  <2> USE DEF Tick, Stage1
  <2> DEFINE on  == TurnedOn(marks)
             off == TurnedOff(marks)
             rises == iteration_end[0] /\ Rises(0)
  <2>1. active_vertex_num' =
          (IF rises THEN 0 ELSE active_vertex_num) + Cardinality(on) - Cardinality(off)
    BY <1>1 DEF UpdateBitmap, TurnedOn, TurnedOff
  <2>2. /\ IsFiniteSet(on) /\ IsFiniteSet(BitsOf(on, marks))
        /\ Cardinality(BitsOf(on, marks)) = Cardinality(on)
        /\ IsFiniteSet(off) /\ IsFiniteSet(BitsOf(off, marks))
        /\ Cardinality(BitsOf(off, marks)) = Cardinality(off)
    <3>1. /\ on \in SUBSET Core /\ \A c \in on : marks[c] # None
          /\ off \in SUBSET Core /\ \A c \in off : marks[c] # None
      BY DEF TurnedOn, TurnedOff
    <3> QED
      BY <3>1, BitsOfCores
  <2>3. Cardinality(on) \in Nat /\ Cardinality(off) \in Nat
    BY <2>2, FS_CardinalityType
  <2>4. iteration_id[0] \in Nat /\ active_vertex_num \in Int /\ all \in Int
    BY Sizes DEF Inv, TypeOK
  <2>5. CASE \E c \in Core : Rises(c)
    <3>1. (\A c \in Core : Rises(c)) /\ rises
      BY <2>5, Sizes, EdgeOfAll
    <3>2. MarkedBits' = {} /\ Cardinality({}) = 0
      BY <1>1, <3>1, BitsCleared, FS_EmptySet
    <3>3. on = {} /\ off = {}
      <4>1. \A c \in Core : marks[c] = None
        BY <3>1, MarkFacts DEF Rises
      <4> QED
        BY <4>1 DEF TurnedOn, TurnedOff
    <3>4. iteration_id'[0] # 0
      <4>1. 0 \in Core /\ Rises(0)
        BY <3>1, Sizes
      <4>2. iteration_id'[0] = iteration_id[0] + 1
        BY <1>1, <4>1, CountStep
      <4> QED
        BY <2>4, <4>2
    <3>5. Cardinality(MarkedBits') = 0 /\ active_vertex_num' = 0
      BY <2>1, <3>1, <3>2, <3>3
    <3> QED
      BY <3>4, <3>5 DEF CountIsMarks
  <2>6. CASE \A c \in Core : ~Rises(c)
    <3>1. ~rises /\ iteration_id'[0] = iteration_id[0]
      BY <1>1, <2>6, Sizes, CountStep
    <3>2. /\ MarkedBits' = (MarkedBits \ BitsOf(off, marks)) \union BitsOf(on, marks)
          /\ BitsOf(off, marks) \subseteq MarkedBits
          /\ BitsOf(on, marks) \cap MarkedBits = {}
      BY <1>1, <2>6, BitsStep
    <3>3. IsFiniteSet(MarkedBits)
      BY BitsFinite DEF MarkedBits, Bits
    <3> HIDE DEF on, off
    <3>4. Cardinality(MarkedBits') = Cardinality(MarkedBits) + Cardinality(on) - Cardinality(off)
      BY <2>2, <3>2, <3>3, Exchanged
    <3>5. Cardinality(MarkedBits) \in Nat
      BY <3>3, FS_CardinalityType
    <3>6. active_vertex_num' = active_vertex_num + Cardinality(on) - Cardinality(off)
      BY <2>1, <3>1
    <3>7. active_vertex_num = Cardinality(MarkedBits) - (IF iteration_id[0] = 0 THEN all ELSE 0)
      BY DEF CountIsMarks
    <3> HIDE DEF all, rises
    <3>8. active_vertex_num'
            = Cardinality(MarkedBits') - (IF iteration_id'[0] = 0 THEN all ELSE 0)
      BY <2>3, <2>4, <3>1, <3>4, <3>5, <3>6, <3>7
    <3> QED
      BY <3>8 DEF CountIsMarks, all
  <2> QED
    BY <2>5, <2>6
<1>2. CASE UNCHANGED vars
  BY <1>2 DEF vars, control, bitmaps, CountIsMarks, MarkedBits, NextId
<1> QED
  BY <1>1, <1>2 DEF Next

(* The counter of active vertices, which the code keeps from the changes   *)
(* that the marks make, is the number of bits set for the next iteration,  *)
(* whatever the marks and however often a vertex is marked and unmarked.   *)
THEOREM CountIsMarksHolds == Spec => []CountIsMarks
BY InitCount, CountNext, StageOneCorrect, PTL DEF Spec

=============================================================================
