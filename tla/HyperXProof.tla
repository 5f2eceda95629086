----------------------------- MODULE HyperXProof -----------------------------
(***************************************************************************)
(* Proofs about HyperX, for a grid of any size, buffers of any depth and   *)
(* any set of vertices.                                                    *)
(***************************************************************************)
EXTENDS HyperX, Arithmetic, SequenceTheorems

-----------------------------------------------------------------------------
(***************************************************************************)
(* The inductive invariant.                                                *)
(***************************************************************************)
(* Where an update may be: anywhere in row buffers, in the column buffers  *)
(* of its row, in the local buffer of its node.                            *)
Routed     == {u \in Update : u.to = Owner(u.id)}
ForRow(n)  == {u \in Routed : u.to[1] = n[1]}
ForNode(n) == {u \in Routed : u.to = n}

Routing ==
  \A n \in Node :
    /\ scheduleV[n] \in Routed \union {None} /\ rowBuffer[n] \in Seq(Routed)
    /\ columnBuffer[n] \in Seq(ForRow(n)) /\ localBuffer[n] \in Seq(ForNode(n))
    /\ updateV[n] \in ForNode(n) \union {None}

(* A scheduler that has ended hands over nothing more, and a node sees the *)
(* end only of one that has.                                               *)
EndLevels ==
  \A n \in Node :
    /\ scheduleEnd[n] => scheduleV[n] = None
    /\ endSeen[n] => scheduleEnd[n]

(* The inductive invariant behind the safety properties above: every step  *)
(* of every node keeps routing, fill levels and end levels together.       *)
NetworkInv ==
  /\ TypeOK /\ Routing /\ EndLevels
  /\ BoundedBuffers /\ EndExcludesUpdate /\ EndIsGlobal

-----------------------------------------------------------------------------
(***************************************************************************)
(* The digits of a vertex.                                                 *)
(***************************************************************************)
LEMMA CoreNumber == CORE_NUM \in Nat \ {0}
BY GridAssumption DEF CORE_NUM

(* The row and the column the crossbars compute are those of the owner,    *)
(* although one is taken from the id modulo CORE_NUM and the other from    *)
(* the id modulo HPX_COLUMN_NUM.                                           *)
LEMMA OwnerDigits ==
  ASSUME NEW v \in Vertex
  PROVE  /\ RowOf(v) \in Row /\ ColumnOf(v) \in Column
         /\ Owner(v) = <<RowOf(v), ColumnOf(v)>>
<1> DEFINE R == HPX_ROW_NUM
           C == HPX_COLUMN_NUM
           m == v % CORE_NUM
<1>1. /\ R \in Nat \ {0} /\ C \in Nat \ {0} /\ v \in Nat
  BY GridAssumption
<1>2. /\ m \in 0 .. CORE_NUM - 1 /\ v \div CORE_NUM \in Int
      /\ v = (v \div CORE_NUM) * CORE_NUM + m
  BY <1>1, CoreNumber, Digits
<1>3. /\ m % C \in 0 .. C - 1 /\ m \div C \in Int
      /\ m = (m \div C) * C + (m % C)
  BY <1>1, <1>2, CoreNumber, Digits
<1>4. m % C = v % C
  <2> DEFINE q == (v \div CORE_NUM) * R + (m \div C)
  <2>1. q \in Int
    BY <1>1, <1>2, <1>3
  <2>2. (v \div CORE_NUM) * CORE_NUM = ((v \div CORE_NUM) * R) * C
    BY <1>1, <1>2 DEF CORE_NUM
  <2>3. v = q * C + (m % C)
    BY <1>1, <1>2, <1>3, <2>2
  <2> QED
    BY <1>1, <1>3, <2>1, <2>3, DigitsUnique
<1>5. m \div C \in 0 .. R - 1
  <2>1. m >= 0 /\ m < R * C
    BY <1>1, <1>2, CoreNumber DEF CORE_NUM
  <2>2. m \div C >= 0
    BY <1>1, <1>3, <2>1
  <2>3. m \div C < R
    <3> SUFFICES ASSUME m \div C >= R PROVE FALSE
      BY <1>1, <1>3
    <3>1. m \div C \in Int /\ R \in Int /\ C \in Nat
      BY <1>1, <1>3
    <3>2. (m \div C) * C >= R * C
      BY <3>1, ProductMonotone, Zenon
    <3> QED
      BY <1>1, <1>2, <1>3, <2>1, <3>2
  <2> QED
    BY <1>1, <1>3, <2>2, <2>3
<1>6. RowOf(v) \in Row /\ ColumnOf(v) \in Column
  BY <1>3, <1>4, <1>5 DEF RowOf, ColumnOf, Row, Column
<1>7. /\ <<RowOf(v), ColumnOf(v)>> \in Node
      /\ RowOf(v) * C + ColumnOf(v) = m
  BY <1>3, <1>4, <1>6 DEF RowOf, ColumnOf, Node
<1>8. ASSUME NEW n \in Node, n[1] * C + n[2] = m
      PROVE  n = <<RowOf(v), ColumnOf(v)>>
  <2>1. n[1] \in Int /\ n[2] \in 0 .. C - 1 /\ n = <<n[1], n[2]>>
    BY <1>1 DEF Node, Row, Column
  <2>2. m % C = n[2] /\ m \div C = n[1]
    BY <1>1, <1>8, <2>1, DigitsUnique
  <2> QED
    BY <1>4, <2>1, <2>2 DEF RowOf, ColumnOf
<1>9. PICK n \in Node : n = Owner(v) /\ n[1] * C + n[2] = m
  BY <1>7 DEF Owner
<1> QED
  BY <1>6, <1>8, <1>9

LEMMA RoutedDigits ==
  ASSUME NEW u \in Routed
  PROVE  /\ u \in Update /\ u # None /\ u.to = <<RowOf(u.id), ColumnOf(u.id)>>
         /\ RowOf(u.id) \in Row /\ ColumnOf(u.id) \in Column
BY OwnerDigits, NoneAssumption DEF Routed, Update

-----------------------------------------------------------------------------
(* Arbitration: an output that is granted is granted to one of those that  *)
(* ask for it, and only if it has room.                                    *)

LEMMA FirstIsInput ==
  ASSUME clk \in Int, NEW N \in Nat \ {0},
         NEW inputs, inputs \subseteq 0 .. N - 1, inputs # {}
  PROVE  First(inputs, N) \in inputs
<1> DEFINE turn(i) == (i - clk) % N
           turns   == {turn(i) : i \in inputs}
<1>1. turns \subseteq Nat /\ turns # {}
  <2>1. \A i \in inputs : i - clk \in Int
    OBVIOUS
  <2>2. \A i \in inputs : turn(i) \in Nat
    BY <2>1, Digits
  <2> QED
    BY <2>2
<1>2. PICK t \in turns : \A y \in turns : t <= y
  BY <1>1, LeastExists, Zenon
<1>3. \E i \in inputs : \A k \in inputs : turn(i) <= turn(k)
  BY <1>2
<1> QED
  BY <1>3 DEF First

LEMMA RowWinnerAsks ==
  ASSUME TypeOK, NEW n \in Node, RowWinner(n[2], n[1]) # None
  PROVE  /\ RowWinner(n[2], n[1]) \in RowRequests(n[2], n[1])
         /\ ~Full(columnBuffer[n])
<1>1. clk \in Int /\ HPX_ROW_NUM \in Nat \ {0}
  BY GridAssumption DEF TypeOK
<1>2. RowRequests(n[2], n[1]) \subseteq 0 .. HPX_ROW_NUM - 1
  BY DEF RowRequests, Row
<1>3. n = <<n[1], n[2]>>
  BY DEF Node
<1>4. RowRequests(n[2], n[1]) # {} /\ ~Full(columnBuffer[n])
  BY <1>3 DEF RowWinner
<1>5. RowWinner(n[2], n[1]) = First(RowRequests(n[2], n[1]), HPX_ROW_NUM)
  BY <1>3, <1>4 DEF RowWinner
<1> QED
  BY <1>1, <1>2, <1>4, <1>5, FirstIsInput

LEMMA ColumnWinnerAsks ==
  ASSUME TypeOK, NEW n \in Node, ColumnWinner(n[1], n[2]) # None
  PROVE  /\ ColumnWinner(n[1], n[2]) \in ColumnRequests(n[1], n[2])
         /\ ~Full(localBuffer[n])
<1>1. clk \in Int /\ HPX_COLUMN_NUM \in Nat \ {0}
  BY GridAssumption DEF TypeOK
<1>2. ColumnRequests(n[1], n[2]) \subseteq 0 .. HPX_COLUMN_NUM - 1
  BY DEF ColumnRequests, Column
<1>3. n = <<n[1], n[2]>>
  BY DEF Node
<1>4. ColumnRequests(n[1], n[2]) # {} /\ ~Full(localBuffer[n])
  BY <1>3 DEF ColumnWinner
<1>5. ColumnWinner(n[1], n[2]) = First(ColumnRequests(n[1], n[2]), HPX_COLUMN_NUM)
  BY <1>3, <1>4 DEF ColumnWinner
<1> QED
  BY <1>1, <1>2, <1>4, <1>5, FirstIsInput

(* What arrives at a buffer belongs there.                                 *)
LEMMA FromRowBelongs ==
  ASSUME TypeOK, Routing, NEW n \in Node
  PROVE  /\ FromRow(n) \in ForRow(n) \union {None}
         /\ FromRow(n) # None =>
              /\ ~Full(columnBuffer[n])
              /\ \E i \in Row : <<i, n[2]>> \in Node /\ rowBuffer[<<i, n[2]>>] # <<>>
<1> SUFFICES ASSUME RowWinner(n[2], n[1]) # None
             PROVE  /\ FromRow(n) \in ForRow(n) /\ ~Full(columnBuffer[n])
                    /\ \E i \in Row : <<i, n[2]>> \in Node /\ rowBuffer[<<i, n[2]>>] # <<>>
  BY DEF FromRow
<1> DEFINE i == RowWinner(n[2], n[1])
           u == Head(rowBuffer[<<i, n[2]>>])
<1>1. i \in Row /\ rowBuffer[<<i, n[2]>>] # <<>> /\ RowOf(u.id) = n[1]
  BY RowWinnerAsks DEF RowRequests
<1>2. <<i, n[2]>> \in Node
  BY <1>1 DEF Node
<1>3. u \in Routed
  BY <1>1, <1>2 DEF Routing
<1>4. u \in ForRow(n)
  BY <1>1, <1>3, RoutedDigits DEF ForRow
<1> QED
  BY <1>1, <1>2, <1>4, RowWinnerAsks DEF FromRow

LEMMA FromColumnBelongs ==
  ASSUME TypeOK, Routing, NEW n \in Node
  PROVE  /\ FromColumn(n) \in ForNode(n) \union {None}
         /\ FromColumn(n) # None =>
              /\ ~Full(localBuffer[n])
              /\ \E j \in Column : <<n[1], j>> \in Node /\ columnBuffer[<<n[1], j>>] # <<>>
<1> SUFFICES ASSUME ColumnWinner(n[1], n[2]) # None
             PROVE  /\ FromColumn(n) \in ForNode(n) /\ ~Full(localBuffer[n])
                    /\ \E j \in Column : <<n[1], j>> \in Node /\ columnBuffer[<<n[1], j>>] # <<>>
  BY DEF FromColumn
<1> DEFINE j == ColumnWinner(n[1], n[2])
           u == Head(columnBuffer[<<n[1], j>>])
<1>1. j \in Column /\ columnBuffer[<<n[1], j>>] # <<>> /\ ColumnOf(u.id) = n[2]
  BY ColumnWinnerAsks DEF ColumnRequests
<1>2. <<n[1], j>> \in Node /\ n = <<n[1], n[2]>>
  BY <1>1 DEF Node
<1>3. u \in ForRow(<<n[1], j>>)
  BY <1>1, <1>2 DEF Routing
<1>4. u \in Routed /\ u.to[1] = n[1]
  BY <1>3 DEF ForRow
<1>5. u.to = n
  BY <1>1, <1>2, <1>4, RoutedDigits
<1> QED
  BY <1>1, <1>2, <1>4, <1>5, ColumnWinnerAsks DEF FromColumn, ForNode

-----------------------------------------------------------------------------
(* One node: what a push and a pop do to a queue.                          *)

LEMMA PushPop ==
  ASSUME NEW S, None \notin S, NEW q \in Seq(S), NEW b \in BOOLEAN, b => q # <<>>,
         NEW x \in S \union {None}, NEW next, next = Push(Pop(q, b), x)
  PROVE  /\ next \in Seq(S) /\ Len(next) <= Len(q) + 1
         /\ x = None => Len(next) <= Len(q)
         /\ q = <<>> /\ x = None => next = <<>>
<1>1. Pop(q, b) \in Seq(S) /\ Len(Pop(q, b)) <= Len(q) /\ Len(q) \in Nat
  BY DEF Pop
<1>2. q = <<>> => Pop(q, b) = <<>>
  BY DEF Pop
<1> QED
  BY <1>1, <1>2 DEF Push

LEMMA Reads ==
  ASSUME NEW n \in Node, NEW full
  PROVE  /\ ReadRow(n) \in BOOLEAN /\ (ReadRow(n) => rowBuffer[n] # <<>>)
         /\ ReadColumn(n) \in BOOLEAN /\ (ReadColumn(n) => columnBuffer[n] # <<>>)
         /\ Output(n, full) \in BOOLEAN /\ (Output(n, full) => localBuffer[n] # <<>>)
BY DEF ReadRow, ReadColumn, Output

LEMMA Subtypes ==
  ASSUME NEW n \in Node
  PROVE  /\ ForNode(n) \subseteq Routed /\ ForRow(n) \subseteq Routed /\ Routed \subseteq Update
         /\ None \notin Routed /\ None \notin ForRow(n) /\ None \notin ForNode(n)
BY NoneAssumption DEF ForNode, ForRow, Routed

-----------------------------------------------------------------------------
(* The initial states.                                                     *)

LEMMA InitInv == Init => NetworkInv
<1> SUFFICES ASSUME Init PROVE NetworkInv
  OBVIOUS
<1>1. TypeOK
  <2>1. /\ scheduleV \in [Node -> Update \union {None}]
        /\ updateV \in [Node -> Update \union {None}]
        /\ rowBuffer \in [Node -> Seq(Update)] /\ columnBuffer \in [Node -> Seq(Update)]
        /\ localBuffer \in [Node -> Seq(Update)]
    BY DEF Init
  <2>2. /\ scheduleEnd \in [Node -> BOOLEAN] /\ endSeen \in [Node -> BOOLEAN]
        /\ iterationEnd \in [Node -> BOOLEAN]
    BY DEF Init
  <2>3. clk \in 0 .. CLK_PERIOD - 1 /\ sent \in [Node -> 0 .. MAX_SENT]
    BY GridAssumption DEF Init
  <2> QED
    BY <2>1, <2>2, <2>3 DEF TypeOK
<1>2. Routing
  BY DEF Init, Routing
<1>3. EndLevels
  BY DEF Init, EndLevels
<1>4. BoundedBuffers
  BY GridAssumption DEF Init, BoundedBuffers
<1>5. EndExcludesUpdate
  BY DEF Init, EndExcludesUpdate
<1>6. EndIsGlobal
  BY DEF Init, EndIsGlobal, Empty
<1> QED
  BY <1>1, <1>2, <1>3, <1>4, <1>5, <1>6 DEF NetworkInv

-----------------------------------------------------------------------------
(* A tick.  What the schedulers hand over comes first, since it depends on *)
(* the levels only.                                                        *)

LEMMA HandOverStep ==
  ASSUME TypeOK, EndLevels, NEW S \in SUBSET MaySend, NEW v \in [S -> Vertex], HandOver(S, v)
  PROVE  /\ scheduleV' \in [Node -> Routed \union {None}]
         /\ scheduleEnd' \in [Node -> BOOLEAN] /\ sent' \in [Node -> 0 .. MAX_SENT]
         /\ \A n \in Node :
              /\ scheduleV'[n] # None => ~Full(rowBuffer[n])
              /\ scheduleEnd'[n] => scheduleV'[n] = None
              /\ scheduleEnd[n] => scheduleEnd'[n]
<1>1. S \subseteq Node
  BY SourceAssumption DEF MaySend
<1>2. \A n \in S : ~scheduleEnd[n] /\ ~Full(rowBuffer[n]) /\ sent[n] + 1 \in 1 .. MAX_SENT
  BY <1>1, GridAssumption DEF MaySend, TypeOK
<1>3. \A n \in S : [id |-> v[n], to |-> Owner(v[n]), from |-> n, nr |-> sent[n] + 1] \in Routed
  <2> SUFFICES ASSUME NEW n \in S
               PROVE  [id |-> v[n], to |-> Owner(v[n]), from |-> n, nr |-> sent[n] + 1] \in Routed
    OBVIOUS
  <2>1. v[n] \in Vertex /\ n \in Node /\ sent[n] + 1 \in 1 .. MAX_SENT
    BY <1>1, <1>2
  <2>2. Owner(v[n]) \in Node
    BY <2>1, OwnerDigits DEF Node
  <2> QED
    BY <2>1, <2>2 DEF Routed, Update
<1>4. PICK E \in SUBSET {n \in Node \ S : ~scheduleEnd[n]} :
        scheduleEnd' = [n \in Node |-> scheduleEnd[n] \/ n \in E]
  BY DEF HandOver
<1>5. scheduleV' \in [Node -> Routed \union {None}]
  BY <1>3 DEF HandOver
<1>6. sent' \in [Node -> 0 .. MAX_SENT]
  <2>1. \A n \in S : sent[n] + 1 \in 0 .. MAX_SENT
    BY <1>2, GridAssumption
  <2> QED
    BY <2>1 DEF HandOver, TypeOK
<1>7. scheduleEnd' \in [Node -> BOOLEAN]
  BY <1>4
<1>8. \A n \in Node : scheduleV'[n] # None => n \in S
  BY DEF HandOver
<1>9. \A n \in Node : scheduleEnd'[n] => n \notin S
  BY <1>2, <1>4
<1> QED
  BY <1>2, <1>4, <1>5, <1>6, <1>7, <1>8, <1>9

LEMMA MoveStep ==
  ASSUME TypeOK, Routing, NEW full, MoveUpdates(full), NEW n \in Node
  PROVE  /\ rowBuffer'[n] \in Seq(Routed) /\ columnBuffer'[n] \in Seq(ForRow(n))
         /\ localBuffer'[n] \in Seq(ForNode(n)) /\ updateV'[n] \in ForNode(n) \union {None}
         /\ Len(rowBuffer'[n]) <= Len(rowBuffer[n]) + 1
         /\ scheduleV[n] = None => Len(rowBuffer'[n]) <= Len(rowBuffer[n])
         /\ Len(columnBuffer'[n]) <= Len(columnBuffer[n]) + 1
         /\ FromRow(n) = None => Len(columnBuffer'[n]) <= Len(columnBuffer[n])
         /\ Len(localBuffer'[n]) <= Len(localBuffer[n]) + 1
         /\ FromColumn(n) = None => Len(localBuffer'[n]) <= Len(localBuffer[n])
         /\ rowBuffer[n] = <<>> /\ scheduleV[n] = None => rowBuffer'[n] = <<>>
         /\ columnBuffer[n] = <<>> /\ FromRow(n) = None => columnBuffer'[n] = <<>>
         /\ localBuffer[n] = <<>> => updateV'[n] = None
         /\ localBuffer[n] = <<>> /\ FromColumn(n) = None => localBuffer'[n] = <<>>
<1>1. /\ rowBuffer[n] \in Seq(Routed) /\ scheduleV[n] \in Routed \union {None}
      /\ columnBuffer[n] \in Seq(ForRow(n)) /\ localBuffer[n] \in Seq(ForNode(n))
  BY DEF Routing
<1>2. /\ FromRow(n) \in ForRow(n) \union {None} /\ FromColumn(n) \in ForNode(n) \union {None}
  BY FromRowBelongs, FromColumnBelongs
<1>3. /\ rowBuffer'[n] = Push(Pop(rowBuffer[n], ReadRow(n)), scheduleV[n])
      /\ columnBuffer'[n] = Push(Pop(columnBuffer[n], ReadColumn(n)), FromRow(n))
      /\ localBuffer'[n] = Push(Pop(localBuffer[n], Output(n, full)), FromColumn(n))
      /\ updateV'[n] = IF Output(n, full) THEN Head(localBuffer[n]) ELSE None
  BY DEF MoveUpdates
<1>4. /\ rowBuffer'[n] \in Seq(Routed)
      /\ Len(rowBuffer'[n]) <= Len(rowBuffer[n]) + 1
      /\ scheduleV[n] = None => Len(rowBuffer'[n]) <= Len(rowBuffer[n])
      /\ rowBuffer[n] = <<>> /\ scheduleV[n] = None => rowBuffer'[n] = <<>>
  <2>1. /\ rowBuffer[n] \in Seq(Routed) /\ scheduleV[n] \in Routed \union {None}
        /\ None \notin Routed /\ ReadRow(n) \in BOOLEAN /\ (ReadRow(n) => rowBuffer[n] # <<>>)
    BY <1>1, Reads, Subtypes
  <2> QED
    BY <1>3, <2>1, PushPop, Zenon
<1>5. /\ columnBuffer'[n] \in Seq(ForRow(n))
      /\ Len(columnBuffer'[n]) <= Len(columnBuffer[n]) + 1
      /\ FromRow(n) = None => Len(columnBuffer'[n]) <= Len(columnBuffer[n])
      /\ columnBuffer[n] = <<>> /\ FromRow(n) = None => columnBuffer'[n] = <<>>
  <2>1. /\ columnBuffer[n] \in Seq(ForRow(n)) /\ FromRow(n) \in ForRow(n) \union {None}
        /\ None \notin ForRow(n) /\ ReadColumn(n) \in BOOLEAN /\ (ReadColumn(n) => columnBuffer[n] # <<>>)
    BY <1>1, <1>2, Reads, Subtypes
  <2> QED
    BY <1>3, <2>1, PushPop, Zenon
<1>6. /\ localBuffer'[n] \in Seq(ForNode(n))
      /\ Len(localBuffer'[n]) <= Len(localBuffer[n]) + 1
      /\ FromColumn(n) = None => Len(localBuffer'[n]) <= Len(localBuffer[n])
      /\ localBuffer[n] = <<>> /\ FromColumn(n) = None => localBuffer'[n] = <<>>
  <2>1. /\ localBuffer[n] \in Seq(ForNode(n)) /\ FromColumn(n) \in ForNode(n) \union {None}
        /\ None \notin ForNode(n) /\ Output(n, full) \in BOOLEAN /\ (Output(n, full) => localBuffer[n] # <<>>)
    BY <1>1, <1>2, Reads, Subtypes
  <2> QED
    BY <1>3, <2>1, PushPop, Zenon
<1>7. /\ updateV'[n] \in ForNode(n) \union {None}
      /\ localBuffer[n] = <<>> => updateV'[n] = None
  BY <1>1, <1>3 DEF Output
<1> QED
  BY <1>4, <1>5, <1>6, <1>7

LEMMA NextInv == NetworkInv /\ [Next]_vars => NetworkInv'
<1> SUFFICES ASSUME NetworkInv, [Next]_vars PROVE NetworkInv'
  OBVIOUS
<1> USE DEF NetworkInv
<1>1. ASSUME NEW full \in SUBSET {n \in Node : localBuffer[n] # <<>>}, Tick(full)
      PROVE  NetworkInv'
  <2>1. PICK S \in SUBSET MaySend : \E v \in [S -> Vertex] : HandOver(S, v)
    BY <1>1 DEF Tick
  <2>2. PICK v \in [S -> Vertex] : HandOver(S, v)
    BY <2>1
  <2>3. MoveUpdates(full) /\ DetectEnd /\ clk' = (clk + 1) % CLK_PERIOD
    BY <1>1 DEF Tick
  <2> HIDE DEF NetworkInv
  <2>4. /\ scheduleV' \in [Node -> Routed \union {None}]
        /\ scheduleEnd' \in [Node -> BOOLEAN] /\ sent' \in [Node -> 0 .. MAX_SENT]
        /\ \A n \in Node :
             /\ scheduleV'[n] # None => ~Full(rowBuffer[n])
             /\ scheduleEnd'[n] => scheduleV'[n] = None
             /\ scheduleEnd[n] => scheduleEnd'[n]
    BY <2>2, HandOverStep DEF NetworkInv
  <2>5. TypeOK /\ Routing
    BY DEF NetworkInv
  <2>6. /\ endSeen' \in [Node -> BOOLEAN] /\ iterationEnd' \in [Node -> BOOLEAN]
        /\ \A n \in Node : /\ endSeen'[n] => scheduleEnd[n] /\ Empty(n)
                           /\ iterationEnd'[n] => endSeen[n] /\ Empty(n)
    BY <2>3, <2>5 DEF DetectEnd, TypeOK, Empty
  <2>7. Routing'
    BY <2>3, <2>4, <2>5, MoveStep DEF Routing, ForRow, ForNode, Routed, Update, Owner, Node
  <2>8. TypeOK'
    <3>1. clk' \in 0 .. CLK_PERIOD - 1
      BY <2>3, <2>5, GridAssumption, Digits DEF TypeOK
    <3>2. \A n \in Node : /\ updateV'[n] \in Update \union {None}
                          /\ rowBuffer'[n] \in Seq(Update) /\ columnBuffer'[n] \in Seq(Update)
                          /\ localBuffer'[n] \in Seq(Update)
      BY <2>7, Subtypes DEF Routing
    <3>3. /\ updateV' \in [Node -> Update \union {None}]
          /\ rowBuffer' \in [Node -> Seq(Update)] /\ columnBuffer' \in [Node -> Seq(Update)]
          /\ localBuffer' \in [Node -> Seq(Update)]
      BY <2>3, <3>2 DEF MoveUpdates
    <3>4. scheduleV' \in [Node -> Update \union {None}]
      BY <2>4, Subtypes
    <3> QED
      BY <2>4, <2>6, <3>1, <3>3, <3>4 DEF TypeOK
  <2>9. EndLevels'
    BY <2>4, <2>6 DEF EndLevels
  <2>10. BoundedBuffers'
    <3> SUFFICES ASSUME NEW n \in Node
                 PROVE  /\ Len(rowBuffer'[n]) + (IF scheduleV'[n] = None THEN 0 ELSE 1)
                             <= FIFO_SIZE + 1
                        /\ Len(columnBuffer'[n]) <= FIFO_SIZE
                        /\ Len(localBuffer'[n]) <= FIFO_SIZE
      BY DEF BoundedBuffers
    <3>1. /\ Len(rowBuffer[n]) \in Nat /\ Len(columnBuffer[n]) \in Nat
          /\ Len(localBuffer[n]) \in Nat /\ Len(rowBuffer'[n]) \in Nat
          /\ Len(columnBuffer'[n]) \in Nat /\ Len(localBuffer'[n]) \in Nat
      BY <2>7, <2>5 DEF Routing
    <3>2. /\ Len(rowBuffer[n]) + (IF scheduleV[n] = None THEN 0 ELSE 1) <= FIFO_SIZE + 1
          /\ Len(columnBuffer[n]) <= FIFO_SIZE /\ Len(localBuffer[n]) <= FIFO_SIZE
      BY DEF NetworkInv, BoundedBuffers
    <3>3. /\ scheduleV'[n] # None => Len(rowBuffer[n]) < FIFO_SIZE
          /\ FromRow(n) # None => Len(columnBuffer[n]) < FIFO_SIZE
          /\ FromColumn(n) # None => Len(localBuffer[n]) < FIFO_SIZE
      BY <2>4, <2>5, <3>1, FromRowBelongs, FromColumnBelongs, GridAssumption DEF Full
    <3>4. /\ Len(rowBuffer'[n]) <= Len(rowBuffer[n]) + 1
          /\ scheduleV[n] = None => Len(rowBuffer'[n]) <= Len(rowBuffer[n])
          /\ Len(columnBuffer'[n]) <= Len(columnBuffer[n]) + 1
          /\ FromRow(n) = None => Len(columnBuffer'[n]) <= Len(columnBuffer[n])
          /\ Len(localBuffer'[n]) <= Len(localBuffer[n]) + 1
          /\ FromColumn(n) = None => Len(localBuffer'[n]) <= Len(localBuffer[n])
      BY <2>3, <2>5, MoveStep
    <3>5. Len(rowBuffer'[n]) + (IF scheduleV'[n] = None THEN 0 ELSE 1) <= FIFO_SIZE + 1
      <4>1. CASE scheduleV'[n] = None
        <5>1. CASE scheduleV[n] = None
          BY <3>1, <3>2, <3>4, <4>1, <5>1, GridAssumption
        <5>2. CASE scheduleV[n] # None
          <6>1. Len(rowBuffer[n]) + 1 <= FIFO_SIZE + 1
            BY <3>2, <5>2
          <6> QED
            BY <3>1, <3>4, <4>1, <6>1, GridAssumption
        <5> QED
          BY <5>1, <5>2
      <4>2. CASE scheduleV'[n] # None
        <5>1. Len(rowBuffer'[n]) <= Len(rowBuffer[n]) + 1
          BY <3>1, <3>4
        <5> QED
          BY <3>1, <3>3, <4>2, <5>1, GridAssumption
      <4> QED
        BY <4>1, <4>2
    <3>6. Len(columnBuffer'[n]) <= FIFO_SIZE
      BY <3>1, <3>2, <3>3, <3>4, GridAssumption
    <3>7. Len(localBuffer'[n]) <= FIFO_SIZE
      BY <3>1, <3>2, <3>3, <3>4, GridAssumption
    <3> QED
      BY <3>5, <3>6, <3>7
  <2>11. EndExcludesUpdate'
    BY <2>3, <2>6, <2>5, MoveStep DEF EndExcludesUpdate, Empty
  <2>12. EndIsGlobal'
    <3> SUFFICES ASSUME \A n \in Node : iterationEnd'[n], NEW n \in Node
                 PROVE  /\ scheduleEnd'[n] /\ scheduleV'[n] = None /\ updateV'[n] = None
                        /\ rowBuffer'[n] = <<>> /\ columnBuffer'[n] = <<>>
                        /\ localBuffer'[n] = <<>>
      BY DEF EndIsGlobal, Empty
    <3>1. \A k \in Node : Empty(k) /\ scheduleEnd[k] /\ scheduleV[k] = None
      BY <2>6 DEF NetworkInv, EndLevels
    <3>2. scheduleEnd'[n] /\ scheduleV'[n] = None
      BY <2>4, <3>1
    <3>3. FromRow(n) = None /\ FromColumn(n) = None
      BY <2>5, <3>1, FromRowBelongs, FromColumnBelongs DEF Empty
    <3> QED
      BY <2>3, <2>5, <3>1, <3>2, <3>3, MoveStep DEF Empty
  <2> QED
    BY <2>7, <2>8, <2>9, <2>10, <2>11, <2>12 DEF NetworkInv
<1>2. CASE UNCHANGED vars
  BY <1>2 DEF vars, schedule, buffers, TypeOK, Routing, EndLevels, BoundedBuffers,
              EndExcludesUpdate, EndIsGlobal, Empty, Routed, ForRow, ForNode, Update,
              Owner, Node
<1> QED
  BY <1>1, <1>2 DEF Next

-----------------------------------------------------------------------------
(* The theorems.                                                           *)

(* The inductive invariant of the network, for any grid, any depth of the  *)
(* buffers, any arbitration the clock leads to and any full cores.         *)
THEOREM NetworkCorrect == Spec => []NetworkInv
BY InitInv, NextInv, PTL DEF Spec

(* Type correctness: no crossbar ever reads from a buffer that is empty or *)
(* grants an input that does not exist.                                    *)
THEOREM TypeCorrect == Spec => []TypeOK
<1>1. NetworkInv => TypeOK
  BY DEF NetworkInv
<1> QED
  BY <1>1, NetworkCorrect, PTL

(* No update is stored in a row or a node that is not its own, so the two  *)
(* error exits of the node are not reached and every core gets only what   *)
(* its memories hold.                                                      *)
THEOREM NoMisrouteHolds == Spec => []NoMisroute
<1>1. NetworkInv => NoMisroute
  <2> SUFFICES ASSUME NetworkInv, NEW n \in Node
               PROVE  /\ \A i \in 1 .. Len(columnBuffer[n]) : columnBuffer[n][i].to[1] = n[1]
                      /\ \A i \in 1 .. Len(localBuffer[n]) : localBuffer[n][i].to = n
                      /\ updateV[n] # None => updateV[n].to = n
    BY DEF NoMisroute
  <2>1. /\ columnBuffer[n] \in Seq(ForRow(n)) /\ localBuffer[n] \in Seq(ForNode(n))
        /\ updateV[n] \in ForNode(n) \union {None}
    BY DEF NetworkInv, Routing
  <2>2. /\ \A i \in 1 .. Len(columnBuffer[n]) : columnBuffer[n][i] \in ForRow(n)
        /\ \A i \in 1 .. Len(localBuffer[n]) : localBuffer[n][i] \in ForNode(n)
    BY <2>1
  <2> QED
    BY <2>1, <2>2 DEF ForRow, ForNode
<1> QED
  BY <1>1, NetworkCorrect, PTL

(* The fill levels: one update beyond the limit where a level is seen a    *)
(* tick late, none inside the network.                                     *)
THEOREM BoundedBuffersHolds == Spec => []BoundedBuffers
<1>1. NetworkInv => BoundedBuffers
  BY DEF NetworkInv
<1> QED
  BY <1>1, NetworkCorrect, PTL

(* A node sends nothing in the tick in which it signals its end.           *)
THEOREM EndExcludesUpdateHolds == Spec => []EndExcludesUpdate
<1>1. NetworkInv => EndExcludesUpdate
  BY DEF NetworkInv
<1> QED
  BY <1>1, NetworkCorrect, PTL

(* When all nodes signal the end in one tick no update is left in the      *)
(* network or on its way into it: stage 11 may take their conjunction.     *)
THEOREM EndIsGlobalHolds == Spec => []EndIsGlobal
<1>1. NetworkInv => EndIsGlobal
  BY DEF NetworkInv
<1> QED
  BY <1>1, NetworkCorrect, PTL


-----------------------------------------------------------------------------
(***************************************************************************)
(* The updates of a queue that go from one node to another.  Places are    *)
(* counted, so that the k-th one is found without going through the queue. *)
(***************************************************************************)
LEMMA NthFacts ==
  ASSUME NEW A \in SUBSET Nat, IsFiniteSet(A)
  PROVE  /\ Cardinality(A) \in Nat
         /\ \A k \in 1 .. Cardinality(A) :
              Nth(A, k) \in A /\ Cardinality({j \in A : j < Nth(A, k)}) = k - 1
         /\ \A k \in 1 .. Cardinality(A) : \A i \in A :
              Cardinality({j \in A : j < i}) = k - 1 => Nth(A, k) = i
<1> DEFINE key == [i \in A |-> i]
           rank(i) == Cardinality({j \in A : j < i})
<1>1. Cardinality(A) \in Nat
  BY FS_CardinalityType
<1>2. Keyed(A, key)
  BY DEF Keyed
<1>3. \A i \in A : Below(A, key, i) = {j \in A : j < i}
  BY DEF Below
<1>4. \A i \in A : rank(i) \in Nat /\ \A j \in A : i < j => rank(i) < rank(j)
  BY <1>2, <1>3, RankGrows
<1>5. \A n \in Nat : FirstOf(A, key, n) = {i \in A : rank(i) < n}
  BY <1>3 DEF FirstOf
<1> HIDE DEF key, rank
<1>6. ASSUME NEW i \in A, NEW j \in A, rank(i) = rank(j) PROVE i = j
  <2>1. i \in Nat /\ j \in Nat /\ (i < j => rank(i) < rank(j)) /\ (j < i => rank(j) < rank(i))
    BY <1>4
  <2>2. rank(i) \in Nat /\ rank(j) \in Nat
    BY <1>4
  <2> QED
    BY <1>6, <2>1, <2>2
<1>7. ASSUME NEW k \in 1 .. Cardinality(A)
      PROVE  \E i \in A : rank(i) = k - 1
  <2>1. k \in Nat /\ k - 1 \in Nat /\ k <= Cardinality(A) /\ k - 1 <= Cardinality(A) /\ k # k - 1
    BY <1>1
  <2>2. Cardinality(FirstOf(A, key, k)) = k /\ Cardinality(FirstOf(A, key, k - 1)) = k - 1
    BY <1>2, <2>1, FirstCount
  <2>3. FirstOf(A, key, k) # FirstOf(A, key, k - 1)
    BY <2>1, <2>2
  <2>4. PICK i \in A : ~(rank(i) < k <=> rank(i) < k - 1)
    BY <1>5, <2>1, <2>3
  <2>5. rank(i) \in Nat
    BY <1>4
  <2>6. rank(i) = k - 1
    BY <2>1, <2>4, <2>5
  <2> QED
    BY <2>6
<1>8. \A k : Nth(A, k) = CHOOSE i \in A : rank(i) = k - 1
  BY DEF Nth, rank
<1>9. ASSUME NEW k \in 1 .. Cardinality(A)
      PROVE  Nth(A, k) \in A /\ rank(Nth(A, k)) = k - 1
  BY <1>7, <1>8
<1>10. ASSUME NEW k \in 1 .. Cardinality(A), NEW i \in A, rank(i) = k - 1
       PROVE  Nth(A, k) = i
  BY <1>6, <1>9, <1>10
<1> QED
  BY <1>1, <1>9, <1>10 DEF rank

LEMMA Shifted ==
  ASSUME NEW A \in SUBSET Nat, IsFiniteSet(A), NEW n \in Nat
  PROVE  IsFiniteSet({n + i : i \in A}) /\ Cardinality({n + i : i \in A}) = Cardinality(A)
<1> DEFINE f == [i \in A |-> n + i]
           R == {n + i : i \in A}
<1>1. \A i, j \in A : f[i] = f[j] => i = j
  <2>1. \A i, j \in Nat : n + i = n + j => i = j
    OBVIOUS
  <2> QED
    BY <2>1
<1>2. f \in Bijection(A, R)
  BY <1>1 DEF Bijection, Injection, IsInjective, Surjection
<1> HIDE DEF f, R
<1>3. IsFiniteSet(R) /\ Cardinality(R) = Cardinality(A)
  BY <1>2, FS_Bijection DEF ExistsBijection
<1> QED
  BY <1>3 DEF R

LEMMA PlacesFacts ==
  ASSUME NEW S, NEW q \in Seq(S), NEW s, NEW d
  PROVE  /\ Places(q, s, d) \in SUBSET Nat /\ IsFiniteSet(Places(q, s, d))
         /\ Places(q, s, d) \subseteq 1 .. Len(q) /\ Len(q) \in Nat
         /\ \A i \in 1 .. Len(q) : i \in Places(q, s, d) <=> q[i].from = s /\ q[i].to = d
         /\ Cardinality(Places(q, s, d)) \in Nat
<1>1. DOMAIN q = 1 .. Len(q) /\ Len(q) \in Nat
  BY LenProperties
<1>2. Places(q, s, d) \subseteq 1 .. Len(q)
  BY <1>1 DEF Places
<1>3. IsFiniteSet(1 .. Len(q))
  BY <1>1, FS_Interval
<1>4. IsFiniteSet(Places(q, s, d)) /\ Cardinality(Places(q, s, d)) \in Nat
  BY <1>2, <1>3, FS_Subset, FS_CardinalityType
<1>5. \A i \in 1 .. Len(q) : i \in Places(q, s, d) <=> q[i].from = s /\ q[i].to = d
  BY <1>1 DEF Places
<1> QED
  BY <1>1, <1>2, <1>4, <1>5

LEMMA BetweenType ==
  ASSUME NEW S, NEW q \in Seq(S), NEW s, NEW d
  PROVE  /\ Between(q, s, d) \in Seq(S) /\ Len(Between(q, s, d)) = Cardinality(Places(q, s, d))
         /\ \A k \in 1 .. Cardinality(Places(q, s, d)) :
              Between(q, s, d)[k] = q[Nth(Places(q, s, d), k)]
<1> DEFINE A == Places(q, s, d)
           c == Cardinality(A)
<1>1. A \in SUBSET Nat /\ IsFiniteSet(A) /\ A \subseteq 1 .. Len(q) /\ c \in Nat
  BY PlacesFacts
<1>2. q \in [1 .. Len(q) -> S]
  BY LenProperties
<1>3. Between(q, s, d) = [k \in 1 .. c |-> q[Nth(A, k)]]
  BY DEF Between
<1> HIDE DEF A
<1>4. \A k \in 1 .. c : Nth(A, k) \in A
  BY <1>1, NthFacts
<1>5. Between(q, s, d) \in [1 .. c -> S]
  BY <1>1, <1>2, <1>3, <1>4
<1>6. Between(q, s, d) \in Seq(S)
  BY <1>1, <1>5, SeqDef
<1>7. Len(Between(q, s, d)) = c
  BY <1>1, <1>5, <1>6, LenProperties
<1> QED
  BY <1>3, <1>6, <1>7 DEF A

LEMMA PlacesJoin ==
  ASSUME NEW S, NEW q \in Seq(S), NEW r \in Seq(S), NEW s, NEW d
  PROVE  Places(q \o r, s, d) = Places(q, s, d) \union {Len(q) + i : i \in Places(r, s, d)}
<1> DEFINE n == Len(q)
           A == Places(q, s, d)
           B == Places(r, s, d)
           p == q \o r
           C == Places(p, s, d)
           R == {n + i : i \in B}
<1>1. n \in Nat /\ Len(r) \in Nat /\ p \in Seq(S) /\ Len(p) = n + Len(r)
      /\ (\A i \in 1 .. n + Len(r) : p[i] = IF i <= n THEN q[i] ELSE r[i - n])
  BY ConcatProperties, LenProperties
<1> HIDE DEF p
<1>2. A \subseteq 1 .. n /\ \A i \in 1 .. n : i \in A <=> q[i].from = s /\ q[i].to = d
  BY PlacesFacts
<1>3. B \subseteq 1 .. Len(r) /\ \A i \in 1 .. Len(r) : i \in B <=> r[i].from = s /\ r[i].to = d
  BY PlacesFacts
<1>4. /\ C \subseteq 1 .. n + Len(r)
      /\ \A i \in 1 .. n + Len(r) : i \in C <=> p[i].from = s /\ p[i].to = d
  BY <1>1, PlacesFacts
<1> HIDE DEF A, B, C, n, p
<1>5. ASSUME NEW i \in 1 .. n + Len(r) PROVE i \in C <=> i \in A \union R
  <2>1. CASE i <= n
    <3>1. i \in 1 .. n /\ p[i] = q[i]
      BY <1>1, <2>1
    <3>2. i \notin R
      <4>1. \A j \in 1 .. Len(r) : n + j # i
        BY <1>1, <2>1
      <4> QED
        BY <1>3, <4>1
    <3> QED
      BY <1>2, <1>4, <3>1, <3>2
  <2>2. CASE ~(i <= n)
    <3>1. i - n \in 1 .. Len(r) /\ p[i] = r[i - n] /\ i \notin 1 .. n /\ n + (i - n) = i
      BY <1>1, <2>2
    <3>2. i \in R <=> i - n \in B
      <4>1. \A j \in 1 .. Len(r) : n + j = i => j = i - n
        BY <1>1
      <4> QED
        BY <1>3, <3>1, <4>1
    <3> QED
      BY <1>2, <1>3, <1>4, <3>1, <3>2
  <2> QED
    BY <2>1, <2>2
<1>6. A \union R \subseteq 1 .. n + Len(r)
  <2>1. 1 .. n \subseteq 1 .. n + Len(r) /\ \A j \in 1 .. Len(r) : n + j \in 1 .. n + Len(r)
    BY <1>1
  <2> QED
    BY <1>2, <1>3, <2>1
<1>7. C = A \union R
  BY <1>4, <1>5, <1>6
<1> QED
  BY <1>7 DEF A, B, C, n, p

(* What goes from s to d in two queues, one behind the other.              *)
LEMMA BetweenJoin ==
  ASSUME NEW S, NEW q \in Seq(S), NEW r \in Seq(S), NEW s, NEW d
  PROVE  Between(q \o r, s, d) = Between(q, s, d) \o Between(r, s, d)
<1> DEFINE n == Len(q)
           A == Places(q, s, d)
           B == Places(r, s, d)
           p == q \o r
           C == Places(p, s, d)
           R == {n + i : i \in B}
           a == Cardinality(A)
           b == Cardinality(B)
           x == Between(q, s, d)
           y == Between(r, s, d)
           z == Between(p, s, d)
<1>0. p \in Seq(S)
  BY ConcatProperties
<1>1. n \in Nat /\ Len(r) \in Nat
      /\ (\A i \in 1 .. n + Len(r) : p[i] = IF i <= n THEN q[i] ELSE r[i - n])
  BY ConcatProperties, LenProperties
<1> HIDE DEF p
<1>2. A \in SUBSET Nat /\ IsFiniteSet(A) /\ A \subseteq 1 .. n /\ a \in Nat
  BY PlacesFacts
<1>3. B \in SUBSET Nat /\ IsFiniteSet(B) /\ B \subseteq 1 .. Len(r) /\ b \in Nat
  BY PlacesFacts
<1>4. C \in SUBSET Nat /\ IsFiniteSet(C)
  BY <1>0, PlacesFacts
<1>5. C = A \union R
  BY PlacesJoin DEF p
<1>6. x \in Seq(S) /\ Len(x) = a /\ \A k \in 1 .. a : x[k] = q[Nth(A, k)]
  BY BetweenType
<1>7. y \in Seq(S) /\ Len(y) = b /\ \A k \in 1 .. b : y[k] = r[Nth(B, k)]
  BY BetweenType
<1>8. /\ z \in Seq(S) /\ Len(z) = Cardinality(C)
      /\ \A k \in 1 .. Cardinality(C) : z[k] = p[Nth(C, k)]
  BY <1>0, BetweenType
<1> HIDE DEF A, B, C, x, y, z, n
<1>9. IsFiniteSet(R) /\ Cardinality(R) = b
  BY <1>1, <1>3, Shifted
<1>10. \A i \in B : i \in Nat /\ n + i > n
  BY <1>1, <1>3
<1>11. A \cap R = {}
  BY <1>1, <1>2, <1>10
<1>12. Cardinality(C) = a + b
  <2>1. Cardinality(A \union R) = a + Cardinality(R) - Cardinality(A \cap R)
    BY <1>2, <1>9, FS_Union
  <2>2. Cardinality(A \cap R) = 0
    BY <1>11, FS_EmptySet
  <2> QED
    BY <1>2, <1>3, <1>5, <1>9, <2>1, <2>2
<1>13. ASSUME NEW k \in 1 .. a PROVE z[k] = x[k]
  <2> DEFINE i == Nth(A, k)
  <2>1. i \in A /\ Cardinality({j \in A : j < i}) = k - 1
    BY <1>2, NthFacts
  <2> HIDE DEF i
  <2>2. {j \in C : j < i} = {j \in A : j < i}
    <3>1. i <= n /\ i \in Nat
      BY <1>1, <1>2, <2>1
    <3>2. \A j \in R : ~(j < i)
      BY <1>1, <1>10, <3>1
    <3> QED
      BY <1>5, <3>2
  <2>3. k \in 1 .. Cardinality(C) /\ i \in C
    BY <1>2, <1>3, <1>5, <1>12, <2>1
  <2>4. Nth(C, k) = i
    BY <1>4, <2>1, <2>2, <2>3, NthFacts
  <2>5. i \in 1 .. n
    BY <1>2, <2>1
  <2>6. p[i] = q[i]
    BY <1>1, <2>5
  <2> QED
    BY <1>6, <1>8, <2>3, <2>4, <2>6 DEF i
<1>14. ASSUME NEW k \in 1 .. b PROVE z[a + k] = y[k]
  <2> DEFINE i == Nth(B, k)
             D == {j \in B : j < i}
             Q == {n + j : j \in D}
  <2>1. i \in B /\ Cardinality(D) = k - 1
    BY <1>3, NthFacts
  <2> HIDE DEF i
  <2>2. D \in SUBSET Nat /\ IsFiniteSet(D)
    BY <1>3, FS_Subset
  <2>3. IsFiniteSet(Q) /\ Cardinality(Q) = k - 1
    BY <1>1, <2>1, <2>2, Shifted
  <2>4. {j \in C : j < n + i} = A \union Q
    <3>1. \A j \in A : j < n + i
      BY <1>1, <1>2, <1>10, <2>1
    <3>2. \A j \in B : n + j < n + i <=> j < i
      BY <1>1, <1>10, <2>1
    <3> QED
      BY <1>5, <3>1, <3>2
  <2>5. A \cap Q = {}
    BY <1>11
  <2>6. Cardinality(A \union Q) = a + (k - 1)
    <3>1. Cardinality(A \union Q) = a + Cardinality(Q) - Cardinality(A \cap Q)
      BY <1>2, <2>3, FS_Union
    <3>2. Cardinality(A \cap Q) = 0
      BY <2>5, FS_EmptySet
    <3> QED
      BY <1>2, <2>3, <3>1, <3>2
  <2>7. a + k \in 1 .. Cardinality(C) /\ n + i \in C /\ a + (k - 1) = (a + k) - 1
    BY <1>2, <1>3, <1>5, <1>12, <2>1
  <2>8. Nth(C, a + k) = n + i
    <3> DEFINE h == a + k
               m == n + i
    <3>1. h \in 1 .. Cardinality(C) /\ m \in C /\ Cardinality({j \in C : j < m}) = h - 1
      BY <2>4, <2>6, <2>7
    <3> HIDE DEF h, m
    <3>2. Nth(C, h) = m
      BY <1>4, <3>1, NthFacts
    <3> QED
      BY <3>2 DEF h, m
  <2>9. n + i \in 1 .. n + Len(r) /\ ~(n + i <= n) /\ (n + i) - n = i
    BY <1>1, <1>3, <2>1
  <2>10. p[n + i] = r[i]
    BY <1>1, <2>9
  <2> QED
    BY <1>7, <1>8, <2>7, <2>8, <2>10 DEF i
<1>15. x \o y \in Seq(S) /\ Len(x \o y) = a + b
       /\ \A k \in 1 .. a + b : (x \o y)[k] = IF k <= a THEN x[k] ELSE y[k - a]
  BY <1>6, <1>7, ConcatProperties
<1>16. ASSUME NEW k \in 1 .. a + b PROVE z[k] = (x \o y)[k]
  <2>1. CASE k <= a
    <3>1. k \in 1 .. a
      BY <1>2, <2>1
    <3> QED
      BY <1>13, <1>15, <2>1, <3>1
  <2>2. CASE ~(k <= a)
    <3>1. k - a \in 1 .. b /\ a + (k - a) = k
      BY <1>2, <1>3, <2>2
    <3>2. z[a + (k - a)] = y[k - a]
      BY <1>14, <3>1
    <3> QED
      BY <1>15, <2>2, <3>1, <3>2
  <2> QED
    BY <2>1, <2>2
<1>17. z = x \o y
  BY <1>8, <1>12, <1>15, <1>16, SeqEqual
<1> QED
  BY <1>17 DEF x, y, z, p


-----------------------------------------------------------------------------
(***************************************************************************)
(* One hop.  What goes from s to d of an update, and of a queue that gets  *)
(* an update or loses its front.                                           *)
(***************************************************************************)
Own(x, s, d) == IF x # None /\ x.from = s /\ x.to = d THEN <<x>> ELSE <<>>

LEMMA BetweenNone ==
  ASSUME NEW s, NEW d
  PROVE  Between(<<>>, s, d) = <<>>
<1> DEFINE e == <<>>
<1>1. e \in Seq(Update) /\ Places(e, s, d) = {}
  BY EmptySeq DEF Places
<1> HIDE DEF e
<1>2. Between(e, s, d) \in Seq(Update) /\ Len(Between(e, s, d)) = 0
  <2>1. Between(e, s, d) \in Seq(Update) /\ Len(Between(e, s, d)) = Cardinality(Places(e, s, d))
    BY <1>1, BetweenType
  <2>2. Cardinality(Places(e, s, d)) = 0
    BY <1>1, FS_EmptySet
  <2> QED
    BY <2>1, <2>2
<1>3. Between(e, s, d) = <<>>
  BY <1>2, EmptySeq
<1> QED
  BY <1>3 DEF e

LEMMA BetweenOne ==
  ASSUME NEW x \in Update, NEW s, NEW d
  PROVE  Between(<<x>>, s, d) = Own(x, s, d) /\ Own(x, s, d) \in Seq(Update)
<1> DEFINE q == <<x>>
           A == Places(q, s, d)
           z == Between(q, s, d)
<1>1. q \in Seq(Update) /\ Len(q) = 1 /\ q[1] = x
  OBVIOUS
<1> HIDE DEF q
<1>2. /\ A \in SUBSET Nat /\ IsFiniteSet(A) /\ A \subseteq 1 .. Len(q)
      /\ \A i \in 1 .. Len(q) : i \in A <=> q[i].from = s /\ q[i].to = d
  BY <1>1, PlacesFacts
<1>3. z \in Seq(Update) /\ Len(z) = Cardinality(A) /\ \A k \in 1 .. Cardinality(A) : z[k] = q[Nth(A, k)]
  BY <1>1, BetweenType
<1>4. x # None
  BY NoneAssumption
<1> HIDE DEF A, z
<1>5. 1 .. Len(q) = {1}
  BY <1>1
<1>6. CASE x.from = s /\ x.to = d
  <2>1. A = {1}
    BY <1>1, <1>2, <1>5, <1>6
  <2>2. Cardinality(A) = 1
    BY <2>1, FS_Singleton
  <2>3. 1 \in 1 .. Cardinality(A)
    BY <2>2
  <2>4. Nth(A, 1) \in A
    BY <1>2, <2>3, NthFacts
  <2>5. z[1] = x
    BY <1>1, <1>3, <2>1, <2>3, <2>4
  <2>6. z = <<x>>
    BY <1>3, <2>2, <2>5
  <2> QED
    BY <1>4, <1>6, <2>6 DEF z, q, Own
<1>7. CASE ~(x.from = s /\ x.to = d)
  <2>1. A = {}
    BY <1>1, <1>2, <1>5, <1>7
  <2>2. Len(z) = 0
    BY <1>3, <2>1, FS_EmptySet
  <2>3. z = <<>>
    BY <1>3, <2>2, EmptySeq
  <2> QED
    BY <1>7, <2>3 DEF z, q, Own
<1> QED
  BY <1>6, <1>7

LEMMA OwnType ==
  ASSUME NEW x \in Update \union {None}, NEW s, NEW d
  PROVE  Own(x, s, d) \in Seq(Update)
<1>1. CASE x \in Update
  BY <1>1, BetweenOne
<1>2. CASE x = None
  BY <1>2, EmptySeq DEF Own
<1> QED
  BY <1>1, <1>2

LEMMA BetweenPush ==
  ASSUME NEW q \in Seq(Update), NEW x \in Update \union {None}, NEW s, NEW d
  PROVE  /\ Push(q, x) \in Seq(Update)
         /\ Between(Push(q, x), s, d) = Between(q, s, d) \o Own(x, s, d)
<1>1. Between(q, s, d) \in Seq(Update)
  BY BetweenType
<1>2. CASE x = None
  <2>1. Push(q, x) = q /\ Own(x, s, d) = <<>>
    BY <1>2 DEF Push, Own
  <2>2. Between(q, s, d) \o <<>> = Between(q, s, d)
    BY <1>1, ConcatEmptySeq
  <2> QED
    BY <2>1, <2>2
<1>3. CASE x \in Update
  <2>1. x # None
    BY <1>3, NoneAssumption
  <2>2. Push(q, x) = q \o <<x>>
    BY <1>3, <2>1, AppendIsConcat DEF Push
  <2> DEFINE o == <<x>>
  <2>3. o \in Seq(Update) /\ Push(q, x) = q \o o /\ Between(o, s, d) = Own(x, s, d)
    BY <1>3, <2>2, BetweenOne
  <2> HIDE DEF o
  <2>4. Between(q \o o, s, d) = Between(q, s, d) \o Between(o, s, d)
    BY <2>3, BetweenJoin
  <2>5. q \o o \in Seq(Update)
    BY <2>3, ConcatProperties
  <2> QED
    BY <2>3, <2>4, <2>5
<1> QED
  BY <1>2, <1>3

LEMMA BetweenFront ==
  ASSUME NEW q \in Seq(Update), q # <<>>, NEW s, NEW d
  PROVE  /\ Head(q) \in Update /\ Tail(q) \in Seq(Update)
         /\ Between(q, s, d) = Own(Head(q), s, d) \o Between(Tail(q), s, d)
<1>1. Head(q) \in Update /\ Tail(q) \in Seq(Update)
  BY HeadTailProperties
<1> DEFINE x == Head(q)
           t == Tail(q)
<1>2. q = <<x>> \o t
  <2>1. /\ <<x>> \in Seq(Update) /\ Len(<<x>>) = 1 /\ Len(q) \in Nat \ {0}
        /\ Len(t) = Len(q) - 1 /\ x = q[1] /\ \A i \in 1 .. Len(t) : t[i] = q[i + 1]
    BY <1>1, HeadTailProperties, EmptySeq
  <2> HIDE DEF x, t
  <2>2. /\ <<x>> \o t \in Seq(Update) /\ Len(<<x>> \o t) = Len(q)
        /\ \A i \in 1 .. Len(q) : (<<x>> \o t)[i] = IF i <= 1 THEN <<x>>[i] ELSE t[i - 1]
    BY <1>1, <2>1, ConcatProperties DEF x, t
  <2>3. ASSUME NEW i \in 1 .. Len(q) PROVE q[i] = (<<x>> \o t)[i]
    <3>1. CASE i = 1
      BY <2>1, <2>2, <3>1
    <3>2. CASE i # 1
      <4>1. i - 1 \in 1 .. Len(t) /\ (i - 1) + 1 = i /\ ~(i <= 1)
        BY <2>1, <3>2
      <4> QED
        BY <2>1, <2>2, <4>1
    <3> QED
      BY <3>1, <3>2
  <2> QED
    BY <2>2, <2>3, SeqEqual
<1>3. x \in Update /\ t \in Seq(Update)
  BY <1>1
<1> HIDE DEF x, t
<1> DEFINE o == <<x>>
<1>4. o \in Seq(Update) /\ q = o \o t /\ Between(o, s, d) = Own(x, s, d)
  BY <1>2, <1>3, BetweenOne
<1> HIDE DEF o
<1>5. Between(o \o t, s, d) = Between(o, s, d) \o Between(t, s, d)
  BY <1>3, <1>4, BetweenJoin
<1>6. Between(q, s, d) = Own(x, s, d) \o Between(t, s, d)
  BY <1>4, <1>5
<1> QED
  BY <1>1, <1>6 DEF x, t

(* A queue from which its front is taken or not, and what leaves it.       *)
LEMMA BetweenPop ==
  ASSUME NEW q \in Seq(Update), NEW b \in BOOLEAN, b => q # <<>>, NEW s, NEW d
  PROVE  /\ Pop(q, b) \in Seq(Update)
         /\ Between(q, s, d) = Own(IF b THEN Head(q) ELSE None, s, d) \o Between(Pop(q, b), s, d)
<1>1. CASE b
  <2>1. Pop(q, b) = Tail(q) /\ q # <<>> /\ (IF b THEN Head(q) ELSE None) = Head(q)
    BY <1>1 DEF Pop
  <2>2. /\ Tail(q) \in Seq(Update)
        /\ Between(q, s, d) = Own(Head(q), s, d) \o Between(Tail(q), s, d)
    BY <2>1, BetweenFront
  <2> QED
    BY <2>1, <2>2, Zenon
<1>2. CASE ~b
  <2>1. Pop(q, b) = q /\ Own(None, s, d) = <<>>
    BY <1>2 DEF Pop, Own
  <2>2. Between(q, s, d) \in Seq(Update)
    BY BetweenType
  <2>3. <<>> \o Between(q, s, d) = Between(q, s, d)
    BY <2>2, ConcatEmptySeq
  <2> QED
    BY <1>2, <2>1, <2>3
<1> QED
  BY <1>1, <1>2


-----------------------------------------------------------------------------
(***************************************************************************)
(* An update is known by where it came from: it stays in the row buffer of *)
(* the node it entered at, and in that node's column until it leaves the   *)
(* column buffers.                                                         *)
(***************************************************************************)
Entered(n) == {u \in Routed : u.from = n}
Beside(n)  == {u \in ForRow(n) : u.from[2] = n[2]}

Origins ==
  \A n \in Node :
    /\ scheduleV[n] \in Entered(n) \union {None}
    /\ rowBuffer[n] \in Seq(Entered(n)) /\ columnBuffer[n] \in Seq(Beside(n))

ChannelInv == NetworkInv /\ Origins

LEMMA NoNone ==
  ASSUME NEW n \in Node
  PROVE  /\ None \notin Entered(n) /\ None \notin Beside(n) /\ None \notin Update
         /\ Entered(n) \subseteq Update /\ Beside(n) \subseteq Update /\ ForNode(n) \subseteq Update
BY NoneAssumption DEF Entered, Beside, Routed, ForRow, ForNode

(* What arrives from the row crossbar for node <<d[1], s[2]>> comes from s *)
(* exactly if it is taken from the row buffer of s.                        *)
LEMMA RowHop ==
  ASSUME ChannelInv, NEW s \in Node, NEW d \in Node, NEW m, m = <<d[1], s[2]>>
  PROVE  /\ m \in Node /\ FromRow(m) \in Beside(m) \union {None}
         /\ Own(FromRow(m), s, d)
              = Own(IF ReadRow(s) THEN Head(rowBuffer[s]) ELSE None, s, d)
<1>1. TypeOK /\ Routing /\ Origins
  BY DEF ChannelInv, NetworkInv
<1>2. /\ m \in Node /\ m[1] = d[1] /\ m[2] = s[2] /\ s[1] \in Row /\ s[2] \in Column
      /\ s = <<s[1], s[2]>> /\ d[1] \in Row
  BY DEF Node
<1>3. ASSUME FromRow(m) # None
      PROVE  /\ FromRow(m) \in Beside(m)
             /\ FromRow(m).from = s =>
                  ReadRow(s) /\ FromRow(m) = Head(rowBuffer[s])
  <2> DEFINE i == RowWinner(m[2], m[1])
             u == Head(rowBuffer[<<i, m[2]>>])
  <2>1. i # None /\ FromRow(m) = u
    BY <1>3 DEF FromRow
  <2>2. i \in Row /\ rowBuffer[<<i, m[2]>>] # <<>> /\ RowOf(u.id) = m[1]
    BY <1>1, <1>2, <2>1, RowWinnerAsks DEF RowRequests
  <2>3. <<i, m[2]>> \in Node
    BY <1>2, <2>2 DEF Node
  <2>4. u \in Entered(<<i, m[2]>>)
    <3>1. rowBuffer[<<i, m[2]>>] \in Seq(Entered(<<i, m[2]>>))
      BY <1>1, <2>3 DEF Origins
    <3> QED
      BY <2>2, <3>1, HeadTailProperties
  <2>5. FromRow(m) \in ForRow(m)
    BY <1>1, <1>2, <1>3, FromRowBelongs
  <2>6. u.from = <<i, m[2]>>
    BY <2>4 DEF Entered
  <2>7. FromRow(m) \in Beside(m)
    BY <2>1, <2>5, <2>6 DEF Beside
  <2>8. ASSUME u.from = s PROVE ReadRow(s) /\ u = Head(rowBuffer[s])
    <3>1. i = s[1] /\ <<i, m[2]>> = s
      BY <1>2, <2>6, <2>8
    <3>2. rowBuffer[s] # <<>> /\ u = Head(rowBuffer[s])
      BY <2>2, <3>1
    <3>3. RowWinner(s[2], RowOf(Head(rowBuffer[s]).id)) = s[1]
      BY <1>2, <2>2, <3>1, <3>2
    <3> QED
      BY <3>2, <3>3 DEF ReadRow
  <2> QED
    BY <2>1, <2>7, <2>8
<1>4. ASSUME ReadRow(s), Head(rowBuffer[s]).to = d
      PROVE  FromRow(m) = Head(rowBuffer[s])
  <2>1. rowBuffer[s] # <<>> /\ RowWinner(s[2], RowOf(Head(rowBuffer[s]).id)) = s[1]
    BY <1>4 DEF ReadRow
  <2>2. Head(rowBuffer[s]) \in Routed
    BY <1>1, <2>1, HeadTailProperties DEF Routing
  <2>3. RowOf(Head(rowBuffer[s]).id) = d[1]
    BY <1>4, <2>2, RoutedDigits
  <2>4. RowWinner(m[2], m[1]) = s[1] /\ s[1] # None
    BY <1>2, <2>1, <2>3, NoneAssumption
  <2> QED
    BY <1>2, <2>4 DEF FromRow
<1>5. ASSUME ReadRow(s) PROVE Head(rowBuffer[s]).from = s /\ Head(rowBuffer[s]) # None
  <2>1. rowBuffer[s] # <<>> /\ rowBuffer[s] \in Seq(Entered(s))
    BY <1>1, <1>5 DEF Origins, ReadRow
  <2>2. Head(rowBuffer[s]) \in Entered(s)
    BY <2>1, HeadTailProperties
  <2> QED
    BY <2>2, NoNone DEF Entered
<1> DEFINE x == FromRow(m)
           y == IF ReadRow(s) THEN Head(rowBuffer[s]) ELSE None
<1>6. ReadRow(s) => y = Head(rowBuffer[s])
  OBVIOUS
<1>7. ~ReadRow(s) => y = None
  OBVIOUS
<1> HIDE DEF x, y
<1>8. Own(x, s, d) = Own(y, s, d)
  <2>1. CASE x # None /\ x.from = s /\ x.to = d
    <3>1. x = y
      BY <1>3, <1>6, <2>1 DEF x
    <3> QED
      BY <3>1
  <2>2. CASE y # None /\ y.from = s /\ y.to = d
    <3>1. ReadRow(s) /\ y = Head(rowBuffer[s])
      BY <1>6, <1>7, <2>2
    <3>2. x = y
      BY <1>4, <2>2, <3>1 DEF x
    <3> QED
      BY <3>2
  <2>3. CASE ~(x # None /\ x.from = s /\ x.to = d) /\ ~(y # None /\ y.from = s /\ y.to = d)
    BY <2>3, Zenon DEF Own
  <2> QED
    BY <2>1, <2>2, <2>3
<1> QED
  BY <1>2, <1>3, <1>8 DEF x, y

(* The same for the column crossbar and the column buffer on the way.      *)
LEMMA ColumnHop ==
  ASSUME ChannelInv, NEW s \in Node, NEW d \in Node, NEW m, m = <<d[1], s[2]>>
  PROVE  /\ FromColumn(d) \in ForNode(d) \union {None}
         /\ Own(FromColumn(d), s, d)
              = Own(IF ReadColumn(m) THEN Head(columnBuffer[m]) ELSE None, s, d)
<1>1. TypeOK /\ Routing /\ Origins
  BY DEF ChannelInv, NetworkInv
<1>2. /\ m \in Node /\ m[1] = d[1] /\ m[2] = s[2] /\ s[2] \in Column /\ d[1] \in Row
      /\ m = <<m[1], m[2]>>
  BY DEF Node
<1>3. FromColumn(d) \in ForNode(d) \union {None}
  BY <1>1, FromColumnBelongs
<1>4. ASSUME FromColumn(d) # None, FromColumn(d).from = s
      PROVE  ReadColumn(m) /\ FromColumn(d) = Head(columnBuffer[m])
  <2> DEFINE j == ColumnWinner(d[1], d[2])
             u == Head(columnBuffer[<<d[1], j>>])
  <2>1. j # None /\ FromColumn(d) = u
    BY <1>4 DEF FromColumn
  <2>2. j \in Column /\ columnBuffer[<<d[1], j>>] # <<>> /\ ColumnOf(u.id) = d[2]
    BY <1>1, <2>1, ColumnWinnerAsks DEF ColumnRequests
  <2>3. <<d[1], j>> \in Node
    BY <1>2, <2>2 DEF Node
  <2>4. u \in Beside(<<d[1], j>>)
    <3>1. columnBuffer[<<d[1], j>>] \in Seq(Beside(<<d[1], j>>))
      BY <1>1, <2>3 DEF Origins
    <3> QED
      BY <2>2, <3>1, HeadTailProperties
  <2>5. u.from[2] = j
    BY <2>4 DEF Beside
  <2>6. j = s[2] /\ <<d[1], j>> = m
    BY <1>2, <1>4, <2>1, <2>5
  <2>7. columnBuffer[m] # <<>> /\ u = Head(columnBuffer[m])
    BY <2>2, <2>6
  <2>8. ColumnWinner(m[1], ColumnOf(Head(columnBuffer[m]).id)) = m[2]
    BY <1>2, <2>2, <2>6, <2>7
  <2> QED
    BY <2>1, <2>7, <2>8 DEF ReadColumn
<1>5. ASSUME ReadColumn(m), Head(columnBuffer[m]).to = d
      PROVE  FromColumn(d) = Head(columnBuffer[m])
  <2>1. columnBuffer[m] # <<>> /\ ColumnWinner(m[1], ColumnOf(Head(columnBuffer[m]).id)) = m[2]
    BY <1>5 DEF ReadColumn
  <2>2. Head(columnBuffer[m]) \in Routed
    <3>1. columnBuffer[m] \in Seq(ForRow(m))
      BY <1>1, <1>2 DEF Routing
    <3>2. Head(columnBuffer[m]) \in ForRow(m)
      BY <2>1, <3>1, HeadTailProperties
    <3> QED
      BY <3>2 DEF ForRow
  <2>3. ColumnOf(Head(columnBuffer[m]).id) = d[2]
    BY <1>5, <2>2, RoutedDigits
  <2>4. ColumnWinner(d[1], d[2]) = s[2] /\ s[2] # None
    BY <1>2, <2>1, <2>3, NoneAssumption
  <2> QED
    BY <1>2, <2>4 DEF FromColumn
<1> DEFINE x == FromColumn(d)
           y == IF ReadColumn(m) THEN Head(columnBuffer[m]) ELSE None
<1>6. ReadColumn(m) => y = Head(columnBuffer[m])
  OBVIOUS
<1>7. ~ReadColumn(m) => y = None
  OBVIOUS
<1> HIDE DEF x, y
<1>8. Own(x, s, d) = Own(y, s, d)
  <2>1. CASE x # None /\ x.from = s /\ x.to = d
    <3>1. x = y
      BY <1>4, <1>6, <2>1 DEF x
    <3> QED
      BY <3>1
  <2>2. CASE y # None /\ y.from = s /\ y.to = d
    <3>1. ReadColumn(m) /\ y = Head(columnBuffer[m])
      BY <1>6, <1>7, <2>2
    <3>2. x = y
      BY <1>5, <2>2, <3>1 DEF x
    <3> QED
      BY <3>2
  <2>3. CASE ~(x # None /\ x.from = s /\ x.to = d) /\ ~(y # None /\ y.from = s /\ y.to = d)
    BY <2>3, Zenon DEF Own
  <2> QED
    BY <2>1, <2>2, <2>3
<1> QED
  BY <1>3, <1>8 DEF x, y

LEMMA OriginsInit == Init => Origins
<1> SUFFICES ASSUME Init, NEW n \in Node
             PROVE  /\ scheduleV[n] \in Entered(n) \union {None}
                    /\ rowBuffer[n] \in Seq(Entered(n)) /\ columnBuffer[n] \in Seq(Beside(n))
  BY DEF Origins
<1>1. scheduleV[n] = None /\ rowBuffer[n] = <<>> /\ columnBuffer[n] = <<>>
  BY DEF Init
<1>2. \A S : <<>> \in Seq(S)
  OBVIOUS
<1> QED
  BY <1>1, <1>2

LEMMA OriginsStep ==
  ASSUME ChannelInv, NEW full, Tick(full)
  PROVE  Origins'
<1>1. TypeOK /\ EndLevels /\ Origins /\ MoveUpdates(full)
  BY DEF ChannelInv, NetworkInv, Tick
<1>2. PICK S \in SUBSET MaySend : \E v \in [S -> Vertex] : HandOver(S, v)
  BY DEF Tick
<1>3. PICK v \in [S -> Vertex] : HandOver(S, v)
  BY <1>2
<1>4. ASSUME NEW n \in Node
      PROVE  /\ scheduleV'[n] \in Entered(n) \union {None}
             /\ rowBuffer'[n] \in Seq(Entered(n)) /\ columnBuffer'[n] \in Seq(Beside(n))
  <2>1. scheduleV'[n] \in Entered(n) \union {None}
    <3>1. scheduleV'[n] \in Routed \union {None}
      BY <1>1, <1>3, HandOverStep
    <3>2. scheduleV'[n] = IF n \in S
            THEN [id |-> v[n], to |-> Owner(v[n]), from |-> n, nr |-> sent[n] + 1] ELSE None
      BY <1>3 DEF HandOver
    <3>3. CASE n \in S
      <4>1. scheduleV'[n].from = n
        BY <3>2, <3>3
      <4> QED
        BY <3>1, <4>1 DEF Entered
    <3>4. CASE n \notin S
      BY <3>2, <3>4
    <3> QED
      BY <3>3, <3>4
  <2>2. /\ scheduleV[n] \in Entered(n) \union {None}
        /\ rowBuffer[n] \in Seq(Entered(n)) /\ columnBuffer[n] \in Seq(Beside(n))
    BY <1>1 DEF Origins
  <2>3. n = <<n[1], n[2]>>
    BY DEF Node
  <2>4. FromRow(n) \in Beside(n) \union {None}
    BY <2>3, RowHop
  <2>5. /\ rowBuffer'[n] = Push(Pop(rowBuffer[n], ReadRow(n)), scheduleV[n])
        /\ columnBuffer'[n] = Push(Pop(columnBuffer[n], ReadColumn(n)), FromRow(n))
    BY <1>1 DEF MoveUpdates
  <2>6. None \notin Entered(n) /\ ReadRow(n) \in BOOLEAN /\ (ReadRow(n) => rowBuffer[n] # <<>>)
    BY NoNone, Reads
  <2>7. rowBuffer'[n] \in Seq(Entered(n))
    BY <2>2, <2>5, <2>6, PushPop, Zenon
  <2>8. None \notin Beside(n) /\ ReadColumn(n) \in BOOLEAN
        /\ (ReadColumn(n) => columnBuffer[n] # <<>>)
    BY NoNone, Reads
  <2>9. columnBuffer'[n] \in Seq(Beside(n))
    BY <2>2, <2>4, <2>5, <2>8, PushPop, Zenon
  <2> QED
    BY <2>1, <2>7, <2>9
<1> QED
  BY <1>4 DEF Origins

LEMMA ChannelInvNext == ChannelInv /\ [Next]_vars => ChannelInv'
<1> SUFFICES ASSUME ChannelInv, [Next]_vars PROVE ChannelInv'
  OBVIOUS
<1>1. NetworkInv'
  BY NextInv DEF ChannelInv
<1>2. CASE Next
  <2>1. PICK full \in SUBSET {n \in Node : localBuffer[n] # <<>>} : Tick(full)
    BY <1>2 DEF Next
  <2>2. Origins'
    BY <2>1, OriginsStep
  <2> QED
    BY <1>1, <2>2 DEF ChannelInv
<1>3. CASE UNCHANGED vars
  <2>1. UNCHANGED <<scheduleV, rowBuffer, columnBuffer>>
    BY <1>3 DEF vars, schedule, buffers
  <2>2. Origins'
    BY <2>1 DEF ChannelInv, Origins
  <2> QED
    BY <1>1, <2>2 DEF ChannelInv
<1> QED
  BY <1>2, <1>3

-----------------------------------------------------------------------------
(***************************************************************************)
(* The buffers on the way from s to d are one queue: in a tick each gives  *)
(* its front to the next, and what enters at one end and what leaves at    *)
(* the other is all that changes.                                          *)
(***************************************************************************)
Join(s, t) == s \o t

(* u leaves, p enters the row buffer, pp is handed over; a, b are given on.*)
Hops(T, u, l, a, c, b, r, p, pp) ==
  /\ \A x, y, z \in T : Join(Join(x, y), z) = Join(x, Join(y, z)) /\ Join(x, y) \in T
  /\ {u, l, a, c, b, r, p, pp} \subseteq T

Rest(l, a, c, b, r, p) == Join(l, Join(a, Join(c, Join(b, Join(r, p)))))

LEMMA OneQueue ==
  ASSUME NEW T, NEW u, NEW l, NEW a, NEW c, NEW b, NEW r, NEW p, NEW pp,
         Hops(T, u, l, a, c, b, r, p, pp)
  PROVE  /\ Join(Join(Join(Join(u, l), Join(a, c)), Join(b, r)), p) = Join(u, Rest(l, a, c, b, r, p))
         /\ Join(Join(Join(Join(l, a), Join(c, b)), Join(r, p)), pp) = Join(Rest(l, a, c, b, r, p), pp)
         /\ Rest(l, a, c, b, r, p) \in T
<1>1. /\ \A x, y \in T : Join(x, y) \in T
      /\ \A x, y, z \in T : Join(Join(x, y), z) = Join(x, Join(y, z))
      /\ u \in T /\ l \in T /\ a \in T /\ c \in T /\ b \in T /\ r \in T /\ p \in T /\ pp \in T
  <2>1. \A x, y, z \in T : Join(Join(x, y), z) = Join(x, Join(y, z)) /\ Join(x, y) \in T
    BY DEF Hops
  <2>2. \A x, y \in T : Join(x, y) \in T
    BY <2>1, Zenon
  <2>3. \A x, y, z \in T : Join(Join(x, y), z) = Join(x, Join(y, z))
    BY <2>1, Zenon
  <2> QED
    BY <2>2, <2>3 DEF Hops
<1> DEFINE rp  == Join(r, p)
           brp == Join(b, rp)
           cbrp == Join(c, brp)
           acbrp == Join(a, cbrp)
           w == Join(l, acbrp)
<1>2. rp \in T /\ brp \in T /\ cbrp \in T /\ acbrp \in T /\ w \in T
  BY <1>1
<1>3. Join(Join(Join(Join(u, l), Join(a, c)), Join(b, r)), p) = Join(u, w)
  <2> DEFINE ul == Join(u, l)
             ac == Join(a, c)
             br == Join(b, r)
             x == Join(ul, ac)
  <2>1. ul \in T /\ ac \in T /\ br \in T /\ x \in T
    BY <1>1
  <2>2. Join(br, p) = brp
    BY <1>1
  <2>3. Join(ac, brp) = acbrp
    BY <1>1, <1>2
  <2>4. Join(ul, acbrp) = Join(u, w)
    BY <1>1, <1>2
  <2> HIDE DEF ul, ac, br, rp, brp, cbrp, acbrp, w
  <2>5. Join(Join(x, br), p) = Join(x, brp)
    <3> HIDE DEF x
    <3>1. Join(Join(x, br), p) = Join(x, Join(br, p))
      BY <1>1, <2>1
    <3> QED
      BY <2>2, <3>1
  <2>6. Join(x, brp) = Join(ul, acbrp)
    <3>1. Join(Join(ul, ac), brp) = Join(ul, Join(ac, brp))
      BY <1>1, <1>2, <2>1
    <3> QED
      BY <2>3, <3>1
  <2> QED
    BY <2>4, <2>5, <2>6 DEF ul, ac, br
<1>4. Join(Join(Join(Join(l, a), Join(c, b)), Join(r, p)), pp) = Join(w, pp)
  <2> DEFINE la == Join(l, a)
             cb == Join(c, b)
  <2>1. la \in T /\ cb \in T
    BY <1>1
  <2>2. Join(cb, rp) = cbrp
    BY <1>1, <1>2
  <2>3. Join(la, cbrp) = w
    BY <1>1, <1>2
  <2> HIDE DEF la, cb, rp, brp, cbrp, acbrp, w
  <2>4. Join(Join(la, cb), rp) = w
    <3>1. Join(Join(la, cb), rp) = Join(la, Join(cb, rp))
      BY <1>1, <1>2, <2>1
    <3> QED
      BY <2>2, <2>3, <3>1
  <2> QED
    BY <2>4 DEF la, cb, rp
<1> QED
  BY <1>2, <1>3, <1>4 DEF Rest

ThreeQueues(r, s, t) == r \in Seq(Update) /\ s \in Seq(Update) /\ t \in Seq(Update)

LEMMA Regroup ==
  ASSUME NEW r, NEW s, NEW t, ThreeQueues(r, s, t)
  PROVE  Join(Join(r, s), t) = Join(r, Join(s, t)) /\ Join(r, s) \in Seq(Update)
<1>1. r \in Seq(Update) /\ s \in Seq(Update) /\ t \in Seq(Update)
  BY DEF ThreeQueues
<1>2. (r \o s) \o t = r \o (s \o t)
  BY <1>1, ConcatAssociative
<1> QED
  BY <1>1, <1>2, ConcatProperties DEF Join

LEMMA Associative ==
  \A r, s, t \in Seq(Update) :
    Join(Join(r, s), t) = Join(r, Join(s, t)) /\ Join(r, s) \in Seq(Update)
<1> SUFFICES ASSUME NEW r \in Seq(Update), NEW s \in Seq(Update), NEW t \in Seq(Update)
             PROVE  Join(Join(r, s), t) = Join(r, Join(s, t)) /\ Join(r, s) \in Seq(Update)
  OBVIOUS
<1>1. ThreeQueues(r, s, t)
  BY DEF ThreeQueues
<1> QED
  BY <1>1, Regroup


(* One buffer in a tick: what leaves it and what enters it.                *)
LEMMA Hop ==
  ASSUME NEW q \in Seq(Update), NEW b \in BOOLEAN, b => q # <<>>,
         NEW x \in Update \union {None}, NEW s, NEW d
  PROVE  /\ Pop(q, b) \in Seq(Update) /\ Push(Pop(q, b), x) \in Seq(Update)
         /\ Between(q, s, d)
              = Join(Own(IF b THEN Head(q) ELSE None, s, d), Between(Pop(q, b), s, d))
         /\ Between(Push(Pop(q, b), x), s, d) = Join(Between(Pop(q, b), s, d), Own(x, s, d))
<1>1. Pop(q, b) \in Seq(Update)
  BY BetweenPop
<1>2. Between(q, s, d) = Own(IF b THEN Head(q) ELSE None, s, d) \o Between(Pop(q, b), s, d)
  BY BetweenPop
<1> DEFINE r == Pop(q, b)
<1>3. r \in Seq(Update)
  BY <1>1
<1> HIDE DEF r
<1>4. Push(r, x) \in Seq(Update) /\ Between(Push(r, x), s, d) = Between(r, s, d) \o Own(x, s, d)
  BY <1>3, BetweenPush
<1> QED
  BY <1>1, <1>2, <1>4, Zenon DEF Join, r

LEMMA BetweenJoined ==
  ASSUME NEW q \in Seq(Update), NEW r \in Seq(Update), NEW s, NEW d
  PROVE  /\ Join(q, r) \in Seq(Update)
         /\ Between(Join(q, r), s, d) = Join(Between(q, s, d), Between(r, s, d))
<1>1. q \o r \in Seq(Update)
  BY ConcatProperties
<1>2. Between(q \o r, s, d) = Between(q, s, d) \o Between(r, s, d)
  BY BetweenJoin
<1> QED
  BY <1>1, <1>2, Zenon DEF Join

LEMMA BetweenAlone ==
  ASSUME NEW x \in Update \union {None}, NEW s, NEW d
  PROVE  Push(<<>>, x) \in Seq(Update) /\ Between(Push(<<>>, x), s, d) = Own(x, s, d)
<1>1. CASE x = None
  <2>1. Push(<<>>, x) = <<>> /\ Own(x, s, d) = <<>>
    BY <1>1 DEF Push, Own
  <2>2. Between(<<>>, s, d) = <<>>
    BY BetweenNone
  <2>3. <<>> \in Seq(Update)
    BY EmptySeq
  <2> QED
    BY <2>1, <2>2, <2>3, Zenon
<1>2. CASE x \in Update
  <2>1. x # None
    BY <1>2, NoneAssumption
  <2>2. Push(<<>>, x) = <<x>>
    BY <2>1 DEF Push
  <2>3. <<x>> \in Seq(Update) /\ Between(<<x>>, s, d) = Own(x, s, d)
    BY <1>2, BetweenOne
  <2> QED
    BY <2>2, <2>3, Zenon
<1> QED
  BY <1>1, <1>2

LEMMA PathParts ==
  ASSUME NEW l \in Seq(Update), NEW c \in Seq(Update), NEW r \in Seq(Update),
         NEW x \in Update \union {None}, NEW s, NEW d
  PROVE  Between(l \o c \o r \o Push(<<>>, x), s, d)
           = Join(Join(Join(Between(l, s, d), Between(c, s, d)), Between(r, s, d)), Own(x, s, d))
<1> DEFINE h == Push(<<>>, x)
<1>1. h \in Seq(Update) /\ Between(h, s, d) = Own(x, s, d)
  BY BetweenAlone
<1> HIDE DEF h
<1>2. /\ Join(l, c) \in Seq(Update)
      /\ Between(Join(l, c), s, d) = Join(Between(l, s, d), Between(c, s, d))
  BY BetweenJoined
<1>3. /\ Join(Join(l, c), r) \in Seq(Update)
      /\ Between(Join(Join(l, c), r), s, d) = Join(Between(Join(l, c), s, d), Between(r, s, d))
  BY <1>2, BetweenJoined
<1>4. Between(Join(Join(Join(l, c), r), h), s, d)
        = Join(Between(Join(Join(l, c), r), s, d), Between(h, s, d))
  BY <1>1, <1>3, BetweenJoined
<1>5. Join(Join(Join(l, c), r), h) = l \o c \o r \o h
  BY Zenon DEF Join
<1> QED
  BY <1>1, <1>2, <1>3, <1>4, <1>5, Zenon DEF h

LEMMA StreamStep ==
  ASSUME ChannelInv, NEW full \in SUBSET {n \in Node : localBuffer[n] # <<>>}, Tick(full),
         NEW s \in Node, NEW d \in Node
  PROVE  \E w \in Seq(Update) :
           /\ InFlight[s][d] = Own(updateV'[d], s, d) \o w
           /\ InFlight'[s][d] = w \o Own(scheduleV'[s], s, d)
<1> DEFINE m == <<d[1], s[2]>>
           f(q) == Between(q, s, d)
           o(x) == Own(x, s, d)
           l0 == Pop(localBuffer[d], Output(d, full))
           c0 == Pop(columnBuffer[m], ReadColumn(m))
           r0 == Pop(rowBuffer[s], ReadRow(s))
           x == FromColumn(d)
           y == FromRow(m)
           u == updateV'[d]
           p == scheduleV[s]
           pp == scheduleV'[s]
<1>1. /\ Routing /\ MoveUpdates(full)
      /\ m \in Node /\ y \in Beside(m) \union {None} /\ x \in ForNode(d) \union {None}
  BY RowHop, ColumnHop DEF ChannelInv, NetworkInv, Tick
<1>2. x \in Update \union {None} /\ y \in Update \union {None}
  BY <1>1, NoNone
<1>3. /\ localBuffer[d] \in Seq(Update) /\ columnBuffer[m] \in Seq(Update)
      /\ rowBuffer[s] \in Seq(Update) /\ p \in Update \union {None}
  BY <1>1 DEF ChannelInv, NetworkInv, TypeOK
<1>4. TypeOK'
  <2>1. Next
    BY DEF Next
  <2>2. NetworkInv'
    BY <2>1, NextInv DEF ChannelInv
  <2> QED
    BY <2>2 DEF NetworkInv
<1>5. pp \in Update \union {None} /\ u \in Update \union {None}
  BY <1>4 DEF TypeOK
<1>6. /\ localBuffer'[d] = Push(l0, x) /\ columnBuffer'[m] = Push(c0, y)
      /\ rowBuffer'[s] = Push(r0, p)
      /\ u = IF Output(d, full) THEN Head(localBuffer[d]) ELSE None
  BY <1>1 DEF MoveUpdates
<1>7. /\ l0 \in Seq(Update) /\ Push(l0, x) \in Seq(Update)
      /\ f(localBuffer[d]) = Join(o(u), f(l0)) /\ f(Push(l0, x)) = Join(f(l0), o(x))
  <2>1. Output(d, full) \in BOOLEAN /\ (Output(d, full) => localBuffer[d] # <<>>)
    BY Reads
  <2> DEFINE q == localBuffer[d]
             t == Output(d, full)
  <2>2. q \in Seq(Update) /\ t \in BOOLEAN /\ (t => q # <<>>)
    BY <1>3, <2>1
  <2> HIDE DEF x, q, t
  <2>3. /\ Pop(q, t) \in Seq(Update) /\ Push(Pop(q, t), x) \in Seq(Update)
        /\ Between(q, s, d)
             = Join(Own(IF t THEN Head(q) ELSE None, s, d), Between(Pop(q, t), s, d))
        /\ Between(Push(Pop(q, t), x), s, d) = Join(Between(Pop(q, t), s, d), Own(x, s, d))
    BY <1>2, <2>2, Hop
  <2> QED
    BY <1>6, <2>3, Zenon DEF q, t, l0
<1>8. /\ c0 \in Seq(Update) /\ Push(c0, y) \in Seq(Update)
      /\ f(columnBuffer[m]) = Join(o(x), f(c0)) /\ f(Push(c0, y)) = Join(f(c0), o(y))
  <2>1. ReadColumn(m) \in BOOLEAN /\ (ReadColumn(m) => columnBuffer[m] # <<>>)
    BY <1>1, Reads
  <2>2. o(x) = o(IF ReadColumn(m) THEN Head(columnBuffer[m]) ELSE None)
    BY ColumnHop
  <2> DEFINE q == columnBuffer[m]
             t == ReadColumn(m)
  <2>3. q \in Seq(Update) /\ t \in BOOLEAN /\ (t => q # <<>>)
    BY <1>3, <2>1
  <2> HIDE DEF x, y, q, t
  <2>4. /\ Pop(q, t) \in Seq(Update) /\ Push(Pop(q, t), y) \in Seq(Update)
        /\ Between(q, s, d)
             = Join(Own(IF t THEN Head(q) ELSE None, s, d), Between(Pop(q, t), s, d))
        /\ Between(Push(Pop(q, t), y), s, d) = Join(Between(Pop(q, t), s, d), Own(y, s, d))
    BY <1>2, <2>3, Hop
  <2> QED
    BY <2>2, <2>4, Zenon DEF q, t, c0
<1>9. /\ r0 \in Seq(Update) /\ Push(r0, p) \in Seq(Update)
      /\ f(rowBuffer[s]) = Join(o(y), f(r0)) /\ f(Push(r0, p)) = Join(f(r0), o(p))
  <2>1. ReadRow(s) \in BOOLEAN /\ (ReadRow(s) => rowBuffer[s] # <<>>)
    BY Reads
  <2>2. o(y) = o(IF ReadRow(s) THEN Head(rowBuffer[s]) ELSE None)
    BY RowHop
  <2> DEFINE q == rowBuffer[s]
             t == ReadRow(s)
  <2>3. q \in Seq(Update) /\ t \in BOOLEAN /\ (t => q # <<>>)
    BY <1>3, <2>1
  <2> HIDE DEF y, p, q, t
  <2>4. /\ Pop(q, t) \in Seq(Update) /\ Push(Pop(q, t), p) \in Seq(Update)
        /\ Between(q, s, d)
             = Join(Own(IF t THEN Head(q) ELSE None, s, d), Between(Pop(q, t), s, d))
        /\ Between(Push(Pop(q, t), p), s, d) = Join(Between(Pop(q, t), s, d), Own(p, s, d))
    BY <1>3, <2>3, Hop
  <2> QED
    BY <2>2, <2>4, Zenon DEF q, t, r0
<1> HIDE DEF l0, c0, r0, x, y, u, p, pp
<1>13. InFlight[s][d]
         = Join(Join(Join(Join(o(u), f(l0)), Join(o(x), f(c0))), Join(o(y), f(r0))), o(p))
  <2>1. InFlight[s][d] = Between(localBuffer[d] \o columnBuffer[m] \o rowBuffer[s] \o Push(<<>>, p), s, d)
    BY DEF InFlight, Path, p
  <2>2. InFlight[s][d] = Join(Join(Join(f(localBuffer[d]), f(columnBuffer[m])), f(rowBuffer[s])), o(p))
    BY <1>3, <2>1, PathParts
  <2> QED
    BY <1>7, <1>8, <1>9, <2>2
<1>14. InFlight'[s][d]
         = Join(Join(Join(Join(f(l0), o(x)), Join(f(c0), o(y))), Join(f(r0), o(p))), o(pp))
  <2> DEFINE ll == Push(l0, x)
             cc == Push(c0, y)
             rr == Push(r0, p)
  <2>1. InFlight'[s][d] = Between(ll \o cc \o rr \o Push(<<>>, pp), s, d)
    BY <1>6 DEF InFlight, Path, pp
  <2>2. /\ ll \in Seq(Update) /\ cc \in Seq(Update) /\ rr \in Seq(Update)
        /\ f(ll) = Join(f(l0), o(x)) /\ f(cc) = Join(f(c0), o(y)) /\ f(rr) = Join(f(r0), o(p))
    BY <1>7, <1>8, <1>9
  <2> HIDE DEF ll, cc, rr
  <2>3. InFlight'[s][d] = Join(Join(Join(f(ll), f(cc)), f(rr)), o(pp))
    BY <1>5, <2>1, <2>2, PathParts
  <2> QED
    BY <2>2, <2>3
<1>15. Hops(Seq(Update), o(u), f(l0), o(x), f(c0), o(y), f(r0), o(p), o(pp))
  <2>1. f(l0) \in Seq(Update) /\ f(c0) \in Seq(Update) /\ f(r0) \in Seq(Update)
    BY <1>7, <1>8, <1>9, BetweenType
  <2>2. /\ o(u) \in Seq(Update) /\ o(x) \in Seq(Update) /\ o(y) \in Seq(Update)
        /\ o(p) \in Seq(Update) /\ o(pp) \in Seq(Update)
    BY <1>2, <1>3, <1>5, OwnType
  <2> HIDE DEF f, o
  <2> QED
    BY <2>1, <2>2, Associative DEF Hops
<1> DEFINE w == Rest(f(l0), o(x), f(c0), o(y), f(r0), o(p))
<1>16. /\ InFlight[s][d] = Join(o(u), w) /\ InFlight'[s][d] = Join(w, o(pp))
       /\ w \in Seq(Update)
  <2> HIDE DEF f, o
  <2> QED
    BY <1>13, <1>14, <1>15, OneQueue
<1> HIDE DEF w
<1> QED
  BY <1>16 DEF Join, u, pp

-----------------------------------------------------------------------------
(***************************************************************************)
(* The network as FIFO channels.                                           *)
(***************************************************************************)

(* What a channel from s to d does in a tick in which d receives x and s   *)
(* hands over y.                                                           *)
Served(x, y, s, d, a, b) ==
  /\ x # None /\ x.from = s => a # <<>> /\ x = Head(a)
  /\ b = LET left == IF x # None /\ x.from = s THEN Tail(a) ELSE a
         IN IF y # None /\ y.to = d THEN Append(left, y) ELSE left

LEMMA QueueEnds ==
  ASSUME NEW x \in Update \union {None}, NEW y \in Update \union {None}, NEW s, NEW d,
         x # None => x.to = d, y # None => y.from = s,
         NEW w \in Seq(Update), NEW a, NEW b,
         a = Own(x, s, d) \o w, b = w \o Own(y, s, d)
  PROVE  Served(x, y, s, d, a, b)
<1> DEFINE left == IF x # None /\ x.from = s THEN Tail(a) ELSE a
<1>1. (x # None /\ x.from = s => a # <<>> /\ x = Head(a)) /\ left = w
  <2>1. CASE x # None /\ x.from = s
    <3>1. a = <<x>> \o w
      BY <2>1 DEF Own
    <3>2. x \in Update
      BY <2>1
    <3>3. a # <<>> /\ Head(a) = x /\ Tail(a) = w
      BY <3>1, <3>2
    <3> QED
      BY <2>1, <3>3
  <2>2. CASE ~(x # None /\ x.from = s)
    <3>1. Own(x, s, d) = <<>>
      BY <2>2 DEF Own
    <3>2. <<>> \o w = w
      BY ConcatEmptySeq
    <3>3. a = w
      BY <3>1, <3>2, Zenon
    <3> QED
      BY <2>2, <3>3
  <2> QED
    BY <2>1, <2>2
<1>2. b = IF y # None /\ y.to = d THEN Append(w, y) ELSE w
  <2>1. CASE y # None /\ y.to = d
    <3>1. b = w \o <<y>> /\ y \in Update
      BY <2>1 DEF Own
    <3> QED
      BY <2>1, <3>1, AppendIsConcat
  <2>2. CASE ~(y # None /\ y.to = d)
    <3>1. Own(y, s, d) = <<>>
      BY <2>2 DEF Own
    <3>2. w \o <<>> = w
      BY ConcatEmptySeq
    <3>3. b = w
      BY <3>1, <3>2, Zenon
    <3> QED
      BY <2>2, <3>3
  <2> QED
    BY <2>1, <2>2
<1> HIDE DEF left
<1>3. b = IF y # None /\ y.to = d THEN Append(left, y) ELSE left
  BY <1>1, <1>2
<1> QED
  BY <1>1, <1>3 DEF left, Served

LEMMA ChannelStep ==
  ASSUME ChannelInv, Next
  PROVE  Network!ChannelNext
<1>1. PICK full \in SUBSET {n \in Node : localBuffer[n] # <<>>} : Tick(full)
  BY DEF Next
<1>2. NetworkInv' /\ Origins'
  BY NextInv, ChannelInvNext DEF ChannelInv
<1>3. ASSUME NEW s \in Node, NEW d \in Node
      PROVE  /\ updateV'[d] # None /\ updateV'[d].from = s => Network!Receive(s, d)
             /\ Network!Channel(s, d)
  <2> DEFINE x == updateV'[d]
             y == scheduleV'[s]
             a == InFlight[s][d]
             b == InFlight'[s][d]
  <2>1. x \in Update \union {None} /\ y \in Update \union {None}
    BY <1>2 DEF NetworkInv, TypeOK
  <2>2. x # None => x.to = d
    BY <1>2 DEF NetworkInv, Routing, ForNode
  <2>3. y # None => y.from = s
    BY <1>2 DEF Origins, Entered
  <2>4. PICK w \in Seq(Update) : a = Own(x, s, d) \o w /\ b = w \o Own(y, s, d)
    BY <1>1, StreamStep
  <2> HIDE DEF x, y, a, b
  <2>5. Served(x, y, s, d, a, b)
    BY <2>1, <2>2, <2>3, <2>4, QueueEnds
  <2> QED
    BY <2>5 DEF x, y, a, b, Served, Network!Receive, Network!Channel
<1>4. ASSUME NEW d \in Node, updateV'[d] # None
      PROVE  \E s \in Node : Network!Receive(s, d)
  <2>1. updateV'[d] \in Update
    BY <1>2, <1>4 DEF NetworkInv, TypeOK
  <2>2. updateV'[d].from \in Node
    BY <2>1 DEF Update
  <2> QED
    BY <1>3, <1>4, <2>2
<1> QED
  BY <1>3, <1>4 DEF Network!ChannelNext

LEMMA ChannelStutter == UNCHANGED vars => UNCHANGED Network!channelVars
<1> SUFFICES ASSUME UNCHANGED vars PROVE UNCHANGED Network!channelVars
  OBVIOUS
<1>1. /\ UNCHANGED scheduleV /\ UNCHANGED updateV /\ UNCHANGED rowBuffer
      /\ UNCHANGED columnBuffer /\ UNCHANGED localBuffer
  BY DEF vars, schedule, buffers
<1>2. InFlight' = InFlight
  BY <1>1 DEF InFlight, Path
<1> QED
  BY <1>1, <1>2 DEF Network!channelVars

LEMMA ChannelInit == Init => ChannelInv /\ Network!ChannelInit
<1> SUFFICES ASSUME Init PROVE ChannelInv /\ Network!ChannelInit
  OBVIOUS
<1>1. ChannelInv
  BY InitInv, OriginsInit DEF ChannelInv
<1>2. ASSUME NEW s \in Node, NEW d \in Node
      PROVE  InFlight[s][d] = <<>>
  <2>1. <<d[1], s[2]>> \in Node
    BY DEF Node
  <2>2. /\ localBuffer[d] = <<>> /\ columnBuffer[<<d[1], s[2]>>] = <<>> /\ rowBuffer[s] = <<>>
        /\ Push(<<>>, scheduleV[s]) = <<>>
    BY <2>1 DEF Init, Push
  <2>3. <<>> \o <<>> = <<>>
    BY ConcatEmptySeq
  <2>4. Path(s, d) = <<>>
    BY <2>2, <2>3, Zenon DEF Path
  <2> QED
    BY <2>4, BetweenNone DEF InFlight
<1>3. InFlight = [s \in Node |-> [d \in Node |-> <<>>]]
  BY <1>2 DEF InFlight
<1> QED
  BY <1>1, <1>3 DEF Init, Network!ChannelInit

(* The crossbars and the buffers of all nodes (Hyperx_Network in           *)
(* 8_Hyperx_Network.cpp) are FIFO channels between every two nodes: in any *)
(* grid, with any buffers, no update is lost, duplicated, invented or      *)
(* overtaken by a later one of the same source to the same core.           *)
THEOREM ChannelRefinementHolds == Spec => ChannelRefinement
<1>1. Init => ChannelInv /\ Network!ChannelInit
  BY ChannelInit
<1>2. ChannelInv /\ [Next]_vars => ChannelInv' /\ [Network!ChannelNext]_(Network!channelVars)
  BY ChannelInvNext, ChannelStep, ChannelStutter
<1> QED
  BY <1>1, <1>2, PTL DEF Spec, ChannelRefinement, Network!ChannelSpec

=============================================================================
