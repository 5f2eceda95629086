--------------------------- MODULE VertexRamProof ---------------------------
(***************************************************************************)
(* Proofs about VertexRam, for any set of vertices and updates, any depth  *)
(* of the conflict window from 2 on and any WAIT_END_DELAY (what the end    *)
(* promises to stage 1 holds from WAIT_END_DELAY = 1 on).                  *)
(***************************************************************************)
EXTENDS VertexRam, SequenceTheorems, TLAPS

USE DEF Bank

-----------------------------------------------------------------------------
(* Type correctness.                                                       *)

LEMMA BanksAreTwo ==
  ASSUME TypeOK
  PROVE  /\ Src \in Bank /\ Dst \in Bank /\ Src # Dst
         /\ \A b \in Bank : b = Src \/ b = Dst
  BY ParameterAssumption DEF TypeOK, FrontEndType, Src, Dst

LEMMA PushType ==
  ASSUME NEW S, None \notin S, NEW q \in Seq(S), NEW x \in S \union {None}
  PROVE  Push(q, x) \in Seq(S)
  BY DEF Push

LEMMA InitType == Init => TypeOK
<1> SUFFICES ASSUME Init PROVE TypeOK
  OBVIOUS
<1>1. NetworkType
  <2>1. /\ recvV \in Update \union {None} /\ wrV \in Update \union {None}
        /\ phase \in {"new", "run", "end"} /\ settled \in 0 .. 2
        /\ ledger \in [Vertex -> [count : Nat, delta : Int, pr : Int]]
    BY DEF Init
  <2>2. recvEnd \in BOOLEAN /\ wrEnd \in BOOLEAN /\ destCoreFull \in BOOLEAN
    BY Zenon DEF Init
  <2>3. sent \in 0 .. MAX_UPDATES
    BY ParameterAssumption DEF Init
  <2> QED
    BY <2>1, <2>2, <2>3 DEF NetworkType
<1>2. ControllerType
  <2>1. /\ wrDelta \in Seq(Update) /\ wrPr \in Seq(Update)
        /\ activeDelta \in Seq([addr : Vertex, val : Int]) /\ activePr \in Seq(Int)
    BY DEF Init
  <2>2. /\ deltaRd \in [Bank -> Vertex \union {None}] /\ prRd \in Vertex \union {None}
        /\ deltaWr \in [Bank -> [addr : Vertex, val : Int, tag : Nat] \union {None}]
        /\ prWr \in [addr : Vertex, val : Int] \union {None}
        /\ srcV \in Delta \union {None}
        /\ activeV \in [addr : Vertex, updated : BOOLEAN] \union {None}
    BY DEF Init
  <2>3. conflictCheck \in [Window -> Vertex \union {None}]
    BY DEF Init
  <2>4. iterationEnd \in BOOLEAN /\ stageFull \in BOOLEAN
    BY Zenon DEF Init
  <2>5. endCt \in 0 .. WAIT_END_DELAY
    BY ParameterAssumption DEF Init
  <2> QED
    BY <2>1, <2>2, <2>3, <2>4, <2>5 DEF ControllerType
<1>3. MemoryType
  BY ParameterAssumption DEF Init, MemoryType, Delta
<1>4. FrontEndType
  <2>1. iterationID \in 0 .. MAX_ITERATION
    BY ParameterAssumption DEF Init
  <2>2. backendEnd \in BOOLEAN /\ iterationFlag \in BOOLEAN
    BY Zenon DEF Init
  <2>3. /\ rdV \in Vertex \union {None}
        /\ backendV \in [addr : Vertex, updated : BOOLEAN] \union {None}
        /\ visNow \subseteq Vertex /\ visNext \subseteq Vertex
    BY DEF Init
  <2> QED
    BY <2>1, <2>2, <2>3 DEF FrontEndType
<1> QED
  BY <1>1, <1>2, <1>3, <1>4 DEF TypeOK

(* Every stage writes values of the right type, given what the others      *)
(* wrote in the tick before; the error exits guard the answers stage 10    *)
(* takes from the memories.                                                *)

LEMMA DstDataType ==
  ASSUME TypeOK, ~Error1, ~Error2
  PROVE  /\ Pending \in Seq(Update)
         /\ deltaData[Dst] # None => deltaData[Dst] \in Delta /\ Pending # <<>>
         /\ prData # None => prData \in Int /\ Pending # <<>>
<1>1. Pending \in Seq(Update)
  BY PushType, NoneAssumption DEF TypeOK, NetworkType, ControllerType, Pending
<1>2. deltaData[Dst] \in Delta \union {None}
  BY BanksAreTwo DEF TypeOK, MemoryType
<1> QED
  BY <1>1, <1>2 DEF TypeOK, MemoryType, Error1, Error2

LEMMA WriteType ==
  ASSUME TypeOK, ~Error1, ~Error2
  PROVE  /\ DeltaWrite \in [addr : Vertex, val : Int, tag : Nat] \union {None}
         /\ PrWrite \in [addr : Vertex, val : Int] \union {None}
         /\ Unwritten \in Seq(Update)
<1> USE DstDataType, ParameterAssumption
<1>1. Pending # <<>> => Head(Pending) \in Update
  OBVIOUS
<1>2. Pending # <<>> => Head(Pending).addr \in Vertex /\ Head(Pending).val \in Int
  BY <1>1 DEF Update
<1>3. deltaData[Dst] # None => Accumulated \in Int
  BY <1>2 DEF Accumulated, Delta
<1>4. iterationID \in Nat
  BY DEF TypeOK, FrontEndType
<1>5. DeltaWrite \in [addr : Vertex, val : Int, tag : Nat] \union {None}
  BY <1>2, <1>3, <1>4 DEF DeltaWrite
<1>6. PrWrite \in [addr : Vertex, val : Int] \union {None}
  BY <1>2 DEF PrWrite
<1>7. Unwritten \in Seq(Update)
  BY DEF Unwritten
<1> QED
  BY <1>5, <1>6, <1>7

LEMMA IssuedType ==
  ASSUME TypeOK
  PROVE  /\ Issued \in Vertex \union {None}
         /\ Issued # None => wrDelta # <<>> /\ ~Conflict /\ Issued = Head(wrDelta).addr
<1>1. wrDelta \in Seq(Update)
  BY DEF TypeOK, ControllerType
<1>2. wrDelta # <<>> => Head(wrDelta) \in Update
  BY <1>1
<1>3. wrDelta # <<>> => Head(wrDelta).addr \in Vertex
  BY <1>2 DEF Update
<1>4. CASE wrDelta # <<>> /\ ~Conflict
  BY <1>3, <1>4 DEF Issued
<1>5. CASE ~(wrDelta # <<>> /\ ~Conflict)
  BY <1>5 DEF Issued
<1> QED
  BY <1>4, <1>5

LEMMA BackendCoreType ==
  ASSUME TypeOK, BackendCore
  PROVE  wrV' \in Update \union {None} /\ wrEnd' \in BOOLEAN /\ destCoreFull' \in BOOLEAN
<1>1. wrV' \in Update \union {None}
  BY DEF TypeOK, NetworkType, BackendCore
<1>2. wrEnd' \in BOOLEAN
  BY Zenon DEF BackendCore
<1>3. destCoreFull' \in BOOLEAN
  BY Zenon DEF TypeOK, ControllerType, BackendCore
<1> QED
  BY <1>1, <1>2, <1>3

LEMMA ControllerStepType ==
  ASSUME TypeOK, VertexRamController
  PROVE  ControllerType'
<1> USE DEF VertexRamController
<1>1. /\ deltaRd' \in [Bank -> Vertex \union {None}]
      /\ prRd' \in Vertex \union {None}
      /\ conflictCheck' \in [Window -> Vertex \union {None}]
  <2>1. rdV \in Vertex \union {None} /\ conflictCheck \in [Window -> Vertex \union {None}]
    BY DEF TypeOK, ControllerType, FrontEndType
  <2>2. \A i \in Window : i # 0 => i - 1 \in Window
    BY ParameterAssumption DEF Window
  <2> QED
    BY <2>1, <2>2, IssuedType DEF SendReads
<1>2. wrDelta' \in Seq(Update)
  <2>1. wrDelta \in Seq(Update) /\ wrV \in Update \union {None}
    BY DEF TypeOK, ControllerType, NetworkType
  <2>2. (IF Issued = None THEN wrDelta ELSE Tail(wrDelta)) \in Seq(Update)
    BY <2>1, IssuedType
  <2> QED
    BY <2>1, <2>2, PushType, NoneAssumption DEF SendReads
<1>3. /\ deltaWr' \in [Bank -> [addr : Vertex, val : Int, tag : Nat] \union {None}]
      /\ prWr' \in [addr : Vertex, val : Int] \union {None}
      /\ wrPr' \in Seq(Update)
  BY WriteType DEF WriteBack
<1>4. activeDelta' \in Seq([addr : Vertex, val : Int]) /\ activePr' \in Seq(Int)
  <2> DEFINE A == IF DeltaWrite = None THEN None
                  ELSE [addr |-> DeltaWrite.addr, val |-> DeltaWrite.val]
             P == IF PrWrite = None THEN None ELSE PrWrite.val
             QA == IF OutputReady THEN Tail(activeDelta) ELSE activeDelta
             QP == IF OutputReady THEN Tail(activePr) ELSE activePr
  <2>1. A \in [addr : Vertex, val : Int] \union {None} /\ P \in Int \union {None}
    BY WriteType
  <2>2. QA \in Seq([addr : Vertex, val : Int]) /\ QP \in Seq(Int)
    BY DEF TypeOK, ControllerType, OutputReady
  <2>3. activeDelta' = Push(QA, A) /\ activePr' = Push(QP, P)
    BY DEF SendOutputs
  <2> HIDE DEF A, P, QA, QP
  <2> QED
    BY <2>1, <2>2, <2>3, PushType, NoneAssumption
<1>5. srcV' \in Delta \union {None}
  BY BanksAreTwo DEF TypeOK, MemoryType, SendOutputs
<1>6. activeV' \in [addr : Vertex, updated : BOOLEAN] \union {None}
  <2> DEFINE S == [addr : Vertex, val : Int]
  <2> activeDelta \in Seq(S)
    BY DEF TypeOK, ControllerType
  <2> HIDE DEF S
  <2>1. OutputReady => Head(activeDelta) \in S
    BY DEF OutputReady
  <2>2. OutputReady => Exceeds(Head(activeDelta).val, Head(activePr)) \in BOOLEAN
    BY DEF Exceeds
  <2> QED
    BY <2>1, <2>2 DEF SendOutputs, S
<1>7. iterationEnd' \in BOOLEAN /\ stageFull' \in BOOLEAN
  <2>1. iterationEnd' \in BOOLEAN
    BY Zenon DEF DetectEnd
  <2>2. stageFull' \in BOOLEAN
    BY DEF DetectEnd
  <2> QED
    BY <2>1, <2>2
<1>8. endCt' \in 0 .. WAIT_END_DELAY
  BY ParameterAssumption DEF TypeOK, ControllerType, DetectEnd
<1> QED
  BY <1>1, <1>2, <1>3, <1>4, <1>5, <1>6, <1>7, <1>8 DEF ControllerType

LEMMA MemoryStepType ==
  ASSUME TypeOK, DeltaBram, PrUram
  PROVE  MemoryType'
<1> USE DEF TypeOK, ControllerType, MemoryType
<1>1. deltaBram' \in [Bank -> [Vertex -> Delta]]
  BY NoneAssumption DEF DeltaBram, Delta
<1>2. deltaData' \in [Bank -> Delta \union {None}]
  BY DEF DeltaBram
<1>3. prUram' \in [Vertex -> Int] /\ prData' \in Int \union {None}
  BY NoneAssumption DEF PrUram
<1> QED
  BY <1>1, <1>2, <1>3

LEMMA FrontEndStepType ==
  ASSUME TypeOK, ApplyIterationEnd, ReadActiveVertex
  PROVE  FrontEndType'
<1> USE DEF TypeOK, FrontEndType
<1>1. iterationFlag' \in BOOLEAN
  BY Zenon DEF ReadActiveVertex
<1>2. backendEnd' \in BOOLEAN
  <2>1. backendEnd' = (iterationEnd /\ backendEnd) \/ backendEnd' = iterationEnd
    BY DEF ApplyIterationEnd
  <2>2. iterationEnd \in BOOLEAN
    BY DEF ControllerType
  <2> QED
    BY <2>1, <2>2, Zenon
<1>3. backendV' \in [addr : Vertex, updated : BOOLEAN] \union {None}
  BY DEF ApplyIterationEnd, ControllerType
<1>4. \A S \in SUBSET Vertex : MarkActive(S) \in SUBSET Vertex
  BY DEF MarkActive
<1>5. CASE NextIteration
  <2>1. iterationID' \in 0 .. MAX_ITERATION
    BY <1>5, ParameterAssumption DEF ReadActiveVertex, NextIteration
  <2>2. rdV' \in Vertex \union {None} /\ visNow' \subseteq Vertex /\ visNext' \subseteq Vertex
    BY <1>4, <1>5 DEF ReadActiveVertex
  <2> QED
    BY <1>1, <1>2, <1>3, <2>1, <2>2
<1>6. CASE ~NextIteration
  <2>1. iterationID' \in 0 .. MAX_ITERATION
    BY <1>6 DEF ReadActiveVertex
  <2>2. rdV' \in Vertex \union {None} /\ visNow' \subseteq Vertex /\ visNext' \subseteq Vertex
    BY <1>4, <1>6 DEF ReadActiveVertex
  <2> QED
    BY <1>1, <1>2, <1>3, <2>1, <2>2
<1> QED
  BY <1>5, <1>6

LEMMA NetworkStepType ==
  ASSUME TypeOK, BackendCore, HyperxNetwork
  PROVE  NetworkType'
<1> USE DEF TypeOK, NetworkType
<1>1. /\ recvV' \in Update \union {None} /\ recvEnd' \in BOOLEAN
      /\ phase' \in {"new", "run", "end"}
      /\ sent' \in 0 .. MAX_UPDATES
      /\ ledger' \in [Vertex -> [count : Nat, delta : Int, pr : Int]]
  <2>1. CASE Quiet
    BY <2>1 DEF Quiet, NoUpdate
  <2>2. CASE Deliver
    <3>1. PICK u \in Update : recvV' = u /\ Credit(u)
      BY <2>2 DEF Deliver
    <3>2. sent' \in 0 .. MAX_UPDATES
      BY <2>2, <3>1, ParameterAssumption DEF Deliver, Credit
    <3>3. ledger' \in [Vertex -> [count : Nat, delta : Int, pr : Int]]
      <4>1. u.addr \in Vertex /\ u.val \in Int
        BY ParameterAssumption DEF Update
      <4> DEFINE l == ledger[u.addr]
                 m == [count |-> l.count + 1, delta |-> l.delta + u.val, pr |-> l.pr + u.val]
      <4>2. m \in [count : Nat, delta : Int, pr : Int]
        BY <4>1
      <4>3. ledger' = [ledger EXCEPT ![u.addr] = m]
        BY <3>1 DEF Credit
      <4> HIDE DEF m
      <4> QED
        BY <4>1, <4>2, <4>3
    <3> QED
      BY <2>2, <3>1, <3>2, <3>3 DEF Deliver
  <2>3. CASE StaleEnd
    BY <2>3 DEF StaleEnd, NoUpdate
  <2>4. CASE EarlyEnd \/ LastEnd
    BY <2>4 DEF EarlyEnd, LastEnd, NoUpdate
  <2>5. CASE HoldEnd
    <3>1. CASE NextIteration
      <4>1. ledger' = [v \in Vertex |-> [count |-> 0, delta |-> 0, pr |-> ledger[v].pr]]
        BY <2>5, <3>1 DEF HoldEnd
      <4>3. ledger' \in [Vertex -> [count : Nat, delta : Int, pr : Int]]
        BY <4>1
      <4>4. recvV' = None /\ phase' = "new" /\ sent' = 0
        BY <2>5, <3>1 DEF HoldEnd
      <4>5. recvEnd' \in BOOLEAN
        BY <2>5, Zenon DEF HoldEnd
      <4> QED
        BY <4>3, <4>4, <4>5, ParameterAssumption
    <3>2. CASE ~NextIteration
      BY <2>5, <3>2 DEF HoldEnd
    <3> QED
      BY <3>1, <3>2
  <2> QED
    BY <2>1, <2>2, <2>3, <2>4, <2>5 DEF HyperxNetwork
<1>2. settled' \in 0 .. 2
  BY DEF HyperxNetwork
<1> QED
  BY <1>1, <1>2, BackendCoreType

LEMMA StepType == TypeOK /\ [Next]_vars => TypeOK'
<1> SUFFICES ASSUME TypeOK, [Next]_vars PROVE TypeOK'
  OBVIOUS
<1>1. CASE Tick
  BY <1>1, ControllerStepType, MemoryStepType, FrontEndStepType, NetworkStepType
     DEF Tick, TypeOK
<1>2. CASE UNCHANGED vars
  <2> USE <1>2 DEF TypeOK, vars
  <2>1. NetworkType'
    BY DEF network, frontEnd, NetworkType
  <2>2. ControllerType'
    BY DEF controller, ControllerType
  <2>3. MemoryType'
    BY DEF memory, MemoryType
  <2>4. FrontEndType'
    BY DEF frontEnd, FrontEndType
  <2> QED
    BY <2>1, <2>2, <2>3, <2>4
<1> QED
  BY <1>1, <1>2 DEF Next

(* Type correctness of the back end for every value of the parameters.     *)
THEOREM TypeCorrect == Spec => []TypeOK
  BY InitType, StepType, PTL DEF Spec

-----------------------------------------------------------------------------
(* The invariant of the pipeline.                                          *)

LEMMA PushFacts ==
  ASSUME NEW S, None \notin S, NEW q \in Seq(S), NEW x \in S \union {None}
  PROVE  /\ Push(q, x) \in Seq(S)
         /\ Len(Push(q, x)) = Len(q) + Held(x)
         /\ \A i \in 1 .. Len(q) : Push(q, x)[i] = q[i]
         /\ x # None => Push(q, x)[Len(q) + 1] = x
  BY DEF Push, Held

LEMMA ParityStep ==
  ASSUME TypeOK, Tick
  PROVE  /\ ~NextIteration => Src' = Src /\ Dst' = Dst
         /\ NextIteration => Src' = Dst /\ Dst' = Src
<1>1. iterationID \in Nat
  BY ParameterAssumption DEF TypeOK, FrontEndType
<1>2. CASE ~NextIteration
  BY <1>2 DEF Tick, ReadActiveVertex, Src, Dst
<1>3. CASE NextIteration
  <2>1. iterationID' = iterationID + 1
    BY <1>3 DEF Tick, ReadActiveVertex
  <2> QED
    BY <1>1, <1>3, <2>1 DEF Src, Dst
<1> QED
  BY <1>2, <1>3

(* What a tick does to the two queues, whose common part stays aligned.    *)
LEMMA QueueStep ==
  ASSUME TypeOK, Alignment, Tick
  PROVE  LET d == Held(prData)
             h == Held(Issued)
         IN /\ d \in {0, 1} /\ h \in {0, 1} /\ Held(prRd) \in {0, 1} /\ Held(wrV) \in {0, 1}
            /\ Pending \in Seq(Update)
            /\ prData # None => Head(Pending) = wrPr[1] /\ Len(wrPr) > 0
            /\ Len(wrPr') = Len(wrPr) + Held(wrV) - d
            /\ \A i \in 1 .. Len(wrPr) - d : wrPr'[i] = wrPr[i + d]
            /\ wrV # None => wrPr'[Len(wrPr')] = wrV
            /\ Len(wrDelta') = Len(wrDelta) + Held(wrV) - h
            /\ \A i \in 1 .. Len(wrDelta) - h : wrDelta'[i] = wrDelta[i + h]
            /\ wrV # None => wrDelta'[Len(wrDelta')] = wrV
            /\ Len(wrDelta) \in Nat /\ Len(wrPr) \in Nat
            /\ h = 1 => wrDelta # <<>> /\ Issued = wrDelta[1].addr
<1> DEFINE d == Held(prData)
           h == Held(Issued)
           rest == IF Issued = None THEN wrDelta ELSE Tail(wrDelta)
<1>1. wrDelta \in Seq(Update) /\ wrPr \in Seq(Update) /\ wrV \in Update \union {None}
  BY DEF TypeOK, ControllerType, NetworkType
<1>2. d \in {0, 1} /\ h \in {0, 1} /\ Held(prRd) \in {0, 1} /\ Held(wrV) \in {0, 1}
  BY DEF Held
<1>3. /\ Pending \in Seq(Update)
      /\ Len(Pending) = Len(wrPr) + Held(wrV)
      /\ \A i \in 1 .. Len(wrPr) : Pending[i] = wrPr[i]
      /\ wrV # None => Pending[Len(wrPr) + 1] = wrV
  BY <1>1, PushFacts, NoneAssumption DEF Pending
<1>4. wrPr' = IF prData # None THEN Tail(Pending) ELSE Pending
  BY DEF Tick, VertexRamController, WriteBack, Unwritten, Alignment
<1>5. prData # None => Len(wrPr) > 0
  <2>1. Len(wrDelta) \in Nat
    BY <1>1
  <2>2. prData # None => Held(prData) = 1
    BY DEF Held
  <2> QED
    BY <1>2, <2>1, <2>2 DEF Alignment
<1>6. prData # None => Head(Pending) = wrPr[1]
  BY <1>1, <1>3, <1>5
<1>7. /\ Len(wrPr') = Len(wrPr) + Held(wrV) - d
      /\ \A i \in 1 .. Len(wrPr) - d : wrPr'[i] = wrPr[i + d]
      /\ wrV # None => wrPr'[Len(wrPr')] = wrV
  <2>1. CASE prData = None
    BY <1>1, <1>2, <1>3, <1>4, <2>1 DEF Held
  <2>2. CASE prData # None
    <3>1. wrPr' = Tail(Pending) /\ d = 1 /\ Pending # <<>>
      BY <1>1, <1>3, <1>4, <1>5, <1>2, <2>2 DEF Held
    <3>2. Len(wrPr') = Len(Pending) - 1 /\ \A i \in 1 .. Len(Pending) - 1 : wrPr'[i] = Pending[i + 1]
      BY <1>3, <3>1
    <3>3. Len(wrPr) \in Nat /\ Len(wrPr) > 0
      BY <1>1, <1>5, <2>2
    <3>4. wrV # None => Held(wrV) = 1
      BY DEF Held
    <3> QED
      BY <1>2, <1>3, <3>1, <3>2, <3>3, <3>4
  <2> QED
    BY <2>1, <2>2
<1>8. h = 1 => wrDelta # <<>> /\ Issued = wrDelta[1].addr
  BY <1>1, IssuedType DEF Held
<1>9. /\ rest \in Seq(Update)
      /\ Len(rest) = Len(wrDelta) - h
      /\ \A i \in 1 .. Len(wrDelta) - h : rest[i] = wrDelta[i + h]
  BY <1>1, <1>8 DEF Held
<1>10. wrDelta' = Push(rest, wrV)
  BY DEF Tick, VertexRamController, SendReads
<1> HIDE DEF rest, d, h
<1>11. /\ Len(wrDelta') = Len(rest) + Held(wrV)
       /\ \A i \in 1 .. Len(rest) : wrDelta'[i] = rest[i]
       /\ wrV # None => wrDelta'[Len(rest) + 1] = wrV
  <2>1. None \notin Update
    BY NoneAssumption
  <2>2. rest \in Seq(Update)
    BY <1>9
  <2>3. /\ Len(Push(rest, wrV)) = Len(rest) + Held(wrV)
        /\ \A i \in 1 .. Len(rest) : Push(rest, wrV)[i] = rest[i]
        /\ wrV # None => Push(rest, wrV)[Len(rest) + 1] = wrV
    BY <1>1, <2>1, <2>2, PushFacts
  <2> QED
    BY <1>10, <2>3
<1>12. wrV # None => Held(wrV) = 1
  BY DEF Held
<1>13. Len(wrDelta) \in Nat /\ Len(wrPr) \in Nat
  BY <1>1
<1>14. /\ Len(wrDelta') = Len(wrDelta) + Held(wrV) - h
       /\ \A i \in 1 .. Len(wrDelta) - h : wrDelta'[i] = wrDelta[i + h]
       /\ wrV # None => wrDelta'[Len(wrDelta')] = wrV
  <2>1. Len(rest) \in Nat
    BY <1>9
  <2>2. /\ Len(rest) = Len(wrDelta) - h
        /\ \A i \in 1 .. Len(wrDelta) - h : rest[i] = wrDelta[i + h]
    BY <1>9
  <2>3. \A i \in 1 .. Len(wrDelta) - h : wrDelta'[i] = wrDelta[i + h]
    BY <1>11, <2>2
  <2>4. Len(wrDelta') = Len(wrDelta) + Held(wrV) - h
    BY <1>2, <1>11, <1>13, <2>2
  <2>5. wrV # None => wrDelta'[Len(wrDelta')] = wrV
    BY <1>11, <1>12, <2>1
  <2> QED
    BY <2>3, <2>4, <2>5
<1> QED
  BY <1>2, <1>3, <1>5, <1>6, <1>7, <1>8, <1>13, <1>14 DEF d, h

(* At the edge that opens the next iteration the pipeline is empty.        *)
LEMMA QuietEdge ==
  ASSUME TypeOK, Alignment, EndLevels, NextIteration
  PROVE  /\ phase = "end" /\ settled = 2 /\ iterationEnd /\ wrEnd
         /\ wrDelta = <<>> /\ wrPr = <<>> /\ wrV = None /\ recvV = None
         /\ prRd = None /\ prData = None /\ deltaData[Dst] = None /\ Issued = None
         /\ rdV = None /\ deltaRd[Src] = None /\ deltaData[Src] = None
<1>1. /\ phase = "end" /\ settled = 2 /\ iterationEnd /\ wrEnd
      /\ wrDelta = <<>> /\ wrPr = <<>> /\ wrV = None /\ recvV = None
      /\ rdV = None /\ deltaRd[Src] = None /\ deltaData[Src] = None
  <2>1. phase = "end" /\ settled = 2 /\ iterationEnd
    BY DEF EndLevels, NextIteration
  <2> QED
    BY <2>1 DEF EndLevels, SourcesRead
<1>2. Len(wrPr) = 0 /\ Len(wrDelta) = 0
  BY <1>1
<1>3. Held(prData) \in {0, 1} /\ Held(prRd) \in {0, 1}
  BY DEF Held
<1>4. Held(prData) = 0 /\ Held(prRd) = 0
  BY <1>2, <1>3 DEF Alignment
<1>5. prRd = None /\ prData = None
  BY <1>4 DEF Held
<1> QED
  BY <1>1, <1>5 DEF Alignment, Issued

(* What the memories and the registers of stage 10 hold after a tick.      *)
LEMMA AnswerStep ==
  ASSUME TypeOK, Alignment, Tick
  PROVE  /\ prRd' = Issued
         /\ prData' = None <=> prRd = None
         /\ deltaData'[Dst] = None <=> prRd = None
         /\ prWr' = None <=> prData = None
         /\ deltaWr'[Dst] = None <=> prData = None
         /\ deltaWr'[Src] = None
         /\ prData # None => prWr'.addr = wrPr[1].addr /\ deltaWr'[Dst].addr = wrPr[1].addr
<1> USE BanksAreTwo
<1>1. prRd' = Issued
  BY DEF Tick, VertexRamController, SendReads
<1>2. prData' = None <=> prRd = None
  <2>1. prRd # None => prUram[prRd] \in Int
    BY DEF TypeOK, MemoryType, ControllerType
  <2> QED
    BY <2>1, NoneAssumption DEF Tick, PrUram
<1>3. deltaData'[Dst] = None <=> prRd = None
  <2>1. prRd # None => deltaBram[Dst][prRd] \in Delta
    BY DEF TypeOK, MemoryType, ControllerType
  <2>2. deltaData'[Dst] = IF prRd = None THEN None ELSE deltaBram[Dst][prRd]
    BY DEF Tick, DeltaBram, Alignment
  <2> QED
    BY <2>1, <2>2, NoneAssumption
<1>4. deltaWr'[Dst] = DeltaWrite /\ deltaWr'[Src] = None /\ prWr' = PrWrite
  BY DEF Tick, VertexRamController, WriteBack
<1>5. ~Error1 /\ ~Error2
  BY DEF Tick, VertexRamController
<1>6. DeltaWrite = None <=> deltaData[Dst] = None
  <2>1. deltaData[Dst] # None =>
          DeltaWrite \in [addr : Vertex, val : Int, tag : Nat] \/ DeltaWrite = None
    BY WriteType, <1>5
  <2>2. deltaData[Dst] # None =>
          DeltaWrite = [addr |-> Head(Pending).addr, val |-> Accumulated, tag |-> iterationID]
    BY DEF DeltaWrite
  <2>3. deltaData[Dst] # None =>
          Head(Pending).addr \in Vertex /\ Accumulated \in Int /\ iterationID \in Nat
    <3>1. deltaData[Dst] # None => Head(Pending) \in Update
      BY DstDataType, <1>5
    <3>2. deltaData[Dst] # None => Head(Pending).addr \in Vertex /\ Head(Pending).val \in Int
      BY <3>1, ParameterAssumption DEF Update
    <3>3. deltaData[Dst] # None => Accumulated \in Int
      BY <3>2, DstDataType, <1>5 DEF Accumulated, Delta
    <3> QED
      BY <3>2, <3>3, ParameterAssumption DEF TypeOK, FrontEndType
  <2>4. deltaData[Dst] # None => DeltaWrite \in [addr : Vertex, val : Int, tag : Nat]
    BY <2>2, <2>3
  <2>5. deltaData[Dst] = None => DeltaWrite = None
    BY DEF DeltaWrite
  <2> QED
    BY <2>4, <2>5, NoneAssumption
<1>7. PrWrite = None <=> prData = None
  <2>1. prData # None => Head(Pending) \in Update /\ prData \in Int
    BY DstDataType, <1>5
  <2>2. prData # None => Head(Pending).addr \in Vertex /\ Head(Pending).val \in Int
    BY <2>1, ParameterAssumption DEF Update
  <2>3. prData # None => PrWrite \in [addr : Vertex, val : Int]
    BY <2>1, <2>2 DEF PrWrite
  <2> QED
    BY <2>3, NoneAssumption DEF PrWrite
<1>8. prData # None => PrWrite.addr = wrPr[1].addr /\ DeltaWrite.addr = wrPr[1].addr
  <2>1. prData # None => Head(Pending) = wrPr[1]
    BY QueueStep
  <2> QED
    BY <2>1 DEF PrWrite, DeltaWrite, Alignment
<1> QED
  BY <1>1, <1>2, <1>3, <1>4, <1>6, <1>7, <1>8 DEF Alignment

LEMMA AlignmentStep ==
  ASSUME TypeOK, Alignment, EndLevels, Tick
  PROVE  Alignment'
<1> DEFINE d == Held(prData)
           r == Held(prRd)
           h == Held(Issued)
<1>1. /\ Held(prData') = r /\ Held(prRd') = h
  BY AnswerStep DEF Held
<1>2. /\ deltaRd'[Dst'] = prRd'
      /\ deltaData'[Dst'] = None <=> prData' = None
      /\ deltaWr'[Dst'] = None <=> prWr' = None
      /\ deltaWr'[Src'] = None
  <2>1. deltaRd' = [b \in Bank |-> IF b = Src THEN rdV ELSE Issued]
    BY DEF Tick, VertexRamController, SendReads
  <2>2. CASE ~NextIteration
    BY <2>1, <2>2, ParityStep, BanksAreTwo, AnswerStep
  <2>3. CASE NextIteration
    <3>1. deltaData'[Src] = None
      BY <2>3, QuietEdge, BanksAreTwo DEF Tick, DeltaBram
    <3> QED
      BY <2>1, <2>3, <3>1, ParityStep, BanksAreTwo, AnswerStep, QuietEdge
  <2> QED
    BY <2>2, <2>3
<1>3. Len(wrPr') = r + h + Len(wrDelta')
  BY QueueStep DEF Alignment
<1>4. \A i \in 1 .. Len(wrDelta') : wrDelta'[i] = wrPr'[r + h + i]
  <2> SUFFICES ASSUME NEW i \in 1 .. Len(wrDelta') PROVE wrDelta'[i] = wrPr'[r + h + i]
    OBVIOUS
  <2>1. CASE i \in 1 .. Len(wrDelta) - h
    <3>1. wrDelta'[i] = wrDelta[i + h] /\ i + h \in 1 .. Len(wrDelta)
      BY <2>1, QueueStep
    <3>2. wrDelta[i + h] = wrPr[d + r + (i + h)]
      BY <3>1 DEF Alignment
    <3>3. r + h + i \in 1 .. Len(wrPr) - d
      BY <2>1, QueueStep DEF Alignment
    <3>4. wrPr'[r + h + i] = wrPr[(r + h + i) + d]
      BY <3>3, QueueStep
    <3>5. (r + h + i) + d = d + r + (i + h)
      BY QueueStep
    <3> QED
      BY <3>1, <3>2, <3>4, <3>5
  <2>2. CASE ~(i \in 1 .. Len(wrDelta) - h)
    <3>1. wrV # None /\ i = Len(wrDelta')
      BY <2>2, QueueStep DEF Held
    <3>2. r + h + i = Len(wrPr')
      BY <1>3, <3>1
    <3> QED
      BY <3>1, <3>2, QueueStep
  <2> QED
    BY <2>1, <2>2
<1>5. prRd' # None => prRd' = wrPr'[r + 1].addr
  <2> SUFFICES ASSUME Issued # None PROVE Issued = wrPr'[r + 1].addr
    BY AnswerStep
  <2>1. h = 1 /\ Len(wrDelta) > 0 /\ Issued = wrDelta[1].addr
    <3>1. h = 1
      BY DEF Held
    <3>2. wrDelta # <<>> /\ Issued = wrDelta[1].addr
      BY <3>1, QueueStep
    <3>3. wrDelta \in Seq(Update)
      BY DEF TypeOK, ControllerType
    <3> QED
      BY <3>1, <3>2, <3>3
  <2>2. wrDelta[1] = wrPr[d + r + 1]
    BY <2>1, QueueStep DEF Alignment
  <2>3. r + 1 \in 1 .. Len(wrPr) - d
    <3>1. Len(wrPr) = d + r + Len(wrDelta)
      BY DEF Alignment
    <3>2. d \in {0, 1} /\ r \in {0, 1} /\ Len(wrDelta) \in Nat
      BY QueueStep
    <3> QED
      BY <2>1, <3>1, <3>2
  <2>4. wrPr'[r + 1] = wrPr[(r + 1) + d]
    BY <2>3, QueueStep
  <2>5. (r + 1) + d = d + r + 1
    BY QueueStep
  <2> QED
    BY <2>1, <2>2, <2>4, <2>5
<1>6. /\ conflictCheck'[0] = prRd'
      /\ conflictCheck'[1] = prRd
  BY ParameterAssumption, AnswerStep
     DEF Alignment, Tick, VertexRamController, SendReads, Window
<1>7. prData' # None => prRd = wrPr'[1].addr
  <2> SUFFICES ASSUME prRd # None PROVE prRd = wrPr'[1].addr
    BY AnswerStep
  <2>1. prRd = wrPr[d + 1].addr /\ r = 1
    BY DEF Alignment, Held
  <2>2. 1 \in 1 .. Len(wrPr) - d
    BY <2>1, QueueStep DEF Alignment
  <2>3. wrPr'[1] = wrPr[1 + d]
    BY <2>2, QueueStep
  <2>4. 1 + d = d + 1
    BY QueueStep
  <2> QED
    BY <2>1, <2>3, <2>4
<1> HIDE DEF d, r, h
<1> QED
  BY <1>1, <1>2, <1>3, <1>4, <1>5, <1>6, <1>7 DEF Alignment

LEMMA DistinctStep ==
  ASSUME TypeOK, Alignment, Distinct, EndLevels, Tick
  PROVE  Distinct'
<1>1. Alignment'
  BY AlignmentStep
<1>2. prData' # None => prRd = wrPr'[1].addr
  <2>1. conflictCheck'[1] = prRd
    BY ParameterAssumption DEF Alignment, Tick, VertexRamController, SendReads, Window
  <2> QED
    BY <1>1, <2>1 DEF Alignment
<1>3. Issued # None => Issued # conflictCheck[0] /\ Issued # conflictCheck[1]
  BY IssuedType, ParameterAssumption DEF Conflict, Window
<1>4. prRd' # None /\ prData' # None => prRd' # wrPr'[1].addr
  BY <1>2, <1>3, AnswerStep DEF Alignment
<1>5. prRd' # None /\ prWr' # None => prRd' # prWr'.addr
  BY <1>3, AnswerStep DEF Alignment
<1>6. prData' # None /\ prWr' # None => prWr'.addr # wrPr'[1].addr
  BY <1>2, AnswerStep DEF Distinct
<1> QED
  BY <1>4, <1>5, <1>6 DEF Distinct

LEMMA CurrencyStep ==
  ASSUME TypeOK, Alignment, Distinct, Currency, EndLevels, Tick
  PROVE  Currency'
<1>1. Alignment'
  BY AlignmentStep
<1>2. prWr' # None => deltaWr'[Dst'].addr = prWr'.addr
  <2> SUFFICES ASSUME prWr' # None PROVE deltaWr'[Dst'].addr = prWr'.addr
    OBVIOUS
  <2>1. prData # None
    BY AnswerStep
  <2>2. ~NextIteration
    BY <2>1, QuietEdge
  <2> QED
    BY <2>1, <2>2, ParityStep, AnswerStep
<1>3. prData' # None => /\ prData' = prUram'[wrPr'[1].addr]
                        /\ deltaData'[Dst'] = deltaBram'[Dst'][wrPr'[1].addr]
  <2> SUFFICES ASSUME prData' # None
               PROVE  /\ prData' = prUram'[wrPr'[1].addr]
                      /\ deltaData'[Dst'] = deltaBram'[Dst'][wrPr'[1].addr]
    OBVIOUS
  <2>1. prRd # None
    BY AnswerStep
  <2>2. ~NextIteration
    BY <2>1, QuietEdge
  <2>3. Dst' = Dst /\ Dst \in Bank
    BY <2>2, ParityStep, BanksAreTwo
  <2>4. prRd = wrPr'[1].addr
    <3>1. conflictCheck'[1] = prRd
      BY ParameterAssumption DEF Alignment, Tick, VertexRamController, SendReads, Window
    <3> QED
      BY <1>1, <3>1 DEF Alignment
  <2>5. prRd \in Vertex
    BY <2>1 DEF TypeOK, ControllerType
  <2>6. prData' = prUram[prRd] /\ deltaData'[Dst] = deltaBram[Dst][prRd]
    BY <2>1, <2>3 DEF Alignment, Tick, PrUram, DeltaBram
  <2>7. prUram'[prRd] = prUram[prRd]
    BY <2>1, <2>5 DEF Distinct, Tick, PrUram, TypeOK, MemoryType
  <2>8. deltaBram'[Dst][prRd] = deltaBram[Dst][prRd]
    <3>1. deltaWr[Dst] # None => prWr # None /\ deltaWr[Dst].addr # prRd
      BY <2>1 DEF Alignment, Distinct, Currency
    <3> QED
      BY <2>3, <2>5, <3>1 DEF Tick, DeltaBram, TypeOK, MemoryType
  <2> QED
    BY <2>3, <2>4, <2>6, <2>7, <2>8
<1> QED
  BY <1>2, <1>3 DEF Currency

LEMMA RoomStep ==
  ASSUME TypeOK, Alignment, Room, Tick
  PROVE  Room'
<1>1. /\ Len(wrPr') = Len(wrPr) + Held(wrV) - Held(prData)
      /\ Len(wrPr) \in Nat /\ Held(prData) \in {0, 1} /\ Held(wrV) \in {0, 1}
  BY QueueStep
<1>2. Held(recvV) \in {0, 1} /\ Held(recvV') \in {0, 1}
  BY DEF Held
<1>3. FULL_SIZE \in Nat \ {0}
  BY ParameterAssumption
<1>4. Held(wrV') = Held(recvV) /\ (destCoreFull' <=> stageFull)
  BY DEF Tick, BackendCore, Held, TypeOK, ControllerType
<1>5. stageFull' <=> Len(wrPr') >= FULL_SIZE
  BY DEF Tick, VertexRamController, DetectEnd
<1>6. destCoreFull => Held(recvV') = 0
  BY DEF Tick, HyperxNetwork, Quiet, NoUpdate, Deliver, EarlyEnd, StaleEnd, LastEnd,
         HoldEnd, Held
<1>7. Len(wrPr') + Held(wrV') + Held(recvV') <= FULL_SIZE + 3
  <2>1. CASE destCoreFull
    BY <1>1, <1>2, <1>3, <1>4, <1>6, <2>1 DEF Room
  <2>2. CASE ~destCoreFull
    <3>1. Len(wrPr) <= FULL_SIZE
      BY <1>1, <1>3, <2>2 DEF Room
    <3> QED
      BY <1>1, <1>2, <1>3, <1>4, <3>1
  <2> QED
    BY <2>1, <2>2
<1>8. stageFull' /\ ~destCoreFull' => Len(wrPr') <= FULL_SIZE
  BY <1>1, <1>3, <1>4 DEF Room
<1> QED
  BY <1>5, <1>7, <1>8 DEF Room

(* An end that has risen outlives every tick in which nothing arrives.     *)
LEMMA EndLasts ==
  ASSUME TypeOK, Alignment, EndLevels, Tick, iterationEnd, wrEnd
  PROVE  iterationEnd'
<1>1. /\ wrDelta = <<>> /\ wrPr = <<>> /\ activeDelta = <<>> /\ wrV = None
      /\ endCt = WAIT_END_DELAY
  BY DEF EndLevels
<1>2. Held(prData) \in {0, 1} /\ Held(prRd) \in {0, 1}
  BY DEF Held
<1>3. Held(prData) = 0
  BY <1>1, <1>2 DEF Alignment
<1>4. prData = None /\ deltaData[Dst] = None
  BY <1>3 DEF Held, Alignment
<1>5. Issued = None /\ Pending = <<>> /\ ~OutputReady /\ DeltaWrite = None
  BY <1>1, <1>4 DEF Issued, Pending, Push, OutputReady, DeltaWrite
<1>6. wrDelta' = <<>>
  BY <1>1, <1>5 DEF Tick, VertexRamController, SendReads, Push
<1>7. wrPr' = <<>>
  BY <1>4, <1>5 DEF Tick, VertexRamController, WriteBack, Unwritten
<1>8. activeDelta' = <<>>
  BY <1>1, <1>5 DEF Tick, VertexRamController, SendOutputs, Push
<1>9. Drained
  BY <1>6, <1>7, <1>8, Zenon DEF Drained
<1>10. endCt >= WAIT_END_DELAY
  BY <1>1, ParameterAssumption
<1>11. iterationEnd' = (Drained /\ endCt >= WAIT_END_DELAY)
  BY DEF Tick, VertexRamController, DetectEnd
<1> QED
  BY <1>9, <1>10, <1>11

(* What a tick does to the end levels behind the network.                  *)
LEMMA LevelStep ==
  ASSUME TypeOK, Tick
  PROVE  /\ wrEnd' <=> recvEnd /\ recvV = None
         /\ iterationFlag' <=> ~backendEnd
         /\ backendEnd' => iterationEnd
         /\ backendEnd' => backendEnd \/ settled = 2
         /\ iterationEnd /\ backendEnd => backendEnd'
<1>1. wrEnd' <=> recvEnd /\ recvV = None
  BY DEF Tick, BackendCore
<1>2. iterationFlag' <=> ~backendEnd
  BY DEF Tick, ReadActiveVertex
<1>3. /\ backendEnd' => iterationEnd
      /\ backendEnd' => backendEnd \/ settled = 2
      /\ iterationEnd /\ backendEnd => backendEnd'
  <2>1. CASE backendEnd' = (iterationEnd /\ backendEnd)
    BY <2>1, Zenon
  <2>2. CASE settled = 2 /\ backendEnd' = iterationEnd
    BY <2>2, Zenon
  <2> QED
    BY <2>1, <2>2 DEF Tick, ApplyIterationEnd
<1> QED
  BY <1>1, <1>2, <1>3, Zenon

(* Once every source has been read, that stays so until the next iteration.*)
LEMMA SourcesStayRead ==
  ASSUME TypeOK, Tick, ~NextIteration, SourcesRead
  PROVE  SourcesRead'
<1>1. visNow = {} /\ rdV = None /\ deltaRd[Src] = None
  BY DEF SourcesRead
<1>2. visNow' = {} /\ rdV' = None
  BY <1>1 DEF Tick, ReadActiveVertex
<1>3. deltaRd'[Src'] = None /\ deltaData'[Src'] = None
  BY <1>1, ParityStep, BanksAreTwo DEF Tick, VertexRamController, SendReads, DeltaBram
<1> QED
  BY <1>2, <1>3 DEF SourcesRead

LEMMA EndLevelsStep ==
  ASSUME TypeOK, Alignment, EndLevels, Tick
  PROVE  EndLevels'
<1>1. wrV' = recvV
  BY DEF Tick, BackendCore
<1>2. wrEnd' => wrV' = None
  BY <1>1, LevelStep
<1>3. iterationEnd' => /\ wrDelta' = <<>> /\ wrPr' = <<>> /\ activeDelta' = <<>>
                       /\ endCt' = WAIT_END_DELAY
  <2> SUFFICES ASSUME iterationEnd'
               PROVE  /\ wrDelta' = <<>> /\ wrPr' = <<>> /\ activeDelta' = <<>>
                      /\ endCt' = WAIT_END_DELAY
    OBVIOUS
  <2>1. Drained /\ endCt >= WAIT_END_DELAY
    BY DEF Tick, VertexRamController, DetectEnd
  <2>2. wrDelta' = <<>> /\ wrPr' = <<>> /\ activeDelta' = <<>>
    BY <2>1 DEF Drained
  <2>3. endCt' = endCt
    BY <2>1 DEF Tick, VertexRamController, DetectEnd
  <2>4. endCt \in 0 .. WAIT_END_DELAY
    BY DEF TypeOK, ControllerType
  <2> QED
    BY <2>1, <2>2, <2>3, <2>4, ParameterAssumption
<1>4. phase # "end" /\ backendEnd' => ~iterationFlag'
  BY LevelStep DEF EndLevels
<1>5. settled' = IF phase # "end" \/ phase' # "end" THEN 0
                 ELSE IF settled = 2 THEN 2 ELSE settled + 1
  BY DEF Tick, HyperxNetwork
<1>6. CASE Quiet \/ Deliver
  <2>1. phase' = "run" /\ ~recvEnd' /\ phase # "end"
    BY <1>6 DEF Quiet, Deliver
  <2> QED
    BY <1>2, <1>3, <1>4, <1>5, <2>1 DEF EndLevels
<1>7. CASE EarlyEnd
  <2>1. phase' = "run" /\ recvV' = None /\ phase # "end"
    BY <1>7 DEF EarlyEnd, NoUpdate
  <2> QED
    BY <1>2, <1>3, <1>4, <1>5, <2>1 DEF EndLevels
<1>8. CASE StaleEnd
  <2>1. phase = "new" /\ phase' = "new" /\ recvEnd' /\ recvV' = None
    BY <1>8 DEF StaleEnd, NoUpdate
  <2>2. wrEnd' /\ iterationEnd' /\ backendEnd'
    BY <2>1, LevelStep, EndLasts DEF EndLevels
  <2> QED
    BY <1>2, <1>3, <1>4, <1>5, <2>1, <2>2 DEF EndLevels
<1>9. CASE LastEnd
  <2>1. phase # "end" /\ phase' = "end" /\ recvEnd' /\ recvV' = None /\ SourcesRead
    BY <1>9 DEF LastEnd, NoUpdate
  <2>2. ~NextIteration
    BY <2>1, QuietEdge
  <2>3. SourcesRead'
    BY <2>1, <2>2, SourcesStayRead
  <2> QED
    BY <1>2, <1>3, <1>4, <1>5, <2>1, <2>3 DEF EndLevels
<1>10. CASE HoldEnd
  <2>1. phase = "end" /\ recvEnd' /\ recvV' = None /\ recvEnd /\ recvV = None /\ wrEnd'
    BY <1>10, LevelStep DEF HoldEnd, EndLevels
  <2>2. CASE NextIteration
    <3>1. phase' = "new"
      BY <1>10, <2>2 DEF HoldEnd
    <3>2. iterationEnd' /\ backendEnd' /\ ~iterationFlag'
      BY <2>2, QuietEdge, EndLasts, LevelStep DEF NextIteration
    <3> QED
      BY <1>2, <1>3, <1>5, <2>1, <3>1, <3>2 DEF EndLevels
  <2>3. CASE ~NextIteration
    <3>1. phase' = "end" /\ SourcesRead'
      BY <1>10, <2>1, <2>3, SourcesStayRead DEF HoldEnd, EndLevels
    <3>2. backendEnd' /\ iterationFlag' => settled = 2 /\ iterationEnd /\ wrEnd
      BY <2>1, LevelStep DEF EndLevels
    <3>3. backendEnd' /\ iterationFlag' => settled' = 2 /\ iterationEnd'
      BY <1>5, <2>1, <3>1, <3>2, EndLasts
    <3> QED
      BY <1>2, <1>3, <2>1, <3>1, <3>3 DEF EndLevels
  <2> QED
    BY <2>2, <2>3
<1> QED
  BY <1>6, <1>7, <1>8, <1>9, <1>10 DEF Tick, HyperxNetwork

LEMMA InitPipeline == Init => PipelineInv
<1> SUFFICES ASSUME Init PROVE PipelineInv
  OBVIOUS
<1>1. TypeOK
  BY InitType
<1>2. prRd = None /\ prData = None /\ prWr = None /\ wrV = None /\ recvV = None
  BY DEF Init
<1>3. Alignment
  BY <1>1, <1>2, BanksAreTwo, ParameterAssumption DEF Init, Alignment, Held, Window
<1>4. Distinct /\ Currency
  BY <1>2 DEF Distinct, Currency
<1>5. EndLevels
  BY DEF Init, EndLevels
<1>6. Room
  BY <1>2, ParameterAssumption DEF Init, Room, Held
<1> QED
  BY <1>3, <1>4, <1>5, <1>6 DEF PipelineInv

LEMMA PipelineStep == TypeOK /\ PipelineInv /\ [Next]_vars => PipelineInv'
<1> SUFFICES ASSUME TypeOK, PipelineInv, [Next]_vars PROVE PipelineInv'
  OBVIOUS
<1>1. CASE Tick
  BY <1>1, AlignmentStep, DistinctStep, CurrencyStep, EndLevelsStep, RoomStep DEF PipelineInv
<1>2. CASE UNCHANGED vars
  <2> USE <1>2 DEF vars, network, controller, memory, frontEnd
  <2>1. Src' = Src /\ Dst' = Dst
    BY DEF Src, Dst
  <2>2. Alignment'
    BY <2>1 DEF PipelineInv, Alignment
  <2>3. Distinct' /\ Currency'
    BY <2>1 DEF PipelineInv, Distinct, Currency
  <2>4. EndLevels'
    BY <2>1 DEF PipelineInv, EndLevels, SourcesRead
  <2>5. Room'
    BY DEF PipelineInv, Room
  <2> QED
    BY <2>2, <2>3, <2>4, <2>5 DEF PipelineInv
<1> QED
  BY <1>1, <1>2 DEF Next

(* The invariant of the pipeline holds for every depth of the conflict     *)
(* window, every queue limit and every pattern of arrivals.                *)
THEOREM PipelineCorrect == Spec => []PipelineInv
<1>1. Init => TypeOK /\ PipelineInv
  BY InitType, InitPipeline
<1>2. TypeOK /\ PipelineInv /\ [Next]_vars => (TypeOK /\ PipelineInv)'
  BY StepType, PipelineStep
<1> QED
  BY <1>1, <1>2, PTL DEF Spec

(* Neither error exit of stage 10 is reachable, whatever arrives.          *)
THEOREM NoErrorExitHolds == Spec => []NoErrorExit
<1>1. TypeOK /\ PipelineInv => NoErrorExit
  <2> SUFFICES ASSUME TypeOK, PipelineInv PROVE NoErrorExit
    OBVIOUS
  <2>1. wrPr \in Seq(Update) /\ wrDelta \in Seq(Update) /\ wrV \in Update \union {None}
    BY DEF TypeOK, ControllerType, NetworkType
  <2>2. prData # None => Len(wrPr) > 0
    <3>1. Held(prRd) \in {0, 1} /\ Len(wrDelta) \in Nat
      BY <2>1 DEF Held
    <3>2. Len(wrPr) = Held(prData) + Held(prRd) + Len(wrDelta)
      BY DEF PipelineInv, Alignment
    <3>3. prData # None => Held(prData) = 1
      BY DEF Held
    <3> QED
      BY <3>1, <3>2, <3>3
  <2>3. prData # None => Pending # <<>>
    BY <2>1, <2>2 DEF Pending, Push
  <2> QED
    BY <2>3 DEF PipelineInv, Alignment, NoErrorExit, Error1, Error2
<1> QED
  BY <1>1, TypeCorrect, PipelineCorrect, PTL

(* No read is issued for a vertex whose read-modify-write is under way,    *)
(* however deep the conflict window is, from 2 on.                         *)
THEOREM NoHazardHolds == Spec => []NoHazard
<1>1. TypeOK /\ PipelineInv => NoHazard
  <2> SUFFICES ASSUME TypeOK, PipelineInv PROVE NoHazard
    OBVIOUS
  <2>1. wrPr # <<>> => Head(wrPr) = wrPr[1]
    BY DEF TypeOK, ControllerType
  <2> QED
    BY <2>1 DEF PipelineInv, Distinct, NoHazard, Reading, Answered, Writing
<1> QED
  BY <1>1, TypeCorrect, PipelineCorrect, PTL

(* The queue of stage 10 exceeds its limit by at most three updates.       *)
THEOREM BoundedOvershootHolds == Spec => []BoundedOvershoot
<1>1. TypeOK /\ PipelineInv => BoundedOvershoot
  <2> SUFFICES ASSUME TypeOK, PipelineInv PROVE BoundedOvershoot
    OBVIOUS
  <2>1. Held(wrV) \in {0, 1} /\ Held(recvV) \in {0, 1}
    BY DEF Held
  <2>2. Len(wrPr) \in Nat
    BY DEF TypeOK, ControllerType
  <2> QED
    BY <2>1, <2>2, ParameterAssumption DEF PipelineInv, Room, BoundedOvershoot
<1> QED
  BY <1>1, TypeCorrect, PipelineCorrect, PTL

(* The bank the sources read never changes while the iteration lasts.      *)
THEOREM SourceBankStableHolds == Spec => SourceBankStable
<1>1. TypeOK /\ PipelineInv /\ [Next]_vars
        => [iterationID' = iterationID => deltaBram'[Src] = deltaBram[Src]]_vars
  <2> SUFFICES ASSUME TypeOK, PipelineInv, Tick
               PROVE  deltaBram'[Src] = deltaBram[Src]
    BY DEF Next
  <2>1. deltaWr[Src] = None
    BY DEF PipelineInv, Alignment
  <2> QED
    BY <2>1, BanksAreTwo DEF Tick, DeltaBram
<1> QED
  BY <1>1, TypeCorrect, PipelineCorrect, PTL DEF Spec, SourceBankStable

-----------------------------------------------------------------------------
(* The pipelined store implements the indivisible one.                     *)

(* A write that has been sent lands with the next tick.                    *)
LEMMA WritesLand ==
  ASSUME TypeOK, Tick
  PROVE  deltaBram' = EffectiveDelta /\ prUram' = EffectivePr
<1>1. \A b \in Bank : deltaBram'[b] = EffectiveDelta[b]
  BY DEF Tick, DeltaBram, EffectiveDelta, TypeOK, MemoryType
<1>2. deltaBram' = EffectiveDelta
  BY <1>1 DEF Tick, DeltaBram, EffectiveDelta
<1>3. prUram' = EffectivePr
  BY DEF Tick, PrUram, EffectivePr, TypeOK, MemoryType
<1> QED
  BY <1>2, <1>3

(* The update that is written back is the oldest one, and it is added to   *)
(* what the memories effectively hold for its vertex.                      *)
LEMMA AnswerIsCurrent ==
  ASSUME TypeOK, PipelineInv, Tick, prData # None
  PROVE  LET u == wrPr[1] IN
         /\ u \in Update /\ wrPr # <<>> /\ Head(Pending) = u
         /\ prData = EffectivePr[u.addr]
         /\ deltaData[Dst] = EffectiveDelta[Dst][u.addr]
<1> DEFINE u == wrPr[1]
<1>1. wrPr \in Seq(Update) /\ Len(wrPr) > 0 /\ Head(Pending) = u
  BY QueueStep DEF PipelineInv, TypeOK, ControllerType
<1>2. u \in Update /\ wrPr # <<>>
  BY <1>1
<1>3. u.addr \in Vertex
  BY <1>2 DEF Update
<1>4. prData = prUram[u.addr] /\ deltaData[Dst] = deltaBram[Dst][u.addr]
  BY DEF PipelineInv, Currency
<1>5. prWr # None => prWr.addr # u.addr
  BY DEF PipelineInv, Distinct
<1>6. deltaWr[Dst] # None => deltaWr[Dst].addr # u.addr
  BY <1>5 DEF PipelineInv, Alignment, Currency
<1>7. prData = EffectivePr[u.addr]
  BY <1>3, <1>4, <1>5 DEF EffectivePr
<1>8. deltaData[Dst] = EffectiveDelta[Dst][u.addr]
  BY <1>3, <1>4, <1>6, BanksAreTwo DEF EffectiveDelta
<1> QED
  BY <1>1, <1>2, <1>7, <1>8

(* Nothing is written: the memories effectively stay as they are.          *)
LEMMA EffectiveStays ==
  ASSUME TypeOK, PipelineInv, Tick, prData = None
  PROVE  EffectiveDelta' = EffectiveDelta /\ EffectivePr' = EffectivePr
<1>1. Alignment
  BY DEF PipelineInv
<1>2. prWr' = None /\ \A b \in Bank : deltaWr'[b] = None
  BY <1>1, AnswerStep, BanksAreTwo
<1>3. EffectivePr' = prUram'
  BY <1>2, MemoryStepType DEF EffectivePr, Tick, MemoryType
<1>4. EffectiveDelta' = deltaBram'
  BY <1>2, MemoryStepType DEF EffectiveDelta, Tick, MemoryType
<1> QED
  BY <1>3, <1>4, WritesLand

(* A write-back is the abstract, indivisible application of the update.    *)
LEMMA WriteBackApplies ==
  ASSUME TypeOK, PipelineInv, Tick, prData # None
  PROVE  Store!ApplyUpdate(wrPr[1])
<1> DEFINE u == wrPr[1]
           cur == Store!Current(u.addr)
<1> USE BanksAreTwo
<1>1. Alignment
  BY DEF PipelineInv
<1>2. /\ u \in Update /\ Head(Pending) = u
      /\ prData = EffectivePr[u.addr]
      /\ deltaData[Dst] = EffectiveDelta[Dst][u.addr]
  BY AnswerIsCurrent
<1>3. u.addr \in Vertex /\ u.val \in Int
  BY <1>2, ParameterAssumption DEF Update
<1>4. ~NextIteration
  BY <1>1, QuietEdge DEF PipelineInv
<1>5. Dst' = Dst /\ Src' = Src /\ iterationID' = iterationID
  BY <1>4, ParityStep DEF Tick, ReadActiveVertex
<1>6. Store!Target = Dst
  BY DEF Store!Target, Dst, Src
<1>7. cur = IF deltaData[Dst].tag = iterationID THEN deltaData[Dst].val ELSE 0
  BY <1>2, <1>6 DEF Store!Current
<1>8. deltaData[Dst] # None
  BY <1>1 DEF Alignment
<1>9. DeltaWrite = [addr |-> u.addr, val |-> u.val + cur, tag |-> iterationID]
  BY <1>2, <1>7, <1>8 DEF DeltaWrite, Accumulated
<1>10. PrWrite = [addr |-> u.addr, val |-> u.val + EffectivePr[u.addr]]
  BY <1>2 DEF PrWrite
<1>11. /\ deltaWr' = [b \in Bank |-> IF b = Dst THEN DeltaWrite ELSE None]
       /\ prWr' = PrWrite
  BY DEF Tick, VertexRamController, WriteBack
<1> HIDE DEF cur, u
<1>12. EffectivePr' = [EffectivePr EXCEPT ![u.addr] = u.val + @]
  <2>1. prWr' # None
    BY <1>1, AnswerStep
  <2>2. EffectivePr' = [v \in Vertex |-> IF u.addr = v THEN u.val + EffectivePr[v] ELSE EffectivePr[v]]
    BY <1>10, <1>11, <2>1, WritesLand DEF EffectivePr
  <2> QED
    BY <1>3, <2>2 DEF EffectivePr
<1>13. EffectiveDelta' = [EffectiveDelta EXCEPT ![Dst][u.addr] = [val |-> u.val + cur, tag |-> iterationID]]
  <2> DEFINE m == [val |-> u.val + cur, tag |-> iterationID]
  <2>1. deltaWr'[Dst] # None /\ deltaWr'[Src] = None
    BY <1>1, AnswerStep
  <2>2. deltaWr'[Dst].addr = u.addr /\ [val |-> deltaWr'[Dst].val, tag |-> deltaWr'[Dst].tag] = m
    BY <1>9, <1>11
  <2>3. EffectiveDelta' = [b \in Bank |-> [v \in Vertex |->
           IF deltaWr'[b] # None /\ deltaWr'[b].addr = v
           THEN [val |-> deltaWr'[b].val, tag |-> deltaWr'[b].tag] ELSE EffectiveDelta[b][v]]]
    BY WritesLand DEF EffectiveDelta
  <2> HIDE DEF m
  <2>4. \A b \in Bank : deltaWr'[b] # None => b = Dst
    BY <2>1
  <2>5. EffectiveDelta' = [b \in Bank |-> [v \in Vertex |->
           IF b = Dst /\ u.addr = v THEN m ELSE EffectiveDelta[b][v]]]
    BY <2>1, <2>2, <2>3, <2>4
  <2> DEFINE E == EffectiveDelta
  <2>6. E = [b \in Bank |-> E[b]] /\ \A b \in Bank : E[b] = [v \in Vertex |-> E[b][v]]
    BY DEF EffectiveDelta
  <2>7. EffectiveDelta' = [b \in Bank |-> [v \in Vertex |->
           IF b = Dst /\ u.addr = v THEN m ELSE E[b][v]]]
    BY <2>5
  <2> HIDE DEF E
  <2>8. EffectiveDelta' = [E EXCEPT ![Dst][u.addr] = m]
    BY <1>3, <2>6, <2>7
  <2> QED
    BY <2>8 DEF E, m
<1> QED
  BY <1>5, <1>6, <1>12, <1>13 DEF Store!ApplyUpdate, cur, u

LEMMA StoreStep ==
  ASSUME TypeOK, PipelineInv, Tick
  PROVE  [Store!StoreNext]_Store!storeVars
<1>1. /\ Alignment
      /\ wrPr \in Seq(Update) /\ wrV \in Update \union {None}
  BY DEF PipelineInv, TypeOK, NetworkType, ControllerType
<1>2. wrPr' = IF prData # None THEN Tail(Pending) ELSE Pending
  BY <1>1 DEF Tick, VertexRamController, WriteBack, Unwritten, Alignment
<1>3. CASE NextIteration
  <2>1. prData = None /\ wrPr = <<>> /\ wrPr' = <<>>
    BY <1>1, <1>2, <1>3, QuietEdge DEF PipelineInv, Pending, Push
  <2>2. iterationID' = iterationID + 1
    BY <1>3 DEF Tick, ReadActiveVertex
  <2>3. Store!Advance
    BY <2>1, <2>2, EffectiveStays DEF Store!Advance
  <2> QED
    BY <2>3 DEF Store!StoreNext
<1>4. CASE ~NextIteration /\ prData = None
  <2>1. iterationID' = iterationID
    BY <1>4 DEF Tick, ReadActiveVertex
  <2>2. CASE wrV = None
    BY <1>2, <1>4, <2>1, <2>2, EffectiveStays DEF Pending, Push, Store!storeVars
  <2>3. CASE wrV # None
    <3>1. Store!Accept(wrV)
      BY <1>2, <1>4, <2>1, <2>3, EffectiveStays DEF Pending, Push, Store!Accept
    <3> QED
      BY <1>1, <2>3, <3>1 DEF Store!StoreNext, Update
  <2> QED
    BY <2>2, <2>3
<1>5. CASE prData # None
  <2>1. wrPr # <<>> /\ Store!ApplyUpdate(wrPr[1])
    BY <1>5, AnswerIsCurrent, WriteBackApplies
  <2>2. Head(wrPr) = wrPr[1]
    BY <1>1, <2>1
  <2>3. CASE wrV = None
    <3>1. wrPr' = Tail(wrPr)
      BY <1>2, <1>5, <2>3 DEF Pending, Push
    <3>2. Store!ApplyOldest
      BY <2>1, <2>2, <3>1 DEF Store!ApplyOldest
    <3> QED
      BY <3>2 DEF Store!StoreNext
  <2>4. CASE wrV # None
    <3>1. wrPr' = Append(Tail(wrPr), wrV)
      <4>1. wrV \in Update
        BY <1>1, <2>4
      <4>2. Tail(Append(wrPr, wrV)) = Append(Tail(wrPr), wrV)
        BY <1>1, <2>1, <4>1, HeadTailAppend
      <4> QED
        BY <1>2, <1>5, <2>4, <4>2 DEF Pending, Push
    <3>2. Store!AcceptAndApply(wrV)
      BY <2>1, <2>2, <3>1 DEF Store!AcceptAndApply
    <3> QED
      BY <1>1, <2>4, <3>2 DEF Store!StoreNext, Update
  <2> QED
    BY <2>3, <2>4
<1> QED
  BY <1>3, <1>4, <1>5

(* Stage 10 with its pipelined memories implements VertexStore: every      *)
(* update is applied once, in order, to the right iteration.               *)
THEOREM StoreRefinementHolds == Spec => StoreRefinement
<1>1. Init => Store!StoreInit
  <2> SUFFICES ASSUME Init PROVE Store!StoreInit
    OBVIOUS
  <2>1. EffectivePr = [v \in Vertex |-> PrInit]
    BY DEF Init, EffectivePr
  <2>2. EffectiveDelta = [b \in Bank |-> [v \in Vertex |->
          [val |-> IF b = 0 THEN Delta1Init ELSE Delta2Init, tag |-> 0]]]
    BY DEF Init, EffectiveDelta
  <2> QED
    BY <2>1, <2>2 DEF Init, Store!StoreInit
<1>2. TypeOK /\ PipelineInv /\ [Next]_vars => [Store!StoreNext]_Store!storeVars
  <2> SUFFICES ASSUME TypeOK, PipelineInv, [Next]_vars
               PROVE  [Store!StoreNext]_Store!storeVars
    OBVIOUS
  <2>1. CASE Tick
    BY <2>1, StoreStep
  <2>2. CASE UNCHANGED vars
    BY <2>2 DEF vars, network, controller, memory, frontEnd, Store!storeVars,
                EffectiveDelta, EffectivePr
  <2> QED
    BY <2>1, <2>2 DEF Next
<1> QED
  BY <1>1, <1>2, TypeCorrect, PipelineCorrect, PTL
     DEF Spec, StoreRefinement, Store!StoreSpec

-----------------------------------------------------------------------------
(* At the end of an iteration every contribution is in the memories.       *)

(* What the updates that have been handed over amount to, per vertex, and  *)
(* the account after one more update.                                      *)
Account == [Vertex -> [count : Nat, delta : Int, pr : Int]]

Credited(l, u) ==
  [l EXCEPT ![u.addr] = [count |-> @.count + 1, delta |-> @.delta + u.val, pr |-> @.pr + u.val]]

(* The updates of w, credited in this order, lead from l to m.             *)
Path(f, l, w, m) ==
  /\ f \in [0 .. Len(w) -> Account]
  /\ f[0] = l /\ f[Len(w)] = m
  /\ \A k \in 1 .. Len(w) : f[k] = Credited(f[k - 1], w[k])

Leads(l, w, m) == \E f : Path(f, l, w, m)

LEMMA CreditedType ==
  ASSUME NEW l \in Account, NEW u \in Update
  PROVE  Credited(l, u) \in Account
<1>1. u.addr \in Vertex /\ u.val \in Int
  BY ParameterAssumption DEF Update
<1>2. /\ l[u.addr].count + 1 \in Nat
      /\ l[u.addr].delta + u.val \in Int /\ l[u.addr].pr + u.val \in Int
  BY <1>1 DEF Account
<1> QED
  BY <1>1, <1>2 DEF Account, Credited

LEMMA LeadsNowhere ==
  ASSUME NEW l \in Account
  PROVE  /\ Leads(l, <<>>, l)
         /\ \A m : Leads(l, <<>>, m) => m = l
<1>1. Path([k \in 0 .. 0 |-> l], l, <<>>, l)
  BY DEF Path
<1>2. \A m, f : Path(f, l, <<>>, m) => m = l
  BY DEF Path
<1> QED
  BY <1>1, <1>2 DEF Leads

LEMMA LeadsOn ==
  ASSUME NEW l, NEW w \in Seq(Update), NEW m, NEW u \in Update, Leads(l, w, m)
  PROVE  Leads(l, Append(w, u), Credited(m, u))
<1>1. PICK f : Path(f, l, w, m)
  BY DEF Leads
<1> DEFINE n == Len(w)
           x == Append(w, u)
           c == Credited(m, u)
           g == [k \in 0 .. n + 1 |-> IF k = n + 1 THEN c ELSE f[k]]
<1>2. n \in Nat /\ Len(x) = n + 1 /\ x[n + 1] = u /\ \A k \in 1 .. n : x[k] = w[k]
  OBVIOUS
<1>3. f \in [0 .. n -> Account] /\ f[0] = l /\ f[n] = m /\ m \in Account
  BY <1>1, <1>2 DEF Path
<1>4. c \in Account
  BY <1>3, CreditedType
<1>5. \A k \in 1 .. n : f[k] = Credited(f[k - 1], w[k])
  BY <1>1 DEF Path
<1>6. c = Credited(f[n], u)
  BY <1>3
<1> HIDE DEF n, x, c
<1>7. g \in [0 .. n + 1 -> Account] /\ g[0] = l /\ g[n + 1] = c
  BY <1>2, <1>3, <1>4
<1>8. \A k \in 1 .. n + 1 : g[k] = Credited(g[k - 1], x[k])
  <2> SUFFICES ASSUME NEW k \in 1 .. n + 1 PROVE g[k] = Credited(g[k - 1], x[k])
    OBVIOUS
  <2>1. CASE k = n + 1
    BY <1>2, <1>6, <2>1
  <2>2. CASE k \in 1 .. n
    <3>1. g[k] = f[k] /\ g[k - 1] = f[k - 1] /\ x[k] = w[k]
      BY <1>2, <2>2
    <3> QED
      BY <1>5, <2>2, <3>1
  <2> QED
    BY <1>2, <2>1, <2>2
<1>9. Path(g, l, x, c)
  BY <1>2, <1>7, <1>8 DEF Path
<1> QED
  BY <1>9 DEF Leads, x, c

LEMMA LeadsFrom ==
  ASSUME NEW l, NEW w \in Seq(Update), w # <<>>, NEW m, Leads(l, w, m)
  PROVE  Leads(Credited(l, w[1]), Tail(w), m)
<1>1. PICK f : Path(f, l, w, m)
  BY DEF Leads
<1> DEFINE n == Len(w)
           x == Tail(w)
           g == [k \in 0 .. n - 1 |-> f[k + 1]]
<1>2. n \in Nat /\ n > 0 /\ Len(x) = n - 1 /\ \A k \in 1 .. n - 1 : x[k] = w[k + 1]
  OBVIOUS
<1>3. /\ f \in [0 .. n -> Account] /\ f[0] = l /\ f[n] = m
      /\ \A k \in 1 .. n : f[k] = Credited(f[k - 1], w[k])
  BY <1>1 DEF Path
<1> HIDE DEF n, x
<1>4. f[1] = Credited(l, w[1])
  <2>1. f[1] = Credited(f[1 - 1], w[1])
    BY <1>2, <1>3
  <2> QED
    BY <1>3, <2>1
<1>5. g \in [0 .. n - 1 -> Account] /\ g[0] = f[1] /\ g[n - 1] = m
  BY <1>2, <1>3
<1>6. \A k \in 1 .. n - 1 : g[k] = Credited(g[k - 1], x[k])
  <2> SUFFICES ASSUME NEW k \in 1 .. n - 1 PROVE g[k] = Credited(g[k - 1], x[k])
    OBVIOUS
  <2>1. g[k] = f[k + 1] /\ g[k - 1] = f[k] /\ x[k] = w[k + 1]
    BY <1>2
  <2>2. k + 1 \in 1 .. n /\ (k + 1) - 1 = k
    BY <1>2
  <2>3. f[k + 1] = Credited(f[k], w[k + 1])
    BY <1>3, <2>2
  <2> QED
    BY <2>1, <2>3
<1>7. Path(g, Credited(l, w[1]), x, m)
  BY <1>2, <1>4, <1>5, <1>6 DEF Path
<1> QED
  BY <1>7 DEF Leads, x

(* The updates on their way to the memories, oldest first.                 *)
InFlight == Push(Push(wrPr, wrV), recvV)

(* A tick takes the update that is answered from the front of InFlight and *)
(* puts the one that arrives at its end.                                   *)
LEMMA InFlightStep ==
  ASSUME TypeOK, PipelineInv, Tick
  PROVE  /\ InFlight \in Seq(Update)
         /\ recvV' \in Update \union {None}
         /\ prData = None => InFlight' = Push(InFlight, recvV')
         /\ prData # None => /\ InFlight # <<>> /\ InFlight[1] = wrPr[1]
                             /\ InFlight' = Push(Tail(InFlight), recvV')
<1>1. /\ wrPr \in Seq(Update) /\ wrV \in Update \union {None}
      /\ recvV \in Update \union {None}
  BY DEF TypeOK, NetworkType, ControllerType
<1>2. recvV' \in Update \union {None}
  BY StepType DEF TypeOK, NetworkType, Next
<1>3. Pending \in Seq(Update) /\ InFlight = Push(Pending, recvV) /\ wrV' = recvV
  BY <1>1, NoneAssumption, PushType DEF Tick, BackendCore, Pending, InFlight
<1>4. InFlight \in Seq(Update)
  BY <1>1, <1>3, NoneAssumption, PushType
<1>5. deltaData[Dst] = None <=> prData = None
  BY DEF PipelineInv, Alignment
<1>6. wrPr' = IF prData # None THEN Tail(Pending) ELSE Pending
  BY <1>5 DEF Tick, VertexRamController, WriteBack, Unwritten
<1>7. InFlight' = Push(Push(wrPr', recvV), recvV')
  BY <1>3 DEF InFlight
<1>8. CASE prData = None
  BY <1>2, <1>3, <1>4, <1>6, <1>7, <1>8
<1>9. CASE prData # None
  <2>1. wrPr # <<>>
    BY <1>9, AnswerIsCurrent
  <2>2. Pending # <<>> /\ Pending[1] = wrPr[1]
    BY <1>1, <2>1 DEF Pending, Push
  <2>3. InFlight # <<>> /\ InFlight[1] = Pending[1]
    BY <1>1, <1>3, <2>2 DEF Push
  <2>4. Push(Tail(Pending), recvV) = Tail(InFlight)
    <3>1. CASE recvV = None
      BY <1>3, <3>1 DEF Push
    <3>2. CASE recvV # None
      BY <1>1, <1>3, <2>2, <3>2, HeadTailAppend DEF Push
    <3> QED
      BY <3>1, <3>2
  <2> QED
    BY <1>2, <1>4, <1>6, <1>7, <1>9, <2>2, <2>3, <2>4
<1> QED
  BY <1>8, <1>9

(* Stage 10's verdict, with the iteration it is given in as a parameter.   *)
ExceedsAt(i, delta, p) == INV_E2 * Abs(delta) > (IF i = 0 THEN p ELSE p - delta)

Marked(r, s) ==
  IF r = None THEN s ELSE IF r.updated THEN s \union {r.addr} ELSE s \ {r.addr}

(* What d, p and m say of a vertex is what the updates in its account l    *)
(* amount to: its delta, its rank and whether it is marked active.         *)
Reflects(l, i, d, p, m) ==
  /\ p = PrInit + l.pr
  /\ l.count = 0 => l.delta = 0
  /\ l.count > 0 \/ i = 0 => /\ d.tag = i
                             /\ d.val = l.delta + (IF i = 0 THEN Delta2Init ELSE 0)
  /\ l.count = 0 /\ i # 0 => d.tag < i
  /\ m <=> IF l.count > 0 THEN ExceedsAt(i, d.val, p) ELSE i = 0

LandedAt(l, i, d, p, m) == \A v \in Vertex : Reflects(l[v], i, d[v], p[v], v \in m)

(* One more update for a vertex whose state reflects its account.          *)
LEMMA CreditReflects ==
  ASSUME NEW l \in [count : Nat, delta : Int, pr : Int], NEW i \in Nat,
         NEW d \in Delta, NEW p \in Int, NEW m, NEW val \in Int, NEW cur \in Int,
         Reflects(l, i, d, p, m), cur = IF d.tag = i THEN d.val ELSE 0
  PROVE  Reflects([count |-> l.count + 1, delta |-> l.delta + val, pr |-> l.pr + val], i,
                  [val |-> val + cur, tag |-> i], val + p,
                  ExceedsAt(i, val + cur, val + p))
<1> DEFINE x == [count |-> l.count + 1, delta |-> l.delta + val, pr |-> l.pr + val]
<1>1. x.count > 0 /\ x.count # 0 /\ x.delta = l.delta + val /\ x.pr = l.pr + val
  OBVIOUS
<1>2. Delta2Init \in Int /\ PrInit \in Int /\ l.count \in Nat /\ l.delta \in Int /\ l.pr \in Int
  BY ParameterAssumption
<1>3. val + p = PrInit + x.pr
  BY <1>1, <1>2 DEF Reflects
<1>4. val + cur = x.delta + (IF i = 0 THEN Delta2Init ELSE 0)
  <2>1. CASE i = 0 \/ l.count > 0
    BY <1>1, <1>2, <2>1 DEF Reflects
  <2>2. CASE i # 0 /\ l.count = 0
    <3>1. d.tag < i /\ l.delta = 0 /\ d.tag \in Nat
      BY <2>2 DEF Reflects, Delta
    <3>2. cur = 0
      BY <3>1
    <3> QED
      BY <1>1, <1>2, <2>2, <3>1, <3>2
  <2> QED
    BY <1>2, <2>1, <2>2
<1> HIDE DEF x
<1> QED
  BY <1>1, <1>3, <1>4 DEF Reflects, x

(* The value an update of vertex v is added to in this iteration.          *)
Accrued(v) == IF EffectiveDelta[Dst][v].tag = iterationID THEN EffectiveDelta[Dst][v].val ELSE 0

LEMMA EffectiveType ==
  ASSUME TypeOK
  PROVE  /\ \A b \in Bank : \A v \in Vertex : EffectiveDelta[b][v] \in Delta
         /\ \A v \in Vertex : EffectivePr[v] \in Int
<1>1. \A b \in Bank : \A v \in Vertex : EffectiveDelta[b][v] \in Delta
  <2> SUFFICES ASSUME NEW b \in Bank, NEW v \in Vertex PROVE EffectiveDelta[b][v] \in Delta
    OBVIOUS
  <2>1. /\ deltaBram[b][v] \in Delta
        /\ deltaWr[b] # None => deltaWr[b] \in [addr : Vertex, val : Int, tag : Nat]
    BY DEF TypeOK, MemoryType, ControllerType
  <2> QED
    BY <2>1 DEF EffectiveDelta, Delta
<1>2. \A v \in Vertex : EffectivePr[v] \in Int
  BY DEF EffectivePr, TypeOK, MemoryType, ControllerType
<1> QED
  BY <1>1, <1>2

(* The two writes of a write-back.                                         *)
LEMMA WritesSent ==
  ASSUME TypeOK, PipelineInv, Tick, prData # None
  PROVE  LET u == wrPr[1] IN
         /\ ~NextIteration /\ iterationID' = iterationID /\ Dst' = Dst
         /\ DeltaWrite = [addr |-> u.addr, val |-> u.val + Accrued(u.addr), tag |-> iterationID]
         /\ PrWrite = [addr |-> u.addr, val |-> u.val + EffectivePr[u.addr]]
         /\ deltaWr'[Dst'] = DeltaWrite /\ prWr' = PrWrite
<1> DEFINE u == wrPr[1]
<1>1. Alignment /\ Dst \in Bank
  BY BanksAreTwo DEF PipelineInv
<1>2. /\ u \in Update /\ Head(Pending) = u
      /\ prData = EffectivePr[u.addr]
      /\ deltaData[Dst] = EffectiveDelta[Dst][u.addr]
  BY AnswerIsCurrent
<1>3. ~NextIteration
  BY <1>1, QuietEdge DEF PipelineInv
<1>4. Dst' = Dst /\ iterationID' = iterationID
  BY <1>3, ParityStep DEF Tick, ReadActiveVertex
<1>5. deltaData[Dst] # None
  BY <1>1 DEF Alignment
<1>6. DeltaWrite = [addr |-> u.addr, val |-> u.val + Accrued(u.addr), tag |-> iterationID]
  BY <1>2, <1>5 DEF DeltaWrite, Accumulated, Accrued
<1>7. PrWrite = [addr |-> u.addr, val |-> u.val + EffectivePr[u.addr]]
  BY <1>2 DEF PrWrite
<1>8. deltaWr'[Dst'] = DeltaWrite /\ prWr' = PrWrite
  BY <1>1, <1>4 DEF Tick, VertexRamController, WriteBack
<1> QED
  BY <1>3, <1>4, <1>6, <1>7, <1>8

(* What a write-back leaves in the memories, vertex by vertex.             *)
LEMMA WriteBackReaches ==
  ASSUME TypeOK, PipelineInv, Tick, prData # None, NEW v \in Vertex
  PROVE  LET u == wrPr[1] IN
         /\ EffectiveDelta'[Dst'][v] = IF v = u.addr
                                       THEN [val |-> u.val + Accrued(v), tag |-> iterationID]
                                       ELSE EffectiveDelta[Dst][v]
         /\ EffectivePr'[v] = IF v = u.addr THEN u.val + EffectivePr[v] ELSE EffectivePr[v]
         /\ \A b \in Bank : b # Dst => EffectiveDelta'[b] = EffectiveDelta[b]
<1> DEFINE u == wrPr[1]
<1>1. u \in Update /\ u.addr \in Vertex
  BY AnswerIsCurrent DEF Update
<1>2. Dst \in Bank /\ Dst' = Dst
  BY BanksAreTwo, WritesSent
<1>3. Store!Target = Dst /\ Store!Current(u.addr) = Accrued(u.addr)
  BY DEF Store!Target, Store!Current, Dst, Src, Accrued
<1>4. Store!ApplyUpdate(u)
  BY WriteBackApplies
<1> HIDE DEF u
<1>5. /\ EffectiveDelta' = [EffectiveDelta EXCEPT ![Dst][u.addr] =
                              [val |-> u.val + Accrued(u.addr), tag |-> iterationID]]
      /\ EffectivePr' = [EffectivePr EXCEPT ![u.addr] = u.val + @]
  BY <1>3, <1>4 DEF Store!ApplyUpdate
<1>6. /\ DOMAIN EffectiveDelta = Bank /\ DOMAIN EffectiveDelta[Dst] = Vertex
      /\ DOMAIN EffectivePr = Vertex
  BY <1>2 DEF EffectiveDelta, EffectivePr
<1>7. EffectiveDelta'[Dst] = [EffectiveDelta[Dst] EXCEPT ![u.addr] =
                               [val |-> u.val + Accrued(u.addr), tag |-> iterationID]]
  BY <1>2, <1>5, <1>6
<1>8. \A b \in Bank : b # Dst => EffectiveDelta'[b] = EffectiveDelta[b]
  BY <1>2, <1>5, <1>6
<1>9. EffectiveDelta'[Dst][v] = IF v = u.addr
                                THEN [val |-> u.val + Accrued(v), tag |-> iterationID]
                                ELSE EffectiveDelta[Dst][v]
  BY <1>1, <1>6, <1>7
<1>10. EffectivePr'[v] = IF v = u.addr THEN u.val + EffectivePr[v] ELSE EffectivePr[v]
  BY <1>1, <1>5, <1>6
<1> QED
  BY <1>2, <1>8, <1>9, <1>10 DEF u

(* The verdict stage 10 owes for the write it sent last, and the active    *)
(* set once every verdict under way has reached stage 1.                   *)
Verdict ==
  IF prWr = None THEN None
  ELSE [addr |-> prWr.addr, updated |-> ExceedsAt(iterationID, deltaWr[Dst].val, prWr.val)]

FinalMarks == Marked(Verdict, Marked(activeV, Marked(backendV, visNext)))

(* The queues of stage 10's outputs hold the last write and nothing else;  *)
(* while the end is up no verdict is under way.                            *)
ActiveQueue ==
  /\ prWr = None => activeDelta = <<>> /\ activePr = <<>>
  /\ prWr # None => /\ activeDelta = <<[addr |-> prWr.addr, val |-> deltaWr[Dst].val]>>
                    /\ activePr = <<prWr.val>>

QuietOutputs ==
  /\ endCt > 0 => activeDelta = <<>>
  /\ iterationEnd => activeV = None
  /\ backendEnd => backendV = None

LEMMA OutputStep ==
  ASSUME TypeOK, PipelineInv, ActiveQueue, Tick
  PROVE  activeV' = Verdict /\ ActiveQueue'
<1>1. Alignment
  BY DEF PipelineInv
<1>2. OutputReady <=> prWr # None
  BY DEF OutputReady, ActiveQueue
<1>3. activeV' = Verdict
  <2>1. CASE prWr = None
    BY <1>2, <2>1 DEF Tick, VertexRamController, SendOutputs, Verdict
  <2>2. CASE prWr # None
    <3>1. Head(activeDelta) = [addr |-> prWr.addr, val |-> deltaWr[Dst].val] /\ Head(activePr) = prWr.val
      BY <2>2 DEF ActiveQueue
    <3>2. activeV' = [addr |-> Head(activeDelta).addr,
                      updated |-> Exceeds(Head(activeDelta).val, Head(activePr))]
      BY <1>2, <2>2 DEF Tick, VertexRamController, SendOutputs
    <3> QED
      BY <2>2, <3>1, <3>2 DEF Verdict, Exceeds, ExceedsAt
  <2> QED
    BY <2>1, <2>2
<1>4. /\ (IF OutputReady THEN Tail(activeDelta) ELSE activeDelta) = <<>>
      /\ (IF OutputReady THEN Tail(activePr) ELSE activePr) = <<>>
  <2>1. CASE prWr = None
    BY <1>2, <2>1 DEF ActiveQueue
  <2>2. CASE prWr # None
    <3>1. \A x : Tail(<<x>>) = <<>>
      OBVIOUS
    <3>2. Tail(activeDelta) = <<>> /\ Tail(activePr) = <<>>
      BY <2>2, <3>1, Zenon DEF ActiveQueue
    <3> QED
      BY <1>2, <2>2, <3>2
  <2> QED
    BY <2>1, <2>2
<1>5. /\ activeDelta' = Push(<<>>, IF DeltaWrite = None THEN None
                                   ELSE [addr |-> DeltaWrite.addr, val |-> DeltaWrite.val])
      /\ activePr' = Push(<<>>, IF PrWrite = None THEN None ELSE PrWrite.val)
  BY <1>4 DEF Tick, VertexRamController, SendOutputs
<1>6. CASE prData = None
  <2>1. DeltaWrite = None /\ PrWrite = None /\ prWr' = None
    BY <1>1, <1>6, AnswerStep DEF DeltaWrite, PrWrite, Alignment
  <2>2. activeDelta' = <<>> /\ activePr' = <<>>
    BY <1>5, <2>1 DEF Push
  <2> QED
    BY <1>3, <2>1, <2>2 DEF ActiveQueue
<1>7. CASE prData # None
  <2> DEFINE u == wrPr[1]
             x == u.val + Accrued(u.addr)
             y == u.val + EffectivePr[u.addr]
  <2>1. /\ DeltaWrite = [addr |-> u.addr, val |-> x, tag |-> iterationID]
        /\ PrWrite = [addr |-> u.addr, val |-> y]
        /\ deltaWr'[Dst'] = DeltaWrite /\ prWr' = PrWrite
    BY <1>7, WritesSent
  <2>2. prWr' # None /\ deltaWr'[Dst'] # None
    BY <1>1, <1>7, <2>1, AnswerStep, WritesSent
  <2>3. u.addr \in Vertex /\ x \in Int /\ y \in Int
    <3>1. u \in Update /\ u.addr \in Vertex /\ u.val \in Int
      BY <1>7, AnswerIsCurrent, ParameterAssumption DEF Update
    <3>2. Accrued(u.addr) \in Int /\ EffectivePr[u.addr] \in Int
      BY <3>1, EffectiveType, BanksAreTwo DEF Accrued, Delta
    <3> QED
      BY <3>1, <3>2
  <2> HIDE DEF u, x, y
  <2>4. [addr |-> u.addr, val |-> x] # None /\ y # None
    <3>1. [addr |-> u.addr, val |-> x] \in [addr : Vertex, val : Int]
      BY <2>3
    <3> QED
      BY <2>3, <3>1, NoneAssumption
  <2>5. activeDelta' = <<[addr |-> u.addr, val |-> x]>> /\ activePr' = <<y>>
    BY <1>5, <2>1, <2>2, <2>4 DEF Push
  <2> QED
    BY <1>3, <2>1, <2>2, <2>5 DEF ActiveQueue
<1> QED
  BY <1>6, <1>7

LEMMA QuietOutputsStep ==
  ASSUME WAIT_END_DELAY > 0, TypeOK, PipelineInv, ActiveQueue, QuietOutputs, Tick
  PROVE  QuietOutputs'
<1>1. endCt' > 0 => activeDelta' = <<>>
  <2>1. CASE ~Drained
    BY <2>1 DEF Tick, VertexRamController, DetectEnd
  <2>2. CASE Drained
    BY <2>2 DEF Drained
  <2> QED
    BY <2>1, <2>2
<1>2. iterationEnd' => activeV' = None
  <2> SUFFICES ASSUME iterationEnd' PROVE activeV' = None
    OBVIOUS
  <2>1. endCt >= WAIT_END_DELAY
    BY DEF Tick, VertexRamController, DetectEnd
  <2>2. endCt > 0
    BY <2>1, ParameterAssumption DEF TypeOK, ControllerType
  <2>3. activeDelta = <<>>
    BY <2>2 DEF QuietOutputs
  <2>4. ~OutputReady
    BY <2>3 DEF OutputReady
  <2> QED
    BY <2>4 DEF Tick, VertexRamController, SendOutputs
<1>3. backendEnd' => backendV' = None
  BY LevelStep DEF QuietOutputs, Tick, ApplyIterationEnd
<1> QED
  BY <1>1, <1>2, <1>3 DEF QuietOutputs

(* A tick within an iteration moves the verdicts on and adds the one on    *)
(* the write-back, if any.                                                 *)
LEMMA MarksStep ==
  ASSUME TypeOK, PipelineInv, ActiveQueue, Tick, ~NextIteration
  PROVE  FinalMarks' = Marked(Verdict', FinalMarks)
<1>1. visNext' = Marked(backendV, visNext) /\ backendV' = activeV
  BY DEF Tick, ReadActiveVertex, ApplyIterationEnd, MarkActive, Marked
<1>2. activeV' = Verdict
  BY OutputStep
<1> HIDE DEF Verdict
<1> QED
  BY <1>1, <1>2 DEF FinalMarks

LEMMA VerdictOfWrite ==
  ASSUME TypeOK, PipelineInv, Tick
  PROVE  /\ prData = None => Verdict' = None
         /\ prData # None =>
              LET u == wrPr[1] IN
              Verdict' = [addr |-> u.addr,
                          updated |-> ExceedsAt(iterationID, u.val + Accrued(u.addr),
                                                u.val + EffectivePr[u.addr])]
<1>1. prWr' = None <=> prData = None
  BY AnswerStep DEF PipelineInv
<1>2. ASSUME prData # None
      PROVE  LET u == wrPr[1] IN
             Verdict' = [addr |-> u.addr,
                         updated |-> ExceedsAt(iterationID, u.val + Accrued(u.addr),
                                               u.val + EffectivePr[u.addr])]
  <2> DEFINE u == wrPr[1]
             x == u.val + Accrued(u.addr)
             y == u.val + EffectivePr[u.addr]
  <2>1. /\ deltaWr'[Dst'] = [addr |-> u.addr, val |-> x, tag |-> iterationID]
        /\ prWr' = [addr |-> u.addr, val |-> y] /\ iterationID' = iterationID
    BY <1>2, WritesSent
  <2> HIDE DEF u, x, y
  <2>2. Verdict' = [addr |-> u.addr, updated |-> ExceedsAt(iterationID, x, y)]
    BY <1>1, <1>2, <2>1 DEF Verdict, ExceedsAt
  <2> QED
    BY <2>2 DEF u, x, y
<1> QED
  BY <1>1, <1>2 DEF Verdict

(* No delta is tagged with an iteration to come.                           *)
TagsBound == \A b \in Bank : \A v \in Vertex : EffectiveDelta[b][v].tag <= iterationID

(* The memories and marks reflect an account that the updates on their way *)
(* complete to the ledger.                                                 *)
LedgerInv ==
  \E l \in Account : /\ Leads(l, InFlight, ledger)
                     /\ LandedAt(l, iterationID, EffectiveDelta[Dst], EffectivePr, FinalMarks)

EndInv == ActiveQueue /\ QuietOutputs /\ TagsBound /\ LedgerInv

LEMMA TagsStep ==
  ASSUME TypeOK, PipelineInv, TagsBound, Tick
  PROVE  TagsBound'
<1> SUFFICES ASSUME NEW b \in Bank, NEW v \in Vertex
             PROVE  EffectiveDelta'[b][v].tag <= iterationID'
  BY DEF TagsBound
<1>1. EffectiveDelta[b][v].tag \in Nat /\ EffectiveDelta[b][v].tag <= iterationID
  BY EffectiveType DEF TagsBound, Delta
<1>2. iterationID \in Nat /\ iterationID' \in {iterationID, iterationID + 1}
  BY ParameterAssumption DEF TypeOK, FrontEndType, Tick, ReadActiveVertex
<1>3. CASE prData = None
  BY <1>1, <1>2, <1>3, EffectiveStays
<1>4. CASE prData # None /\ b # Dst
  <2>1. EffectiveDelta'[b] = EffectiveDelta[b]
    BY <1>4, WriteBackReaches
  <2> QED
    BY <1>1, <1>2, <2>1
<1>5. CASE prData # None /\ b = Dst
  <2>1. Dst' = Dst
    BY <1>5, WritesSent
  <2> DEFINE m == [val |-> wrPr[1].val + Accrued(v), tag |-> iterationID]
  <2>2. EffectiveDelta'[Dst'][v] = m \/ EffectiveDelta'[Dst'][v] = EffectiveDelta[Dst][v]
    BY <1>5, WriteBackReaches
  <2>3. m.tag = iterationID
    OBVIOUS
  <2> HIDE DEF m
  <2>4. EffectiveDelta'[b][v] = m \/ EffectiveDelta'[b][v] = EffectiveDelta[b][v]
    BY <1>5, <2>1, <2>2
  <2> QED
    BY <1>1, <1>2, <2>3, <2>4
<1> QED
  BY <1>3, <1>4, <1>5

(* The ledger is credited with what arrives.                               *)
LEMMA LedgerArrival ==
  ASSUME TypeOK, PipelineInv, Tick, NEW l, NEW w \in Seq(Update), Leads(l, w, ledger)
  PROVE  ~NextIteration => Leads(l, Push(w, recvV'), ledger')
<1> SUFFICES ASSUME ~NextIteration PROVE Leads(l, Push(w, recvV'), ledger')
  OBVIOUS
<1>1. Quiet \/ Deliver \/ EarlyEnd \/ StaleEnd \/ LastEnd \/ HoldEnd
  BY DEF Tick, HyperxNetwork
<1>2. CASE Deliver
  <2>1. PICK u \in Update : recvV' = u /\ Credit(u)
    BY <1>2 DEF Deliver
  <2>2. ledger' = Credited(ledger, u)
    BY <2>1 DEF Credit, Credited
  <2>3. Push(w, u) = Append(w, u)
    BY NoneAssumption DEF Push
  <2> QED
    BY <2>1, <2>2, <2>3, LeadsOn
<1>3. CASE ~Deliver
  <2>1. recvV' = None /\ ledger' = ledger
    BY <1>1, <1>3 DEF Quiet, EarlyEnd, StaleEnd, LastEnd, HoldEnd, NoUpdate
  <2> QED
    BY <2>1 DEF Push
<1> QED
  BY <1>2, <1>3

LEMMA LandedCredit ==
  ASSUME TypeOK, PipelineInv, ActiveQueue, Tick, prData # None, NEW l \in Account,
         LandedAt(l, iterationID, EffectiveDelta[Dst], EffectivePr, FinalMarks)
  PROVE  LandedAt(Credited(l, wrPr[1]), iterationID', EffectiveDelta'[Dst'], EffectivePr', FinalMarks')
<1> DEFINE u == wrPr[1]
           a == wrPr[1].addr
           c == Credited(l, u)
           r == [addr |-> a, updated |-> ExceedsAt(iterationID, u.val + Accrued(a),
                                                   u.val + EffectivePr[a])]
<1>1. u \in Update /\ a \in Vertex /\ u.val \in Int /\ a = u.addr
  BY AnswerIsCurrent, ParameterAssumption DEF Update
<1>2. ~NextIteration /\ iterationID' = iterationID /\ iterationID \in Nat
  BY WritesSent, ParameterAssumption DEF TypeOK, FrontEndType
<1>3. FinalMarks' = Marked(r, FinalMarks)
  BY <1>2, MarksStep, VerdictOfWrite
<1>4. r # None
  <2>1. r \in [addr : Vertex, updated : BOOLEAN]
    BY <1>1 DEF ExceedsAt
  <2> QED
    BY <2>1, NoneAssumption
<1>5. \A v \in Vertex : v \in FinalMarks' <=> IF v = a THEN r.updated ELSE v \in FinalMarks
  <2>1. r.addr = a
    OBVIOUS
  <2> HIDE DEF r, a
  <2> QED
    BY <1>3, <1>4, <2>1 DEF Marked
<1>6. r.updated <=> ExceedsAt(iterationID, u.val + Accrued(a), u.val + EffectivePr[a])
  OBVIOUS
<1>7. \A v \in Vertex : c[v] = IF v = a THEN [count |-> l[v].count + 1, delta |-> l[v].delta + u.val,
                                              pr |-> l[v].pr + u.val]
                               ELSE l[v]
  BY <1>1 DEF Credited, Account
<1>8. \A v \in Vertex :
        /\ EffectiveDelta'[Dst'][v] = IF v = a THEN [val |-> u.val + Accrued(v), tag |-> iterationID]
                                      ELSE EffectiveDelta[Dst][v]
        /\ EffectivePr'[v] = IF v = a THEN u.val + EffectivePr[v] ELSE EffectivePr[v]
  BY WriteBackReaches
<1> HIDE DEF r, c, u, a
<1> SUFFICES ASSUME NEW v \in Vertex
             PROVE  Reflects(c[v], iterationID', EffectiveDelta'[Dst'][v], EffectivePr'[v], v \in FinalMarks')
  BY DEF LandedAt, c, u
<1>9. Reflects(l[v], iterationID, EffectiveDelta[Dst][v], EffectivePr[v], v \in FinalMarks)
  BY DEF LandedAt
<1>10. CASE v # a
  <2>1. v \in FinalMarks' <=> v \in FinalMarks
    BY <1>5, <1>10
  <2> QED
    BY <1>2, <1>7, <1>8, <1>9, <1>10, <2>1 DEF Reflects
<1>11. CASE v = a
  <2>1. /\ l[v] \in [count : Nat, delta : Int, pr : Int]
        /\ EffectiveDelta[Dst][v] \in Delta /\ EffectivePr[v] \in Int
    BY EffectiveType, BanksAreTwo DEF Account
  <2>2. Accrued(v) = (IF EffectiveDelta[Dst][v].tag = iterationID THEN EffectiveDelta[Dst][v].val ELSE 0)
        /\ Accrued(v) \in Int
    BY <2>1 DEF Accrued, Delta
  <2>3. Reflects([count |-> l[v].count + 1, delta |-> l[v].delta + u.val, pr |-> l[v].pr + u.val],
                 iterationID, [val |-> u.val + Accrued(v), tag |-> iterationID], u.val + EffectivePr[v],
                 ExceedsAt(iterationID, u.val + Accrued(v), u.val + EffectivePr[v]))
    BY <1>1, <1>2, <1>9, <2>1, <2>2, CreditReflects
  <2>4. v \in FinalMarks' <=> ExceedsAt(iterationID, u.val + Accrued(v), u.val + EffectivePr[v])
    BY <1>5, <1>6, <1>11
  <2> QED
    BY <1>2, <1>7, <1>8, <1>11, <2>3, <2>4 DEF Reflects
<1> QED
  BY <1>10, <1>11

(* The tick in which stage 1 opens the next iteration: nothing is under    *)
(* way, so the account is the ledger.                                      *)
LEMMA EdgeFacts ==
  ASSUME WAIT_END_DELAY > 0, TypeOK, PipelineInv, EndInv, NextIteration
  PROVE  /\ InFlight = <<>> /\ FinalMarks = visNext
         /\ EffectiveDelta = deltaBram /\ EffectivePr = prUram
         /\ LandedAt(ledger, iterationID, deltaBram[Dst], prUram, visNext)
         /\ Verdict = None /\ activeV = None /\ backendV = None
<1>1. /\ iterationEnd /\ wrPr = <<>> /\ wrV = None /\ recvV = None /\ prData = None
      /\ activeDelta = <<>> /\ backendEnd
  BY QuietEdge DEF PipelineInv, EndLevels, NextIteration
<1>2. InFlight = <<>>
  BY <1>1 DEF InFlight, Push
<1>3. activeV = None /\ backendV = None
  BY <1>1 DEF EndInv, QuietOutputs
<1>4. prWr = None
  BY <1>1 DEF EndInv, ActiveQueue
<1>5. Verdict = None /\ FinalMarks = visNext
  BY <1>3, <1>4 DEF Verdict, FinalMarks, Marked
<1>6. \A b \in Bank : deltaWr[b] = None
  BY <1>4, BanksAreTwo DEF PipelineInv, Alignment
<1>7. EffectiveDelta = deltaBram /\ EffectivePr = prUram
  BY <1>4, <1>6 DEF EffectiveDelta, EffectivePr, TypeOK, MemoryType
<1>8. PICK l \in Account : /\ Leads(l, InFlight, ledger)
                           /\ LandedAt(l, iterationID, EffectiveDelta[Dst], EffectivePr, FinalMarks)
  BY DEF EndInv, LedgerInv
<1>9. l = ledger
  BY <1>2, <1>8, LeadsNowhere
<1> QED
  BY <1>2, <1>3, <1>5, <1>7, <1>8, <1>9

LEMMA LedgerStep ==
  ASSUME WAIT_END_DELAY > 0, TypeOK, PipelineInv, EndInv, Tick
  PROVE  LedgerInv'
<1>1. ActiveQueue
  BY DEF EndInv
<1>2. PICK l \in Account : /\ Leads(l, InFlight, ledger)
                           /\ LandedAt(l, iterationID, EffectiveDelta[Dst], EffectivePr, FinalMarks)
  BY DEF EndInv, LedgerInv
<1>3. CASE ~NextIteration /\ prData = None
  <2>1. Leads(l, InFlight', ledger')
    BY <1>2, <1>3, InFlightStep, LedgerArrival
  <2>2. Verdict' = None /\ FinalMarks' = Marked(Verdict', FinalMarks)
    BY <1>1, <1>3, VerdictOfWrite, MarksStep
  <2>3. FinalMarks' = FinalMarks
    BY <2>2 DEF Marked
  <2>4. iterationID' = iterationID /\ Dst' = Dst
    BY <1>3, ParityStep DEF Tick, ReadActiveVertex
  <2>5. EffectiveDelta' = EffectiveDelta /\ EffectivePr' = EffectivePr
    BY <1>3, EffectiveStays
  <2>6. LandedAt(l, iterationID', EffectiveDelta'[Dst'], EffectivePr', FinalMarks')
    BY <1>2, <2>3, <2>4, <2>5
  <2> QED
    BY <2>1, <2>6 DEF LedgerInv
<1>4. CASE prData # None
  <2> DEFINE c == Credited(l, wrPr[1])
  <2>1. /\ InFlight # <<>> /\ InFlight[1] = wrPr[1] /\ InFlight \in Seq(Update)
        /\ InFlight' = Push(Tail(InFlight), recvV')
    BY <1>4, InFlightStep
  <2>2. Tail(InFlight) \in Seq(Update)
    BY <2>1
  <2>3. Leads(Credited(l, InFlight[1]), Tail(InFlight), ledger)
    BY <1>2, <2>1, LeadsFrom
  <2>4. Leads(c, Tail(InFlight), ledger)
    BY <2>1, <2>3
  <2>5. Leads(c, InFlight', ledger')
    BY <1>4, <2>1, <2>2, <2>4, LedgerArrival, WritesSent
  <2>6. LandedAt(c, iterationID', EffectiveDelta'[Dst'], EffectivePr', FinalMarks')
    BY <1>1, <1>2, <1>4, LandedCredit
  <2>7. c \in Account
    BY <1>4, AnswerIsCurrent, CreditedType
  <2> HIDE DEF c
  <2> QED
    BY <2>5, <2>6, <2>7 DEF LedgerInv
<1>5. CASE NextIteration
  <2>1. phase = "end" /\ prData = None /\ prRd = None /\ iterationID' = iterationID + 1
    BY <1>5, QuietEdge DEF PipelineInv, Tick, ReadActiveVertex
  <2>2. /\ recvV' = None
        /\ ledger' = [v \in Vertex |-> [count |-> 0, delta |-> 0, pr |-> ledger[v].pr]]
    <3>1. HoldEnd
      BY <2>1 DEF Tick, HyperxNetwork, Quiet, Deliver, EarlyEnd, StaleEnd, LastEnd
    <3> QED
      BY <1>5, <3>1 DEF HoldEnd
  <2>3. ledger' \in Account /\ ledger \in Account
    BY <2>2 DEF TypeOK, NetworkType, Account
  <2>4. InFlight' = <<>>
    <3>1. InFlight' = Push(InFlight, recvV')
      BY <2>1, InFlightStep
    <3> QED
      BY <1>5, <2>2, <3>1, EdgeFacts DEF Push
  <2>5. Leads(ledger', InFlight', ledger')
    BY <2>3, <2>4, LeadsNowhere
  <2>6. FinalMarks' = {}
    <3>1. visNext' = {} /\ backendV' = activeV /\ activeV' = Verdict
      BY <1>1, <1>5, OutputStep DEF Tick, ReadActiveVertex, ApplyIterationEnd
    <3>2. Verdict' = None
      BY <2>1, VerdictOfWrite
    <3>3. backendV' = None /\ activeV' = None
      BY <1>5, <3>1, EdgeFacts
    <3> QED
      BY <3>1, <3>2, <3>3 DEF FinalMarks, Marked
  <2>7. /\ EffectiveDelta' = EffectiveDelta /\ EffectivePr' = EffectivePr
        /\ EffectivePr = prUram
    BY <1>5, <2>1, EffectiveStays, EdgeFacts
  <2>8. Dst' = Src /\ Src \in Bank
    BY <1>5, ParityStep, BanksAreTwo
  <2> SUFFICES LandedAt(ledger', iterationID', EffectiveDelta'[Dst'], EffectivePr', FinalMarks')
    BY <2>3, <2>5 DEF LedgerInv
  <2> SUFFICES ASSUME NEW v \in Vertex
               PROVE  Reflects(ledger'[v], iterationID', EffectiveDelta'[Dst'][v], EffectivePr'[v],
                               v \in FinalMarks')
    BY DEF LandedAt
  <2>9. EffectivePr[v] = PrInit + ledger[v].pr
    BY <1>5, <2>7, EdgeFacts DEF LandedAt, Reflects
  <2>10. ledger'[v].count = 0 /\ ledger'[v].delta = 0 /\ ledger'[v].pr = ledger[v].pr
    BY <2>2
  <2>11. EffectiveDelta'[Dst'][v].tag < iterationID' /\ iterationID' # 0
    <3>1. EffectiveDelta[Src][v].tag <= iterationID /\ EffectiveDelta[Src][v].tag \in Nat
      BY <2>8, EffectiveType DEF EndInv, TagsBound, Delta
    <3>2. iterationID \in Nat
      BY ParameterAssumption DEF TypeOK, FrontEndType
    <3> QED
      BY <2>1, <2>7, <2>8, <3>1, <3>2
  <2>12. v \notin FinalMarks'
    BY <2>6
  <2> QED
    BY <2>7, <2>9, <2>10, <2>11, <2>12 DEF Reflects
<1> QED
  BY <1>3, <1>4, <1>5

LEMMA EndInvInit == Init => EndInv
<1> SUFFICES ASSUME Init PROVE EndInv
  OBVIOUS
<1>1. TypeOK /\ Dst = 1 /\ Src = 0 /\ iterationID = 0
  BY InitType DEF Init, Src, Dst
<1>2. EffectivePr = [v \in Vertex |-> PrInit]
  BY DEF Init, EffectivePr
<1>3. EffectiveDelta = [b \in Bank |-> [v \in Vertex |->
        [val |-> IF b = 0 THEN Delta1Init ELSE Delta2Init, tag |-> 0]]]
  BY DEF Init, EffectiveDelta
<1>4. ActiveQueue /\ QuietOutputs
  BY DEF Init, ActiveQueue, QuietOutputs
<1>5. TagsBound
  <2>1. \A b \in Bank : \A v \in Vertex : EffectiveDelta[b][v].tag = 0
    BY <1>3
  <2>2. 0 <= 0
    OBVIOUS
  <2> SUFFICES ASSUME NEW b \in Bank, NEW v \in Vertex
               PROVE  EffectiveDelta[b][v].tag <= iterationID
    BY DEF TagsBound
  <2>3. EffectiveDelta[b][v].tag = 0
    BY <2>1
  <2> QED
    BY <1>1, <2>2, <2>3
<1>6. FinalMarks = Vertex
  BY DEF Init, FinalMarks, Verdict, Marked
<1>7. InFlight = <<>> /\ ledger \in Account
  BY DEF Init, InFlight, Push, Account
<1>8. LandedAt(ledger, iterationID, EffectiveDelta[Dst], EffectivePr, FinalMarks)
  <2> SUFFICES ASSUME NEW v \in Vertex
               PROVE  Reflects(ledger[v], iterationID, EffectiveDelta[Dst][v], EffectivePr[v], v \in FinalMarks)
    BY DEF LandedAt
  <2>1. ledger[v].count = 0 /\ ledger[v].delta = 0 /\ ledger[v].pr = 0
    BY DEF Init
  <2>2. EffectiveDelta[Dst][v].tag = 0 /\ EffectiveDelta[Dst][v].val = Delta2Init
    <3>1. \A b \in Bank : EffectiveDelta[b][v] =
             [val |-> IF b = 0 THEN Delta1Init ELSE Delta2Init, tag |-> 0]
      BY <1>3
    <3>2. 1 \in Bank /\ 1 # 0
      OBVIOUS
    <3> QED
      BY <1>1, <3>1, <3>2
  <2> QED
    BY <1>1, <1>2, <1>6, <2>1, <2>2, ParameterAssumption DEF Reflects
<1>9. LedgerInv
  BY <1>7, <1>8, LeadsNowhere DEF LedgerInv
<1> QED
  BY <1>4, <1>5, <1>9 DEF EndInv

(* When stage 1 opens the next iteration, every contribution is in the     *)
(* memories and the active set is final.                                   *)
LEMMA EdgeComplete ==
  ASSUME WAIT_END_DELAY > 0, TypeOK, PipelineInv, EndInv
  PROVE  NextIteration =>
           \A v \in Vertex : Reflects(ledger[v], iterationID, deltaBram[Dst][v], prUram[v], v \in visNext)
  BY EdgeFacts DEF LandedAt

(* The deltas of the sources still to be read, or being read, are those of *)
(* the previous iteration.                                                 *)
SourceDelta(v) == deltaBram[Src][v].tag = IF iterationID = 0 THEN 0 ELSE iterationID - 1

Fresh ==
  /\ \A v \in visNow : SourceDelta(v)
  /\ rdV # None => SourceDelta(rdV)
  /\ deltaRd[Src] # None => SourceDelta(deltaRd[Src])

LEMMA FreshStep ==
  ASSUME WAIT_END_DELAY > 0, TypeOK, PipelineInv, EndInv, Fresh, Tick
  PROVE  Fresh'
<1>1. /\ Src \in Bank /\ Dst \in Bank
      /\ deltaRd' = [b \in Bank |-> IF b = Src THEN rdV ELSE Issued]
  BY BanksAreTwo DEF Tick, VertexRamController, SendReads
<1>2. /\ rdV \in Vertex \union {None} /\ visNow \subseteq Vertex /\ visNext \subseteq Vertex
      /\ iterationID \in Nat
  BY ParameterAssumption DEF TypeOK, FrontEndType
<1>3. CASE ~NextIteration
  <2>1. Src' = Src /\ iterationID' = iterationID
    BY <1>3, ParityStep DEF Tick, ReadActiveVertex
  <2>2. deltaBram'[Src] = deltaBram[Src]
    BY <1>1 DEF PipelineInv, Alignment, Tick, DeltaBram
  <2>3. \A v \in Vertex : SourceDelta(v) => SourceDelta(v)'
    BY <2>1, <2>2 DEF SourceDelta
  <2>4. visNow' \subseteq visNow /\ (rdV' # None => rdV' \in visNow)
    BY <1>3 DEF Tick, ReadActiveVertex
  <2>5. \A v \in visNow' : SourceDelta(v)'
    BY <1>2, <2>3, <2>4 DEF Fresh
  <2>6. rdV' # None => deltaBram'[Src'][rdV'].tag = IF iterationID' = 0 THEN 0 ELSE iterationID' - 1
    BY <1>2, <2>1, <2>2, <2>4 DEF Fresh, SourceDelta
  <2>7. deltaRd'[Src'] = rdV
    BY <1>1, <2>1
  <2>8. rdV # None => deltaBram'[Src'][rdV].tag = IF iterationID' = 0 THEN 0 ELSE iterationID' - 1
    BY <2>1, <2>2 DEF Fresh, SourceDelta
  <2> QED
    BY <2>5, <2>6, <2>7, <2>8 DEF Fresh, SourceDelta
<1>4. CASE NextIteration
  <2>1. Src' = Dst /\ iterationID' = iterationID + 1 /\ rdV' = None
    BY <1>4, ParityStep DEF Tick, ReadActiveVertex
  <2>2. deltaRd'[Src'] = None
    BY <1>1, <1>4, <2>1, QuietEdge, BanksAreTwo DEF PipelineInv
  <2>3. visNow' \subseteq visNext
    <3>1. MarkActive(visNext) = visNext
      BY <1>4, EdgeFacts DEF MarkActive
    <3> QED
      BY <1>4, <3>1 DEF Tick, ReadActiveVertex
  <2>4. deltaBram' = deltaBram
    BY <1>4, EdgeFacts, WritesLand
  <2>5. ASSUME NEW v \in visNow'
        PROVE  deltaBram'[Src'][v].tag = iterationID
    <3>1. v \in Vertex /\ v \in visNext /\ ledger[v].count \in Nat
      BY <1>2, <2>3 DEF TypeOK, NetworkType
    <3>2. Reflects(ledger[v], iterationID, deltaBram[Dst][v], prUram[v], v \in visNext)
      BY <1>4, <3>1, EdgeComplete
    <3>3. ledger[v].count > 0 \/ iterationID = 0
      BY <3>1, <3>2 DEF Reflects
    <3>4. deltaBram[Dst][v].tag = iterationID
      BY <3>2, <3>3 DEF Reflects
    <3> QED
      BY <2>1, <2>4, <3>4
  <2>6. iterationID' # 0 /\ iterationID' - 1 = iterationID
    BY <1>2, <2>1
  <2> QED
    BY <2>1, <2>2, <2>5, <2>6 DEF Fresh, SourceDelta
<1> QED
  BY <1>3, <1>4

LEMMA EndInvStep ==
  ASSUME WAIT_END_DELAY > 0
  PROVE  TypeOK /\ PipelineInv /\ EndInv /\ Fresh /\ [Next]_vars => EndInv' /\ Fresh'
<1> SUFFICES ASSUME TypeOK, PipelineInv, EndInv, Fresh, [Next]_vars PROVE EndInv' /\ Fresh'
  OBVIOUS
<1>1. CASE Tick
  BY <1>1, OutputStep, QuietOutputsStep, TagsStep, LedgerStep, FreshStep DEF EndInv
<1>2. CASE UNCHANGED vars
  <2> USE <1>2 DEF vars, network, controller, memory, frontEnd
  <2>1. Src' = Src /\ Dst' = Dst
    BY DEF Src, Dst
  <2>2. EffectiveDelta' = EffectiveDelta /\ EffectivePr' = EffectivePr
    BY DEF EffectiveDelta, EffectivePr
  <2>3. FinalMarks' = FinalMarks /\ InFlight' = InFlight
    BY <2>1 DEF FinalMarks, Verdict, InFlight
  <2>4. ActiveQueue'
    BY <2>1 DEF EndInv, ActiveQueue
  <2>5. QuietOutputs' /\ TagsBound'
    BY <2>2 DEF EndInv, QuietOutputs, TagsBound
  <2>6. LedgerInv'
    BY <2>1, <2>2, <2>3 DEF EndInv, LedgerInv
  <2>7. Fresh'
    BY <2>1 DEF Fresh, SourceDelta
  <2> QED
    BY <2>4, <2>5, <2>6, <2>7 DEF EndInv
<1> QED
  BY <1>1, <1>2 DEF Next

LEMMA EndCorrect ==
  ASSUME WAIT_END_DELAY > 0
  PROVE  Spec => [](EndInv /\ Fresh)
<1>1. Init => EndInv /\ Fresh
  <2> SUFFICES ASSUME Init PROVE EndInv /\ Fresh
    OBVIOUS
  <2>1. Src \in Bank /\ iterationID = 0 /\ visNow \subseteq Vertex /\ rdV = None
    BY InitType, BanksAreTwo DEF Init
  <2>2. \A b \in Bank : \A v \in Vertex : deltaBram[b][v].tag = 0
    BY DEF Init
  <2>3. deltaRd[Src] = None
    BY <2>1 DEF Init
  <2>4. Fresh
    BY <2>1, <2>2, <2>3 DEF Fresh, SourceDelta
  <2> QED
    BY <2>4, EndInvInit
<1>2. TypeOK /\ PipelineInv /\ (EndInv /\ Fresh) /\ [Next]_vars => (EndInv /\ Fresh)'
  BY EndInvStep
<1> QED
  BY <1>1, <1>2, TypeCorrect, PipelineCorrect, PTL DEF Spec

(* When stage 1 opens the next iteration, the memories hold every          *)
(* contribution and the active set is the verdict on the final deltas,     *)
(* whatever arrives and however deep the pipeline is: what the wait for    *)
(* the end has to guarantee is one tick for the last verdict.              *)
THEOREM EndIsCompleteHolds ==
  ASSUME WAIT_END_DELAY > 0
  PROVE  Spec => []EndIsComplete
<1>1. TypeOK /\ PipelineInv /\ EndInv /\ Fresh => EndIsComplete
  <2> SUFFICES ASSUME TypeOK, PipelineInv, EndInv, NextIteration, NEW v \in Vertex
               PROVE  LET d == deltaBram[Dst][v]
                          l == ledger[v]
                      IN /\ prUram[v] = PrInit + l.pr
                         /\ IF l.count > 0 \/ iterationID = 0
                            THEN /\ d.tag = iterationID
                                 /\ d.val = l.delta + (IF iterationID = 0 THEN Delta2Init ELSE 0)
                            ELSE d.tag < iterationID
                         /\ (v \in visNext) = IF l.count > 0 THEN Exceeds(d.val, prUram[v])
                                                             ELSE iterationID = 0
    BY DEF EndIsComplete
  <2>1. Reflects(ledger[v], iterationID, deltaBram[Dst][v], prUram[v], v \in visNext)
    BY EdgeComplete
  <2>2. ledger[v].count \in Nat
    BY DEF TypeOK, NetworkType
  <2> QED
    BY <2>1, <2>2 DEF Reflects, Exceeds, ExceedsAt
<1> QED
  BY <1>1, TypeCorrect, PipelineCorrect, EndCorrect, PTL

(* A source never reads a delta older than the last iteration, nor one     *)
(* whose write has not landed.                                             *)
THEOREM SourceIsFreshHolds ==
  ASSUME WAIT_END_DELAY > 0
  PROVE  Spec => []SourceIsFresh
<1>1. TypeOK /\ PipelineInv /\ EndInv /\ Fresh => SourceIsFresh
  BY DEF PipelineInv, Alignment, Fresh, SourceDelta, SourceIsFresh
<1> QED
  BY <1>1, TypeCorrect, PipelineCorrect, EndCorrect, PTL
=============================================================================
