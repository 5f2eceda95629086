----------------------------- MODULE VertexStore -----------------------------
(***************************************************************************)
(* What stage 10 of a core promises to the rest of the accelerator: the    *)
(* updates it has been handed are applied in the order of their arrival,   *)
(* each exactly once and each in one indivisible step, to the delta of the *)
(* current iteration and to the rank of their vertex.  A delta that was    *)
(* last written in an older iteration starts again from zero.  The         *)
(* iteration changes only when no update is pending.                       *)
(*                                                                         *)
(* Reads, conflict window, memory latencies and back pressure are left to  *)
(* VertexRam.                                                              *)
(***************************************************************************)
EXTENDS Integers, Sequences

CONSTANTS Vertex, Value, Delta1Init, Delta2Init, PrInit

VARIABLES
  iteration,  \* the number of the current iteration
  pending,    \* updates handed over and not applied
  delta,      \* delta[b][v]: value and iteration of the last write, per bank
  pr          \* the rank of every vertex

storeVars == <<iteration, pending, delta, pr>>

Target == 1 - (iteration % 2)  \* the bank this iteration accumulates in

StoreInit ==
  /\ iteration = 0
  /\ pending = <<>>
  /\ delta = [b \in {0, 1} |-> [v \in Vertex |->
       [val |-> IF b = 0 THEN Delta1Init ELSE Delta2Init, tag |-> 0]]]
  /\ pr = [v \in Vertex |-> PrInit]

(* The delta of v in this iteration, before the next contribution.         *)
Current(v) == IF delta[Target][v].tag = iteration THEN delta[Target][v].val ELSE 0

ApplyUpdate(u) ==
  /\ delta' = [delta EXCEPT ![Target][u.addr] =
                 [val |-> u.val + Current(u.addr), tag |-> iteration]]
  /\ pr' = [pr EXCEPT ![u.addr] = u.val + @]
  /\ UNCHANGED iteration

Accept(u) ==
  /\ pending' = Append(pending, u)
  /\ UNCHANGED <<iteration, delta, pr>>

ApplyOldest ==
  /\ pending # <<>>
  /\ pending' = Tail(pending)
  /\ ApplyUpdate(Head(pending))

AcceptAndApply(u) ==
  /\ pending # <<>>
  /\ pending' = Append(Tail(pending), u)
  /\ ApplyUpdate(Head(pending))

Advance ==
  /\ pending = <<>>
  /\ iteration' = iteration + 1
  /\ UNCHANGED <<pending, delta, pr>>

StoreNext ==
  \/ \E u \in [addr : Vertex, val : Value] : Accept(u) \/ AcceptAndApply(u)
  \/ ApplyOldest
  \/ Advance

StoreSpec == StoreInit /\ [][StoreNext]_storeVars
=============================================================================
