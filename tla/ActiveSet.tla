------------------------------ MODULE ActiveSet ------------------------------
(***************************************************************************)
(* What stage 1 promises to the rest of the machine: every core sends its  *)
(* active vertices, each one once and the lowest first, while the vertices *)
(* marked meanwhile are collected; when nothing is left to send, those     *)
(* marked become, for all cores at once, the active vertices of the next   *)
(* iteration, and no mark is left.                                         *)
(***************************************************************************)
EXTENDS Integers

CONSTANTS CORE_NUM, VTX_NUM, None

Core   == 0 .. CORE_NUM - 1
Vertex == 0 .. VTX_NUM - 1
VerticesOf(c) == {v \in Vertex : v % CORE_NUM = c}

VARIABLES
  toSend,  \* for every core, the active vertices not sent yet
  marked,  \* for every core, the active vertices of the next iteration
  p1V      \* for every core, the vertex sent in this tick, or None

vars == <<toSend, marked, p1V>>

Init ==
  /\ toSend = [c \in Core |-> VerticesOf(c)]
  /\ marked = [c \in Core |-> VerticesOf(c)]
  /\ p1V = [c \in Core |-> None]

Lowest(v, S) == v \in S /\ \A w \in S : v <= w

Send(c) ==
  LET before == toSend[c]  after == toSend'[c]  sent == p1V'[c]
  IN \/ sent = None /\ after = before
     \/ Lowest(sent, before) /\ after = before \ {sent}

(* At most one vertex of a core is marked, or unmarked, in a tick.         *)
Mark(c) ==
  LET before == marked[c]  after == marked'[c]
  IN \/ after = before
     \/ \E v \in VerticesOf(c) : after \in {before \union {v}, before \ {v}}

Tick == \A c \in Core : Send(c) /\ Mark(c)

NextIteration ==
  \A c \in Core :
    /\ toSend[c] = {} /\ p1V'[c] = None
    /\ toSend'[c] = marked[c] /\ marked'[c] = {}

Next ==
  /\ toSend' \in [Core -> SUBSET Vertex] /\ marked' \in [Core -> SUBSET Vertex]
  /\ p1V' \in [Core -> Vertex \union {None}]
  /\ Tick \/ NextIteration

Spec == Init /\ [][Next]_vars

=============================================================================
