---------------------------- MODULE OrderedMemory ----------------------------
(***************************************************************************)
(* What stages 5 and 7 expect of the edge memory: the lines come in the    *)
(* order in which they were requested, each one once, after any time.      *)
(***************************************************************************)
EXTENDS Sequences

CONSTANTS Line, None

VARIABLES
  request,      \* the line requested in this tick, or None
  outstanding,  \* the lines requested and not delivered yet
  answer        \* the line delivered in this tick, or None

vars == <<request, outstanding, answer>>

Init == request = None /\ outstanding = <<>> /\ answer = None

Requested == IF request = None THEN outstanding ELSE Append(outstanding, request)

Next ==
  /\ request' \in Line \union {None}
  /\ \/ answer' = None /\ outstanding' = Requested
     \/ /\ outstanding # <<>>
        /\ answer' = Head(outstanding) /\ outstanding' = Tail(Requested)

Spec == Init /\ [][Next]_vars

=============================================================================
