----------------------------- MODULE MCVertexRam -----------------------------
(* Small instances of VertexRam for TLC, and the properties they check.    *)
EXTENDS VertexRam, TLC

CONSTANTS v1, v2
(* ADDED_CONST - ONE_OVER_N is negative.                                  *)
MCDelta2Init == -1

=============================================================================
