--------------------------- MODULE MCRtlActiveVertex ---------------------------
(* Instances of RtlActiveVertex for TLC.                                   *)
EXTENDS RtlActiveVertex

=============================================================================
