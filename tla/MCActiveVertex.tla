---------------------------- MODULE MCActiveVertex ----------------------------
(* A small instance of ActiveVertex: the last line has a bit of no vertex. *)
EXTENDS ActiveVertex

=============================================================================
