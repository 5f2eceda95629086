---------------------------- MODULE MCHbmInterface ----------------------------
(* Small instances of HbmInterface; lines 15 and 16 lie in different pages. *)
EXTENDS HbmInterface

=============================================================================
