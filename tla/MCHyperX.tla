------------------------------ MODULE MCHyperX ------------------------------
(* Small instances of HyperX for TLC.                                      *)
EXTENDS HyperX, TLC

(* Three corners of a two by two grid, and the nodes of its first column.  *)
MCCorner == {<<0, 0>>, <<1, 0>>, <<0, 1>>}
MCColumn == {<<0, 0>>, <<1, 0>>}

=============================================================================
