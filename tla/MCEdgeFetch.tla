----------------------------- MODULE MCEdgeFetch -----------------------------
(* Small instances of EdgeFetch for TLC, with lines of two edges.          *)
EXTENDS EdgeFetch, TLC

(* Vertex 1 begins in the middle of a line and ends in the next; vertex 2  *)
(* has no edges; vertex 3 shares a line with vertex 1.                     *)
MCDegree == 0 :> 1 @@ 1 :> 2 @@ 2 :> 0 @@ 3 :> 1

(* The same without vertex 3.                                              *)
MCThreeVertices == 0 :> 1 @@ 1 :> 2 @@ 2 :> 0


=============================================================================
