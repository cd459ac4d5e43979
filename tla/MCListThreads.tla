--------------------------- MODULE MCListThreads ---------------------------
(* Two producers and two readers on a list of capacity 2 whose nodes come  *)
(* from a heap of three.                                                   *)
EXTENDS ListThreads
=============================================================================
