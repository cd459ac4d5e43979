----------------------------- MODULE MCGateway -----------------------------
(* The three threads with a list of capacity 2.  Two message texts and a   *)
(* buffer of two cells, of which a recv may fill one or both, are enough   *)
(* for a buffer that holds the head of one message and the tail of another *)
(* or of memory no message was written to.                                 *)
EXTENDS Gateway, TLC

GatewaySymmetry == Permutations(Nodes) \cup Permutations(Texts)
=============================================================================
