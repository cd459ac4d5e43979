--------------------------- MODULE MCConnectionMgr ---------------------------
(* Four descriptors: room for the listener, two clients and a file, which    *)
(* they may come to have in any order, and for a process that runs out.      *)
EXTENDS ConnectionMgr
=============================================================================
