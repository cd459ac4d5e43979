----------------------------- MODULE MCLogPipe -----------------------------
(* Four lines through a pipe that holds two. *)
EXTENDS LogPipe
=============================================================================
