----------------------------- MODULE RelatedPipe -----------------------------
(***************************************************************************)
(* 07-pipes-FIFOs/related_pipe: the parent writes three messages to its    *)
(* child through a pipe, closes its end and loops.  The close of the       *)
(* child's write end is commented out, so that the child waits for the end *)
(* of the pipe for ever (against the comment "reader will see end-of-      *)
(* pipe"), until it is killed; SIGCHLD is then for the parent's func.      *)
(***************************************************************************)
EXTENDS Integers, Sequences

CONSTANT MESSAGES   \* 3

VARIABLES
  pipe,       \* the messages in the pipe
  ends,       \* the open ends: whose, and which
  parent,     \* "signal", "close", "write", "close write", "loop" or "killed"
  written,
  child,      \* "read", "zombie" or "reaped"
  printed,    \* the messages the child has printed
  handles,    \* func is installed for SIGCHLD
  signalled   \* SIGCHLD is pending

relatedPipeVars == <<pipe, ends, parent, written, child, printed, handles, signalled>>

(* After the fork, which gives the child both ends, too. *)
Init ==
  /\ pipe = <<>>
  /\ ends = {"parent", "child"} \X {"read", "write"}
  /\ parent = "signal"
  /\ written = 0
  /\ child = "read"
  /\ printed = <<>>
  /\ handles = FALSE
  /\ signalled = FALSE

Readers == {e \in ends : e[2] = "read"}

-----------------------------------------------------------------------------
InstallHandler ==
  /\ parent = "signal"
  /\ handles' = TRUE
  /\ parent' = "close"
  /\ UNCHANGED <<pipe, ends, written, child, printed, signalled>>

CloseRead ==
  /\ parent = "close"
  /\ ends' = ends \ {<<"parent", "read">>}
  /\ parent' = "write"
  /\ UNCHANGED <<pipe, written, child, printed, handles, signalled>>

(* Without a reader SIGPIPE kills the parent; without its write end write  *)
(* fails and the parent goes on.                                           *)
Write ==
  /\ parent = "write"
  /\ written < MESSAGES
  /\ \/ /\ Readers = {}
        /\ parent' = "killed"
        /\ ends' = {e \in ends : e[1] # "parent"}
        /\ child' = IF child = "zombie" THEN "reaped" ELSE child
        /\ UNCHANGED <<pipe, written>>
     \/ /\ Readers # {}
        /\ written' = written + 1
        /\ pipe' = IF <<"parent", "write">> \in ends THEN Append(pipe, written') ELSE pipe
        /\ UNCHANGED <<parent, ends, child>>
  /\ UNCHANGED <<printed, handles, signalled>>

CloseWrite ==
  /\ parent = "write"
  /\ written = MESSAGES
  /\ ends' = ends \ {<<"parent", "write">>}
  /\ parent' = "loop"
  /\ UNCHANGED <<pipe, written, child, printed, handles, signalled>>

func ==
  /\ signalled
  /\ parent # "killed"
  /\ signalled' = FALSE
  /\ child' = "reaped"
  /\ UNCHANGED <<pipe, ends, parent, written, printed, handles>>

-----------------------------------------------------------------------------
Read ==
  /\ child = "read"
  /\ pipe # <<>>
  /\ printed' = Append(printed, Head(pipe))
  /\ pipe' = Tail(pipe)
  /\ UNCHANGED <<ends, parent, written, child, handles, signalled>>

(* The child has a write end itself, so that read never returns 0 and the   *)
(* loop has no other end.  Init waits for it when the parent was killed.    *)
ChildKilled ==
  /\ child = "read"
  /\ ends' = {e \in ends : e[1] # "child"}
  /\ child' = IF parent = "killed" THEN "reaped" ELSE "zombie"
  /\ signalled' = (handles /\ parent # "killed")
  /\ UNCHANGED <<pipe, parent, written, printed, handles>>

Parent == InstallHandler \/ CloseRead \/ Write \/ CloseWrite
Next   == Parent \/ func \/ Read \/ ChildKilled

-----------------------------------------------------------------------------
(* The child prints every message, in the order they were written, unless   *)
(* it is killed: the parent's early end of writing takes none back.         *)
AllArePrinted ==
  (child = "read" /\ printed = <<>>)
    ~> (child # "read" \/ printed = [i \in 1..MESSAGES |-> i])

(* A child that is killed once func is installed is waited for, even while  *)
(* the parent writes; one killed before stays a zombie.                     *)
ChildIsCollected == (child = "zombie" /\ signalled) ~> child = "reaped"
=============================================================================
