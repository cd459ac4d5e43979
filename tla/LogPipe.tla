------------------------------ MODULE LogPipe ------------------------------
(***************************************************************************)
(* The two processes of the sensor gateway (main-server.c:61-130).  main   *)
(* makes a pipe and forks; the child copies what it reads from the pipe to *)
(* gateway.log until it meets the end of the pipe, the parent goes on to   *)
(* run the threads, of which data_mgr writes the lines (write_to_pipe).    *)
(* Each process closes the end of the pipe it does not use.                *)
(*                                                                         *)
(* A line is always written and read as OS_MSG_SIZE bytes at once, less    *)
(* than PIPE_BUF, so the pipe carries whole lines.  Lines are numbered in  *)
(* the order data_mgr writes them; MaxLines bounds how many there are and  *)
(* Room how many the pipe holds.  The parent may end at any time: its      *)
(* threads call exit(1) when select or bind fails, and it may be killed.   *)
(* The child may be killed.                                                *)
(*                                                                         *)
(* write to the log file may fail or take only a part of the line.  The    *)
(* loop takes the result for a size_t, so that -1 is a large number: it    *)
(* notices neither and goes on with the next line.                         *)
(***************************************************************************)
EXTENDS Integers, Sequences

CONSTANTS MaxLines, Room

ASSUME LogPipeAssumption == MaxLines \in Nat /\ Room \in Nat \ {0}

VARIABLES
  parent,      \* the parent's place in main, or "dead"
  child,       \* the child's place in main
  ends,        \* the open ends of the pipe, as <<process, end>>
  handler,     \* prevent_zombie is installed for SIGCHLD
  pending,     \* SIGCHLD is pending in the parent
  pipe,        \* the lines in the pipe
  written,     \* how many lines data_mgr has put into the pipe
  recv_buf,    \* the line the child holds, as a sequence of at most one
  log_open,    \* the child's open(GATEWAY_LOG) succeeded
  gateway_log, \* the lines appended to the file, whole or cut
  failed,      \* the lines whose write to the file failed or was short
  killed       \* the child did not reach its _exit(0)

vars == <<parent, child, ends, handler, pending, pipe, written, recv_buf,
          log_open, gateway_log, failed, killed>>

Init ==
  /\ parent = "pipe"
  /\ child = "none"
  /\ ends = {<<"parent", "read">>, <<"parent", "write">>}
  /\ handler = FALSE
  /\ pending = FALSE
  /\ pipe = <<>>
  /\ written = 0
  /\ recv_buf = <<>>
  /\ log_open = FALSE
  /\ gateway_log = <<>>
  /\ failed = {}
  /\ killed = FALSE

Readable == \E p \in {"parent", "child"} : <<p, "read">> \in ends
Writable == \E p \in {"parent", "child"} : <<p, "write">> \in ends

(* The kernel's part in the end of a process: its descriptors are closed,  *)
(* and a zombie left behind by the parent is collected by init.            *)
Without(p) == {e \in ends : e[1] # p}

ParentGone ==
  /\ parent' = "dead"
  /\ ends' = Without("parent")
  /\ pending' = FALSE
  /\ child' = IF child = "zombie" THEN "reaped" ELSE child

-----------------------------------------------------------------------------
(* The parent *)

Fork ==
  /\ parent = "pipe"
  /\ parent' = "close"
  /\ child' = "close"
  /\ ends' = ends \cup {<<"child", "read">>, <<"child", "write">>}
  /\ UNCHANGED <<handler, pending, pipe, written, recv_buf, log_open, gateway_log,
                 failed, killed>>

(* Mutant of ParentCloses: the parent keeps its read end. *)
ParentCloses_not ==
  /\ parent = "close"
  /\ parent' = "signal"
  /\ UNCHANGED <<child, ends, handler, pending, pipe, written, recv_buf, log_open,
                 gateway_log, failed, killed>>

ParentCloses ==
  /\ parent = "close"
  /\ parent' = "signal"
  /\ ends' = ends \ {<<"parent", "read">>}
  /\ UNCHANGED <<child, handler, pending, pipe, written, recv_buf, log_open,
                 gateway_log, failed, killed>>

InstallHandler ==
  /\ parent = "signal"
  /\ parent' = "running"
  /\ handler' = TRUE
  /\ UNCHANGED <<child, ends, pending, pipe, written, recv_buf, log_open,
                 gateway_log, failed, killed>>

(* data_mgr calls write_to_pipe. *)
CallWrite ==
  /\ parent = "running"
  /\ written < MaxLines
  /\ parent' = "write"
  /\ UNCHANGED <<child, ends, handler, pending, pipe, written, recv_buf,
                 log_open, gateway_log, failed, killed>>

(* write blocks while the pipe is full, and the process dies of SIGPIPE    *)
(* when nobody has the pipe open for reading.                              *)
Write ==
  /\ parent = "write"
  /\ \/ /\ Readable
        /\ Len(pipe) < Room
        /\ pipe' = Append(pipe, written + 1)
        /\ written' = written + 1
        /\ parent' = "running"
        /\ UNCHANGED <<child, ends, pending>>
     \/ /\ ~Readable
        /\ ParentGone
        /\ UNCHANGED <<pipe, written>>
  /\ UNCHANGED <<handler, recv_buf, log_open, gateway_log, failed, killed>>

(* Mutant of HandleSigchld: the handler does not wait. *)
HandleSigchld_no_wait ==
  /\ parent \in {"running", "write"}
  /\ pending
  /\ pending' = FALSE
  /\ UNCHANGED <<parent, child, ends, handler, pipe, written, recv_buf, log_open,
                 gateway_log, failed, killed>>

(* prevent_zombie runs: wait(NULL) collects the child. *)
HandleSigchld ==
  /\ parent \in {"running", "write"}
  /\ pending
  /\ pending' = FALSE
  /\ child' = "reaped"
  /\ UNCHANGED <<parent, ends, handler, pipe, written, recv_buf, log_open,
                 gateway_log, failed, killed>>

(* merror_exit of main or of connection_mgr, or a signal that kills the     *)
(* process.                                                                *)
ParentEnds ==
  /\ parent \in {"pipe", "close", "signal", "running", "write"}
  /\ ParentGone
  /\ UNCHANGED <<handler, pipe, written, recv_buf, log_open, gateway_log, failed, killed>>

-----------------------------------------------------------------------------
(* The child *)

(* Mutant of ChildCloses: the child keeps its write end. *)
ChildCloses_not ==
  /\ child = "close"
  /\ child' = "open"
  /\ UNCHANGED <<parent, ends, handler, pending, pipe, written, recv_buf, log_open,
                 gateway_log, failed, killed>>

ChildCloses ==
  /\ child = "close"
  /\ child' = "open"
  /\ ends' = ends \ {<<"child", "write">>}
  /\ UNCHANGED <<parent, handler, pending, pipe, written, recv_buf, log_open,
                 gateway_log, failed, killed>>

(* open(GATEWAY_LOG); the test of the result, if(!fd), does not catch -1,  *)
(* nor does the failing lseek end the child.                               *)
OpenLog ==
  /\ child = "open"
  /\ child' = "read"
  /\ log_open' \in BOOLEAN
  /\ UNCHANGED <<parent, ends, handler, pending, pipe, written, recv_buf,
                 gateway_log, failed, killed>>

Read ==
  /\ child = "read"
  /\ \/ /\ pipe # <<>>
        /\ recv_buf' = <<Head(pipe)>>
        /\ pipe' = Tail(pipe)
        /\ child' = "log"
     \/ /\ pipe = <<>>
        /\ ~Writable
        /\ child' = "eof"
        /\ UNCHANGED <<recv_buf, pipe>>
  /\ UNCHANGED <<parent, ends, handler, pending, written, log_open, gateway_log,
                 failed, killed>>

(* Mutant of Log: every line is written at the start of the file. *)
Log_at_start ==
  /\ child = "log"
  /\ child' = "read"
  /\ recv_buf' = <<>>
  /\ IF log_open THEN gateway_log' = recv_buf /\ UNCHANGED failed
     ELSE UNCHANGED gateway_log /\ failed' = failed \cup {recv_buf[1]}
  /\ UNCHANGED <<parent, ends, handler, pending, pipe, written, log_open, killed>>

(* write(fd, ...) and fsync, whatever became of the write: it fails for a  *)
(* descriptor that is not open, and may fail or be short for one that is.  *)
Log ==
  /\ child = "log"
  /\ child' = "read"
  /\ recv_buf' = <<>>
  /\ \/ /\ log_open
        /\ gateway_log' = gateway_log \o recv_buf
        /\ \/ UNCHANGED failed
           \/ failed' = failed \cup {recv_buf[1]}
     \/ /\ UNCHANGED gateway_log
        /\ failed' = failed \cup {recv_buf[1]}
  /\ UNCHANGED <<parent, ends, handler, pending, pipe, written, log_open, killed>>

(* The child has ended: SIGCHLD, which a parent without a handler ignores, *)
(* so that the child stays a zombie for as long as the parent lives.       *)
ChildEnds ==
  /\ ends' = Without("child")
  /\ child' = IF parent = "dead" THEN "reaped" ELSE "zombie"
  /\ pending' = (handler /\ parent # "dead")
  /\ UNCHANGED <<parent, handler, pipe, written, recv_buf, log_open, gateway_log, failed>>

(* after read returned 0: close both descriptors, _exit(0) *)
ChildExits ==
  /\ child = "eof"
  /\ ChildEnds
  /\ UNCHANGED killed

ChildKilled ==
  /\ child \in {"close", "open", "read", "log", "eof"}
  /\ ChildEnds
  /\ killed' = TRUE

-----------------------------------------------------------------------------
(* main before its threads run, and the calls of a thread once made. *)
ParentStep == Fork \/ ParentCloses \/ InstallHandler \/ Write

ChildStep == ChildCloses \/ OpenLog \/ Read \/ Log \/ ChildExits

Next ==
  \/ ParentStep \/ CallWrite \/ HandleSigchld \/ ParentEnds
  \/ ChildStep \/ ChildKilled

Spec == Init /\ [][Next]_vars

(* Each process keeps running, and a signal is delivered in the end. *)
Fairness == WF_vars(ParentStep) /\ WF_vars(ChildStep) /\ WF_vars(HandleSigchld)

FairSpec == Spec /\ Fairness

-----------------------------------------------------------------------------
ChildAlive == child \in {"close", "open", "read", "log", "eof"}

TypeOK ==
  /\ parent \in {"pipe", "close", "signal", "running", "write", "dead"}
  /\ child \in {"none", "close", "open", "read", "log", "eof", "zombie", "reaped"}
  /\ ends \subseteq {"parent", "child"} \X {"read", "write"}
  /\ handler \in BOOLEAN
  /\ pending \in BOOLEAN
  /\ pipe \in Seq(1..MaxLines)
  /\ Len(pipe) <= Room
  /\ written \in 0..MaxLines
  /\ recv_buf \in Seq(1..MaxLines)
  /\ Len(recv_buf) <= 1
  /\ log_open \in BOOLEAN
  /\ gateway_log \in Seq(1..MaxLines)
  /\ failed \subseteq 1..written
  /\ killed \in BOOLEAN

(* The log and what is on its way there: no line twice, none out of order, *)
(* none that was not written, and of the written ones only those missing   *)
(* or cut whose own write to the file failed or was short.                 *)
IsWhole(lines) ==
  /\ \A i \in 1..written \ failed : \E k \in DOMAIN lines : lines[k] = i
  /\ \A k \in DOMAIN lines : lines[k] \in 1..written
  /\ \A j, k \in DOMAIN lines : j < k => lines[j] < lines[k]

(* While the child lives, every line data_mgr wrote is in the log, in the  *)
(* child's buffer or in the pipe, in order and once, a failed write apart: *)
(* no line is lost with another one's.                                     *)
NoLineIsLost == ChildAlive => IsWhole(gateway_log \o recv_buf \o pipe)

(* A child that ends by itself has logged everything but what its own      *)
(* writes failed to: the end of the pipe is only seen when the parent is   *)
(* gone and the pipe is drained.                                           *)
LogCompleteAtExit ==
  child \in {"eof", "zombie", "reaped"} /\ ~killed =>
    IsWhole(gateway_log) /\ parent = "dead"

(* Both of these, and every variable has its type.                         *)
LogIsWhole == TypeOK /\ NoLineIsLost /\ LogCompleteAtExit

(* When the parent ends, however it does, the child meets the end of the   *)
(* pipe and ends too (main-server.c:72 closes the child's write end).      *)
ChildFollows ==
  (parent = "dead") ~> ~ChildAlive

(* data_mgr is not stuck in write_to_pipe: the child makes room, or the    *)
(* process is told by SIGPIPE that there is no child.                      *)
WriteReturns ==
  (parent = "write") ~> (parent # "write")

(* The parent collects a child that ended after prevent_zombie was         *)
(* installed (main-server.c:111).                                          *)
ChildIsReaped ==
  (pending /\ child = "zombie") ~> (child = "reaped" \/ parent = "dead")
=============================================================================
