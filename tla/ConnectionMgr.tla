---------------------------- MODULE ConnectionMgr ----------------------------
(***************************************************************************)
(* connection_mgr's select loop (main-server.c:133-207) with os_net's      *)
(* accept and close.  A round copies master to read_fds, lets select cut   *)
(* it down to the descriptors that are readable, and walks the numbers up  *)
(* to fd_max: the listener accepts a client, any other one is received     *)
(* from (and its text pushed, which Gateway models) or closed.             *)
(*                                                                         *)
(* Descriptors are numbers and a new one is the lowest that is free in the *)
(* whole process: the other threads open and close files all the time      *)
(* (debug.log for every line), so a client can get a number below the      *)
(* listener's and a number soon changes its owner.  What a client has sent *)
(* and the server has not received is a number of bytes, at most MaxUnread *)
(* at a time; recv takes any part of it.                                   *)
(***************************************************************************)
EXTENDS Integers, FiniteSetsExt

CONSTANTS
  MaxFd,      \* the descriptors are 0..MaxFd
  MaxUnread,  \* bytes a client sends ahead
  MaxBacklog  \* clients that knock at the same time

ASSUME ConnectionMgrAssumption ==
  MaxFd \in Nat /\ MaxUnread \in Nat \ {0} /\ MaxBacklog \in Nat

Fds == 0..MaxFd

VARIABLES
  pc,        \* "bind", "select", "scan", or "exit" when the process has ended
  i,         \* the number the scan has come to
  listener,
  master,
  read_fds,
  fd_max,
  clients,   \* the descriptors of accepted sockets that are open
  unread,    \* bytes waiting in each client's socket
  closed,    \* the clients that have closed their end
  reset,     \* the clients whose connection is broken
  backlog,   \* clients waiting to be accepted
  others     \* descriptors the rest of the process has open

peerVars == <<unread, closed, reset, backlog>>
vars == <<pc, i, listener, master, read_fds, fd_max, clients, peerVars, others>>

NoFd == -1

Used == clients \cup others \cup ({listener} \ {NoFd})

Lowest == Min(Fds \ Used)

Init ==
  /\ pc = "bind"
  /\ i = 0
  /\ listener = NoFd
  /\ master = {}
  /\ read_fds = {}
  /\ fd_max = 0
  /\ clients = {}
  /\ unread = [f \in Fds |-> 0]
  /\ closed = {}
  /\ reset = {}
  /\ backlog = 0
  /\ others \in SUBSET Fds

-----------------------------------------------------------------------------
(* OS_BindPort: without a free descriptor, or a free port, exit(1). *)
Bind ==
  /\ pc = "bind"
  /\ \/ /\ Used # Fds
        /\ listener' = Lowest
        /\ master' = {Lowest}
        /\ fd_max' = Lowest
        /\ pc' = "select"
     \/ /\ pc' = "exit"
        /\ UNCHANGED <<listener, master, fd_max>>
  /\ UNCHANGED <<i, read_fds, clients, peerVars, others>>

Readable(f) ==
  \/ f = listener /\ backlog > 0
  \/ f \in clients /\ (unread[f] > 0 \/ f \in closed \cup reset)

(* Mutant of Select: every descriptor is taken for a readable one. *)
Select_all ==
  /\ pc = "select"
  /\ \E f \in master : Readable(f)
  /\ read_fds' = master
  /\ i' = 0
  /\ pc' = "scan"
  /\ UNCHANGED <<listener, master, fd_max, clients, peerVars, others>>

(* select returns when something is readable. *)
Select ==
  /\ pc = "select"
  /\ \E f \in master : Readable(f)
  /\ read_fds' = {f \in master : Readable(f)}
  /\ i' = 0
  /\ pc' = "scan"
  /\ UNCHANGED <<listener, master, fd_max, clients, peerVars, others>>

(* select returns -1 when a signal interrupts it (the log child has ended), *)
(* or a descriptor in master is not open: exit(1).                          *)
SelectFails ==
  /\ pc = "select"
  /\ pc' = "exit"
  /\ UNCHANGED <<i, listener, master, read_fds, fd_max, clients, peerVars, others>>

-----------------------------------------------------------------------------
(* The scan.  The first three are the bodies of the branches for number i. *)

(* Mutant of AcceptClient: fd_max is not raised. *)
AcceptClient_low_max ==
  /\ Used # Fds
  /\ backlog' = backlog - 1
  /\ clients' = clients \cup {Lowest}
  /\ unread' = [unread EXCEPT ![Lowest] = 0]
  /\ master' = master \cup {Lowest}
  /\ UNCHANGED <<fd_max, closed, reset>>

(* OS_AcceptTCP on the listener. *)
AcceptClient ==
  /\ Used # Fds
  /\ backlog' = backlog - 1
  /\ clients' = clients \cup {Lowest}
  /\ unread' = [unread EXCEPT ![Lowest] = 0]
  /\ master' = master \cup {Lowest}
  /\ fd_max' = IF Lowest > fd_max THEN Lowest ELSE fd_max
  /\ UNCHANGED <<closed, reset>>

(* No descriptor is free: accept fails, and the client goes on knocking. *)
AcceptFails ==
  /\ Used = Fds
  /\ UNCHANGED <<clients, master, fd_max, peerVars>>

(* Mutant of Receive: a whole message is expected every time. *)
Receive_whole ==
  /\ unread[i] > 0
  /\ i \notin reset
  /\ unread' = [unread EXCEPT ![i] = @ - MaxUnread]
  /\ UNCHANGED <<clients, master, fd_max, closed, reset, backlog>>

(* recv returns some of the bytes, which are pushed to the managers. *)
Receive ==
  /\ unread[i] > 0
  /\ i \notin reset
  /\ \E n \in 1..unread[i] : unread' = [unread EXCEPT ![i] = @ - n]
  /\ UNCHANGED <<clients, master, fd_max, closed, reset, backlog>>

(* Mutant of HangUp: no FD_CLR. *)
HangUp_keeps_bit ==
  /\ i \in reset \/ (i \in closed /\ unread[i] = 0)
  /\ clients' = clients \ {i}
  /\ unread' = [unread EXCEPT ![i] = 0]
  /\ closed' = closed \ {i}
  /\ reset' = reset \ {i}
  /\ UNCHANGED <<master, fd_max, backlog>>

(* recv returns 0 or -1: bytes = recv(...) <= 0 makes bytes 1 for both, and  *)
(* both are taken for errors.                                                *)
HangUp ==
  /\ i \in reset \/ (i \in closed /\ unread[i] = 0)
  /\ clients' = clients \ {i}
  /\ unread' = [unread EXCEPT ![i] = 0]
  /\ closed' = closed \ {i}
  /\ reset' = reset \ {i}
  /\ master' = master \ {i}
  /\ UNCHANGED <<fd_max, backlog>>

(* One turn of the loop over the numbers up to fd_max. *)
Scan ==
  /\ pc = "scan"
  /\ i <= fd_max
  /\ i' = i + 1
  /\ \/ /\ i \notin read_fds
        /\ UNCHANGED <<clients, master, fd_max, peerVars>>
     \/ /\ i \in read_fds /\ i = listener
        /\ AcceptClient \/ AcceptFails
     \/ /\ i \in read_fds /\ i # listener
        /\ Receive \/ HangUp
  /\ UNCHANGED <<pc, listener, read_fds, others>>

ScanEnds ==
  /\ pc = "scan"
  /\ i > fd_max
  /\ pc' = "select"
  /\ UNCHANGED <<i, listener, master, read_fds, fd_max, clients, peerVars, others>>

-----------------------------------------------------------------------------
(* The clients, and the other threads of the process. *)
Client ==
  /\ \/ /\ listener # NoFd /\ backlog < MaxBacklog
        /\ backlog' = backlog + 1
        /\ UNCHANGED <<unread, closed, reset>>
     \/ \E f \in clients \ (closed \cup reset) :
          \/ /\ unread[f] < MaxUnread
             /\ unread' = [unread EXCEPT ![f] = @ + 1]
             /\ UNCHANGED <<closed, reset, backlog>>
          \/ /\ closed' = closed \cup {f}
             /\ UNCHANGED <<unread, reset, backlog>>
          \/ /\ reset' = reset \cup {f}
             /\ UNCHANGED <<unread, closed, backlog>>
  /\ pc # "exit"
  /\ UNCHANGED <<pc, i, listener, master, read_fds, fd_max, clients, others>>

OtherThreads ==
  /\ pc # "exit"
  /\ \/ Used # Fds /\ others' = others \cup {Lowest}
     \/ \E f \in others : others' = others \ {f}
  /\ UNCHANGED <<pc, i, listener, master, read_fds, fd_max, clients, peerVars>>

connection_mgr == Bind \/ Select \/ Scan \/ ScanEnds

Next == connection_mgr \/ SelectFails \/ Client \/ OtherThreads

Spec == Init /\ [][Next]_vars

(* The thread keeps running. *)
FairSpec == Spec /\ WF_vars(connection_mgr)

-----------------------------------------------------------------------------
TypeOK ==
  /\ pc \in {"bind", "select", "scan", "exit"}
  /\ i \in 0..(MaxFd + 1)
  /\ listener \in Fds \cup {NoFd}
  /\ master \in SUBSET Fds
  /\ read_fds \in SUBSET Fds
  /\ fd_max \in Fds
  /\ clients \in SUBSET Fds
  /\ unread \in [Fds -> 0..MaxUnread]
  /\ closed \in SUBSET Fds
  /\ reset \in SUBSET Fds
  /\ backlog \in 0..MaxBacklog
  /\ others \in SUBSET Fds

(* master is exactly the thread's own open sockets: a number that was      *)
(* closed and has become another thread's file is not selected on, and no  *)
(* accepted socket is forgotten and left open (main-server.c:176, 193-194). *)
MasterIsMine ==
  listener # NoFd =>
    /\ master = clients \cup {listener}
    /\ master \cap others = {}
    /\ \A f \in master : f <= fd_max

(* accept and recv are only called on descriptors that are still readable  *)
(* when the scan comes to them, though numbers are closed and given away   *)
(* during the scan: the thread blocks nowhere but in select.               *)
ScansReady == pc = "scan" /\ i \in read_fds => i \in master /\ Readable(i)
NeverBlocks == TypeOK /\ ScansReady

(* Whatever the other clients send, a client whose bytes wait is received  *)
(* from in the end, unless the process exits.                              *)
EveryoneIsHeard ==
  \A f \in Fds :
    (f \in clients /\ unread[f] > 0)
      ~> (pc = "exit" \/ (pc = "scan" /\ i = f /\ f \in read_fds))
=============================================================================
