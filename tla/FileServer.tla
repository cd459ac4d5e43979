----------------------------- MODULE FileServer -----------------------------
(***************************************************************************)
(* The file server over System V message queues and its clients            *)
(* (10-message-queues/client-server).  A client makes a private queue and  *)
(* sends its identifier with a path name to the server's queue; the server *)
(* forks a child for each request, and the child sends the file to the     *)
(* client's queue in DATA messages, then END, or one FAILURE.              *)
(*                                                                         *)
(* A file is its number of blocks, or NoFile when it cannot be opened; a   *)
(* DATA message is the number of the block it carries.  A queue holds Room *)
(* DATA messages (MSGMNB bytes); END has no text and always fits.  The     *)
(* server's queue holds ReqRoom requests.  What may go wrong is in Faults: *)
(*   read        read fails in a child, which takes it for the end of file *)
(*   fork        fork, or msgrcv in the server, fails                      *)
(*   kill        a client is killed; its queue stays                       *)
(*   kill_child  a child is killed                                         *)
(*   kill_server the server is killed and started again; its queue stays   *)
(***************************************************************************)
EXTENDS Integers, Sequences

CONSTANTS Clients, MaxBlocks, Room, ReqRoom, Faults, NoQueue

ASSUME FileServerAssumption ==
  /\ MaxBlocks \in Nat
  /\ Room \in Nat \ {0}
  /\ ReqRoom \in Nat \ {0}
  /\ Faults \subseteq {"read", "fork", "kill", "kill_child", "kill_server"}

(* NoQueue is not a queue. *)
ASSUME NoQueueAssumption == NoQueue \notin Seq(Clients) /\ NoQueue \notin Seq(Int)

VARIABLES
  server,    \* "start", "receive", "fork", "remove" or "gone"
  requests,  \* the server's queue: the clients that ask; NoQueue without it
  req,       \* the request the server has received, <<>> for none
  client,    \* where each client is
  file,      \* the file each client asks for
  queue,     \* each client's queue, or NoQueue
  got,       \* the blocks each client has received
  child,     \* the child that serves each client
  pos,       \* the blocks it has read
  sigchld,   \* SIGCHLD is pending in the server
  cut        \* the clients whose child was killed

vars == <<server, requests, req, client, file, queue, got, child, pos, sigchld, cut>>

NoFile  == -1
FAILURE == -2      \* RESP_MQ_FAILURE
END     == -3      \* RESP_MQ_END; a DATA message is its block, 1 .. MaxBlocks

Init ==
  /\ server = "start"
  /\ requests = NoQueue
  /\ req = <<>>
  /\ client = [c \in Clients |-> "start"]
  /\ file \in [Clients -> {NoFile} \cup 0..MaxBlocks]
  /\ queue = [c \in Clients |-> NoQueue]
  /\ got = [c \in Clients |-> <<>>]
  /\ child = [c \in Clients |-> "none"]
  /\ pos = [c \in Clients |-> 0]
  /\ sigchld = FALSE
  /\ cut = {}

-----------------------------------------------------------------------------
(* The server *)

(* msgget with IPC_EXCL.  When the queue is there already serverId is -1:  *)
(* msgrcv fails, and so does the msgctl that would remove the queue.       *)
ServerStart ==
  /\ server = "start"
  /\ \/ /\ requests = NoQueue
        /\ requests' = <<>>
        /\ server' = "receive"
     \/ /\ requests # NoQueue
        /\ server' = "gone"
        /\ UNCHANGED requests
  /\ UNCHANGED <<req, client, file, queue, got, child, pos, sigchld, cut>>

(* msgrcv; interrupted by SIGCHLD it is called again. *)
ServerReceive ==
  /\ server = "receive"
  /\ requests # <<>>
  /\ req' = <<Head(requests)>>
  /\ requests' = Tail(requests)
  /\ server' = "fork"
  /\ UNCHANGED <<client, file, queue, got, child, pos, sigchld, cut>>

(* msgrcv fails for another reason. *)
ServerReceiveFails ==
  /\ "fork" \in Faults
  /\ server = "receive"
  /\ server' = "remove"
  /\ UNCHANGED <<requests, req, client, file, queue, got, child, pos, sigchld, cut>>

(* fork; the child has its own copy of req. *)
ServerFork ==
  /\ server = "fork"
  /\ req' = <<>>
  /\ \/ /\ child' = [child EXCEPT ![req[1]] = "open"]
        /\ server' = "receive"
     \/ /\ "fork" \in Faults
        /\ server' = "remove"
        /\ UNCHANGED child
  /\ UNCHANGED <<requests, client, file, queue, got, pos, sigchld, cut>>

ServerRemove ==
  /\ server = "remove"
  /\ server' = "gone"
  /\ requests' = NoQueue
  /\ child' = [c \in Clients |-> IF child[c] = "zombie" THEN "reaped" ELSE child[c]]
  /\ sigchld' = FALSE
  /\ UNCHANGED <<req, client, file, queue, got, pos, cut>>

(* Its children are then init's, which waits for them. *)
ServerKilled ==
  /\ "kill_server" \in Faults
  /\ server \in {"receive", "fork", "remove"}
  /\ server' = "start"
  /\ req' = <<>>
  /\ child' = [c \in Clients |-> IF child[c] = "zombie" THEN "reaped" ELSE child[c]]
  /\ sigchld' = FALSE
  /\ UNCHANGED <<requests, client, file, queue, got, pos, cut>>

(* Mutant of grimReaper: one wait for one signal. *)
grimReaper_once ==
  /\ sigchld
  /\ sigchld' = FALSE
  /\ \E c \in Clients :
       /\ child[c] = "zombie"
       /\ child' = [child EXCEPT ![c] = "reaped"]
  /\ UNCHANGED <<server, requests, req, client, file, queue, got, pos, cut>>

(* Signals that arrive together are one signal: the handler collects every *)
(* child that has ended.                                                   *)
grimReaper ==
  /\ sigchld
  /\ sigchld' = FALSE
  /\ child' = [c \in Clients |-> IF child[c] = "zombie" THEN "reaped" ELSE child[c]]
  /\ UNCHANGED <<server, requests, req, client, file, queue, got, pos, cut>>

-----------------------------------------------------------------------------
(* A child *)

(* The child of a server that is no more is waited for by init. *)
ChildEnds(c) ==
  LET orphan == server \in {"start", "gone"} IN
  /\ child' = [child EXCEPT ![c] = IF orphan THEN "reaped" ELSE "zombie"]
  /\ sigchld' = ~orphan

CanSend(c, m) ==
  \/ queue[c] = NoQueue                  \* msgsnd fails at once
  \/ m = END
  \/ Len(queue[c]) < Room

(* What msgsnd does to a client's queue. *)
Sent(c, m) ==
  IF queue[c] = NoQueue THEN queue ELSE [queue EXCEPT ![c] = Append(@, m)]

ChildOpen(c) ==
  /\ child[c] = "open"
  /\ \/ /\ file[c] # NoFile
        /\ child' = [child EXCEPT ![c] = "read"]
        /\ UNCHANGED <<queue, sigchld>>
     \/ /\ file[c] = NoFile
        /\ CanSend(c, FAILURE)
        /\ queue' = Sent(c, FAILURE)
        /\ ChildEnds(c)
  /\ UNCHANGED <<server, requests, req, client, file, got, pos, cut>>

ChildRead(c) ==
  /\ child[c] = "read"
  /\ \/ /\ pos[c] < file[c]
        /\ pos' = [pos EXCEPT ![c] = @ + 1]
        /\ child' = [child EXCEPT ![c] = "send"]
     \/ /\ pos[c] = file[c] \/ "read" \in Faults
        /\ child' = [child EXCEPT ![c] = "end"]
        /\ UNCHANGED pos
  /\ UNCHANGED <<server, requests, req, client, file, queue, got, sigchld, cut>>

(* Mutant of ChildSend: a full queue makes msgsnd fail (IPC_NOWAIT). *)
ChildSend_nowait(c) ==
  /\ child[c] = "send"
  /\ queue' = IF CanSend(c, pos[c]) THEN Sent(c, pos[c]) ELSE queue
  /\ child' = [child EXCEPT ![c] = "read"]
  /\ UNCHANGED <<server, requests, req, client, file, got, pos, sigchld, cut>>

(* msgsnd of a block, which waits for room. *)
ChildSend(c) ==
  /\ child[c] = "send"
  /\ CanSend(c, pos[c])
  /\ queue' = Sent(c, pos[c])
  /\ child' = [child EXCEPT ![c] = IF queue[c] = NoQueue THEN "end" ELSE "read"]
  /\ UNCHANGED <<server, requests, req, client, file, got, pos, sigchld, cut>>

(* Mutant of ChildSendEnd: an empty file is not ended. *)
ChildSendEnd_not_empty(c) ==
  /\ child[c] = "end"
  /\ queue' = IF pos[c] = 0 THEN queue ELSE Sent(c, END)
  /\ ChildEnds(c)
  /\ UNCHANGED <<server, requests, req, client, file, got, pos, cut>>

ChildSendEnd(c) ==
  /\ child[c] = "end"
  /\ queue' = Sent(c, END)
  /\ ChildEnds(c)
  /\ UNCHANGED <<server, requests, req, client, file, got, pos, cut>>

ChildKilled(c) ==
  /\ "kill_child" \in Faults
  /\ child[c] \in {"open", "read", "send", "end"}
  /\ ChildEnds(c)
  /\ cut' = cut \cup {c}
  /\ UNCHANGED <<server, requests, req, client, file, queue, got, pos>>

-----------------------------------------------------------------------------
(* A client *)

(* Without a server's queue the msgget and the msgsnd only log an error,   *)
(* and the client goes on to wait for an answer.                           *)
ClientSend(c) ==
  /\ client[c] = "start"
  /\ \/ /\ requests = NoQueue
        /\ UNCHANGED requests
     \/ /\ requests # NoQueue
        /\ Len(requests) < ReqRoom
        /\ requests' = Append(requests, c)
  /\ queue' = [queue EXCEPT ![c] = <<>>]
  /\ client' = [client EXCEPT ![c] = "first"]
  /\ UNCHANGED <<server, req, file, got, child, pos, sigchld, cut>>

(* exit, with removeQueue registered by atexit *)
Exit(c, how) ==
  /\ client' = [client EXCEPT ![c] = how]
  /\ queue' = [queue EXCEPT ![c] = NoQueue]

(* msgrcv of the first answer and, after DATA, of the next. *)
ClientReceive(c) ==
  /\ client[c] \in {"first", "more"}
  /\ queue[c] \notin {<<>>, NoQueue}
  /\ LET m == Head(queue[c]) IN
     \/ /\ m = FAILURE /\ client[c] = "first"
        /\ Exit(c, "refused")
        /\ UNCHANGED got
     \/ /\ m \notin {FAILURE, END}
        /\ got' = [got EXCEPT ![c] = Append(@, m)]
        /\ queue' = [queue EXCEPT ![c] = Tail(@)]
        /\ client' = [client EXCEPT ![c] = "more"]
     \/ /\ m = END
        /\ Exit(c, "complete")
        /\ UNCHANGED got
  /\ UNCHANGED <<server, requests, req, file, child, pos, sigchld, cut>>

ClientKilled(c) ==
  /\ "kill" \in Faults
  /\ client[c] \in {"first", "more"}
  /\ client' = [client EXCEPT ![c] = "killed"]
  /\ UNCHANGED <<server, requests, req, file, queue, got, child, pos, sigchld, cut>>


-----------------------------------------------------------------------------
Server == ServerStart \/ ServerReceive \/ ServerFork \/ ServerRemove

Child(c) == ChildOpen(c) \/ ChildRead(c) \/ ChildSend(c) \/ ChildSendEnd(c)

(* The clients that no longer act; a killed client's queue may keep a child *)
(* in msgsnd for ever.                                                      *)
Done(c) == client[c] \in {"complete", "refused", "killed"}

Next ==
  \/ Server
  \/ ServerReceiveFails \/ ServerKilled
  \/ grimReaper
  \/ \E c \in Clients :
       \/ Child(c) \/ ChildKilled(c)
       \/ ClientSend(c) \/ ClientReceive(c) \/ ClientKilled(c)

Spec == Init /\ [][Next]_vars

-----------------------------------------------------------------------------
(* The types, and the limits of the queues (MSGMNB). *)
TypeOK ==
  /\ server \in {"start", "receive", "fork", "remove", "gone"}
  /\ \/ requests = NoQueue
     \/ requests \in Seq(Clients) /\ Len(requests) <= ReqRoom
  /\ req \in {<<>>} \cup {<<c>> : c \in Clients}
  /\ client \in [Clients -> {"start", "first", "more", "complete", "refused", "killed"}]
  /\ file \in [Clients -> {NoFile} \cup 0..MaxBlocks]
  /\ \A c \in Clients :
       /\ \/ queue[c] = NoQueue
          \/ /\ queue[c] \in Seq({FAILURE, END} \cup 1..MaxBlocks)
             /\ \A i \in DOMAIN queue[c] : queue[c][i] = END \/ i <= Room
       /\ got[c] \in Seq(1..MaxBlocks)
  /\ child \in [Clients -> {"none", "open", "read", "send", "end", "zombie", "reaped"}]
  /\ pos \in [Clients -> 0..MaxBlocks]
  /\ sigchld \in BOOLEAN
  /\ cut \subseteq Clients

(* RESP_MQ_END tells the client that it has the file: what it received is   *)
(* every block of the file, each one once and in order, whatever the server *)
(* and the other clients went through.  And every variable has its type.    *)
EndMeansComplete ==
  /\ TypeOK
  /\ \A c \in Clients :
       client[c] = "complete" => got[c] = [i \in 1..file[c] |-> i]

(* grimReaper leaves no zombie: a child that ended while the handler ran,   *)
(* or together with another, is collected too.                              *)
ChildrenAreReaped ==
  \A c \in Clients : child[c] = "zombie" ~> child[c] = "reaped"

(* A client whose request is in the server's queue, behind others or with a *)
(* queue too small for the file, gets an answer that ends its wait, unless  *)
(* the server or the client's child is killed or fails.                     *)
ClientIsAnswered ==
  \A c \in Clients :
    (requests # NoQueue /\ \E i \in DOMAIN requests : requests[i] = c)
      ~> (Done(c) \/ c \in cut \/ server \notin {"receive", "fork"})
=============================================================================
