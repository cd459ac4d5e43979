----------------------------- MODULE SocketChat -----------------------------
(***************************************************************************)
(* The chat over a TCP stream (BTVN/06-socket/ipv4-stream): a client       *)
(* writes a message and reads an answer, the server reads a message and    *)
(* writes an answer, until one of them says exit; then the server accepts  *)
(* the next client.  The client is taken to be given the port the server   *)
(* has bound, which is not the number the server was given but that number *)
(* with its bytes swapped (stream_server.c:94).                            *)
(*                                                                         *)
(* A message is always BUFF_SIZE bytes, here Pieces pieces of which only   *)
(* the first holds what was said; a read returns from one piece to         *)
(* BUFF_SIZE bytes, whatever has come, and looks for exit at its start.    *)
(* The users type at most MaxTyped messages before a client says exit.  *)
(* A client may be killed.                                                 *)
(***************************************************************************)
EXTENDS Integers, Sequences

CONSTANTS Clients, Pieces, MaxTyped

VARIABLES
  chatServer,  \* where chat_func and the loop around it are
  chatClient,  \* where each client is
  connection,  \* the server's end of each client's connection
  toServer,    \* the pieces a client has written and the server not read
  toClient,    \* the pieces the server has written and the client not read
  reset,       \* the connections that were reset
  said,        \* how many messages a client has typed
  rough        \* a client was killed, or a read returned part of a message

chatVars == <<chatServer, chatClient, connection, toServer, toClient, reset, said, rough>>

Init ==
  /\ chatServer = "accept"
  /\ chatClient = [c \in Clients |-> "start"]
  /\ connection = [c \in Clients |-> "none"]
  /\ toServer = [c \in Clients |-> <<>>]
  /\ toClient = [c \in Clients |-> <<>>]
  /\ reset = {}
  /\ said = [c \in Clients |-> 0]
  /\ rough = FALSE

Words == {"exit", "text"}

Message(word) == [i \in 1..Pieces |-> IF i = 1 THEN word ELSE "rest"]

(* What one read call may return of the pieces that have come. *)
Reads(stream) == {n \in 1..Pieces : n <= Len(stream)}
After(stream, n) == SubSeq(stream, n + 1, Len(stream))

-----------------------------------------------------------------------------
(* The kernel's close of an end: what was not read there resets the        *)
(* connection.                                                             *)
ClientCloses(c, unread) ==
  /\ chatClient' = [chatClient EXCEPT ![c] = "done"]
  /\ toClient' = [toClient EXCEPT ![c] = <<>>]
  /\ reset' = IF unread = <<>> THEN reset ELSE reset \cup {c}

ServerCloses(c, unread) ==
  /\ connection' = [connection EXCEPT ![c] = "closed"]
  /\ toServer' = [toServer EXCEPT ![c] = <<>>]
  /\ reset' = IF unread = <<>> THEN reset ELSE reset \cup {c}
  /\ chatServer' = "accept"

(* exit or SIGPIPE: every connection of the server goes, those it has not  *)
(* accepted by a reset.                                                    *)
ServerDies ==
  /\ chatServer' = "dead"
  /\ reset' = reset \cup {c \in Clients : \/ connection[c] = "backlog"
                                          \/ connection[c] = "open" /\ toServer[c] # <<>>}
  /\ connection' = [c \in Clients |-> IF connection[c] = "none" THEN "none" ELSE "closed"]
  /\ toServer' = [c \in Clients |-> <<>>]
  /\ UNCHANGED <<chatClient, toClient, said, rough>>

-----------------------------------------------------------------------------
(* connect; the kernel completes it before the server accepts. *)
Connect(c) ==
  /\ chatClient[c] = "start"
  /\ \/ /\ chatServer = "dead"
        /\ chatClient' = [chatClient EXCEPT ![c] = "done"]
        /\ UNCHANGED connection
     \/ /\ chatServer # "dead"
        /\ chatClient' = [chatClient EXCEPT ![c] = "enter"]
        /\ connection' = [connection EXCEPT ![c] = "backlog"]
  /\ UNCHANGED <<chatServer, toServer, toClient, reset, said, rough>>

(* The client's fgets and write; after exit it closes.  A write to an end  *)
(* that is closed brings a reset, and a write after a reset fails.         *)
ClientWrites(c) ==
  /\ chatClient[c] = "enter"
  /\ c \notin reset
  /\ \E word \in Words :
       /\ word = "text" => said[c] < MaxTyped
       /\ toServer' = IF connection[c] = "closed" THEN toServer
                      ELSE [toServer EXCEPT ![c] = @ \o Message(word)]
       /\ \/ /\ word = "text"
             /\ said' = [said EXCEPT ![c] = @ + 1]
             /\ chatClient' = [chatClient EXCEPT ![c] = "read"]
             /\ reset' = IF connection[c] = "closed" THEN reset \cup {c} ELSE reset
             /\ UNCHANGED toClient
          \/ /\ word = "exit"
             /\ ClientCloses(c, toClient[c])
             /\ UNCHANGED said
  /\ UNCHANGED <<chatServer, connection, rough>>

ClientWriteFails(c) ==
  /\ chatClient[c] = "enter"
  /\ c \in reset
  /\ ClientCloses(c, <<>>)
  /\ UNCHANGED <<chatServer, connection, toServer, said, rough>>

(* The client's read: data first, then an error of the connection, then    *)
(* its end, which read reports by 0 and the client takes for a message.    *)
ClientReads(c) ==
  /\ chatClient[c] = "read"
  /\ \/ \E n \in Reads(toClient[c]) :
          /\ rough' = (rough \/ n < Pieces)
          /\ \/ /\ Head(toClient[c]) # "exit"
                /\ chatClient' = [chatClient EXCEPT ![c] = "enter"]
                /\ toClient' = [toClient EXCEPT ![c] = After(@, n)]
                /\ UNCHANGED reset
             \/ /\ Head(toClient[c]) = "exit"
                /\ ClientCloses(c, After(toClient[c], n))
     \/ /\ toClient[c] = <<>> /\ c \in reset
        /\ ClientCloses(c, <<>>)
        /\ UNCHANGED rough
     \/ /\ toClient[c] = <<>> /\ c \notin reset /\ connection[c] = "closed"
        /\ chatClient' = [chatClient EXCEPT ![c] = "enter"]
        /\ UNCHANGED <<toClient, reset, rough>>
  /\ UNCHANGED <<chatServer, connection, toServer, said>>

ClientKilled(c) ==
  /\ chatClient[c] \in {"enter", "read"}
  /\ ClientCloses(c, toClient[c])
  /\ rough' = TRUE
  /\ UNCHANGED <<chatServer, connection, toServer, said>>

-----------------------------------------------------------------------------
(* accept; which of the waiting connections is the oldest is left open. *)
Accept ==
  /\ chatServer = "accept"
  /\ \E c \in Clients :
       /\ connection[c] = "backlog"
       /\ connection' = [connection EXCEPT ![c] = "open"]
  /\ chatServer' = "read"
  /\ UNCHANGED <<chatClient, toServer, toClient, reset, said, rough>>

(* Mutant of ServerReads: a message is only answered when it came whole. *)
ServerReads_whole(c) ==
  /\ chatServer = "read" /\ connection[c] = "open"
  /\ \/ \E n \in Reads(toServer[c]) :
          /\ rough' = (rough \/ n < Pieces)
          /\ \/ /\ Head(toServer[c]) # "exit"
                /\ toServer' = [toServer EXCEPT ![c] = After(@, n)]
                /\ chatServer' = IF n < Pieces THEN "read" ELSE "respond"
                /\ UNCHANGED <<connection, reset>>
             \/ /\ Head(toServer[c]) = "exit"
                /\ ServerCloses(c, After(toServer[c], n))
          /\ UNCHANGED <<chatClient, toClient, said>>
     \/ /\ toServer[c] = <<>> /\ c \in reset
        /\ ServerDies
     \/ /\ toServer[c] = <<>> /\ c \notin reset /\ chatClient[c] = "done"
        /\ chatServer' = "respond"
        /\ UNCHANGED <<chatClient, connection, toServer, toClient, reset, said, rough>>

(* Mutant of ServerReads: exit is not looked for. *)
ServerReads_deaf(c) ==
  /\ chatServer = "read" /\ connection[c] = "open"
  /\ \/ \E n \in Reads(toServer[c]) :
          /\ rough' = (rough \/ n < Pieces)
          /\ toServer' = [toServer EXCEPT ![c] = After(@, n)]
          /\ chatServer' = "respond"
          /\ UNCHANGED <<connection, reset, chatClient, toClient, said>>
     \/ /\ toServer[c] = <<>> /\ c \in reset
        /\ ServerDies
     \/ /\ toServer[c] = <<>> /\ c \notin reset /\ chatClient[c] = "done"
        /\ chatServer' = "respond"
        /\ UNCHANGED <<chatClient, connection, toServer, toClient, reset, said, rough>>

(* The server's read: exit ends the chat, an error the server; a client    *)
(* that is gone reads as a message of 0 bytes.                             *)
ServerReads(c) ==
  /\ chatServer = "read" /\ connection[c] = "open"
  /\ \/ \E n \in Reads(toServer[c]) :
          /\ rough' = (rough \/ n < Pieces)
          /\ \/ /\ Head(toServer[c]) # "exit"
                /\ toServer' = [toServer EXCEPT ![c] = After(@, n)]
                /\ chatServer' = "respond"
                /\ UNCHANGED <<connection, reset>>
             \/ /\ Head(toServer[c]) = "exit"
                /\ ServerCloses(c, After(toServer[c], n))
          /\ UNCHANGED <<chatClient, toClient, said>>
     \/ /\ toServer[c] = <<>> /\ c \in reset
        /\ ServerDies
     \/ /\ toServer[c] = <<>> /\ c \notin reset /\ chatClient[c] = "done"
        /\ chatServer' = "respond"
        /\ UNCHANGED <<chatClient, connection, toServer, toClient, reset, said, rough>>

(* The server's fgets and write, and its own exit. *)
ServerWrites(c) ==
  /\ chatServer = "respond" /\ connection[c] = "open"
  /\ \/ /\ c \in reset
        /\ ServerDies
     \/ /\ c \notin reset
        /\ \E word \in Words :
             /\ toClient' = IF chatClient[c] = "done" THEN toClient
                            ELSE [toClient EXCEPT ![c] = @ \o Message(word)]
             /\ \/ /\ word = "text"
                   /\ chatServer' = "read"
                   /\ reset' = IF chatClient[c] = "done" THEN reset \cup {c} ELSE reset
                   /\ UNCHANGED <<connection, toServer>>
                \/ /\ word = "exit"
                   /\ ServerCloses(c, toServer[c])
        /\ UNCHANGED <<chatClient, said, rough>>

client_chat_func(c) ==
  Connect(c) \/ ClientWrites(c) \/ ClientWriteFails(c) \/ ClientReads(c)
server_chat_func == \E c \in Clients : ServerReads(c) \/ ServerWrites(c)

Next == \/ \E c \in Clients : client_chat_func(c) \/ ClientKilled(c)
        \/ Accept
        \/ server_chat_func

(* What the two programs do while their users type.  It ends, as the       *)
(* clients type MaxTyped messages, so it is enough that one of them goes   *)
(* on while one can.                                                       *)
chat_func == server_chat_func \/ \E c \in Clients : client_chat_func(c)

-----------------------------------------------------------------------------
(* Although neither side waits for a whole message, server and client are  *)
(* never both in read with nothing on the way (stream_server.c:33,         *)
(* stream_client.c:42).                                                    *)
NeverBothWait ==
  \A c \in Clients :
    chatServer = "read" /\ connection[c] = "open" /\ chatClient[c] = "read"
      => toServer[c] # <<>> \/ toClient[c] # <<>>

(* A chat that either side ends by exit does not take the server with it   *)
(* (stream_server.c:36, 52): the server only exits after a client was      *)
(* killed or a message came in parts.                                      *)
ExitIsOrderly == chatServer = "dead" => rough

(* A client that waits for an answer gets it, or learns that there will be *)
(* none (stream_client.c:42).                                              *)
AnswersCome ==
  \A c \in Clients :
    (chatClient[c] = "read" /\ connection[c] = "open") ~> chatClient[c] # "read"
=============================================================================
