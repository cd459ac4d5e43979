----------------------------- MODULE MCPrograms -----------------------------
(* Programs that share nothing, one at a time: which one runs is chosen at   *)
(* the start, and the others stay as they are before their start.            *)
EXTENDS FileServer

CONSTANTS Threads, MaxLines, MaxFailed, NoLog, THRESHOLD, Variants, BUFFER_SIZE, Processes,
          MaxStarts, MESSAGES, MaxMessages, MaxLoads, Pieces, MaxTyped

ASSUME BufferAssumption == BUFFER_SIZE \in Nat \ {0}
ASSUME SemaphoreAssumption == MaxStarts \in Nat
ASSUME LoggerAssumption ==
  /\ {"handler", "nobody"} \cap Threads = {}
  /\ NoLog \notin Seq((Threads \cup {"handler"}) \X Nat)
ASSUME ChatAssumption == Pieces \in Nat \ {0} /\ MaxTyped \in Nat

VARIABLES
  program,
  log, shipped, word, sleeping, at, mode, logged, failed, under, inMalloc,
  variant, counter, owner, waiting, main, thread,
  mutex, full, empty, items, producer, consumer,
  sem, process, starts, lost,
  pipe, ends, parent, written, pipeChild, printed, handles, signalled,
  fifo, fifoProducer, fifoConsumer, writer, reader, entered, buff, fifoPrinted,
  step, load, taken,
  chatServer, chatClient, connection, toServer, toClient, reset, said, rough

Log  == INSTANCE Logger
Cond == INSTANCE CondVar
Buf  == INSTANCE ProducerConsumer
Sem  == INSTANCE NamedSemaphore
Pipe == INSTANCE RelatedPipe WITH child <- pipeChild
Fifo == INSTANCE NamedPipe WITH producer <- fifoProducer, consumer <- fifoConsumer,
                                printed <- fifoPrinted
Dev  == INSTANCE DeviceModule
Chat == INSTANCE SocketChat

MCInit ==
  /\ program \in {"file_server", "logger", "condition", "buffer", "semaphore",
                  "pipe", "fifo", "device", "chat"}
  /\ Init /\ Log!Init /\ Cond!Init /\ Buf!Init /\ Sem!Init /\ Pipe!Init /\ Fifo!Init
  /\ Dev!Init /\ Chat!Init
  /\ program # "file_server" => file = [c \in Clients |-> 0]
  /\ program # "logger" => shipped
  /\ program # "condition" => variant = "busy"

(* The variables of the programs *)
LogVars  == <<log, shipped, word, sleeping, at, mode, logged, failed, under, inMalloc>>
CondVars == <<variant, counter, owner, waiting, main, thread>>
BufVars  == <<mutex, full, empty, items, producer, consumer>>
SemVars  == <<sem, process, starts, lost>>
PipeVars == <<pipe, ends, parent, written, pipeChild, printed, handles, signalled>>
FifoVars == <<fifo, fifoProducer, fifoConsumer, writer, reader, entered, buff,
              fifoPrinted>>
DevVars  == <<step, load, taken>>
ChatVars == <<chatServer, chatClient, connection, toServer, toClient, reset, said, rough>>
MCVars   == <<program, vars, LogVars, CondVars, BufVars, SemVars, PipeVars, FifoVars,
              DevVars, ChatVars>>

MCNext ==
  /\ UNCHANGED program
  /\ program # "file_server" => UNCHANGED vars
  /\ program # "logger" => UNCHANGED LogVars
  /\ program # "condition" => UNCHANGED CondVars
  /\ program # "buffer" => UNCHANGED BufVars
  /\ program # "semaphore" => UNCHANGED SemVars
  /\ program # "pipe" => UNCHANGED PipeVars
  /\ program # "fifo" => UNCHANGED FifoVars
  /\ program # "device" => UNCHANGED DevVars
  /\ program # "chat" => UNCHANGED ChatVars
  /\ \/ program = "file_server" /\ Next
     \/ program = "logger" /\ Log!Next
     \/ program = "condition" /\ Cond!Next
     \/ program = "buffer" /\ Buf!Next
     \/ program = "semaphore" /\ Sem!Next
     \/ program = "pipe" /\ Pipe!Next
     \/ program = "fifo" /\ Fifo!Next
     \/ program = "device" /\ Dev!Next
     \/ program = "chat" /\ Chat!Next

(* Processes and threads that can go on go on, who waits for a mutex gets    *)
(* it, and a pending signal is delivered.                                    *)
MCFairness ==
  /\ WF_vars(program = "file_server" /\ Server)
  /\ WF_vars(program = "file_server" /\ grimReaper)
  /\ \A c \in Clients : /\ WF_vars(program = "file_server" /\ Child(c))
                        /\ WF_vars(program = "file_server" /\ ClientReceive(c))
  /\ SF_CondVars(program = "condition" /\ Cond!Thread)
  /\ SF_CondVars(program = "condition" /\ Cond!Main)
  /\ WF_BufVars(program = "buffer" /\ Buf!Producer)
  /\ WF_BufVars(program = "buffer" /\ Buf!Consumer)
  /\ WF_PipeVars(program = "pipe" /\ Pipe!Parent)
  /\ WF_PipeVars(program = "pipe" /\ Pipe!Read)
  /\ WF_PipeVars(program = "pipe" /\ Pipe!func)
  /\ WF_ChatVars(program = "chat" /\ Chat!chat_func)

MCSpec == MCInit /\ [][MCNext]_MCVars /\ MCFairness

-----------------------------------------------------------------------------
(* Only a line whose own fopen or write fails is lost (os_debug.c:53-76). *)
LinesAreKept == Log!LinesAreKept

(* The SIGCHLD handler does not wait for its own thread (main-server.c:370). *)
HandlerWaitsForOthers == Log!HandlerWaitsForOthers

(* Semaphores and buffer agree (producer-consumer/main.c:40-67). *)
BufferIsKept == Buf!TypeOK /\ Buf!BufferIsKept

(* One process at a time has the named semaphore (named-semaphore/main.c:52). *)
OneHolder == Sem!TypeOK /\ Sem!OneHolder

(* The FIFO's consumer prints what was entered, in order (named_pipe). *)
PrintsInOrder == Fifo!PrintsInOrder

(* No load is hindered by what an earlier one left (05-fops-ioctl/hello.c). *)
CanBeLoadedAgain == Dev!CanBeLoadedAgain

(* Server and client of the chat never wait for each other                   *)
(* (stream_server.c:33, stream_client.c:42).                                 *)
NeverBothWait == Chat!NeverBothWait

(* exit ends a chat, not the server (stream_server.c:36, 52). *)
ExitIsOrderly == Chat!ExitIsOrderly

(* Both handlers of SIGCHLD leave no zombie: the file server's grimReaper    *)
(* (server.c:92-101) and related_pipe's func (main.c:14-18).                 *)
EveryChildIsReaped == ChildrenAreReaped /\ Pipe!ChildIsCollected

(* Who waits in these programs goes on: main comes to its end (con_var.c,    *)
(* main.c), the consumer takes items again and again, what was written to    *)
(* the pipe is printed, and a chat's client gets its answer.                 *)
EverythingGoesOn ==
  /\ program = "condition" => Cond!MainEnds
  /\ program = "buffer" => Buf!KeepsTaking
  /\ program = "pipe" => Pipe!AllArePrinted
  /\ program = "chat" => Chat!AnswersCome
=============================================================================
