------------------------------ MODULE NamedPipe ------------------------------
(***************************************************************************)
(* 07-pipes-FIFOs/named_pipe: producer and consumer open the FIFO ./myfifo *)
(* anew for every message.  open waits for the other side; the producer    *)
(* writes one message and closes, the consumer reads once and closes, so   *)
(* that each may find the other still there from the round before.         *)
(* Messages are numbered in the order in which they are entered.           *)
(***************************************************************************)
EXTENDS Integers, Sequences

CONSTANT MaxMessages   \* messages entered

VARIABLES
  fifo,      \* the messages in the FIFO
  producer,  \* "enter", "open" (it waits there), "write", "close" or "killed"
  consumer,  \* "open_next", "open" (it waits there), "read" or "close"
  writer,    \* the producer has the FIFO open, or waits in open
  reader,    \* and the consumer
  entered,
  buff,      \* the consumer's buffer, Garbage at first
  printed    \* what the consumer has printed

namedPipeVars == <<fifo, producer, consumer, writer, reader, entered, buff, printed>>

Garbage == 0

Init ==
  /\ fifo = <<>>
  /\ producer = "enter"
  /\ consumer = "open_next"
  /\ writer = FALSE
  /\ reader = FALSE
  /\ entered = 0
  /\ buff = Garbage
  /\ printed = <<>>

(* The last one to close it empties the FIFO. *)
Left(other) == IF other THEN fifo ELSE <<>>

-----------------------------------------------------------------------------
(* fgets, and open for writing, which waits until there has been a reader   *)
Enter ==
  /\ producer = "enter"
  /\ entered < MaxMessages
  /\ entered' = entered + 1
  /\ writer' = TRUE
  /\ producer' = IF reader THEN "write" ELSE "open"
  /\ consumer' = IF consumer = "open" THEN "read" ELSE consumer
  /\ UNCHANGED <<fifo, reader, buff, printed>>

(* Without a reader SIGPIPE kills the producer. *)
Write ==
  /\ producer = "write"
  /\ \/ /\ reader
        /\ fifo' = Append(fifo, entered)
        /\ producer' = "close"
        /\ UNCHANGED writer
     \/ /\ ~reader
        /\ producer' = "killed"
        /\ writer' = FALSE
        /\ fifo' = <<>>
  /\ UNCHANGED <<consumer, reader, entered, buff, printed>>

ProducerClose ==
  /\ producer = "close"
  /\ writer' = FALSE
  /\ fifo' = Left(reader)
  /\ producer' = "enter"
  /\ UNCHANGED <<consumer, reader, entered, buff, printed>>

-----------------------------------------------------------------------------
(* Mutant of ConsumerOpen: open with O_NONBLOCK. *)
ConsumerOpen_nonblock ==
  /\ consumer = "open_next"
  /\ reader' = TRUE
  /\ consumer' = "read"
  /\ producer' = IF producer = "open" THEN "write" ELSE producer
  /\ UNCHANGED <<fifo, writer, entered, buff, printed>>

(* open for reading, which waits until there has been a writer *)
ConsumerOpen ==
  /\ consumer = "open_next"
  /\ reader' = TRUE
  /\ consumer' = IF writer THEN "read" ELSE "open"
  /\ producer' = IF producer = "open" THEN "write" ELSE producer
  /\ UNCHANGED <<fifo, writer, entered, buff, printed>>

(* read takes all there is, and printf prints the first message of it; with *)
(* an empty FIFO and no writer it leaves buff as it was.                    *)
Read ==
  /\ consumer = "read"
  /\ fifo # <<>> \/ ~writer
  /\ buff' = IF fifo = <<>> THEN buff ELSE Head(fifo)
  /\ fifo' = <<>>
  /\ printed' = Append(printed, buff')
  /\ consumer' = "close"
  /\ UNCHANGED <<producer, writer, reader, entered>>

ConsumerClose ==
  /\ consumer = "close"
  /\ reader' = FALSE
  /\ fifo' = Left(writer)
  /\ consumer' = "open_next"
  /\ UNCHANGED <<producer, writer, entered, buff, printed>>

Next ==
  \/ Enter \/ Write \/ ProducerClose
  \/ ConsumerOpen \/ Read \/ ConsumerClose

-----------------------------------------------------------------------------
(* What the consumer prints was entered, and in that order; a message may   *)
(* be missing (two were in one read, or the FIFO was closed with it) or     *)
(* printed again (read returned 0), and never is buff printed before a      *)
(* message is in it.                                                        *)
PrintsInOrder ==
  /\ \A i \in DOMAIN printed : printed[i] \in 1..entered
  /\ \A i, j \in DOMAIN printed : i < j => printed[i] <= printed[j]
=============================================================================
