--------------------------- MODULE ProgramsProofs ---------------------------
(***************************************************************************)
(* The small programs, each for every value of its constants, as part of   *)
(* MCSpec: a step of MCPrograms is a step of the program that runs, and    *)
(* leaves the others as they are.                                          *)
(***************************************************************************)
EXTENDS MCPrograms, TLAPS

-----------------------------------------------------------------------------
(* The producer and the consumer.  BufferIsKept is not inductive: it needs *)
(* to know where each slot of the buffer is.  BufCounts says it: an item   *)
(* is in full, or on its way there or from there; a slot is in empty, in   *)
(* the buffer, or with one of the processes.                               *)

ProducerHolds == producer \in {"create", "post_full", "post_mutex"}
ConsumerHolds == consumer \in {"take", "post_mutex"}

(* The mutex is 1 while nobody holds it, and is never held twice. *)
BufExclusion ==
  /\ ~(ProducerHolds /\ ConsumerHolds)
  /\ mutex = IF ProducerHolds \/ ConsumerHolds THEN 0 ELSE 1

Posting  == IF producer = "post_full" THEN 1 ELSE 0
Fetching == IF consumer \in {"wait_mutex", "take"} THEN 1 ELSE 0
Filling  == IF producer \in {"wait_mutex", "create"} THEN 1 ELSE 0
Emptied  == IF consumer \in {"post_mutex", "post_empty"} THEN 1 ELSE 0

BufCounts ==
  /\ items \in Nat /\ full \in Nat /\ empty \in Nat
  /\ items = full + Posting + Fetching
  /\ items + empty + Filling + Emptied = BUFFER_SIZE

(* Where the processes are, and the mutex *)
BufPlaces ==
  /\ producer \in {"wait_empty", "wait_mutex", "create", "post_full", "post_mutex"}
  /\ consumer \in {"wait_full", "wait_mutex", "take", "post_mutex", "post_empty"}
  /\ mutex \in 0..1

BufInv == BufPlaces /\ BufExclusion /\ BufCounts

(* Posting and the other three are 0 or 1, by where the two processes are. *)
LEMMA BufUnits == {Posting, Fetching, Filling, Emptied} \subseteq {0, 1}
BY DEF Posting, Fetching, Filling, Emptied

(* The start of the program satisfies the invariant. *)
LEMMA BufStart == ASSUME Buf!Init PROVE BufInv
<1>1. BufPlaces /\ BufExclusion
  BY DEF Buf!Init, BufPlaces, BufExclusion, ProducerHolds, ConsumerHolds
<1>2. Posting = 0 /\ Fetching = 0 /\ Filling = 0 /\ Emptied = 0
  BY DEF Buf!Init, Posting, Fetching, Filling, Emptied
<1>3. BufCounts
  BY <1>2, BufferAssumption DEF BufferAssumption, Buf!Init, BufCounts
<1>4. QED
  BY <1>1, <1>3 DEF BufInv

(* A step of either process keeps the mutex exclusive. *)
LEMMA BufKeepsExclusion ==
  ASSUME BufPlaces, BufExclusion, Buf!Next
  PROVE  (BufPlaces /\ BufExclusion)'
<1> USE DEF BufPlaces, BufExclusion, ProducerHolds, ConsumerHolds
<1>1. CASE Buf!ProducerWaits
  BY <1>1 DEF Buf!ProducerWaits
<1>2. CASE Buf!ProducerCreates
  BY <1>2 DEF Buf!ProducerCreates
<1>3. CASE Buf!ProducerPosts
  BY <1>3 DEF Buf!ProducerPosts
<1>4. CASE Buf!ConsumerWaits
  BY <1>4 DEF Buf!ConsumerWaits
<1>5. CASE Buf!ConsumerTakes
  BY <1>5 DEF Buf!ConsumerTakes
<1>6. CASE Buf!ConsumerPosts
  BY <1>6 DEF Buf!ConsumerPosts
<1>7. QED
  BY <1>1, <1>2, <1>3, <1>4, <1>5, <1>6 DEF Buf!Next, Buf!Producer, Buf!Consumer

(* A step of the producer keeps the counts: what one loses another gets. *)
LEMMA ProducerKeepsCounts ==
  ASSUME BufCounts, Buf!Producer
  PROVE  BufCounts'
<1> USE BufferAssumption DEF BufferAssumption
<1>1. Fetching' = Fetching /\ Emptied' = Emptied
  BY DEF Buf!Producer, Buf!ProducerWaits, Buf!ProducerCreates, Buf!ProducerPosts, Fetching, Emptied
<1>2. CASE Buf!ProducerWaits
  <2>1. \/ empty > 0 /\ empty' = empty - 1 /\ Filling = 0 /\ Filling' = 1
        \/ empty' = empty /\ Filling = 1 /\ Filling' = 1
    BY <1>2 DEF Buf!ProducerWaits, Filling
  <2>2. Posting' = Posting /\ items' = items /\ full' = full
    BY <1>2 DEF Buf!ProducerWaits, Posting
  <2>3. QED
    BY <1>1, <2>1, <2>2, BufUnits DEF BufCounts
<1>3. CASE Buf!ProducerCreates
  <2>1. Posting = 0 /\ Posting' = 1 /\ Filling = 1 /\ Filling' = 0
    BY <1>3 DEF Buf!ProducerCreates, Posting, Filling
  <2>2. items' = items + 1 /\ full' = full /\ empty' = empty
    BY <1>3 DEF Buf!ProducerCreates
  <2>3. QED
    BY <1>1, <2>1, <2>2, BufUnits DEF BufCounts
<1>4. CASE Buf!ProducerPosts
  <2>1. \/ full' = full + 1 /\ Posting = 1 /\ Posting' = 0
        \/ full' = full /\ Posting = 0 /\ Posting' = 0
    BY <1>4 DEF Buf!ProducerPosts, Posting
  <2>2. Filling' = Filling /\ items' = items /\ empty' = empty
    BY <1>4 DEF Buf!ProducerPosts, Filling
  <2>3. QED
    BY <1>1, <2>1, <2>2, BufUnits DEF BufCounts
<1>5. QED
  BY <1>2, <1>3, <1>4 DEF Buf!Producer

(* And so does a step of the consumer. *)
LEMMA ConsumerKeepsCounts ==
  ASSUME BufCounts, Buf!Consumer
  PROVE  BufCounts'
<1> USE BufferAssumption DEF BufferAssumption
<1>1. Posting' = Posting /\ Filling' = Filling
  BY DEF Buf!Consumer, Buf!ConsumerWaits, Buf!ConsumerTakes, Buf!ConsumerPosts, Posting, Filling
<1>2. CASE Buf!ConsumerWaits
  <2>1. \/ full > 0 /\ full' = full - 1 /\ Fetching = 0 /\ Fetching' = 1
        \/ full' = full /\ Fetching = 1 /\ Fetching' = 1
    BY <1>2 DEF Buf!ConsumerWaits, Fetching
  <2>2. Emptied' = Emptied /\ items' = items /\ empty' = empty
    BY <1>2 DEF Buf!ConsumerWaits, Emptied
  <2>3. QED
    BY <1>1, <2>1, <2>2, BufUnits DEF BufCounts
<1>3. CASE Buf!ConsumerTakes
  <2>1. Fetching = 1 /\ Fetching' = 0 /\ Emptied = 0 /\ Emptied' = 1
    BY <1>3 DEF Buf!ConsumerTakes, Fetching, Emptied
  <2>2. items' = items - 1 /\ full' = full /\ empty' = empty
    BY <1>3 DEF Buf!ConsumerTakes
  <2>3. QED
    BY <1>1, <2>1, <2>2, BufUnits DEF BufCounts
<1>4. CASE Buf!ConsumerPosts
  <2>1. \/ empty' = empty /\ Emptied = 1 /\ Emptied' = 1
        \/ empty' = empty + 1 /\ Emptied = 1 /\ Emptied' = 0
    BY <1>4 DEF Buf!ConsumerPosts, Emptied
  <2>2. Fetching' = Fetching /\ items' = items /\ full' = full
    BY <1>4 DEF Buf!ConsumerPosts, Fetching
  <2>3. QED
    BY <1>1, <2>1, <2>2, BufUnits DEF BufCounts
<1>5. QED
  BY <1>2, <1>3, <1>4 DEF Buf!Consumer

(* Every state of the program satisfies the invariant. *)
(* Every state of the programs satisfies the invariant. *)
LEMMA BufInvariance == MCSpec => []BufInv
<1>1. MCInit => BufInv
  BY BufStart DEF MCInit
<1>2. BufInv /\ [MCNext]_MCVars => BufInv'
  <2> SUFFICES ASSUME BufInv, [MCNext]_MCVars PROVE BufInv'
    OBVIOUS
  <2>1. CASE Buf!Next
    <3>1. (BufPlaces /\ BufExclusion)'
      BY <2>1, BufKeepsExclusion DEF BufInv
    <3>2. BufCounts'
      BY <2>1, ProducerKeepsCounts, ConsumerKeepsCounts DEF BufInv, Buf!Next
    <3>3. QED
      BY <3>1, <3>2 DEF BufInv
  <2>2. CASE UNCHANGED BufVars
    <3>1. BufPlaces' /\ BufExclusion'
      BY <2>2 DEF BufVars, BufInv, BufPlaces, BufExclusion, ProducerHolds, ConsumerHolds
    <3>2. Posting' = Posting /\ Fetching' = Fetching /\ Filling' = Filling /\ Emptied' = Emptied
      BY <2>2 DEF BufVars, Posting, Fetching, Filling, Emptied
    <3>3. BufCounts'
      BY <2>2, <3>2 DEF BufVars, BufInv, BufCounts
    <3>4. QED
      BY <3>1, <3>3 DEF BufInv
  <2>3. QED
    BY <2>1, <2>2 DEF MCNext, MCVars
<1>3. QED
  BY <1>1, <1>2, PTL DEF MCSpec

(* The semaphores keep the buffer (producer-consumer/main.c:38-68): no item *)
(* is created in a full buffer or taken from an empty one, never both at    *)
(* once, and no semaphore counts beyond its start (main.c:27-29).           *)
THEOREM BufferStaysKept == MCSpec => []BufferIsKept
<1>1. BufInv => BufferIsKept
  <2> SUFFICES ASSUME BufInv PROVE BufferIsKept
    OBVIOUS
  <2>1. producer = "create" => Filling = 1
    BY DEF Filling
  <2>2. consumer = "take" => Fetching = 1
    BY DEF Fetching
  <2>3. /\ producer = "create" => items < BUFFER_SIZE
        /\ consumer = "take" => items > 0
        /\ full <= items
    BY <2>1, <2>2, BufUnits, BufferAssumption DEF BufferAssumption, BufInv, BufCounts
  <2>4. Buf!BufferIsKept
    BY <2>3 DEF BufInv, BufExclusion, ProducerHolds, ConsumerHolds, Buf!BufferIsKept
  <2>5. Buf!TypeOK
    BY BufUnits, BufferAssumption DEF BufferAssumption, BufInv, BufPlaces, BufCounts, Buf!TypeOK
  <2>6. QED
    BY <2>4, <2>5 DEF BufferIsKept
<1>2. QED
  BY <1>1, BufInvariance, PTL

-----------------------------------------------------------------------------
(* The named semaphore.  OneHolder is not inductive: that a process may     *)
(* take the semaphore only while nobody has it is in the value, which       *)
(* SemValue relates to who has it.                                          *)

(* Two processes never have the semaphore; while one has it, its value is  *)
(* 0; and a process beyond sem_open has found a semaphore.                 *)
SemValue ==
  /\ \A p, q \in Processes : process[p] = "hold" /\ process[q] = "hold" => p = q
  /\ \A p \in Processes : process[p] = "hold" => sem = 0
  /\ \A p \in Processes : process[p] \in {"open", "wait"} => sem # Sem!NoSem

SemInv == Sem!TypeOK /\ SemValue

(* The steps that leave the semaphore alone move one process, which does    *)
(* not come to have it.                                                     *)
LEMMA QuietStep ==
  ASSUME SemInv, NEW p \in Processes,
         NEW s \in {"out", "create", "open", "wait", "close"},
         process' = [process EXCEPT ![p] = s], sem' = sem,
         s \in {"open", "wait"} => sem # Sem!NoSem,
         starts' \in 0..MaxStarts, lost' \in BOOLEAN
  PROVE  SemInv'
<1>1. Sem!TypeOK'
  BY DEF SemInv, Sem!TypeOK
<1>2. \A q \in Processes : process'[q] = IF q = p THEN s ELSE process[q]
  BY DEF SemInv, Sem!TypeOK
<1>3. SemValue'
  BY <1>2 DEF SemInv, SemValue
<1>4. QED
  BY <1>1, <1>3 DEF SemInv

(* The start of the program satisfies the invariant. *)
LEMMA SemStart == ASSUME Sem!Init PROVE SemInv
<1>1. \A p \in Processes : process[p] = "out"
  BY DEF Sem!Init
<1>2. SemValue
  BY <1>1 DEF SemValue
<1>3. process \in [Processes -> {"out", "create", "open", "wait", "hold", "close"}]
  BY DEF Sem!Init
<1>4. starts \in 0..MaxStarts
  <2>1. starts = 0
    BY DEF Sem!Init
  <2>2. QED
    BY <2>1, SemaphoreAssumption DEF SemaphoreAssumption
<1>5. sem = Sem!NoSem /\ lost \in BOOLEAN
  BY Zenon DEF Sem!Init
<1>6. Sem!TypeOK
  BY <1>3, <1>4, <1>5 DEF Sem!TypeOK
<1>7. QED
  BY <1>2, <1>6 DEF SemInv

(* Every step keeps the invariant. *)
LEMMA SemKeepsInv == ASSUME SemInv, Sem!Next PROVE SemInv'
<1> PICK p \in Processes : Sem!Start(p) \/ Sem!Process(p) \/ Sem!Killed(p)
  BY DEF Sem!Next
<1> USE DEF SemInv, Sem!TypeOK
<1>1. CASE Sem!Start(p)
  <2>1. starts' \in 0..MaxStarts
    BY <1>1, SemaphoreAssumption DEF SemaphoreAssumption, Sem!Start
  <2>2. process' = [process EXCEPT ![p] = "create"] /\ UNCHANGED <<sem, lost>>
    BY <1>1 DEF Sem!Start
  <2>3. QED
    BY <2>1, <2>2, QuietStep
<1>2. CASE Sem!Create(p)
  <2>1. CASE sem # Sem!NoSem
    BY <1>2, <2>1, QuietStep DEF Sem!Create
  <2>2. CASE sem = Sem!NoSem
    <3>1. /\ sem' = 1
          /\ process' = [process EXCEPT ![p] = "wait"]
          /\ UNCHANGED <<starts, lost>>
      BY <1>2, <2>2 DEF Sem!Create
    <3>2. \A q \in Processes : process[q] # "hold"
      BY <2>2 DEF SemValue, Sem!NoSem
    <3>3. SemValue'
      BY <3>1, <3>2 DEF SemValue, Sem!NoSem
    <3>4. Sem!TypeOK'
      BY <3>1
    <3>5. QED
      BY <3>3, <3>4
  <2>3. QED
    BY <2>1, <2>2
<1>3. CASE Sem!Open(p)
  <2>1. sem # Sem!NoSem
    BY <1>3 DEF Sem!Open, SemValue
  <2>2. QED
    BY <1>3, <2>1, QuietStep DEF Sem!Open
<1>4. CASE Sem!Take(p)
  <2>1. sem = 1
    BY <1>4 DEF Sem!Take, Sem!NoSem
  <2>2. \A q \in Processes : process[q] # "hold"
    BY <2>1 DEF SemValue
  <2>3. sem' = 0 /\ process' = [process EXCEPT ![p] = "hold"] /\ UNCHANGED <<starts, lost>>
    BY <1>4, <2>1 DEF Sem!Take
  <2>4. SemValue'
    BY <2>2, <2>3 DEF SemValue, Sem!NoSem
  <2>5. Sem!TypeOK'
    BY <2>3
  <2>6. QED
    BY <2>4, <2>5
<1>5. CASE Sem!TimeOut(p)
  BY <1>5, QuietStep DEF Sem!TimeOut
<1>6. CASE Sem!Post(p)
  <2>1. sem = 0 /\ \A q \in Processes : process[q] = "hold" => q = p
    BY <1>6 DEF Sem!Post, SemValue
  <2>2. sem' = 1 /\ process' = [process EXCEPT ![p] = "close"] /\ UNCHANGED <<starts, lost>>
    BY <1>6, <2>1 DEF Sem!Post
  <2>3. SemValue'
    BY <2>1, <2>2 DEF SemValue, Sem!NoSem
  <2>4. Sem!TypeOK'
    BY <2>2
  <2>5. QED
    BY <2>3, <2>4
<1>7. CASE Sem!Close(p)
  BY <1>7, QuietStep DEF Sem!Close
<1>8. CASE Sem!Killed(p)
  BY <1>8, QuietStep DEF Sem!Killed
<1>9. QED
  BY <1>1, <1>2, <1>3, <1>4, <1>5, <1>6, <1>7, <1>8 DEF Sem!Process

(* At most one process is between sem_timedwait and sem_post               *)
(* (named-semaphore/main.c:51-68), whoever created the semaphore, times out *)
(* or is killed, and its value never exceeds 1.                             *)
THEOREM SemaphoreHasOneHolder == MCSpec => []OneHolder
<1>1. MCInit => SemInv
  BY SemStart DEF MCInit
<1>2. SemInv /\ [MCNext]_MCVars => SemInv'
  <2> SUFFICES ASSUME SemInv, [MCNext]_MCVars PROVE SemInv'
    OBVIOUS
  <2>1. CASE UNCHANGED SemVars
    BY <2>1 DEF SemVars, SemInv, Sem!TypeOK, SemValue, Sem!NoSem
  <2>2. QED
    BY <2>1, SemKeepsInv DEF MCNext, MCVars
<1>3. SemInv => OneHolder
  BY DEF SemInv, SemValue, OneHolder, Sem!OneHolder, Sem!Holders
<1>4. QED
  BY <1>1, <1>2, <1>3, PTL DEF MCSpec

-----------------------------------------------------------------------------
(* The device module.  CanBeLoadedAgain is not inductive: what init has     *)
(* taken after the class, it gives back before it ends, so the three        *)
(* resources are taken in these steps only.                                 *)
HasClass  == {"device", "memory", "loaded", "rm_device", "rm_class", "kfree",
              "device_destroy", "class_destroy"}
HasDevice == {"memory", "loaded", "rm_device", "kfree", "device_destroy"}
HasMemory == {"loaded", "kfree"}

DevInv ==
  \A r \in taken :
    /\ r[1] \in {"region", "cdev", "class", "device", "memory"}
    /\ r[1] \in {"class", "device", "memory"} => r = <<r[1], load>>
    /\ r[1] = "class"  => step \in HasClass
    /\ r[1] = "device" => step \in HasDevice
    /\ r[1] = "memory" => step \in HasMemory

(* A load takes and gives back what the three sets say. *)
LEMMA DevKeepsInv == ASSUME DevInv, Dev!Next PROVE DevInv'
<1> USE DEF DevInv, HasClass, HasDevice, HasMemory
<1>1. CASE Dev!Insmod
  BY <1>1 DEF Dev!Insmod
<1>2. CASE Dev!hello_world_init
  BY <1>2 DEF Dev!hello_world_init, Dev!Take, Dev!Fail
<1>3. CASE Dev!Unwind
  BY <1>3 DEF Dev!Unwind, Dev!Free
<1>4. CASE Dev!Rmmod
  BY <1>4 DEF Dev!Rmmod
<1>5. CASE Dev!hello_world_exit
  BY <1>5 DEF Dev!hello_world_exit, Dev!Free
<1>6. QED
  BY <1>1, <1>2, <1>3, <1>4, <1>5 DEF Dev!Next

(* However often the module was loaded, and wherever its init failed, the   *)
(* next insmod finds no class, device or memory of an earlier load          *)
(* (05-fops-ioctl/hello.c:129-187).                                         *)
THEOREM ModuleLoadsAgain == MCSpec => []CanBeLoadedAgain
<1>1. MCInit => DevInv
  BY DEF MCInit, Dev!Init, DevInv
<1>2. DevInv /\ [MCNext]_MCVars => DevInv'
  <2> SUFFICES ASSUME DevInv, [MCNext]_MCVars PROVE DevInv'
    OBVIOUS
  <2>1. CASE UNCHANGED DevVars
    BY <2>1 DEF DevVars, DevInv
  <2>2. QED
    BY <2>1, DevKeepsInv DEF MCNext, MCVars
<1>3. DevInv => CanBeLoadedAgain
  BY DEF DevInv, HasClass, HasDevice, HasMemory, CanBeLoadedAgain, Dev!CanBeLoadedAgain
<1>4. QED
  BY <1>1, <1>2, <1>3, PTL DEF MCSpec

-----------------------------------------------------------------------------
(* The FIFO.  What is in it is not older than what the consumer has in its  *)
(* buffer; and until the consumer's first read (BeforeTheFirst) the two     *)
(* processes cannot miss each other.                                        *)
BeforeTheFirst ==
  /\ fifoConsumer \in {"open_next", "open", "read"}
  /\ fifoConsumer = "open_next" =>
       /\ ~reader
       /\ fifoProducer = (IF writer THEN "open" ELSE "enter")
  /\ fifoConsumer = "open" => reader /\ ~writer /\ fifoProducer = "enter"
  /\ fifoConsumer = "read" =>
       /\ reader
       /\ fifo # <<>> \/ (writer /\ fifoProducer = "write")

FifoInv ==
  /\ fifo \in Seq(Nat) /\ fifoPrinted \in Seq(Nat)
  /\ {reader, writer} \subseteq BOOLEAN
  /\ entered \in Nat /\ buff \in 0..entered
  /\ fifoProducer \in {"open", "write"} => entered >= 1
  /\ \A k \in 1..Len(fifo) : fifo[k] \in 1..entered /\ buff <= fifo[k]
  /\ \A k \in 1..Len(fifoPrinted) : fifoPrinted[k] \in 1..buff
  /\ \A j, k \in 1..Len(fifoPrinted) : j < k => fifoPrinted[j] <= fifoPrinted[k]
  /\ buff = Fifo!Garbage => BeforeTheFirst

(* Entering a message gives it the next number. *)
LEMMA EnterKeepsInv == ASSUME FifoInv, Fifo!Enter PROVE FifoInv'
<1>1. /\ entered' = entered + 1 /\ writer' = TRUE
      /\ UNCHANGED <<fifo, reader, buff, fifoPrinted>>
      /\ fifoProducer = "enter"
      /\ fifoProducer' = IF reader THEN "write" ELSE "open"
      /\ fifoConsumer' = IF fifoConsumer = "open" THEN "read" ELSE fifoConsumer
  BY DEF Fifo!Enter
<1>2. buff' = Fifo!Garbage => BeforeTheFirst'
  BY <1>1 DEF FifoInv, BeforeTheFirst
<1>3. QED
  BY <1>1, <1>2 DEF FifoInv

(* What is written is the message entered last. *)
LEMMA WriteKeepsInv == ASSUME FifoInv, Fifo!Write PROVE FifoInv'
<1>1. CASE reader /\ fifo' = Append(fifo, entered) /\ fifoProducer' = "close" /\ writer' = writer
  <2>1. UNCHANGED <<fifoConsumer, reader, entered, buff, fifoPrinted>>
    BY DEF Fifo!Write
  <2>2. entered >= 1 /\ fifo \in Seq(Nat) /\ entered \in Nat /\ buff \in 0..entered
    BY DEF FifoInv, Fifo!Write
  <2>3. /\ fifo' \in Seq(Nat) /\ fifo' # <<>> /\ Len(fifo') = Len(fifo) + 1
        /\ \A k \in 1..Len(fifo) : fifo'[k] = fifo[k]
        /\ fifo'[Len(fifo) + 1] = entered
    BY <1>1, <2>2
  <2>4. \A k \in 1..Len(fifo') : fifo'[k] \in 1..entered /\ buff <= fifo'[k]
    <3> SUFFICES ASSUME NEW k \in 1..Len(fifo')
                 PROVE  fifo'[k] \in 1..entered /\ buff <= fifo'[k]
      OBVIOUS
    <3>1. k \in 1..Len(fifo) \/ k = Len(fifo) + 1
      BY <2>2, <2>3
    <3>2. CASE k \in 1..Len(fifo)
      BY <3>2, <2>3 DEF FifoInv
    <3>3. CASE k = Len(fifo) + 1
      BY <3>3, <2>2, <2>3
    <3>4. QED
      BY <3>1, <3>2, <3>3
  <2>5. buff' = Fifo!Garbage => BeforeTheFirst'
    BY <1>1, <2>1, <2>3 DEF FifoInv, BeforeTheFirst, Fifo!Write
  <2>6. QED
    BY <1>1, <2>1, <2>3, <2>4, <2>5 DEF FifoInv
<1>2. CASE ~reader /\ fifo' = <<>> /\ fifoProducer' = "killed" /\ writer' = FALSE
  <2>1. UNCHANGED <<fifoConsumer, reader, entered, buff, fifoPrinted>> /\ fifoProducer = "write"
    BY DEF Fifo!Write
  <2>2. buff # Fifo!Garbage
    BY <1>2, <2>1 DEF FifoInv, BeforeTheFirst
  <2>3. fifo' \in Seq(Nat) /\ Len(fifo') = 0
    BY <1>2
  <2>4. fifoProducer' \notin {"open", "write"} /\ {reader', writer'} \subseteq BOOLEAN
    BY <1>2, <2>1 DEF FifoInv
  <2>5. \A k \in 1..Len(fifo') : FALSE
    BY <2>3
  <2>6. QED
    BY <2>1, <2>2, <2>3, <2>4, <2>5 DEF FifoInv
<1>3. QED
  BY <1>1, <1>2 DEF Fifo!Write

(* The other steps do not put anything into the FIFO. *)
LEMMA OpenAndCloseKeepInv ==
  ASSUME FifoInv, Fifo!ProducerClose \/ Fifo!ConsumerOpen \/ Fifo!ConsumerClose
  PROVE  FifoInv'
<1>1. fifo' \in {fifo, <<>>} /\ UNCHANGED <<entered, buff, fifoPrinted>>
  BY DEF Fifo!ProducerClose, Fifo!ConsumerOpen, Fifo!ConsumerClose, Fifo!Left
<1>2. {reader', writer'} \subseteq BOOLEAN
  BY DEF FifoInv, Fifo!ProducerClose, Fifo!ConsumerOpen, Fifo!ConsumerClose
<1>3. buff' = Fifo!Garbage => BeforeTheFirst'
  BY <1>1 DEF FifoInv, BeforeTheFirst, Fifo!ProducerClose, Fifo!ConsumerOpen,
              Fifo!ConsumerClose, Fifo!Left
<1>4. /\ fifo' \in Seq(Nat)
      /\ \A k \in 1..Len(fifo') : fifo'[k] \in 1..entered /\ buff <= fifo'[k]
  <2>1. CASE fifo' = fifo
    BY <2>1 DEF FifoInv
  <2>2. CASE fifo' = <<>>
    <3>1. fifo' \in Seq(Nat) /\ Len(fifo') = 0
      BY <2>2
    <3>2. QED
      BY <3>1
  <2>3. QED
    BY <1>1, <2>1, <2>2
<1>5. fifoProducer' \in {"open", "write"} => entered' >= 1
  BY <1>1 DEF FifoInv, Fifo!ProducerClose, Fifo!ConsumerOpen, Fifo!ConsumerClose
<1>6. QED
  BY <1>1, <1>2, <1>3, <1>4, <1>5 DEF FifoInv

(* What the consumer prints is what it has just read, or once more what it  *)
(* had read before.                                                         *)
LEMMA ReadKeepsInv == ASSUME FifoInv, Fifo!Read PROVE FifoInv'
<1>1. /\ fifo' = <<>> /\ fifoPrinted' = Append(fifoPrinted, buff')
      /\ buff' = (IF fifo = <<>> THEN buff ELSE Head(fifo))
      /\ UNCHANGED <<fifoProducer, writer, reader, entered>>
  BY DEF Fifo!Read
<1>2. buff' \in 1..entered /\ buff <= buff'
  <2>1. CASE fifo = <<>>
    BY <1>1, <2>1 DEF FifoInv, BeforeTheFirst, Fifo!Read, Fifo!Garbage
  <2>2. CASE fifo # <<>>
    BY <1>1, <2>2 DEF FifoInv
  <2>3. QED
    BY <2>1, <2>2
<1>3. /\ fifoPrinted' \in Seq(Nat) /\ Len(fifoPrinted') = Len(fifoPrinted) + 1
      /\ \A k \in 1..Len(fifoPrinted) : fifoPrinted'[k] = fifoPrinted[k]
      /\ fifoPrinted'[Len(fifoPrinted) + 1] = buff'
  BY <1>1, <1>2 DEF FifoInv
<1>4. buff \in Nat /\ \A k \in 1..Len(fifoPrinted) : fifoPrinted[k] \in 1..buff
  BY DEF FifoInv
<1>5. \A k \in 1..Len(fifoPrinted') : k \in 1..Len(fifoPrinted) \/ k = Len(fifoPrinted) + 1
  BY <1>3
<1>6. \A k \in 1..Len(fifoPrinted') : fifoPrinted'[k] \in 1..buff'
  <2> SUFFICES ASSUME NEW k \in 1..Len(fifoPrinted') PROVE fifoPrinted'[k] \in 1..buff'
    OBVIOUS
  <2>1. CASE k \in 1..Len(fifoPrinted)
    <3>1. fifoPrinted[k] \in 1..buff /\ fifoPrinted'[k] = fifoPrinted[k]
      BY <1>3, <1>4, <2>1
    <3>2. buff \in Nat /\ buff' \in Nat
      BY <1>2, <1>4 DEF FifoInv
    <3>3. QED
      BY <1>2, <3>1, <3>2
  <2>2. CASE k = Len(fifoPrinted) + 1
    BY <1>2, <1>3, <2>2 DEF FifoInv
  <2>3. QED
    BY <1>5, <2>1, <2>2
<1>7. \A j, k \in 1..Len(fifoPrinted') : j < k => fifoPrinted'[j] <= fifoPrinted'[k]
  <2> SUFFICES ASSUME NEW j \in 1..Len(fifoPrinted'), NEW k \in 1..Len(fifoPrinted'), j < k
               PROVE  fifoPrinted'[j] <= fifoPrinted'[k]
    OBVIOUS
  <2>1. j \in 1..Len(fifoPrinted)
    BY <1>3
  <2>2. CASE k \in 1..Len(fifoPrinted)
    BY <1>3, <2>1, <2>2 DEF FifoInv
  <2>3. CASE k = Len(fifoPrinted) + 1
    <3>1. fifoPrinted[j] \in 1..buff /\ fifoPrinted'[j] = fifoPrinted[j]
      BY <1>3, <1>4, <2>1
    <3>2. QED
      BY <1>2, <1>3, <1>4, <2>3, <3>1 DEF FifoInv
  <2>4. QED
    BY <1>5, <2>2, <2>3
<1>8. buff' # Fifo!Garbage
  BY <1>2 DEF FifoInv, Fifo!Garbage
<1>9. fifo' \in Seq(Nat) /\ Len(fifo') = 0
  BY <1>1
<1>10. entered' = entered /\ buff' \in 0..entered' /\ entered \in Nat
  BY <1>1, <1>2 DEF FifoInv
<1>11. fifoProducer' \in {"open", "write"} => entered' >= 1
  BY <1>1 DEF FifoInv
<1>12. {reader', writer'} \subseteq BOOLEAN
  BY <1>1 DEF FifoInv
<1>13. QED
  BY <1>3, <1>6, <1>7, <1>8, <1>9, <1>10, <1>11, <1>12 DEF FifoInv

(* Whatever the order in which the two open, write, read and close the FIFO *)
(* (named_pipe/producer.c:25-27, consumer.c:22-26), the consumer prints     *)
(* messages that were entered, in that order, and never an empty buffer.    *)
THEOREM FifoPrintsInOrder == MCSpec => []PrintsInOrder
<1>1. MCInit => FifoInv
  <2> SUFFICES ASSUME Fifo!Init PROVE FifoInv
    BY DEF MCInit
  <2>1. /\ fifo \in Seq(Nat) /\ fifoPrinted \in Seq(Nat)
        /\ Len(fifo) = 0 /\ Len(fifoPrinted) = 0
    BY DEF Fifo!Init
  <2>2. /\ \A k \in 1..Len(fifo) : FALSE
        /\ \A k \in 1..Len(fifoPrinted) : FALSE
    BY <2>1
  <2>3. BeforeTheFirst
    BY DEF Fifo!Init, BeforeTheFirst
  <2>4. QED
    <3>1. entered = 0 /\ buff = 0 /\ fifoProducer = "enter" /\ {reader, writer} \subseteq BOOLEAN
      BY DEF Fifo!Init, Fifo!Garbage
    <3>2. QED
      BY <2>1, <2>2, <2>3, <3>1 DEF FifoInv
<1>2. FifoInv /\ [MCNext]_MCVars => FifoInv'
  <2> SUFFICES ASSUME FifoInv, [MCNext]_MCVars PROVE FifoInv'
    OBVIOUS
  <2>1. CASE UNCHANGED FifoVars
    BY <2>1 DEF FifoVars, FifoInv, BeforeTheFirst
  <2>2. CASE Fifo!Next
    BY <2>2, EnterKeepsInv, WriteKeepsInv, OpenAndCloseKeepInv, ReadKeepsInv DEF Fifo!Next
  <2>3. QED
    BY <2>1, <2>2 DEF MCNext, MCVars
<1>3. FifoInv => PrintsInOrder
  <2> SUFFICES ASSUME FifoInv PROVE Fifo!PrintsInOrder
    BY DEF PrintsInOrder
  <2>1. DOMAIN fifoPrinted = 1..Len(fifoPrinted)
    BY DEF FifoInv
  <2>2. \A k \in 1..Len(fifoPrinted) : fifoPrinted[k] \in 1..entered
    BY DEF FifoInv
  <2>3. QED
    BY <2>1, <2>2 DEF FifoInv, Fifo!PrintsInOrder
<1>4. QED
  BY <1>1, <1>2, <1>3, PTL DEF MCSpec
-----------------------------------------------------------------------------
(* The log.  LinesAreKept is not inductive: who has come past is_file found *)
(* the log file there, and so appends.                                      *)
LogPlaces == {"out", "timestamp", "init", "is_file", "open", "lock", "wait", "write",
              "unlock", "close", "end"}

LogTypes ==
  /\ at \in [Log!Loggers -> LogPlaces]
  /\ mode \in [Log!Loggers -> {"none", "a", "w"}]
  /\ logged \in [Log!Loggers -> Nat]

AllAppend ==
  shipped =>
    /\ log \in Seq(Log!Loggers \X Nat)
    /\ \A a \in Log!Loggers : at[a] \in {"open", "lock", "wait", "write"} => mode[a] = "a"

LogInv == LogTypes /\ AllAppend /\ LinesAreKept

(* The lines are the pairs of a logger and one of its numbers. *)
LEMMA LinesArePairs ==
  \A line : line \in Log!Lines
              <=> \E a \in Log!Loggers : \E n \in 1..logged[a] : line = <<a, n>>
BY DEF Log!Lines

(* Who has logged one more line adds that line. *)
LEMMA NextLine ==
  ASSUME LogTypes, NEW a \in Log!Loggers, logged' = [logged EXCEPT ![a] = @ + 1]
  PROVE  \A line : line \in Log!Lines' <=> line \in Log!Lines \/ line = <<a, logged[a] + 1>>
<1>1. \A b \in Log!Loggers :
        logged'[b] = IF b = a THEN logged[a] + 1 ELSE logged[b]
  BY DEF LogTypes
<1>2. logged[a] \in Nat
  BY DEF LogTypes
<1>3. \A line : line \in Log!Lines'
                  <=> \E b \in Log!Loggers : \E n \in 1..logged'[b] : line = <<b, n>>
  BY DEF Log!Lines, Log!Loggers
<1>4. \A n : n \in 1..(logged[a] + 1) <=> n \in 1..logged[a] \/ n = logged[a] + 1
  BY <1>2
<1>5. QED
  BY <1>1, <1>3, <1>4, LinesArePairs

(* The line that a logger writes joins the others at the end of the file,   *)
(* whole or cut.                                                            *)
LEMMA WriteKeepsLines ==
  ASSUME LogInv, shipped, NEW a \in Log!Loggers,
         logged' = [logged EXCEPT ![a] = @ + 1],
         log' = Append(log, <<a, logged[a] + 1>>),
         failed \subseteq failed'
  PROVE  LinesAreKept'
<1> DEFINE new == <<a, logged[a] + 1>>
<1>1. /\ logged \in [Log!Loggers -> Nat] /\ log \in Seq(Log!Loggers \X Nat)
      /\ new \in Log!Loggers \X Nat
  BY DEF LogInv, LogTypes, AllAppend
<1>2. /\ DOMAIN log = 1..Len(log) /\ DOMAIN log' = 1..(Len(log) + 1) /\ Len(log) \in Nat
      /\ \A k \in 1..Len(log) : log'[k] = log[k]
      /\ log'[Len(log) + 1] = new
  BY <1>1
<1>3. /\ \A line \in Log!Lines \ failed : \E k \in 1..Len(log) : log[k] = line
      /\ \A k \in 1..Len(log) : log[k] \in Log!Lines
      /\ \A j, k \in 1..Len(log) : j < k /\ log[j][1] = log[k][1] => log[j][2] < log[k][2]
  BY <1>2 DEF LogInv, LinesAreKept, Log!LinesAreKept
<1>4. \A line : line \in Log!Lines' <=> line \in Log!Lines \/ line = new
  BY NextLine DEF LogInv
<1>5. \A line \in Log!Lines' \ failed' : \E k \in DOMAIN log' : log'[k] = line
  <2> SUFFICES ASSUME NEW line \in Log!Lines' \ failed'
               PROVE  \E k \in DOMAIN log' : log'[k] = line
    OBVIOUS
  <2>1. CASE line \in Log!Lines
    <3>1. PICK k \in 1..Len(log) : log[k] = line
      BY <1>3, <2>1
    <3>2. QED
      BY <1>2, <3>1
  <2>2. CASE line = new
    BY <1>2, <2>2
  <2>3. QED
    BY <1>4, <2>1, <2>2
<1>6. \A k \in DOMAIN log' : k \in 1..Len(log) \/ k = Len(log) + 1
  BY <1>2
<1>7. \A k \in DOMAIN log' : log'[k] \in Log!Lines'
  BY <1>2, <1>3, <1>4, <1>6
<1>8. \A j, k \in DOMAIN log' :
        j < k /\ log'[j][1] = log'[k][1] => log'[j][2] < log'[k][2]
  <2> SUFFICES ASSUME NEW j \in DOMAIN log', NEW k \in DOMAIN log',
                      j < k, log'[j][1] = log'[k][1]
               PROVE  log'[j][2] < log'[k][2]
    OBVIOUS
  <2>1. j \in 1..Len(log)
    BY <1>2
  <2>2. CASE k \in 1..Len(log)
    BY <1>2, <1>3, <2>1, <2>2
  <2>3. CASE k = Len(log) + 1
    <3>1. PICK b \in Log!Loggers : \E n \in 1..logged[b] : log[j] = <<b, n>>
      BY <1>3, <2>1, LinesArePairs
    <3>2. PICK n \in 1..logged[b] : log[j] = <<b, n>>
      BY <3>1
    <3>3. log'[j] = <<b, n>> /\ log'[k] = <<a, logged[a] + 1>>
      BY <1>2, <2>1, <2>3, <3>2
    <3>4. b = a /\ log'[j][2] = n /\ log'[k][2] = logged[a] + 1
      BY <3>3
    <3>5. logged[a] \in Nat
      BY <1>1
    <3>6. QED
      BY <3>4, <3>5
  <2>4. QED
    BY <1>6, <2>2, <2>3
<1>9. QED
  BY <1>5, <1>7, <1>8 DEF LinesAreKept, Log!LinesAreKept

(* A line whose fopen or write failed leaves the file as it is. *)
LEMMA LostLineKeepsLines ==
  ASSUME LogInv, shipped, NEW a \in Log!Loggers,
         logged' = [logged EXCEPT ![a] = @ + 1],
         log' = log,
         failed' = failed \cup {<<a, logged[a] + 1>>}
  PROVE  LinesAreKept'
<1>1. \A line : line \in Log!Lines' <=> line \in Log!Lines \/ line = <<a, logged[a] + 1>>
  BY NextLine DEF LogInv
<1>2. /\ \A line \in Log!Lines \ failed : \E k \in DOMAIN log : log[k] = line
      /\ \A k \in DOMAIN log : log[k] \in Log!Lines
      /\ \A j, k \in DOMAIN log :
           j < k /\ log[j][1] = log[k][1] => log[j][2] < log[k][2]
  BY DEF LogInv, LinesAreKept, Log!LinesAreKept
<1>3. /\ \A line \in Log!Lines' \ failed' : \E k \in DOMAIN log' : log'[k] = line
      /\ \A k \in DOMAIN log' : log'[k] \in Log!Lines'
  BY <1>1, <1>2
<1>4. QED
  BY <1>2, <1>3 DEF LinesAreKept, Log!LinesAreKept

(* Every step keeps the lines; only fopen could truncate the file. *)
LEMMA LogKeepsInv == ASSUME LogInv, Log!Next PROVE LogInv'
<1> USE DEF Log!Go
<1>1. LogTypes'
  <2> USE DEF LogInv, LogTypes, LogPlaces, Log!Loggers, Log!Handler
  <2>1. ASSUME NEW t \in Threads, Log!prevent_zombie(t) \/ Log!Call(t) PROVE LogTypes'
    BY <2>1 DEF Log!prevent_zombie, Log!Call
  <2>2. ASSUME NEW a \in Log!Loggers, Log!Write(a) PROVE LogTypes'
    BY <2>2 DEF Log!Write, Log!Fails
  <2>3. ASSUME NEW a \in Log!Loggers, Log!is_file(a) \/ Log!Close(a) PROVE LogTypes'
    BY <2>3 DEF Log!is_file, Log!Close
  <2>4. ASSUME NEW a \in Log!Loggers,
               Log!get_timestamp(a) \/ Log!logging_init(a) \/ Log!Open(a) \/ Log!Lock(a)
                 \/ Log!Wait(a) \/ Log!Unlock(a)
        PROVE  LogTypes'
    BY <2>4 DEF Log!get_timestamp, Log!logging_init, Log!Open, Log!Lock, Log!Wait, Log!Unlock
  <2>5. QED
    BY <2>1, <2>2, <2>3, <2>4 DEF Log!Next, Log!_log
<1>2. shipped' = shipped
  BY DEF Log!Next, Log!prevent_zombie, Log!Call, Log!_log,
         Log!get_timestamp, Log!logging_init, Log!is_file, Log!Open, Log!Lock, Log!Wait,
         Log!Write, Log!Unlock, Log!Close
<1>3. CASE ~shipped
  BY <1>1, <1>2, <1>3 DEF LogInv, AllAppend, LinesAreKept, Log!LinesAreKept
<1>4. CASE shipped
  <2>1. ASSUME UNCHANGED <<log, logged, failed>>, AllAppend' PROVE LogInv'
    BY <1>1, <1>2, <2>1
       DEF LogInv, LinesAreKept, Log!LinesAreKept, Log!Lines, Log!Loggers
  <2>2. log # NoLog /\ log \in Seq(Log!Loggers \X Nat)
    BY <1>4, LoggerAssumption
       DEF LoggerAssumption, LogInv, AllAppend, Log!Loggers, Log!Handler
  <2>3. ASSUME NEW t \in Threads, Log!prevent_zombie(t) PROVE LogInv'
    BY <1>2, <1>4, <2>1, <2>3
       DEF LogInv, LogTypes, AllAppend, Log!prevent_zombie, Log!Loggers, Log!Handler
  <2>4. ASSUME NEW t \in Threads, Log!Call(t) PROVE LogInv'
    BY <1>2, <1>4, <2>1, <2>4 DEF LogInv, LogTypes, AllAppend, Log!Call, Log!Loggers
  <2>5. ASSUME NEW a \in Log!Loggers, Log!Open(a) PROVE LogInv'
    <3>1. log' = log
      BY <1>4, <2>2, <2>5 DEF LogInv, AllAppend, Log!Open
    <3>2. AllAppend'
      BY <1>2, <1>4, <2>5, <3>1 DEF LogInv, LogTypes, AllAppend, Log!Open, Log!Loggers
    <3>3. \/ UNCHANGED <<logged, failed>>
          \/ /\ logged' = [logged EXCEPT ![a] = @ + 1]
             /\ failed' = failed \cup {<<a, logged[a] + 1>>}
      BY <2>5 DEF Log!Open, Log!Fails, Log!Line
    <3>4. QED
      BY <1>1, <1>4, <2>1, <3>1, <3>2, <3>3, LostLineKeepsLines DEF LogInv
  <2>6. ASSUME NEW a \in Log!Loggers, Log!Write(a) PROVE LogInv'
    <3>1. mode[a] = "a" /\ logged' = [logged EXCEPT ![a] = @ + 1]
      BY <1>4, <2>6 DEF LogInv, AllAppend, Log!Write
    <3>2. \/ log' = Append(log, <<a, logged[a] + 1>>) /\ failed \subseteq failed'
          \/ log' = log /\ failed' = failed \cup {<<a, logged[a] + 1>>}
      BY <2>6, <3>1 DEF Log!Write, Log!Fails, Log!Line
    <3>3. LinesAreKept'
      BY <1>4, <3>1, <3>2, WriteKeepsLines, LostLineKeepsLines
    <3>4. <<a, logged[a] + 1>> \in Log!Loggers \X Nat
      BY DEF LogInv, LogTypes
    <3>5. log' \in Seq(Log!Loggers \X Nat)
      <4>1. Append(log, <<a, logged[a] + 1>>) \in Seq(Log!Loggers \X Nat)
        BY <2>2, <3>4
      <4>2. QED
        BY <2>2, <3>2, <4>1
    <3>6. AllAppend'
      BY <1>2, <1>4, <2>6, <3>5 DEF LogInv, LogTypes, AllAppend, Log!Write, Log!Loggers
    <3>7. QED
      BY <1>1, <3>3, <3>6 DEF LogInv
  <2>7. ASSUME NEW a \in Log!Loggers, Log!is_file(a) PROVE LogInv'
    BY <1>2, <1>4, <2>1, <2>2, <2>7
       DEF LogInv, LogTypes, AllAppend, Log!is_file, Log!Loggers
  <2>8. ASSUME NEW a \in Log!Loggers,
               Log!get_timestamp(a) \/ Log!logging_init(a) \/ Log!Lock(a) \/ Log!Wait(a)
                 \/ Log!Unlock(a)
        PROVE  LogInv'
    BY <1>2, <1>4, <2>1, <2>8
       DEF LogInv, LogTypes, AllAppend, Log!get_timestamp, Log!logging_init, Log!Lock,
           Log!Wait, Log!Unlock, Log!Loggers
  <2>9. ASSUME NEW a \in Log!Loggers, Log!Close(a) PROVE LogInv'
    BY <1>2, <1>4, <2>1, <2>9 DEF LogInv, LogTypes, AllAppend, Log!Close, Log!Loggers
  <2>10. QED
    BY <2>3, <2>4, <2>5, <2>6, <2>7, <2>8, <2>9 DEF Log!Next, Log!_log
<1>5. QED
  BY <1>3, <1>4

(* With the log file there at the start, a line is missing or cut only if   *)
(* its own fopen or write failed (the test of fp, os_debug.c:63, has no     *)
(* else), although logging_init frees a mutex that is held                  *)
(* (os_debug.c:53-76, 153-157).                                             *)
THEOREM LogLosesNoLine == MCSpec => []LinesAreKept
<1>1. MCInit => LogInv
  <2> SUFFICES ASSUME Log!Init PROVE LogInv
    BY DEF MCInit
  <2>1. LogTypes
    BY DEF Log!Init, LogTypes, LogPlaces
  <2>2. ASSUME shipped
        PROVE  log \in Seq(Log!Loggers \X Nat) /\ DOMAIN log = {}
    BY <2>2 DEF Log!Init
  <2>3. \A a \in Log!Loggers : at[a] = "out" /\ logged[a] = 0
    BY DEF Log!Init
  <2>4. \A line : line \notin Log!Lines
    BY <2>3, LinesArePairs
  <2>5. QED
    BY <2>1, <2>2, <2>3, <2>4 DEF LogInv, AllAppend, LinesAreKept, Log!LinesAreKept
<1>2. LogInv /\ [MCNext]_MCVars => LogInv'
  <2> SUFFICES ASSUME LogInv, [MCNext]_MCVars PROVE LogInv'
    OBVIOUS
  <2>1. CASE UNCHANGED LogVars
    BY <2>1 DEF LogVars, LogInv, LogTypes, AllAppend, LinesAreKept, Log!LinesAreKept,
                Log!Lines, Log!Loggers
  <2>2. QED
    BY <2>1, LogKeepsInv DEF MCNext, MCVars
<1>3. LogInv => LinesAreKept
  BY DEF LogInv
<1>4. QED
  BY <1>1, <1>2, <1>3, PTL DEF MCSpec

-----------------------------------------------------------------------------
(* The handler.  It has freed the mutex itself (logging_init), so that who   *)
(* holds it afterwards is a thread that ran since, and the interrupted one   *)
(* did not.                                                                  *)
HandlerInv ==
  /\ at \in [Log!Loggers -> LogPlaces]
  /\ word # 0 /\ at[Log!Handler] \in {"is_file", "open", "lock", "wait"}
       => \E t \in Threads \ {under} : at[t] \in Log!Holding

(* A step of the handler itself takes the mutex only when it is free. *)
LEMMA HandlerStepKeepsInv ==
  ASSUME HandlerInv, Log!_log(Log!Handler) PROVE HandlerInv'
<1>1. Log!Handler \notin Threads /\ Log!Handler \in Log!Loggers
  BY LoggerAssumption DEF LoggerAssumption, Log!Handler, Log!Loggers
<1>2. \A t \in Threads : t \in Log!Loggers /\ t # Log!Handler
  BY <1>1 DEF Log!Loggers
<1>3. under' = under /\ \A t \in Threads : at'[t] = at[t]
  BY <1>1, <1>2
     DEF HandlerInv, Log!_log, Log!Go, Log!get_timestamp, Log!logging_init, Log!is_file,
         Log!Open, Log!Lock, Log!Wait, Log!Write, Log!Unlock, Log!Close
<1>4. at' \in [Log!Loggers -> LogPlaces]
  BY DEF HandlerInv, LogPlaces, Log!_log, Log!Go, Log!get_timestamp, Log!logging_init,
         Log!is_file, Log!Open, Log!Lock, Log!Wait, Log!Write, Log!Unlock, Log!Close
<1>5. word' # 0 /\ at'[Log!Handler] \in {"is_file", "open", "lock", "wait"}
        => word # 0 /\ at[Log!Handler] \in {"is_file", "open", "lock", "wait"}
  BY <1>1 DEF HandlerInv, Log!_log, Log!Go, Log!get_timestamp, Log!logging_init,
         Log!is_file, Log!Open, Log!Lock, Log!Wait, Log!Write, Log!Unlock, Log!Close
<1>6. QED
  BY <1>3, <1>4, <1>5 DEF HandlerInv, Log!Loggers, Log!Handler, Log!Holding

(* The thread that the handler interrupted does nothing before its end; any  *)
(* other one that leaves the mutex frees it.                                 *)
LEMMA ThreadStepKeepsInv ==
  ASSUME HandlerInv, NEW t \in Threads, Log!Call(t) \/ Log!_log(t) PROVE HandlerInv'
<1>1. Log!Handler \notin Threads /\ Log!Handler \in Log!Loggers
  BY LoggerAssumption DEF LoggerAssumption, Log!Handler, Log!Loggers
<1>2. \A s \in Threads : s \in Log!Loggers /\ s # Log!Handler
  BY <1>1 DEF Log!Loggers
<1> USE DEF Log!_log, Log!Go, Log!Call, Log!get_timestamp, Log!logging_init, Log!is_file,
            Log!Open, Log!Lock, Log!Wait, Log!Write, Log!Unlock, Log!Close
<1>3. under' = under /\ \A a \in Log!Loggers \ {t} : at'[a] = at[a]
  BY <1>1, <1>2 DEF HandlerInv
<1>4. at' \in [Log!Loggers -> LogPlaces]
  BY <1>2 DEF HandlerInv, LogPlaces
<1>5. ASSUME word' # 0, at'[Log!Handler] \in {"is_file", "open", "lock", "wait"}
      PROVE  \E s \in Threads \ {under} : at'[s] \in Log!Holding
  <2>1. at[Log!Handler] = at'[Log!Handler]
    BY <1>1, <1>2, <1>3
  <2>2. t # under
    BY <1>2, <1>5, <2>1 DEF Log!Runs
  <2>3. CASE at'[t] \in Log!Holding
    BY <2>2, <2>3
  <2>4. CASE at'[t] \notin Log!Holding
    <3>1. word # 0 /\ at[t] \notin Log!Holding
      BY <1>2, <1>5, <2>4 DEF HandlerInv, Log!Holding
    <3>2. PICK s \in Threads \ {under} : at[s] \in Log!Holding
      BY <1>5, <2>1, <3>1 DEF HandlerInv
    <3>3. QED
      BY <1>2, <1>3, <3>1, <3>2
  <2>5. QED
    BY <2>3, <2>4
<1>6. QED
  BY <1>3, <1>4, <1>5 DEF HandlerInv, Log!Loggers, Log!Handler, Log!Holding

(* When the handler of SIGCHLD goes to sleep for logging_mutex, a thread      *)
(* that it did not interrupt holds the mutex (main-server.c:367-370,          *)
(* os_debug.c:40-41, 65).                                                     *)
THEOREM HandlerDoesNotWaitForItsThread == MCSpec => HandlerWaitsForOthers
<1>1. MCInit => HandlerInv
  BY DEF MCInit, Log!Init, HandlerInv, LogPlaces, Log!Loggers, Log!Handler
<1>2. HandlerInv /\ [MCNext]_MCVars => HandlerInv'
  <2> SUFFICES ASSUME HandlerInv, [MCNext]_MCVars PROVE HandlerInv'
    OBVIOUS
  <2>1. CASE UNCHANGED LogVars
    BY <2>1 DEF LogVars, HandlerInv, Log!Loggers, Log!Handler, Log!Holding
  <2>2. ASSUME NEW t \in Threads, Log!prevent_zombie(t) PROVE HandlerInv'
    BY <2>2 DEF HandlerInv, LogPlaces, Log!prevent_zombie, Log!Loggers, Log!Handler
  <2>3. CASE Log!Next
    BY <2>2, <2>3, HandlerStepKeepsInv, ThreadStepKeepsInv DEF Log!Next, Log!Loggers
  <2>4. QED
    BY <2>1, <2>3 DEF MCNext, MCVars
<1>3. HandlerInv /\ [MCNext]_MCVars
        => [ (Log!Handler \in sleeping' /\ Log!Handler \notin sleeping)
               => \E t \in Threads \ {under} : at[t] \in Log!Holding ]_Log!loggerVars
  <2> SUFFICES ASSUME HandlerInv, [MCNext]_MCVars,
                      Log!Handler \in sleeping', Log!Handler \notin sleeping
               PROVE  \E t \in Threads \ {under} : at[t] \in Log!Holding
    BY DEF Log!loggerVars
  <2>1. Log!Next
    BY DEF MCNext, MCVars, LogVars
  <2>2. Log!Wait(Log!Handler) /\ word # 0
    BY <2>1
       DEF Log!Next, Log!prevent_zombie, Log!Call, Log!_log, Log!Go, Log!get_timestamp,
           Log!logging_init, Log!is_file, Log!Open, Log!Lock, Log!Wait, Log!Write,
           Log!Unlock, Log!Close
  <2>3. QED
    BY <2>2 DEF HandlerInv, Log!Wait, Log!Go
<1>4. QED
  BY <1>1, <1>2, <1>3, PTL DEF MCSpec, HandlerWaitsForOthers, Log!HandlerWaitsForOthers
-----------------------------------------------------------------------------
(* The chat.  At most one connection is open, while the server reads or      *)
(* writes; and a client that waits for an answer since before the server     *)
(* accepted it has a message on the way.                                     *)
StreamPieces == {"exit", "text", "rest"}

ChatPlaces ==
  /\ chatServer \in {"accept", "read", "respond", "dead"}
  /\ chatClient \in [Clients -> {"start", "enter", "read", "done"}]
  /\ connection \in [Clients -> {"none", "backlog", "open", "closed"}]
  /\ toServer \in [Clients -> Seq(StreamPieces)]
  /\ toClient \in [Clients -> Seq(StreamPieces)]
  /\ rough \in BOOLEAN

OneOpen ==
  /\ \A c, d \in Clients : connection[c] = "open" /\ connection[d] = "open" => c = d
  /\ chatServer \in {"accept", "dead"} => \A c \in Clients : connection[c] # "open"

ChatInv ==
  /\ ChatPlaces
  /\ OneOpen
  /\ \A c \in Clients :
       connection[c] = "backlog" /\ chatClient[c] = "read" => toServer[c] # <<>>
  /\ NeverBothWait

(* While no client was killed and no read was short, the two sides take      *)
(* turns: there is at most one message in the two streams, and none when     *)
(* the server is to answer.                                                  *)
Turn(c) ==
  \/ chatClient[c] = "enter" /\ toServer[c] = <<>> /\ toClient[c] = <<>>
  \/ chatClient[c] = "read" /\ toServer[c] = Chat!Message("text") /\ toClient[c] = <<>>
  \/ chatClient[c] = "done" /\ toServer[c] = Chat!Message("exit") /\ toClient[c] = <<>>

ServerTurn(c) ==
  \/ chatServer = "read" /\ Turn(c)
  \/ /\ chatServer = "read" /\ chatClient[c] = "read"
     /\ toServer[c] = <<>> /\ toClient[c] = Chat!Message("text")
  \/ /\ chatServer = "respond" /\ chatClient[c] = "read"
     /\ toServer[c] = <<>> /\ toClient[c] = <<>>

TurnInv ==
  ~rough =>
    /\ chatServer # "dead"
    /\ \A c \in Clients :
         /\ chatClient[c] = "start" <=> connection[c] = "none"
         /\ connection[c] = "none" => toServer[c] = <<>> /\ toClient[c] = <<>>
         /\ connection[c] # "closed" => c \notin reset
         /\ connection[c] = "backlog" => Turn(c)
         /\ connection[c] = "open" => ServerTurn(c)

(* A message is a sequence of Pieces pieces, the first of which is the word. *)
LEMMA MessageIs ==
  ASSUME NEW w \in Chat!Words
  PROVE  /\ Chat!Message(w) \in Seq(StreamPieces)
         /\ Len(Chat!Message(w)) = Pieces
         /\ Head(Chat!Message(w)) = w
<1>1. Pieces \in Nat /\ Pieces >= 1
  BY ChatAssumption DEF ChatAssumption
<1>2. Chat!Message(w) \in [1..Pieces -> StreamPieces]
  BY DEF Chat!Message, Chat!Words, StreamPieces
<1>3. Chat!Message(w) \in Seq(StreamPieces)
  BY <1>1, <1>2
<1>4. Len(Chat!Message(w)) = Pieces
  BY <1>1, <1>2, <1>3
<1>5. Head(Chat!Message(w)) = Chat!Message(w)[1]
  BY <1>1, <1>3, <1>4
<1>6. Chat!Message(w)[1] = w
  BY <1>1 DEF Chat!Message
<1>7. QED
  BY <1>3, <1>4, <1>5, <1>6

(* Adding a message to a stream, and reading from it *)
LEMMA StreamGrows ==
  ASSUME NEW stream \in Seq(StreamPieces), NEW w \in Chat!Words
  PROVE  /\ stream \o Chat!Message(w) \in Seq(StreamPieces)
         /\ stream \o Chat!Message(w) # <<>>
         /\ <<>> \o Chat!Message(w) = Chat!Message(w)
<1>1. Pieces \in Nat /\ Pieces >= 1
  BY ChatAssumption DEF ChatAssumption
<1>2. QED
  BY <1>1, MessageIs

LEMMA StreamShrinks ==
  ASSUME NEW stream \in Seq(StreamPieces), NEW n \in Chat!Reads(stream)
  PROVE  /\ stream # <<>> /\ n \in 1..Pieces
         /\ Chat!After(stream, n) \in Seq(StreamPieces)
         /\ n = Len(stream) => Chat!After(stream, n) = <<>>
<1>1. n \in 1..Pieces /\ n <= Len(stream)
  BY DEF Chat!Reads
<1>2. n + 1 \in 1..(Len(stream) + 1) /\ n \in Nat
  BY <1>1, ChatAssumption DEF ChatAssumption
<1>3. QED
  BY <1>1, <1>2 DEF Chat!After
(* The steps of a client change its own streams and nothing of the server.   *)
LEMMA ClientKeepsInv ==
  ASSUME ChatInv, NEW c \in Clients, Chat!client_chat_func(c) \/ Chat!ClientKilled(c)
  PROVE  ChatInv'
<1> USE DEF ChatInv, ChatPlaces, OneOpen, NeverBothWait, Chat!NeverBothWait
<1>1. CASE Chat!Connect(c)
  BY <1>1 DEF Chat!Connect
<1>2. CASE Chat!ClientWrites(c)
  <2>1. PICK w \in Chat!Words :
          /\ toServer' = IF connection[c] = "closed" THEN toServer
                         ELSE [toServer EXCEPT ![c] = @ \o Chat!Message(w)]
          /\ \/ /\ chatClient' = [chatClient EXCEPT ![c] = "read"]
                /\ UNCHANGED toClient
             \/ /\ chatClient' = [chatClient EXCEPT ![c] = "done"]
                /\ toClient' = [toClient EXCEPT ![c] = <<>>]
    BY <1>2 DEF Chat!ClientWrites, Chat!ClientCloses
  <2>2. UNCHANGED <<chatServer, connection, rough>>
    BY <1>2 DEF Chat!ClientWrites
  <2>3. /\ toServer[c] \o Chat!Message(w) \in Seq(StreamPieces)
        /\ toServer[c] \o Chat!Message(w) # <<>>
    BY StreamGrows
  <2>4. <<>> \in Seq(StreamPieces)
    OBVIOUS
  <2>5. QED
    BY <2>1, <2>2, <2>3, <2>4
<1>3. CASE Chat!ClientReads(c)
  <2>1. /\ chatClient' \in {[chatClient EXCEPT ![c] = "enter"], [chatClient EXCEPT ![c] = "done"]}
        /\ UNCHANGED <<chatServer, connection, toServer>>
    BY <1>3 DEF Chat!ClientReads, Chat!ClientCloses
  <2>2. PICK stream \in Seq(StreamPieces) : toClient' = [toClient EXCEPT ![c] = stream]
    <3>1. CASE \E n \in Chat!Reads(toClient[c]) :
                 toClient' = [toClient EXCEPT ![c] = Chat!After(@, n)]
      BY <3>1, StreamShrinks
    <3>2. CASE toClient' = [toClient EXCEPT ![c] = <<>>]
      <4>1. <<>> \in Seq(StreamPieces)
        OBVIOUS
      <4>2. QED
        BY <3>2, <4>1
    <3>3. CASE toClient' = toClient
      BY <3>3
    <3>4. QED
      BY <1>3, <3>1, <3>2, <3>3 DEF Chat!ClientReads, Chat!ClientCloses
  <2>3. rough' \in BOOLEAN
    BY <1>3 DEF Chat!ClientReads
  <2>4. QED
    BY <2>1, <2>2, <2>3
<1>4. CASE Chat!ClientWriteFails(c) \/ Chat!ClientKilled(c)
  <2>1. <<>> \in Seq(StreamPieces)
    OBVIOUS
  <2>2. QED
    BY <1>4, <2>1 DEF Chat!ClientWriteFails, Chat!ClientKilled, Chat!ClientCloses
<1>5. QED
  BY <1>1, <1>2, <1>3, <1>4 DEF Chat!client_chat_func

(* The steps of the server concern the open connection. *)
LEMMA ServerKeepsInv ==
  ASSUME ChatInv, Chat!Accept \/ Chat!server_chat_func PROVE ChatInv'
<1> USE DEF ChatInv, ChatPlaces, OneOpen, NeverBothWait, Chat!NeverBothWait
<1>1. CASE Chat!Accept
  BY <1>1 DEF Chat!Accept
<1>2. <<>> \in Seq(StreamPieces)
  OBVIOUS
<1>3. CASE Chat!ServerDies
  BY <1>2, <1>3 DEF Chat!ServerDies
<1>4. ASSUME NEW c \in Clients, Chat!ServerReads(c) PROVE ChatInv'
  <2>1. CASE \E n \in Chat!Reads(toServer[c]) :
               /\ chatServer' = "respond" /\ UNCHANGED connection
               /\ toServer' = [toServer EXCEPT ![c] = Chat!After(@, n)]
               /\ UNCHANGED <<chatClient, toClient>> /\ rough' \in BOOLEAN
    BY <1>4, <2>1, StreamShrinks DEF Chat!ServerReads
  <2>2. CASE /\ chatServer' = "accept" /\ connection' = [connection EXCEPT ![c] = "closed"]
             /\ toServer' = [toServer EXCEPT ![c] = <<>>]
             /\ UNCHANGED <<chatClient, toClient>> /\ rough' \in BOOLEAN
    BY <1>2, <1>4, <2>2 DEF Chat!ServerReads
  <2>3. CASE UNCHANGED <<chatClient, connection, toServer, toClient, rough>>
             /\ chatServer' = "respond"
    BY <1>4, <2>3 DEF Chat!ServerReads
  <2>4. QED
    BY <1>3, <1>4, <2>1, <2>2, <2>3 DEF Chat!ServerReads, Chat!ServerCloses
<1>5. ASSUME NEW c \in Clients, Chat!ServerWrites(c) PROVE ChatInv'
  <2>1. CASE \E w \in Chat!Words :
               /\ toClient' = IF chatClient[c] = "done" THEN toClient
                              ELSE [toClient EXCEPT ![c] = @ \o Chat!Message(w)]
               /\ \/ chatServer' = "read" /\ UNCHANGED <<connection, toServer>>
                  \/ /\ chatServer' = "accept"
                     /\ connection' = [connection EXCEPT ![c] = "closed"]
                     /\ toServer' = [toServer EXCEPT ![c] = <<>>]
               /\ UNCHANGED <<chatClient, rough>>
    <3>1. PICK w \in Chat!Words :
            /\ toClient' = IF chatClient[c] = "done" THEN toClient
                           ELSE [toClient EXCEPT ![c] = @ \o Chat!Message(w)]
            /\ \/ chatServer' = "read" /\ UNCHANGED <<connection, toServer>>
               \/ /\ chatServer' = "accept"
                  /\ connection' = [connection EXCEPT ![c] = "closed"]
                  /\ toServer' = [toServer EXCEPT ![c] = <<>>]
            /\ UNCHANGED <<chatClient, rough>>
      BY <2>1
    <3>2. /\ toClient[c] \o Chat!Message(w) \in Seq(StreamPieces)
          /\ toClient[c] \o Chat!Message(w) # <<>>
      BY StreamGrows
    <3>3. chatServer = "respond" /\ connection[c] = "open"
      BY <1>5 DEF Chat!ServerWrites
    <3>4. QED
      BY <1>2, <3>1, <3>2, <3>3
  <2>2. QED
    BY <1>3, <1>5, <2>1 DEF Chat!ServerWrites, Chat!ServerCloses
<1>6. QED
  BY <1>1, <1>4, <1>5 DEF Chat!server_chat_func

(* The invariant holds at the start, and in every step of any program.       *)
LEMMA ChatStarts == MCInit => ChatInv
<1>1. <<>> \in Seq(StreamPieces)
  OBVIOUS
<1>2. QED
  BY <1>1 DEF MCInit, Chat!Init, ChatInv, ChatPlaces, OneOpen, NeverBothWait,
              Chat!NeverBothWait

LEMMA ChatKeepsInv == ChatInv /\ [MCNext]_MCVars => ChatInv'
<1> SUFFICES ASSUME ChatInv, [MCNext]_MCVars PROVE ChatInv'
  OBVIOUS
<1>1. CASE UNCHANGED ChatVars
  BY <1>1 DEF ChatVars, ChatInv, ChatPlaces, OneOpen, NeverBothWait, Chat!NeverBothWait
<1>2. CASE Chat!Next
  BY <1>2, ClientKeepsInv, ServerKeepsInv DEF Chat!Next
<1>3. QED
  BY <1>1, <1>2 DEF MCNext, MCVars

(* Although neither side waits for a whole message, the two are never both   *)
(* in read with nothing on the way (stream_server.c:33, stream_client.c:42). *)
THEOREM ChatNeverBothWait == MCSpec => []NeverBothWait
<1>1. ChatInv => NeverBothWait
  BY DEF ChatInv
<1>2. QED
  BY <1>1, ChatStarts, ChatKeepsInv, PTL DEF MCSpec

(* What a read that is not short returns, and what is left then *)
LEMMA WholeRead ==
  ASSUME NEW w \in Chat!Words, NEW n \in Chat!Reads(Chat!Message(w)), ~(n < Pieces)
  PROVE  Head(Chat!Message(w)) = w /\ Chat!After(Chat!Message(w), n) = <<>>
<1>1. n = Pieces
  BY ChatAssumption DEF ChatAssumption, Chat!Reads
<1>2. QED
  BY <1>1, MessageIs, StreamShrinks

LEMMA NothingToRead == Chat!Reads(<<>>) = {}
BY ChatAssumption DEF ChatAssumption, Chat!Reads

(* The client's turn, in a connection that is open or waits to be accepted *)
LEMMA ClientTakesTurns ==
  ASSUME ChatInv, TurnInv, NEW c \in Clients, ~rough',
         Chat!client_chat_func(c) \/ Chat!ClientKilled(c)
  PROVE  TurnInv'
<1> USE DEF TurnInv, Turn, ServerTurn, ChatPlaces
<1>1. ChatPlaces /\ ~rough
  BY DEF ChatInv, Chat!client_chat_func, Chat!Connect, Chat!ClientWrites,
         Chat!ClientWriteFails, Chat!ClientReads, Chat!ClientKilled
<1>2. CASE Chat!Connect(c)
  BY <1>1, <1>2 DEF Chat!Connect
<1>3. CASE Chat!ClientWrites(c)
  <2>1. <<>> \o Chat!Message("text") = Chat!Message("text")
        /\ <<>> \o Chat!Message("exit") = Chat!Message("exit")
    <3>1. <<>> \in Seq(StreamPieces) /\ {"text", "exit"} \subseteq Chat!Words
      BY DEF Chat!Words
    <3>2. QED
      BY <3>1, StreamGrows
  <2>2. CASE connection[c] = "closed"
    <3>1. /\ chatClient'[c] # "start" /\ chatClient[c] # "start"
          /\ \A d \in Clients \ {c} : chatClient'[d] = chatClient[d] /\ toClient'[d] = toClient[d]
          /\ \A d \in Clients \ {c} : d \in reset' => d \in reset
          /\ UNCHANGED <<chatServer, connection, toServer>>
      BY <1>1, <1>3, <2>2 DEF Chat!ClientWrites, Chat!ClientCloses
    <3>2. QED
      BY <1>1, <2>2, <3>1
  <2>3. CASE connection[c] # "closed"
    <3>1. toServer[c] = <<>> /\ toClient[c] = <<>> /\ c \notin reset
          /\ (connection[c] = "open" => chatServer = "read")
      BY <1>1, <1>3, <2>3 DEF Chat!ClientWrites
    <3>2. /\ \/ /\ toServer' = [toServer EXCEPT ![c] = Chat!Message("text")]
                /\ chatClient' = [chatClient EXCEPT ![c] = "read"]
                /\ UNCHANGED toClient
             \/ /\ toServer' = [toServer EXCEPT ![c] = Chat!Message("exit")]
                /\ chatClient' = [chatClient EXCEPT ![c] = "done"]
                /\ toClient' = [toClient EXCEPT ![c] = <<>>]
          /\ UNCHANGED <<chatServer, connection, reset>>
      BY <1>1, <1>3, <2>1, <2>3, <3>1, ZenonT(30)
         DEF Chat!ClientWrites, Chat!ClientCloses, Chat!Words
    <3>3. chatClient[c] = "enter"
      BY <1>3 DEF Chat!ClientWrites
    <3>4. /\ Turn(c)' /\ chatClient'[c] # "start" /\ connection[c] # "none"
          /\ chatServer' = chatServer /\ chatServer # "dead"
          /\ connection[c] = "open" => ServerTurn(c)'
      BY <1>1, <2>3, <3>1, <3>2, <3>3
    <3>5. ASSUME NEW d \in Clients \ {c}
          PROVE  /\ chatClient'[d] = chatClient[d] /\ toServer'[d] = toServer[d]
                 /\ toClient'[d] = toClient[d]
      BY <1>1, <3>2
    <3>6. QED
      BY <1>1, <2>3, <3>1, <3>2, <3>4, <3>5
  <2>4. QED
    BY <2>2, <2>3
<1>4. CASE Chat!ClientWriteFails(c)
  BY <1>1, <1>4 DEF Chat!ClientWriteFails, Chat!ClientCloses
<1>5. CASE Chat!ClientReads(c)
  <2>1. CASE connection[c] = "closed"
    <3>1. /\ chatClient'[c] # "start"
          /\ \A d \in Clients \ {c} : chatClient'[d] = chatClient[d] /\ toClient'[d] = toClient[d]
          /\ reset' \in {reset, reset \cup {c}}
          /\ UNCHANGED <<chatServer, connection, toServer>>
      BY <1>1, <1>5, <2>1 DEF Chat!ClientReads, Chat!ClientCloses
    <3>2. QED
      BY <1>1, <2>1, <3>1
  <2>2. CASE connection[c] # "closed"
    <3>1. PICK n \in Chat!Reads(toClient[c]) : ~(n < Pieces)
      BY <1>1, <1>5, <2>2 DEF Chat!ClientReads
    <3>2. /\ connection[c] = "open" /\ chatServer = "read" /\ toServer[c] = <<>>
          /\ toClient[c] = Chat!Message("text")
      BY <1>1, <1>5, <2>2, <3>1, NothingToRead DEF Chat!ClientReads
    <3>3. /\ chatClient' = [chatClient EXCEPT ![c] = "enter"]
          /\ toClient' = [toClient EXCEPT ![c] = <<>>]
          /\ UNCHANGED <<chatServer, connection, toServer, reset>>
      <4>1. "text" \in Chat!Words /\ Chat!Message("text") # <<>>
        BY NothingToRead, <3>1, <3>2 DEF Chat!Words
      <4>2. Head(toClient[c]) # "exit"
        BY <3>1, <3>2, <4>1, WholeRead
      <4>3. PICK m \in Chat!Reads(toClient[c]) :
              ~(m < Pieces) /\ toClient' = [toClient EXCEPT ![c] = Chat!After(@, m)]
        BY <1>5, <2>2, <3>2, <4>1, <4>2 DEF Chat!ClientReads
      <4>4. Chat!After(toClient[c], m) = <<>>
        BY <3>2, <4>1, <4>3, WholeRead
      <4>5. QED
        BY <1>5, <2>2, <3>2, <4>1, <4>2, <4>3, <4>4 DEF Chat!ClientReads
    <3>4. QED
      BY <1>1, <3>2, <3>3
  <2>3. QED
    BY <2>1, <2>2
<1>6. QED
  BY <1>2, <1>3, <1>4, <1>5 DEF Chat!client_chat_func, Chat!ClientKilled

(* The server's turn: it never finds its connection reset, nor its end.      *)
LEMMA ServerTakesTurns ==
  ASSUME ChatInv, TurnInv, ~rough', Chat!Accept \/ Chat!server_chat_func
  PROVE  TurnInv'
<1> USE DEF TurnInv, Turn, ServerTurn, ChatPlaces
<1>1. CASE Chat!Accept
  BY <1>1 DEF ChatInv, OneOpen, Chat!Accept
<1>2. ASSUME NEW c \in Clients, Chat!ServerReads(c) PROVE TurnInv'
  <2>1. ChatPlaces /\ ~rough /\ connection[c] = "open" /\ chatServer = "read" /\ c \notin reset
    BY <1>2 DEF ChatInv, Chat!ServerReads, Chat!ServerDies
  <2>2. toServer[c] # <<>>
    <3>1. "exit" \in Chat!Words /\ <<>> \in Seq(StreamPieces)
      BY DEF Chat!Words
    <3>2. Chat!Message("exit") # <<>>
      BY <3>1, MessageIs, ChatAssumption DEF ChatAssumption
    <3>3. QED
      BY <1>2, <2>1, <3>2, NothingToRead DEF Chat!ServerReads
  <2>3. PICK w \in Chat!Words : toServer[c] = Chat!Message(w) /\ toClient[c] = <<>>
                                 /\ chatClient[c] = IF w = "text" THEN "read" ELSE "done"
    BY <2>1, <2>2 DEF Chat!Words
  <2>4. PICK n \in Chat!Reads(toServer[c]) :
          /\ ~(n < Pieces)
          /\ UNCHANGED <<chatClient, toClient>>
          /\ \/ /\ Head(toServer[c]) # "exit"
                /\ toServer' = [toServer EXCEPT ![c] = Chat!After(@, n)]
                /\ chatServer' = "respond"
                /\ UNCHANGED <<connection, reset>>
             \/ /\ Head(toServer[c]) = "exit"
                /\ Chat!ServerCloses(c, Chat!After(toServer[c], n))
    BY <1>2, <2>1, <2>2 DEF Chat!ServerReads
  <2>5. Head(toServer[c]) = w /\ Chat!After(toServer[c], n) = <<>>
    BY <2>3, <2>4, WholeRead
  <2>6. \A d \in Clients : connection[d] = "open" => d = c
    BY <2>1 DEF ChatInv, OneOpen
  <2>7. QED
    BY <2>1, <2>3, <2>4, <2>5, <2>6 DEF Chat!ServerCloses, Chat!Words
<1>3. ASSUME NEW c \in Clients, Chat!ServerWrites(c) PROVE TurnInv'
  <2>1. ChatPlaces /\ ~rough /\ connection[c] = "open" /\ chatServer = "respond"
    BY <1>3 DEF ChatInv, Chat!ServerWrites, Chat!ServerDies
  <2>2. chatClient[c] = "read" /\ toServer[c] = <<>> /\ toClient[c] = <<>> /\ c \notin reset
    BY <2>1
  <2>3. \A d \in Clients : connection[d] = "open" => d = c
    BY <2>1 DEF ChatInv, OneOpen
  <2>4. PICK w \in Chat!Words :
          /\ toClient' = [toClient EXCEPT ![c] = @ \o Chat!Message(w)]
          /\ \/ w = "text" /\ chatServer' = "read" /\ UNCHANGED <<reset, connection, toServer>>
             \/ w = "exit" /\ Chat!ServerCloses(c, toServer[c])
          /\ UNCHANGED chatClient
    BY <1>3, <2>2 DEF Chat!ServerWrites
  <2>5. <<>> \o Chat!Message(w) = Chat!Message(w)
    <3>1. <<>> \in Seq(StreamPieces)
      OBVIOUS
    <3>2. QED
      BY <3>1, StreamGrows
  <2>6. QED
    BY <2>1, <2>2, <2>3, <2>4, <2>5 DEF Chat!ServerCloses
<1>4. QED
  BY <1>1, <1>2, <1>3 DEF Chat!server_chat_func

(* exit from either side ends one chat and leaves the server at work         *)
(* (stream_server.c:36, 52), unless a client was killed or a read was short. *)
THEOREM ChatExitIsOrderly == MCSpec => []ExitIsOrderly
<1>1. MCInit => TurnInv
  BY DEF MCInit, Chat!Init, TurnInv
<1>2. ChatInv /\ TurnInv /\ [MCNext]_MCVars => TurnInv'
  <2> SUFFICES ASSUME ChatInv, TurnInv, [MCNext]_MCVars PROVE TurnInv'
    OBVIOUS
  <2>1. CASE UNCHANGED ChatVars
    BY <2>1 DEF ChatVars, TurnInv, Turn, ServerTurn, Chat!Message
  <2>2. CASE Chat!Next
    <3>1. CASE rough'
      BY <3>1 DEF TurnInv
    <3>2. CASE ~rough'
      BY <2>2, <3>2, ClientTakesTurns, ServerTakesTurns DEF Chat!Next
    <3>3. QED
      BY <3>1, <3>2
  <2>3. QED
    BY <2>1, <2>2 DEF MCNext, MCVars
<1>3. TurnInv => ExitIsOrderly
  BY DEF TurnInv, ExitIsOrderly, Chat!ExitIsOrderly
<1>4. QED
  BY <1>1, <1>2, <1>3, ChatStarts, ChatKeepsInv, PTL DEF MCSpec
-----------------------------------------------------------------------------
(* The file server, unless a read fails.  EndMeansComplete is not inductive: *)
(* that END is sent after the last block has to be carried from the child,   *)
(* over the queue, to the client, and no client may be served twice.         *)
Ended == {"zombie", "reaped"}

(* Message i of a queue is the block after those before it, or the last     *)
(* message of a child that has ended.                                       *)
Block(c, i) == queue[c][i] = Len(got[c]) + i /\ queue[c][i] <= pos[c]
Final(c, i) ==
  /\ i = Len(queue[c])
  /\ child[c] \in Ended
  /\ \/ queue[c][i] = FAILURE /\ i <= Room
     \/ queue[c][i] = END /\ i <= Room + 1 /\ Len(got[c]) + i - 1 = file[c]

Received(c) ==
  /\ got[c] \in Seq(Nat)
  /\ \A i \in 1..Len(got[c]) : got[c][i] = i
  /\ Len(got[c]) <= pos[c]
  /\ client[c] = "complete" => Len(got[c]) = file[c]

Underway(c) ==
  queue[c] # NoQueue =>
    /\ queue[c] \in Seq(Int)
    /\ \A i \in 1..Len(queue[c]) : (Block(c, i) /\ i <= Room) \/ Final(c, i)

(* A client has a queue until its child is done with it, and the blocks the *)
(* child has read are with the client or underway.                          *)
Served(c) ==
  LET sent == Len(got[c]) + Len(queue[c]) IN
  /\ client[c] = "start" => child[c] = "none"
  /\ client[c] # "start" /\ child[c] \notin Ended => queue[c] # NoQueue
  /\ child[c] \in {"none", "open"} =>
       /\ pos[c] = 0 /\ got[c] = <<>>
       /\ queue[c] \in {NoQueue, <<>>}
  /\ child[c] = "read" => sent = pos[c]
  /\ child[c] = "send" => sent + 1 = pos[c]
  /\ child[c] = "end"  => sent = pos[c] /\ pos[c] = file[c]
  /\ child[c] \in {"read", "send", "end"} => pos[c] <= file[c]

Flow(c) == Received(c) /\ Underway(c) /\ Served(c)

(* A client's request is in one place: in the server's queue, with the      *)
(* server, or with the child.                                               *)
Waiting(c) == child[c] = "none" /\ client[c] # "start"

Asks ==
  /\ requests # NoQueue =>
       /\ requests \in Seq(Clients)
       /\ Len(requests) <= ReqRoom
       /\ \A i \in 1..Len(requests) :
            /\ Waiting(requests[i])
            /\ req # <<requests[i]>>
            /\ \A j \in 1..Len(requests) : requests[i] = requests[j] => i = j
  /\ req # <<>> => \E c \in Clients : req = <<c>> /\ Waiting(c)
  /\ server = "fork" => req # <<>>
  /\ server \in {"receive", "fork", "remove"} => requests # NoQueue

FilePlaces ==
  /\ server \in {"start", "receive", "fork", "remove", "gone"}
  /\ client \in [Clients -> {"start", "first", "more", "complete", "refused", "killed"}]
  /\ file \in [Clients -> {NoFile} \cup 0..MaxBlocks]
  /\ child \in [Clients -> {"none", "open", "read", "send", "end", "zombie", "reaped"}]
  /\ pos \in [Clients -> 0..MaxBlocks]
  /\ DOMAIN queue = Clients /\ DOMAIN got = Clients
  /\ sigchld \in BOOLEAN
  /\ cut \subseteq Clients

FileInv == FilePlaces /\ Asks /\ \A c \in Clients : Flow(c)

(* read does not fail: a child takes that for the end of the file          *)
(* (server.c:121), and sends an END that is none.                          *)
ReadsSucceed == "read" \notin Faults

-----------------------------------------------------------------------------
(* The start of the programs satisfies the invariant. *)
LEMMA FileStarts == ASSUME Init PROVE FileInv
<1>1. FilePlaces
  <2>1. 0 \in 0..MaxBlocks
    BY FileServerAssumption DEF FileServerAssumption
  <2>2. QED
    BY <2>1, Zenon DEF Init, FilePlaces
<1>2. Asks
  BY DEF Init, Asks
<1>3. ASSUME NEW c \in Clients PROVE Flow(c)
  BY <1>3 DEF Init, Flow, Received, Underway, Served, Ended
<1>4. QED
  BY <1>1, <1>2, <1>3 DEF FileInv

(* What happens to others leaves what a client gets as it is; that its      *)
(* child is collected makes no difference.                                  *)
LEMMA FlowStays ==
  ASSUME NEW c \in Clients, Flow(c),
         client'[c] = client[c], file'[c] = file[c], queue'[c] = queue[c],
         got'[c] = got[c], pos'[c] = pos[c],
         child'[c] = child[c] \/ (child[c] \in Ended /\ child'[c] \in Ended)
  PROVE  Flow(c)'
<1>1. Received(c)'
  BY DEF Flow, Received
<1>2. Underway(c)'
  BY DEF Flow, Underway, Block, Final
<1>3. Served(c)'
  BY DEF Flow, Served, Ended
<1>4. QED
  BY <1>1, <1>2, <1>3 DEF Flow

(* A client that is killed leaves all as it is. *)
LEMMA FlowWhenKilled ==
  ASSUME NEW c \in Clients, Flow(c), client[c] # "start", client'[c] = "killed",
         file'[c] = file[c], queue'[c] = queue[c], got'[c] = got[c], pos'[c] = pos[c],
         child'[c] = child[c]
  PROVE  Flow(c)'
<1>1. Received(c)'
  BY DEF Flow, Received
<1>2. Underway(c)'
  BY DEF Flow, Underway, Block, Final
<1>3. Served(c)'
  BY DEF Flow, Served, Ended
<1>4. QED
  BY <1>1, <1>2, <1>3 DEF Flow

(* So does a child that ends where it is. *)
LEMMA FlowWhenChildEnds ==
  ASSUME NEW c \in Clients, Flow(c), child[c] \in {"open", "read", "send", "end"},
         child'[c] \in Ended, client'[c] = client[c],
         file'[c] = file[c], queue'[c] = queue[c], got'[c] = got[c], pos'[c] = pos[c]
  PROVE  Flow(c)'
<1>1. Received(c)'
  BY DEF Flow, Received
<1>2. Underway(c)'
  BY DEF Flow, Underway, Block, Final
<1>3. Served(c)'
  BY DEF Flow, Served, Ended
<1>4. QED
  BY <1>1, <1>2, <1>3 DEF Flow

(* Requests stay where they are while no child starts and no client sends.  *)
LEMMA AsksStays ==
  ASSUME Asks, requests' = requests, req' \in {req, <<>>},
         server' = "fork" => req' # <<>>,
         server' \in {"receive", "fork", "remove"} => requests # NoQueue,
         \A c \in Clients : Waiting(c) => Waiting(c)'
  PROVE  Asks'
<1>1. ASSUME requests # NoQueue, NEW i \in 1..Len(requests)
      PROVE  Waiting(requests[i])'
  BY <1>1 DEF Asks
<1>2. ASSUME req' # <<>> PROVE \E c \in Clients : req' = <<c>> /\ Waiting(c)'
  BY <1>2 DEF Asks
<1>3. QED
  BY <1>1, <1>2 DEF Asks

-----------------------------------------------------------------------------
(* The steps of the server *)

(* Those that leave the clients and their children alone, but for the       *)
(* collection of zombies.                                                   *)
LEMMA ServerStepsKeepFlow ==
  ASSUME FileInv, ServerStart \/ ServerReceive \/ ServerReceiveFails \/ ServerRemove
              \/ ServerKilled \/ grimReaper
  PROVE  /\ \A c \in Clients : Flow(c)'
         /\ FilePlaces'
         /\ \A c \in Clients : Waiting(c)' <=> Waiting(c)
<1> USE DEF ServerStart, ServerReceive, ServerReceiveFails, ServerRemove, ServerKilled,
            grimReaper
<1>1. /\ UNCHANGED <<client, file, queue, got, pos, cut>>
      /\ server' \in {"start", "receive", "fork", "remove", "gone"}
      /\ sigchld' \in BOOLEAN
  BY DEF FileInv, FilePlaces
<1>2. \/ child' = child
      \/ child' = [c \in Clients |-> IF child[c] = "zombie" THEN "reaped" ELSE child[c]]
  OBVIOUS
<1>3. FilePlaces'
  BY <1>1, <1>2 DEF FileInv, FilePlaces
<1>4. ASSUME NEW c \in Clients
      PROVE  child'[c] = child[c] \/ (child[c] \in Ended /\ child'[c] \in Ended)
  BY <1>2 DEF Ended
<1>5. ASSUME NEW c \in Clients PROVE Flow(c)'
  BY <1>1, <1>4, FlowStays DEF FileInv
<1>6. ASSUME NEW c \in Clients PROVE Waiting(c)' <=> Waiting(c)
  BY <1>1, <1>4 DEF Waiting, Ended
<1>7. QED
  BY <1>3, <1>5, <1>6

LEMMA ServerReceiveKeepsAsks == ASSUME FileInv, ServerReceive PROVE Asks'
<1> DEFINE n == Len(requests)
<1>1. /\ requests # NoQueue /\ requests \in Seq(Clients) /\ requests # <<>> /\ n <= ReqRoom
      /\ req' = <<Head(requests)>> /\ requests' = Tail(requests)
      /\ client' = client /\ child' = child
  BY DEF FileInv, Asks, ServerReceive
<1>2. n \in Nat /\ n >= 1 /\ Head(requests) = requests[1] /\ 1 \in 1..n
  BY <1>1
<1>3. /\ requests' \in Seq(Clients) /\ Len(requests') = n - 1
      /\ \A i \in 1..(n - 1) : requests'[i] = requests[i + 1]
  BY <1>1, <1>2
<1>4. \A c \in Clients : Waiting(c) => Waiting(c)'
  BY <1>1 DEF Waiting
<1>5. \A i, j \in 1..n : requests[i] = requests[j] => i = j
  BY <1>1 DEF FileInv, Asks
<1>6. ASSUME NEW i \in 1..Len(requests')
      PROVE  /\ Waiting(requests'[i])
             /\ req' # <<requests'[i]>>
             /\ \A j \in 1..Len(requests') : requests'[i] = requests'[j] => i = j
  <2>1. i + 1 \in 1..n /\ i + 1 # 1 /\ requests'[i] = requests[i + 1]
    BY <1>2, <1>3
  <2>2. Waiting(requests'[i])
    BY <2>1, <1>1 DEF FileInv, Asks
  <2>3. requests[i + 1] # requests[1]
    BY <2>1, <1>2, <1>5
  <2>4. req' # <<requests'[i]>>
    BY <2>1, <2>3, <1>1, <1>2
  <2>5. ASSUME NEW j \in 1..Len(requests'), requests'[i] = requests'[j] PROVE i = j
    BY <2>1, <2>5, <1>2, <1>3, <1>5
  <2>6. QED
    BY <2>2, <2>4, <2>5
<1>7. requests[1] \in Clients /\ Waiting(requests[1])
  BY <1>1, <1>2 DEF FileInv, Asks
<1>8. Len(requests') <= ReqRoom /\ (server' = "fork" => req' # <<>>)
  BY <1>1, <1>2, <1>3, FileServerAssumption DEF FileServerAssumption
<1>9. (server' \in {"receive", "fork", "remove"} => requests' # NoQueue)
  BY <1>3, NoQueueAssumption DEF NoQueueAssumption
<1>10. QED
  BY <1>1, <1>2, <1>3, <1>4, <1>6, <1>7, <1>8, <1>9 DEF Asks

LEMMA ServerStepsKeepAsks ==
  ASSUME FileInv, ServerStart \/ ServerReceiveFails \/ ServerRemove \/ ServerKilled \/ grimReaper
  PROVE  Asks'
<1>1. \A c \in Clients : Waiting(c) => Waiting(c)'
  BY ServerStepsKeepFlow
<1>2. CASE ServerStart
  <2>1. CASE requests = NoQueue
    <3>1. requests' = <<>> /\ req' = req /\ server' = "receive"
      BY <1>2, <2>1 DEF ServerStart
    <3>2. <<>> \in Seq(Clients)
      OBVIOUS
    <3>6. <<>> # NoQueue
      BY <3>2, NoQueueAssumption, Zenon DEF NoQueueAssumption
    <3>3. Len(<<>>) <= ReqRoom
      BY FileServerAssumption DEF FileServerAssumption
    <3>4. req' # <<>> => \E c \in Clients : req' = <<c>> /\ Waiting(c)'
      BY <1>1, <3>1 DEF FileInv, Asks
    <3>5. QED
      BY <3>1, <3>2, <3>3, <3>4, <3>6 DEF Asks
  <2>2. CASE requests # NoQueue
    BY <1>1, <1>2, <2>2, AsksStays DEF FileInv, Asks, ServerStart
  <2>3. QED
    BY <2>1, <2>2
<1>3. CASE ServerReceiveFails
  BY <1>1, <1>3, AsksStays DEF FileInv, Asks, ServerReceiveFails
<1>4. CASE ServerRemove
  BY <1>1, <1>4 DEF FileInv, Asks, ServerRemove
<1>5. CASE ServerKilled
  BY <1>1, <1>5, AsksStays DEF FileInv, Asks, ServerKilled
<1>6. CASE grimReaper
  BY <1>1, <1>6, AsksStays DEF FileInv, Asks, grimReaper
<1>7. QED
  BY <1>2, <1>3, <1>4, <1>5, <1>6

(* A fork starts a child for a client that has none, and whose request is   *)
(* nowhere else.                                                            *)
LEMMA ServerForkKeepsInv == ASSUME FileInv, ServerFork PROVE FileInv'
<1>1. PICK c \in Clients : req = <<c>> /\ Waiting(c)
  BY DEF FileInv, Asks, ServerFork
<1>2. /\ req' = <<>> /\ server' \in {"receive", "remove"} /\ requests # NoQueue
      /\ UNCHANGED <<requests, client, file, queue, got, pos, sigchld, cut>>
      /\ \/ child' = [child EXCEPT ![c] = "open"]
         \/ child' = child
  BY <1>1 DEF FileInv, Asks, ServerFork
<1>3. FilePlaces'
  BY <1>2 DEF FileInv, FilePlaces
<1>4. ASSUME NEW d \in Clients, d # c PROVE Flow(d)' /\ (Waiting(d) => Waiting(d)')
  <2>1. child'[d] = child[d]
    BY <1>2, <1>4 DEF FileInv, FilePlaces
  <2>2. QED
    BY <2>1, <1>2, FlowStays DEF FileInv, Waiting
<1>5. Flow(c)'
  <2>1. CASE child' = child
    BY <2>1, <1>2, FlowStays DEF FileInv
  <2>2. CASE child' = [child EXCEPT ![c] = "open"]
    <3>1. child'[c] = "open" /\ child[c] = "none" /\ client[c] # "start"
      BY <2>2, <1>1 DEF FileInv, FilePlaces, Waiting
    <3>2. queue[c] = <<>>
      BY <3>1 DEF FileInv, Flow, Served, Ended
    <3>3. Received(c)' /\ Underway(c)'
      BY <3>1, <3>2, <1>2 DEF FileInv, Flow, Received, Underway
    <3>4. Served(c)'
      BY <3>1, <3>2, <1>2 DEF FileInv, Flow, Served, Ended
    <3>5. QED
      BY <3>3, <3>4 DEF Flow
  <2>3. QED
    BY <1>2, <2>1, <2>2
<1>6. Asks'
  <2>1. \A i \in 1..Len(requests) : requests[i] # c /\ requests[i] \in Clients
    BY <1>1, <1>2 DEF FileInv, Asks
  <2>2. QED
    BY <1>2, <1>4, <2>1 DEF FileInv, Asks
<1>7. QED
  BY <1>3, <1>4, <1>5, <1>6 DEF FileInv

-----------------------------------------------------------------------------
(* The steps of a child and of a client *)

(* It is enough to know what a step does to one client, when the others     *)
(* keep what they have.                                                     *)
LEMMA OneClient ==
  ASSUME FileInv, NEW c \in Clients, Flow(c)', FilePlaces',
         UNCHANGED <<server, requests, req, file>>,
         Waiting(c) => Waiting(c)',
         \A d \in Clients \ {c} :
           /\ client'[d] = client[d] /\ queue'[d] = queue[d] /\ got'[d] = got[d]
           /\ pos'[d] = pos[d] /\ child'[d] = child[d]
  PROVE  FileInv'
<1>1. ASSUME NEW d \in Clients, d # c PROVE Flow(d)' /\ (Waiting(d) => Waiting(d)')
  BY <1>1, FlowStays DEF FileInv, Waiting
<1>2. \A d \in Clients : Waiting(d) => Waiting(d)'
  BY <1>1
<1>3. Asks'
  BY <1>2, AsksStays DEF FileInv, Asks
<1>4. QED
  BY <1>1, <1>3 DEF FileInv

(* A child that is at work has a queue that holds blocks only. *)
LEMMA BusyQueue ==
  ASSUME FileInv, NEW c \in Clients, child[c] \in {"open", "read", "send", "end"}
  PROVE  /\ queue[c] # NoQueue
         /\ queue[c] \in Seq(Int)
         /\ Len(queue[c]) <= Room
         /\ \A i \in 1..Len(queue[c]) : Block(c, i)
         /\ client[c] \notin {"start"}
         /\ pos[c] \in Nat /\ got[c] \in Seq(Nat)
         /\ child[c] \notin Ended
<1>1. child[c] \notin Ended /\ client[c] # "start"
  BY DEF FileInv, Flow, Served, Ended
<1>2. queue[c] # NoQueue /\ queue[c] \in Seq(Int)
  BY <1>1 DEF FileInv, Flow, Served, Underway
<1>3. \A i \in 1..Len(queue[c]) : Block(c, i) /\ i <= Room
  BY <1>1, <1>2 DEF FileInv, Flow, Underway, Final
<1>4. Len(queue[c]) <= Room
  <2>1. Len(queue[c]) \in Nat /\ Room \in Nat
    BY <1>2, FileServerAssumption DEF FileServerAssumption
  <2>2. Len(queue[c]) = 0 \/ Len(queue[c]) \in 1..Len(queue[c])
    BY <2>1
  <2>3. Len(queue[c]) \in 1..Len(queue[c]) => Len(queue[c]) <= Room
    BY <1>3
  <2>4. QED
    BY <2>1, <2>2, <2>3
<1>5. QED
  BY <1>1, <1>2, <1>3, <1>4 DEF FileInv, Flow, Received, FilePlaces

(* ChildEnds gives the child its end and leaves the others theirs. *)
LEMMA ChildEndsOne ==
  ASSUME FileInv, NEW c \in Clients, ChildEnds(c)
  PROVE  /\ child'[c] \in Ended
         /\ \A d \in Clients \ {c} : child'[d] = child[d]
         /\ child' \in [Clients -> {"none", "open", "read", "send", "end", "zombie", "reaped"}]
         /\ sigchld' \in BOOLEAN
BY DEF FileInv, FilePlaces, ChildEnds, Ended

LEMMA ChildKeepsInv ==
  ASSUME ReadsSucceed, FileInv, NEW c \in Clients, Child(c) \/ ChildKilled(c)
  PROVE  FileInv'
<1>1. /\ child[c] \in {"open", "read", "send", "end"}
      /\ UNCHANGED <<server, requests, req, client, file, got>>
  BY DEF Child, ChildOpen, ChildRead, ChildSend, ChildSendEnd, ChildKilled
<1>2. /\ queue[c] # NoQueue /\ queue[c] \in Seq(Int) /\ Len(queue[c]) <= Room
      /\ \A i \in 1..Len(queue[c]) : Block(c, i)
      /\ client[c] # "start" /\ pos[c] \in Nat /\ got[c] \in Seq(Nat)
      /\ child[c] \notin Ended /\ Room \in Nat /\ file[c] \in Int
  BY <1>1, BusyQueue, FileServerAssumption DEF FileServerAssumption, FileInv, FilePlaces, NoFile
<1>0. PICK n \in Nat, g \in Nat : n = Len(queue[c]) /\ g = Len(got[c])
  BY <1>2
<1>3. ~Waiting(c)
  BY <1>1 DEF Waiting
<1>4. CASE ChildKilled(c)
  <2>1. ChildEnds(c) /\ cut' = cut \cup {c} /\ UNCHANGED <<queue, pos>>
    BY <1>4 DEF ChildKilled
  <2>2. FilePlaces'
    BY <1>1, <2>1, ChildEndsOne DEF FileInv, FilePlaces
  <2>3. Flow(c)'
    BY <1>1, <2>1, ChildEndsOne, FlowWhenChildEnds DEF FileInv
  <2>4. QED
    BY <1>1, <1>3, <2>1, <2>2, <2>3, ChildEndsOne, OneClient
<1>5. CASE ChildOpen(c) /\ file[c] # NoFile
  <2>1. /\ child[c] = "open" /\ child' = [child EXCEPT ![c] = "read"]
        /\ UNCHANGED <<queue, pos, sigchld, cut>>
    BY <1>5 DEF ChildOpen
  <2>2. FilePlaces'
    BY <1>1, <2>1 DEF FileInv, FilePlaces
  <2>3. Served(c) /\ pos[c] <= file[c]
    BY <1>5, <2>1, FileServerAssumption
       DEF FileServerAssumption, FileInv, Flow, Served, FilePlaces, NoFile
  <2>4. child'[c] = "read" /\ queue[c] = <<>> /\ got[c] = <<>> /\ pos[c] = 0
    BY <1>2, <2>1, <2>3 DEF FileInv, FilePlaces, Served
  <2>5. Received(c)' /\ Underway(c)'
    BY <1>1, <1>2, <2>1, <2>4 DEF FileInv, Flow, Received, Underway
  <2>6. Served(c)'
    BY <1>1, <1>2, <2>1, <2>3, <2>4 DEF Served, Ended
  <2>7. QED
    BY <1>1, <1>3, <2>1, <2>2, <2>5, <2>6, OneClient DEF Flow, FileInv, FilePlaces
<1>6. CASE ChildOpen(c) /\ file[c] = NoFile
  <2>1. child[c] = "open" /\ ChildEnds(c) /\ queue' = Sent(c, FAILURE) /\ UNCHANGED <<pos, cut>>
    BY <1>6 DEF ChildOpen
  <2>2. queue[c] = <<>> /\ queue' = [queue EXCEPT ![c] = Append(@, FAILURE)]
    BY <1>2, <2>1 DEF FileInv, Flow, Served, Sent
  <2>3. FilePlaces'
    BY <1>1, <2>1, <2>2, ChildEndsOne DEF FileInv, FilePlaces
  <2>4. queue'[c] = <<FAILURE>> /\ child'[c] \in Ended
    BY <2>1, <2>2, ChildEndsOne DEF FileInv, FilePlaces
  <2>5. Received(c)' /\ Served(c)'
    BY <1>1, <1>2, <2>1, <2>4 DEF FileInv, Flow, Received, Served, Ended
  <2>6. Underway(c)'
    BY <2>4, FileServerAssumption DEF FileServerAssumption, Underway, Final, FAILURE
  <2>7. QED
    BY <1>1, <1>3, <2>1, <2>2, <2>3, <2>5, <2>6, ChildEndsOne, OneClient DEF Flow, FileInv, FilePlaces
<1>7. CASE ChildRead(c) /\ pos' # pos
  <2>1. /\ child[c] = "read" /\ pos[c] < file[c]
        /\ pos' = [pos EXCEPT ![c] = @ + 1]
        /\ child' = [child EXCEPT ![c] = "send"]
        /\ UNCHANGED <<queue, sigchld, cut>>
    BY <1>7 DEF ChildRead
  <2>2. FilePlaces'
    BY <1>1, <2>1, FileServerAssumption DEF FileServerAssumption, FileInv, FilePlaces, NoFile
  <2>3. child'[c] = "send" /\ pos'[c] = pos[c] + 1 /\ g + n = pos[c]
    BY <1>0, <2>1 DEF FileInv, FilePlaces, Flow, Served
  <2>4. Received(c)'
    BY <1>1, <1>2, <2>3 DEF FileInv, Flow, Received
  <2>5. Underway(c)'
    <3>1. \A i \in 1..Len(queue[c]) :
            queue[c][i] = Len(got[c]) + i /\ queue[c][i] <= pos[c] /\ i <= Room
      <4>1. \A i \in 1..Len(queue[c]) : Block(c, i)
        BY <1>2
      <4>2. \A i \in 1..Len(queue[c]) : i <= Room
        <5>1. Len(queue[c]) \in Nat /\ Len(queue[c]) <= Room /\ Room \in Nat
          BY <1>2
        <5>2. QED
          BY <5>1
      <4>3. QED
        BY <4>1, <4>2 DEF Block
    <3>2. \A i \in 1..Len(queue[c]) : queue[c][i] <= pos[c] + 1
      BY <1>2, <3>1
    <3>3. queue' = queue /\ got' = got /\ pos'[c] = pos[c] + 1
      BY <1>1, <2>1, <2>3
    <3>4. \A i \in 1..Len(queue'[c]) : Block(c, i)' /\ i <= Room
      BY <3>1, <3>2, <3>3 DEF Block
    <3>5. queue'[c] \in Seq(Int)
      BY <1>2, <3>3
    <3>6. QED
      BY <3>4, <3>5 DEF Underway
  <2>6. Served(c)'
    <3>1. Len(got'[c]) = g /\ Len(queue'[c]) = n /\ pos'[c] <= file'[c]
      BY <1>0, <1>1, <1>2, <2>1, <2>3
    <3>2. (g + n) + 1 = pos'[c]
      BY <2>3
    <3>3. QED
      BY <1>1, <1>2, <2>1, <2>3, <3>1, <3>2 DEF Served, Ended
  <2>7. QED
    BY <1>1, <1>3, <2>1, <2>2, <2>4, <2>5, <2>6, OneClient DEF Flow, FileInv, FilePlaces
<1>8. CASE ChildRead(c) /\ pos' = pos
  <2>1. child[c] = "read" /\ pos'[c] = pos[c]
    BY <1>8 DEF ChildRead
  <2>2. /\ pos[c] = file[c] /\ child' = [child EXCEPT ![c] = "end"]
        /\ UNCHANGED <<queue, sigchld, cut>>
    <3>1. ~(pos' = [pos EXCEPT ![c] = @ + 1])
      BY <1>2, <2>1 DEF FileInv, FilePlaces
    <3>2. QED
      BY <1>8, <3>1 DEF ChildRead, ReadsSucceed
  <2>3. FilePlaces' /\ child'[c] = "end"
    BY <1>1, <1>8, <2>2 DEF FileInv, FilePlaces
  <2>4. Received(c)' /\ Underway(c)'
    <3>1. /\ client'[c] = client[c] /\ file'[c] = file[c] /\ got'[c] = got[c]
          /\ pos'[c] = pos[c] /\ queue'[c] = queue[c]
      BY <1>1, <1>8, <2>2
    <3>2. child[c] \notin Ended
      BY <2>1 DEF Ended
    <3>3. Received(c)'
      BY <3>1 DEF FileInv, Flow, Received
    <3>4. Underway(c)'
      BY <3>1, <3>2 DEF FileInv, Flow, Underway, Block, Final
    <3>5. QED
      BY <3>3, <3>4
  <2>5. Served(c)'
    BY <1>1, <1>2, <1>8, <2>1, <2>2, <2>3 DEF FileInv, Flow, Served, Ended
  <2>6. QED
    BY <1>1, <1>3, <1>8, <2>2, <2>3, <2>4, <2>5, OneClient DEF Flow, FileInv, FilePlaces
<1>9. CASE ChildSend(c)
  <2>1. /\ child[c] = "send"
        /\ queue' = [queue EXCEPT ![c] = Append(@, pos[c])]
        /\ child' = [child EXCEPT ![c] = "read"]
        /\ UNCHANGED <<pos, sigchld, cut>>
    BY <1>2, <1>9 DEF ChildSend, Sent
  <2>2. (g + n) + 1 = pos[c] /\ pos[c] <= file[c]
    BY <1>0, <2>1 DEF FileInv, FilePlaces, Flow, Served
  <2>3. Len(queue[c]) < Room
    BY <1>2, <1>9, <2>2 DEF ChildSend, CanSend, END
  <2>4. FilePlaces' /\ child'[c] = "read"
    BY <1>1, <2>1 DEF FileInv, FilePlaces
  <2>5. /\ queue'[c] \in Seq(Int) /\ Len(queue'[c]) = Len(queue[c]) + 1
        /\ \A i \in 1..Len(queue[c]) : queue'[c][i] = queue[c][i]
        /\ queue'[c][Len(queue[c]) + 1] = pos[c]
    BY <1>2, <2>1 DEF FileInv, FilePlaces
  <2>6. Received(c)'
    BY <1>1, <2>1 DEF FileInv, Flow, Received
  <2>7. ASSUME NEW i \in 1..Len(queue'[c]) PROVE Block(c, i)' /\ i <= Room
    <3>0. got' = got /\ pos' = pos /\ n \in Nat /\ n < Room /\ Len(got[c]) \in Nat
      BY <1>0, <1>1, <1>2, <2>1, <2>3
    <3>1. CASE i \in 1..n
      <4>1. queue[c][i] = Len(got[c]) + i /\ queue[c][i] <= pos[c]
        BY <1>0, <1>2, <3>1 DEF Block
      <4>2. queue'[c][i] = queue[c][i]
        BY <1>0, <2>5, <3>1
      <4>3. i <= Room
        BY <1>2, <3>0, <3>1
      <4>4. QED
        BY <3>0, <4>1, <4>2, <4>3 DEF Block
    <3>2. CASE i = n + 1
      <4>1. queue'[c][i] = pos[c]
        BY <1>0, <2>5, <3>2
      <4>2. pos[c] = g + i
        BY <2>2, <3>2
      <4>5. i <= Room
        BY <1>0, <1>2, <3>0, <3>2
      <4>3. pos'[c] = pos[c] /\ Len(got'[c]) = g
        BY <1>0, <3>0
      <4>4. QED
        BY <1>0, <4>1, <4>2, <4>3, <4>5 DEF Block
    <3>3. QED
      BY <1>0, <2>5, <3>1, <3>2
  <2>8. Underway(c)'
    BY <2>5, <2>7 DEF Underway
  <2>9. queue'[c] # NoQueue
    BY <2>5, NoQueueAssumption DEF NoQueueAssumption
  <2>10. Served(c)'
    <3>1. Len(got'[c]) + Len(queue'[c]) = pos'[c]
      <4>1. Len(got'[c]) = g /\ pos'[c] = pos[c] /\ Len(queue'[c]) = n + 1
        BY <1>0, <1>1, <2>1, <2>5
      <4>2. g + (n + 1) = pos[c]
        BY <1>2, <2>2
      <4>3. QED
        BY <4>1, <4>2
    <3>2. QED
      BY <1>1, <1>2, <2>1, <2>2, <2>4, <2>9, <3>1 DEF Served, Ended
  <2>11. QED
    BY <1>1, <1>3, <2>1, <2>4, <2>6, <2>8, <2>10, OneClient DEF Flow, FileInv, FilePlaces
<1>10. CASE ChildSendEnd(c)
  <2>1. /\ child[c] = "end" /\ ChildEnds(c)
        /\ queue' = [queue EXCEPT ![c] = Append(@, END)]
        /\ UNCHANGED <<pos, cut>>
    BY <1>2, <1>10 DEF ChildSendEnd, Sent
  <2>2. g + n = pos[c] /\ pos[c] = file[c]
    BY <1>0, <2>1 DEF FileInv, FilePlaces, Flow, Served
  <2>3. FilePlaces' /\ child'[c] \in Ended
    BY <1>1, <2>1, ChildEndsOne DEF FileInv, FilePlaces
  <2>4. /\ queue'[c] \in Seq(Int) /\ Len(queue'[c]) = Len(queue[c]) + 1
        /\ \A i \in 1..Len(queue[c]) : queue'[c][i] = queue[c][i]
        /\ queue'[c][Len(queue[c]) + 1] = END
    BY <1>2, <2>1 DEF FileInv, FilePlaces, END
  <2>5. Received(c)'
    BY <1>1, <2>1 DEF FileInv, Flow, Received
  <2>6. ASSUME NEW i \in 1..Len(queue'[c]) PROVE (Block(c, i)' /\ i <= Room) \/ Final(c, i)'
    <3>0. /\ got' = got /\ pos' = pos /\ file' = file
          /\ n \in Nat /\ n <= Room /\ Len(got[c]) \in Nat
      BY <1>0, <1>1, <1>2, <2>1
    <3>1. CASE i \in 1..n
      <4>1. queue[c][i] = Len(got[c]) + i /\ queue[c][i] <= pos[c]
        BY <1>0, <1>2, <3>1 DEF Block
      <4>2. queue'[c][i] = queue[c][i]
        BY <1>0, <2>4, <3>1
      <4>3. i <= Room
        BY <1>2, <3>0, <3>1
      <4>4. QED
        BY <3>0, <4>1, <4>2, <4>3 DEF Block
    <3>2. CASE i = n + 1
      <4>1. queue'[c][i] = END /\ i = Len(queue'[c]) /\ i <= Room + 1
        BY <1>0, <1>2, <2>4, <3>0, <3>2
      <4>2. g + i - 1 = file[c]
        BY <1>2, <2>2, <3>2
      <4>3. QED
        BY <1>0, <2>3, <3>0, <4>1, <4>2 DEF Final
    <3>3. QED
      BY <1>0, <2>4, <3>1, <3>2
  <2>7. Underway(c)'
    BY <2>4, <2>6 DEF Underway
  <2>8. Served(c)'
    BY <1>1, <1>2, <2>1, <2>3 DEF Served, Ended
  <2>9. QED
    BY <1>1, <1>3, <2>1, <2>3, <2>5, <2>7, <2>8, ChildEndsOne, OneClient DEF Flow, FileInv, FilePlaces
<1>11. QED
  BY <1>4, <1>5, <1>6, <1>7, <1>8, <1>9, <1>10 DEF Child

LEMMA ClientSendKeepsInv ==
  ASSUME FileInv, NEW c \in Clients, ClientSend(c)
  PROVE  FileInv'
<1>1. /\ client[c] = "start" /\ child[c] = "none" /\ pos[c] = 0 /\ got[c] = <<>>
      /\ queue' = [queue EXCEPT ![c] = <<>>]
      /\ client' = [client EXCEPT ![c] = "first"]
      /\ UNCHANGED <<server, req, file, got, child, pos, sigchld, cut>>
  BY DEF FileInv, Flow, Served, ClientSend
<1>2. FilePlaces'
  BY <1>1 DEF FileInv, FilePlaces
<1>3. queue'[c] = <<>> /\ client'[c] = "first"
  BY <1>1 DEF FileInv, FilePlaces
<1>4. <<>> \in Seq(Int)
  OBVIOUS
<1>5. <<>> # NoQueue
  BY <1>4, NoQueueAssumption, Zenon DEF NoQueueAssumption
<1>6. Received(c)' /\ Underway(c)'
  BY <1>1, <1>3 DEF FileInv, Flow, Received, Underway
<1>7. Served(c)'
  BY <1>1, <1>3, <1>5 DEF Served, Ended
<1>8. ASSUME NEW d \in Clients, d # c PROVE Flow(d)' /\ (Waiting(d) => Waiting(d)')
  BY <1>1, <1>8, FlowStays DEF FileInv, FilePlaces, Waiting
<1>9. ~Waiting(c) /\ Waiting(c)'
  BY <1>1, <1>3 DEF Waiting
<1>10. \A d \in Clients : Waiting(d) => Waiting(d)'
  BY <1>8, <1>9
<1>11. Asks'
  <2>1. CASE requests' = requests
    BY <1>1, <1>10, <2>1, AsksStays DEF FileInv, Asks
  <2>2. CASE requests # NoQueue /\ Len(requests) < ReqRoom /\ requests' = Append(requests, c)
    <3>1. /\ requests \in Seq(Clients)
          /\ \A i \in 1..Len(requests) :
               /\ Waiting(requests[i]) /\ req # <<requests[i]>> /\ requests[i] \in Clients
               /\ \A j \in 1..Len(requests) : requests[i] = requests[j] => i = j
      BY <2>2 DEF FileInv, Asks
    <3>2. /\ requests' \in Seq(Clients) /\ Len(requests') = Len(requests) + 1
          /\ \A i \in 1..Len(requests) : requests'[i] = requests[i]
          /\ requests'[Len(requests) + 1] = c
      BY <2>2, <3>1
    <3>3. \A i \in 1..Len(requests) : requests[i] # c
      BY <3>1, <1>9
    <3>4. req' # <<c>> /\ (req' # <<>> => \E d \in Clients : req' = <<d>> /\ Waiting(d)')
      BY <1>1, <1>9, <1>10 DEF FileInv, Asks
    <3>5. ASSUME NEW i \in 1..Len(requests')
          PROVE  /\ Waiting(requests[i])' /\ req' # <<requests'[i]>>
                 /\ \A j \in 1..Len(requests') : requests'[i] = requests'[j] => i = j
      <4>0. Len(requests) \in Nat
        BY <3>1
      <4>1. CASE i \in 1..Len(requests)
        <5>1. /\ requests'[i] = requests[i] /\ requests[i] # c
              /\ Waiting(requests[i])
          BY <3>1, <3>2, <3>3, <4>1
        <5>2. Waiting(requests[i])' /\ req' # <<requests'[i]>>
          BY <1>1, <1>10, <3>1, <3>2, <4>1, <5>1
        <5>3. ASSUME NEW j \in 1..Len(requests'), requests'[i] = requests'[j] PROVE i = j
          <6>1. CASE j \in 1..Len(requests)
            BY <3>1, <3>2, <4>1, <5>1, <5>3, <6>1
          <6>2. CASE j = Len(requests) + 1
            BY <3>2, <5>1, <5>3, <6>2
          <6>3. QED
            BY <3>2, <4>0, <6>1, <6>2
        <5>4. QED
          BY <5>2, <5>3
      <4>2. CASE i = Len(requests) + 1
        BY <1>9, <3>1, <3>2, <3>3, <3>4, <4>2
      <4>3. QED
        BY <3>1, <3>2, <4>1, <4>2
    <3>6. requests' # NoQueue
      BY <3>2, NoQueueAssumption DEF NoQueueAssumption
    <3>7. Len(requests') <= ReqRoom
      BY <2>2, <3>1, <3>2, FileServerAssumption DEF FileServerAssumption
    <3>8. server' = "fork" => req' # <<>>
      BY <1>1 DEF FileInv, Asks
    <3>9. QED
      BY <3>2, <3>4, <3>5, <3>6, <3>7, <3>8 DEF Asks
  <2>3. QED
    BY <2>1, <2>2 DEF ClientSend
<1>12. QED
  BY <1>2, <1>6, <1>7, <1>8, <1>11 DEF FileInv, Flow

(* A client that receives a block has received the next one; END tells it   *)
(* that there are no more.                                                  *)
LEMMA ClientReceiveKeepsInv ==
  ASSUME FileInv, NEW c \in Clients, ClientReceive(c)
  PROVE  FileInv'
<1> DEFINE m == Head(queue[c])
<1>1. /\ client[c] \in {"first", "more"}
      /\ queue[c] # <<>> /\ queue[c] # NoQueue
      /\ UNCHANGED <<server, requests, req, file, child, pos, sigchld, cut>>
  BY DEF ClientReceive
<1>2. /\ queue[c] \in Seq(Int) /\ got[c] \in Seq(Nat) /\ pos[c] \in Nat
      /\ \A i \in 1..Len(queue[c]) : (Block(c, i) /\ i <= Room) \/ Final(c, i)
      /\ \A i \in 1..Len(got[c]) : got[c][i] = i
      /\ Room \in Nat
  BY <1>1, FileServerAssumption DEF FileServerAssumption, FileInv, Flow, Received, Underway, FilePlaces
<1>3. PICK n \in Nat, g \in Nat : n = Len(queue[c]) /\ g = Len(got[c])
  BY <1>2
<1>4. n >= 1 /\ m = queue[c][1] /\ 1 \in 1..n
  BY <1>1, <1>2, <1>3
<1>5. child[c] \notin {"none", "open"} /\ ~Waiting(c) /\ client[c] # "start"
  BY <1>1 DEF FileInv, Flow, Served, Waiting
<1>6. CASE m \in {FAILURE, END}
  <2>1. ~Block(c, 1)
    BY <1>3, <1>4, <1>6 DEF Block, FAILURE, END
  <2>2. Final(c, 1)
    BY <1>2, <1>3, <1>4, <2>1
  <2>3. child[c] \in Ended /\ got' = got
    BY <1>6, <2>2 DEF Final, ClientReceive, Exit
  <2>4. PICK how \in {"refused", "complete"} :
          /\ client' = [client EXCEPT ![c] = how]
          /\ queue' = [queue EXCEPT ![c] = NoQueue]
          /\ how = "complete" => m = END
    BY <1>6 DEF ClientReceive, Exit
  <2>5. FilePlaces' /\ client'[c] = how /\ queue'[c] = NoQueue
    BY <1>1, <2>3, <2>4 DEF FileInv, FilePlaces
  <2>6. how = "complete" => Len(got[c]) = file[c]
    <3>1. ASSUME m = END PROVE g + 1 - 1 = file[c]
      BY <1>3, <1>4, <2>2, <3>1 DEF Final, FAILURE, END
    <3>2. QED
      BY <1>3, <2>4, <3>1
  <2>7. Received(c)' /\ Underway(c)'
    BY <1>1, <2>3, <2>4, <2>5, <2>6 DEF FileInv, Flow, Received, Underway
  <2>8. Served(c)'
    BY <1>1, <2>3, <2>4, <2>5 DEF Served, Ended
  <2>9. QED
    BY <1>1, <1>5, <2>3, <2>4, <2>5, <2>7, <2>8, OneClient DEF Flow, FileInv, FilePlaces
<1>7. CASE m \notin {FAILURE, END}
  <2>1. /\ got' = [got EXCEPT ![c] = Append(@, m)]
        /\ queue' = [queue EXCEPT ![c] = Tail(@)]
        /\ client' = [client EXCEPT ![c] = "more"]
    BY <1>7 DEF ClientReceive
  <2>2. FilePlaces' /\ client'[c] = "more"
    BY <1>1, <2>1 DEF FileInv, FilePlaces
  <2>3. Block(c, 1)
    BY <1>2, <1>3, <1>4, <1>7 DEF Final
  <2>4. m = g + 1 /\ g + 1 <= pos[c]
    BY <1>2, <1>3, <1>4, <2>3 DEF Block
  <2>5. /\ got'[c] \in Seq(Nat) /\ Len(got'[c]) = g + 1
        /\ \A i \in 1..g : got'[c][i] = got[c][i]
        /\ got'[c][g + 1] = g + 1
    BY <1>2, <1>3, <2>1, <2>4 DEF FileInv, FilePlaces
  <2>6. /\ queue'[c] \in Seq(Int) /\ Len(queue'[c]) = n - 1
        /\ \A i \in 1..(n - 1) : queue'[c][i] = queue[c][i + 1]
    BY <1>1, <1>2, <1>3, <2>1 DEF FileInv, FilePlaces
  <2>7. Received(c)'
    <3>1. \A i \in 1..(g + 1) : got'[c][i] = i
      <4>1. g \in Nat /\ \A i \in 1..g : got[c][i] = i
        BY <1>2, <1>3
      <4>2. \A i \in 1..(g + 1) : i \in 1..g \/ i = g + 1
        BY <4>1
      <4>3. QED
        BY <2>5, <4>1, <4>2
    <3>2. QED
      BY <1>1, <2>2, <2>4, <2>5, <3>1 DEF Received
  <2>8. Underway(c)'
    <3> SUFFICES ASSUME NEW i \in 1..(n - 1)
                 PROVE  (Block(c, i)' /\ i <= Room) \/ Final(c, i)'
      BY <2>6 DEF Underway
    <3>1. i + 1 \in 1..n /\ queue'[c][i] = queue[c][i + 1] /\ i \in Nat
      BY <2>6
    <3>2. CASE Block(c, i + 1) /\ i + 1 <= Room
      <4>1. queue[c][i + 1] = g + (i + 1) /\ queue[c][i + 1] <= pos[c]
        BY <1>3, <3>2 DEF Block
      <4>2. g + (i + 1) = (g + 1) + i
        BY <3>1
      <4>3. i <= Room
        BY <1>2, <3>1, <3>2
      <4>4. QED
        BY <1>1, <2>5, <3>1, <4>1, <4>2, <4>3 DEF Block
    <3>3. CASE Final(c, i + 1)
      <4>1. i + 1 = n /\ child[c] \in Ended
        BY <1>3, <3>3 DEF Final
      <4>2. i = Len(queue'[c])
        BY <2>6, <4>1
      <4>3. CASE queue[c][i + 1] = FAILURE /\ i + 1 <= Room
        <5>1. i <= Room
          BY <1>2, <3>1, <4>3
        <5>2. QED
          BY <1>1, <3>1, <4>1, <4>2, <4>3, <5>1 DEF Final
      <4>4. CASE queue[c][i + 1] = END /\ i + 1 <= Room + 1 /\ Len(got[c]) + (i + 1) - 1 = file[c]
        <5>1. g + (i + 1) - 1 = file[c]
          BY <1>3, <4>4
        <5>2. (g + 1) + i - 1 = g + (i + 1) - 1 /\ i \in Nat
          BY <3>1
        <5>3. i <= Room + 1
          BY <1>2, <4>4, <5>2
        <5>4. QED
          BY <1>1, <2>5, <3>1, <4>1, <4>2, <4>4, <5>1, <5>2, <5>3 DEF Final
      <4>5. QED
        BY <3>3, <4>3, <4>4 DEF Final
    <3>4. QED
      BY <1>2, <1>3, <3>1, <3>2, <3>3
  <2>9. Served(c)'
    <3>1. Len(got'[c]) + Len(queue'[c]) = Len(got[c]) + Len(queue[c])
      <4>1. (g + 1) + (n - 1) = g + n
        OBVIOUS
      <4>2. QED
        BY <1>3, <2>5, <2>6, <4>1
    <3>2. queue'[c] # NoQueue
      BY <2>6, NoQueueAssumption DEF NoQueueAssumption
    <3>3. QED
      BY <1>1, <1>5, <2>2, <3>1, <3>2 DEF FileInv, Flow, Served, Ended
  <2>10. QED
    BY <1>1, <1>5, <2>1, <2>2, <2>7, <2>8, <2>9, OneClient DEF Flow, FileInv, FilePlaces
<1>8. QED
  BY <1>6, <1>7

LEMMA ClientKilledKeepsInv ==
  ASSUME FileInv, NEW c \in Clients, ClientKilled(c)
  PROVE  FileInv'
<1>1. /\ client[c] \in {"first", "more"}
      /\ client' = [client EXCEPT ![c] = "killed"]
      /\ UNCHANGED <<server, requests, req, file, queue, got, child, pos, sigchld, cut>>
  BY DEF ClientKilled
<1>2. FilePlaces' /\ client'[c] = "killed"
  BY <1>1 DEF FileInv, FilePlaces
<1>3. Flow(c)'
  BY <1>1, <1>2, FlowWhenKilled DEF FileInv
<1>4. QED
  BY <1>1, <1>2, <1>3, OneClient DEF FileInv, FilePlaces, Waiting

-----------------------------------------------------------------------------
(* A sequence is over every set that has its elements. *)
LEMMA Retype ==
  ASSUME NEW S, NEW T, NEW s \in Seq(S), \A i \in 1..Len(s) : s[i] \in T
  PROVE  s \in Seq(T)
OBVIOUS

(* Every state of the programs satisfies the invariant. *)
LEMMA FileInvariance == ASSUME ReadsSucceed PROVE MCSpec => []FileInv
<1>1. MCInit => FileInv
  BY FileStarts DEF MCInit
<1>2. FileInv /\ [MCNext]_MCVars => FileInv'
  <2> SUFFICES ASSUME FileInv, Next \/ UNCHANGED vars PROVE FileInv'
    BY DEF MCNext, MCVars
  <2>1. CASE Server \/ ServerReceiveFails \/ ServerKilled \/ grimReaper
    BY <2>1, ServerStepsKeepFlow, ServerStepsKeepAsks, ServerReceiveKeepsAsks,
       ServerForkKeepsInv DEF FileInv, Server
  <2>2. ASSUME NEW c \in Clients,
               \/ Child(c) \/ ChildKilled(c)
               \/ ClientSend(c) \/ ClientReceive(c) \/ ClientKilled(c)
        PROVE  FileInv'
    BY <2>2, ChildKeepsInv, ClientSendKeepsInv, ClientReceiveKeepsInv, ClientKilledKeepsInv
  <2>3. CASE UNCHANGED vars
    <3>1. FilePlaces' /\ \A c \in Clients : Waiting(c) => Waiting(c)'
      BY <2>3 DEF vars, FileInv, FilePlaces, Waiting
    <3>2. Asks'
      BY <2>3, <3>1, AsksStays DEF vars, FileInv, Asks
    <3>3. \A c \in Clients : Flow(c)'
      BY <2>3, FlowStays DEF vars, FileInv
    <3>4. QED
      BY <3>1, <3>2, <3>3 DEF FileInv
  <2>4. QED
    BY <2>1, <2>2, <2>3 DEF Next
<1>3. QED
  BY <1>1, <1>2, PTL DEF MCSpec

(* END means that the client has the file (client.c:145-157,                 *)
(* server.c:118-127): it has every block once and in order, however full     *)
(* the queues were and whoever was killed, if read does not fail.            *)
THEOREM EndsAreComplete == ASSUME ReadsSucceed PROVE MCSpec => []EndMeansComplete
<1>1. ASSUME FileInv PROVE TypeOK
  <2>1. /\ requests = NoQueue \/ (requests \in Seq(Clients) /\ Len(requests) <= ReqRoom)
        /\ req \in {<<>>} \cup {<<c>> : c \in Clients}
    BY <1>1 DEF FileInv, Asks
  <2>2. ASSUME NEW c \in Clients
        PROVE  /\ got[c] \in Seq(1..MaxBlocks)
               /\ \/ queue[c] = NoQueue
                  \/ /\ queue[c] \in Seq({FAILURE, END} \cup 1..MaxBlocks)
                     /\ \A i \in DOMAIN queue[c] : queue[c][i] = END \/ i <= Room
    <3>1. Received(c) /\ Underway(c) /\ pos[c] \in 0..MaxBlocks
      BY <1>1 DEF FileInv, Flow, FilePlaces
    <3>2. \A i \in 1..Len(got[c]) : got[c][i] \in 1..MaxBlocks
      BY <3>1, FileServerAssumption DEF FileServerAssumption, Received
    <3>3. got[c] \in Seq(1..MaxBlocks)
      BY <3>1, <3>2, Retype DEF Received
    <3>4. ASSUME queue[c] # NoQueue, NEW i \in 1..Len(queue[c])
          PROVE  /\ queue[c][i] \in {FAILURE, END} \cup 1..MaxBlocks
                 /\ queue[c][i] = END \/ i <= Room
      <4>1. CASE Block(c, i) /\ i <= Room
        BY <3>1, <4>1, FileServerAssumption DEF FileServerAssumption, Block, Received
      <4>2. CASE Final(c, i)
        BY <4>2 DEF Final
      <4>3. QED
        BY <3>1, <3>4, <4>1, <4>2 DEF Underway
    <3>5. queue[c] # NoQueue => queue[c] \in Seq({FAILURE, END} \cup 1..MaxBlocks)
      <4> SUFFICES ASSUME queue[c] # NoQueue
                   PROVE  queue[c] \in Seq({FAILURE, END} \cup 1..MaxBlocks)
        OBVIOUS
      <4> DEFINE T == {FAILURE, END} \cup 1..MaxBlocks
      <4>1. queue[c] \in Seq(Int)
        BY <3>1 DEF Underway
      <4>2. \A i \in 1..Len(queue[c]) : queue[c][i] \in T
        BY <3>4
      <4> HIDE DEF T
      <4>3. queue[c] \in Seq(T)
        BY <4>1, <4>2, Retype
      <4>4. QED
        BY <4>3 DEF T
    <3>6. queue[c] # NoQueue => DOMAIN queue[c] = 1..Len(queue[c])
      BY <3>1 DEF Underway
    <3>7. QED
      BY <3>3, <3>4, <3>5, <3>6
  <2>3. QED
    BY <1>1, <2>1, <2>2 DEF FileInv, FilePlaces, TypeOK
<1>2. ASSUME FileInv, NEW c \in Clients, client[c] = "complete"
      PROVE  got[c] = [i \in 1..file[c] |-> i]
  <2>1. /\ got[c] \in Seq(Nat) /\ Len(got[c]) = file[c]
        /\ \A i \in 1..Len(got[c]) : got[c][i] = i
    BY <1>2 DEF FileInv, Flow, Received
  <2>2. QED
    BY <2>1
<1>3. FileInv => EndMeansComplete
  BY <1>1, <1>2 DEF EndMeansComplete
<1>4. QED
  BY <1>3, FileInvariance, PTL
=============================================================================
