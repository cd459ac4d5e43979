-------------------------- MODULE ProducerConsumer --------------------------
(***************************************************************************)
(* 09-semaphore/producer-consumer: a producer and a consumer process with  *)
(* three semaphores in shared memory; the parent only prints the value of  *)
(* full.  The buffer itself is left to do in the code; here it is the      *)
(* number of items in it.                                                  *)
(***************************************************************************)
EXTENDS Integers

CONSTANT BUFFER_SIZE

VARIABLES mutex, full, empty, items, producer, consumer

producerConsumerVars == <<mutex, full, empty, items, producer, consumer>>

Init ==
  /\ mutex = 1
  /\ full = 0
  /\ empty = BUFFER_SIZE
  /\ items = 0
  /\ producer = "wait_empty"
  /\ consumer = "wait_full"

ProducerWaits ==
  /\ \/ /\ producer = "wait_empty"
        /\ empty > 0
        /\ empty' = empty - 1
        /\ producer' = "wait_mutex"
        /\ UNCHANGED mutex
     \/ /\ producer = "wait_mutex"
        /\ mutex > 0
        /\ mutex' = mutex - 1
        /\ producer' = "create"
        /\ UNCHANGED empty
  /\ UNCHANGED <<full, items, consumer>>

ProducerCreates ==
  /\ producer = "create"
  /\ items' = items + 1
  /\ producer' = "post_full"
  /\ UNCHANGED <<mutex, full, empty, consumer>>

(* full is posted before mutex. *)
ProducerPosts ==
  /\ \/ /\ producer = "post_full"
        /\ full' = full + 1
        /\ producer' = "post_mutex"
        /\ UNCHANGED mutex
     \/ /\ producer = "post_mutex"
        /\ mutex' = mutex + 1
        /\ producer' = "wait_empty"
        /\ UNCHANGED full
  /\ UNCHANGED <<empty, items, consumer>>

ConsumerWaits ==
  /\ \/ /\ consumer = "wait_full"
        /\ full > 0
        /\ full' = full - 1
        /\ consumer' = "wait_mutex"
        /\ UNCHANGED mutex
     \/ /\ consumer = "wait_mutex"
        /\ mutex > 0
        /\ mutex' = mutex - 1
        /\ consumer' = "take"
        /\ UNCHANGED full
  /\ UNCHANGED <<empty, items, producer>>

ConsumerTakes ==
  /\ consumer = "take"
  /\ items' = items - 1
  /\ consumer' = "post_mutex"
  /\ UNCHANGED <<mutex, full, empty, producer>>

(* Mutant of ConsumerPosts: the slot is given back twice. *)
ConsumerPosts_twice ==
  /\ \/ /\ consumer = "post_mutex"
        /\ mutex' = mutex + 1
        /\ consumer' = "post_empty"
        /\ empty' = empty + 1
     \/ /\ consumer = "post_empty"
        /\ empty' = empty + 1
        /\ consumer' = "wait_full"
        /\ UNCHANGED mutex
  /\ UNCHANGED <<full, items, producer>>

ConsumerPosts ==
  /\ \/ /\ consumer = "post_mutex"
        /\ mutex' = mutex + 1
        /\ consumer' = "post_empty"
        /\ UNCHANGED empty
     \/ /\ consumer = "post_empty"
        /\ empty' = empty + 1
        /\ consumer' = "wait_full"
        /\ UNCHANGED mutex
  /\ UNCHANGED <<full, items, producer>>

Producer == ProducerWaits \/ ProducerCreates \/ ProducerPosts
Consumer == ConsumerWaits \/ ConsumerTakes \/ ConsumerPosts
Next     == Producer \/ Consumer

Spec == Init /\ [][Next]_producerConsumerVars

-----------------------------------------------------------------------------
(* Every variable has its type: a semaphore never counts beyond its start.  *)
TypeOK ==
  /\ mutex \in 0..1
  /\ full \in 0..BUFFER_SIZE
  /\ empty \in 0..BUFFER_SIZE
  /\ items \in 0..BUFFER_SIZE
  /\ producer \in {"wait_empty", "wait_mutex", "create", "post_full", "post_mutex"}
  /\ consumer \in {"wait_full", "wait_mutex", "take", "post_mutex", "post_empty"}

(* The three semaphores keep the buffer: who creates has a free slot, who   *)
(* takes has an item, and never both at once; what the parent reads from    *)
(* full is at most what is there.                                           *)
BufferIsKept ==
  /\ producer = "create" => items < BUFFER_SIZE
  /\ consumer = "take" => items > 0
  /\ ~(producer \in {"create", "post_full", "post_mutex"}
         /\ consumer \in {"take", "post_mutex"})
  /\ full <= items

(* Neither order of the waits leaves both processes waiting for each other: *)
(* the consumer takes again and again.                                      *)
KeepsTaking == []<>(consumer = "take")
=============================================================================
