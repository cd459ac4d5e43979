---------------------------- MODULE ListThreads ----------------------------
(***************************************************************************)
(* Any number of threads on one os_list.  Producers call list_push; the    *)
(* readers take list->cnt_mutex, call list_get_data_first_node (or _last_  *)
(* node), use the data they are given, perhaps call list_remove_first_node *)
(* and release cnt_mutex: the protocol main-server.c follows.  When every  *)
(* thread has returned, the creator calls list_destroy.                    *)
(*                                                                         *)
(* A critical section under list->mutex is two steps, taking the mutex and *)
(* the body with the release: every field of the list is accessed only     *)
(* there, but for the node that list_get_data_first_node dereferences      *)
(* after it has released the mutex, which is a step of its own.            *)
(***************************************************************************)
EXTENDS OsList

CONSTANTS Producers, Readers

Threads == Producers \cup Readers

ASSUME ListThreadsAssumption ==
  /\ NULL \notin Threads
  /\ Producers \cap Readers = {}

VARIABLES
  mutex,      \* holder of list->mutex, or NULL
  cnt_mutex,  \* holder of list->cnt_mutex, or NULL
  waiting,    \* the threads asleep on list->data_available
  pc,         \* where each thread is
  first,      \* the local variable first (or last) of a reader's call
  got,        \* what the reader's last call returned
  destroyed   \* list_destroy has run

vars == <<listVars, mutex, cnt_mutex, waiting, pc, first, got, destroyed>>

PcValues == {"idle", "push", "pushing", "get", "look", "wait", "deref", "last",
             "looklast", "use", "remove", "removing", "done"}

Init ==
  /\ list_create
  /\ mutex = NULL
  /\ cnt_mutex = NULL
  /\ waiting = {}
  /\ pc = [t \in Threads |-> "idle"]
  /\ first = [r \in Readers |-> NULL]
  /\ got = [r \in Readers |-> NULL]
  /\ destroyed = FALSE

Goto(t, l) == pc' = [pc EXCEPT ![t] = l]

(* pthread_mutex_lock(&list->mutex) by a thread at label from. *)
TakeMutex(t, from, to) ==
  /\ pc[t] = from
  /\ mutex = NULL
  /\ mutex' = t
  /\ Goto(t, to)
  /\ UNCHANGED <<listVars, cnt_mutex, waiting, first, got, destroyed>>

-----------------------------------------------------------------------------
(* list_push *)
CallPush(t) ==
  /\ pc[t] = "idle"
  /\ Goto(t, "push")
  /\ UNCHANGED <<listVars, mutex, cnt_mutex, waiting, first, got, destroyed>>

LockPush(t) == TakeMutex(t, "push", "pushing")

(* Mutant of DoPush: broadcast when the push failed. *)
DoPush_wrong_broadcast(t) ==
  /\ pc[t] = "pushing"
  /\ \E d \in Data, ret \in {LIST_SUCCESS, LIST_FAIL, LIST_FULL} :
       /\ push(d, ret)
       /\ waiting' = IF ret # LIST_SUCCESS THEN {} ELSE waiting
  /\ mutex' = NULL
  /\ Goto(t, "idle")
  /\ UNCHANGED <<cnt_mutex, first, got, destroyed>>

(* The body: only a push that succeeded wakes the threads that wait. *)
DoPush(t) ==
  /\ pc[t] = "pushing"
  /\ \E d \in Data, ret \in {LIST_SUCCESS, LIST_FAIL, LIST_FULL} :
       /\ push(d, ret)
       /\ waiting' = IF ret = LIST_SUCCESS THEN {} ELSE waiting
  /\ mutex' = NULL
  /\ Goto(t, "idle")
  /\ UNCHANGED <<cnt_mutex, first, got, destroyed>>

-----------------------------------------------------------------------------
(* Mutant of LockCnt: the readers do not exclude each other. *)
LockCnt_unguarded(r) ==
  /\ pc[r] = "idle"
  /\ cnt_mutex' = r
  /\ \E call \in {"get", "last"} : Goto(r, call)
  /\ UNCHANGED <<listVars, mutex, waiting, first, got, destroyed>>

LockCnt(r) ==
  /\ pc[r] = "idle"
  /\ cnt_mutex = NULL
  /\ cnt_mutex' = r
  /\ \E call \in {"get", "last"} : Goto(r, call)
  /\ UNCHANGED <<listVars, mutex, waiting, first, got, destroyed>>

(* list_get_data_first_node: the loop head, under list->mutex.  On an empty *)
(* list pthread_cond_wait releases the mutex and sleeps.                    *)
LockGet(r) == TakeMutex(r, "get", "look")

Look(r) ==
  /\ pc[r] = "look"
  /\ first' = [first EXCEPT ![r] = first_node]
  /\ \/ /\ first_node = NULL
        /\ waiting' = waiting \cup {r}
        /\ Goto(r, "wait")
     \/ /\ first_node # NULL
        /\ Goto(r, "deref")
        /\ UNCHANGED waiting
  /\ mutex' = NULL
  /\ UNCHANGED <<listVars, cnt_mutex, got, destroyed>>

(* pthread_cond_wait returns, after a broadcast, with the mutex taken.     *)
WakeUp(r) ==
  /\ r \notin waiting
  /\ TakeMutex(r, "wait", "look")

(* pthread_cond_wait may also return without a broadcast. *)
SpuriousWakeUp(r) ==
  /\ pc[r] = "wait"
  /\ r \in waiting
  /\ waiting' = waiting \ {r}
  /\ UNCHANGED <<listVars, mutex, cnt_mutex, pc, first, got, destroyed>>

(* return first->data, after the mutex is released. *)
Deref(r) ==
  /\ pc[r] = "deref"
  /\ got' = [got EXCEPT ![r] = node[first[r]].data]
  /\ first' = [first EXCEPT ![r] = NULL]         \* out of scope
  /\ Goto(r, "use")
  /\ UNCHANGED <<listVars, mutex, cnt_mutex, waiting, destroyed>>

(* list_get_data_last_node does not wait: on an empty list it returns NULL. *)
LockLast(r) == TakeMutex(r, "last", "looklast")

LookLast(r) ==
  /\ pc[r] = "looklast"
  /\ first' = [first EXCEPT ![r] = last_node]
  /\ \/ /\ last_node = NULL
        /\ got' = [got EXCEPT ![r] = NULL]
        /\ Goto(r, "use")
     \/ /\ last_node # NULL
        /\ Goto(r, "deref")
        /\ UNCHANGED got
  /\ mutex' = NULL
  /\ UNCHANGED <<listVars, cnt_mutex, waiting, destroyed>>

-----------------------------------------------------------------------------
(* The caller keeps the node and releases cnt_mutex, or removes it first. *)
UnlockCnt(r) ==
  /\ pc[r] = "use"
  /\ cnt_mutex' = NULL
  /\ Goto(r, "idle")
  /\ UNCHANGED <<listVars, mutex, waiting, first, got, destroyed>>

CallRemove(r) ==
  /\ pc[r] = "use"
  /\ Goto(r, "remove")
  /\ UNCHANGED <<listVars, mutex, cnt_mutex, waiting, first, got, destroyed>>

LockRemove(r) == TakeMutex(r, "remove", "removing")

DoRemove(r) ==
  /\ pc[r] = "removing"
  /\ \E ret \in {LIST_SUCCESS, LIST_NODATA} : remove_first(ret)
  /\ mutex' = NULL
  /\ Goto(r, "use")
  /\ UNCHANGED <<cnt_mutex, waiting, first, got, destroyed>>

-----------------------------------------------------------------------------
(* A thread function may return when it is not inside a call. *)
Return(t) ==
  /\ pc[t] = "idle"
  /\ Goto(t, "done")
  /\ UNCHANGED <<listVars, mutex, cnt_mutex, waiting, first, got, destroyed>>

(* list_clean_nodes: walk from first_node, freeing; with list_destroy around *)
(* it once every thread is joined.                                           *)
list_clean_nodes ==
  /\ IF list_empty THEN UNCHANGED listVars
     ELSE /\ live' = live \ {Chain[i] : i \in 1..cur_size}
          /\ node' = [n \in Nodes |-> IF n \in live' THEN node[n] ELSE Zeroed]
          /\ cur_size' = 0
          /\ first_node' = NULL
          /\ last_node' = NULL

list_destroy ==
  /\ \A t \in Threads : pc[t] = "done"
  /\ ~destroyed
  /\ destroyed' = TRUE
  /\ list_clean_nodes
  /\ UNCHANGED <<mutex, cnt_mutex, waiting, pc, first, got>>

(* Inside a call: what a thread does without its caller deciding anything. *)
InCall(t) ==
  \/ LockPush(t) \/ DoPush(t)
  \/ /\ t \in Readers
     /\ \/ LockGet(t) \/ Look(t) \/ WakeUp(t) \/ Deref(t)
        \/ LockLast(t) \/ LookLast(t)
        \/ LockRemove(t) \/ DoRemove(t)

Next ==
  \/ \E t \in Threads : InCall(t) \/ Return(t)
  \/ \E p \in Producers : CallPush(p)
  \/ \E r \in Readers : LockCnt(r) \/ SpuriousWakeUp(r) \/ UnlockCnt(r) \/ CallRemove(r)
  \/ list_destroy

(***************************************************************************)
(* A thread inside a call of the library keeps running, and if it finds    *)
(* list->mutex free again and again it takes it in the end.  (It is at one *)
(* label at a time, so strong fairness of all its steps asks no more of    *)
(* the steps that take no mutex than weak fairness would.)                 *)
(***************************************************************************)
Fairness == \A t \in Threads : SF_vars(InCall(t))

Spec == Init /\ [][Next]_vars
FairSpec == Spec /\ Fairness

-----------------------------------------------------------------------------
TypeOK ==
  /\ ListTypeOK
  /\ mutex \in Threads \cup {NULL}
  /\ cnt_mutex \in Readers \cup {NULL}
  /\ waiting \in SUBSET Readers
  /\ pc \in [Threads -> PcValues]
  /\ first \in [Readers -> Pointer]
  /\ got \in [Readers -> Data \cup {NULL}]
  /\ destroyed \in BOOLEAN

(* The node whose data a reader is about to read is allocated. *)
DerefIsSafe ==
  \A r \in Readers : pc[r] = "deref" => first[r] \in live

(* list_get_data_first_node reads first->data after unlocking list->mutex  *)
(* (os_list.c:101-108): the node it reads has not been freed meanwhile, and *)
(* nothing else has left its type.                                          *)
NoUseAfterFree == TypeOK /\ DerefIsSafe

(* The list is the FIFO its header promises: refinement.  A reader has its *)
(* answer from the moment it picked the node.                              *)
Queue ==
  LET c == Chain IN [i \in 1..cur_size |-> node[c[i]].data]

Answer ==
  [r \in Readers |-> IF pc[r] = "deref" THEN node[first[r]].data ELSE got[r]]

Fifo == INSTANCE BoundedFifo WITH
          queue <- Queue, got <- Answer,
          Items <- Data, Nothing <- NULL, Capacity <- max_size

(* Every step of the threads is a step of the bounded FIFO or invisible to *)
(* it: pushes append, removes take the oldest, a reader is given the front *)
(* (or back) item even though other threads push while it waits or reads.  *)
ImplementsFifo == Fifo!Spec

(* No lost wake-up: a reader asleep in pthread_cond_wait while the list has *)
(* a node is given its data (os_list.c:98-99 and the broadcast of list_push, *)
(* line 86), whatever the other threads do meanwhile.                       *)
IsServed ==
  \A r \in Readers : (pc[r] = "wait" /\ first_node # NULL) ~> (pc[r] = "use")
=============================================================================
