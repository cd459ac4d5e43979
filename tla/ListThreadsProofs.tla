------------------------- MODULE ListThreadsProofs -------------------------
(***************************************************************************)
(* For any producers, readers, heap and capacity: the list stays well      *)
(* formed and a reader never reads a freed node.                           *)
(*                                                                         *)
(* DerefIsSafe is not inductive by itself: that no other thread frees      *)
(* the node a reader is about to read follows from cnt_mutex, which every  *)
(* thread between LockCnt and UnlockCnt holds, and a node can be freed     *)
(* only there.  The inductive invariant adds this (CntHeld) and the list's *)
(* own representation invariant (WellFormed).                              *)
(***************************************************************************)
EXTENDS ListThreads, OsListProofs, Sequences

(* The labels between LockCnt and UnlockCnt. *)
Counting == {"get", "look", "wait", "deref", "last", "looklast", "use",
             "remove", "removing"}

CntHeld == \A r \in Readers : pc[r] \in Counting => cnt_mutex = r

IInv ==
  /\ TypeOK
  /\ WellFormed
  /\ CntHeld
  /\ DerefIsSafe

USE DEF LIST_SUCCESS, LIST_FAIL, LIST_NODATA, LIST_FULL

LEMMA InitIInv == Init => IInv
  <1> SUFFICES ASSUME Init PROVE IInv
    OBVIOUS
  <1>1. ListTypeOK /\ WellFormed
    BY CreatedListWellFormed DEF Init
  <1> QED BY <1>1 DEF Init, IInv, TypeOK, CntHeld, Counting, DerefIsSafe,
                      Threads, PcValues, Pointer

(* The steps that leave the list alone. *)
LEMMA ListUnchanged ==
  ASSUME UNCHANGED listVars
  PROVE  /\ ListTypeOK => ListTypeOK'
         /\ WellFormed => WellFormed'
         /\ live' = live /\ first_node' = first_node
  <1>1. UNCHANGED <<first_node, last_node, cur_size, node, live>>
    BY DEF listVars
  <1> QED BY <1>1 DEF ListTypeOK, WellFormed, IsChain

(* list_clean_nodes leaves an empty list (os_list.c:43-76). *)
LEMMA CleanKeepsList ==
  ASSUME ListTypeOK, WellFormed, list_clean_nodes
  PROVE  ListTypeOK' /\ WellFormed'
  <1>1. CASE UNCHANGED listVars
    BY <1>1, ListUnchanged
  <1>2. CASE ~list_empty
    <2>1. PICK c \in [1..cur_size -> Nodes] : IsChain(c)
      BY DEF WellFormed
    <2>2. Chain = c
      BY <2>1, ChainIsUnique
    <2>3. live = {Chain[i] : i \in 1..cur_size}
      BY <2>1, <2>2 DEF IsChain
    <2>4. /\ live' = {} /\ cur_size' = 0 /\ first_node' = NULL /\ last_node' = NULL
          /\ node' = [n \in Nodes |-> Zeroed]
      BY <1>2, <2>3 DEF list_clean_nodes
    <2>5. list_create'
      BY <2>4 DEF list_create
    <2> QED BY <2>5, CreatedListWellFormed, PTL
  <1> QED BY <1>1, <1>2 DEF list_clean_nodes

LEMMA NextIInv == IInv /\ [Next]_vars => IInv'
  <1> SUFFICES ASSUME IInv, [Next]_vars PROVE IInv'
    OBVIOUS
  <1> USE DEF IInv
  \* Taking list->mutex, for whichever call.
  <1>1. ASSUME NEW t \in Threads, NEW from, NEW to \in PcValues, TakeMutex(t, from, to),
               t \in Readers /\ to \in Counting => from \in Counting,
               to # "deref"
        PROVE  IInv'
    <2>1. ListTypeOK' /\ WellFormed' /\ live' = live
      BY <1>1, ListUnchanged DEF TakeMutex, TypeOK
    <2>2. TypeOK'
      BY <1>1, <2>1 DEF TakeMutex, TypeOK, Goto
    <2>3. CntHeld' /\ DerefIsSafe'
      BY <1>1, <2>1 DEF TakeMutex, TypeOK, Goto, CntHeld, DerefIsSafe, Threads
    <2> QED BY <2>1, <2>2, <2>3
  \* Steps of one thread that leave the list and its mutex alone.
  <1>2. ASSUME NEW t \in Producers, CallPush(t) PROVE IInv'
    <2>1. ListTypeOK' /\ WellFormed' /\ live' = live
      BY <1>2, ListUnchanged DEF CallPush, TypeOK
    <2>2. TypeOK'
      BY <1>2, <2>1 DEF CallPush, TypeOK, Goto, PcValues
    <2>3. CntHeld' /\ DerefIsSafe'
      BY <1>2, <2>1 DEF CallPush, TypeOK, Goto, CntHeld, DerefIsSafe, Threads, Counting
    <2> QED BY <2>1, <2>2, <2>3
  <1>3. ASSUME NEW t \in Threads, LockPush(t) PROVE IInv'
    BY <1>3, <1>1 DEF LockPush, PcValues, Counting
  <1>4. ASSUME NEW t \in Threads, DoPush(t) PROVE IInv'
    <2>1. PICK d \in Data, ret \in {LIST_SUCCESS, LIST_FAIL, LIST_FULL} :
            push(d, ret) /\ waiting' = IF ret = LIST_SUCCESS THEN {} ELSE waiting
      BY <1>4 DEF DoPush
    <2>2. ListTypeOK' /\ WellFormed' /\ live \subseteq live'
      BY <2>1, PushKeepsList DEF TypeOK
    <2>3. TypeOK'
      BY <1>4, <2>1, <2>2 DEF DoPush, TypeOK, Goto, PcValues
    <2>4. CntHeld' /\ DerefIsSafe'
      BY <1>4, <2>2 DEF DoPush, TypeOK, Goto, CntHeld, DerefIsSafe, Threads, Counting
    <2> QED BY <2>2, <2>3, <2>4
  <1>5. ASSUME NEW r \in Readers, LockCnt(r) PROVE IInv'
    <2>1. ListTypeOK' /\ WellFormed' /\ live' = live
      BY <1>5, ListUnchanged DEF LockCnt, TypeOK
    <2>2. TypeOK'
      BY <1>5, <2>1 DEF LockCnt, TypeOK, Goto, PcValues
    <2>3. \A q \in Readers : q # r => pc[q] \notin Counting
      BY <1>5, ListThreadsAssumption DEF LockCnt, CntHeld, Threads
    <2>4. CntHeld' /\ DerefIsSafe'
      BY <1>5, <2>1, <2>3 DEF LockCnt, TypeOK, Goto, CntHeld, DerefIsSafe, Threads, Counting
    <2> QED BY <2>1, <2>2, <2>4
  \* list_get_data_first_node and list_get_data_last_node
  <1>6. ASSUME NEW r \in Readers, LockGet(r) \/ WakeUp(r) \/ LockLast(r) PROVE IInv'
    <2>1. CASE LockGet(r)
      BY <2>1, <1>1 DEF LockGet, PcValues, Counting, Threads
    <2>2. CASE WakeUp(r)
      BY <2>2, <1>1 DEF WakeUp, PcValues, Counting, Threads
    <2>3. CASE LockLast(r)
      BY <2>3, <1>1 DEF LockLast, PcValues, Counting, Threads
    <2> QED BY <1>6, <2>1, <2>2, <2>3
  <1>7. ASSUME NEW r \in Readers, Look(r) PROVE IInv'
    <2>1. ListTypeOK' /\ WellFormed' /\ live' = live
      BY <1>7, ListUnchanged DEF Look, TypeOK
    <2>2. TypeOK'
      BY <1>7, <2>1 DEF Look, TypeOK, ListTypeOK, Goto, PcValues
    <2>3. CntHeld'
      BY <1>7 DEF Look, TypeOK, Goto, CntHeld, Threads, Counting
    <2>4. DerefIsSafe'
      <3>1. first_node # NULL => first_node \in live
        BY FirstNodeIsLive DEF TypeOK
      <3> QED BY <1>7, <2>1, <3>1 DEF Look, TypeOK, Goto, DerefIsSafe, Threads
    <2> QED BY <2>1, <2>2, <2>3, <2>4
  <1>8. ASSUME NEW r \in Readers, LookLast(r) PROVE IInv'
    <2>1. ListTypeOK' /\ WellFormed' /\ live' = live
      BY <1>8, ListUnchanged DEF LookLast, TypeOK
    <2>2. TypeOK'
      BY <1>8, <2>1 DEF LookLast, TypeOK, ListTypeOK, Goto, PcValues
    <2>3. CntHeld'
      BY <1>8 DEF LookLast, TypeOK, Goto, CntHeld, Threads, Counting
    <2>4. DerefIsSafe'
      <3>1. last_node # NULL => last_node \in live
        BY FirstNodeIsLive DEF TypeOK
      <3> QED BY <1>8, <2>1, <3>1 DEF LookLast, TypeOK, Goto, DerefIsSafe, Threads
    <2> QED BY <2>1, <2>2, <2>3, <2>4
  <1>9. ASSUME NEW r \in Readers, SpuriousWakeUp(r) PROVE IInv'
    <2>1. ListTypeOK' /\ WellFormed' /\ live' = live
      BY <1>9, ListUnchanged DEF SpuriousWakeUp, TypeOK
    <2>2. TypeOK' /\ CntHeld' /\ DerefIsSafe'
      BY <1>9, <2>1 DEF SpuriousWakeUp, TypeOK, CntHeld, DerefIsSafe
    <2> QED BY <2>1, <2>2
  <1>10. ASSUME NEW r \in Readers, Deref(r) PROVE IInv'
    <2>1. ListTypeOK' /\ WellFormed' /\ live' = live
      BY <1>10, ListUnchanged DEF Deref, TypeOK
    <2>2. first[r] \in Nodes /\ node[first[r]].data \in Data \cup {NULL}
      BY <1>10 DEF Deref, DerefIsSafe, TypeOK, ListTypeOK, Fields
    <2>3. TypeOK'
      BY <1>10, <2>1, <2>2 DEF Deref, TypeOK, Goto, PcValues, Pointer
    <2>4. CntHeld' /\ DerefIsSafe'
      BY <1>10, <2>1 DEF Deref, TypeOK, Goto, CntHeld, DerefIsSafe, Threads, Counting
    <2> QED BY <2>1, <2>3, <2>4
  \* The caller, between the calls
  <1>11. ASSUME NEW r \in Readers, UnlockCnt(r) PROVE IInv'
    <2>1. ListTypeOK' /\ WellFormed' /\ live' = live
      BY <1>11, ListUnchanged DEF UnlockCnt, TypeOK
    <2>2. TypeOK'
      BY <1>11, <2>1 DEF UnlockCnt, TypeOK, Goto, PcValues
    <2>3. \A q \in Readers : q # r => pc[q] \notin Counting
      BY <1>11 DEF UnlockCnt, CntHeld, Counting
    <2>4. CntHeld' /\ DerefIsSafe'
      BY <1>11, <2>1, <2>3 DEF UnlockCnt, TypeOK, Goto, CntHeld, DerefIsSafe, Threads, Counting
    <2> QED BY <2>1, <2>2, <2>4
  <1>12. ASSUME NEW r \in Readers, CallRemove(r) PROVE IInv'
    <2>1. ListTypeOK' /\ WellFormed' /\ live' = live
      BY <1>12, ListUnchanged DEF CallRemove, TypeOK
    <2>2. TypeOK'
      BY <1>12, <2>1 DEF CallRemove, TypeOK, Goto, PcValues
    <2>3. CntHeld' /\ DerefIsSafe'
      BY <1>12, <2>1 DEF CallRemove, TypeOK, Goto, CntHeld, DerefIsSafe, Threads, Counting
    <2> QED BY <2>1, <2>2, <2>3
  <1>13. ASSUME NEW r \in Readers, LockRemove(r) PROVE IInv'
    BY <1>13, <1>1 DEF LockRemove, PcValues, Counting, Threads
  <1>14. ASSUME NEW r \in Readers, DoRemove(r) PROVE IInv'
    <2>1. PICK ret \in {LIST_SUCCESS, LIST_NODATA} : remove_first(ret)
      BY <1>14 DEF DoRemove
    <2>2. ListTypeOK' /\ WellFormed'
      BY <2>1, RemoveKeepsList DEF TypeOK
    <2>3. TypeOK'
      BY <1>14, <2>2 DEF DoRemove, TypeOK, Goto, PcValues
    <2>4. CntHeld'
      BY <1>14 DEF DoRemove, TypeOK, Goto, CntHeld, Threads, Counting
    <2>5. \A q \in Readers : pc'[q] # "deref"
      BY <1>14 DEF DoRemove, TypeOK, Goto, CntHeld, Threads, Counting
    <2> QED BY <2>2, <2>3, <2>4, <2>5 DEF DerefIsSafe
  \* The end
  <1>15. ASSUME NEW t \in Threads, Return(t) PROVE IInv'
    <2>1. ListTypeOK' /\ WellFormed' /\ live' = live
      BY <1>15, ListUnchanged DEF Return, TypeOK
    <2>2. TypeOK'
      BY <1>15, <2>1 DEF Return, TypeOK, Goto, PcValues
    <2>3. CntHeld' /\ DerefIsSafe'
      BY <1>15, <2>1 DEF Return, TypeOK, Goto, CntHeld, DerefIsSafe, Threads, Counting
    <2> QED BY <2>1, <2>2, <2>3
  <1>16. ASSUME list_destroy PROVE IInv'
    <2>1. ListTypeOK' /\ WellFormed'
      BY <1>16, CleanKeepsList DEF list_destroy, TypeOK
    <2>2. \A r \in Readers : pc[r] # "deref"
      BY <1>16 DEF list_destroy, Threads
    <2>3. TypeOK' /\ CntHeld' /\ DerefIsSafe'
      BY <1>16, <2>1, <2>2 DEF list_destroy, TypeOK, CntHeld, DerefIsSafe
    <2> QED BY <2>1, <2>3
  <1>17. CASE UNCHANGED vars
    <2>1. ListTypeOK' /\ WellFormed' /\ live' = live
      BY <1>17, ListUnchanged DEF vars, TypeOK
    <2> QED BY <1>17, <2>1 DEF vars, TypeOK, CntHeld, DerefIsSafe
  <1>18. CASE Next
    BY <1>18, <1>2, <1>3, <1>4, <1>5, <1>6, <1>7, <1>8, <1>9, <1>10, <1>11,
       <1>12, <1>13, <1>14, <1>15, <1>16 DEF Next, InCall
  <1> QED BY <1>17, <1>18

THEOREM Invariance == Spec => []IInv
  BY InitIInv, NextIInv, PTL DEF Spec

(* Every variable keeps its type (os_list.c, os_list.h). *)
THEOREM TypeCorrect == Spec => []TypeOK
  <1>1. IInv => TypeOK
    BY DEF IInv
  <1> QED BY <1>1, Invariance, PTL

(* The list stays a chain of exactly the allocated nodes, no longer than   *)
(* its capacity, through every interleaving of its users.                  *)
THEOREM ListStaysWellFormed == Spec => []WellFormed
  <1>1. IInv => WellFormed
    BY DEF IInv
  <1> QED BY <1>1, Invariance, PTL

(* The dereference of list_get_data_first_node after its unlock            *)
(* (os_list.c:101-108) never reads freed memory, for any number of threads *)
(* that hold cnt_mutex as main-server.c's do.                              *)
THEOREM ReadsLiveNodes == Spec => []NoUseAfterFree
  <1>1. IInv => NoUseAfterFree
    BY DEF IInv, NoUseAfterFree
  <1> QED BY <1>1, Invariance, PTL
-----------------------------------------------------------------------------
(* The list as the queue of BoundedFifo *)
Items == Data \cup {NULL}

(* The data along any chain are the queue. *)
DataAlongChains ==
  ListTypeOK =>
    \A c : IsChain(c) => /\ Queue = [i \in 1..cur_size |-> node[c[i]].data]
                         /\ Queue \in Seq(Items) /\ Len(Queue) = cur_size

LEMMA QueueAlong == DataAlongChains
  <1> SUFFICES ASSUME ListTypeOK, NEW c, IsChain(c)
               PROVE  /\ Queue = [i \in 1..cur_size |-> node[c[i]].data]
                      /\ Queue \in Seq(Items) /\ Len(Queue) = cur_size
    BY DEF DataAlongChains
  <1>1. Queue = [i \in 1..cur_size |-> node[c[i]].data]
    BY ChainIsUnique DEF Queue
  <1>2. \A i \in 1..cur_size : node[c[i]].data \in Items
    BY DEF IsChain, ListTypeOK, Fields, Items
  <1>3. Queue \in [1..cur_size -> Items] /\ cur_size \in Nat
    BY <1>1, <1>2 DEF ListTypeOK
  <1> QED BY <1>1, <1>3

LEMMA QueueAlongThen == DataAlongChains'
  BY QueueAlong, PTL

(* A sequence that ends one later, or starts one later *)
LEMMA AppendIs ==
  ASSUME NEW S, NEW q \in Seq(S), NEW f \in Seq(S), NEW d \in S,
         Len(f) = Len(q) + 1, \A i \in 1..Len(q) : f[i] = q[i], f[Len(q) + 1] = d
  PROVE  f = Append(q, d)
  OBVIOUS

LEMMA TailIs ==
  ASSUME NEW S, NEW q \in Seq(S), NEW f \in Seq(S), q # <<>>,
         Len(f) = Len(q) - 1, \A i \in 1..Len(f) : f[i] = q[i + 1]
  PROVE  f = Tail(q)
  OBVIOUS

(* list_push appends to the queue, or leaves it. *)
LEMMA PushAppends ==
  ASSUME ListTypeOK, WellFormed, NEW d \in Data, NEW ret, push(d, ret)
  PROVE  /\ \A m \in live : node'[m].data = node[m].data
         /\ \/ Queue' = Queue
            \/ Len(Queue) < max_size /\ Queue' = Append(Queue, d)
  <1>1. PICK c \in [1..cur_size -> Nodes] : IsChain(c)
    BY DEF WellFormed
  <1>2. CASE UNCHANGED listVars
    <2>1. Queue' = Queue
      BY <1>2 DEF listVars, Queue, Chain
    <2> QED BY <1>2, <2>1 DEF listVars
  <1>3. CASE ~list_full /\ \E n \in Nodes : append_node(d, n)
    <2>1. PICK n \in Nodes : append_node(d, n)
      BY <1>3
    <2>2. /\ ListTypeOK'
          /\ \A m \in live : node'[m].data = node[m].data
          /\ node'[n].data = d
          /\ GoesOn(c, n)
      BY <1>1, <2>1, AppendedChain
    <2>3. PICK e \in [1..cur_size' -> Nodes] :
            /\ IsChain(e)'
            /\ e[cur_size'] = n
            /\ \A i \in 1..cur_size : e[i] = c[i]
      BY <2>2 DEF GoesOn
    <2>4. cur_size \in Nat /\ cur_size' = cur_size + 1
      BY <2>1 DEF ListTypeOK, append_node
    <2>5. /\ Queue = [i \in 1..cur_size |-> node[c[i]].data]
          /\ Queue \in Seq(Items) /\ Len(Queue) = cur_size
      BY <1>1, QueueAlong DEF DataAlongChains
    <2>6. /\ Queue' = [i \in 1..cur_size' |-> node'[e[i]].data]
          /\ Queue' \in Seq(Items) /\ Len(Queue') = cur_size'
      BY <2>2, <2>3, QueueAlongThen DEF DataAlongChains
    <2>7. ASSUME NEW i \in 1..cur_size PROVE Queue'[i] = Queue[i]
      <3>1. c[i] \in live /\ i \in 1..cur_size'
        BY <1>1, <2>4 DEF IsChain
      <3> QED BY <2>2, <2>3, <2>5, <2>6, <3>1
    <2>8. Queue'[cur_size + 1] = d
      BY <2>2, <2>3, <2>4, <2>6
    <2>9. d \in Items
      BY DEF Items
    <2>10. Queue' = Append(Queue, d)
      <3>1. /\ Len(Queue') = Len(Queue) + 1
            /\ \A i \in 1..Len(Queue) : Queue'[i] = Queue[i]
            /\ Queue'[Len(Queue) + 1] = d
        <4> HIDE DEF Queue
        <4>1. Len(Queue') = Len(Queue) + 1
          BY <2>4, <2>5, <2>6
        <4>2. \A i \in 1..Len(Queue) : Queue'[i] = Queue[i]
          BY <2>5, <2>7
        <4>3. Queue'[Len(Queue) + 1] = d
          BY <2>5, <2>8
        <4> QED BY <4>1, <4>2, <4>3
      <3>2. \A q, f \in Seq(Items) :
              /\ Len(f) = Len(q) + 1
              /\ \A i \in 1..Len(q) : f[i] = q[i]
              /\ f[Len(q) + 1] = d
              => f = Append(q, d)
        BY <2>9, AppendIs
      <3> HIDE DEF Queue
      <3>3. Queue \in Seq(Items) /\ Queue' \in Seq(Items)
        BY <2>5, <2>6
      <3> QED BY <3>1, <3>2, <3>3
    <2>11. cur_size < max_size
      BY <1>3, <2>4, OsListAssumption DEF WellFormed, list_full
    <2> QED BY <2>2, <2>5, <2>10, <2>11
  <1> QED BY <1>2, <1>3 DEF push

(* list_remove_first_node takes the oldest off the queue, or leaves it. *)
LEMMA RemoveTakesOldest ==
  ASSUME ListTypeOK, WellFormed, NEW ret, remove_first(ret)
  PROVE  Queue' = Queue \/ (Queue # <<>> /\ Queue' = Tail(Queue))
  <1>1. PICK c \in [1..cur_size -> Nodes] : IsChain(c)
    BY DEF WellFormed
  <1>2. CASE UNCHANGED listVars
    BY <1>2 DEF listVars, Queue, Chain
  <1>3. CASE ~list_empty /\ unlink_first
    <2>1. /\ ListTypeOK'
          /\ \A m \in Nodes \ {first_node} : node'[m].data = node[m].data
      BY <1>1, <1>3, UnlinkedChain
    <2>2. PICK e \in [1..cur_size' -> Nodes] :
            IsChain(e)' /\ \A i \in 1..cur_size' : e[i] = c[i + 1]
      BY <1>1, <1>3, UnlinkedChain
    <2>3. cur_size \in Nat \ {0} /\ cur_size' = cur_size - 1
      BY <1>3 DEF ListTypeOK, unlink_first, list_empty
    <2>4. /\ Queue = [i \in 1..cur_size |-> node[c[i]].data]
          /\ Queue \in Seq(Items) /\ Len(Queue) = cur_size
      BY <1>1, QueueAlong DEF DataAlongChains
    <2>5. /\ Queue' = [i \in 1..cur_size' |-> node'[e[i]].data]
          /\ Queue' \in Seq(Items) /\ Len(Queue') = cur_size'
      BY <2>1, <2>2, QueueAlongThen DEF DataAlongChains
    <2>6. ASSUME NEW i \in 1..cur_size' PROVE Queue'[i] = Queue[i + 1]
      <3>1. i + 1 \in 1..cur_size /\ 1 \in 1..cur_size /\ i + 1 # 1
        BY <2>3
      <3>2. c[i + 1] \in Nodes /\ c[i + 1] # first_node
        BY <1>1, <2>3, <3>1 DEF IsChain
      <3> QED BY <2>1, <2>2, <2>4, <2>5, <3>1, <3>2
    <2>7. Queue # <<>>
      BY <2>3, <2>4
    <2> QED BY <2>3, <2>4, <2>5, <2>6, <2>7, TailIs
  <1> QED BY <1>2, <1>3 DEF remove_first

(* The ends of the list are the ends of the queue. *)
LEMMA QueueEnds ==
  ASSUME ListTypeOK, WellFormed
  PROVE  /\ first_node = NULL => Queue = <<>>
         /\ last_node = NULL => Queue = <<>>
         /\ first_node # NULL => Queue # <<>> /\ node[first_node].data = Head(Queue)
         /\ last_node # NULL => Queue # <<>> /\ node[last_node].data = Queue[Len(Queue)]
  <1>1. PICK c \in [1..cur_size -> Nodes] : IsChain(c)
    BY DEF WellFormed
  <1>2. /\ Queue = [i \in 1..cur_size |-> node[c[i]].data]
        /\ Queue \in Seq(Items) /\ Len(Queue) = cur_size
    BY <1>1, QueueAlong DEF DataAlongChains
  <1>3. CASE cur_size = 0
    <2>1. first_node = NULL /\ last_node = NULL
      BY <1>1, <1>3 DEF IsChain
    <2> QED BY <1>2, <1>3, <2>1
  <1>4. CASE cur_size # 0
    <2>1. cur_size > 0 /\ 1 \in 1..cur_size /\ cur_size \in 1..cur_size
      BY <1>4 DEF ListTypeOK
    <2>2. first_node = c[1] /\ last_node = c[cur_size]
      BY <1>1, <2>1 DEF IsChain
    <2>3. first_node # NULL /\ last_node # NULL
      BY <2>1, <2>2, OsListAssumption
    <2>4. Queue # <<>> /\ Head(Queue) = Queue[1]
      BY <1>2, <2>1
    <2> QED BY <1>2, <2>1, <2>2, <2>3, <2>4
  <1> QED BY <1>3, <1>4

(* What no reader notices: its answer stays while its node's data does. *)
LEMMA AnswerStays ==
  ASSUME \A r \in Readers : pc'[r] = "deref" <=> pc[r] = "deref",
         \A r \in Readers : pc[r] = "deref" => node'[first'[r]].data = node[first[r]].data,
         UNCHANGED got
  PROVE  Answer' = Answer
  BY DEF Answer

(* The steps of the protocol that the queue does not see *)
LEMMA UnseenByQueue ==
  ASSUME IInv, UNCHANGED <<listVars, first, got>>,
         \A r \in Readers : pc'[r] = "deref" <=> pc[r] = "deref"
  PROVE  UNCHANGED <<Queue, Answer>>
  <1>1. Queue' = Queue
    BY DEF listVars, Queue, Chain
  <1>2. Answer' = Answer
    BY AnswerStays DEF listVars
  <1> QED BY <1>1, <1>2

LEMMA TakeUnseen ==
  ASSUME IInv, NEW t \in Threads, NEW from, NEW to, TakeMutex(t, from, to),
         from # "deref", to # "deref"
  PROVE  UNCHANGED <<Queue, Answer>>
  BY UnseenByQueue DEF TakeMutex, Goto, IInv, TypeOK, Threads

(* The answer that a reader gets with the node, and keeps *)
LEMMA LookGetsFirst ==
  ASSUME IInv, NEW r \in Readers, Look(r)
  PROVE  Fifo!GetFirst(r) \/ UNCHANGED <<Queue, Answer>>
  <1>1. UNCHANGED listVars /\ Queue' = Queue /\ node' = node
    BY DEF Look, listVars, Queue, Chain
  <1>2. CASE first_node = NULL
    <2>1. pc'[r] = "wait" /\ pc[r] = "look" /\ \A q \in Readers \ {r} : pc'[q] = pc[q]
      BY <1>2 DEF Look, Goto, IInv, TypeOK, Threads
    <2>2. \A q \in Readers : pc[q] = "deref" => first'[q] = first[q]
      BY <2>1 DEF Look, IInv, TypeOK
    <2>3. Answer' = Answer
      BY <1>1, <2>1, <2>2, AnswerStays DEF Look
    <2> QED BY <1>1, <2>3
  <1>3. CASE first_node # NULL
    <2>1. Queue # <<>> /\ node[first_node].data = Head(Queue)
      BY <1>3, QueueEnds DEF IInv, TypeOK
    <2>2. /\ pc' = [pc EXCEPT ![r] = "deref"]
          /\ first' = [first EXCEPT ![r] = first_node]
          /\ got' = got
      BY <1>3 DEF Look, Goto
    <2>3. Answer' = [Answer EXCEPT ![r] = Head(Queue)]
      <3>1. \A q \in Readers : Answer'[q] = IF q = r THEN Head(Queue) ELSE Answer[q]
        BY <1>1, <2>1, <2>2 DEF Answer, IInv, TypeOK, Threads
      <3>2. /\ Answer = [q \in Readers |-> Answer[q]]
            /\ Answer' = [q \in Readers |-> Answer'[q]]
        BY DEF Answer
      <3> HIDE DEF Answer
      <3> QED BY <3>1, <3>2
    <2> QED BY <1>1, <2>1, <2>3 DEF Fifo!GetFirst
  <1> QED BY <1>2, <1>3

LEMMA LookGetsLast ==
  ASSUME IInv, NEW r \in Readers, LookLast(r)
  PROVE  Fifo!GetLast(r)
  <1>1. UNCHANGED listVars /\ Queue' = Queue /\ node' = node
    BY DEF LookLast, listVars, Queue, Chain
  <1> DEFINE a == IF Queue = <<>> THEN NULL ELSE Queue[Len(Queue)]
  <1>2. IF pc'[r] = "deref" THEN node'[first'[r]].data = a ELSE got'[r] = a
    <2>1. CASE last_node = NULL
      BY <2>1, QueueEnds DEF LookLast, Goto, IInv, TypeOK, Threads
    <2>2. CASE last_node # NULL
      <3>1. Queue # <<>> /\ node[last_node].data = Queue[Len(Queue)]
        BY <2>2, QueueEnds DEF IInv, TypeOK
      <3>2. first'[r] = last_node /\ pc'[r] = "deref"
        BY <2>2 DEF LookLast, Goto, IInv, TypeOK, Threads
      <3> QED BY <1>1, <3>1, <3>2
    <2> QED BY <2>1, <2>2
  <1>3. \A q \in Readers \ {r} :
          pc'[q] = pc[q] /\ first'[q] = first[q] /\ got'[q] = got[q]
    BY DEF LookLast, Goto, IInv, TypeOK, Threads
  <1> HIDE DEF a
  <1>4. Answer' = [Answer EXCEPT ![r] = a]
    <2>1. \A q \in Readers : Answer'[q] = IF q = r THEN a ELSE Answer[q]
      BY <1>1, <1>2, <1>3 DEF Answer
    <2>2. /\ Answer = [q \in Readers |-> Answer[q]]
          /\ Answer' = [q \in Readers |-> Answer'[q]]
      BY DEF Answer
    <2> HIDE DEF Answer
    <2> QED BY <2>1, <2>2
  <1> QED BY <1>1, <1>4 DEF Fifo!GetLast, a

LEMMA DerefUnseen ==
  ASSUME IInv, NEW r \in Readers, Deref(r)
  PROVE  UNCHANGED <<Queue, Answer>>
  <1>1. UNCHANGED listVars /\ Queue' = Queue /\ node' = node
    BY DEF Deref, listVars, Queue, Chain
  <1>2. pc[r] = "deref" /\ pc'[r] = "use" /\ got'[r] = node[first[r]].data
    BY DEF Deref, Goto, IInv, TypeOK, Threads
  <1>3. \A q \in Readers \ {r} :
          pc'[q] = pc[q] /\ first'[q] = first[q] /\ got'[q] = got[q]
    BY DEF Deref, Goto, IInv, TypeOK, Threads
  <1>4. \A q \in Readers : Answer'[q] = Answer[q]
    BY <1>1, <1>2, <1>3 DEF Answer
  <1>5. /\ Answer = [q \in Readers |-> Answer[q]]
        /\ Answer' = [q \in Readers |-> Answer'[q]]
    BY DEF Answer
  <1> HIDE DEF Answer
  <1> QED BY <1>1, <1>4, <1>5

LEMMA DoPushPushes ==
  ASSUME IInv, NEW t \in Threads, DoPush(t)
  PROVE  (\E d \in Data : Fifo!Push(d)) \/ UNCHANGED <<Queue, Answer>>
  <1>1. PICK d \in Data, ret \in {LIST_SUCCESS, LIST_FAIL, LIST_FULL} : push(d, ret)
    BY DEF DoPush
  <1>2. /\ \A m \in live : node'[m].data = node[m].data
        /\ Queue' = Queue \/ (Len(Queue) < max_size /\ Queue' = Append(Queue, d))
    BY <1>1, PushAppends DEF IInv, TypeOK
  <1>3. /\ \A r \in Readers : pc'[r] = "deref" <=> pc[r] = "deref"
        /\ UNCHANGED <<first, got>>
    BY DEF DoPush, Goto, IInv, TypeOK, Threads
  <1>4. Answer' = Answer
    BY <1>2, <1>3, AnswerStays DEF IInv, DerefIsSafe
  <1> QED BY <1>2, <1>4 DEF Fifo!Push

LEMMA DoRemoveRemoves ==
  ASSUME IInv, NEW r \in Readers, DoRemove(r)
  PROVE  Fifo!RemoveFirst \/ UNCHANGED <<Queue, Answer>>
  <1>1. PICK ret \in {LIST_SUCCESS, LIST_NODATA} : remove_first(ret)
    BY DEF DoRemove
  <1>2. Queue' = Queue \/ (Queue # <<>> /\ Queue' = Tail(Queue))
    BY <1>1, RemoveTakesOldest DEF IInv, TypeOK
  <1>3. \A q \in Readers : pc[q] # "deref" /\ pc'[q] # "deref"
    BY DEF DoRemove, Goto, IInv, TypeOK, CntHeld, Counting, Threads
  <1>4. Answer' = Answer
    BY <1>3, AnswerStays DEF DoRemove
  <1> QED BY <1>2, <1>4 DEF Fifo!RemoveFirst

LEMMA DestroyCleans ==
  ASSUME IInv, IInv', list_destroy
  PROVE  Fifo!Clean \/ UNCHANGED <<Queue, Answer>>
  <1>1. \A r \in Readers : pc[r] # "deref" /\ pc'[r] # "deref"
    BY DEF list_destroy, Threads
  <1>2. Answer' = Answer
    BY <1>1, AnswerStays DEF list_destroy
  <1>3. CASE UNCHANGED listVars
    BY <1>2, <1>3 DEF listVars, Queue, Chain
  <1>4. CASE cur_size' = 0
    <2>1. PICK c : IsChain(c)'
      BY DEF IInv, WellFormed
    <2>2. Queue' \in Seq(Items) /\ Len(Queue') = 0
      BY <1>4, <2>1, QueueAlongThen DEF DataAlongChains, IInv, TypeOK
    <2>3. Queue' = <<>>
      BY <2>2
    <2> QED BY <1>2, <2>3 DEF Fifo!Clean
  <1> QED BY <1>3, <1>4 DEF list_destroy, list_clean_nodes

(* The list is the bounded FIFO that os_list.h promises: each step of any    *)
(* thread is one of its operations, or invisible (os_list.c:43-232).         *)
THEOREM ListIsFifo == Spec => ImplementsFifo
  <1>1. Init => Fifo!Init
    <2> SUFFICES ASSUME Init PROVE Fifo!Init
      OBVIOUS
    <2>1. ListTypeOK /\ WellFormed /\ first_node = NULL
      BY CreatedListWellFormed DEF Init, list_create
    <2>2. Queue = <<>>
      BY <2>1, QueueEnds
    <2>3. Answer = [r \in Readers |-> NULL]
      BY DEF Init, Answer, Threads
    <2> QED BY <2>2, <2>3 DEF Fifo!Init
  <1>2. IInv /\ IInv' /\ [Next]_vars => [Fifo!Next]_<<Queue, Answer>>
    <2> SUFFICES ASSUME IInv, IInv', [Next]_vars
                 PROVE  Fifo!Next \/ UNCHANGED <<Queue, Answer>>
      OBVIOUS
    <2>1. CASE UNCHANGED vars
      BY <2>1, UnseenByQueue DEF vars
    <2>2. ASSUME NEW t \in Threads, LockPush(t) PROVE UNCHANGED <<Queue, Answer>>
      BY <2>2, TakeUnseen DEF LockPush
    <2>3. ASSUME NEW r \in Readers,
                 LockGet(r) \/ WakeUp(r) \/ LockLast(r) \/ LockRemove(r)
          PROVE  UNCHANGED <<Queue, Answer>>
      BY <2>3, TakeUnseen DEF LockGet, WakeUp, LockLast, LockRemove, Threads
    <2>4. ASSUME NEW t \in Threads, Return(t) \/ (t \in Producers /\ CallPush(t))
          PROVE  UNCHANGED <<Queue, Answer>>
      BY <2>4, UnseenByQueue DEF Return, CallPush, Goto, IInv, TypeOK, Threads
    <2>5. ASSUME NEW r \in Readers,
                 LockCnt(r) \/ SpuriousWakeUp(r) \/ UnlockCnt(r) \/ CallRemove(r)
          PROVE  UNCHANGED <<Queue, Answer>>
      BY <2>5, UnseenByQueue
         DEF LockCnt, SpuriousWakeUp, UnlockCnt, CallRemove, Goto, IInv, TypeOK, Threads
    <2>6. ASSUME NEW t \in Threads, InCall(t)
          PROVE  Fifo!Next \/ UNCHANGED <<Queue, Answer>>
      BY <2>2, <2>3, <2>6, DoPushPushes, LookGetsFirst, LookGetsLast, DerefUnseen,
         DoRemoveRemoves DEF InCall, Fifo!Next
    <2>7. CASE list_destroy
      BY <2>7, DestroyCleans DEF Fifo!Next
    <2> QED BY <2>1, <2>4, <2>5, <2>6, <2>7 DEF Next, Threads
  <1> QED BY <1>1, <1>2, Invariance, PTL DEF Spec, ImplementsFifo, Fifo!Spec
=============================================================================
