------------------------------- MODULE OsList -------------------------------
(***************************************************************************)
(* The shared list of the sensor gateway, shared/os_list.c: a doubly       *)
(* linked list of heap nodes with a first and a last pointer, a counter    *)
(* and a capacity.  This module holds the list's memory and the bodies of  *)
(* the critical sections that list->mutex protects.  The modules that own  *)
(* threads (ListThreads, Gateway) say who runs these bodies and when.      *)
(*                                                                         *)
(* A node is an element of Nodes; live is the set of nodes calloc has      *)
(* returned and free has not taken back.  calloc hands out zeroed memory,  *)
(* so a node that is not live is kept zeroed.                              *)
(***************************************************************************)
EXTENDS Integers

CONSTANTS
  Nodes,      \* the addresses calloc may return
  Data,       \* the values a caller may store in a node
  NULL,       \* the null pointer
  max_size    \* the capacity given to list_create

ASSUME OsListAssumption ==
  /\ NULL \notin Nodes
  /\ max_size \in Nat

VARIABLES
  first_node, last_node, cur_size,
  node,       \* the fields of every node
  live        \* the nodes that are allocated

listVars == <<first_node, last_node, cur_size, node, live>>

(* The return codes of os_list.h. *)
LIST_SUCCESS == 0
LIST_FAIL    == -1
LIST_NODATA  == -2
LIST_FULL    == -3

Pointer == Nodes \cup {NULL}
Fields  == [next : Pointer, prev : Pointer, data : Data \cup {NULL}]
Zeroed  == [next |-> NULL, prev |-> NULL, data |-> NULL]

ListTypeOK ==
  /\ first_node \in Pointer
  /\ last_node \in Pointer
  /\ cur_size \in Nat
  /\ node \in [Nodes -> Fields]
  /\ live \in SUBSET Nodes

list_create ==
  /\ first_node = NULL
  /\ last_node = NULL
  /\ cur_size = 0
  /\ node = [n \in Nodes |-> Zeroed]
  /\ live = {}

(* Mutant of list_full: one node too many. *)
list_full_late == cur_size > max_size

list_full  == cur_size = max_size
list_empty == cur_size = 0 \/ first_node = NULL

-----------------------------------------------------------------------------
(* Mutant of append_node: the new node goes to the front. *)
append_node_front(d, n) ==
  /\ n \in Nodes \ live
  /\ live' = live \cup {n}
  /\ first_node' = n
  /\ node' = [m \in Nodes |->
                IF m = n THEN [next |-> first_node, prev |-> NULL, data |-> d]
                ELSE IF m = first_node THEN [node[m] EXCEPT !.prev = n]
                ELSE node[m]]
  /\ last_node' = IF list_empty THEN n ELSE last_node
  /\ cur_size' = cur_size + 1

(* _list_push when there is room and calloc returns n. *)
append_node(d, n) ==
  /\ n \in Nodes \ live
  /\ live' = live \cup {n}
  /\ \/ /\ list_empty
        /\ first_node' = n
        /\ node' = [node EXCEPT ![n] = [next |-> NULL, prev |-> NULL, data |-> d]]
     \/ /\ ~list_empty
        /\ node' = [node EXCEPT ![last_node].next = n,
                                ![n] = [next |-> NULL, prev |-> last_node, data |-> d]]
        /\ UNCHANGED first_node
  /\ last_node' = n
  /\ cur_size' = cur_size + 1

(* _list_push, with its return value. *)
push(d, ret) ==
  \/ /\ ret = LIST_FULL
     /\ list_full
     /\ UNCHANGED listVars
  \/ /\ ret = LIST_FAIL                         \* calloc returned NULL
     /\ ~list_full
     /\ UNCHANGED listVars
  \/ /\ ret = LIST_SUCCESS
     /\ ~list_full
     /\ \E n \in Nodes : append_node(d, n)

(* The critical section of list_remove_first_node, with its return value.  *)
unlink_first ==
  LET second == node[first_node].next IN
  /\ first_node' = second
  /\ last_node' = IF second = NULL THEN NULL ELSE last_node
  /\ node' = [n \in Nodes |-> IF n = first_node THEN Zeroed
                              ELSE IF n = second THEN [node[n] EXCEPT !.prev = NULL]
                              ELSE node[n]]
  /\ live' = live \ {first_node}
  /\ cur_size' = cur_size - 1

remove_first(ret) ==
  \/ /\ ret = LIST_NODATA
     /\ list_empty
     /\ UNCHANGED listVars
  \/ /\ ret = LIST_SUCCESS
     /\ ~list_empty
     /\ unlink_first

-----------------------------------------------------------------------------
(* The nodes in list order, following next from first_node. *)
Chain ==
  LET at[i \in 1..cur_size] == IF i = 1 THEN first_node ELSE node[at[i - 1]].next
  IN  at

(***************************************************************************)
(* A chain of the list: c enumerates the allocated nodes once each, in the *)
(* order of the next pointers, with prev pointing back and first_node and  *)
(* last_node at its ends.                                                  *)
(***************************************************************************)
IsChain(c) ==
  /\ c \in [1..cur_size -> Nodes]
  /\ \A i, j \in 1..cur_size : c[i] = c[j] => i = j
  /\ live = {c[i] : i \in 1..cur_size}
  /\ cur_size = 0 => first_node = NULL /\ last_node = NULL
  /\ cur_size > 0 =>
       /\ first_node = c[1]
       /\ last_node = c[cur_size]
       /\ node[c[1]].prev = NULL
       /\ node[c[cur_size]].next = NULL
  /\ \A i \in 1..(cur_size - 1) :
       /\ node[c[i]].next = c[i + 1]
       /\ node[c[i + 1]].prev = c[i]

(***************************************************************************)
(* The list is well formed: some enumeration of the allocated nodes is a   *)
(* chain, so no node leaks, none is reached twice, the counter is the      *)
(* length, and the capacity is respected.                                  *)
(***************************************************************************)
WellFormed ==
  /\ cur_size <= max_size
  /\ \E c \in [1..cur_size -> Nodes] : IsChain(c)
=============================================================================
