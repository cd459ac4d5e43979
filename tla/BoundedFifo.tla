---------------------------- MODULE BoundedFifo ----------------------------
(***************************************************************************)
(* What shared/os_list.c promises its users, by headers/os_list.h: a FIFO  *)
(* of at most Capacity items.  list_push adds at the end, the reader looks *)
(* at the item at the front, list_remove_first_node takes it off, and      *)
(* nothing else changes the queue until list_clean_nodes empties it.       *)
(***************************************************************************)
EXTENDS Sequences, Naturals

CONSTANTS Readers, Items, Nothing, Capacity

VARIABLES
  queue,    \* the items, oldest first
  got       \* what each reader was last given

Init ==
  /\ queue = <<>>
  /\ got = [r \in Readers |-> Nothing]

Push(d) ==
  /\ Len(queue) < Capacity
  /\ queue' = Append(queue, d)
  /\ UNCHANGED got

GetFirst(r) ==
  /\ queue # <<>>
  /\ got' = [got EXCEPT ![r] = Head(queue)]
  /\ UNCHANGED queue

GetLast(r) ==
  /\ got' = [got EXCEPT ![r] = IF queue = <<>> THEN Nothing ELSE queue[Len(queue)]]
  /\ UNCHANGED queue

RemoveFirst ==
  /\ queue # <<>>
  /\ queue' = Tail(queue)
  /\ UNCHANGED got

Clean ==
  /\ queue' = <<>>
  /\ UNCHANGED got

Next ==
  \/ \E d \in Items : Push(d)
  \/ \E r \in Readers : GetFirst(r) \/ GetLast(r)
  \/ RemoveFirst
  \/ Clean

Spec == Init /\ [][Next]_<<queue, got>>
=============================================================================
