---------------------------- MODULE OsListProofs ----------------------------
(***************************************************************************)
(* The critical sections of os_list.c keep the list well formed, for any   *)
(* heap and any capacity.  The argument follows the chain of nodes: a push *)
(* extends it at its end, a removal drops its first element and shifts the *)
(* rest down.                                                              *)
(***************************************************************************)
EXTENDS OsList, TLAPS, WellFoundedInduction

(***************************************************************************)
(* Induction on natural numbers, with a set for the predicate: a non-empty *)
(* set of naturals has a least element, because < is well founded.         *)
(***************************************************************************)
LessThan == {p \in Nat \X Nat : p[1] < p[2]}

LEMMA LessThanWellFounded == IsWellFoundedOn(LessThan, Nat)
  <1>1. LessThan = OpToRel(<, Nat)
    BY Zenon DEF OpToRel, LessThan
  <1> QED BY <1>1, NatLessThanWellFounded, Zenon

LEMMA LeastElement ==
  ASSUME NEW T \in SUBSET Nat, T # {}
  PROVE  \E x \in T : \A y \in T : ~(y < x)
  <1>1. \E x \in T : \A y \in T : ~(<<y, x>> \in LessThan)
    BY LessThanWellFounded, WFMin
  <1> QED BY <1>1 DEF LessThan

(* The two tests of list_empty (os_list.c:180) agree on a well-formed list. *)
LEMMA EmptyTests ==
  ASSUME ListTypeOK, WellFormed
  PROVE  /\ list_empty <=> cur_size = 0
         /\ list_empty <=> first_node = NULL
         /\ list_empty <=> last_node = NULL
  <1>1. PICK c \in [1..cur_size -> Nodes] : IsChain(c)
    BY DEF WellFormed
  <1>2. CASE cur_size = 0
    BY <1>1, <1>2 DEF IsChain, list_empty
  <1>3. CASE cur_size > 0
    <2>1. c[1] \in Nodes /\ c[cur_size] \in Nodes
      BY <1>1, <1>3 DEF ListTypeOK
    <2>2. first_node # NULL /\ last_node # NULL
      BY <2>1, <1>1, <1>3, OsListAssumption DEF IsChain
    <2> QED BY <2>2, <1>3 DEF list_empty
  <1> QED BY <1>2, <1>3 DEF ListTypeOK

(* An enumeration with cur_size = 0 makes an empty list well formed. *)
LEMMA CreatedListWellFormed ==
  ASSUME list_create
  PROVE  ListTypeOK /\ WellFormed
  <1>1. ListTypeOK
    BY DEF list_create, ListTypeOK, Pointer, Fields, Zeroed
  <1>2. cur_size <= max_size
    BY OsListAssumption DEF list_create
  <1> DEFINE c == [i \in 1..cur_size |-> NULL]
  <1>3. \A i \in 1..cur_size : FALSE
    BY DEF list_create
  <1>4. c \in [1..cur_size -> Nodes]
    BY <1>3
  <1>5. IsChain(c)
    <2> HIDE DEF c
    <2> QED BY <1>3, <1>4 DEF IsChain, list_create
  <1> QED BY <1>1, <1>2, <1>4, <1>5 DEF WellFormed

(* The chain c goes on with n after a step. *)
GoesOn(c, n) ==
  \E e \in [1..cur_size' -> Nodes] :
    /\ IsChain(e)'
    /\ e[cur_size'] = n
    /\ \A i \in 1..cur_size : e[i] = c[i]

(* _list_push with room: the node comes at the end of the chain, and no     *)
(* node's data changes (os_list.c:200-211).                                 *)
LEMMA AppendedChain ==
  ASSUME ListTypeOK, WellFormed, NEW c \in [1..cur_size -> Nodes], IsChain(c),
         NEW d \in Data, NEW n \in Nodes, append_node(d, n)
  PROVE  /\ ListTypeOK'
         /\ \A m \in live : node'[m].data = node[m].data
         /\ node'[n].data = d
         /\ GoesOn(c, n)
  <1>1. IsChain(c)
    OBVIOUS
  <1>2. cur_size \in Nat /\ cur_size' = cur_size + 1 /\ last_node' = n
        /\ live' = live \cup {n} /\ n \notin live
    BY DEF append_node, ListTypeOK
  <1>e. PICK e : e = [i \in 1..cur_size' |-> IF i = cur_size' THEN n ELSE c[i]]
    OBVIOUS
  <1>4. e \in [1..cur_size' -> Nodes]
    BY <1>1, <1>2, <1>e
  <1>5. \A i \in 1..cur_size : e[i] = c[i] /\ c[i] \in live /\ c[i] # n
    BY <1>1, <1>2, <1>e DEF IsChain
  <1>6. e[cur_size'] = n /\ cur_size' \in 1..cur_size'
    BY <1>2, <1>e
  <1>7. \A i, j \in 1..cur_size' : e[i] = e[j] => i = j
    <2> SUFFICES ASSUME NEW i \in 1..cur_size', NEW j \in 1..cur_size', e[i] = e[j]
                 PROVE  i = j
      OBVIOUS
    <2>1. /\ i = cur_size' \/ i \in 1..cur_size
          /\ j = cur_size' \/ j \in 1..cur_size
      BY <1>2
    <2> QED BY <2>1, <1>1, <1>5, <1>6 DEF IsChain
  <1>8. live' = {e[i] : i \in 1..cur_size'}
    <2>1. 1..cur_size' = 1..cur_size \cup {cur_size'}
      BY <1>2
    <2>2. live = {c[i] : i \in 1..cur_size}
      BY <1>1 DEF IsChain
    <2> QED BY <2>1, <2>2, <1>2, <1>5, <1>6
  <1>9. CASE list_empty
    <2>1. cur_size = 0 /\ first_node' = n
          /\ node' = [node EXCEPT ![n] = [next |-> NULL, prev |-> NULL, data |-> d]]
      BY <1>9, EmptyTests DEF append_node
    <2>2. ListTypeOK'
      BY <2>1, <1>2 DEF ListTypeOK, Pointer, Fields
    <2>3. node'[n].next = NULL /\ node'[n].prev = NULL
      BY <2>1 DEF ListTypeOK
    <2>4. cur_size' = 1
      BY <2>1, <1>2
    <2>5. \A i \in 1..(cur_size' - 1) : FALSE
      BY <2>4
    <2>6. IsChain(e)'
      BY <2>1, <2>3, <2>4, <2>5, <1>2, <1>4, <1>6, <1>7, <1>8 DEF IsChain
    <2>7. \A m \in live : FALSE
      BY <2>1, <1>1 DEF IsChain
    <2>8. node'[n].data = d
      BY <2>1 DEF ListTypeOK
    <2> QED BY <2>2, <2>6, <2>7, <2>8, <1>4, <1>5, <1>6 DEF GoesOn
  <1>10. CASE ~list_empty
    <2>1. cur_size > 0 /\ first_node' = first_node
          /\ node' = [node EXCEPT ![last_node].next = n,
                                  ![n] = [next |-> NULL, prev |-> last_node, data |-> d]]
      BY <1>10, <1>2 DEF append_node, list_empty
    <2>2. last_node = c[cur_size] /\ last_node \in Nodes /\ last_node # n
          /\ cur_size \in 1..cur_size /\ 1 \in 1..cur_size
      BY <2>1, <1>1, <1>2, <1>5 DEF IsChain
    <2>3. ListTypeOK'
      <3>1. node' \in [Nodes -> Fields]
        BY <2>1, <2>2 DEF ListTypeOK, Pointer, Fields
      <3> QED BY <3>1, <2>1, <1>2 DEF ListTypeOK, Pointer
    <2>4. /\ node'[n].next = NULL
          /\ node'[n].prev = last_node
          /\ node'[last_node].next = n
          /\ node'[last_node].prev = node[last_node].prev
          /\ \A m \in Nodes : m # n /\ m # last_node => node'[m] = node[m]
          /\ node'[last_node].data = node[last_node].data
          /\ node'[n].data = d
      BY <2>1, <2>2 DEF ListTypeOK, Fields
    <2>5. first_node' = e[1] /\ node'[e[1]].prev = NULL
      <3>1. e[1] = c[1] /\ first_node = c[1] /\ node[c[1]].prev = NULL /\ c[1] \in Nodes /\ c[1] # n
        BY <2>1, <2>2, <1>1, <1>5 DEF IsChain
      <3> QED BY <3>1, <2>1, <2>4
    <2>6. ASSUME NEW i \in 1..(cur_size' - 1)
          PROVE  node'[e[i]].next = e[i + 1] /\ node'[e[i + 1]].prev = e[i]
      <3>1. CASE i = cur_size
        <4>1. e[i] = last_node /\ e[i + 1] = n
          BY <3>1, <2>2, <1>2, <1>5, <1>6
        <4> QED BY <4>1, <2>4
      <3>2. CASE i \in 1..(cur_size - 1)
        <4>1. i \in 1..cur_size /\ i + 1 \in 1..cur_size /\ i # cur_size
          BY <3>2, <1>2
        <4>2. e[i] = c[i] /\ e[i + 1] = c[i + 1] /\ c[i] # n /\ c[i + 1] # n
          BY <4>1, <1>5
        <4>3. c[i] # last_node
          BY <4>1, <2>2, <1>1 DEF IsChain
        <4>4. node[c[i]].next = c[i + 1] /\ node[c[i + 1]].prev = c[i]
          BY <3>2, <1>1 DEF IsChain
        <4>5. c[i] \in Nodes /\ c[i + 1] \in Nodes
          BY <4>1, <1>1
        <4>6. node'[c[i]] = node[c[i]]
          BY <4>2, <4>3, <4>5, <2>4
        <4>7. node'[c[i + 1]].prev = node[c[i + 1]].prev
          BY <4>2, <4>5, <2>4
        <4> QED BY <4>2, <4>4, <4>6, <4>7
      <3> QED BY <3>1, <3>2, <1>2
    <2>7. /\ cur_size' > 0
          /\ last_node' = e[cur_size']
          /\ node'[e[cur_size']].next = NULL
      BY <2>4, <1>2, <1>6
    <2>8. \A i \in 1..(cur_size' - 1) :
            node'[e[i]].next = e[i + 1] /\ node'[e[i + 1]].prev = e[i]
      BY <2>6
    <2>9. IsChain(e)'
      BY <2>5, <2>7, <2>8, <1>4, <1>7, <1>8 DEF IsChain
    <2>10. \A m \in live : node'[m].data = node[m].data
      BY <2>4, <1>2 DEF ListTypeOK
    <2> QED BY <2>3, <2>4, <2>9, <2>10, <1>4, <1>5, <1>6 DEF GoesOn
  <1> QED BY <1>9, <1>10

(* So it keeps the list well formed. *)
LEMMA AppendKeepsList ==
  ASSUME ListTypeOK, WellFormed, ~list_full,
         NEW d \in Data, NEW n \in Nodes, append_node(d, n)
  PROVE  ListTypeOK' /\ WellFormed'
  <1>1. PICK c \in [1..cur_size -> Nodes] : IsChain(c)
    BY DEF WellFormed
  <1>2. ListTypeOK' /\ \E e \in [1..cur_size' -> Nodes] : IsChain(e)'
    BY <1>1, AppendedChain DEF GoesOn
  <1>3. cur_size' <= max_size
    BY OsListAssumption DEF append_node, ListTypeOK, WellFormed, list_full
  <1> QED BY <1>2, <1>3 DEF WellFormed

(* Corollary for the whole of _list_push, whatever it returns. *)
LEMMA PushKeepsList ==
  ASSUME ListTypeOK, WellFormed, NEW d \in Data, NEW ret, push(d, ret)
  PROVE  /\ ListTypeOK' /\ WellFormed'
         /\ live \subseteq live'
         /\ first_node # NULL => first_node' = first_node
  <1>1. CASE UNCHANGED listVars
    <2>1. UNCHANGED <<first_node, last_node, cur_size, node, live>>
      BY <1>1 DEF listVars
    <2> QED BY <2>1 DEF ListTypeOK, WellFormed, IsChain
  <1>2. CASE ~list_full /\ \E n \in Nodes : append_node(d, n)
    <2>1. PICK n \in Nodes : append_node(d, n)
      BY <1>2
    <2>2. ListTypeOK' /\ WellFormed'
      BY <2>1, <1>2, AppendKeepsList
    <2>3. live \subseteq live' /\ (first_node # NULL => first_node' = first_node)
      BY <2>1, EmptyTests DEF append_node
    <2> QED BY <2>2, <2>3
  <1> QED BY <1>1, <1>2 DEF push

(* list_remove_first_node: the chain without its first node, and the data   *)
(* of the others as it was (os_list.c:128-146).                             *)
LEMMA UnlinkedChain ==
  ASSUME ListTypeOK, NEW c \in [1..cur_size -> Nodes], IsChain(c), ~list_empty, unlink_first
  PROVE  /\ ListTypeOK'
         /\ \A m \in Nodes \ {first_node} : node'[m].data = node[m].data
         /\ \E e \in [1..cur_size' -> Nodes] :
              /\ IsChain(e)'
              /\ \A i \in 1..cur_size' : e[i] = c[i + 1]
  <1>1. IsChain(c)
    OBVIOUS
  <1>2. /\ cur_size \in Nat /\ cur_size > 0 /\ cur_size' = cur_size - 1
        /\ cur_size' \in Nat
    BY DEF unlink_first, list_empty, ListTypeOK
  <1> DEFINE second == node[first_node].next
  <1>3. first_node = c[1] /\ first_node \in Nodes /\ 1 \in 1..cur_size
    BY <1>1, <1>2 DEF IsChain
  <1>4. /\ first_node' = second /\ second \in Pointer
        /\ last_node' = IF second = NULL THEN NULL ELSE last_node
        /\ live' = live \ {first_node}
    BY <1>3 DEF unlink_first, ListTypeOK, Fields
  <1>5. /\ node' \in [Nodes -> Fields]
        /\ \A m \in Nodes \ {first_node} :
             /\ node'[m].next = node[m].next
             /\ node'[m].prev = IF m = second THEN NULL ELSE node[m].prev
             /\ node'[m].data = node[m].data
    BY DEF unlink_first, ListTypeOK, Pointer, Fields, Zeroed
  <1>6. ListTypeOK'
    BY <1>2, <1>4, <1>5 DEF ListTypeOK, Pointer
  <1>8. PICK e : e = [i \in 1..cur_size' |-> c[i + 1]]
    OBVIOUS
  <1>9. \A i \in 1..cur_size' :
          /\ i + 1 \in 1..cur_size
          /\ e[i] = c[i + 1] /\ e[i] \in Nodes /\ e[i] # first_node
    BY <1>1, <1>2, <1>3, <1>8 DEF IsChain
  <1>10. e \in [1..cur_size' -> Nodes]
    BY <1>8, <1>9
  <1>11. \A i, j \in 1..cur_size' : e[i] = e[j] => i = j
    BY <1>1, <1>2, <1>9 DEF IsChain
  <1>12. live' = {e[i] : i \in 1..cur_size'}
    <2>1. \A k \in 1..cur_size : k = 1 \/ (k - 1 \in 1..cur_size' /\ c[k] = e[k - 1])
      BY <1>2, <1>9
    <2>2. live = {c[i] : i \in 1..cur_size}
      BY <1>1 DEF IsChain
    <2>3. live' \subseteq {e[i] : i \in 1..cur_size'}
      BY <2>1, <2>2, <1>3, <1>4
    <2>4. {e[i] : i \in 1..cur_size'} \subseteq live'
      BY <2>2, <1>4, <1>9
    <2> QED BY <2>3, <2>4
  <1>13. CASE cur_size = 1
    <2>1. second = NULL
      BY <1>13, <1>1, <1>3 DEF IsChain
    <2>2. first_node' = NULL /\ last_node' = NULL /\ cur_size' = 0
      BY <2>1, <1>2, <1>4, <1>13
    <2>3. \A i \in 1..(cur_size' - 1) : FALSE
      BY <2>2
    <2>4. IsChain(e)'
      BY <2>2, <2>3, <1>10, <1>11, <1>12 DEF IsChain
    <2> QED BY <2>4, <1>5, <1>6, <1>9, <1>10
  <1>14. CASE cur_size > 1
    <2>1. 1 \in 1..(cur_size - 1) /\ 1 \in 1..cur_size' /\ cur_size' \in 1..cur_size' /\ cur_size' > 0
      BY <1>2, <1>14
    <2>2. second = c[2] /\ second = e[1] /\ second # NULL
      BY <2>1, <1>1, <1>3, <1>9, OsListAssumption DEF IsChain
    <2>3. first_node' = e[1] /\ node'[e[1]].prev = NULL
      BY <2>1, <2>2, <1>4, <1>5, <1>9
    <2>4. last_node' = e[cur_size'] /\ node'[e[cur_size']].next = NULL
      <3>1. e[cur_size'] = c[cur_size] /\ e[cur_size'] \in Nodes \ {first_node}
        BY <2>1, <1>2, <1>9
      <3>2. last_node = c[cur_size] /\ node[c[cur_size]].next = NULL
        BY <1>1, <1>2 DEF IsChain
      <3> QED BY <3>1, <3>2, <2>2, <1>4, <1>5
    <2>5. ASSUME NEW i \in 1..(cur_size' - 1)
          PROVE  node'[e[i]].next = e[i + 1] /\ node'[e[i + 1]].prev = e[i]
      <3>1. i \in 1..cur_size' /\ i + 1 \in 1..cur_size' /\ i + 1 \in 1..(cur_size - 1)
            /\ i + 1 # 1
        BY <1>2
      <3>2. e[i] = c[i + 1] /\ e[i + 1] = c[i + 1 + 1]
            /\ e[i] \in Nodes \ {first_node} /\ e[i + 1] \in Nodes \ {first_node}
        BY <3>1, <1>9
      <3>3. node[c[i + 1]].next = c[i + 1 + 1] /\ node[c[i + 1 + 1]].prev = c[i + 1]
        BY <3>1, <1>1 DEF IsChain
      <3>4. e[i + 1] # second
        BY <3>1, <2>1, <2>2, <1>11
      <3> QED BY <3>2, <3>3, <3>4, <1>5
    <2>6. \A i \in 1..(cur_size' - 1) :
            node'[e[i]].next = e[i + 1] /\ node'[e[i + 1]].prev = e[i]
      BY <2>5
    <2>7. IsChain(e)'
      BY <2>1, <2>3, <2>4, <2>6, <1>10, <1>11, <1>12 DEF IsChain
    <2> QED BY <2>7, <1>5, <1>6, <1>9, <1>10
  <1> QED BY <1>2, <1>13, <1>14

(* So it keeps the list well formed. *)
LEMMA UnlinkKeepsList ==
  ASSUME ListTypeOK, WellFormed, ~list_empty, unlink_first
  PROVE  ListTypeOK' /\ WellFormed'
  <1>1. PICK c \in [1..cur_size -> Nodes] : IsChain(c)
    BY DEF WellFormed
  <1>2. ListTypeOK' /\ \E e \in [1..cur_size' -> Nodes] : IsChain(e)'
    BY <1>1, UnlinkedChain
  <1>3. cur_size' <= max_size
    BY OsListAssumption DEF unlink_first, list_empty, ListTypeOK, WellFormed
  <1> QED BY <1>2, <1>3 DEF WellFormed

LEMMA RemoveKeepsList ==
  ASSUME ListTypeOK, WellFormed, NEW ret, remove_first(ret)
  PROVE  ListTypeOK' /\ WellFormed'
  <1>1. CASE UNCHANGED listVars
    <2>1. UNCHANGED <<first_node, last_node, cur_size, node, live>>
      BY <1>1 DEF listVars
    <2> QED BY <2>1 DEF ListTypeOK, WellFormed, IsChain
  <1>2. CASE ~list_empty /\ unlink_first
    BY <1>2, UnlinkKeepsList
  <1> QED BY <1>1, <1>2 DEF remove_first

(* The first node of a non-empty list is allocated. *)
LEMMA FirstNodeIsLive ==
  ASSUME ListTypeOK, WellFormed
  PROVE  /\ first_node # NULL => first_node \in live
         /\ last_node # NULL => last_node \in live
  <1>1. PICK c \in [1..cur_size -> Nodes] : IsChain(c)
    BY DEF WellFormed
  <1>2. CASE cur_size = 0
    BY <1>1, <1>2 DEF IsChain
  <1>3. CASE cur_size > 0
    BY <1>1, <1>3 DEF IsChain, ListTypeOK
  <1> QED BY <1>2, <1>3 DEF ListTypeOK

(***************************************************************************)
(* Following next from first_node, as list_clean_nodes does, meets the     *)
(* nodes of the chain in their order.                                      *)
(***************************************************************************)
LEMMA ChainIsUnique ==
  ASSUME ListTypeOK, NEW c, IsChain(c)
  PROVE  Chain = c
  <1> DEFINE Follows(f) ==
        f = [i \in 1..cur_size |-> IF i = 1 THEN first_node ELSE node[f[i - 1]].next]
  <1>1. Chain = CHOOSE f : Follows(f)
    BY DEF Chain
  <1>2. Follows(c)
    <2>1. \A i \in 1..cur_size :
            c[i] = IF i = 1 THEN first_node ELSE node[c[i - 1]].next
      <3>1. ASSUME NEW i \in 1..cur_size
            PROVE  c[i] = IF i = 1 THEN first_node ELSE node[c[i - 1]].next
        <4>1. cur_size > 0 /\ (i = 1 \/ i - 1 \in 1..(cur_size - 1))
          BY DEF ListTypeOK
        <4>2. CASE i = 1
          BY <4>1, <4>2 DEF IsChain
        <4>3. CASE i - 1 \in 1..(cur_size - 1)
          BY <4>3 DEF IsChain, ListTypeOK
        <4> QED BY <4>1, <4>2, <4>3
      <3> QED BY <3>1
    <2>2. c \in [1..cur_size -> Nodes]
      BY DEF IsChain
    <2> QED BY <2>1, <2>2
  <1>3. ASSUME NEW f, Follows(f)
        PROVE  f = c
    <2> DEFINE Diff == {i \in 1..cur_size : f[i] # c[i]}
    <2>1. Diff = {}
      <3>1. SUFFICES ASSUME Diff # {} PROVE FALSE
        OBVIOUS
      <3>2. Diff \in SUBSET Nat
        BY DEF ListTypeOK
      <3>3. PICK i \in Diff : \A j \in Diff : ~(j < i)
        BY <3>1, <3>2, LeastElement
      <3>4. i # 1
        BY <1>2, <1>3, <3>3
      <3>5. i - 1 \in 1..cur_size /\ i - 1 < i
        BY <3>3, <3>4 DEF ListTypeOK
      <3>6. f[i - 1] = c[i - 1]
        BY <3>3, <3>5
      <3>7. f[i] = node[f[i - 1]].next /\ c[i] = node[c[i - 1]].next
        BY <1>2, <1>3, <3>3, <3>4
      <3> QED BY <3>3, <3>6, <3>7
    <2>2. \A i \in 1..cur_size : f[i] = c[i]
      BY <2>1
    <2> QED BY <2>2, <1>2, <1>3
  <1> HIDE DEF Follows
  <1> QED BY <1>1, <1>2, <1>3
=============================================================================
