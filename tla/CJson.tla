------------------------------- MODULE CJson -------------------------------
(***************************************************************************)
(* The item trees of cJSON.c, which the gateway parses its messages and    *)
(* room.json into.  An item is a block of memory with links to its         *)
(* neighbours and to its first child; its name (string) and its text       *)
(* (valuestring) may be blocks of their own, of which only the number is   *)
(* kept.  Every allocation may fail.  Some failures, and msg_parse when it *)
(* refuses a message, drop the last pointer to items that are not freed:   *)
(* these are lost, and their memory is never given out again.              *)
(*                                                                         *)
(* cJSON_Parse is its recursion, a frame per open array or object, over a  *)
(* text that is made up as it is read: at each place any token may come.   *)
(* A caller that builds trees uses the other functions on items it owns:   *)
(* it gives an item away once, does not add one below itself, names places *)
(* that are there, and does not change what a reference shows (cJSON.h).   *)
(* The caller that parses is msg_parse.  Numbers, texts, printing and the  *)
(* lookup by name are left out: a place or a name is any child.            *)
(***************************************************************************)
EXTENDS Integers, SequencesExt

CONSTANTS
  Items,               \* the addresses calloc may return
  NULL,
  MaxStrings,          \* names and texts that fit into memory
  Types,               \* the kinds of items a caller creates
  CJSON_NESTING_LIMIT

ASSUME JsonAssumption == NULL \notin Items /\ IsFiniteSet(Items)

VARIABLES
  heap,      \* the allocated items, without those that are lost
  strings,   \* how many names and texts are allocated, without those lost
  lost,      \* the allocated items that no pointer leads to any more
  lostStrings, \* how many names and texts are lost with them
  owned,     \* the items a caller holds, each the root of a tree
  frames,    \* the open arrays and objects of a parse
  root,      \* the item a parse will return
  expect     \* what the parser reads next, or "nothing" outside a parse

cJsonVars == <<heap, strings, lost, lostStrings, owned, frames, root, expect>>

Zeroed == [next |-> NULL, prev |-> NULL, child |-> NULL, type |-> "invalid",
           string |-> "none", valuestring |-> "none",
           IsReference |-> FALSE, StringIsConst |-> FALSE]

JsonInit ==
  /\ heap = <<>>
  /\ strings = 0
  /\ lost = {} /\ lostStrings = 0
  /\ owned = {}
  /\ frames = <<>> /\ root = NULL /\ expect = "nothing"

-----------------------------------------------------------------------------
(* What can be reached from S when to[x] is one step from x. *)
Closed(to, T) == \A y \in T : to[y] \subseteq T
Reach(to, S) ==
  {x \in DOMAIN to : \A T \in SUBSET DOMAIN to : S \subseteq T /\ Closed(to, T) => x \in T}

(* What items are linked to, and the items that cJSON_Delete frees. *)
Links(h) ==
  [x \in DOMAIN h |-> ({h[x].next} \cup (IF h[x].IsReference THEN {} ELSE {h[x].child})) \ {NULL}]

Below(h, S) == Reach(Links(h), S \ {NULL})

Names(h, S) == Cardinality({x \in S : ~h[x].StringIsConst /\ h[x].string # "none"})
Texts(h, S) == Cardinality({x \in S : ~h[x].IsReference /\ h[x].valuestring # "none"})

(* The children of an item: its child and those that follow it. *)
Children(h, a) == Reach([x \in DOMAIN h |-> {h[x].next} \ {NULL}], {h[a].child} \ {NULL})
LastChild(h, a) == CHOOSE x \in Children(h, a) : h[x].next = NULL

(* cJSON_Delete(x), in the memory h with n names and texts. *)
Without(h, n, S) ==
  /\ heap' = Restrict(h, DOMAIN h \ S)
  /\ strings' = n - Names(h, S) - Texts(h, S)

(* Mutant of cJSON_Delete: a reference takes the children with it. *)
cJSON_Delete_follows(h, n, x) ==
  LET own == [y \in DOMAIN h |-> [h[y] EXCEPT !.IsReference = FALSE]]
  IN  Without(h, n, Below(own, {x}))

cJSON_Delete(h, n, x) == Without(h, n, Below(h, {x}))

(* The last pointer to the items S is gone; those of freed were deleted     *)
(* before, the others stay allocated for ever, and their names and texts.   *)
Lose(h, S, freed) ==
  /\ Without(h, strings, S)
  /\ lost' = lost \cup (S \ freed)
  /\ lostStrings' = lostStrings + Names(h, S \ freed) + Texts(h, S \ freed)

lostVars == <<lost, lostStrings>>

(* The addresses calloc may return; none may be left. *)
Free == Items \ (DOMAIN heap \cup lost)
With(h, n, fields) == [x \in DOMAIN h \cup {n} |-> IF x = n THEN fields ELSE h[x]]

CanCopy == strings + lostStrings < MaxStrings

Linked(h, before, x) == [h EXCEPT ![before].next = x, ![x].prev = before]

add_item_to_array(h, a, x) ==
  IF h[a].child = NULL THEN [h EXCEPT ![a].child = x]
  ELSE Linked(h, LastChild(h, a), x)

cJSON_DetachItemViaPointer(h, a, x) ==
  [y \in DOMAIN h |->
     CASE y = x -> [h[y] EXCEPT !.prev = NULL, !.next = NULL]
       [] y # x -> [h[y] EXCEPT !.next = IF y = h[x].prev THEN h[x].next ELSE @,
                                !.prev = IF y = h[x].next THEN h[x].prev ELSE @,
                                !.child = IF y = a /\ @ = x THEN h[x].next ELSE @]]

cJSON_InsertItemInArray(h, a, after, x) ==
  [y \in DOMAIN h |->
     CASE y = x -> [h[y] EXCEPT !.next = after, !.prev = h[after].prev]
       [] y # x -> [h[y] EXCEPT !.next = IF y = h[after].prev THEN x ELSE @,
                                !.prev = IF y = after THEN x ELSE @,
                                !.child = IF y = a /\ @ = after THEN x ELSE @]]

(* The links of cJSON_ReplaceItemViaPointer; item is deleted afterwards. *)
Replaced(h, a, item, x) ==
  [y \in DOMAIN h |->
     CASE y = x -> [h[y] EXCEPT !.next = h[item].next, !.prev = h[item].prev]
       [] y = item -> [h[y] EXCEPT !.next = NULL, !.prev = NULL]
       [] y \notin {x, item} ->
            [h[y] EXCEPT !.next = IF y = h[item].prev THEN x ELSE @,
                         !.prev = IF y = h[item].next THEN x ELSE @,
                         !.child = IF y = a /\ @ = item THEN x ELSE @]]

-----------------------------------------------------------------------------
(* The caller's functions. *)
Idle == expect = "nothing"

Lists(a) == a \in DOMAIN heap /\ heap[a].type \in {"array", "object"}
              /\ ~heap[a].IsReference

(* The children of a, and an item with all that is below it. *)
Child(a) == Children(heap, a)
Tree(x) == {x} \cup (IF heap[x].IsReference THEN {} ELSE Below(heap, {heap[x].child}))

(* A reference elsewhere shows items of S. *)
Shown(S) == \E r \in DOMAIN heap \ S : heap[r].IsReference /\ heap[r].child \in S

(* x may be given to a: the caller holds it, and a is not below it. *)
Gives(a, x) ==
  Idle /\ x \in owned /\ Lists(a) /\ a \notin Tree(x) /\ ~Shown(Tree(x)) /\ ~Shown(Child(a))

parserVars == <<frames, root, expect>>

(* cJSON_CreateArray, -Object, -Number, -String and the like; when the text *)
(* cannot be allocated, the item is deleted again.                          *)
Create(type) ==
  /\ Idle /\ (type = "text" => CanCopy)
  /\ \E n \in Free :
       /\ heap' = With(heap, n, [Zeroed EXCEPT !.type = type,
                                !.valuestring = IF type = "text" THEN "heap" ELSE "none"])
       /\ owned' = owned \cup {n}
  /\ strings' = IF type = "text" THEN strings + 1 ELSE strings
  /\ UNCHANGED <<lostVars, parserVars>>

AddItemToArray(a, x) ==
  /\ Gives(a, x)
  /\ heap' = add_item_to_array(heap, a, x)
  /\ owned' = owned \ {x}
  /\ UNCHANGED <<strings, lostVars, parserVars>>

(* Its own name replaces the one it had. *)
Named(h, x, name) ==
  [h EXCEPT ![x].string = name, ![x].StringIsConst = (name = "const")]
NamesAfter(h, x, name) ==
  strings - Names(h, {x}) + (IF name = "heap" THEN 1 ELSE 0)

(* cJSON_AddItemToObject and -CS: when the name cannot be allocated, the    *)
(* item is not added, and the caller is not told.                           *)
AddItemToObject(o, x) ==
  /\ Gives(o, x) /\ heap[o].type = "object"
  /\ owned' = owned \ {x}
  /\ \/ \E name \in {"heap", "const"} :
          /\ heap' = add_item_to_array(Named(heap, x, name), o, x)
          /\ strings' = NamesAfter(heap, x, name)
          /\ UNCHANGED lostVars
     \/ Lose(heap, Below(heap, {x}), {})
  /\ UNCHANGED parserVars

(* create_reference: it shares text and children with the original. *)
create_reference(h, n, x) ==
  With(h, n, [h[x] EXCEPT !.string = "none", !.IsReference = TRUE,
                          !.next = NULL, !.prev = NULL])

AddItemReferenceToArray(a, x) ==
  /\ Idle /\ Lists(a) /\ x \in DOMAIN heap /\ ~Shown(Child(a))
  /\ \E n \in Free : heap' = add_item_to_array(create_reference(heap, n, x), a, n)
  /\ UNCHANGED <<strings, lostVars, owned, parserVars>>

(* Without memory for the name the reference is left behind. *)
AddItemReferenceToObject(o, x) ==
  /\ Idle /\ Lists(o) /\ heap[o].type = "object" /\ x \in DOMAIN heap /\ ~Shown(Child(o))
  /\ \E n \in Free :
       LET h == create_reference(heap, n, x) IN
       \/ /\ CanCopy
          /\ heap' = add_item_to_array(Named(h, n, "heap"), o, n)
          /\ strings' = strings + 1
          /\ UNCHANGED lostVars
       \/ Lose(h, {n}, {})
  /\ UNCHANGED <<owned, parserVars>>

DetachItem(a, x) ==
  /\ Idle /\ Lists(a) /\ x \in Child(a) /\ ~Shown(Child(a))
  /\ heap' = cJSON_DetachItemViaPointer(heap, a, x)
  /\ owned' = owned \cup {x}
  /\ UNCHANGED <<strings, lostVars, parserVars>>

InsertItemInArray(a, after, x) ==
  /\ Gives(a, x) /\ after \in Child(a)
  /\ heap' = cJSON_InsertItemInArray(heap, a, after, x)
  /\ owned' = owned \ {x}
  /\ UNCHANGED <<strings, lostVars, parserVars>>

ReplaceItemInArray(a, item, x) ==
  /\ Gives(a, x) /\ item \in Child(a) /\ ~Shown(Tree(item))
  /\ cJSON_Delete(Replaced(heap, a, item, x), strings, item)
  /\ owned' = owned \ {x}
  /\ UNCHANGED <<lostVars, parserVars>>

(* The name is allocated anew, or missing when it cannot be. *)
ReplaceItemInObject(o, item, x) ==
  /\ Gives(o, x) /\ heap[o].type = "object" /\ item \in Child(o) /\ ~Shown(Tree(item))
  /\ \E name \in {"heap", "none"} :
       /\ NamesAfter(heap, x, name) + lostStrings <= MaxStrings
       /\ cJSON_Delete(Replaced(Named(heap, x, name), o, item, x),
                       NamesAfter(heap, x, name), item)
  /\ owned' = owned \ {x}
  /\ UNCHANGED <<lostVars, parserVars>>

Delete(x) ==
  /\ Idle /\ x \in owned /\ ~Shown(Tree(x))
  /\ cJSON_Delete(heap, strings, x)
  /\ owned' = owned \ {x}
  /\ UNCHANGED <<lostVars, parserVars>>

(* What msg_parse does with a tree (os_msg.c:66-99): only a message it      *)
(* accepts is freed.  It refuses one that is no object; or, once it has read *)
(* the number sensorID, for that number or for a member that is missing; or  *)
(* for a member that is not of its type, ts no text or temperature, after a  *)
(* text ts, no number: then it deletes that child, and with it those that    *)
(* follow it.  Whatever else the tree has is lost.                           *)
HandleMessage(x) ==
  LET tree == Below(heap, {x}) IN
  /\ Idle /\ x \in owned /\ ~Shown(Tree(x))
  /\ owned' = owned \ {x}
  /\ \/ /\ heap[x].type = "object"
        /\ cJSON_Delete(heap, strings, x)
        /\ UNCHANGED lostVars
     \/ /\ heap[x].type # "object"
        /\ Lose(heap, tree, {})
     \/ /\ heap[x].type = "object"
        /\ \E senID \in Child(x) :
             /\ heap[senID].type = "number"
             /\ \/ Lose(heap, tree, {})
                \/ \E y \in Child(x) \ {senID} :
                     /\ \/ heap[y].type # "text"
                        \/ \E ts \in Child(x) \ {senID, y} : heap[ts].type = "text"
                     /\ Lose(heap, tree, Below(heap, {y}))
  /\ UNCHANGED parserVars

-----------------------------------------------------------------------------
(* The parser.  A frame has its item, the list it has built (head) and the *)
(* end of that list; the item gets the list when the bracket closes.       *)
Top == Last(frames)
Target == IF frames = <<>> THEN root ELSE Top.current_item

(* Without memory for the first item cJSON_Parse returns NULL. *)
Parse ==
  /\ Idle /\ DOMAIN heap = {}
  /\ \/ /\ \E n \in Free : heap' = With(heap, n, Zeroed) /\ root' = n
        /\ expect' = "value"
        /\ UNCHANGED <<strings, owned, frames>>
     \/ UNCHANGED <<heap, strings, owned, parserVars>>
  /\ UNCHANGED lostVars

Value(type) ==
  /\ heap' = [heap EXCEPT ![Target].type = type]
  /\ expect' = "after"
  /\ UNCHANGED <<strings, lostVars, owned, frames, root>>

(* A text: its block may not be had. *)
Text ==
  /\ CanCopy
  /\ heap' = [heap EXCEPT ![Target].type = "text", ![Target].valuestring = "heap"]
  /\ strings' = strings + 1
  /\ expect' = "after"
  /\ UNCHANGED <<lostVars, owned, frames, root>>

Fail ==
  /\ expect' = "fail"
  /\ UNCHANGED <<heap, strings, lostVars, owned, frames, root>>

(* A bracket that is followed by its other half has an empty list. *)
Open(type) ==
  /\ Len(frames) < CJSON_NESTING_LIMIT
  /\ frames' = Append(frames, [item |-> Target, type |-> type, head |-> NULL,
                               current_item |-> NULL])
  /\ expect' = "first"
  /\ UNCHANGED <<heap, strings, lostVars, owned, root>>

parse_value ==
  /\ expect = "value"
  /\ Value("number") \/ Text \/ Open("array") \/ Open("object") \/ Fail

(* The next item of the list. *)
NewItem ==
  /\ \E n \in Free :
       LET h == With(heap, n, Zeroed) IN
       /\ heap' = IF Top.head = NULL THEN h ELSE Linked(h, Top.current_item, n)
       /\ frames' = [frames EXCEPT ![Len(frames)].head = IF @ = NULL THEN n ELSE @,
                                   ![Len(frames)].current_item = n]
  /\ expect' = IF Top.type = "object" THEN "name" ELSE "value"
  /\ UNCHANGED <<strings, lostVars, owned, root>>

(* The name is read as a text of the item, and then moved. *)
Name ==
  /\ expect = "name"
  /\ \/ Fail
     \/ /\ CanCopy
        /\ heap' = [heap EXCEPT ![Target].type = "text", ![Target].string = "heap"]
        /\ strings' = strings + 1
        /\ \E next \in {"value", "fail"} : expect' = next
        /\ UNCHANGED <<lostVars, owned, frames, root>>

Success ==
  /\ heap' = [heap EXCEPT ![Top.item].type = Top.type, ![Top.item].child = Top.head]
  /\ frames' = Front(frames)
  /\ expect' = "after"
  /\ UNCHANGED <<strings, lostVars, owned, root>>

(* After the bracket, and after an item: the list goes on, or it closes. *)
List ==
  /\ expect = "first" \/ (expect = "after" /\ frames # <<>>)
  /\ NewItem \/ Success \/ Fail

(* cJSON_ParseWithOpts may ask for the end of the text here. *)
Parsed ==
  /\ expect = "after" /\ frames = <<>>
  /\ \/ Fail
     \/ /\ owned' = owned \cup {root}
        /\ root' = NULL
        /\ expect' = "nothing"
        /\ UNCHANGED <<heap, strings, lostVars, frames>>

(* Every open array or object deletes its list on the way out, and the     *)
(* first call its item.                                                    *)
GiveUp ==
  /\ expect = "fail"
  /\ IF frames # <<>>
     THEN /\ cJSON_Delete(heap, strings, Top.head)
          /\ frames' = Front(frames)
          /\ UNCHANGED <<root, expect>>
     ELSE /\ cJSON_Delete(heap, strings, root)
          /\ root' = NULL
          /\ expect' = "nothing"
          /\ UNCHANGED frames
  /\ UNCHANGED <<lostVars, owned>>

cJSON_Parse == Parse \/ parse_value \/ Name \/ List \/ Parsed \/ GiveUp

(* A caller that builds trees, and one that parses texts. *)
Build ==
  \/ \E type \in Types : Create(type)
  \/ \E a, x \in DOMAIN heap :
       \/ AddItemToArray(a, x) \/ AddItemToObject(a, x)
       \/ AddItemReferenceToArray(a, x) \/ AddItemReferenceToObject(a, x)
       \/ DetachItem(a, x)
       \/ \E y \in DOMAIN heap :
            \/ InsertItemInArray(a, y, x)
            \/ ReplaceItemInArray(a, y, x) \/ ReplaceItemInObject(a, y, x)
  \/ \E x \in DOMAIN heap : Delete(x)

Parsing == cJSON_Parse \/ \E x \in owned : HandleMessage(x) \/ Delete(x)

JsonNext == Build \/ Parsing

JsonSpec == JsonInit /\ [][JsonNext]_cJsonVars

-----------------------------------------------------------------------------
(* Who has x: a caller, the parser, the item before it or the one it is the *)
(* first child of.                                                          *)
Holders(x) ==
  {<<"owner">> : y \in owned \cap {x}}
  \cup {<<"root">> : y \in {root} \cap {x}}
  \cup {<<"frame", i>> : i \in {j \in DOMAIN frames : frames[j].head = x}}
  \cup {<<"next", y>> : y \in {z \in DOMAIN heap : heap[z].next = x}}
  \cup {<<"child", y>> : y \in {z \in DOMAIN heap :
                                 ~heap[z].IsReference /\ heap[z].child = x}}

(* Every item that is not lost has exactly one holder, its neighbours agree *)
(* about it, and what it shows is there; every name and text belongs to an  *)
(* item.  So no item is deleted twice or while it is linked to, and a text  *)
(* that ends early, or an allocation that fails, leaves none behind: but    *)
(* for a name that AddItemToObject cannot have and for what msg_parse       *)
(* refuses (cJSON.c:224-245, 1351-1614).                                    *)
EveryItemHasOneOwner ==
  LET held == owned \cup {root} \cup {frames[i].head : i \in DOMAIN frames}
      kept == DOMAIN heap IN
  /\ held \subseteq kept \cup {NULL}
  /\ \A x \in kept : /\ {heap[x].next, heap[x].prev, heap[x].child} \subseteq kept \cup {NULL}
                     /\ Cardinality(Holders(x)) = 1
                     /\ heap[x].next # NULL => heap[heap[x].next].prev = x
                     /\ heap[x].prev # NULL => heap[heap[x].prev].next = x
  /\ Below(heap, held) = kept
  /\ strings = Names(heap, DOMAIN heap) + Texts(heap, DOMAIN heap)
=============================================================================
