--------------------------- MODULE GatewayProofs ---------------------------
(***************************************************************************)
(* For any message texts, buffer length, heap and capacity: the counter    *)
(* and the list of the three threads agree (CountMatchesList), the list    *)
(* keeps a node until both managers have the text pushed last              *)
(* (NodeUntilBothHaveIt), and the threads keep the list's protocol         *)
(* (FollowsProtocol).                                                      *)
(*                                                                         *)
(* CountMatchesList is not inductive: that the list still has a node when  *)
(* a manager removes one follows from cnt_mutex, which it has held since   *)
(* it saw the node (CntHeld, HasNode), and that cnt never steps over 2     *)
(* from the same lock, under which cnt is reset before it is released      *)
(* (CountIsLow).                                                           *)
(*                                                                         *)
(* NodeUntilBothHaveIt is an argument by accounts: every node pays for two *)
(* counts, and while the newest text stays in the buffer what has been     *)
(* counted and what the managers still owe never exceeds it (Enough).  A   *)
(* manager that was copying when the text changed owes one count more,     *)
(* because it counts for a text it does not have; that it was the only one *)
(* holding cnt_mutex bounds the sum by two nodes when a message is pushed  *)
(* (AtMostTwoNodes).                                                       *)
(***************************************************************************)
EXTENDS Gateway, OsListProofs

(* The labels between LockCnt and the release of cnt_mutex. *)
Counting == {"get", "look", "wait", "deref", "compare", "copy", "count",
             "remove", "removing", "unlock_cnt"}

(* The labels at which a manager counts on the node it saw. *)
Seen == {"deref", "compare", "copy", "count", "remove", "removing"}

Labels == {"select", "recv", "push", "pushing", "lock_cnt", "parse", "record"}
          \cup Counting

CntHeld == \A r \in Readers : pc[r] \in Counting => cnt_mutex = r

CountIsLow ==
  /\ cnt_mutex = NULL => cnt \in {0, 1}
  /\ \A r \in Readers : pc[r] \in Counting \ {"count"} => cnt \in {0, 1}

HasNode ==
  /\ \A r \in Readers : pc[r] \in Seen => first_node # NULL
  /\ \A r \in Readers : pc[r] = "deref" => first[r] \in live

Locks == CntHeld /\ CountIsLow /\ HasNode

IInv == TypeOK /\ WellFormed /\ Locks

USE DEF LIST_SUCCESS, LIST_FAIL, LIST_NODATA, LIST_FULL

LEMMA Names == /\ "conn" \notin Readers /\ NULL \notin Threads
               /\ "conn" \in Threads /\ Readers \subseteq Threads
BY GatewayAssumption DEF Readers, Threads

LEMMA InitIInv == Init => IInv
<1> SUFFICES ASSUME Init PROVE IInv
  OBVIOUS
<1>1. ListTypeOK /\ WellFormed
  BY CreatedListWellFormed DEF Init
<1>2. 1 \in Cell /\ Zeros \in Memory /\ buf \in Memory /\ Readers \subseteq Threads
  BY GatewayAssumption DEF Init, Cell, Zeros, Memory, Readers, Threads
<1>3. TypeOK
  <2>1. /\ pos \in [Threads -> Cell]
        /\ first \in [Readers -> Pointer] /\ msg \in [Readers -> Data \cup {NULL}]
        /\ old_msg \in [Readers -> Memory] /\ parsed \in [Readers -> Memory]
    BY <1>2 DEF Init, Pointer
  <2>2. pc \in [Threads -> {"select", "lock_cnt"}]
    BY DEF Init
  <2>3. /\ mutex \in Threads \cup {NULL} /\ cnt_mutex \in Readers \cup {NULL}
        /\ waiting \in SUBSET Readers /\ cnt \in 0..2
        /\ incoming \in Texts \cup {NoText}
    BY DEF Init
  <2>4. pc \in [Threads -> {"select", "recv", "push", "pushing",
                           "lock_cnt", "get", "look", "wait", "deref", "compare",
                           "copy", "count", "remove", "removing", "unlock_cnt",
                           "parse", "record"}]
    BY <2>2
  <2>5. pushed \in BOOLEAN
    BY Zenon DEF Init
  <2>6. QED
    BY <1>1, <1>2, <2>1, <2>3, <2>4, <2>5, Zenon DEF TypeOK
<1>4. Locks
  BY <1>2 DEF Init, Locks, CntHeld, CountIsLow, HasNode, Counting, Seen, Readers
<1>5. QED
  BY <1>1, <1>3, <1>4 DEF IInv

(* The steps that leave the list alone. *)
LEMMA ListUnchanged ==
  ASSUME UNCHANGED listVars
  PROVE  /\ ListTypeOK => ListTypeOK'
         /\ WellFormed => WellFormed'
         /\ UNCHANGED <<first_node, live, node>>
<1>1. UNCHANGED <<first_node, last_node, cur_size, node, live>>
  BY DEF listVars
<1> QED BY <1>1 DEF ListTypeOK, WellFormed, IsChain

(* A thread goes to a label that it holds no more for than before. *)
LEMMA Moves ==
  ASSUME IInv, NEW t \in Threads, NEW to \in Labels,
         pc' = [pc EXCEPT ![t] = to] \/ UNCHANGED pc,
         UNCHANGED <<first_node, live, first, cnt, cnt_mutex>>,
         t \in Readers => /\ to \in Counting => pc[t] \in Counting
                          /\ to \in Counting \ {"count"} => pc[t] # "count"
                          /\ to \in Seen => pc[t] \in Seen
                          /\ to # "deref"
  PROVE  Locks' /\ pc' \in [Threads -> Labels]
<1>1. pc \in [Threads -> Labels]
  BY DEF IInv, TypeOK, Labels, Counting
<1>2. CASE UNCHANGED pc
  BY <1>1, <1>2 DEF IInv, Locks, CntHeld, CountIsLow, HasNode
<1>3. CASE pc' = [pc EXCEPT ![t] = to]
  <2>1. pc' \in [Threads -> Labels]
    BY <1>1, <1>3
  <2>2. \A r \in Readers : pc'[r] = IF r = t THEN to ELSE pc[r]
    BY <1>1, <1>3, Names
  <2>3. CntHeld'
    BY <2>2 DEF IInv, Locks, CntHeld
  <2>4. CountIsLow'
    BY <2>2 DEF IInv, Locks, CountIsLow
  <2>5. HasNode'
    BY <2>2 DEF IInv, Locks, HasNode
  <2>6. QED
    BY <2>1, <2>3, <2>4, <2>5 DEF Locks
<1>4. QED
  BY <1>2, <1>3

(* Who waits for cnt_mutex, or has given it back, is not counting. *)
LEMMA OthersDoNotCount ==
  ASSUME IInv, NEW r \in Readers, cnt_mutex = r \/ cnt_mutex = NULL,
         NEW q \in Readers, q # r
  PROVE  pc[q] \notin Counting
BY Names DEF IInv, Locks, CntHeld

-----------------------------------------------------------------------------
(* Steps that touch neither the list, its nodes nor the count keep the     *)
(* invariant when the moving thread's label and its memory have a type.    *)
LEMMA QuietStep ==
  ASSUME IInv, NEW t \in Threads, NEW to \in Labels,
         pc' = [pc EXCEPT ![t] = to] \/ UNCHANGED pc,
         UNCHANGED <<listVars, first, cnt, cnt_mutex>>,
         t \in Readers => /\ to \in Counting => pc[t] \in Counting
                          /\ to \in Counting \ {"count"} => pc[t] # "count"
                          /\ to \in Seen => pc[t] \in Seen
                          /\ to # "deref",
         mutex' \in Threads \cup {NULL}, waiting' \in SUBSET Readers,
         pushed' \in BOOLEAN,
         buf' \in Memory, incoming' \in Texts \cup {NoText},
         pos' \in [Threads -> Cell], msg' \in [Readers -> Data \cup {NULL}],
         old_msg' \in [Readers -> Memory], parsed' \in [Readers -> Memory]
  PROVE  IInv'
<1>1. ListTypeOK' /\ WellFormed' /\ UNCHANGED <<first_node, live, node>>
  BY ListUnchanged DEF IInv, TypeOK
<1>2. Locks' /\ pc' \in [Threads -> Labels]
  BY <1>1, Moves
<1>3. TypeOK'
  BY <1>1, <1>2 DEF IInv, TypeOK, Labels, Counting
<1>4. QED
  BY <1>1, <1>2, <1>3 DEF IInv

(* Taking list->mutex, for whichever call. *)
LEMMA TakeMutexStep ==
  ASSUME IInv, NEW t \in Threads, NEW from, NEW to \in Labels, TakeMutex(t, from, to),
         t \in Readers => from \in Counting \ {"count"} /\ (to \in Seen => from \in Seen)
                          /\ to # "deref"
  PROVE  IInv'
<1>1. TypeOK
  BY DEF IInv
<1>2. /\ pc' = [pc EXCEPT ![t] = to] /\ pc[t] = from /\ mutex' = t
      /\ UNCHANGED <<listVars, first, cnt, cnt_mutex, waiting, pushed>>
      /\ UNCHANGED <<buf, incoming, pos, msg, old_msg, parsed>>
  BY DEF TakeMutex, Goto, memVars
<1>3. QED
  BY <1>1, <1>2, QuietStep DEF TypeOK

(* Where Advance leaves a thread. *)
LEMMA AdvanceStep ==
  ASSUME IInv, NEW t \in Threads, NEW last \in BOOLEAN, NEW to \in Labels,
         Advance(t, last, to), ~last => pos[t] < BufLen
  PROVE  /\ pos[t] \in Cell
         /\ pos' \in [Threads -> Cell]
         /\ pc' = [pc EXCEPT ![t] = to] \/ UNCHANGED pc
         /\ ~last => UNCHANGED pc
         /\ last => pc' = [pc EXCEPT ![t] = to]
<1>1. pos \in [Threads -> Cell] /\ pos[t] \in Cell
  BY DEF IInv, TypeOK
<1>2. ~last => pos[t] + 1 \in Cell
  BY <1>1, GatewayAssumption DEF Cell
<1>3. 1 \in Cell
  BY GatewayAssumption DEF Cell
<1>4. QED
  BY <1>1, <1>2, <1>3 DEF Advance, Goto

(* A manager that goes on is not in the last cell of the buffer. *)
LEMMA TextGoesOn ==
  ASSUME IInv, NEW r \in Readers
  PROVE  TextEnds(r) \in BOOLEAN /\ (~TextEnds(r) => pos[r] < BufLen)
<1>1. pos[r] \in Cell
  BY Names DEF IInv, TypeOK
<1>2. QED
  BY <1>1, GatewayAssumption DEF TextEnds, Cell

(* connection_mgr *)
LEMMA ConnectionStep == ASSUME IInv, connection_mgr PROVE IInv'
<1> USE Names
<1>0. TypeOK
  BY DEF IInv
<1>1. CASE RecvStart
  <2>1. "recv" \in Labels
    BY DEF Labels
  <2>2. QED
    BY <1>0, <1>1, <2>1, QuietStep DEF RecvStart, Goto, TypeOK
<1>2. CASE RecvCell
  <2>1. "push" \in Labels
    BY DEF Labels
  <2>2. /\ pos' \in [Threads -> Cell] /\ pos["conn"] \in Cell
        /\ pc' = [pc EXCEPT !["conn"] = "push"] \/ UNCHANGED pc
    <3>1. PICK last \in BOOLEAN : /\ ~last => \E n \in Parts : pos["conn"] < n
                                  /\ Advance("conn", last, "push")
      BY <1>2 DEF RecvCell
    <3>2. pos["conn"] \in Nat
      BY <1>0 DEF TypeOK, Cell
    <3>3. ~last => pos["conn"] < BufLen
      BY <3>1, <3>2, GatewayAssumption
    <3>4. QED
      BY <2>1, <3>1, <3>3, AdvanceStep
  <2>3. buf' \in Memory
    BY <1>0, <1>2, <2>2 DEF RecvCell, TypeOK, Memory
  <2>4. incoming' \in Texts \cup {NoText}
    BY <1>0, <1>2 DEF RecvCell, TypeOK
  <2>5. QED
    BY <1>0, <1>2, <2>1, <2>2, <2>3, <2>4, QuietStep DEF RecvCell, TypeOK
<1>3. CASE LockPush
  BY <1>3, TakeMutexStep DEF LockPush, Labels
<1>4. CASE DoPush
  <2>1. PICK ret \in {LIST_SUCCESS, LIST_FAIL, LIST_FULL} :
          /\ push(Buf, ret) /\ pushed' = (ret = LIST_SUCCESS)
          /\ waiting' = IF ret = LIST_SUCCESS THEN {} ELSE waiting
    BY <1>4 DEF DoPush
  <2>2. /\ ListTypeOK' /\ WellFormed' /\ live \subseteq live'
        /\ first_node # NULL => first_node' = first_node
    BY <1>0, <2>1, PushKeepsList, GatewayAssumption DEF IInv, TypeOK
  <2>3. /\ pc' = [pc EXCEPT !["conn"] = "select"] /\ mutex' = NULL
        /\ UNCHANGED <<cnt_mutex, cnt, first, buf, incoming, pos, msg, old_msg, parsed>>
    BY <1>4 DEF DoPush, Goto, memVars
  <2>4. TypeOK'
    BY <1>0, <2>1, <2>2, <2>3 DEF TypeOK
  <2>5. \A r \in Readers : pc'[r] = pc[r]
    BY <1>0, <2>3 DEF TypeOK
  <2>6. Locks'
    BY <2>2, <2>3, <2>5 DEF IInv, Locks, CntHeld, CountIsLow, HasNode
  <2>7. QED
    BY <2>2, <2>4, <2>6 DEF IInv
<1>5. QED
  BY <1>1, <1>2, <1>3, <1>4 DEF connection_mgr

-----------------------------------------------------------------------------
(* A manager gets the first node's data. *)
LEMMA GetStep ==
  ASSUME IInv, NEW r \in Readers,
         LockCnt(r) \/ LockGet(r) \/ Look(r) \/ WakeUp(r) \/ SpuriousWakeUp(r) \/ Deref(r)
  PROVE  IInv'
<1> USE Names
<1>0. TypeOK /\ r \in Threads
  BY DEF IInv
<1>1. CASE LockCnt(r)
  <2>1. /\ pc' = [pc EXCEPT ![r] = "get"] /\ cnt_mutex = NULL /\ cnt_mutex' = r
        /\ UNCHANGED <<listVars, mutex, waiting, cnt, first, pushed>>
        /\ UNCHANGED <<buf, incoming, pos, msg, old_msg, parsed>>
    BY <1>1 DEF LockCnt, Goto, memVars
  <2>2. ListTypeOK' /\ WellFormed' /\ UNCHANGED <<first_node, live, node>>
    BY <1>0, <2>1, ListUnchanged DEF IInv, TypeOK
  <2>3. TypeOK'
    BY <1>0, <2>1, <2>2 DEF TypeOK
  <2>4. \A q \in Readers : q # r => pc'[q] = pc[q] /\ pc[q] \notin Counting
    BY <1>0, <2>1, OthersDoNotCount DEF TypeOK
  <2>5. pc'[r] = "get" /\ cnt \in {0, 1}
    BY <1>0, <2>1 DEF TypeOK, IInv, Locks, CountIsLow
  <2>6. Locks'
    BY <2>1, <2>2, <2>4, <2>5 DEF Locks, CntHeld, CountIsLow, HasNode, Counting, Seen
  <2>7. QED
    BY <2>2, <2>3, <2>6 DEF IInv
<1>2. CASE LockGet(r)
  BY <1>0, <1>2, TakeMutexStep DEF LockGet, Labels, Counting, Seen
<1>3. CASE Look(r)
  <2>1. /\ pc[r] = "look" /\ mutex' = NULL
        /\ first' = [first EXCEPT ![r] = first_node]
        /\ UNCHANGED <<listVars, cnt_mutex, cnt, pushed>>
        /\ UNCHANGED <<buf, incoming, pos, msg, old_msg, parsed>>
    BY <1>3 DEF Look, memVars
  <2>2. PICK to \in {"wait", "deref"} :
          /\ pc' = [pc EXCEPT ![r] = to]
          /\ to = "deref" => first_node # NULL
    BY <1>3 DEF Look, Goto
  <2>3. waiting' \in SUBSET Readers
    BY <1>0, <1>3 DEF Look, TypeOK
  <2>4. ListTypeOK' /\ WellFormed' /\ UNCHANGED <<first_node, live, node>>
    BY <1>0, <2>1, ListUnchanged DEF IInv, TypeOK
  <2>5. TypeOK'
    BY <1>0, <2>1, <2>2, <2>3, <2>4 DEF TypeOK, ListTypeOK
  <2>6. \A q \in Readers : pc'[q] = IF q = r THEN to ELSE pc[q]
    BY <1>0, <2>2 DEF TypeOK
  <2>7. \A q \in Readers : first'[q] = IF q = r THEN first_node ELSE first[q]
    BY <1>0, <2>1 DEF TypeOK
  <2>8. first_node # NULL => first_node \in live
    BY <1>0, FirstNodeIsLive DEF IInv, TypeOK
  <2>9. CntHeld' /\ CountIsLow'
    BY <2>1, <2>6 DEF IInv, Locks, CntHeld, CountIsLow, Counting
  <2>10. HasNode'
    BY <2>2, <2>4, <2>6, <2>7, <2>8 DEF IInv, Locks, HasNode, Seen
  <2>11. QED
    BY <2>4, <2>5, <2>9, <2>10 DEF IInv, Locks
<1>4. CASE WakeUp(r)
  BY <1>0, <1>4, TakeMutexStep DEF WakeUp, Labels, Counting, Seen
<1>5. CASE SpuriousWakeUp(r)
  <2>1. /\ UNCHANGED <<listVars, mutex, cnt_mutex, cnt, pc, first, pushed>>
        /\ UNCHANGED <<buf, incoming, pos, msg, old_msg, parsed>>
        /\ pc[r] = "wait" /\ waiting' \in SUBSET Readers
    BY <1>0, <1>5 DEF SpuriousWakeUp, TypeOK, memVars
  <2>2. "wait" \in Labels \ Seen /\ "wait" \in Counting
    BY DEF Labels, Counting, Seen
  <2>3. QED
    BY <1>0, <2>1, <2>2, QuietStep DEF TypeOK
<1>6. CASE Deref(r)
  <2>1. /\ pc[r] = "deref" /\ first' = [first EXCEPT ![r] = NULL]
        /\ msg' = [msg EXCEPT ![r] = node[first[r]].data]
        /\ UNCHANGED <<listVars, mutex, cnt_mutex, waiting, cnt, pushed>>
        /\ UNCHANGED <<buf, incoming, pos, old_msg, parsed>>
    BY <1>6 DEF Deref
  <2>2. PICK to \in {"count", "compare"} : pc' = [pc EXCEPT ![r] = to]
    BY <1>6 DEF Deref, Goto
  <2>3. first[r] \in live /\ first_node # NULL /\ cnt \in {0, 1} /\ cnt_mutex = r
    BY <2>1 DEF IInv, Locks, CntHeld, CountIsLow, HasNode, Counting, Seen
  <2>4. node[first[r]].data \in Data \cup {NULL}
    BY <1>0, <2>3 DEF TypeOK, ListTypeOK, Fields
  <2>5. ListTypeOK' /\ WellFormed' /\ UNCHANGED <<first_node, live, node>>
    BY <1>0, <2>1, ListUnchanged DEF IInv, TypeOK
  <2>6. TypeOK'
    BY <1>0, <2>1, <2>2, <2>4, <2>5 DEF TypeOK, Pointer
  <2>7. \A q \in Readers : pc'[q] = IF q = r THEN to ELSE pc[q]
    BY <1>0, <2>2 DEF TypeOK
  <2>8. \A q \in Readers : q # r => first'[q] = first[q]
    BY <1>0, <2>1 DEF TypeOK
  <2>9. Locks'
    BY <2>1, <2>2, <2>3, <2>5, <2>7, <2>8
    DEF IInv, Locks, CntHeld, CountIsLow, HasNode, Counting, Seen
  <2>10. QED
    BY <2>5, <2>6, <2>9 DEF IInv
<1>7. QED
  BY <1>1, <1>2, <1>3, <1>4, <1>5, <1>6

-----------------------------------------------------------------------------
(* A manager compares, copies and counts. *)
LEMMA CompareStep == ASSUME IInv, NEW r \in Readers, Compare(r) PROVE IInv'
<1> USE Names
<1>0. TypeOK /\ r \in Threads /\ pc[r] = "compare"
  BY DEF IInv, Compare
<1>1. /\ UNCHANGED <<listVars, mutex, waiting, cnt, first, pushed>>
      /\ UNCHANGED <<buf, incoming, msg, old_msg, parsed>>
  BY DEF Compare
<1>2. 1 \in Cell
  BY GatewayAssumption DEF Cell
<1>3. CASE /\ pos' = [pos EXCEPT ![r] = 1] /\ Goto(r, "copy")
           /\ UNCHANGED cnt_mutex
  <2>1. pos' \in [Threads -> Cell]
    BY <1>0, <1>2, <1>3 DEF TypeOK
  <2>2. pc' = [pc EXCEPT ![r] = "copy"] /\ cnt_mutex' = cnt_mutex
    BY <1>3 DEF Goto
  <2>3. QED
    BY <1>0, <1>1, <2>1, <2>2, QuietStep DEF TypeOK, Labels, Counting, Seen
<1>4. CASE /\ Advance(r, TextEnds(r), "lock_cnt")
           /\ cnt_mutex' = IF TextEnds(r) THEN NULL ELSE cnt_mutex
  <2>1. /\ pos' \in [Threads -> Cell]
        /\ ~TextEnds(r) => UNCHANGED pc
        /\ TextEnds(r) => pc' = [pc EXCEPT ![r] = "lock_cnt"]
    BY <1>0, <1>4, AdvanceStep, TextGoesOn DEF Labels
  <2>2. CASE ~TextEnds(r)
    <3>1. UNCHANGED <<pc, cnt_mutex>>
      BY <1>4, <2>1, <2>2
    <3>2. pc' = [pc EXCEPT ![r] = "lock_cnt"] \/ UNCHANGED pc
      BY <3>1
    <3>3. "lock_cnt" \in Labels /\ "lock_cnt" \notin Counting \cup Seen
      BY DEF Labels, Counting, Seen
    <3>4. QED
      BY <1>0, <1>1, <2>1, <3>1, <3>2, <3>3, QuietStep DEF TypeOK
  <2>3. CASE TextEnds(r)
    <3>1. pc' = [pc EXCEPT ![r] = "lock_cnt"] /\ cnt_mutex' = NULL
      BY <1>4, <2>1, <2>3
    <3>2. ListTypeOK' /\ WellFormed' /\ UNCHANGED <<first_node, live, node>>
      BY <1>0, <1>1, ListUnchanged DEF IInv, TypeOK
    <3>3. TypeOK'
      BY <1>0, <1>1, <2>1, <3>1, <3>2 DEF TypeOK
    <3>4. cnt_mutex = r /\ cnt \in {0, 1}
      BY <1>0 DEF IInv, Locks, CntHeld, CountIsLow, Counting
    <3>5. \A q \in Readers : pc'[q] \notin Counting
      BY <1>0, <3>1, <3>4, OthersDoNotCount DEF TypeOK, Counting
    <3>6. Locks'
      BY <1>1, <3>1, <3>4, <3>5 DEF Locks, CntHeld, CountIsLow, HasNode, Counting, Seen
    <3>7. QED
      BY <3>2, <3>3, <3>6 DEF IInv
  <2>4. QED
    BY <2>2, <2>3
<1>5. QED
  BY <1>3, <1>4 DEF Compare

LEMMA CopyStep == ASSUME IInv, NEW r \in Readers, Copy(r) PROVE IInv'
<1> USE Names
<1>0. TypeOK /\ r \in Threads /\ pc[r] = "copy"
  BY DEF IInv, Copy
<1>1. /\ UNCHANGED <<listVars, mutex, cnt_mutex, waiting, first, pushed>>
      /\ UNCHANGED <<buf, incoming, msg, parsed>>
      /\ old_msg' = [old_msg EXCEPT ![r][pos[r]] = buf[pos[r]]]
      /\ cnt' = IF TextEnds(r) THEN cnt + 1 ELSE cnt
  BY DEF Copy
<1>2. /\ pos' \in [Threads -> Cell] /\ pos[r] \in Cell
      /\ ~TextEnds(r) => UNCHANGED pc
      /\ TextEnds(r) => pc' = [pc EXCEPT ![r] = "count"]
  BY <1>0, AdvanceStep, TextGoesOn DEF Copy, Labels, Counting
<1>3. old_msg' \in [Readers -> Memory]
  BY <1>0, <1>1, <1>2 DEF TypeOK, Memory
<1>4. cnt_mutex = r /\ cnt \in {0, 1} /\ first_node # NULL
  BY <1>0 DEF IInv, Locks, CntHeld, CountIsLow, HasNode, Counting, Seen
<1>5. CASE ~TextEnds(r)
  <2>1. UNCHANGED <<pc, cnt>>
    BY <1>1, <1>2, <1>5
  <2>2. "copy" \in Labels /\ "copy" \in Counting /\ "copy" \in Seen
    BY DEF Labels, Counting, Seen
  <2>3. QED
    BY <1>0, <1>1, <1>2, <1>3, <2>1, <2>2, QuietStep DEF TypeOK
<1>6. CASE TextEnds(r)
  <2>1. pc' = [pc EXCEPT ![r] = "count"] /\ cnt' \in 0..2
    BY <1>1, <1>2, <1>4, <1>6
  <2>2. ListTypeOK' /\ WellFormed' /\ UNCHANGED <<first_node, live, node>>
    BY <1>0, <1>1, ListUnchanged DEF IInv, TypeOK
  <2>3. TypeOK'
    BY <1>0, <1>1, <1>2, <1>3, <2>1, <2>2 DEF TypeOK
  <2>4. pc'[r] = "count"
    BY <1>0, <2>1 DEF TypeOK
  <2>5. \A q \in Readers : q # r => pc'[q] = pc[q] /\ pc[q] \notin Counting
    BY <1>0, <1>4, <2>1, OthersDoNotCount DEF TypeOK
  <2>6. Locks'
    BY <1>1, <1>4, <2>2, <2>4, <2>5 DEF Locks, CntHeld, CountIsLow, HasNode, Counting, Seen
  <2>7. QED
    BY <2>2, <2>3, <2>6 DEF IInv
<1>7. QED
  BY <1>5, <1>6

LEMMA CountStep == ASSUME IInv, NEW r \in Readers, Count(r) PROVE IInv'
<1> USE Names
<1>0. TypeOK /\ r \in Threads /\ pc[r] = "count"
  BY DEF IInv, Count
<1>1. /\ UNCHANGED <<listVars, mutex, cnt_mutex, waiting, first, pushed>>
      /\ UNCHANGED <<buf, incoming, pos, msg, old_msg, parsed>>
  BY DEF Count, memVars
<1>2. PICK to \in {"remove", "unlock_cnt"} :
        pc' = [pc EXCEPT ![r] = to] /\ cnt' \in {0, 1}
  BY <1>0 DEF Count, Goto, TypeOK
<1>3. cnt_mutex = r /\ first_node # NULL
  BY <1>0 DEF IInv, Locks, CntHeld, HasNode, Counting, Seen
<1>4. ListTypeOK' /\ WellFormed' /\ UNCHANGED <<first_node, live, node>>
  BY <1>0, <1>1, ListUnchanged DEF IInv, TypeOK
<1>5. TypeOK'
  BY <1>0, <1>1, <1>2, <1>4 DEF TypeOK
<1>6. pc'[r] = to /\ \A q \in Readers : q # r => pc'[q] = pc[q] /\ pc[q] \notin Counting
  BY <1>0, <1>2, <1>3, OthersDoNotCount DEF TypeOK
<1>7. Locks'
  BY <1>1, <1>2, <1>3, <1>4, <1>6 DEF Locks, CntHeld, CountIsLow, HasNode, Counting, Seen
<1>8. QED
  BY <1>4, <1>5, <1>7 DEF IInv

-----------------------------------------------------------------------------
(* A manager removes the node, releases cnt_mutex, parses and records. *)
LEMMA RemoveStep == ASSUME IInv, NEW r \in Readers, DoRemove(r) PROVE IInv'
<1> USE Names
<1>0. TypeOK /\ r \in Threads /\ pc[r] = "removing"
  BY DEF IInv, DoRemove
<1>1. /\ pc' = [pc EXCEPT ![r] = "unlock_cnt"] /\ mutex' = NULL
      /\ UNCHANGED <<cnt_mutex, waiting, cnt, first, pushed>>
      /\ UNCHANGED <<buf, incoming, pos, msg, old_msg, parsed>>
  BY DEF DoRemove, Goto, memVars
<1>2. PICK ret \in {LIST_SUCCESS, LIST_NODATA} : remove_first(ret)
  BY DEF DoRemove
<1>3. ListTypeOK' /\ WellFormed'
  BY <1>0, <1>2, RemoveKeepsList DEF IInv, TypeOK
<1>4. TypeOK'
  BY <1>0, <1>1, <1>3 DEF TypeOK
<1>5. cnt_mutex = r /\ cnt \in {0, 1}
  BY <1>0 DEF IInv, Locks, CntHeld, CountIsLow, Counting
<1>6. /\ pc'[r] = "unlock_cnt"
      /\ \A q \in Readers : q # r => pc'[q] = pc[q] /\ pc[q] \notin Counting
  BY <1>0, <1>1, <1>5, OthersDoNotCount DEF TypeOK
<1>7. Locks'
  BY <1>1, <1>5, <1>6 DEF Locks, CntHeld, CountIsLow, HasNode, Counting, Seen
<1>8. QED
  BY <1>3, <1>4, <1>7 DEF IInv

LEMMA UnlockStep == ASSUME IInv, NEW r \in Readers, UnlockCnt(r) PROVE IInv'
<1> USE Names
<1>0. TypeOK /\ r \in Threads /\ pc[r] = "unlock_cnt"
  BY DEF IInv, UnlockCnt
<1>1. /\ pc' = [pc EXCEPT ![r] = "parse"] /\ cnt_mutex' = NULL
      /\ UNCHANGED <<listVars, mutex, waiting, cnt, first, pushed>>
      /\ UNCHANGED <<buf, incoming, pos, msg, old_msg, parsed>>
  BY DEF UnlockCnt, Goto, memVars
<1>2. cnt_mutex = r /\ cnt \in {0, 1}
  BY <1>0 DEF IInv, Locks, CntHeld, CountIsLow, Counting
<1>3. ListTypeOK' /\ WellFormed'
  BY <1>0, <1>1, ListUnchanged DEF IInv, TypeOK
<1>4. TypeOK'
  BY <1>0, <1>1, <1>3 DEF TypeOK
<1>5. \A q \in Readers : pc'[q] \notin Counting
  BY <1>0, <1>1, <1>2, OthersDoNotCount DEF TypeOK, Counting
<1>6. Locks'
  BY <1>1, <1>2, <1>5 DEF Locks, CntHeld, CountIsLow, HasNode, Counting, Seen
<1>7. QED
  BY <1>3, <1>4, <1>6 DEF IInv

LEMMA UseStep == ASSUME IInv, NEW r \in Readers, Parse(r) \/ Record(r) PROVE IInv'
<1> USE Names
<1>0. TypeOK /\ r \in Threads
  BY DEF IInv
<1>1. CASE Parse(r)
  <2>1. "record" \in Labels /\ "record" \notin Counting \cup Seen
    BY DEF Labels, Counting, Seen
  <2>2. /\ pos' \in [Threads -> Cell] /\ pos[r] \in Cell
        /\ pc' = [pc EXCEPT ![r] = "record"] \/ UNCHANGED pc
    BY <1>0, <1>1, <2>1, AdvanceStep, TextGoesOn DEF Parse
  <2>3. parsed' \in [Readers -> Memory]
    BY <1>0, <1>1, <2>2 DEF Parse, TypeOK, Memory
  <2>4. QED
    BY <1>0, <1>1, <2>1, <2>2, <2>3, QuietStep DEF Parse, TypeOK
<1>2. CASE Record(r)
  <2>1. "lock_cnt" \in Labels /\ "lock_cnt" \notin Counting \cup Seen
    BY DEF Labels, Counting, Seen
  <2>2. parsed' \in [Readers -> Memory]
    BY <1>0, <1>2 DEF Record, TypeOK, Memory, Zeros
  <2>3. QED
    BY <1>0, <1>2, <2>1, <2>2, QuietStep DEF Record, Goto, TypeOK
<1>3. QED
  BY <1>1, <1>2

LEMMA NextIInv == ASSUME IInv, [Next]_vars PROVE IInv'
<1>1. CASE connection_mgr
  BY <1>1, ConnectionStep
<1>2. ASSUME NEW r \in Readers, manager(r) PROVE IInv'
  <2>1. CASE LockCnt(r) \/ LockGet(r) \/ Look(r) \/ WakeUp(r) \/ Deref(r)
    BY <2>1, GetStep
  <2>2. CASE Compare(r)
    BY <2>2, CompareStep
  <2>3. CASE Copy(r)
    BY <2>3, CopyStep
  <2>4. CASE Count(r)
    BY <2>4, CountStep
  <2>5. CASE LockRemove(r)
    BY <2>5, TakeMutexStep, Names DEF LockRemove, Labels, Counting, Seen
  <2>6. CASE DoRemove(r)
    BY <2>6, RemoveStep
  <2>7. CASE UnlockCnt(r)
    BY <2>7, UnlockStep
  <2>8. CASE Parse(r) \/ Record(r)
    BY <2>8, UseStep
  <2>9. QED
    BY <1>2, <2>1, <2>2, <2>3, <2>4, <2>5, <2>6, <2>7, <2>8 DEF manager
<1>3. ASSUME NEW r \in Readers, SpuriousWakeUp(r) PROVE IInv'
  BY <1>3, GetStep
<1>4. CASE UNCHANGED vars
  <2>1. /\ UNCHANGED <<listVars, mutex, cnt_mutex, waiting, cnt, pc, first, pushed>>
        /\ UNCHANGED <<buf, incoming, pos, msg, old_msg, parsed>>
    BY <1>4 DEF vars, memVars
  <2>2. ListTypeOK' /\ WellFormed' /\ UNCHANGED <<first_node, live, node>>
    BY <2>1, ListUnchanged DEF IInv, TypeOK
  <2>3. TypeOK'
    BY <2>1, <2>2 DEF IInv, TypeOK
  <2>4. Locks'
    BY <2>1, <2>2 DEF IInv, Locks, CntHeld, CountIsLow, HasNode
  <2>5. QED
    BY <2>2, <2>3, <2>4 DEF IInv
<1>5. QED
  BY <1>1, <1>2, <1>3, <1>4 DEF Next

LEMMA Invariance == Spec => []IInv
<1>1. IInv /\ [Next]_vars => IInv'
  BY NextIInv
<1>2. QED
  BY <1>1, InitIInv, PTL DEF Spec

(* A manager that calls list_remove_first_node finds a node, and cnt, which *)
(* is tested with cnt == 2 (main-server.c:240, 331), never steps over 2;    *)
(* every variable has its type.                                             *)
THEOREM CounterAgreesWithList == Spec => []CountMatchesList
<1>1. IInv => CountMatchesList
  <2> SUFFICES ASSUME IInv PROVE CountMatchesList
    OBVIOUS
  <2>1. list_empty <=> first_node = NULL
    BY EmptyTests DEF IInv, TypeOK
  <2>2. RemoveFindsNode
    BY <2>1 DEF IInv, Locks, HasNode, RemoveFindsNode, Seen
  <2>3. QED
    BY <2>2 DEF IInv, Locks, CountIsLow, CountMatchesList, CountStaysLow
<1>2. QED
  BY <1>1, Invariance, PTL

-----------------------------------------------------------------------------
(* A node stays until both managers have the text pushed last.  Each node  *)
(* pays for two counts; a manager has one to make while its text is not    *)
(* the one in buf, and one more when it is in the middle of copying a text *)
(* that is no longer there.                                                *)
Removing(r) == pc[r] \in {"remove", "removing"}

StartsAtFirst ==
  \A r \in Readers : pc[r] \notin {"compare", "copy", "parse"} => pos[r] = 1

Receives == pc["conn"] = "recv" => incoming \in Texts

(* What a manager has gone through is text; recv never writes a 0. *)
WalksText ==
  \A r \in Readers : pc[r] \in {"compare", "copy"} =>
    \A i \in 1..(pos[r] - 1) : buf[i] # Zero /\ (pc[r] = "compare" => old_msg[r][i] # Zero)

CountsOnNode ==
  /\ cur_size = 0 => cnt = 0
  /\ \A r \in Readers : Removing(r) => cnt = 0

Clean(r) == \A i \in 1..(pos[r] - 1) : old_msg[r][i] = buf[i]

(* The counts r is still to make, or takes away with the node it removes. *)
Due(r) ==
  IF pc[r] = "copy" THEN (IF Clean(r) THEN 1 ELSE 2)
  ELSE (IF SameText(old_msg[r], buf) THEN 0 ELSE 1) + (IF Removing(r) THEN 2 ELSE 0)

Owed == cnt + Due("data") + Due("storage")

Settled == pc["conn"] = "select" /\ pushed

Enough == Settled => Owed <= 2 * cur_size

NodeInv == StartsAtFirst /\ Receives /\ WalksText /\ CountsOnNode /\ Enough

LEMMA DueBounds ==
  ASSUME NEW r
  PROVE  /\ Due(r) \in Nat
         /\ pc[r] = "copy" => Due(r) \in {1, 2}
         /\ pc[r] # "copy" /\ ~Removing(r) => Due(r) \in {0, 1}
         /\ Removing(r) => Due(r) \in {2, 3}
BY DEF Due, Removing

(* Any reader may stand first in the sum. *)
LEMMA Both ==
  ASSUME IInv, IInv', NEW r \in Readers
  PROVE  \E q \in Readers : /\ q # r /\ Readers = {r, q}
                            /\ Owed = cnt + Due(r) + Due(q)
                            /\ Owed' = cnt' + Due(r)' + Due(q)'
<1>1. /\ cnt \in Nat /\ cnt' \in Nat
      /\ Due("data") \in Nat /\ Due("data")' \in Nat
      /\ Due("storage") \in Nat /\ Due("storage")' \in Nat
  BY DEF Due, IInv, TypeOK
<1>2. CASE r = "data"
  BY <1>1, <1>2 DEF Readers, Owed
<1>3. CASE r = "storage"
  BY <1>1, <1>3 DEF Readers, Owed
<1>4. QED
  BY <1>2, <1>3 DEF Readers

(* What the steps of a manager have in common: they are its own. *)
OwnStep(r) ==
  /\ UNCHANGED <<buf, incoming, pushed>>
  /\ \E to \in Labels : pc' = [pc EXCEPT ![r] = to] \/ UNCHANGED pc
  /\ \E k \in Cell : pos' = [pos EXCEPT ![r] = k] \/ UNCHANGED pos
  /\ \A q \in Readers : q # r => old_msg'[q] = old_msg[q]

LEMMA OthersStay ==
  ASSUME IInv, NEW r \in Readers, OwnStep(r)
  PROVE  /\ pc'["conn"] = pc["conn"]
         /\ \A q \in Readers : q # r => /\ pc'[q] = pc[q] /\ pos'[q] = pos[q]
                                        /\ Due(q)' = Due(q)
<1>1. pc \in [Threads -> Labels] /\ pos \in [Threads -> Cell]
  BY DEF IInv, TypeOK, Labels, Counting
<1>2. /\ pc'["conn"] = pc["conn"]
      /\ \A q \in Readers : q # r => pc'[q] = pc[q] /\ pos'[q] = pos[q]
  BY <1>1, Names DEF OwnStep
<1>3. \A q \in Readers : q # r => Due(q)' = Due(q)
  BY <1>2 DEF OwnStep, Due, Clean, SameText, Removing
<1>4. QED
  BY <1>2, <1>3

(* It is enough to look at the manager that moves, and at the counts. *)
LEMMA OwnNode ==
  ASSUME IInv, IInv', NodeInv, NEW r \in Readers, OwnStep(r),
         pc'[r] \notin {"compare", "copy", "parse"} => pos'[r] = 1,
         pc'[r] \in {"compare", "copy"} =>
           \A i \in 1..(pos'[r] - 1) : buf[i] # Zero /\ (pc'[r] = "compare" => old_msg'[r][i] # Zero),
         cur_size' = 0 => cnt' = 0,
         Removing(r)' => cnt' = 0,
         cnt' = cnt \/ \A q \in Readers : q # r => ~Removing(q),
         cnt' + Due(r)' + 2 * cur_size <= cnt + Due(r) + 2 * cur_size'
  PROVE  NodeInv'
<1>1. /\ pc'["conn"] = pc["conn"]
      /\ \A q \in Readers : q # r => /\ pc'[q] = pc[q] /\ pos'[q] = pos[q]
                                     /\ Due(q)' = Due(q) /\ old_msg'[q] = old_msg[q]
      /\ UNCHANGED <<buf, incoming, pushed>>
  BY OthersStay DEF OwnStep
<1>2. StartsAtFirst' /\ Receives'
  BY <1>1 DEF NodeInv, StartsAtFirst, Receives
<1>3. WalksText'
  BY <1>1 DEF NodeInv, WalksText
<1>4. CountsOnNode'
  BY <1>1 DEF NodeInv, CountsOnNode, Removing
<1>5. Enough'
  <2>1. PICK q \in Readers : /\ q # r /\ Owed = cnt + Due(r) + Due(q)
                             /\ Owed' = cnt' + Due(r)' + Due(q)'
    BY Both
  <2>2. /\ cnt \in Nat /\ cnt' \in Nat /\ cur_size \in Nat /\ cur_size' \in Nat
        /\ Due(r) \in Nat /\ Due(q) \in Nat /\ Due(r)' \in Nat
    BY DEF Due, IInv, TypeOK, ListTypeOK
  <2>3. Owed <= 2 * cur_size => Owed' <= 2 * cur_size'
    BY <1>1, <2>1, <2>2
  <2>4. Settled' => Settled
    BY <1>1, Zenon DEF Settled
  <2>5. QED
    BY <2>3, <2>4, Zenon DEF NodeInv, Enough
<1>6. QED
  BY <1>2, <1>3, <1>4, <1>5 DEF NodeInv

(* Steps to or from labels that owe the same *)
LEMMA QuietNode ==
  ASSUME IInv, IInv', NodeInv, NEW r \in Readers, OwnStep(r),
         pc[r] # "copy", pc'[r] # "copy", Removing(r)' <=> Removing(r),
         UNCHANGED <<cnt, cur_size, old_msg>>,
         pc'[r] \notin {"compare", "copy", "parse"} => pos'[r] = 1,
         pc'[r] = "compare" =>
           \A i \in 1..(pos'[r] - 1) : buf[i] # Zero /\ old_msg[r][i] # Zero
  PROVE  NodeInv'
<1>1. Due(r)' = Due(r)
  BY DEF OwnStep, Due, SameText, Removing
<1>2. cnt' + Due(r)' + 2 * cur_size <= cnt + Due(r) + 2 * cur_size'
  <2>1. cnt \in Nat /\ cur_size \in Nat /\ Due(r) \in Nat
    BY DueBounds DEF IInv, TypeOK, ListTypeOK
  <2>2. QED
    BY <1>1, <2>1
<1>3. /\ cur_size' = 0 => cnt' = 0
      /\ Removing(r)' => cnt' = 0
  BY DEF NodeInv, CountsOnNode
<1>4. QED
  BY <1>2, <1>3, OwnNode

LEMMA InitNodeInv == Init => NodeInv
<1> SUFFICES ASSUME Init PROVE NodeInv
  OBVIOUS
<1>1. /\ cnt = 0 /\ pos = [t \in Threads |-> 1]
      /\ pc = [t \in Threads |-> IF t = "conn" THEN "select" ELSE "lock_cnt"]
  BY DEF Init
<1>2. \A r \in Readers : pc[r] = "lock_cnt" /\ pos[r] = 1
  BY <1>1, Names
<1>3. pc["conn"] = "select"
  BY <1>1, Names
<1>4. Enough
  BY Zenon DEF Enough, Settled, Init
<1>5. QED
  BY <1>1, <1>2, <1>3, <1>4
  DEF NodeInv, StartsAtFirst, Receives, WalksText, CountsOnNode, Removing

(* Who holds cnt_mutex owes at most 3 of the counts of two nodes. *)
LEMMA AtMostTwoNodes ==
  ASSUME IInv, NodeInv
  PROVE  Owed <= 4 /\ (cur_size = 0 => Owed <= 2)
<1>1. /\ Due("data") \in Nat /\ Due("storage") \in Nat /\ cnt \in 0..2
      /\ Readers = {"data", "storage"}
  BY DEF Due, IInv, TypeOK, Readers
<1>2. \A r \in Readers : cnt_mutex # r => Due(r) <= 1
  <2> SUFFICES ASSUME NEW r \in Readers, cnt_mutex # r PROVE Due(r) <= 1
    OBVIOUS
  <2>1. pc[r] \notin Counting
    BY DEF IInv, Locks, CntHeld
  <2>2. QED
    BY <2>1 DEF Due, Removing, Counting
<1>3. \A r \in Readers : cnt_mutex = r => cnt + Due(r) <= 3
  <2> SUFFICES ASSUME NEW r \in Readers, cnt_mutex = r PROVE cnt + Due(r) <= 3
    OBVIOUS
  <2>1. CASE Removing(r)
    BY <1>1, <2>1, DueBounds DEF NodeInv, CountsOnNode
  <2>2. CASE pc[r] = "copy"
    <3>1. cnt \in {0, 1}
      BY <2>2 DEF IInv, Locks, CountIsLow, Counting
    <3>2. QED
      BY <2>2, <3>1, DueBounds
  <2>3. CASE ~Removing(r) /\ pc[r] # "copy"
    BY <1>1, <2>3, DueBounds
  <2>4. QED
    BY <2>1, <2>2, <2>3
<1>4. cnt_mutex = NULL => cnt <= 1
  BY DEF IInv, Locks, CountIsLow
<1>5. cnt_mutex \in {"data", "storage", NULL} /\ NULL \notin Readers
  BY <1>1, Names DEF IInv, TypeOK
<1>6. Owed <= 4
  BY <1>1, <1>2, <1>3, <1>4, <1>5 DEF Owed
<1>7. ASSUME cur_size = 0 PROVE Owed <= 2
  <2>1. first_node = NULL /\ cnt = 0
    BY <1>7, EmptyTests DEF IInv, TypeOK, NodeInv, CountsOnNode
  <2>2. \A r \in Readers : pc[r] \notin Seen
    BY <2>1 DEF IInv, Locks, HasNode
  <2>3. \A r \in Readers : Due(r) <= 1
    BY <2>2, DueBounds DEF Seen, Removing
  <2>4. QED
    BY <1>1, <2>1, <2>3 DEF Owed
<1>8. QED
  BY <1>6, <1>7

LEMMA ConnectionNode ==
  ASSUME IInv, IInv', NodeInv, connection_mgr
  PROVE  NodeInv'
<1> USE Names
<1>1. UNCHANGED <<cnt, old_msg>> /\ pc \in [Threads -> Labels] /\ pos \in [Threads -> Cell]
  BY DEF connection_mgr, RecvStart, RecvCell, LockPush, DoPush, TakeMutex, memVars,
         IInv, TypeOK, Labels, Counting
<1>2. /\ \E to \in Labels : pc' = [pc EXCEPT !["conn"] = to] \/ UNCHANGED pc
      /\ \E k : pos' = [pos EXCEPT !["conn"] = k] \/ UNCHANGED pos
  BY DEF connection_mgr, RecvStart, RecvCell, LockPush, DoPush, TakeMutex, memVars,
         Goto, Advance, Labels
<1>3. \A r \in Readers : pc'[r] = pc[r] /\ pos'[r] = pos[r]
  BY <1>1, <1>2
<1>4. StartsAtFirst'
  BY <1>3 DEF NodeInv, StartsAtFirst
<1>5. CASE RecvStart \/ RecvCell \/ LockPush
  <2>1. pc'["conn"] # "select"
    BY <1>1, <1>5 DEF RecvStart, RecvCell, LockPush, TakeMutex, Goto, Advance
  <2>2. Enough'
    BY <2>1, Zenon DEF Enough, Settled
  <2>3. Receives'
    BY <1>1, <1>5 DEF RecvStart, RecvCell, LockPush, TakeMutex, Goto, Advance, memVars,
                      NodeInv, Receives
  <2>4. UNCHANGED cur_size
    BY <1>5 DEF RecvStart, RecvCell, LockPush, TakeMutex, listVars
  <2>5. CountsOnNode'
    BY <1>1, <1>3, <2>4 DEF NodeInv, CountsOnNode, Removing
  <2>6. buf \in Memory /\ \A i \in Cell : buf[i] # Zero => buf'[i] # Zero
    BY <1>5, GatewayAssumption
    DEF RecvStart, RecvCell, LockPush, TakeMutex, memVars, NodeInv, Receives,
        IInv, TypeOK, Memory
  <2>7. \A r \in Readers : \A i \in 1..(pos[r] - 1) : i \in Cell
    <3>1. \A r \in Readers : pos[r] \in 1..BufLen
      BY <1>1 DEF Cell
    <3>2. QED
      BY <3>1, GatewayAssumption DEF Cell
  <2>8. WalksText'
    BY <1>1, <1>3, <2>6, <2>7 DEF NodeInv, WalksText
  <2>9. QED
    BY <1>4, <2>2, <2>3, <2>5, <2>8 DEF NodeInv
<1>6. CASE DoPush
  <2>1. UNCHANGED <<buf, incoming>> /\ pc'["conn"] = "select"
    BY <1>1, <1>6 DEF DoPush, Goto, memVars
  <2>2. Receives' /\ WalksText'
    BY <1>1, <1>3, <2>1 DEF NodeInv, Receives, WalksText
  <2>3. \A r \in Readers : Due(r)' = Due(r)
    BY <1>1, <1>3, <2>1 DEF Due, Clean, SameText, Removing
  <2>4. PICK ret \in {LIST_SUCCESS, LIST_FAIL, LIST_FULL} :
          push(Buf, ret) /\ pushed' = (ret = LIST_SUCCESS)
    BY <1>6 DEF DoPush
  <2>5. /\ cur_size \in Nat /\ (cur_size' = cur_size \/ cur_size' = cur_size + 1)
        /\ ret = LIST_SUCCESS => cur_size' = cur_size + 1
    BY <2>4 DEF push, append_node, listVars, IInv, TypeOK, ListTypeOK
  <2>6. CountsOnNode'
    BY <1>1, <1>3, <2>5 DEF NodeInv, CountsOnNode, Removing
  <2>7. ret = LIST_SUCCESS => Owed' <= 2 * cur_size'
    <3>1. Owed' = Owed
      BY <1>1, <2>3 DEF Owed, Readers
    <3>2. Owed \in Nat
      BY DEF Owed, Due, IInv, TypeOK
    <3>3. QED
      BY <2>5, <3>1, <3>2, AtMostTwoNodes
  <2>8. Settled' => ret = LIST_SUCCESS
    BY <2>4, Zenon DEF Settled
  <2>9. Enough'
    BY <2>7, <2>8, Zenon DEF Enough
  <2>10. QED
    BY <1>4, <2>2, <2>6, <2>9 DEF NodeInv
<1>7. QED
  BY <1>5, <1>6 DEF connection_mgr

(* What a manager does while it neither compares, copies, counts nor parses *)
LEMMA WaitNode ==
  ASSUME IInv, IInv', NodeInv, NEW r \in Readers,
         \/ LockCnt(r) \/ LockGet(r) \/ Look(r) \/ WakeUp(r) \/ SpuriousWakeUp(r)
         \/ Deref(r) \/ LockRemove(r) \/ UnlockCnt(r) \/ Record(r)
  PROVE  NodeInv'
<1> USE Names
<1>1. /\ pc[r] \in Labels \ {"compare", "copy", "parse"}
      /\ pc \in [Threads -> Labels] /\ pos \in [Threads -> Cell]
  BY DEF LockCnt, LockGet, Look, WakeUp, SpuriousWakeUp, Deref, LockRemove, UnlockCnt,
         Record, TakeMutex, IInv, TypeOK, Labels, Counting
<1>2. /\ UNCHANGED <<listVars, cnt, pushed>> /\ UNCHANGED <<buf, incoming, pos, old_msg>>
  BY DEF LockCnt, LockGet, Look, WakeUp, SpuriousWakeUp, Deref, LockRemove, UnlockCnt,
         Record, TakeMutex, memVars
<1>3. /\ pc' = [pc EXCEPT ![r] = pc'[r]]
      /\ pc'[r] \in Labels \ {"copy"}
      /\ Removing(r)' <=> Removing(r)
  <2>1. CASE SpuriousWakeUp(r)
    BY <1>1, <2>1 DEF SpuriousWakeUp, Removing
  <2>2. CASE Deref(r)
    <3>1. pc[r] = "deref" /\ \E to \in {"count", "compare"} : pc' = [pc EXCEPT ![r] = to]
      BY <2>2 DEF Deref, Goto
    <3>2. QED
      BY <1>1, <3>1 DEF Labels, Counting, Removing
  <2>3. CASE LockCnt(r) \/ UnlockCnt(r) \/ Record(r)
    <3>1. /\ pc[r] \in {"lock_cnt", "unlock_cnt", "record"}
          /\ \E to \in {"get", "parse", "lock_cnt"} : pc' = [pc EXCEPT ![r] = to]
      BY <2>3 DEF LockCnt, UnlockCnt, Record, Goto
    <3>2. QED
      BY <1>1, <3>1 DEF Labels, Counting, Removing
  <2>4. CASE LockGet(r) \/ WakeUp(r) \/ Look(r)
    <3>1. /\ pc[r] \in {"get", "wait", "look"}
          /\ \E to \in {"look", "wait", "deref"} : pc' = [pc EXCEPT ![r] = to]
      BY <2>4 DEF LockGet, WakeUp, Look, TakeMutex, Goto
    <3>2. QED
      BY <1>1, <3>1 DEF Labels, Counting, Removing
  <2>5. CASE LockRemove(r)
    <3>1. pc[r] = "remove" /\ pc' = [pc EXCEPT ![r] = "removing"]
      BY <2>5 DEF LockRemove, TakeMutex, Goto
    <3>2. QED
      BY <1>1, <3>1 DEF Labels, Counting, Removing
  <2>6. QED
    BY <2>1, <2>2, <2>3, <2>4, <2>5
<1>4. pos'[r] = 1
  BY <1>1, <1>2 DEF NodeInv, StartsAtFirst
<1>5. OwnStep(r)
  <2>1. 1 \in Cell
    BY GatewayAssumption DEF Cell
  <2>2. \E to \in Labels : pc' = [pc EXCEPT ![r] = to] \/ UNCHANGED pc
    BY <1>3
  <2>3. QED
    BY <1>2, <2>1, <2>2 DEF OwnStep
<1>6. UNCHANGED <<cnt, cur_size, old_msg>>
  BY <1>2 DEF listVars
<1>7. QED
  BY <1>1, <1>3, <1>4, <1>5, <1>6, QuietNode

LEMMA ParseNode ==
  ASSUME IInv, IInv', NodeInv, NEW r \in Readers, Parse(r)
  PROVE  NodeInv'
<1> USE Names
<1>1. /\ pc \in [Threads -> Labels] /\ pos \in [Threads -> Cell] /\ pos' \in [Threads -> Cell]
      /\ pc[r] = "parse"
  BY DEF Parse, IInv, TypeOK, Labels, Counting
<1>2. UNCHANGED <<cnt, cur_size, old_msg>> /\ UNCHANGED <<pushed, buf, incoming>>
  BY DEF Parse, listVars
<1>3. PICK to \in {"parse", "record"} :
        /\ pc' = [pc EXCEPT ![r] = to] \/ UNCHANGED pc
        /\ pc'[r] = to
        /\ to = "record" => pos'[r] = 1
        /\ \E k : pos' = [pos EXCEPT ![r] = k]
  BY <1>1 DEF Parse, Advance, Goto
<1>4. pos' = [pos EXCEPT ![r] = pos'[r]] /\ pos'[r] \in Cell
  BY <1>1, <1>3
<1>5. OwnStep(r)
  BY <1>2, <1>3, <1>4 DEF OwnStep, Labels
<1>6. ~Removing(r) /\ ~Removing(r)'
  BY <1>1, <1>3 DEF Removing
<1>7. QED
  BY <1>1, <1>2, <1>3, <1>5, <1>6, QuietNode

(* A manager that finds another text has not yet made the count for it. *)
LEMMA CompareNode ==
  ASSUME IInv, IInv', NodeInv, NEW r \in Readers, Compare(r)
  PROVE  NodeInv'
<1> USE Names
<1>1. /\ pc \in [Threads -> Labels] /\ pos \in [Threads -> Cell]
      /\ pos[r] \in Cell /\ pos[r] \in Nat /\ pc[r] = "compare"
  BY DEF Compare, IInv, TypeOK, Labels, Counting, Cell
<1>2. UNCHANGED <<cnt, cur_size, old_msg>> /\ UNCHANGED <<pushed, buf, incoming>>
  BY DEF Compare, listVars
<1>3. \A i \in 1..(pos[r] - 1) : buf[i] # Zero /\ old_msg[r][i] # Zero
  BY <1>1 DEF NodeInv, WalksText
<1>4. 1 \in Cell
  BY GatewayAssumption DEF Cell
<1>5. CASE /\ buf[pos[r]] # old_msg[r][pos[r]]
           /\ pos' = [pos EXCEPT ![r] = 1] /\ Goto(r, "copy")
  <2>1. pc'[r] = "copy" /\ pos'[r] = 1
    BY <1>1, <1>5 DEF Goto
  <2>2. OwnStep(r)
    BY <1>2, <1>4, <1>5 DEF OwnStep, Goto, Labels, Counting
  <2>3. ~SameText(old_msg[r], buf)
    BY <1>1, <1>3, <1>5 DEF SameText
  <2>4. Due(r) = 1
    BY <1>1, <2>3 DEF Due, Removing
  <2>5. Due(r)' = 1
    BY <2>1 DEF Due, Clean
  <2>6. cnt' + Due(r)' + 2 * cur_size <= cnt + Due(r) + 2 * cur_size'
    BY <1>2, <2>4, <2>5 DEF IInv, TypeOK, ListTypeOK
  <2>7. cur_size' = 0 => cnt' = 0
    BY <1>2 DEF NodeInv, CountsOnNode
  <2>8. ~Removing(r)'
    BY <2>1 DEF Removing
  <2>9. QED
    BY <1>2, <1>3, <2>1, <2>2, <2>6, <2>7, <2>8, OwnNode
<1>6. CASE buf[pos[r]] = old_msg[r][pos[r]] /\ Advance(r, TextEnds(r), "lock_cnt")
  <2>1. ~TextEnds(r) => /\ UNCHANGED pc /\ pos' = [pos EXCEPT ![r] = @ + 1]
                        /\ pos[r] + 1 \in Cell /\ buf[pos[r]] # Zero
    BY <1>1, <1>6, TextGoesOn, GatewayAssumption DEF Advance, TextEnds, Cell
  <2>2. TextEnds(r) => pc' = [pc EXCEPT ![r] = "lock_cnt"] /\ pos' = [pos EXCEPT ![r] = 1]
    BY <1>6 DEF Advance, Goto
  <2>3. OwnStep(r)
    BY <1>1, <1>2, <1>4, <2>1, <2>2 DEF OwnStep, Labels
  <2>4. pc'[r] \in {"compare", "lock_cnt"} /\ (pc'[r] = "lock_cnt" => pos'[r] = 1)
    BY <1>1, <2>1, <2>2
  <2>5. pc'[r] = "compare" =>
           \A i \in 1..(pos'[r] - 1) : buf[i] # Zero /\ old_msg[r][i] # Zero
    BY <1>1, <1>3, <1>6, <2>1, <2>2
  <2>6. ~Removing(r) /\ ~Removing(r)'
    BY <1>1, <2>4 DEF Removing
  <2>7. QED
    BY <1>1, <1>2, <2>3, <2>4, <2>5, <2>6, QuietNode
<1>7. QED
  BY <1>5, <1>6 DEF Compare

(* Who copies a text that stays makes its one count with it in old_msg. *)
LEMMA CopyNode ==
  ASSUME IInv, IInv', NodeInv, NEW r \in Readers, Copy(r)
  PROVE  NodeInv'
<1> USE Names
<1>1. /\ pc \in [Threads -> Labels] /\ pos \in [Threads -> Cell]
      /\ pos[r] \in Cell /\ pos[r] \in Nat /\ pc[r] = "copy"
      /\ old_msg \in [Readers -> Memory]
  BY DEF Copy, IInv, TypeOK, Labels, Counting, Cell
<1>2. /\ UNCHANGED <<cur_size, pushed, buf, incoming>>
      /\ old_msg' = [old_msg EXCEPT ![r][pos[r]] = buf[pos[r]]]
      /\ cnt' = IF TextEnds(r) THEN cnt + 1 ELSE cnt
  BY DEF Copy, listVars
<1>3. \A i \in 1..(pos[r] - 1) : buf[i] # Zero
  BY <1>1 DEF NodeInv, WalksText
<1>4. 1 \in Cell /\ BufLen \in Nat
  BY GatewayAssumption DEF Cell
<1>5. ~TextEnds(r) => /\ UNCHANGED pc /\ pos' = [pos EXCEPT ![r] = @ + 1]
                      /\ pos[r] + 1 \in Cell /\ buf[pos[r]] # Zero
  BY <1>1, TextGoesOn, GatewayAssumption DEF Copy, Advance, TextEnds, Cell
<1>6. TextEnds(r) => pc' = [pc EXCEPT ![r] = "count"] /\ pos' = [pos EXCEPT ![r] = 1]
  BY DEF Copy, Advance, Goto
<1>7. OwnStep(r)
  <2>1. \E to \in Labels : pc' = [pc EXCEPT ![r] = to] \/ UNCHANGED pc
    BY <1>5, <1>6, TextGoesOn DEF Labels, Counting
  <2>2. \E k \in Cell : pos' = [pos EXCEPT ![r] = k] \/ UNCHANGED pos
    BY <1>1, <1>4, <1>5, <1>6, TextGoesOn
  <2>3. \A q \in Readers : q # r => old_msg'[q] = old_msg[q]
    BY <1>1, <1>2
  <2>4. QED
    BY <1>2, <2>1, <2>2, <2>3 DEF OwnStep
<1>8. \A i \in Cell : old_msg'[r][i] = IF i = pos[r] THEN buf[i] ELSE old_msg[r][i]
  BY <1>1, <1>2 DEF Memory
<1>9. cnt \in Nat /\ cur_size \in Nat
  BY DEF IInv, TypeOK, ListTypeOK
<1>10. CASE ~TextEnds(r)
  <2>1. pc'[r] = "copy" /\ pos'[r] = pos[r] + 1
    BY <1>1, <1>5, <1>10
  <2>2. \A i \in 1..(pos'[r] - 1) : buf[i] # Zero
    BY <1>1, <1>3, <1>5, <1>10, <2>1
  <2>3. Clean(r) => Clean(r)'
    <3>1. \A i \in 1..pos[r] : i \in Cell /\ (i # pos[r] => i \in 1..(pos[r] - 1))
      BY <1>1, <1>4 DEF Cell
    <3>2. QED
      BY <1>1, <1>2, <1>8, <2>1, <3>1 DEF Clean
  <2>4. Due(r)' <= Due(r) /\ Due(r) \in Nat /\ Due(r)' \in Nat
    BY <1>1, <2>1, <2>3 DEF Due
  <2>5. cnt' + Due(r)' + 2 * cur_size <= cnt + Due(r) + 2 * cur_size'
    BY <1>2, <1>9, <1>10, <2>4
  <2>6. cur_size' = 0 => cnt' = 0
    BY <1>2, <1>10 DEF NodeInv, CountsOnNode
  <2>7. ~Removing(r)' /\ cnt' = cnt
    BY <1>2, <1>10, <2>1 DEF Removing
  <2>8. QED
    BY <1>7, <2>1, <2>2, <2>5, <2>6, <2>7, OwnNode
<1>11. CASE TextEnds(r)
  <2>1. pc'[r] = "count" /\ pos'[r] = 1 /\ cnt' = cnt + 1
    BY <1>1, <1>2, <1>6, <1>11
  <2>2. Clean(r) => SameText(old_msg[r], buf)'
    <3> SUFFICES ASSUME Clean(r), NEW i \in Cell
                 PROVE  \/ old_msg'[r][i] = buf'[i]
                        \/ \E j \in 1..(i - 1) : old_msg'[r][j] = Zero /\ buf'[j] = Zero
      BY DEF SameText
    <3>1. CASE i < pos[r]
      <4>1. i \in 1..(pos[r] - 1) /\ i # pos[r]
        BY <1>1, <3>1 DEF Cell
      <4>2. QED
        BY <1>2, <1>8, <4>1 DEF Clean
    <3>2. CASE i = pos[r]
      BY <1>2, <1>8, <3>2
    <3>3. CASE i > pos[r]
      <4>1. pos[r] \in 1..(i - 1) /\ pos[r] # BufLen
        BY <1>1, <1>4, <3>3 DEF Cell
      <4>2. buf[pos[r]] = Zero
        BY <1>11, <4>1 DEF TextEnds
      <4>3. QED
        BY <1>1, <1>2, <1>8, <4>1, <4>2
    <3>4. QED
      BY <1>1, <3>1, <3>2, <3>3 DEF Cell
  <2>3. Due(r)' + 1 <= Due(r) /\ Due(r) \in Nat /\ Due(r)' \in Nat
    BY <1>1, <2>1, <2>2 DEF Due, Removing
  <2>4. cnt' + Due(r)' + 2 * cur_size <= cnt + Due(r) + 2 * cur_size'
    BY <1>2, <1>9, <2>1, <2>3
  <2>5. cur_size' # 0
    <3>1. first_node # NULL
      BY <1>1 DEF IInv, Locks, HasNode, Seen
    <3>2. QED
      BY <1>2, <3>1, EmptyTests DEF IInv, TypeOK
  <2>6. cnt_mutex = r
    BY <1>1 DEF IInv, Locks, CntHeld, Counting
  <2>7. \A q \in Readers : q # r => ~Removing(q)
    BY <2>6, OthersDoNotCount DEF Removing, Counting
  <2>8. ~Removing(r)'
    BY <2>1 DEF Removing
  <2>9. QED
    BY <1>7, <2>1, <2>4, <2>5, <2>7, <2>8, OwnNode
<1>12. QED
  BY <1>10, <1>11

(* The count of two becomes the removal of a node. *)
LEMMA CountNode ==
  ASSUME IInv, IInv', NodeInv, NEW r \in Readers, Count(r)
  PROVE  NodeInv'
<1> USE Names
<1>1. /\ pc \in [Threads -> Labels] /\ pos \in [Threads -> Cell] /\ pc[r] = "count"
      /\ cnt \in 0..2 /\ cur_size \in Nat
  BY DEF Count, IInv, TypeOK, ListTypeOK, Labels, Counting
<1>2. UNCHANGED <<cur_size, old_msg>> /\ UNCHANGED <<pushed, buf, incoming, pos>>
  BY DEF Count, memVars, listVars
<1>3. pos'[r] = 1
  BY <1>1, <1>2 DEF NodeInv, StartsAtFirst
<1>4. CASE cnt = 2 /\ cnt' = 0 /\ Goto(r, "remove")
  <2>1. pc'[r] = "remove"
    BY <1>1, <1>4 DEF Goto
  <2>2. OwnStep(r)
    BY <1>1, <1>2, <1>4 DEF OwnStep, Goto, Labels, Counting
  <2>3. Due(r)' = Due(r) + 2 /\ Due(r) \in Nat
    BY <1>1, <1>2, <2>1 DEF Due, SameText, Removing
  <2>4. cnt' + Due(r)' + 2 * cur_size <= cnt + Due(r) + 2 * cur_size'
    BY <1>1, <1>2, <1>4, <2>3
  <2>5. cnt_mutex = r
    BY <1>1 DEF IInv, Locks, CntHeld, Counting
  <2>6. \A q \in Readers : q # r => ~Removing(q)
    BY <2>5, OthersDoNotCount DEF Removing, Counting
  <2>7. QED
    BY <1>3, <1>4, <2>1, <2>2, <2>4, <2>6, OwnNode
<1>5. CASE Goto(r, "unlock_cnt") /\ UNCHANGED cnt
  <2>1. pc'[r] = "unlock_cnt"
    BY <1>1, <1>5 DEF Goto
  <2>2. OwnStep(r)
    BY <1>1, <1>2, <1>5 DEF OwnStep, Goto, Labels, Counting
  <2>3. ~Removing(r) /\ ~Removing(r)'
    BY <1>1, <2>1 DEF Removing
  <2>4. QED
    BY <1>1, <1>2, <1>3, <1>5, <2>1, <2>2, <2>3, QuietNode
<1>6. QED
  BY <1>4, <1>5 DEF Count

LEMMA RemoveNode ==
  ASSUME IInv, IInv', NodeInv, NEW r \in Readers, DoRemove(r)
  PROVE  NodeInv'
<1> USE Names
<1>1. /\ pc \in [Threads -> Labels] /\ pos \in [Threads -> Cell] /\ pc[r] = "removing"
      /\ cur_size \in Nat
  BY DEF DoRemove, IInv, TypeOK, ListTypeOK, Labels, Counting
<1>2. /\ UNCHANGED <<cnt, old_msg>> /\ UNCHANGED <<pushed, buf, incoming, pos>>
      /\ Goto(r, "unlock_cnt")
  BY DEF DoRemove, memVars
<1>3. pos'[r] = 1
  BY <1>1, <1>2 DEF NodeInv, StartsAtFirst
<1>4. cnt = 0
  BY <1>1 DEF NodeInv, CountsOnNode, Removing
<1>5. cur_size' = cur_size - 1
  <2>1. first_node # NULL
    BY <1>1 DEF IInv, Locks, HasNode, Seen
  <2>2. ~list_empty
    BY <2>1, EmptyTests DEF IInv, TypeOK
  <2>3. QED
    BY <2>2 DEF DoRemove, remove_first, unlink_first
<1>6. pc'[r] = "unlock_cnt"
  BY <1>1, <1>2 DEF Goto
<1>7. OwnStep(r)
  BY <1>1, <1>2 DEF OwnStep, Goto, Labels, Counting
<1>8. Due(r) = Due(r)' + 2 /\ Due(r)' \in Nat
  BY <1>1, <1>2, <1>6 DEF Due, SameText, Removing
<1>9. cnt' + Due(r)' + 2 * cur_size <= cnt + Due(r) + 2 * cur_size'
  BY <1>1, <1>2, <1>4, <1>5, <1>8
<1>10. QED
  BY <1>2, <1>3, <1>4, <1>6, <1>7, <1>9, OwnNode

LEMMA NextNodeInv == ASSUME IInv, NodeInv, [Next]_vars PROVE NodeInv'
<1>0. IInv'
  BY NextIInv
<1>1. CASE connection_mgr
  BY <1>0, <1>1, ConnectionNode
<1>2. ASSUME NEW r \in Readers, manager(r) \/ SpuriousWakeUp(r) PROVE NodeInv'
  <2>1. CASE \/ LockCnt(r) \/ LockGet(r) \/ Look(r) \/ WakeUp(r) \/ SpuriousWakeUp(r)
             \/ Deref(r) \/ LockRemove(r) \/ UnlockCnt(r) \/ Record(r)
    BY <1>0, <2>1, WaitNode
  <2>2. CASE Parse(r)
    BY <1>0, <2>2, ParseNode
  <2>3. CASE Compare(r)
    BY <1>0, <2>3, CompareNode
  <2>4. CASE Copy(r)
    BY <1>0, <2>4, CopyNode
  <2>5. CASE Count(r)
    BY <1>0, <2>5, CountNode
  <2>6. CASE DoRemove(r)
    BY <1>0, <2>6, RemoveNode
  <2>7. QED
    BY <1>2, <2>1, <2>2, <2>3, <2>4, <2>5, <2>6 DEF manager
<1>3. CASE UNCHANGED vars
  <2>1. UNCHANGED <<cnt, cur_size, pc, buf, incoming, pos, old_msg, pushed>>
    BY <1>3 DEF vars, memVars, listVars
  <2>2. Owed' = Owed
    BY <2>1 DEF Owed, Due, Clean, SameText, Removing
  <2>3. Settled' = Settled
    BY <2>1, Zenon DEF Settled
  <2>4. Enough'
    BY <2>1, <2>2, <2>3, Zenon DEF NodeInv, Enough
  <2>5. StartsAtFirst' /\ Receives' /\ WalksText' /\ CountsOnNode'
    BY <2>1 DEF NodeInv, StartsAtFirst, Receives, WalksText, CountsOnNode, Removing
  <2>6. QED
    BY <2>4, <2>5 DEF NodeInv
<1>4. QED
  BY <1>1, <1>2, <1>3 DEF Next

(* Whatever the managers counted for, one of them twice or for a torn text, *)
(* the list is not empty before both have the text that was pushed last     *)
(* (main-server.c:229-244, 320-335).                                        *)
THEOREM NodeStaysForBoth == Spec => []NodeUntilBothHaveIt
<1>1. IInv /\ NodeInv => NodeUntilBothHaveIt
  <2> SUFFICES ASSUME IInv, NodeInv, Settled, list_empty, NEW r \in Readers
               PROVE  SameText(old_msg[r], buf)
    BY Zenon DEF NodeUntilBothHaveIt, Settled
  <2>1. Owed <= 2 * cur_size
    BY Zenon DEF NodeInv, Enough
  <2>2. cur_size = 0
    BY EmptyTests DEF IInv, TypeOK
  <2>3. cnt \in Nat /\ Due("data") \in Nat /\ Due("storage") \in Nat
    BY DEF Due, IInv, TypeOK
  <2>4. Due(r) = 0
    BY <2>1, <2>2, <2>3 DEF Owed, Readers
  <2>5. QED
    BY <2>4 DEF Due
<1>2. IInv /\ NodeInv /\ [Next]_vars => NodeInv'
  BY NextNodeInv
<1>3. QED
  BY <1>1, <1>2, InitNodeInv, Invariance, PTL DEF Spec

-----------------------------------------------------------------------------
(* The threads keep the list's protocol: the operations on the list are    *)
(* the protocol's own, and a label's stage is what Stage says of it.       *)
StageOf(l) ==
  CASE l \in {"select", "recv", "lock_cnt", "parse", "record"} -> "idle"
    [] l \in {"compare", "copy", "count", "unlock_cnt"} -> "use"
    [] OTHER -> l

LEMMA SameList ==
  /\ list_create <=> List!list_create
  /\ \A d, ret : push(d, ret) <=> List!push(d, ret)
  /\ \A ret : remove_first(ret) <=> List!remove_first(ret)
<1> USE DEF list_empty, list_full, Zeroed, listVars, Pointer,
            List!list_empty, List!list_full, List!Zeroed, List!listVars, List!Pointer,
            List!LIST_SUCCESS, List!LIST_FAIL, List!LIST_NODATA, List!LIST_FULL
<1>1. list_create <=> List!list_create
  BY DEF list_create, List!list_create
<1>2. \A d, n : append_node(d, n) <=> List!append_node(d, n)
  BY DEF append_node, List!append_node
<1>3. \A d, ret : push(d, ret) <=> List!push(d, ret)
  BY <1>2 DEF push, List!push
<1>4. unlink_first <=> List!unlink_first
  BY DEF unlink_first, List!unlink_first
<1>5. \A ret : remove_first(ret) <=> List!remove_first(ret)
  BY <1>4 DEF remove_first, List!remove_first
<1>6. QED
  BY <1>1, <1>3, <1>5

LEMMA StageStep ==
  ASSUME TypeOK, NEW t \in Threads, NEW to, pc' = [pc EXCEPT ![t] = to]
  PROVE  /\ Stage' = [Stage EXCEPT ![t] = StageOf(to)]
         /\ Stage[t] = StageOf(pc[t])
         /\ StageOf(pc[t]) = StageOf(to) => UNCHANGED Stage
<1>1. Stage = [u \in Threads |-> StageOf(pc[u])]
  BY DEF Stage, StageOf
<1>2. Stage' = [u \in Threads |-> StageOf(pc'[u])]
  BY DEF Stage, StageOf
<1>3. pc' = [u \in Threads |-> IF u = t THEN to ELSE pc[u]]
  BY DEF TypeOK
<1>4. QED
  BY <1>1, <1>2, <1>3

(* Nothing the protocol knows of changes. *)
Unseen ==
  /\ UNCHANGED <<listVars, mutex, cnt_mutex, waiting, first, msg>>
  /\ UNCHANGED Stage

LEMMA UnseenStutters == ASSUME Unseen PROVE UNCHANGED List!vars
BY DEF Unseen, List!vars, listVars, List!listVars

(* A step within one stage *)
LEMMA SameStage ==
  ASSUME TypeOK, NEW t \in Threads, NEW to,
         pc' = [pc EXCEPT ![t] = to] \/ UNCHANGED pc, StageOf(pc[t]) = StageOf(to),
         UNCHANGED <<listVars, mutex, cnt_mutex, waiting, first, msg>>
  PROVE  Unseen
<1>1. CASE UNCHANGED pc
  BY <1>1 DEF Unseen, Stage
<1>2. CASE pc' = [pc EXCEPT ![t] = to]
  BY <1>2, StageStep DEF Unseen
<1>3. QED
  BY <1>1, <1>2

LEMMA TakeMutexFollows ==
  ASSUME IInv, NEW t \in Threads, NEW from, NEW to, TakeMutex(t, from, to),
         StageOf(from) = from, StageOf(to) = to
  PROVE  List!TakeMutex(t, from, to)
<1>1. /\ pc' = [pc EXCEPT ![t] = to] /\ pc[t] = from
      /\ mutex = NULL /\ mutex' = t
      /\ UNCHANGED <<listVars, cnt_mutex, waiting, first, msg>>
  BY DEF TakeMutex, Goto, memVars
<1>2. TypeOK
  BY DEF IInv
<1>3. Stage[t] = from /\ Stage' = [Stage EXCEPT ![t] = to]
  <2>1. Stage' = [Stage EXCEPT ![t] = StageOf(to)] /\ Stage[t] = StageOf(pc[t])
    BY <1>1, <1>2, StageStep
  <2>2. QED
    BY <1>1, <2>1
<1>4. QED
  BY <1>1, <1>3 DEF List!TakeMutex, List!Goto, listVars, List!listVars
(* connection_mgr is a producer of the protocol. *)
LEMMA ConnectionFollows ==
  ASSUME IInv, connection_mgr
  PROVE  List!Next \/ UNCHANGED List!vars
<1> USE Names
<1>0. TypeOK
  BY DEF IInv
<1>1. CASE RecvStart
  <2>1. pc["conn"] = "select" /\ pc' = [pc EXCEPT !["conn"] = "recv"]
    BY <1>1 DEF RecvStart, Goto
  <2>2. UNCHANGED <<listVars, mutex, cnt_mutex, waiting, first, msg>>
    BY <1>1 DEF RecvStart
  <2>3. StageOf("select") = StageOf("recv")
    BY DEF StageOf
  <2>4. QED
    BY <1>0, <2>1, <2>2, <2>3, SameStage, UnseenStutters
<1>2. CASE RecvCell
  <2>1. /\ pc["conn"] = "recv" /\ \E last \in BOOLEAN : Advance("conn", last, "push")
        /\ UNCHANGED <<listVars, mutex, cnt_mutex, waiting, first, msg>>
    BY <1>2 DEF RecvCell
  <2>2. CASE UNCHANGED pc
    BY <1>0, <2>1, <2>2, SameStage, UnseenStutters
  <2>3. CASE pc' = [pc EXCEPT !["conn"] = "push"]
    <3>1. Stage' = [Stage EXCEPT !["conn"] = StageOf("push")]
          /\ Stage["conn"] = StageOf("recv")
      BY <1>0, <2>1, <2>3, StageStep
    <3>2. StageOf("push") = "push" /\ StageOf("recv") = "idle"
      BY DEF StageOf
    <3>3. List!CallPush("conn")
      BY <2>1, <3>1, <3>2 DEF List!CallPush, List!Goto, listVars, List!listVars
    <3>4. QED
      BY <3>3 DEF List!Next
  <2>4. QED
    BY <2>1, <2>2, <2>3 DEF Advance, Goto
<1>3. CASE LockPush
  <2>1. StageOf("push") = "push" /\ StageOf("pushing") = "pushing"
    BY DEF StageOf
  <2>2. List!LockPush("conn")
    BY <1>3, <2>1, TakeMutexFollows DEF LockPush, List!LockPush
  <2>3. QED
    BY <2>2 DEF List!Next, List!InCall, List!Threads, Threads
<1>4. CASE DoPush
  <2>1. /\ pc["conn"] = "pushing" /\ pc' = [pc EXCEPT !["conn"] = "select"]
        /\ mutex' = NULL /\ UNCHANGED <<cnt_mutex, first, msg>>
    BY <1>4 DEF DoPush, Goto, memVars
  <2>2. PICK ret \in {LIST_SUCCESS, LIST_FAIL, LIST_FULL} :
          push(Buf, ret) /\ waiting' = IF ret = LIST_SUCCESS THEN {} ELSE waiting
    BY <1>4 DEF DoPush
  <2>3. List!push(Buf, ret)
    BY <2>2, SameList
  <2>4. Stage' = [Stage EXCEPT !["conn"] = StageOf("select")]
        /\ Stage["conn"] = StageOf("pushing")
    BY <1>0, <2>1, StageStep
  <2>5. StageOf("select") = "idle" /\ StageOf("pushing") = "pushing"
    BY DEF StageOf
  <2>6. List!DoPush("conn")
    BY <2>1, <2>2, <2>3, <2>4, <2>5, GatewayAssumption
    DEF List!DoPush, List!Goto, List!LIST_SUCCESS, List!LIST_FAIL, List!LIST_FULL
  <2>7. QED
    BY <2>6 DEF List!Next, List!InCall, List!Threads, Threads
<1>5. QED
  BY <1>1, <1>2, <1>3, <1>4 DEF connection_mgr
(* The managers are readers of the protocol: the steps of a call ... *)
LEMMA CallFollows ==
  ASSUME IInv, NEW r \in Readers,
         LockGet(r) \/ Look(r) \/ WakeUp(r) \/ Deref(r) \/ LockRemove(r) \/ DoRemove(r)
  PROVE  List!InCall(r)
<1> USE Names
<1>0. TypeOK /\ r \in Threads
  BY DEF IInv
<1>1. CASE LockGet(r)
  <2>1. StageOf("get") = "get" /\ StageOf("look") = "look"
    BY DEF StageOf
  <2>2. List!LockGet(r)
    BY <1>0, <1>1, <2>1, TakeMutexFollows DEF LockGet, List!LockGet
  <2>3. QED
    BY <2>2 DEF List!InCall
<1>2. CASE Look(r)
  <2>1. /\ pc[r] = "look" /\ mutex' = NULL
        /\ first' = [first EXCEPT ![r] = first_node]
        /\ UNCHANGED <<listVars, cnt_mutex, msg>>
    BY <1>2 DEF Look, memVars
  <2>2. PICK to \in {"wait", "deref"} :
          /\ pc' = [pc EXCEPT ![r] = to]
          /\ to = "wait" => first_node = NULL /\ waiting' = waiting \cup {r}
          /\ to = "deref" => first_node # NULL /\ waiting' = waiting
    BY <1>2 DEF Look, Goto
  <2>3. StageOf(to) = to /\ StageOf("look") = "look"
    BY DEF StageOf
  <2>4. Stage' = [Stage EXCEPT ![r] = StageOf(to)] /\ Stage[r] = StageOf("look")
    BY <1>0, <2>1, <2>2, StageStep
  <2>5. List!Look(r)
    BY <2>1, <2>2, <2>3, <2>4 DEF List!Look, List!Goto, listVars, List!listVars
  <2>6. QED
    BY <2>5 DEF List!InCall
<1>3. CASE WakeUp(r)
  <2>1. StageOf("wait") = "wait" /\ StageOf("look") = "look"
    BY DEF StageOf
  <2>2. List!WakeUp(r)
    BY <1>0, <1>3, <2>1, TakeMutexFollows DEF WakeUp, List!WakeUp
  <2>3. QED
    BY <2>2 DEF List!InCall
<1>4. CASE Deref(r)
  <2>1. /\ pc[r] = "deref" /\ first' = [first EXCEPT ![r] = NULL]
        /\ msg' = [msg EXCEPT ![r] = node[first[r]].data]
        /\ UNCHANGED <<listVars, mutex, cnt_mutex, waiting>>
    BY <1>4 DEF Deref
  <2>2. PICK to \in {"count", "compare"} : pc' = [pc EXCEPT ![r] = to]
    BY <1>4 DEF Deref, Goto
  <2>3. StageOf(to) = "use" /\ StageOf("deref") = "deref"
    BY DEF StageOf
  <2>4. Stage' = [Stage EXCEPT ![r] = StageOf(to)] /\ Stage[r] = StageOf("deref")
    BY <1>0, <2>1, <2>2, StageStep
  <2>5. List!Deref(r)
    BY <2>1, <2>3, <2>4 DEF List!Deref, List!Goto, listVars, List!listVars
  <2>6. QED
    BY <2>5 DEF List!InCall
<1>5. CASE LockRemove(r)
  <2>1. StageOf("remove") = "remove" /\ StageOf("removing") = "removing"
    BY DEF StageOf
  <2>2. List!LockRemove(r)
    BY <1>0, <1>5, <2>1, TakeMutexFollows DEF LockRemove, List!LockRemove
  <2>3. QED
    BY <2>2 DEF List!InCall
<1>6. CASE DoRemove(r)
  <2>1. /\ pc[r] = "removing" /\ pc' = [pc EXCEPT ![r] = "unlock_cnt"]
        /\ mutex' = NULL /\ UNCHANGED <<cnt_mutex, waiting, first, msg>>
    BY <1>6 DEF DoRemove, Goto, memVars
  <2>2. PICK ret \in {LIST_SUCCESS, LIST_NODATA} : List!remove_first(ret)
    BY <1>6, SameList DEF DoRemove
  <2>3. StageOf("unlock_cnt") = "use" /\ StageOf("removing") = "removing"
    BY DEF StageOf
  <2>4. Stage' = [Stage EXCEPT ![r] = StageOf("unlock_cnt")]
        /\ Stage[r] = StageOf("removing")
    BY <1>0, <2>1, StageStep
  <2>5. List!DoRemove(r)
    BY <2>1, <2>2, <2>3, <2>4 DEF List!DoRemove, List!Goto, List!LIST_SUCCESS, List!LIST_NODATA
  <2>6. QED
    BY <2>5 DEF List!InCall
<1>7. QED
  BY <1>1, <1>2, <1>3, <1>4, <1>5, <1>6

(* ... and what the managers do between the calls. *)
LEMMA BetweenCallsFollows ==
  ASSUME IInv, NEW r \in Readers,
         \/ LockCnt(r) \/ Compare(r) \/ Copy(r) \/ Count(r) \/ UnlockCnt(r)
         \/ Parse(r) \/ Record(r) \/ SpuriousWakeUp(r)
  PROVE  \/ List!LockCnt(r) \/ List!UnlockCnt(r) \/ List!CallRemove(r)
         \/ List!SpuriousWakeUp(r) \/ UNCHANGED List!vars
<1> USE Names
<1>0. TypeOK /\ r \in Threads
  BY DEF IInv
<1>1. CASE LockCnt(r)
  <2>1. /\ pc[r] = "lock_cnt" /\ pc' = [pc EXCEPT ![r] = "get"]
        /\ cnt_mutex = NULL /\ cnt_mutex' = r
        /\ UNCHANGED <<listVars, mutex, waiting, first, msg>>
    BY <1>1 DEF LockCnt, Goto, memVars
  <2>2. StageOf("lock_cnt") = "idle" /\ StageOf("get") = "get"
    BY DEF StageOf
  <2>3. Stage' = [Stage EXCEPT ![r] = StageOf("get")] /\ Stage[r] = StageOf("lock_cnt")
    BY <1>0, <2>1, StageStep
  <2>4. QED
    BY <2>1, <2>2, <2>3 DEF List!LockCnt, List!Goto, listVars, List!listVars
<1>2. CASE Compare(r)
  <2>1. /\ pc[r] = "compare"
        /\ UNCHANGED <<listVars, mutex, waiting, first, msg>>
    BY <1>2 DEF Compare
  <2>2. /\ StageOf("compare") = "use" /\ StageOf("copy") = "use"
        /\ StageOf("lock_cnt") = "idle"
    BY DEF StageOf
  <2>3. CASE Goto(r, "copy") /\ UNCHANGED cnt_mutex
    BY <1>0, <2>1, <2>2, <2>3, SameStage, UnseenStutters DEF Goto
  <2>4. CASE /\ Advance(r, TextEnds(r), "lock_cnt")
             /\ cnt_mutex' = IF TextEnds(r) THEN NULL ELSE cnt_mutex
    <3>1. /\ ~TextEnds(r) => UNCHANGED pc
          /\ TextEnds(r) => pc' = [pc EXCEPT ![r] = "lock_cnt"]
      BY <1>0, <2>4, AdvanceStep, TextGoesOn DEF Labels
    <3>2. CASE ~TextEnds(r)
      BY <1>0, <2>1, <2>4, <3>1, <3>2, SameStage, UnseenStutters
    <3>3. CASE TextEnds(r)
      <4>1. Stage' = [Stage EXCEPT ![r] = StageOf("lock_cnt")]
            /\ Stage[r] = StageOf("compare")
        BY <1>0, <2>1, <3>1, <3>3, StageStep
      <4>2. QED
        BY <2>1, <2>2, <2>4, <3>3, <4>1 DEF List!UnlockCnt, List!Goto, listVars, List!listVars
    <3>4. QED
      BY <3>2, <3>3
  <2>5. QED
    BY <1>2, <2>3, <2>4 DEF Compare
<1>3. CASE Copy(r)
  <2>1. /\ pc[r] = "copy" /\ (pc' = [pc EXCEPT ![r] = "count"] \/ UNCHANGED pc)
        /\ UNCHANGED <<listVars, mutex, cnt_mutex, waiting, first, msg>>
    BY <1>3 DEF Copy, Advance, Goto
  <2>2. StageOf("copy") = StageOf("count")
    BY DEF StageOf
  <2>3. QED
    BY <1>0, <2>1, <2>2, SameStage, UnseenStutters
<1>4. CASE Count(r)
  <2>1. /\ pc[r] = "count"
        /\ UNCHANGED <<listVars, mutex, cnt_mutex, waiting, first, msg>>
    BY <1>4 DEF Count, memVars
  <2>2. /\ StageOf("count") = "use" /\ StageOf("unlock_cnt") = "use"
        /\ StageOf("remove") = "remove"
    BY DEF StageOf
  <2>3. CASE Goto(r, "unlock_cnt")
    BY <1>0, <2>1, <2>2, <2>3, SameStage, UnseenStutters DEF Goto
  <2>4. CASE Goto(r, "remove")
    <3>1. Stage' = [Stage EXCEPT ![r] = StageOf("remove")] /\ Stage[r] = StageOf("count")
      BY <1>0, <2>1, <2>4, StageStep DEF Goto
    <3>2. QED
      BY <2>1, <2>2, <3>1 DEF List!CallRemove, List!Goto, listVars, List!listVars
  <2>5. QED
    BY <1>4, <2>3, <2>4 DEF Count
<1>5. CASE UnlockCnt(r)
  <2>1. /\ pc[r] = "unlock_cnt" /\ pc' = [pc EXCEPT ![r] = "parse"] /\ cnt_mutex' = NULL
        /\ UNCHANGED <<listVars, mutex, waiting, first, msg>>
    BY <1>5 DEF UnlockCnt, Goto, memVars
  <2>2. StageOf("unlock_cnt") = "use" /\ StageOf("parse") = "idle"
    BY DEF StageOf
  <2>3. Stage' = [Stage EXCEPT ![r] = StageOf("parse")] /\ Stage[r] = StageOf("unlock_cnt")
    BY <1>0, <2>1, StageStep
  <2>4. QED
    BY <2>1, <2>2, <2>3 DEF List!UnlockCnt, List!Goto, listVars, List!listVars
<1>6. CASE Parse(r) \/ Record(r)
  <2>1. PICK to \in {"record", "lock_cnt"} : pc' = [pc EXCEPT ![r] = to] \/ UNCHANGED pc
    BY <1>6 DEF Parse, Record, Advance, Goto
  <2>2. /\ pc[r] \in {"parse", "record"}
        /\ UNCHANGED <<listVars, mutex, cnt_mutex, waiting, first, msg>>
    BY <1>6 DEF Parse, Record
  <2>3. StageOf(pc[r]) = StageOf(to)
    BY <2>2 DEF StageOf
  <2>4. QED
    BY <1>0, <2>1, <2>2, <2>3, SameStage, UnseenStutters
<1>7. CASE SpuriousWakeUp(r)
  <2>1. /\ pc[r] = "wait" /\ r \in waiting /\ waiting' = waiting \ {r} /\ UNCHANGED pc
        /\ UNCHANGED <<listVars, mutex, cnt_mutex, first, msg>>
    BY <1>7 DEF SpuriousWakeUp, memVars
  <2>2. UNCHANGED Stage
    BY <2>1 DEF Stage
  <2>3. Stage[r] = "wait"
    BY <1>0, <2>1 DEF Stage
  <2>4. QED
    BY <2>1, <2>2, <2>3 DEF List!SpuriousWakeUp, listVars, List!listVars
<1>8. QED
  BY <1>1, <1>2, <1>3, <1>4, <1>5, <1>6, <1>7

(* What main-server.c's threads do to the list is what ListThreads lets    *)
(* its producers and readers do: each of their steps is a step of the      *)
(* protocol or invisible to it, so what is proved of the protocol holds of *)
(* the gateway.                                                            *)
THEOREM GatewayFollowsProtocol == Spec => FollowsProtocol
<1>1. Init => List!Init
  <2> SUFFICES ASSUME Init PROVE List!Init
    OBVIOUS
  <2>1. Stage = [t \in Threads |-> "idle"]
    BY Names DEF Init, Stage
  <2>2. QED
    BY <2>1, SameList DEF Init, List!Init, List!Threads, Threads
<1>2. IInv /\ [Next]_vars => [List!Next]_(List!vars)
  <2> SUFFICES ASSUME IInv, [Next]_vars PROVE List!Next \/ UNCHANGED List!vars
    OBVIOUS
  <2>1. CASE connection_mgr
    BY <2>1, ConnectionFollows
  <2>2. ASSUME NEW r \in Readers, manager(r) \/ SpuriousWakeUp(r)
        PROVE  List!Next \/ UNCHANGED List!vars
    <3>1. CASE \/ LockGet(r) \/ Look(r) \/ WakeUp(r) \/ Deref(r)
               \/ LockRemove(r) \/ DoRemove(r)
      BY <3>1, CallFollows DEF List!Next, List!Threads
    <3>2. CASE \/ LockCnt(r) \/ Compare(r) \/ Copy(r) \/ Count(r) \/ UnlockCnt(r)
               \/ Parse(r) \/ Record(r) \/ SpuriousWakeUp(r)
      BY <3>2, BetweenCallsFollows DEF List!Next
    <3>3. QED
      BY <2>2, <3>1, <3>2 DEF manager
  <2>3. CASE UNCHANGED vars
    <3>1. Unseen
      BY <2>3 DEF vars, memVars, Unseen, Stage
    <3>2. QED
      BY <3>1, UnseenStutters
  <2>4. QED
    BY <2>1, <2>2, <2>3 DEF Next
<1>3. QED
  BY <1>1, <1>2, Invariance, PTL DEF Spec, FollowsProtocol, List!Spec

=============================================================================
