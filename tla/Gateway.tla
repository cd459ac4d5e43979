------------------------------ MODULE Gateway ------------------------------
(***************************************************************************)
(* The three threads of the sensor gateway, main-server.c, on the shared   *)
(* list.  connection_mgr receives each message into one local buffer, buf, *)
(* and pushes the address of that buffer; data_mgr and storage_mgr look at *)
(* the first node under list->cnt_mutex, compare the text with the one     *)
(* they saw last, count it, remove the node when the count reaches two,    *)
(* and only then, with no lock held, parse the text.                       *)
(*                                                                         *)
(* Every node points at the same buffer, which recv overwrites while the   *)
(* readers compare, copy and parse it.  The buffer is therefore an array   *)
(* of BufLen cells that recv fills and the readers read one cell at a      *)
(* time; a cell holds the part of a message's text that fell into it, a 0, *)
(* or what was in the stack before.  A recv returns as much as has come,   *)
(* one of Parts cells: clients send no 0 (os_net.c:112-119), nobody writes *)
(* one behind the message, and what is there stays.  strcmp, strcpy and    *)
(* cJSON_Parse go on to the first 0, so they see the rest of older         *)
(* messages, parts of two messages, or memory no message was written to.   *)
(* The memory behind the buffer is taken to begin with a 0.                *)
(*                                                                         *)
(* The two readers differ only in what they do with a parsed message       *)
(* (SensorWindow models data_mgr's part).  sen_lock is only ever taken for *)
(* reading, so it excludes nobody and is left out.  The select loop is     *)
(* reduced to the recv that delivers a message: connection_mgr touches     *)
(* nothing shared on its other paths.                                      *)
(***************************************************************************)
EXTENDS OsList

CONSTANTS
  Buf,        \* the address of connection_mgr's buf
  Texts,      \* the message texts clients send
  NoText,     \* the content of memory no message was written to, if not 0
  Zero,       \* a cell that begins with the 0 that ends a text
  BufLen,     \* cells in the buffer
  Parts       \* how many cells a recv may return

ASSUME GatewayAssumption ==
  /\ Buf \in Data
  /\ NULL \notin Data
  /\ NoText \notin Texts
  /\ Zero \notin Texts \cup {NoText}
  /\ BufLen \in Nat \ {0}
  /\ Parts \subseteq 1..BufLen
  /\ NULL \notin {"conn", "data", "storage"}

Readers == {"data", "storage"}
Threads == {"conn"} \cup Readers
Cell    == 1..BufLen
Memory  == [Cell -> Texts \cup {NoText, Zero}]
Zeros   == [i \in Cell |-> Zero]

(* The text t when it came in n cells. *)
Message(t, n) == [i \in Cell |-> IF i <= n THEN t ELSE Zero]

(* strcmp(a, b) = 0 *)
SameText(a, b) ==
  \A i \in Cell : a[i] = b[i] \/ \E j \in 1..(i - 1) : a[j] = Zero /\ b[j] = Zero

VARIABLES
  mutex,      \* holder of list->mutex, or NULL
  cnt_mutex,  \* holder of list->cnt_mutex, or NULL
  waiting,    \* the readers asleep on list->data_available
  cnt,        \* the global cnt
  buf,        \* connection_mgr's receive buffer
  incoming,   \* the message recv is copying into buf
  pushed,     \* the list_push for the message in buf has succeeded
  pc,
  pos,        \* the next cell a thread's copy or comparison touches
  first,      \* the local first of list_get_data_first_node
  msg,        \* the local msg of a reader
  old_msg,    \* the local old_msg of a reader
  parsed      \* the text a reader's msg_parse has read

memVars == <<buf, incoming, pos, msg, old_msg, parsed>>
vars == <<listVars, mutex, cnt_mutex, waiting, cnt, pc, first, pushed, memVars>>

Init ==
  /\ list_create
  /\ mutex = NULL
  /\ cnt_mutex = NULL
  /\ waiting = {}
  /\ cnt = 0
  /\ buf \in [Cell -> {NoText, Zero}]
  /\ incoming = NoText
  /\ pushed = FALSE
  /\ pc = [t \in Threads |-> IF t = "conn" THEN "select" ELSE "lock_cnt"]
  /\ pos = [t \in Threads |-> 1]
  /\ first = [r \in Readers |-> NULL]
  /\ msg = [r \in Readers |-> NULL]
  /\ old_msg = [r \in Readers |-> Zeros]
  /\ parsed = [r \in Readers |-> Zeros]

Goto(t, l) == pc' = [pc EXCEPT ![t] = l]

(* A thread has handled cell pos[t]: go on with the next one, or to label  *)
(* to when it was the last.                                                *)
Advance(t, last, to) ==
  \/ /\ ~last
     /\ pos' = [pos EXCEPT ![t] = @ + 1]
     /\ UNCHANGED pc
  \/ /\ last
     /\ pos' = [pos EXCEPT ![t] = 1]
     /\ Goto(t, to)

(* The text of buf ends in the cell that r reads. *)
TextEnds(r) == buf[pos[r]] = Zero \/ pos[r] = BufLen

TakeMutex(t, from, to) ==
  /\ pc[t] = from
  /\ mutex = NULL
  /\ mutex' = t
  /\ Goto(t, to)
  /\ UNCHANGED <<listVars, cnt_mutex, waiting, cnt, first, pushed, memVars>>

-----------------------------------------------------------------------------
(* connection_mgr *)

(* select reports a readable client and recv starts to copy its message. *)
RecvStart ==
  /\ pc["conn"] = "select"
  /\ incoming' \in Texts
  /\ pushed' = FALSE
  /\ Goto("conn", "recv")
  /\ UNCHANGED <<listVars, mutex, cnt_mutex, waiting, cnt, first,
                 buf, pos, msg, old_msg, parsed>>

(* recv writes a cell of the message; how many have come is seen at the end. *)
RecvCell ==
  /\ pc["conn"] = "recv"
  /\ buf' = [buf EXCEPT ![pos["conn"]] = incoming]
  /\ \E last \in BOOLEAN :
       /\ last => pos["conn"] \in Parts
       /\ ~last => \E n \in Parts : pos["conn"] < n
       /\ Advance("conn", last, "push")
       /\ incoming' = IF last THEN NoText ELSE incoming
  /\ UNCHANGED <<listVars, mutex, cnt_mutex, waiting, cnt, first, pushed,
                 msg, old_msg, parsed>>

LockPush == TakeMutex("conn", "push", "pushing")

(* list_push(shared_data, buf); a push that fails is only logged. *)
DoPush ==
  /\ pc["conn"] = "pushing"
  /\ \E ret \in {LIST_SUCCESS, LIST_FAIL, LIST_FULL} :
       /\ push(Buf, ret)
       /\ pushed' = (ret = LIST_SUCCESS)
       /\ waiting' = IF ret = LIST_SUCCESS THEN {} ELSE waiting
  /\ mutex' = NULL
  /\ Goto("conn", "select")
  /\ UNCHANGED <<cnt_mutex, cnt, first, memVars>>

-----------------------------------------------------------------------------
(* data_mgr and storage_mgr: get the first node's data *)

(* Mutant of LockCnt: the managers do not exclude each other. *)
LockCnt_unguarded(r) ==
  /\ pc[r] = "lock_cnt"
  /\ cnt_mutex' = r
  /\ Goto(r, "get")
  /\ UNCHANGED <<listVars, mutex, waiting, cnt, first, pushed, memVars>>

LockCnt(r) ==
  /\ pc[r] = "lock_cnt"
  /\ cnt_mutex = NULL
  /\ cnt_mutex' = r
  /\ Goto(r, "get")
  /\ UNCHANGED <<listVars, mutex, waiting, cnt, first, pushed, memVars>>

LockGet(r) == TakeMutex(r, "get", "look")

(* Mutant of Look: a reader sleeps with list->mutex taken. *)
Look_keeps_mutex(r) ==
  /\ pc[r] = "look"
  /\ first' = [first EXCEPT ![r] = first_node]
  /\ \/ /\ first_node = NULL
        /\ waiting' = waiting \cup {r}
        /\ Goto(r, "wait")
        /\ UNCHANGED mutex
     \/ /\ first_node # NULL
        /\ Goto(r, "deref")
        /\ mutex' = NULL
        /\ UNCHANGED waiting
  /\ UNCHANGED <<listVars, cnt_mutex, cnt, pushed, memVars>>

Look(r) ==
  /\ pc[r] = "look"
  /\ first' = [first EXCEPT ![r] = first_node]
  /\ \/ /\ first_node = NULL
        /\ waiting' = waiting \cup {r}
        /\ Goto(r, "wait")
     \/ /\ first_node # NULL
        /\ Goto(r, "deref")
        /\ UNCHANGED waiting
  /\ mutex' = NULL
  /\ UNCHANGED <<listVars, cnt_mutex, cnt, pushed, memVars>>

WakeUp(r) ==
  /\ r \notin waiting
  /\ TakeMutex(r, "wait", "look")

SpuriousWakeUp(r) ==
  /\ pc[r] = "wait"
  /\ r \in waiting
  /\ waiting' = waiting \ {r}
  /\ UNCHANGED <<listVars, mutex, cnt_mutex, cnt, pc, first, pushed, memVars>>

Deref(r) ==
  /\ pc[r] = "deref"
  /\ msg' = [msg EXCEPT ![r] = node[first[r]].data]
  /\ first' = [first EXCEPT ![r] = NULL]         \* out of scope
  /\ Goto(r, IF msg'[r] = NULL THEN "count" ELSE "compare")
  /\ UNCHANGED <<listVars, mutex, cnt_mutex, waiting, cnt, pushed,
                 buf, incoming, pos, old_msg, parsed>>

-----------------------------------------------------------------------------
(* data_mgr and storage_mgr: compare, count, remove *)

(* Mutant of Compare: continue without mutex_unlock. *)
Compare_keeps_lock(r) ==
  /\ pc[r] = "compare"
  /\ \/ /\ buf[pos[r]] # old_msg[r][pos[r]]
        /\ pos' = [pos EXCEPT ![r] = 1]
        /\ Goto(r, "copy")
     \/ /\ buf[pos[r]] = old_msg[r][pos[r]]
        /\ Advance(r, TextEnds(r), "lock_cnt")
  /\ UNCHANGED <<listVars, mutex, cnt_mutex, waiting, cnt, first, pushed,
                 buf, incoming, msg, old_msg, parsed>>

(* strcmp(msg, old_msg), a cell at a time.  The same text as last time is  *)
(* not handled again: back to the top of the loop.                         *)
Compare(r) ==
  /\ pc[r] = "compare"
  /\ \/ /\ buf[pos[r]] # old_msg[r][pos[r]]
        /\ pos' = [pos EXCEPT ![r] = 1]
        /\ Goto(r, "copy")
        /\ UNCHANGED cnt_mutex
     \/ /\ buf[pos[r]] = old_msg[r][pos[r]]
        /\ Advance(r, TextEnds(r), "lock_cnt")
        /\ cnt_mutex' = IF TextEnds(r) THEN NULL ELSE cnt_mutex
  /\ UNCHANGED <<listVars, mutex, waiting, cnt, first, pushed,
                 buf, incoming, msg, old_msg, parsed>>

(* strcpy(old_msg, msg), a cell at a time, then cnt++. *)
Copy(r) ==
  /\ pc[r] = "copy"
  /\ old_msg' = [old_msg EXCEPT ![r][pos[r]] = buf[pos[r]]]
  /\ Advance(r, TextEnds(r), "count")
  /\ cnt' = IF TextEnds(r) THEN cnt + 1 ELSE cnt
  /\ UNCHANGED <<listVars, mutex, cnt_mutex, waiting, first, pushed,
                 buf, incoming, msg, parsed>>

(* Mutant of Count: the first count removes the node. *)
Count_to_one(r) ==
  /\ pc[r] = "count"
  /\ cnt' = 0
  /\ Goto(r, "remove")
  /\ UNCHANGED <<listVars, mutex, cnt_mutex, waiting, first, pushed, memVars>>

(* if(cnt == 2) *)
Count(r) ==
  /\ pc[r] = "count"
  /\ \/ /\ cnt = 2
        /\ cnt' = 0
        /\ Goto(r, "remove")
     \/ /\ cnt # 2
        /\ Goto(r, "unlock_cnt")
        /\ UNCHANGED cnt
  /\ UNCHANGED <<listVars, mutex, cnt_mutex, waiting, first, pushed, memVars>>

LockRemove(r) == TakeMutex(r, "remove", "removing")

DoRemove(r) ==
  /\ pc[r] = "removing"
  /\ \E ret \in {LIST_SUCCESS, LIST_NODATA} : remove_first(ret)
  /\ mutex' = NULL
  /\ Goto(r, "unlock_cnt")
  /\ UNCHANGED <<cnt_mutex, waiting, cnt, first, pushed, memVars>>

UnlockCnt(r) ==
  /\ pc[r] = "unlock_cnt"
  /\ cnt_mutex' = NULL
  /\ Goto(r, "parse")
  /\ UNCHANGED <<listVars, mutex, waiting, cnt, first, pushed, memVars>>

-----------------------------------------------------------------------------
(* data_mgr and storage_mgr: parse and use *)

(* msg_parse(&parsed, msg, senIDs), a cell at a time, with no lock on buf.  *)
Parse(r) ==
  /\ pc[r] = "parse"
  /\ parsed' = [parsed EXCEPT ![r][pos[r]] = buf[pos[r]]]
  /\ Advance(r, TextEnds(r), "record")
  /\ UNCHANGED <<listVars, mutex, cnt_mutex, waiting, cnt, first, pushed,
                 buf, incoming, msg, old_msg>>

(* The record goes to the window and the pipe, or to the database. *)
Record(r) ==
  /\ pc[r] = "record"
  /\ parsed' = [parsed EXCEPT ![r] = Zeros]
  /\ Goto(r, "lock_cnt")
  /\ UNCHANGED <<listVars, mutex, cnt_mutex, waiting, cnt, first, pushed,
                 buf, incoming, pos, msg, old_msg>>

connection_mgr == RecvStart \/ RecvCell \/ LockPush \/ DoPush

(* What a manager does by itself; a spurious wake-up is not its doing. *)
manager(r) ==
  \/ LockCnt(r) \/ LockGet(r) \/ Look(r) \/ WakeUp(r) \/ Deref(r)
  \/ Compare(r) \/ Copy(r) \/ Count(r)
  \/ LockRemove(r) \/ DoRemove(r) \/ UnlockCnt(r)
  \/ Parse(r) \/ Record(r)

Next ==
  \/ connection_mgr
  \/ \E r \in Readers : manager(r) \/ SpuriousWakeUp(r)

(***************************************************************************)
(* Threads keep running, and a thread that finds a mutex free again and    *)
(* again takes it in the end: a thread is at one label at a time, so       *)
(* strong fairness of all its steps asks no more of its other steps than   *)
(* weak fairness would.  Were taking a mutex only weakly fair, the reader  *)
(* that has nothing new to read could spin on cnt_mutex and list->mutex    *)
(* and keep everyone else out.  Clients are under no obligation to send.   *)
(***************************************************************************)
Fairness ==
  /\ SF_vars(RecvCell \/ LockPush \/ DoPush)
  /\ \A r \in Readers : SF_vars(manager(r))

Spec == Init /\ [][Next]_vars
FairSpec == Spec /\ Fairness

-----------------------------------------------------------------------------
(* Properties *)

TypeOK ==
  /\ ListTypeOK
  /\ mutex \in Threads \cup {NULL}
  /\ cnt_mutex \in Readers \cup {NULL}
  /\ waiting \in SUBSET Readers
  /\ cnt \in 0..2
  /\ buf \in Memory
  /\ incoming \in Texts \cup {NoText}
  /\ pushed \in BOOLEAN
  /\ pc \in [Threads -> {"select", "recv", "push", "pushing",
                         "lock_cnt", "get", "look", "wait", "deref", "compare",
                         "copy", "count", "remove", "removing", "unlock_cnt",
                         "parse", "record"}]
  /\ pos \in [Threads -> Cell]
  /\ first \in [Readers -> Pointer]
  /\ msg \in [Readers -> Data \cup {NULL}]
  /\ old_msg \in [Readers -> Memory]
  /\ parsed \in [Readers -> Memory]

(***************************************************************************)
(* main-server.c's threads are users of the list that keep its protocol:   *)
(* what ListThreads says of any producers and readers holds of them.       *)
(***************************************************************************)
Stage ==
  [t \in Threads |->
     CASE pc[t] \in {"select", "recv", "lock_cnt", "parse", "record"} -> "idle"
       [] pc[t] \in {"compare", "copy", "count", "unlock_cnt"} -> "use"
       [] OTHER -> pc[t]]

List == INSTANCE ListThreads WITH
          Producers <- {"conn"}, pc <- Stage, got <- msg, destroyed <- FALSE

(* Every step of the three threads is one of the list protocol's steps, so *)
(* the shared list behaves as a bounded FIFO of addresses for them.        *)
FollowsProtocol == List!Spec

(* Every variable has its type.  list_remove_first_node is only called      *)
(* while the list has a node: its LIST_NODATA return, which                *)
(* main-server.c:243 and 334 ignore after cnt was reset, is not met.  And  *)
(* cnt, which is tested with cnt == 2 (main-server.c:240, 331), never      *)
(* steps over 2: whoever takes cnt_mutex finds 0 or 1.                     *)
RemoveFindsNode ==
  \A r \in Readers : pc[r] \in {"remove", "removing"} => ~list_empty
CountStaysLow == cnt_mutex = NULL => cnt \in {0, 1}
CountMatchesList == TypeOK /\ RemoveFindsNode /\ CountStaysLow

(* list_remove_first_node is called for two counts, whoever made them and  *)
(* whatever the text was when it was read, torn or not.  Still the list is *)
(* not empty before both managers have the text that was pushed last: no   *)
(* count of an older text uses up the node a manager is woken by           *)
(* (main-server.c:229-244, 320-335).                                       *)
NodeUntilBothHaveIt ==
  (pc["conn"] = "select" /\ pushed /\ list_empty) => \A r \in Readers : SameText(old_msg[r], buf)

(* connection_mgr is never locked out by readers that wait on the empty    *)
(* list or spin on the old text: every push it starts ends.                *)
PushReturns == (pc["conn"] = "push") ~> (pc["conn"] = "select")

(* Although nodes carry no text of their own, a node may be removed for    *)
(* counts that one reader made twice, and messages are overwritten, both   *)
(* managers come to hold the text in buf once its list_push has succeeded  *)
(* and no further message arrives: the newest reading is not lost.         *)
BothCatchUp ==
  (pc["conn"] = "select" /\ pushed)
    ~> (~(pc["conn"] = "select" /\ pushed) \/ \A r \in Readers : SameText(old_msg[r], buf))

(* What DESCRIPTION.md records as fixed ("Write wrong data to pipe if      *)
(* multi client send data to server."): what a manager takes from a        *)
(* message to the pipe or the database is one message a client sent.       *)
RecordsWhatWasSent ==
  \A r \in Readers : pc[r] = "record" =>
    \E t \in Texts, n \in Parts : parsed[r] = Message(t, n)
=============================================================================
