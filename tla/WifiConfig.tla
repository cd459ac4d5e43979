----------------------------- MODULE WifiConfig -----------------------------
(***************************************************************************)
(* The wpa_ctrl program (01-general-knowledge/wpa_ctrl): main.cpp takes    *)
(* options, wpa.cpp turns each into requests, and wpa_ctrl.c sends them    *)
(* over a Unix datagram socket and waits for the reply, at most 10 seconds.*)
(* The program is started again and again; wpa_supplicant keeps running.   *)
(*                                                                         *)
(* wpa_supplicant is taken as the program uses it: it works off one        *)
(* request after the other and answers each, ADD_NETWORK makes a network   *)
(* with the next number, RECONFIGURE reads the file that SAVE_CONFIG wrote *)
(* and numbers its networks from 0.  A network is the run that added it    *)
(* and the runs that last set its ssid and psk, 0 for one configured       *)
(* before; the texts themselves are left out.  At first it has any         *)
(* networks with numbers up to MaxNumber, and any number of them in its    *)
(* file; nobody else configures it while the runs are made.                *)
(***************************************************************************)
EXTENDS Integers, SequencesExt

CONSTANTS
  NETWORK_ID_MAX,  \* 8 in the code
  MaxNumber,       \* the highest number a network may have at first
  MaxRuns,         \* how often the program is started
  CommandLines,    \* the options the program may be started with
  QueueLen         \* requests that wpa_supplicant's socket holds

VARIABLES
  \* wpa_supplicant
  nets,      \* its networks, by number
  file,      \* the networks in its configuration file, in order
  writable,  \* it may write that file (update_config=1)
  listening, \* it runs, with a socket at CTRL_IFACE
  current,   \* the network it was told to select, NoId for none
  requests,  \* the requests in its socket
  \* the program
  run,       \* the number of this run
  running,   \* the program runs
  script,    \* what it still does
  asked,     \* it has sent the first step of script and waits in select
  netid,     \* config_wifi's netid
  opened,    \* wpa_ctrl_open calls of this process (its static counter)
  conn,      \* ctrl_conn is not NULL
  replies,   \* the replies in its newest socket
  timely,    \* no request of any run has timed out or found the queue full
  roomy      \* at first the networks had the numbers 0, 1, ..., none beyond NETWORK_ID_MAX

supplicant == <<nets, file, writable, listening, current>>
vars == <<supplicant, requests, run, running, script, asked, netid, opened, conn, replies,
          timely, roomy>>

NoId == -1
Runs == 0..MaxRuns

Network == [owner : Runs, ssid : Runs, psk : Runs]

(* What the options of main do, as the requests they send.  scan_results     *)
(* opens a connection of its own; what config_wifi sends after ADD_NETWORK   *)
(* depends on the reply.                                                     *)
config_wifi  == <<"ADD_NETWORK", "ssid", "psk", "SELECT_NETWORK", "STATUS">>
scan_results == <<"open", "SCAN", "SCAN_RESULTS">>
disconnect   == <<"DISCONNECT">>

Steps(option) ==
  CASE option = "c" -> config_wifi
    [] option = "d" -> disconnect
    [] option = "s" -> scan_results

NotOurs == [owner |-> 0, ssid |-> 0, psk |-> 0]

Init ==
  /\ \E numbers \in SUBSET (0..MaxNumber) :
       /\ nets = [id \in numbers |-> NotOurs]
       /\ roomy = (\E n \in 0..(NETWORK_ID_MAX + 1) : numbers = 0..(n - 1))
  /\ \E n \in 0..(MaxNumber + 1) : file = [i \in 1..n |-> NotOurs]
  /\ writable \in BOOLEAN
  /\ listening \in BOOLEAN
  /\ current = NoId
  /\ requests = <<>>
  /\ run = 0
  /\ running = FALSE
  /\ script = <<>>
  /\ asked = FALSE
  /\ netid = NoId
  /\ opened = 0
  /\ conn = FALSE
  /\ replies = <<>>
  /\ timely = TRUE

-----------------------------------------------------------------------------
(* main; the constructor of WpaController opens the connection. *)
Start ==
  /\ ~running
  /\ run < MaxRuns
  /\ run' = run + 1
  /\ running' = TRUE
  /\ opened' = 0
  /\ conn' = FALSE
  /\ \E options \in CommandLines :
       script' = <<"open">> \o FlattenSeq([i \in DOMAIN options |-> Steps(options[i])])
  /\ UNCHANGED <<supplicant, requests, asked, netid, replies, timely, roomy>>

Opening == running /\ script # <<>> /\ Head(script) = "open"

(* scan_results opens a connection before SCAN, and returns without one. *)
AfterOpen(ok) ==
  IF ~ok /\ Len(script) > 1 /\ script[2] = "SCAN" THEN SubSeq(script, 4, Len(script))
  ELSE Tail(script)

(***************************************************************************)
(* wpa_ctrl_open2: bind a name made of the process number and the counter, *)
(* which succeeds also where an earlier process left a file of that name,  *)
(* as that is removed first.  connect fails when wpa_supplicant is not     *)
(* there.  Nothing ever calls wpa_ctrl_close.                              *)
(***************************************************************************)
wpa_ctrl_open ==
  /\ Opening
  /\ opened' = opened + 1
  /\ conn' = listening
  /\ replies' = <<>>
  /\ script' = AfterOpen(listening)
  /\ UNCHANGED <<supplicant, requests, run, running, asked, netid, timely, roomy>>

CanSend ==
  running /\ script # <<>> /\ Head(script) # "open" /\ ~asked /\ conn

(* A request without a connection: ctrl->s is read through a null pointer. *)
Crash ==
  /\ running /\ script # <<>> /\ Head(script) # "open" /\ ~conn
  /\ running' = FALSE
  /\ script' = <<>>
  /\ UNCHANGED <<supplicant, requests, run, asked, netid, opened, conn, replies, timely, roomy>>

(* What a failed request means to its caller: scan_results gives up,       *)
(* add_network returns -1, and the others go on as if nothing had happened.*)
Failed ==
  /\ script' = IF Head(script) = "SCAN" THEN SubSeq(script, 3, Len(script)) ELSE Tail(script)
  /\ netid' = IF Head(script) = "ADD_NETWORK" THEN NoId ELSE netid

(* wpa_ctrl_request: send. *)
Send ==
  /\ CanSend
  /\ Len(requests) < QueueLen
  /\ requests' = Append(requests, [op |-> Head(script), id |-> netid, run |-> run,
                                   from |-> opened])
  /\ asked' = TRUE
  /\ UNCHANGED <<supplicant, run, running, script, netid, opened, conn, replies, timely, roomy>>

(* The socket of wpa_supplicant stays full for five seconds. *)
SendFails ==
  /\ CanSend
  /\ Len(requests) = QueueLen
  /\ Failed
  /\ timely' = FALSE
  /\ UNCHANGED <<supplicant, requests, run, running, asked, opened, conn, replies, roomy>>

(* Mutant of Receive: config_wifi keeps the number ADD_NETWORK gave. *)
Receive_keeps_netid ==
  /\ asked /\ replies # <<>>
  /\ asked' = FALSE
  /\ replies' = Tail(replies)
  /\ netid' = IF Head(script) = "ADD_NETWORK" THEN Head(replies).id ELSE netid
  /\ script' = IF Head(script) = "ADD_NETWORK" /\ netid' > NETWORK_ID_MAX
                 THEN <<"REMOVE_NETWORK", "SAVE_CONFIG", "RECONFIGURE">> \o Tail(script)
                 ELSE Tail(script)
  /\ UNCHANGED <<supplicant, requests, run, running, opened, conn, timely, roomy>>

(* add_network reads a number from the reply; where there is none, netid is  *)
(* what was on the stack.                                                    *)
numbers_in(reply) ==
  IF reply.op = "ADD_NETWORK" THEN {reply.id} ELSE {NoId} \cup DOMAIN nets

(* A number beyond NETWORK_ID_MAX makes config_wifi remove network 0 and    *)
(* count on being number NETWORK_ID_MAX afterwards.                         *)
Added(n) ==
  IF n > NETWORK_ID_MAX
    THEN /\ netid' = NETWORK_ID_MAX
         /\ script' = <<"REMOVE_NETWORK", "SAVE_CONFIG", "RECONFIGURE">> \o Tail(script)
    ELSE /\ netid' = n
         /\ script' = Tail(script)

(* A reply arrives, whichever request it answers, and counts as success. *)
Receive ==
  /\ asked /\ replies # <<>>
  /\ asked' = FALSE
  /\ replies' = Tail(replies)
  /\ \/ /\ Head(script) # "ADD_NETWORK"
        /\ script' = Tail(script)
        /\ UNCHANGED netid
     \/ /\ Head(script) = "ADD_NETWORK"
        /\ \E n \in numbers_in(Head(replies)) : Added(n)
  /\ UNCHANGED <<supplicant, requests, run, running, opened, conn, timely, roomy>>

(* Ten seconds without a reply. *)
TimeOut ==
  /\ asked /\ replies = <<>>
  /\ asked' = FALSE
  /\ Failed
  /\ timely' = FALSE
  /\ UNCHANGED <<supplicant, requests, run, running, opened, conn, replies, roomy>>

Exit ==
  /\ running
  /\ script = <<>>
  /\ running' = FALSE
  /\ replies' = <<>>
  /\ UNCHANGED <<supplicant, requests, run, script, asked, netid, opened, conn, timely, roomy>>

-----------------------------------------------------------------------------
(* wpa_supplicant *)

NextId == IF DOMAIN nets = {} THEN 0 ELSE Max(DOMAIN nets) + 1

Without(id) == [n \in DOMAIN nets \ {id} |-> nets[n]]

(* The networks in the order of their numbers *)
Nth(n) ==
  CHOOSE id \in DOMAIN nets : Cardinality({lower \in DOMAIN nets : lower <= id}) = n

InOrder == [n \in 1..Cardinality(DOMAIN nets) |-> nets[Nth(n)]]

Execute(m) ==
  CASE m.op = "ADD_NETWORK" ->
         /\ nets' = [n \in DOMAIN nets \cup {NextId} |->
                       IF n = NextId THEN [owner |-> m.run, ssid |-> 0, psk |-> 0]
                       ELSE nets[n]]
         /\ UNCHANGED <<file, current>>
    [] m.op \in {"ssid", "psk"} ->
         /\ nets' = IF m.id \in DOMAIN nets
                      THEN [nets EXCEPT ![m.id] = [@ EXCEPT ![m.op] = m.run]] ELSE nets
         /\ UNCHANGED <<file, current>>
    [] m.op = "SELECT_NETWORK" ->
         /\ current' = IF m.id \in DOMAIN nets THEN m.id ELSE current
         /\ UNCHANGED <<nets, file>>
    [] m.op = "REMOVE_NETWORK" ->
         /\ nets' = Without(0)
         /\ current' = IF current = 0 THEN NoId ELSE current
         /\ UNCHANGED file
    [] m.op = "SAVE_CONFIG" ->
         /\ file' = IF writable THEN InOrder ELSE file
         /\ UNCHANGED <<nets, current>>
    [] m.op = "RECONFIGURE" ->
         /\ nets' = [n \in 0..(Len(file) - 1) |-> file[n + 1]]
         /\ current' = NoId
         /\ UNCHANGED file
    [] OTHER -> UNCHANGED <<nets, file, current>>

(* It answers to the socket the request came from, if that is still open. *)
Answer ==
  /\ requests # <<>>
  /\ LET m == Head(requests) IN
     /\ Execute(m)
     /\ replies' = IF m.run = run /\ running /\ m.from = opened
                     THEN Append(replies, [op |-> m.op,
                                           id |-> IF m.op = "ADD_NETWORK" THEN NextId ELSE NoId])
                     ELSE replies
  /\ requests' = Tail(requests)
  /\ UNCHANGED <<writable, listening, run, running, script, asked, netid, opened, conn, timely, roomy>>

-----------------------------------------------------------------------------
program == wpa_ctrl_open \/ Crash \/ Send \/ SendFails \/ Receive \/ TimeOut \/ Exit

Next == Start \/ program \/ Answer

Spec == Init /\ [][Next]_vars

-----------------------------------------------------------------------------
(* Every variable has its type; a request is waited for only while there is *)
(* a step that sent it, and replies only wait for a living process.          *)
TypeOK ==
  /\ DOMAIN nets \subseteq Nat
  /\ \A n \in DOMAIN nets : nets[n] \in Network
  /\ file \in Seq(Network)
  /\ current \in DOMAIN nets \cup {NoId}
  /\ Len(requests) <= QueueLen
  /\ run \in Runs
  /\ running \in BOOLEAN
  /\ asked => running /\ script # <<>>
  /\ netid \in Int
  /\ replies # <<>> => running
  /\ {timely, roomy} \subseteq BOOLEAN

(* config_wifi sets and selects the network it has added (wpa.cpp:258-267): *)
(* numbers are given anew when the networks are saved and read again, and    *)
(* other runs came before, yet no network is ever set by a run that did not  *)
(* add it, and the one selected at the end has this run's ssid and psk.      *)
(* Three things are needed that the program does not see to: replies come in *)
(* time, as a late one is taken for the next request's; the configuration    *)
(* can be saved; and at first the networks were numbered without a gap, at   *)
(* most up to NETWORK_ID_MAX.  With a gap, or with a number beyond it,       *)
(* removing network 0 does not make the new one number NETWORK_ID_MAX, and   *)
(* config_wifi sets a network that is another's, or is not there.            *)
SetsItsOwnNetwork ==
  timely /\ writable /\ roomy =>
    /\ \A n \in DOMAIN nets :
         nets[n].ssid \in {0, nets[n].owner} /\ nets[n].psk \in {0, nets[n].owner}
    /\ running /\ script # <<>> /\ Head(script) = "STATUS" =>
         /\ current # NoId
         /\ nets[current] = [owner |-> run, ssid |-> run, psk |-> run]

=============================================================================
