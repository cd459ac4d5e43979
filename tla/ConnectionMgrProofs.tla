------------------------- MODULE ConnectionMgrProofs -------------------------
(***************************************************************************)
(* connection_mgr keeps its sockets in master and blocks nowhere but in    *)
(* select, for any number of descriptors, clients and bytes.               *)
(***************************************************************************)
EXTENDS ConnectionMgr, TLAPS, WellFoundedInduction

(* The kernel's choice of a new descriptor is defined whenever one is free. *)
LessThan == {p \in Nat \X Nat : p[1] < p[2]}

LEMMA LessThanWellFounded == IsWellFoundedOn(LessThan, Nat)
  <1>1. LessThan = OpToRel(<, Nat)
    BY Zenon DEF OpToRel, LessThan
  <1> QED BY <1>1, NatLessThanWellFounded, Zenon

LEMMA Least ==
  ASSUME NEW T \in SUBSET Nat, T # {}
  PROVE  \E x \in T : \A y \in T : x =< y
  <1>1. PICK x \in T : \A y \in T : ~(<<y, x>> \in LessThan)
    BY LessThanWellFounded, WFMin
  <1>2. ASSUME NEW y \in T PROVE x =< y
    <2>1. x \in Nat /\ y \in Nat
      OBVIOUS
    <2>2. ~(y < x)
      BY <1>1, <2>1 DEF LessThan
    <2> QED BY <2>1, <2>2
  <1> QED BY <1>2

LEMMA LowestIsFree ==
  ASSUME Used # Fds, Used \subseteq Fds
  PROVE  Lowest \in Fds /\ Lowest \notin Used
  <1> DEFINE T == Fds \ Used
  <1>1. T \in SUBSET Nat
    BY ConnectionMgrAssumption DEF Fds, ConnectionMgrAssumption
  <1>2. T # {}
    BY Zenon
  <1>3. \E x \in T : \A y \in T : x =< y
    <2> HIDE DEF T
    <2> QED BY <1>1, <1>2, Least
  <1>4. Lowest \in T
    BY <1>3 DEF Lowest, Min
  <1> QED BY <1>4

(* The invariant: the thread's sockets and the others' files are disjoint,  *)
(* master is the former, and what the scan has not come to yet is readable. *)
Ready == pc = "scan" => \A f \in read_fds : f >= i => f \in master /\ Readable(f)

Phase ==
  /\ pc = "bind" => listener = NoFd
  /\ pc \in {"select", "scan"} => listener # NoFd
  /\ listener = NoFd => clients = {} /\ master = {}

IInv ==
  /\ TypeOK
  /\ MasterIsMine
  /\ Phase
  /\ listener \notin clients
  /\ Ready

LEMMA InitHolds == Init => IInv
  BY ConnectionMgrAssumption
     DEF ConnectionMgrAssumption, Init, IInv, TypeOK, MasterIsMine, Phase, Ready, Fds, NoFd

LEMMA UsedAreDescriptors == TypeOK => Used \subseteq Fds
  BY DEF TypeOK, Used

LEMMA BindHolds == IInv /\ Bind => IInv'
  <1> SUFFICES ASSUME IInv, Bind PROVE IInv'
    OBVIOUS
  <1> USE ConnectionMgrAssumption DEF ConnectionMgrAssumption
  <1>1. CASE Used # Fds /\ listener' = Lowest /\ pc' = "select"
    <2>1. Lowest \in Fds /\ Lowest \notin Used
      BY <1>1, UsedAreDescriptors, LowestIsFree DEF IInv
    <2>2. master' = {Lowest} /\ fd_max' = Lowest /\ clients' = {} /\ others' = others
      BY <1>1 DEF Bind, IInv, Phase
    <2>3. Lowest \notin others
      BY <2>1, Zenon DEF Used
    <2>4. Lowest \in Int /\ Lowest # NoFd
      BY <2>1 DEF Fds, NoFd
    <2>5. TypeOK'
      BY <1>1, <2>1, <2>2 DEF Bind, peerVars, IInv, TypeOK
    <2>6. MasterIsMine'
      BY <1>1, <2>2, <2>3, <2>4 DEF MasterIsMine
    <2> QED
      BY <1>1, <2>2, <2>4, <2>5, <2>6 DEF IInv, Phase, Ready
  <1>2. CASE pc' = "exit" /\ UNCHANGED <<listener, master, fd_max>>
    BY <1>2 DEF IInv, Bind, peerVars, TypeOK, MasterIsMine, Phase, Ready
  <1> QED BY <1>1, <1>2 DEF Bind

LEMMA SelectHolds == IInv /\ Select => IInv'
  <1> SUFFICES ASSUME IInv, Select PROVE IInv'
    OBVIOUS
  <1>1. TypeOK'
    <2>1. read_fds' \subseteq master /\ i' = 0 /\ pc' = "scan"
      BY DEF Select
    <2>2. i' \in 0..(MaxFd + 1)
      BY <2>1, ConnectionMgrAssumption DEF ConnectionMgrAssumption
    <2> QED BY <2>1, <2>2 DEF Select, peerVars, IInv, TypeOK
  <1>2. Ready'
    BY DEF Select, peerVars, Ready, Readable
  <1> QED BY <1>1, <1>2 DEF Select, peerVars, IInv, MasterIsMine, Phase

LEMMA FailsHolds == IInv /\ SelectFails => IInv'
  BY DEF SelectFails, peerVars, IInv, TypeOK, MasterIsMine, Phase, Ready

LEMMA ScanEndsHolds == IInv /\ ScanEnds => IInv'
  BY DEF ScanEnds, peerVars, IInv, TypeOK, MasterIsMine, Phase, Ready

(* What the scan has still to come to keeps its place in master and stays  *)
(* readable, whatever the branch for number i does.                        *)
LEMMA ScanHolds == IInv /\ Scan => IInv'
  <1> SUFFICES ASSUME IInv, Scan PROVE IInv'
    OBVIOUS
  <1> USE ConnectionMgrAssumption DEF ConnectionMgrAssumption
  <1>1. /\ pc = "scan" /\ i \in Fds /\ i' = i + 1 /\ i' \in 0..(MaxFd + 1)
        /\ pc' = pc /\ listener' = listener /\ read_fds' = read_fds /\ others' = others
    BY DEF Scan, IInv, TypeOK, Fds
  <1>2. /\ listener \in Fds /\ listener # NoFd /\ listener \notin clients
        /\ master = clients \cup {listener} /\ master \cap others = {}
        /\ \A f \in master : f <= fd_max
    BY <1>1 DEF IInv, Phase, MasterIsMine, TypeOK
  <1>3. \A f \in read_fds : f \in Fds /\ (f >= i => f \in master /\ Readable(f))
    BY <1>1 DEF IInv, Ready, TypeOK
  <1>4. \A f \in read_fds : f >= i' => f >= i /\ f # i
    BY <1>1, <1>3 DEF Fds
  <1>5. CASE i \notin read_fds /\ UNCHANGED <<clients, master, fd_max, peerVars>>
    <2>1. TypeOK'
      BY <1>1, <1>5 DEF peerVars, IInv, TypeOK
    <2>2. Ready'
      BY <1>1, <1>3, <1>4, <1>5 DEF peerVars, Ready, Readable
    <2> QED BY <1>1, <1>2, <1>5, <2>1, <2>2 DEF IInv, MasterIsMine, Phase
  <1>6. CASE i \in read_fds /\ i = listener /\ AcceptClient
    <2>1. Lowest \in Fds /\ Lowest \notin Used
      BY <1>6, UsedAreDescriptors, LowestIsFree DEF IInv, AcceptClient
    <2>2. Lowest \notin clients /\ Lowest \notin others /\ Lowest # listener
      BY <1>2, <2>1, Zenon DEF Used
    <2>3. backlog > 0
      BY <1>1, <1>2, <1>3, <1>6 DEF Readable, Fds
    <2>4. /\ clients' = clients \cup {Lowest} /\ master' = master \cup {Lowest}
          /\ fd_max' = (IF Lowest > fd_max THEN Lowest ELSE fd_max)
          /\ unread' = [unread EXCEPT ![Lowest] = 0]
          /\ closed' = closed /\ reset' = reset /\ backlog' = backlog - 1
      BY <1>6 DEF AcceptClient
    <2>5. TypeOK'
      BY <1>1, <2>1, <2>3, <2>4 DEF IInv, TypeOK, Fds
    <2>6. \A f \in master' : f <= fd_max'
      BY <1>2, <2>1, <2>4 DEF IInv, TypeOK, Fds
    <2>7. Ready'
      <3> SUFFICES ASSUME NEW f \in read_fds, f >= i'
                   PROVE  f \in master' /\ Readable(f)'
        BY <1>1 DEF Ready
      <3>1. f \in master /\ Readable(f) /\ f # listener /\ f \in Fds
        BY <1>3, <1>4, <1>6
      <3>2. f \in clients /\ f # Lowest
        BY <1>2, <2>2, <3>1
      <3>3. unread'[f] = unread[f]
        BY <2>4, <3>1, <3>2 DEF IInv, TypeOK
      <3> QED BY <1>1, <2>4, <3>1, <3>2, <3>3 DEF Readable
    <2> QED
      BY <1>1, <1>2, <2>2, <2>4, <2>5, <2>6, <2>7 DEF IInv, MasterIsMine, Phase
  <1>7. CASE i \in read_fds /\ i = listener /\ AcceptFails
    <2>1. UNCHANGED <<clients, master, fd_max, unread, closed, reset, backlog>>
      BY <1>7 DEF AcceptFails, peerVars
    <2>2. TypeOK'
      BY <1>1, <2>1 DEF IInv, TypeOK
    <2>3. Ready'
      BY <1>1, <1>3, <1>4, <2>1 DEF Ready, Readable
    <2> QED BY <1>1, <1>2, <2>1, <2>2, <2>3 DEF IInv, MasterIsMine, Phase
  <1>8. CASE i \in read_fds /\ i # listener /\ Receive
    <2>1. UNCHANGED <<clients, master, fd_max, closed, reset, backlog>>
      BY <1>8 DEF Receive
    <2>2. PICK n \in 1..unread[i] : unread' = [unread EXCEPT ![i] = @ - n]
      BY <1>8 DEF Receive
    <2>3. unread[i] \in 0..MaxUnread
      BY <1>1 DEF IInv, TypeOK
    <2>4. unread' \in [Fds -> 0..MaxUnread]
      <3>1. unread[i] - n \in 0..MaxUnread
        BY <2>2, <2>3
      <3> QED BY <1>1, <2>2, <3>1 DEF IInv, TypeOK
    <2>5. TypeOK'
      BY <1>1, <2>1, <2>4 DEF IInv, TypeOK
    <2>6. Ready'
      <3> SUFFICES ASSUME NEW f \in read_fds, f >= i'
                   PROVE  f \in master' /\ Readable(f)'
        BY <1>1 DEF Ready
      <3>1. f \in master /\ Readable(f) /\ f # i /\ f \in Fds
        BY <1>3, <1>4
      <3>2. unread'[f] = unread[f]
        BY <2>2, <3>1 DEF IInv, TypeOK
      <3> QED BY <1>1, <2>1, <3>1, <3>2 DEF Readable
    <2> QED BY <1>1, <1>2, <2>1, <2>5, <2>6 DEF IInv, MasterIsMine, Phase
  <1>9. CASE i \in read_fds /\ i # listener /\ HangUp
    <2>1. /\ clients' = clients \ {i} /\ master' = master \ {i} /\ fd_max' = fd_max
          /\ unread' = [unread EXCEPT ![i] = 0]
          /\ closed' = closed \ {i} /\ reset' = reset \ {i} /\ backlog' = backlog
      BY <1>9 DEF HangUp
    <2>2. TypeOK'
      BY <1>1, <2>1 DEF IInv, TypeOK
    <2>3. Ready'
      <3> SUFFICES ASSUME NEW f \in read_fds, f >= i'
                   PROVE  f \in master' /\ Readable(f)'
        BY <1>1 DEF Ready
      <3>1. f \in master /\ Readable(f) /\ f # i /\ f \in Fds
        BY <1>3, <1>4
      <3>2. unread'[f] = unread[f]
        BY <2>1, <3>1 DEF IInv, TypeOK
      <3> QED BY <1>1, <2>1, <3>1, <3>2 DEF Readable
    <2> QED BY <1>1, <1>2, <1>9, <2>1, <2>2, <2>3 DEF IInv, MasterIsMine, Phase
  <1> QED BY <1>5, <1>6, <1>7, <1>8, <1>9 DEF Scan

LEMMA ClientHolds == IInv /\ Client => IInv'
  <1> SUFFICES ASSUME IInv, Client PROVE IInv'
    OBVIOUS
  <1> USE ConnectionMgrAssumption DEF ConnectionMgrAssumption
  <1>1. UNCHANGED <<pc, i, listener, master, read_fds, fd_max, clients, others>>
    BY DEF Client
  <1>2. TypeOK'
    BY <1>1 DEF Client, IInv, TypeOK
  <1>3. \A f \in Fds : Readable(f) => Readable(f)'
    BY <1>1 DEF Client, IInv, TypeOK, Readable
  <1>4. Ready'
    BY <1>1, <1>3 DEF Ready, IInv, TypeOK
  <1> QED BY <1>1, <1>2, <1>4 DEF IInv, MasterIsMine, Phase

LEMMA OthersHold == IInv /\ OtherThreads => IInv'
  <1> SUFFICES ASSUME IInv, OtherThreads PROVE IInv'
    OBVIOUS
  <1>1. UNCHANGED <<pc, i, listener, master, read_fds, fd_max, clients,
                    unread, closed, reset, backlog>>
    BY DEF OtherThreads, peerVars
  <1>2. /\ others' \subseteq Fds
        /\ listener # NoFd => master \cap others' = {}
    <2>1. CASE Used # Fds /\ others' = others \cup {Lowest}
      <3>1. Lowest \in Fds /\ Lowest \notin Used
        BY <2>1, UsedAreDescriptors, LowestIsFree DEF IInv
      <3>2. listener # NoFd => Lowest \notin master
        BY <3>1 DEF Used, IInv, MasterIsMine
      <3> QED BY <2>1, <3>1, <3>2 DEF IInv, TypeOK, MasterIsMine
    <2>2. CASE \E f \in others : others' = others \ {f}
      BY <2>2 DEF IInv, TypeOK, MasterIsMine
    <2> QED BY <2>1, <2>2 DEF OtherThreads
  <1>3. TypeOK'
    BY <1>1, <1>2 DEF IInv, TypeOK
  <1>4. Ready'
    BY <1>1 DEF IInv, Ready, Readable
  <1> QED BY <1>1, <1>2, <1>3, <1>4 DEF IInv, MasterIsMine, Phase

LEMMA StepHolds == IInv /\ [Next]_vars => IInv'
  <1>1. IInv /\ UNCHANGED vars => IInv'
    BY DEF vars, peerVars, IInv, TypeOK, MasterIsMine, Phase, Ready, Readable
  <1> QED
    BY <1>1, BindHolds, SelectHolds, FailsHolds, ScanEndsHolds, ScanHolds, ClientHolds,
       OthersHold
       DEF Next, connection_mgr

LEMMA IInvHolds == Spec => []IInv
  BY InitHolds, StepHolds, PTL DEF Spec

(* Every variable keeps its type; in particular the scan stays below the    *)
(* numbers that exist and no more is received than was sent.                *)
THEOREM ConnectionMgrTypes == Spec => []TypeOK
  <1>1. IInv => TypeOK
    BY DEF IInv
  <1> QED BY <1>1, IInvHolds, PTL

(* master is always exactly the sockets of the thread, all within fd_max.   *)
THEOREM MasterStaysMine == Spec => []MasterIsMine
  <1>1. IInv => MasterIsMine
    BY DEF IInv
  <1> QED BY <1>1, IInvHolds, PTL

(* accept and recv are called only where they return at once.               *)
THEOREM BlocksOnlyInSelect == Spec => []NeverBlocks
  <1>1. IInv => NeverBlocks
    BY ConnectionMgrAssumption
       DEF ConnectionMgrAssumption, IInv, Ready, NeverBlocks, ScansReady, TypeOK, Fds
  <1> QED BY <1>1, IInvHolds, PTL
=============================================================================
