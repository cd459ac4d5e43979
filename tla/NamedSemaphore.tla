--------------------------- MODULE NamedSemaphore ---------------------------
(***************************************************************************)
(* 09-semaphore/POSIX-semaphore/named-semaphore: processes that create or  *)
(* open the semaphore /named_app, wait for it at most ten seconds, keep it *)
(* until a key is pressed and post it.  Nobody removes it (sem_unlink is   *)
(* given an address instead of the name), so that it outlives them all.    *)
(* A process may be killed anywhere, and its program started again.        *)
(***************************************************************************)
EXTENDS Integers

CONSTANTS
  Processes,
  MaxStarts   \* how often the program is started

VARIABLES
  sem,      \* the value of /named_app, or NoSem before it is made
  process,  \* where each process is
  starts,
  lost      \* a process was killed that had the semaphore

namedSemaphoreVars == <<sem, process, starts, lost>>

NoSem == -1

Init ==
  /\ sem = NoSem
  /\ process = [p \in Processes |-> "out"]
  /\ starts = 0
  /\ lost = FALSE

Holders == {p \in Processes : process[p] = "hold"}

Start(p) ==
  /\ process[p] = "out"
  /\ starts < MaxStarts
  /\ starts' = starts + 1
  /\ process' = [process EXCEPT ![p] = "create"]
  /\ UNCHANGED <<sem, lost>>

(* sem_open with O_CREAT and O_EXCL: the C library makes the semaphore with *)
(* its value in one step.                                                   *)
Create(p) ==
  /\ process[p] = "create"
  /\ \/ /\ sem = NoSem
        /\ sem' = 1
        /\ process' = [process EXCEPT ![p] = "wait"]
     \/ /\ sem # NoSem
        /\ process' = [process EXCEPT ![p] = "open"]
        /\ UNCHANGED sem
  /\ UNCHANGED <<starts, lost>>

(* Mutant of Open: the semaphore that is there is set to 1. *)
Open_sets(p) ==
  /\ process[p] = "open"
  /\ sem' = 1
  /\ process' = [process EXCEPT ![p] = "wait"]
  /\ UNCHANGED <<starts, lost>>

(* sem_open of the semaphore that is there *)
Open(p) ==
  /\ process[p] = "open"
  /\ process' = [process EXCEPT ![p] = "wait"]
  /\ UNCHANGED <<sem, starts, lost>>

(* sem_timedwait *)
Take(p) ==
  /\ process[p] = "wait"
  /\ sem > 0
  /\ sem' = sem - 1
  /\ process' = [process EXCEPT ![p] = "hold"]
  /\ UNCHANGED <<starts, lost>>

(* It fails only while it cannot take the semaphore; main returns -1. *)
TimeOut(p) ==
  /\ process[p] = "wait"
  /\ sem = 0
  /\ process' = [process EXCEPT ![p] = "out"]
  /\ UNCHANGED <<sem, starts, lost>>

(* A key is pressed. *)
Post(p) ==
  /\ process[p] = "hold"
  /\ sem' = sem + 1
  /\ process' = [process EXCEPT ![p] = "close"]
  /\ UNCHANGED <<starts, lost>>

Close(p) ==
  /\ process[p] = "close"
  /\ process' = [process EXCEPT ![p] = "out"]
  /\ UNCHANGED <<sem, starts, lost>>

Killed(p) ==
  /\ process[p] # "out"
  /\ lost' = (lost \/ process[p] = "hold")
  /\ process' = [process EXCEPT ![p] = "out"]
  /\ UNCHANGED <<sem, starts>>

Process(p) == Create(p) \/ Open(p) \/ Take(p) \/ TimeOut(p) \/ Post(p) \/ Close(p)

Next == \E p \in Processes : Start(p) \/ Process(p) \/ Killed(p)

Spec == Init /\ [][Next]_namedSemaphoreVars

-----------------------------------------------------------------------------
TypeOK ==
  /\ sem \in {NoSem, 0, 1}
  /\ process \in [Processes -> {"out", "create", "open", "wait", "hold", "close"}]
  /\ starts \in 0..MaxStarts
  /\ lost \in BOOLEAN

(* Between sem_timedwait and sem_post there is at most one process, over    *)
(* races to create the semaphore, time-outs and kills.                      *)
OneHolder == \A p, q \in Holders : p = q

=============================================================================
