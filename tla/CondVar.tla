------------------------------ MODULE CondVar ------------------------------
(***************************************************************************)
(* The three programs in which main waits for a thread to count:           *)
(*   busy     04-thread/conditional-var/main.c reads counter in a loop     *)
(*   signal   04-thread/conditional-var/con_var.c waits for a signal, and  *)
(*            then compares counter                                        *)
(*   test     BTVN/04-thread/conditional-variables/main.c tests counter,   *)
(*            and waits while it is too low                                *)
(* pthread_cond_wait gives up the mutex, sleeps, may wake up by itself,    *)
(* and takes the mutex again.                                              *)
(***************************************************************************)
EXTENDS Integers

CONSTANTS THRESHOLD, Variants

VARIABLES
  variant,   \* the program that runs
  counter,
  owner,     \* of the mutex: "nobody", "main" or "thread"
  waiting,   \* main sleeps on the condition
  main, thread

condVarVars == <<variant, counter, owner, waiting, main, thread>>

(* The thread counts while counter <= THRESHOLD in con_var.c, and while it *)
(* is < THRESHOLD in the others.                                           *)
Last == IF variant = "signal" THEN THRESHOLD + 1 ELSE THRESHOLD

Init ==
  /\ variant \in Variants
  /\ counter = 0
  /\ owner = "nobody"
  /\ waiting = FALSE
  /\ main = IF variant = "busy" THEN "spin" ELSE "lock"
  /\ thread = "lock"

-----------------------------------------------------------------------------
(* The thread *)

ThreadLock ==
  /\ thread = "lock"
  /\ owner = "nobody"
  /\ owner' = "thread"
  /\ thread' = "count"
  /\ UNCHANGED <<variant, counter, waiting, main>>

Count ==
  /\ thread = "count"
  /\ IF counter < Last THEN counter' = counter + 1 /\ UNCHANGED thread
     ELSE thread' = "signal" /\ UNCHANGED counter
  /\ UNCHANGED <<variant, owner, waiting, main>>

(* pthread_cond_signal, which main.c does not call *)
Signal ==
  /\ thread = "signal"
  /\ waiting' = FALSE
  /\ thread' = "unlock"
  /\ UNCHANGED <<variant, counter, owner, main>>

ThreadUnlock ==
  /\ thread = "unlock"
  /\ owner' = "nobody"
  /\ thread' = "end"
  /\ UNCHANGED <<variant, counter, waiting, main>>

-----------------------------------------------------------------------------
(* main *)

Spin ==
  /\ main = "spin"
  /\ counter = THRESHOLD
  /\ main' = "join"
  /\ UNCHANGED <<variant, counter, owner, waiting, thread>>

(* Mutant of MainLock: the program that tests waits first, too. *)
MainLock_waits ==
  /\ main = "lock"
  /\ owner = "nobody"
  /\ owner' = "main"
  /\ main' = "wait"
  /\ UNCHANGED <<variant, counter, waiting, thread>>

MainLock ==
  /\ main = "lock"
  /\ owner = "nobody"
  /\ owner' = "main"
  /\ main' = IF variant = "test" THEN "test" ELSE "wait"
  /\ UNCHANGED <<variant, counter, waiting, thread>>

Test ==
  /\ main = "test"
  /\ LET enough == IF variant = "test" THEN counter >= THRESHOLD
                   ELSE counter = THRESHOLD
     IN  main' = IF enough THEN "unlock" ELSE "wait"
  /\ UNCHANGED <<variant, counter, owner, waiting, thread>>

Wait ==
  /\ main = "wait"
  /\ owner' = "nobody"
  /\ waiting' = TRUE
  /\ main' = "asleep"
  /\ UNCHANGED <<variant, counter, thread>>

WakeByItself ==
  /\ waiting
  /\ waiting' = FALSE
  /\ UNCHANGED <<variant, counter, owner, main, thread>>

Wake ==
  /\ main = "asleep"
  /\ ~waiting
  /\ owner = "nobody"
  /\ owner' = "main"
  /\ main' = "test"
  /\ UNCHANGED <<variant, counter, waiting, thread>>

MainUnlock ==
  /\ main = "unlock"
  /\ owner' = "nobody"
  /\ main' = "join"
  /\ UNCHANGED <<variant, counter, waiting, thread>>

Join ==
  /\ main = "join"
  /\ thread = "end"
  /\ main' = "end"
  /\ UNCHANGED <<variant, counter, owner, waiting, thread>>

Thread == ThreadLock \/ Count \/ Signal \/ ThreadUnlock
Main   == Spin \/ MainLock \/ Test \/ Wait \/ Wake \/ MainUnlock \/ Join
Next   == Thread \/ Main \/ WakeByItself

-----------------------------------------------------------------------------
(* The programs that test the counter come to their end, whether main or   *)
(* the thread takes the mutex first: no wake-up is lost.  con_var.c does   *)
(* not: it may wait after the signal, and signals with counter at 6.       *)
MainEnds == (variant # "signal" /\ main \in {"lock", "spin"}) ~> main = "end"

=============================================================================
