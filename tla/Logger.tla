------------------------------- MODULE Logger -------------------------------
(***************************************************************************)
(* minfo, mdebug, merror (shared/os_debug.c): every call opens the log     *)
(* file, writes one line under logging_mutex and closes it.  The threads   *)
(* of the gateway log, and prevent_zombie, the handler of SIGCHLD, logs on *)
(* top of whichever thread the signal interrupted.                         *)
(*                                                                         *)
(* flags.initialized is never set, so that every call initialises          *)
(* logging_mutex anew, held or not.  The mutex is therefore its lock word  *)
(* as the C library has it: 0 free, 1 taken, 2 taken and perhaps waited    *)
(* for; who waits sleeps until an unlock finds 2.  A line reaches the file *)
(* in one write, when fflush empties the stream's buffer.                  *)
(*                                                                         *)
(* fopen may fail (no descriptor is free): _log drops the line and says    *)
(* nothing.  So does it with a write that fails, whose result nobody asks  *)
(* for.  stat of a log file that is there succeeds.                        *)
(***************************************************************************)
EXTENDS Integers, Sequences, FiniteSets

CONSTANTS
  Threads,
  MaxLines,  \* lines that each thread logs
  MaxFailed, \* lines whose fopen or write fails
  NoLog      \* no log file

VARIABLES
  log,        \* the lines of the log file, or NoLog
  shipped,    \* the log file was there at the start
  word,       \* the lock word of logging_mutex
  sleeping,   \* who sleeps in pthread_mutex_lock
  at,         \* where each thread and the handler is in _log
  mode,       \* how it opened the log file
  logged,     \* the lines it has logged, those of `failed` included
  failed,     \* the lines whose own fopen or write failed
  under,      \* the thread that the handler interrupted, Nobody before
  inMalloc    \* it interrupted it inside the allocator

loggerVars == <<log, shipped, word, sleeping, at, mode, logged, failed,
                under, inMalloc>>

Nobody  == "nobody"
Handler == "handler"
Loggers == Threads \cup {Handler}

Holding == {"write", "unlock"}

Init ==
  /\ shipped \in BOOLEAN
  /\ log = IF shipped THEN <<>> ELSE NoLog
  /\ word = 0
  /\ sleeping = {}
  /\ at = [a \in Loggers |-> "out"]
  /\ mode = [a \in Loggers |-> "none"]
  /\ logged = [a \in Loggers |-> 0]
  /\ failed = {}
  /\ under = Nobody
  /\ inMalloc = FALSE

(* A thread stands still while the handler runs on top of it; in the       *)
(* allocator the handler waits for the lock of the thread below.           *)
Runs(a) ==
  /\ a \notin sleeping
  /\ IF a = Handler THEN under # Nobody /\ ~inMalloc
     ELSE a = under => at[Handler] = "end"

Go(a, from, to) ==
  /\ Runs(a)
  /\ at[a] = from
  /\ at' = [at EXCEPT ![a] = to]

-----------------------------------------------------------------------------
(* The signal arrives once, when the child ends; a thread that sleeps for   *)
(* the mutex is woken for it and tries again afterwards.                    *)
prevent_zombie(t) ==
  /\ under = Nobody
  /\ under' = t
  /\ inMalloc' \in {FALSE, at[t] \in {"timestamp", "open", "close"}}
  /\ at' = [at EXCEPT ![Handler] = "timestamp"]
  /\ sleeping' = sleeping \ {t}
  /\ UNCHANGED <<log, shipped, word, mode, logged, failed>>

Call(t) ==
  /\ logged[t] < MaxLines
  /\ Go(t, "out", "timestamp")
  /\ UNCHANGED <<log, shipped, word, sleeping, mode, logged, failed, under, inMalloc>>

get_timestamp(a) ==
  /\ Go(a, "timestamp", "init")
  /\ UNCHANGED <<log, shipped, word, sleeping, mode, logged, failed, under, inMalloc>>

(* Mutant of logging_init: the mutex is initialised once. *)
logging_init_once(a) ==
  /\ Go(a, "init", "is_file")
  /\ UNCHANGED <<log, shipped, word, sleeping, mode, logged, failed, under, inMalloc>>

logging_init(a) ==
  /\ Go(a, "init", "is_file")
  /\ word' = 0
  /\ UNCHANGED <<log, shipped, sleeping, mode, logged, failed, under, inMalloc>>

(* Mutant of is_file: 1 for a file, as its name says. *)
is_file_true(a) ==
  /\ Go(a, "is_file", "open")
  /\ mode' = [mode EXCEPT ![a] = IF log = NoLog THEN "a" ELSE "w"]
  /\ UNCHANGED <<log, shipped, word, sleeping, logged, failed, under, inMalloc>>

(* is_file returns 0 for a file. *)
is_file(a) ==
  /\ Go(a, "is_file", "open")
  /\ mode' = [mode EXCEPT ![a] = IF log = NoLog THEN "w" ELSE "a"]
  /\ UNCHANGED <<log, shipped, word, sleeping, logged, failed, under, inMalloc>>

(* The next line of a, and that it is lost or cut short *)
Line(a) == <<a, logged[a] + 1>>

Fails(a) ==
  /\ Cardinality(failed) < MaxFailed
  /\ failed' = failed \cup {Line(a)}

(* fopen; _log returns without a word when it fails (the test of fp). *)
Open(a) ==
  \/ /\ Go(a, "open", "lock")
     /\ log' = IF mode[a] = "w" \/ log = NoLog THEN <<>> ELSE log
     /\ UNCHANGED <<shipped, word, sleeping, mode, logged, failed, under, inMalloc>>
  \/ /\ Go(a, "open", "close")
     /\ logged' = [logged EXCEPT ![a] = @ + 1]
     /\ Fails(a)
     /\ UNCHANGED <<log, shipped, word, sleeping, mode, under, inMalloc>>

(* pthread_mutex_lock, and its loop when the word was not 0 *)
Lock(a) ==
  /\ Go(a, "lock", IF word = 0 THEN "write" ELSE "wait")
  /\ word' = IF word = 0 THEN 1 ELSE word
  /\ UNCHANGED <<log, shipped, sleeping, mode, logged, failed, under, inMalloc>>

Wait(a) ==
  /\ Go(a, "wait", IF word = 0 THEN "write" ELSE "wait")
  /\ word' = 2
  /\ sleeping' = IF word = 0 THEN sleeping ELSE sleeping \cup {a}
  /\ UNCHANGED <<log, shipped, mode, logged, failed, under, inMalloc>>

(* fflush: at the end of the file, or for "w" where this stream is, at 1.   *)
(* A failing write puts a part of the line there, or nothing.               *)
Write(a) ==
  /\ Go(a, "write", "unlock")
  /\ logged' = [logged EXCEPT ![a] = @ + 1]
  /\ \/ /\ log' = IF mode[a] = "a" \/ log = <<>> THEN Append(log, Line(a))
                  ELSE [log EXCEPT ![1] = Line(a)]
        /\ \/ UNCHANGED failed
           \/ Fails(a)
     \/ UNCHANGED log /\ Fails(a)
  /\ UNCHANGED <<shipped, word, sleeping, mode, under, inMalloc>>

Unlock(a) ==
  /\ Go(a, "unlock", "close")
  /\ word' = 0
  /\ IF word = 2 /\ sleeping # {} THEN \E s \in sleeping : sleeping' = sleeping \ {s}
     ELSE UNCHANGED sleeping
  /\ UNCHANGED <<log, shipped, mode, logged, failed, under, inMalloc>>

(* fclose and os_free *)
Close(a) ==
  /\ Go(a, "close", IF a = Handler THEN "end" ELSE "out")
  /\ mode' = [mode EXCEPT ![a] = "none"]
  /\ UNCHANGED <<log, shipped, word, sleeping, logged, failed, under, inMalloc>>

_log(a) ==
  \/ get_timestamp(a) \/ logging_init(a) \/ is_file(a) \/ Open(a)
  \/ Lock(a) \/ Wait(a) \/ Write(a) \/ Unlock(a) \/ Close(a)

Next ==
  \/ \E t \in Threads : prevent_zombie(t) \/ Call(t)
  \/ \E a \in Loggers : _log(a)

-----------------------------------------------------------------------------
(* With the log file of the repository there, nobody loses another's line,  *)
(* whoever logs at the same time and although the mutex does not exclude    *)
(* (logging_init): a line is missing or cut only if its own fopen or write  *)
(* failed.  What was logged stays in the file, nothing else is in it, and a *)
(* thread's lines are there once each and in order.                         *)
Lines == UNION {{a} \X (1..logged[a]) : a \in Loggers}

LinesAreKept ==
  shipped =>
    /\ \A line \in Lines \ failed : \E k \in DOMAIN log : log[k] = line
    /\ \A k \in DOMAIN log : log[k] \in Lines
    /\ \A j, k \in DOMAIN log :
         j < k /\ log[j][1] = log[k][1] => log[j][2] < log[k][2]

(* The handler never waits for the thread that it interrupted: when it goes *)
(* to sleep for logging_mutex, another thread holds it.                     *)
HandlerWaitsForOthers ==
  [][ (Handler \in sleeping' /\ Handler \notin sleeping)
        => (\E t \in Threads \ {under} : at[t] \in Holding) ]_loggerVars
=============================================================================
