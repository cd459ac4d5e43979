------------------------------- MODULE Eloop -------------------------------
(***************************************************************************)
(* The event loop of wpa_ctrl (eloop.c, with select): sockets in tables,   *)
(* timeouts in order of time, signals that a C signal handler notes and    *)
(* the loop processes.  The program's own handlers, called by the loop,    *)
(* may use every function of the loop; there are at most MaxCalls such     *)
(* uses, those before eloop_run included.                                  *)
(*                                                                         *)
(* A timeout is its time and its identity (handler and data); time is in   *)
(* ticks, up to MaxTime.  A socket's entry has by: who registered it since *)
(* the fd sets were made for select, Earlier if it was there then.         *)
(***************************************************************************)
EXTENDS Integers, SequencesExt

CONSTANTS
  Socks,       \* descriptors
  Tables,      \* readers, writers, exceptions: in the order of dispatch
  Signals,     \* the registered signals, in that order; SIGTERM is as "INT"
  Timeouts,    \* identities of timeouts
  MaxTime, MaxCalls, MaxSignals

ASSUME EloopAssumption ==
  /\ Tables \in Seq({"readers", "writers", "exceptions"})
  /\ \A j, k \in 1..Len(Tables) : Tables[j] = Tables[k] => j = k
  /\ Signals \in Seq({"INT", "HUP"})
  /\ {MaxTime, MaxCalls, MaxSignals} \subseteq Nat

VARIABLES
  table,              \* each table's entries
  changed,            \* each table's flag
  timeout,            \* the list of timeouts
  signaled,           \* eloop.signaled is not 0
  noted,              \* the signals whose own count is not 0
  pending_terminate, terminate,
  alarm,              \* an alarm is set
  ready,              \* sockets that select would report: <<table, sock>>
  reported,           \* what select has reported; empty for res <= 0
  until,              \* when the select ends at the latest
  pc, back,           \* where eloop_run is, and where the signals' part goes on
  t, i,               \* the table that is dispatched, and a position
  handler,            \* what kind of handler runs: a table, or:
  by,                 \*   for a socket's handler, who registered it
  clock, calls, sent  \* time, uses of the functions, signals sent

tables == <<table, changed>>
signals == <<signaled, noted, pending_terminate, alarm>>
eloop  == <<tables, timeout, signals, terminate>>
place  == <<reported, until, pc, back, t, i, handler, by>>
eloopVars == <<eloop, ready, place, clock, calls, sent>>

NoHandler == "none"
Earlier   == "earlier"
Never     == MaxTime + 1

Names == Range(Tables)

Registered(name) == {e.sock : e \in Range(table[name])}
Watched == {w \in ready : w[2] \in Registered(w[1])}

Init ==
  /\ table = [n \in Names |-> <<>>]
  /\ changed = [n \in Names |-> FALSE]
  /\ timeout = <<>>
  /\ signaled = FALSE
  /\ noted = {}
  /\ pending_terminate = FALSE
  /\ alarm = FALSE
  /\ terminate = FALSE
  /\ ready = {}
  /\ reported = {}
  /\ until = Never
  /\ pc = "setup" /\ back = "top"
  /\ t = 1 /\ i = 1
  /\ handler = "setup"
  /\ by = Earlier
  /\ clock = 0 /\ calls = 0 /\ sent = 0

-----------------------------------------------------------------------------
(* What a handler, or the program before eloop_run, may call *)

Calls == handler # NoHandler /\ calls < MaxCalls /\ calls' = calls + 1

(* A socket is registered once in a table. *)
register_sock(name, s) ==
  /\ Calls
  /\ s \notin Registered(name)
  /\ table' = [table EXCEPT ![name] = Append(@, [sock |-> s, by |-> handler])]
  /\ changed' = [changed EXCEPT ![name] = TRUE]
  /\ UNCHANGED <<timeout, signals, terminate, ready, place, clock, sent>>

(* The socket is closed, too: what it had to read is gone. *)
unregister_sock(name, s) ==
  /\ Calls
  /\ \E k \in DOMAIN table[name] :
       /\ table[name][k].sock = s
       /\ table' = [table EXCEPT ![name] = RemoveAt(@, k)]
  /\ changed' = [changed EXCEPT ![name] = TRUE]
  /\ ready' = ready \ {<<name, s>>}
  /\ UNCHANGED <<timeout, signals, terminate, place, clock, sent>>

(* Mutant of Insert: at the end of the list. *)
Insert_last(list, new) == timeout' = Append(list, new)

(* A new timeout comes before the first that is later, or last. *)
Insert(list, new) ==
  \E p \in 1..(Len(list) + 1) :
    /\ \A k \in 1..(p - 1) : list[k].due <= new.due
    /\ p <= Len(list) => new.due < list[p].due
    /\ timeout' = InsertAt(list, p, new)

Cancelled(list, id) ==
  LET kept[n \in 0..Len(list)] ==
        IF n = 0 THEN <<>>
        ELSE IF list[n].id = id THEN kept[n - 1] ELSE Append(kept[n - 1], list[n])
  IN  kept[Len(list)]

register_timeout(id, ticks) ==
  /\ Calls
  /\ clock + ticks <= MaxTime
  /\ Insert(timeout, [due |-> clock + ticks, id |-> id])
  /\ UNCHANGED <<tables, signals, terminate, ready, place, clock, sent>>

cancel_timeout(id) ==
  /\ Calls
  /\ Cancelled(timeout, id) # timeout
  /\ timeout' = Cancelled(timeout, id)
  /\ UNCHANGED <<tables, signals, terminate, ready, place, clock, sent>>

(* The first timeout of that identity, if there is one *)
First(id) == {k \in DOMAIN timeout : /\ timeout[k].id = id
                                     /\ \A j \in 1..(k - 1) : timeout[j].id # id}

cancel_timeout_one(id) ==
  /\ Calls
  /\ \E k \in First(id) : timeout' = RemoveAt(timeout, k)
  /\ UNCHANGED <<tables, signals, terminate, ready, place, clock, sent>>

Remaining(id) == {timeout[k].due - clock : k \in First(id)}

(* All of that identity are cancelled. *)
Reset(id, ticks) ==
  /\ Calls
  /\ clock + ticks <= MaxTime
  /\ Insert(Cancelled(timeout, id), [due |-> clock + ticks, id |-> id])
  /\ UNCHANGED <<tables, signals, terminate, ready, place, clock, sent>>

(* To make it earlier, or later, if it is not that already. *)
deplete_timeout(id, ticks) ==
  \E remaining \in Remaining(id) : ticks < remaining /\ Reset(id, ticks)
replenish_timeout(id, ticks) ==
  \E remaining \in Remaining(id) : remaining < ticks /\ Reset(id, ticks)

eloop_terminate ==
  /\ Calls
  /\ handler # "setup"
  /\ terminate' = TRUE
  /\ UNCHANGED <<tables, timeout, signals, ready, place, clock, sent>>

Handler ==
  \/ \E name \in Names, s \in Socks : register_sock(name, s) \/ unregister_sock(name, s)
  \/ \E id \in Timeouts :
       \/ cancel_timeout(id) \/ cancel_timeout_one(id)
       \/ \E ticks \in 0..MaxTime :
            \/ register_timeout(id, ticks)
            \/ deplete_timeout(id, ticks) \/ replenish_timeout(id, ticks)
  \/ eloop_terminate

-----------------------------------------------------------------------------
(* Signals and time *)

EndSelect(found) ==
  /\ pc' = "signals" /\ back' = "timeout"
  /\ reported' = found
  /\ changed' = [n \in Names |-> FALSE]
  /\ UNCHANGED <<until, t, i, handler, by>>

(* eloop_handle_signal, called by the kernel at any place until             *)
(* eloop_destroy frees the table that it reads; select ends with EINTR when *)
(* it is in it.                                                             *)
handle_signal(s) ==
  /\ sent < MaxSignals
  /\ sent' = sent + 1
  /\ pc \notin {"destroyed", "killed"}
  /\ signaled' = TRUE
  /\ noted' = noted \cup {s}
  /\ IF s = "INT" /\ ~pending_terminate THEN pending_terminate' = TRUE /\ alarm' = TRUE
     ELSE UNCHANGED <<pending_terminate, alarm>>
  /\ IF pc = "select" THEN EndSelect({}) ELSE UNCHANGED <<changed, place>>
  /\ UNCHANGED <<table, timeout, terminate, ready, clock, calls>>

(* Two seconds later SIGALRM ends the process, wherever it is: eloop_run and *)
(* eloop_destroy do not cancel the alarm.                                    *)
handle_alarm ==
  /\ alarm
  /\ pc # "killed"
  /\ alarm' = FALSE
  /\ pc' = "killed"
  /\ UNCHANGED <<tables, timeout, signaled, noted, pending_terminate, terminate, ready,
                 reported, until, back, t, i, handler, by, clock, calls, sent>>

Tick ==
  /\ clock < MaxTime
  /\ pc # "setup"
  /\ clock' = clock + 1
  /\ UNCHANGED <<eloop, ready, place, calls, sent>>

Arrive(name, s) ==
  /\ s \in Registered(name)
  /\ ready' = ready \cup {<<name, s>>}
  /\ UNCHANGED <<eloop, place, clock, calls, sent>>

-----------------------------------------------------------------------------
(* eloop_run *)

At(place_) == pc = place_ /\ handler = NoHandler

Run ==
  /\ pc = "setup"
  /\ pc' = "top"
  /\ handler' = NoHandler
  /\ UNCHANGED <<eloop, ready, reported, until, back, t, i, by, clock, calls, sent>>

Top ==
  /\ At("top")
  /\ LET idle == timeout = <<>> /\ \A n \in Names : table[n] = <<>> IN
     IF terminate \/ idle THEN
       /\ pc' = "out"
       /\ terminate' = FALSE
       /\ UNCHANGED back
     ELSE
       /\ pc' = IF pending_terminate THEN "signals" ELSE "enter"
       /\ back' = "enter"
       /\ UNCHANGED terminate
  /\ UNCHANGED <<tables, timeout, signals, ready, reported, until, t, i, handler, by,
                 clock, calls, sent>>

(* The time to the first timeout and the fd sets; then select *)
Enter ==
  /\ At("enter")
  /\ until' = IF timeout = <<>> THEN Never ELSE Head(timeout).due
  /\ table' = [n \in Names |-> [k \in DOMAIN table[n] |-> [table[n][k] EXCEPT !.by = Earlier]]]
  /\ pc' = "select"
  /\ UNCHANGED <<changed, timeout, signals, terminate, ready, reported, back, t, i, handler,
                 by, clock, calls, sent>>

SelectReturns ==
  /\ At("select")
  /\ Watched # {} \/ clock >= until
  /\ EndSelect(Watched)
  /\ UNCHANGED <<table, timeout, signals, terminate, ready, clock, calls, sent>>

(* With another error than EINTR eloop_run returns. *)
SelectFails ==
  /\ At("select")
  /\ pc' = "out"
  /\ UNCHANGED <<eloop, ready, reported, until, back, t, i, handler, by, clock, calls, sent>>

(* eloop_process_pending_signals *)
Process ==
  /\ At("signals")
  /\ signaled' = FALSE
  /\ i' = 1
  /\ pc' = IF ~signaled THEN back ELSE IF pending_terminate THEN "alarm" ELSE "each"
  /\ UNCHANGED <<tables, timeout, noted, pending_terminate, alarm, terminate, ready,
                 reported, until, back, t, handler, by, clock, calls, sent>>

(* Mutant of ClearAlarm: pending_terminate first, and then the alarm. *)
ClearAlarm_last ==
  /\ \/ /\ At("alarm")
        /\ pending_terminate' = FALSE
        /\ pc' = "pending"
        /\ UNCHANGED alarm
     \/ /\ At("pending")
        /\ alarm' = FALSE
        /\ pc' = "each"
        /\ UNCHANGED pending_terminate
  /\ UNCHANGED <<tables, timeout, signaled, noted, terminate, ready, reported, until, back,
                 t, i, handler, by, clock, calls, sent>>

(* alarm(0), then pending_terminate = 0 *)
ClearAlarm ==
  /\ \/ /\ At("alarm")
        /\ alarm' = FALSE
        /\ pc' = "pending"
        /\ UNCHANGED pending_terminate
     \/ /\ At("pending")
        /\ pending_terminate' = FALSE
        /\ pc' = "each"
        /\ UNCHANGED alarm
  /\ UNCHANGED <<tables, timeout, signaled, noted, terminate, ready, reported, until, back,
                 t, i, handler, by, clock, calls, sent>>

(* Mutant of EachSignal: the loop ends with the first that was noted. *)
EachSignal_first ==
  /\ At("each")
  /\ LET found == {k \in DOMAIN Signals : Signals[k] \in noted}
         first == CHOOSE k \in found : \A j \in found : k <= j
     IN IF i > 1 \/ found = {} THEN
       /\ pc' = IF back = "enter" /\ terminate THEN "out" ELSE back
       /\ terminate' = (terminate /\ pc' # "out")
       /\ UNCHANGED <<i, noted, handler>>
     ELSE
       /\ i' = 2
       /\ noted' = noted \ {Signals[first]}
       /\ handler' = "signal"
       /\ UNCHANGED <<pc, terminate>>
  /\ UNCHANGED <<tables, timeout, signaled, pending_terminate, alarm, ready, reported, until,
                 back, t, by, clock, calls, sent>>

(* The loop over the registered signals.  Back at the top of eloop_run a    *)
(* handler may have called eloop_terminate, which ends the loop there.      *)
EachSignal ==
  /\ At("each")
  /\ IF i > Len(Signals) THEN
       /\ pc' = IF back = "enter" /\ terminate THEN "out" ELSE back
       /\ terminate' = (terminate /\ pc' # "out")
       /\ UNCHANGED <<i, noted, handler>>
     ELSE
       /\ i' = i + 1
       /\ noted' = noted \ {Signals[i]}
       /\ handler' = IF Signals[i] \in noted THEN "signal" ELSE handler
       /\ UNCHANGED <<pc, terminate>>
  /\ UNCHANGED <<tables, timeout, signaled, pending_terminate, alarm, ready, reported, until,
                 back, t, by, clock, calls, sent>>

(* Mutant of FireTimeout: only in a round in which no socket is ready. *)
FireTimeout_idle ==
  /\ At("timeout")
  /\ pc' = "check"
  /\ IF reported = {} /\ timeout # <<>> /\ Head(timeout).due <= clock THEN
       /\ timeout' = Tail(timeout)
       /\ handler' = "timeout"
     ELSE UNCHANGED <<timeout, handler>>
  /\ UNCHANGED <<tables, signals, terminate, ready, reported, until, back, t, i, by, clock,
                 calls, sent>>

(* At most one timeout in a round *)
FireTimeout ==
  /\ At("timeout")
  /\ pc' = "check"
  /\ IF timeout # <<>> /\ Head(timeout).due <= clock THEN
       /\ timeout' = Tail(timeout)
       /\ handler' = "timeout"
     ELSE UNCHANGED <<timeout, handler>>
  /\ UNCHANGED <<tables, signals, terminate, ready, reported, until, back, t, i, by, clock,
                 calls, sent>>

(* Mutant of Check: sockets are dispatched although a table has changed. *)
Check_always ==
  /\ At("check")
  /\ pc' = IF reported = {} THEN "top" ELSE "dispatch"
  /\ t' = 1 /\ i' = 1
  /\ changed' = [changed EXCEPT ![Tables[1]] = FALSE]
  /\ UNCHANGED <<table, timeout, signals, terminate, ready, reported, until, back, handler,
                 by, clock, calls, sent>>

Check ==
  /\ At("check")
  /\ IF reported = {} \/ \E n \in Names : changed[n] THEN
       pc' = "top" /\ UNCHANGED <<t, i, changed>>
     ELSE
       /\ pc' = "dispatch"
       /\ t' = 1 /\ i' = 1
       /\ changed' = [changed EXCEPT ![Tables[1]] = FALSE]
  /\ UNCHANGED <<table, timeout, signals, terminate, ready, reported, until, back, handler,
                 by, clock, calls, sent>>

(* The next entry of a table that was reported; a handler that changed the  *)
(* table ends it.                                                           *)
Found == {k \in i..Len(table[Tables[t]]) : <<Tables[t], table[Tables[t]][k].sock>> \in reported}

Dispatch ==
  /\ At("dispatch")
  /\ ~changed[Tables[t]]
  /\ \E k \in Found :
       /\ \A j \in Found : k <= j
       /\ i' = k + 1
       /\ handler' = Tables[t]
       /\ by' = table[Tables[t]][k].by
       /\ ready' = ready \ {<<Tables[t], table[Tables[t]][k].sock>>}
  /\ UNCHANGED <<eloop, reported, until, pc, back, t, clock, calls, sent>>

(* On to the next table, whose flag is cleared *)
NextTable ==
  /\ At("dispatch")
  /\ changed[Tables[t]] \/ Found = {}
  /\ IF t = Len(Tables) THEN
       /\ pc' = "top"
       /\ UNCHANGED <<t, i, changed>>
     ELSE
       /\ t' = t + 1
       /\ i' = 1
       /\ changed' = [changed EXCEPT ![Tables[t']] = FALSE]
       /\ UNCHANGED pc
  /\ UNCHANGED <<table, timeout, signals, terminate, ready, reported, until, back, handler,
                 by, clock, calls, sent>>

Return ==
  /\ handler \notin {NoHandler, "setup"}
  /\ pc # "killed"
  /\ handler' = NoHandler
  /\ by' = Earlier
  /\ UNCHANGED <<eloop, ready, reported, until, pc, back, t, i, clock, calls, sent>>

eloop_run ==
  \/ Run \/ Top \/ Enter \/ SelectReturns \/ Process \/ ClearAlarm \/ EachSignal
  \/ FireTimeout \/ Check \/ Dispatch \/ NextTable \/ Return

(* After eloop_run, eloop_destroy *)
eloop_destroy ==
  /\ pc = "out"
  /\ pc' = "destroyed"
  /\ table' = [n \in Names |-> <<>>]
  /\ timeout' = <<>>
  /\ UNCHANGED <<changed, signals, terminate, ready, reported, until, back, t, i, handler, by,
                 clock, calls, sent>>

Next ==
  \/ Handler /\ pc # "killed"
  \/ \E s \in Range(Signals) : handle_signal(s)
  \/ handle_alarm \/ Tick
  \/ \E name \in Names, s \in Socks : Arrive(name, s)
  \/ eloop_run \/ SelectFails \/ eloop_destroy

Spec == Init /\ [][Next]_eloopVars

-----------------------------------------------------------------------------
Gone == pc \in {"out", "destroyed", "killed"}

(* Every variable has its type, and a handler runs only where the loop has  *)
(* called one and waits for its return.                                      *)
TypeOK ==
  /\ \A n \in Names :
       table[n] \in Seq([sock : Socks, by : Names \cup {Earlier, "setup", "signal", "timeout"}])
  /\ changed \in [Names -> BOOLEAN]
  /\ timeout \in Seq([due : 0..MaxTime, id : Timeouts])
  /\ {signaled, pending_terminate, terminate, alarm} \subseteq BOOLEAN
  /\ noted \subseteq Range(Signals)
  /\ ready \cup reported \subseteq Names \X Socks
  /\ until \in 0..Never
  /\ back \in {"top", "enter", "timeout"}
  /\ pc \in {"top", "enter", "select", "signals", "alarm", "pending", "timeout", "out",
            "destroyed"} => handler = NoHandler
  /\ handler # NoHandler => pc \in {"setup", "each", "check", "dispatch", "killed"}

(* What the comment in eloop_run is about: a socket that a signal or timeout *)
(* handler, or a handler of the same table, has registered since select is   *)
(* not called for what select reported of its number before.  (For a handler *)
(* of another table the code does not promise that: writers are dispatched   *)
(* after a reader's handler has registered a writer.)  And every variable    *)
(* has its type.                                                             *)
NotCalledForAnother ==
  /\ TypeOK
  /\ handler \in Names => by \notin {"signal", "timeout", handler}

(* The first timeout is the earliest: select does not wait past one, and one *)
(* that is due is not kept behind a later one.                               *)
TimeoutsInOrder ==
  /\ \A k \in 1..(Len(timeout) - 1) : timeout[k].due <= timeout[k + 1].due
  /\ pc = "select" => \A k \in DOMAIN timeout : until <= timeout[k].due

(* A timeout goes off or is cancelled, however busy the sockets are. *)
Waits(id) == \E k \in DOMAIN timeout : timeout[k].id = id
TimeoutsGoOff == \A id \in Timeouts : Waits(id) ~> (~Waits(id) \/ Gone)

(* An interrupt is noted without an alarm only in the pass that is about to  *)
(* call its handler; in every other state an alarm guards it.  The flag of   *)
(* an interrupt and its alarm agree, so that the next interrupt does not     *)
(* find the one without the other.  (The alarm may outlive the interrupt:    *)
(* one that comes in the middle of a pass, before its own place in it, is    *)
(* handled in that pass, and its alarm stays until the next one, or until it *)
(* kills a program that has left the loop.)                                  *)
AlarmGuardsInterrupt ==
  pc # "killed" =>
    /\ alarm = (pending_terminate /\ pc # "pending")
    /\ "INT" \in noted =>
         \/ alarm
         \/ pc = "pending"
         \/ pc = "each" /\ \E k \in i..Len(Signals) : Signals[k] = "INT"

(* SIGINT and SIGTERM do not pass unnoticed, even when they arrive between   *)
(* the test of pending_terminate and select: their handler is called, or the *)
(* process ends.                                                             *)
InterruptIsHandled == "INT" \in noted ~> ("INT" \notin noted \/ Gone)
=============================================================================
