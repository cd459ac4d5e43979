---------------------------- MODULE WpaCtrlProofs ----------------------------
(***************************************************************************)
(* The event loop for any sockets, signals and timeouts: the alarm needs   *)
(* to know where an interrupt is pending, the timeouts that their order    *)
(* survives registering and cancelling, and the sockets which entries of   *)
(* the tables are new since select.  And the configuration program, for    *)
(* any options, runs and network numbers: what is left of a script says    *)
(* how far wpa_supplicant is with the network that the run has added.      *)
(***************************************************************************)
EXTENDS MCWpaCtrl, FiniteSetTheorems, WellFoundedInduction, TLAPS

-----------------------------------------------------------------------------
(* Induction over the numbers, for a set in place of a predicate: the sets  *)
(* 1..n are well-founded by inclusion, and so the numbers by <.             *)
Less == {p \in Nat \X Nat : p[1] < p[2]}

LEMMA LessIsWellFounded == IsWellFoundedOn(Less, Nat)
<1> SUFFICES ASSUME NEW f \in [Nat -> Nat],
                    \A n \in Nat : <<f[n + 1], f[n]>> \in Less
             PROVE  FALSE
  BY DEF IsWellFoundedOn
<1> DEFINE g == [n \in Nat |-> 1..f[n]]
<1>1. g \in [Nat -> FiniteSubsetsOf(Nat)]
  <2>1. ASSUME NEW n \in Nat PROVE 1..f[n] \in FiniteSubsetsOf(Nat)
    <3>1. IsFiniteSet(1..f[n])
      BY FS_Interval
    <3>2. QED
      BY <3>1 DEF FiniteSubsetsOf
  <2>2. QED
    BY <2>1
<1>2. ASSUME NEW n \in Nat PROVE <<g[n + 1], g[n]>> \in StrictSubsetOrdering(Nat)
  <2>1. f[n + 1] \in Nat /\ f[n] \in Nat /\ f[n + 1] < f[n]
    BY DEF Less
  <2>2. 1..f[n + 1] \subseteq 1..f[n] /\ f[n] \in 1..f[n] /\ f[n] \notin 1..f[n + 1]
    BY <2>1
  <2>3. 1..f[n + 1] \in SUBSET Nat /\ 1..f[n] \in SUBSET Nat
    BY <2>1
  <2>4. <<1..f[n + 1], 1..f[n]>> \in StrictSubsetOrdering(Nat)
    BY <2>2, <2>3 DEF StrictSubsetOrdering
  <2>5. g[n + 1] = 1..f[n + 1] /\ g[n] = 1..f[n]
    OBVIOUS
  <2>6. QED
    BY <2>4, <2>5, Zenon
<1> HIDE DEF g
<1>3. QED
  BY <1>1, <1>2, FS_StrictSubsetOrderingWellFounded DEF IsWellFoundedOn

(* A set that has 0, and with every number the next, has all. *)
LEMMA Induction ==
  ASSUME NEW S, 0 \in S, \A n \in Nat : n \in S => n + 1 \in S
  PROVE  Nat \subseteq S
<1> SUFFICES ASSUME ~(Nat \subseteq S) PROVE FALSE
  OBVIOUS
<1> DEFINE R == Nat \ S
<1>1. PICK n \in R : \A m \in R : <<m, n>> \notin Less
  <2>1. R \subseteq Nat /\ R # {}
    OBVIOUS
  <2> HIDE DEF R
  <2>2. QED
    BY <2>1, LessIsWellFounded, WFMin
<1>2. n # 0 /\ n \in Nat
  BY <1>1
<1>3. n - 1 \in Nat /\ <<n - 1, n>> \in Less
  BY <1>2 DEF Less
<1>4. (n - 1) + 1 \in S
  BY <1>1, <1>3
<1>5. QED
  BY <1>4, <1>2

-----------------------------------------------------------------------------
Places == {"setup", "top", "enter", "select", "signals", "alarm", "pending", "each",
           "timeout", "check", "dispatch", "out", "destroyed",
           "killed"}
Registrars == Names \cup {Earlier, "setup", "signal", "timeout"}
Entry == [sock : Socks, by : Registrars]
Timeout == [due : 0..MaxTime, id : Timeouts]

(* Where the loop is, and which handler it has called there *)
Loop ==
  /\ pc \in Places
  /\ back \in {"top", "enter", "timeout"}
  /\ pc = "setup" => handler = "setup"
  /\ pc \in {"top", "enter", "select", "signals", "alarm", "pending", "timeout", "out",
            "destroyed"} => handler = NoHandler
  /\ pc = "each" => handler \in {NoHandler, "signal"}
  /\ pc = "check" => handler \in {NoHandler, "timeout"}
  /\ pc = "dispatch" => t \in 1..Len(Tables) /\ handler \in {NoHandler, Tables[t]}
  /\ handler \in Names \cup {NoHandler, "setup", "signal", "timeout"}
  /\ ready \subseteq Names \X Socks /\ reported \subseteq Names \X Socks

(* The names of the tables are no kinds of handlers. *)
LEMMA NamesAre ==
  /\ Names \subseteq {"readers", "writers", "exceptions"}
  /\ \A k \in 1..Len(Tables) : Tables[k] \in Names
  /\ \A n \in Names : \E k \in 1..Len(Tables) : n = Tables[k]
BY EloopAssumption DEF EloopAssumption, Names, Range

LEMMA LoopStarts == Init => Loop
BY DEF Init, Loop, Places

LEMMA LoopKept == Loop /\ [Next]_eloopVars => Loop'
<1> SUFFICES ASSUME Loop, [Next]_eloopVars PROVE Loop'
  OBVIOUS
<1> USE DEF Loop, Places
<1>1. ASSUME UNCHANGED <<pc, back, handler, t, reported>>,
             ready' \subseteq Names \X Socks
      PROVE  Loop'
  BY <1>1
<1>2. CASE UNCHANGED eloopVars
  BY <1>1, <1>2 DEF eloopVars, eloop, place
<1>3. CASE Handler
  <2>1. UNCHANGED place /\ ready' \subseteq ready
    BY <1>3
       DEF Handler, register_sock, unregister_sock, register_timeout, cancel_timeout,
           cancel_timeout_one, deplete_timeout, replenish_timeout, Reset, eloop_terminate
  <2>2. QED
    BY <1>1, <2>1 DEF place
<1>4. CASE \E s \in Range(Signals) : handle_signal(s)
  <2>1. UNCHANGED ready /\ ((pc = "select" /\ EndSelect({})) \/ UNCHANGED place)
    BY <1>4 DEF handle_signal
  <2>2. QED
    BY <1>4, <2>1 DEF handle_signal, EndSelect, place
<1>5. CASE handle_alarm
  BY <1>5 DEF handle_alarm
<1>6. CASE Tick
  BY <1>1, <1>6 DEF Tick, place
<1>7. ASSUME NEW name \in Names, NEW s \in Socks, Arrive(name, s) PROVE Loop'
  BY <1>1, <1>7 DEF Arrive, place
<1>8. CASE Run \/ SelectFails \/ Top \/ Enter
  BY <1>8 DEF Run, SelectFails, Top, Enter, At
<1>9. CASE SelectReturns
  BY <1>9 DEF SelectReturns, EndSelect, At, Watched
<1>10. CASE Process \/ ClearAlarm \/ EachSignal
  BY <1>10 DEF Process, ClearAlarm, EachSignal, At
<1>11. CASE FireTimeout
  BY <1>11 DEF FireTimeout, At
<1>12. CASE Check
  <2>1. reported # {} => 1 \in 1..Len(Tables)
    <3> SUFFICES ASSUME reported # {} PROVE 1 \in 1..Len(Tables)
      OBVIOUS
    <3>1. PICK n \in Names : TRUE
      OBVIOUS
    <3>2. PICK k \in 1..Len(Tables) : n = Tables[k]
      BY <3>1, NamesAre
    <3>3. QED
      BY <3>2
  <2>2. QED
    BY <1>12, <2>1 DEF Check, At
<1>13. CASE Dispatch
  <2>1. PICK k \in Found : ready' = ready \ {<<Tables[t], table[Tables[t]][k].sock>>}
    BY <1>13 DEF Dispatch
  <2>2. t \in 1..Len(Tables) /\ handler' = Tables[t] /\ pc = "dispatch"
        /\ UNCHANGED <<reported, pc, back, t>>
    BY <1>13 DEF Dispatch, At
  <2>3. QED
    BY <2>1, <2>2, NamesAre
<1>14. CASE NextTable
  <2>1. Len(Tables) \in Nat
    BY EloopAssumption DEF EloopAssumption
  <2>2. QED
    BY <1>14, <2>1 DEF NextTable, At
<1>15. CASE Return
  BY <1>15 DEF Return
<1>16. CASE eloop_destroy
  BY <1>16 DEF eloop_destroy
<1>17. QED
  BY <1>2, <1>3, <1>4, <1>5, <1>6, <1>7, <1>8, <1>9, <1>10, <1>11, <1>12, <1>13, <1>14,
     <1>15, <1>16 DEF Next, eloop_run

-----------------------------------------------------------------------------
(* The alarm: only between the two statements of ClearAlarm is the flag of  *)
(* an interrupt set without one, and only in the pass that follows them is  *)
(* an interrupt noted without one.                                          *)
AlarmInv ==
  /\ {alarm, pending_terminate} \subseteq BOOLEAN
  /\ back \in {"top", "enter", "timeout"}
  /\ pc \in {"alarm", "pending"} => pending_terminate /\ i = 1
  /\ pc = "each" => i \in Nat \ {0}
  /\ noted \subseteq Range(Signals)
  /\ AlarmGuardsInterrupt

(* The steps of the loop, of handlers and of the world, by what they do to  *)
(* the alarm. *)
LEMMA AlarmKept == AlarmInv /\ [Next]_eloopVars => AlarmInv'
<1> SUFFICES ASSUME AlarmInv, [Next]_eloopVars PROVE AlarmInv'
  OBVIOUS
<1> USE DEF AlarmInv, AlarmGuardsInterrupt
<1>1. ASSUME UNCHANGED <<alarm, pending_terminate, noted, pc, back, i>> PROVE AlarmInv'
  BY <1>1
<1>2. ASSUME UNCHANGED <<alarm, pending_terminate, noted, back>>,
             pc \notin {"alarm", "pending", "each", "killed"},
             pc' \notin {"alarm", "pending", "each"}
      PROVE  AlarmInv'
  BY <1>2
<1>3. CASE UNCHANGED eloopVars
  BY <1>1, <1>3 DEF eloopVars, eloop, signals, place
<1>4. CASE Handler
  BY <1>1, <1>4
     DEF Handler, register_sock, unregister_sock, register_timeout, cancel_timeout,
         cancel_timeout_one, deplete_timeout, replenish_timeout, Reset, eloop_terminate, signals,
         place
<1>5. ASSUME NEW s \in Range(Signals), handle_signal(s) PROVE AlarmInv'
  <2>1. /\ noted' = noted \cup {s} /\ i' = i
        /\ IF s = "INT" /\ ~pending_terminate THEN pending_terminate' = TRUE /\ alarm' = TRUE
           ELSE UNCHANGED <<pending_terminate, alarm>>
        /\ pc # "killed"
    BY <1>5 DEF handle_signal, EndSelect, place
  <2>2. CASE pc = "select"
    <3>1. pc' = "signals" /\ back' = "timeout"
      BY <1>5, <2>2 DEF handle_signal, EndSelect
    <3>2. QED
      BY <2>1, <2>2, <3>1
  <2>3. CASE pc # "select"
    <3>1. UNCHANGED <<pc, back>>
      BY <1>5, <2>3 DEF handle_signal, place
    <3>2. QED
      BY <2>1, <3>1
  <2>4. QED
    BY <2>2, <2>3
<1>6. CASE handle_alarm
  BY <1>6 DEF handle_alarm
<1>7. CASE Tick \/ \E name \in Names, s \in Socks : Arrive(name, s)
  BY <1>1, <1>7 DEF Tick, Arrive, eloop, signals, place
<1>8. CASE Run \/ SelectFails \/ eloop_destroy
  BY <1>2, <1>8 DEF Run, SelectFails, eloop_destroy, At, eloop, signals
<1>9. CASE Return
  BY <1>1, <1>9 DEF Return, eloop, signals
<1>10. CASE Dispatch \/ FireTimeout \/ Check \/ NextTable
  BY <1>2, <1>10 DEF Dispatch, FireTimeout, Check, NextTable, At, eloop, signals
<1>11. CASE Top \/ Enter \/ SelectReturns
  BY <1>11 DEF Top, Enter, SelectReturns, EndSelect, At, signals
<1>12. CASE Process
  BY <1>12 DEF Process, At
<1>13. CASE ClearAlarm
  <2>1. CASE pc = "alarm"
    BY <1>13, <2>1 DEF ClearAlarm, At
  <2>2. CASE pc = "pending"
    <3>1. /\ pc' = "each" /\ i' = i /\ i = 1 /\ ~alarm /\ alarm' = alarm /\ ~pending_terminate'
          /\ UNCHANGED <<noted, back>>
      BY <1>13, <2>2 DEF ClearAlarm, At
    <3>2. "INT" \in noted => \E k \in 1..Len(Signals) : Signals[k] = "INT"
      BY EloopAssumption DEF EloopAssumption, Range
    <3>3. "INT" \in noted' => \E k \in i'..Len(Signals) : Signals[k] = "INT"
      BY <3>1, <3>2
    <3>4. pending_terminate' = FALSE /\ alarm' = FALSE
      BY <3>1
    <3>5. i' \in Nat \ {0} /\ back' \in {"top", "enter", "timeout"} /\ noted' \subseteq Range(Signals)
      BY <3>1
    <3>6. AlarmGuardsInterrupt'
      BY <3>1, <3>3, <3>4
    <3>7. QED
      BY <3>1, <3>4, <3>5, <3>6
  <2>3. QED
    BY <1>13, <2>1, <2>2 DEF ClearAlarm, At
<1>14. CASE EachSignal
  <2>1. /\ pc = "each" /\ i \in Nat \ {0} /\ Len(Signals) \in Nat
        /\ UNCHANGED <<pending_terminate, alarm, back>>
    BY <1>14, EloopAssumption DEF EachSignal, At, EloopAssumption
  <2>2. CASE i > Len(Signals)
    <3>1. pc' \in {"top", "enter", "timeout", "out"} /\ noted' = noted
      BY <1>14, <2>2 DEF EachSignal
    <3>2. QED
      BY <2>1, <2>2, <3>1
  <2>3. CASE ~(i > Len(Signals))
    <3>1. pc' = "each" /\ i' = i + 1 /\ noted' = noted \ {Signals[i]}
      BY <1>14, <2>1, <2>3 DEF EachSignal
    <3>2. ASSUME "INT" \in noted', ~alarm
          PROVE  \E k \in (i + 1)..Len(Signals) : Signals[k] = "INT"
      <4>1. PICK k \in i..Len(Signals) : Signals[k] = "INT"
        BY <2>1, <3>1, <3>2
      <4>2. k \in (i + 1)..Len(Signals)
        BY <2>1, <3>1, <3>2, <4>1
      <4>3. QED
        BY <4>1, <4>2
    <3>3. QED
      BY <2>1, <3>1, <3>2
  <2>4. QED
    BY <2>2, <2>3
<1>15. QED
  BY <1>3, <1>4, <1>5, <1>6, <1>7, <1>8, <1>9, <1>10, <1>11, <1>12, <1>13, <1>14
     DEF Next, eloop_run

(* An interrupt that is noted has an alarm, except in the pass that is about *)
(* to call its handler, and its flag and its alarm agree: however often      *)
(* signals come and wherever the loop is, no interrupt waits unguarded       *)
(* (eloop.c:965-1010).                                                       *)
THEOREM AlarmGuards == Spec => []AlarmGuardsInterrupt
<1>1. Init => AlarmInv
  BY DEF Init, AlarmInv, AlarmGuardsInterrupt
<1>2. AlarmInv => AlarmGuardsInterrupt
  BY DEF AlarmInv
<1>3. QED
  BY <1>1, <1>2, AlarmKept, PTL DEF Spec

-----------------------------------------------------------------------------
(* The timeouts *)
InOrder(list) == \A j, k \in 1..Len(list) : j < k => list[j].due <= list[k].due

TimeoutInv ==
  /\ clock \in 0..MaxTime
  /\ timeout \in Seq(Timeout)
  /\ InOrder(timeout)
  /\ pc = "select" => \A k \in 1..Len(timeout) : until <= timeout[k].due

(* The list that eloop_cancel_timeout leaves of the first n timeouts *)
Step(list, id, kept, n) ==
  IF list[n].id = id THEN kept[n - 1] ELSE Append(kept[n - 1], list[n])

LEMMA CancelledBySteps ==
  ASSUME NEW list \in Seq(Timeout), NEW id
  PROVE  \E kept :
           /\ Cancelled(list, id) = kept[Len(list)]
           /\ kept[0] = <<>>
           /\ \A n \in 1..Len(list) : kept[n] = Step(list, id, kept, n)
<1> DEFINE L == Len(list)
           Kept(f, m) == f = [n \in 0..m |-> IF n = 0 THEN <<>> ELSE Step(list, id, f, n)]
           S == {m \in Nat : m <= L => \E f : Kept(f, m)}
<1>0. L \in Nat
  OBVIOUS
<1>1. 0 \in S
  <2>1. Kept([n \in 0..0 |-> <<>>], 0)
    OBVIOUS
  <2>2. QED
    BY <2>1
<1>2. ASSUME NEW m \in Nat, m \in S PROVE m + 1 \in S
  <2> SUFFICES ASSUME m + 1 <= L PROVE \E f : Kept(f, m + 1)
    OBVIOUS
  <2>1. PICK f : Kept(f, m)
    BY <1>0, <1>2
  <2> DEFINE g == [n \in 0..(m + 1) |-> IF n <= m THEN f[n] ELSE Step(list, id, f, n)]
  <2>2. Kept(g, m + 1)
    <3>1. ASSUME NEW n \in 0..(m + 1)
          PROVE  g[n] = IF n = 0 THEN <<>> ELSE Step(list, id, g, n)
      <4>1. CASE n = 0
        BY <2>1, <4>1
      <4>2. CASE n # 0
        <5>1. n - 1 \in 0..m /\ n - 1 <= m
          BY <4>2
        <5>2. g[n - 1] = f[n - 1]
          BY <5>1
        <5>3. g[n] = Step(list, id, f, n)
          BY <2>1, <4>2
        <5>4. QED
          BY <4>2, <5>2, <5>3 DEF Step
      <4>3. QED
        BY <4>1, <4>2
    <3>2. QED
      BY <3>1
  <2>3. QED
    BY <2>2
<1>3. \E f : Kept(f, L)
  <2> HIDE DEF S
  <2>1. Nat \subseteq S
    BY <1>1, <1>2, Induction
  <2>2. QED
    BY <1>0, <2>1 DEF S
<1>4. PICK f : Kept(f, L) /\ Cancelled(list, id) = f[L]
  <2> DEFINE c == CHOOSE f : Kept(f, L)
  <2>1. Kept(c, L)
    BY <1>3
  <2>2. Cancelled(list, id) = c[L]
    BY DEF Cancelled, Step
  <2>3. QED
    BY <2>1, <2>2
<1>5. QED
  BY <1>0, <1>4

(* What is left are timeouts of the list, in its order. *)
LEMMA CancelledInOrder ==
  ASSUME NEW list \in Seq(Timeout), InOrder(list), NEW id
  PROVE  Cancelled(list, id) \in Seq(Timeout) /\ InOrder(Cancelled(list, id))
<1> DEFINE L == Len(list)
<1>1. PICK kept : /\ Cancelled(list, id) = kept[L]
                  /\ kept[0] = <<>>
                  /\ \A n \in 1..L : kept[n] = Step(list, id, kept, n)
  BY CancelledBySteps
<1> DEFINE Of(n) == \A j \in 1..Len(kept[n]) : \E k \in 1..n : kept[n][j] = list[k]
           Good(n) == kept[n] \in Seq(Timeout) /\ InOrder(kept[n]) /\ Of(n)
           S == {n \in Nat : n <= L => Good(n)}
<1>2. 0 \in S
  <2>1. <<>> \in Seq(Timeout) /\ Len(<<>>) = 0
    OBVIOUS
  <2>2. kept[0] \in Seq(Timeout) /\ \A j \in 1..Len(kept[0]) : FALSE
    BY <1>1, <2>1
  <2>3. Good(0)
    BY <2>2 DEF InOrder
  <2>4. QED
    BY <2>3
<1>3. ASSUME NEW m \in Nat, m \in S PROVE m + 1 \in S
  <2> SUFFICES ASSUME m + 1 <= L PROVE Good(m + 1)
    OBVIOUS
  <2> DEFINE old == kept[m]
             new == kept[m + 1]
  <2>1. m + 1 \in 1..L /\ (m + 1) - 1 = m /\ Good(m)
    BY <1>3
  <2>2. new = IF list[m + 1].id = id THEN old ELSE Append(old, list[m + 1])
    BY <1>1, <2>1 DEF Step
  <2>3. CASE new = old
    BY <2>1, <2>3
  <2>4. CASE new = Append(old, list[m + 1])
    <3>1. old \in Seq(Timeout) /\ list[m + 1] \in Timeout
      BY <2>1
    <3>2. /\ new \in Seq(Timeout) /\ Len(new) = Len(old) + 1
          /\ \A j \in 1..Len(old) : new[j] = old[j]
          /\ new[Len(old) + 1] = list[m + 1]
      BY <2>4, <3>1
    <3>3. \A j \in 1..Len(new) : j \in 1..Len(old) \/ j = Len(old) + 1
      BY <3>1, <3>2
    <3>4. Of(m + 1)
      <4> SUFFICES ASSUME NEW j \in 1..Len(new)
                   PROVE  \E k \in 1..(m + 1) : new[j] = list[k]
        OBVIOUS
      <4>1. CASE j \in 1..Len(old)
        <5>1. PICK k \in 1..m : old[j] = list[k]
          BY <2>1, <4>1
        <5>2. k \in 1..(m + 1) /\ new[j] = list[k]
          BY <3>2, <4>1, <5>1
        <5>3. QED
          BY <5>2
      <4>2. CASE j = Len(old) + 1
        BY <3>2, <4>2
      <4>3. QED
        BY <3>3, <4>1, <4>2
    <3>5. InOrder(new)
      <4> SUFFICES ASSUME NEW j \in 1..Len(new), NEW k \in 1..Len(new), j < k
                   PROVE  new[j].due <= new[k].due
        BY DEF InOrder
      <4>1. j \in 1..Len(old)
        BY <3>1, <3>2
      <4>2. CASE k \in 1..Len(old)
        <5>1. new[j] = old[j] /\ new[k] = old[k]
          BY <3>2, <4>1, <4>2
        <5>2. QED
          BY <2>1, <4>1, <4>2, <5>1 DEF InOrder
      <4>3. CASE k = Len(old) + 1
        <5>1. PICK h \in 1..m : old[j] = list[h]
          BY <2>1, <4>1
        <5>2. list[h].due <= list[m + 1].due
          BY <2>1 DEF InOrder
        <5>3. new[j] = list[h] /\ new[k] = list[m + 1]
          BY <3>2, <4>1, <4>3, <5>1
        <5>4. QED
          BY <5>2, <5>3
      <4>4. QED
        BY <3>3, <4>2, <4>3
    <3>6. QED
      BY <3>2, <3>4, <3>5
  <2>5. QED
    BY <2>2, <2>3, <2>4
<1>4. L \in S
  <2> HIDE DEF S
  <2>1. Nat \subseteq S
    BY <1>2, <1>3, Induction
  <2>2. QED
    BY <2>1
<1>5. QED
  BY <1>1, <1>4

(* A timeout put before the first that is later keeps the order. *)
LEMMA InsertInOrder ==
  ASSUME NEW list \in Seq(Timeout), InOrder(list), NEW new \in Timeout, Insert(list, new)
  PROVE  timeout' \in Seq(Timeout) /\ InOrder(timeout')
<1>1. PICK p \in 1..(Len(list) + 1) :
        /\ \A k \in 1..(p - 1) : list[k].due <= new.due
        /\ p <= Len(list) => new.due < list[p].due
        /\ timeout' = InsertAt(list, p, new)
  BY DEF Insert
<1>2. Len(list) \in Nat /\ p \in Nat
  OBVIOUS
<1>3. /\ timeout' \in Seq(Timeout) /\ Len(timeout') = Len(list) + 1
      /\ \A k \in 1..(Len(list) + 1) :
           timeout'[k] = IF k < p THEN list[k] ELSE IF k = p THEN new ELSE list[k - 1]
  <2>1. /\ SubSeq(list, 1, p - 1) \in Seq(Timeout) /\ Len(SubSeq(list, 1, p - 1)) = p - 1
        /\ \A k \in 1..(p - 1) : SubSeq(list, 1, p - 1)[k] = list[k]
    BY <1>2
  <2>2. /\ SubSeq(list, p, Len(list)) \in Seq(Timeout)
        /\ Len(SubSeq(list, p, Len(list))) = Len(list) + 1 - p
        /\ \A k \in 1..(Len(list) + 1 - p) : SubSeq(list, p, Len(list))[k] = list[p + k - 1]
    BY <1>2
  <2>3. <<new>> \in Seq(Timeout) /\ Len(<<new>>) = 1 /\ <<new>>[1] = new
    OBVIOUS
  <2> DEFINE a == SubSeq(list, 1, p - 1)
             b == SubSeq(list, p, Len(list))
  <2> HIDE DEF a, b
  <2>a. /\ a \in Seq(Timeout) /\ Len(a) = p - 1
        /\ \A k \in 1..(p - 1) : a[k] = list[k]
    BY <2>1 DEF a
  <2>b. \A k \in 1..p : (a \o <<new>>)[k] = IF k <= p - 1 THEN a[k] ELSE <<new>>[k - (p - 1)]
    BY <1>2, <2>3, <2>a
  <2>4. /\ a \o <<new>> \in Seq(Timeout) /\ Len(a \o <<new>>) = p
        /\ \A k \in 1..(p - 1) : (a \o <<new>>)[k] = list[k]
        /\ (a \o <<new>>)[p] = new
    <3>1. a \o <<new>> \in Seq(Timeout) /\ Len(a \o <<new>>) = p
      BY <1>2, <2>3, <2>a
    <3>2. \A k \in 1..(p - 1) : k \in 1..p /\ k <= p - 1
      BY <1>2
    <3>3. p \in 1..p /\ ~(p <= p - 1) /\ p - (p - 1) = 1
      BY <1>2
    <3>4. QED
      BY <2>3, <2>a, <2>b, <3>1, <3>2, <3>3
  <2> DEFINE c == a \o <<new>>
  <2> HIDE DEF c
  <2>5. /\ c \o b \in Seq(Timeout) /\ Len(c \o b) = Len(list) + 1
        /\ \A k \in 1..p : (c \o b)[k] = c[k]
        /\ \A k \in (p + 1)..(Len(list) + 1) : (c \o b)[k] = list[k - 1]
    <3>1. /\ b \in Seq(Timeout) /\ Len(b) = Len(list) + 1 - p
          /\ \A k \in 1..(Len(list) + 1 - p) : b[k] = list[p + k - 1]
      BY <2>2 DEF b
    <3>2. c \in Seq(Timeout) /\ Len(c) = p
      BY <2>4 DEF c
    <3>3. Len(c \o b) = Len(list) + 1 /\ c \o b \in Seq(Timeout)
      BY <1>2, <3>1, <3>2
    <3>4. \A k \in 1..p : (c \o b)[k] = c[k]
      BY <1>2, <3>1, <3>2
    <3>5. ASSUME NEW k \in (p + 1)..(Len(list) + 1) PROVE (c \o b)[k] = list[k - 1]
      <4>1. (c \o b)[k] = b[k - p]
        BY <1>2, <3>1, <3>2
      <4>2. k - p \in 1..(Len(list) + 1 - p) /\ p + (k - p) - 1 = k - 1
        BY <1>2
      <4>3. b[k - p] = list[p + (k - p) - 1]
        BY <3>1, <4>2
      <4>4. QED
        BY <4>1, <4>2, <4>3
    <3>6. QED
      BY <3>3, <3>4, <3>5
  <2>6. timeout' = c \o b
    BY <1>1 DEF InsertAt, a, b, c
  <2>7. ASSUME NEW k \in 1..(Len(list) + 1)
        PROVE  timeout'[k] = IF k < p THEN list[k] ELSE IF k = p THEN new ELSE list[k - 1]
    <3>1. CASE k \in 1..(p - 1)
      <4>1. k \in 1..p /\ k < p
        BY <1>2, <3>1
      <4>2. QED
        BY <2>4, <2>5, <2>6, <3>1, <4>1 DEF c
    <3>2. CASE k = p
      <4>1. p \in 1..p
        BY <1>2
      <4>2. QED
        BY <2>4, <2>5, <2>6, <3>2, <4>1 DEF c
    <3>3. CASE k \in (p + 1)..(Len(list) + 1)
      BY <1>2, <2>5, <2>6, <3>3
    <3>4. QED
      BY <1>2, <3>1, <3>2, <3>3
  <2>8. QED
    BY <2>5, <2>6, <2>7
<1>4. \A k \in 1..Len(list) : list[k].due \in Int
  <2>1. \A x \in Timeout : x.due \in Int
    BY DEF Timeout
  <2>2. \A k \in 1..Len(list) : list[k] \in Timeout
    OBVIOUS
  <2>3. QED
    BY <2>1, <2>2
<1>5. ASSUME NEW j \in 1..(Len(list) + 1), NEW k \in 1..(Len(list) + 1), j < k
      PROVE  timeout'[j].due <= timeout'[k].due
  <2>1. new.due \in Int
    BY DEF Timeout
  <2>2. CASE k < p
    BY <1>2, <1>3, <1>5, <2>2 DEF InOrder
  <2>3. CASE k = p
    <3>1. timeout'[j] = list[j] /\ timeout'[k] = new /\ j \in 1..(p - 1)
      BY <1>2, <1>3, <1>5, <2>3
    <3>2. QED
      BY <1>1, <3>1
  <2>4. CASE p < k
    <3>1. k - 1 \in 1..Len(list) /\ p <= k - 1 /\ p \in 1..Len(list)
      BY <1>2, <2>4
    <3>2. timeout'[k] = list[k - 1]
      BY <1>2, <1>3, <2>4
    <3>3. list[p].due <= list[k - 1].due
      BY <1>2, <1>4, <3>1 DEF InOrder
    <3>4. CASE j = p
      <4>1. timeout'[j] = new
        BY <1>2, <1>3, <3>4
      <4>2. new.due < list[p].due
        BY <1>1, <3>1
      <4>3. list[p].due \in Int /\ list[k - 1].due \in Int
        BY <1>4, <3>1
      <4>4. QED
        BY <2>1, <3>2, <3>3, <4>1, <4>2, <4>3
    <3>5. CASE j < p
      <4>1. timeout'[j] = list[j] /\ j < k - 1 /\ j \in 1..Len(list)
        BY <1>2, <1>3, <2>4, <3>1, <3>5
      <4>2. QED
        BY <3>1, <3>2, <4>1 DEF InOrder
    <3>6. CASE p < j
      <4>1. timeout'[j] = list[j - 1] /\ j - 1 < k - 1 /\ j - 1 \in 1..Len(list)
        BY <1>2, <1>3, <1>5, <3>6
      <4>2. QED
        BY <3>1, <3>2, <4>1 DEF InOrder
    <3>7. QED
      BY <1>2, <3>4, <3>5, <3>6
  <2>5. QED
    BY <1>2, <2>2, <2>3, <2>4
<1>6. QED
  BY <1>3, <1>5 DEF InOrder

(* What is left of a list without the element at p *)
LEMMA JoinLength ==
  ASSUME NEW T, NEW a \in Seq(T), NEW b \in Seq(T)
  PROVE  Len(a \o b) = Len(a) + Len(b)
OBVIOUS

LEMMA Removed ==
  ASSUME NEW T, NEW list \in Seq(T), NEW p \in 1..Len(list)
  PROVE  /\ RemoveAt(list, p) \in Seq(T)
         /\ Len(RemoveAt(list, p)) = Len(list) - 1
         /\ \A k \in 1..(Len(list) - 1) :
              RemoveAt(list, p)[k] = list[IF k < p THEN k ELSE k + 1]
<1> DEFINE a == SubSeq(list, 1, p - 1)
           b == SubSeq(list, p + 1, Len(list))
<1>0. Len(list) \in Nat /\ p \in Nat
  OBVIOUS
<1>1. /\ a \in Seq(T) /\ Len(a) = p - 1
      /\ \A k \in 1..(p - 1) : a[k] = list[k]
  BY <1>0
<1>2. /\ b \in Seq(T) /\ Len(b) = Len(list) - p
      /\ \A k \in 1..(Len(list) - p) : b[k] = list[p + k]
  BY <1>0
<1> HIDE DEF a, b
<1>3. /\ a \o b \in Seq(T) /\ Len(a \o b) = Len(list) - 1
      /\ \A k \in 1..(p - 1) : (a \o b)[k] = a[k]
      /\ \A k \in p..(Len(list) - 1) : (a \o b)[k] = b[k - (p - 1)]
  <2>1. a \o b \in Seq(T) /\ Len(a \o b) = Len(list) - 1
    <3>1. a \o b \in Seq(T)
      BY <1>1, <1>2
    <3>2. Len(a \o b) = Len(a) + Len(b)
      BY <1>1, <1>2, JoinLength
    <3>3. (p - 1) + (Len(list) - p) = Len(list) - 1
      BY <1>0
    <3>4. QED
      BY <1>1, <1>2, <3>1, <3>2, <3>3
  <2>2. \A k \in 1..(p - 1) : (a \o b)[k] = a[k]
    BY <1>0, <1>1, <1>2
  <2>3. ASSUME NEW k \in p..(Len(list) - 1) PROVE (a \o b)[k] = b[k - (p - 1)]
    <3>1. k \in 1..(Len(a) + Len(b)) /\ ~(k <= Len(a)) /\ k - Len(a) = k - (p - 1)
      BY <1>0, <1>1, <1>2
    <3>2. QED
      BY <1>1, <1>2, <3>1
  <2>4. QED
    BY <2>1, <2>2, <2>3
<1>4. ASSUME NEW k \in 1..(Len(list) - 1)
      PROVE  (a \o b)[k] = list[IF k < p THEN k ELSE k + 1]
  <2>1. CASE k \in 1..(p - 1)
    BY <1>0, <1>1, <1>3, <2>1
  <2>2. CASE k \in p..(Len(list) - 1)
    <3>1. k - (p - 1) \in 1..(Len(list) - p) /\ p + (k - (p - 1)) = k + 1 /\ ~(k < p)
      BY <1>0, <2>2
    <3>2. (a \o b)[k] = list[k + 1]
      BY <1>0, <1>2, <1>3, <2>2, <3>1
    <3>3. QED
      BY <3>1, <3>2
  <2>3. QED
    <3>1. k \in 1..(p - 1) \/ k \in p..(Len(list) - 1)
      BY <1>0
    <3>2. QED
      BY <2>1, <2>2, <3>1
<1>5. RemoveAt(list, p) = a \o b
  BY DEF RemoveAt, a, b
<1>6. QED
  BY <1>3, <1>4, <1>5

(* A timeout taken out of the list leaves it in order. *)
LEMMA RemovedInOrder ==
  ASSUME NEW list \in Seq(Timeout), InOrder(list), NEW p \in 1..Len(list)
  PROVE  RemoveAt(list, p) \in Seq(Timeout) /\ InOrder(RemoveAt(list, p))
<1> DEFINE new == RemoveAt(list, p)
<1>1. /\ new \in Seq(Timeout)
      /\ Len(new) = Len(list) - 1
      /\ \A k \in 1..(Len(list) - 1) : new[k] = list[IF k < p THEN k ELSE k + 1]
  BY Removed
<1> HIDE DEF new
<1>2. ASSUME NEW j \in 1..Len(new), NEW k \in 1..Len(new), j < k
      PROVE  new[j].due <= new[k].due
  <2> DEFINE J == IF j < p THEN j ELSE j + 1
             K == IF k < p THEN k ELSE k + 1
  <2>1. J \in 1..Len(list) /\ K \in 1..Len(list) /\ J < K
    BY <1>1, <1>2
  <2>2. new[j] = list[J] /\ new[k] = list[K]
    BY <1>1
  <2> HIDE DEF J, K
  <2>3. QED
    BY <2>1, <2>2 DEF InOrder
<1>3. QED
  BY <1>1, <1>2 DEF InOrder, new

(* The handlers' calls keep the list in order; the rest of the loop takes   *)
(* the first timeout off it, or leaves it as it is.                         *)
LEMMA TimeoutStarts == Init => TimeoutInv
<1> SUFFICES ASSUME Init PROVE TimeoutInv
  OBVIOUS
<1>1. timeout \in Seq(Timeout) /\ \A k \in 1..Len(timeout) : FALSE
  BY DEF Init
<1>2. clock \in 0..MaxTime
  BY EloopAssumption DEF EloopAssumption, Init
<1>3. QED
  BY <1>1, <1>2 DEF Init, TimeoutInv, InOrder

LEMMA TimeoutCalls ==
  ASSUME TimeoutInv, Handler
  PROVE  timeout' \in Seq(Timeout) /\ InOrder(timeout') /\ clock' = clock
<1> USE DEF TimeoutInv
<1>1. CASE UNCHANGED <<timeout, clock>>
  BY <1>1
<1>2. ASSUME NEW id \in Timeouts, NEW ticks \in 0..MaxTime, clock + ticks <= MaxTime
      PROVE  [due |-> clock + ticks, id |-> id] \in Timeout
  BY <1>2, EloopAssumption DEF EloopAssumption, Timeout
<1>3. ASSUME NEW id \in Timeouts, NEW ticks \in 0..MaxTime, register_timeout(id, ticks)
      PROVE  timeout' \in Seq(Timeout) /\ InOrder(timeout') /\ clock' = clock
  BY <1>2, <1>3, InsertInOrder DEF register_timeout
<1>4. ASSUME NEW id \in Timeouts, NEW ticks \in 0..MaxTime, Reset(id, ticks)
      PROVE  timeout' \in Seq(Timeout) /\ InOrder(timeout') /\ clock' = clock
  BY <1>2, <1>4, CancelledInOrder, InsertInOrder DEF Reset
<1>5. ASSUME NEW id \in Timeouts, cancel_timeout(id)
      PROVE  timeout' \in Seq(Timeout) /\ InOrder(timeout') /\ clock' = clock
  BY <1>5, CancelledInOrder DEF cancel_timeout
<1>6. ASSUME NEW id \in Timeouts, cancel_timeout_one(id)
      PROVE  timeout' \in Seq(Timeout) /\ InOrder(timeout') /\ clock' = clock
  <2>1. PICK p \in DOMAIN timeout : timeout' = RemoveAt(timeout, p)
    BY <1>6 DEF cancel_timeout_one, First
  <2>2. p \in 1..Len(timeout) /\ clock' = clock
    BY <1>6 DEF cancel_timeout_one
  <2>3. QED
    BY <2>1, <2>2, RemovedInOrder
<1>7. QED
  BY <1>1, <1>3, <1>4, <1>5, <1>6
     DEF Handler, register_sock, unregister_sock, deplete_timeout, replenish_timeout,
         eloop_terminate

LEMMA TimeoutKept == Loop /\ TimeoutInv /\ [Next]_eloopVars => TimeoutInv'
<1> SUFFICES ASSUME Loop, TimeoutInv, [Next]_eloopVars PROVE TimeoutInv'
  OBVIOUS
<1>1. ASSUME UNCHANGED <<timeout, until>>, clock' \in 0..MaxTime,
             pc' = "select" => pc = "select"
      PROVE  TimeoutInv'
  BY <1>1 DEF TimeoutInv, InOrder
<1>2. CASE UNCHANGED eloopVars
  BY <1>1, <1>2 DEF eloopVars, eloop, place, TimeoutInv
<1>3. CASE Handler
  <2>1. pc # "select" /\ UNCHANGED place
    BY <1>3
       DEF Loop, Handler, Calls, register_sock, unregister_sock, register_timeout,
           cancel_timeout, cancel_timeout_one, deplete_timeout, replenish_timeout, Reset, eloop_terminate
  <2>2. QED
    BY <1>3, <2>1, TimeoutCalls DEF TimeoutInv, place
<1>4. CASE \E s \in Range(Signals) : handle_signal(s)
  BY <1>1, <1>4 DEF handle_signal, EndSelect, place, TimeoutInv
<1>5. CASE handle_alarm \/ Run \/ SelectFails \/ Return
  BY <1>1, <1>5 DEF handle_alarm, Run, SelectFails, Return, eloop, TimeoutInv
<1>6. CASE Tick
  <2>1. clock' \in 0..MaxTime
    BY <1>6, EloopAssumption DEF EloopAssumption, Tick, TimeoutInv
  <2>2. QED
    BY <1>1, <1>6, <2>1 DEF Tick, eloop, place
<1>7. ASSUME NEW name \in Names, NEW s \in Socks, Arrive(name, s) PROVE TimeoutInv'
  BY <1>1, <1>7 DEF Arrive, eloop, place, TimeoutInv
<1>8. CASE Top \/ SelectReturns
  BY <1>1, <1>8 DEF Top, SelectReturns, EndSelect, TimeoutInv
<1>9. CASE Enter
  <2>1. UNCHANGED <<timeout, clock>> /\ until' = IF timeout = <<>> THEN Never ELSE Head(timeout).due
    BY <1>9 DEF Enter
  <2>2. \A k \in 1..Len(timeout) : until' <= timeout[k].due
    <3> SUFFICES ASSUME NEW k \in 1..Len(timeout) PROVE until' <= timeout[k].due
      OBVIOUS
    <3>1. /\ timeout \in Seq(Timeout) /\ timeout # <<>> /\ Head(timeout) = timeout[1]
          /\ 1 \in 1..Len(timeout) /\ timeout[1] \in Timeout
      BY DEF TimeoutInv
    <3>2. timeout[1].due \in Int
      BY <3>1 DEF Timeout
    <3>3. timeout[1].due <= timeout[k].due
      BY <3>1, <3>2 DEF TimeoutInv, InOrder
    <3>4. QED
      BY <2>1, <3>1, <3>3
  <2>3. QED
    BY <2>1, <2>2 DEF TimeoutInv, InOrder
<1>10. CASE Process \/ ClearAlarm \/ EachSignal
  BY <1>1, <1>10 DEF Process, ClearAlarm, EachSignal, Loop, TimeoutInv
<1>11. CASE FireTimeout
  <2>1. CASE timeout' = timeout
    BY <1>1, <1>11, <2>1 DEF FireTimeout, TimeoutInv
  <2>2. CASE timeout # <<>> /\ timeout' = Tail(timeout)
    <3>1. timeout \in Seq(Timeout) /\ pc' = "check" /\ clock' = clock
      BY <1>11 DEF FireTimeout, TimeoutInv
    <3>2. /\ timeout' \in Seq(Timeout) /\ Len(timeout') = Len(timeout) - 1
          /\ \A k \in 1..Len(timeout') : timeout'[k] = timeout[k + 1]
      BY <2>2, <3>1
    <3>3. \A k \in 1..Len(timeout') : k + 1 \in 1..Len(timeout)
      BY <3>1, <3>2
    <3>4. InOrder(timeout')
      BY <3>1, <3>2, <3>3 DEF TimeoutInv, InOrder
    <3>5. QED
      BY <3>1, <3>2, <3>4 DEF TimeoutInv
  <2>3. QED
    BY <1>11, <2>1, <2>2 DEF FireTimeout
<1>12. CASE Check \/ Dispatch \/ NextTable
  BY <1>1, <1>12 DEF Check, Dispatch, NextTable, At, eloop, TimeoutInv
<1>13. CASE eloop_destroy
  <2>1. timeout' \in Seq(Timeout) /\ \A k \in 1..Len(timeout') : FALSE
    BY <1>13 DEF eloop_destroy
  <2>2. clock' = clock /\ pc' = "destroyed"
    BY <1>13 DEF eloop_destroy
  <2>3. QED
    BY <2>1, <2>2 DEF TimeoutInv, InOrder
<1>14. QED
  BY <1>2, <1>3, <1>4, <1>5, <1>6, <1>7, <1>8, <1>9, <1>10, <1>11, <1>12, <1>13
     DEF Next, eloop_run

(* Whatever the handlers register and cancel, the first timeout is the       *)
(* earliest, and select ends in time for all of them (eloop.c:800-807,       *)
(* 822-842, 1101-1136).                                                      *)
THEOREM EarliestTimeoutFirst == Spec => []TimeoutsInOrder
<1>1. TimeoutInv => TimeoutsInOrder
  <2> SUFFICES ASSUME TimeoutInv PROVE TimeoutsInOrder
    OBVIOUS
  <2>1. timeout \in Seq(Timeout) /\ DOMAIN timeout = 1..Len(timeout) /\ Len(timeout) \in Nat
    BY DEF TimeoutInv
  <2>2. \A k \in 1..(Len(timeout) - 1) :
          k \in 1..Len(timeout) /\ k + 1 \in 1..Len(timeout) /\ k < k + 1
    BY <2>1
  <2>3. QED
    BY <2>1, <2>2 DEF TimeoutInv, InOrder, TimeoutsInOrder
<1>2. QED
  BY <1>1, LoopStarts, LoopKept, TimeoutStarts, TimeoutKept, PTL DEF Spec

-----------------------------------------------------------------------------
(* The sockets.  No entry of an innocent table is by a handler that may run *)
(* between select and the dispatch of the table.                            *)
Innocent(n) == \A k \in 1..Len(table[n]) : table[n][k].by \notin {"signal", "timeout", n}

Tabled ==
  /\ DOMAIN table = Names
  /\ \A n \in Names : table[n] \in Seq(Entry)
  /\ changed \in [Names -> BOOLEAN]

AfterSelect ==
  \/ pc \in {"signals", "alarm", "pending", "each"} /\ back = "timeout"
  \/ pc \in {"timeout", "check"}

SocketInv ==
  /\ Loop /\ Tabled /\ i \in Nat \ {0}
  /\ pc = "select" => \A n \in Names : Innocent(n)
  /\ AfterSelect => \A n \in Names : changed[n] \/ Innocent(n)
  /\ pc = "dispatch" =>
       \A m \in t..Len(Tables) : (m = t /\ changed[Tables[m]]) \/ Innocent(Tables[m])
  /\ handler \in Names => by \notin {"signal", "timeout", handler}
(* Adding an entry to a table, and removing one from it *)
LEMMA EntryAdded ==
  ASSUME NEW list \in Seq(Entry), NEW e \in Entry
  PROVE  /\ Append(list, e) \in Seq(Entry)
         /\ \A k \in 1..Len(Append(list, e)) :
              Append(list, e)[k] = e \/ \E j \in 1..Len(list) : Append(list, e)[k] = list[j]
OBVIOUS

LEMMA EntryRemoved ==
  ASSUME NEW list \in Seq(Entry), NEW p \in 1..Len(list)
  PROVE  /\ RemoveAt(list, p) \in Seq(Entry)
         /\ \A k \in 1..Len(RemoveAt(list, p)) :
              \E j \in 1..Len(list) : RemoveAt(list, p)[k] = list[j]
<1>1. /\ RemoveAt(list, p) \in Seq(Entry)
      /\ Len(RemoveAt(list, p)) = Len(list) - 1
      /\ \A k \in 1..(Len(list) - 1) :
           RemoveAt(list, p)[k] = list[IF k < p THEN k ELSE k + 1]
  BY Removed
<1>2. \A k \in 1..(Len(list) - 1) : (IF k < p THEN k ELSE k + 1) \in 1..Len(list)
  OBVIOUS
<1>3. QED
  BY <1>1, <1>2

LEMMA SocketStarts == Init => SocketInv
<1> SUFFICES ASSUME Init PROVE SocketInv
  OBVIOUS
<1>1. Tabled
  <2>1. <<>> \in Seq(Entry)
    OBVIOUS
  <2>2. QED
    BY <2>1 DEF Init, Tabled
<1>2. handler \notin Names
  BY NamesAre DEF Init
<1>3. QED
  BY <1>1, <1>2, LoopStarts DEF Init, SocketInv, AfterSelect

(* The position in the table or in the signals *)
LEMMA PositionKept == SocketInv /\ [Next]_eloopVars => i' \in Nat \ {0}
<1> SUFFICES ASSUME SocketInv, [Next]_eloopVars PROVE i' \in Nat \ {0}
  OBVIOUS
<1>0. i \in Nat \ {0} /\ i + 1 \in Nat \ {0}
  BY DEF SocketInv
<1>1. ASSUME i' \in {i, i + 1, 1} PROVE i' \in Nat \ {0}
  BY <1>0, <1>1
<1>2. CASE UNCHANGED eloopVars \/ Handler
  BY <1>1, <1>2
     DEF eloopVars, place, Handler, register_sock, unregister_sock, register_timeout,
         cancel_timeout, cancel_timeout_one, deplete_timeout, replenish_timeout, Reset, eloop_terminate
<1>3. CASE \E s \in Range(Signals) : handle_signal(s)
  BY <1>1, <1>3 DEF handle_signal, EndSelect, place
<1>4. CASE handle_alarm \/ Tick \/ \E name \in Names, s \in Socks : Arrive(name, s)
  BY <1>1, <1>4 DEF handle_alarm, Tick, Arrive, place
<1>5. CASE Run \/ Top \/ Enter \/ SelectReturns \/ SelectFails \/ Return \/ eloop_destroy
  BY <1>1, <1>5
     DEF Run, Top, Enter, SelectReturns, EndSelect, SelectFails, Return, eloop_destroy, place
<1>6. CASE Process \/ ClearAlarm \/ EachSignal \/ FireTimeout
  BY <1>1, <1>6 DEF Process, ClearAlarm, EachSignal, FireTimeout
<1>7. CASE Check \/ NextTable
  BY <1>1, <1>7 DEF Check, NextTable
<1>8. CASE Dispatch
  <2>1. PICK k \in Found : i' = k + 1
    BY <1>8 DEF Dispatch
  <2>2. pc = "dispatch"
    BY <1>8 DEF Dispatch, At
  <2>3. table[Tables[t]] \in Seq(Entry)
    BY <2>2, NamesAre DEF SocketInv, Loop, Tabled
  <2>4. Len(table[Tables[t]]) \in Nat
    BY <2>3
  <2>5. k \in Nat
    BY <2>1, <2>4, <1>0 DEF Found
  <2>6. QED
    BY <2>1, <2>5
<1>9. QED
  BY <1>2, <1>3, <1>4, <1>5, <1>6, <1>7, <1>8 DEF Next, eloop_run

(* A handler's call changes one table, and says so. *)
LEMMA SocketCalls ==
  ASSUME SocketInv, Handler, pc # "killed"
  PROVE  SocketInv'
<1>1. Loop'
  BY LoopKept DEF SocketInv, Next
<1>2. UNCHANGED place /\ handler # NoHandler
  BY DEF Handler, Calls, register_sock, unregister_sock, register_timeout, cancel_timeout,
         cancel_timeout_one, deplete_timeout, replenish_timeout, Reset, eloop_terminate
<1>3. CASE UNCHANGED tables
  BY <1>1, <1>2, <1>3
     DEF SocketInv, tables, place, Tabled, AfterSelect, Innocent
<1>4. ASSUME NEW n \in Names, DOMAIN table' = Names, table'[n] \in Seq(Entry),
             \A k \in 1..Len(table'[n]) :
               \/ table'[n][k].by = handler
               \/ \E j \in 1..Len(table[n]) : table'[n][k] = table[n][j],
             \A m \in Names \ {n} : table'[m] = table[m],
             changed' = [changed EXCEPT ![n] = TRUE]
      PROVE  SocketInv'
  <2>1. Tabled'
    BY <1>4 DEF SocketInv, Tabled
  <2>2. \A m \in Names : changed'[m] = IF m = n THEN TRUE ELSE changed[m]
    BY <1>4 DEF SocketInv, Tabled
  <2>3. \A m \in Names \ {n} : Innocent(m) => Innocent(m)'
    BY <1>4 DEF Innocent
  <2>4. pc # "select"
    BY <1>2 DEF SocketInv, Loop
  <2>5. AfterSelect' => \A m \in Names : changed'[m] \/ Innocent(m)'
    BY <1>2, <2>2, <2>3 DEF SocketInv, AfterSelect, place
  <2>6. ASSUME pc = "dispatch", NEW m \in t..Len(Tables)
        PROVE  (m = t /\ changed'[Tables[m]]) \/ Innocent(Tables[m])'
    <3>1. t \in 1..Len(Tables) /\ m \in 1..Len(Tables) /\ handler = Tables[t]
      BY <1>2, <2>6 DEF SocketInv, Loop
    <3>2. Tables[m] \in Names /\ Tables[t] \in Names
      BY <3>1, NamesAre
    <3>3. CASE m = t
      BY <2>2, <2>3, <2>6, <3>1, <3>2, <3>3 DEF SocketInv
    <3>4. CASE m # t
      <4>1. Innocent(Tables[m]) /\ Tables[m] # Tables[t]
        BY <2>6, <3>1, <3>4, EloopAssumption DEF SocketInv, EloopAssumption
      <4>2. handler \notin {"signal", "timeout", Tables[m]}
        BY <3>1, <3>2, <4>1, NamesAre
      <4>3. CASE Tables[m] = n
        BY <1>4, <4>1, <4>2, <4>3 DEF Innocent
      <4>4. CASE Tables[m] # n
        BY <2>3, <3>2, <4>1, <4>4
      <4>5. QED
        BY <4>3, <4>4
    <3>5. QED
      BY <3>3, <3>4
  <2>7. QED
    BY <1>1, <1>2, <2>1, <2>4, <2>5, <2>6 DEF SocketInv, place
<1>5. ASSUME NEW n \in Names, NEW s \in Socks, register_sock(n, s) PROVE SocketInv'
  <2> DEFINE e == [sock |-> s, by |-> handler]
  <2>1. e \in Entry
    BY <1>2 DEF SocketInv, Loop, Entry, Registrars
  <2>2. table[n] \in Seq(Entry) /\ DOMAIN table = Names
    BY DEF SocketInv, Tabled
  <2>3. /\ DOMAIN table' = Names /\ table'[n] = Append(table[n], e)
        /\ \A m \in Names \ {n} : table'[m] = table[m]
        /\ changed' = [changed EXCEPT ![n] = TRUE]
    BY <1>5, <2>2 DEF register_sock
  <2>4. e.by = handler
    OBVIOUS
  <2> HIDE DEF e
  <2>5. /\ table'[n] \in Seq(Entry)
        /\ \A k \in 1..Len(table'[n]) :
             table'[n][k] = e \/ \E j \in 1..Len(table[n]) : table'[n][k] = table[n][j]
    BY <2>1, <2>2, <2>3, EntryAdded
  <2>6. \A k \in 1..Len(table'[n]) :
          table'[n][k].by = handler \/ \E j \in 1..Len(table[n]) : table'[n][k] = table[n][j]
    BY <2>4, <2>5
  <2>7. QED
    BY <1>4, <2>3, <2>5, <2>6
<1>6. ASSUME NEW n \in Names, NEW s \in Socks, unregister_sock(n, s) PROVE SocketInv'
  <2>1. table[n] \in Seq(Entry) /\ DOMAIN table[n] = 1..Len(table[n]) /\ DOMAIN table = Names
    BY DEF SocketInv, Tabled
  <2>2. PICK p \in 1..Len(table[n]) : table' = [table EXCEPT ![n] = RemoveAt(@, p)]
    BY <1>6, <2>1 DEF unregister_sock
  <2>3. /\ DOMAIN table' = Names /\ table'[n] = RemoveAt(table[n], p)
        /\ \A m \in Names \ {n} : table'[m] = table[m]
        /\ changed' = [changed EXCEPT ![n] = TRUE]
    BY <1>6, <2>1, <2>2 DEF unregister_sock
  <2>4. /\ table'[n] \in Seq(Entry)
        /\ \A k \in 1..Len(table'[n]) :
             \E j \in 1..Len(table[n]) : table'[n][k] = table[n][j]
    <3>1. /\ RemoveAt(table[n], p) \in Seq(Entry)
          /\ \A k \in 1..Len(RemoveAt(table[n], p)) :
               \E j \in 1..Len(table[n]) : RemoveAt(table[n], p)[k] = table[n][j]
      BY <2>1, EntryRemoved
    <3>2. QED
      BY <2>3, <3>1
  <2>5. \A k \in 1..Len(table'[n]) :
          table'[n][k].by = handler \/ \E j \in 1..Len(table[n]) : table'[n][k] = table[n][j]
    BY <2>4
  <2>6. QED
    BY <1>4, <2>3, <2>4, <2>5
<1>7. QED
  BY <1>3, <1>5, <1>6
     DEF Handler, register_timeout, cancel_timeout, cancel_timeout_one, deplete_timeout, replenish_timeout,
         Reset, eloop_terminate

(* The steps that neither change an entry nor clear a flag *)
LEMMA SocketStays ==
  ASSUME SocketInv, Loop', UNCHANGED <<table, changed, t>>, i' \in Nat \ {0},
         handler' \in Names => handler' = handler /\ by' = by,
         pc' = "select" => pc = "select",
         AfterSelect' => AfterSelect \/ pc = "select",
         pc' = "dispatch" => pc = "dispatch"
  PROVE  SocketInv'
<1>1. Tabled'
  BY DEF SocketInv, Tabled
<1>2. \A n \in Names : Innocent(n)' <=> Innocent(n)
  BY DEF Innocent
<1>3. ASSUME pc = "dispatch", NEW m \in t..Len(Tables)
      PROVE  (m = t /\ changed'[Tables[m]]) \/ Innocent(Tables[m])'
  <2>1. Tables[m] \in Names
    BY <1>3, NamesAre DEF SocketInv, Loop
  <2>2. QED
    BY <1>2, <1>3, <2>1 DEF SocketInv
<1>4. QED
  BY <1>1, <1>2, <1>3 DEF SocketInv

(* When select ends, the tables are as they were when it began. *)
LEMMA SocketSelected ==
  ASSUME SocketInv, Loop', i' \in Nat \ {0}, pc = "select", NEW found, EndSelect(found), table' = table
  PROVE  SocketInv'
<1>1. handler' \notin Names /\ pc' = "signals" /\ changed' = [n \in Names |-> FALSE]
  BY NamesAre DEF SocketInv, Loop, EndSelect, NoHandler
<1>2. QED
  BY <1>1 DEF SocketInv, Tabled, Innocent

LEMMA SocketKept == SocketInv /\ [Next]_eloopVars => SocketInv'
<1> SUFFICES ASSUME SocketInv, [Next]_eloopVars PROVE SocketInv'
  OBVIOUS
<1>0. Loop /\ Loop' /\ i' \in Nat \ {0}
  BY LoopKept, PositionKept DEF SocketInv
<1>1. CASE UNCHANGED eloopVars
  BY <1>0, <1>1, SocketStays DEF eloopVars, eloop, tables, place, AfterSelect
<1>2. CASE Handler /\ pc # "killed"
  BY <1>2, SocketCalls
<1>3. ASSUME NEW s \in Range(Signals), handle_signal(s) PROVE SocketInv'
  <2>1. CASE pc = "select"
    BY <1>0, <1>3, <2>1, SocketSelected DEF handle_signal
  <2>2. CASE pc # "select"
    BY <1>0, <1>3, <2>2, SocketStays DEF handle_signal, place, AfterSelect
  <2>3. QED
    BY <2>1, <2>2
<1>4. CASE handle_alarm \/ Tick
  BY <1>0, <1>4, SocketStays DEF handle_alarm, Tick, eloop, tables, place, AfterSelect
<1>5. ASSUME NEW name \in Names, NEW s \in Socks, Arrive(name, s) PROVE SocketInv'
  BY <1>0, <1>5, SocketStays DEF Arrive, eloop, tables, place, AfterSelect
<1>6. CASE Run \/ Top \/ SelectFails \/ Return
  BY <1>0, <1>6, SocketStays, NamesAre
     DEF Run, Top, SelectFails, Return, At, NoHandler, eloop, tables, AfterSelect
<1>7. CASE Enter
  <2>1. /\ table' = [n \in Names |->
                      [k \in DOMAIN table[n] |-> [table[n][k] EXCEPT !.by = Earlier]]]
        /\ pc' = "select" /\ changed' = changed /\ handler' \notin Names
    BY <1>0, <1>7, NamesAre DEF Enter, Loop, At, NoHandler
  <2>2. ASSUME NEW n \in Names PROVE table'[n] \in Seq(Entry) /\ Innocent(n)'
    <3>1. table[n] \in Seq(Entry) /\ DOMAIN table[n] = 1..Len(table[n])
      BY DEF SocketInv, Tabled
    <3>2. \A k \in 1..Len(table[n]) :
            /\ table[n][k] \in Entry
            /\ table'[n][k] = [table[n][k] EXCEPT !.by = Earlier]
      BY <2>1, <3>1
    <3>3. \A e \in Entry : /\ [e EXCEPT !.by = Earlier] \in Entry
                           /\ [e EXCEPT !.by = Earlier].by = Earlier
      BY DEF Entry, Registrars
    <3>4. /\ table'[n] = [k \in 1..Len(table[n]) |-> [table[n][k] EXCEPT !.by = Earlier]]
          /\ Len(table[n]) \in Nat
      BY <2>1, <3>1
    <3>5. table'[n] \in Seq(Entry) /\ Len(table'[n]) = Len(table[n])
      <4>1. \A k \in 1..Len(table[n]) : [table[n][k] EXCEPT !.by = Earlier] \in Entry
        BY <3>2, <3>3
      <4> DEFINE g == [k \in 1..Len(table[n]) |-> [table[n][k] EXCEPT !.by = Earlier]]
      <4>2. g \in [1..Len(table[n]) -> Entry] /\ DOMAIN g = 1..Len(table[n])
        BY <4>1
      <4> HIDE DEF g
      <4>3. g \in Seq(Entry) /\ Len(g) = Len(table[n])
        BY <3>4, <4>2
      <4>4. table'[n] = g
        BY <3>4 DEF g
      <4>5. QED
        BY <4>3, <4>4
    <3>6. Earlier \notin {"signal", "timeout", n}
      BY NamesAre DEF Earlier
    <3>7. \A k \in 1..Len(table'[n]) : table'[n][k].by = Earlier
      BY <3>2, <3>3, <3>5
    <3>8. QED
      BY <3>5, <3>6, <3>7 DEF Innocent
  <2>3. QED
    BY <1>0, <2>1, <2>2 DEF SocketInv, Tabled, AfterSelect
<1>8. CASE SelectReturns
  BY <1>0, <1>8, SocketSelected DEF SelectReturns, At
<1>9. CASE Process \/ ClearAlarm \/ EachSignal
  BY <1>0, <1>9, SocketStays, NamesAre
     DEF Process, ClearAlarm, EachSignal, At, Loop, NoHandler, tables, AfterSelect
<1>10. CASE FireTimeout
  BY <1>0, <1>10, SocketStays, NamesAre DEF FireTimeout, At, NoHandler, tables, AfterSelect
<1>11. CASE Check
  <2>1. CASE pc' = "top"
    BY <1>0, <1>11, <2>1, SocketStays, NamesAre DEF Check, At, NoHandler, AfterSelect
  <2>2. CASE pc' = "dispatch"
    <3>1. /\ \A n \in Names : ~changed[n]
          /\ table' = table /\ t' = 1 /\ handler' \notin Names /\ pc = "check"
          /\ changed' = [changed EXCEPT ![Tables[1]] = FALSE]
      BY <1>11, <2>2, NamesAre DEF Check, At, NoHandler
    <3>2. \A n \in Names : Innocent(n)
      BY <3>1 DEF SocketInv, AfterSelect
    <3>3. \A m \in 1..Len(Tables) : Innocent(Tables[m])'
      BY <3>1, <3>2, NamesAre DEF Innocent
    <3>4. QED
      BY <1>0, <2>2, <3>1, <3>3 DEF SocketInv, Tabled, AfterSelect
  <2>3. QED
    BY <1>11, <2>1, <2>2 DEF Check
<1>12. CASE Dispatch
  <2>1. PICK k \in Found :
          handler' = Tables[t] /\ by' = table[Tables[t]][k].by /\ i' = k + 1
    BY <1>12 DEF Dispatch
  <2>2. /\ pc = "dispatch" /\ ~changed[Tables[t]]
        /\ UNCHANGED <<table, changed, pc, t, back>>
    BY <1>12 DEF Dispatch, At, eloop, tables
  <2>3. t \in 1..Len(Tables) /\ t \in t..Len(Tables)
    BY <1>0, <2>2 DEF Loop
  <2>4. Innocent(Tables[t])
    BY <2>2, <2>3 DEF SocketInv
  <2>5. by' \notin {"signal", "timeout", handler'} /\ i' \in Nat \ {0}
    <3>1. Len(table[Tables[t]]) \in Nat
      BY <2>3, NamesAre DEF SocketInv, Tabled
    <3>2. k \in 1..Len(table[Tables[t]])
      BY <2>1, <3>1 DEF SocketInv, Found
    <3>3. QED
      BY <2>1, <2>4, <3>2 DEF Innocent
  <2>6. \A m \in t..Len(Tables) : (m = t /\ changed'[Tables[m]]) \/ Innocent(Tables[m])'
    BY <2>2 DEF SocketInv, Innocent
  <2>7. QED
    BY <1>0, <2>2, <2>5, <2>6 DEF SocketInv, Tabled, AfterSelect
<1>13. CASE NextTable
  <2>1. CASE pc' = "top"
    BY <1>0, <1>13, <2>1, SocketStays, NamesAre DEF NextTable, At, NoHandler, AfterSelect
  <2>2. CASE pc' = "dispatch"
    <3>1. /\ t' = t + 1 /\ table' = table /\ handler' \notin Names /\ pc = "dispatch"
          /\ changed' = [changed EXCEPT ![Tables[t']] = FALSE]
      BY <1>13, <2>2, NamesAre DEF NextTable, At, NoHandler
    <3>2. t \in 1..Len(Tables)
      BY <1>0, <3>1 DEF Loop
    <3>3. ASSUME NEW m \in t'..Len(Tables) PROVE Innocent(Tables[m])'
      <4>1. m \in t..Len(Tables) /\ m # t
        BY <3>1, <3>2
      <4>2. QED
        BY <3>1, <4>1 DEF SocketInv, Innocent
    <3>4. QED
      BY <1>0, <2>2, <3>1, <3>3 DEF SocketInv, Tabled, AfterSelect
  <2>3. QED
    BY <1>13, <2>1, <2>2 DEF NextTable, At
<1>14. CASE eloop_destroy
  <2>1. <<>> \in Seq(Entry)
    OBVIOUS
  <2>2. /\ table' = [n \in Names |-> <<>>] /\ changed' = changed /\ pc' = "destroyed"
        /\ handler' \notin Names
    BY <1>0, <1>14, NamesAre DEF eloop_destroy, Loop, NoHandler
  <2>3. QED
    BY <1>0, <2>1, <2>2 DEF SocketInv, Tabled, AfterSelect
<1>15. QED
  BY <1>1, <1>2, <1>3, <1>4, <1>5, <1>6, <1>7, <1>8, <1>9, <1>10, <1>11, <1>12, <1>13, <1>14
     DEF Next, eloop_run

-----------------------------------------------------------------------------
(* The types of the other variables *)
Types ==
  /\ {signaled, pending_terminate, terminate, alarm} \subseteq BOOLEAN
  /\ noted \subseteq Range(Signals)
  /\ until \in 0..Never
  /\ timeout \in Seq(Timeout)

LEMMA TypesKept == Types /\ TimeoutInv' /\ Loop /\ [Next]_eloopVars => Types'
<1> SUFFICES ASSUME Types, TimeoutInv', Loop, [Next]_eloopVars PROVE Types'
  OBVIOUS
<1>0. timeout' \in Seq(Timeout)
  BY DEF TimeoutInv
<1>1. ASSUME UNCHANGED <<signals, terminate, until>> PROVE Types'
  BY <1>0, <1>1 DEF Types, signals
<1>2. CASE UNCHANGED eloopVars
  BY <1>1, <1>2 DEF eloopVars, eloop, place
<1>3. CASE Handler
  BY <1>0, <1>3
     DEF Handler, register_sock, unregister_sock, register_timeout, cancel_timeout,
         cancel_timeout_one, deplete_timeout, replenish_timeout, Reset, eloop_terminate, place, signals, Types
<1>4. ASSUME NEW s \in Range(Signals), handle_signal(s) PROVE Types'
  BY <1>0, <1>4 DEF handle_signal, EndSelect, place, Types
<1>5. CASE handle_alarm
  BY <1>0, <1>5 DEF handle_alarm, Types
<1>6. CASE Tick \/ \E name \in Names, s \in Socks : Arrive(name, s)
  BY <1>1, <1>6 DEF Tick, Arrive, eloop, place
<1>7. CASE Run \/ SelectFails \/ Return \/ Dispatch \/ eloop_destroy
  BY <1>1, <1>7 DEF Run, SelectFails, Return, Dispatch, eloop_destroy, eloop, place
<1>8. CASE Top \/ SelectReturns \/ FireTimeout \/ Check \/ NextTable
  BY <1>0, <1>8 DEF Top, SelectReturns, EndSelect, FireTimeout, Check, NextTable, Types, signals
<1>9. CASE Enter
  <2>1. UNCHANGED <<signals, terminate>>
    BY <1>9 DEF Enter
  <2>2. until' \in 0..Never
    <3>1. CASE timeout = <<>>
      BY <1>9, <3>1, EloopAssumption DEF EloopAssumption, Enter, Never
    <3>2. CASE timeout # <<>>
      <4>1. Head(timeout) \in Timeout
        BY <3>2 DEF Types
      <4>2. Head(timeout).due \in 0..MaxTime
        BY <4>1 DEF Timeout
      <4>3. QED
        BY <1>9, <3>2, <4>2, EloopAssumption DEF EloopAssumption, Enter, Never
    <3>3. QED
      BY <3>1, <3>2
  <2>3. QED
    BY <1>0, <2>1, <2>2 DEF Types, signals
<1>10. CASE Process \/ ClearAlarm \/ EachSignal
  BY <1>0, <1>10 DEF Process, ClearAlarm, EachSignal, Types
<1>11. QED
  BY <1>2, <1>3, <1>4, <1>5, <1>6, <1>7, <1>8, <1>9, <1>10 DEF Next, eloop_run

(* A socket that a signal's or a timeout's handler, or a handler of the same *)
(* table, has registered since select is not called for what select reported *)
(* of its number before; and every variable has its type (eloop.c:584-602,   *)
(* 1173-1175, 1199-1210).                                                    *)
THEOREM SocketsNotMistaken == Spec => []NotCalledForAnother
<1>1. Init => Types
  <2> SUFFICES ASSUME Init PROVE Types
    OBVIOUS
  <2>1. <<>> \in Seq(Timeout)
    OBVIOUS
  <2>2. Never \in 0..Never
    BY EloopAssumption DEF EloopAssumption, Never
  <2>3. QED
    BY <2>1, <2>2 DEF Init, Types
<1>2. SocketInv /\ Types => NotCalledForAnother
  <2> SUFFICES ASSUME SocketInv, Types PROVE NotCalledForAnother
    OBVIOUS
  <2>1. TypeOK
    BY DEF TypeOK, SocketInv, Loop, Tabled, Types, Entry, Registrars, Timeout, Places, NoHandler
  <2>2. QED
    BY <2>1 DEF NotCalledForAnother, SocketInv
<1>3. QED
  BY <1>1, <1>2, LoopStarts, LoopKept, TimeoutStarts, TimeoutKept, SocketStarts, SocketKept,
     TypesKept, PTL DEF Spec

-----------------------------------------------------------------------------
(* The configuration program.  A script is a plan: steps in the order that *)
(* config_wifi and scan_results have them.                                 *)
Ops == {"open", "ADD_NETWORK", "ssid", "psk", "SELECT_NETWORK", "STATUS",
        "REMOVE_NETWORK", "SAVE_CONFIG", "RECONFIGURE", "SCAN", "SCAN_RESULTS", "DISCONNECT"}

(* What config_wifi does with the network it has added. *)
OwnSteps == {"ssid", "psk", "SELECT_NETWORK", "STATUS",
             "REMOVE_NETWORK", "SAVE_CONFIG", "RECONFIGURE"}

Follows(op, next) ==
  /\ next = "ssid" => op \in {"ADD_NETWORK", "RECONFIGURE"}
  /\ next = "psk" => op = "ssid"
  /\ next = "SELECT_NETWORK" => op = "psk"
  /\ next = "STATUS" => op = "SELECT_NETWORK"
  /\ next = "SAVE_CONFIG" <=> op = "REMOVE_NETWORK"
  /\ next = "RECONFIGURE" <=> op = "SAVE_CONFIG"
  /\ next # "REMOVE_NETWORK"
  /\ op = "SCAN" => next = "SCAN_RESULTS"

Ordered(steps) ==
  /\ \A j \in 1..(Len(steps) - 1) : Follows(steps[j], steps[j + 1])
  /\ steps # <<>> => steps[Len(steps)] \notin {"SCAN", "REMOVE_NETWORK", "SAVE_CONFIG"}

Plan == {steps \in Seq(Ops) : Ordered(steps) /\ (steps # <<>> => steps[1] \notin OwnSteps)}

(* There are finitely many networks. *)
Numbered == \E last \in Nat : DOMAIN nets \subseteq 0..last

Request == [op : Ops, id : Int, run : Wifi!Runs, from : Nat]
Reply   == [op : Ops, id : Int]

WifiTypes ==
  /\ Numbered
  /\ \A n \in DOMAIN nets : nets[n] \in Wifi!Network
  /\ file \in Seq(Wifi!Network)
  /\ current \in DOMAIN nets \cup {Wifi!NoId}
  /\ requests \in Seq(Request) /\ Len(requests) <= QueueLen
  /\ run \in Wifi!Runs /\ opened \in Nat /\ netid \in Int
  /\ script \in Seq(Ops)
  /\ replies \in Seq(Reply)
  /\ running \in BOOLEAN /\ asked \in BOOLEAN /\ conn \in BOOLEAN
  /\ timely \in BOOLEAN /\ roomy \in BOOLEAN /\ writable \in BOOLEAN /\ listening \in BOOLEAN

(* A request belongs to a connection of this or an earlier run, and only an *)
(* open one has replies or a request that is waited for.                    *)
Connected ==
  /\ asked => running /\ conn /\ script # <<>> /\ script[1] # "open"
  /\ replies # <<>> => running /\ conn
  /\ ~running => script = <<>>
  /\ \A j \in 1..Len(requests) :
       /\ requests[j].run <= run
       /\ requests[j].run = run => requests[j].from <= opened
       /\ requests[j].run = run /\ requests[j].from = opened /\ running => conn

(* As long as every reply came in time, there is one request or reply while *)
(* the program waits and none otherwise, and it is that of the first step.  *)
OneAtATime ==
  timely =>
    /\ Len(requests) + Len(replies) = IF asked THEN 1 ELSE 0
    /\ requests # <<>> =>
         requests[1] = [op |-> script[1], id |-> netid, run |-> run, from |-> opened]
    /\ replies # <<>> => replies[1].op = script[1]
    /\ Ordered(script)
    /\ script # <<>> /\ ~conn => script[1] \notin OwnSteps

Resting == \E k \in 0..(NETWORK_ID_MAX + 1) : DOMAIN nets = 0..(k - 1)

Network(s, p) == [owner |-> run, ssid |-> s, psk |-> p]

(* Network netid is this run's, with ssid s and psk p. *)
Own(s, p) == Resting /\ netid \in DOMAIN nets /\ nets[netid] = Network(s, p)

(* What is the case when a step is next ... *)
Ready(op) ==
  CASE op = "REMOVE_NETWORK" ->
         /\ netid = NETWORK_ID_MAX /\ DOMAIN nets = 0..(NETWORK_ID_MAX + 1)
         /\ nets[NETWORK_ID_MAX + 1] = Network(0, 0)
    [] op = "SAVE_CONFIG" ->
         /\ netid = NETWORK_ID_MAX /\ DOMAIN nets = 1..(NETWORK_ID_MAX + 1)
         /\ nets[NETWORK_ID_MAX + 1] = Network(0, 0)
    [] op = "RECONFIGURE" ->
         /\ netid = NETWORK_ID_MAX
         /\ Len(file) = NETWORK_ID_MAX + 1
         /\ file[NETWORK_ID_MAX + 1] = Network(0, 0)
    [] op = "ssid" -> Own(0, 0)
    [] op = "psk" -> Own(run, 0)
    [] op = "SELECT_NETWORK" -> Own(run, run)
    [] op = "STATUS" -> Own(run, run) /\ current = netid
    [] OTHER -> Resting

(* ... and when it was executed. *)
Executed(op) ==
  CASE op = "ADD_NETWORK" ->
         \E k \in 0..(NETWORK_ID_MAX + 1) :
           DOMAIN nets = 0..k /\ nets[k] = Network(0, 0) /\ replies[1].id = k
    [] op = "REMOVE_NETWORK" -> Ready("SAVE_CONFIG")
    [] op = "SAVE_CONFIG" -> Ready("RECONFIGURE")
    [] op = "RECONFIGURE" -> Ready("ssid")
    [] op = "ssid" -> Ready("psk")
    [] op = "psk" -> Ready("SELECT_NETWORK")
    [] op = "SELECT_NETWORK" -> Ready("STATUS")
    [] OTHER -> Ready(op)

Phase ==
  IF script = <<>> THEN Resting
  ELSE IF replies # <<>> THEN Executed(script[1]) ELSE Ready(script[1])

OwnerSet(net) == net.ssid \in {0, net.owner} /\ net.psk \in {0, net.owner}

NetworksOK ==
  timely /\ writable /\ roomy =>
    /\ \A n \in DOMAIN nets : OwnerSet(nets[n])
    /\ \A j \in 1..Len(file) : OwnerSet(file[j])
    /\ Phase

WifiInv == WifiTypes /\ Connected /\ OneAtATime /\ NetworksOK

(* Sequences of steps put together *)
LEMMA PlansJoin == ASSUME NEW a \in Plan, NEW b \in Plan PROVE a \o b \in Plan
<1>1. /\ a \in Seq(Ops) /\ b \in Seq(Ops) /\ Ordered(a) /\ Ordered(b)
      /\ a # <<>> => a[1] \notin OwnSteps
      /\ b # <<>> => b[1] \notin OwnSteps
      /\ Len(a) \in Nat /\ Len(b) \in Nat
  BY DEF Plan
<1>2. a \o b \in Seq(Ops) /\ Len(a \o b) = Len(a) + Len(b)
  BY <1>1
<1>3. \A j \in 1..Len(a \o b) : (a \o b)[j] = IF j <= Len(a) THEN a[j] ELSE b[j - Len(a)]
  BY <1>1
<1>4. a \o b # <<>> => (a \o b)[1] \notin OwnSteps
  <2>1. a # <<>> => Len(a) > 0
    BY <1>1
  <2>2. a = <<>> => Len(a) = 0
    OBVIOUS
  <2>3. a \o b # <<>> => 1 \in 1..Len(a \o b)
    BY <1>1, <1>2
  <2>4. QED
    BY <1>1, <1>2, <1>3, <2>1, <2>2, <2>3
<1>5. ASSUME NEW j \in 1..(Len(a \o b) - 1) PROVE Follows((a \o b)[j], (a \o b)[j + 1])
  <2>1. CASE j + 1 <= Len(a)
    <3>1. j \in 1..(Len(a) - 1) /\ (a \o b)[j] = a[j] /\ (a \o b)[j + 1] = a[j + 1]
      BY <1>1, <1>2, <1>3, <2>1
    <3>2. QED
      BY <1>1, <3>1 DEF Ordered
  <2>2. CASE j > Len(a)
    <3> DEFINE m == j - Len(a)
    <3>1. m \in 1..(Len(b) - 1) /\ (a \o b)[j] = b[m] /\ (a \o b)[j + 1] = b[m + 1]
      BY <1>1, <1>2, <1>3, <2>2
    <3>2. QED
      BY <1>1, <3>1 DEF Ordered
  <2>3. CASE j = Len(a)
    <3>1. (a \o b)[j] = a[Len(a)] /\ (a \o b)[j + 1] = b[1] /\ a # <<>> /\ b # <<>>
      BY <1>1, <1>2, <1>3, <2>3
    <3>2. a[Len(a)] \notin {"SCAN", "REMOVE_NETWORK", "SAVE_CONFIG"} /\ b[1] \notin OwnSteps
      BY <1>1, <3>1 DEF Ordered
    <3>3. QED
      BY <3>1, <3>2 DEF Follows, OwnSteps
  <2>4. QED
    BY <1>1, <2>1, <2>2, <2>3
<1>6. a \o b # <<>> => (a \o b)[Len(a \o b)] \notin {"SCAN", "REMOVE_NETWORK", "SAVE_CONFIG"}
  <2>1. CASE b = <<>>
    <3>1. Len(b) = 0
      BY <2>1
    <3>2. a \o b # <<>> => a # <<>> /\ (a \o b)[Len(a \o b)] = a[Len(a)]
      BY <1>1, <1>2, <1>3, <3>1
    <3>3. QED
      BY <1>1, <3>2 DEF Ordered
  <2>2. CASE b # <<>>
    <3>1. Len(b) > 0
      BY <1>1, <2>2
    <3>2. (a \o b)[Len(a \o b)] = b[Len(b)]
      BY <1>1, <1>2, <1>3, <3>1
    <3>3. QED
      BY <1>1, <2>2, <3>2 DEF Ordered
  <2>3. QED
    BY <2>1, <2>2
<1>7. QED
  BY <1>2, <1>4, <1>5, <1>6 DEF Plan, Ordered

LEMMA OptionsArePlans == \A option \in {"c", "d", "s"} : Wifi!Steps(option) \in Plan
<1>1. Wifi!config_wifi \in Plan
  BY DEF Wifi!config_wifi, Plan, Ordered, Ops, OwnSteps, Follows
<1>2. Wifi!scan_results \in Plan
  BY DEF Wifi!scan_results, Plan, Ordered, Ops, OwnSteps, Follows
<1>3. Wifi!disconnect \in Plan
  BY DEF Wifi!disconnect, Plan, Ordered, Ops, OwnSteps, Follows
<1>4. QED
  BY <1>1, <1>2, <1>3 DEF Wifi!Steps

LEMMA OpenIsPlan == <<"open">> \in Plan
BY DEF Plan, Ordered, Ops, OwnSteps, Follows

(* FlattenSeq is a recursive function: it exists, and its values are plans. *)
Flattens(f, plans, n) ==
  f = [j \in 1..n |-> IF j = 1 THEN plans[j] ELSE f[j - 1] \o plans[j]]

LEMMA FlattenExists ==
  ASSUME NEW plans, NEW n \in Nat
  PROVE  \E f : Flattens(f, plans, n)
<1> DEFINE S == {m \in Nat : \E f : Flattens(f, plans, m)}
<1>1. 0 \in S
  <2>1. Flattens([j \in 1..0 |-> 0], plans, 0)
    BY DEF Flattens
  <2>2. QED
    BY <2>1
<1>2. ASSUME NEW m \in Nat, m \in S PROVE m + 1 \in S
  <2>1. PICK f : Flattens(f, plans, m)
    BY <1>2
  <2> DEFINE next == IF m = 0 THEN plans[1] ELSE f[m] \o plans[m + 1]
  <2> DEFINE g == [j \in 1..(m + 1) |-> IF j = m + 1 THEN next ELSE f[j]]
  <2>2. f = [j \in 1..m |-> IF j = 1 THEN plans[j] ELSE f[j - 1] \o plans[j]]
    BY <2>1 DEF Flattens
  <2>3. \A j \in 1..m : f[j] = IF j = 1 THEN plans[j] ELSE f[j - 1] \o plans[j]
    BY <2>2
  <2>4. \A j \in 1..(m + 1) : g[j] = IF j = 1 THEN plans[j] ELSE g[j - 1] \o plans[j]
    <3> SUFFICES ASSUME NEW j \in 1..(m + 1)
                 PROVE  g[j] = IF j = 1 THEN plans[j] ELSE g[j - 1] \o plans[j]
      OBVIOUS
    <3> HIDE DEF next
    <3>1. j # 1 => j - 1 \in 1..m /\ j - 1 \in 1..(m + 1) /\ j - 1 # m + 1
      OBVIOUS
    <3>2. j # 1 => g[j - 1] = f[j - 1]
      BY <3>1
    <3>3. CASE j = m + 1
      <4>1. g[j] = next
        BY <3>3
      <4>2. j = 1 => next = plans[j]
        BY <3>3 DEF next
      <4>3. j # 1 => next = f[j - 1] \o plans[j]
        <5>1. m = j - 1 /\ m + 1 = j /\ (j # 1 => m # 0)
          BY <3>3
        <5>2. j # 1 => next = f[m] \o plans[m + 1]
          BY <5>1 DEF next
        <5>3. QED
          BY <5>1, <5>2
      <4> HIDE DEF g
      <4>4. QED
        BY <3>2, <4>1, <4>2, <4>3
    <3>4. CASE j # m + 1
      <4>1. j \in 1..m /\ g[j] = f[j]
        BY <3>4
      <4> HIDE DEF g
      <4>2. QED
        BY <2>3, <3>2, <4>1
    <3>5. QED
      BY <3>3, <3>4
  <2>5. g = [j \in 1..(m + 1) |-> g[j]]
    OBVIOUS
  <2> HIDE DEF g
  <2>6. g = [j \in 1..(m + 1) |-> IF j = 1 THEN plans[j] ELSE g[j - 1] \o plans[j]]
    BY <2>4, <2>5
  <2>7. Flattens(g, plans, m + 1)
    BY <2>6 DEF Flattens
  <2>8. m + 1 \in Nat /\ \E h : Flattens(h, plans, m + 1)
    BY <2>7
  <2>9. QED
    BY <2>8
<1> HIDE DEF S
<1>3. n \in S
  BY <1>1, <1>2, Induction
<1>4. QED
  BY <1>3 DEF S

LEMMA FlattenedIsPlan ==
  ASSUME NEW n \in Nat, NEW plans, \A j \in 1..n : plans[j] \in Plan,
         NEW f, Flattens(f, plans, n)
  PROVE  \A j \in 1..n : f[j] \in Plan
<1> DEFINE S == {m \in Nat : m \in 1..n => f[m] \in Plan}
<1>1. \A j \in 1..n : f[j] = IF j = 1 THEN plans[j] ELSE f[j - 1] \o plans[j]
  BY DEF Flattens
<1>2. 0 \in S
  OBVIOUS
<1>3. ASSUME NEW m \in Nat, m \in S PROVE m + 1 \in S
  <2> SUFFICES ASSUME m + 1 \in 1..n PROVE f[m + 1] \in Plan
    OBVIOUS
  <2>1. CASE m = 0
    BY <1>1, <2>1
  <2>2. CASE m # 0
    <3>1. m \in 1..n /\ f[m] \in Plan /\ plans[m + 1] \in Plan
      BY <1>3, <2>2
    <3>2. f[m + 1] = f[m] \o plans[m + 1]
      <4>1. m + 1 # 1 /\ (m + 1) - 1 = m
        BY <2>2
      <4>2. QED
        BY <1>1, <4>1
    <3>3. QED
      BY <3>1, <3>2, PlansJoin
  <2>3. QED
    BY <2>1, <2>2
<1> HIDE DEF S
<1>4. Nat \subseteq S
  BY <1>2, <1>3, Induction
<1>5. QED
  BY <1>4 DEF S

(* What the program is started with is a plan. *)
LEMMA StartsWithPlan ==
  ASSUME NEW options \in CommandLines
  PROVE  <<"open">> \o Wifi!FlattenSeq([j \in DOMAIN options |-> Wifi!Steps(options[j])]) \in Plan
<1> DEFINE plans == [j \in DOMAIN options |-> Wifi!Steps(options[j])]
<1>1. options \in Seq({"c", "d", "s"}) /\ DOMAIN options = 1..Len(options) /\ Len(options) \in Nat
  BY WifiAssumption
<1>2. \A j \in 1..Len(options) : plans[j] \in Plan
  BY <1>1, OptionsArePlans
<1>3. plans \in Seq(Plan) /\ Len(plans) = Len(options)
  BY <1>1, <1>2
<1> HIDE DEF plans
<1>4. CASE Len(plans) = 0
  <2>1. Wifi!FlattenSeq(plans) = plans /\ plans = <<>>
    BY <1>3, <1>4 DEF Wifi!FlattenSeq
  <2>2. <<"open">> \o plans = <<"open">>
    BY <2>1
  <2>3. QED
    BY <2>1, <2>2, OpenIsPlan DEF plans
<1>5. CASE Len(plans) # 0
  <2> DEFINE flatten == CHOOSE f : Flattens(f, plans, Len(plans))
  <2>1. Flattens(flatten, plans, Len(plans))
    BY <1>1, <1>3, FlattenExists
  <2>2. Wifi!FlattenSeq(plans) = flatten[Len(plans)]
    BY <1>5 DEF Wifi!FlattenSeq, Flattens
  <2> HIDE DEF flatten
  <2>3. flatten[Len(plans)] \in Plan
    <3>1. Len(plans) \in 1..Len(plans) /\ Len(plans) \in Nat
      BY <1>1, <1>3, <1>5
    <3>2. QED
      BY <1>2, <1>3, <2>1, <3>1, FlattenedIsPlan
  <2>4. QED
    BY <2>2, <2>3, OpenIsPlan, PlansJoin DEF plans
<1>6. QED
  BY <1>4, <1>5 DEF plans

-----------------------------------------------------------------------------
(* wpa_supplicant's numbers *)
LEMMA NextIdIs ==
  ASSUME NEW first \in {0, 1}, NEW last \in Nat \cup {-1}, first <= last + 1,
         DOMAIN nets = first..last
  PROVE  Wifi!NextId = IF first = last + 1 THEN 0 ELSE last + 1
<1>1. CASE first = last + 1
  <2>1. DOMAIN nets = {}
    BY <1>1
  <2>2. QED
    BY <1>1, <2>1 DEF Wifi!NextId
<1>2. CASE first # last + 1
  <2>1. last \in first..last /\ \A n \in first..last : last >= n
    BY <1>2
  <2>2. Wifi!Max(first..last) = last
    BY <2>1 DEF Wifi!Max
  <2>3. DOMAIN nets # {}
    BY <2>1
  <2>4. QED
    BY <1>2, <2>2, <2>3 DEF Wifi!NextId
<1>3. QED
  BY <1>1, <1>2

LEMMA SameCardinality == \A S : Wifi!Cardinality(S) = Cardinality(S)
BY DEF Cardinality, Wifi!Cardinality

LEMMA InOrderIs ==
  ASSUME NEW first \in {0, 1}, NEW last \in Nat \cup {-1}, first <= last + 1,
         DOMAIN nets = first..last
  PROVE  Wifi!InOrder = [k \in 1..(last - first + 1) |-> nets[first + k - 1]]
<1>1. Wifi!Cardinality(DOMAIN nets) = last - first + 1
  <2>1. Cardinality(first..last) = IF first > last THEN 0 ELSE last - first + 1
    BY FS_Interval
  <2>2. QED
    BY <2>1, SameCardinality
<1>2. ASSUME NEW n \in first..last
      PROVE  Wifi!Cardinality({lower \in DOMAIN nets : lower <= n}) = n - first + 1
  <2>1. {lower \in DOMAIN nets : lower <= n} = first..n
    OBVIOUS
  <2>2. Wifi!Cardinality({lower \in DOMAIN nets : lower <= n}) = Cardinality(first..n)
    BY <2>1, SameCardinality
  <2>3. Cardinality(first..n) = IF first > n THEN 0 ELSE n - first + 1
    BY FS_Interval
  <2>4. first <= n
    OBVIOUS
  <2>5. QED
    BY <2>2, <2>3, <2>4
<1>3. ASSUME NEW k \in 1..(last - first + 1) PROVE Wifi!Nth(k) = first + k - 1
  <2>1. first + k - 1 \in first..last /\ (first + k - 1) - first + 1 = k
    OBVIOUS
  <2>2. ASSUME NEW n \in first..last
        PROVE  Wifi!Cardinality({lower \in DOMAIN nets : lower <= n}) = k <=> n = first + k - 1
    <3>1. Wifi!Cardinality({lower \in DOMAIN nets : lower <= n}) = n - first + 1
      BY <1>2
    <3>2. QED
      BY <3>1
  <2>3. QED
    BY <2>1, <2>2 DEF Wifi!Nth
<1>4. QED
  BY <1>1, <1>3 DEF Wifi!InOrder

(* However the networks are numbered, the next number is beyond theirs by at *)
(* most 1, and each place in the file has a network.                         *)
LEMMA Least ==
  ASSUME NEW S, S \subseteq Nat, S # {}
  PROVE  \E n \in S : \A m \in S : n <= m
<1>1. PICK n \in S : \A m \in S : <<m, n>> \notin Less
  BY LessIsWellFounded, WFMin
<1>2. ASSUME NEW m \in S PROVE n <= m
  <2>1. m \in Nat /\ n \in Nat /\ <<m, n>> \notin Less
    BY <1>1
  <2>2. ~(m < n)
    BY <2>1 DEF Less
  <2>3. QED
    BY <2>1, <2>2
<1>3. QED
  BY <1>2

LEMMA NextIdTyped ==
  ASSUME NEW last \in Nat, DOMAIN nets \subseteq 0..last
  PROVE  Wifi!NextId \in 0..(last + 1)
<1>1. CASE DOMAIN nets = {}
  BY <1>1 DEF Wifi!NextId
<1>2. CASE DOMAIN nets # {}
  <2> DEFINE Bounds == {b \in Nat : \A n \in DOMAIN nets : n <= b}
  <2>1. PICK b \in Bounds : \A c \in Bounds : b <= c
    <3>1. last \in Bounds
      OBVIOUS
    <3>2. Bounds \subseteq Nat /\ Bounds # {}
      BY <3>1
    <3> HIDE DEF Bounds
    <3>3. QED
      BY <3>2, Least
  <2>2. b \in DOMAIN nets
    <3> SUFFICES ASSUME b \notin DOMAIN nets PROVE FALSE
      OBVIOUS
    <3>1. \A n \in DOMAIN nets : n \in Nat /\ n < b
      OBVIOUS
    <3>2. b - 1 \in Nat
      BY <1>2, <3>1
    <3>3. b - 1 \in Bounds
      BY <3>1, <3>2
    <3>4. QED
      BY <2>1, <3>3
  <2>3. Wifi!Max(DOMAIN nets) \in DOMAIN nets
    BY <2>1, <2>2 DEF Wifi!Max
  <2>4. QED
    BY <1>2, <2>3 DEF Wifi!NextId
<1>3. QED
  BY <1>1, <1>2, Zenon

LEMMA NthTyped ==
  ASSUME NEW last \in Nat, DOMAIN nets \subseteq 0..last,
         NEW k \in 1..Wifi!Cardinality(DOMAIN nets)
  PROVE  Wifi!Nth(k) \in DOMAIN nets
<1> DEFINE Upto(n) == {lower \in DOMAIN nets : lower <= n}
           B == {n \in Nat : Cardinality(Upto(n)) >= k}
<1>1. IsFiniteSet(DOMAIN nets)
  <2>1. IsFiniteSet(0..last) /\ DOMAIN nets \in SUBSET (0..last)
    BY FS_Interval
  <2>2. QED
    BY <2>1, FS_Subset
<1>2. ASSUME NEW n PROVE IsFiniteSet(Upto(n)) /\ Cardinality(Upto(n)) \in Nat
  <2>1. Upto(n) \in SUBSET DOMAIN nets
    OBVIOUS
  <2> HIDE DEF Upto
  <2>2. QED
    BY <1>1, <2>1, FS_Subset, FS_CardinalityType
<1>3. PICK n \in B : \A m \in B : n <= m
  <2>1. Upto(last) = DOMAIN nets
    OBVIOUS
  <2>2. Cardinality(DOMAIN nets) \in Nat /\ k \in 1..Cardinality(DOMAIN nets)
    BY <1>1, FS_CardinalityType, SameCardinality
  <2>3. last \in B
    BY <2>1, <2>2
  <2>4. B \subseteq Nat /\ B # {}
    BY <2>3
  <2> HIDE DEF B
  <2>5. QED
    BY <2>4, Least
<1>4. k \in Nat \ {0}
  OBVIOUS
<1>5. n \in DOMAIN nets
  <2> SUFFICES ASSUME n \notin DOMAIN nets PROVE FALSE
    OBVIOUS
  <2>1. CASE n = 0
    <3>1. Upto(0) = {}
      BY <2>1
    <3>2. Cardinality(Upto(0)) = 0
      BY <3>1, FS_EmptySet
    <3>3. QED
      BY <1>4, <2>1, <3>2
  <2>2. CASE n # 0
    <3>1. n - 1 \in Nat /\ Upto(n - 1) = Upto(n)
      BY <2>2
    <3>2. n - 1 \in B
      BY <3>1
    <3>3. QED
      BY <1>3, <3>2
  <2>3. QED
    BY <2>1, <2>2
<1>6. Cardinality(Upto(n)) = k
  <2>1. Upto(n) = Upto(n - 1) \cup {n} /\ n \notin Upto(n - 1)
    BY <1>5
  <2>2. Cardinality(Upto(n)) = Cardinality(Upto(n - 1)) + 1
    <3>1. IsFiniteSet(Upto(n - 1))
      BY <1>2
    <3> HIDE DEF Upto
    <3>2. QED
      BY <2>1, <3>1, FS_AddElement
  <2>3. Cardinality(Upto(n - 1)) < k
    <3>1. CASE n = 0
      <4>1. Upto(n - 1) = {}
        BY <3>1
      <4>2. QED
        BY <1>4, <4>1, FS_EmptySet
    <3>2. CASE n # 0
      <4>1. n - 1 \in Nat /\ ~(n <= n - 1)
        BY <3>2
      <4>2. n - 1 \notin B
        BY <1>3, <4>1
      <4>3. QED
        BY <1>2, <1>4, <4>1, <4>2
    <3>3. QED
      BY <3>1, <3>2
  <2>4. Cardinality(Upto(n)) >= k /\ Cardinality(Upto(n - 1)) \in Nat
    BY <1>2
  <2> HIDE DEF Upto
  <2>5. QED
    BY <1>4, <2>2, <2>3, <2>4
<1>7. \E id \in DOMAIN nets :
        Wifi!Cardinality({lower \in DOMAIN nets : lower <= id}) = k
  BY <1>5, <1>6, SameCardinality
<1>8. QED
  BY <1>7 DEF Wifi!Nth

(* What a request does to the networks *)
LEMMA ExecuteNumbered ==
  ASSUME WifiTypes, NEW m \in Request, Wifi!Execute(m)
  PROVE  /\ Numbered'
         /\ \A n \in DOMAIN nets' : nets'[n] \in Wifi!Network
         /\ file' \in Seq(Wifi!Network)
         /\ current' \in DOMAIN nets' \cup {Wifi!NoId}
<1>1. PICK last \in Nat : DOMAIN nets \subseteq 0..last
  BY DEF WifiTypes, Numbered
<1>2. /\ \A n \in DOMAIN nets : nets[n] \in Wifi!Network
      /\ file \in Seq(Wifi!Network)
      /\ current \in DOMAIN nets \cup {Wifi!NoId}
  BY DEF WifiTypes
<1>3. m.op \in Ops /\ m.run \in Wifi!Runs /\ 0 \in Wifi!Runs
  BY WifiAssumption DEF Request, Wifi!Runs
<1>4. CASE m.op = "ADD_NETWORK"
  <2> DEFINE new == [owner |-> m.run, ssid |-> 0, psk |-> 0]
  <2>1. /\ nets' = [n \in DOMAIN nets \cup {Wifi!NextId} |-> IF n = Wifi!NextId THEN new ELSE nets[n]]
        /\ UNCHANGED <<file, current>>
    BY <1>4 DEF Wifi!Execute
  <2>2. new \in Wifi!Network
    BY <1>3 DEF Wifi!Network
  <2> HIDE DEF new
  <2>3. DOMAIN nets' = DOMAIN nets \cup {Wifi!NextId}
    BY <2>1
  <2>4. \A n \in DOMAIN nets' : nets'[n] \in Wifi!Network
    BY <1>2, <2>1, <2>2
  <2>5. Numbered'
    <3>1. last + 1 \in Nat /\ DOMAIN nets' \subseteq 0..(last + 1)
      BY <1>1, <2>3, NextIdTyped
    <3>2. QED
      BY <3>1 DEF Numbered
  <2>6. QED
    BY <1>2, <2>1, <2>3, <2>4, <2>5
<1>5. CASE m.op \in {"ssid", "psk"}
  <2>1. /\ UNCHANGED <<file, current>>
        /\ nets' = IF m.id \in DOMAIN nets
                     THEN [nets EXCEPT ![m.id] = [@ EXCEPT ![m.op] = m.run]] ELSE nets
    BY <1>5 DEF Wifi!Execute
  <2>2. m.id \in DOMAIN nets => [nets[m.id] EXCEPT ![m.op] = m.run] \in Wifi!Network
    BY <1>2, <1>3, <1>5 DEF Wifi!Network
  <2>3. DOMAIN nets' = DOMAIN nets /\ \A n \in DOMAIN nets' : nets'[n] \in Wifi!Network
    BY <1>2, <2>1, <2>2
  <2>4. QED
    BY <1>1, <1>2, <2>1, <2>3 DEF Numbered
<1>6. CASE m.op = "SELECT_NETWORK"
  BY <1>1, <1>2, <1>6 DEF Wifi!Execute, Numbered
<1>7. CASE m.op = "REMOVE_NETWORK"
  <2>1. /\ nets' = [n \in DOMAIN nets \ {0} |-> nets[n]]
        /\ current' = IF current = 0 THEN Wifi!NoId ELSE current
        /\ UNCHANGED file
    BY <1>7 DEF Wifi!Execute, Wifi!Without
  <2>2. DOMAIN nets' = DOMAIN nets \ {0} /\ Numbered'
    BY <1>1, <2>1 DEF Numbered
  <2>3. QED
    BY <1>2, <2>1, <2>2
<1>8. CASE m.op = "SAVE_CONFIG"
  <2>1. file' = (IF writable THEN Wifi!InOrder ELSE file) /\ UNCHANGED <<nets, current>>
    BY <1>8 DEF Wifi!Execute
  <2>2. Wifi!InOrder \in Seq(Wifi!Network)
    <3> DEFINE c == Wifi!Cardinality(DOMAIN nets)
    <3>1. c \in Nat
      <4>1. IsFiniteSet(0..last) /\ DOMAIN nets \in SUBSET (0..last)
        BY <1>1, FS_Interval
      <4>2. QED
        BY <4>1, FS_Subset, FS_CardinalityType, SameCardinality
    <3>2. \A k \in 1..c : nets[Wifi!Nth(k)] \in Wifi!Network
      BY <1>1, <1>2, NthTyped
    <3>3. Wifi!InOrder = [k \in 1..c |-> nets[Wifi!Nth(k)]]
      BY DEF Wifi!InOrder
    <3> HIDE DEF c
    <3>4. QED
      BY <3>1, <3>2, <3>3
  <2>3. QED
    BY <1>1, <1>2, <2>1, <2>2 DEF Numbered
<1>9. CASE m.op = "RECONFIGURE"
  <2>1. /\ nets' = [n \in 0..(Len(file) - 1) |-> file[n + 1]]
        /\ current' = Wifi!NoId /\ UNCHANGED file
    BY <1>9 DEF Wifi!Execute
  <2>2. Len(file) \in Nat /\ \A n \in 0..(Len(file) - 1) : n + 1 \in 1..Len(file)
    BY <1>2
  <2>3. DOMAIN nets' = 0..(Len(file) - 1) /\ \A n \in DOMAIN nets' : nets'[n] \in Wifi!Network
    BY <1>2, <2>1, <2>2
  <2>4. DOMAIN nets' \subseteq 0..Len(file)
    BY <2>2, <2>3
  <2>5. Numbered'
    BY <2>2, <2>4 DEF Numbered
  <2>6. QED
    BY <1>2, <2>1, <2>3, <2>5
<1>10. CASE m.op \notin {"ADD_NETWORK", "ssid", "psk", "SELECT_NETWORK", "REMOVE_NETWORK",
                         "SAVE_CONFIG", "RECONFIGURE"}
  <2>1. UNCHANGED <<nets, file, current>>
    BY <1>10 DEF Wifi!Execute
  <2>2. QED
    BY <1>1, <1>2, <2>1 DEF Numbered
<1>11. QED
  BY <1>4, <1>5, <1>6, <1>7, <1>8, <1>9, <1>10

-----------------------------------------------------------------------------
(* Types and connections *)
Networks ==
  /\ Numbered
  /\ \A n \in DOMAIN nets : nets[n] \in Wifi!Network
  /\ file \in Seq(Wifi!Network)
  /\ current \in DOMAIN nets \cup {Wifi!NoId}

LEMMA NetworksUnchanged ==
  ASSUME WifiTypes, UNCHANGED Wifi!supplicant
  PROVE  Networks' /\ UNCHANGED <<nets, file, current, writable, listening>>
<1>1. UNCHANGED <<nets, file, current, writable, listening>>
  BY DEF Wifi!supplicant
<1>2. QED
  BY <1>1 DEF WifiTypes, Networks, Numbered

LEMMA Tails ==
  ASSUME NEW S, NEW s \in Seq(S), s # <<>>
  PROVE  /\ Tail(s) \in Seq(S) /\ Len(Tail(s)) = Len(s) - 1 /\ Len(s) \in Nat \ {0}
         /\ s[1] \in S /\ Head(s) = s[1]
         /\ \A j \in 1..(Len(s) - 1) : Tail(s)[j] = s[j + 1]
OBVIOUS

LEMMA EndOfSeq ==
  ASSUME NEW S, NEW s \in Seq(S), NEW k \in 1..4
  PROVE  SubSeq(s, k, Len(s)) \in Seq(S)
<1>1. SubSeq(s, k, Len(s)) = [j \in 1..(IF k <= Len(s) THEN Len(s) - k + 1 ELSE 0) |-> s[k + j - 1]]
  OBVIOUS
<1>2. QED
  BY <1>1

(* The script that a failed open leaves is a plan as well. *)
LEMMA AfterOpenTyped ==
  ASSUME script \in Seq(Ops), script # <<>>, NEW ok \in BOOLEAN
  PROVE  Wifi!AfterOpen(ok) \in Seq(Ops)
BY Tails, EndOfSeq DEF Wifi!AfterOpen

LEMMA FailedTyped ==
  ASSUME script \in Seq(Ops), script # <<>>, netid \in Int, Wifi!Failed
  PROVE  script' \in Seq(Ops) /\ netid' \in Int
<1>1. Tail(script) \in Seq(Ops) /\ SubSeq(script, 3, Len(script)) \in Seq(Ops)
  BY Tails, EndOfSeq
<1>2. QED
  BY <1>1 DEF Wifi!Failed, Wifi!NoId

LEMMA WifiTypesKept ==
  ASSUME WifiTypes, Connected, [Wifi!Next]_Wifi!vars
  PROVE  WifiTypes'
<1>1. /\ requests \in Seq(Request) /\ Len(requests) <= QueueLen
      /\ run \in Wifi!Runs /\ opened \in Nat /\ netid \in Int
      /\ script \in Seq(Ops) /\ replies \in Seq(Reply)
      /\ running \in BOOLEAN /\ asked \in BOOLEAN /\ conn \in BOOLEAN
      /\ timely \in BOOLEAN /\ roomy \in BOOLEAN /\ writable \in BOOLEAN /\ listening \in BOOLEAN
      /\ NETWORK_ID_MAX \in Nat /\ Wifi!Runs = 0..MaxRuns /\ MaxRuns \in Nat
  BY WifiAssumption DEF WifiTypes, Wifi!Runs
<1>2. CASE Wifi!Start
  <2>1. /\ UNCHANGED Wifi!supplicant /\ run < MaxRuns /\ run' = run + 1 /\ running' = TRUE
        /\ opened' = 0 /\ conn' = FALSE /\ UNCHANGED <<requests, asked, netid, replies, timely, roomy>>
    BY <1>2 DEF Wifi!Start
  <2>2. script' \in Plan
    BY <1>2, StartsWithPlan DEF Wifi!Start
  <2>3. script' \in Seq(Ops)
    BY <2>2 DEF Plan
  <2>4. run' \in Wifi!Runs
    BY <1>1, <2>1
  <2>5. Networks' /\ UNCHANGED <<writable, listening>>
    BY <2>1, NetworksUnchanged
  <2>6. QED
    BY <1>1, <2>1, <2>3, <2>4, <2>5 DEF WifiTypes, Networks
<1>3. CASE Wifi!wpa_ctrl_open
  <2>1. /\ UNCHANGED Wifi!supplicant /\ opened' = opened + 1 /\ conn' = listening
        /\ replies' = <<>> /\ script' = Wifi!AfterOpen(listening) /\ script # <<>>
        /\ UNCHANGED <<requests, run, running, asked, netid, timely, roomy>>
    BY <1>3 DEF Wifi!wpa_ctrl_open, Wifi!Opening
  <2>2. script' \in Seq(Ops)
    BY <1>1, <2>1, AfterOpenTyped
  <2>3. QED
    BY <1>1, <2>1, <2>2, NetworksUnchanged DEF WifiTypes, Networks
<1>4. CASE Wifi!Crash \/ Wifi!Exit
  <2>1. /\ UNCHANGED Wifi!supplicant /\ running' = FALSE
        /\ script' = <<>> /\ replies' \in {replies, <<>>}
        /\ UNCHANGED <<requests, run, asked, netid, opened, conn, timely, roomy>>
    BY <1>4 DEF Wifi!Crash, Wifi!Exit
  <2>2. script' \in Seq(Ops) /\ replies' \in Seq(Reply)
    <3>1. <<>> \in Seq(Ops) /\ <<>> \in Seq(Reply)
      OBVIOUS
    <3>2. QED
      BY <1>1, <2>1, <3>1
  <2>3. Networks' /\ UNCHANGED <<writable, listening>>
    BY <2>1, NetworksUnchanged
  <2>4. QED
    BY <1>1, <2>1, <2>2, <2>3 DEF WifiTypes, Networks
<1>5. CASE Wifi!Send
  <2>1. /\ UNCHANGED Wifi!supplicant /\ Len(requests) < QueueLen /\ asked' = TRUE
        /\ requests' = Append(requests, [op |-> Head(script), id |-> netid, run |-> run,
                                         from |-> opened])
        /\ script # <<>>
        /\ UNCHANGED <<run, running, script, netid, opened, conn, replies, timely, roomy>>
    BY <1>5 DEF Wifi!Send, Wifi!CanSend
  <2>2. Head(script) \in Ops
    BY <1>1, <2>1, Tails
  <2>3. [op |-> Head(script), id |-> netid, run |-> run, from |-> opened] \in Request
    BY <1>1, <2>2 DEF Request
  <2>4. requests' \in Seq(Request) /\ Len(requests') <= QueueLen
    BY <1>1, <2>1, <2>3, WifiAssumption
  <2>5. QED
    BY <1>1, <2>1, <2>4, NetworksUnchanged DEF WifiTypes, Networks
<1>6. CASE Wifi!SendFails \/ Wifi!TimeOut
  <2>1. /\ UNCHANGED Wifi!supplicant /\ Wifi!Failed /\ timely' = FALSE /\ asked' \in BOOLEAN
        /\ script # <<>>
        /\ UNCHANGED <<requests, run, running, opened, conn, replies, roomy>>
    BY <1>1, <1>6 DEF Wifi!SendFails, Wifi!TimeOut, Wifi!CanSend, Connected
  <2>2. script' \in Seq(Ops) /\ netid' \in Int
    BY <1>1, <2>1, FailedTyped
  <2>3. QED
    BY <1>1, <2>1, <2>2, NetworksUnchanged DEF WifiTypes, Networks
<1>7. CASE Wifi!Receive
  <2>1. /\ UNCHANGED Wifi!supplicant /\ asked' = FALSE /\ replies' = Tail(replies)
        /\ script # <<>> /\ replies # <<>>
        /\ UNCHANGED <<requests, run, running, opened, conn, timely, roomy>>
    BY <1>7 DEF Wifi!Receive, Connected
  <2>2. replies' \in Seq(Reply) /\ Head(replies) \in Reply
    BY <1>1, <2>1, Tails
  <2>3. script' \in Seq(Ops) /\ netid' \in Int
    <3>1. Tail(script) \in Seq(Ops)
      BY <1>1, <2>1, Tails
    <3>2. CASE script' = Tail(script) /\ UNCHANGED netid
      BY <1>1, <3>1, <3>2
    <3>3. ASSUME NEW n \in Wifi!numbers_in(Head(replies)), Wifi!Added(n)
          PROVE  script' \in Seq(Ops) /\ netid' \in Int
      <4>1. n \in Int
        <5>1. DOMAIN nets \subseteq Int
          BY DEF WifiTypes, Numbered
        <5>2. QED
          BY <2>2, <5>1 DEF Wifi!numbers_in, Reply, Wifi!NoId
      <4>2. <<"REMOVE_NETWORK", "SAVE_CONFIG", "RECONFIGURE">> \in Seq(Ops)
        BY DEF Ops
      <4>3. <<"REMOVE_NETWORK", "SAVE_CONFIG", "RECONFIGURE">> \o Tail(script) \in Seq(Ops)
        BY <3>1, <4>2
      <4>4. CASE n > NETWORK_ID_MAX
        <5>1. script' = <<"REMOVE_NETWORK", "SAVE_CONFIG", "RECONFIGURE">> \o Tail(script)
          BY <3>3, <4>4, Zenon DEF Wifi!Added
        <5>2. netid' = NETWORK_ID_MAX
          BY <3>3, <4>4, Zenon DEF Wifi!Added
        <5>3. script' \in Seq(Ops)
          BY <4>3, <5>1, Zenon
        <5>4. QED
          BY <1>1, <5>2, <5>3
      <4>5. CASE ~(n > NETWORK_ID_MAX)
        BY <3>1, <3>3, <4>1, <4>5 DEF Wifi!Added
      <4>6. QED
        BY <4>4, <4>5
    <3>4. QED
      BY <1>7, <3>2, <3>3 DEF Wifi!Receive
  <2>4. QED
    BY <1>1, <2>1, <2>2, <2>3, NetworksUnchanged DEF WifiTypes, Networks
<1>8. CASE Wifi!Answer
  <2> DEFINE m == Head(requests)
  <2>1. /\ requests # <<>> /\ requests' = Tail(requests) /\ Wifi!Execute(m)
        /\ UNCHANGED <<writable, listening, run, running, script, asked, netid, opened, conn, timely,
                       roomy>>
    BY <1>8 DEF Wifi!Answer
  <2>2. m \in Request /\ requests' \in Seq(Request) /\ Len(requests') <= QueueLen
    BY <1>1, <2>1, Tails, WifiAssumption
  <2>3. replies' \in Seq(Reply)
    <3>1. Wifi!NextId \in Int /\ Wifi!NoId \in Int
      BY NextIdTyped DEF WifiTypes, Numbered, Wifi!NoId
    <3>2. m.op \in Ops
      BY <2>2 DEF Request
    <3> DEFINE reply == [op |-> m.op, id |-> IF m.op = "ADD_NETWORK" THEN Wifi!NextId
                                            ELSE Wifi!NoId]
    <3>3. reply \in Reply
      BY <3>1, <3>2 DEF Reply
    <3>4. replies' = replies \/ replies' = Append(replies, reply)
      BY <1>8 DEF Wifi!Answer
    <3> HIDE DEF reply
    <3>5. replies \in Seq(Reply)
      BY <1>1
    <3> HIDE DEF m, Reply
    <3>6. QED
      BY <3>3, <3>4, <3>5
  <2>4. Networks'
    BY <2>1, <2>2, ExecuteNumbered DEF Networks
  <2>5. QED
    BY <1>1, <2>1, <2>2, <2>3, <2>4 DEF WifiTypes, Networks
<1>9. CASE UNCHANGED Wifi!vars
  <2>1. UNCHANGED Wifi!supplicant /\ UNCHANGED <<requests, run, running, script, asked, netid,
                                                opened, conn, replies, timely, roomy>>
    BY <1>9 DEF Wifi!vars
  <2>2. QED
    BY <1>1, <2>1, NetworksUnchanged DEF WifiTypes, Networks
<1>10. QED
  BY <1>2, <1>3, <1>4, <1>5, <1>6, <1>7, <1>8, <1>9 DEF Wifi!Next, Wifi!program

LEMMA ConnectedKept ==
  ASSUME WifiTypes, Connected, [Wifi!Next]_Wifi!vars
  PROVE  Connected'
<1>1. /\ requests \in Seq(Request) /\ run \in Nat /\ opened \in Nat
      /\ script \in Seq(Ops) /\ replies \in Seq(Reply)
      /\ \A j \in 1..Len(requests) : requests[j].run \in Nat /\ requests[j].from \in Nat
  <2>1. Wifi!Runs \subseteq Nat
    BY WifiAssumption DEF Wifi!Runs
  <2>2. \A j \in 1..Len(requests) : requests[j] \in Request
    BY DEF WifiTypes
  <2>3. \A m \in Request : m.run \in Nat /\ m.from \in Nat
    BY <2>1 DEF Request
  <2>4. QED
    BY <2>1, <2>2, <2>3 DEF WifiTypes
<1>2. CASE Wifi!Start
  <2>1. /\ ~running /\ run' = run + 1 /\ running' = TRUE /\ opened' = 0 /\ conn' = FALSE
        /\ UNCHANGED <<requests, asked, replies>>
    BY <1>2 DEF Wifi!Start
  <2>2. asked' = FALSE /\ replies' = <<>>
    BY <2>1 DEF Connected, WifiTypes
  <2>3. \A j \in 1..Len(requests') : requests'[j].run < run'
    BY <1>1, <2>1 DEF Connected
  <2>4. \A j \in 1..Len(requests') : requests'[j].run <= run' /\ requests'[j].run # run'
    BY <1>1, <2>1, <2>3
  <2>5. QED
    BY <2>1, <2>2, <2>4 DEF Connected
<1>3. CASE Wifi!wpa_ctrl_open
  <2>1. /\ script # <<>> /\ script[1] = "open" /\ running /\ opened' = opened + 1
        /\ conn' = listening /\ replies' = <<>>
        /\ UNCHANGED <<requests, run, running, asked>>
    BY <1>1, <1>3, Tails DEF Wifi!wpa_ctrl_open, Wifi!Opening
  <2>2. QED
    BY <1>1, <2>1 DEF Connected
<1>4. CASE Wifi!Crash \/ Wifi!Exit
  <2>1. /\ running' = FALSE /\ script' = <<>>
        /\ UNCHANGED <<requests, run, asked, opened, conn>>
    BY <1>4 DEF Wifi!Crash, Wifi!Exit
  <2>2. asked' = FALSE
    BY <1>4, <2>1 DEF Wifi!Crash, Wifi!Exit, Connected, WifiTypes
  <2>3. replies' = <<>>
    BY <1>4 DEF Wifi!Crash, Wifi!Exit, Connected
  <2>4. QED
    BY <2>1, <2>2, <2>3 DEF Connected
<1>5. CASE Wifi!Send
  <2>1. /\ running /\ conn /\ script # <<>> /\ script[1] # "open"
        /\ UNCHANGED <<run, running, script, opened, conn, replies>>
    BY <1>1, <1>5, Tails DEF Wifi!Send, Wifi!CanSend
  <2>2. \A j \in 1..Len(requests') :
          \/ j \in 1..Len(requests) /\ requests'[j] = requests[j]
          \/ requests'[j].run = run /\ requests'[j].from = opened
    BY <1>1, <1>5 DEF Wifi!Send
  <2>3. run <= run /\ opened <= opened
    BY <1>1
  <2>4. \A j \in 1..Len(requests') :
          /\ requests'[j].run <= run
          /\ requests'[j].run = run => requests'[j].from <= opened
    BY <1>1, <2>2, <2>3 DEF Connected
  <2>5. QED
    BY <2>1, <2>4 DEF Connected
<1>6. CASE Wifi!SendFails \/ Wifi!TimeOut
  BY <1>1, <1>6, Tails DEF Wifi!SendFails, Wifi!TimeOut, Wifi!CanSend, Connected
<1>7. CASE Wifi!Receive
  <2>1. /\ asked /\ asked' = FALSE /\ UNCHANGED <<requests, run, running, opened, conn>>
    BY <1>7 DEF Wifi!Receive
  <2>2. QED
    BY <1>1, <2>1 DEF Connected
<1>8. CASE Wifi!Answer
  <2>1. /\ requests # <<>> /\ requests' = Tail(requests)
        /\ replies' # replies => Head(requests).run = run /\ running /\ Head(requests).from = opened
        /\ UNCHANGED <<run, running, script, asked, opened, conn>>
    BY <1>8 DEF Wifi!Answer
  <2>2. 1 \in 1..Len(requests) /\ Head(requests) = requests[1]
    BY <1>1, <2>1, Tails
  <2>3. \A j \in 1..Len(requests') : j + 1 \in 1..Len(requests) /\ requests'[j] = requests[j + 1]
    BY <1>1, <2>1, Tails
  <2>4. QED
    BY <1>1, <2>1, <2>2, <2>3 DEF Connected
<1>9. CASE UNCHANGED Wifi!vars
  BY <1>9 DEF Wifi!vars, Connected
<1>10. QED
  BY <1>2, <1>3, <1>4, <1>5, <1>6, <1>7, <1>8, <1>9 DEF Wifi!Next, Wifi!program

-----------------------------------------------------------------------------
LEMMA SameSequence ==
  ASSUME NEW S, NEW r \in Seq(S), NEW s \in Seq(S), Len(r) = Len(s),
         \A j \in 1..Len(r) : r[j] = s[j]
  PROVE  r = s
OBVIOUS

LEMMA NotEmpty == ASSUME NEW S, NEW s \in Seq(S) PROVE s = <<>> <=> Len(s) = 0
OBVIOUS

(* What is left of a script is in order as well. *)
LEMMA TailOrdered ==
  ASSUME NEW s \in Seq(Ops), Ordered(s), s # <<>>
  PROVE  /\ Ordered(Tail(s))
         /\ Tail(s) # <<>> => Follows(s[1], Tail(s)[1])
         /\ Tail(s) = <<>> => s[1] \notin {"SCAN", "REMOVE_NETWORK", "SAVE_CONFIG"}
<1>1. /\ Tail(s) \in Seq(Ops) /\ Len(Tail(s)) = Len(s) - 1 /\ Len(s) \in Nat \ {0}
      /\ \A j \in 1..(Len(s) - 1) : Tail(s)[j] = s[j + 1]
  BY Tails
<1>2. Tail(s) # <<>> => Len(s) - 1 >= 1 /\ Tail(s)[1] = s[2] /\ Tail(s)[Len(s) - 1] = s[Len(s)]
  BY <1>1
<1>3. \A j \in 1..(Len(Tail(s)) - 1) : Follows(Tail(s)[j], Tail(s)[j + 1])
  <2> TAKE j \in 1..(Len(Tail(s)) - 1)
  <2>1. /\ j \in 1..(Len(s) - 1) /\ j + 1 \in 1..(Len(s) - 1)
        /\ Tail(s)[j] = s[j + 1] /\ Tail(s)[j + 1] = s[(j + 1) + 1]
    BY <1>1
  <2>2. Follows(s[j + 1], s[(j + 1) + 1])
    BY <2>1 DEF Ordered
  <2>3. QED
    BY <2>1, <2>2
<1>4. Ordered(Tail(s))
  BY <1>1, <1>2, <1>3 DEF Ordered
<1>5. Tail(s) # <<>> => Follows(s[1], Tail(s)[1])
  BY <1>1, <1>2 DEF Ordered
<1>6. Tail(s) = <<>> => Len(s) = 1
  BY <1>1
<1>7. QED
  BY <1>4, <1>5, <1>6 DEF Ordered

LEMMA ConsOrdered ==
  ASSUME NEW s \in Seq(Ops), Ordered(s), NEW op \in Ops,
         s # <<>> => Follows(op, s[1]),
         s = <<>> => op \notin {"SCAN", "REMOVE_NETWORK", "SAVE_CONFIG"}
  PROVE  /\ Ordered(<<op>> \o s) /\ <<op>> \o s \in Seq(Ops)
         /\ <<op>> \o s # <<>> /\ (<<op>> \o s)[1] = op
<1>1. /\ <<op>> \o s \in Seq(Ops) /\ Len(<<op>> \o s) = Len(s) + 1 /\ Len(s) \in Nat
      /\ \A j \in 1..(Len(s) + 1) : (<<op>> \o s)[j] = IF j = 1 THEN op ELSE s[j - 1]
  OBVIOUS
<1>2. ASSUME NEW j \in 1..Len(s) PROVE Follows((<<op>> \o s)[j], (<<op>> \o s)[j + 1])
  <2>1. (<<op>> \o s)[j + 1] = s[j]
    BY <1>1
  <2>2. CASE j = 1
    <3>1. s # <<>> /\ (<<op>> \o s)[j] = op
      BY <1>1, <2>2
    <3>2. QED
      BY <2>1, <2>2, <3>1
  <2>3. CASE j # 1
    <3>1. j - 1 \in 1..(Len(s) - 1) /\ (j - 1) + 1 = j /\ (<<op>> \o s)[j] = s[j - 1]
      BY <1>1, <2>3
    <3>2. QED
      BY <2>1, <3>1 DEF Ordered
  <2>4. QED
    BY <2>2, <2>3
<1>3. (<<op>> \o s)[Len(s) + 1] \notin {"SCAN", "REMOVE_NETWORK", "SAVE_CONFIG"}
  <2>1. CASE s = <<>>
    <3>1. Len(s) = 0
      BY <2>1
    <3>2. QED
      BY <1>1, <2>1, <3>1
  <2>2. CASE s # <<>>
    <3>1. Len(s) + 1 # 1 /\ (<<op>> \o s)[Len(s) + 1] = s[Len(s)]
      BY <1>1, <2>2
    <3>2. QED
      BY <2>2, <3>1 DEF Ordered
  <2>3. QED
    BY <2>1, <2>2
<1>4. QED
  BY <1>1, <1>2, <1>3 DEF Ordered

(* Network 0 is removed before the steps that follow ADD_NETWORK. *)
LEMMA RemovalOrdered ==
  ASSUME NEW s \in Seq(Ops), Ordered(s), s # <<>> => Follows("RECONFIGURE", s[1])
  PROVE  /\ Ordered(<<"REMOVE_NETWORK", "SAVE_CONFIG", "RECONFIGURE">> \o s)
         /\ <<"REMOVE_NETWORK", "SAVE_CONFIG", "RECONFIGURE">> \o s # <<>>
         /\ (<<"REMOVE_NETWORK", "SAVE_CONFIG", "RECONFIGURE">> \o s)[1] = "REMOVE_NETWORK"
<1> DEFINE r3 == <<"RECONFIGURE">> \o s
<1> DEFINE r2 == <<"SAVE_CONFIG">> \o r3
<1> DEFINE r1 == <<"REMOVE_NETWORK">> \o r2
<1>1. {"REMOVE_NETWORK", "SAVE_CONFIG", "RECONFIGURE"} \subseteq Ops
  BY DEF Ops
<1>2. Ordered(r3) /\ r3 \in Seq(Ops) /\ r3 # <<>> /\ r3[1] = "RECONFIGURE"
  BY <1>1, ConsOrdered
<1> HIDE DEF r3
<1>3. Ordered(r2) /\ r2 \in Seq(Ops) /\ r2 # <<>> /\ r2[1] = "SAVE_CONFIG"
  <2>1. Follows("SAVE_CONFIG", r3[1])
    BY <1>2 DEF Follows
  <2>2. QED
    BY <1>1, <1>2, <2>1, ConsOrdered
<1> HIDE DEF r2
<1>4. Ordered(r1) /\ r1 \in Seq(Ops) /\ r1 # <<>> /\ r1[1] = "REMOVE_NETWORK"
  <2>1. Follows("REMOVE_NETWORK", r2[1])
    BY <1>3 DEF Follows
  <2>2. QED
    BY <1>1, <1>3, <2>1, ConsOrdered
<1> HIDE DEF r1
<1>5. r1 = <<"REMOVE_NETWORK", "SAVE_CONFIG", "RECONFIGURE">> \o s
  BY DEF r1, r2, r3
<1>6. QED
  BY <1>4, <1>5

(* After open comes no step of config_wifi that needs the network. *)
LEMMA AfterOpenOrdered ==
  ASSUME script \in Seq(Ops), Ordered(script), script # <<>>, script[1] = "open", NEW ok
  PROVE  /\ Ordered(Wifi!AfterOpen(ok))
         /\ Wifi!AfterOpen(ok) # <<>> => Wifi!AfterOpen(ok)[1] \notin OwnSteps
<1> DEFINE rest == Tail(script)
<1>1. /\ rest \in Seq(Ops) /\ Ordered(rest)
      /\ rest # <<>> => rest[1] \notin OwnSteps
  BY Tails, TailOrdered DEF Follows, OwnSteps
<1>2. CASE ~ok /\ Len(script) > 1 /\ script[2] = "SCAN"
  <2>1. rest # <<>> /\ rest[1] = "SCAN"
    <3>1. Len(rest) = Len(script) - 1 /\ 1 \in 1..(Len(script) - 1) /\ rest[1] = script[2]
      BY <1>2, Tails
    <3>2. rest # <<>>
      <4>1. Len(rest) # 0
        BY <1>2, <3>1
      <4>2. QED
        BY <1>1, <4>1, NotEmpty
    <3>3. QED
      BY <1>2, <3>1, <3>2
  <2>2. Tail(rest) \in Seq(Ops) /\ Ordered(Tail(rest)) /\ Tail(rest) # <<>>
    BY <1>1, <2>1, Tails, TailOrdered
  <2>3. Tail(rest)[1] = "SCAN_RESULTS"
    BY <1>1, <2>1, <2>2, TailOrdered DEF Follows
  <2>4. /\ Ordered(Tail(Tail(rest)))
        /\ Tail(Tail(rest)) # <<>> => Tail(Tail(rest))[1] \notin OwnSteps
    BY <2>2, <2>3, TailOrdered DEF Follows, OwnSteps
  <2>5. SubSeq(script, 4, Len(script)) = Tail(Tail(rest))
    <3>1. /\ Len(rest) = Len(script) - 1 /\ Len(script) \in Nat \ {0}
          /\ \A j \in 1..(Len(script) - 1) : rest[j] = script[j + 1]
      BY Tails
    <3>2. /\ Len(Tail(rest)) = Len(rest) - 1 /\ Len(rest) \in Nat \ {0}
          /\ \A j \in 1..(Len(rest) - 1) : Tail(rest)[j] = rest[j + 1]
      BY <1>1, <2>1, Tails
    <3>3. /\ Tail(Tail(rest)) \in Seq(Ops) /\ Len(Tail(Tail(rest))) = Len(Tail(rest)) - 1
          /\ Len(Tail(rest)) \in Nat \ {0}
          /\ \A j \in 1..(Len(Tail(rest)) - 1) : Tail(Tail(rest))[j] = Tail(rest)[j + 1]
      BY <2>2, Tails
    <3>4. SubSeq(script, 4, Len(script)) \in Seq(Ops)
      BY EndOfSeq
    <3>5. Len(SubSeq(script, 4, Len(script))) = Len(script) - 3
      <4>1. Len(script) >= 3
        BY <3>1, <3>2, <3>3
      <4>2. Len(SubSeq(script, 4, Len(script))) = IF 4 <= Len(script) THEN Len(script) - 4 + 1 ELSE 0
        OBVIOUS
      <4>3. QED
        BY <3>1, <4>1, <4>2
    <3>6. \A j \in 1..(Len(script) - 3) : SubSeq(script, 4, Len(script))[j] = script[j + 3]
      BY <3>1, <3>5
    <3>7. ASSUME NEW j \in 1..(Len(script) - 3) PROVE Tail(Tail(rest))[j] = script[j + 3]
      <4>1. j \in 1..(Len(Tail(rest)) - 1) /\ j + 1 \in 1..(Len(rest) - 1)
            /\ (j + 1) + 1 \in 1..(Len(script) - 1) /\ ((j + 1) + 1) + 1 = j + 3
        BY <3>1, <3>2, <3>3
      <4>2. Tail(Tail(rest))[j] = Tail(rest)[j + 1] /\ Tail(rest)[j + 1] = rest[(j + 1) + 1]
        BY <3>2, <3>3, <4>1
      <4>3. rest[(j + 1) + 1] = script[((j + 1) + 1) + 1]
        BY <3>1, <4>1
      <4>4. QED
        BY <4>1, <4>2, <4>3
    <3>8. Len(Tail(Tail(rest))) = Len(script) - 3
      BY <3>1, <3>2, <3>3
    <3> HIDE DEF rest
    <3>9. QED
      BY <3>3, <3>4, <3>5, <3>6, <3>7, <3>8, SameSequence
  <2>6. QED
    BY <1>2, <2>4, <2>5 DEF Wifi!AfterOpen
<1>3. CASE ~(~ok /\ Len(script) > 1 /\ script[2] = "SCAN")
  BY <1>1, <1>3 DEF Wifi!AfterOpen
<1>4. QED
  BY <1>2, <1>3

(* Nothing waits, no request, no reply. *)
LEMMA Idle ==
  ASSUME WifiTypes, OneAtATime, timely, ~asked
  PROVE  requests = <<>> /\ replies = <<>>
<1>1. requests \in Seq(Request) /\ replies \in Seq(Reply) /\ Len(requests) + Len(replies) = 0
  BY DEF WifiTypes, OneAtATime
<1>2. QED
  BY <1>1

LEMMA OnlyOne ==
  ASSUME WifiTypes, OneAtATime, timely, asked
  PROVE  /\ requests # <<>> => replies = <<>> /\ Tail(requests) = <<>> /\ Len(requests) = 1
         /\ replies # <<>> => requests = <<>> /\ Tail(replies) = <<>> /\ Len(replies) = 1
<1>1. requests \in Seq(Request) /\ replies \in Seq(Reply) /\ Len(requests) + Len(replies) = 1
  BY DEF WifiTypes, OneAtATime
<1>2. /\ Len(requests) \in Nat /\ Len(replies) \in Nat
      /\ requests # <<>> => Len(requests) # 0
      /\ replies # <<>> => Len(replies) # 0
      /\ requests = <<>> <=> Len(requests) = 0
      /\ replies = <<>> <=> Len(replies) = 0
  BY <1>1, NotEmpty
<1>3. /\ requests # <<>> => Len(requests) = 1 /\ Len(replies) = 0
      /\ replies # <<>> => Len(replies) = 1 /\ Len(requests) = 0
  <2> DEFINE a == Len(requests)
  <2> DEFINE b == Len(replies)
  <2>1. a \in Nat /\ b \in Nat /\ a + b = 1
    BY <1>1, <1>2
  <2> HIDE DEF a, b
  <2>2. a # 0 => a = 1 /\ b = 0
    BY <2>1
  <2>3. b # 0 => b = 1 /\ a = 0
    BY <2>1
  <2>4. QED
    BY <1>2, <2>2, <2>3 DEF a, b
<1>4. /\ requests # <<>> => Tail(requests) \in Seq(Request) /\ Len(Tail(requests)) = Len(requests) - 1
      /\ replies # <<>> => Tail(replies) \in Seq(Reply) /\ Len(Tail(replies)) = Len(replies) - 1
  BY <1>1, Tails
<1>5. /\ requests # <<>> => Len(Tail(requests)) = 0
      /\ replies # <<>> => Len(Tail(replies)) = 0
  BY <1>3, <1>4
<1>6. QED
  BY <1>2, <1>3, <1>4, <1>5, NotEmpty

-----------------------------------------------------------------------------
LEMMA OneAtATimeKept ==
  ASSUME WifiTypes, Connected, OneAtATime, [Wifi!Next]_Wifi!vars
  PROVE  OneAtATime'
<1> SUFFICES ASSUME timely'
             PROVE  /\ Len(requests') + Len(replies') = IF asked' THEN 1 ELSE 0
                    /\ requests' # <<>> =>
                         requests'[1] = [op |-> script'[1], id |-> netid', run |-> run',
                                         from |-> opened']
                    /\ replies' # <<>> => replies'[1].op = script'[1]
                    /\ Ordered(script')
                    /\ script' # <<>> /\ ~conn' => script'[1] \notin OwnSteps
  BY DEF OneAtATime, Ordered, Follows
<1>1. /\ requests \in Seq(Request) /\ replies \in Seq(Reply)
      /\ script \in Seq(Ops) /\ asked \in BOOLEAN
      /\ Len(<<>>) = 0
  BY DEF WifiTypes
<1>2. timely
  BY DEF Wifi!Next, Wifi!program, Wifi!Start, Wifi!wpa_ctrl_open, Wifi!Crash, Wifi!Exit, Wifi!Send,
         Wifi!SendFails, Wifi!TimeOut, Wifi!Receive, Wifi!Answer, Wifi!vars
<1>3. /\ requests # <<>> =>
           requests[1] = [op |-> script[1], id |-> netid, run |-> run, from |-> opened]
      /\ replies # <<>> => replies[1].op = script[1]
      /\ Ordered(script)
      /\ script # <<>> /\ ~conn => script[1] \notin OwnSteps
  BY <1>2 DEF OneAtATime
<1>4. ~asked => requests = <<>> /\ replies = <<>>
  BY <1>2, Idle
<1>5. CASE Wifi!Start
  <2>1. ~running /\ asked' = asked /\ requests' = requests /\ replies' = replies
    BY <1>5 DEF Wifi!Start
  <2>2. asked' = FALSE /\ requests' = <<>> /\ replies' = <<>>
    BY <1>1, <1>4, <2>1 DEF Connected
  <2>3. script' \in Plan
    BY <1>5, StartsWithPlan DEF Wifi!Start
  <2>4. Ordered(script') /\ (script' # <<>> => script'[1] \notin OwnSteps)
    BY <2>3 DEF Plan
  <2>5. QED
    BY <1>1, <2>2, <2>4
<1>6. CASE Wifi!wpa_ctrl_open
  <2>1. /\ script # <<>> /\ script[1] = "open" /\ asked' = asked /\ requests' = requests
        /\ replies' = <<>> /\ script' = Wifi!AfterOpen(listening)
    BY <1>1, <1>6, Tails DEF Wifi!wpa_ctrl_open, Wifi!Opening
  <2>2. asked' = FALSE /\ requests' = <<>>
    BY <1>1, <1>4, <2>1 DEF Connected
  <2>3. Ordered(script') /\ (script' # <<>> => script'[1] \notin OwnSteps)
    BY <1>1, <1>3, <2>1, AfterOpenOrdered
  <2>4. QED
    BY <1>1, <2>1, <2>2, <2>3
<1>7. CASE Wifi!Crash
  <2>1. ~conn /\ script' = <<>> /\ UNCHANGED <<asked, requests, replies>>
    BY <1>7 DEF Wifi!Crash
  <2>2. asked' = FALSE /\ requests' = <<>> /\ replies' = <<>>
    BY <1>1, <1>4, <2>1 DEF Connected
  <2>3. Ordered(script')
    BY <2>1 DEF Ordered
  <2>4. QED
    BY <1>1, <2>1, <2>2, <2>3
<1>8. CASE Wifi!Exit
  <2>1. script = <<>> /\ script' = <<>> /\ replies' = <<>> /\ UNCHANGED <<asked, requests>>
    BY <1>8 DEF Wifi!Exit
  <2>2. asked' = FALSE /\ requests' = <<>>
    BY <1>1, <1>4, <2>1 DEF Connected
  <2>3. Ordered(script')
    BY <2>1 DEF Ordered
  <2>4. QED
    BY <1>1, <2>1, <2>2, <2>3
<1>9. CASE Wifi!Send
  <2>1. /\ ~asked /\ conn /\ asked' = TRUE /\ script # <<>> /\ Head(script) = script[1]
        /\ requests' = Append(requests, [op |-> Head(script), id |-> netid, run |-> run,
                                         from |-> opened])
        /\ UNCHANGED <<run, script, netid, opened, conn, replies>>
    BY <1>1, <1>9, Tails DEF Wifi!Send, Wifi!CanSend
  <2>2. requests = <<>> /\ replies' = <<>>
    BY <1>4, <2>1
  <2>3. Len(requests') = 1 /\ requests'[1] = [op |-> script[1], id |-> netid, run |-> run,
                                              from |-> opened]
    BY <2>1, <2>2
  <2>4. QED
    BY <1>1, <1>3, <2>1, <2>2, <2>3
<1>10. CASE Wifi!SendFails \/ Wifi!TimeOut
  BY <1>10 DEF Wifi!SendFails, Wifi!TimeOut
<1>11. CASE Wifi!Receive
  <2>1. /\ asked /\ replies # <<>> /\ asked' = FALSE /\ replies' = Tail(replies)
        /\ UNCHANGED <<requests, conn>>
    BY <1>11 DEF Wifi!Receive
  <2>2. requests' = <<>> /\ replies' = <<>> /\ conn' /\ script # <<>>
    BY <1>2, <2>1, OnlyOne DEF Connected
  <2>3. /\ Tail(script) \in Seq(Ops) /\ Ordered(Tail(script)) /\ Head(script) = script[1]
        /\ Tail(script) # <<>> => Follows(script[1], Tail(script)[1])
    BY <1>1, <1>3, <2>2, Tails, TailOrdered
  <2>4. Ordered(script')
    <3>1. CASE script' = Tail(script)
      BY <2>3, <3>1
    <3>2. CASE /\ script[1] = "ADD_NETWORK"
               /\ script' = <<"REMOVE_NETWORK", "SAVE_CONFIG", "RECONFIGURE">> \o Tail(script)
      BY <2>3, <3>2, RemovalOrdered DEF Follows
    <3>3. QED
      BY <1>11, <2>3, <3>1, <3>2 DEF Wifi!Receive, Wifi!Added
  <2>5. Len(requests') + Len(replies') = 0
    BY <1>1, <2>2
  <2>6. QED
    BY <2>1, <2>2, <2>4, <2>5
<1>12. CASE Wifi!Answer
  <2>1. /\ requests # <<>> /\ requests' = Tail(requests)
        /\ UNCHANGED <<run, running, script, asked, netid, opened, conn>>
    BY <1>12 DEF Wifi!Answer
  <2>2. asked /\ running /\ replies = <<>> /\ requests' = <<>>
    BY <1>1, <1>2, <1>4, <2>1, OnlyOne DEF Connected
  <2>3. Head(requests) = [op |-> script[1], id |-> netid, run |-> run, from |-> opened]
    BY <1>1, <1>3, <2>1, Tails
  <2>4. replies' = Append(replies, [op |-> script[1],
                                    id |-> IF script[1] = "ADD_NETWORK" THEN Wifi!NextId ELSE Wifi!NoId])
    BY <1>12, <2>2, <2>3 DEF Wifi!Answer
  <2>5. Len(replies') = 1 /\ replies'[1].op = script[1]
    BY <2>2, <2>4
  <2>6. Len(requests') + Len(replies') = 1
    BY <1>1, <2>2, <2>5
  <2>7. requests' = <<>> /\ asked' /\ replies'[1].op = script'[1]
    BY <2>1, <2>2, <2>5
  <2>8. Ordered(script') /\ (script' # <<>> /\ ~conn' => script'[1] \notin OwnSteps)
    BY <1>3, <2>1
  <2>9. QED
    BY <2>6, <2>7, <2>8
<1>13. CASE UNCHANGED Wifi!vars
  BY <1>2, <1>13 DEF Wifi!vars, OneAtATime
<1>14. QED
  BY <1>5, <1>6, <1>7, <1>8, <1>9, <1>10, <1>11, <1>12, <1>13 DEF Wifi!Next, Wifi!program

-----------------------------------------------------------------------------
(* The phases of a configuration *)
LEMMA RestsAfter ==
  ASSUME NEW op \in Ops \ {"ADD_NETWORK", "REMOVE_NETWORK", "SAVE_CONFIG"}, Executed(op)
  PROVE  Resting
BY DEF Executed, Ready, Own, Ops

LEMMA RestsBefore ==
  ASSUME NEW op \in Ops \ OwnSteps
  PROVE  Ready(op) <=> Resting
BY DEF Ready, OwnSteps, Ops

(* A step that follows is ready when the one before was executed. *)
LEMMA NextIsReady ==
  ASSUME NEW op \in Ops \ {"ADD_NETWORK"}, NEW next \in Ops, Follows(op, next), Executed(op)
  PROVE  Ready(next)
<1>1. CASE next = "ssid"
  <2>1. op = "RECONFIGURE"
    BY <1>1 DEF Follows
  <2>2. QED
    BY <1>1, <2>1 DEF Executed
<1>2. CASE next = "psk"
  <2>1. op = "ssid"
    BY <1>2 DEF Follows
  <2>2. QED
    BY <1>2, <2>1 DEF Executed
<1>3. CASE next = "SELECT_NETWORK"
  <2>1. op = "psk"
    BY <1>3 DEF Follows
  <2>2. QED
    BY <1>3, <2>1 DEF Executed
<1>4. CASE next = "STATUS"
  <2>1. op = "SELECT_NETWORK"
    BY <1>4 DEF Follows
  <2>2. QED
    BY <1>4, <2>1 DEF Executed
<1>5. CASE next = "SAVE_CONFIG"
  <2>1. op = "REMOVE_NETWORK"
    BY <1>5 DEF Follows
  <2>2. QED
    BY <1>5, <2>1 DEF Executed
<1>6. CASE next = "RECONFIGURE"
  <2>1. op = "SAVE_CONFIG"
    BY <1>6 DEF Follows
  <2>2. QED
    BY <1>6, <2>1 DEF Executed
<1>7. CASE next \notin OwnSteps
  <2>1. op \notin {"REMOVE_NETWORK", "SAVE_CONFIG"}
    BY <1>7 DEF Follows, OwnSteps
  <2>2. QED
    BY <1>7, <2>1, RestsAfter, RestsBefore
<1>8. next # "REMOVE_NETWORK"
  BY DEF Follows
<1>9. QED
  BY <1>1, <1>2, <1>3, <1>4, <1>5, <1>6, <1>7, <1>8 DEF OwnSteps

(* The reply to ADD_NETWORK: what is ready is what it leads to. *)
LEMMA AddedIsReady ==
  ASSUME WifiTypes, Ordered(script), script # <<>>, script[1] = "ADD_NETWORK",
         Executed("ADD_NETWORK"), NEW n, n = replies[1].id, Wifi!Added(n), replies' = <<>>,
         UNCHANGED <<nets, file, current, run>>
  PROVE  Phase'
<1>1. PICK k \in 0..(NETWORK_ID_MAX + 1) :
        DOMAIN nets = 0..k /\ nets[k] = Network(0, 0) /\ n = k
  BY DEF Executed
<1>2. NETWORK_ID_MAX \in Nat /\ script \in Seq(Ops)
  BY WifiAssumption DEF WifiTypes
<1>3. /\ Tail(script) \in Seq(Ops) /\ Ordered(Tail(script))
      /\ Tail(script) # <<>> => Follows("ADD_NETWORK", Tail(script)[1]) /\ Tail(script)[1] \in Ops
  BY <1>2, Tails, TailOrdered
<1>4. CASE n > NETWORK_ID_MAX
  <2>1. k = NETWORK_ID_MAX + 1
    BY <1>1, <1>2, <1>4
  <2>2. /\ netid' = NETWORK_ID_MAX
        /\ script' = <<"REMOVE_NETWORK", "SAVE_CONFIG", "RECONFIGURE">> \o Tail(script)
    BY <1>4, Zenon DEF Wifi!Added
  <2>3. script' # <<>> /\ script'[1] = "REMOVE_NETWORK"
    <3>1. Tail(script) # <<>> => Follows("RECONFIGURE", Tail(script)[1])
      BY <1>3 DEF Follows
    <3>2. QED
      BY <1>3, <2>2, <3>1, RemovalOrdered
  <2>4. DOMAIN nets' = 0..(NETWORK_ID_MAX + 1) /\ nets'[NETWORK_ID_MAX + 1] = Network(0, 0)'
    BY <1>1, <2>1 DEF Network
  <2>5. Ready("REMOVE_NETWORK")'
    BY <2>2, <2>4 DEF Ready
  <2>6. QED
    BY <2>3, <2>5 DEF Phase
<1>5. CASE ~(n > NETWORK_ID_MAX)
  <2>1. netid' = k /\ script' = Tail(script)
    BY <1>1, <1>5 DEF Wifi!Added
  <2>2. k + 1 \in 0..(NETWORK_ID_MAX + 1) /\ (k + 1) - 1 = k
    BY <1>1, <1>2, <1>5
  <2>3. Resting'
    BY <1>1, <2>2 DEF Resting
  <2>4. Own(0, 0)'
    <3>1. k \in DOMAIN nets /\ Network(0, 0)' = Network(0, 0)
      BY <1>1, <1>2 DEF Network
    <3>2. QED
      BY <1>1, <2>1, <2>3, <3>1 DEF Own
  <2>5. ASSUME script' # <<>> PROVE Ready(script[1])'
    <3>1. Follows("ADD_NETWORK", script'[1]) /\ script'[1] \in Ops
      BY <1>3, <2>1, <2>5
    <3>2. script'[1] \in OwnSteps => script'[1] = "ssid"
      BY <3>1 DEF Follows, OwnSteps
    <3>3. QED
      BY <2>3, <2>4, <3>1, <3>2 DEF Ready, OwnSteps
  <2>6. QED
    BY <2>3, <2>5 DEF Phase
<1>6. QED
  BY <1>4, <1>5

LEMMA ReceivedIsReady ==
  ASSUME WifiTypes, Connected, OneAtATime, Phase, timely, Wifi!Receive
  PROVE  Phase'
<1>1. /\ asked /\ replies # <<>> /\ replies' = Tail(replies) /\ script # <<>>
      /\ UNCHANGED <<nets, file, current, run>>
  BY DEF Wifi!Receive, Wifi!supplicant, Connected
<1>2. /\ script \in Seq(Ops) /\ replies \in Seq(Reply) /\ Ordered(script)
      /\ replies' = <<>> /\ replies[1].op = script[1] /\ Executed(script[1])
  BY <1>1, OnlyOne DEF WifiTypes, OneAtATime, Phase
<1>3. /\ Head(script) = script[1] /\ script[1] \in Ops
      /\ Tail(script) \in Seq(Ops)
      /\ Tail(script) # <<>> => Follows(script[1], Tail(script)[1]) /\ Tail(script)[1] \in Ops
      /\ Tail(script) = <<>> => script[1] \notin {"SCAN", "REMOVE_NETWORK", "SAVE_CONFIG"}
  BY <1>1, <1>2, Tails, TailOrdered
<1>4. CASE script[1] = "ADD_NETWORK"
  <2>1. PICK n \in Wifi!numbers_in(Head(replies)) : Wifi!Added(n)
    BY <1>3, <1>4 DEF Wifi!Receive
  <2>2. Head(replies) = replies[1]
    BY <1>1, <1>2, Tails
  <2>3. n = replies[1].id
    BY <1>2, <1>4, <2>1, <2>2 DEF Wifi!numbers_in
  <2>4. QED
    BY <1>1, <1>2, <1>4, <2>1, <2>3, AddedIsReady
<1>5. CASE script[1] # "ADD_NETWORK"
  <2>1. script' = Tail(script) /\ netid' = netid
    BY <1>3, <1>5 DEF Wifi!Receive
  <2>2. ASSUME Tail(script) = <<>> PROVE Resting
    BY <1>2, <1>3, <1>5, <2>2, RestsAfter
  <2>3. ASSUME Tail(script) # <<>> PROVE Ready(Tail(script)[1])
    BY <1>2, <1>3, <1>5, <2>3, NextIsReady
  <2>4. Resting => Resting'
    BY <1>1 DEF Resting
  <2>5. ASSUME Tail(script) # <<>> PROVE Ready(script[1])'
    <3>1. \A s, p \in {0, run} : Own(s, p) => Own(s, p)'
      BY <1>1, <2>1, <2>4 DEF Own, Network
    <3>2. Network(0, 0)' = Network(0, 0)
      BY <1>1 DEF Network
    <3>3. QED
      BY <1>1, <2>1, <2>3, <2>4, <2>5, <3>1, <3>2 DEF Ready
  <2>6. QED
    BY <1>2, <2>1, <2>2, <2>4, <2>5 DEF Phase
<1>6. QED
  BY <1>4, <1>5

(* wpa_supplicant has executed the step that was ready, and the networks    *)
(* that are set are still their owners'.                                    *)
LEMMA ExecutedWhenReady ==
  ASSUME WifiTypes, NetworksOK, timely, writable, roomy, UNCHANGED <<run, netid>>,
         NEW op \in Ops, Ready(op), NEW m, m = [op |-> op, id |-> netid, run |-> run, from |-> opened],
         Wifi!Execute(m), op = "ADD_NETWORK" => replies'[1].id = Wifi!NextId
  PROVE  /\ Executed(op)'
         /\ \A n \in DOMAIN nets' : OwnerSet(nets'[n])
         /\ \A j \in 1..Len(file') : OwnerSet(file'[j])
<1>1. /\ m.op = op /\ m.id = netid /\ m.run = run /\ NETWORK_ID_MAX \in Nat
      /\ file \in Seq(Wifi!Network)
      /\ \A n \in DOMAIN nets : nets[n] \in Wifi!Network /\ OwnerSet(nets[n])
      /\ \A j \in 1..Len(file) : OwnerSet(file[j])
      /\ \A s, p : Network(s, p)' = Network(s, p)
      /\ \A s, p \in {0, run} : OwnerSet(Network(s, p))
  BY WifiAssumption DEF WifiTypes, NetworksOK, Network, OwnerSet
<1>2. CASE op = "ADD_NETWORK"
  <2>1. PICK k \in 0..(NETWORK_ID_MAX + 1) : DOMAIN nets = 0..(k - 1)
    BY <1>2 DEF Ready, Resting
  <2>2. Wifi!NextId = k
    <3>1. k - 1 \in Nat \cup {-1} /\ 0 <= (k - 1) + 1 /\ (k - 1) + 1 = k
      BY <1>1, <2>1
    <3>2. Wifi!NextId = IF 0 = (k - 1) + 1 THEN 0 ELSE (k - 1) + 1
      BY <2>1, <3>1, NextIdIs
    <3>3. QED
      BY <1>1, <2>1, <3>2
  <2>3. /\ nets' = [n \in DOMAIN nets \cup {k} |-> IF n = k THEN Network(0, 0) ELSE nets[n]]
        /\ file' = file
    BY <1>1, <1>2, <2>2 DEF Wifi!Execute, Network
  <2>4. DOMAIN nets' = 0..k /\ nets'[k] = Network(0, 0)
    BY <1>1, <2>1, <2>3
  <2>5. Executed("ADD_NETWORK")'
    BY <1>1, <1>2, <2>1, <2>2, <2>4 DEF Executed
  <2>6. \A n \in DOMAIN nets' : OwnerSet(nets'[n])
    BY <1>1, <2>3
  <2>7. QED
    BY <1>1, <1>2, <2>3, <2>5, <2>6
<1>3. CASE op = "ssid"
  <2>1. Resting /\ netid \in DOMAIN nets /\ nets[netid] = Network(0, 0)
    BY <1>3 DEF Ready, Own
  <2>2. nets' = [nets EXCEPT ![netid] = [@ EXCEPT !["ssid"] = run]] /\ file' = file
    BY <1>1, <1>3, <2>1 DEF Wifi!Execute
  <2>3. [nets[netid] EXCEPT !["ssid"] = run] = Network(run, 0)
    BY <2>1 DEF Network
  <2>4. DOMAIN nets' = DOMAIN nets /\ \A n \in DOMAIN nets : nets'[n] = IF n = netid THEN Network(run, 0) ELSE nets[n]
    BY <2>2, <2>3
  <2>5. Own(run, 0)'
    BY <1>1, <2>1, <2>4 DEF Own, Resting
  <2>6. Executed("ssid")'
    BY <2>5 DEF Executed, Ready
  <2>7. \A n \in DOMAIN nets' : OwnerSet(nets'[n])
    BY <1>1, <2>4
  <2>8. QED
    BY <1>1, <1>3, <2>2, <2>6, <2>7
<1>4. CASE op = "psk"
  <2>1. Resting /\ netid \in DOMAIN nets /\ nets[netid] = Network(run, 0)
    BY <1>4 DEF Ready, Own
  <2>2. nets' = [nets EXCEPT ![netid] = [@ EXCEPT !["psk"] = run]] /\ file' = file
    BY <1>1, <1>4, <2>1 DEF Wifi!Execute
  <2>3. [nets[netid] EXCEPT !["psk"] = run] = Network(run, run)
    BY <2>1 DEF Network
  <2>4. DOMAIN nets' = DOMAIN nets /\ \A n \in DOMAIN nets : nets'[n] = IF n = netid THEN Network(run, run) ELSE nets[n]
    BY <2>2, <2>3
  <2>5. Own(run, run)'
    BY <1>1, <2>1, <2>4 DEF Own, Resting
  <2>6. Executed("psk")'
    BY <2>5 DEF Executed, Ready
  <2>7. \A n \in DOMAIN nets' : OwnerSet(nets'[n])
    BY <1>1, <2>4
  <2>8. QED
    BY <1>1, <1>4, <2>2, <2>6, <2>7
<1>5. CASE op = "SELECT_NETWORK"
  <2>1. Resting /\ netid \in DOMAIN nets /\ nets[netid] = Network(run, run)
    BY <1>5 DEF Ready, Own
  <2>2. current' = netid /\ nets' = nets /\ file' = file
    BY <1>1, <1>5, <2>1 DEF Wifi!Execute
  <2>3. Own(run, run)' /\ current' = netid'
    BY <1>1, <2>1, <2>2 DEF Own, Resting
  <2>4. Executed("SELECT_NETWORK")'
    BY <2>3 DEF Executed, Ready
  <2>5. QED
    BY <1>1, <1>5, <2>2, <2>4
<1>6. CASE op = "REMOVE_NETWORK"
  <2>1. /\ netid = NETWORK_ID_MAX /\ DOMAIN nets = 0..(NETWORK_ID_MAX + 1)
        /\ nets[NETWORK_ID_MAX + 1] = Network(0, 0)
    BY <1>6 DEF Ready
  <2>2. nets' = [n \in DOMAIN nets \ {0} |-> nets[n]] /\ file' = file
    BY <1>1, <1>6 DEF Wifi!Execute, Wifi!Without
  <2>3. DOMAIN nets' = 1..(NETWORK_ID_MAX + 1) /\ nets'[NETWORK_ID_MAX + 1] = Network(0, 0)
    BY <1>1, <2>1, <2>2
  <2>4. Executed("REMOVE_NETWORK")'
    BY <1>1, <2>1, <2>3 DEF Executed, Ready
  <2>5. \A n \in DOMAIN nets' : OwnerSet(nets'[n])
    BY <1>1, <2>2
  <2>6. QED
    BY <1>1, <1>6, <2>2, <2>4, <2>5
<1>7. CASE op = "SAVE_CONFIG"
  <2>1. /\ netid = NETWORK_ID_MAX /\ DOMAIN nets = 1..(NETWORK_ID_MAX + 1)
        /\ nets[NETWORK_ID_MAX + 1] = Network(0, 0)
    BY <1>7 DEF Ready
  <2>2. file' = Wifi!InOrder /\ nets' = nets
    BY <1>1, <1>7 DEF Wifi!Execute
  <2>3. Wifi!InOrder = [k \in 1..((NETWORK_ID_MAX + 1) - 1 + 1) |-> nets[1 + k - 1]]
    BY <1>1, <2>1, InOrderIs
  <2>4. file' = [k \in 1..(NETWORK_ID_MAX + 1) |-> nets[k]]
    <3>1. (NETWORK_ID_MAX + 1) - 1 + 1 = NETWORK_ID_MAX + 1 /\ \A k \in 1..(NETWORK_ID_MAX + 1) : 1 + k - 1 = k
      BY <1>1
    <3>2. QED
      BY <2>2, <2>3, <3>1
  <2>5. Len(file') = NETWORK_ID_MAX + 1 /\ \A j \in 1..(NETWORK_ID_MAX + 1) : file'[j] = nets[j]
    BY <1>1, <2>4
  <2>6. Executed("SAVE_CONFIG")'
    <3>1. file'[NETWORK_ID_MAX + 1] = Network(0, 0)'
      BY <1>1, <2>1, <2>5
    <3>2. QED
      BY <2>1, <2>5, <3>1 DEF Executed, Ready
  <2>7. \A j \in 1..Len(file') : OwnerSet(file'[j])
    BY <1>1, <2>1, <2>5
  <2>8. QED
    BY <1>1, <1>7, <2>2, <2>6, <2>7
<1>8. CASE op = "RECONFIGURE"
  <2>1. /\ netid = NETWORK_ID_MAX
        /\ Len(file) = NETWORK_ID_MAX + 1
        /\ file[NETWORK_ID_MAX + 1] = Network(0, 0)
    BY <1>8 DEF Ready
  <2>2. nets' = [n \in 0..(Len(file) - 1) |-> file[n + 1]] /\ file' = file
    BY <1>1, <1>8 DEF Wifi!Execute
  <2>3. DOMAIN nets' = 0..NETWORK_ID_MAX /\ \A n \in 0..NETWORK_ID_MAX : nets'[n] = file[n + 1] /\ n + 1 \in 1..Len(file)
    BY <1>1, <2>1, <2>2
  <2>4. Own(0, 0)'
    <3>1. Resting'
      <4>1. NETWORK_ID_MAX + 1 \in 0..(NETWORK_ID_MAX + 1) /\ (NETWORK_ID_MAX + 1) - 1 = NETWORK_ID_MAX
        BY <1>1
      <4>2. QED
        BY <2>3, <4>1 DEF Resting
    <3>2. netid' \in DOMAIN nets' /\ nets'[netid'] = Network(0, 0)'
      BY <1>1, <2>1, <2>3
    <3>3. QED
      BY <3>1, <3>2 DEF Own
  <2>5. Executed("RECONFIGURE")'
    BY <2>4 DEF Executed, Ready
  <2>6. \A n \in DOMAIN nets' : OwnerSet(nets'[n])
    BY <1>1, <2>3
  <2>7. QED
    BY <1>1, <1>8, <2>2, <2>5, <2>6
<1>9. CASE op \notin {"ADD_NETWORK", "ssid", "psk", "SELECT_NETWORK", "REMOVE_NETWORK",
                      "SAVE_CONFIG", "RECONFIGURE"}
  <2>1. UNCHANGED <<nets, file, current>>
    BY <1>1, <1>9 DEF Wifi!Execute
  <2>2. CASE op = "STATUS"
    <3>1. Own(run, run) /\ current = netid
      BY <2>2 DEF Ready
    <3>2. Own(run, run)' /\ current' = netid'
      BY <1>1, <2>1, <3>1 DEF Own, Resting
    <3>3. Executed("STATUS")'
      BY <3>2 DEF Executed, Ready
    <3>4. QED
      BY <1>1, <2>1, <2>2, <3>3
  <2>3. CASE op # "STATUS"
    <3>1. Resting
      BY <1>9, <2>3 DEF Ready
    <3>2. Resting'
      BY <2>1, <3>1 DEF Resting
    <3>3. Executed(op)'
      BY <1>9, <2>3, <3>2 DEF Executed, Ready
    <3>4. QED
      BY <1>1, <2>1, <3>3
  <2>4. QED
    BY <2>2, <2>3
<1>10. QED
  BY <1>2, <1>3, <1>4, <1>5, <1>6, <1>7, <1>8, <1>9

LEMMA NetworksOKKept ==
  ASSUME WifiTypes, Connected, OneAtATime, NetworksOK, [Wifi!Next]_Wifi!vars
  PROVE  NetworksOK'
<1> SUFFICES ASSUME timely', writable', roomy'
             PROVE  /\ \A n \in DOMAIN nets' : OwnerSet(nets'[n])
                    /\ \A j \in 1..Len(file') : OwnerSet(file'[j])
                    /\ Phase'
  BY DEF NetworksOK, OwnerSet
<1>1. timely /\ writable /\ roomy
  BY DEF Wifi!Next, Wifi!program, Wifi!Start, Wifi!wpa_ctrl_open, Wifi!Crash, Wifi!Exit, Wifi!Send,
         Wifi!SendFails, Wifi!TimeOut, Wifi!Receive, Wifi!Answer, Wifi!vars, Wifi!supplicant
<1>2. /\ \A n \in DOMAIN nets : OwnerSet(nets[n])
      /\ \A j \in 1..Len(file) : OwnerSet(file[j])
      /\ Phase
  BY <1>1 DEF NetworksOK
<1>3. /\ script \in Seq(Ops) /\ asked \in BOOLEAN
      /\ Ordered(script)
      /\ script # <<>> /\ ~conn => script[1] \notin OwnSteps
  BY <1>1 DEF WifiTypes, OneAtATime
<1>4. ~asked => requests = <<>> /\ replies = <<>>
  BY <1>1, Idle
<1>5. ~Wifi!Answer => UNCHANGED <<nets, file, current>>
  BY DEF Wifi!Next, Wifi!program, Wifi!Start, Wifi!wpa_ctrl_open, Wifi!Crash, Wifi!Exit, Wifi!Send,
         Wifi!SendFails, Wifi!TimeOut, Wifi!Receive, Wifi!vars, Wifi!supplicant
<1>6. UNCHANGED <<nets, file, current>> =>
        /\ \A n \in DOMAIN nets' : OwnerSet(nets'[n])
        /\ \A j \in 1..Len(file') : OwnerSet(file'[j])
  BY <1>2
<1>7. CASE Wifi!Start
  <2>1. /\ ~running /\ UNCHANGED <<nets, file, current, replies, asked>>
    BY <1>7 DEF Wifi!Start, Wifi!supplicant
  <2>2. Resting /\ replies' = <<>>
    BY <1>2, <1>4, <2>1 DEF Connected, Phase
  <2>3. script' \in Plan
    BY <1>7, StartsWithPlan DEF Wifi!Start
  <2>4. script' # <<>> => script'[1] \notin OwnSteps
    BY <2>3 DEF Plan
  <2>5. Phase'
    BY <2>1, <2>2, <2>4 DEF Phase, Ready, OwnSteps, Resting
  <2>6. QED
    BY <1>6, <2>1, <2>5
<1>8. CASE Wifi!wpa_ctrl_open
  <2>1. /\ script # <<>> /\ script[1] = "open" /\ UNCHANGED <<nets, file, current>>
        /\ replies' = <<>> /\ script' = Wifi!AfterOpen(listening)
    BY <1>3, <1>8, Tails DEF Wifi!wpa_ctrl_open, Wifi!Opening, Wifi!supplicant
  <2>2. Resting
    <3>1. replies = <<>>
      BY <1>3, <1>4, <2>1 DEF Connected
    <3>2. QED
      BY <1>2, <2>1, <3>1 DEF Phase, Ready
  <2>3. script' # <<>> => script'[1] \notin OwnSteps
    BY <1>3, <2>1, AfterOpenOrdered
  <2>4. Phase'
    BY <2>1, <2>2, <2>3 DEF Phase, Ready, OwnSteps, Resting
  <2>5. QED
    BY <1>6, <2>1, <2>4
<1>9. CASE Wifi!Crash
  <2>1. /\ script # <<>> /\ ~conn /\ script' = <<>> /\ UNCHANGED <<nets, file, current>>
    BY <1>9 DEF Wifi!Crash, Wifi!supplicant
  <2>2. script[1] \in Ops \ OwnSteps /\ replies = <<>>
    BY <1>3, <1>4, <2>1, Tails DEF Connected
  <2>3. Resting
    BY <1>2, <2>1, <2>2, RestsBefore DEF Phase
  <2>4. Phase'
    BY <2>1, <2>3 DEF Phase, Resting
  <2>5. QED
    BY <1>6, <2>1, <2>4
<1>10. CASE Wifi!Exit
  <2>1. /\ script = <<>> /\ script' = <<>> /\ UNCHANGED <<nets, file, current>>
    BY <1>10 DEF Wifi!Exit, Wifi!supplicant
  <2>2. Phase'
    BY <1>2, <2>1 DEF Phase, Resting
  <2>3. QED
    BY <1>6, <2>1, <2>2
<1>11. CASE Wifi!Send
  <2>1. UNCHANGED <<nets, file, current, script, replies, netid, run>>
    BY <1>11 DEF Wifi!Send, Wifi!supplicant
  <2>2. Phase'
    BY <1>2, <2>1 DEF Phase, Resting, Executed, Ready, Own, Network
  <2>3. QED
    BY <1>6, <2>1, <2>2
<1>12. CASE Wifi!SendFails \/ Wifi!TimeOut
  BY <1>12 DEF Wifi!SendFails, Wifi!TimeOut
<1>13. CASE Wifi!Receive
  <2>1. UNCHANGED <<nets, file, current>>
    BY <1>13 DEF Wifi!Receive, Wifi!supplicant
  <2>2. Phase'
    BY <1>1, <1>2, <1>13, ReceivedIsReady
  <2>3. QED
    BY <1>6, <2>1, <2>2
<1>14. CASE Wifi!Answer
  <2> DEFINE m == Head(requests)
  <2>1. /\ requests # <<>> /\ Wifi!Execute(m)
        /\ UNCHANGED <<run, running, script, netid, opened>>
    BY <1>14 DEF Wifi!Answer
  <2>2. asked /\ running /\ script # <<>> /\ replies = <<>>
    BY <1>1, <1>4, <2>1, OnlyOne DEF Connected
  <2>3. m = [op |-> script[1], id |-> netid, run |-> run, from |-> opened]
    <3>1. m = requests[1]
      BY <2>1, Tails DEF WifiTypes
    <3>2. QED
      BY <1>1, <2>1, <3>1 DEF OneAtATime
  <2>4. replies' = Append(replies, [op |-> script[1],
                                    id |-> IF script[1] = "ADD_NETWORK" THEN Wifi!NextId ELSE Wifi!NoId])
    BY <1>14, <2>2, <2>3 DEF Wifi!Answer
  <2>5. replies' # <<>> /\ (script[1] = "ADD_NETWORK" => replies'[1].id = Wifi!NextId)
    BY <2>2, <2>4
  <2>6. Ready(script[1]) /\ script[1] \in Ops
    BY <1>2, <1>3, <2>2, Tails DEF Phase
  <2> HIDE DEF m
  <2>7. /\ \A n \in DOMAIN nets' : OwnerSet(nets'[n])
        /\ \A j \in 1..Len(file') : OwnerSet(file'[j])
        /\ \A op : op = script[1] => Executed(op)'
    BY <1>1, <2>1, <2>3, <2>5, <2>6, ExecutedWhenReady
  <2>8. Executed(script[1])'
    BY <2>1, <2>7 DEF Executed, Ready
  <2>9. Phase'
    BY <2>1, <2>2, <2>5, <2>8 DEF Phase
  <2>10. QED
    BY <2>7, <2>9
<1>15. CASE UNCHANGED Wifi!vars
  <2>1. UNCHANGED <<nets, file, current, script, replies, netid, run>>
    BY <1>15 DEF Wifi!vars, Wifi!supplicant
  <2>2. Phase'
    BY <1>2, <2>1 DEF Phase, Resting, Executed, Ready, Own, Network
  <2>3. QED
    BY <1>6, <2>1, <2>2
<1>16. QED
  BY <1>7, <1>8, <1>9, <1>10, <1>11, <1>12, <1>13, <1>14, <1>15 DEF Wifi!Next, Wifi!program

LEMMA WifiStarts == Wifi!Init => WifiInv
<1> SUFFICES ASSUME Wifi!Init PROVE WifiInv
  OBVIOUS
<1>1. PICK numbers \in SUBSET (0..MaxNumber) :
        /\ nets = [id \in numbers |-> Wifi!NotOurs]
        /\ roomy = (\E n \in 0..(NETWORK_ID_MAX + 1) : numbers = 0..(n - 1))
  BY DEF Wifi!Init
<1>2. PICK len \in 0..(MaxNumber + 1) : file = [j \in 1..len |-> Wifi!NotOurs]
  BY DEF Wifi!Init
<1>3. /\ requests = <<>> /\ replies = <<>> /\ script = <<>> /\ asked = FALSE /\ running = FALSE
      /\ run = 0 /\ opened = 0 /\ conn = FALSE /\ timely = TRUE
      /\ current = Wifi!NoId /\ netid = Wifi!NoId
      /\ writable \in BOOLEAN /\ listening \in BOOLEAN
  BY DEF Wifi!Init
<1>4. Wifi!NotOurs \in Wifi!Network /\ OwnerSet(Wifi!NotOurs)
  BY WifiAssumption DEF Wifi!Network, Wifi!Runs, Wifi!NotOurs, OwnerSet
<1>5. DOMAIN nets = numbers /\ \A n \in numbers : nets[n] = Wifi!NotOurs
  BY <1>1
<1>6. file \in Seq(Wifi!Network) /\ Len(file) = len /\ \A j \in 1..len : file[j] = Wifi!NotOurs
  BY <1>2, <1>4, WifiAssumption
<1>7. Numbered
  BY <1>1, <1>5, WifiAssumption DEF Numbered
<1>8. WifiTypes
  <2>1. /\ requests \in Seq(Request) /\ Len(requests) <= QueueLen /\ script \in Seq(Ops)
        /\ replies \in Seq(Reply) /\ netid \in Int /\ run \in Wifi!Runs
    BY <1>3, WifiAssumption DEF Wifi!Runs, Wifi!NoId
  <2>2. roomy \in BOOLEAN
    BY <1>1
  <2>3. QED
    BY <1>3, <1>4, <1>5, <1>6, <1>7, <2>1, <2>2 DEF WifiTypes
<1>9. Connected
  BY <1>3 DEF Connected
<1>10. OneAtATime
  BY <1>3 DEF OneAtATime, Ordered
<1>11. NetworksOK
  <2> SUFFICES ASSUME roomy
               PROVE  /\ \A n \in DOMAIN nets : OwnerSet(nets[n])
                      /\ \A j \in 1..Len(file) : OwnerSet(file[j])
                      /\ Phase
    BY DEF NetworksOK
  <2>1. Phase
    BY <1>1, <1>3, <1>5 DEF Phase, Resting
  <2>2. QED
    BY <1>4, <1>5, <1>6, <2>1
<1>12. QED
  BY <1>8, <1>9, <1>10, <1>11 DEF WifiInv

LEMMA WifiShows == WifiInv => SetsItsOwnNetwork
<1> SUFFICES ASSUME WifiInv PROVE SetsItsOwnNetwork
  OBVIOUS
<1>1. WifiTypes /\ Connected /\ OneAtATime /\ NetworksOK
  BY DEF WifiInv
<1>2. DOMAIN nets \subseteq Nat
  BY <1>1 DEF WifiTypes, Numbered
<1>3. Wifi!TypeOK
  BY <1>1, <1>2 DEF WifiTypes, Connected, Wifi!TypeOK
<1>4. ASSUME timely, writable, roomy, running, script # <<>>, Head(script) = "STATUS"
      PROVE  current # Wifi!NoId /\ nets[current] = [owner |-> run, ssid |-> run, psk |-> run]
  <2>1. script[1] = "STATUS"
    BY <1>1, <1>4, Tails DEF WifiTypes
  <2>2. Ready("STATUS")
    BY <1>1, <1>4, <2>1 DEF NetworksOK, Phase, Executed
  <2>3. current \in DOMAIN nets /\ nets[current] = Network(run, run)
    BY <2>2 DEF Ready, Own
  <2>4. QED
    BY <1>2, <2>3 DEF Network, Wifi!NoId
<1>5. Wifi!SetsItsOwnNetwork
  BY <1>1, <1>4 DEF NetworksOK, OwnerSet, Wifi!SetsItsOwnNetwork
<1>6. QED
  BY <1>3, <1>5 DEF SetsItsOwnNetwork

(* However often the program is started, with whatever options: as long as   *)
(* every reply came in time, the configuration can be saved, and the         *)
(* networks were at first numbered 0, 1, ... up to NETWORK_ID_MAX at most,   *)
(* config_wifi sets and selects the network it has added, also where it has  *)
(* removed network 0 to make room and counts on the new numbers              *)
(* (wpa.cpp:258-267).                                                        *)
THEOREM OwnNetworkIsSet == Wifi!Spec => []SetsItsOwnNetwork
<1>1. WifiInv /\ [Wifi!Next]_Wifi!vars => WifiInv'
  <2> SUFFICES ASSUME WifiInv, [Wifi!Next]_Wifi!vars PROVE WifiInv'
    OBVIOUS
  <2>1. WifiTypes /\ Connected /\ OneAtATime /\ NetworksOK
    BY DEF WifiInv
  <2>2. WifiTypes'
    BY <2>1, WifiTypesKept
  <2>3. Connected'
    BY <2>1, ConnectedKept
  <2>4. OneAtATime'
    BY <2>1, OneAtATimeKept
  <2>5. NetworksOK'
    BY <2>1, NetworksOKKept
  <2>6. QED
    BY <2>2, <2>3, <2>4, <2>5 DEF WifiInv
<1>2. QED
  BY <1>1, WifiStarts, WifiShows, PTL DEF Wifi!Spec
=============================================================================
