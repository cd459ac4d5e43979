---------------------------- MODULE LogPipeProofs ----------------------------
(***************************************************************************)
(* The log pipe for any number of lines and any room in the pipe.          *)
(* LogIsWhole is not inductive: that a child that ended has logged         *)
(* everything rests on the parent's write end (the child meets the end of  *)
(* the pipe only when that is gone), and that nothing is lost on what the  *)
(* child holds where.  Places has the first, Contents the second; Kept is  *)
(* where the lines are.                                                    *)
(***************************************************************************)
EXTENDS LogPipe, SequenceTheorems, TLAPS

Line == 1..MaxLines

(* n lines were written; these are they, apart from some of `bad`. *)
WholeUpTo(lines, n, bad) ==
  /\ \A i \in 1..n \ bad : \E k \in DOMAIN lines : lines[k] = i
  /\ \A k \in DOMAIN lines : lines[k] \in 1..n
  /\ \A j, k \in DOMAIN lines : j < k => lines[j] < lines[k]

(* What has been logged, is being logged, or waits in the pipe. *)
Kept == gateway_log \o recv_buf \o pipe

(* The parent keeps its write end, and ends before a child that ends by    *)
(* itself; it calls write only while there are lines left.                 *)
Places ==
  /\ parent = "pipe" => child = "none"
  /\ parent = "write" => written < MaxLines
  /\ parent # "dead" => <<"parent", "write">> \in ends
  /\ pending => child = "zombie" /\ parent # "dead"
  /\ child = "eof" => parent = "dead"
  /\ child \in {"zombie", "reaped"} /\ ~killed => parent = "dead"

Contents ==
  /\ child \in {"none", "close", "open"} => gateway_log = <<>> /\ recv_buf = <<>>
  /\ child \notin {"zombie", "reaped"} => IsWhole(Kept)
  /\ child \in {"read", "eof"} => recv_buf = <<>>
  /\ child = "log" => Len(recv_buf) = 1
  /\ child = "eof" => pipe = <<>>
  /\ child \in {"zombie", "reaped"} /\ ~killed => IsWhole(gateway_log)

Inv == TypeOK /\ Places /\ Contents

-----------------------------------------------------------------------------
(* Sequences *)

(* A line goes from the pipe to the buffer, which changes nothing in all. *)
LEMMA HeadAndTail ==
  ASSUME NEW S, NEW g \in Seq(S), NEW p \in Seq(S), p # <<>>
  PROVE  g \o <<Head(p)>> \o Tail(p) = g \o <<>> \o p
<1>1. Head(p) \in S /\ Tail(p) \in Seq(S) /\ <<Head(p)>> \in Seq(S)
  BY HeadTailProperties
<1>2. <<Head(p)>> \o Tail(p) = p
  <2> DEFINE q == <<Head(p)>> \o Tail(p)
  <2>1. q \in Seq(S) /\ Len(q) = Len(p)
    BY <1>1, ConcatProperties, HeadTailProperties, LenProperties
  <2>2. ASSUME NEW i \in 1..Len(p) PROVE q[i] = p[i]
    <3>1. Len(p) \in Nat /\ Len(Tail(p)) = Len(p) - 1 /\ Len(<<Head(p)>>) = 1
      BY HeadTailProperties, LenProperties
    <3>2. q[i] = IF i <= 1 THEN <<Head(p)>>[i] ELSE Tail(p)[i - 1]
      BY <1>1, <3>1, ConcatProperties
    <3>3. CASE i = 1
      BY <3>2, <3>3
    <3>4. CASE i # 1
      <4>1. i - 1 \in 1..Len(Tail(p))
        BY <3>1, <3>4
      <4>2. Tail(p)[i - 1] = p[(i - 1) + 1]
        BY <4>1, HeadTailProperties
      <4>3. QED
        BY <3>2, <3>4, <4>2
    <3>5. QED
      BY <3>3, <3>4
  <2>3. QED
    BY <2>1, <2>2, SeqEqual
<1>3. (g \o <<Head(p)>>) \o Tail(p) = g \o (<<Head(p)>> \o Tail(p))
  BY <1>1, ConcatAssociative
<1>4. g \o <<>> = g
  BY ConcatEmptySeq
<1>5. QED
  BY <1>2, <1>3, <1>4

(* A line appended to the pipe comes after all the others. *)
LEMMA AppendedLast ==
  ASSUME NEW S, NEW g \in Seq(S), NEW p \in Seq(S), NEW e \in S
  PROVE  g \o Append(p, e) = Append(g \o p, e)
<1>1. Append(p, e) = p \o <<e>> /\ <<e>> \in Seq(S)
  BY AppendIsConcat
<1>2. g \o p \in Seq(S)
  BY ConcatProperties
<1>3. Append(g \o p, e) = (g \o p) \o <<e>>
  BY <1>2, AppendIsConcat
<1>4. QED
  BY <1>1, <1>3, ConcatAssociative

(* The next line in order joins the others. *)
LEMMA NextLine ==
  ASSUME NEW n \in Nat, NEW bad, NEW s \in Seq(Nat), WholeUpTo(s, n, bad)
  PROVE  WholeUpTo(Append(s, n + 1), n + 1, bad)
<1> DEFINE t == Append(s, n + 1)
<1>1. /\ t \in Seq(Nat) /\ Len(s) \in Nat /\ Len(t) = Len(s) + 1
      /\ \A k \in 1..Len(s) : t[k] = s[k]
      /\ t[Len(s) + 1] = n + 1
  BY AppendProperties, LenProperties
<1>2. DOMAIN s = 1..Len(s) /\ DOMAIN t = 1..(Len(s) + 1)
  BY <1>1, LenProperties
<1> HIDE DEF t
<1>3. \A k \in DOMAIN t : k \in DOMAIN s \/ k = Len(s) + 1
  BY <1>1, <1>2
<1>4. ASSUME NEW i \in 1..(n + 1) \ bad PROVE \E k \in DOMAIN t : t[k] = i
  <2>1. CASE i = n + 1
    BY <1>1, <1>2, <2>1
  <2>2. CASE i \in 1..n
    <3>1. PICK k \in DOMAIN s : s[k] = i
      BY <2>2 DEF WholeUpTo
    <3>2. QED
      BY <1>1, <1>2, <3>1
  <2>3. QED
    BY <2>1, <2>2
<1>5. ASSUME NEW k \in DOMAIN t PROVE t[k] \in 1..(n + 1)
  <2>1. CASE k \in DOMAIN s
    <3>1. s[k] \in 1..n /\ t[k] = s[k]
      BY <1>1, <1>2, <2>1 DEF WholeUpTo
    <3>2. QED
      BY <3>1
  <2>2. QED
    BY <1>1, <1>3, <2>1
<1>6. ASSUME NEW j \in DOMAIN t, NEW k \in DOMAIN t, j < k PROVE t[j] < t[k]
  <2>1. j \in DOMAIN s
    BY <1>1, <1>2, <1>6
  <2>2. s[j] \in 1..n /\ t[j] = s[j]
    BY <1>1, <1>2, <2>1 DEF WholeUpTo
  <2>3. CASE k \in DOMAIN s
    BY <1>1, <1>2, <1>6, <2>1, <2>2, <2>3 DEF WholeUpTo
  <2>4. CASE k = Len(s) + 1
    BY <1>1, <2>2, <2>4
  <2>5. QED
    BY <1>3, <2>3, <2>4
<1>7. QED
  BY <1>4, <1>5, <1>6 DEF WholeUpTo, t

(* A line whose write failed goes out of the middle. *)
LEMMA OneLineDropped ==
  ASSUME NEW n, NEW bad, NEW g \in Seq(Nat), NEW x \in Nat, NEW p \in Seq(Nat),
         WholeUpTo((g \o <<x>>) \o p, n, bad)
  PROVE  WholeUpTo((g \o <<>>) \o p, n, bad \cup {x})
<1> DEFINE r == (g \o <<x>>) \o p
           q == (g \o <<>>) \o p
           a == Len(g)
           b == Len(p)
           From(k) == IF k <= a THEN k ELSE k + 1
<1>1. a \in Nat /\ b \in Nat
  BY LenProperties
<1>2. /\ g \o <<x>> \in Seq(Nat) /\ Len(g \o <<x>>) = a + 1
      /\ \A k \in 1..(a + 1) : (g \o <<x>>)[k] = IF k <= a THEN g[k] ELSE x
  BY ConcatProperties, <1>1
<1>3. /\ DOMAIN r = 1..(a + b + 1)
      /\ \A k \in 1..(a + b + 1) :
           r[k] = IF k <= a THEN g[k] ELSE IF k = a + 1 THEN x ELSE p[k - a - 1]
  BY <1>1, <1>2, ConcatProperties, LenProperties
<1>4. /\ DOMAIN q = 1..(a + b)
      /\ \A k \in 1..(a + b) : q[k] = IF k <= a THEN g[k] ELSE p[k - a]
  BY <1>1, ConcatProperties, ConcatEmptySeq, LenProperties
<1> HIDE DEF r, q, a, b
<1>5. ASSUME NEW k \in DOMAIN q PROVE From(k) \in DOMAIN r /\ q[k] = r[From(k)]
  <2>1. k \in 1..(a + b) /\ k \in Nat
    BY <1>1, <1>4
  <2>2. CASE k <= a
    BY <1>1, <1>3, <1>4, <2>1, <2>2
  <2>3. CASE ~(k <= a)
    <3>1. From(k) = k + 1 /\ k + 1 \in 1..(a + b + 1) /\ ~(k + 1 <= a) /\ k + 1 # a + 1
      BY <1>1, <2>1, <2>3
    <3>2. r[k + 1] = p[(k + 1) - a - 1] /\ (k + 1) - a - 1 = k - a
      BY <1>1, <1>3, <2>1, <3>1
    <3>3. q[k] = p[k - a]
      BY <1>4, <2>1, <2>3
    <3>4. QED
      BY <1>3, <3>1, <3>2, <3>3
  <2>4. QED
    BY <2>2, <2>3
<1>6. WholeUpTo(r, n, bad)
  BY DEF r
<1>7. ASSUME NEW i \in 1..n \ (bad \cup {x}) PROVE \E k \in DOMAIN q : q[k] = i
  <2>1. PICK k \in DOMAIN r : r[k] = i
    BY <1>6 DEF WholeUpTo
  <2>2. k # a + 1
    BY <1>1, <1>3, <2>1
  <2>3. CASE k <= a
    <3>1. k \in DOMAIN q /\ From(k) = k
      BY <1>1, <1>3, <1>4, <2>1, <2>3
    <3>2. QED
      BY <1>5, <2>1, <3>1
  <2>4. CASE k > a + 1
    <3>1. k - 1 \in DOMAIN q /\ From(k - 1) = k
      BY <1>1, <1>3, <1>4, <2>1, <2>4
    <3>2. QED
      BY <1>5, <2>1, <3>1
  <2>5. QED
    BY <1>1, <1>3, <2>1, <2>2, <2>3, <2>4
<1>8. \A k \in DOMAIN q : q[k] \in 1..n
  BY <1>5, <1>6 DEF WholeUpTo
<1>9. ASSUME NEW j \in DOMAIN q, NEW k \in DOMAIN q, j < k PROVE q[j] < q[k]
  <2>1. From(j) < From(k)
    BY <1>1, <1>4, <1>9
  <2>2. QED
    BY <1>5, <1>6, <2>1 DEF WholeUpTo
<1>10. QED
  BY <1>7, <1>8, <1>9 DEF WholeUpTo, q

(* That a line's write failed takes no other line away. *)
LEMMA OneMoreFailed ==
  ASSUME NEW n, NEW bad, NEW x, NEW s, WholeUpTo(s, n, bad)
  PROVE  WholeUpTo(s, n, bad \cup {x})
BY DEF WholeUpTo

(* IsWhole after a step *)
LEMMA WholeIs ==
  /\ IsWhole(Kept) <=> WholeUpTo(Kept, written, failed)
  /\ IsWhole(Kept)' <=> WholeUpTo(Kept', written', failed')
  /\ IsWhole(gateway_log) <=> WholeUpTo(gateway_log, written, failed)
  /\ IsWhole(gateway_log)' <=> WholeUpTo(gateway_log', written', failed')
BY DEF IsWhole, WholeUpTo
-----------------------------------------------------------------------------
(* Types *)

(* The part of TypeOK about lines *)
LinesOK ==
  /\ pipe \in Seq(Line) /\ Len(pipe) <= Room
  /\ written \in 0..MaxLines
  /\ recv_buf \in Seq(Line) /\ Len(recv_buf) <= 1
  /\ gateway_log \in Seq(Line)
  /\ failed \subseteq 1..written

(* The rest of TypeOK *)
ProcessesOK ==
  /\ parent \in {"pipe", "close", "signal", "running", "write", "dead"}
  /\ child \in {"none", "close", "open", "read", "log", "eof", "zombie", "reaped"}
  /\ ends \subseteq {"parent", "child"} \X {"read", "write"}
  /\ handler \in BOOLEAN /\ pending \in BOOLEAN
  /\ log_open \in BOOLEAN /\ killed \in BOOLEAN

LEMMA TypeOKParts == TypeOK <=> LinesOK /\ ProcessesOK
BY DEF TypeOK, LinesOK, ProcessesOK, Line

(* The line the child holds is one that was written. *)
LEMMA HeldLine ==
  ASSUME LinesOK, Contents, child = "log"
  PROVE  recv_buf = <<recv_buf[1]>> /\ recv_buf[1] \in Line /\ recv_buf[1] \in 1..written
<1>1. recv_buf \in Seq(Line) /\ Len(recv_buf) = 1
  BY DEF LinesOK, Contents
<1>2. recv_buf = <<recv_buf[1]>> /\ recv_buf[1] \in Line
  BY <1>1
<1>0. gateway_log \in Seq(Line) /\ pipe \in Seq(Line)
  BY DEF LinesOK
<1> DEFINE g == Len(gateway_log)
<1>6. g \in Nat /\ Len(pipe) \in Nat
  BY <1>0, LenProperties
<1>3. /\ gateway_log \o recv_buf \in Seq(Line)
      /\ Len(gateway_log \o recv_buf) = g + 1
      /\ (gateway_log \o recv_buf)[g + 1] = recv_buf[1]
  <2>1. /\ gateway_log \o recv_buf \in Seq(Line)
        /\ Len(gateway_log \o recv_buf) = g + Len(recv_buf)
        /\ \A i \in 1..(g + Len(recv_buf)) :
             (gateway_log \o recv_buf)[i] = IF i <= g THEN gateway_log[i] ELSE recv_buf[i - g]
    BY <1>0, <1>1, ConcatProperties
  <2>2. g + 1 \in 1..(g + Len(recv_buf)) /\ ~(g + 1 <= g) /\ (g + 1) - g = 1
    BY <1>1, <1>6
  <2>3. QED
    BY <1>1, <2>1, <2>2
<1>4. g + 1 \in DOMAIN Kept /\ Kept[g + 1] = recv_buf[1]
  <2> DEFINE h == gateway_log \o recv_buf
  <2>1. h \in Seq(Line) /\ Len(h) = g + 1 /\ h[g + 1] = recv_buf[1]
    BY <1>3
  <2> HIDE DEF g, h
  <2>2. /\ h \o pipe \in Seq(Line) /\ Len(h \o pipe) = Len(h) + Len(pipe)
        /\ \A i \in 1..(Len(h) + Len(pipe)) :
             (h \o pipe)[i] = IF i <= Len(h) THEN h[i] ELSE pipe[i - Len(h)]
    BY <1>0, <2>1, ConcatProperties
  <2>3. g + 1 \in 1..(Len(h) + Len(pipe)) /\ g + 1 <= Len(h)
    BY <1>6, <2>1
  <2>4. g + 1 \in DOMAIN (h \o pipe) /\ (h \o pipe)[g + 1] = recv_buf[1]
    BY <2>1, <2>2, <2>3, LenProperties
  <2>5. QED
    BY <2>4 DEF h, Kept
<1>5. QED
  BY <1>2, <1>4 DEF Contents, IsWhole

(* Every step keeps the types of the lines. *)
LEMMA StepLines == ASSUME LinesOK, Places, Contents, [Next]_vars PROVE LinesOK'
<1> USE LogPipeAssumption
<1>1. ASSUME UNCHANGED <<pipe, written, recv_buf, gateway_log, failed>> PROVE LinesOK'
  BY <1>1 DEF LinesOK
<1>2. CASE Write
  <2>1. CASE Readable /\ Len(pipe) < Room /\ pipe' = Append(pipe, written + 1)
             /\ written' = written + 1
    <3>1. written + 1 \in Line
      BY <1>2 DEF LinesOK, Line, Places, Write
    <3>2. pipe' \in Seq(Line) /\ Len(pipe') = Len(pipe) + 1
      BY <2>1, <3>1, AppendProperties DEF LinesOK
    <3>3. Len(pipe) \in Nat
      BY LenProperties DEF LinesOK
    <3>4. UNCHANGED <<recv_buf, gateway_log, failed>>
      BY <1>2 DEF Write
    <3>5. QED
      BY <2>1, <3>1, <3>2, <3>3, <3>4 DEF LinesOK, Line
  <2>2. QED
    BY <1>2, <2>1, <1>1 DEF Write
<1>3. CASE Read
  <2>1. CASE pipe # <<>> /\ recv_buf' = <<Head(pipe)>> /\ pipe' = Tail(pipe)
    <3>1. Head(pipe) \in Line /\ pipe' \in Seq(Line) /\ Len(pipe') = Len(pipe) - 1
      BY <2>1, HeadTailProperties DEF LinesOK
    <3>2. recv_buf' \in Seq(Line) /\ Len(recv_buf') = 1 /\ Len(pipe) \in Nat
      BY <2>1, <3>1, LenProperties DEF LinesOK
    <3>3. UNCHANGED <<written, gateway_log, failed>>
      BY <1>3 DEF Read
    <3>4. QED
      BY <3>1, <3>2, <3>3 DEF LinesOK
  <2>2. QED
    BY <1>3, <2>1, <1>1 DEF Read
<1>4. CASE Log
  <2>1. gateway_log \o recv_buf \in Seq(Line)
    BY ConcatProperties DEF LinesOK
  <2>2. gateway_log' \in Seq(Line)
    BY <1>4, <2>1 DEF Log, LinesOK
  <2>3. failed' \subseteq 1..written
    BY <1>4, HeldLine DEF Log, LinesOK
  <2>4. QED
    BY <1>4, <2>2, <2>3 DEF Log, LinesOK
<1>5. QED
  BY <1>1, <1>2, <1>3, <1>4
  DEF Next, ParentStep, ChildStep, Fork, ParentCloses, InstallHandler, CallWrite,
      HandleSigchld, ParentEnds, ChildCloses, OpenLog, ChildExits, ChildEnds, ChildKilled, vars

(* Every step keeps the other types. *)
LEMMA StepProcesses == ASSUME ProcessesOK, [Next]_vars PROVE ProcessesOK'
<1> USE DEF ProcessesOK, Without, ParentGone
<1>1. CASE Fork
  BY <1>1 DEF Fork
<1>2. CASE ParentCloses
  BY <1>2 DEF ParentCloses
<1>3. CASE InstallHandler
  BY <1>3 DEF InstallHandler
<1>4. CASE CallWrite
  BY <1>4 DEF CallWrite
<1>5. CASE Write
  BY <1>5 DEF Write
<1>6. CASE HandleSigchld
  BY <1>6 DEF HandleSigchld
<1>7. CASE ParentEnds
  BY <1>7 DEF ParentEnds
<1>8. CASE ChildCloses
  BY <1>8 DEF ChildCloses
<1>9. CASE OpenLog
  BY <1>9 DEF OpenLog
<1>10. CASE Read
  BY <1>10 DEF Read
<1>11. CASE Log
  BY <1>11 DEF Log
<1>12. CASE ChildExits
  BY <1>12 DEF ChildExits, ChildEnds
<1>13. CASE ChildKilled
  BY <1>13 DEF ChildKilled, ChildEnds
<1>14. CASE UNCHANGED vars
  BY <1>14 DEF vars
<1>15. QED
  BY <1>1, <1>2, <1>3, <1>4, <1>5, <1>6, <1>7, <1>8, <1>9, <1>10, <1>11, <1>12, <1>13, <1>14
  DEF Next, ParentStep, ChildStep

(* Every step keeps the places. *)
LEMMA StepPlaces == ASSUME ProcessesOK, Places, [Next]_vars PROVE Places'
<1> USE DEF Places, Without, ParentGone
<1>1. CASE Fork
  BY <1>1 DEF Fork
<1>2. CASE ParentCloses
  BY <1>2 DEF ParentCloses
<1>3. CASE InstallHandler
  BY <1>3 DEF InstallHandler
<1>4. CASE CallWrite
  BY <1>4 DEF CallWrite
<1>5. CASE Write
  BY <1>5 DEF Write
<1>6. CASE HandleSigchld
  BY <1>6 DEF HandleSigchld
<1>7. CASE ParentEnds
  BY <1>7 DEF ParentEnds
<1>8. CASE ChildCloses
  BY <1>8 DEF ChildCloses
<1>9. CASE OpenLog
  BY <1>9 DEF OpenLog
<1>10. CASE Read
  BY <1>10 DEF Read, Writable
<1>11. CASE Log
  BY <1>11 DEF Log
<1>12. CASE ChildExits
  BY <1>12 DEF ChildExits, ChildEnds
<1>13. CASE ChildKilled
  BY <1>13 DEF ChildKilled, ChildEnds
<1>14. CASE UNCHANGED vars
  BY <1>14 DEF vars
<1>15. QED
  BY <1>1, <1>2, <1>3, <1>4, <1>5, <1>6, <1>7, <1>8, <1>9, <1>10, <1>11, <1>12, <1>13, <1>14
  DEF Next, ParentStep, ChildStep

-----------------------------------------------------------------------------
(* Where the lines are *)

(* Steps that touch neither the lines nor log_open, and after which the     *)
(* child is where it was, or killed, or has been waited for.                *)
LEMMA QuietContents ==
  ASSUME Contents, UNCHANGED <<pipe, written, recv_buf, gateway_log, failed>>,
         \/ child' = child /\ killed' = killed
         \/ child \in {"none", "close"} /\ child' \in {"none", "close", "open"}
         \/ child = "open" /\ child' = "read"
         \/ child = "zombie" /\ child' = "reaped" /\ killed' = killed
         \/ child' \in {"zombie", "reaped"} /\ killed'
  PROVE  Contents'
<1>1. Kept' = Kept
  BY DEF Kept
<1>2. IsWhole(Kept)' <=> IsWhole(Kept)
  BY <1>1 DEF IsWhole
<1>3. IsWhole(gateway_log)' <=> IsWhole(gateway_log)
  BY DEF IsWhole
<1>4. QED
  BY <1>2, <1>3 DEF Contents

(* Every step keeps the lines, in order: none is lost or doubled but those  *)
(* whose own write failed.                                                  *)
LEMMA StepContents ==
  ASSUME LinesOK, ProcessesOK, Places, Contents, [Next]_vars PROVE Contents'
<1> USE LogPipeAssumption
<1> USE DEF Without, ParentGone
<1>1. CASE Fork
  <2>1. child = "none"
    BY <1>1 DEF Fork, Places
  <2>2. QED
    BY <1>1, <2>1, QuietContents DEF Fork
<1>2. CASE ParentCloses
  BY <1>2, QuietContents DEF ParentCloses
<1>3. CASE InstallHandler
  BY <1>3, QuietContents DEF InstallHandler
<1>4. CASE CallWrite
  BY <1>4, QuietContents DEF CallWrite
<1>5. CASE Write
  <2>1. CASE pipe' = Append(pipe, written + 1) /\ written' = written + 1
    <3>1. UNCHANGED <<child, recv_buf, gateway_log, failed, killed>>
      BY <1>5, <2>1 DEF Write
    <3>2. written \in Nat /\ written + 1 \in Line
      BY <1>5 DEF Write, LinesOK, Places, Line
    <3>3. gateway_log \o recv_buf \in Seq(Line) /\ pipe \in Seq(Line)
      BY ConcatProperties DEF LinesOK
    <3>4. Kept' = Append(Kept, written + 1)
      <4>1. (gateway_log \o recv_buf) \o Append(pipe, written + 1)
              = Append((gateway_log \o recv_buf) \o pipe, written + 1)
        BY <3>2, <3>3, AppendedLast
      <4>2. QED
        BY <2>1, <3>1, <4>1, Zenon DEF Kept
    <3>5. parent # "dead"
      BY <1>5 DEF Write
    <3>6. Kept \in Seq(Nat)
      <4>1. Line \subseteq Nat
        BY DEF Line
      <4>2. Kept \in Seq(Line)
        BY <3>3, ConcatProperties DEF Kept
      <4>3. QED
        BY <4>1, <4>2, SeqMonotonic
    <3>7. IsWhole(Kept) => IsWhole(Kept)'
      BY <2>1, <3>1, <3>2, <3>4, <3>6, NextLine, WholeIs
    <3>8. QED
      BY <2>1, <3>1, <3>5, <3>7 DEF Contents, Places
  <2>2. QED
    BY <1>5, <2>1, QuietContents DEF Write
<1>6. CASE HandleSigchld
  <2>1. child = "zombie"
    BY <1>6 DEF HandleSigchld, Places
  <2>2. QED
    BY <1>6, <2>1, QuietContents DEF HandleSigchld
<1>7. CASE ParentEnds
  BY <1>7, QuietContents DEF ParentEnds
<1>8. CASE ChildCloses
  BY <1>8, QuietContents DEF ChildCloses
<1>9. CASE OpenLog
  BY <1>9, QuietContents DEF OpenLog
<1>10. CASE Read
  <2>1. /\ child = "read" /\ recv_buf = <<>>
        /\ UNCHANGED <<written, gateway_log, failed>>
    BY <1>10 DEF Read, Contents
  <2>2. IsWhole(Kept) /\ (Kept' = Kept => IsWhole(Kept)')
    BY <2>1 DEF Contents, IsWhole
  <2>3. CASE pipe # <<>> /\ recv_buf' = <<Head(pipe)>> /\ pipe' = Tail(pipe) /\ child' = "log"
    <3>1. Kept' = Kept
      BY <2>1, <2>3, HeadAndTail DEF Kept, LinesOK
    <3>2. Len(recv_buf') = 1
      BY <2>3
    <3>3. QED
      BY <2>1, <2>2, <2>3, <3>1, <3>2 DEF Contents
  <2>4. CASE pipe = <<>> /\ child' = "eof" /\ UNCHANGED <<recv_buf, pipe>>
    <3>1. Kept' = Kept
      BY <2>1, <2>4 DEF Kept
    <3>2. QED
      BY <2>1, <2>2, <2>4, <3>1 DEF Contents
  <2>5. QED
    BY <1>10, <2>3, <2>4 DEF Read
<1>11. CASE Log
  <2>1. /\ child = "log" /\ child' = "read" /\ recv_buf' = <<>>
        /\ UNCHANGED <<pipe, written>>
    BY <1>11 DEF Log
  <2>2. PICK x \in Line : recv_buf = <<x>>
    BY <2>1, HeldLine
  <2>3. WholeUpTo(Kept, written, failed)
    BY <2>1, WholeIs DEF Contents
  <2>4. CASE /\ gateway_log' = gateway_log \o recv_buf
             /\ failed' \in {failed, failed \cup {x}}
    <3>1. gateway_log \o recv_buf \in Seq(Line)
      BY ConcatProperties DEF LinesOK
    <3>2. Kept' = Kept
      BY <2>1, <2>4, <3>1, ConcatEmptySeq DEF Kept
    <3>3. WholeUpTo(Kept, written, failed')
      <4>1. WholeUpTo(Kept, written, failed \cup {x})
        BY <2>3, OneMoreFailed
      <4>2. QED
        BY <2>3, <2>4, <4>1
    <3>4. IsWhole(Kept)'
      BY <2>1, <3>2, <3>3, WholeIs
    <3>5. QED
      BY <2>1, <3>4 DEF Contents
  <2>5. CASE gateway_log' = gateway_log /\ failed' = failed \cup {x}
    <3>1. gateway_log \in Seq(Nat) /\ pipe \in Seq(Nat) /\ x \in Nat
      <4>1. Line \subseteq Nat
        BY DEF Line
      <4>2. QED
        BY <4>1, SeqMonotonic DEF LinesOK
    <3>2. WholeUpTo((gateway_log \o <<x>>) \o pipe, written, failed)
      BY <2>2, <2>3 DEF Kept
    <3>3. WholeUpTo((gateway_log \o <<>>) \o pipe, written, failed \cup {x})
      BY <3>1, <3>2, OneLineDropped
    <3>4. Kept' = (gateway_log \o <<>>) \o pipe
      BY <2>1, <2>5 DEF Kept
    <3>5. IsWhole(Kept)'
      BY <2>1, <2>5, <3>3, <3>4, WholeIs
    <3>6. QED
      BY <2>1, <3>5 DEF Contents
  <2>6. QED
    BY <1>11, <2>2, <2>4, <2>5 DEF Log
<1>12. CASE ChildExits
  <2>1. /\ child = "eof" /\ child' \in {"zombie", "reaped"}
        /\ UNCHANGED <<pipe, written, recv_buf, gateway_log, failed>>
    BY <1>12 DEF ChildExits, ChildEnds
  <2>2. recv_buf = <<>> /\ pipe = <<>>
    BY <2>1 DEF Contents
  <2>3. Kept = gateway_log
    BY <2>2, ConcatEmptySeq DEF Kept, LinesOK
  <2>4. IsWhole(gateway_log)'
    BY <2>1, <2>3 DEF Contents, IsWhole
  <2>5. QED
    BY <2>1, <2>4 DEF Contents
<1>13. CASE ChildKilled
  BY <1>13, QuietContents DEF ChildKilled, ChildEnds
<1>14. CASE UNCHANGED vars
  BY <1>14, QuietContents DEF vars
<1>15. QED
  BY <1>1, <1>2, <1>3, <1>4, <1>5, <1>6, <1>7, <1>8, <1>9, <1>10, <1>11, <1>12, <1>13, <1>14
  DEF Next, ParentStep, ChildStep

-----------------------------------------------------------------------------
(* The start of the program satisfies the invariant. *)
LEMMA InitInv == Init => LinesOK /\ ProcessesOK /\ Places /\ Contents
<1> SUFFICES ASSUME Init PROVE LinesOK /\ ProcessesOK /\ Places /\ Contents
  OBVIOUS
<1> USE LogPipeAssumption
<1>1. LinesOK
  <2>1. <<>> \in Seq(Line) /\ Len(<<>>) = 0
    BY EmptySeq
  <2>2. QED
    BY <2>1 DEF Init, LinesOK
<1>2. ProcessesOK
  <2>1. /\ parent = "pipe" /\ child = "none"
        /\ ends = {<<"parent", "read">>, <<"parent", "write">>}
    BY DEF Init
  <2>2. handler = FALSE /\ pending = FALSE /\ log_open = FALSE /\ killed = FALSE
    BY DEF Init
  <2>3. /\ handler \in BOOLEAN /\ pending \in BOOLEAN
        /\ log_open \in BOOLEAN /\ killed \in BOOLEAN
    BY <2>2, Zenon
  <2>4. QED
    BY <2>1, <2>3 DEF ProcessesOK
<1>3. Places
  BY DEF Init, Places
<1>4. Contents
  <2>1. gateway_log = <<>> /\ recv_buf = <<>> /\ pipe = <<>> /\ written = 0 /\ child = "none"
    BY DEF Init
  <2>2. Kept = <<>>
    BY <2>1, ConcatEmptySeq, EmptySeq DEF Kept
  <2>3. DOMAIN <<>> = {} /\ 1..0 = {}
    OBVIOUS
  <2>4. IsWhole(Kept)
    BY <2>1, <2>2, <2>3 DEF IsWhole
  <2>5. QED
    BY <2>1, <2>4 DEF Contents
<1>5. QED
  BY <1>1, <1>2, <1>3, <1>4

(* Every state of the two processes satisfies the invariant. *)
LEMMA Invariance == Spec => []Inv
<1>1. Init => Inv
  BY InitInv, TypeOKParts DEF Inv
<1>2. Inv /\ [Next]_vars => Inv'
  <2> SUFFICES ASSUME Inv, [Next]_vars PROVE Inv'
    OBVIOUS
  <2>1. LinesOK /\ ProcessesOK /\ Places /\ Contents
    BY TypeOKParts DEF Inv
  <2>2. LinesOK' /\ ProcessesOK' /\ Places' /\ Contents'
    BY <2>1, StepLines, StepProcesses, StepPlaces, StepContents
  <2>3. TypeOK'
    BY <2>2 DEF TypeOK, LinesOK, ProcessesOK, Line
  <2>4. QED
    BY <2>2, <2>3 DEF Inv
<1>3. QED
  BY <1>1, <1>2, PTL DEF Spec

(* What data_mgr wrote reaches gateway.log in order and once                *)
(* (main-server.c:86-104): while the child lives nothing is missing from    *)
(* file, buffer and pipe together but the lines whose own write to the file *)
(* failed or was short, which the loop does not notice, and a child that    *)
(* ends by itself has logged all the others; and every variable has its     *)
(* type.                                                                    *)
THEOREM LogStaysWhole == Spec => []LogIsWhole
<1>1. Inv => LogIsWhole
  <2> SUFFICES ASSUME Inv PROVE LogIsWhole
    OBVIOUS
  <2>1. TypeOK /\ LinesOK /\ Places /\ Contents
    BY TypeOKParts DEF Inv
  <2>2. NoLineIsLost
    BY <2>1 DEF NoLineIsLost, ChildAlive, Contents, Kept
  <2>3. LogCompleteAtExit
    <3> SUFFICES ASSUME child \in {"eof", "zombie", "reaped"}, ~killed
                 PROVE  IsWhole(gateway_log) /\ parent = "dead"
      BY DEF LogCompleteAtExit
    <3>1. CASE child = "eof"
      <4>1. recv_buf = <<>> /\ pipe = <<>> /\ IsWhole(Kept) /\ parent = "dead"
        BY <2>1, <3>1 DEF Contents, Places
      <4>2. Kept = gateway_log
        BY <2>1, <4>1, ConcatEmptySeq DEF Kept, LinesOK
      <4>3. QED
        BY <4>1, <4>2
    <3>2. CASE child \in {"zombie", "reaped"}
      BY <2>1, <3>2 DEF Contents, Places
    <3>3. QED
      BY <3>1, <3>2
  <2>4. QED
    BY <2>1, <2>2, <2>3 DEF LogIsWhole
<1>2. QED
  BY <1>1, Invariance, PTL
=============================================================================
