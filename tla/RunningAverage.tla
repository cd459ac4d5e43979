--------------------------- MODULE RunningAverage ---------------------------
(***************************************************************************)
(* What data_mgr is for: it watches the average of the last WindowLen      *)
(* readings of each sensor and reports the sensor as hot, cold or neither  *)
(* with every reading, once it has WindowLen of them.  An average that is  *)
(* not positive is not reported.  Temperatures are in tenths of a degree.  *)
(***************************************************************************)
EXTENDS Integers, Sequences

CONSTANTS SensorIDs, Temps, WindowLen

VARIABLES
  recent,   \* the last readings of each sensor, oldest first
  report    \* the report made for the message just handled, or None

None == [sensor |-> 0, level |-> "none"]

Total(s) ==
  LET sum[i \in 0..Len(s)] == IF i = 0 THEN 0 ELSE sum[i - 1] + s[i]
  IN  sum[Len(s)]

(* The level of an average total / WindowLen. *)
Level(total) ==
  IF total <= 0 THEN "none"
  ELSE IF total >= 260 * WindowLen THEN "hot"
  ELSE IF total <= 240 * WindowLen THEN "cold"
  ELSE "normal"

Init ==
  /\ recent = [s \in SensorIDs |-> <<>>]
  /\ report = None

Reading(s, t) ==
  LET seen == Append(recent[s], t)
      kept == IF Len(seen) > WindowLen THEN Tail(seen) ELSE seen
  IN  /\ recent' = [recent EXCEPT ![s] = kept]
      /\ report' = IF Len(kept) = WindowLen /\ Level(Total(kept)) # "none"
                     THEN [sensor |-> s, level |-> Level(Total(kept))]
                     ELSE None

NoReading ==
  /\ report' = None
  /\ UNCHANGED recent

Next == NoReading \/ \E s \in SensorIDs, t \in Temps : Reading(s, t)

Spec == Init /\ [][Next]_<<recent, report>>
=============================================================================
