---------------------------- MODULE SensorWindow ----------------------------
(***************************************************************************)
(* data_mgr's own work on a message (main-server.c:249-288): msg_parse     *)
(* fills the thread's one msg_t, the reading goes into the sensor's row of *)
(* val, a ring of WindowLen cells behind an index cell, and the average of *)
(* the row decides which line goes to the pipe.                            *)
(*                                                                         *)
(* A message is what cJSON_Parse and the type tests of msg_parse find in   *)
(* it: whether it is a JSON object, its sensorID (Missing when there is no *)
(* number), whether it has a timestamp string, and its temperature in      *)
(* tenths (Missing when there is no number).  The text of the timestamp is *)
(* only printed and is left out.  Averages are exact here, doubles in C.   *)
(***************************************************************************)
EXTENDS Integers, Sequences, Functions

CONSTANTS
  senIDs,      \* the identifiers read_room finds in room.json: 1 to 5
  SensorIDs,   \* the sensors of those rooms that send
  OtherIDs,    \* identifiers of sensors that are in no room
  Temps,       \* temperatures, in tenths
  Missing,     \* a field that is absent or not of its type
  WindowLen    \* readings in a row of val: 5 in the code

(* The sensors of the rooms, in the order of room.json, which ascends. *)
RoomIDs == Range(senIDs)

ASSUME SensorWindowAssumption ==
  /\ senIDs \in Seq(Nat \ {0})
  /\ \A i, j \in DOMAIN senIDs : i < j => senIDs[i] < senIDs[j]
  /\ SensorIDs \subseteq RoomIDs
  /\ OtherIDs \subseteq Int \ (RoomIDs \cup {0})
  /\ Temps \subseteq Int
  /\ Missing \notin Int
  /\ WindowLen \in Nat \ {0}

Messages == [object : BOOLEAN, id : SensorIDs \cup OtherIDs \cup {Missing},
             ts : BOOLEAN, temp : Temps \cup {Missing}]

VARIABLES
  behind,      \* senIDs[5], one past the cells read_room fills
  parsed,      \* the msg_t; a field is Missing until it is first written
  val,         \* the readings of each sensor's row
  index,       \* val[s][0], the cell the next reading goes to
  check,       \* the row has been filled once
  line,        \* the line written to the pipe for this message, or None
  faithful,    \* the reading just stored is the one the message carried
  undefined    \* an unwritten msg_t, or a row val does not have, was used

vars == <<behind, parsed, val, index, check, line, faithful, undefined>>

None == [sensor |-> 0, level |-> "none"]

Init ==
  /\ behind \in {0} \cup OtherIDs
  /\ parsed = [senID |-> Missing, temp |-> Missing]
  /\ val = [s \in SensorIDs |-> [i \in 1..WindowLen |-> 0]]
  /\ index = [s \in SensorIDs |-> 1]
  /\ check = [s \in SensorIDs |-> FALSE]
  /\ line = None
  /\ faithful = TRUE
  /\ undefined = FALSE

-----------------------------------------------------------------------------
(* senIDs[m]; the array has Len(senIDs) cells, numbered from 0. *)
cell(m, last) == IF m < Len(senIDs) THEN senIDs[m + 1] ELSE last

(* Mutant of search: a range of one cell is not looked at. *)
search_stops_early(x, last) ==
  LET n == Len(senIDs)
      find[range \in (0..(n + 1)) \X (-1..n)] ==
        LET l == range[1]
            r == range[2]
            m == (l + r) \div 2 IN
        /\ l < r
        /\ \/ cell(m, last) = x
           \/ cell(m, last) < x /\ find[<<m + 1, r>>]
           \/ cell(m, last) > x /\ find[<<l, m - 1>>]
  IN  find[<<0, n>>]

(* search(senIDs, x, 0, 5): the range ends in the cell behind the array.    *)
search(x, last) ==
  LET n == Len(senIDs)
      find[range \in (0..(n + 1)) \X (-1..n)] ==
        LET l == range[1]
            r == range[2]
            m == (l + r) \div 2 IN
        /\ l <= r
        /\ \/ cell(m, last) = x
           \/ cell(m, last) < x /\ find[<<m + 1, r>>]
           \/ cell(m, last) > x /\ find[<<l, m - 1>>]
  IN  find[<<0, n>>]

(* The identifiers search succeeds for, with what is behind the array. *)
Found ==
  {p \in (SensorIDs \cup OtherIDs) \X ({0} \cup OtherIDs) : search(p[1], p[2])}

(***************************************************************************)
(* msg_parse: the return value and what is in the msg_t afterwards.  The   *)
(* fields are written one after the other, and a message with no sensorID  *)
(* at all skips them and returns 0.                                        *)
(***************************************************************************)
msg_parse(m) ==
  LET named == m.object /\ m.id # Missing
      found == <<m.id, behind>> \in Found IN
  CASE ~m.object \/ (named /\ ~found) -> [ret |-> -1, out |-> parsed]
    [] named /\ found /\ (~m.ts \/ m.temp = Missing) ->
         [ret |-> -1, out |-> [parsed EXCEPT !.senID = m.id]]
    [] named /\ found /\ m.ts /\ m.temp # Missing ->
         [ret |-> 0, out |-> [senID |-> m.id, temp |-> m.temp]]
    [] m.object /\ m.id = Missing -> [ret |-> 0, out |-> parsed]

(* avg(row) * WindowLen *)
total(row) ==
  LET ret[i \in 0..WindowLen] == IF i = 0 THEN 0 ELSE ret[i - 1] + row[i]
  IN  ret[WindowLen]

level(sum) ==
  IF sum <= 0 THEN "none"
  ELSE IF sum >= 260 * WindowLen THEN "hot"
  ELSE IF sum <= 240 * WindowLen THEN "cold"
  ELSE "normal"

(* The cell after cell i of a row. *)
wrap(i) == IF i + 1 > WindowLen THEN 1 ELSE i + 1

(* Mutant of window: the average counts only when the index wraps. *)
window_forgets_check(s, t) ==
  LET row  == [val[s] EXCEPT ![index[s]] = t]
      full == index[s] + 1 > WindowLen
      lev  == IF full THEN level(total(row)) ELSE "none"
  IN  /\ val' = [val EXCEPT ![s] = row]
      /\ index' = [index EXCEPT ![s] = wrap(index[s])]
      /\ check' = [check EXCEPT ![s] = check[s] \/ full]
      /\ line' = IF lev = "none" THEN None ELSE [sensor |-> s, level |-> lev]

(* The row takes the reading; the average counts once the row is full. *)
window(s, t) ==
  LET row  == [val[s] EXCEPT ![index[s]] = t]
      full == check[s] \/ index[s] + 1 > WindowLen
      lev  == IF full THEN level(total(row)) ELSE "none"
  IN  /\ val' = [val EXCEPT ![s] = row]
      /\ index' = [index EXCEPT ![s] = wrap(index[s])]
      /\ check' = [check EXCEPT ![s] = full]
      /\ line' = IF lev = "none" THEN None ELSE [sensor |-> s, level |-> lev]

Handle(m) ==
  LET p == msg_parse(m) IN
  /\ ~undefined
  /\ parsed' = p.out
  /\ UNCHANGED behind
  /\ \/ /\ p.ret # 0
        /\ line' = None
        /\ faithful' = TRUE
        /\ UNCHANGED <<val, index, check, undefined>>
     \/ /\ p.ret = 0
        /\ p.out.senID \in SensorIDs /\ p.out.temp # Missing
        /\ window(p.out.senID, p.out.temp)
        /\ faithful' = (m.id = p.out.senID /\ m.temp = p.out.temp)
        /\ UNCHANGED undefined
     \/ /\ p.ret = 0
        /\ p.out.senID \notin SensorIDs \/ p.out.temp = Missing
        /\ undefined' = TRUE
        /\ line' = None
        /\ UNCHANGED <<val, index, check, faithful>>

Next == \E m \in Messages : Handle(m)

Spec == Init /\ [][Next]_vars

-----------------------------------------------------------------------------
TypeOK ==
  /\ behind \in {0} \cup OtherIDs
  /\ parsed \in [senID : SensorIDs \cup OtherIDs \cup {Missing}, temp : Temps \cup {Missing}]
  /\ val \in [SensorIDs -> [1..WindowLen -> Temps \cup {0}]]
  /\ index \in [SensorIDs -> 1..WindowLen]
  /\ check \in [SensorIDs -> BOOLEAN]
  /\ line \in [sensor : SensorIDs \cup {0}, level : {"none", "hot", "cold", "normal"}]
  /\ faithful \in BOOLEAN
  /\ undefined \in BOOLEAN

(* The readings of a row, oldest first. *)
Recent ==
  [s \in SensorIDs |->
     (IF check[s] THEN SubSeq(val[s], index[s], WindowLen) ELSE <<>>)
       \o SubSeq(val[s], 1, index[s] - 1)]

Average == INSTANCE RunningAverage WITH recent <- Recent, report <- line

(* The range search is given ends behind the array (os_msg.c:73), and still *)
(* the sensors of the rooms always get past msg_parse, whatever lies there;  *)
(* another identifier, which has no row in val, gets past it only when it    *)
(* is what lies there.  And every variable has its type.                     *)
OnlyRoomsAreHeard ==
  /\ TypeOK
  /\ \A s \in SensorIDs : <<s, behind>> \in Found
  /\ parsed.senID \in OtherIDs => parsed.senID = behind

(* The rings and their index cells realise a running average of exactly    *)
(* the last WindowLen readings: no reading is counted twice or dropped     *)
(* when the index wraps (main-server.c:255-268), and the line written is   *)
(* the level of that average.                                              *)
ImplementsAverage == Average!Spec

(* headers/os_msg.h:26-31: msg_parse gives "a struct contain all           *)
(* information of message".  So a reading that is stored is the one the    *)
(* message carried, for the sensor the message named.                      *)
ReadingIsTheMessages == faithful
=============================================================================
