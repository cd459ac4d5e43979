----------------------------- MODULE DataProofs -----------------------------
(***************************************************************************)
(* What the gateway does with a reading.  data_mgr's search and its rings, *)
(* for any table of rooms, any messages and any length of the rows: search *)
(* is followed from range to range, and a row is two parts of the running  *)
(* average's sequence, the newer one first.  Then the sensor database, for *)
(* any size of the schema, any number of records and any set of faults.    *)
(* Last, the items its messages are parsed into: however they are built or *)
(* read, and whatever cannot be allocated, they are a forest.              *)
(***************************************************************************)
EXTENDS SensorWindow, Fdb, CJson, FiniteSetTheorems, SequenceTheorems, WellFoundedInduction, TLAPS

-----------------------------------------------------------------------------
(* Induction over the numbers, with a set in place of a predicate. *)
Less == {p \in Nat \X Nat : p[1] < p[2]}

LEMMA LessIsWellFounded == IsWellFoundedOn(Less, Nat)
<1>1. Less = OpToRel(<, Nat)
  BY Zenon DEF OpToRel, Less
<1>2. QED
  BY <1>1, NatLessThanWellFounded, Zenon

LEMMA Induction ==
  ASSUME NEW S, 0 \in S, \A n \in Nat : n \in S => n + 1 \in S
  PROVE  Nat \subseteq S
<1> SUFFICES ASSUME ~(Nat \subseteq S) PROVE FALSE
  OBVIOUS
<1> DEFINE R == Nat \ S
<1>1. PICK n \in R : \A m \in R : <<m, n>> \notin Less
  <2>1. R \subseteq Nat /\ R # {}
    OBVIOUS
  <2> HIDE DEF R
  <2>2. QED
    BY <2>1, LessIsWellFounded, WFMin
<1>2. n \in Nat /\ n # 0
  OBVIOUS
<1>3. n - 1 \in Nat /\ n - 1 < n /\ (n - 1) + 1 = n
  BY <1>2
<1>4. n - 1 \notin R
  BY <1>1, <1>2, <1>3 DEF Less
<1>5. QED
  BY <1>2, <1>3, <1>4

-----------------------------------------------------------------------------
(* The binary search *)
Ids == Len(senIDs)

Ranges == (0..(Ids + 1)) \X (-1..Ids)

(* What search says of a range, when f says it of the smaller ones. *)
Halved(f, x, last, range) ==
  LET l == range[1]
      r == range[2]
      m == (l + r) \div 2 IN
  /\ l <= r
  /\ \/ cell(m, last) = x
     \/ cell(m, last) < x /\ f[<<m + 1, r>>]
     \/ cell(m, last) > x /\ f[<<l, m - 1>>]

Searches(f, x, last) == f = [range \in Ranges |-> Halved(f, x, last, range)]

LEMMA IdsTyped == Ids \in Nat /\ \A i \in 1..Ids : senIDs[i] \in Nat \ {0}
BY SensorWindowAssumption DEF SensorWindowAssumption, Ids

LEMMA Ascending == \A i, j \in 1..Ids : i < j => senIDs[i] < senIDs[j]
BY SensorWindowAssumption DEF SensorWindowAssumption, Ids

LEMMA SearchIs ==
  ASSUME NEW x, NEW last
  PROVE  search(x, last) = (CHOOSE f : Searches(f, x, last))[<<0, Ids>>]
BY DEF search, Searches, Halved, Ids, Ranges

(* A range is halved into ranges of the array that are smaller. *)
LEMMA Smaller ==
  ASSUME NEW range \in Ranges, range[1] <= range[2]
  PROVE  LET m == (range[1] + range[2]) \div 2 IN
         /\ m \in range[1]..range[2]
         /\ <<m + 1, range[2]>> \in Ranges /\ range[2] - (m + 1) < range[2] - range[1]
         /\ <<range[1], m - 1>> \in Ranges /\ (m - 1) - range[1] < range[2] - range[1]
<1>1. range[1] \in 0..(Ids + 1) /\ range[2] \in -1..Ids /\ Ids \in Nat
  BY IdsTyped DEF Ranges
<1> DEFINE m == (range[1] + range[2]) \div 2
<1>2. m \in Int /\ range[1] <= m /\ m <= range[2]
  BY <1>1
<1> HIDE DEF m
<1>3. m + 1 \in 0..(Ids + 1) /\ m - 1 \in -1..Ids
  BY <1>1, <1>2
<1>4. m \in range[1]..range[2] /\ range[2] - (m + 1) < range[2] - range[1]
      /\ (m - 1) - range[1] < range[2] - range[1]
  BY <1>1, <1>2
<1>5. <<m + 1, range[2]>> \in Ranges /\ <<range[1], m - 1>> \in Ranges
  BY <1>1, <1>3 DEF Ranges
<1>6. QED
  BY <1>4, <1>5 DEF m

(* Only the smaller ranges matter. *)
LEMMA HalvedSame ==
  ASSUME NEW x, NEW last, NEW f, NEW g, NEW range \in Ranges,
         \A q \in Ranges : q[2] - q[1] < range[2] - range[1] => f[q] = g[q]
  PROVE  Halved(f, x, last, range) = Halved(g, x, last, range)
<1>1. CASE range[1] <= range[2]
  <2> DEFINE m == (range[1] + range[2]) \div 2
  <2>1. /\ <<m + 1, range[2]>> \in Ranges /\ range[2] - (m + 1) < range[2] - range[1]
        /\ <<range[1], m - 1>> \in Ranges /\ (m - 1) - range[1] < range[2] - range[1]
    BY <1>1, Smaller
  <2> HIDE DEF m
  <2>2. f[<<m + 1, range[2]>>] = g[<<m + 1, range[2]>>]
    BY <2>1
  <2>3. f[<<range[1], m - 1>>] = g[<<range[1], m - 1>>]
    BY <2>1
  <2>4. QED
    BY <2>2, <2>3, Zenon DEF Halved, m
<1>2. CASE ~(range[1] <= range[2])
  BY <1>2, Zenon DEF Halved
<1>3. QED
  BY <1>1, <1>2

LEMMA SearchExists ==
  ASSUME NEW x, NEW last
  PROVE  \E f : Searches(f, x, last)
<1> DEFINE Good(f, d) == \A q \in Ranges : q[2] - q[1] < d => f[q] = Halved(f, x, last, q)
<1> DEFINE S == {d \in Nat : \E f : Good(f, d - Ids - 2)}
<1>0. Ids \in Nat /\ \A q \in Ranges : q[1] \in 0..(Ids + 1) /\ q[2] \in -1..Ids
  BY IdsTyped DEF Ranges
<1>1. 0 \in S
  <2>1. Good(x, 0 - Ids - 2)
    BY <1>0
  <2>2. QED
    BY <2>1
<1>2. ASSUME NEW d \in Nat, d \in S PROVE d + 1 \in S
  <2>1. PICK f : Good(f, d - Ids - 2)
    BY <1>2
  <2> DEFINE e == d - Ids - 2
  <2> DEFINE g == [q \in Ranges |-> IF q[2] - q[1] < e THEN f[q] ELSE Halved(f, x, last, q)]
  <2>2. ASSUME NEW q \in Ranges, q[2] - q[1] < e + 1 PROVE g[q] = Halved(g, x, last, q)
    <3>1. g[q] = Halved(f, x, last, q)
      BY <2>1
    <3>2. \A s \in Ranges : s[2] - s[1] < q[2] - q[1] => f[s] = g[s]
      BY <1>0, <2>2
    <3> HIDE DEF g
    <3>3. Halved(f, x, last, q) = Halved(g, x, last, q)
      BY <3>2, HalvedSame
    <3>4. QED
      BY <3>1, <3>3
  <2> HIDE DEF g
  <2>3. e + 1 = (d + 1) - Ids - 2
    BY <1>0
  <2> HIDE DEF e
  <2>4. Good(g, (d + 1) - Ids - 2)
    BY <2>2, <2>3
  <2>5. QED
    BY <2>4
<1>3. (Ids + Ids + 5) \in Nat /\ (Ids + Ids + 5) - Ids - 2 = Ids + 3
  BY <1>0
<1>4. (Ids + Ids + 5) \in S
  <2> HIDE DEF S
  <2>1. QED
    BY <1>1, <1>2, <1>3, Induction
<1>5. PICK f : Good(f, Ids + 3)
  BY <1>3, <1>4
<1> DEFINE g == [q \in Ranges |-> f[q]]
<1>6. ASSUME NEW q \in Ranges PROVE g[q] = Halved(g, x, last, q)
  <2>1. g[q] = Halved(f, x, last, q)
    BY <1>0, <1>5
  <2>2. \A s \in Ranges : s[2] - s[1] < q[2] - q[1] => f[s] = g[s]
    OBVIOUS
  <2> HIDE DEF g
  <2>3. Halved(f, x, last, q) = Halved(g, x, last, q)
    BY <2>2, HalvedSame
  <2>4. QED
    BY <2>1, <2>3
<1>7. g = [q \in Ranges |-> g[q]]
  OBVIOUS
<1> HIDE DEF g
<1>8. g = [q \in Ranges |-> Halved(g, x, last, q)]
  BY <1>6, <1>7
<1>9. QED
  BY <1>8 DEF Searches

(* search finds the identifier at any position, whatever is behind the array. *)
LEMMA RoomIsFound ==
  ASSUME NEW p \in 1..Ids, NEW last \in Int
  PROVE  search(senIDs[p], last)
<1> DEFINE x == senIDs[p]
<1> DEFINE f == CHOOSE f : Searches(f, x, last)
<1>1. Searches(f, x, last)
  BY SearchExists
<1>2. search(x, last) = f[<<0, Ids>>]
  BY SearchIs
<1> HIDE DEF f
<1>3. \A q \in Ranges : f[q] = Halved(f, x, last, q)
  BY <1>1 DEF Searches
<1> DEFINE S == {d \in Nat : \A q \in Ranges : q[1] <= p - 1 /\ p - 1 <= q[2] /\ q[2] - q[1] < d
                                                => f[q]}
<1>4. Ids \in Nat /\ \A q \in Ranges : q[1] \in 0..(Ids + 1) /\ q[2] \in -1..Ids
  BY IdsTyped DEF Ranges
<1>5. 0 \in S
  BY <1>4
<1>6. ASSUME NEW d \in Nat, d \in S PROVE d + 1 \in S
  <2> SUFFICES ASSUME NEW q \in Ranges, q[1] <= p - 1, p - 1 <= q[2], q[2] - q[1] < d + 1
               PROVE  f[q]
    OBVIOUS
  <2> DEFINE m == (q[1] + q[2]) \div 2
  <2>1. q[1] <= q[2]
    BY <1>4
  <2>2. /\ m \in q[1]..q[2]
        /\ <<m + 1, q[2]>> \in Ranges /\ q[2] - (m + 1) < q[2] - q[1]
        /\ <<q[1], m - 1>> \in Ranges /\ (m - 1) - q[1] < q[2] - q[1]
    BY <2>1, Smaller
  <2>3. m < Ids
    BY <1>4
  <2> HIDE DEF m
  <2>4. m \in 0..(Ids - 1) /\ cell(m, last) = senIDs[m + 1]
    <3>1. cell(m, last) = senIDs[m + 1]
      BY <2>3, Zenon DEF cell, Ids
    <3>2. q[1] \in Int /\ 0 <= q[1] /\ q[2] \in Int
      BY <1>4
    <3>3. m \in Int /\ q[1] <= m
      BY <2>2, <3>2
    <3>4. QED
      BY <1>4, <2>3, <3>1, <3>2, <3>3
  <2>5. /\ m < p - 1 => cell(m, last) < x
        /\ m = p - 1 => cell(m, last) = x
        /\ m > p - 1 => cell(m, last) > x
    <3>1. m + 1 \in 1..Ids /\ p \in 1..Ids
      BY <1>4, <2>4
    <3>2. senIDs[m + 1] \in Int /\ senIDs[p] \in Int
      BY <3>1, IdsTyped
    <3>3. m + 1 < p => senIDs[m + 1] < senIDs[p]
      BY <3>1, Ascending
    <3>4. p < m + 1 => senIDs[p] < senIDs[m + 1]
      BY <3>1, Ascending
    <3>5. QED
      BY <1>4, <2>4, <3>2, <3>3, <3>4
  <2>6. m < p - 1 => f[<<m + 1, q[2]>>]
    BY <1>4, <1>6, <2>2, <2>4
  <2>7. m > p - 1 => f[<<q[1], m - 1>>]
    BY <1>4, <1>6, <2>2, <2>4
  <2> HIDE DEF x
  <2>8. Halved(f, x, last, q)
    <3>1. CASE m < p - 1
      BY <2>1, <2>5, <2>6, <3>1, Zenon DEF Halved, m
    <3>2. CASE m = p - 1
      BY <2>1, <2>5, <3>2, Zenon DEF Halved, m
    <3>3. CASE m > p - 1
      BY <2>1, <2>5, <2>7, <3>3, Zenon DEF Halved, m
    <3>4. QED
      BY <2>4, <3>1, <3>2, <3>3
  <2>9. QED
    BY <1>3, <2>8
<1>7. Ids + 1 \in S
  <2> HIDE DEF S
  <2>1. QED
    BY <1>4, <1>5, <1>6, Induction
<1>8. <<0, Ids>> \in Ranges
  BY <1>4 DEF Ranges
<1>9. f[<<0, Ids>>]
  BY <1>4, <1>7, <1>8
<1>10. QED
  BY <1>2, <1>9

(* What search finds is in a cell it may look at. *)
LEMMA FoundIsThere ==
  ASSUME NEW x, NEW last, search(x, last)
  PROVE  x = last \/ x \in RoomIDs
<1> DEFINE f == CHOOSE f : Searches(f, x, last)
<1>1. Searches(f, x, last)
  BY SearchExists
<1>2. f[<<0, Ids>>]
  BY SearchIs
<1> HIDE DEF f
<1>3. \A q \in Ranges : f[q] = Halved(f, x, last, q)
  BY <1>1 DEF Searches
<1> DEFINE S == {d \in Nat : \A q \in Ranges :
                   f[q] /\ q[2] - q[1] < d => x = last \/ x \in RoomIDs}
<1>4. Ids \in Nat /\ \A q \in Ranges : q[1] \in 0..(Ids + 1) /\ q[2] \in -1..Ids
  BY IdsTyped DEF Ranges
<1>5. 0 \in S
  <2> SUFFICES ASSUME NEW q \in Ranges, f[q], q[2] - q[1] < 0 PROVE FALSE
    OBVIOUS
  <2>1. q[1] <= q[2]
    BY <1>3, Zenon DEF Halved
  <2>2. QED
    BY <1>4, <2>1
<1>6. ASSUME NEW d \in Nat, d \in S PROVE d + 1 \in S
  <2> SUFFICES ASSUME NEW q \in Ranges, f[q], q[2] - q[1] < d + 1
               PROVE  x = last \/ x \in RoomIDs
    OBVIOUS
  <2> DEFINE m == (q[1] + q[2]) \div 2
  <2>1. Halved(f, x, last, q)
    BY <1>3
  <2>2. q[1] <= q[2]
    BY <2>1, Zenon DEF Halved
  <2>3. /\ m \in q[1]..q[2]
        /\ <<m + 1, q[2]>> \in Ranges /\ q[2] - (m + 1) < q[2] - q[1]
        /\ <<q[1], m - 1>> \in Ranges /\ (m - 1) - q[1] < q[2] - q[1]
    BY <2>2, Smaller
  <2> HIDE DEF m
  <2>4. cell(m, last) = x \/ f[<<m + 1, q[2]>>] \/ f[<<q[1], m - 1>>]
    BY <2>1, Zenon DEF Halved, m
  <2>5. CASE cell(m, last) = x
    <3>1. CASE m < Len(senIDs)
      <4>1. m + 1 \in 1..Ids
        BY <1>4, <2>3, <3>1 DEF Ids
      <4>2. m + 1 \in DOMAIN senIDs
        BY <4>1, SensorWindowAssumption DEF SensorWindowAssumption, Ids
      <4>3. QED
        BY <2>5, <3>1, <4>2 DEF cell, RoomIDs, Range
    <3>2. CASE ~(m < Len(senIDs))
      BY <2>5, <3>2 DEF cell
    <3>3. QED
      BY <3>1, <3>2
  <2>6. CASE f[<<m + 1, q[2]>>]
    BY <1>4, <1>6, <2>3, <2>6
  <2>7. CASE f[<<q[1], m - 1>>]
    BY <1>4, <1>6, <2>3, <2>7
  <2>8. QED
    BY <2>4, <2>5, <2>6, <2>7
<1>7. Ids + 1 \in S
  <2> HIDE DEF S
  <2>1. QED
    BY <1>4, <1>5, <1>6, Induction
<1>8. <<0, Ids>> \in Ranges
  BY <1>4 DEF Ranges
<1>9. QED
  BY <1>2, <1>4, <1>7, <1>8

-----------------------------------------------------------------------------
(* Who gets past msg_parse *)
LEMMA HeardAre ==
  ASSUME NEW last \in {0} \cup OtherIDs
  PROVE  /\ \A s \in SensorIDs : <<s, last>> \in Found
         /\ \A id \in OtherIDs : <<id, last>> \in Found => id = last
<1>1. ASSUME NEW s \in SensorIDs PROVE <<s, last>> \in Found
  <2>1. s \in Range(senIDs)
    BY SensorWindowAssumption DEF SensorWindowAssumption, RoomIDs
  <2>2. PICK p \in 1..Ids : senIDs[p] = s
    BY <2>1, SensorWindowAssumption DEF SensorWindowAssumption, Range, Ids
  <2>3. last \in Int
    BY SensorWindowAssumption DEF SensorWindowAssumption
  <2>4. search(s, last)
    BY <2>2, <2>3, RoomIsFound
  <2>5. QED
    BY <2>4 DEF Found
<1>2. ASSUME NEW id \in OtherIDs, <<id, last>> \in Found PROVE id = last
  <2>1. search(id, last)
    BY <1>2 DEF Found
  <2>2. id = last \/ id \in RoomIDs
    BY <2>1, FoundIsThere
  <2>3. id \notin RoomIDs
    BY SensorWindowAssumption DEF SensorWindowAssumption
  <2>4. QED
    BY <2>2, <2>3
<1>3. QED
  BY <1>1, <1>2

(* What msg_parse leaves in the msg_t *)
LEMMA ParsedIs ==
  ASSUME OnlyRoomsAreHeard, NEW m \in Messages
  PROVE  /\ msg_parse(m).out \in [senID : SensorIDs \cup OtherIDs \cup {Missing},
                                  temp : Temps \cup {Missing}]
         /\ msg_parse(m).out.senID \in OtherIDs => msg_parse(m).out.senID = behind
         /\ msg_parse(m).ret \in {0, -1}
<1> DEFINE named == m.object /\ m.id # Missing
<1> DEFINE found == <<m.id, behind>> \in Found
<1>1. /\ parsed \in [senID : SensorIDs \cup OtherIDs \cup {Missing}, temp : Temps \cup {Missing}]
      /\ parsed.senID \in OtherIDs => parsed.senID = behind
      /\ behind \in {0} \cup OtherIDs
  BY DEF OnlyRoomsAreHeard, TypeOK
<1>2. /\ m.object \in BOOLEAN /\ m.ts \in BOOLEAN
      /\ m.id \in SensorIDs \cup OtherIDs \cup {Missing} /\ m.temp \in Temps \cup {Missing}
  BY DEF Messages
<1>3. found /\ m.id \in OtherIDs => m.id = behind
  BY <1>1, HeardAre
<1> HIDE DEF found
<1>4. CASE ~m.object \/ (named /\ ~found)
  <2>1. msg_parse(m) = [ret |-> -1, out |-> parsed]
    BY <1>4 DEF msg_parse, found
  <2>2. QED
    BY <1>1, <2>1
<1>5. CASE named /\ found /\ (~m.ts \/ m.temp = Missing)
  <2>1. msg_parse(m) = [ret |-> -1, out |-> [parsed EXCEPT !.senID = m.id]]
    BY <1>5 DEF msg_parse, found
  <2>2. QED
    BY <1>1, <1>2, <1>3, <1>5, <2>1
<1>6. CASE named /\ found /\ m.ts /\ m.temp # Missing
  <2>1. msg_parse(m) = [ret |-> 0, out |-> [senID |-> m.id, temp |-> m.temp]]
    BY <1>6 DEF msg_parse, found
  <2>2. QED
    BY <1>2, <1>3, <1>6, <2>1
<1>7. CASE m.object /\ m.id = Missing
  <2>1. msg_parse(m) = [ret |-> 0, out |-> parsed]
    BY <1>7 DEF msg_parse, found
  <2>2. QED
    BY <1>1, <2>1
<1>8. QED
  BY <1>2, <1>4, <1>5, <1>6, <1>7

LEMMA WindowStarts == Init => OnlyRoomsAreHeard
<1> SUFFICES ASSUME Init PROVE OnlyRoomsAreHeard
  OBVIOUS
<1> USE SensorWindowAssumption DEF SensorWindowAssumption
<1>1. TypeOK
  <2>1. WindowLen \in Nat /\ 1 \in 1..WindowLen
    OBVIOUS
  <2>2. /\ behind \in {0} \cup OtherIDs
        /\ parsed \in [senID : SensorIDs \cup OtherIDs \cup {Missing}, temp : Temps \cup {Missing}]
        /\ val \in [SensorIDs -> [1..WindowLen -> Temps \cup {0}]]
        /\ index \in [SensorIDs -> 1..WindowLen]
        /\ check \in [SensorIDs -> BOOLEAN]
    BY <2>1 DEF Init
  <2>3. line \in [sensor : SensorIDs \cup {0}, level : {"none", "hot", "cold", "normal"}]
    BY DEF Init, None
  <2>4. faithful \in BOOLEAN /\ undefined \in BOOLEAN
    BY Zenon DEF Init
  <2>5. QED
    BY <2>2, <2>3, <2>4 DEF TypeOK
<1>2. \A s \in SensorIDs : <<s, behind>> \in Found
  BY <1>1, HeardAre DEF TypeOK
<1>3. parsed.senID \notin OtherIDs
  BY DEF Init
<1>4. QED
  BY <1>1, <1>2, <1>3 DEF OnlyRoomsAreHeard

(* A reading goes to one row, and the index stays in it. *)
LEMMA WindowTyped ==
  ASSUME TypeOK, NEW s \in SensorIDs, NEW t \in Temps, window(s, t)
  PROVE  /\ val' \in [SensorIDs -> [1..WindowLen -> Temps \cup {0}]]
         /\ index' \in [SensorIDs -> 1..WindowLen]
         /\ check' \in [SensorIDs -> BOOLEAN]
         /\ line' \in [sensor : SensorIDs \cup {0}, level : {"none", "hot", "cold", "normal"}]
<1> DEFINE full == check[s] \/ index[s] + 1 > WindowLen
<1> DEFINE row == [val[s] EXCEPT ![index[s]] = t]
<1> DEFINE lev == IF full THEN level(total(row)) ELSE "none"
<1>1. /\ val \in [SensorIDs -> [1..WindowLen -> Temps \cup {0}]]
      /\ index \in [SensorIDs -> 1..WindowLen]
      /\ check \in [SensorIDs -> BOOLEAN]
      /\ WindowLen \in Nat \ {0}
  BY SensorWindowAssumption DEF TypeOK, SensorWindowAssumption
<1>2. row \in [1..WindowLen -> Temps \cup {0}]
  BY <1>1
<1>3. val' \in [SensorIDs -> [1..WindowLen -> Temps \cup {0}]]
  BY <1>1, <1>2 DEF window
<1>4. wrap(index[s]) \in 1..WindowLen
  BY <1>1 DEF wrap
<1>5. index' \in [SensorIDs -> 1..WindowLen]
  BY <1>1, <1>4 DEF window
<1>6. full \in BOOLEAN
  BY <1>1
<1>7. check' \in [SensorIDs -> BOOLEAN]
  <2>1. check' = [check EXCEPT ![s] = full]
    BY Zenon DEF window
  <2> HIDE DEF full
  <2>2. QED
    BY <1>1, <1>6, <2>1, Zenon
<1>8. lev \in {"none", "hot", "cold", "normal"}
  BY DEF level
<1>9. line' = IF lev = "none" THEN None ELSE [sensor |-> s, level |-> lev]
  BY Zenon DEF window
<1> HIDE DEF lev
<1>10. line' \in [sensor : SensorIDs \cup {0}, level : {"none", "hot", "cold", "normal"}]
  BY <1>8, <1>9 DEF None
<1>11. QED
  BY <1>3, <1>5, <1>7, <1>10

LEMMA WindowKept == OnlyRoomsAreHeard /\ [Next]_vars => OnlyRoomsAreHeard'
<1> SUFFICES ASSUME OnlyRoomsAreHeard, [Next]_vars PROVE OnlyRoomsAreHeard'
  OBVIOUS
<1>1. TypeOK
  BY DEF OnlyRoomsAreHeard
<1>2. CASE UNCHANGED vars
  BY <1>2 DEF vars, OnlyRoomsAreHeard, TypeOK
<1>3. CASE Next
  <2>1. PICK m \in Messages : Handle(m)
    BY <1>3 DEF Next
  <2> DEFINE p == msg_parse(m)
  <2>2. /\ p.out \in [senID : SensorIDs \cup OtherIDs \cup {Missing}, temp : Temps \cup {Missing}]
        /\ p.out.senID \in OtherIDs => p.out.senID = behind
    BY ParsedIs
  <2> HIDE DEF p
  <2>3. parsed' = p.out /\ behind' = behind
    BY <2>1, Zenon DEF Handle, p
  <2>4. undefined' \in BOOLEAN /\ faithful' \in BOOLEAN
    BY <1>1, <2>1, Zenon DEF Handle, TypeOK
  <2>5. /\ val' \in [SensorIDs -> [1..WindowLen -> Temps \cup {0}]]
        /\ index' \in [SensorIDs -> 1..WindowLen]
        /\ check' \in [SensorIDs -> BOOLEAN]
        /\ line' \in [sensor : SensorIDs \cup {0}, level : {"none", "hot", "cold", "normal"}]
    <3>1. CASE line' = None /\ UNCHANGED <<val, index, check>>
      BY <1>1, <3>1 DEF TypeOK, None
    <3>2. CASE /\ p.out.senID \in SensorIDs /\ p.out.temp # Missing
               /\ window(p.out.senID, p.out.temp)
      <4>1. p.out.temp \in Temps
        BY <2>2, <3>2
      <4>2. QED
        BY <1>1, <3>2, <4>1, WindowTyped
    <3>3. QED
      BY <2>1, <3>1, <3>2, Zenon DEF Handle, p
  <2>6. TypeOK'
    BY <1>1, <2>2, <2>3, <2>4, <2>5 DEF TypeOK
  <2>7. QED
    BY <2>2, <2>3, <2>6 DEF OnlyRoomsAreHeard
<1>4. QED
  BY <1>2, <1>3

(* The sensors of the rooms get past msg_parse, whatever lies behind the   *)
(* array that search looks at, and no other sensor does but one whose      *)
(* identifier lies there: for any table of rooms, in ascending order.      *)
THEOREM RoomsAreHeard == Spec => []OnlyRoomsAreHeard
BY WindowStarts, WindowKept, PTL DEF Spec

-----------------------------------------------------------------------------
(* Sums: f has the sums of the first elements of s. *)
Sums(f, s, n) == f = [i \in 0..n |-> IF i = 0 THEN 0 ELSE f[i - 1] + s[i]]

LEMMA SumsExist ==
  ASSUME NEW s, NEW n \in Nat
  PROVE  \E f : Sums(f, s, n)
<1> DEFINE S == {m \in Nat : \E f : Sums(f, s, m)}
<1>1. 0 \in S
  <2>1. Sums([i \in 0..0 |-> 0], s, 0)
    BY DEF Sums
  <2>2. QED
    BY <2>1
<1>2. ASSUME NEW m \in Nat, m \in S PROVE m + 1 \in S
  <2>1. PICK f : Sums(f, s, m)
    BY <1>2
  <2>2. \A i \in 0..m : f[i] = IF i = 0 THEN 0 ELSE f[i - 1] + s[i]
    BY <2>1 DEF Sums
  <2> DEFINE g == [i \in 0..(m + 1) |-> IF i = m + 1 THEN f[m] + s[m + 1] ELSE f[i]]
  <2>3. ASSUME NEW i \in 0..(m + 1) PROVE g[i] = IF i = 0 THEN 0 ELSE g[i - 1] + s[i]
    <3>1. i # 0 => i - 1 \in 0..m /\ g[i - 1] = f[i - 1]
      OBVIOUS
    <3>2. CASE i = m + 1
      BY <3>1, <3>2
    <3>3. CASE i # m + 1
      BY <2>2, <3>1, <3>3
    <3>4. QED
      BY <3>2, <3>3
  <2>4. g = [i \in 0..(m + 1) |-> g[i]]
    OBVIOUS
  <2> HIDE DEF g
  <2>5. Sums(g, s, m + 1)
    BY <2>3, <2>4 DEF Sums
  <2>6. QED
    BY <2>5
<1> HIDE DEF S
<1>3. n \in S
  BY <1>1, <1>2, Induction
<1>4. QED
  BY <1>3 DEF S

LEMMA SumsTyped ==
  ASSUME NEW s, NEW n \in Nat, \A i \in 1..n : s[i] \in Int, NEW f, Sums(f, s, n)
  PROVE  \A i \in 0..n : f[i] \in Int
<1> DEFINE S == {m \in Nat : m \in 0..n => f[m] \in Int}
<1>1. \A i \in 0..n : f[i] = IF i = 0 THEN 0 ELSE f[i - 1] + s[i]
  BY DEF Sums
<1>2. 0 \in S
  BY <1>1
<1>3. ASSUME NEW m \in Nat, m \in S PROVE m + 1 \in S
  BY <1>1, <1>3
<1> HIDE DEF S
<1>4. Nat \subseteq S
  BY <1>2, <1>3, Induction
<1>5. QED
  BY <1>4 DEF S

(* The sum of two sequences in a row *)
LEMMA SumsJoin ==
  ASSUME NEW a \in Seq(Int), NEW b \in Seq(Int),
         NEW f, Sums(f, a, Len(a)), NEW g, Sums(g, b, Len(b)),
         NEW h, Sums(h, a \o b, Len(a \o b))
  PROVE  h[Len(a \o b)] = f[Len(a)] + g[Len(b)]
<1> DEFINE c == a \o b
<1> DEFINE j == Len(a)
<1> DEFINE k == Len(b)
<1>1. /\ c \in Seq(Int) /\ Len(c) = j + k
      /\ \A i \in 1..(j + k) : c[i] = IF i <= j THEN a[i] ELSE b[i - j]
  BY ConcatProperties
<1>2. j \in Nat /\ k \in Nat
  OBVIOUS
<1> HIDE DEF c, j, k
<1>3. /\ \A i \in 0..j : f[i] = IF i = 0 THEN 0 ELSE f[i - 1] + a[i]
      /\ \A i \in 0..k : g[i] = IF i = 0 THEN 0 ELSE g[i - 1] + b[i]
  BY DEF Sums, j, k
<1>4. \A i \in 0..(j + k) : h[i] = IF i = 0 THEN 0 ELSE h[i - 1] + c[i]
  <2>1. Sums(h, c, j + k)
    BY <1>1 DEF c
  <2>2. QED
    BY <2>1 DEF Sums
<1>5. /\ \A i \in 0..j : f[i] \in Int
      /\ \A i \in 0..k : g[i] \in Int
      /\ \A i \in 1..k : b[i] \in Int
  <2>1. \A i \in 1..j : a[i] \in Int
    BY DEF j
  <2>2. \A i \in 1..k : b[i] \in Int
    BY DEF k
  <2>3. \A i \in 0..j : f[i] \in Int
    BY <1>2, <2>1, SumsTyped DEF j
  <2>4. \A i \in 0..k : g[i] \in Int
    BY <1>2, <2>2, SumsTyped DEF k
  <2>5. QED
    BY <2>2, <2>3, <2>4
<1> DEFINE S == {m \in Nat : m <= j => h[m] = f[m]}
<1>6. 0 \in S
  BY <1>2, <1>3, <1>4
<1>7. ASSUME NEW m \in Nat, m \in S PROVE m + 1 \in S
  <2> SUFFICES ASSUME m + 1 <= j PROVE h[m + 1] = f[m + 1]
    OBVIOUS
  <2>1. m + 1 \in 0..j /\ m + 1 \in 0..(j + k) /\ m + 1 \in 1..(j + k) /\ m + 1 # 0 /\ (m + 1) - 1 = m
    BY <1>2
  <2>2. h[m + 1] = h[m] + c[m + 1] /\ f[m + 1] = f[m] + a[m + 1]
    BY <1>3, <1>4, <2>1
  <2>3. c[m + 1] = a[m + 1]
    BY <1>1, <2>1
  <2>4. h[m] = f[m]
    BY <1>2, <1>7
  <2>5. QED
    BY <2>2, <2>3, <2>4
<1>8. h[j] = f[j]
  <2> HIDE DEF S
  <2>1. j \in S
    BY <1>2, <1>6, <1>7, Induction
  <2>2. QED
    BY <1>2, <2>1 DEF S
<1> DEFINE T == {m \in Nat : m <= k => h[j + m] = f[j] + g[m]}
<1>9. 0 \in T
  <2>1. g[0] = 0 /\ f[j] \in Int
    BY <1>2, <1>3, <1>5
  <2>2. QED
    BY <1>2, <1>8, <2>1
<1>10. ASSUME NEW m \in Nat, m \in T PROVE m + 1 \in T
  <2> SUFFICES ASSUME m + 1 <= k PROVE h[j + (m + 1)] = f[j] + g[m + 1]
    OBVIOUS
  <2>1. /\ j + (m + 1) \in 0..(j + k) /\ j + (m + 1) \in 1..(j + k) /\ j + (m + 1) # 0
        /\ (j + (m + 1)) - 1 = j + m /\ (j + (m + 1)) - j = m + 1 /\ ~(j + (m + 1) <= j)
        /\ m + 1 \in 0..k /\ m + 1 \in 1..k /\ m + 1 # 0 /\ (m + 1) - 1 = m /\ m \in 0..k
    BY <1>2
  <2>2. h[j + (m + 1)] = h[j + m] + c[j + (m + 1)] /\ g[m + 1] = g[m] + b[m + 1]
    BY <1>3, <1>4, <2>1
  <2>3. c[j + (m + 1)] = b[m + 1]
    BY <1>1, <2>1
  <2>4. h[j + m] = f[j] + g[m]
    BY <1>2, <1>10
  <2>5. f[j] \in Int /\ g[m] \in Int /\ b[m + 1] \in Int
    BY <1>2, <1>5, <2>1
  <2>6. QED
    BY <2>2, <2>3, <2>4, <2>5
<1>11. h[j + k] = f[j] + g[k]
  <2> HIDE DEF T
  <2>1. k \in T
    BY <1>2, <1>9, <1>10, Induction
  <2>2. QED
    BY <1>2, <2>1 DEF T
<1>12. QED
  BY <1>1, <1>11 DEF c, j, k

LEMMA TotalJoins ==
  ASSUME NEW a \in Seq(Int), NEW b \in Seq(Int)
  PROVE  /\ Average!Total(a) \in Int
         /\ Average!Total(a \o b) = Average!Total(a) + Average!Total(b)
<1>1. \A s : Average!Total(s) = (CHOOSE f : Sums(f, s, Len(s)))[Len(s)]
  BY DEF Average!Total, Sums
<1>2. a \o b \in Seq(Int)
  BY ConcatProperties
<1>3. Len(a) \in Nat /\ Len(b) \in Nat /\ Len(a \o b) \in Nat
  BY <1>2
<1>4. PICK f : f = (CHOOSE s : Sums(s, a, Len(a))) /\ Sums(f, a, Len(a))
  BY <1>3, SumsExist
<1>5. PICK g : g = (CHOOSE s : Sums(s, b, Len(b))) /\ Sums(g, b, Len(b))
  BY <1>3, SumsExist
<1>6. PICK h : h = (CHOOSE s : Sums(s, a \o b, Len(a \o b))) /\ Sums(h, a \o b, Len(a \o b))
  BY <1>3, SumsExist
<1>7. h[Len(a \o b)] = f[Len(a)] + g[Len(b)]
  BY <1>4, <1>5, <1>6, SumsJoin
<1>8. f[Len(a)] \in Int
  <2>1. \A i \in 1..Len(a) : a[i] \in Int
    OBVIOUS
  <2>2. \A i \in 0..Len(a) : f[i] \in Int
    BY <1>3, <1>4, <2>1, SumsTyped
  <2>3. QED
    BY <1>3, <2>2
<1>9. Average!Total(a) = f[Len(a)]
  BY <1>1, <1>4, Zenon
<1>10. Average!Total(b) = g[Len(b)]
  BY <1>1, <1>5, Zenon
<1>11. Average!Total(a \o b) = h[Len(a \o b)]
  BY <1>1, <1>6, Zenon
<1>12. QED
  BY <1>7, <1>8, <1>9, <1>10, <1>11

LEMMA TotalIs ==
  ASSUME NEW row, Len(row) = WindowLen
  PROVE  total(row) = Average!Total(row)
BY DEF total, Average!Total

-----------------------------------------------------------------------------
(* The readings of a row, oldest first, and what a reading does to them *)
Latest(row, i, full) ==
  (IF full THEN SubSeq(row, i, WindowLen) ELSE <<>>) \o SubSeq(row, 1, i - 1)

Rows == [1..WindowLen -> Temps \cup {0}]

LEMMA RowIs ==
  ASSUME NEW row \in Rows
  PROVE  /\ row \in Seq(Int) /\ Len(row) = WindowLen
         /\ \A k \in 1..WindowLen : row[k] \in Int
<1>1. WindowLen \in Nat \ {0} /\ Temps \cup {0} \subseteq Int
  BY SensorWindowAssumption DEF SensorWindowAssumption
<1>2. row \in [1..WindowLen -> Temps \cup {0}]
  BY DEF Rows
<1>3. \A k \in 1..WindowLen : row[k] \in Int
  <2> SUFFICES ASSUME NEW k \in 1..WindowLen PROVE row[k] \in Int
    OBVIOUS
  <2>1. row[k] \in Temps \cup {0}
    BY <1>2, Zenon
  <2>2. QED
    BY <1>1, <2>1, Zenon
<1>4. row \in [1..WindowLen -> Int]
  BY <1>2, <1>3
<1>5. QED
  BY <1>1, <1>3, <1>4

LEMMA LatestIs ==
  ASSUME NEW row \in Rows, NEW i \in 1..WindowLen, NEW full \in BOOLEAN
  PROVE  /\ Latest(row, i, full) \in Seq(Int)
         /\ Len(Latest(row, i, full)) = IF full THEN WindowLen ELSE i - 1
         /\ full => \A k \in 1..WindowLen : Latest(row, i, full)[k] =
                      IF k <= WindowLen - i + 1 THEN row[i + k - 1] ELSE row[k - (WindowLen - i + 1)]
         /\ ~full => \A k \in 1..(i - 1) : Latest(row, i, full)[k] = row[k]
<1>1. WindowLen \in Nat \ {0}
  BY SensorWindowAssumption DEF SensorWindowAssumption
<1>2. \A k \in 1..WindowLen : row[k] \in Int
  BY RowIs
<1> DEFINE a == SubSeq(row, i, WindowLen)
<1> DEFINE b == SubSeq(row, 1, i - 1)
<1>3. /\ a \in Seq(Int) /\ Len(a) = WindowLen - i + 1
      /\ \A k \in 1..(WindowLen - i + 1) : a[k] = row[i + k - 1]
  <2>1. \A k \in i..WindowLen : row[k] \in Int
    BY <1>1, <1>2
  <2>2. /\ a \in Seq(Int) /\ Len(a) = IF i <= WindowLen THEN WindowLen - i + 1 ELSE 0
        /\ \A k \in 1..(WindowLen - i + 1) : a[k] = row[i + k - 1]
    BY <1>1, <2>1, SubSeqProperties
  <2>3. QED
    BY <1>1, <2>2
<1>4. /\ b \in Seq(Int) /\ Len(b) = i - 1
      /\ \A k \in 1..(i - 1) : b[k] = row[k]
  <2>1. \A k \in 1..(i - 1) : row[k] \in Int
    BY <1>1, <1>2
  <2>2. /\ b \in Seq(Int) /\ Len(b) = IF 1 <= i - 1 THEN (i - 1) - 1 + 1 ELSE 0
        /\ \A k \in 1..((i - 1) - 1 + 1) : b[k] = row[1 + k - 1]
    BY <1>1, <2>1, SubSeqProperties
  <2> HIDE DEF b
  <2>3. (i - 1) - 1 + 1 = i - 1 /\ \A k \in 1..(i - 1) : 1 + k - 1 = k
    OBVIOUS
  <2>4. QED
    BY <1>1, <2>2, <2>3
<1> HIDE DEF a, b
<1>5. CASE full
  <2>1. Latest(row, i, full) = a \o b
    BY <1>5 DEF Latest, a, b
  <2>2. /\ a \o b \in Seq(Int)
        /\ Len(a \o b) = Len(a) + Len(b)
        /\ \A k \in 1..(Len(a) + Len(b)) : (a \o b)[k] = IF k <= Len(a) THEN a[k] ELSE b[k - Len(a)]
    BY <1>3, <1>4, ConcatProperties
  <2> DEFINE c == a \o b
  <2> HIDE DEF c
  <2>3. /\ c \in Seq(Int) /\ Len(c) = WindowLen
        /\ \A k \in 1..WindowLen : c[k] = IF k <= WindowLen - i + 1 THEN a[k] ELSE b[k - (WindowLen - i + 1)]
    <3>1. Len(a) + Len(b) = WindowLen
      BY <1>1, <1>3, <1>4
    <3>2. QED
      BY <1>3, <2>2, <3>1 DEF c
  <2>4. \A k \in 1..WindowLen : c[k] = IF k <= WindowLen - i + 1 THEN row[i + k - 1] ELSE row[k - (WindowLen - i + 1)]
    <3> SUFFICES ASSUME NEW k \in 1..WindowLen
                 PROVE  c[k] = IF k <= WindowLen - i + 1 THEN row[i + k - 1]
                               ELSE row[k - (WindowLen - i + 1)]
      OBVIOUS
    <3>1. k <= WindowLen - i + 1 => k \in 1..(WindowLen - i + 1)
      BY <1>1
    <3>2. ~(k <= WindowLen - i + 1) => k - (WindowLen - i + 1) \in 1..(i - 1)
      BY <1>1
    <3>3. QED
      BY <1>3, <1>4, <2>3, <3>1, <3>2
  <2>5. QED
    BY <1>5, <2>1, <2>3, <2>4 DEF c
<1>6. CASE ~full
  <2>1. Latest(row, i, full) = b
    BY <1>4, <1>6, ConcatEmptySeq DEF Latest, b
  <2>2. QED
    BY <1>4, <1>6, <2>1
<1>7. QED
  BY <1>5, <1>6

(* The next reading is appended, and the oldest of too many is dropped. *)
LEMMA LatestNext ==
  ASSUME NEW row \in Rows, NEW i \in 1..WindowLen, NEW full \in BOOLEAN, NEW t \in Temps
  PROVE  LET seen == Append(Latest(row, i, full), t)
             kept == IF Len(seen) > WindowLen THEN Tail(seen) ELSE seen
             filled == full \/ i + 1 > WindowLen
         IN  /\ Latest([row EXCEPT ![i] = t], wrap(i), filled) = kept
             /\ Len(kept) = WindowLen <=> filled
<1>1. WindowLen \in Nat \ {0} /\ t \in Int
  BY SensorWindowAssumption DEF SensorWindowAssumption
<1> DEFINE old == Latest(row, i, full)
<1> DEFINE seen == Append(old, t)
<1> DEFINE kept == IF Len(seen) > WindowLen THEN Tail(seen) ELSE seen
<1> DEFINE filled == full \/ i + 1 > WindowLen
<1> DEFINE next == [row EXCEPT ![i] = t]
<1> DEFINE new == Latest(next, wrap(i), filled)
<1>2. /\ old \in Seq(Int)
      /\ Len(old) = IF full THEN WindowLen ELSE i - 1
      /\ full => \A k \in 1..WindowLen : old[k] =
                   IF k <= WindowLen - i + 1 THEN row[i + k - 1] ELSE row[k - (WindowLen - i + 1)]
      /\ ~full => \A k \in 1..(i - 1) : old[k] = row[k]
  BY LatestIs
<1>3. next \in Rows /\ \A k \in 1..WindowLen : next[k] = IF k = i THEN t ELSE row[k]
  BY DEF Rows
<1>4. wrap(i) \in 1..WindowLen /\ filled \in BOOLEAN
  BY <1>1 DEF wrap
<1> HIDE DEF old, next
<1>5. /\ new \in Seq(Int)
      /\ Len(new) = IF filled THEN WindowLen ELSE wrap(i) - 1
      /\ filled => \A k \in 1..WindowLen : new[k] =
                     IF k <= WindowLen - wrap(i) + 1 THEN next[wrap(i) + k - 1]
                     ELSE next[k - (WindowLen - wrap(i) + 1)]
      /\ ~filled => \A k \in 1..(wrap(i) - 1) : new[k] = next[k]
  <2> HIDE DEF filled
  <2>1. QED
    BY <1>3, <1>4, LatestIs
<1> HIDE DEF new
<1>6. /\ seen \in Seq(Int) /\ Len(seen) = Len(old) + 1 /\ seen[Len(old) + 1] = t
      /\ \A k \in 1..Len(old) : seen[k] = old[k]
  <2>1. old \in Seq(Int) /\ t \in Int
    BY <1>1, <1>2
  <2>2. QED
    BY <2>1, AppendProperties
<1> HIDE DEF seen
<1>7. CASE full
  <2>1. Len(seen) = WindowLen + 1 /\ kept = Tail(seen)
    BY <1>1, <1>2, <1>6, <1>7
  <2>2. seen # <<>>
    BY <1>1, <2>1
  <2>3. /\ kept \in Seq(Int) /\ Len(kept) = WindowLen
        /\ \A k \in 1..WindowLen : kept[k] = seen[k + 1]
    <3>1. /\ Tail(seen) \in Seq(Int) /\ Len(Tail(seen)) = Len(seen) - 1
          /\ \A k \in 1..Len(Tail(seen)) : Tail(seen)[k] = seen[k + 1]
      BY <1>6, <2>2, HeadTailProperties
    <3>2. QED
      BY <1>1, <2>1, <3>1
  <2> HIDE DEF kept
  <2>4. filled /\ Len(new) = WindowLen
    BY <1>5, <1>7
  <2>5. ASSUME NEW k \in 1..WindowLen PROVE new[k] = kept[k]
    <3>1. kept[k] = seen[k + 1]
      BY <2>3
    <3>2. CASE k = WindowLen
      <4>1. kept[k] = t
        BY <1>2, <1>6, <1>7, <3>1, <3>2
      <4>2. new[k] = next[i]
        BY <1>1, <1>5, <2>4, <3>2 DEF wrap
      <4>3. QED
        BY <1>3, <4>1, <4>2
    <3>3. CASE k < WindowLen
      <4>1. kept[k] = old[k + 1]
        BY <1>1, <1>2, <1>6, <1>7, <3>1, <3>3
      <4>2. CASE i = WindowLen
        <5>1. wrap(i) = 1
          BY <1>1, <4>2 DEF wrap
        <5>2. new[k] = next[k]
          BY <1>1, <1>5, <2>4, <5>1
        <5>3. old[k + 1] = row[k]
          BY <1>1, <1>2, <1>7, <3>3, <4>2
        <5>4. QED
          BY <1>1, <1>3, <3>3, <4>1, <4>2, <5>2, <5>3
      <4>3. CASE i < WindowLen
        <5>1. wrap(i) = i + 1
          BY <1>1, <4>3 DEF wrap
        <5>2. new[k] = IF k <= WindowLen - i THEN next[i + k] ELSE next[k - (WindowLen - i)]
          BY <1>1, <1>5, <2>4, <4>3, <5>1
        <5>3. old[k + 1] = IF k <= WindowLen - i THEN row[i + k] ELSE row[k - (WindowLen - i)]
          <6>1. k + 1 \in 1..WindowLen
            BY <1>1, <3>3
          <6>2. old[k + 1] = IF k + 1 <= WindowLen - i + 1 THEN row[i + (k + 1) - 1]
                             ELSE row[(k + 1) - (WindowLen - i + 1)]
            BY <1>2, <1>7, <6>1
          <6>3. /\ k + 1 <= WindowLen - i + 1 <=> k <= WindowLen - i
                /\ i + (k + 1) - 1 = i + k
                /\ (k + 1) - (WindowLen - i + 1) = k - (WindowLen - i)
            BY <1>1
          <6>4. QED
            BY <6>2, <6>3
        <5>4. CASE k <= WindowLen - i
          <6>1. i + k \in 1..WindowLen /\ i + k # i
            BY <1>1, <5>4
          <6>2. QED
            BY <1>3, <4>1, <5>2, <5>3, <5>4, <6>1
        <5>5. CASE ~(k <= WindowLen - i)
          <6>1. k - (WindowLen - i) \in 1..WindowLen /\ k - (WindowLen - i) # i
            BY <1>1, <3>3, <4>3, <5>5
          <6>2. QED
            BY <1>3, <4>1, <5>2, <5>3, <5>5, <6>1
        <5>6. QED
          BY <5>4, <5>5
      <4>4. QED
        BY <1>1, <4>2, <4>3
    <3>4. QED
      BY <1>1, <3>2, <3>3
  <2>6. new = kept
    BY <1>5, <2>3, <2>4, <2>5, SeqEqual
  <2>7. QED
    BY <2>3, <2>4, <2>6 DEF new, next, kept, seen, old
<1>8. CASE ~full
  <2>1. Len(seen) = i /\ kept = seen
    BY <1>1, <1>2, <1>6, <1>8
  <2> HIDE DEF kept
  <2>2. Len(new) = i /\ (filled <=> i = WindowLen)
    BY <1>1, <1>5, <1>8 DEF wrap
  <2>3. ASSUME NEW k \in 1..i PROVE new[k] = seen[k]
    <3>1. new[k] = next[k]
      BY <1>1, <1>5, <2>2 DEF wrap
    <3>2. CASE k = i
      BY <1>2, <1>3, <1>6, <1>8, <3>1, <3>2
    <3>3. CASE k # i
      <4>1. k \in 1..(i - 1) /\ k \in 1..WindowLen
        BY <1>1, <3>3
      <4>2. seen[k] = row[k]
        BY <1>2, <1>6, <1>8, <4>1
      <4>3. QED
        BY <1>3, <3>1, <3>3, <4>1, <4>2
    <3>4. QED
      BY <3>2, <3>3
  <2>4. new = seen
    BY <1>5, <1>6, <2>1, <2>2, <2>3, SeqEqual
  <2>5. QED
    BY <2>1, <2>2, <2>4 DEF new, next, kept, seen, old
<1>9. QED
  BY <1>7, <1>8

(* The average of a full row is that of the readings in it, in any order. *)
LEMMA TotalOfRow ==
  ASSUME NEW row \in Rows, NEW i \in 1..WindowLen
  PROVE  total(row) = Average!Total(Latest(row, i, TRUE))
<1>1. row \in Seq(Int) /\ Len(row) = WindowLen /\ WindowLen \in Nat \ {0}
  BY RowIs, SensorWindowAssumption DEF SensorWindowAssumption
<1> DEFINE a == SubSeq(row, 1, i - 1)
<1> DEFINE b == SubSeq(row, i, WindowLen)
<1>2. a \in Seq(Int) /\ b \in Seq(Int)
  <2>1. /\ \A k \in 1..(i - 1) : row[k] \in Int
        /\ \A k \in i..WindowLen : row[k] \in Int
    BY <1>1
  <2>2. QED
    BY <1>1, <2>1, SubSeqProperties
<1>3. row = a \o b
  <2>1. /\ 1 \in 1..(Len(row) + 1) /\ i - 1 \in (1 - 1)..Len(row)
        /\ WindowLen \in (i - 1)..Len(row) /\ (i - 1) + 1 = i
    BY <1>1
  <2>2. SubSeq(row, 1, i - 1) \o SubSeq(row, (i - 1) + 1, WindowLen) = SubSeq(row, 1, WindowLen)
    BY <1>1, <2>1, ConcatAdjacentSubSeq
  <2>3. SubSeq(row, 1, WindowLen) = row
    BY <1>1, SubSeqFull
  <2>4. QED
    BY <2>1, <2>2, <2>3
<1>4. Latest(row, i, TRUE) = b \o a
  BY DEF Latest
<1> HIDE DEF a, b
<1>5. /\ Average!Total(a) \in Int /\ Average!Total(b) \in Int
      /\ Average!Total(a \o b) = Average!Total(a) + Average!Total(b)
      /\ Average!Total(b \o a) = Average!Total(b) + Average!Total(a)
  BY <1>2, TotalJoins
<1>6. total(row) = Average!Total(row)
  BY <1>1, TotalIs
<1>7. total(row) = Average!Total(a) + Average!Total(b)
  BY <1>3, <1>5, <1>6, Zenon
<1>8. Average!Total(Latest(row, i, TRUE)) = Average!Total(b) + Average!Total(a)
  BY <1>4, <1>5, Zenon
<1> DEFINE ta == Average!Total(a)
<1> DEFINE tb == Average!Total(b)
<1>9. ta \in Int /\ tb \in Int
  BY <1>5
<1> HIDE DEF ta, tb
<1>10. ta + tb = tb + ta
  BY <1>9
<1>11. QED
  BY <1>7, <1>8, <1>10, Zenon DEF ta, tb

-----------------------------------------------------------------------------
(* The refinement *)
LEMMA RecentIs ==
  ASSUME NEW s \in SensorIDs
  PROVE  Recent[s] = Latest(val[s], index[s], check[s])
BY DEF Recent, Latest

LEMMA AverageStarts == Init => Average!Init
<1> SUFFICES ASSUME Init PROVE Average!Init
  OBVIOUS
<1>1. ASSUME NEW s \in SensorIDs PROVE Recent[s] = <<>>
  <2>1. index[s] = 1 /\ check[s] = FALSE
    BY DEF Init
  <2>2. SubSeq(val[s], 1, index[s] - 1) = <<>>
    BY <2>1, SubSeqEmpty
  <2>3. <<>> \o <<>> = <<>>
    BY <<>> \in Seq(Int), ConcatEmptySeq
  <2>4. QED
    BY <2>1, <2>2, <2>3 DEF Recent
<1>2. Recent = [s \in SensorIDs |-> Recent[s]]
  BY DEF Recent
<1>3. Recent = [s \in SensorIDs |-> <<>>]
  BY <1>1, <1>2
<1>4. QED
  BY <1>3, Zenon DEF Init, Average!Init, None, Average!None

(* A reading that is stored is a reading of the running average. *)
LEMMA WindowReads ==
  ASSUME TypeOK, NEW s \in SensorIDs, NEW t \in Temps, window(s, t)
  PROVE  Average!Reading(s, t)
<1> DEFINE full == check[s] \/ index[s] + 1 > WindowLen
<1> DEFINE row == [val[s] EXCEPT ![index[s]] = t]
<1> DEFINE lev == IF full THEN level(total(row)) ELSE "none"
<1> DEFINE seen == Append(Recent[s], t)
<1> DEFINE kept == IF Len(seen) > WindowLen THEN Tail(seen) ELSE seen
<1>1. /\ val \in [SensorIDs -> Rows]
      /\ index \in [SensorIDs -> 1..WindowLen]
      /\ check \in [SensorIDs -> BOOLEAN]
  BY DEF TypeOK, Rows
<1>2. /\ val' = [val EXCEPT ![s] = row]
      /\ index' = [index EXCEPT ![s] = wrap(index[s])]
      /\ check' = [check EXCEPT ![s] = full]
      /\ line' = IF lev = "none" THEN None ELSE [sensor |-> s, level |-> lev]
  BY Zenon DEF window
<1>3. val[s] \in Rows /\ index[s] \in 1..WindowLen /\ check[s] \in BOOLEAN
  BY <1>1
<1>4. Latest(row, wrap(index[s]), full) = kept /\ (Len(kept) = WindowLen <=> full)
  <2> DEFINE old == Latest(val[s], index[s], check[s])
  <2>1. LET next == Append(old, t)
            left == IF Len(next) > WindowLen THEN Tail(next) ELSE next
        IN  /\ Latest(row, wrap(index[s]), full) = left
            /\ Len(left) = WindowLen <=> full
    BY <1>3, LatestNext
  <2>2. Recent[s] = old
    BY RecentIs
  <2> HIDE DEF old, row, full
  <2>3. QED
    BY <2>1, <2>2, Zenon
<1>5. row \in Rows /\ full \in BOOLEAN
  BY <1>3 DEF Rows
<1>6. wrap(index[s]) \in 1..WindowLen
  BY <1>3, SensorWindowAssumption DEF SensorWindowAssumption, wrap
<1>7. full => total(row) = Average!Total(kept)
  <2> HAVE full
  <2>1. full = TRUE
    BY <1>5, Zenon
  <2>2. total(row) = Average!Total(Latest(row, wrap(index[s]), TRUE))
    BY <1>5, <1>6, TotalOfRow
  <2> HIDE DEF full, row, kept
  <2>3. QED
    BY <1>4, <2>1, <2>2, Zenon
<1>8. lev = IF Len(kept) = WindowLen THEN Average!Level(Average!Total(kept)) ELSE "none"
  <2> HIDE DEF full, row, kept
  <2>1. QED
    BY <1>4, <1>7 DEF level, Average!Level
<1> HIDE DEF full, row, lev, seen, kept
<1>9. Recent' = [Recent EXCEPT ![s] = kept]
  <2>1. ASSUME NEW u \in SensorIDs PROVE Recent'[u] = IF u = s THEN kept ELSE Recent[u]
    <3>1. Recent'[u] = Latest(val'[u], index'[u], check'[u])
      BY DEF Recent, Latest
    <3>2. CASE u = s
      <4>1. val'[u] = row /\ index'[u] = wrap(index[s]) /\ check'[u] = full
        BY <1>1, <1>2, <3>2
      <4>2. QED
        BY <1>4, <3>1, <3>2, <4>1
    <3>3. CASE u # s
      <4>1. val'[u] = val[u] /\ index'[u] = index[u] /\ check'[u] = check[u]
        BY <1>1, <1>2, <3>3
      <4>2. QED
        BY <3>1, <3>3, <4>1, RecentIs
    <3>4. QED
      BY <3>2, <3>3
  <2>2. /\ Recent' = [u \in SensorIDs |-> Recent'[u]]
        /\ DOMAIN Recent = SensorIDs
    BY DEF Recent
  <2> DEFINE new == Recent'
  <2> DEFINE old == Recent
  <2> HIDE DEF new, old
  <2>3. new = [old EXCEPT ![s] = kept]
    BY <2>1, <2>2 DEF new, old
  <2>4. QED
    BY <2>3 DEF new, old
<1>10. line' = IF Len(kept) = WindowLen /\ Average!Level(Average!Total(kept)) # "none"
                THEN [sensor |-> s, level |-> Average!Level(Average!Total(kept))]
                ELSE None
  BY <1>2, <1>8
<1>11. QED
  BY <1>9, <1>10, Zenon DEF Average!Reading, None, Average!None, seen, kept

LEMMA AverageSteps == OnlyRoomsAreHeard /\ [Next]_vars => [Average!Next]_<<Recent, line>>
<1> SUFFICES ASSUME OnlyRoomsAreHeard, [Next]_vars PROVE [Average!Next]_<<Recent, line>>
  OBVIOUS
<1>1. CASE UNCHANGED vars
  BY <1>1 DEF vars, Recent
<1>2. CASE Next
  <2>1. PICK m \in Messages : Handle(m)
    BY <1>2 DEF Next
  <2> DEFINE p == msg_parse(m)
  <2>2. CASE line' = None /\ UNCHANGED <<val, index, check>>
    <3>1. Recent' = Recent
      BY <2>2 DEF Recent
    <3>2. Average!NoReading
      BY <2>2, <3>1, Zenon DEF Average!NoReading, None, Average!None
    <3>3. QED
      BY <3>2, Zenon DEF Average!Next
  <2>3. CASE p.out.senID \in SensorIDs /\ p.out.temp # Missing /\ window(p.out.senID, p.out.temp)
    <3>1. p.out.temp \in Temps
      BY <2>3, ParsedIs
    <3>2. Average!Reading(p.out.senID, p.out.temp)
      BY <2>3, <3>1, WindowReads DEF OnlyRoomsAreHeard
    <3>3. QED
      BY <2>3, <3>1, <3>2, Zenon DEF Average!Next
  <2>4. QED
    BY <2>1, <2>2, <2>3, Zenon DEF Handle
<1>3. QED
  BY <1>1, <1>2

(* The rings of val and their index cells, with check, compute the average *)
(* of exactly the last WindowLen readings of each sensor, whatever the     *)
(* messages, and the line written is its level: for any length of the rows *)
(* and any temperatures.                                                   *)
THEOREM RingsComputeTheAverage == Spec => ImplementsAverage
<1>1. Spec => []OnlyRoomsAreHeard
  BY RoomsAreHeard
<1>2. QED
  BY <1>1, AverageStarts, AverageSteps, PTL DEF Spec, ImplementsAverage, Average!Spec

-----------------------------------------------------------------------------
(* The sensor database: where its files are written *)
Making == {"profile", "schema", "create"}

Flags == fdb \in BOOLEAN /\ refused \in BOOLEAN /\ spoiled \in BOOLEAN

(* What ties the records to the files.  A database is made anew only where *)
(* there was none, or after a refused open, so its records were none       *)
(* (RecordsKept); files are incomplete only while they are being           *)
(* written, unless spoiled (OpenedHasTable).                               *)
Records ==
  /\ template \in Absent..Chunks
  /\ sensor \in Absent..Chunks
  /\ records \in 0..MaxRecords
  /\ pc \in {"down", "open", "profile", "schema", "create", "copy", "retry", "run"}
  /\ stored \in 0..MaxRecords
  /\ RecordsKept
  /\ OpenedHasTable
  /\ records <= stored
  /\ sensor = Absent \/ pc = "copy" => records = 0
  /\ ~refused /\ pc \in Making => sensor = Absent
  /\ fdb => pc = "run"
  /\ pc \in {"copy", "retry"} => sensor # Absent
  /\ pc \in {"schema", "create", "copy", "retry"} => template # Absent
  /\ ~spoiled => pc = "schema" \/ template \in {Absent, Chunks}
  /\ ~spoiled => pc = "copy" \/ sensor \in {Absent, Chunks}

DbInv == Flags /\ Records

LEMMA DbStarts == FdbInit => DbInv
<1> SUFFICES ASSUME FdbInit PROVE DbInv
  OBVIOUS
<1>1. Flags
  BY Zenon DEF FdbInit, Flags
<1>2. Records
  BY FdbAssumption
     DEF FdbAssumption, FdbInit, Records, RecordsKept, OpenedHasTable, Making, Absent
<1>3. QED
  BY <1>1, <1>2 DEF DbInv

(* One step of storage_mgr, of a fault or of a crash. *)
LEMMA DbKept == DbInv /\ [FdbNext]_fdbVars => DbInv'
<1> SUFFICES ASSUME DbInv, [FdbNext]_fdbVars PROVE DbInv'
  OBVIOUS
<1>1. Records
  BY DEF DbInv
<1>2. Flags
  BY DEF DbInv
<1>3. Flags'
  <2> USE <1>2 DEF Flags
  <2>1. CASE Start BY <2>1, Zenon DEF Start
  <2>2. CASE OpenSensorDb BY <2>2, Zenon DEF OpenSensorDb
  <2>3. CASE CheckProfile BY <2>3, Zenon DEF CheckProfile
  <2>4. CASE RunSchema BY <2>4, Zenon DEF RunSchema
  <2>5. CASE CreateSensorDb BY <2>5, Zenon DEF CreateSensorDb
  <2>6. CASE Copy BY <2>6, Zenon DEF Copy
  <2>7. CASE Reopen BY <2>7, Zenon DEF Reopen
  <2>8. CASE Insert BY <2>8, Zenon DEF Insert
  <2>9. CASE Killed BY <2>9, Zenon DEF Killed
  <2>10. CASE UNCHANGED fdbVars BY <2>10, Zenon DEF fdbVars
  <2>11. QED
    BY <2>1, <2>2, <2>3, <2>4, <2>5, <2>6, <2>7, <2>8, <2>9, <2>10
       DEF FdbNext, fdb_open_sensor_db
<1>4. Records'
  <2> USE <1>1, FdbAssumption
      DEF FdbAssumption, Records, RecordsKept, OpenedHasTable, Making, Absent
  <2>1. CASE Start BY <2>1 DEF Start
  <2>2. CASE OpenSensorDb BY <2>2 DEF OpenSensorDb
  <2>3. CASE CheckProfile BY <2>3 DEF CheckProfile
  <2>4. CASE RunSchema BY <2>4 DEF RunSchema
  <2>5. CASE CreateSensorDb BY <2>5 DEF CreateSensorDb
  <2>6. CASE Copy BY <2>6 DEF Copy
  <2>7. CASE Reopen BY <2>7 DEF Reopen
  <2>8. CASE Insert BY <2>8 DEF Insert
  <2>9. CASE Killed BY <2>9 DEF Killed
  <2>10. CASE UNCHANGED fdbVars BY <2>10 DEF fdbVars
  <2>11. QED
    BY <2>1, <2>2, <2>3, <2>4, <2>5, <2>6, <2>7, <2>8, <2>9, <2>10
       DEF FdbNext, fdb_open_sensor_db
<1>5. QED
  BY <1>3, <1>4 DEF DbInv

LEMMA DbHolds == FdbSpec => []DbInv
BY DbStarts, DbKept, PTL DEF FdbSpec

(* Every variable keeps its type: no file grows past the schema's blocks   *)
(* and no more records are there than were stored.                         *)
THEOREM FdbTypes == FdbSpec => []FdbTypeOK
<1>1. DbInv => FdbTypeOK
  BY DEF DbInv, Flags, Records, FdbTypeOK
<1>2. QED BY <1>1, DbHolds, PTL

(* A record whose insert returned 0 is not lost by crashes, restarts and   *)
(* failing copies, while opens of an existing sensor.db succeed.           *)
THEOREM StoredRecordsSurvive == FdbSpec => []RecordsSurvive
<1>1. DbInv => RecordsSurvive
  BY DEF DbInv, Flags, Records, FdbTypeOK, RecordsSurvive
<1>2. QED BY <1>1, DbHolds, PTL

(* storage_mgr never holds a database without its table, unless a file was *)
(* left incomplete by a crash or by a failure nothing cleans up after.     *)
THEOREM OpenDatabasesHaveTables == FdbSpec => []OpenedHasTable
<1>1. DbInv => OpenedHasTable
  BY DEF DbInv, Records
<1>2. QED BY <1>1, DbHolds, PTL

-----------------------------------------------------------------------------
(* Forests.  to[x] is what x leads to; R are the roots.  Everything but a  *)
(* root is led to by one element, a root by none, and everything is        *)
(* reached from the roots.                                                 *)
Forest(to, R) ==
  /\ R \subseteq DOMAIN to
  /\ \A x \in DOMAIN to : to[x] \subseteq DOMAIN to \ R
  /\ \A x, y \in DOMAIN to : x # y => to[x] \cap to[y] = {}
  /\ \A T \in SUBSET DOMAIN to : R \subseteq T /\ Closed(to, T) => T = DOMAIN to

LEMMA ReachIsLeast ==
  ASSUME NEW to, NEW S, NEW T \in SUBSET DOMAIN to, S \subseteq T, Closed(to, T)
  PROVE  Reach(to, S) \subseteq T
BY DEF Reach

LEMMA ReachHolds ==
  ASSUME NEW to, NEW S, S \subseteq DOMAIN to, \A x \in DOMAIN to : to[x] \subseteq DOMAIN to
  PROVE  /\ S \subseteq Reach(to, S)
         /\ Reach(to, S) \subseteq DOMAIN to
         /\ Closed(to, Reach(to, S))
<1>1. S \subseteq Reach(to, S) /\ Reach(to, S) \subseteq DOMAIN to
  BY DEF Reach
<1>2. ASSUME NEW y \in Reach(to, S), NEW z \in to[y] PROVE z \in Reach(to, S)
  <2>1. y \in DOMAIN to /\ z \in DOMAIN to
    BY <1>1, <1>2
  <2>2. SUFFICES ASSUME NEW T \in SUBSET DOMAIN to, S \subseteq T, Closed(to, T) PROVE z \in T
    BY <2>1 DEF Reach
  <2>3. y \in T
    BY <2>2 DEF Reach
  <2>4. QED
    BY <2>2, <2>3, <1>2 DEF Closed
<1>3. QED
  BY <1>1, <1>2 DEF Closed

LEMMA ReachedByStep ==
  ASSUME NEW to, NEW S, S \subseteq DOMAIN to, \A x \in DOMAIN to : to[x] \subseteq DOMAIN to,
         NEW z \in Reach(to, S), z \notin S
  PROVE  \E y \in Reach(to, S) : z \in to[y]
<1> SUFFICES ASSUME \A y \in Reach(to, S) : z \notin to[y] PROVE FALSE
  OBVIOUS
<1> DEFINE T == Reach(to, S) \ {z}
<1>1. T \in SUBSET DOMAIN to /\ S \subseteq T
  BY ReachHolds
<1>2. Closed(to, T)
  BY ReachHolds DEF Closed
<1>3. QED
  BY <1>1, <1>2, ReachIsLeast

LEMMA ForestSteps ==
  ASSUME NEW to, NEW R, Forest(to, R)
  PROVE  \A x \in DOMAIN to : to[x] \subseteq DOMAIN to
BY DEF Forest

(* Everything is reached from the roots, and what is not a root is led to. *)
LEMMA ForestHolds ==
  ASSUME NEW to, NEW R, Forest(to, R)
  PROVE  /\ Reach(to, R) = DOMAIN to
         /\ \A x \in DOMAIN to \ R : \E y \in DOMAIN to : x \in to[y]
<1>1. Reach(to, R) = DOMAIN to
  BY DEF Reach, Forest
<1>2. ASSUME NEW x \in DOMAIN to \ R, \A y \in DOMAIN to : x \notin to[y]
      PROVE  FALSE
  <2> DEFINE T == DOMAIN to \ {x}
  <2>1. T \in SUBSET DOMAIN to /\ R \subseteq T /\ Closed(to, T)
    BY <1>2 DEF Forest, Closed
  <2>2. T = DOMAIN to
    <3> HIDE DEF T
    <3>1. QED
      BY <2>1 DEF Forest
  <2>3. QED
    BY <2>2
<1>3. QED
  BY <1>1, <1>2

(* What is reached from x leads to nothing that another root reaches. *)
LEMMA ReachesApart ==
  ASSUME NEW to, NEW R, Forest(to, R), NEW x \in R, NEW y \in R, x # y
  PROVE  Reach(to, {x}) \cap Reach(to, {y}) = {}
<1> DEFINE A == Reach(to, {x})
<1> DEFINE B == Reach(to, {y})
<1> DEFINE T == A \ B
<1>1. {x} \subseteq DOMAIN to /\ {y} \subseteq DOMAIN to
  BY DEF Forest
<1>2. x \in A /\ A \subseteq DOMAIN to /\ Closed(to, A) /\ B \subseteq DOMAIN to
  BY <1>1, ForestSteps, ReachHolds
<1>3. x \notin B
  <2>1. SUFFICES ASSUME x \in B PROVE FALSE
    OBVIOUS
  <2>2. PICK z \in B : x \in to[z]
    BY <1>1, <2>1, ForestSteps, ReachedByStep
  <2>3. QED
    BY <1>2, <2>2 DEF Forest
<1>4. Closed(to, T)
  <2>1. SUFFICES ASSUME NEW u \in T, NEW z \in to[u], z \in B PROVE FALSE
    BY <1>2 DEF Closed
  <2>2. u \in DOMAIN to
    BY <1>2
  <2>3. z # y
    BY <2>1, <2>2 DEF Forest
  <2>4. PICK w \in B : z \in to[w]
    BY <1>1, <2>1, <2>3, ForestSteps, ReachedByStep
  <2>5. w = u
    BY <1>2, <2>1, <2>2, <2>4 DEF Forest
  <2>6. QED
    BY <2>1, <2>4, <2>5
<1>5. A \subseteq T
  BY <1>2, <1>3, <1>4, ReachIsLeast
<1>6. QED
  BY <1>5

(* Nothing is below what it leads to. *)
LEMMA NoCycle ==
  ASSUME NEW to, NEW R, Forest(to, R), NEW p \in DOMAIN to, NEW x \in to[p]
  PROVE  p \notin Reach(to, {x})
<1> DEFINE B == Reach(to, {x})
<1> SUFFICES ASSUME p \in B PROVE FALSE
  OBVIOUS
<1>1. {x} \subseteq DOMAIN to /\ x \notin R
  BY DEF Forest
<1>2. x \in B /\ B \subseteq DOMAIN to /\ Closed(to, B)
  BY <1>1, ForestSteps, ReachHolds
<1> DEFINE T == DOMAIN to \ B
<1>3. R \subseteq T
  <2>1. SUFFICES ASSUME NEW r \in R, r \in B PROVE FALSE
    BY DEF Forest
  <2>2. PICK z \in B : r \in to[z]
    BY <1>1, <2>1, ForestSteps, ReachedByStep
  <2>3. QED
    BY <1>2, <2>2 DEF Forest
<1>4. Closed(to, T)
  <2>1. SUFFICES ASSUME NEW u \in T, NEW z \in to[u], z \in B PROVE FALSE
    BY ForestSteps DEF Closed
  <2>2. PICK w \in B : z \in to[w]
    <3>1. CASE z = x
      BY <3>1
    <3>2. CASE z # x
      BY <1>1, <2>1, <3>2, ForestSteps, ReachedByStep
    <3>3. QED
      BY <3>1, <3>2
  <2>3. w = u
    BY <1>2, <2>1, <2>2 DEF Forest
  <2>4. QED
    BY <2>1, <2>2, <2>3
<1>5. T = DOMAIN to
  BY <1>3, <1>4 DEF Forest
<1>6. QED
  BY <1>2, <1>5

(* Four ways in which a forest changes: a new root, ... *)
LEMMA ForestWithRoot ==
  ASSUME NEW to, NEW R, Forest(to, R), NEW n, n \notin DOMAIN to,
         NEW to2, DOMAIN to2 = DOMAIN to \cup {n}, to2[n] = {},
         \A x \in DOMAIN to : to2[x] = to[x]
  PROVE  Forest(to2, R \cup {n})
<1>1. ASSUME NEW T \in SUBSET DOMAIN to2, R \cup {n} \subseteq T, Closed(to2, T)
      PROVE  T = DOMAIN to2
  <2> DEFINE U == T \ {n}
  <2>1. U \in SUBSET DOMAIN to /\ R \subseteq U
    BY <1>1 DEF Forest
  <2>2. Closed(to, U)
    BY <1>1, <2>1 DEF Forest, Closed
  <2>3. U = DOMAIN to
    BY <2>1, <2>2 DEF Forest
  <2>4. QED
    BY <1>1, <2>3
<1>2. \A x \in DOMAIN to2 : to2[x] \subseteq DOMAIN to2 \ (R \cup {n})
  BY DEF Forest
<1>3. \A x, y \in DOMAIN to2 : x # y => to2[x] \cap to2[y] = {}
  BY DEF Forest
<1>4. R \cup {n} \subseteq DOMAIN to2
  BY DEF Forest
<1>5. QED
  BY <1>1, <1>2, <1>3, <1>4 DEF Forest

(* ... a root that gets a place after p, before the N that were there, ... *)
LEMMA ForestWithLink ==
  ASSUME NEW to, NEW R, Forest(to, R), NEW x \in R, NEW p \in DOMAIN to,
         p \notin Reach(to, {x}), NEW N \in SUBSET to[p],
         NEW to2, DOMAIN to2 = DOMAIN to,
         to2[p] = (to[p] \ N) \cup {x}, to2[x] = to[x] \cup N,
         \A y \in DOMAIN to \ {p, x} : to2[y] = to[y]
  PROVE  Forest(to2, R \ {x})
<1> DEFINE B == Reach(to, {x})
<1>1. x \in B /\ B \subseteq DOMAIN to /\ Closed(to, B)
  BY ForestSteps, ReachHolds DEF Forest
<1>2. x \in DOMAIN to /\ p # x
  BY <1>1
<1>3. ASSUME NEW T \in SUBSET DOMAIN to, R \ {x} \subseteq T, Closed(to2, T)
      PROVE  T = DOMAIN to
  <2>1. x \in T
    <3>1. SUFFICES ASSUME x \notin T PROVE FALSE
      OBVIOUS
    <3>2. p \notin T
      BY <1>3, <3>1 DEF Closed
    <3> DEFINE U == T \cup B
    <3>3. \A y \in T : to[y] = to2[y]
      BY <3>1, <3>2
    <3>4. Closed(to, U)
      BY <1>1, <1>3, <3>3 DEF Closed
    <3>5. U \in SUBSET DOMAIN to /\ R \subseteq U
      BY <1>1, <1>3
    <3>6. U = DOMAIN to
      BY <3>4, <3>5 DEF Forest
    <3>7. QED
      BY <3>2, <3>6
  <2>2. N \subseteq T
    BY <1>2, <1>3, <2>1 DEF Closed
  <2>3. Closed(to, T)
    <3>1. ASSUME NEW y \in T PROVE to[y] \subseteq T
      <4>1. CASE y = p
        BY <1>2, <1>3, <2>2, <4>1 DEF Closed
      <4>2. CASE y = x
        BY <1>2, <1>3, <4>2 DEF Closed
      <4>3. CASE y \notin {p, x}
        BY <1>3, <4>3 DEF Closed
      <4>4. QED
        BY <4>1, <4>2, <4>3
    <3>2. QED
      BY <3>1 DEF Closed
  <2>4. QED
    BY <1>3, <2>1, <2>3 DEF Forest
<1>4. \A y \in DOMAIN to2 : to2[y] \subseteq DOMAIN to2 \ (R \ {x})
  <2>1. to2[p] \subseteq DOMAIN to2 \ (R \ {x})
    BY <1>2 DEF Forest
  <2>2. to2[x] \subseteq DOMAIN to2 \ (R \ {x})
    BY <1>2 DEF Forest
  <2>3. QED
    BY <2>1, <2>2 DEF Forest
<1>5. ASSUME NEW y \in DOMAIN to2, NEW z \in DOMAIN to2, y # z,
             NEW u \in to2[y], u \in to2[z]
      PROVE  FALSE
  <2>1. \A w \in DOMAIN to : x \notin to[w]
    BY DEF Forest
  <2>2. \A v, w \in DOMAIN to : v # w => u \notin to[v] \/ u \notin to[w]
    BY DEF Forest
  <2>3. CASE u = x
    <3>1. \A w \in DOMAIN to : u \in to2[w] => w = p
      BY <1>2, <2>1, <2>3
    <3>2. QED
      BY <1>5, <3>1
  <2>4. CASE u # x /\ u \in N
    <3>1. \A w \in DOMAIN to : u \in to2[w] => w = x
      BY <1>2, <2>2, <2>4
    <3>2. QED
      BY <1>5, <3>1
  <2>5. CASE u # x /\ u \notin N
    <3>1. \A w \in DOMAIN to : u \in to2[w] => u \in to[w]
      BY <1>2, <2>5
    <3>2. QED
      BY <1>5, <2>2, <3>1
  <2>6. QED
    BY <2>3, <2>4, <2>5
<1>6. \A y, z \in DOMAIN to2 : y # z => to2[y] \cap to2[z] = {}
  BY <1>5
<1>7. R \ {x} \subseteq DOMAIN to2
  BY DEF Forest
<1>8. QED
  BY <1>3, <1>4, <1>6, <1>7 DEF Forest

(* ... an element that is taken out from after p, leaving N in its place, ... *)
LEMMA ForestWithoutLink ==
  ASSUME NEW to, NEW R, Forest(to, R), NEW p \in DOMAIN to, NEW x \in to[p],
         NEW N \in SUBSET to[x],
         NEW to2, DOMAIN to2 = DOMAIN to,
         to2[p] = (to[p] \ {x}) \cup N, to2[x] = to[x] \ N,
         \A y \in DOMAIN to \ {p, x} : to2[y] = to[y]
  PROVE  Forest(to2, R \cup {x})
<1> DEFINE B == Reach(to, {x})
<1>1. x \in DOMAIN to /\ x \notin R
  BY DEF Forest
<1>2. x \in B /\ B \subseteq DOMAIN to /\ Closed(to, B)
  BY <1>1, ForestSteps, ReachHolds
<1>3. p \notin B /\ p # x
  BY <1>2, NoCycle
<1>4. x \notin to[x] /\ x \notin N
  BY <1>1, <1>3 DEF Forest
<1>5. ASSUME NEW T \in SUBSET DOMAIN to, R \cup {x} \subseteq T, Closed(to2, T)
      PROVE  T = DOMAIN to
  <2>1. p \in T
    <3>1. SUFFICES ASSUME p \notin T PROVE FALSE
      OBVIOUS
    <3> DEFINE U == T \cup B
    <3>2. Closed(to, U)
      <4>1. \A y \in T \ {x} : to[y] = to2[y]
        BY <3>1
      <4>2. QED
        BY <1>2, <1>5, <4>1 DEF Closed
    <3>3. U \in SUBSET DOMAIN to /\ R \subseteq U
      BY <1>2, <1>5
    <3>4. U = DOMAIN to
      BY <3>2, <3>3 DEF Forest
    <3>5. QED
      BY <1>3, <3>1, <3>4
  <2>2. N \subseteq T /\ to[p] \subseteq T /\ to[x] \subseteq T
    BY <1>5, <2>1 DEF Closed
  <2>3. Closed(to, T)
    <3>1. ASSUME NEW y \in T PROVE to[y] \subseteq T
      <4>1. CASE y \in {p, x}
        BY <2>2, <4>1
      <4>2. CASE y \notin {p, x}
        BY <1>5, <4>2 DEF Closed
      <4>3. QED
        BY <4>1, <4>2
    <3>2. QED
      BY <3>1 DEF Closed
  <2>4. QED
    BY <1>5, <2>3 DEF Forest
<1>6. \A y \in DOMAIN to2 : to2[y] \subseteq DOMAIN to2 \ (R \cup {x})
  <2>1. \A y \in DOMAIN to : y # p => x \notin to[y]
    BY DEF Forest
  <2>2. to2[p] \subseteq DOMAIN to2 \ (R \cup {x})
    BY <1>1, <1>4 DEF Forest
  <2>3. to2[x] \subseteq DOMAIN to2 \ (R \cup {x})
    BY <1>1, <1>4 DEF Forest
  <2>4. QED
    BY <2>1, <2>2, <2>3 DEF Forest
<1>7. ASSUME NEW y \in DOMAIN to2, NEW z \in DOMAIN to2, y # z,
             NEW u \in to2[y], u \in to2[z]
      PROVE  FALSE
  <2>1. \A v, w \in DOMAIN to : v # w => u \notin to[v] \/ u \notin to[w]
    BY DEF Forest
  <2>2. CASE u \in N
    <3>1. \A w \in DOMAIN to : u \in to2[w] => w = p
      BY <1>1, <1>3, <2>1, <2>2
    <3>2. QED
      BY <1>7, <3>1
  <2>3. CASE u \notin N
    <3>1. \A w \in DOMAIN to : u \in to2[w] => u \in to[w]
      BY <1>1, <2>3
    <3>2. QED
      BY <1>7, <2>1, <3>1
  <2>4. QED
    BY <2>2, <2>3
<1>8. \A y, z \in DOMAIN to2 : y # z => to2[y] \cap to2[z] = {}
  BY <1>7
<1>9. R \cup {x} \subseteq DOMAIN to2
  BY <1>1 DEF Forest
<1>10. QED
  BY <1>5, <1>6, <1>8, <1>9 DEF Forest

(* ... and a root that goes with all it reaches. *)
LEMMA DroppedApart ==
  ASSUME NEW to, NEW R, Forest(to, R), NEW x \in R
  PROVE  /\ R \cap Reach(to, {x}) = {x}
         /\ \A y \in DOMAIN to \ Reach(to, {x}) : to[y] \cap Reach(to, {x}) = {}
<1> DEFINE B == Reach(to, {x})
<1>1. {x} \subseteq DOMAIN to
  BY DEF Forest
<1>2. x \in B /\ B \subseteq DOMAIN to
  BY <1>1, ForestSteps, ReachHolds
<1>3. ASSUME NEW z \in B, z # x PROVE \E y \in B : z \in to[y]
  BY <1>1, <1>3, ForestSteps, ReachedByStep
<1>4. R \cap B = {x}
  BY <1>2, <1>3 DEF Forest
<1>5. ASSUME NEW y \in DOMAIN to \ B, NEW z \in to[y], z \in B PROVE FALSE
  <2>1. z # x
    BY DEF Forest
  <2>2. PICK w \in B : z \in to[w]
    BY <1>3, <1>5, <2>1
  <2>3. QED
    BY <1>2, <1>5, <2>2 DEF Forest
<1>6. QED
  BY <1>4, <1>5

LEMMA ForestWithoutRoot ==
  ASSUME NEW to, NEW R, Forest(to, R), NEW x \in R,
         NEW to2, DOMAIN to2 = DOMAIN to \ Reach(to, {x}),
         \A y \in DOMAIN to2 : to2[y] = to[y]
  PROVE  Forest(to2, R \ {x})
<1> DEFINE B == Reach(to, {x})
<1>1. x \in B /\ B \subseteq DOMAIN to /\ Closed(to, B)
  BY ForestSteps, ReachHolds DEF Forest
<1>2. R \cap B = {x} /\ \A y \in DOMAIN to \ B : to[y] \cap B = {}
  BY DroppedApart
<1> HIDE DEF B
<1>3. ASSUME NEW T \in SUBSET DOMAIN to2, R \ {x} \subseteq T, Closed(to2, T)
      PROVE  T = DOMAIN to2
  <2> DEFINE U == T \cup B
  <2>1. U \in SUBSET DOMAIN to /\ R \subseteq U
    BY <1>1, <1>3 DEF B
  <2>2. Closed(to, U)
    BY <1>1, <1>3 DEF Closed
  <2>3. U = DOMAIN to
    BY <2>1, <2>2 DEF Forest
  <2>4. QED
    BY <1>3, <2>3 DEF B
<1>4. R \ {x} \subseteq DOMAIN to2
  BY <1>2 DEF Forest, B
<1>5. \A y \in DOMAIN to2 : to2[y] \subseteq DOMAIN to2 \ (R \ {x})
  BY <1>2 DEF Forest, B
<1>6. \A y, z \in DOMAIN to2 : y # z => to2[y] \cap to2[z] = {}
  BY DEF Forest
<1>7. QED
  BY <1>3, <1>4, <1>5, <1>6 DEF Forest

(* More can be reached when there is more, and what a root reaches stays *)
(* when another goes.                                                    *)
LEMMA ReachGrows ==
  ASSUME NEW to, NEW to2, NEW S, S \subseteq DOMAIN to,
         \A x \in DOMAIN to : to[x] \subseteq DOMAIN to,
         DOMAIN to \subseteq DOMAIN to2,
         \A x \in DOMAIN to2 : to2[x] \subseteq DOMAIN to2,
         \A x \in DOMAIN to : to[x] \subseteq to2[x]
  PROVE  Reach(to, S) \subseteq Reach(to2, S)
<1> DEFINE T == Reach(to2, S) \cap DOMAIN to
<1>1. S \subseteq Reach(to2, S) /\ Closed(to2, Reach(to2, S))
  BY ReachHolds
<1>2. T \in SUBSET DOMAIN to /\ S \subseteq T
  BY <1>1
<1>3. Closed(to, T)
  BY <1>1 DEF Closed
<1>4. QED
  BY <1>2, <1>3, ReachIsLeast

LEMMA ReachStays ==
  ASSUME NEW to, NEW R, Forest(to, R), NEW x \in R, NEW r \in R, r # x,
         NEW to2, DOMAIN to2 = DOMAIN to \ Reach(to, {x}),
         \A y \in DOMAIN to2 : to2[y] = to[y]
  PROVE  Reach(to, {r}) \subseteq Reach(to2, {r})
<1> DEFINE B == Reach(to, {x})
<1> DEFINE T == Reach(to2, {r}) \cup B
<1>1. B \subseteq DOMAIN to /\ Closed(to, B)
  BY ForestSteps, ReachHolds DEF Forest
<1>2. Reach(to, {r}) \cap B = {}
  BY ReachesApart
<1>3. Forest(to2, R \ {x})
  BY ForestWithoutRoot
<1>4. {r} \subseteq DOMAIN to2
  BY <1>3 DEF Forest
<1>5. r \in Reach(to2, {r}) /\ Closed(to2, Reach(to2, {r})) /\ Reach(to2, {r}) \subseteq DOMAIN to2
  BY <1>3, <1>4, ForestSteps, ReachHolds
<1>6. T \in SUBSET DOMAIN to /\ {r} \subseteq T
  BY <1>1, <1>5
<1>7. Closed(to, T)
  BY <1>1, <1>5 DEF Closed
<1>8. Reach(to, {r}) \subseteq T
  BY <1>6, <1>7, ReachIsLeast
<1>9. QED
  BY <1>2, <1>8

-----------------------------------------------------------------------------
(* Items in memory *)
Kinds == Types \cup {"invalid", "number", "text", "array", "object"}

JsonItem ==
  [next : Items \cup {NULL}, prev : Items \cup {NULL}, child : Items \cup {NULL},
   type : Kinds, string : {"none", "heap", "const"}, valuestring : {"none", "heap"},
   IsReference : BOOLEAN, StringIsConst : BOOLEAN]

Heap(h) == DOMAIN h \subseteq Items /\ h \in [DOMAIN h -> JsonItem]

Neighbours(h) ==
  \A x \in DOMAIN h :
    /\ {h[x].next, h[x].prev, h[x].child} \subseteq DOMAIN h \cup {NULL}
    /\ h[x].next # NULL => h[h[x].next].prev = x
    /\ h[x].prev # NULL => h[h[x].prev].next = x
    /\ h[x].next # NULL /\ ~h[x].IsReference => h[x].next # h[x].child

Neat(h, R) == Heap(h) /\ Neighbours(h) /\ Forest(Links(h), R)

(* Two heaps that differ in the links alone, or in what is not a link. *)
OnlyLinks(h, h2) ==
  /\ DOMAIN h2 = DOMAIN h
  /\ \A x \in DOMAIN h : /\ h2[x].type = h[x].type
                         /\ h2[x].string = h[x].string
                         /\ h2[x].valuestring = h[x].valuestring
                         /\ h2[x].IsReference = h[x].IsReference
                         /\ h2[x].StringIsConst = h[x].StringIsConst

SameLinks(h, h2) ==
  /\ DOMAIN h2 = DOMAIN h
  /\ \A x \in DOMAIN h : /\ h2[x].next = h[x].next
                         /\ h2[x].prev = h[x].prev
                         /\ h2[x].child = h[x].child
                         /\ h2[x].IsReference = h[x].IsReference

LEMMA LinkedFields ==
  ASSUME NEW h, Heap(h), NEW y \in DOMAIN h, NEW x \in DOMAIN h, x # y
  PROVE  /\ Heap(Linked(h, y, x))
         /\ OnlyLinks(h, Linked(h, y, x))
         /\ \A z \in DOMAIN h :
              /\ Linked(h, y, x)[z].next = IF z = y THEN x ELSE h[z].next
              /\ Linked(h, y, x)[z].prev = IF z = x THEN y ELSE h[z].prev
              /\ Linked(h, y, x)[z].child = h[z].child
<1> DEFINE h2 == Linked(h, y, x)
<1>1. DOMAIN h2 = DOMAIN h
  BY DEF Linked
<1>2. ASSUME NEW z \in DOMAIN h
      PROVE  /\ h2[z] \in JsonItem
             /\ h2[z].next = IF z = y THEN x ELSE h[z].next
             /\ h2[z].prev = IF z = x THEN y ELSE h[z].prev
             /\ h2[z].child = h[z].child
             /\ h2[z].IsReference = h[z].IsReference
             /\ h2[z].StringIsConst = h[z].StringIsConst
             /\ h2[z].type = h[z].type
             /\ h2[z].string = h[z].string
             /\ h2[z].valuestring = h[z].valuestring
  BY DEF Linked, Heap, JsonItem
<1>3. h2 \in [DOMAIN h2 -> JsonItem]
  <2>1. h2 = [z \in DOMAIN h |-> h2[z]]
    BY DEF Linked
  <2> HIDE DEF h2
  <2>2. QED
    BY <1>1, <1>2, <2>1
<1>4. QED
  BY <1>1, <1>2, <1>3 DEF Heap, OnlyLinks

LEMMA ChildFields ==
  ASSUME NEW h, Heap(h), NEW a \in DOMAIN h, NEW x \in DOMAIN h
  PROVE  LET h2 == [h EXCEPT ![a].child = x] IN
         /\ Heap(h2) /\ OnlyLinks(h, h2)
         /\ \A z \in DOMAIN h :
              /\ h2[z].next = h[z].next /\ h2[z].prev = h[z].prev
              /\ h2[z].child = IF z = a THEN x ELSE h[z].child
BY DEF Heap, OnlyLinks, JsonItem

LEMMA DetachFields ==
  ASSUME NEW h, Heap(h), NEW a \in DOMAIN h, NEW x \in DOMAIN h
  PROVE  LET h2 == cJSON_DetachItemViaPointer(h, a, x) IN
         /\ Heap(h2) /\ OnlyLinks(h, h2)
         /\ \A z \in DOMAIN h :
              /\ h2[z].next = IF z = x THEN NULL
                              ELSE IF z = h[x].prev THEN h[x].next ELSE h[z].next
              /\ h2[z].prev = IF z = x THEN NULL
                              ELSE IF z = h[x].next THEN h[x].prev ELSE h[z].prev
              /\ h2[z].child = IF z # x /\ z = a /\ h[z].child = x THEN h[x].next
                               ELSE h[z].child
<1> DEFINE h2 == cJSON_DetachItemViaPointer(h, a, x)
<1>1. DOMAIN h2 = DOMAIN h
  BY DEF cJSON_DetachItemViaPointer
<1>2. ASSUME NEW z \in DOMAIN h
      PROVE  /\ h2[z] \in JsonItem
             /\ h2[z].type = h[z].type
             /\ h2[z].string = h[z].string
             /\ h2[z].valuestring = h[z].valuestring
             /\ h2[z].IsReference = h[z].IsReference
             /\ h2[z].StringIsConst = h[z].StringIsConst
             /\ h2[z].next = IF z = x THEN NULL
                            ELSE IF z = h[x].prev THEN h[x].next ELSE h[z].next
             /\ h2[z].prev = IF z = x THEN NULL
                            ELSE IF z = h[x].next THEN h[x].prev ELSE h[z].prev
             /\ h2[z].child = IF z # x /\ z = a /\ h[z].child = x THEN h[x].next
                             ELSE h[z].child
  <2>1. h[z] \in JsonItem /\ h[x] \in JsonItem
    BY DEF Heap
  <2>2. CASE z = x
    <3>1. h2[z] = [h[z] EXCEPT !.prev = NULL, !.next = NULL]
      BY <2>2 DEF cJSON_DetachItemViaPointer
    <3>2. QED
      BY <2>1, <2>2, <3>1 DEF JsonItem
  <2>3. CASE z # x
    <3>1. h2[z] = [h[z] EXCEPT !.next = IF z = h[x].prev THEN h[x].next ELSE @,
                               !.prev = IF z = h[x].next THEN h[x].prev ELSE @,
                               !.child = IF z = a /\ @ = x THEN h[x].next ELSE @]
      BY <2>3 DEF cJSON_DetachItemViaPointer
    <3>2. QED
      BY <2>1, <2>3, <3>1 DEF JsonItem
  <2>4. QED
    BY <2>2, <2>3
<1>3. h2 \in [DOMAIN h -> JsonItem]
  BY <1>2 DEF cJSON_DetachItemViaPointer
<1>4. QED
  BY <1>1, <1>2, <1>3 DEF Heap, OnlyLinks

LEMMA InsertFields ==
  ASSUME NEW h, Heap(h), NEW a \in DOMAIN h, NEW after \in DOMAIN h, NEW x \in DOMAIN h
  PROVE  LET h2 == cJSON_InsertItemInArray(h, a, after, x) IN
         /\ Heap(h2) /\ OnlyLinks(h, h2)
         /\ \A z \in DOMAIN h :
              /\ h2[z].next = IF z = x THEN after
                              ELSE IF z = h[after].prev THEN x ELSE h[z].next
              /\ h2[z].prev = IF z = x THEN h[after].prev
                              ELSE IF z = after THEN x ELSE h[z].prev
              /\ h2[z].child = IF z # x /\ z = a /\ h[z].child = after THEN x
                               ELSE h[z].child
<1> DEFINE h2 == cJSON_InsertItemInArray(h, a, after, x)
<1>1. DOMAIN h2 = DOMAIN h
  BY DEF cJSON_InsertItemInArray
<1>2. ASSUME NEW z \in DOMAIN h
      PROVE  /\ h2[z] \in JsonItem
             /\ h2[z].type = h[z].type
             /\ h2[z].string = h[z].string
             /\ h2[z].valuestring = h[z].valuestring
             /\ h2[z].IsReference = h[z].IsReference
             /\ h2[z].StringIsConst = h[z].StringIsConst
             /\ h2[z].next = IF z = x THEN after
                            ELSE IF z = h[after].prev THEN x ELSE h[z].next
             /\ h2[z].prev = IF z = x THEN h[after].prev
                            ELSE IF z = after THEN x ELSE h[z].prev
             /\ h2[z].child = IF z # x /\ z = a /\ h[z].child = after THEN x
                             ELSE h[z].child
  <2>1. h[z] \in JsonItem /\ h[x] \in JsonItem /\ h[after] \in JsonItem /\ {after, x} \subseteq Items
    BY DEF Heap
  <2>2. CASE z = x
    <3>1. h2[z] = [h[z] EXCEPT !.next = after, !.prev = h[after].prev]
      BY <2>2 DEF cJSON_InsertItemInArray
    <3>2. QED
      BY <2>1, <2>2, <3>1 DEF JsonItem
  <2>3. CASE z # x
    <3>1. h2[z] = [h[z] EXCEPT !.next = IF z = h[after].prev THEN x ELSE @,
                               !.prev = IF z = after THEN x ELSE @,
                               !.child = IF z = a /\ @ = after THEN x ELSE @]
      BY <2>3 DEF cJSON_InsertItemInArray
    <3>2. QED
      BY <2>1, <2>3, <3>1 DEF JsonItem
  <2>4. QED
    BY <2>2, <2>3
<1>3. h2 \in [DOMAIN h -> JsonItem]
  BY <1>2 DEF cJSON_InsertItemInArray
<1>4. QED
  BY <1>1, <1>2, <1>3 DEF Heap, OnlyLinks

LEMMA ReplacedFields ==
  ASSUME NEW h, Heap(h), NEW a \in DOMAIN h, NEW item \in DOMAIN h, NEW x \in DOMAIN h, x # item
  PROVE  LET h2 == Replaced(h, a, item, x) IN
         /\ Heap(h2) /\ OnlyLinks(h, h2)
         /\ \A z \in DOMAIN h :
              /\ h2[z].next = IF z = x THEN h[item].next ELSE IF z = item THEN NULL
                              ELSE IF z = h[item].prev THEN x ELSE h[z].next
              /\ h2[z].prev = IF z = x THEN h[item].prev ELSE IF z = item THEN NULL
                              ELSE IF z = h[item].next THEN x ELSE h[z].prev
              /\ h2[z].child = IF z \notin {x, item} /\ z = a /\ h[z].child = item THEN x
                               ELSE h[z].child
<1> DEFINE h2 == Replaced(h, a, item, x)
<1>1. DOMAIN h2 = DOMAIN h
  BY DEF Replaced
<1>2. ASSUME NEW z \in DOMAIN h
      PROVE  /\ h2[z] \in JsonItem
             /\ h2[z].type = h[z].type
             /\ h2[z].string = h[z].string
             /\ h2[z].valuestring = h[z].valuestring
             /\ h2[z].IsReference = h[z].IsReference
             /\ h2[z].StringIsConst = h[z].StringIsConst
             /\ h2[z].next = IF z = x THEN h[item].next ELSE IF z = item THEN NULL
                             ELSE IF z = h[item].prev THEN x ELSE h[z].next
             /\ h2[z].prev = IF z = x THEN h[item].prev ELSE IF z = item THEN NULL
                             ELSE IF z = h[item].next THEN x ELSE h[z].prev
             /\ h2[z].child = IF z \notin {x, item} /\ z = a /\ h[z].child = item THEN x
                              ELSE h[z].child
  <2>1. h[z] \in JsonItem /\ h[item] \in JsonItem /\ {item, x} \subseteq Items
    BY DEF Heap
  <2>2. CASE z = x
    <3>1. h2[z] = [h[z] EXCEPT !.next = h[item].next, !.prev = h[item].prev]
      BY <2>2 DEF Replaced
    <3>2. QED
      BY <2>1, <2>2, <3>1 DEF JsonItem
  <2>3. CASE z = item
    <3>1. h2[z] = [h[z] EXCEPT !.next = NULL, !.prev = NULL]
      BY <2>3 DEF Replaced
    <3>2. QED
      BY <2>1, <2>3, <3>1 DEF JsonItem
  <2>4. CASE z \notin {x, item}
    <3>1. h2[z] = [h[z] EXCEPT !.next = IF z = h[item].prev THEN x ELSE @,
                               !.prev = IF z = h[item].next THEN x ELSE @,
                               !.child = IF z = a /\ @ = item THEN x ELSE @]
      BY <2>4 DEF Replaced
    <3>2. QED
      BY <2>1, <2>4, <3>1 DEF JsonItem
  <2>5. QED
    BY <2>2, <2>3, <2>4
<1>3. h2 \in [DOMAIN h -> JsonItem]
  BY <1>2 DEF Replaced
<1>4. QED
  BY <1>1, <1>2, <1>3 DEF Heap, OnlyLinks

LEMMA WithFields ==
  ASSUME NEW h, Heap(h), NEW n \in Items \ DOMAIN h, NEW f \in JsonItem
  PROVE  /\ Heap(With(h, n, f))
         /\ DOMAIN With(h, n, f) = DOMAIN h \cup {n}
         /\ With(h, n, f)[n] = f
         /\ \A z \in DOMAIN h : With(h, n, f)[z] = h[z]
BY DEF Heap, With

LEMMA RestrictFields ==
  ASSUME NEW h, Heap(h), NEW S
  PROVE  LET h2 == Restrict(h, DOMAIN h \ S) IN
         /\ Heap(h2) /\ DOMAIN h2 = DOMAIN h \ S
         /\ \A z \in DOMAIN h2 : h2[z] = h[z]
BY DEF Heap, Restrict

LEMMA NamedFields ==
  ASSUME NEW h, Heap(h), NEW x \in DOMAIN h, NEW name \in {"none", "heap", "const"}
  PROVE  /\ Heap(Named(h, x, name)) /\ SameLinks(h, Named(h, x, name))
         /\ \A z \in DOMAIN h :
              /\ Named(h, x, name)[z].type = h[z].type
              /\ Named(h, x, name)[z].valuestring = h[z].valuestring
              /\ z # x => Named(h, x, name)[z] = h[z]
         /\ Named(h, x, name)[x].string = name
         /\ Named(h, x, name)[x].StringIsConst = (name = "const")
<1> DEFINE h2 == Named(h, x, name)
<1>1. DOMAIN h2 = DOMAIN h
  BY DEF Named
<1>2. h[x] \in JsonItem /\ \A z \in DOMAIN h : h[z] \in JsonItem
  BY DEF Heap
<1>3. h2[x] = [[h[x] EXCEPT !.string = name] EXCEPT !.StringIsConst = (name = "const")]
  BY DEF Named, Heap
<1>4. \A z \in DOMAIN h : z # x => h2[z] = h[z]
  BY DEF Named, Heap
<1>5. /\ h2[x] \in JsonItem /\ h2[x].next = h[x].next /\ h2[x].prev = h[x].prev
      /\ h2[x].child = h[x].child /\ h2[x].IsReference = h[x].IsReference
      /\ h2[x].type = h[x].type /\ h2[x].valuestring = h[x].valuestring
      /\ h2[x].string = name /\ h2[x].StringIsConst = (name = "const")
  BY <1>2, <1>3 DEF JsonItem
<1>6. h2 \in [DOMAIN h -> JsonItem]
  <2>1. \A z \in DOMAIN h : h2[z] \in JsonItem
    BY <1>2, <1>4, <1>5
  <2>2. h2 = [z \in DOMAIN h |-> h2[z]]
    BY DEF Named
  <2>3. QED
    BY <2>1, <2>2
<1> HIDE DEF h2
<1>7. QED
  BY <1>1, <1>4, <1>5, <1>6 DEF Heap, SameLinks, h2

-----------------------------------------------------------------------------
(* What the functions on items do to the forest of all items. *)
LEMMA LinksAt ==
  ASSUME NEW h
  PROVE  /\ DOMAIN Links(h) = DOMAIN h
         /\ \A x \in DOMAIN h : \A y :
              y \in Links(h)[x] <=> /\ y # NULL
                                    /\ y = h[x].next \/ (~h[x].IsReference /\ y = h[x].child)
BY DEF Links

LEMMA LinksOf ==
  ASSUME NEW h, NEW x \in DOMAIN h
  PROVE  Links(h)[x] = ({h[x].next} \cup (IF h[x].IsReference THEN {} ELSE {h[x].child})) \ {NULL}
BY DEF Links

LEMMA SameLinksOf ==
  ASSUME NEW h, NEW h2, NEW x \in DOMAIN h, x \in DOMAIN h2, h2[x].next = h[x].next,
         h2[x].child = h[x].child, h2[x].IsReference = h[x].IsReference
  PROVE  Links(h2)[x] = Links(h)[x]
<1>1. /\ Links(h)[x] = ({h[x].next} \cup (IF h[x].IsReference THEN {} ELSE {h[x].child})) \ {NULL}
      /\ Links(h2)[x] = ({h2[x].next} \cup (IF h2[x].IsReference THEN {} ELSE {h2[x].child})) \ {NULL}
  BY LinksOf
<1>2. QED
  BY <1>1, Zenon

LEMMA BelowOne ==
  ASSUME NEW h, NEW x, x # NULL
  PROVE  Below(h, {x}) = Reach(Links(h), {x})
<1>1. {x} \ {NULL} = {x}
  OBVIOUS
<1>2. QED
  BY <1>1 DEF Below

LEMMA RootAlone ==
  ASSUME NEW h, NEW R, Neat(h, R), NEW x \in R
  PROVE  /\ x \in DOMAIN h /\ x \in Items /\ x # NULL
         /\ h[x].prev = NULL
         /\ \A z \in DOMAIN h : h[z].next # x /\ (~h[z].IsReference => h[z].child # x)
<1>1. x \in DOMAIN h /\ x \in Items /\ x # NULL
  BY LinksAt, JsonAssumption DEF Neat, Forest, Heap
<1>2. \A z \in DOMAIN h : x \notin Links(h)[z]
  BY LinksAt DEF Neat, Forest
<1>3. \A z \in DOMAIN h : h[z].next # x /\ (~h[z].IsReference => h[z].child # x)
  BY <1>1, <1>2, LinksAt
<1>4. h[x].prev = NULL
  BY <1>1, <1>3 DEF Neat, Neighbours
<1>5. QED
  BY <1>1, <1>3, <1>4

LEMMA NeatSameLinks ==
  ASSUME NEW h, NEW R, Neat(h, R), NEW h2, Heap(h2), SameLinks(h, h2)
  PROVE  Neat(h2, R) /\ Links(h2) = Links(h)
<1>1. Links(h2) = Links(h)
  <2>1. \A x \in DOMAIN h :
          ({h2[x].next} \cup (IF h2[x].IsReference THEN {} ELSE {h2[x].child})) \ {NULL}
          = ({h[x].next} \cup (IF h[x].IsReference THEN {} ELSE {h[x].child})) \ {NULL}
    BY Zenon DEF SameLinks
  <2>2. QED
    BY <2>1 DEF Links, SameLinks
<1>2. Neighbours(h2)
  <2>1. DOMAIN h2 = DOMAIN h
    BY DEF SameLinks
  <2>2. SUFFICES ASSUME NEW x \in DOMAIN h
                 PROVE  /\ {h2[x].next, h2[x].prev, h2[x].child} \subseteq DOMAIN h \cup {NULL}
                        /\ h2[x].next # NULL => h2[h2[x].next].prev = x
                        /\ h2[x].prev # NULL => h2[h2[x].prev].next = x
                        /\ h2[x].next # NULL /\ ~h2[x].IsReference => h2[x].next # h2[x].child
    BY <2>1 DEF Neighbours
  <2>3. QED
    BY <2>2 DEF Neat, Neighbours, SameLinks
<1>3. QED
  BY <1>1, <1>2 DEF Neat

LEMMA NeatWith ==
  ASSUME NEW h, NEW R, Neat(h, R), NEW n \in Items \ DOMAIN h, NEW f \in JsonItem,
         f.next = NULL, f.prev = NULL, f.child \in DOMAIN h \cup {NULL},
         f.IsReference \/ f.child = NULL
  PROVE  Neat(With(h, n, f), R \cup {n})
<1> DEFINE h2 == With(h, n, f)
<1>1. /\ Heap(h2) /\ DOMAIN h2 = DOMAIN h \cup {n} /\ h2[n] = f
      /\ \A z \in DOMAIN h : h2[z] = h[z]
  <2>1. Heap(h)
    BY DEF Neat
  <2>2. QED
    BY <2>1, WithFields
<1> HIDE DEF h2
<1>2. Neighbours(h2)
  <2>1. ASSUME NEW x \in DOMAIN h
        PROVE  /\ {h2[x].next, h2[x].prev, h2[x].child} \subseteq DOMAIN h2 \cup {NULL}
               /\ h2[x].next # NULL => h2[h2[x].next].prev = x
               /\ h2[x].prev # NULL => h2[h2[x].prev].next = x
               /\ h2[x].next # NULL /\ ~h2[x].IsReference => h2[x].next # h2[x].child
    BY <1>1 DEF Neat, Neighbours
  <2>2. QED
    BY <1>1, <2>1 DEF Neighbours
<1>3. Links(h2)[n] = {}
  BY <1>1, LinksOf
<1>4. ASSUME NEW x \in DOMAIN h PROVE Links(h2)[x] = Links(h)[x]
  <2>1. h2[x] = h[x] /\ x \in DOMAIN h2
    BY <1>1
  <2>2. h2[x].next = h[x].next /\ h2[x].child = h[x].child /\ h2[x].IsReference = h[x].IsReference
    BY <2>1
  <2>3. QED
    BY <2>1, <2>2, SameLinksOf
<1>5. Forest(Links(h2), R \cup {n})
  <2>1. n \notin DOMAIN Links(h) /\ DOMAIN Links(h2) = DOMAIN Links(h) \cup {n}
    BY <1>1, LinksAt
  <2>2. Forest(Links(h), R) /\ \A x \in DOMAIN Links(h) : Links(h2)[x] = Links(h)[x]
    BY <1>4, LinksAt DEF Neat
  <2>3. QED
    BY <1>3, <2>1, <2>2, ForestWithRoot
<1>6. QED
  BY <1>1, <1>2, <1>5 DEF Neat, h2

LEMMA NeatLinked ==
  ASSUME NEW h, NEW R, Neat(h, R), NEW x \in R, NEW y \in DOMAIN h, h[y].next = NULL,
         y \notin Below(h, {x})
  PROVE  /\ Neat(Linked(h, y, x), R \ {x})
         /\ \A z \in DOMAIN h : Links(h)[z] \subseteq Links(Linked(h, y, x))[z]
         /\ x \in Links(Linked(h, y, x))[y]
<1> DEFINE h2 == Linked(h, y, x)
<1>1. /\ x \in DOMAIN h /\ x \in Items /\ x # NULL /\ h[x].prev = NULL
      /\ \A z \in DOMAIN h : h[z].next # x /\ (~h[z].IsReference => h[z].child # x)
  BY RootAlone
<1>2. y \notin Reach(Links(h), {x})
  BY <1>1, BelowOne
<1>3. x # y
  BY <1>1, <1>2, LinksAt, ReachHolds, ForestSteps DEF Neat
<1>4. /\ Heap(h2) /\ OnlyLinks(h, h2)
      /\ \A z \in DOMAIN h : /\ h2[z].next = IF z = y THEN x ELSE h[z].next
                             /\ h2[z].prev = IF z = x THEN y ELSE h[z].prev
                             /\ h2[z].child = h[z].child
                             /\ h2[z].IsReference = h[z].IsReference
  BY <1>1, <1>3, LinkedFields DEF Neat, OnlyLinks
<1>5. DOMAIN h2 = DOMAIN h
  BY <1>4 DEF OnlyLinks
<1> HIDE DEF h2
<1>6. Neighbours(h2)
  <2>1. SUFFICES ASSUME NEW z \in DOMAIN h
                 PROVE  /\ {h2[z].next, h2[z].prev, h2[z].child} \subseteq DOMAIN h \cup {NULL}
                        /\ h2[z].next # NULL => h2[h2[z].next].prev = z
                        /\ h2[z].prev # NULL => h2[h2[z].prev].next = z
                        /\ h2[z].next # NULL /\ ~h2[z].IsReference => h2[z].next # h2[z].child
    BY <1>5 DEF Neighbours
  <2>2. y # NULL /\ z # NULL
    BY JsonAssumption DEF Neat, Heap
  <2>3. /\ {h[z].next, h[z].prev, h[z].child} \subseteq DOMAIN h \cup {NULL}
        /\ h[z].next # NULL => h[h[z].next].prev = z
        /\ h[z].prev # NULL => h[h[z].prev].next = z
        /\ h[z].next # NULL /\ ~h[z].IsReference => h[z].next # h[z].child
    BY DEF Neat, Neighbours
  <2>4. CASE z = y
    BY <1>1, <1>3, <1>4, <2>2, <2>3, <2>4
  <2>5. CASE z = x
    BY <1>1, <1>3, <1>4, <2>2, <2>3, <2>5
  <2>6. CASE z \notin {x, y}
    <3>1. h2[z].next = h[z].next /\ h2[z].prev = h[z].prev /\ h2[z].child = h[z].child
      BY <1>4, <2>6
    <3>2. h[z].prev # y
      BY <2>2, <2>3, <2>6
    <3>3. QED
      BY <1>1, <1>4, <2>3, <3>1, <3>2
  <2>7. QED
    BY <2>4, <2>5, <2>6
<1>7. Links(h2)[y] = Links(h)[y] \cup {x}
  BY <1>1, <1>4, <1>5, LinksOf
<1>8. ASSUME NEW z \in DOMAIN h, z # y PROVE Links(h2)[z] = Links(h)[z]
  <2>1. /\ h2[z].next = h[z].next /\ h2[z].child = h[z].child
        /\ h2[z].IsReference = h[z].IsReference
    BY <1>4, <1>8
  <2>2. QED
    BY <1>5, <2>1, SameLinksOf
<1>9. Forest(Links(h2), R \ {x})
  <2> DEFINE to == Links(h)
  <2> DEFINE to2 == Links(h2)
  <2>1. /\ Forest(to, R) /\ y \in DOMAIN to /\ DOMAIN to2 = DOMAIN to
        /\ to2[y] = (to[y] \ {}) \cup {x} /\ to2[x] = to[x] \cup {} /\ {} \in SUBSET to[y]
        /\ \A z \in DOMAIN to \ {y, x} : to2[z] = to[z]
    BY <1>1, <1>3, <1>5, <1>7, <1>8, LinksAt DEF Neat
  <2> HIDE DEF to, to2
  <2>2. QED
    BY <1>2, <2>1, ForestWithLink DEF to, to2
<1>10. QED
  BY <1>4, <1>6, <1>7, <1>8, <1>9 DEF Neat, h2

LEMMA NeatChild ==
  ASSUME NEW h, NEW R, Neat(h, R), NEW x \in R, NEW a \in DOMAIN h, h[a].child = NULL,
         ~h[a].IsReference, a \notin Below(h, {x})
  PROVE  /\ Neat([h EXCEPT ![a].child = x], R \ {x})
         /\ \A z \in DOMAIN h : Links(h)[z] \subseteq Links([h EXCEPT ![a].child = x])[z]
<1> DEFINE h2 == [h EXCEPT ![a].child = x]
<1>1. /\ x \in DOMAIN h /\ x \in Items /\ x # NULL /\ h[x].prev = NULL
      /\ \A z \in DOMAIN h : h[z].next # x /\ (~h[z].IsReference => h[z].child # x)
  BY RootAlone
<1>2. a \notin Reach(Links(h), {x})
  BY <1>1, BelowOne
<1>3. x # a
  BY <1>1, <1>2, LinksAt, ReachHolds, ForestSteps DEF Neat
<1>4. /\ Heap(h2) /\ OnlyLinks(h, h2)
      /\ \A z \in DOMAIN h : /\ h2[z].next = h[z].next
                             /\ h2[z].prev = h[z].prev
                             /\ h2[z].child = IF z = a THEN x ELSE h[z].child
                             /\ h2[z].IsReference = h[z].IsReference
  BY <1>1, ChildFields DEF Neat, OnlyLinks
<1>5. DOMAIN h2 = DOMAIN h
  BY <1>4 DEF OnlyLinks
<1> HIDE DEF h2
<1>6. Neighbours(h2)
  <2>1. SUFFICES ASSUME NEW z \in DOMAIN h
                 PROVE  /\ {h2[z].next, h2[z].prev, h2[z].child} \subseteq DOMAIN h \cup {NULL}
                        /\ h2[z].next # NULL => h2[h2[z].next].prev = z
                        /\ h2[z].prev # NULL => h2[h2[z].prev].next = z
                        /\ h2[z].next # NULL /\ ~h2[z].IsReference => h2[z].next # h2[z].child
    BY <1>5 DEF Neighbours
  <2>2. QED
    BY <1>1, <1>4 DEF Neat, Neighbours
<1>7. Links(h2)[a] = Links(h)[a] \cup {x}
  BY <1>1, <1>4, <1>5, LinksOf
<1>8. ASSUME NEW z \in DOMAIN h, z # a PROVE Links(h2)[z] = Links(h)[z]
  <2>1. /\ h2[z].next = h[z].next /\ h2[z].child = h[z].child
        /\ h2[z].IsReference = h[z].IsReference
    BY <1>4, <1>8
  <2>2. QED
    BY <1>5, <2>1, SameLinksOf
<1>9. Forest(Links(h2), R \ {x})
  <2> DEFINE to == Links(h)
  <2> DEFINE to2 == Links(h2)
  <2>1. /\ Forest(to, R) /\ a \in DOMAIN to /\ DOMAIN to2 = DOMAIN to
        /\ to2[a] = (to[a] \ {}) \cup {x} /\ to2[x] = to[x] \cup {} /\ {} \in SUBSET to[a]
        /\ \A z \in DOMAIN to \ {a, x} : to2[z] = to[z]
    BY <1>1, <1>3, <1>5, <1>7, <1>8, LinksAt DEF Neat
  <2> HIDE DEF to, to2
  <2>2. QED
    BY <1>2, <2>1, ForestWithLink DEF to, to2
<1>10. QED
  BY <1>4, <1>6, <1>7, <1>8, <1>9 DEF Neat, h2

(* What leads to a child x of a: the item before it, or a itself. *)
Before(h, a, x) == IF h[x].prev = NULL THEN a ELSE h[x].prev

ChildOf(h, a, x) ==
  /\ a \in DOMAIN h /\ x \in DOMAIN h /\ ~h[a].IsReference
  /\ h[x].prev = NULL => h[a].child = x

LEMMA BeforeLeads ==
  ASSUME NEW h, NEW R, Neat(h, R), NEW a, NEW x, ChildOf(h, a, x)
  PROVE  /\ Before(h, a, x) \in DOMAIN h /\ x \in Links(h)[Before(h, a, x)]
         /\ x # NULL /\ a # NULL /\ Before(h, a, x) # x /\ x \notin R
         /\ \A z \in DOMAIN h : z # Before(h, a, x) =>
              h[z].next # x /\ (~h[z].IsReference => h[z].child # x)
         /\ h[x].prev # NULL => /\ h[h[x].prev].next = x
                                /\ h[a].child # x
                                /\ ~h[h[x].prev].IsReference => h[h[x].prev].child # x
         /\ h[x].prev = NULL => h[a].next # x /\ h[a].child = x
         /\ h[x].next # NULL => /\ h[x].next \in DOMAIN h
                                /\ h[x].next # x /\ h[x].next # Before(h, a, x)
                                /\ h[h[x].next].prev = x
                                /\ \A z \in DOMAIN h : z # x =>
                                     h[z].next # h[x].next
                                     /\ (~h[z].IsReference => h[z].child # h[x].next)
                                /\ ~h[x].IsReference => h[x].child # h[x].next
<1> DEFINE p == Before(h, a, x)
<1>1. x # NULL /\ a # NULL /\ a \in DOMAIN h /\ x \in DOMAIN h /\ ~h[a].IsReference
  BY JsonAssumption DEF ChildOf, Neat, Heap
<1>2. p \in DOMAIN h /\ x \in Links(h)[p]
  <2>1. CASE h[x].prev = NULL
    BY <1>1, <2>1, LinksAt DEF ChildOf, Before
  <2>2. CASE h[x].prev # NULL
    <3>1. h[x].prev \in DOMAIN h /\ h[h[x].prev].next = x
      BY <1>1, <2>2 DEF Neat, Neighbours
    <3>2. QED
      BY <1>1, <2>2, <3>1, LinksAt DEF Before
  <2>3. QED
    BY <2>1, <2>2
<1>3. p # x /\ x \notin R
  <2>1. Forest(Links(h), R) /\ p \in DOMAIN Links(h) /\ {x} \subseteq DOMAIN Links(h)
    BY <1>1, <1>2, LinksAt DEF Neat
  <2>2. p \notin Reach(Links(h), {x}) /\ x \in Reach(Links(h), {x})
    BY <1>2, <2>1, NoCycle, ReachHolds, ForestSteps
  <2>3. x \notin R
    BY <1>2, <2>1 DEF Forest
  <2>4. QED
    BY <2>2, <2>3
<1>4. \A y, z \in DOMAIN h : \A u : u \in Links(h)[y] /\ u \in Links(h)[z] => y = z
  BY LinksAt DEF Neat, Forest
<1>5. ASSUME NEW z \in DOMAIN h, z # p PROVE h[z].next # x /\ (~h[z].IsReference => h[z].child # x)
  <2>1. x \notin Links(h)[z]
    BY <1>2, <1>4, <1>5
  <2>2. QED
    BY <1>1, <2>1, LinksAt
<1>6. ASSUME h[x].prev # NULL
      PROVE  /\ h[h[x].prev].next = x /\ h[a].child # x
             /\ ~h[h[x].prev].IsReference => h[h[x].prev].child # x
  <2>1. p = h[x].prev /\ h[x].prev \in DOMAIN h /\ h[h[x].prev].next = x
    BY <1>1, <1>6 DEF Before, Neat, Neighbours
  <2>2. ~h[p].IsReference => h[p].child # x
    BY <1>1, <2>1 DEF Neat, Neighbours
  <2>3. h[a].child # x
    <3>1. CASE a = p
      BY <1>1, <2>2, <3>1
    <3>2. CASE a # p
      BY <1>1, <1>5, <3>2
    <3>3. QED
      BY <3>1, <3>2
  <2>4. QED
    BY <2>1, <2>2, <2>3
<1>7. ASSUME h[x].prev = NULL PROVE h[a].next # x /\ h[a].child = x
  BY <1>1, <1>7 DEF ChildOf, Neat, Neighbours
<1>8. ASSUME h[x].next # NULL
      PROVE  /\ h[x].next \in DOMAIN h /\ h[x].next # x /\ h[x].next # p
             /\ h[h[x].next].prev = x
             /\ \A z \in DOMAIN h : z # x =>
                  h[z].next # h[x].next /\ (~h[z].IsReference => h[z].child # h[x].next)
             /\ ~h[x].IsReference => h[x].child # h[x].next
  <2> DEFINE n == h[x].next
  <2>1. n \in DOMAIN h /\ h[n].prev = x /\ (~h[x].IsReference => h[x].child # n)
    BY <1>1, <1>8 DEF Neat, Neighbours
  <2>2. n \in Links(h)[x]
    BY <1>1, <1>8, LinksAt
  <2>3. Forest(Links(h), R) /\ DOMAIN Links(h) = DOMAIN h
    BY LinksAt DEF Neat
  <2>4. n # x
    <3>1. x \notin Reach(Links(h), {n}) /\ n \in Reach(Links(h), {n})
      <4>1. {n} \subseteq DOMAIN Links(h)
        BY <2>1, <2>3
      <4>2. x \notin Reach(Links(h), {n})
        BY <1>1, <2>2, <2>3, NoCycle
      <4>3. n \in Reach(Links(h), {n})
        BY <2>3, <4>1, ReachHolds, ForestSteps
      <4>4. QED
        BY <4>2, <4>3
    <3>2. QED
      BY <3>1
  <2>5. n # p
    <3>1. p \notin Reach(Links(h), {x})
      BY <1>2, <2>3, NoCycle
    <3>2. {x} \subseteq DOMAIN Links(h)
      BY <1>1, <2>3
    <3>3. x \in Reach(Links(h), {x}) /\ Closed(Links(h), Reach(Links(h), {x}))
      BY <2>3, <3>2, ReachHolds, ForestSteps
    <3>4. n \in Reach(Links(h), {x})
      BY <2>2, <3>3 DEF Closed
    <3>5. QED
      BY <3>1, <3>4
  <2>6. ASSUME NEW z \in DOMAIN h, z # x
        PROVE  h[z].next # n /\ (~h[z].IsReference => h[z].child # n)
    <3>1. n \notin Links(h)[z]
      BY <1>1, <1>4, <2>2, <2>6
    <3>2. QED
      BY <1>8, <3>1, LinksAt
  <2>7. QED
    BY <2>1, <2>4, <2>5, <2>6
<1>9. QED
  BY <1>1, <1>2, <1>3, <1>5, <1>6, <1>7, <1>8

LEMMA NeatDetach ==
  ASSUME NEW h, NEW R, Neat(h, R), NEW a, NEW x, ChildOf(h, a, x)
  PROVE  Neat(cJSON_DetachItemViaPointer(h, a, x), R \cup {x})
<1> DEFINE h2 == cJSON_DetachItemViaPointer(h, a, x)
<1> DEFINE p == Before(h, a, x)
<1> DEFINE n == h[x].next
<1> DEFINE b == h[x].prev
<1>1. /\ p \in DOMAIN h /\ x \in Links(h)[p] /\ x # NULL /\ a # NULL /\ p # x
      /\ \A z \in DOMAIN h : z # p => h[z].next # x /\ (~h[z].IsReference => h[z].child # x)
      /\ b # NULL => h[b].next = x /\ h[a].child # x /\ (~h[b].IsReference => h[b].child # x)
      /\ b = NULL => h[a].next # x /\ h[a].child = x
      /\ n # NULL => /\ n \in DOMAIN h /\ n # x /\ n # p /\ h[n].prev = x
                     /\ \A z \in DOMAIN h : z # x =>
                          h[z].next # n /\ (~h[z].IsReference => h[z].child # n)
                     /\ ~h[x].IsReference => h[x].child # n
  BY BeforeLeads
<1>2. a \in DOMAIN h /\ x \in DOMAIN h /\ ~h[a].IsReference /\ Heap(h)
  BY DEF ChildOf, Neat
<1>3. p = IF b = NULL THEN a ELSE b
  BY DEF Before
<1>4. /\ Heap(h2) /\ OnlyLinks(h, h2)
      /\ \A z \in DOMAIN h :
              /\ h2[z].next = IF z = x THEN NULL ELSE IF z = b THEN n ELSE h[z].next
              /\ h2[z].prev = IF z = x THEN NULL ELSE IF z = n THEN b ELSE h[z].prev
              /\ h2[z].child = IF z # x /\ z = a /\ h[z].child = x THEN n ELSE h[z].child
  BY <1>2, DetachFields
<1>5. DOMAIN h2 = DOMAIN h /\ \A z \in DOMAIN h : h2[z].IsReference = h[z].IsReference
  BY <1>4 DEF OnlyLinks
<1>6. \A z \in DOMAIN h :
        /\ z # NULL
        /\ {h[z].next, h[z].prev, h[z].child} \subseteq DOMAIN h \cup {NULL}
        /\ h[z].next # NULL => h[h[z].next].prev = z
        /\ h[z].prev # NULL => h[h[z].prev].next = z
        /\ h[z].next # NULL /\ ~h[z].IsReference => h[z].next # h[z].child
  BY JsonAssumption DEF Neat, Neighbours, Heap
<1>7. Links(h2)[p] = (Links(h)[p] \ {x}) \cup ({n} \ {NULL})
  <2>1. /\ Links(h)[p] = ({h[p].next} \cup (IF h[p].IsReference THEN {} ELSE {h[p].child})) \ {NULL}
        /\ Links(h2)[p] = ({h2[p].next} \cup (IF h2[p].IsReference THEN {} ELSE {h2[p].child})) \ {NULL}
    BY <1>1, <1>5, LinksOf
  <2>2. CASE b = NULL
    <3>1. h2[p].next = h[p].next /\ h2[p].child = n /\ h[p].child = x /\ h[p].next # x
          /\ ~h2[p].IsReference /\ ~h[p].IsReference
      BY <1>1, <1>2, <1>3, <1>4, <1>5, <1>6, <2>2
    <3>2. QED
      BY <1>1, <2>1, <3>1
  <2>3. CASE b # NULL
    <3>1. h2[p].next = n /\ h[p].next = x /\ (~h[p].IsReference => h[p].child # x)
          /\ h2[p].child = h[p].child /\ h2[p].IsReference = h[p].IsReference
      BY <1>1, <1>2, <1>3, <1>4, <1>5, <1>6, <2>3
    <3>2. QED
      BY <1>1, <2>1, <3>1
  <2>4. QED
    BY <2>2, <2>3
<1>8. Links(h2)[x] = Links(h)[x] \ ({n} \ {NULL})
  <2>1. /\ Links(h)[x] = ({h[x].next} \cup (IF h[x].IsReference THEN {} ELSE {h[x].child})) \ {NULL}
        /\ Links(h2)[x] = ({h2[x].next} \cup (IF h2[x].IsReference THEN {} ELSE {h2[x].child})) \ {NULL}
    BY <1>2, <1>5, LinksOf
  <2>2. h2[x].next = NULL /\ h2[x].child = h[x].child /\ h2[x].IsReference = h[x].IsReference
    BY <1>2, <1>4, <1>5
  <2>3. n # NULL /\ ~h[x].IsReference => h[x].child # n
    BY <1>1
  <2>4. QED
    BY <2>1, <2>2, <2>3
<1>9. ASSUME NEW z \in DOMAIN h, z # p, z # x PROVE Links(h2)[z] = Links(h)[z]
  <2>1. h2[z].next = h[z].next /\ h2[z].child = h[z].child /\ h2[z].IsReference = h[z].IsReference
    BY <1>1, <1>2, <1>3, <1>4, <1>5, <1>6, <1>9
  <2>2. QED
    BY <1>5, <2>1, SameLinksOf
<1>10. n # NULL => n \in Links(h)[x]
  BY <1>2, LinksAt
<1> HIDE DEF h2
<1>11. Forest(Links(h2), R \cup {x})
  <2> DEFINE to == Links(h)
  <2> DEFINE to2 == Links(h2)
  <2> DEFINE N == {n} \ {NULL}
  <2>1. /\ Forest(to, R) /\ p \in DOMAIN to /\ x \in to[p] /\ N \in SUBSET to[x]
        /\ DOMAIN to2 = DOMAIN to /\ to2[p] = (to[p] \ {x}) \cup N /\ to2[x] = to[x] \ N
        /\ \A z \in DOMAIN to \ {p, x} : to2[z] = to[z]
    BY <1>1, <1>5, <1>7, <1>8, <1>9, <1>10, LinksAt DEF Neat
  <2> HIDE DEF to, to2, N, p
  <2>2. QED
    BY <2>1, ForestWithoutLink DEF to, to2
<1>12. Neighbours(h2)
  <2>1. SUFFICES ASSUME NEW z \in DOMAIN h
                 PROVE  /\ {h2[z].next, h2[z].prev, h2[z].child} \subseteq DOMAIN h \cup {NULL}
                        /\ h2[z].next # NULL => h2[h2[z].next].prev = z
                        /\ h2[z].prev # NULL => h2[h2[z].prev].next = z
                        /\ h2[z].next # NULL /\ ~h2[z].IsReference => h2[z].next # h2[z].child
    BY <1>5 DEF Neighbours
  <2>2. {h2[z].next, h2[z].prev, h2[z].child} \subseteq DOMAIN h \cup {NULL}
    BY <1>1, <1>2, <1>4, <1>6
  <2>3. ASSUME h2[z].next # NULL PROVE h2[h2[z].next].prev = z
    <3>1. CASE z = b
      BY <1>1, <1>2, <1>4, <1>6, <2>3, <3>1
    <3>2. CASE z # b
      BY <1>1, <1>2, <1>4, <1>6, <2>3, <3>2
    <3>3. QED
      BY <3>1, <3>2
  <2>4. ASSUME h2[z].prev # NULL PROVE h2[h2[z].prev].next = z
    <3>1. CASE z = n
      BY <1>1, <1>2, <1>4, <1>6, <2>4, <3>1
    <3>2. CASE z # n
      BY <1>1, <1>2, <1>4, <1>6, <2>4, <3>2
    <3>3. QED
      BY <3>1, <3>2
  <2>5. ASSUME h2[z].next # NULL, ~h2[z].IsReference PROVE h2[z].next # h2[z].child
    <3>1. CASE z = b
      BY <1>1, <1>2, <1>3, <1>4, <1>5, <1>6, <2>5, <3>1
    <3>2. CASE z # b
      BY <1>1, <1>2, <1>3, <1>4, <1>5, <1>6, <2>5, <3>2
    <3>3. QED
      BY <3>1, <3>2
  <2>6. QED
    BY <2>2, <2>3, <2>4, <2>5
<1>13. QED
  BY <1>4, <1>11, <1>12 DEF Neat, h2

LEMMA NeatInsert ==
  ASSUME NEW h, NEW R, Neat(h, R), NEW a, NEW after, ChildOf(h, a, after),
         NEW x \in R, h[x].next = NULL, Before(h, a, after) \notin Below(h, {x})
  PROVE  Neat(cJSON_InsertItemInArray(h, a, after, x), R \ {x})
<1> DEFINE h2 == cJSON_InsertItemInArray(h, a, after, x)
<1> DEFINE p == Before(h, a, after)
<1> DEFINE b == h[after].prev
<1>1. /\ p \in DOMAIN h /\ after \in Links(h)[p] /\ after # NULL /\ a # NULL /\ p # after
      /\ after \notin R
      /\ \A z \in DOMAIN h : z # p =>
           h[z].next # after /\ (~h[z].IsReference => h[z].child # after)
      /\ b # NULL => /\ h[b].next = after /\ h[a].child # after
                     /\ (~h[b].IsReference => h[b].child # after)
      /\ b = NULL => h[a].next # after /\ h[a].child = after
  BY BeforeLeads
<1>2. a \in DOMAIN h /\ after \in DOMAIN h /\ ~h[a].IsReference /\ Heap(h)
  BY DEF ChildOf, Neat
<1>3. p = IF b = NULL THEN a ELSE b
  BY DEF Before
<1>4. /\ x \in DOMAIN h /\ x \in Items /\ x # NULL /\ h[x].prev = NULL
      /\ \A z \in DOMAIN h : h[z].next # x /\ (~h[z].IsReference => h[z].child # x)
  BY RootAlone
<1>5. p \notin Reach(Links(h), {x})
  BY <1>4, BelowOne
<1>6. x # p /\ x # after
  BY <1>1, <1>4, <1>5, LinksAt, ReachHolds, ForestSteps DEF Neat
<1>7. /\ Heap(h2) /\ OnlyLinks(h, h2)
      /\ \A z \in DOMAIN h :
              /\ h2[z].next = IF z = x THEN after ELSE IF z = b THEN x ELSE h[z].next
              /\ h2[z].prev = IF z = x THEN b ELSE IF z = after THEN x ELSE h[z].prev
              /\ h2[z].child = IF z # x /\ z = a /\ h[z].child = after THEN x ELSE h[z].child
  BY <1>2, <1>4, InsertFields
<1>8. DOMAIN h2 = DOMAIN h /\ \A z \in DOMAIN h : h2[z].IsReference = h[z].IsReference
  BY <1>7 DEF OnlyLinks
<1>9. \A z \in DOMAIN h :
        /\ z # NULL
        /\ {h[z].next, h[z].prev, h[z].child} \subseteq DOMAIN h \cup {NULL}
        /\ h[z].next # NULL => h[h[z].next].prev = z
        /\ h[z].prev # NULL => h[h[z].prev].next = z
        /\ h[z].next # NULL /\ ~h[z].IsReference => h[z].next # h[z].child
  BY JsonAssumption DEF Neat, Neighbours, Heap
<1>10. Links(h2)[p] = (Links(h)[p] \ {after}) \cup {x}
  <2>1. /\ Links(h)[p] = ({h[p].next} \cup (IF h[p].IsReference THEN {} ELSE {h[p].child})) \ {NULL}
        /\ Links(h2)[p] = ({h2[p].next} \cup (IF h2[p].IsReference THEN {} ELSE {h2[p].child})) \ {NULL}
    BY <1>1, <1>8, LinksOf
  <2>2. CASE b = NULL
    <3>1. h2[p].next = h[p].next /\ h2[p].child = x /\ h[p].child = after /\ h[p].next # after
          /\ ~h2[p].IsReference /\ ~h[p].IsReference
      BY <1>1, <1>2, <1>3, <1>6, <1>7, <1>8, <1>9, <2>2
    <3>2. QED
      BY <1>1, <1>4, <2>1, <3>1
  <2>3. CASE b # NULL
    <3>1. h2[p].next = x /\ h[p].next = after /\ (~h[p].IsReference => h[p].child # after)
          /\ h2[p].child = h[p].child /\ h2[p].IsReference = h[p].IsReference
      BY <1>1, <1>2, <1>3, <1>6, <1>7, <1>8, <1>9, <2>3
    <3>2. QED
      BY <1>1, <1>4, <2>1, <3>1
  <2>4. QED
    BY <2>2, <2>3
<1>11. Links(h2)[x] = Links(h)[x] \cup {after}
  <2>1. /\ Links(h)[x] = ({h[x].next} \cup (IF h[x].IsReference THEN {} ELSE {h[x].child})) \ {NULL}
        /\ Links(h2)[x] = ({h2[x].next} \cup (IF h2[x].IsReference THEN {} ELSE {h2[x].child})) \ {NULL}
    BY <1>4, <1>8, LinksOf
  <2>2. h2[x].next = after /\ h2[x].child = h[x].child /\ h2[x].IsReference = h[x].IsReference
    BY <1>4, <1>7, <1>8
  <2>3. QED
    BY <1>1, <2>1, <2>2
<1>12. ASSUME NEW z \in DOMAIN h, z # p, z # x PROVE Links(h2)[z] = Links(h)[z]
  <2>1. h2[z].next = h[z].next /\ h2[z].child = h[z].child /\ h2[z].IsReference = h[z].IsReference
    BY <1>1, <1>2, <1>3, <1>7, <1>8, <1>9, <1>12
  <2>2. QED
    BY <1>8, <2>1, SameLinksOf
<1> HIDE DEF h2
<1>13. Forest(Links(h2), R \ {x})
  <2> DEFINE to == Links(h)
  <2> DEFINE to2 == Links(h2)
  <2> DEFINE N == {after}
  <2>1. /\ Forest(to, R) /\ p \in DOMAIN to /\ p \notin Reach(to, {x}) /\ N \in SUBSET to[p]
        /\ DOMAIN to2 = DOMAIN to /\ to2[p] = (to[p] \ N) \cup {x} /\ to2[x] = to[x] \cup N
        /\ \A z \in DOMAIN to \ {p, x} : to2[z] = to[z]
    BY <1>1, <1>5, <1>8, <1>10, <1>11, <1>12, LinksAt DEF Neat
  <2> HIDE DEF to, to2, N, p
  <2>2. QED
    BY <2>1, ForestWithLink DEF to, to2
<1>14. Neighbours(h2)
  <2>1. SUFFICES ASSUME NEW z \in DOMAIN h
                 PROVE  /\ {h2[z].next, h2[z].prev, h2[z].child} \subseteq DOMAIN h \cup {NULL}
                        /\ h2[z].next # NULL => h2[h2[z].next].prev = z
                        /\ h2[z].prev # NULL => h2[h2[z].prev].next = z
                        /\ h2[z].next # NULL /\ ~h2[z].IsReference => h2[z].next # h2[z].child
    BY <1>8 DEF Neighbours
  <2>2. {h2[z].next, h2[z].prev, h2[z].child} \subseteq DOMAIN h \cup {NULL}
    BY <1>1, <1>2, <1>4, <1>7, <1>9
  <2>3. ASSUME h2[z].next # NULL PROVE h2[h2[z].next].prev = z
    <3>1. CASE z = b
      BY <1>1, <1>2, <1>4, <1>6, <1>7, <1>9, <2>3, <3>1
    <3>2. CASE z = x
      BY <1>1, <1>2, <1>4, <1>6, <1>7, <1>9, <2>3, <3>2
    <3>3. CASE z # b /\ z # x
      BY <1>1, <1>2, <1>4, <1>6, <1>7, <1>9, <2>3, <3>3
    <3>4. QED
      BY <3>1, <3>2, <3>3
  <2>4. ASSUME h2[z].prev # NULL PROVE h2[h2[z].prev].next = z
    <3>1. CASE z = after
      BY <1>1, <1>2, <1>4, <1>6, <1>7, <1>9, <2>4, <3>1
    <3>2. CASE z = x
      BY <1>1, <1>2, <1>3, <1>4, <1>6, <1>7, <1>9, <2>4, <3>2
    <3>3. CASE z # after /\ z # x
      BY <1>1, <1>2, <1>4, <1>6, <1>7, <1>9, <2>4, <3>3
    <3>4. QED
      BY <3>1, <3>2, <3>3
  <2>5. ASSUME h2[z].next # NULL, ~h2[z].IsReference PROVE h2[z].next # h2[z].child
    <3>1. CASE z = x
      <4>1. h[x].child # after \/ h[x].IsReference
        BY <1>1, <1>4, <1>6
      <4>2. QED
        BY <1>4, <1>7, <1>8, <2>5, <3>1, <4>1
    <3>2. CASE z = b /\ z # x
      BY <1>1, <1>2, <1>3, <1>4, <1>7, <1>8, <1>9, <2>5, <3>2
    <3>3. CASE z # b /\ z # x
      BY <1>1, <1>2, <1>3, <1>4, <1>7, <1>8, <1>9, <2>5, <3>3
    <3>4. QED
      BY <3>1, <3>2, <3>3
  <2>6. QED
    BY <2>2, <2>3, <2>4, <2>5
<1>15. QED
  BY <1>7, <1>13, <1>14 DEF Neat, h2

(* Every block below a root can go when no reference elsewhere shows it. *)
LEMMA NeatWithout ==
  ASSUME NEW h, NEW R, Neat(h, R), NEW x \in R,
         \A z \in DOMAIN h \ Below(h, {x}) : h[z].IsReference => h[z].child \notin Below(h, {x})
  PROVE  Neat(Restrict(h, DOMAIN h \ Below(h, {x})), R \ {x})
<1> DEFINE B == Below(h, {x})
<1> DEFINE h2 == Restrict(h, DOMAIN h \ B)
<1>1. x # NULL /\ {x} \subseteq DOMAIN Links(h) /\ DOMAIN Links(h) = DOMAIN h /\ Forest(Links(h), R)
  BY RootAlone, LinksAt DEF Neat
<1>2. B = Reach(Links(h), {x})
  BY <1>1, BelowOne
<1>3. Closed(Links(h), B) /\ B \subseteq DOMAIN h
  <2>1. \A z \in DOMAIN Links(h) : Links(h)[z] \subseteq DOMAIN Links(h)
    BY <1>1, ForestSteps
  <2> HIDE DEF B
  <2>2. QED
    BY <1>1, <1>2, <2>1, ReachHolds
<1>4. \A z \in DOMAIN h \ B : Links(h)[z] \cap B = {}
  BY <1>1, <1>2, DroppedApart
<1>5. Heap(h2) /\ DOMAIN h2 = DOMAIN h \ B /\ \A z \in DOMAIN h2 : h2[z] = h[z]
  BY RestrictFields DEF Neat
<1> HIDE DEF h2
<1>6. \A z \in DOMAIN h2 : Links(h2)[z] = Links(h)[z]
  BY <1>5, SameLinksOf
<1>7. Forest(Links(h2), R \ {x})
  <2> DEFINE to == Links(h)
  <2> DEFINE to2 == Links(h2)
  <2>1. /\ Forest(to, R) /\ DOMAIN to2 = DOMAIN to \ Reach(to, {x})
        /\ \A y \in DOMAIN to2 : to2[y] = to[y]
    BY <1>1, <1>2, <1>5, <1>6, LinksAt
  <2> HIDE DEF to, to2
  <2>2. QED
    BY <2>1, ForestWithoutRoot DEF to2
<1>8. Neighbours(h2)
  <2>1. SUFFICES ASSUME NEW z \in DOMAIN h2
                 PROVE  /\ {h2[z].next, h2[z].prev, h2[z].child} \subseteq DOMAIN h2 \cup {NULL}
                        /\ h2[z].next # NULL => h2[h2[z].next].prev = z
                        /\ h2[z].prev # NULL => h2[h2[z].prev].next = z
                        /\ h2[z].next # NULL /\ ~h2[z].IsReference => h2[z].next # h2[z].child
    BY DEF Neighbours
  <2>2. z \in DOMAIN h /\ z \notin B /\ z # NULL
    BY <1>5, JsonAssumption DEF Heap
  <2>3. /\ {h[z].next, h[z].prev, h[z].child} \subseteq DOMAIN h \cup {NULL}
        /\ h[z].next # NULL => h[h[z].next].prev = z
        /\ h[z].prev # NULL => h[h[z].prev].next = z
        /\ h[z].next # NULL /\ ~h[z].IsReference => h[z].next # h[z].child
    BY <2>2 DEF Neat, Neighbours
  <2>4. h[z].next # NULL => h[z].next \notin B
    BY <1>4, <2>2, LinksAt
  <2>5. h[z].child # NULL => h[z].child \notin B
    BY <1>4, <2>2, LinksAt
  <2>6. h[z].prev # NULL => h[z].prev \notin B
    <3>1. SUFFICES ASSUME h[z].prev # NULL, h[z].prev \in B PROVE FALSE
      OBVIOUS
    <3>2. z \in Links(h)[h[z].prev]
      BY <2>2, <2>3, <3>1, LinksAt
    <3>3. QED
      BY <1>3, <2>2, <3>1, <3>2 DEF Closed
  <2>7. QED
    BY <1>5, <2>3, <2>4, <2>5, <2>6
<1>9. QED
  BY <1>5, <1>7, <1>8 DEF Neat, h2

-----------------------------------------------------------------------------
(* The children of an item *)
LEMMA ChildrenAreChildren ==
  ASSUME NEW h, NEW R, Neat(h, R), NEW a \in DOMAIN h, ~h[a].IsReference
  PROVE  /\ \A x \in Children(h, a) : ChildOf(h, a, x)
         /\ h[a].child # NULL => h[a].child \in Children(h, a)
         /\ \A x \in Children(h, a) : h[x].next # NULL => h[x].next \in Children(h, a)
         /\ Children(h, a) \subseteq DOMAIN h
<1> DEFINE to == [x \in DOMAIN h |-> {h[x].next} \ {NULL}]
<1> DEFINE S == {h[a].child} \ {NULL}
<1> DEFINE T == {x \in DOMAIN h : ChildOf(h, a, x)}
<1>1. \A x \in DOMAIN h : /\ {h[x].next, h[x].prev, h[x].child} \subseteq DOMAIN h \cup {NULL}
                          /\ h[x].next # NULL => h[h[x].next].prev = x
                          /\ x # NULL
  BY JsonAssumption DEF Neat, Neighbours, Heap
<1>2. DOMAIN to = DOMAIN h /\ S \subseteq DOMAIN h /\ \A x \in DOMAIN h : to[x] \subseteq DOMAIN h
  BY <1>1
<1>3. Children(h, a) = Reach(to, S)
  BY DEF Children
<1>4. S \subseteq T
  BY <1>2 DEF ChildOf
<1>5. Closed(to, T)
  <2>1. SUFFICES ASSUME NEW y \in T, NEW z \in to[y] PROVE z \in T
    BY DEF Closed
  <2>2. z \in DOMAIN h /\ h[z].prev = y /\ y # NULL
    BY <1>1, <2>1
  <2>3. QED
    BY <2>2 DEF ChildOf
<1>6. T \in SUBSET DOMAIN to
  OBVIOUS
<1> HIDE DEF T
<1>7. Reach(to, S) \subseteq T
  BY <1>4, <1>5, <1>6, ReachIsLeast
<1>8. S \subseteq Reach(to, S) /\ Closed(to, Reach(to, S)) /\ Reach(to, S) \subseteq DOMAIN h
  <2> HIDE DEF to, S
  <2>1. QED
    BY <1>2, ReachHolds
<1>9. \A x \in Children(h, a) : h[x].next # NULL => h[x].next \in Children(h, a)
  <2>1. SUFFICES ASSUME NEW x \in Children(h, a), h[x].next # NULL
                 PROVE  h[x].next \in Children(h, a)
    OBVIOUS
  <2>2. x \in DOMAIN h /\ h[x].next \in to[x]
    BY <1>3, <1>8, <2>1
  <2>3. QED
    BY <1>3, <1>8, <2>1, <2>2 DEF Closed
<1>10. QED
  BY <1>3, <1>7, <1>8, <1>9 DEF T

LEMMA LastChildEnds ==
  ASSUME NEW h, NEW R, Neat(h, R), NEW a \in DOMAIN h, ~h[a].IsReference, h[a].child # NULL
  PROVE  LastChild(h, a) \in Children(h, a) /\ h[LastChild(h, a)].next = NULL
<1> DEFINE C == Children(h, a)
<1> DEFINE c == h[a].child
<1> SUFFICES ASSUME \A y \in C : h[y].next # NULL PROVE FALSE
  BY DEF LastChild
<1>1. /\ c \in C /\ C \subseteq DOMAIN h
      /\ \A y \in C : h[y].next \in C
  BY ChildrenAreChildren
<1>2. IsFiniteSet(C)
  <2>1. C \in SUBSET Items
    BY <1>1 DEF Neat, Heap
  <2>2. QED
    BY <2>1, JsonAssumption, FS_Subset
<1>3. \A y, z \in DOMAIN h : y # z /\ h[y].next # NULL =>
        h[y].next # h[z].next /\ (~h[z].IsReference => h[y].next # h[z].child)
  <2>1. SUFFICES ASSUME NEW y \in DOMAIN h, NEW z \in DOMAIN h, y # z, h[y].next # NULL
                 PROVE  h[y].next # h[z].next /\ (~h[z].IsReference => h[y].next # h[z].child)
    OBVIOUS
  <2>2. h[y].next \in Links(h)[y]
    BY <2>1, LinksAt
  <2>3. h[y].next \notin Links(h)[z]
    BY <2>1, <2>2, LinksAt DEF Neat, Forest
  <2>4. QED
    BY <2>1, <2>3, LinksAt
<1>4. \A y \in C : h[y].next # c
  <2>1. SUFFICES ASSUME NEW y \in C, h[y].next = c PROVE FALSE
    OBVIOUS
  <2>2. y = a
    BY <1>1, <1>3, <2>1
  <2>3. QED
    BY <2>1, <2>2 DEF Neat, Neighbours
<1> DEFINE f == [y \in C |-> h[y].next]
<1>5. f \in [C -> C \ {c}]
  BY <1>1, <1>4
<1>6. IsFiniteSet(C \ {c}) /\ Cardinality(C \ {c}) = Cardinality(C) - 1 /\ Cardinality(C) \in Nat
  BY <1>1, <1>2, FS_RemoveElement, FS_CardinalityType
<1> HIDE DEF C, c, f
<1>7. PICK y \in C, z \in C : y # z /\ f[y] = f[z]
  <2>1. Cardinality(C \ {c}) < Cardinality(C)
    BY <1>6
  <2>2. QED
    BY <1>2, <1>5, <1>6, <2>1, FS_PigeonHole
<1>8. QED
  BY <1>1, <1>3, <1>7 DEF C, f

(* The children of what is not below a root are not below it. *)
LEMMA ChildrenApart ==
  ASSUME NEW h, NEW R, Neat(h, R), NEW a \in DOMAIN h, ~h[a].IsReference,
         NEW x \in R, a \notin Below(h, {x}), NEW y \in Children(h, a)
  PROVE  y \notin Below(h, {x}) /\ Before(h, a, y) \notin Below(h, {x})
<1> DEFINE B == Below(h, {x})
<1>1. x # NULL /\ {x} \subseteq DOMAIN Links(h) /\ DOMAIN Links(h) = DOMAIN h /\ Forest(Links(h), R)
  BY RootAlone, LinksAt DEF Neat
<1>2. B = Reach(Links(h), {x})
  BY <1>1, BelowOne
<1>3. Closed(Links(h), B) /\ B \subseteq DOMAIN h
  <2> DEFINE to == Links(h)
  <2>1. {x} \subseteq DOMAIN to /\ \A z \in DOMAIN to : to[z] \subseteq DOMAIN to
    BY <1>1, ForestSteps
  <2> HIDE DEF to
  <2>2. Closed(to, Reach(to, {x})) /\ Reach(to, {x}) \subseteq DOMAIN to
    BY <2>1, ReachHolds
  <2>3. QED
    BY <1>1, <1>2, <2>2 DEF to
<1>4. \A z \in DOMAIN h \ B : Links(h)[z] \cap B = {}
  BY <1>1, <1>2, DroppedApart
<1>5. /\ Children(h, a) \subseteq DOMAIN h
      /\ h[a].child # NULL => h[a].child \in Children(h, a)
      /\ \A z \in Children(h, a) : h[z].next # NULL => h[z].next \in Children(h, a)
  BY ChildrenAreChildren
<1> DEFINE to == [z \in DOMAIN h |-> {h[z].next} \ {NULL}]
<1> DEFINE S == {h[a].child} \ {NULL}
<1> DEFINE T == Children(h, a) \ B
<1>6. S \subseteq T
  BY <1>4, <1>5, LinksAt
<1>7. Closed(to, T)
  <2>1. SUFFICES ASSUME NEW z \in T, NEW u \in to[z] PROVE u \in T
    BY DEF Closed
  <2>2. z \in DOMAIN h /\ u # NULL /\ u = h[z].next
    BY <1>5, <2>1
  <2>3. u \in Links(h)[z]
    BY <2>2, LinksAt
  <2>4. QED
    BY <1>4, <1>5, <2>1, <2>2, <2>3
<1>8. T \in SUBSET DOMAIN to
  BY <1>5
<1>9. Children(h, a) \subseteq T
  <2>1. Children(h, a) = Reach(to, S)
    BY DEF Children
  <2> HIDE DEF T, to, S
  <2>2. QED
    BY <1>6, <1>7, <1>8, <2>1, ReachIsLeast
<1>10. y \notin B
  BY <1>9
<1>11. Before(h, a, y) \in DOMAIN h /\ y \in Links(h)[Before(h, a, y)]
  BY ChildrenAreChildren, BeforeLeads
<1>12. QED
  BY <1>3, <1>10, <1>11 DEF Closed

LEMMA NeatAdd ==
  ASSUME NEW h, NEW R, Neat(h, R), NEW a \in DOMAIN h, ~h[a].IsReference,
         NEW x \in R, a \notin Below(h, {x})
  PROVE  /\ Neat(add_item_to_array(h, a, x), R \ {x})
         /\ OnlyLinks(h, add_item_to_array(h, a, x))
         /\ \A z \in R : add_item_to_array(h, a, x)[z].next = h[z].next
<1>1. x \in DOMAIN h /\ Heap(h) /\ R \subseteq DOMAIN h
  BY RootAlone DEF Neat
<1>2. CASE h[a].child = NULL
  <2>1. add_item_to_array(h, a, x) = [h EXCEPT ![a].child = x]
    BY <1>2 DEF add_item_to_array
  <2>2. Neat([h EXCEPT ![a].child = x], R \ {x})
    BY <1>2, NeatChild
  <2>3. /\ OnlyLinks(h, [h EXCEPT ![a].child = x])
        /\ \A z \in DOMAIN h : [h EXCEPT ![a].child = x][z].next = h[z].next
    BY <1>1, ChildFields
  <2>4. QED
    BY <1>1, <2>1, <2>2, <2>3
<1>3. CASE h[a].child # NULL
  <2> DEFINE y == LastChild(h, a)
  <2>1. add_item_to_array(h, a, x) = Linked(h, y, x)
    BY <1>3 DEF add_item_to_array
  <2>2. y \in Children(h, a) /\ h[y].next = NULL
    BY <1>3, LastChildEnds
  <2>3. y \notin Below(h, {x})
    BY <2>2, ChildrenApart
  <2>4. ChildOf(h, a, y) /\ y \in DOMAIN h
    BY <2>2, ChildrenAreChildren
  <2>5. y \notin R
    BY <2>4, BeforeLeads
  <2>6. y # x
    BY <2>5
  <2> HIDE DEF y
  <2>7. Neat(Linked(h, y, x), R \ {x})
    BY <2>2, <2>3, <2>4, NeatLinked
  <2>8. OnlyLinks(h, Linked(h, y, x)) /\ \A z \in R : Linked(h, y, x)[z].next = h[z].next
    BY <1>1, <2>4, <2>5, <2>6, LinkedFields
  <2>9. QED
    BY <2>1, <2>7, <2>8
<1>4. QED
  BY <1>2, <1>3

(* An item with what is below it. *)
TreeOf(h, x) == {x} \cup (IF h[x].IsReference THEN {} ELSE Below(h, {h[x].child}))

LEMMA ReachOfNothing ==
  ASSUME NEW to
  PROVE  Reach(to, {}) = {}
<1>1. Closed(to, {}) /\ {} \in SUBSET DOMAIN to
  BY DEF Closed
<1>2. QED
  BY <1>1, ReachIsLeast

LEMMA ReachIsSame ==
  ASSUME NEW to, NEW to2, NEW S, S \subseteq DOMAIN to, DOMAIN to2 = DOMAIN to,
         \A z \in DOMAIN to : to[z] \subseteq DOMAIN to,
         \A z \in DOMAIN to : to2[z] \subseteq DOMAIN to,
         \A z \in Reach(to, S) : to2[z] = to[z]
  PROVE  Reach(to2, S) = Reach(to, S)
<1>1. S \subseteq Reach(to, S) /\ Closed(to, Reach(to, S)) /\ Reach(to, S) \subseteq DOMAIN to
  BY ReachHolds
<1>2. S \subseteq Reach(to2, S) /\ Closed(to2, Reach(to2, S)) /\ Reach(to2, S) \subseteq DOMAIN to
  BY ReachHolds
<1>3. Reach(to2, S) \subseteq Reach(to, S)
  <2>1. Closed(to2, Reach(to, S))
    BY <1>1 DEF Closed
  <2>2. QED
    BY <1>1, <2>1, ReachIsLeast
<1>4. Reach(to, S) \subseteq Reach(to2, S)
  <2> DEFINE T == Reach(to2, S) \cap Reach(to, S)
  <2>1. S \subseteq T /\ T \in SUBSET DOMAIN to
    BY <1>1, <1>2
  <2>2. Closed(to, T)
    BY <1>1, <1>2 DEF Closed
  <2>3. Reach(to, S) \subseteq T
    BY <2>1, <2>2, ReachIsLeast
  <2>4. QED
    BY <2>3
<1>5. QED
  BY <1>3, <1>4

LEMMA BelowIsTree ==
  ASSUME NEW h, NEW R, Neat(h, R), NEW x \in DOMAIN h, h[x].next = NULL
  PROVE  Below(h, {x}) = TreeOf(h, x)
<1> DEFINE to == Links(h)
<1> DEFINE c == h[x].child
<1>1. x # NULL /\ c \in DOMAIN h \cup {NULL}
  BY JsonAssumption DEF Neat, Neighbours, Heap
<1>2. DOMAIN to = DOMAIN h /\ \A z \in DOMAIN to : to[z] \subseteq DOMAIN to
  BY LinksAt, ForestSteps DEF Neat
<1>3. Below(h, {x}) = Reach(to, {x})
  BY <1>1, BelowOne
<1>4. to[x] = (IF h[x].IsReference THEN {} ELSE {c}) \ {NULL}
  <2>1. to[x] = ({h[x].next} \cup (IF h[x].IsReference THEN {} ELSE {c})) \ {NULL}
    BY LinksOf
  <2>2. QED
    BY <2>1
<1> HIDE DEF to
<1>5. /\ x \in Reach(to, {x}) /\ Closed(to, Reach(to, {x}))
      /\ Reach(to, {x}) \in SUBSET DOMAIN to
  BY <1>2, ReachHolds
<1>6. CASE h[x].IsReference \/ c = NULL
  <2>1. TreeOf(h, x) = {x}
    BY <1>6, ReachOfNothing DEF TreeOf, Below
  <2>2. to[x] = {}
    BY <1>4, <1>6
  <2>3. Closed(to, {x})
    BY <2>2 DEF Closed
  <2>4. Reach(to, {x}) \subseteq {x}
    BY <1>2, <2>3, ReachIsLeast
  <2>5. QED
    BY <1>3, <1>5, <2>1, <2>4
<1>7. CASE ~h[x].IsReference /\ c # NULL
  <2>1. TreeOf(h, x) = {x} \cup Reach(to, {c})
    BY <1>7, BelowOne DEF TreeOf, to
  <2>2. to[x] = {c} /\ {c} \subseteq DOMAIN to
    BY <1>1, <1>2, <1>4, <1>7
  <2>3. c \in Reach(to, {c}) /\ Closed(to, Reach(to, {c})) /\ Reach(to, {c}) \in SUBSET DOMAIN to
    BY <1>2, <2>2, ReachHolds
  <2> DEFINE T == {x} \cup Reach(to, {c})
  <2>4. Closed(to, T) /\ T \in SUBSET DOMAIN to /\ {x} \subseteq T
    BY <1>2, <2>2, <2>3 DEF Closed
  <2>5. Reach(to, {x}) \subseteq T
    BY <2>4, ReachIsLeast
  <2>6. {c} \subseteq Reach(to, {x})
    BY <1>5, <2>2 DEF Closed
  <2>7. Reach(to, {c}) \subseteq Reach(to, {x})
    BY <1>5, <2>6, ReachIsLeast
  <2>8. QED
    BY <1>3, <1>5, <2>1, <2>5, <2>7
<1>8. QED
  BY <1>6, <1>7

LEMMA NeatReplaced ==
  ASSUME NEW h, NEW R, Neat(h, R), NEW a, NEW item, ChildOf(h, a, item),
         NEW x \in R, h[x].next = NULL, Before(h, a, item) \notin Below(h, {x})
  PROVE  /\ Neat(Replaced(h, a, item, x), (R \ {x}) \cup {item})
         /\ OnlyLinks(h, Replaced(h, a, item, x))
         /\ Replaced(h, a, item, x)[item].next = NULL
         /\ TreeOf(Replaced(h, a, item, x), item) = TreeOf(h, item)
         /\ \A z \in DOMAIN h :
              /\ h[z].IsReference => Replaced(h, a, item, x)[z].child = h[z].child
              /\ z # x /\ h[z].next = NULL => Replaced(h, a, item, x)[z].next = NULL
<1> DEFINE h1 == cJSON_InsertItemInArray(h, a, item, x)
<1> DEFINE h2 == cJSON_DetachItemViaPointer(h1, a, item)
<1> DEFINE h3 == Replaced(h, a, item, x)
<1> DEFINE b == h[item].prev
<1> DEFINE n == h[item].next
<1> DEFINE p == Before(h, a, item)
<1>1. /\ a \in DOMAIN h /\ item \in DOMAIN h /\ ~h[a].IsReference /\ Heap(h)
  BY DEF ChildOf, Neat
<1>2. x \in DOMAIN h /\ x # NULL /\ \A z \in DOMAIN h : h[z].next # x /\ (~h[z].IsReference => h[z].child # x)
  BY RootAlone
<1>3. /\ p \in DOMAIN h /\ item \in Links(h)[p] /\ item # NULL /\ item \notin R
      /\ b # NULL => h[b].next = item /\ h[a].child # item
      /\ b = NULL => h[a].child = item
      /\ n # NULL => n # item /\ h[n].prev = item
      /\ p = IF b = NULL THEN a ELSE b
  BY BeforeLeads DEF Before
<1>4. item # x
  BY <1>3
<1>5. /\ Heap(h1) /\ OnlyLinks(h, h1)
      /\ \A z \in DOMAIN h :
              /\ h1[z].next = IF z = x THEN item ELSE IF z = b THEN x ELSE h[z].next
              /\ h1[z].prev = IF z = x THEN b ELSE IF z = item THEN x ELSE h[z].prev
              /\ h1[z].child = IF z # x /\ z = a /\ h[z].child = item THEN x ELSE h[z].child
  BY <1>1, <1>2, InsertFields
<1>6. DOMAIN h1 = DOMAIN h /\ \A z \in DOMAIN h : h1[z].IsReference = h[z].IsReference
  BY <1>5 DEF OnlyLinks
<1>7. Neat(h1, R \ {x})
  BY NeatInsert
<1>8. \A z \in DOMAIN h : z # NULL
  BY JsonAssumption DEF Neat, Heap
<1> HIDE DEF h1
<1>9. /\ Heap(h2) /\ OnlyLinks(h1, h2)
      /\ \A z \in DOMAIN h :
              /\ h2[z].next = IF z = item THEN NULL
                              ELSE IF z = h1[item].prev THEN h1[item].next ELSE h1[z].next
              /\ h2[z].prev = IF z = item THEN NULL
                              ELSE IF z = h1[item].next THEN h1[item].prev ELSE h1[z].prev
              /\ h2[z].child = IF z # item /\ z = a /\ h1[z].child = item THEN h1[item].next
                               ELSE h1[z].child
  BY <1>1, <1>5, <1>6, DetachFields
<1>10. Neat(h2, (R \ {x}) \cup {item})
  <2>1. ChildOf(h1, a, item)
    BY <1>1, <1>2, <1>4, <1>5, <1>6 DEF ChildOf
  <2>2. QED
    BY <1>7, <2>1, NeatDetach
<1> HIDE DEF h2
<1>11. /\ Heap(h3) /\ OnlyLinks(h, h3)
       /\ \A z \in DOMAIN h :
              /\ h3[z].next = IF z = x THEN n ELSE IF z = item THEN NULL
                              ELSE IF z = b THEN x ELSE h[z].next
              /\ h3[z].prev = IF z = x THEN b ELSE IF z = item THEN NULL
                              ELSE IF z = n THEN x ELSE h[z].prev
              /\ h3[z].child = IF z \notin {x, item} /\ z = a /\ h[z].child = item THEN x
                               ELSE h[z].child
  BY <1>1, <1>2, <1>4, ReplacedFields
<1> HIDE DEF h3
<1>12. DOMAIN h3 = DOMAIN h /\ \A z \in DOMAIN h : h3[z].IsReference = h[z].IsReference
  BY <1>11 DEF OnlyLinks
<1>13. SameLinks(h2, h3)
  <2>1. DOMAIN h3 = DOMAIN h2 /\ \A z \in DOMAIN h2 : h3[z].IsReference = h2[z].IsReference
    BY <1>6, <1>9, <1>12 DEF OnlyLinks
  <2>2. h1[item].prev = x /\ h1[item].next = n
    <3>1. b # item
      <4>1. p # item
        BY BeforeLeads
      <4>2. QED
        BY <1>3, <4>1
    <3>2. QED
      BY <1>1, <1>4, <1>5, <3>1
  <2>3. ASSUME NEW z \in DOMAIN h PROVE h3[z].next = h2[z].next
    BY <1>1, <1>2, <1>4, <1>5, <1>9, <1>11, <2>2
  <2>4. ASSUME NEW z \in DOMAIN h PROVE h3[z].prev = h2[z].prev
    <3>1. n # x
      BY <1>1, <1>2
    <3>2. QED
      BY <1>1, <1>2, <1>4, <1>5, <1>9, <1>11, <2>2, <3>1
  <2>5. ASSUME NEW z \in DOMAIN h PROVE h3[z].child = h2[z].child
    <3>1. a = item => h[item].child # item
      <4>1. p # item /\ \A u \in DOMAIN h : u # p => (~h[u].IsReference => h[u].child # item)
        BY BeforeLeads
      <4>2. QED
        BY <1>1, <4>1
    <3>2. h[a].child = item => a # x
      <4>1. x \in Below(h, {x})
        <5>1. {x} \subseteq DOMAIN Links(h)
          BY <1>2, LinksAt
        <5>2. x \in Reach(Links(h), {x})
          BY <5>1, ReachHolds, ForestSteps DEF Neat
        <5>3. QED
          BY <1>2, <5>2, BelowOne
      <4>2. p # x
        BY <4>1
      <4>3. QED
        BY <1>3, <4>2
    <3>3. h1[a].child # item
      BY <1>1, <1>4, <1>5, <3>2
    <3>4. h2[z].child = h1[z].child
      BY <1>1, <1>9, <3>3
    <3>5. QED
      BY <1>1, <1>4, <1>5, <1>11, <3>1, <3>2, <3>4
  <2>6. QED
    BY <1>6, <1>9, <2>1, <2>3, <2>4, <2>5 DEF SameLinks, OnlyLinks
<1>14. Neat(h3, (R \ {x}) \cup {item})
  BY <1>10, <1>11, <1>13, NeatSameLinks
<1>15. TreeOf(h3, item) = TreeOf(h, item)
  <2> DEFINE to == Links(h)
  <2> DEFINE to3 == Links(h3)
  <2> DEFINE c == h[item].child
  <2>1. h3[item].child = c /\ h3[item].IsReference = h[item].IsReference
    BY <1>1, <1>4, <1>11, <1>12
  <2>2. CASE h[item].IsReference \/ c = NULL
    BY <2>1, <2>2, ReachOfNothing DEF TreeOf, Below
  <2>3. CASE ~h[item].IsReference /\ c # NULL
    <3>1. c \in to[item] /\ c \in DOMAIN h /\ {c} \subseteq DOMAIN to
      BY <1>1, <2>3, LinksAt DEF Neat, Neighbours
    <3>2. /\ Forest(to, R) /\ DOMAIN to = DOMAIN h
          /\ DOMAIN to3 = DOMAIN h /\ \A z \in DOMAIN h : to3[z] \subseteq DOMAIN h
          /\ item \in to[p]
      BY <1>3, <1>12, <1>14, LinksAt, ForestSteps DEF Neat
    <3>3. ASSUME NEW z \in DOMAIN h, z \notin {p, x, item} PROVE to3[z] = to[z]
      <4>1. h3[z].next = h[z].next /\ h3[z].child = h[z].child /\ h3[z].IsReference = h[z].IsReference
        BY <1>1, <1>3, <1>8, <1>11, <1>12, <3>3
      <4>2. QED
        BY <1>12, <4>1, SameLinksOf
    <3> HIDE DEF to, to3, p, c
    <3>4. \A z \in DOMAIN to : to[z] \subseteq DOMAIN to
      BY <3>2, ForestSteps
    <3>5. item \notin Reach(to, {c})
      BY <1>1, <3>1, <3>2, NoCycle
    <3>6. p \notin Reach(to, {c})
      <4>1. p \notin Reach(to, {item})
        BY <1>3, <3>2, NoCycle
      <4>2. /\ item \in Reach(to, {item}) /\ Closed(to, Reach(to, {item}))
            /\ Reach(to, {item}) \in SUBSET DOMAIN to
        <5>1. {item} \subseteq DOMAIN to
          BY <1>1, <3>2
        <5>2. QED
          BY <3>4, <5>1, ReachHolds
      <4>3. {c} \subseteq Reach(to, {item})
        BY <3>1, <4>2 DEF Closed
      <4>4. Reach(to, {c}) \subseteq Reach(to, {item})
        BY <4>2, <4>3, ReachIsLeast
      <4>5. QED
        BY <4>1, <4>4
    <3>7. x \notin Reach(to, {c})
      <4>1. SUFFICES ASSUME x \in Reach(to, {c}) PROVE FALSE
        OBVIOUS
      <4>2. x # c
        BY <1>1, <3>1, <3>2 DEF Forest
      <4>3. PICK z \in Reach(to, {c}) : x \in to[z]
        BY <3>1, <3>4, <4>1, <4>2, ReachedByStep
      <4>4. z \in DOMAIN to
        BY <3>1, <3>4, ReachHolds
      <4>5. QED
        BY <3>2, <4>3, <4>4 DEF Forest
    <3>8. \A z \in Reach(to, {c}) : to3[z] = to[z]
      <4>1. Reach(to, {c}) \subseteq DOMAIN to
        BY <3>1, <3>4, ReachHolds
      <4>2. QED
        BY <3>2, <3>3, <3>5, <3>6, <3>7, <4>1
    <3>9. Reach(to3, {c}) = Reach(to, {c})
      BY <3>1, <3>2, <3>4, <3>8, ReachIsSame
    <3>10. c # NULL
      BY <2>3 DEF c
    <3>11. Below(h3, {c}) = Below(h, {c})
      BY <3>9, <3>10, BelowOne DEF to, to3
    <3>12. QED
      BY <2>1, <3>11 DEF TreeOf, c
  <2>4. QED
    BY <2>2, <2>3
<1>16. h3[item].next = NULL
  BY <1>1, <1>4, <1>11
<1>17. ASSUME NEW z \in DOMAIN h
       PROVE  /\ h[z].IsReference => h3[z].child = h[z].child
              /\ z # x /\ h[z].next = NULL => h3[z].next = NULL
  <2>1. z = b => h[z].next # NULL
    BY <1>3, <1>8
  <2>2. QED
    BY <1>1, <1>11, <2>1
<1>18. QED
  BY <1>11, <1>14, <1>15, <1>16, <1>17 DEF h3

-----------------------------------------------------------------------------
(* Names and texts *)
Counted(h, n) == n = Names(h, DOMAIN h) + Texts(h, DOMAIN h)

LEMMA CountsSplit ==
  ASSUME NEW h, NEW D, IsFiniteSet(D), NEW S \in SUBSET D
  PROVE  /\ Names(h, D) = Names(h, D \ S) + Names(h, S)
         /\ Texts(h, D) = Texts(h, D \ S) + Texts(h, S)
         /\ Names(h, D) \in Nat
         /\ Names(h, S) \in Nat
         /\ Texts(h, D) \in Nat
         /\ Texts(h, S) \in Nat
         /\ Names(h, D \ S) \in Nat
         /\ Texts(h, D \ S) \in Nat
<1> DEFINE N(U) == {x \in U : ~h[x].StringIsConst /\ h[x].string # "none"}
<1> DEFINE M(U) == {x \in U : ~h[x].IsReference /\ h[x].valuestring # "none"}
<1>1. IsFiniteSet(N(D)) /\ IsFiniteSet(M(D))
  <2>1. N(D) \in SUBSET D /\ M(D) \in SUBSET D
    OBVIOUS
  <2> HIDE DEF N, M
  <2>2. QED
    BY <2>1, FS_Subset
<1>2. /\ IsFiniteSet(N(D \ S)) /\ IsFiniteSet(N(S)) /\ IsFiniteSet(M(D \ S)) /\ IsFiniteSet(M(S))
  <2>1. N(D \ S) \in SUBSET N(D) /\ N(S) \in SUBSET N(D)
    OBVIOUS
  <2>2. M(D \ S) \in SUBSET M(D) /\ M(S) \in SUBSET M(D)
    OBVIOUS
  <2> HIDE DEF N, M
  <2>3. QED
    BY <1>1, <2>1, <2>2, FS_Subset
<1>3. N(D) = N(D \ S) \cup N(S) /\ N(D \ S) \cap N(S) = {}
  OBVIOUS
<1>4. M(D) = M(D \ S) \cup M(S) /\ M(D \ S) \cap M(S) = {}
  OBVIOUS
<1>5. /\ Names(h, D) = Cardinality(N(D)) /\ Texts(h, D) = Cardinality(M(D))
      /\ Names(h, S) = Cardinality(N(S)) /\ Texts(h, S) = Cardinality(M(S))
      /\ Names(h, D \ S) = Cardinality(N(D \ S)) /\ Texts(h, D \ S) = Cardinality(M(D \ S))
  BY DEF Names, Texts
<1> HIDE DEF N, M
<1>6. /\ Cardinality(N(D)) \in Nat /\ Cardinality(N(S)) \in Nat /\ Cardinality(N(D \ S)) \in Nat
      /\ Cardinality(M(D)) \in Nat /\ Cardinality(M(S)) \in Nat /\ Cardinality(M(D \ S)) \in Nat
  BY <1>1, <1>2, FS_CardinalityType
<1>7. Cardinality(N(D)) = Cardinality(N(D \ S)) + Cardinality(N(S))
  <2>1. Cardinality(N(D)) = Cardinality(N(D \ S)) + Cardinality(N(S)) - Cardinality({})
    BY <1>2, <1>3, FS_Union
  <2>2. QED
    BY <1>6, <2>1, FS_EmptySet
<1>8. Cardinality(M(D)) = Cardinality(M(D \ S)) + Cardinality(M(S))
  <2>1. Cardinality(M(D)) = Cardinality(M(D \ S)) + Cardinality(M(S)) - Cardinality({})
    BY <1>2, <1>4, FS_Union
  <2>2. QED
    BY <1>6, <2>1, FS_EmptySet
<1>9. QED
  BY <1>5, <1>6, <1>7, <1>8

LEMMA CountsAgree ==
  ASSUME NEW h, NEW h2, NEW S,
         \A x \in S : /\ h2[x].string = h[x].string
                      /\ h2[x].valuestring = h[x].valuestring
                      /\ h2[x].IsReference = h[x].IsReference
                      /\ h2[x].StringIsConst = h[x].StringIsConst
  PROVE  Names(h2, S) = Names(h, S) /\ Texts(h2, S) = Texts(h, S)
<1>1. {x \in S : ~h2[x].StringIsConst /\ h2[x].string # "none"}
      = {x \in S : ~h[x].StringIsConst /\ h[x].string # "none"}
  BY Zenon
<1>2. {x \in S : ~h2[x].IsReference /\ h2[x].valuestring # "none"}
      = {x \in S : ~h[x].IsReference /\ h[x].valuestring # "none"}
  BY Zenon
<1>3. QED
  BY <1>1, <1>2 DEF Names, Texts

LEMMA CountsOfOne ==
  ASSUME NEW h, NEW x
  PROVE  /\ Names(h, {x}) = IF ~h[x].StringIsConst /\ h[x].string # "none" THEN 1 ELSE 0
         /\ Texts(h, {x}) = IF ~h[x].IsReference /\ h[x].valuestring # "none" THEN 1 ELSE 0
<1>1. {z \in {x} : ~h[z].StringIsConst /\ h[z].string # "none"}
      = IF ~h[x].StringIsConst /\ h[x].string # "none" THEN {x} ELSE {}
  OBVIOUS
<1>2. {z \in {x} : ~h[z].IsReference /\ h[z].valuestring # "none"}
      = IF ~h[x].IsReference /\ h[x].valuestring # "none" THEN {x} ELSE {}
  OBVIOUS
<1>3. Cardinality({}) = 0 /\ Cardinality({x}) = 1
  BY FS_EmptySet, FS_Singleton
<1>4. QED
  BY <1>1, <1>2, <1>3 DEF Names, Texts

LEMMA HeapIsFinite ==
  ASSUME NEW h, Heap(h)
  PROVE  IsFiniteSet(DOMAIN h)
BY JsonAssumption, FS_Subset DEF Heap

LEMMA CountedLinks ==
  ASSUME NEW h, NEW h2, NEW n, Counted(h, n), OnlyLinks(h, h2)
  PROVE  Counted(h2, n) /\ \A S \in SUBSET DOMAIN h :
           Names(h2, S) = Names(h, S) /\ Texts(h2, S) = Texts(h, S)
<1>1. \A S \in SUBSET DOMAIN h : Names(h2, S) = Names(h, S) /\ Texts(h2, S) = Texts(h, S)
  BY CountsAgree DEF OnlyLinks
<1>2. QED
  BY <1>1 DEF OnlyLinks, Counted

(* What is freed is no longer counted. *)
LEMMA CountedWithout ==
  ASSUME NEW h, Heap(h), NEW n, Counted(h, n), NEW S \in SUBSET DOMAIN h
  PROVE  /\ Counted(Restrict(h, DOMAIN h \ S), n - Names(h, S) - Texts(h, S))
         /\ n - Names(h, S) - Texts(h, S) \in Nat
<1> DEFINE h2 == Restrict(h, DOMAIN h \ S)
<1>1. DOMAIN h2 = DOMAIN h \ S /\ \A z \in DOMAIN h2 : h2[z] = h[z]
  BY RestrictFields
<1> HIDE DEF h2
<1>2. Names(h2, DOMAIN h2) = Names(h, DOMAIN h \ S) /\ Texts(h2, DOMAIN h2) = Texts(h, DOMAIN h \ S)
  BY <1>1, CountsAgree
<1>3. /\ Names(h, DOMAIN h) = Names(h, DOMAIN h \ S) + Names(h, S)
      /\ Texts(h, DOMAIN h) = Texts(h, DOMAIN h \ S) + Texts(h, S)
      /\ Names(h, S) \in Nat
      /\ Texts(h, S) \in Nat
      /\ Names(h, DOMAIN h \ S) \in Nat
      /\ Texts(h, DOMAIN h \ S) \in Nat
  <2>1. IsFiniteSet(DOMAIN h)
    BY HeapIsFinite
  <2> DEFINE D == DOMAIN h
  <2>2. IsFiniteSet(D) /\ S \in SUBSET D
    BY <2>1
  <2> HIDE DEF D
  <2>3. /\ Names(h, D) = Names(h, D \ S) + Names(h, S)
        /\ Texts(h, D) = Texts(h, D \ S) + Texts(h, S)
        /\ Names(h, S) \in Nat /\ Texts(h, S) \in Nat
        /\ Names(h, D \ S) \in Nat /\ Texts(h, D \ S) \in Nat
    BY <2>2, CountsSplit
  <2>4. QED
    BY <2>3 DEF D
<1>4. QED
  BY <1>2, <1>3 DEF Counted, h2

(* What is allocated, with a text or without. *)
LEMMA CountedWith ==
  ASSUME NEW h, Heap(h), NEW n, Counted(h, n), NEW x \in Items \ DOMAIN h, NEW f \in JsonItem,
         f.string = "none"
  PROVE  Counted(With(h, x, f),
                 IF ~f.IsReference /\ f.valuestring # "none" THEN n + 1 ELSE n)
<1> DEFINE h2 == With(h, x, f)
<1>1. Heap(h2) /\ DOMAIN h2 = DOMAIN h \cup {x} /\ h2[x] = f /\ \A z \in DOMAIN h : h2[z] = h[z]
  BY WithFields
<1> HIDE DEF h2
<1>2. /\ Names(h2, DOMAIN h2) = Names(h2, DOMAIN h2 \ {x}) + Names(h2, {x})
      /\ Texts(h2, DOMAIN h2) = Texts(h2, DOMAIN h2 \ {x}) + Texts(h2, {x})
      /\ Names(h2, DOMAIN h2 \ {x}) \in Nat
      /\ Texts(h2, DOMAIN h2 \ {x}) \in Nat
  <2>1. IsFiniteSet(DOMAIN h2) /\ {x} \in SUBSET DOMAIN h2
    BY <1>1, HeapIsFinite
  <2>2. QED
    BY <2>1, CountsSplit
<1>3. DOMAIN h2 \ {x} = DOMAIN h
  BY <1>1
<1>4. Names(h2, DOMAIN h) = Names(h, DOMAIN h) /\ Texts(h2, DOMAIN h) = Texts(h, DOMAIN h)
  BY <1>1, CountsAgree
<1>5. Names(h2, {x}) = 0 /\ Texts(h2, {x}) = IF ~f.IsReference /\ f.valuestring # "none" THEN 1 ELSE 0
  BY <1>1, CountsOfOne
<1>6. QED
  BY <1>2, <1>3, <1>4, <1>5 DEF Counted, h2

(* What one item has changes. *)
LEMMA CountedChange ==
  ASSUME NEW h, Heap(h), NEW n, Counted(h, n), NEW x \in DOMAIN h, NEW h2, DOMAIN h2 = DOMAIN h,
         \A z \in DOMAIN h \ {x} : /\ h2[z].string = h[z].string
                                   /\ h2[z].valuestring = h[z].valuestring
                                   /\ h2[z].IsReference = h[z].IsReference
                                   /\ h2[z].StringIsConst = h[z].StringIsConst
  PROVE  Counted(h2, n - Names(h, {x}) - Texts(h, {x}) + Names(h2, {x}) + Texts(h2, {x}))
<1>1. IsFiniteSet(DOMAIN h) /\ {x} \in SUBSET DOMAIN h
  BY HeapIsFinite
<1>2. /\ Names(h, DOMAIN h) = Names(h, DOMAIN h \ {x}) + Names(h, {x})
      /\ Texts(h, DOMAIN h) = Texts(h, DOMAIN h \ {x}) + Texts(h, {x})
      /\ Names(h, {x}) \in Nat
      /\ Texts(h, {x}) \in Nat
      /\ Names(h, DOMAIN h \ {x}) \in Nat
      /\ Texts(h, DOMAIN h \ {x}) \in Nat
  BY <1>1, CountsSplit
<1>3. /\ Names(h2, DOMAIN h) = Names(h2, DOMAIN h \ {x}) + Names(h2, {x})
      /\ Texts(h2, DOMAIN h) = Texts(h2, DOMAIN h \ {x}) + Texts(h2, {x})
      /\ Names(h2, {x}) \in Nat
      /\ Texts(h2, {x}) \in Nat
  BY <1>1, CountsSplit
<1>4. /\ Names(h2, DOMAIN h \ {x}) = Names(h, DOMAIN h \ {x})
      /\ Texts(h2, DOMAIN h \ {x}) = Texts(h, DOMAIN h \ {x})
  BY CountsAgree
<1>5. QED
  BY <1>2, <1>3, <1>4 DEF Counted

-----------------------------------------------------------------------------
(* Trees: a forest of items, and as many names and texts as they have. *)
Trees(h, n, R) == Neat(h, R) /\ Counted(h, n) /\ n \in Nat

Alone(h, R) == \A x \in R : h[x].next = NULL

NotShown(h, S) == \A r \in DOMAIN h \ S : h[r].IsReference => h[r].child \notin S

LEMMA TreesWith ==
  ASSUME NEW h, NEW n, NEW R, Trees(h, n, R), NEW x \in Items \ DOMAIN h, NEW f \in JsonItem,
         f.next = NULL, f.prev = NULL, f.child \in DOMAIN h \cup {NULL},
         f.IsReference \/ f.child = NULL, f.string = "none"
  PROVE  /\ Trees(With(h, x, f), IF ~f.IsReference /\ f.valuestring # "none" THEN n + 1 ELSE n,
                  R \cup {x})
         /\ Alone(h, R) => Alone(With(h, x, f), R \cup {x})
<1>1. Neat(With(h, x, f), R \cup {x})
  BY NeatWith DEF Trees
<1>2. Counted(With(h, x, f), IF ~f.IsReference /\ f.valuestring # "none" THEN n + 1 ELSE n)
  BY CountedWith DEF Trees, Neat
<1>3. Alone(h, R) => Alone(With(h, x, f), R \cup {x})
  <2>1. With(h, x, f)[x] = f /\ \A z \in DOMAIN h : With(h, x, f)[z] = h[z]
    BY DEF With
  <2>2. R \subseteq DOMAIN h
    BY RootAlone DEF Trees
  <2>3. QED
    BY <2>1, <2>2 DEF Alone
<1>4. QED
  BY <1>1, <1>2, <1>3 DEF Trees

LEMMA TreesAdd ==
  ASSUME NEW h, NEW n, NEW R, Trees(h, n, R), NEW a \in DOMAIN h, ~h[a].IsReference,
         NEW x \in R, a \notin Below(h, {x})
  PROVE  /\ Trees(add_item_to_array(h, a, x), n, R \ {x})
         /\ Alone(h, R) => Alone(add_item_to_array(h, a, x), R \ {x})
<1>1. /\ Neat(add_item_to_array(h, a, x), R \ {x}) /\ OnlyLinks(h, add_item_to_array(h, a, x))
      /\ \A z \in R : add_item_to_array(h, a, x)[z].next = h[z].next
  <2>1. Neat(h, R)
    BY DEF Trees
  <2>2. QED
    BY <2>1, NeatAdd
<1>2. Counted(add_item_to_array(h, a, x), n)
  BY <1>1, CountedLinks DEF Trees
<1>3. QED
  BY <1>1, <1>2 DEF Trees, Alone

LEMMA TreesDetach ==
  ASSUME NEW h, NEW n, NEW R, Trees(h, n, R), Alone(h, R), NEW a, NEW x, ChildOf(h, a, x)
  PROVE  /\ Trees(cJSON_DetachItemViaPointer(h, a, x), n, R \cup {x})
         /\ Alone(cJSON_DetachItemViaPointer(h, a, x), R \cup {x})
<1> DEFINE h2 == cJSON_DetachItemViaPointer(h, a, x)
<1>1. Neat(h2, R \cup {x})
  BY NeatDetach DEF Trees
<1>2. /\ OnlyLinks(h, h2)
      /\ \A z \in DOMAIN h : h2[z].next = IF z = x THEN NULL
                                          ELSE IF z = h[x].prev THEN h[x].next ELSE h[z].next
  BY DetachFields DEF Trees, Neat, ChildOf
<1>3. Counted(h2, n)
  BY <1>2, CountedLinks DEF Trees
<1>4. Alone(h2, R \cup {x})
  <2>1. x \in DOMAIN h /\ x # NULL /\ (h[x].prev # NULL => h[h[x].prev].next = x)
    BY BeforeLeads DEF Trees, ChildOf
  <2>2. \A z \in R : z \in DOMAIN h /\ z # NULL /\ h[z].next = NULL
    BY RootAlone DEF Trees, Alone
  <2> HIDE DEF h2
  <2>3. \A z \in R \cup {x} : h2[z].next = NULL
    BY <1>2, <2>1, <2>2
  <2>4. QED
    BY <2>3 DEF Alone
<1>5. QED
  BY <1>1, <1>3, <1>4 DEF Trees

LEMMA TreesInsert ==
  ASSUME NEW h, NEW n, NEW R, Trees(h, n, R), Alone(h, R), NEW a, NEW after,
         ChildOf(h, a, after), NEW x \in R, Before(h, a, after) \notin Below(h, {x})
  PROVE  /\ Trees(cJSON_InsertItemInArray(h, a, after, x), n, R \ {x})
         /\ Alone(cJSON_InsertItemInArray(h, a, after, x), R \ {x})
<1> DEFINE h2 == cJSON_InsertItemInArray(h, a, after, x)
<1>1. x \in DOMAIN h
  BY RootAlone DEF Trees
<1>2. Neat(h2, R \ {x})
  BY NeatInsert DEF Trees, Alone
<1>3. /\ OnlyLinks(h, h2)
      /\ \A z \in DOMAIN h : h2[z].next = IF z = x THEN after
                                          ELSE IF z = h[after].prev THEN x ELSE h[z].next
  BY <1>1, InsertFields DEF Trees, Neat, ChildOf
<1>4. Counted(h2, n)
  BY <1>3, CountedLinks DEF Trees
<1>5. Alone(h2, R \ {x})
  <2>1. after \in DOMAIN h /\ after # NULL /\ (h[after].prev # NULL => h[h[after].prev].next = after)
    BY BeforeLeads DEF Trees, ChildOf
  <2>2. \A z \in R : z \in DOMAIN h /\ z # NULL /\ h[z].next = NULL
    BY RootAlone DEF Trees, Alone
  <2> HIDE DEF h2
  <2>3. \A z \in R \ {x} : h2[z].next = NULL
    BY <1>3, <2>1, <2>2
  <2>4. QED
    BY <2>3 DEF Alone
<1>6. QED
  BY <1>2, <1>4, <1>5 DEF Trees

(* The names and texts that are left when S is freed. *)
Kept(h, n, S) == n - Names(h, S) - Texts(h, S)

LEMMA TreesDrop ==
  ASSUME NEW h, NEW n, NEW R, Trees(h, n, R), NEW x \in R, NotShown(h, Below(h, {x}))
  PROVE  LET B == Below(h, {x})
             h2 == Restrict(h, DOMAIN h \ B)
         IN  /\ Trees(h2, Kept(h, n, B), R \ {x})
             /\ B \subseteq DOMAIN h
             /\ \A z \in R \ {x} : z \in DOMAIN h \ B
             /\ Alone(h, R \ {x}) => Alone(h2, R \ {x})
<1> DEFINE B == Below(h, {x})
<1> DEFINE h2 == Restrict(h, DOMAIN h \ B)
<1>1. B \subseteq DOMAIN h
  BY DEF Below, Reach, Links
<1>2. Neat(h2, R \ {x})
  BY NeatWithout DEF NotShown, Trees
<1>3. Counted(h2, Kept(h, n, B)) /\ Kept(h, n, B) \in Nat
  BY <1>1, CountedWithout DEF Trees, Neat, Kept
<1>4. \A z \in R \ {x} : z \in DOMAIN h2
  BY <1>2, RootAlone
<1>5. DOMAIN h2 = DOMAIN h \ B /\ \A z \in DOMAIN h2 : h2[z] = h[z]
  <2>1. Heap(h)
    BY DEF Trees, Neat
  <2>2. QED
    BY <2>1, RestrictFields
<1>6. Alone(h, R \ {x}) => Alone(h2, R \ {x})
  BY <1>4, <1>5 DEF Alone
<1>7. QED
  BY <1>1, <1>2, <1>3, <1>4, <1>5, <1>6 DEF Trees

LEMMA TreesReplace ==
  ASSUME NEW h, NEW n, NEW R, Trees(h, n, R), Alone(h, R), NEW a, NEW item,
         ChildOf(h, a, item), NEW x \in R, Before(h, a, item) \notin Below(h, {x}),
         NotShown(h, TreeOf(h, item)),
         NEW h2, h2 = Replaced(h, a, item, x), NEW B, B = Below(h2, {item})
  PROVE  /\ Trees(Restrict(h2, DOMAIN h2 \ B), Kept(h2, n, B), R \ {x})
         /\ Alone(Restrict(h2, DOMAIN h2 \ B), R \ {x})
<1>1. /\ Neat(h2, (R \ {x}) \cup {item}) /\ OnlyLinks(h, h2) /\ h2[item].next = NULL
      /\ TreeOf(h2, item) = TreeOf(h, item)
      /\ \A z \in DOMAIN h : /\ h[z].IsReference => h2[z].child = h[z].child
                             /\ z # x /\ h[z].next = NULL => h2[z].next = NULL
  <2>1. Neat(h, R) /\ h[x].next = NULL
    BY DEF Trees, Alone
  <2>2. QED
    BY <2>1, NeatReplaced
<1>2. DOMAIN h2 = DOMAIN h /\ \A z \in DOMAIN h : h2[z].IsReference = h[z].IsReference
  BY <1>1 DEF OnlyLinks
<1>3. Trees(h2, n, (R \ {x}) \cup {item})
  BY <1>1, CountedLinks DEF Trees
<1>4. item \in DOMAIN h /\ item \notin R
  BY BeforeLeads DEF ChildOf, Trees
<1>5. B = TreeOf(h, item)
  BY <1>1, <1>2, <1>4, BelowIsTree
<1>6. NotShown(h2, B)
  BY <1>1, <1>2, <1>5 DEF NotShown
<1>7. item \notin R \ {x} /\ ((R \ {x}) \cup {item}) \ {item} = R \ {x}
  BY <1>4
<1>8. Alone(h2, R \ {x})
  <2>1. \A z \in R : z \in DOMAIN h
    BY RootAlone DEF Trees
  <2>2. QED
    BY <1>1, <2>1 DEF Alone
<1>9. QED
  <2> DEFINE Q == (R \ {x}) \cup {item}
  <2>1. /\ item \in Q /\ Trees(h2, n, Q) /\ Q \ {item} = R \ {x} /\ Alone(h2, Q \ {item})
        /\ NotShown(h2, Below(h2, {item}))
    BY <1>3, <1>6, <1>7, <1>8
  <2> HIDE DEF Q
  <2>2. LET C == Below(h2, {item})
            h3 == Restrict(h2, DOMAIN h2 \ C)
        IN  /\ Trees(h3, Kept(h2, n, C), Q \ {item})
            /\ Alone(h3, Q \ {item})
    BY <2>1, TreesDrop
  <2>3. QED
    BY <2>1, <2>2

LEMMA TreesNamed ==
  ASSUME NEW h, NEW n, NEW R, Trees(h, n, R), NEW x \in DOMAIN h,
         NEW name \in {"none", "heap", "const"}
  PROVE  LET h2 == Named(h, x, name) IN
         /\ Trees(h2, n - Names(h, {x}) + (IF name = "heap" THEN 1 ELSE 0), R)
         /\ Links(h2) = Links(h) /\ SameLinks(h, h2)
         /\ Alone(h, R) => Alone(h2, R)
<1> DEFINE h2 == Named(h, x, name)
<1>1. /\ Heap(h2) /\ SameLinks(h, h2)
      /\ \A z \in DOMAIN h : /\ h2[z].valuestring = h[z].valuestring
                             /\ z # x => h2[z] = h[z]
      /\ h2[x].string = name /\ h2[x].StringIsConst = (name = "const")
  BY NamedFields DEF Trees, Neat
<1> HIDE DEF h2
<1>2. Neat(h2, R) /\ Links(h2) = Links(h)
  BY <1>1, NeatSameLinks DEF Trees
<1>3. Alone(h, R) => Alone(h2, R)
  <2>1. R \subseteq DOMAIN h
    BY RootAlone DEF Trees
  <2>2. QED
    BY <1>1, <2>1 DEF Alone, SameLinks
<1>4. Counted(h2, n - Names(h, {x}) - Texts(h, {x}) + Names(h2, {x}) + Texts(h2, {x}))
  BY <1>1, CountedChange DEF Trees, Neat, SameLinks
<1>5. Texts(h2, {x}) = Texts(h, {x})
  BY <1>1, CountsAgree, CountsOfOne DEF SameLinks
<1>6. Names(h2, {x}) = IF name = "heap" THEN 1 ELSE 0
  BY <1>1, CountsOfOne
<1>7. Names(h, {x}) \in Nat /\ Texts(h, {x}) \in Nat /\ n - Names(h, {x}) \in Nat
  <2>1. Names(h, {x}) \in Nat /\ Texts(h, {x}) \in Nat
    BY CountsOfOne
  <2>2. n - Names(h, {x}) - Texts(h, {x}) \in Nat
    BY CountedWithout DEF Trees, Neat
  <2>3. QED
    BY <2>1, <2>2 DEF Trees
<1>8. Counted(h2, n - Names(h, {x}) + (IF name = "heap" THEN 1 ELSE 0))
  <2>1. n - Names(h, {x}) - Texts(h, {x}) + Names(h2, {x}) + Texts(h2, {x})
        = n - Names(h, {x}) + (IF name = "heap" THEN 1 ELSE 0)
    BY <1>5, <1>6, <1>7 DEF Trees
  <2>2. QED
    BY <1>4, <2>1
<1>9. QED
  BY <1>1, <1>2, <1>3, <1>7, <1>8 DEF Trees, h2

-----------------------------------------------------------------------------
(* The caller's functions *)
CallerInv ==
  /\ Idle
  /\ frames = <<>> /\ root = NULL
  /\ Trees(heap, strings, owned)
  /\ Alone(heap, owned)

LEMMA GivesApart ==
  ASSUME CallerInv, NEW a, NEW x, Gives(a, x)
  PROVE  /\ x \in owned
         /\ x \in DOMAIN heap
         /\ a \in DOMAIN heap
         /\ ~heap[a].IsReference
         /\ a \notin Below(heap, {x})
         /\ NotShown(heap, Below(heap, {x}))
         /\ \A y \in Child(a) : ChildOf(heap, a, y) /\ Before(heap, a, y) \notin Below(heap, {x})
<1>1. Neat(heap, owned) /\ x \in owned /\ a \in DOMAIN heap /\ ~heap[a].IsReference
      /\ heap[x].next = NULL
  BY DEF CallerInv, Trees, Alone, Gives, Lists
<1>2. x \in DOMAIN heap
  BY <1>1, RootAlone
<1>3. Below(heap, {x}) = Tree(x)
  BY <1>1, <1>2, BelowIsTree DEF TreeOf, Tree
<1>4. a \notin Below(heap, {x}) /\ NotShown(heap, Below(heap, {x}))
  BY <1>3 DEF Gives, Shown, NotShown
<1>5. \A y \in Child(a) : ChildOf(heap, a, y)
  BY <1>1, ChildrenAreChildren DEF Child
<1>6. \A y \in Child(a) : Before(heap, a, y) \notin Below(heap, {x})
  BY <1>1, <1>4, ChildrenApart DEF Child
<1>7. QED
  BY <1>1, <1>2, <1>4, <1>5, <1>6

LEMMA CreateKeeps ==
  ASSUME CallerInv, NEW type \in Types, Create(type)
  PROVE  CallerInv'
<1>1. PICK n \in Free :
        /\ heap' = With(heap, n, [Zeroed EXCEPT !.type = type,
                                !.valuestring = IF type = "text" THEN "heap" ELSE "none"])
        /\ owned' = owned \cup {n}
  BY DEF Create
<1> DEFINE f == [Zeroed EXCEPT !.type = type,
                               !.valuestring = IF type = "text" THEN "heap" ELSE "none"]
<1>2. /\ f.next = NULL /\ f.prev = NULL /\ f.child = NULL
      /\ f.string = "none" /\ f.valuestring = (IF type = "text" THEN "heap" ELSE "none")
      /\ f.IsReference = FALSE
  BY DEF Zeroed
<1>3. f \in JsonItem
  BY DEF Zeroed, JsonItem, Kinds
<1>4. n \in Items \ DOMAIN heap /\ heap' = With(heap, n, f)
  BY <1>1 DEF Free
<1> HIDE DEF f
<1>5. Trees(heap, strings, owned) /\ Alone(heap, owned)
  BY DEF CallerInv
<1>6. f.child \in DOMAIN heap \cup {NULL} /\ (f.IsReference \/ f.child = NULL)
  BY <1>2
<1>7. /\ Trees(With(heap, n, f),
               IF ~f.IsReference /\ f.valuestring # "none" THEN strings + 1 ELSE strings,
               owned \cup {n})
      /\ Alone(With(heap, n, f), owned \cup {n})
  BY <1>2, <1>3, <1>4, <1>5, <1>6, TreesWith
<1>8. (IF ~f.IsReference /\ f.valuestring # "none" THEN strings + 1 ELSE strings) = strings'
  BY <1>2 DEF Create
<1>9. QED
  BY <1>1, <1>4, <1>7, <1>8 DEF CallerInv, Create, parserVars, Idle

LEMMA AddKeeps ==
  ASSUME CallerInv, NEW a, NEW x, AddItemToArray(a, x)
  PROVE  CallerInv'
<1>1. /\ x \in owned /\ a \in DOMAIN heap /\ ~heap[a].IsReference /\ a \notin Below(heap, {x})
      /\ Trees(heap, strings, owned) /\ Alone(heap, owned)
  BY GivesApart DEF AddItemToArray, CallerInv
<1>2. /\ Trees(add_item_to_array(heap, a, x), strings, owned \ {x})
      /\ Alone(add_item_to_array(heap, a, x), owned \ {x})
  BY <1>1, TreesAdd
<1>3. QED
  BY <1>2 DEF CallerInv, AddItemToArray, parserVars, Idle

(* A tree that goes, freed or lost, leaves the others as they are. *)
LEMMA DropKeeps ==
  ASSUME CallerInv, NEW x \in owned, NotShown(heap, Below(heap, {x})),
         Without(heap, strings, Below(heap, {x})), owned' = owned \ {x}, UNCHANGED parserVars
  PROVE  CallerInv'
<1> DEFINE B == Below(heap, {x})
<1> DEFINE h2 == Restrict(heap, DOMAIN heap \ B)
<1>1. Trees(h2, Kept(heap, strings, B), owned \ {x}) /\ Alone(h2, owned \ {x})
  <2>1. Trees(heap, strings, owned) /\ Alone(heap, owned \ {x})
    BY DEF CallerInv, Alone
  <2>2. QED
    BY <2>1, TreesDrop
<1>2. heap' = h2 /\ strings' = Kept(heap, strings, B)
  BY DEF Without, Kept
<1>3. QED
  BY <1>1, <1>2 DEF CallerInv, parserVars, Idle

LEMMA AddToObjectKeeps ==
  ASSUME CallerInv, NEW o, NEW x, AddItemToObject(o, x)
  PROVE  CallerInv'
<1>1. /\ x \in owned /\ x \in DOMAIN heap /\ o \in DOMAIN heap /\ ~heap[o].IsReference
      /\ o \notin Below(heap, {x}) /\ NotShown(heap, Below(heap, {x}))
      /\ Trees(heap, strings, owned) /\ Alone(heap, owned)
  BY GivesApart DEF AddItemToObject, CallerInv
<1>2. CASE Lose(heap, Below(heap, {x}), {})
  BY <1>1, <1>2, DropKeeps DEF AddItemToObject, Lose
<1>3. ASSUME NEW name \in {"heap", "const"},
             heap' = add_item_to_array(Named(heap, x, name), o, x),
             strings' = NamesAfter(heap, x, name)
      PROVE  CallerInv'
  <2> DEFINE h2 == Named(heap, x, name)
  <2>1. /\ Trees(h2, strings', owned) /\ Links(h2) = Links(heap) /\ SameLinks(heap, h2)
        /\ Alone(h2, owned)
    BY <1>1, <1>3, TreesNamed DEF NamesAfter
  <2>2. o \in DOMAIN h2 /\ ~h2[o].IsReference /\ o \notin Below(h2, {x})
    BY <1>1, <2>1 DEF SameLinks, Below
  <2> HIDE DEF h2
  <2>3. /\ Trees(add_item_to_array(h2, o, x), strings', owned \ {x})
        /\ Alone(add_item_to_array(h2, o, x), owned \ {x})
    BY <1>1, <2>1, <2>2, TreesAdd
  <2>4. QED
    BY <1>3, <2>3 DEF CallerInv, AddItemToObject, parserVars, Idle, h2
<1>4. QED
  BY <1>2, <1>3 DEF AddItemToObject

(* A reference is a tree of its own: what it shows is not below it. *)
LEMMA ReferenceMade ==
  ASSUME CallerInv, NEW x \in DOMAIN heap, NEW n \in Free
  PROVE  LET h == create_reference(heap, n, x) IN
         /\ Trees(h, strings, owned \cup {n}) /\ Alone(h, owned \cup {n})
         /\ Below(h, {n}) = {n}
         /\ \A S \in SUBSET {n} : Names(h, S) = 0 /\ Texts(h, S) = 0
         /\ (owned \cup {n}) \ {n} = owned
         /\ n \notin DOMAIN heap /\ n \in DOMAIN h
         /\ Restrict(h, DOMAIN h \ {n}) = heap
<1> DEFINE f == [heap[x] EXCEPT !.string = "none", !.IsReference = TRUE,
                                !.next = NULL, !.prev = NULL]
<1> DEFINE h == With(heap, n, f)
<1>1. Trees(heap, strings, owned) /\ Alone(heap, owned) /\ Heap(heap) /\ Neighbours(heap)
      /\ n \in Items \ DOMAIN heap
  BY DEF CallerInv, Trees, Neat, Free
<1>2. heap[x] \in JsonItem /\ heap[x].child \in DOMAIN heap \cup {NULL}
  BY <1>1 DEF Heap, Neighbours
<1>3. /\ f \in JsonItem
      /\ f.next = NULL /\ f.prev = NULL /\ f.IsReference = TRUE /\ f.string = "none"
      /\ f.child = heap[x].child
  BY <1>2 DEF JsonItem
<1>4. create_reference(heap, n, x) = h
  BY DEF create_reference
<1> HIDE DEF f
<1>5. /\ Trees(h, IF ~f.IsReference /\ f.valuestring # "none" THEN strings + 1 ELSE strings,
               owned \cup {n})
      /\ Alone(h, owned \cup {n})
  <2>1. f.child \in DOMAIN heap \cup {NULL} /\ (f.IsReference \/ f.child = NULL)
    BY <1>2, <1>3
  <2>2. QED
    BY <1>1, <1>3, <2>1, TreesWith
<1>6. DOMAIN h = DOMAIN heap \cup {n} /\ h[n] = f /\ \A z \in DOMAIN heap : h[z] = heap[z]
  BY <1>1, <1>3, WithFields
<1>7. Restrict(h, DOMAIN h \ {n}) = heap
  <2>1. DOMAIN h \ {n} = DOMAIN heap
    BY <1>1, <1>6
  <2>2. Restrict(h, DOMAIN heap) = [z \in DOMAIN heap |-> h[z]]
    BY Zenon DEF Restrict
  <2>3. heap = [z \in DOMAIN heap |-> heap[z]]
    BY <1>1 DEF Heap
  <2> HIDE DEF h
  <2>4. QED
    BY <1>6, <2>1, <2>2, <2>3
<1> HIDE DEF h
<1>8. Below(h, {n}) = {n}
  <2>1. h[n].next = NULL /\ h[n].IsReference /\ n \in DOMAIN h
    BY <1>3, <1>6
  <2>2. Neat(h, owned \cup {n})
    BY <1>5 DEF Trees
  <2>3. Below(h, {n}) = TreeOf(h, n)
    BY <2>1, <2>2, BelowIsTree
  <2>4. QED
    BY <2>1, <2>3 DEF TreeOf
<1>9. ASSUME NEW S \in SUBSET {n} PROVE Names(h, S) = 0 /\ Texts(h, S) = 0
  <2>1. {z \in S : ~h[z].StringIsConst /\ h[z].string # "none"} = {}
        /\ {z \in S : ~h[z].IsReference /\ h[z].valuestring # "none"} = {}
    BY <1>3, <1>6
  <2>2. QED
    BY <2>1, FS_EmptySet DEF Names, Texts
<1>10. owned \subseteq DOMAIN heap
  BY <1>1, RootAlone DEF Trees
<1>11. QED
  BY <1>1, <1>3, <1>4, <1>5, <1>6, <1>7, <1>8, <1>9, <1>10

LEMMA AddReferenceKeeps ==
  ASSUME CallerInv, NEW a, NEW x, AddItemReferenceToArray(a, x)
  PROVE  CallerInv'
<1>1. PICK n \in Free : heap' = add_item_to_array(create_reference(heap, n, x), a, n)
  BY DEF AddItemReferenceToArray
<1>2. x \in DOMAIN heap /\ a \in DOMAIN heap /\ ~heap[a].IsReference
  BY DEF AddItemReferenceToArray, Lists
<1> DEFINE h == create_reference(heap, n, x)
<1> DEFINE R == owned \cup {n}
<1>3. /\ Trees(h, strings, R) /\ Alone(h, R) /\ n \in R /\ a \notin Below(h, {n})
      /\ R \ {n} = owned
  <2>1. n \in Free /\ x \in DOMAIN heap
    BY <1>1, <1>2
  <2>2. /\ Trees(h, strings, R) /\ Alone(h, R) /\ Below(h, {n}) = {n} /\ R \ {n} = owned
    BY <2>1, ReferenceMade
  <2>3. a # n
    BY <1>1, <1>2 DEF Free
  <2>4. QED
    BY <2>2, <2>3
<1>4. a \in DOMAIN h /\ ~h[a].IsReference
  BY <1>2 DEF create_reference, With, Free
<1> HIDE DEF h, R
<1>5. Trees(add_item_to_array(h, a, n), strings, R \ {n})
      /\ Alone(add_item_to_array(h, a, n), R \ {n})
  BY <1>3, <1>4, TreesAdd
<1>6. QED
  BY <1>1, <1>3, <1>5 DEF AddItemReferenceToArray, CallerInv, parserVars, Idle, h

LEMMA AddReferenceToObjectKeeps ==
  ASSUME CallerInv, NEW o, NEW x, AddItemReferenceToObject(o, x)
  PROVE  CallerInv'
<1>1. x \in DOMAIN heap /\ o \in DOMAIN heap /\ ~heap[o].IsReference
  BY DEF AddItemReferenceToObject, Lists
<1>2. ASSUME NEW n \in Free,
             heap' = add_item_to_array(Named(create_reference(heap, n, x), n, "heap"), o, n),
             strings' = strings + 1
      PROVE  CallerInv'
  <2> DEFINE h == create_reference(heap, n, x)
  <2> DEFINE R == owned \cup {n}
  <2> DEFINE h2 == Named(h, n, "heap")
  <2>1. /\ Trees(h, strings, R) /\ Alone(h, R) /\ n \in R /\ o \notin Below(h, {n})
        /\ n \in DOMAIN h /\ R \ {n} = owned /\ Names(h, {n}) = 0
    <3>1. n \in Free /\ x \in DOMAIN heap
      BY <1>1, <1>2
    <3>2. /\ Trees(h, strings, R) /\ Alone(h, R) /\ Below(h, {n}) = {n} /\ R \ {n} = owned
          /\ n \in DOMAIN h /\ Names(h, {n}) = 0
      BY <3>1, ReferenceMade
    <3>3. o # n
      BY <1>1, <1>2 DEF Free
    <3>4. QED
      BY <3>2, <3>3
  <2>2. o \in DOMAIN h /\ ~h[o].IsReference
    BY <1>1 DEF create_reference, With, Free
  <2> HIDE DEF h, R
  <2>3. /\ Trees(h2, strings - Names(h, {n}) + 1, R) /\ Alone(h2, R)
        /\ Links(h2) = Links(h) /\ SameLinks(h, h2)
    BY <2>1, TreesNamed
  <2>4. strings - Names(h, {n}) + 1 = strings'
    BY <1>2, <2>1 DEF CallerInv, Trees
  <2>5. o \in DOMAIN h2 /\ ~h2[o].IsReference /\ o \notin Below(h2, {n})
    BY <2>1, <2>3, <2>2 DEF SameLinks, Below
  <2>6. Trees(h2, strings', R)
    BY <2>3, <2>4
  <2> HIDE DEF h2
  <2>7. /\ Trees(add_item_to_array(h2, o, n), strings', R \ {n})
        /\ Alone(add_item_to_array(h2, o, n), R \ {n})
    BY <2>1, <2>3, <2>5, <2>6, TreesAdd
  <2>8. QED
    BY <1>2, <2>1, <2>7 DEF AddItemReferenceToObject, CallerInv, parserVars, Idle, h2, h
<1>3. ASSUME NEW n \in Free, Lose(create_reference(heap, n, x), {n}, {})
      PROVE  CallerInv'
  <2>1. heap' = heap /\ strings' = strings - 0 - 0
    BY <1>1, <1>3, ReferenceMade DEF Lose, Without
  <2>2. strings' = strings
    BY <2>1 DEF CallerInv, Trees
  <2>3. QED
    BY <2>1, <2>2 DEF AddItemReferenceToObject, CallerInv, parserVars, Idle
<1>4. QED
  BY <1>2, <1>3 DEF AddItemReferenceToObject

LEMMA DetachKeeps ==
  ASSUME CallerInv, NEW a, NEW x, DetachItem(a, x)
  PROVE  CallerInv'
<1>1. Neat(heap, owned) /\ Trees(heap, strings, owned) /\ Alone(heap, owned)
      /\ a \in DOMAIN heap /\ ~heap[a].IsReference /\ x \in Children(heap, a)
  BY DEF CallerInv, Trees, DetachItem, Lists, Child
<1>2. ChildOf(heap, a, x)
  BY <1>1, ChildrenAreChildren
<1>3. /\ Trees(cJSON_DetachItemViaPointer(heap, a, x), strings, owned \cup {x})
      /\ Alone(cJSON_DetachItemViaPointer(heap, a, x), owned \cup {x})
  BY <1>1, <1>2, TreesDetach
<1>4. QED
  BY <1>3 DEF CallerInv, DetachItem, parserVars, Idle

LEMMA InsertKeeps ==
  ASSUME CallerInv, NEW a, NEW after, NEW x, InsertItemInArray(a, after, x)
  PROVE  CallerInv'
<1>1. /\ x \in owned /\ ChildOf(heap, a, after) /\ Before(heap, a, after) \notin Below(heap, {x})
      /\ Trees(heap, strings, owned) /\ Alone(heap, owned)
  BY GivesApart DEF InsertItemInArray, CallerInv
<1>2. /\ Trees(cJSON_InsertItemInArray(heap, a, after, x), strings, owned \ {x})
      /\ Alone(cJSON_InsertItemInArray(heap, a, after, x), owned \ {x})
  BY <1>1, TreesInsert
<1>3. QED
  BY <1>2 DEF CallerInv, InsertItemInArray, parserVars, Idle

LEMMA ReplaceKeeps ==
  ASSUME CallerInv, NEW a, NEW item, NEW x, ReplaceItemInArray(a, item, x)
  PROVE  CallerInv'
<1> DEFINE h2 == Replaced(heap, a, item, x)
<1> DEFINE B == Below(h2, {item})
<1>1. /\ x \in owned /\ ChildOf(heap, a, item) /\ Before(heap, a, item) \notin Below(heap, {x})
      /\ Trees(heap, strings, owned) /\ Alone(heap, owned)
  BY GivesApart DEF ReplaceItemInArray, CallerInv
<1>2. NotShown(heap, TreeOf(heap, item))
  BY DEF ReplaceItemInArray, Shown, NotShown, Tree, TreeOf
<1>3. heap' = Restrict(h2, DOMAIN h2 \ B) /\ strings' = Kept(h2, strings, B)
  BY DEF ReplaceItemInArray, cJSON_Delete, Without, Kept
<1>4. h2 = Replaced(heap, a, item, x) /\ B = Below(h2, {item})
  OBVIOUS
<1> HIDE DEF h2, B
<1>5. /\ Trees(Restrict(h2, DOMAIN h2 \ B), Kept(h2, strings, B), owned \ {x})
      /\ Alone(Restrict(h2, DOMAIN h2 \ B), owned \ {x})
  BY <1>1, <1>2, <1>4, TreesReplace
<1>6. QED
  BY <1>3, <1>5 DEF CallerInv, ReplaceItemInArray, parserVars, Idle

LEMMA ReplaceInObjectKeeps ==
  ASSUME CallerInv, NEW o, NEW item, NEW x, ReplaceItemInObject(o, item, x)
  PROVE  CallerInv'
<1>1. PICK name \in {"heap", "none"} :
        cJSON_Delete(Replaced(Named(heap, x, name), o, item, x), NamesAfter(heap, x, name), item)
  BY DEF ReplaceItemInObject
<1> DEFINE h1 == Named(heap, x, name)
<1> DEFINE n == NamesAfter(heap, x, name)
<1> DEFINE h2 == Replaced(h1, o, item, x)
<1> DEFINE B == Below(h2, {item})
<1>2. /\ x \in owned /\ x \in DOMAIN heap /\ ChildOf(heap, o, item)
      /\ Before(heap, o, item) \notin Below(heap, {x})
      /\ Trees(heap, strings, owned) /\ Alone(heap, owned)
  BY GivesApart DEF ReplaceItemInObject, CallerInv
<1>3. NotShown(heap, TreeOf(heap, item))
  BY DEF ReplaceItemInObject, Shown, NotShown, Tree, TreeOf
<1>4. Trees(h1, n, owned) /\ Links(h1) = Links(heap) /\ SameLinks(heap, h1) /\ Alone(h1, owned)
  BY <1>2, TreesNamed DEF NamesAfter
<1>5. heap' = Restrict(h2, DOMAIN h2 \ B) /\ strings' = Kept(h2, n, B)
  BY <1>1 DEF cJSON_Delete, Without, Kept
<1> HIDE DEF h1, n
<1>6. /\ ChildOf(h1, o, item) /\ Before(h1, o, item) = Before(heap, o, item)
      /\ item \in DOMAIN heap
  BY <1>2, <1>4 DEF ChildOf, Before, SameLinks
<1>7. Below(h1, {x}) = Below(heap, {x}) /\ TreeOf(h1, item) = TreeOf(heap, item)
  BY <1>4, <1>6 DEF Below, TreeOf, SameLinks
<1>8. NotShown(h1, TreeOf(h1, item))
  BY <1>3, <1>4, <1>7 DEF NotShown, SameLinks
<1>9. Before(h1, o, item) \notin Below(h1, {x})
  BY <1>2, <1>6, <1>7
<1>10. h2 = Replaced(h1, o, item, x) /\ B = Below(h2, {item})
  OBVIOUS
<1> HIDE DEF h2, B
<1>11. /\ Trees(Restrict(h2, DOMAIN h2 \ B), Kept(h2, n, B), owned \ {x})
       /\ Alone(Restrict(h2, DOMAIN h2 \ B), owned \ {x})
  BY <1>2, <1>4, <1>6, <1>8, <1>9, <1>10, TreesReplace
<1>12. QED
  BY <1>5, <1>11 DEF CallerInv, ReplaceItemInObject, parserVars, Idle

LEMMA GoesAlone ==
  ASSUME CallerInv, NEW x \in owned, ~Shown(Tree(x))
  PROVE  NotShown(heap, Below(heap, {x}))
<1>1. Neat(heap, owned) /\ heap[x].next = NULL
  BY DEF CallerInv, Trees, Alone
<1>2. x \in DOMAIN heap
  BY <1>1, RootAlone
<1>3. Below(heap, {x}) = Tree(x)
  BY <1>1, <1>2, BelowIsTree DEF TreeOf, Tree
<1>4. QED
  BY <1>3 DEF Shown, NotShown

LEMMA DeleteKeeps ==
  ASSUME CallerInv, NEW x, Delete(x)
  PROVE  CallerInv'
<1>1. x \in owned /\ NotShown(heap, Below(heap, {x}))
  BY GoesAlone DEF Delete
<1>2. Without(heap, strings, Below(heap, {x})) /\ owned' = owned \ {x} /\ UNCHANGED parserVars
  BY DEF Delete, cJSON_Delete
<1>3. QED
  BY <1>1, <1>2, DropKeeps

LEMMA HandleMessageKeeps ==
  ASSUME CallerInv, NEW x, HandleMessage(x)
  PROVE  CallerInv'
<1>1. x \in owned /\ NotShown(heap, Below(heap, {x}))
  BY GoesAlone DEF HandleMessage
<1>2. Without(heap, strings, Below(heap, {x})) /\ owned' = owned \ {x} /\ UNCHANGED parserVars
  BY DEF HandleMessage, cJSON_Delete, Lose
<1>3. QED
  BY <1>1, <1>2, DropKeeps

LEMMA BuildKeeps ==
  ASSUME CallerInv, Build
  PROVE  CallerInv'
<1>1. CASE \E type \in Types : Create(type)
  BY <1>1, CreateKeeps
<1>2. CASE \E x \in DOMAIN heap : Delete(x)
  BY <1>2, DeleteKeeps
<1>3. ASSUME NEW a \in DOMAIN heap, NEW x \in DOMAIN heap,
             \/ AddItemToArray(a, x) \/ AddItemToObject(a, x)
             \/ AddItemReferenceToArray(a, x) \/ AddItemReferenceToObject(a, x)
             \/ DetachItem(a, x)
      PROVE  CallerInv'
  BY <1>3, AddKeeps, AddToObjectKeeps, AddReferenceKeeps, AddReferenceToObjectKeeps, DetachKeeps
<1>4. ASSUME NEW a \in DOMAIN heap, NEW x \in DOMAIN heap, NEW y \in DOMAIN heap,
             \/ InsertItemInArray(a, y, x)
             \/ ReplaceItemInArray(a, y, x) \/ ReplaceItemInObject(a, y, x)
      PROVE  CallerInv'
  BY <1>4, InsertKeeps, ReplaceKeeps, ReplaceInObjectKeeps
<1>5. QED
  BY <1>1, <1>2, <1>3, <1>4 DEF Build

-----------------------------------------------------------------------------
(* The parser: its forest has the item it returns and the lists of the open *)
(* arrays and objects; each of these is for the item the parser was at.     *)
Frame == [item : Items, type : {"array", "object"},
          head : Items \cup {NULL}, current_item : Items \cup {NULL}]

ParseRoots(f, r) == ({r} \cup {f[i].head : i \in DOMAIN f}) \ {NULL}

HeadsApart(f, r) ==
  \A i \in DOMAIN f : f[i].head # NULL =>
    f[i].head # r /\ \A j \in DOMAIN f : f[j].head = f[i].head => j = i

(* The list that the item of frame i is in. *)
Holder(f, r, i) == IF i = 1 THEN r ELSE f[i - 1].head

HoldersApart(f, r) ==
  \A i, j \in DOMAIN f : /\ i <= j => f[j].head # Holder(f, r, i)
                         /\ i # j => Holder(f, r, j) # Holder(f, r, i)

FrameOK(h, f, r, i) ==
  /\ f[i].item = IF i = 1 THEN r ELSE f[i - 1].current_item
  /\ h[f[i].item].child = NULL
  /\ f[i].head = NULL <=> f[i].current_item = NULL
  /\ f[i].head # NULL => /\ f[i].current_item \in Below(h, {f[i].head})
                         /\ h[f[i].current_item].next = NULL

Built(h, f, r) ==
  /\ f \in Seq(Frame)
  /\ Neat(h, ParseRoots(f, r))
  /\ r \in Items /\ h[r].next = NULL
  /\ \A x \in DOMAIN h : ~h[x].IsReference /\ ~h[x].StringIsConst
  /\ HeadsApart(f, r)
  /\ \A i \in DOMAIN f : FrameOK(h, f, r, i)

ParserInv ==
  /\ expect \in {"value", "name", "first", "after", "fail"}
  /\ owned = {}
  /\ Built(heap, frames, root)
  /\ Counted(heap, strings) /\ strings \in Nat
  /\ expect \in {"value", "name"} => /\ Target \in DOMAIN heap
                                     /\ heap[Target].child = NULL
                                     /\ heap[Target].valuestring = "none"
  /\ expect = "name" => heap[Target].string = "none"
  /\ expect \in {"name", "first"} => frames # <<>>

(* The items of the frames are in trees of their own. *)
LEMMA FramesApart ==
  ASSUME NEW h, NEW f, NEW r, Built(h, f, r)
  PROVE  /\ r \in ParseRoots(f, r) /\ r \in Below(h, {r})
         /\ \A i \in DOMAIN f :
              /\ f[i].head # NULL => f[i].head \in ParseRoots(f, r)
              /\ Holder(f, r, i) \in ParseRoots(f, r)
              /\ f[i].item \in DOMAIN h
              /\ f[i].item \in Below(h, {Holder(f, r, i)})
         /\ HoldersApart(f, r)
         /\ \A x, y \in ParseRoots(f, r) : x # y => Below(h, {x}) \cap Below(h, {y}) = {}
         /\ \A x \in ParseRoots(f, r) : x # NULL /\ x \in DOMAIN h /\ Below(h, {x}) \subseteq DOMAIN h
<1> DEFINE R == ParseRoots(f, r)
<1> DEFINE to == Links(h)
<1>1. Neat(h, R) /\ f \in Seq(Frame) /\ HeadsApart(f, r) /\ r \in Items
      /\ \A i \in DOMAIN f : FrameOK(h, f, r, i)
  BY DEF Built
<1>2. r # NULL /\ r \in R
  BY <1>1, JsonAssumption DEF ParseRoots
<1>3. Forest(to, R) /\ \A x \in DOMAIN to : to[x] \subseteq DOMAIN to
  BY <1>1, ForestSteps DEF Neat
<1>4. \A x \in R : x \in DOMAIN h /\ x # NULL /\ Below(h, {x}) = Reach(to, {x})
  <2>1. \A x \in R : x \in DOMAIN h /\ x # NULL
    BY <1>1, RootAlone
  <2>2. QED
    BY <2>1, BelowOne
<1>5. DOMAIN to = DOMAIN h
  BY LinksAt
<1> HIDE DEF to, R
<1>6. \A x \in R : x \in Below(h, {x}) /\ Below(h, {x}) \subseteq DOMAIN h
  <2>1. ASSUME NEW x \in R PROVE x \in Reach(to, {x}) /\ Reach(to, {x}) \subseteq DOMAIN to
    <3>1. {x} \subseteq DOMAIN to
      BY <1>4, <1>5
    <3>2. QED
      BY <1>3, <3>1, ReachHolds
  <2>2. QED
    BY <1>4, <1>5, <2>1
<1>7. \A x, y \in R : x # y => Below(h, {x}) \cap Below(h, {y}) = {}
  <2>1. ASSUME NEW x \in R, NEW y \in R, x # y
        PROVE  Reach(to, {x}) \cap Reach(to, {y}) = {}
    BY <1>3, <2>1, ReachesApart
  <2>2. QED
    BY <1>4, <2>1
<1>8. \A i \in DOMAIN f : /\ f[i] \in Frame
                          /\ i \in Nat /\ i >= 1
                          /\ i # 1 => i - 1 \in DOMAIN f
  BY <1>1
<1>9. \A i \in DOMAIN f : f[i].head # NULL => f[i].head \in R
  BY DEF R, ParseRoots
<1>10. ASSUME NEW i \in DOMAIN f
       PROVE  /\ Holder(f, r, i) \in R
              /\ f[i].item \in Below(h, {Holder(f, r, i)})
              /\ \A j \in DOMAIN f : i <= j => f[j].head # Holder(f, r, i)
              /\ \A j \in DOMAIN f : i < j => Holder(f, r, j) # Holder(f, r, i)
  <2>1. FrameOK(h, f, r, i) /\ f[i].item \in Items
    BY <1>1, <1>8 DEF Frame
  <2>2. CASE i = 1
    <3>1. Holder(f, r, i) = r /\ f[i].item = r
      BY <2>1, <2>2 DEF Holder, FrameOK
    <3>2. \A j \in DOMAIN f : f[j].head # r
      BY <1>1, <1>2 DEF HeadsApart
    <3>3. \A j \in DOMAIN f : i < j => Holder(f, r, j) # r
      BY <1>8, <2>2, <3>2 DEF Holder
    <3>4. QED
      BY <1>2, <1>6, <3>1, <3>2, <3>3
  <2>3. CASE i # 1
    <3>1. i - 1 \in DOMAIN f /\ FrameOK(h, f, r, i - 1)
      BY <1>1, <1>8, <2>3
    <3>2. Holder(f, r, i) = f[i - 1].head /\ f[i].item = f[i - 1].current_item
      BY <2>1, <2>3 DEF Holder, FrameOK
    <3>3. f[i - 1].head # NULL /\ f[i].item \in Below(h, {f[i - 1].head})
      BY <2>1, <3>1, <3>2, JsonAssumption DEF FrameOK
    <3>4. \A j \in DOMAIN f : f[j].head = f[i - 1].head => j = i - 1
      BY <1>1, <3>1, <3>3 DEF HeadsApart
    <3>5. \A j \in DOMAIN f : i <= j => f[j].head # f[i - 1].head
      BY <1>8, <3>4
    <3>6. \A j \in DOMAIN f : i < j => Holder(f, r, j) # f[i - 1].head
      BY <1>8, <3>4 DEF Holder
    <3>7. QED
      BY <1>9, <3>1, <3>2, <3>3, <3>5, <3>6
  <2>4. QED
    BY <2>2, <2>3
<1>11. ASSUME NEW i \in DOMAIN f, NEW j \in DOMAIN f, i # j
       PROVE  Holder(f, r, j) # Holder(f, r, i)
  <2>1. i < j \/ j < i
    <3>1. i \in Nat /\ j \in Nat
      BY <1>8
    <3>2. QED
      BY <1>11, <3>1
  <2>2. i < j => Holder(f, r, j) # Holder(f, r, i)
    BY <1>10
  <2>3. j < i => Holder(f, r, i) # Holder(f, r, j)
    BY <1>10
  <2>4. QED
    BY <2>1, <2>2, <2>3
<1>12. QED
  BY <1>2, <1>4, <1>6, <1>7, <1>9, <1>10, <1>11 DEF R, HoldersApart

(* What an item is or is called does not matter. *)
LEMMA BuiltSameLinks ==
  ASSUME NEW h, NEW f, NEW r, Built(h, f, r), NEW h2, Heap(h2), SameLinks(h, h2),
         \A x \in DOMAIN h2 : ~h2[x].StringIsConst
  PROVE  Built(h2, f, r)
<1>1. Neat(h, ParseRoots(f, r))
  BY DEF Built
<1>2. Neat(h2, ParseRoots(f, r)) /\ Links(h2) = Links(h)
  BY <1>1, NeatSameLinks
<1>3. \A S : Below(h2, S) = Below(h, S)
  BY <1>2 DEF Below
<1>4. r \in DOMAIN h
  BY FramesApart
<1>5. ASSUME NEW i \in DOMAIN f PROVE FrameOK(h2, f, r, i)
  <2>1. FrameOK(h, f, r, i)
    BY DEF Built
  <2>2. f[i].item \in DOMAIN h
    BY FramesApart
  <2>3. f[i].head # NULL => f[i].current_item \in DOMAIN h
    <3>1. f[i].head # NULL => f[i].head \in ParseRoots(f, r)
      BY FramesApart
    <3>2. \A x \in ParseRoots(f, r) : Below(h, {x}) \subseteq DOMAIN h
      BY FramesApart
    <3>3. QED
      BY <2>1, <3>1, <3>2 DEF FrameOK
  <2>4. QED
    BY <1>3, <2>1, <2>2, <2>3 DEF FrameOK, SameLinks
<1>6. QED
  BY <1>2, <1>4, <1>5 DEF Built, SameLinks

(* A new item of the list of the last frame. *)
Growing(f, n) ==
  [f EXCEPT ![Len(f)].head = IF @ = NULL THEN n ELSE @, ![Len(f)].current_item = n]

LEMMA GrowingFields ==
  ASSUME NEW f \in Seq(Frame), f # <<>>, NEW n \in Items
  PROVE  /\ Growing(f, n) \in Seq(Frame)
         /\ DOMAIN Growing(f, n) = DOMAIN f /\ Len(f) \in DOMAIN f
         /\ Len(Growing(f, n)) = Len(f)
         /\ \A i \in DOMAIN f : /\ i \in Nat /\ i >= 1 /\ i <= Len(f)
                                /\ f[i] \in Frame
                                /\ Growing(f, n)[i].item = f[i].item
                                /\ i # Len(f) => Growing(f, n)[i] = f[i]
         /\ Growing(f, n)[Len(f)].head = IF f[Len(f)].head = NULL THEN n ELSE f[Len(f)].head
         /\ Growing(f, n)[Len(f)].current_item = n
<1> DEFINE k == Len(f)
<1>1. k \in Nat \ {0} /\ DOMAIN f = 1 .. k /\ f \in [1 .. k -> Frame] /\ k \in 1 .. k
  OBVIOUS
<1> DEFINE g == [f[k] EXCEPT !.head = IF @ = NULL THEN n ELSE @, !.current_item = n]
<1>2. Growing(f, n) = [f EXCEPT ![k] = g]
  BY <1>1 DEF Growing
<1>3. /\ g \in Frame /\ g.item = f[k].item /\ g.current_item = n
      /\ g.head = IF f[k].head = NULL THEN n ELSE f[k].head
  <2>1. f[k] \in Frame
    BY <1>1
  <2>2. QED
    BY <2>1 DEF Frame
<1> HIDE DEF g
<1>4. [f EXCEPT ![k] = g] \in [1 .. k -> Frame]
  BY <1>1, <1>3
<1>5. [f EXCEPT ![k] = g] \in Seq(Frame) /\ Len([f EXCEPT ![k] = g]) = k
  BY <1>1, <1>3
<1>6. QED
  BY <1>1, <1>2, <1>3, <1>4, <1>5

Grows(h, h2) ==
  DOMAIN h \subseteq DOMAIN h2 /\ \A z \in DOMAIN h : Links(h)[z] \subseteq Links(h2)[z]

LEMMA BelowGrows ==
  ASSUME NEW h, NEW R, Neat(h, R), NEW h2, NEW R2, Neat(h2, R2), Grows(h, h2), NEW x \in R
  PROVE  /\ Below(h, {x}) \subseteq Below(h2, {x})
         /\ \A z \in Below(h2, {x}) : Links(h2)[z] \subseteq Below(h2, {x})
<1> DEFINE to == Links(h)
<1> DEFINE to2 == Links(h2)
<1>1. DOMAIN to = DOMAIN h /\ DOMAIN to2 = DOMAIN h2
  BY LinksAt
<1>2. /\ \A z \in DOMAIN to : to[z] \subseteq DOMAIN to
      /\ \A z \in DOMAIN to2 : to2[z] \subseteq DOMAIN to2
  <2>1. Forest(to, R) /\ Forest(to2, R2)
    BY DEF Neat
  <2>2. QED
    BY <2>1, ForestSteps
<1>3. x # NULL /\ {x} \subseteq DOMAIN to /\ {x} \subseteq DOMAIN to2
  BY <1>1, RootAlone DEF Grows
<1>4. \A z \in DOMAIN to : to[z] \subseteq to2[z]
  BY <1>1 DEF Grows
<1>5. DOMAIN to \subseteq DOMAIN to2
  BY <1>1 DEF Grows
<1>6. Below(h, {x}) = Reach(to, {x}) /\ Below(h2, {x}) = Reach(to2, {x})
  BY <1>3, BelowOne
<1> HIDE DEF to, to2
<1>7. Reach(to, {x}) \subseteq Reach(to2, {x})
  BY <1>2, <1>3, <1>4, <1>5, ReachGrows
<1>8. Closed(to2, Reach(to2, {x}))
  BY <1>2, <1>3, ReachHolds
<1>9. QED
  BY <1>6, <1>7, <1>8 DEF Closed, to2

Fresh(h, n) ==
  n \in DOMAIN h /\ h[n].child = NULL /\ h[n].string = "none" /\ h[n].valuestring = "none"

WithNext(h, f, n) ==
  IF f[Len(f)].head = NULL THEN With(h, n, Zeroed)
  ELSE Linked(With(h, n, Zeroed), f[Len(f)].current_item, n)

LEMMA BuiltNewItem ==
  ASSUME NEW h, NEW f, NEW r, Built(h, f, r), f # <<>>, NEW n \in Items \ DOMAIN h,
         NEW h2, h2 = WithNext(h, f, n)
  PROVE  /\ Built(h2, Growing(f, n), r)
         /\ OnlyLinks(With(h, n, Zeroed), h2)
         /\ Fresh(h2, n)
<1> DEFINE R == ParseRoots(f, r)
<1> DEFINE k == Len(f)
<1> DEFINE g == Growing(f, n)
<1> DEFINE h1 == With(h, n, Zeroed)
<1>1. /\ Neat(h, R) /\ f \in Seq(Frame) /\ Heap(h) /\ r \in Items /\ h[r].next = NULL
      /\ HeadsApart(f, r) /\ (\A i \in DOMAIN f : FrameOK(h, f, r, i))
      /\ \A x \in DOMAIN h : ~h[x].IsReference /\ ~h[x].StringIsConst
  BY DEF Built, Neat
<1>2. /\ g \in Seq(Frame) /\ DOMAIN g = DOMAIN f /\ k \in DOMAIN f
      /\ \A i \in DOMAIN f : /\ i \in Nat /\ i >= 1 /\ i <= k
                             /\ f[i] \in Frame
                             /\ g[i].item = f[i].item
                             /\ i # k => g[i] = f[i]
      /\ g[k].head = (IF f[k].head = NULL THEN n ELSE f[k].head)
      /\ g[k].current_item = n
  BY <1>1, GrowingFields
<1>3. /\ Zeroed \in JsonItem
      /\ Zeroed.next = NULL /\ Zeroed.prev = NULL /\ Zeroed.child = NULL
      /\ Zeroed.IsReference = FALSE /\ Zeroed.StringIsConst = FALSE
  BY DEF Zeroed, JsonItem, Kinds
<1>4. /\ Heap(h1) /\ DOMAIN h1 = DOMAIN h \cup {n} /\ h1[n] = Zeroed
      /\ \A z \in DOMAIN h : h1[z] = h[z]
  <2>1. Heap(h) /\ Zeroed \in JsonItem /\ n \in Items \ DOMAIN h
    BY <1>1, <1>3
  <2>2. Heap(h1)
    BY <2>1, WithFields
  <2>3. QED
    BY <2>2 DEF With
<1>5. Neat(h1, R \cup {n})
  <2>1. Zeroed.child \in DOMAIN h \cup {NULL} /\ (Zeroed.IsReference \/ Zeroed.child = NULL)
    BY <1>3
  <2>2. QED
    BY <1>1, <1>3, <2>1, NeatWith
<1>6. /\ r \in Below(h, {r})
      /\ \A i \in DOMAIN f : f[i].item \in DOMAIN h /\ (f[i].head # NULL => f[i].head \in R)
      /\ \A x \in R : \A y \in R : x # y => Below(h, {x}) \cap Below(h, {y}) = {}
      /\ \A x \in R : x # NULL /\ x \in DOMAIN h /\ Below(h, {x}) \subseteq DOMAIN h
      /\ r \in R
  <2>1. Built(h, f, r)
    OBVIOUS
  <2>2. QED
    BY <2>1, FramesApart
<1> HIDE DEF h1, g, R
<1>7. n # NULL /\ n \notin R /\ r \in R /\ r \in DOMAIN h /\ r # NULL
  <2>1. r \in R /\ \A x \in R : x \in DOMAIN h /\ x # NULL
    BY <1>6
  <2>2. QED
    BY <2>1, JsonAssumption
<1>8. \A z \in DOMAIN h : Links(h)[z] = Links(h1)[z]
  BY <1>4, SameLinksOf
<1>9. /\ Neat(h2, ParseRoots(g, r))
      /\ DOMAIN h2 = DOMAIN h \cup {n} /\ OnlyLinks(h1, h2)
      /\ \A z \in DOMAIN h : Links(h)[z] \subseteq Links(h2)[z]
      /\ h2[n].child = NULL /\ h2[n].next = NULL
      /\ \A z \in DOMAIN h : /\ h2[z].child = h[z].child
                             /\ f[k].head = NULL \/ z # f[k].current_item => h2[z].next = h[z].next
      /\ n \in Below(h2, {g[k].head})
  <2>1. CASE f[k].head = NULL
    <3>1. ParseRoots(g, r) = R \cup {n}
      <4>1. \A i \in DOMAIN f : g[i].head = IF i = k THEN n ELSE f[i].head
        BY <1>2, <2>1
      <4>2. {g[i].head : i \in DOMAIN g} \ {NULL} = ({f[i].head : i \in DOMAIN f} \ {NULL}) \cup {n}
        BY <1>2, <1>7, <2>1, <4>1
      <4>3. QED
        BY <4>2 DEF ParseRoots, R
    <3>2. h2 = h1 /\ g[k].head = n
      BY <1>2, <2>1 DEF h1, WithNext
    <3>3. Neat(h2, R \cup {n}) /\ n \in R \cup {n} /\ Neat(h1, R \cup {n})
      BY <1>5, <3>2
    <3>4. n \in Below(h2, {n})
      <4>1. {n} \subseteq DOMAIN Links(h2)
        BY <1>4, <3>2, LinksAt
      <4>2. n \in Reach(Links(h2), {n})
        BY <3>3, <4>1, ReachHolds, ForestSteps DEF Neat
      <4>3. QED
        BY <1>7, <4>2, BelowOne
    <3>5. QED
      BY <1>3, <1>4, <1>8, <2>1, <3>1, <3>2, <3>3, <3>4 DEF OnlyLinks
  <2>2. CASE f[k].head # NULL
    <3> DEFINE c == f[k].current_item
    <3>1. ParseRoots(g, r) = R
      <4>1. \A i \in DOMAIN f : g[i].head = f[i].head
        BY <1>2, <2>2
      <4>2. QED
        BY <1>2, <4>1 DEF ParseRoots, R
    <3>2. FrameOK(h, f, r, k)
      BY <1>1, <1>2
    <3>3. c \in Below(h, {f[k].head}) /\ h[c].next = NULL
      BY <2>2, <3>2 DEF FrameOK
    <3>4. f[k].head \in R /\ Below(h, {f[k].head}) \subseteq DOMAIN h
      BY <1>2, <2>2, <1>6
    <3>5. c \in DOMAIN h
      BY <3>3, <3>4
    <3> HIDE DEF c
    <3>6. Below(h1, {n}) = {n}
      <4>1. n \in DOMAIN h1 /\ h1[n].next = NULL /\ h1[n].child = NULL
        BY <1>3, <1>4
      <4>2. Below(h1, {n}) = TreeOf(h1, n)
        BY <1>5, <4>1, BelowIsTree
      <4>3. QED
        BY <4>1, <4>2, ReachOfNothing DEF TreeOf, Below
    <3>7. n # c /\ c \in DOMAIN h1 /\ n \in DOMAIN h1 /\ c # n /\ h1[c].next = NULL
          /\ c \notin Below(h1, {n}) /\ n \in R \cup {n} /\ (R \cup {n}) \ {n} = R
      BY <1>4, <1>7, <3>3, <3>5, <3>6
    <3>8. h2 = Linked(h1, c, n)
      BY <2>2 DEF h1, c, WithNext
    <3>9. /\ Neat(h2, R)
          /\ \A z \in DOMAIN h1 : Links(h1)[z] \subseteq Links(h2)[z]
          /\ n \in Links(h2)[c]
      <4> DEFINE Q == R \cup {n}
      <4>1. Neat(h1, Q) /\ n \in Q /\ Q \ {n} = R
        BY <1>5, <3>7
      <4> HIDE DEF Q
      <4>2. /\ Neat(Linked(h1, c, n), Q \ {n})
            /\ \A z \in DOMAIN h1 : Links(h1)[z] \subseteq Links(Linked(h1, c, n))[z]
            /\ n \in Links(Linked(h1, c, n))[c]
        BY <3>7, <4>1, NeatLinked
      <4>3. QED
        BY <3>8, <4>1, <4>2
    <3>10. /\ OnlyLinks(h1, h2)
           /\ \A z \in DOMAIN h1 : /\ h2[z].next = IF z = c THEN n ELSE h1[z].next
                                   /\ h2[z].child = h1[z].child
      BY <1>4, <3>7, <3>8, LinkedFields
    <3>11. DOMAIN h2 = DOMAIN h \cup {n}
      BY <1>4, <3>10 DEF OnlyLinks
    <3>12. \A z \in DOMAIN h : Links(h)[z] \subseteq Links(h2)[z]
      BY <1>4, <1>8, <3>9
    <3>13. n \in Below(h2, {f[k].head})
      <4> DEFINE d == f[k].head
      <4>1. /\ d \in R /\ DOMAIN h \subseteq DOMAIN h2 /\ c \in Below(h, {d})
        BY <3>3, <3>4, <3>11
      <4> HIDE DEF d
      <4>2. /\ Below(h, {d}) \subseteq Below(h2, {d})
            /\ \A z \in Below(h2, {d}) : Links(h2)[z] \subseteq Below(h2, {d})
        <5>1. Grows(h, h2)
          BY <3>12, <4>1 DEF Grows
        <5>2. QED
          BY <1>1, <3>9, <4>1, <5>1, BelowGrows
      <4>3. QED
        BY <3>9, <4>1, <4>2 DEF d
    <3>14. h2[n].child = NULL /\ h2[n].next = NULL
      BY <1>3, <1>4, <3>7, <3>10
    <3>15. g[k].head = f[k].head
      BY <1>2, <2>2
    <3>16. \A z \in DOMAIN h : h2[z].child = h[z].child /\ (z # c => h2[z].next = h[z].next)
      BY <1>4, <3>10
    <3>17. QED
      BY <2>2, <3>1, <3>9, <3>10, <3>11, <3>12, <3>13, <3>14, <3>15, <3>16 DEF c
  <2>3. QED
    BY <2>1, <2>2
<1>10. \A x \in R : Below(h, {x}) \subseteq Below(h2, {x})
  <2>1. Grows(h, h2)
    BY <1>9 DEF Grows
  <2>2. QED
    BY <1>1, <1>9, <2>1, BelowGrows
<1>11. \A x \in DOMAIN h2 : ~h2[x].IsReference /\ ~h2[x].StringIsConst
  BY <1>1, <1>3, <1>4, <1>9 DEF OnlyLinks
<1>12. HeadsApart(g, r)
  <2>1. \A i \in DOMAIN f : f[i].head # n
    BY <1>7 DEF R, ParseRoots
  <2>2. \A i \in DOMAIN f : i # k => g[i].head = f[i].head
    BY <1>2
  <2>3. n # r
    BY <1>7
  <2>4. QED
    BY <1>1, <1>2, <2>1, <2>2, <2>3 DEF HeadsApart
<1>13. h2[r].next = NULL
  <2>1. f[k].head # NULL => r # f[k].current_item
    <3>1. f[k].head # NULL => f[k].current_item \in Below(h, {f[k].head})
      BY <1>1, <1>2 DEF FrameOK
    <3>2. f[k].head # NULL => Below(h, {f[k].head}) \cap Below(h, {r}) = {}
      <4>1. f[k].head # NULL => f[k].head # r /\ f[k].head \in R
        BY <1>1, <1>2, <1>6 DEF HeadsApart
      <4>2. QED
        BY <1>7, <4>1, <1>6
    <3>3. r \in Below(h, {r})
      BY <1>6
    <3>4. QED
      BY <3>1, <3>2, <3>3
  <2>2. QED
    BY <1>1, <1>7, <1>9, <2>1
<1>14. ASSUME NEW i \in DOMAIN f PROVE FrameOK(h2, g, r, i)
  <2>1. FrameOK(h, f, r, i) /\ f[i].item \in DOMAIN h
    BY <1>1, <1>6
  <2>2. g[i].item = IF i = 1 THEN r ELSE g[i - 1].current_item
    <3>1. i # 1 => i - 1 \in DOMAIN f /\ i - 1 # k
      BY <1>1, <1>2
    <3>2. QED
      BY <1>2, <2>1, <3>1 DEF FrameOK
  <2>3. h2[g[i].item].child = NULL
    BY <1>2, <1>9, <2>1 DEF FrameOK
  <2>4. CASE i = k
    BY <1>2, <1>7, <1>9, <2>2, <2>3, <2>4 DEF FrameOK
  <2>5. CASE i # k
    <3>1. g[i] = f[i]
      BY <1>2, <2>5
    <3>2. ASSUME f[i].head # NULL
          PROVE  /\ f[i].current_item \in Below(h2, {f[i].head})
                 /\ h2[f[i].current_item].next = NULL
      <4>1. f[i].head \in R /\ Below(h, {f[i].head}) \subseteq DOMAIN h
        BY <3>2, <1>6
      <4>2. f[i].current_item \in Below(h, {f[i].head}) /\ h[f[i].current_item].next = NULL
        BY <2>1, <3>2 DEF FrameOK
      <4>3. ASSUME f[k].head # NULL PROVE f[k].current_item # f[i].current_item
        <5>1. f[k].head \in R /\ f[k].head # f[i].head
          BY <1>1, <1>2, <2>5, <3>2, <4>3, <1>6 DEF HeadsApart
        <5>2. Below(h, {f[k].head}) \cap Below(h, {f[i].head}) = {}
          BY <4>1, <5>1, <1>6
        <5>3. f[k].current_item \in Below(h, {f[k].head})
          BY <1>1, <1>2, <4>3 DEF FrameOK
        <5>4. QED
          BY <4>2, <5>2, <5>3
      <4>4. QED
        BY <1>9, <1>10, <4>1, <4>2, <4>3
    <3>3. QED
      BY <2>1, <2>2, <2>3, <3>1, <3>2 DEF FrameOK
  <2>6. QED
    BY <2>4, <2>5
<1>15. Built(h2, g, r)
  BY <1>1, <1>2, <1>9, <1>11, <1>12, <1>13, <1>14 DEF Built
<1>16. Fresh(h2, n)
  <2>1. Zeroed.string = "none" /\ Zeroed.valuestring = "none"
    BY DEF Zeroed
  <2>2. QED
    BY <1>4, <1>9, <2>1 DEF OnlyLinks, Fresh
<1>17. QED
  BY <1>9, <1>15, <1>16 DEF g, h1

LEMMA FrontFields ==
  ASSUME NEW f \in Seq(Frame), f # <<>>
  PROVE  /\ Front(f) \in Seq(Frame)
         /\ DOMAIN Front(f) = DOMAIN f \ {Len(f)} /\ Len(f) \in DOMAIN f
         /\ \A i \in DOMAIN Front(f) : Front(f)[i] = f[i]
         /\ \A i \in DOMAIN f : i \in Nat /\ i <= Len(f) /\ f[i] \in Frame
<1>1. Len(f) \in Nat \ {0} /\ DOMAIN f = 1 .. Len(f)
  OBVIOUS
<1>2. Front(f) = [i \in 1 .. (Len(f) - 1) |-> f[i]]
  BY <1>1 DEF Front
<1>3. QED
  BY <1>1, <1>2

(* The last frame goes, and its list with it or into its item. *)
Closes(h, f, r, h2) ==
  /\ Neat(h2, ParseRoots(f, r) \ {f[Len(f)].head})
  /\ \A z \in DOMAIN h2 : /\ z \in DOMAIN h
                          /\ h2[z].next = h[z].next
                          /\ h2[z].IsReference = h[z].IsReference
                          /\ h2[z].StringIsConst = h[z].StringIsConst
                          /\ z # f[Len(f)].item => h2[z].child = h[z].child
  /\ \A x \in ParseRoots(f, r) \ {f[Len(f)].head} : Below(h, {x}) \subseteq Below(h2, {x})

LEMMA BuiltFront ==
  ASSUME NEW h, NEW f, NEW r, Built(h, f, r), f # <<>>, NEW h2,
         Closes(h, f, r, h2)
  PROVE  Built(h2, Front(f), r)
<1> DEFINE R == ParseRoots(f, r)
<1> DEFINE k == Len(f)
<1> DEFINE g == Front(f)
<1> DEFINE d == f[k].head
<1>1. /\ f \in Seq(Frame) /\ r \in Items /\ h[r].next = NULL
      /\ HeadsApart(f, r) /\ (\A i \in DOMAIN f : FrameOK(h, f, r, i))
      /\ \A x \in DOMAIN h : ~h[x].IsReference /\ ~h[x].StringIsConst
  BY DEF Built
<1>2. /\ g \in Seq(Frame) /\ DOMAIN g = DOMAIN f \ {k} /\ k \in DOMAIN f
      /\ \A i \in DOMAIN g : g[i] = f[i]
      /\ \A i \in DOMAIN f : i \in Nat /\ i <= k
  BY <1>1, FrontFields
<1>3. /\ r \in R /\ r \in Below(h, {r})
      /\ \A i \in DOMAIN f : /\ f[i].head # NULL => f[i].head \in R
                             /\ Holder(f, r, i) \in R
                             /\ f[i].item \in Below(h, {Holder(f, r, i)})
      /\ HoldersApart(f, r)
      /\ \A x \in R : \A y \in R : x # y => Below(h, {x}) \cap Below(h, {y}) = {}
  <2>1. Built(h, f, r)
    OBVIOUS
  <2>2. /\ r \in R /\ r \in Below(h, {r}) /\ HoldersApart(f, r)
        /\ \A x \in R : \A y \in R : x # y => Below(h, {x}) \cap Below(h, {y}) = {}
    BY <2>1, FramesApart
  <2>3. ASSUME NEW i \in DOMAIN f
        PROVE  /\ f[i].head # NULL => f[i].head \in R
               /\ Holder(f, r, i) \in R
               /\ f[i].item \in Below(h, {Holder(f, r, i)})
    BY <2>1, FramesApart
  <2>4. QED
    BY <2>2, <2>3
<1>4. /\ Neat(h2, R \ {d}) /\ \A x \in R \ {d} : Below(h, {x}) \subseteq Below(h2, {x})
      /\ \A z \in DOMAIN h2 : /\ z \in DOMAIN h
                              /\ h2[z].next = h[z].next
                              /\ h2[z].IsReference = h[z].IsReference
                              /\ h2[z].StringIsConst = h[z].StringIsConst
                              /\ z # f[k].item => h2[z].child = h[z].child
  BY DEF Closes
<1>5. \A S : Below(h2, S) \subseteq DOMAIN h2
  BY DEF Below, Reach, Links
<1> HIDE DEF R, g, k, d
<1>6. ParseRoots(g, r) = R \ {d}
  <2>1. {g[i].head : i \in DOMAIN g} = {f[i].head : i \in DOMAIN f \ {k}}
    BY <1>2
  <2>2. d # NULL => d # r /\ \A i \in DOMAIN f \ {k} : f[i].head # d
    BY <1>1, <1>2 DEF HeadsApart, d
  <2>3. \A i \in DOMAIN f : f[i].head = d \/ i \in DOMAIN f \ {k}
    BY DEF d
  <2>4. QED
    BY <1>2, <2>1, <2>2, <2>3 DEF ParseRoots, R, d
<1>7. r # d
  BY <1>1, <1>2, JsonAssumption DEF HeadsApart, d
<1>8. r \in DOMAIN h2 /\ h2[r].next = NULL
  <2>1. r \in DOMAIN h2
    BY <1>3, <1>4, <1>5, <1>7
  <2>2. QED
    BY <1>1, <1>4, <2>1
<1>9. HeadsApart(g, r)
  BY <1>1, <1>2 DEF HeadsApart
<1>10. ASSUME NEW i \in DOMAIN g PROVE FrameOK(h2, g, r, i)
  <2>1. i \in DOMAIN f /\ i # k /\ i <= k /\ g[i] = f[i] /\ FrameOK(h, f, r, i)
    BY <1>1, <1>2
  <2>2. i # 1 => i - 1 \in DOMAIN g /\ g[i - 1] = f[i - 1]
    <3>1. i # 1 => i - 1 \in DOMAIN f /\ i - 1 # k
      BY <1>1, <1>2, <2>1
    <3>2. QED
      BY <1>2, <3>1
  <2>3. f[i].item \in DOMAIN h2 /\ f[i].item # f[k].item
    <3>1. Holder(f, r, i) \in R \ {d}
      BY <1>2, <1>3, <2>1 DEF d, HoldersApart
    <3>2. f[i].item \in Below(h2, {Holder(f, r, i)})
      BY <1>3, <1>4, <2>1, <3>1
    <3>3. Below(h, {Holder(f, r, i)}) \cap Below(h, {Holder(f, r, k)}) = {}
      BY <1>2, <1>3, <2>1 DEF HoldersApart
    <3>4. f[i].item \in Below(h, {Holder(f, r, i)}) /\ f[k].item \in Below(h, {Holder(f, r, k)})
      BY <1>2, <1>3, <2>1
    <3>5. QED
      BY <1>5, <3>2, <3>3, <3>4
  <2>4. h2[f[i].item].child = NULL
    BY <1>4, <2>1, <2>3 DEF FrameOK
  <2>5. ASSUME f[i].head # NULL
        PROVE  /\ f[i].current_item \in Below(h2, {f[i].head})
               /\ h2[f[i].current_item].next = NULL
    <3>1. f[i].head \in R /\ f[i].head # d
      BY <1>1, <1>2, <1>3, <2>1, <2>5 DEF HeadsApart, d
    <3>2. f[i].current_item \in Below(h2, {f[i].head}) /\ h[f[i].current_item].next = NULL
      BY <1>4, <2>1, <2>5, <3>1 DEF FrameOK
    <3>3. f[i].current_item \in DOMAIN h2
      BY <1>5, <3>2
    <3>4. QED
      BY <1>4, <3>2, <3>3
  <2>6. QED
    BY <2>1, <2>2, <2>4, <2>5 DEF FrameOK
<1>11. \A x \in DOMAIN h2 : ~h2[x].IsReference /\ ~h2[x].StringIsConst
  BY <1>1, <1>4
<1>12. QED
  BY <1>1, <1>2, <1>4, <1>6, <1>8, <1>9, <1>10, <1>11 DEF Built, g

(* The list gets its place in the item of its frame. *)
WithList(h, t) == [h EXCEPT ![t.item].type = t.type, ![t.item].child = t.head]

LEMMA BuiltSuccess ==
  ASSUME NEW h, NEW f, NEW r, NEW n, Built(h, f, r), f # <<>>, Counted(h, n),
         NEW t, t = f[Len(f)], NEW h2, h2 = WithList(h, t)
  PROVE  Built(h2, Front(f), r) /\ Counted(h2, n)
<1> DEFINE R == ParseRoots(f, r)
<1> DEFINE k == Len(f)
<1> DEFINE h1 == [h EXCEPT ![t.item].type = t.type]
<1>1. /\ f \in Seq(Frame) /\ k \in DOMAIN f /\ t \in Frame
      /\ Heap(h) /\ Neat(h, R) /\ FrameOK(h, f, r, k)
      /\ \A x \in DOMAIN h : ~h[x].IsReference /\ ~h[x].StringIsConst
  <2>1. f \in Seq(Frame)
    BY DEF Built
  <2>2. k \in DOMAIN f /\ f[k] \in Frame
    BY <2>1, FrontFields
  <2>3. QED
    BY <2>1, <2>2 DEF Built, Neat
<1>2. t.item \in DOMAIN h /\ t.head \in Items \cup {NULL} /\ t.type \in Kinds
  <2>1. f[k].item \in DOMAIN h
    BY <1>1, FramesApart
  <2>2. QED
    BY <1>1, <2>1 DEF Frame, Kinds
<1>3. /\ DOMAIN h1 = DOMAIN h /\ Heap(h1) /\ SameLinks(h, h1)
      /\ \A z \in DOMAIN h : /\ h1[z].string = h[z].string
                             /\ h1[z].valuestring = h[z].valuestring
                             /\ h1[z].IsReference = h[z].IsReference
                             /\ h1[z].StringIsConst = h[z].StringIsConst
                             /\ h1[z].next = h[z].next
                             /\ h1[z].child = h[z].child
  <2>1. \A z \in DOMAIN h : h[z] \in JsonItem
    BY <1>1 DEF Heap
  <2>2. \A z \in DOMAIN h : h1[z] = IF z = t.item THEN [h[z] EXCEPT !.type = t.type] ELSE h[z]
    BY <1>2
  <2>3. \A z \in DOMAIN h : h1[z] \in JsonItem
    BY <1>2, <2>1, <2>2 DEF JsonItem
  <2>4. \A z \in DOMAIN h : /\ h1[z].string = h[z].string
                            /\ h1[z].valuestring = h[z].valuestring
                            /\ h1[z].IsReference = h[z].IsReference
                            /\ h1[z].StringIsConst = h[z].StringIsConst
                            /\ h1[z].next = h[z].next
                            /\ h1[z].prev = h[z].prev
                            /\ h1[z].child = h[z].child
    BY <2>1, <2>2 DEF JsonItem
  <2>5. DOMAIN h1 = DOMAIN h /\ h1 = [z \in DOMAIN h |-> h1[z]]
    BY <1>1 DEF Heap
  <2> HIDE DEF h1
  <2>6. QED
    BY <1>1, <2>3, <2>4, <2>5 DEF Heap, SameLinks
<1>4. h2 = [h1 EXCEPT ![t.item].child = t.head]
  BY <1>1, <1>2 DEF Heap, JsonItem, WithList
<1> HIDE DEF h1, R
<1>5. Neat(h1, R) /\ Links(h1) = Links(h) /\ Heap(h1)
  BY <1>1, <1>3, NeatSameLinks
<1>6. h1[t.item].child = NULL /\ ~h1[t.item].IsReference /\ t.item \in DOMAIN h1
  BY <1>1, <1>2, <1>3 DEF FrameOK
<1>7. Counted(h1, n)
  BY <1>3, CountsAgree DEF Counted
<1>8. CASE t.head = NULL
  <2>1. h2 = h1
    <3>1. h1[t.item] \in JsonItem
      BY <1>5, <1>6 DEF Heap
    <3>2. [h1[t.item] EXCEPT !.child = NULL] = h1[t.item]
      BY <1>6, <3>1 DEF JsonItem
    <3>3. h1 = [z \in DOMAIN h1 |-> h1[z]]
      BY <1>5 DEF Heap
    <3>4. QED
      BY <1>4, <1>6, <1>8, <3>2, <3>3
  <2>2. R \ {t.head} = R
    BY <1>8 DEF R, ParseRoots
  <2>3. \A S : Below(h2, S) = Below(h, S)
    BY <1>5, <2>1 DEF Below
  <2>4. Closes(h, f, r, h2)
    <3>1. Neat(h2, R \ {f[k].head})
      BY <1>5, <2>1, <2>2
    <3>2. \A x \in R \ {f[k].head} : Below(h, {x}) \subseteq Below(h2, {x})
      BY <2>3
    <3>3. \A z \in DOMAIN h2 : /\ z \in DOMAIN h
                               /\ h2[z].next = h[z].next
                               /\ h2[z].IsReference = h[z].IsReference
                               /\ h2[z].StringIsConst = h[z].StringIsConst
                               /\ h2[z].child = h[z].child
      BY <1>3, <2>1
    <3>4. QED
      BY <3>1, <3>2, <3>3 DEF Closes, R
  <2>5. Counted(h2, n)
    BY <1>7, <2>1
  <2>6. QED
    BY <2>4, <2>5, BuiltFront
<1>9. CASE t.head # NULL
  <2>1. t.head \in R /\ t.item \notin Below(h, {t.head})
    <3>1. /\ f[k].head \in R /\ f[k].item \in Below(h, {Holder(f, r, k)})
          /\ Holder(f, r, k) \in R
      BY <1>1, <1>9, FramesApart DEF R
    <3>2. f[k].head # Holder(f, r, k)
      <4>1. k <= k
        BY <1>1
      <4>2. HoldersApart(f, r)
        BY FramesApart
      <4>3. QED
        BY <1>1, <4>1, <4>2 DEF HoldersApart
    <3>3. Below(h, {f[k].head}) \cap Below(h, {Holder(f, r, k)}) = {}
      <4>1. \A x \in R : \A y \in R : x # y => Below(h, {x}) \cap Below(h, {y}) = {}
        BY FramesApart DEF R
      <4>2. QED
        BY <3>1, <3>2, <4>1
    <3>4. QED
      BY <3>1, <3>3
  <2>2. t.item \notin Below(h1, {t.head}) /\ t.head \in DOMAIN h1
    BY <1>3, <1>5, <2>1, RootAlone DEF Below
  <2> DEFINE a == t.item
  <2> DEFINE d == t.head
  <2>3. /\ h2 = [h1 EXCEPT ![a].child = d] /\ d \in R /\ a \in DOMAIN h1 /\ d \in DOMAIN h1
        /\ h1[a].child = NULL /\ ~h1[a].IsReference /\ a \notin Below(h1, {d})
    BY <1>4, <1>6, <2>1, <2>2
  <2> HIDE DEF a, d
  <2>4. /\ Neat(h2, R \ {d})
        /\ \A z \in DOMAIN h1 : Links(h1)[z] \subseteq Links(h2)[z]
    <3>1. /\ Neat([h1 EXCEPT ![a].child = d], R \ {d})
          /\ \A z \in DOMAIN h1 : Links(h1)[z] \subseteq Links([h1 EXCEPT ![a].child = d])[z]
      BY <1>5, <2>3, NeatChild
    <3>2. QED
      BY <2>3, <3>1
  <2>5. /\ OnlyLinks(h1, h2)
        /\ \A z \in DOMAIN h1 : h2[z].next = h1[z].next /\ (z # a => h2[z].child = h1[z].child)
    <3>1. OnlyLinks(h1, [h1 EXCEPT ![a].child = d])
      BY <1>5, <2>3, ChildFields
    <3>2. \A z \in DOMAIN h1 : h2[z].next = h1[z].next /\ (z # a => h2[z].child = h1[z].child)
      BY <1>5, <2>3 DEF Heap, JsonItem
    <3>3. QED
      BY <2>3, <3>1, <3>2
  <2>6. /\ DOMAIN h2 = DOMAIN h /\ DOMAIN h \subseteq DOMAIN h2
        /\ \A z \in DOMAIN h : Links(h)[z] \subseteq Links(h2)[z]
    BY <1>3, <1>5, <2>4, <2>5 DEF OnlyLinks
  <2>7. \A x \in R : Below(h, {x}) \subseteq Below(h2, {x})
    <3> DEFINE Q == R \ {d}
    <3>1. Neat(h, R) /\ Neat(h2, Q) /\ Grows(h, h2)
      BY <1>1, <2>4, <2>6 DEF Grows
    <3> HIDE DEF Q
    <3>2. QED
      BY <3>1, BelowGrows
  <2>8. Closes(h, f, r, h2)
    <3>1. \A z \in DOMAIN h2 : /\ z \in DOMAIN h
                               /\ h2[z].next = h[z].next
                               /\ h2[z].IsReference = h[z].IsReference
                               /\ h2[z].StringIsConst = h[z].StringIsConst
                               /\ z # f[k].item => h2[z].child = h[z].child
      BY <1>3, <2>5, <2>6 DEF OnlyLinks, a
    <3>2. QED
      BY <2>4, <2>7, <3>1 DEF Closes, R, d
  <2>9. Built(h2, Front(f), r)
    BY <2>8, BuiltFront
  <2>10. Counted(h2, n)
    BY <1>7, <2>5, CountedLinks
  <2>11. QED
    BY <2>9, <2>10
<1>10. QED
  BY <1>8, <1>9

(* The list of the last frame goes with the frame. *)
LEMMA BuiltWithout ==
  ASSUME NEW h, NEW f, NEW r, NEW n, Built(h, f, r), f # <<>>, Counted(h, n), n \in Nat,
         NEW B, B = Below(h, {f[Len(f)].head}),
         NEW h2, h2 = Restrict(h, DOMAIN h \ B)
  PROVE  Built(h2, Front(f), r) /\ Counted(h2, Kept(h, n, B)) /\ Kept(h, n, B) \in Nat
<1> DEFINE R == ParseRoots(f, r)
<1> DEFINE k == Len(f)
<1> DEFINE d == f[k].head
<1>1. /\ Heap(h) /\ Neat(h, R) /\ Forest(Links(h), R)
      /\ \A x \in DOMAIN h : ~h[x].IsReference /\ ~h[x].StringIsConst
      /\ f \in Seq(Frame) /\ k \in DOMAIN f
  BY FrontFields DEF Built, Neat
<1>2. d = NULL \/ d \in R
  BY <1>1, FramesApart
<1>3. B \in SUBSET DOMAIN h
  BY DEF Below, Reach, Links
<1>4. DOMAIN h2 = DOMAIN h \ B /\ \A z \in DOMAIN h2 : h2[z] = h[z]
  BY DEF Restrict
<1>5. Counted(h2, Kept(h, n, B)) /\ Kept(h, n, B) \in Nat
  BY <1>1, <1>3, CountedWithout DEF Kept
<1>6. B = Below(h, {d})
  OBVIOUS
<1> HIDE DEF R, d
<1>7. Neat(h2, R \ {d}) /\ \A x \in R \ {d} : Below(h, {x}) \subseteq Below(h2, {x})
  <2>1. CASE d = NULL
    <3>1. B = {} /\ R \ {d} = R
      BY <1>6, <2>1, ReachOfNothing DEF Below, R, ParseRoots
    <3>2. h2 = h
      <4>1. h2 = [z \in DOMAIN h |-> h[z]]
        BY <3>1 DEF Restrict
      <4>2. QED
        BY <1>1, <4>1 DEF Heap
    <3>3. QED
      BY <1>1, <3>1, <3>2
  <2>2. CASE d # NULL
    <3>1. d \in R
      BY <1>2, <2>2
    <3>2. \A z \in DOMAIN h \ Below(h, {d}) : h[z].IsReference => h[z].child \notin Below(h, {d})
      BY <1>1
    <3>3. Neat(Restrict(h, DOMAIN h \ Below(h, {d})), R \ {d})
      BY <1>1, <3>1, <3>2, NeatWithout
    <3>4. Neat(h2, R \ {d})
      BY <1>6, <3>3
    <3> DEFINE to == Links(h)
    <3> DEFINE to2 == Links(h2)
    <3>5. DOMAIN to = DOMAIN h /\ DOMAIN to2 = DOMAIN h2
      BY LinksAt
    <3>6. B = Reach(to, {d})
      BY <1>6, <2>2, BelowOne
    <3>7. \A z \in DOMAIN to2 : to2[z] = to[z]
      <4>1. ASSUME NEW z \in DOMAIN h2 PROVE Links(h2)[z] = Links(h)[z]
        <5>1. z \in DOMAIN h /\ h2[z] = h[z]
          BY <1>4, <4>1
        <5>2. h2[z].next = h[z].next /\ h2[z].child = h[z].child /\ h2[z].IsReference = h[z].IsReference
          BY <5>1
        <5>3. QED
          BY <4>1, <5>1, <5>2, SameLinksOf
      <4>2. QED
        BY <3>5, <4>1
    <3>8. DOMAIN to2 = DOMAIN to \ Reach(to, {d}) /\ Forest(to, R)
      BY <1>1, <1>4, <3>5, <3>6
    <3> HIDE DEF to, to2
    <3>9. ASSUME NEW x \in R \ {d} PROVE Below(h, {x}) \subseteq Below(h2, {x})
      <4>1. x \in R /\ x # d /\ x # NULL
        BY <3>9 DEF R, ParseRoots
      <4>2. Reach(to, {x}) \subseteq Reach(to2, {x})
        BY <3>1, <3>7, <3>8, <4>1, ReachStays
      <4>3. QED
        BY <4>1, <4>2, BelowOne DEF to, to2
    <3>10. QED
      BY <3>4, <3>9
  <2>3. QED
    BY <2>1, <2>2
<1>8. Closes(h, f, r, h2)
  <2>1. \A z \in DOMAIN h2 : /\ z \in DOMAIN h
                             /\ h2[z].next = h[z].next
                             /\ h2[z].IsReference = h[z].IsReference
                             /\ h2[z].StringIsConst = h[z].StringIsConst
                             /\ h2[z].child = h[z].child
    BY <1>4
  <2>2. QED
    BY <1>7, <2>1 DEF Closes, R, d
<1>9. Built(h2, Front(f), r)
  BY <1>8, BuiltFront
<1>10. QED
  BY <1>5, <1>9

(* A bracket opens at an item that has nothing below it. *)
LEMMA BuiltOpen ==
  ASSUME NEW h, NEW f, NEW r, Built(h, f, r), NEW type \in {"array", "object"},
         NEW t, t = IF f = <<>> THEN r ELSE Last(f).current_item,
         t \in DOMAIN h, h[t].child = NULL,
         NEW g, g = [item |-> t, type |-> type, head |-> NULL, current_item |-> NULL]
  PROVE  Built(h, Append(f, g), r) /\ Append(f, g) # <<>>
<1> DEFINE f2 == Append(f, g)
<1> DEFINE k == Len(f)
<1>1. /\ f \in Seq(Frame) /\ Heap(h) /\ HeadsApart(f, r)
      /\ \A i \in DOMAIN f : FrameOK(h, f, r, i)
  BY DEF Built, Neat
<1>2. g \in Frame /\ g.head = NULL /\ g.current_item = NULL /\ g.item = t
  BY <1>1 DEF Frame, Heap
<1>3. /\ f2 \in Seq(Frame) /\ DOMAIN f2 = DOMAIN f \cup {k + 1} /\ k \in Nat
      /\ f2[k + 1] = g /\ \A i \in DOMAIN f : i \in Nat /\ f2[i] = f[i] /\ i <= k /\ i >= 1
      /\ \A i \in DOMAIN f : i - 1 \in DOMAIN f \/ i = 1
      /\ k # 0 => k \in DOMAIN f
      /\ k = 0 => f = <<>>
      /\ f2 # <<>>
  <2>1. k \in Nat /\ DOMAIN f = 1 .. k /\ (k = 0 => f = <<>>)
    BY <1>1
  <2>2. /\ f2 \in Seq(Frame) /\ Len(f2) = k + 1 /\ DOMAIN f2 = 1 .. (k + 1)
        /\ f2[k + 1] = g /\ \A i \in 1 .. k : f2[i] = f[i]
    BY <1>1, <1>2, <2>1
  <2>3. 1 .. (k + 1) = (1 .. k) \cup {k + 1}
    BY <2>1
  <2>4. f2 # <<>>
    BY <2>1, <2>2
  <2> HIDE DEF f2, k
  <2>5. QED
    BY <2>1, <2>2, <2>3, <2>4
<1>4. k # 0 => Last(f) = f[k] /\ f # <<>>
  BY <1>1 DEF Last
<1> HIDE DEF f2, k
<1>5. ParseRoots(f2, r) = ParseRoots(f, r)
  <2>1. {f2[i].head : i \in DOMAIN f2} = {f[i].head : i \in DOMAIN f} \cup {NULL}
    BY <1>2, <1>3
  <2>2. QED
    BY <2>1 DEF ParseRoots
<1>6. HeadsApart(f2, r)
  BY <1>1, <1>2, <1>3 DEF HeadsApart
<1>7. ASSUME NEW i \in DOMAIN f2 PROVE FrameOK(h, f2, r, i)
  <2>1. CASE i = k + 1
    <3>1. f2[i].item = IF i = 1 THEN r ELSE f2[i - 1].current_item
      BY <1>2, <1>3, <1>4, <2>1
    <3>2. QED
      BY <1>2, <1>3, <2>1, <3>1 DEF FrameOK
  <2>2. CASE i \in DOMAIN f
    <3>1. FrameOK(h, f, r, i) /\ f2[i] = f[i]
      BY <1>1, <1>3, <2>2
    <3>2. i # 1 => f2[i - 1] = f[i - 1]
      BY <1>3, <2>2
    <3>3. QED
      BY <3>1, <3>2 DEF FrameOK
  <2>3. QED
    BY <1>3, <2>1, <2>2
<1>8. QED
  BY <1>3, <1>5, <1>6, <1>7 DEF Built, f2

(* An item gets its type, its text or its name. *)
LEMMA TargetFields ==
  ASSUME ParserInv, Target \in DOMAIN heap, NEW type \in Kinds,
         NEW s \in {"none", "heap", "const"}, NEW v \in {"none", "heap"}, NEW h2,
         h2 = [heap EXCEPT ![Target] = [@ EXCEPT !.type = type, !.string = s, !.valuestring = v]]
  PROVE  /\ Built(h2, frames, root) /\ DOMAIN h2 = DOMAIN heap /\ SameLinks(heap, h2)
         /\ Counted(h2, strings - (IF heap[Target].string # "none" THEN 1 ELSE 0)
                                - (IF heap[Target].valuestring # "none" THEN 1 ELSE 0)
                                + (IF s # "none" THEN 1 ELSE 0)
                                + (IF v # "none" THEN 1 ELSE 0))
<1> DEFINE t == Target
<1>1. /\ Heap(heap) /\ Built(heap, frames, root) /\ Counted(heap, strings)
      /\ \A x \in DOMAIN heap : ~heap[x].IsReference /\ ~heap[x].StringIsConst
  BY DEF ParserInv, Built, Neat
<1> HIDE DEF t
<1>2. /\ DOMAIN h2 = DOMAIN heap /\ t \in DOMAIN heap
      /\ h2[t] = [heap[t] EXCEPT !.type = type, !.string = s, !.valuestring = v]
      /\ \A z \in DOMAIN heap : z # t => h2[z] = heap[z]
      /\ h2 = [z \in DOMAIN heap |-> h2[z]]
  BY <1>1 DEF t, Heap
<1>3. \A z \in DOMAIN heap : heap[z] \in JsonItem
  BY <1>1 DEF Heap
<1>4. /\ h2[t] \in JsonItem
      /\ h2[t].string = s /\ h2[t].valuestring = v
      /\ h2[t].IsReference = heap[t].IsReference /\ h2[t].StringIsConst = heap[t].StringIsConst
      /\ h2[t].next = heap[t].next /\ h2[t].prev = heap[t].prev /\ h2[t].child = heap[t].child
  BY <1>2, <1>3 DEF JsonItem
<1>5. \A z \in DOMAIN heap : h2[z] \in JsonItem
  BY <1>2, <1>3, <1>4
<1>6. Heap(h2)
  BY <1>1, <1>2, <1>5 DEF Heap
<1>7. SameLinks(heap, h2)
  BY <1>2, <1>4 DEF SameLinks
<1>8. \A z \in DOMAIN h2 : ~h2[z].StringIsConst
  BY <1>1, <1>2, <1>4
<1>9. Built(h2, frames, root)
  BY <1>1, <1>6, <1>7, <1>8, BuiltSameLinks
<1>10. Counted(h2, strings - Names(heap, {t}) - Texts(heap, {t}) + Names(h2, {t}) + Texts(h2, {t}))
  <2>1. \A z \in DOMAIN heap \ {t} : /\ h2[z].string = heap[z].string
                                     /\ h2[z].valuestring = heap[z].valuestring
                                     /\ h2[z].IsReference = heap[z].IsReference
                                     /\ h2[z].StringIsConst = heap[z].StringIsConst
    BY <1>2
  <2> DEFINE g == h2
  <2>2. DOMAIN g = DOMAIN heap
    BY <1>2
  <2>3. \A z \in DOMAIN heap \ {t} : /\ g[z].string = heap[z].string
                                     /\ g[z].valuestring = heap[z].valuestring
                                     /\ g[z].IsReference = heap[z].IsReference
                                     /\ g[z].StringIsConst = heap[z].StringIsConst
    BY <2>1
  <2> HIDE DEF g
  <2>4. Counted(g, strings - Names(heap, {t}) - Texts(heap, {t}) + Names(g, {t}) + Texts(g, {t}))
    BY <1>1, <1>2, <2>2, <2>3, CountedChange
  <2>5. QED
    BY <2>4 DEF g
<1>11. /\ Names(heap, {t}) = (IF heap[t].string # "none" THEN 1 ELSE 0)
       /\ Texts(heap, {t}) = (IF heap[t].valuestring # "none" THEN 1 ELSE 0)
  BY <1>1, <1>2, CountsOfOne
<1>12. /\ Names(h2, {t}) = (IF s # "none" THEN 1 ELSE 0)
       /\ Texts(h2, {t}) = (IF v # "none" THEN 1 ELSE 0)
  <2> DEFINE g == h2
  <2>1. ~g[t].StringIsConst /\ ~g[t].IsReference /\ g[t].string = s /\ g[t].valuestring = v
    BY <1>1, <1>2, <1>4
  <2> HIDE DEF g
  <2>2. /\ Names(g, {t}) = IF ~g[t].StringIsConst /\ g[t].string # "none" THEN 1 ELSE 0
        /\ Texts(g, {t}) = IF ~g[t].IsReference /\ g[t].valuestring # "none" THEN 1 ELSE 0
    BY CountsOfOne
  <2>3. QED
    BY <2>1, <2>2 DEF g
<1>13. QED
  BY <1>2, <1>7, <1>9, <1>10, <1>11, <1>12 DEF t

LEMMA ParseKeeps ==
  ASSUME CallerInv, Parse, expect' # "nothing"
  PROVE  ParserInv'
<1>1. PICK n \in Free : heap' = With(heap, n, Zeroed) /\ root' = n
  BY DEF Parse, parserVars, Idle
<1>2. /\ DOMAIN heap = {} /\ expect' = "value" /\ strings' = strings /\ owned' = owned
      /\ frames' = <<>> /\ Trees(heap, strings, owned) /\ Neat(heap, owned) /\ Heap(heap)
      /\ strings \in Nat
  BY DEF Parse, CallerInv, Trees, Neat, parserVars, Idle
<1>3. owned = {}
  BY <1>2, RootAlone
<1>4. /\ Zeroed \in JsonItem
      /\ Zeroed.next = NULL /\ Zeroed.prev = NULL /\ Zeroed.child = NULL
      /\ Zeroed.IsReference = FALSE /\ Zeroed.StringIsConst = FALSE
      /\ Zeroed.string = "none" /\ Zeroed.valuestring = "none"
  BY DEF Zeroed, JsonItem, Kinds
<1>5. n \in Items \ DOMAIN heap /\ n # NULL
  BY <1>1, JsonAssumption DEF Free
<1>6. /\ Trees(With(heap, n, Zeroed),
               IF ~Zeroed.IsReference /\ Zeroed.valuestring # "none" THEN strings + 1 ELSE strings,
               owned \cup {n})
  <2>1. Zeroed.child \in DOMAIN heap \cup {NULL} /\ (Zeroed.IsReference \/ Zeroed.child = NULL)
    BY <1>4
  <2>2. QED
    BY <1>2, <1>4, <1>5, <2>1, TreesWith
<1>7. Trees(heap', strings', {n})
  <2>1. (IF ~Zeroed.IsReference /\ Zeroed.valuestring # "none" THEN strings + 1 ELSE strings) = strings'
        /\ owned \cup {n} = {n}
    BY <1>2, <1>3, <1>4
  <2>2. QED
    BY <1>1, <1>6, <2>1
<1>8. DOMAIN heap' = {n} /\ heap'[n] = Zeroed
  BY <1>1, <1>2 DEF With
<1>9. Built(heap', <<>>, n)
  <2>1. ParseRoots(<<>>, n) = {n}
    BY <1>5 DEF ParseRoots
  <2>2. <<>> \in Seq(Frame) /\ DOMAIN <<>> = {}
    OBVIOUS
  <2>3. QED
    BY <1>4, <1>5, <1>7, <1>8, <2>1, <2>2 DEF Built, Trees, HeadsApart
<1>10. Target' = n
  BY <1>1, <1>2 DEF Target
<1>11. QED
  BY <1>1, <1>2, <1>3, <1>4, <1>7, <1>8, <1>9, <1>10 DEF ParserInv, Trees

LEMMA ValueKeeps ==
  ASSUME ParserInv, expect = "value", Value("number") \/ Text
  PROVE  ParserInv'
<1> DEFINE t == Target
<1>1. /\ t \in DOMAIN heap /\ heap[t].valuestring = "none" /\ heap[t] \in JsonItem
      /\ strings \in Nat /\ owned = {} /\ heap[t].string \in {"none", "heap", "const"}
  <2>1. t \in DOMAIN heap /\ heap[t].valuestring = "none" /\ strings \in Nat /\ owned = {}
    BY DEF ParserInv
  <2>2. heap[t] \in JsonItem
    BY <2>1 DEF ParserInv, Built, Neat, Heap
  <2>3. QED
    BY <2>1, <2>2 DEF JsonItem
<1> DEFINE s == heap[t].string
<1>2. PICK v \in {"none", "heap"}, type \in Kinds :
        /\ heap' = [heap EXCEPT ![Target] = [@ EXCEPT !.type = type, !.string = s, !.valuestring = v]]
        /\ strings' = strings + (IF v # "none" THEN 1 ELSE 0)
  <2>1. CASE Value("number")
    <3>1. [heap[t] EXCEPT !.type = "number", !.string = s, !.valuestring = "none"]
          = [heap[t] EXCEPT !.type = "number"]
      BY <1>1 DEF JsonItem
    <3>2. heap' = [heap EXCEPT ![Target] = [@ EXCEPT !.type = "number", !.string = s,
                                                     !.valuestring = "none"]]
      BY <2>1, <3>1 DEF Value
    <3>3. "none" \in {"none", "heap"} /\ "number" \in Kinds /\ strings' = strings + 0
      BY <1>1, <2>1 DEF Value, Kinds
    <3>4. QED
      BY <3>2, <3>3
  <2>2. CASE Text
    <3>1. [heap[t] EXCEPT !.type = "text", !.string = s, !.valuestring = "heap"]
          = [heap[t] EXCEPT !.type = "text", !.valuestring = "heap"]
      BY <1>1 DEF JsonItem
    <3>2. heap' = [heap EXCEPT ![Target] = [@ EXCEPT !.type = "text", !.string = s,
                                                     !.valuestring = "heap"]]
      BY <1>1, <2>2, <3>1 DEF Text
    <3>3. "heap" \in {"none", "heap"} /\ "text" \in Kinds /\ strings' = strings + 1
      BY <1>1, <2>2 DEF Text, Kinds
    <3>4. QED
      BY <3>2, <3>3
  <2>3. QED
    BY <2>1, <2>2
<1>3. /\ Built(heap', frames, root)
      /\ Counted(heap', strings - (IF heap[Target].string # "none" THEN 1 ELSE 0)
                                - (IF heap[Target].valuestring # "none" THEN 1 ELSE 0)
                                + (IF s # "none" THEN 1 ELSE 0)
                                + (IF v # "none" THEN 1 ELSE 0))
  BY <1>1, <1>2, TargetFields
<1>4. Counted(heap', strings') /\ strings' \in Nat
  <2>1. strings - (IF heap[Target].string # "none" THEN 1 ELSE 0)
                - (IF heap[Target].valuestring # "none" THEN 1 ELSE 0)
                + (IF s # "none" THEN 1 ELSE 0)
                + (IF v # "none" THEN 1 ELSE 0) = strings'
    BY <1>1, <1>2
  <2>2. QED
    BY <1>1, <1>2, <1>3, <2>1
<1>5. expect' = "after" /\ frames' = frames /\ root' = root /\ owned' = owned
  BY DEF Value, Text
<1>6. QED
  BY <1>1, <1>3, <1>4, <1>5 DEF ParserInv

LEMMA FailKeeps ==
  ASSUME ParserInv, Fail
  PROVE  ParserInv'
BY DEF ParserInv, Fail, Target, Top

LEMMA NameKeeps ==
  ASSUME ParserInv, Name
  PROVE  ParserInv'
<1>1. CASE Fail
  BY <1>1, FailKeeps
<1>2. CASE ~Fail
  <2> DEFINE t == Target
  <2>1. /\ t \in DOMAIN heap /\ heap[t].child = NULL /\ heap[t].valuestring = "none"
        /\ heap[t].string = "none" /\ heap[t] \in JsonItem /\ strings \in Nat /\ owned = {}
        /\ frames # <<>>
    <3>1. /\ t \in DOMAIN heap /\ heap[t].child = NULL /\ heap[t].valuestring = "none"
          /\ heap[t].string = "none" /\ strings \in Nat /\ owned = {} /\ frames # <<>>
      BY DEF ParserInv, Name
    <3>2. QED
      BY <3>1 DEF ParserInv, Built, Neat, Heap
  <2>2. /\ heap' = [heap EXCEPT ![t].type = "text", ![t].string = "heap"]
        /\ strings' = strings + 1 /\ expect' \in {"value", "fail"}
        /\ owned' = owned /\ frames' = frames /\ root' = root
    BY <1>2 DEF Name
  <2>3. heap' = [heap EXCEPT ![Target] = [@ EXCEPT !.type = "text", !.string = "heap",
                                                   !.valuestring = "none"]]
    <3>1. [heap[t] EXCEPT !.type = "text", !.string = "heap", !.valuestring = "none"]
          = [heap[t] EXCEPT !.type = "text", !.string = "heap"]
      BY <2>1 DEF JsonItem
    <3>2. QED
      BY <2>1, <2>2, <3>1
  <2>4. "text" \in Kinds
    BY DEF Kinds
  <2>5. /\ Built(heap', frames, root) /\ DOMAIN heap' = DOMAIN heap /\ SameLinks(heap, heap')
        /\ Counted(heap', strings - (IF heap[Target].string # "none" THEN 1 ELSE 0)
                                  - (IF heap[Target].valuestring # "none" THEN 1 ELSE 0)
                                  + (IF "heap" # "none" THEN 1 ELSE 0)
                                  + (IF "none" # "none" THEN 1 ELSE 0))
    BY <2>1, <2>3, <2>4, TargetFields
  <2>6. Counted(heap', strings') /\ strings' \in Nat
    <3>1. strings - (IF heap[Target].string # "none" THEN 1 ELSE 0)
                  - (IF heap[Target].valuestring # "none" THEN 1 ELSE 0)
                  + (IF "heap" # "none" THEN 1 ELSE 0)
                  + (IF "none" # "none" THEN 1 ELSE 0) = strings'
      BY <2>1, <2>2
    <3>2. QED
      BY <2>1, <2>2, <2>5, <3>1
  <2>7. Target' = Target
    BY <2>2 DEF Target, Top
  <2>8. heap'[t].child = NULL /\ heap'[t].valuestring = "none"
    <3>1. heap'[t] = [heap[t] EXCEPT !.type = "text", !.string = "heap", !.valuestring = "none"]
      BY <2>1, <2>3
    <3>2. QED
      BY <2>1, <3>1 DEF JsonItem
  <2>9. QED
    BY <2>1, <2>2, <2>5, <2>6, <2>7, <2>8 DEF ParserInv
<1>3. QED
  BY <1>1, <1>2

LEMMA OpenKeeps ==
  ASSUME ParserInv, expect = "value", NEW type \in {"array", "object"}, Open(type)
  PROVE  ParserInv'
<1> DEFINE g == [item |-> Target, type |-> type, head |-> NULL, current_item |-> NULL]
<1>1. /\ Built(heap, frames, root) /\ Target \in DOMAIN heap /\ heap[Target].child = NULL
      /\ Target = IF frames = <<>> THEN root ELSE Last(frames).current_item
  BY DEF ParserInv, Target, Top
<1>2. /\ frames' = Append(frames, g) /\ expect' = "first"
      /\ heap' = heap /\ strings' = strings /\ owned' = owned /\ root' = root
  BY DEF Open
<1>3. Built(heap, Append(frames, g), root) /\ Append(frames, g) # <<>>
  BY <1>1, BuiltOpen
<1> HIDE DEF g
<1>4. QED
  BY <1>2, <1>3 DEF ParserInv

LEMMA NewItemKeeps ==
  ASSUME ParserInv, frames # <<>>, NewItem
  PROVE  ParserInv'
<1> DEFINE k == Len(frames)
<1>1. PICK n \in Free :
        /\ heap' = IF Top.head = NULL THEN With(heap, n, Zeroed)
                   ELSE Linked(With(heap, n, Zeroed), Top.current_item, n)
        /\ frames' = [frames EXCEPT ![k].head = IF @ = NULL THEN n ELSE @,
                                    ![k].current_item = n]
  BY DEF NewItem
<1>2. /\ Built(heap, frames, root) /\ frames \in Seq(Frame) /\ Top = frames[k]
      /\ owned = {} /\ strings \in Nat /\ Counted(heap, strings) /\ Heap(heap)
  BY DEF ParserInv, Top, Last, Built, Neat
<1>3. expect' \in {"name", "value"} /\ strings' = strings /\ owned' = owned /\ root' = root
  BY DEF NewItem
<1>4. n \in Items \ DOMAIN heap
  BY <1>1 DEF Free
<1>5. frames' = Growing(frames, n)
  BY <1>1 DEF Growing
<1>6. heap' = WithNext(heap, frames, n)
  BY <1>1, <1>2 DEF WithNext
<1>7. /\ Built(heap', Growing(frames, n), root)
      /\ OnlyLinks(With(heap, n, Zeroed), heap')
      /\ Fresh(heap', n)
  BY <1>2, <1>4, <1>6, BuiltNewItem
<1>8. /\ Zeroed \in JsonItem /\ Zeroed.string = "none" /\ Zeroed.valuestring = "none"
  BY DEF Zeroed, JsonItem, Kinds
<1>9. Counted(heap', strings)
  <2>1. Counted(With(heap, n, Zeroed),
                IF ~Zeroed.IsReference /\ Zeroed.valuestring # "none" THEN strings + 1 ELSE strings)
    BY <1>2, <1>4, <1>8, CountedWith
  <2>2. Counted(With(heap, n, Zeroed), strings)
    BY <1>8, <2>1
  <2>3. QED
    BY <1>7, <2>2, CountedLinks
<1>10. Target' = n /\ frames' # <<>>
  <2>1. /\ Len(Growing(frames, n)) = k /\ Growing(frames, n)[k].current_item = n
        /\ k \in DOMAIN frames /\ DOMAIN Growing(frames, n) = DOMAIN frames
    BY <1>2, <1>4, GrowingFields
  <2>2. frames' # <<>>
    BY <1>5, <2>1
  <2>3. QED
    BY <1>5, <2>1, <2>2 DEF Target, Top, Last
<1>11. QED
  BY <1>2, <1>3, <1>5, <1>7, <1>9, <1>10 DEF ParserInv, Fresh

LEMMA SuccessKeeps ==
  ASSUME ParserInv, frames # <<>>, Success
  PROVE  ParserInv'
<1> DEFINE t == frames[Len(frames)]
<1>1. /\ Built(heap, frames, root) /\ Counted(heap, strings) /\ strings \in Nat /\ owned = {}
      /\ Top = t
  BY DEF ParserInv, Top, Last
<1>2. /\ heap' = WithList(heap, t)
      /\ frames' = Front(frames) /\ expect' = "after"
      /\ strings' = strings /\ owned' = owned /\ root' = root
  BY <1>1 DEF Success, WithList
<1>3. Built(heap', Front(frames), root) /\ Counted(heap', strings)
  BY <1>1, <1>2, BuiltSuccess
<1>4. QED
  BY <1>1, <1>2, <1>3 DEF ParserInv

LEMMA ParsedKeeps ==
  ASSUME ParserInv, Parsed
  PROVE  ParserInv' \/ CallerInv'
<1>1. CASE Fail
  BY <1>1, FailKeeps
<1>2. CASE ~Fail
  <2>1. /\ frames = <<>> /\ owned' = owned \cup {root} /\ root' = NULL /\ expect' = "nothing"
        /\ heap' = heap /\ strings' = strings /\ frames' = frames
    BY <1>2 DEF Parsed
  <2>2. /\ owned = {} /\ Neat(heap, ParseRoots(frames, root)) /\ root \in Items
        /\ heap[root].next = NULL /\ Counted(heap, strings) /\ strings \in Nat
    BY DEF ParserInv, Built
  <2>3. ParseRoots(frames, root) = {root}
    BY <2>1, <2>2, JsonAssumption DEF ParseRoots
  <2>4. QED
    BY <2>1, <2>2, <2>3 DEF CallerInv, Idle, Trees, Alone
<1>3. QED
  BY <1>1, <1>2

LEMMA GiveUpKeeps ==
  ASSUME ParserInv, GiveUp
  PROVE  ParserInv' \/ CallerInv'
<1>1. /\ owned' = owned /\ owned = {} /\ Built(heap, frames, root) /\ expect = "fail"
      /\ Counted(heap, strings) /\ strings \in Nat
  BY DEF GiveUp, ParserInv
<1>2. CASE frames # <<>>
  <2> DEFINE B == Below(heap, {frames[Len(frames)].head})
  <2>1. /\ heap' = Restrict(heap, DOMAIN heap \ B) /\ strings' = Kept(heap, strings, B)
        /\ frames' = Front(frames) /\ root' = root /\ expect' = expect
    BY <1>2 DEF GiveUp, cJSON_Delete, Without, Kept, Top, Last
  <2>2. /\ Built(heap', Front(frames), root) /\ Counted(heap', Kept(heap, strings, B))
        /\ Kept(heap, strings, B) \in Nat
    BY <1>1, <1>2, <2>1, BuiltWithout
  <2>3. QED
    BY <1>1, <2>1, <2>2 DEF ParserInv
<1>3. CASE frames = <<>>
  <2> DEFINE B == Below(heap, {root})
  <2>1. /\ heap' = Restrict(heap, DOMAIN heap \ B) /\ strings' = Kept(heap, strings, B)
        /\ frames' = <<>> /\ root' = NULL /\ expect' = "nothing"
    BY <1>3 DEF GiveUp, cJSON_Delete, Without, Kept
  <2>2. Neat(heap, ParseRoots(frames, root)) /\ root \in Items
        /\ \A x \in DOMAIN heap : ~heap[x].IsReference
    BY <1>1 DEF Built
  <2>3. ParseRoots(frames, root) = {root}
    BY <1>3, <2>2, JsonAssumption DEF ParseRoots
  <2>4. Trees(heap, strings, {root}) /\ NotShown(heap, Below(heap, {root})) /\ root \in {root}
    BY <1>1, <2>2, <2>3 DEF Trees, NotShown
  <2>5. Trees(Restrict(heap, DOMAIN heap \ B), Kept(heap, strings, B), {root} \ {root})
    BY <2>4, TreesDrop
  <2>6. {root} \ {root} = {}
    OBVIOUS
  <2>7. Trees(heap', strings', {})
    BY <2>1, <2>5, <2>6
  <2>8. QED
    BY <1>1, <2>1, <2>7 DEF CallerInv, Idle, Alone
<1>4. QED
  BY <1>2, <1>3

JsonInv == CallerInv \/ ParserInv

LEMMA InitJson ==
  ASSUME JsonInit
  PROVE  JsonInv
<1>1. DOMAIN <<>> = {} /\ <<>> = [x \in {} |-> x]
  OBVIOUS
<1>2. DOMAIN heap = {} /\ Heap(heap) /\ Neighbours(heap)
  BY <1>1 DEF JsonInit, Heap, Neighbours
<1>3. Forest(Links(heap), {})
  <2>1. DOMAIN Links(heap) = {}
    BY <1>2, LinksAt
  <2>2. QED
    BY <2>1 DEF Forest
<1>4. Counted(heap, 0)
  <2>1. {x \in {} : ~heap[x].StringIsConst /\ heap[x].string # "none"} = {}
        /\ {x \in {} : ~heap[x].IsReference /\ heap[x].valuestring # "none"} = {}
    OBVIOUS
  <2>2. Names(heap, {}) = 0 /\ Texts(heap, {}) = 0
    BY <2>1, FS_EmptySet DEF Names, Texts
  <2>3. QED
    BY <1>2, <2>2 DEF Counted
<1>5. QED
  BY <1>2, <1>3, <1>4 DEF JsonInit, JsonInv, CallerInv, Idle, Trees, Neat, Alone

LEMMA NextJson ==
  ASSUME JsonInv, JsonNext
  PROVE  JsonInv'
<1>1. CASE CallerInv
  <2>1. expect = "nothing"
    BY <1>1 DEF CallerInv, Idle
  <2>2. CASE Build
    BY <1>1, <2>2, BuildKeeps DEF JsonInv
  <2>3. CASE \E x \in owned : HandleMessage(x) \/ Delete(x)
    BY <1>1, <2>3, HandleMessageKeeps, DeleteKeeps DEF JsonInv
  <2>4. CASE cJSON_Parse
    <3>1. Parse
      BY <1>1, <2>1, <2>4 DEF cJSON_Parse, parse_value, Name, List, Parsed, GiveUp
    <3>2. CASE expect' # "nothing"
      BY <1>1, <3>1, <3>2, ParseKeeps DEF JsonInv
    <3>3. CASE expect' = "nothing"
      <4>1. UNCHANGED <<heap, strings, owned, parserVars>>
        BY <3>1, <3>3 DEF Parse
      <4>2. QED
        BY <1>1, <4>1 DEF JsonInv, CallerInv, Idle, parserVars
    <3>4. QED
      BY <3>2, <3>3
  <2>5. QED
    BY <2>2, <2>3, <2>4 DEF JsonNext, Parsing
<1>2. CASE ParserInv
  <2>1. expect # "nothing"
    BY <1>2 DEF ParserInv
  <2>2. ~Idle
    BY <2>1 DEF Idle
  <2>3. ~Build /\ ~(\E x \in owned : HandleMessage(x) \/ Delete(x)) /\ ~Parse
    <3>1. \A type \in Types : ~Create(type)
      BY <2>2 DEF Create
    <3>2. \A x : ~Delete(x) /\ ~HandleMessage(x)
      BY <2>2 DEF Delete, HandleMessage
    <3>3. \A a, x : /\ ~AddItemReferenceToArray(a, x) /\ ~AddItemReferenceToObject(a, x)
                    /\ ~DetachItem(a, x)
      BY <2>2 DEF AddItemReferenceToArray, AddItemReferenceToObject, DetachItem
    <3>4. \A a, x : ~AddItemToArray(a, x) /\ ~AddItemToObject(a, x)
      BY <2>2 DEF AddItemToArray, AddItemToObject, Gives
    <3>5. \A a, x, y : /\ ~InsertItemInArray(a, y, x)
                       /\ ~ReplaceItemInArray(a, y, x) /\ ~ReplaceItemInObject(a, y, x)
      BY <2>2 DEF InsertItemInArray, ReplaceItemInArray, ReplaceItemInObject, Gives
    <3>6. ~Parse
      BY <2>2 DEF Parse
    <3>7. QED
      BY <3>1, <3>2, <3>3, <3>4, <3>5, <3>6 DEF Build
  <2>4. CASE parse_value
    BY <1>2, <2>4, ValueKeeps, OpenKeeps, FailKeeps DEF parse_value, JsonInv
  <2>5. CASE Name
    BY <1>2, <2>5, NameKeeps DEF JsonInv
  <2>6. CASE List
    <3>1. frames # <<>>
      BY <1>2, <2>6 DEF List, ParserInv
    <3>2. QED
      BY <1>2, <2>6, <3>1, NewItemKeeps, SuccessKeeps, FailKeeps DEF List, JsonInv
  <2>7. CASE Parsed
    BY <1>2, <2>7, ParsedKeeps DEF JsonInv
  <2>8. CASE GiveUp
    BY <1>2, <2>8, GiveUpKeeps DEF JsonInv
  <2>9. QED
    BY <2>3, <2>4, <2>5, <2>6, <2>7, <2>8 DEF JsonNext, Parsing, cJSON_Parse
<1>3. QED
  BY <1>1, <1>2 DEF JsonInv

LEMMA StutterJson ==
  ASSUME JsonInv, UNCHANGED cJsonVars
  PROVE  JsonInv'
BY DEF JsonInv, CallerInv, ParserInv, cJsonVars, Idle, Target, Top

(* Who has x outside the heap. *)
Keepers(x) ==
  {<<"owner">> : y \in owned \cap {x}}
  \cup {<<"root">> : y \in {root} \cap {x}}
  \cup {<<"frame", i>> : i \in {j \in DOMAIN frames : frames[j].head = x}}

LEMMA KeptOnce ==
  ASSUME JsonInv
  PROVE  LET held == owned \cup {root} \cup {frames[i].head : i \in DOMAIN frames} IN
         /\ Trees(heap, strings, held \ {NULL})
         /\ \A x \in held \ {NULL} : \E e : Keepers(x) = {e}
         /\ \A x : x \notin held => Keepers(x) = {}
<1> DEFINE held == owned \cup {root} \cup {frames[i].head : i \in DOMAIN frames}
<1>1. \A x : x \notin held => Keepers(x) = {}
  BY DEF Keepers
<1>2. CASE CallerInv
  <2>1. frames = <<>> /\ root = NULL /\ Trees(heap, strings, owned)
    BY <1>2 DEF CallerInv
  <2>2. \A x \in owned : x # NULL
    BY <2>1, RootAlone DEF Trees
  <2>3. held \ {NULL} = owned
    BY <2>1, <2>2
  <2>4. ASSUME NEW x \in owned PROVE Keepers(x) = {<<"owner">>}
    <3>1. {<<"owner">> : y \in owned \cap {x}} = {<<"owner">>}
      BY <2>4
    <3>2. {<<"root">> : y \in {root} \cap {x}} = {}
      BY <2>1, <2>2, <2>4
    <3>3. {<<"frame", i>> : i \in {j \in DOMAIN frames : frames[j].head = x}} = {}
      BY <2>1
    <3>4. QED
      BY <3>1, <3>2, <3>3 DEF Keepers
  <2>5. QED
    BY <1>1, <2>1, <2>3, <2>4
<1>3. CASE ParserInv
  <2>1. /\ owned = {} /\ Built(heap, frames, root) /\ Counted(heap, strings) /\ strings \in Nat
        /\ Neat(heap, ParseRoots(frames, root)) /\ HeadsApart(frames, root)
        /\ root \in Items
    BY <1>3 DEF ParserInv, Built
  <2>2. held \ {NULL} = ParseRoots(frames, root)
    BY <2>1 DEF ParseRoots
  <2>3. Trees(heap, strings, held \ {NULL})
    BY <2>1, <2>2 DEF Trees
  <2>4. ASSUME NEW x \in held \ {NULL} PROVE \E e : Keepers(x) = {e}
    <3>1. {<<"owner">> : y \in owned \cap {x}} = {}
      BY <2>1
    <3>2. CASE x = root
      <4>1. {<<"root">> : y \in {root} \cap {x}} = {<<"root">>}
        BY <3>2
      <4>2. \A j \in DOMAIN frames : frames[j].head # x
        BY <2>1, <2>4, <3>2 DEF HeadsApart
      <4>3. {<<"frame", i>> : i \in {j \in DOMAIN frames : frames[j].head = x}} = {}
        BY <4>2
      <4>4. QED
        BY <3>1, <4>1, <4>3 DEF Keepers
    <3>3. CASE x # root
      <4>1. PICK i \in DOMAIN frames : frames[i].head = x
        BY <2>1, <2>4, <3>3
      <4>2. {j \in DOMAIN frames : frames[j].head = x} = {i}
        BY <2>1, <2>4, <4>1 DEF HeadsApart
      <4>3. {<<"frame", j>> : j \in {i}} = {<<"frame", i>>}
        OBVIOUS
      <4>4. {<<"root">> : y \in {root} \cap {x}} = {}
        BY <3>3
      <4>5. Keepers(x) = {<<"frame", i>>}
        BY <3>1, <4>2, <4>3, <4>4 DEF Keepers
      <4>6. QED
        BY <4>5
    <3>4. QED
      BY <3>2, <3>3
  <2>5. QED
    BY <1>1, <2>3, <2>4
<1>4. QED
  BY <1>2, <1>3 DEF JsonInv

LEMMA OneHolder ==
  ASSUME JsonInv, NEW x \in DOMAIN heap
  PROVE  Cardinality(Holders(x)) = 1
<1> DEFINE R == (owned \cup {root} \cup {frames[i].head : i \in DOMAIN frames}) \ {NULL}
<1> DEFINE N == {z \in DOMAIN heap : heap[z].next = x}
<1> DEFINE C == {z \in DOMAIN heap : ~heap[z].IsReference /\ heap[z].child = x}
<1>1. /\ Neat(heap, R) /\ Heap(heap) /\ Neighbours(heap) /\ Forest(Links(heap), R)
      /\ x \in R => \E e : Keepers(x) = {e}
      /\ x \notin R => Keepers(x) = {}
  <2>1. /\ Trees(heap, strings, R)
        /\ \A z \in R : \E e : Keepers(z) = {e}
        /\ \A z : z \notin owned \cup {root} \cup {frames[i].head : i \in DOMAIN frames} => Keepers(z) = {}
    BY KeptOnce
  <2>2. Heap(heap)
    BY <2>1 DEF Trees, Neat
  <2>3. x # NULL
    BY <2>2, JsonAssumption DEF Heap
  <2>4. QED
    BY <2>1, <2>3 DEF Trees, Neat
<1>2. Holders(x) = Keepers(x) \cup {<<"next", y>> : y \in N} \cup {<<"child", y>> : y \in C}
  BY DEF Holders, Keepers
<1>3. x # NULL
  BY <1>1, JsonAssumption DEF Heap
<1> HIDE DEF R
<1>4. \E e : Holders(x) = {e}
  <2>1. CASE x \in R
    <3>1. N = {} /\ C = {}
      BY <1>1, <2>1, RootAlone
    <3>2. {<<"next", y>> : y \in N} = {} /\ {<<"child", y>> : y \in C} = {}
      BY <3>1
    <3>3. Holders(x) = Keepers(x)
      BY <1>2, <3>2
    <3>4. QED
      BY <1>1, <2>1, <3>3
  <2>2. CASE x \notin R
    <3>1. DOMAIN Links(heap) = DOMAIN heap
      BY LinksAt
    <3>2. PICK z \in DOMAIN heap : x \in Links(heap)[z]
      BY <1>1, <2>2, <3>1, ForestHolds
    <3>3. \A y \in DOMAIN heap : y # z => x \notin Links(heap)[y]
      BY <1>1, <3>1, <3>2 DEF Forest
    <3>4. \A y \in DOMAIN heap : y # z => y \notin N /\ y \notin C
      BY <1>3, <3>3, LinksAt
    <3>5. heap[z].next = x \/ (~heap[z].IsReference /\ heap[z].child = x)
      BY <3>2, LinksAt
    <3>6. ~(heap[z].next = x /\ ~heap[z].IsReference /\ heap[z].child = x)
      BY <1>1, <1>3, <3>2 DEF Neighbours
    <3>7. CASE heap[z].next = x
      <4>1. N = {z} /\ C = {}
        BY <3>2, <3>4, <3>6, <3>7
      <4>2. {<<"next", y>> : y \in N} = {<<"next", z>>} /\ {<<"child", y>> : y \in C} = {}
        BY <4>1
      <4>3. Holders(x) = {<<"next", z>>}
        BY <1>1, <1>2, <2>2, <4>2
      <4>4. QED
        BY <4>3
    <3>8. CASE heap[z].next # x
      <4>1. N = {} /\ C = {z}
        BY <3>2, <3>4, <3>5, <3>8
      <4>2. {<<"next", y>> : y \in N} = {} /\ {<<"child", y>> : y \in C} = {<<"child", z>>}
        BY <4>1
      <4>3. Holders(x) = {<<"child", z>>}
        BY <1>1, <1>2, <2>2, <4>2
      <4>4. QED
        BY <4>3
    <3>9. QED
      BY <3>7, <3>8
  <2>3. QED
    BY <2>1, <2>2
<1>5. QED
  BY <1>4, FS_Singleton

LEMMA InvGivesOwners ==
  ASSUME JsonInv
  PROVE  EveryItemHasOneOwner
<1> DEFINE held == owned \cup {root} \cup {frames[i].head : i \in DOMAIN frames}
<1>1. Trees(heap, strings, held \ {NULL})
  BY KeptOnce
<1>2. /\ Neat(heap, held \ {NULL}) /\ Counted(heap, strings) /\ Neighbours(heap)
      /\ Forest(Links(heap), held \ {NULL})
  BY <1>1 DEF Trees, Neat
<1>3. held \subseteq DOMAIN heap \cup {NULL}
  <2>1. \A x \in held \ {NULL} : x \in DOMAIN heap
    BY <1>2, RootAlone
  <2>2. QED
    BY <2>1
<1>4. \A x \in DOMAIN heap : Cardinality(Holders(x)) = 1
  BY OneHolder
<1>5. Below(heap, held) = DOMAIN heap
  <2>1. DOMAIN Links(heap) = DOMAIN heap
    BY LinksAt
  <2>2. Reach(Links(heap), held \ {NULL}) = DOMAIN Links(heap)
    BY <1>2, ForestHolds
  <2>3. QED
    BY <2>1, <2>2 DEF Below
<1>6. QED
  BY <1>2, <1>3, <1>4, <1>5 DEF EveryItemHasOneOwner, Neighbours, Counted

(* The trees of cJSON.c, whatever the caller builds and whatever the parser *)
(* reads: every item that is not lost has exactly one holder, neighbours    *)
(* agree, nothing that is shown is gone and every name and text belongs to  *)
(* an item, at every allocation that fails and every text that ends early   *)
(* (cJSON.c:224-245, 1351-1614).  Lost are the items AddItemToObject drops  *)
(* without memory for the name, and the messages msg_parse refuses.         *)
THEOREM ItemsHaveOneOwner == JsonSpec => []EveryItemHasOneOwner
<1>1. JsonInit => JsonInv
  BY InitJson
<1>2. JsonInv /\ [JsonNext]_cJsonVars => JsonInv'
  BY NextJson, StutterJson
<1>3. JsonInv => EveryItemHasOneOwner
  BY InvGivesOwners
<1>4. QED
  BY <1>1, <1>2, <1>3, PTL DEF JsonSpec
=============================================================================
