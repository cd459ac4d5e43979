-------------------------------- MODULE MCFdb --------------------------------
(* What the gateway does with its data, one part per behaviour.              *)
(* Readings go through the rings of data_mgr, with averages on both sides of *)
(* both thresholds and below zero.                                           *)
(* The template of the schema has three pages of one block each: the schema, *)
(* the table and the sequence that AUTOINCREMENT keeps.  JSON items are used *)
(* by a caller that builds trees, or by one that parses texts; or items of   *)
(* every kind are printed into blocks of every size, and strings are read.   *)
EXTENDS SensorWindow, Fdb, CJson

CONSTANTS DefaultSize, INT_MAX, MaxSize

VARIABLES side, job, buffer, offset, printing, input, output, result, outside

-----------------------------------------------------------------------------
(* The items that are printed *)
Item(type, text, children) ==
  [type |-> type, text |-> text, name |-> <<>>, children |-> children]
Member(name, x) == [x EXCEPT !.name = name]
Null == Item("literal", <<110, 117, 108, 108>>, <<>>)
Number == Item("number", <<49, 46, 53>>, <<>>)
Raw == Item("raw", <<91, 93>>, <<>>)
Invalid == Item("invalid", <<>>, <<>>)
String(text) == Item("string", text, <<>>)
Array(children) == Item("array", <<>>, children)
Object(children) == Item("object", <<>>, children)

Leaves ==
  {Null, Number, Raw, Invalid}
  \cup {String(text) : text \in {<<>>, <<97>>, <<34>>, <<92, 110>>, <<10, 13>>, <<1>>,
                                 <<31, 47, 127>>, <<9, 195, 164>>, <<27, 27>>}}

Trees ==
  {Array(<<>>), Object(<<>>),
   Array(<<Number, Array(<<>>), String(<<34>>)>>),
   Array(<<Number, Invalid>>),
   Object(<<Member(<<97>>, Null)>>),
   Object(<<Member(<<10>>, Object(<<>>)), Member(<<>>, Array(<<Null>>))>>),
   Object(<<Member(<<97>>, Object(<<Member(<<98>>, Object(<<Member(<<99>>, Number)>>))>>))>>)}

PrintJobs ==
  LET job_of(kind, sizes) ==
        [kind : {kind}, item : Leaves \cup Trees, format : BOOLEAN, size : sizes]
  IN  job_of("print", {0}) \cup job_of("buffered", {0, 1, 5})
        \cup job_of("preallocated", 0..MaxSize)

(* The strings that are read: escapes, and code points where the number of   *)
(* bytes changes, given as one or two sequences of four digits.              *)
Sequence(n) ==
  <<92, 117>> \o [i \in 1..4 |-> LET d == (n \div (<<4096, 256, 16, 1>>[i])) % 16
                                 IN  IF d < 10 THEN 48 + d ELSE 55 + d]

Reads(s, means) == [kind |-> "read", input |-> <<34>> \o s \o <<34>>, means |-> means]
Refused(s) == Reads(s, <<-1>>)
Unclosed(s) == [Refused(s) EXCEPT !.input = <<34>> \o s]

ReadJobs ==
  {Reads(Sequence(n), <<n>>) : n \in {0, 127, 128, 2047, 2048, 55295, 57344, 65535}}
  \cup {Reads(<<97>> \o Sequence(n[1]) \o Sequence(n[2]) \o <<98>>,
              <<97, 65536 + (n[1] - 55296) * 1024 + (n[2] - 56320), 98>>) :
           n \in {55296, 56319} \X {56320, 57343}}
  \cup {Reads(<<92, 98, 92, 47, 92, 34, 92, 92, 92, 117, 48, 48, 101, 52>>, <<8, 47, 34, 92, 228>>),
        Reads(<<92, 117, 122, 122, 122, 122>>, <<0>>),
        Reads(<<92, 117, 49, 50, 51, 92, 92>>, <<0, 34>>)}
  \cup {Refused(s) : s \in
          {<<92>>, <<92, 120>>, <<92, 117, 49, 50, 51>>, Sequence(56320), Sequence(55296),
           Sequence(55296) \o <<97, 97, 97, 97, 97, 97>>, Sequence(55296) \o Sequence(97)}}
  \cup {Unclosed(s) : s \in {<<97>>, <<92>>}}

Printed == INSTANCE JsonText WITH Jobs <- PrintJobs \cup ReadJobs, frames <- printing

-----------------------------------------------------------------------------

MCSenIDs == <<1, 2, 3, 4, 5>>
MCTemps == {-300, 240, 260}

ItemSymmetry == Permutations(Items)

textVars == <<job, buffer, offset, printing, input, output, result, outside>>

MCInit ==
  /\ side \in {"window", "fdb", "build", "parse", "text"}
  /\ Init /\ FdbInit /\ JsonInit /\ Printed!Init
  /\ side # "window" => behind = 0

(* What data_mgr does once `undefined` is set is not modelled. *)
Undefined == undefined /\ UNCHANGED vars

MCNext ==
  /\ UNCHANGED side
  /\ \/ side = "window" /\ (Next \/ Undefined) /\ UNCHANGED <<fdbVars, cJsonVars, textVars>>
     \/ side = "fdb" /\ FdbNext /\ UNCHANGED <<vars, cJsonVars, textVars>>
     \/ side = "build" /\ Build /\ UNCHANGED <<vars, fdbVars, textVars>>
     \/ side = "parse" /\ Parsing /\ UNCHANGED <<vars, fdbVars, textVars>>
     \/ side = "text" /\ Printed!Next /\ UNCHANGED <<vars, fdbVars, cJsonVars>>

MCSpec == MCInit /\ [][MCNext]_<<side, vars, fdbVars, cJsonVars, textVars>>

-----------------------------------------------------------------------------
(* What is printed stays in its block and is the item's text, five bytes     *)
(* more than that suffice (cJSON.h:167), and a string is read as it was      *)
(* meant (cJSON.c:382, 683, 1277).                                           *)
TextsArePrintedAndRead == Printed!TextsArePrintedAndRead

(* DESCRIPTION.md:30: "Fixed memory leak."  So whatever message msg_parse is *)
(* given, nothing it allocated is left behind (os_msg.c:66-99).              *)
NoMemoryLeak == side = "parse" => lost = {}
=============================================================================
