------------------------------ MODULE JsonText ------------------------------
(***************************************************************************)
(* The text of JSON items, as cJSON.c prints it (the printbuffer, ensure   *)
(* and the recursion of print_value) and as parse_string reads a string.   *)
(*                                                                         *)
(* A buffer is the bytes of its block; offset counts from 0 as in C.  The  *)
(* recursion is a frame per open array or object and one for the value in  *)
(* hand.  An item is its type, the text of its value (a number as sprintf  *)
(* renders it), its name and its children; a type that cannot be printed,  *)
(* or a raw item without a text, is "invalid".  A block that is asked for  *)
(* may not be had; the one printed into is then freed.                     *)
(***************************************************************************)
EXTENDS Integers, SequencesExt

CONSTANTS
  Jobs,        \* what is asked for: to print an item or to read a string
  DefaultSize, \* default_buffer_size
  INT_MAX

VARIABLES
  job,
  buffer,      \* the block printed into
  offset,      \* the place in the buffer, and input_pointer in the input
  frames,      \* the items being printed, the innermost last
  input,       \* the text a string is read from, its quotes included
  output,      \* what has been read of the string
  result,      \* "nothing", "printing", "text", "reading", "read" or "failed"
  outside      \* a byte was read or written outside a block

textVars == <<job, buffer, offset, frames, input, output, result, outside>>

Init ==
  /\ job = [kind |-> "none"]
  /\ buffer = <<>> /\ offset = 0 /\ frames = <<>>
  /\ input = <<>> /\ output = <<>>
  /\ result = "nothing"
  /\ outside = FALSE

Unwritten == -1
Block(n) == [i \in 1..n |-> Unwritten]

Quote == 34
Backslash == 92

Fail ==
  /\ result' = "failed"
  /\ UNCHANGED <<job, buffer, offset, frames, input, output, outside>>

-----------------------------------------------------------------------------
(* The printbuffer *)

(* What ensure asks for: the needed bytes after offset, and one more. *)
Wanted(needed) == offset + needed + 1

Refuses(needed) ==
  \/ Len(buffer) > 0 /\ offset >= Len(buffer)
  \/ needed > INT_MAX
  \/ /\ Wanted(needed) > Len(buffer)
     /\ job.kind = "preallocated" \/ Wanted(needed) > INT_MAX

Enlarged(n) == buffer \o Block((IF n > INT_MAX \div 2 THEN INT_MAX ELSE 2 * n) - Len(buffer))

(* Mutant of ensure: it forgets what is in the buffer already. *)
ensure_from_start(needed) ==
  IF needed + 1 <= Len(buffer) THEN buffer ELSE Enlarged(needed + 1)

ensure(needed) ==
  IF Wanted(needed) <= Len(buffer) THEN buffer ELSE Enlarged(Wanted(needed))

Written(b, at, bytes) ==
  [i \in DOMAIN b |-> IF i - at \in DOMAIN bytes THEN bytes[i - at] ELSE b[i]]

(* One function of the print: it writes the pieces, each some bytes so far *)
(* from offset, and moves on by advance.                                   *)
WritePieces(needed, pieces, advance, after) ==
  \/ /\ ~Refuses(needed)
     /\ buffer' = FoldLeft(LAMBDA b, p : Written(b, offset + p.at, p.bytes),
                           ensure(needed), pieces)
     /\ outside' = (outside \/ \E p \in ToSet(pieces) :
                                 offset + p.at + Len(p.bytes) > Len(buffer'))
     /\ offset' = offset + advance
     /\ frames' = after
     /\ UNCHANGED <<job, input, output, result>>
  \/ (Refuses(needed) \/ ensure(needed) # buffer) /\ Fail

Write(needed, bytes, advance, after) ==
  WritePieces(needed, <<[at |-> 0, bytes |-> bytes]>>, advance, after)

(* strlen from offset: the bytes before the first 0, or all there are. *)
TextLength ==
  LET ends == {n \in 0..(Len(buffer) - offset - 1) : buffer[offset + n + 1] = 0}
  IN  IF ends = {} THEN Len(buffer) - offset ELSE Min(ends)

update_offset ==
  /\ offset' = offset + TextLength
  /\ outside' = (outside \/ offset' >= Len(buffer))

-----------------------------------------------------------------------------
(* print_value *)
Top == Last(frames)
Pop == Front(frames)
Step(step) == [frames EXCEPT ![Len(frames)].step = step]
At(step) == result = "printing" /\ frames # <<>> /\ Top.step = step
Depth == Cardinality({k \in DOMAIN frames : frames[k].step # "value"})

(* cJSON_Print, cJSON_PrintBuffered and cJSON_PrintPreallocated *)
StartPrinting ==
  /\ result = "nothing"
  /\ \E j \in Jobs :
       /\ j.kind # "read"
       /\ job' = j
       /\ \/ /\ buffer' = Block(IF j.kind = "print" THEN DefaultSize ELSE j.size)
             /\ frames' = <<[item |-> j.item, child |-> 1, step |-> "value"]>>
             /\ result' = "printing"
          \/ /\ j.kind # "preallocated"
             /\ result' = "failed"
             /\ UNCHANGED <<buffer, frames>>
  /\ UNCHANGED <<offset, input, output, outside>>

print_scalar ==
  /\ At("value") /\ Top.item.type \in {"literal", "number", "raw"}
  /\ Write(Len(Top.item.text) + 1, Append(Top.item.text, 0),
           IF Top.item.type = "number" THEN Len(Top.item.text) ELSE 0, Pop)

print_invalid ==
  /\ At("value") /\ Top.item.type = "invalid"
  /\ Fail

(* The characters that are escaped by a letter, and those by their code. *)
Letter == (8 :> 98) @@ (9 :> 116) @@ (10 :> 110) @@ (12 :> 102) @@ (13 :> 114)
          @@ (Quote :> Quote) @@ (Backslash :> Backslash)
Special == DOMAIN Letter
Control == (1..31) \ Special
HexDigit(n) == IF n < 10 THEN 48 + n ELSE 87 + n

Escape(c) ==
  IF c \in Special THEN <<Backslash, Letter[c]>>
  ELSE IF c \in Control
       THEN <<Backslash, 117, 48, 48, HexDigit(c \div 16), HexDigit(c % 16)>>
  ELSE <<c>>

escape_characters(s) ==
  Cardinality({i \in DOMAIN s : s[i] \in Special})
    + 5 * Cardinality({i \in DOMAIN s : s[i] \in Control})

(* The room is counted before, and the closing quote goes where the count  *)
(* says; no string at all is printed as an empty one.                      *)
print_string_ptr(s, after) ==
  LET output_length == Len(s) + escape_characters(s)
      escaped == FlattenSeq([i \in DOMAIN s |-> Escape(s[i])])
  IN  WritePieces(output_length + 3,
                  <<[at |-> 0, bytes |-> <<Quote>> \o escaped],
                    [at |-> output_length + 1, bytes |-> <<Quote, 0>>]>>, 0, after)

print_string ==
  /\ At("value") /\ Top.item.type = "string"
  /\ print_string_ptr(Top.item.text, Pop)

Children == Top.item.children
Formatted(bytes) == IF job.format THEN bytes ELSE <<>>
Tabs(n) == [i \in 1..n |-> 9]

print_child ==
  /\ At("child")
  /\ frames' = Append(Step("printed"),
                      [item |-> Children[Top.child], child |-> 1, step |-> "value"])
  /\ UNCHANGED <<job, buffer, offset, input, output, result, outside>>

(* A name or a value has been printed, without offset being moved. *)
AfterChild ==
  \E step \in {"named", "printed"} :
    /\ At(step)
    /\ update_offset
    /\ frames' = Step(IF step = "named" THEN "colon" ELSE "comma")
    /\ UNCHANGED <<job, buffer, input, output, result>>

(* On to the next child, whose first step is given, or to the end. *)
IsLast == Top.child = Len(Children)
Advance(first) ==
  IF IsLast THEN Step("close")
  ELSE [frames EXCEPT ![Len(frames)].child = @ + 1, ![Len(frames)].step = first]

print_array ==
  /\ frames # <<>> /\ Top.item.type = "array"
  /\ \/ /\ At("value")
        /\ Write(1, <<91>>, 1, Step(IF Children = <<>> THEN "close" ELSE "child"))
     \/ /\ At("comma") /\ ~IsLast
        /\ LET comma == <<44>> \o Formatted(<<32>>) IN
           Write(Len(comma) + 1, Append(comma, 0), Len(comma), Advance("child"))
     \/ /\ At("comma") /\ IsLast
        /\ frames' = Advance("child")
        /\ UNCHANGED <<job, buffer, offset, input, output, result, outside>>
     \/ At("close") /\ Write(2, <<93, 0>>, 0, Pop)

print_object ==
  /\ frames # <<>> /\ Top.item.type = "object"
  /\ LET first == IF job.format THEN "indent" ELSE "name" IN
     \/ /\ At("value")
        /\ LET open == <<123>> \o Formatted(<<10>>) IN
           Write(Len(open) + 1, open, Len(open),
                 Step(IF Children = <<>> THEN "close" ELSE first))
     \/ At("indent") /\ Write(Depth, Tabs(Depth), Depth, Step("name"))
     \/ At("name") /\ print_string_ptr(Children[Top.child].name, Step("named"))
     \/ /\ At("colon")
        /\ LET colon == <<58>> \o Formatted(<<9>>) IN
           Write(Len(colon), colon, Len(colon), Step("child"))
     \/ /\ At("comma")
        /\ LET comma == (IF IsLast THEN <<>> ELSE <<44>>) \o Formatted(<<10>>) IN
           Write(Len(comma) + 1, Append(comma, 0), Len(comma), Advance(first))
     \/ /\ At("close")
        /\ Write(IF job.format THEN Depth + 1 ELSE 2,
                 Formatted(Tabs(Depth - 1)) \o <<125, 0>>, 0, Pop)

(* print returns a block of the length of the text, which may not be had;  *)
(* the other two functions return what they have.                          *)
FinishPrinting ==
  /\ result = "printing" /\ frames = <<>>
  /\ \/ /\ job.kind = "print"
        /\ update_offset
        /\ buffer' = SubSeq(buffer, 1, offset' + 1)
        /\ result' = "text"
        /\ UNCHANGED <<job, frames, input, output>>
     \/ /\ job.kind # "print"
        /\ result' = "text"
        /\ UNCHANGED <<job, buffer, offset, frames, input, output, outside>>
     \/ job.kind = "print" /\ Fail

print_value ==
  \/ print_scalar \/ print_invalid \/ print_string
  \/ print_array \/ print_object \/ print_child \/ AfterChild

-----------------------------------------------------------------------------
(* parse_string; input_pointer is offset, counted from the opening quote. *)
Char(p) == IF p + 1 \in DOMAIN input THEN input[p + 1] ELSE 0

(* The closing quote or the end of the input, and the escapes before it. *)
Scan(text) ==
  LET scan[p \in 1..(Len(text) + 2)] ==
        IF p >= Len(text) THEN [at |-> Len(text), skipped |-> 0, closed |-> FALSE]
        ELSE IF text[p + 1] = Quote THEN [at |-> p, skipped |-> 0, closed |-> TRUE]
        ELSE IF text[p + 1] # Backslash THEN scan[p + 1]
        ELSE [scan[p + 2] EXCEPT !.skipped = @ + 1]
  IN  scan[1]

input_end == Scan(input).at

(* Without a closing quote there is nothing to read, and without a block   *)
(* nowhere to read it to.  The string is one that is given or one that has *)
(* been printed.                                                           *)
StartReading ==
  /\ \/ result = "nothing" /\ \E j \in Jobs : j.kind = "read" /\ job' = j /\ input' = j.input
     \/ /\ result = "text" /\ job.item.type = "string"
        /\ input' = SubSeq(buffer, 1, offset + TextLength)
        /\ job' = job
  /\ \/ offset' = 1 /\ result' = (IF Scan(input').closed THEN "reading" ELSE "failed")
     \/ offset' = 0 /\ result' = "failed"
  /\ UNCHANGED <<buffer, frames, output, outside>>

allocation_length == input_end - Scan(input).skipped

HexValue(c) ==
  CASE c \in 48..57 -> c - 48 [] c \in 65..70 -> c - 55 [] c \in 97..102 -> c - 87
    [] OTHER -> -1

(* Anything but four digits counts as 0. *)
parse_hex4(p) ==
  LET v == [i \in 0..3 |-> HexValue(Char(p + i))]
  IN  IF -1 \in {v[i] : i \in 0..3} THEN 0
      ELSE 4096 * v[0] + 256 * v[1] + 16 * v[2] + v[3]

High == 55296..56319
Low == 56320..57343

Continued(n) == 128 + (n % 64)

Utf8(codepoint) ==
  CASE codepoint < 128 -> <<codepoint>>
    [] codepoint \in 128..2047 -> <<192 + (codepoint \div 64), Continued(codepoint)>>
    [] codepoint \in 2048..65535 ->
         <<224 + (codepoint \div 4096), Continued(codepoint \div 64), Continued(codepoint)>>
    [] codepoint > 65535 ->
         <<240 + (codepoint \div 262144), Continued(codepoint \div 4096),
           Continued(codepoint \div 64), Continued(codepoint)>>

(* The code point of the literal at p and the literal's length, which is 0 *)
(* when it is none.  Two sequences stand for one code point.               *)
utf16_literal(p) ==
  LET first_code == parse_hex4(p + 2)
      second_code == parse_hex4(p + 8)
  IN  IF /\ input_end - p >= 6 /\ first_code \notin High \cup Low
      THEN [codepoint |-> first_code, length |-> 6]
      ELSE IF /\ input_end - p >= 12 /\ first_code \in High
              /\ Char(p + 6) = Backslash /\ Char(p + 7) = 117 /\ second_code \in Low
      THEN [codepoint |-> 65536 + (first_code % 1024) * 1024 + (second_code % 1024),
            length |-> 12]
      ELSE [codepoint |-> 0, length |-> 0]

Read(bytes, length) ==
  /\ output' = output \o bytes
  /\ offset' = offset + length
  /\ outside' = (outside \/ Len(output') > allocation_length + 1)
  /\ UNCHANGED <<job, buffer, frames, input, result>>

parse_escape ==
  LET letter == Char(offset + 1)
      literal == utf16_literal(offset)
  IN  \/ \E c \in Special : Letter[c] = letter /\ Read(<<c>>, 2)
      \/ letter = 47 /\ Read(<<47>>, 2)
      \/ letter = 117 /\ literal.length > 0 /\ Read(Utf8(literal.codepoint), literal.length)
      \/ /\ letter \notin {Letter[c] : c \in Special} \cup {47, 117}
         /\ Fail
      \/ letter = 117 /\ literal.length = 0 /\ Fail

parse_string ==
  /\ result = "reading"
  /\ \/ offset < input_end /\ Char(offset) # Backslash /\ Read(<<Char(offset)>>, 1)
     \/ offset < input_end /\ Char(offset) = Backslash /\ parse_escape
     \/ /\ offset >= input_end
        /\ result' = "read"
        /\ outside' = (outside \/ Len(output) + 1 > allocation_length + 1)
        /\ UNCHANGED <<job, buffer, offset, frames, input, output>>

(* The caller is done with what it was given: cJSON_free. *)
Release ==
  /\ result \in {"text", "read", "failed"}
  /\ job' = [kind |-> "none"]
  /\ buffer' = <<>> /\ offset' = 0 /\ frames' = <<>>
  /\ input' = <<>> /\ output' = <<>>
  /\ result' = "nothing"
  /\ UNCHANGED outside

Next ==
  Release \/ StartPrinting \/ print_value \/ FinishPrinting \/ StartReading \/ parse_string

-----------------------------------------------------------------------------
(* What is expected: the text of an item, and the code points of bytes. *)
RECURSIVE Text(_, _)
Text(x, depth) ==
  LET body(i) ==
        LET c == x.children[i] IN
        IF x.type = "array" THEN Text(c, depth + 1)
        ELSE Formatted(Tabs(depth + 1)) \o Text([type |-> "string", text |-> c.name], 0)
             \o <<58>> \o Formatted(<<9>>) \o Text(c, depth + 1)
      between == <<44>> \o Formatted(<<IF x.type = "array" THEN 32 ELSE 10>>)
      list == FlattenSeq([i \in DOMAIN x.children |->
                            (IF i = 1 THEN <<>> ELSE between) \o body(i)])
  IN  CASE x.type \in {"literal", "number", "raw"} -> x.text
        [] x.type = "string" ->
             <<Quote>> \o FlattenSeq([i \in DOMAIN x.text |-> Escape(x.text[i])]) \o <<Quote>>
        [] x.type = "array" -> <<91>> \o list \o <<93>>
        [] x.type = "object" ->
             <<123>> \o Formatted(<<10>>) \o list
             \o (IF x.children = <<>> THEN <<>> ELSE Formatted(<<10>>))
             \o Formatted(Tabs(depth)) \o <<125>>

RECURSIVE Printable(_)
Printable(x) ==
  /\ x.type # "invalid"
  /\ \A i \in DOMAIN x.children : Printable(x.children[i])

RECURSIVE CodePoints(_)
CodePoints(bytes) ==
  IF bytes = <<>> THEN <<>>
  ELSE LET b == Head(bytes)
           size == IF b < 128 THEN 1 ELSE IF b < 224 THEN 2 ELSE IF b < 240 THEN 3 ELSE 4
           mark == <<0, 192, 224, 240>>
           point == FoldLeft(LAMBDA n, c : 64 * n + (c - 128), b - mark[size],
                             SubSeq(bytes, 2, size))
       IN  <<point>> \o CodePoints(SubSeq(bytes, size + 1, Len(bytes)))

(* Every print stays in its block (ensure, cJSON.c:382-458), and a print   *)
(* that succeeds leaves the item's text with a 0 after it, whatever sizes  *)
(* the block went through.                                                 *)
PrintsTheItem ==
  /\ ~outside
  /\ result = "text" =>
       LET text == Text(job.item, 0) IN
       Len(buffer) > Len(text) /\ SubSeq(buffer, 1, Len(text) + 1) = Append(text, 0)

(* "to be safe allocate 5 bytes more than you actually need"               *)
(* (cJSON.h:167): cJSON_PrintPreallocated then does not fail.              *)
FiveMoreSuffice ==
  result = "failed" /\ input = <<>> /\ job.kind = "preallocated" /\ Printable(job.item)
    => job.size < Len(Text(job.item, 0)) + 1 + 5

Malformed == <<-1>>

(* parse_string (cJSON.c:683-817) writes inside the block it counted, gives *)
(* the characters that were meant, or those that were printed, and refuses  *)
(* no string that is well formed.                                           *)
ReadsTheString ==
  /\ result = "read" =>
       IF job.kind = "read" THEN CodePoints(output) = job.means ELSE output = job.item.text
  /\ result = "failed" /\ input # <<>> /\ offset > 0 => job.kind = "read" /\ job.means = Malformed

(* The texts of cJSON are what they should be, and fit where they go.      *)
TextsArePrintedAndRead == PrintsTheItem /\ FiveMoreSuffice /\ ReadsTheString
=============================================================================
