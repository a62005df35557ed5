-------------------------------- MODULE Finders --------------------------------
(***************************************************************************)
(* The record finders (src/src/find.rs): how long is the record that the   *)
(* data starts with, by each format --finder can name, and the walk that   *)
(* asks them: more data is read and the finder asked again, or the record  *)
(* is taken and the finder asked of the rest.                              *)
(*                                                                         *)
(* A byte is its number.  An answer is a set: empty for None, which is     *)
(* "not yet", and otherwise the length.                                    *)
(***************************************************************************)
EXTENDS Integers, Sequences, SequencesExt

CONSTANTS
  Specs,     \* what --finder, --finder-arg and --separator may say: a name, and
             \* {} or {text} for each of the others
  Alphabet   \* by format, the bytes there may be at each place of the buffer;
             \* their number bounds how much is read ahead

ASSUME SpecsAssumption ==
  \A s \in Specs : /\ DOMAIN s = {"name", "arg", "separator"}
                    /\ {} \in {s.arg, s.separator}  \* clap refuses both
ASSUME AlphabetAssumption == \A f \in DOMAIN Alphabet : Alphabet[f] \in Seq(SUBSET (0 .. 255))

VARIABLES
  boundary,  \* what from_spec resolved to, {} before
  data,      \* what has been read, from the start of a record
  answer     \* what the finder last said

vars == <<boundary, data, answer>>

From(s, n) == SubSeq(s, n + 1, Len(s))
FirstOf(s, n) == SubSeq(s, 1, n)

\* Numbers in two byte orders, and in decimal as str::parse reads them.  Bound:
\* one that is more than any buffer holds is as good as Huge.
Huge == 2 ^ 20
BigEndian(s) ==
  FoldLeft(LAMBDA n, byte : IF n >= Huge THEN Huge ELSE 256 * n + byte, 0, s)
LittleEndian(s) == BigEndian(Reverse(s))
Parsed(text) ==
  LET digits == IF text # <<>> /\ text[1] = 43 THEN Tail(text) ELSE text
  IN  IF digits # <<>> /\ \A i \in DOMAIN digits : digits[i] \in 48 .. 57
        THEN {FoldLeft(LAMBDA n, d : 10 * n + (d - 48), 0, digits)} ELSE {}

--------------------------------------------------------------------------------
\* The finders.

Occurrences(needle, s) ==
  {n \in 0 .. (Len(s) - Len(needle)) : FirstOf(From(s, n), Len(needle)) = needle}

\* A mistake: the separator found is the last one buffered.
SeparatorLast(needle, s) ==
  {n + Len(needle) : n \in {n \in Occurrences(needle, s) :
                              \A m \in Occurrences(needle, s) : m <= n}}
by_separator(needle, s) ==
  {n + Len(needle) : n \in {n \in Occurrences(needle, s) :
                              \A m \in Occurrences(needle, s) : n <= m}}

\* A mistake: the prefix counts itself.
PrefixCounted(s) ==
  IF Len(s) < 4 THEN {} ELSE {n \in {LittleEndian(FirstOf(s, 4))} : Len(s) >= n}
by_le32_prefix(s) ==
  IF Len(s) < 4 THEN {} ELSE {n \in {4 + LittleEndian(FirstOf(s, 4))} : Len(s) >= n}

by_fixed(len, s) == IF len > 0 /\ Len(s) >= len THEN {len} ELSE {}

\* msgpack_len: the number behind a type byte, if it is there.
msgpack_len(rest, width) ==
  IF Len(rest) > width THEN {BigEndian(SubSeq(rest, 2, 1 + width))} ELSE {}

\* The sizes of scalars of more than a byte, fixext included, and of the length
\* of what has one of its own: bytes, with what lies between them and the type
\* byte, and containers, with how many values an element is.
Scalar(byte) ==
  CASE byte \in {204, 208} -> 2
    [] byte \in {205, 209, 212} -> 3
    [] byte = 213 -> 4
    [] byte \in {202, 206, 210} -> 5
    [] byte = 214 -> 6
    [] byte \in {203, 207, 211} -> 9
    [] byte = 215 -> 10
    [] byte = 216 -> 18
Run == [b \in {196, 197, 198, 217, 218, 219} |-> 1] @@ [b \in {199, 200, 201} |-> 2]
Container == [b \in {220, 221} |-> 1] @@ [b \in {222, 223} |-> 2]
Width(byte) ==
  IF byte \in {196, 199, 217} THEN 1
  ELSE IF byte \in {197, 200, 218, 220, 222} THEN 2 ELSE 4

\* msgpack_head: what a value takes before its children, and their number.
msgpack_head(rest) ==
  IF rest = <<>> \/ rest[1] = 193 THEN {}
  ELSE LET byte == rest[1] IN
    CASE byte \in 128 .. 143 -> {<<1, 2 * (byte % 16)>>}
      [] byte \in 144 .. 159 -> {<<1, byte % 16>>}
      [] byte \in 160 .. 191 -> {<<1 + (byte % 32), 0>>}
      [] byte \in DOMAIN Run ->
           {<<Run[byte] + Width(byte) + n, 0>> : n \in msgpack_len(rest, Width(byte))}
      [] byte \in DOMAIN Container ->
           {<<1 + Width(byte), Container[byte] * n>> : n \in msgpack_len(rest, Width(byte))}
      [] byte \in 202 .. 216 -> {<<Scalar(byte), 0>>}
      [] OTHER -> {<<1, 0>>}

\* A mistake: a value that is partly there is a record.
MsgpackPartly(s) ==
  LET Walk[at \in Nat, pending \in Nat] ==
        IF pending = 0 THEN {at}
        ELSE UNION {Walk[at + h[1], pending - 1 + h[2]] : h \in msgpack_head(From(s, at))}
  IN  Walk[0, 1]

\* by_msgpack: the values still owed are counted, and no value is there before
\* its last byte.  The sums do not overflow: each head adds at most 2^33.
by_msgpack(s) ==
  LET Walk[at \in Nat, pending \in Nat] ==
        IF pending = 0 THEN {at}
        ELSE UNION {Walk[at + h[1], pending - 1 + h[2]] :
                      h \in {h \in msgpack_head(From(s, at)) : at + h[1] <= Len(s)}}
  IN  Walk[0, 1]

--------------------------------------------------------------------------------
\* from_spec, {} where it refuses.

Newline == <<10>>
Separator(needle) == [name |-> "sep", needle |-> needle]
Finder(name, len) == [name |-> name, len |-> len]

from_spec(name, arg) ==
  CASE name = "sep" -> {Separator(text) : text \in IF arg = {} THEN {Newline} ELSE arg}
    [] name = "fixed" ->
         {Finder("fixed", n) : n \in {n \in UNION {Parsed(text) : text \in arg} : n # 0}}
    [] name \in {"flatbuffers", "msgpack"} -> IF arg = {} THEN {Finder(name, 0)} ELSE {}
    [] OTHER -> {}

\* BoundaryArgs::boundary: what the flags name, {} where they are refused.
FlagsBoundary(s) ==
  IF s.separator # {} /\ s.name # "sep" THEN {} ELSE from_spec(s.name, s.arg \cup s.separator)

\* check_separator, which every operation given a separator begins with: an
\* empty one is nowhere asked for.
check_separator(b) == b.name = "sep" => b.needle # <<>>

\* What the finder that was resolved says of s.
Find(b, s) ==
  CASE b.name = "sep" -> by_separator(b.needle, s)
    [] b.name = "fixed" -> by_fixed(b.len, s)
    [] b.name = "flatbuffers" -> by_le32_prefix(s)
    [] b.name = "msgpack" -> by_msgpack(s)

--------------------------------------------------------------------------------
Init == boundary = {} /\ data = <<>> /\ answer = {}

Configure ==
  /\ boundary = {}
  /\ \E s \in Specs :
       /\ boundary' = {b \in FlagsBoundary(s) : check_separator(b)}
       /\ boundary' # {}
  /\ UNCHANGED <<data, answer>>

Asked(s) == data' = s /\ answer' = UNION {Find(b, s) : b \in boundary}

\* More is read, whether a record is there or not, and the finder is asked.
Read ==
  /\ \E b \in boundary :
       /\ Len(data) < Len(Alphabet[b.name])
       /\ \E byte \in Alphabet[b.name][Len(data) + 1] : Asked(Append(data, byte))
  /\ UNCHANGED boundary

\* One turn of ends: the record is taken and the finder asked of what follows.
Take ==
  /\ answer # {}
  /\ \E n \in answer : Asked(From(data, n))
  /\ UNCHANGED boundary

Next == Configure \/ Read \/ Take
Spec == Init /\ [][Next]_vars

--------------------------------------------------------------------------------
\* What the formats are, as grammars of whole records.

Counted(s, width, between) ==
  Len(s) >= width /\ Len(s) = width + between + BigEndian(FirstOf(s, width))

RECURSIVE IsValue(_), AreValues(_, _)
AreValues(n, s) ==
  IF n = 0 THEN s = <<>>
  ELSE \E m \in 1 .. Len(s) : IsValue(FirstOf(s, m)) /\ AreValues(n - 1, From(s, m))

\* A MessagePack value is a type byte and, by its kind, nothing, so many bytes,
\* a length and that many bytes, or so many values.
IsValue(s) ==
  LET byte == s[1]
      body == Tail(s)
      Items(width, each) ==
        Len(body) >= width /\ AreValues(each * BigEndian(FirstOf(body, width)), From(body, width))
  IN  \/ byte \in 0 .. 127 \cup 224 .. 255 \cup {192, 194, 195} /\ body = <<>>
      \/ byte \in 128 .. 143 /\ AreValues(2 * (byte - 128), body)
      \/ byte \in 144 .. 159 /\ AreValues(byte - 144, body)
      \/ byte \in 160 .. 191 /\ Len(body) = byte - 160
      \/ byte \in 196 .. 198 /\ Counted(body, 2 ^ (byte - 196), 0)
      \/ byte \in 199 .. 201 /\ Counted(body, 2 ^ (byte - 199), 1)
      \/ byte \in 202 .. 203 /\ Len(body) = 4 * (byte - 201)
      \/ byte \in 204 .. 207 /\ Len(body) = 2 ^ (byte - 204)
      \/ byte \in 208 .. 211 /\ Len(body) = 2 ^ (byte - 208)
      \/ byte \in 212 .. 216 /\ Len(body) = 1 + 2 ^ (byte - 212)
      \/ byte \in 217 .. 219 /\ Counted(body, 2 ^ (byte - 217), 0)
      \/ byte \in 220 .. 221 /\ Items(2 * (byte - 219), 1)
      \/ byte \in 222 .. 223 /\ Items(2 * (byte - 221), 2)

IsRecord(b, s) ==
  CASE b.name = "sep" ->
         /\ IsSuffix(b.needle, s)
         /\ ~\E before \in Prefixes(Front(s)) : IsSuffix(b.needle, before)
    [] b.name = "fixed" -> Len(s) = b.len
    [] b.name = "flatbuffers" -> Len(s) >= 4 /\ Len(From(s, 4)) = LittleEndian(FirstOf(s, 4))
    [] b.name = "msgpack" -> IsValue(s)

\* The contract at the top of find.rs: a finder answers with the length of the
\* record the data starts with, which is all there and not empty, and with None
\* while no record is; walking type bytes and counting what is owed comes to the
\* same as reading the grammar.
AnswerIsTheRecord ==
  \A b \in boundary : answer = {n \in 1 .. Len(data) : IsRecord(b, FirstOf(data, n))}

\* None is "not yet" and a length is for good: what the reader has been told of a
\* record holds however much more it reads before it takes it (record.rs asks
\* again of a buffer that has grown).
LengthIsKept == [][data # data' /\ IsPrefix(data, data') => answer \subseteq answer']_vars
================================================================================
