------------------------------ MODULE Unicode ------------------------------
(***************************************************************************)
(* Texts between UTF-8 and UTF-16: convert_to_utf16 and convert_from_utf16 *)
(* of the keyboard dialog (src/sample-ps3/source/dialog.c), one step per   *)
(* character, and the \uXXXX literals of src/src/cJSON.c.                  *)
(***************************************************************************)
EXTENDS Integers, SequencesExt

CONSTANTS Texts,      \* sequences of code points; Lead and Follow are stray bytes
          Typed,      \* sequences of units that the keyboard may give
          Literals,   \* sequences of one or two times four hexadecimal digits
          Room16,     \* "available" of convert_to_utf16
          Room8       \* "size" of convert_from_utf16

Lead == -1      \* the first byte of two
Follow == -2    \* a continuation byte
NoDigit == -1
None == << >>

IsCode(c) == 0 < c /\ c < 1114112
Digits == 0..15 \cup {NoDigit}

UnicodeAssumption ==
  /\ \A t \in Texts : t \in Seq(Int) /\ \A i \in DOMAIN t : IsCode(t[i]) \/ t[i] \in {Lead, Follow}
  /\ \A t \in Typed : t \in Seq(Int) /\ \A i \in DOMAIN t : IsCode(t[i])
  /\ \A l \in Literals : l \in Seq(Digits) /\ Len(l) \in {4, 8}
  /\ Room16 \subseteq Nat /\ Room8 \subseteq Nat
ASSUME UnicodeGiven == UnicodeAssumption

VARIABLES text,               \* the characters that are converted
          available, size,
          in8, utf16, utf8,   \* what is left to read, written, and written back
          from,               \* how many units were read back
          converting

unicodeVars == <<text, available, size, in8, utf16, utf8, from, converting>>

-----------------------------------------------------------------------------
\* Sequences behind one another, up to each of them.
Joined(parts) ==
  LET upTo[n \in 0..Len(parts)] == IF n = 0 THEN << >> ELSE upTo[n - 1] \o parts[n]
  IN upTo
All(parts) == Joined(parts)[Len(parts)]

\* The number of some digits to a base, behind what stands before them.
Compose(base, high, digits) ==
  LET upTo[n \in 0..Len(digits)] == IF n = 0 THEN high ELSE upTo[n - 1] * base + digits[n]
  IN upTo[Len(digits)]

-----------------------------------------------------------------------------
(* UTF-8: the byte sequences of the code points.                           *)

Following(bits) == 128 + (bits % 64)
Utf8(code) ==
  IF code < 128 THEN <<code>>
  ELSE IF code < 2048 THEN <<192 + code \div 64, Following(code)>>
  ELSE IF code < 65536 THEN <<224 + code \div 4096, Following(code \div 64), Following(code)>>
  ELSE <<240 + code \div 262144, Following(code \div 4096), Following(code \div 64), Following(code)>>
InUtf8(c) == CASE c = Lead -> <<195>> [] c = Follow -> <<128>> [] OTHER -> Utf8(c)

Surrogate(code) == 55296 <= code /\ code < 57344
Plain(code) == 0 < code /\ code < 65536 /\ ~ Surrogate(code)
Pair(code) == <<55296 + (code - 65536) \div 1024, 56320 + (code % 1024)>>
Units(code) == IF code < 65536 THEN <<code>> ELSE Pair(code)

UnicodeInit ==
  /\ utf8 = << >> /\ from = 0
  /\ \/ \E t \in Texts : /\ text = t /\ in8 = All([i \in DOMAIN t |-> InUtf8(t[i])])
                         /\ utf16 = << >> /\ available \in Room16 /\ size \in Room8 /\ converting = "to"
     \/ \E t \in Typed : /\ text = t /\ utf16 = All([i \in DOMAIN t |-> Units(t[i])])
                         /\ in8 = << >> /\ available = Len(utf16) /\ size \in Room8 /\ converting = "from"
     \/ \E t \in Literals : /\ text = t /\ in8 = << >> /\ utf16 = << >>
                            /\ available = 0 /\ size = 0 /\ converting = "literal"

-----------------------------------------------------------------------------
(* convert_to_utf16.                                                       *)

\* The bytes that follow a first byte, and its own bits.
Extra(ch) == CASE ch < 128 -> 0 [] ch \in 192..223 -> 1 [] ch \in 224..239 -> 2 [] OTHER -> 3
Bits(ch) == CASE Extra(ch) = 0 -> ch [] Extra(ch) = 1 -> ch % 32 [] Extra(ch) = 2 -> ch % 16 [] OTHER -> ch % 8

CodeAt(bytes, extra) == Compose(64, Bits(bytes[1]), [i \in 1..extra |-> bytes[i + 1] % 64])

\* The units written: 32-bit arithmetic for what the code calls a pair.
UnitsFor(code) ==
  IF Surrogate(code) THEN <<65536 - (65536 - code + 1023) \div 1024, 56320 + (code % 1024)>>
  ELSE <<code % 65536>>

convert_to_utf16 ==
  /\ converting = "to"
  /\ LET extra == IF in8 = << >> THEN 0 ELSE Extra(in8[1])
         whole == /\ Len(in8) > extra
                  /\ \A i \in 2..(extra + 1) : in8[i] \in 128..191
         units == UnitsFor(CodeAt(in8, extra))
     IN IF in8 # << >> /\ whole /\ Len(utf16) + Len(units) <= available
          THEN utf16' = utf16 \o units /\ in8' = SubSeq(in8, extra + 2, Len(in8)) /\ UNCHANGED converting
          ELSE converting' = "from" /\ UNCHANGED <<utf16, in8>>
  /\ UNCHANGED <<text, available, size, utf8, from>>

-----------------------------------------------------------------------------
(* convert_from_utf16.                                                     *)

\* The unit d places on; 0 ends the text.
Unit(d) == IF from + d < Len(utf16) THEN utf16[from + d + 1] ELSE 0

\* Mutant: the bytes of a character are written as far as they fit.
SplitToFit(bytes) == SubSeq(bytes, 1, Min({Len(bytes), size - Len(utf8)}))
\* A character's bytes are written if there is room for them all.
WholeOrNone(bytes) == IF Len(utf8) + Len(bytes) <= size THEN bytes ELSE None

convert_from_utf16 ==
  /\ converting = "from"
  /\ LET ch    == Unit(0)
         ch2   == Unit(1)
         pair  == Surrogate(ch)
         taken == 56320 <= ch /\ ch <= 57344 /\ 55296 <= ch2 /\ ch2 <= 56320
         code  == IF pair THEN 65536 + (ch % 1024) * 1024 + (ch2 % 1024) ELSE ch
     IN IF ch = 0 \/ (pair /\ ~ taken) \/ WholeOrNone(Utf8(code)) = None
          THEN converting' = "done" /\ UNCHANGED <<utf8, from>>
          ELSE /\ utf8' = utf8 \o WholeOrNone(Utf8(code))
               /\ from' = from + (IF pair THEN 2 ELSE 1) /\ UNCHANGED converting
  /\ UNCHANGED <<text, available, size, in8, utf16>>

-----------------------------------------------------------------------------
(* utf16_literal_to_utf8; from is the length of the literal, 0 for failure.  *)

parse_hex4(digits) ==
  IF \E i \in 1..4 : digits[i] = NoDigit THEN 0 ELSE Compose(16, 0, digits)

SecondValid(code) == 56320 <= code /\ code < 57344

utf16_literal_to_utf8 ==
  /\ converting = "literal" /\ converting' = "converted"
  /\ LET first  == parse_hex4(SubSeq(text, 1, 4))
         second == parse_hex4(SubSeq(text, 5, 8))
     IN CASE ~ Surrogate(first) -> from' = 6 /\ utf8' = Utf8(first)
          [] Surrogate(first) /\ first < 56320 /\ Len(text) = 8 /\ SecondValid(second) ->
               from' = 12 /\ utf8' = Utf8(65536 + (first % 1024) * 1024 + (second % 1024))
          [] OTHER -> from' = 0 /\ UNCHANGED utf8
  /\ UNCHANGED <<text, available, size, in8, utf16>>

ConvertNext == convert_to_utf16 \/ convert_from_utf16 \/ utf16_literal_to_utf8

UnicodeSpec == UnicodeInit /\ [][ConvertNext]_unicodeVars

-----------------------------------------------------------------------------
(* Properties.                                                             *)

Utf8Of(chars) == Joined([i \in DOMAIN chars |-> Utf8(chars[i])])

\* How many characters come before the first that is malformed or not of one
\* unit and fit into both buffers.
Fits(k) == (\A i \in 1..k : Plain(text[i])) /\ k <= available /\ Len(Utf8Of(text)[k]) <= size
Fitting == CHOOSE k \in 0..Len(text) : Fits(k) /\ \A j \in (k + 1)..Len(text) : ~ Fits(j)

\* The dialog gives back the text it was opened with, or the one typed: whole
\* characters, as many as fit, and nothing in place of the others.
ReturnsWholeCharacters ==
  converting = "done" => IF \A i \in DOMAIN text : Plain(text[i]) THEN utf8 = Utf8Of(text)[Fitting]
                         ELSE IsPrefix(Utf8Of(text)[Fitting], utf8)

\* Neither conversion writes more than its buffer holds; the literal's bytes
\* take no more room than the literal, from whose length the parser has
\* computed that of the string.
ConvertsInPlace ==
  /\ Len(utf16) <= available
  /\ converting \in {"from", "done"} => Len(utf8) <= size
  /\ converting = "converted" => Len(utf8) <= from

\* A literal gives the code point it spells; half a pair is refused.
SpellsCodePoint ==
  converting = "converted" /\ NoDigit \notin Range(text) =>
    LET code == Compose(16, 0, SubSeq(text, 1, 4))
        rest == Compose(16, 0, SubSeq(text, 5, 8))
        paired == 65536 + (code - 55296) * 1024 + rest - 56320
    IN CASE ~ Surrogate(code) -> from = 6 /\ utf8 = Utf8(code)
         [] Surrogate(code) /\ Len(text) = 8 /\ Pair(paired) = <<code, rest>> /\ 65536 <= paired /\ IsCode(paired) ->
              from = 12 /\ utf8 = Utf8(paired)
         [] OTHER -> from = 0

\* The dialog's conversions return whole characters that were typed, in the
\* buffers they have; a JSON escape is read as the code point it spells.
KeepsWholeCharacters == ReturnsWholeCharacters /\ ConvertsInPlace /\ SpellsCodePoint
=============================================================================
