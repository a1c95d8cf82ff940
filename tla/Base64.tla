------------------------------- MODULE Base64 -------------------------------
(***************************************************************************)
(* base64_encode and base64_decode (src/src/base64.c), one step per turn   *)
(* of their loops.  A character is its place in base64_table, Pad for "=", *)
(* or Foreign for one that is not in the table.                            *)
(***************************************************************************)
EXTENDS Integers, SequencesExt

CONSTANTS Data,       \* what is encoded: sequences of bytes
          Encodings,  \* what is decoded besides: sequences of characters
          NoBytes     \* NULL

Pad == 64
Foreign == 65
Bytes64 == Seq(0..255)
Texts64 == Seq(0..Foreign)

Base64Assumption == Data \subseteq Bytes64 /\ Encodings \subseteq Texts64 /\ NoBytes \notin Bytes64
ASSUME Base64Given == Base64Assumption

VARIABLES data,     \* the bytes encoded, or NULL
          encoded,  \* what base64_encode has written
          olen,     \* the size of the buffer that is written to
          at,       \* how much has been read
          pad, block,
          out,      \* what base64_decode has written, or NULL
          coding    \* which loop runs

base64Vars == <<data, encoded, olen, at, pad, block, out, coding>>

\* The buffer for n bytes: room for a block left over and for line feeds.
Room(n) == LET text4 == (n * 4) \div 3 + 4 IN text4 + text4 \div 72 + 1

Base64Init ==
  /\ \/ \E d \in Data : data = d /\ encoded = << >> /\ coding = "encode" /\ olen = Room(Len(d))
     \/ \E t \in Encodings : data = NoBytes /\ encoded = t /\ coding = "count" /\ olen = 0
  /\ at = 0 /\ pad = 0 /\ block = << >> /\ out = << >>

-----------------------------------------------------------------------------
\* The byte d places on.
In(d) == data[at + 1 + d]
Left == Len(data) - at

EncodeBlock ==
  /\ coding = "encode" /\ Left >= 3
  /\ encoded' = encoded \o << In(0) \div 4, (In(0) % 4) * 16 + In(1) \div 16,
                              (In(1) % 16) * 4 + In(2) \div 64, In(2) % 64 >>
  /\ at' = at + 3 /\ UNCHANGED <<data, olen, pad, block, out, coding>>

\* One or two bytes are left, or none.
EncodeRest ==
  /\ coding = "encode" /\ Left < 3
  /\ encoded' = encoded \o
       CASE Left = 0 -> << >>
         [] Left = 1 -> <<In(0) \div 4, (In(0) % 4) * 16, Pad, Pad>>
         [] Left = 2 -> <<In(0) \div 4, (In(0) % 4) * 16 + In(1) \div 16, (In(1) % 16) * 4, Pad>>
  /\ at' = 0 /\ coding' = "encoded" /\ UNCHANGED <<data, olen, pad, block, out>>

\* There is no memory for the text.
EncodeNothing ==
  coding = "encode" /\ at = 0 /\ coding' = "failed" /\ UNCHANGED <<data, encoded, olen, at, pad, block, out>>

Resume ==
  coding = "encoded" /\ coding' = "count" /\ UNCHANGED <<data, encoded, olen, at, pad, block, out>>

-----------------------------------------------------------------------------
\* The characters of a text that are not foreign.
IsTaken(c) == c # Foreign
Taken(t) == Cardinality({i \in DOMAIN t : IsTaken(t[i])})

Refuse == coding' = "done" /\ out' = NoBytes /\ UNCHANGED <<data, encoded, olen, at, pad, block>>

\* There may be no memory for the bytes.
Count ==
  /\ coding = "count"
  /\ IF Taken(encoded) = 0 \/ Taken(encoded) % 4 # 0 THEN Refuse
     ELSE /\ \/ olen' = (Taken(encoded) \div 4) * 3 /\ coding' = "decode"
             \/ coding' = "failed" /\ UNCHANGED olen
          /\ UNCHANGED <<data, encoded, at, pad, block, out>>

Value(c) == IF c = Pad THEN 0 ELSE c
ThreeBytes(b) == << (b[1] * 4 + b[2] \div 16) % 256, (b[2] * 16 + b[3] \div 4) % 256, (b[3] * 64 + b[4]) % 256 >>

\* Mutant: two characters of padding take away one byte too.
DropOne(n) == IF n > 0 THEN 1 ELSE 0
Drop(n) == n

\* The next character; the fourth of a block completes it, and padding in it
\* ends the text.
DecodeNext ==
  /\ coding = "decode" /\ at < Len(encoded)
  /\ at' = at + 1
  /\ LET c    == encoded[at + 1]
         n    == pad + (IF c = Pad THEN 1 ELSE 0)
         full == Append(block, Value(c))
     IN \/ /\ ~ IsTaken(c) /\ UNCHANGED <<pad, block, out, coding>>
        \/ /\ IsTaken(c) /\ Len(block) < 3
           /\ pad' = n /\ block' = full /\ UNCHANGED <<out, coding>>
        \/ /\ IsTaken(c) /\ Len(block) = 3
           /\ pad' = n /\ block' = << >>
           /\ coding' = (IF n > 0 THEN "done" ELSE coding)
           /\ out' = IF n > 2 THEN NoBytes
                     ELSE SubSeq(out \o ThreeBytes(full), 1, Len(out) + 3 - Drop(n))
  /\ UNCHANGED <<data, encoded, olen>>

DecodeEnd ==
  /\ coding = "decode" /\ at = Len(encoded)
  /\ coding' = "done" /\ UNCHANGED <<data, encoded, olen, at, pad, block, out>>

Base64Next == EncodeBlock \/ EncodeRest \/ EncodeNothing \/ Resume \/ Count \/ DecodeNext \/ DecodeEnd

Base64Spec == Base64Init /\ [][Base64Next]_base64Vars

-----------------------------------------------------------------------------
(* Properties.                                                             *)

\* What a text keeps of its first n characters, without the foreign ones.
Kept(t) ==
  LET kept[n \in 0..Len(t)] ==
        IF n = 0 THEN << >> ELSE IF IsTaken(t[n]) THEN Append(kept[n - 1], t[n]) ELSE kept[n - 1]
  IN kept
Clean(t) == Kept(t)[Len(t)]

\* The k-th block of a text, whether a character of it is padding, and how many.
PadAt(c, i) == IF c[i] = Pad THEN 1 ELSE 0
PadsOf(c, k) == PadAt(c, 4 * k - 3) + PadAt(c, 4 * k - 2) + PadAt(c, 4 * k - 1) + PadAt(c, 4 * k)

\* Its four characters are the digits of a number in base 64, of which its bytes
\* are the digits in base 256; the i-th byte of the text is one of them.
NumberOf(c, k) ==
  ((Value(c[4 * k - 3]) * 64 + Value(c[4 * k - 2])) * 64 + Value(c[4 * k - 1])) * 64 + Value(c[4 * k])
ByteAt(c, i) ==
  LET number == NumberOf(c, (i + 2) \div 3)
  IN  CASE i % 3 = 1 -> (number \div 256) \div 256
        [] i % 3 = 2 -> (number \div 256) % 256
        [] i % 3 = 0 -> number % 256

\* base64_encode writes its text and the terminating zero inside the buffer it
\* has allocated, whose size is a formula that knows nothing of the loop.
EncodedFits == coding \in {"encode", "encoded"} => Len(encoded) + 1 <= olen

\* base64_decode's buffer has place for the blocks it writes before padding
\* takes bytes away again, and for no block more than the text has.
DecodedFits ==
  coding = "decode" =>
    LET left == Len(Clean(encoded)) - Len(Kept(encoded)[at])
    IN Len(out) + 3 * ((Len(block) + left) \div 4) = olen

\* What was encoded is decoded to the same bytes, whatever the length leaves
\* over; nothing at all is encoded to a text that is refused.
RoundTrip ==
  coding = "done" /\ data # NoBytes => out = IF data = << >> THEN NoBytes ELSE data

\* Any text decodes as it does without its foreign characters: the blocks up to
\* and with the first one that holds padding, less a byte for each "=".
DecodesItsBlocks ==
  coding = "done" =>
    LET clean  == Clean(encoded)
        whole  == Len(clean) \div 4
        padded == {k \in 1..whole : PadsOf(clean, k) > 0}
        last   == IF padded = {} THEN whole ELSE CHOOSE k \in padded : \A j \in padded : k <= j
    IN out = IF clean = << >> \/ Len(clean) % 4 # 0 \/ PadsOf(clean, last) > 2 THEN NoBytes
             ELSE [i \in 1..(3 * last - PadsOf(clean, last)) |-> ByteAt(clean, i)]

\* What base64_encode writes decodes to what it was given, and both stay inside
\* the buffers whose sizes they have computed before.
Base64RoundTrip == EncodedFits /\ DecodedFits /\ RoundTrip /\ DecodesItsBlocks
=============================================================================
