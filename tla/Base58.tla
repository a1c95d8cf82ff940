------------------------------- MODULE Base58 -------------------------------
(***************************************************************************)
(* base58_decode (src/src/base64.c): the digits are read into a            *)
(* little-endian number, one step per digit, then the ones in front are    *)
(* appended, the bytes reversed and as many copied as the caller's buffer  *)
(* holds.  An input is a sequence of digits, 0 for the character "1"; -1   *)
(* is a character outside the alphabet, which ALPHABET_MAP does not refuse.*)
(***************************************************************************)
EXTENDS Integers, SequencesExt

CONSTANTS Encodings58, \* the texts decoded
          OutSizes,    \* the sizes of the caller's buffer
          UInts        \* unsigned int is 0..UInts-1

Base58Assumption ==
  Encodings58 \subseteq Seq(-1..57) /\ OutSizes \subseteq Nat /\ UInts \in Nat /\ UInts > 256 * 58
ASSUME Base58Given == Base58Assumption

VARIABLES input, outsize,
          read,        \* how many digits, then how many ones in front, were read
          result,      \* as long as resultlen
          output, decoding

base58Vars == <<input, outsize, read, result, output, decoding>>

Base58Init ==
  /\ input \in Encodings58 /\ outsize \in OutSizes
  /\ read = 0 /\ result = <<0>> /\ output = << >> /\ decoding = "digits"

-----------------------------------------------------------------------------
\* The bytes appended while there is a carry, of 32 bits.
CarriedBytes(c) ==
  IF c = 0 THEN 0 ELSE IF c < 256 THEN 1 ELSE IF c \div 256 < 256 THEN 2
  ELSE IF (c \div 256) \div 256 < 256 THEN 3 ELSE 4
Carried(c) ==
  SubSeq(<<c % 256, (c \div 256) % 256, ((c \div 256) \div 256) % 256, ((c \div 256) \div 256) \div 256>>,
         1, CarriedBytes(c))

\* One pass over the bytes: each is multiplied and the carry goes on.
Sum(carry, b) == (carry + b * 58) % UInts
Carries(bytes, digit) ==
  LET carry[i \in 0..Len(bytes)] ==
        IF i = 0 THEN digit % UInts ELSE Sum(carry[i - 1], bytes[i]) \div 256
  IN carry
Multiplied(bytes, digit) ==
  LET carry == Carries(bytes, digit)
  IN [i \in DOMAIN bytes |-> Sum(carry[i - 1], bytes[i]) % 256] \o Carried(carry[Len(bytes)])

DecodeDigit ==
  /\ decoding = "digits"
  /\ IF read < Len(input)
       THEN /\ result' = Multiplied(result, input[read + 1])
            /\ read' = read + 1 /\ UNCHANGED decoding
       ELSE /\ read' = 0 /\ decoding' = "ones" /\ UNCHANGED result
  /\ UNCHANGED <<input, outsize, output>>

\* Mutant: ones are appended wherever they stand.
AnyOne == read < Len(input) /\ \E i \in (read + 1)..Len(input) : input[i] = 0
OneInFront == read < Len(input) /\ input[read + 1] = 0

LeadingOne ==
  /\ decoding = "ones" /\ OneInFront
  /\ result' = Append(result, 0) /\ read' = read + 1
  /\ UNCHANGED <<input, outsize, output, decoding>>

Copied == IF Len(result) < outsize THEN Len(result) ELSE outsize

Deliver ==
  /\ decoding = "ones" /\ ~ OneInFront
  /\ result' = Reverse(result)
  /\ output' = SubSeq(Reverse(result), 1, Copied)
  /\ decoding' = "done" /\ UNCHANGED <<input, outsize, read>>

Base58Next == DecodeDigit \/ LeadingOne \/ Deliver

Base58Spec == Base58Init /\ [][Base58Next]_base58Vars

-----------------------------------------------------------------------------
(* Properties.                                                             *)

InAlphabet == \A i \in DOMAIN input : input[i] >= 0

\* The numbers that the first digits of a sequence stand for, the highest first.
Horner(digits, base) ==
  LET number[n \in 0..Len(digits)] == IF n = 0 THEN 0 ELSE base * number[n - 1] + digits[n]
  IN number
Number(digits, base) == Horner(digits, base)[Len(digits)]

\* How many ones are in front.
Ones == IF \A i \in DOMAIN input : input[i] = 0 THEN Len(input)
        ELSE (CHOOSE i \in DOMAIN input : input[i] # 0 /\ \A j \in 1..(i - 1) : input[j] = 0) - 1

\* result is as long as a buffer of len * 137 / 100 bytes at every step, if the
\* text has three characters at least and all are in the alphabet.
ResultFits == InAlphabet /\ Len(input) >= 3 => Len(result) <= (Len(input) * 137) \div 100

\* Between two digits the bytes are the number read so far, without a zero in
\* front but for the number zero.
BytesAreNumber ==
  decoding = "digits" /\ InAlphabet =>
    /\ Number(Reverse(result), 256) = Horner(input, 58)[read]
    /\ Len(result) > 1 => result[Len(result)] # 0

\* What base58 stands for: a zero byte for each one in front, then the bytes of
\* the number, the first of which is not zero.  The caller gets the first outsize
\* bytes of it, and the length of it all: a key or a hash of another length is
\* told by its length alone.
GetsDecoded ==
  decoding = "done" /\ InAlphabet /\ Ones < Len(input) =>
    /\ \A i \in 1..Ones : result[i] = 0
    /\ Ones < Len(result) /\ result[Ones + 1] # 0
    /\ Number(SubSeq(result, Ones + 1, Len(result)), 256) = Number(input, 58)
    /\ output = SubSeq(result, 1, IF Len(result) < outsize THEN Len(result) ELSE outsize)

\* base58_decode returns the bytes and the length of what a text stands for, if
\* it is not all ones, also where the caller's buffer is too short for it.
Base58Decodes == ResultFits /\ BytesAreNumber /\ GetsDecoded
=============================================================================
