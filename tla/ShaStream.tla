----------------------------- MODULE ShaStream -----------------------------
(***************************************************************************)
(* Hashing a message in pieces: the Init, Update and Final functions of    *)
(* SHA-1, SHA-256 and SHA-512 (src/ed25519-donna/sha2.c), which differ in  *)
(* the size of a word and in how the bits are counted.  A transform is     *)
(* abstracted to the block that it reads; the message's byte k is k.       *)
(***************************************************************************)
EXTENDS Integers, SequencesExt

CONSTANTS Words, WordBytes,    \* a block is Words words of WordBytes bytes
          WordMod,             \* how many values a word has
          MaxChunk, MaxLength, \* bounds on an update and on a message
          NULL

Block == Words * WordBytes
Short == Block - 2 * WordBytes
Places == 0..(Block - 1)

\* A word counts the bits of some number of blocks, and two words those of every
\* message.
ASSUME ShaStreamAssumption ==
  /\ Words \in Nat /\ Words > 2 /\ WordBytes \in Nat \ {0} /\ WordMod \in Nat \ {0}
  /\ WordMod % (8 * Block) = 0 /\ MaxChunk \in Nat /\ MaxLength \in Nat
  /\ 8 * MaxLength < WordMod * WordMod

VARIABLES wide,       \* the bits are counted in two words, not in one
          little,     \* the machine is little-endian
          hashed,     \* the blocks the state has been transformed with, or NULL
                      \* for a context that is all zero
          buffer,     \* the context's buffer, byte by byte
          bitcount,   \* <<low, high>>
          fed,        \* how much of the message was given
          left,       \* how much of it the update running has still to take
          pc, digest  \* the blocks the digest was made from

streamVars == <<wide, little, hashed, buffer, bitcount, fed, left, pc, digest>>

Zeros == [i \in Places |-> 0]

StreamInit ==
  /\ wide \in BOOLEAN /\ little \in BOOLEAN
  /\ hashed = << >> /\ buffer = Zeros /\ bitcount = <<0, 0>>
  /\ fed = 0 /\ left = 0 /\ pc = "idle" /\ digest = NULL

-----------------------------------------------------------------------------
\* ADDINC128, or the addition to the one counter.
Counted(n) ==
  LET low == (bitcount[1] + n) % WordMod
      sum == (bitcount[2] * WordMod + bitcount[1] + n) % (WordMod * WordMod)
  IN IF wide THEN <<low, IF low < n THEN (bitcount[2] + 1) % WordMod ELSE bitcount[2]>>
     ELSE <<sum % WordMod, sum \div WordMod>>

usedspace == (bitcount[1] \div 8) % Block

\* n bytes of the message are copied to a place, or zeros are.
With(at, n) == [i \in Places |-> IF i \in at..(at + n - 1) THEN fed + 1 + i - at ELSE buffer[i]]
Zeroed(b, at, n) == [i \in Places |-> IF i \in at..(at + n - 1) THEN 0 ELSE b[i]]

\* The first words with their bytes reversed: REVERSE32 and REVERSE64, and what
\* a little-endian machine does when it reads words.
Turned(b, words) ==
  [i \in Places |-> IF little /\ i \div WordBytes < words
                    THEN b[(i \div WordBytes) * WordBytes + WordBytes - 1 - (i % WordBytes)] ELSE b[i]]
Read(b) == Turned(b, Words)

\* A buffer that was filled is reversed and hashed.
Process(b) == buffer' = Turned(b, Words) /\ hashed' = Append(hashed, Read(Turned(b, Words)))

-----------------------------------------------------------------------------
Update(len) ==
  /\ pc = "idle" /\ fed + len <= MaxLength
  /\ left' = len /\ pc' = IF len = 0 THEN "idle" ELSE IF usedspace > 0 THEN "fill" ELSE "blocks"
  /\ UNCHANGED <<wide, little, hashed, buffer, bitcount, fed, digest>>

Take(n, next) ==
  fed' = fed + n /\ left' = left - n /\ bitcount' = Counted(n * 8) /\ pc' = next
    /\ UNCHANGED <<wide, little, digest>>

Fill ==
  /\ pc = "fill"
  /\ LET freespace == Block - usedspace
     IN IF left >= freespace
          THEN Process(With(usedspace, freespace)) /\ Take(freespace, "blocks")
          ELSE buffer' = With(usedspace, left) /\ Take(left, "idle") /\ UNCHANGED hashed

TakeBlock == pc = "blocks" /\ left >= Block /\ Process(With(0, Block)) /\ Take(Block, "blocks")

\* What is left over; nothing is copied where it is nothing.
Save == pc = "blocks" /\ left < Block /\ buffer' = With(0, left) /\ Take(left, "idle") /\ UNCHANGED hashed

TooFull(used) == used > Short

\* Mutant: the rest of a block that is followed by the length is not cleared.
RestUncleared(b, used) == b
RestCleared(b, used) == Zeroed(b, used, Block - used)

\* A byte of a word, counted from the lowest; no byte of a message or a padding
\* is one.
ByteOf(word, digit) == -2 - (word * WordBytes + digit)

\* A word's bytes as they stand in memory.
Stored(word, i) == ByteOf(word, IF little THEN i ELSE WordBytes - 1 - i)

\* Final: the buffer is padded in place, in one block or two.  The digest is
\* made from the state, if it is asked for, and the context is cleared.
Final(asked) ==
  /\ pc = "idle"
  /\ LET used   == usedspace + 1
         marked == [buffer EXCEPT ![usedspace] = -1]
         full   == RestCleared(marked, used)
         last   == Turned(IF TooFull(used) THEN Zeroed(Turned(full, Words), 0, Short)
                          ELSE Zeroed(marked, used, Short - used), Words - 2)
         length == [i \in Places |-> CASE i \in Short..(Short + WordBytes - 1) -> Stored(bitcount[2], i - Short)
                                       [] i >= Short + WordBytes -> Stored(bitcount[1], i - Short - WordBytes)
                                       [] OTHER -> last[i]]
     IN digest' = IF ~ asked THEN NULL
                  ELSE hashed \o (IF TooFull(used) THEN <<Read(Turned(full, Words))>> ELSE << >>) \o <<Read(length)>>
  /\ hashed' = NULL /\ buffer' = Zeros /\ bitcount' = <<0, 0>> /\ pc' = "done"
  /\ UNCHANGED <<wide, little, fed, left>>

\* A context is used again after Init.
Restart ==
  /\ pc \in {"idle", "done"}
  /\ hashed' = << >> /\ buffer' = Zeros /\ bitcount' = <<0, 0>> /\ fed' = 0 /\ left' = 0
  /\ pc' = "idle" /\ digest' = NULL /\ UNCHANGED <<wide, little>>

StreamNext == (\E len \in 0..MaxChunk : Update(len)) \/ Fill \/ TakeBlock \/ Save
          \/ (\E asked \in BOOLEAN : Final(asked)) \/ Restart

StreamSpec == StreamInit /\ [][StreamNext]_streamVars

-----------------------------------------------------------------------------
(* Properties.                                                             *)

\* Between two updates, however the message was cut: the state has taken the
\* whole blocks, the buffer begins with the rest, and all bits are counted.
TailInBuffer ==
  pc = "idle" =>
    /\ Len(hashed) = fed \div Block
    /\ \A k \in 1..Len(hashed) : hashed[k] = [i \in Places |-> (k - 1) * Block + i + 1]
    /\ \A i \in 0..((fed % Block) - 1) : buffer[i] = (fed \div Block) * Block + i + 1
    /\ bitcount[2] * WordMod + bitcount[1] = 8 * fed

\* The message, a one bit, zeros up to the last two words of a block, and there
\* the number of bits: the padding of FIPS 180.
Padded ==
  LET blocks == (fed + 1 + 2 * WordBytes + Block - 1) \div Block
      fromEnd(k) == blocks * Block - 1 - k
      digit(k) == IF fromEnd(k) < WordBytes THEN ByteOf((8 * fed) % WordMod, fromEnd(k))
                  ELSE ByteOf((8 * fed) \div WordMod, fromEnd(k) - WordBytes)
      byte(k) == CASE k < fed -> k + 1
                   [] k = fed -> -1
                   [] k \in (fed + 1)..((blocks - 1) * Block + Short - 1) -> 0
                   [] OTHER -> digit(k)
  IN [n \in 1..blocks |-> [i \in Places |-> byte((n - 1) * Block + i)]]

\* A digest is made from the padded message and nothing else, whatever earlier
\* blocks have left in the buffer and on machines of both byte orders.
DigestIsOfPadded == digest # NULL => digest = Padded

\* SHA-1 and SHA-2 hash the message that they were given, piece by piece.
HashesMessage == TailInBuffer /\ DigestIsOfPadded
=============================================================================
