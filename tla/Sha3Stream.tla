----------------------------- MODULE Sha3Stream -----------------------------
(***************************************************************************)
(* Hashing a message in pieces with SHA-3 and Keccak: keccak_Init,         *)
(* sha3_Update, sha3_Final and keccak_Final of                             *)
(* src/ed25519-donna/sha3.c.  The permutation is left out: the state is    *)
(* the sequence of what was mixed into it.  A byte is the set of what was  *)
(* or-ed into it: {} is zero, {k} the message's byte k, {-6} a mark.       *)
(***************************************************************************)
EXTENDS Integers, SequencesExt

CONSTANTS LaneBytes,   \* bytes of a lane, 8 in the code
          Rates,       \* lanes of a block, for each of the digests
          Chunks,      \* the sizes of updates
          MaxMessage   \* bound on a message

\* The sizes of blocks are those of the four digests.  A lane of an odd size
\* could not be halved between digest and capacity.
ASSUME Sha3StreamAssumption ==
  /\ LaneBytes \in Nat \ {0} /\ LaneBytes % 2 = 0
  /\ Rates \subseteq {9, 13, 17, 18} /\ Chunks \subseteq Nat /\ MaxMessage \in Nat

VARIABLES hash, message, rest, block_size,  \* the context
          rate,          \* the block size it was initialized with
          given,         \* how much of the message was given
          msg, size,     \* what the update running still has to take, and from
                         \* which address (modulo LaneBytes)
          idx, phase,
          squeezed       \* the mark, the length of the digest and what it is made from

spongeVars == <<hash, message, rest, block_size, rate, given, msg, size, idx, phase, squeezed>>

None == << >>
Cleared == [i \in 0..(18 * LaneBytes - 1) |-> {}]

keccak_Init ==
  /\ \E lanes \in Rates : block_size' = lanes * LaneBytes
  /\ hash' = << >> /\ message' = Cleared /\ rest' = 0
  /\ rate' = block_size' /\ given' = 0 /\ msg' = 0 /\ size' = 0 /\ idx' = 0 /\ phase' = "idle" /\ squeezed' = None

SpongeInit ==
  /\ block_size \in {lanes * LaneBytes : lanes \in Rates}
  /\ hash = << >> /\ message = Cleared /\ rest = 0
  /\ rate = block_size /\ given = 0 /\ msg = 0 /\ size = 0 /\ idx = 0 /\ phase = "idle" /\ squeezed = None

-----------------------------------------------------------------------------
\* n bytes of the message are copied to a place of the context's own.
Copied(at, n) == [i \in DOMAIN message |-> IF i \in at..(at + n - 1) THEN {given + 1 + i - at} ELSE message[i]]

\* The lanes that are mixed into the state, by the size of the block.
Lanes(length) ==
  LET lanes(n) == n * LaneBytes
  IN CASE length <= lanes(9) -> 9 [] length \in (lanes(9) + 1)..lanes(13) -> 13
       [] length \in (lanes(13) + 1)..lanes(17) -> 17 [] OTHER -> 18
sha3_process_block(block) == Append(hash, [i \in 0..(Lanes(block_size) * LaneBytes - 1) |-> block[i]])

Taken(n, next) == given' = given + n /\ msg' = (msg + n) % LaneBytes /\ size' = size - n /\ phase' = next

-----------------------------------------------------------------------------
\* sha3_Update begins: what will be left over is known at once.
sha3_Update(length, address) ==
  /\ phase = "idle" /\ given + length <= MaxMessage
  /\ idx' = rest /\ rest' = (rest + length) % block_size
  /\ size' = length /\ msg' = address /\ phase' = IF rest > 0 THEN "fill" ELSE "blocks"
  /\ UNCHANGED <<hash, message, block_size, rate, given, squeezed>>

FillContext ==
  /\ phase = "fill"
  /\ LET left == block_size - idx
         n    == IF size < left THEN size ELSE left
     IN /\ message' = Copied(idx, n)
        /\ hash' = IF size < left THEN hash ELSE sha3_process_block(Copied(idx, n))
        /\ Taken(n, IF size < left THEN "idle" ELSE "blocks")
  /\ UNCHANGED <<rest, block_size, rate, idx, squeezed>>

WholeBlock == size >= block_size

\* A block that is aligned is read where it is, another one from the context.
MixBlock ==
  /\ phase = "blocks" /\ WholeBlock
  /\ message' = IF msg = 0 THEN message ELSE Copied(0, block_size)
  /\ hash' = sha3_process_block(Copied(0, block_size))
  /\ Taken(block_size, "blocks") /\ UNCHANGED <<rest, block_size, rate, idx, squeezed>>

SaveLeftovers ==
  /\ phase = "blocks" /\ ~ WholeBlock
  /\ message' = Copied(0, size)
  /\ Taken(size, "idle") /\ UNCHANGED <<hash, rest, block_size, rate, idx, squeezed>>

\* Mutant: the rest of the last block is not cleared.
Uncleared(i) == message[i]
\* The last block before it is marked.
Kept(i) == IF i < rest THEN message[i] ELSE {}

\* sha3_Final and keccak_Final, which differ in their mark.  The flag that the
\* context was finalized is set and, with the whole context, cleared.
sha3_Final(mark, asked) ==
  /\ phase = "idle"
  /\ LET last == [i \in DOMAIN message |->
                    Kept(i) \cup (IF i = rest THEN {mark} ELSE {}) \cup (IF i = block_size - 1 THEN {-128} ELSE {})]
     IN squeezed' = IF asked THEN <<mark, (25 * LaneBytes - block_size) \div 2, sha3_process_block(last)>> ELSE None
  /\ hash' = << >> /\ message' = Cleared /\ rest' = 0 /\ block_size' = 0 /\ phase' = "done"
  /\ UNCHANGED <<rate, given, msg, size, idx>>

\* A call on a context that was finalized: an update divides by the block size,
\* which is 0, and the assertion of the digest's length fails in a second Final.
LateUpdate == phase = "done" /\ block_size = 0 /\ phase' = "crashed"
                /\ UNCHANGED <<hash, message, rest, block_size, rate, given, msg, size, idx, squeezed>>
LateFinal == phase = "done" /\ ~ (block_size > (25 * LaneBytes - block_size) \div 2) /\ phase' = "aborted"
               /\ UNCHANGED <<hash, message, rest, block_size, rate, given, msg, size, idx, squeezed>>

SpongeNext ==
  \/ phase \in {"idle", "done"} /\ keccak_Init
  \/ \E length \in Chunks, address \in 0..(LaneBytes - 1) : sha3_Update(length, address)
  \/ FillContext \/ MixBlock \/ SaveLeftovers
  \/ \E mark \in {-6, -1}, asked \in BOOLEAN : sha3_Final(mark, asked)
  \/ LateUpdate \/ LateFinal

SpongeSpec == SpongeInit /\ [][SpongeNext]_spongeVars

-----------------------------------------------------------------------------
(* Properties.                                                             *)

\* Between two updates, however the message was cut and aligned: the state has
\* taken the whole blocks, the context holds the rest and says how much it is.
LeftoversInMessage ==
  phase = "idle" =>
    /\ rest = given % rate /\ Len(hash) = given \div rate
    /\ \A k \in 1..Len(hash) : hash[k] = [i \in 0..(rate - 1) |-> {(k - 1) * rate + i + 1}]
    /\ \A i \in 0..(rest - 1) : message[i] = {(given \div rate) * rate + i + 1}

\* The message, the mark, zeros and a one bit at the end of a block, where the
\* mark and the bit may be of one byte: the padding of FIPS 202.
PaddedWith(mark) ==
  LET blocks == given \div rate + 1
      byte(k) == (IF k < given THEN {k + 1} ELSE {}) \cup (IF k = given THEN {mark} ELSE {})
                   \cup (IF k = blocks * rate - 1 THEN {-128} ELSE {})
  IN [n \in 1..blocks |-> [i \in 0..(rate - 1) |-> byte((n - 1) * rate + i)]]

\* A digest is made from the padded message and nothing else, by blocks of the
\* size that its length asks for: twice the digest is left of the state.
SqueezedIsOfPadded == squeezed # None => rate + 2 * squeezed[2] = 25 * LaneBytes /\ squeezed[3] = PaddedWith(squeezed[1])

\* SHA-3 and Keccak absorb the message that they were given, piece by piece.
AbsorbsMessage == LeftoversInMessage /\ SqueezedIsOfPadded
=============================================================================
