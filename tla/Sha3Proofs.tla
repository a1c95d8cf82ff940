----------------------------- MODULE Sha3Proofs -----------------------------
(***************************************************************************)
(* Theorems about Sha3Stream: however a message is cut into updates, and   *)
(* wherever these start, what is hashed is the padded message.             *)
(***************************************************************************)
EXTENDS Sha3Stream, SequenceTheorems, TLAPS
-----------------------------------------------------------------------------
(* Division.                                                               *)

\* Quotient and remainder are the only ones.
LEMMA Division ==
  ASSUME NEW d \in Nat \ {0}, NEW q \in Nat, NEW r \in 0..(d - 1)
  PROVE  (q * d + r) \div d = q /\ (q * d + r) % d = r
OBVIOUS

\* Every number has a quotient and a remainder.
LEMMA Divided ==
  ASSUME NEW d \in Nat \ {0}, NEW x \in Nat
  PROVE  x \div d \in Nat /\ x % d \in 0..(d - 1) /\ x = (x \div d) * d + (x % d)
OBVIOUS

\* Multiples of d do not change a remainder.
LEMMA ModShift ==
  ASSUME NEW d \in Nat \ {0}, NEW x \in Nat, NEW q \in Nat
  PROVE  (q * d + x) % d = x % d
<1> DEFINE k == x \div d
           r == x % d
<1>1. k \in Nat /\ r \in 0..(d - 1) /\ x = k * d + r
  BY Divided
<1> HIDE DEF k, r
<1>2. q * d + x = (q + k) * d + r /\ q + k \in Nat
  BY <1>1
<1>3. (q * d + x) % d = r
  BY <1>1, <1>2, Division
<1>4. QED BY <1>3 DEF r
-----------------------------------------------------------------------------
(* The inductive invariant.                                                *)

Bytes == [0..(18 * LaneBytes - 1) -> SUBSET Int]
Block(k) == [i \in 0..(rate - 1) |-> {(k - 1) * rate + i + 1}]

\* The state has taken all of the message but the last "used" bytes, and the
\* context begins with these.
Absorbed(used) ==
  /\ used \in 0..(rate - 1) /\ given = Len(hash) * rate + used
  /\ \A k \in 1..Len(hash) : hash[k] = Block(k)
  /\ \A i \in 0..(used - 1) : message[i] = {Len(hash) * rate + i + 1}

Context ==
  /\ rate \in {lanes * LaneBytes : lanes \in Rates}
  /\ hash \in Seq([0..(rate - 1) -> SUBSET Int]) /\ message \in Bytes
  /\ given \in Nat /\ size \in Nat /\ rest \in Nat /\ idx \in Nat
  /\ phase \in {"idle", "fill", "blocks", "done", "crashed", "aborted"}

\* What is known between the steps of an update: what is left over is known at
\* its begin, and only after the last step it is there.
Sponging ==
  phase \in {"idle", "fill", "blocks"} =>
    /\ block_size = rate /\ squeezed = None
    /\ rest = (given + size) % rate
    /\ phase = "idle" => size = 0 /\ Absorbed(rest)
    /\ phase = "fill" => Absorbed(idx)
    /\ phase = "blocks" => Absorbed(0)

IInv == Context /\ Sponging /\ SqueezedIsOfPadded

\* A block has as many lanes as its size asks for.
LEMMA RateOfLanes ==
  ASSUME NEW length \in {lanes * LaneBytes : lanes \in Rates}
  PROVE  /\ length \in Nat \ {0} /\ Lanes(length) * LaneBytes = length
         /\ length <= 18 * LaneBytes
         /\ length + 2 * ((25 * LaneBytes - length) \div 2) = 25 * LaneBytes
<1>1. PICK lanes \in Rates : length = lanes * LaneBytes
  OBVIOUS
<1>2. LaneBytes \in Nat \ {0} /\ LaneBytes % 2 = 0 /\ lanes \in {9, 13, 17, 18}
  BY Sha3StreamAssumption
<1>3. CASE lanes = 9
  BY <1>1, <1>2, <1>3 DEF Lanes
<1>4. CASE lanes = 13
  BY <1>1, <1>2, <1>4 DEF Lanes
<1>5. CASE lanes = 17
  BY <1>1, <1>2, <1>5 DEF Lanes
<1>6. CASE lanes = 18
  BY <1>1, <1>2, <1>6 DEF Lanes
<1>7. QED BY <1>2, <1>3, <1>4, <1>5, <1>6

-----------------------------------------------------------------------------
(* Each step keeps the invariant.                                          *)

\* What is known of any context.
LEMMA ContextFacts ==
  ASSUME Context
  PROVE  /\ rate \in Nat \ {0} /\ rate <= 18 * LaneBytes /\ LaneBytes \in Nat \ {0}
         /\ given \in Nat /\ size \in Nat /\ rest \in Nat /\ idx \in Nat /\ Len(hash) \in Nat
<1>1. rate \in Nat \ {0} /\ rate <= 18 * LaneBytes /\ LaneBytes \in Nat \ {0}
  BY RateOfLanes, Sha3StreamAssumption DEF Context
<1>2. Len(hash) \in Nat
  BY LenProperties DEF Context
<1>3. QED BY <1>1, <1>2 DEF Context

\* A buffer is a block when it is full.
LEMMA ProcessedBlock ==
  ASSUME Context, block_size = rate, NEW block \in Bytes
  PROVE  /\ sha3_process_block(block) = Append(hash, [i \in 0..(rate - 1) |-> block[i]])
         /\ [i \in 0..(rate - 1) |-> block[i]] \in [0..(rate - 1) -> SUBSET Int]
         /\ rate \in Nat \ {0} /\ rate <= 18 * LaneBytes
<1>1. rate \in Nat \ {0} /\ Lanes(rate) * LaneBytes = rate /\ rate <= 18 * LaneBytes /\ LaneBytes \in Nat
  BY RateOfLanes, Sha3StreamAssumption DEF Context
<1>2. \A i \in 0..(rate - 1) : i \in 0..(18 * LaneBytes - 1)
  BY <1>1
<1>3. QED BY <1>1, <1>2 DEF sha3_process_block, Bytes

\* Copying bytes of the message in gives bytes.
LEMMA CopiedBytes ==
  ASSUME Context, NEW at \in Nat, NEW n \in Nat
  PROVE  /\ Copied(at, n) \in Bytes
         /\ \A i \in 0..(18 * LaneBytes - 1) :
              Copied(at, n)[i] = IF i \in at..(at + n - 1) THEN {given + 1 + i - at} ELSE message[i]
BY DEF Context, Copied, Bytes

\* When a full block is mixed in, the state has taken one more.
LEMMA BlockTaken ==
  ASSUME Context, block_size = rate, NEW used \in 0..(rate - 1), Absorbed(used),
         hash' = sha3_process_block(Copied(used, rate - used)),
         given' = given + (rate - used), rate' = rate, message' \in Bytes
  PROVE  Absorbed(0)' /\ hash' \in Seq([0..(rate - 1) -> SUBSET Int]) /\ given' = (Len(hash) + 1) * rate
<1> DEFINE n == Len(hash)
           block == Copied(used, rate - used)
           new == [i \in 0..(rate - 1) |-> block[i]]
<1>1. n \in Nat /\ rate \in Nat \ {0} /\ given \in Nat /\ given = n * rate + used /\ rate <= 18 * LaneBytes
      /\ LaneBytes \in Nat /\ hash \in Seq([0..(rate - 1) -> SUBSET Int])
  <2>1. given = n * rate + used
    BY DEF Absorbed
  <2>2. hash \in Seq([0..(rate - 1) -> SUBSET Int])
    BY DEF Context
  <2>3. QED BY <2>1, <2>2, ContextFacts
<1>2. /\ block \in Bytes
      /\ \A i \in 0..(18 * LaneBytes - 1) :
           block[i] = IF i \in used..(used + (rate - used) - 1) THEN {given + 1 + i - used} ELSE message[i]
  <2>1. used \in Nat /\ rate - used \in Nat
    BY <1>1
  <2>2. QED BY <2>1, CopiedBytes
<1>3. hash' = Append(hash, new) /\ new \in [0..(rate - 1) -> SUBSET Int]
  BY <1>2, ProcessedBlock
<1> HIDE DEF block
<1>4. new = [i \in 0..(rate - 1) |-> {n * rate + i + 1}]
  <2>1. ASSUME NEW i \in 0..(rate - 1) PROVE block[i] = {n * rate + i + 1}
    <3>1. i \in 0..(18 * LaneBytes - 1)
      BY <1>1
    <3>2. n * rate \in Nat
      BY <1>1
    <3>3. CASE i < used
      <4>1. i \in 0..(used - 1) /\ i \notin used..(used + (rate - used) - 1)
        BY <3>3
      <4>2. QED BY <1>2, <3>1, <4>1 DEF Absorbed
    <3>4. CASE ~ (i < used)
      <4>1. i \in used..(used + (rate - used) - 1)
        BY <1>1, <3>4
      <4>2. given + 1 + i - used = n * rate + i + 1
        BY <1>1, <3>2
      <4>3. QED BY <1>2, <3>1, <4>1, <4>2
    <3>5. QED BY <3>3, <3>4
  <2>2. QED BY <2>1
<1>5. Len(hash') = n + 1 /\ hash' \in Seq([0..(rate - 1) -> SUBSET Int])
      /\ \A k \in 1..(n + 1) : hash'[k] = IF k <= n THEN hash[k] ELSE new
  <2> DEFINE S == [0..(rate - 1) -> SUBSET Int]
  <2>1. hash \in Seq(S) /\ new \in S
    BY <1>1, <1>3
  <2> HIDE DEF new, S
  <2>2. /\ Append(hash, new) \in Seq(S) /\ Len(Append(hash, new)) = n + 1
        /\ \A k \in 1..(n + 1) : Append(hash, new)[k] = IF k <= n THEN hash[k] ELSE new
    BY <1>1, <2>1, AppendProperties
  <2>3. QED BY <1>3, <2>2 DEF S
<1>6. (n + 1) * rate = n * rate + rate /\ n * rate \in Nat
  BY <1>1
<1>7. given' = (n + 1) * rate
  BY <1>1, <1>6
<1>8. ASSUME NEW k \in 1..(n + 1) PROVE hash'[k] = Block(k)
  <2>1. CASE k <= n
    <3>1. k \in 1..n
      BY <1>1, <2>1
    <3>2. QED BY <1>5, <2>1, <3>1 DEF Absorbed
  <2>2. CASE ~ (k <= n)
    <3>1. k - 1 = n
      BY <1>1, <2>2
    <3>2. Block(k) = [i \in 0..(rate - 1) |-> {n * rate + i + 1}]
      BY <3>1 DEF Block
    <3>3. QED BY <1>4, <1>5, <2>2, <3>2
  <2>3. QED BY <2>1, <2>2
<1>9. QED
  <2>1. 0 \in 0..(rate - 1) /\ 0..(0 - 1) = {}
    BY <1>1
  <2>4. given' = Len(hash') * rate + 0
    <3>1. (n + 1) * rate \in Nat
      BY <1>1
    <3>2. QED BY <1>5, <1>7, <3>1
  <2>2. \A k \in 1..Len(hash') : hash'[k] = [i \in 0..(rate' - 1) |-> {(k - 1) * rate' + i + 1}]
    BY <1>5, <1>8 DEF Block
  <2>3. QED BY <1>5, <1>7, <2>1, <2>2, <2>4 DEF Absorbed, Block

\* The bytes that are copied behind those that wait wait too.
LEMMA BytesWait ==
  ASSUME Context, NEW used \in Nat, NEW n \in Nat, Absorbed(used), used + n < rate,
         message' = Copied(used, n), hash' = hash, given' = given + n, rate' = rate
  PROVE  Absorbed(used + n)'
<1>1. rate \in Nat \ {0} /\ rate <= 18 * LaneBytes /\ LaneBytes \in Nat \ {0} /\ Len(hash) \in Nat /\ given \in Nat
  BY ContextFacts
<1>2. \A i \in 0..(18 * LaneBytes - 1) :
        message'[i] = IF i \in used..(used + n - 1) THEN {given + 1 + i - used} ELSE message[i]
  BY CopiedBytes
<1>3. PICK whole \in Nat : whole = Len(hash) * rate
  BY <1>1
<1>4. given = whole + used
  BY <1>3 DEF Absorbed
<1>5. ASSUME NEW i \in 0..(used + n - 1) PROVE message'[i] = {whole + i + 1}
  <2>1. i \in 0..(18 * LaneBytes - 1)
    BY <1>1
  <2>2. CASE i < used
    <3>1. i \in 0..(used - 1) /\ i \notin used..(used + n - 1)
      BY <2>2
    <3>2. QED BY <1>2, <1>3, <2>1, <3>1 DEF Absorbed
  <2>3. CASE ~ (i < used)
    <3>1. i \in used..(used + n - 1) /\ given + 1 + i - used = whole + i + 1
      BY <1>4, <2>3
    <3>2. QED BY <1>2, <2>1, <3>1
  <2>4. QED BY <2>2, <2>3
<1>6. PICK waiting \in 0..(rate - 1) : waiting = used + n
  BY <1>1
<1>7. given' = Len(hash') * rate' + waiting
  <2>1. given' = whole + waiting
    BY <1>1, <1>4, <1>6
  <2>2. QED BY <1>3, <2>1
<1>8. \A i \in 0..(waiting - 1) : message'[i] = {Len(hash') * rate' + i + 1}
  BY <1>3, <1>5, <1>6
<1>9. \A k \in 1..Len(hash') : hash'[k] = Block(k)'
  BY DEF Absorbed, Block
<1>10. Absorbed(waiting)'
  BY <1>6, <1>7, <1>8, <1>9 DEF Absorbed
<1>11. QED BY <1>6, <1>10

\* A blank context has absorbed the empty message.
LEMMA BlankIsSound ==
  ASSUME SpongeInit
  PROVE  IInv
<1>1. rate \in {lanes * LaneBytes : lanes \in Rates} /\ block_size = rate
  BY DEF SpongeInit
<1>2. rate \in Nat \ {0}
  BY <1>1, RateOfLanes
<1>3. Context
  <2>1. message \in Bytes
    BY DEF SpongeInit, Cleared, Bytes
  <2>2. QED BY <1>1, <2>1, EmptySeq DEF SpongeInit, Context
<1>4. Absorbed(0)
  <2>1. Len(hash) = 0 /\ given = 0 /\ 1..0 = {} /\ 0..(0 - 1) = {} /\ 0 \in 0..(rate - 1)
    BY <1>2, EmptySeq DEF SpongeInit
  <2>2. given = Len(hash) * rate + 0
    BY <1>2, <2>1
  <2>3. QED BY <2>1, <2>2 DEF Absorbed
<1>5. 0 = (0 + 0) % rate
  BY <1>2
<1>6. QED BY <1>1, <1>3, <1>4, <1>5 DEF SpongeInit, IInv, Sponging, SqueezedIsOfPadded

\* A context that is initialized again is blank.
LEMMA InitStep ==
  ASSUME IInv, keccak_Init
  PROVE  IInv'
<1>1. SpongeInit'
  BY DEF keccak_Init, SpongeInit
<1>2. QED BY <1>1, BlankIsSound, PTL

\* Some bytes more: the remainder depends on those that wait.
LEMMA RestOfMore ==
  ASSUME Context, NEW used \in Nat, given = Len(hash) * rate + used, NEW n \in Nat
  PROVE  (given + n) % rate = (used + n) % rate
<1> DEFINE whole == Len(hash) * rate
<1>1. rate \in Nat \ {0} /\ Len(hash) \in Nat /\ whole \in Nat
  <2>1. rate \in Nat \ {0} /\ Len(hash) \in Nat
    BY ContextFacts
  <2>2. QED BY <2>1
<1>2. (whole + (used + n)) % rate = (used + n) % rate
  <2>1. used + n \in Nat
    OBVIOUS
  <2>2. QED BY <1>1, <2>1, ModShift
<1> HIDE DEF whole
<1>3. given + n = whole + (used + n)
  <2>1. given = whole + used
    BY DEF whole
  <2>2. QED BY <1>1, <2>1
<1>4. QED BY <1>2, <1>3

\* What will be left over is known when an update begins.
LEMMA UpdateStep ==
  ASSUME IInv, NEW length \in Chunks, NEW address \in 0..(LaneBytes - 1), sha3_Update(length, address)
  PROVE  IInv'
<1>1. Context /\ block_size = rate /\ Absorbed(rest) /\ squeezed = None /\ length \in Nat
  BY Sha3StreamAssumption DEF IInv, Sponging, sha3_Update
<1>2. rest' = (given + length) % rate
  BY <1>1, RestOfMore, ContextFacts DEF sha3_Update, Absorbed
<1>3. rest' \in Nat
  <2>1. rate \in Nat \ {0} /\ given + length \in Nat
    BY <1>1, ContextFacts
  <2>2. (given + length) % rate \in 0..(rate - 1)
    BY <2>1, Divided
  <2>3. QED BY <1>2, <2>1, <2>2
<1>4. Context'
  BY <1>1, <1>3, ContextFacts DEF Context, sha3_Update
<1>5. Sponging'
  <2>1. Absorbed(rest) => Absorbed(idx)'
    BY DEF sha3_Update, Absorbed, Block
  <2>2. rest = 0 => Absorbed(0)'
    BY <1>1 DEF sha3_Update, Absorbed, Block
  <2>3. rest > 0 \/ rest = 0
    BY <1>1, ContextFacts
  <2>4. QED BY <1>1, <1>2, <2>1, <2>2, <2>3 DEF sha3_Update, Sponging
<1>6. QED BY <1>1, <1>4, <1>5 DEF IInv, SqueezedIsOfPadded, sha3_Update

\* Bytes fill a block that was begun, or do not.
LEMMA FillStep ==
  ASSUME IInv, FillContext
  PROVE  IInv'
<1>1. Context /\ block_size = rate /\ Absorbed(idx) /\ squeezed = None /\ rest = (given + size) % rate
  BY DEF IInv, Sponging, FillContext
<1>0. rate \in Nat \ {0} /\ given \in Nat /\ size \in Nat
  BY <1>1, ContextFacts
<1>2. idx \in 0..(rate - 1) /\ rate - idx \in Nat /\ given = Len(hash) * rate + idx
  <2>1. idx \in 0..(rate - 1) /\ given = Len(hash) * rate + idx
    BY <1>1 DEF Absorbed
  <2>2. rate - idx \in Nat
    BY <1>0, <2>1
  <2>3. QED BY <2>1, <2>2
<1>3. rest = (idx + size) % rate
  BY <1>1, <1>2, RestOfMore, ContextFacts
<1>4. CASE size < rate - idx
  <2>1. /\ message' = Copied(idx, size) /\ hash' = hash /\ given' = given + size /\ size' = size - size /\ phase' = "idle"
        /\ rest' = rest /\ block_size' = block_size /\ rate' = rate /\ idx' = idx /\ squeezed' = squeezed
    BY <1>1, <1>4 DEF FillContext, Taken
  <2>2. idx + size \in 0..(rate - 1) /\ idx + size < rate /\ size' = 0 /\ given' \in Nat /\ given' + 0 = given + size
    <3>1. idx \in 0..(rate - 1) /\ size' = size - size /\ given' = given + size
      BY <1>2, <2>1
    <3>2. QED BY <1>0, <1>4, <3>1
  <2>3. rest = idx + size
    <3>1. PICK r \in 0..(rate - 1) : r = idx + size
      BY <2>2
    <3>2. 0 \in Nat /\ 0 * rate + r = r
      BY <1>0, <3>1
    <3>3. (0 * rate + r) % rate = r
      BY <1>0, <3>1, Division
    <3>4. QED BY <1>3, <3>1, <3>2, <3>3
  <2>4. Absorbed(rest)'
    <3>1. PICK used : used = idx
      OBVIOUS
    <3>2. PICK n : n = size
      OBVIOUS
    <3>3. used \in Nat /\ n \in Nat
      BY <1>1, <3>1, <3>2 DEF Context
    <3>4. Absorbed(used + n)'
      BY <1>1, <2>1, <2>2, <3>1, <3>2, <3>3, BytesWait
    <3>5. rest' = used + n
      BY <2>1, <2>3, <3>1, <3>2
    <3>6. QED BY <3>4, <3>5
  <2>5. Context'
    <3>1. message' \in Bytes
      BY <1>1, <2>1, CopiedBytes, ContextFacts
    <3>2. QED BY <1>1, <2>1, <2>2, <3>1 DEF Context
  <2>6. Sponging'
    BY <1>1, <2>1, <2>2, <2>4 DEF Sponging
  <2>7. QED BY <1>1, <2>1, <2>5, <2>6 DEF IInv, SqueezedIsOfPadded
<1>5. CASE ~ (size < rate - idx)
  <2>1. /\ message' = Copied(idx, rate - idx) /\ hash' = sha3_process_block(Copied(idx, rate - idx))
        /\ given' = given + (rate - idx) /\ size' = size - (rate - idx) /\ phase' = "blocks"
        /\ rest' = rest /\ block_size' = block_size /\ rate' = rate /\ idx' = idx /\ squeezed' = squeezed
    BY <1>1, <1>5 DEF FillContext, Taken
  <2>2. size' \in Nat /\ given' \in Nat /\ given' + size' = given + size
    <3>1. idx \in 0..(rate - 1) /\ size' = size - (rate - idx) /\ given' = given + (rate - idx)
      BY <1>2, <2>1
    <3>2. QED BY <1>0, <1>5, <3>1
  <2>3. message' \in Bytes
    BY <1>1, <1>2, <2>1, CopiedBytes, ContextFacts
  <2>4. Absorbed(0)' /\ hash' \in Seq([0..(rate - 1) -> SUBSET Int])
    BY <1>1, <1>2, <2>1, <2>3, BlockTaken
  <2>5. Context'
    BY <1>1, <2>1, <2>2, <2>3, <2>4 DEF Context
  <2>6. Sponging'
    BY <1>1, <2>1, <2>2, <2>4 DEF Sponging
  <2>7. QED BY <1>1, <2>1, <2>5, <2>6 DEF IInv, SqueezedIsOfPadded
<1>6. QED BY <1>4, <1>5

\* A block that is read where it is, or from the context, is the same block.
LEMMA TakeBlockStep ==
  ASSUME IInv, MixBlock
  PROVE  IInv'
<1>1. Context /\ block_size = rate /\ Absorbed(0) /\ squeezed = None /\ rest = (given + size) % rate /\ size >= rate
  BY DEF IInv, Sponging, MixBlock, WholeBlock
<1>2. /\ hash' = sha3_process_block(Copied(0, rate)) /\ given' = given + rate /\ size' = size - rate /\ phase' = "blocks"
      /\ rest' = rest /\ block_size' = block_size /\ rate' = rate /\ idx' = idx /\ squeezed' = squeezed
      /\ message' \in {message, Copied(0, rate)}
  BY <1>1 DEF MixBlock, Taken
<1>3. size' \in Nat /\ given' \in Nat /\ given' + size' = given + size /\ rate - 0 = rate /\ 0 \in 0..(rate - 1)
  <2>1. rate \in Nat \ {0} /\ given \in Nat /\ size \in Nat
    BY <1>1, ContextFacts
  <2>2. given' = given + rate /\ size' = size - rate /\ size >= rate
    BY <1>1, <1>2
  <2>3. QED BY <2>1, <2>2
<1>4. message' \in Bytes
  <2>1. Copied(0, rate) \in Bytes
    BY <1>1, CopiedBytes, ContextFacts
  <2>2. QED BY <1>1, <1>2, <2>1 DEF Context
<1>5. Absorbed(0)' /\ hash' \in Seq([0..(rate - 1) -> SUBSET Int])
  BY <1>1, <1>2, <1>3, <1>4, BlockTaken
<1>6. Context'
  BY <1>1, <1>2, <1>3, <1>4, <1>5 DEF Context
<1>7. Sponging'
  BY <1>1, <1>2, <1>3, <1>5 DEF Sponging
<1>8. QED BY <1>1, <1>2, <1>6, <1>7 DEF IInv, SqueezedIsOfPadded

\* What is left over waits in the context.
LEMMA SaveLeftoversStep ==
  ASSUME IInv, SaveLeftovers
  PROVE  IInv'
<1>1. Context /\ block_size = rate /\ Absorbed(0) /\ squeezed = None /\ rest = (given + size) % rate /\ ~ (size >= rate)
  BY DEF IInv, Sponging, SaveLeftovers, WholeBlock
<1>2. /\ message' = Copied(0, size) /\ hash' = hash /\ given' = given + size /\ size' = size - size /\ phase' = "idle"
      /\ rest' = rest /\ block_size' = block_size /\ rate' = rate /\ idx' = idx /\ squeezed' = squeezed
  BY <1>1 DEF SaveLeftovers, Taken
<1>3. /\ size \in 0..(rate - 1) /\ 0 + size < rate /\ size' = 0 /\ given' \in Nat /\ given' + 0 = given + size /\ 0 + size = size
      /\ 0 \in Nat
  <2>1. rate \in Nat \ {0} /\ given \in Nat /\ size \in Nat
    BY <1>1, ContextFacts
  <2>2. given' = given + size /\ size' = size - size /\ ~ (size >= rate)
    BY <1>1, <1>2
  <2>3. QED BY <2>1, <2>2
<1>4. rest = size
  <2>1. PICK n \in Nat, r \in 0..(rate - 1) : n = Len(hash) /\ r = size
    BY <1>1, <1>3, ContextFacts
  <2>2. PICK whole \in Nat : whole = n * rate
    BY <1>1, <2>1, ContextFacts
  <2>3. given = whole + 0
    BY <1>1, <2>1, <2>2 DEF Absorbed
  <2>4. given + size = n * rate + r
    BY <2>1, <2>2, <2>3
  <2>5. (n * rate + r) % rate = r
    BY <1>1, <2>1, Division, ContextFacts
  <2>6. QED BY <1>1, <2>1, <2>4, <2>5
<1>5. Absorbed(rest)'
  <2>1. PICK n : n = size
    OBVIOUS
  <2>2. Absorbed(0 + n)'
    BY <1>1, <1>2, <1>3, <2>1, BytesWait
  <2>3. rest' = 0 + n
    BY <1>2, <1>3, <1>4, <2>1
  <2>4. QED BY <2>2, <2>3
<1>6. Context'
  <2>1. message' \in Bytes
    BY <1>1, <1>2, <1>3, CopiedBytes, ContextFacts
  <2>2. QED BY <1>1, <1>2, <1>3, <2>1 DEF Context
<1>7. Sponging'
  BY <1>1, <1>2, <1>3, <1>5 DEF Sponging
<1>8. QED BY <1>1, <1>2, <1>6, <1>7 DEF IInv, SqueezedIsOfPadded

\* The last block is what waits, the mark and the bit at the end.
LastBlock(mark) ==
  [i \in 0..(rate - 1) |-> (IF i < rest THEN {Len(hash) * rate + i + 1} ELSE {})
                             \cup (IF i = rest THEN {mark} ELSE {}) \cup (IF i = rate - 1 THEN {-128} ELSE {})]

\* The blocks of the padded message are those absorbed and the last.
LEMMA PaddedBlocks ==
  ASSUME Context, Absorbed(rest), NEW mark
  PROVE  PaddedWith(mark) = Append(hash, LastBlock(mark))
<1> DEFINE n == Len(hash)
           whole == n * rate
           end == (n + 1) * rate
           byte(k) == (IF k < given THEN {k + 1} ELSE {}) \cup (IF k = given THEN {mark} ELSE {})
                        \cup (IF k = end - 1 THEN {-128} ELSE {})
<1>1. rate \in Nat \ {0} /\ n \in Nat /\ rest \in 0..(rate - 1) /\ given = whole + rest
  BY ContextFacts DEF Absorbed
<1>2. whole \in Nat /\ end = whole + rate
  BY <1>1
<1>3. given \div rate = n
  BY <1>1, Division
<1>4. PaddedWith(mark) = [k \in 1..(n + 1) |-> [i \in 0..(rate - 1) |-> byte((k - 1) * rate + i)]]
  BY <1>3 DEF PaddedWith
<1>5. ASSUME NEW k \in 1..n
      PROVE  [i \in 0..(rate - 1) |-> byte((k - 1) * rate + i)] = hash[k]
  <2>1. hash[k] = [i \in 0..(rate - 1) |-> {(k - 1) * rate + i + 1}]
    BY DEF Absorbed, Block
  <2>2. (k - 1) * rate \in Nat /\ (k - 1) * rate + rate <= whole
    <3>1. PICK j \in Nat, d \in Nat : j = k - 1 /\ n = j + 1 + d
      <4>1. k - 1 \in Nat /\ n - k \in Nat /\ n = (k - 1) + 1 + (n - k)
        BY <1>1
      <4>2. QED BY <4>1, Zenon
    <3>2. PICK before \in Nat, after \in Nat : before = j * rate /\ after = d * rate
      BY <1>1
    <3>3. n * rate = before + rate + after
      BY <1>1, <3>1, <3>2
    <3>4. QED BY <1>1, <3>1, <3>2, <3>3
  <2>3. ASSUME NEW i \in 0..(rate - 1)
        PROVE  byte((k - 1) * rate + i) = {(k - 1) * rate + i + 1}
    <3>1. PICK at \in Nat : at = (k - 1) * rate
      BY <2>2
    <3> HIDE DEF whole, end
    <3>2. at + i < given /\ at + i # given /\ at + i # end - 1
      BY <1>1, <1>2, <2>2, <3>1
    <3>3. byte(at + i) = {at + i + 1}
      BY <3>2
    <3>4. QED BY <3>1, <3>3
  <2>4. QED BY <2>1, <2>3
<1>6. [i \in 0..(rate - 1) |-> byte(((n + 1) - 1) * rate + i)] = LastBlock(mark)
  <2>1. (n + 1) - 1 = n
    BY <1>1
  <2>2. ASSUME NEW i \in 0..(rate - 1)
        PROVE  byte(whole + i) = (IF i < rest THEN {whole + i + 1} ELSE {})
                 \cup (IF i = rest THEN {mark} ELSE {}) \cup (IF i = rate - 1 THEN {-128} ELSE {})
    <3> HIDE DEF whole, end
    <3>1. (whole + i < given <=> i < rest) /\ (whole + i = given <=> i = rest)
          /\ (whole + i = end - 1 <=> i = rate - 1)
      BY <1>1, <1>2
    <3>2. QED BY <3>1
  <2>3. QED BY <2>1, <2>2 DEF LastBlock
<1> DEFINE S == [0..(rate - 1) -> SUBSET Int]
           last == LastBlock(mark)
           padded == PaddedWith(mark)
<1>7. hash \in Seq(S \cup {last})
  <2>1. hash \in Seq(S)
    BY DEF Context
  <2> HIDE DEF S, last
  <2>2. QED BY <2>1
<1>8. padded = [k \in 1..(n + 1) |-> IF k <= n THEN hash[k] ELSE last]
  <2> HIDE DEF last, byte
  <2>1. ASSUME NEW k \in 1..(n + 1)
        PROVE  [i \in 0..(rate - 1) |-> byte((k - 1) * rate + i)] = IF k <= n THEN hash[k] ELSE last
    <3>1. CASE k <= n
      <4>1. k \in 1..n
        BY <1>1, <3>1
      <4>2. QED BY <1>5, <3>1, <4>1
    <3>2. CASE ~ (k <= n)
      <4>1. k = n + 1
        BY <1>1, <3>2
      <4>2. [i \in 0..(rate - 1) |-> byte((k - 1) * rate + i)] = last
        BY <1>6, <4>1 DEF last
      <4>3. QED BY <3>2, <4>2
    <3>3. QED BY <3>1, <3>2
  <2>2. QED BY <1>4, <2>1
<1>9. Append(hash, last) = [k \in 1..(n + 1) |-> IF k <= n THEN hash[k] ELSE last]
  <2> DEFINE all == S \cup {last}
             longer == Append(hash, last)
  <2>1. hash \in Seq(all) /\ last \in all
    BY <1>7
  <2> HIDE DEF all, last
  <2>2. /\ longer \in Seq(all) /\ Len(longer) = n + 1
        /\ \A k \in 1..(n + 1) : longer[k] = IF k <= n THEN hash[k] ELSE last
    BY <1>1, <2>1, AppendProperties
  <2>3. longer \in [1..(n + 1) -> all]
    BY <2>2, LenProperties
  <2> HIDE DEF longer
  <2>4. longer = [k \in 1..(n + 1) |-> IF k <= n THEN hash[k] ELSE last]
    BY <2>2, <2>3
  <2>5. QED BY <2>4 DEF longer
<1>10. QED BY <1>8, <1>9

\* The digest is made from the padded message.
LEMMA FinalStep ==
  ASSUME IInv, NEW mark \in {-6, -1}, NEW asked \in BOOLEAN, sha3_Final(mark, asked)
  PROVE  IInv'
<1> DEFINE last == [i \in DOMAIN message |->
                      Kept(i) \cup (IF i = rest THEN {mark} ELSE {}) \cup (IF i = block_size - 1 THEN {-128} ELSE {})]
<1>1. Context /\ block_size = rate /\ Absorbed(rest)
  BY DEF IInv, Sponging, sha3_Final
<1>2. last \in Bytes
  <2>1. mark \in Int /\ -128 \in Int
    OBVIOUS
  <2>2. \A i \in 0..(18 * LaneBytes - 1) : Kept(i) \subseteq Int
    BY <1>1 DEF Context, Bytes, Kept
  <2>3. DOMAIN message = 0..(18 * LaneBytes - 1)
    BY <1>1 DEF Context, Bytes
  <2>4. QED BY <2>1, <2>2, <2>3 DEF Bytes
<1>3. sha3_process_block(last) = PaddedWith(mark)
  <2>1. sha3_process_block(last) = Append(hash, [i \in 0..(rate - 1) |-> last[i]])
    <3> HIDE DEF last
    <3>1. QED BY <1>1, <1>2, ProcessedBlock
  <2>2. ASSUME NEW i \in 0..(rate - 1)
        PROVE  last[i] = (IF i < rest THEN {Len(hash) * rate + i + 1} ELSE {})
                           \cup (IF i = rest THEN {mark} ELSE {}) \cup (IF i = rate - 1 THEN {-128} ELSE {})
    <3>1. i \in DOMAIN message
      <4>1. rate \in Nat \ {0} /\ rate <= 18 * LaneBytes /\ LaneBytes \in Nat \ {0}
        BY <1>1, ContextFacts
      <4>2. QED BY <1>1, <4>1 DEF Context, Bytes
    <3>2. last[i] = Kept(i) \cup (IF i = rest THEN {mark} ELSE {}) \cup (IF i = rate - 1 THEN {-128} ELSE {})
      BY <1>1, <3>1
    <3>3. Kept(i) = IF i < rest THEN {Len(hash) * rate + i + 1} ELSE {}
      <4>1. CASE i < rest
        <5>1. i \in 0..(rest - 1)
          BY <1>1, <4>1, ContextFacts
        <5>2. QED BY <1>1, <4>1, <5>1 DEF Kept, Absorbed
      <4>2. CASE ~ (i < rest)
        BY <4>2 DEF Kept
      <4>3. QED BY <4>1, <4>2
    <3>4. QED BY <3>2, <3>3, Zenon
  <2>3. [i \in 0..(rate - 1) |-> last[i]] = LastBlock(mark)
    <3> HIDE DEF last
    <3>1. QED BY <2>2 DEF LastBlock
  <2>4. QED BY <1>1, <2>1, <2>3, PaddedBlocks
<1>4. squeezed' = IF asked THEN <<mark, (25 * LaneBytes - rate) \div 2, PaddedWith(mark)>> ELSE None
  BY <1>1, <1>3 DEF sha3_Final
<1>5. rate + 2 * ((25 * LaneBytes - rate) \div 2) = 25 * LaneBytes
  BY <1>1, RateOfLanes DEF Context
<1>6. given' = given /\ rate' = rate
  BY DEF sha3_Final
<1>7. SqueezedIsOfPadded'
  <2>1. PaddedWith(mark)' = PaddedWith(mark)
    BY <1>6 DEF PaddedWith
  <2>2. CASE asked
    BY <1>4, <1>5, <1>6, <2>1, <2>2 DEF SqueezedIsOfPadded
  <2>3. CASE ~ asked
    BY <1>4, <2>3 DEF SqueezedIsOfPadded
  <2>4. QED BY <2>2, <2>3
<1>8. Context'
  <2>1. Cleared \in Bytes
    BY DEF Cleared, Bytes
  <2>2. QED BY <1>1, <2>1, EmptySeq DEF Context, sha3_Final
<1>9. Sponging'
  BY DEF Sponging, sha3_Final
<1>10. QED BY <1>7, <1>8, <1>9 DEF IInv

\* After a context was cleared there is nothing to keep.
LEMMA LateStep ==
  ASSUME IInv, LateUpdate \/ LateFinal
  PROVE  IInv'
<1>1. Context'
  BY DEF IInv, Context, LateUpdate, LateFinal
<1>2. Sponging'
  BY DEF Sponging, LateUpdate, LateFinal
<1>3. SqueezedIsOfPadded'
  <2>1. UNCHANGED <<squeezed, rate, given>>
    BY DEF LateUpdate, LateFinal
  <2>2. QED BY <2>1 DEF IInv, SqueezedIsOfPadded, PaddedWith
<1>4. QED BY <1>1, <1>2, <1>3 DEF IInv

\* One step of SpongeNext, or none.
LEMMA StepKeepsIInv ==
  ASSUME IInv, [SpongeNext]_spongeVars
  PROVE  IInv'
<1>1. CASE keccak_Init
  BY <1>1, InitStep
<1>2. CASE \E length \in Chunks, address \in 0..(LaneBytes - 1) : sha3_Update(length, address)
  BY <1>2, UpdateStep
<1>3. CASE FillContext
  BY <1>3, FillStep
<1>4. CASE MixBlock
  BY <1>4, TakeBlockStep
<1>5. CASE SaveLeftovers
  BY <1>5, SaveLeftoversStep
<1>6. CASE \E mark \in {-6, -1}, asked \in BOOLEAN : sha3_Final(mark, asked)
  BY <1>6, FinalStep
<1>7. CASE LateUpdate \/ LateFinal
  BY <1>7, LateStep
<1>8. CASE UNCHANGED spongeVars
  BY <1>8 DEF spongeVars, IInv, Context, Sponging, Absorbed, Block, SqueezedIsOfPadded, PaddedWith
<1>9. QED BY <1>1, <1>2, <1>3, <1>4, <1>5, <1>6, <1>7, <1>8 DEF SpongeNext

\* The invariant of the four digests and of Keccak: in each state the blocks
\* absorbed and the context are together the part of the message that was given.
THEOREM SpongeInvariant == SpongeSpec => []IInv
<1>1. SpongeInit => IInv
  BY BlankIsSound
<1>2. IInv /\ [SpongeNext]_spongeVars => IInv'
  BY StepKeepsIInv
<1>3. QED BY <1>1, <1>2, PTL DEF SpongeSpec

\* However the message is cut into updates, and wherever these are in memory,
\* the digest is of the padded message.
THEOREM SpongesPaddedMessage == SpongeSpec => []SqueezedIsOfPadded
<1>1. IInv => SqueezedIsOfPadded
  BY DEF IInv
<1>2. QED BY <1>1, SpongeInvariant, PTL

\* Where an update ended, what waits is the remainder.
LEMMA InvLeftovers ==
  ASSUME IInv
  PROVE  LeftoversInMessage
<1> SUFFICES ASSUME phase = "idle" PROVE LeftoversInMessage
  BY DEF LeftoversInMessage
<1>1. Context /\ Absorbed(rest)
  BY DEF IInv, Sponging
<1>2. rate \in Nat \ {0} /\ Len(hash) \in Nat /\ rest \in 0..(rate - 1) /\ given = Len(hash) * rate + rest
  BY <1>1, ContextFacts DEF Absorbed
<1>3. given \div rate = Len(hash) /\ given % rate = rest
  BY <1>2, Division
<1>4. QED BY <1>1, <1>3 DEF LeftoversInMessage, Absorbed, Block

\* Between two updates the state has taken the whole blocks, and the context
\* holds the rest.
THEOREM LeftoversKept == SpongeSpec => []LeftoversInMessage
<1>1. IInv => LeftoversInMessage
  BY InvLeftovers
<1>2. QED BY <1>1, SpongeInvariant, PTL

\* However a message is cut into updates: between them nothing of it is lost,
\* and the digest is of all of it.
THEOREM MessageAbsorbed == SpongeSpec => []AbsorbsMessage
BY LeftoversKept, SpongesPaddedMessage, PTL DEF AbsorbsMessage
=============================================================================
