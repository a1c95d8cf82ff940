----------------------------- MODULE ShaProofs ------------------------------
(***************************************************************************)
(* Theorems about ShaStream: however a message is cut into updates, on     *)
(* machines of both byte orders, what is hashed is the padded message.     *)
(***************************************************************************)
EXTENDS ShaStream, SequenceTheorems, TLAPS
-----------------------------------------------------------------------------
(* Division, and the places of a block.                                    *)

\* Quotient and remainder are the only ones.
LEMMA Division ==
  ASSUME NEW d \in Nat \ {0}, NEW q \in Nat, NEW r \in 0..(d - 1)
  PROVE  (q * d + r) \div d = q /\ (q * d + r) % d = r
OBVIOUS

\* Every number has a quotient and a remainder.
LEMMA Divided ==
  ASSUME NEW d \in Nat \ {0}, NEW x \in Nat
  PROVE  x \div d \in Nat /\ x % d \in 0..(d - 1) /\ x = (x \div d) * d + (x % d)
OBVIOUS

\* What the assumptions say of a block: it has more than two words, and a word
\* counts the bits of whole blocks.
LEMMA Sizes ==
  /\ Words \in Nat /\ WordBytes \in Nat \ {0} /\ Block \in Nat \ {0} /\ Block = Short + 2 * WordBytes
  /\ Short \in Nat /\ Short >= WordBytes /\ WordMod \in Nat \ {0}
  /\ \E c \in Nat \ {0} : WordMod = c * (8 * Block)
<1>1. Words \in Nat /\ Words > 2 /\ WordBytes \in Nat \ {0} /\ WordMod \in Nat \ {0} /\ WordMod % (8 * Block) = 0
  BY ShaStreamAssumption
<1>2. Block \in Nat \ {0} /\ Short = (Words - 2) * WordBytes /\ Block = Short + 2 * WordBytes
  BY <1>1 DEF Block, Short
<1>3. Short \in Nat /\ Short >= WordBytes
  <2>1. PICK d \in Nat : Words - 2 = d + 1
    <3>1. Words - 3 \in Nat /\ Words - 2 = (Words - 3) + 1
      BY <1>1
    <3>2. QED BY <3>1
  <2>2. Short = d * WordBytes + WordBytes /\ d * WordBytes \in Nat
    BY <1>1, <1>2, <2>1
  <2>3. QED BY <1>1, <2>2
<1>4. \E c \in Nat \ {0} : WordMod = c * (8 * Block)
  <2>1. 8 * Block \in Nat \ {0}
    BY <1>2
  <2>2. PICK c \in Nat : WordMod = c * (8 * Block) + 0
    BY <1>1, <2>1, Divided
  <2>3. c # 0
    BY <1>1, <1>2, <2>2
  <2>4. WordMod = c * (8 * Block)
    BY <1>1, <2>1, <2>2
  <2>5. QED BY <2>3, <2>4
<1>5. QED BY <1>1, <1>2, <1>3, <1>4

\* Each place of a block is a byte of one of its words.
LEMMA WordOfPlace ==
  ASSUME NEW i \in Places
  PROVE  /\ i \div WordBytes \in Nat /\ i \div WordBytes < Words /\ i % WordBytes \in 0..(WordBytes - 1)
         /\ i = (i \div WordBytes) * WordBytes + (i % WordBytes)
<1>1. WordBytes \in Nat \ {0} /\ Words \in Nat /\ i \in Nat /\ i < Words * WordBytes
  BY Sizes DEF Places, Block
<1>2. PICK w \in Nat, r \in 0..(WordBytes - 1) :
        i = w * WordBytes + r /\ w = i \div WordBytes /\ r = i % WordBytes
  BY <1>1, Divided
<1>3. w < Words
  <2>1. SUFFICES ASSUME w >= Words PROVE FALSE
    BY <1>1, <1>2
  <2>2. PICK d \in Nat : w = Words + d
    <3>1. w - Words \in Nat /\ w = Words + (w - Words)
      BY <1>1, <2>1
    <3>2. QED BY <3>1
  <2>3. w * WordBytes = Words * WordBytes + d * WordBytes /\ d * WordBytes \in Nat /\ Words * WordBytes \in Nat
    BY <1>1, <2>2
  <2>4. QED BY <1>1, <1>2, <2>3
<1>4. QED BY <1>2, <1>3

\* The place of the same word's byte from its other end.
Mirror(i) == (i \div WordBytes) * WordBytes + WordBytes - 1 - (i % WordBytes)

\* It is a place, of the same word, and the way back is the same.
LEMMA Mirrored ==
  ASSUME NEW i \in Places
  PROVE  /\ Mirror(i) \in Places /\ Mirror(Mirror(i)) = i
         /\ Mirror(i) \div WordBytes = i \div WordBytes
         /\ Mirror(i) % WordBytes = WordBytes - 1 - (i % WordBytes)
<1> DEFINE w == i \div WordBytes
           r == i % WordBytes
<1>1. WordBytes \in Nat \ {0} /\ Words \in Nat
  BY Sizes
<1>2. w \in Nat /\ w < Words /\ r \in 0..(WordBytes - 1) /\ i = w * WordBytes + r
  BY WordOfPlace
<1> HIDE DEF w, r
<1>3. WordBytes - 1 - r \in 0..(WordBytes - 1) /\ WordBytes - 1 - (WordBytes - 1 - r) = r
  BY <1>1, <1>2
<1>4. w * WordBytes \in Nat /\ (w + 1) * WordBytes = w * WordBytes + WordBytes /\ (w + 1) * WordBytes <= Words * WordBytes
  BY <1>1, <1>2
<1>5. Mirror(i) = w * WordBytes + (WordBytes - 1 - r)
  <2>1. Mirror(i) = w * WordBytes + WordBytes - 1 - r
    BY DEF Mirror, w, r
  <2>2. QED BY <1>1, <1>2, <1>4, <2>1
<1>6. Mirror(i) \div WordBytes = w /\ Mirror(i) % WordBytes = WordBytes - 1 - r
  <2>1. PICK s \in 0..(WordBytes - 1) : s = WordBytes - 1 - r
    BY <1>3
  <2>2. Mirror(i) = w * WordBytes + s
    BY <1>5, <2>1
  <2>3. (w * WordBytes + s) \div WordBytes = w /\ (w * WordBytes + s) % WordBytes = s
    BY <1>1, <1>2, Division
  <2>4. QED BY <2>1, <2>2, <2>3
<1>7. Mirror(i) \in Places
  BY <1>1, <1>3, <1>4, <1>5 DEF Places, Block
<1>8. Mirror(Mirror(i)) = i
  <2>1. Mirror(Mirror(i)) = w * WordBytes + WordBytes - 1 - (WordBytes - 1 - r)
    BY <1>6 DEF Mirror
  <2>2. QED BY <1>1, <1>2, <1>3, <1>4, <2>1
<1>9. QED BY <1>6, <1>7, <1>8 DEF w, r

\* What Turned does to a block, place by place.
LEMMA TurnedPlace ==
  ASSUME NEW b, NEW words, NEW i \in Places
  PROVE  Turned(b, words)[i] = IF little /\ i \div WordBytes < words THEN b[Mirror(i)] ELSE b[i]
BY DEF Turned, Mirror

\* Bytes that are reversed twice are where they were.
LEMMA TurnedTwice ==
  ASSUME NEW V, NEW b \in [Places -> V]
  PROVE  Read(Turned(b, Words)) = b
<1>1. ASSUME NEW i \in Places PROVE Turned(Turned(b, Words), Words)[i] = b[i]
  <2>1. i \div WordBytes < Words /\ Mirror(i) \in Places /\ Mirror(i) \div WordBytes < Words /\ Mirror(Mirror(i)) = i
    BY WordOfPlace, Mirrored
  <2>2. Turned(Turned(b, Words), Words)[i] = IF little THEN Turned(b, Words)[Mirror(i)] ELSE Turned(b, Words)[i]
    BY <2>1, TurnedPlace
  <2>3. /\ Turned(b, Words)[Mirror(i)] = IF little THEN b[i] ELSE b[Mirror(i)]
        /\ Turned(b, Words)[i] = IF little THEN b[Mirror(i)] ELSE b[i]
    BY <2>1, TurnedPlace
  <2>4. QED BY <2>2, <2>3
<1>2. Turned(Turned(b, Words), Words) = [i \in Places |-> Turned(Turned(b, Words), Words)[i]]
  BY DEF Turned
<1>3. b = [i \in Places |-> b[i]]
  OBVIOUS
<1>4. QED BY <1>1, <1>2, <1>3 DEF Read
-----------------------------------------------------------------------------
(* The inductive invariant.                                                *)

Bytes == [Places -> Int]
MessageBlock(k) == [i \in Places |-> (k - 1) * Block + i + 1]

\* The state has taken all of the message but the last "used" bytes, and the
\* buffer begins with these.
Absorbed(used) ==
  /\ used \in 0..(Block - 1) /\ fed = Len(hashed) * Block + used
  /\ \A k \in 1..Len(hashed) : hashed[k] = MessageBlock(k)
  /\ \A i \in 0..(used - 1) : buffer[i] = Len(hashed) * Block + i + 1

Counters == Nat \X Nat
BitsAre(counts, bits) == counts \in Counters /\ counts[1] < WordMod /\ counts[2] * WordMod + counts[1] = bits

Context ==
  /\ wide \in BOOLEAN /\ little \in BOOLEAN /\ buffer \in Bytes
  /\ fed \in Nat /\ left \in Nat /\ fed + left <= MaxLength
  /\ pc \in {"idle", "fill", "blocks", "done"}

\* What is known between the steps of an update.
Hashing ==
  pc # "done" =>
    /\ digest = NULL /\ hashed \in Seq(Bytes) /\ BitsAre(bitcount, 8 * fed)
    /\ IF pc = "blocks" THEN Absorbed(0) ELSE \E used \in Nat : Absorbed(used)
    /\ pc = "idle" => left = 0

IInv == Context /\ Hashing /\ DigestIsOfPadded

\* The counter says how much of a block waits.
LEMMA UsedSpace ==
  ASSUME NEW used \in Nat, Absorbed(used), Context, hashed \in Seq(Bytes), BitsAre(bitcount, 8 * fed)
  PROVE  usedspace = used
<1> DEFINE low == bitcount[1]
           high == bitcount[2]
           n == Len(hashed)
<1>1. low \in Nat /\ high \in Nat /\ low < WordMod /\ high * WordMod + low = 8 * fed
  BY DEF BitsAre, Counters
<1>2. Block \in Nat \ {0} /\ WordMod \in Nat \ {0}
  BY Sizes
<1>3. PICK c \in Nat \ {0} : WordMod = c * (8 * Block)
  BY Sizes
<1>4. n \in Nat /\ fed = n * Block + used /\ used \in 0..(Block - 1)
  BY DEF Absorbed
<1> HIDE DEF low, high, n
<1>5. PICK m \in Nat : m = high * c
  BY <1>1
<1>6. high * WordMod = 8 * (m * Block)
  BY <1>1, <1>2, <1>3, <1>5
<1>7. PICK k \in Nat : n = m + k
  <2>1. PICK mb \in Nat, nb \in Nat : mb = m * Block /\ nb = n * Block
    BY <1>2, <1>4
  <2>2. 8 * mb + low = 8 * fed /\ fed = nb + used
    BY <1>1, <1>4, <1>6, <2>1
  <2>3. mb <= nb + used
    BY <1>1, <1>4, <2>2
  <2>4. SUFFICES m <= n
    <3>1. ASSUME m <= n PROVE n - m \in Nat /\ n = m + (n - m)
      BY <1>4, <3>1
    <3>2. QED BY <3>1
  <2>5. SUFFICES ASSUME m > n PROVE FALSE
    BY <1>4
  <2>6. PICK d \in Nat : m = n + 1 + d
    <3>1. m - n - 1 \in Nat /\ m = n + 1 + (m - n - 1)
      BY <1>4, <2>5
    <3>2. QED BY <3>1
  <2>7. m * Block = n * Block + Block + d * Block /\ d * Block \in Nat
    BY <1>2, <1>4, <2>6
  <2>8. QED BY <1>2, <1>4, <2>1, <2>3, <2>7
<1>8. low = 8 * (k * Block + used)
  <2>1. PICK mb \in Nat, kb \in Nat : mb = m * Block /\ kb = k * Block
    BY <1>2
  <2>2. n * Block = mb + kb
    BY <1>2, <1>4, <1>7, <2>1
  <2>3. 8 * mb + low = 8 * (mb + kb + used)
    BY <1>1, <1>4, <1>6, <2>1, <2>2
  <2>4. low = 8 * (kb + used)
    BY <1>1, <1>4, <2>3
  <2>5. QED BY <2>1, <2>4
<1>9. low \div 8 = k * Block + used
  <2>1. PICK x \in Nat : x = k * Block + used
    BY <1>2, <1>4
  <2>2. QED BY <1>8, <2>1
<1>10. (k * Block + used) % Block = used
  BY <1>2, <1>4, Division
<1>11. QED BY <1>9, <1>10 DEF usedspace, low

\* Bits are counted without a loss, in one counter of two words or in two.
LEMMA CountedBits ==
  ASSUME NEW bits \in Nat, BitsAre(bitcount, bits), wide \in BOOLEAN,
         NEW more \in Nat, more <= WordMod, bits + more < WordMod * WordMod
  PROVE  BitsAre(Counted(more), bits + more)
<1> DEFINE low == bitcount[1]
           high == bitcount[2]
           M == WordMod
<1>1. low \in Nat /\ high \in Nat /\ low < M /\ high * M + low = bits /\ M \in Nat \ {0}
  BY Sizes DEF BitsAre, Counters
<1>2. Counted(more) =
        IF wide THEN <<(low + more) % M, IF (low + more) % M < more THEN (high + 1) % M ELSE high>>
        ELSE <<((high * M + low + more) % (M * M)) % M, ((high * M + low + more) % (M * M)) \div M>>
  BY DEF Counted
<1> HIDE DEF low, high, M
<1>3. CASE ~ wide
  <2>1. PICK sum \in Nat : sum = bits + more
    BY <1>1
  <2>2. sum = high * M + low + more
    BY <1>1, <2>1
  <2>3. sum % (M * M) = sum
    <3>1. M * M \in Nat \ {0} /\ sum \in 0..(M * M - 1)
      BY <1>1, <2>1 DEF M
    <3>2. 0 * (M * M) + sum = sum
      BY <3>1
    <3>3. QED BY <3>1, <3>2, Division
  <2>4. Counted(more) = <<sum % M, sum \div M>>
    BY <1>2, <1>3, <2>2, <2>3
  <2>5. sum \div M \in Nat /\ sum % M \in 0..(M - 1) /\ sum = (sum \div M) * M + (sum % M)
    BY <1>1, Divided
  <2>6. Counted(more)[1] = sum % M /\ Counted(more)[2] = sum \div M /\ sum % M \in Nat /\ sum % M < M
    BY <1>1, <2>4, <2>5
  <2>7. QED BY <2>1, <2>4, <2>5, <2>6 DEF BitsAre, Counters, M
<1>4. CASE wide /\ low + more < M
  <2>1. (low + more) % M = low + more
    <3>1. PICK s \in 0..(M - 1) : s = low + more
      BY <1>1, <1>4
    <3>2. 0 * M + s = s
      BY <1>1, <3>1
    <3>3. QED BY <1>1, <3>1, <3>2, Division
  <2>2. ~ (low + more < more)
    BY <1>1
  <2>3. Counted(more) = <<low + more, high>>
    BY <1>2, <1>4, <2>1, <2>2
  <2>4. high * M + (low + more) = bits + more
    <3>1. PICK hm \in Nat : hm = high * M
      BY <1>1
    <3>2. hm + low = bits
      BY <1>1, <3>1
    <3>3. QED BY <1>1, <3>1, <3>2
  <2>5. low + more \in Nat
    BY <1>1
  <2>6. QED BY <1>1, <1>4, <2>3, <2>4, <2>5 DEF BitsAre, Counters, M
<1>5. CASE wide /\ ~ (low + more < M)
  <2>1. PICK s \in 0..(M - 1) : low + more = M + s
    <3>1. more <= M
      BY DEF M
    <3>2. low + more - M \in 0..(M - 1) /\ low + more = M + (low + more - M)
      BY <1>1, <1>5, <3>1
    <3>3. QED BY <3>2
  <2>2. (low + more) % M = s
    <3>1. 1 \in Nat /\ 1 * M + s = M + s
      BY <1>1
    <3>2. (1 * M + s) % M = s
      BY <1>1, <3>1, Division
    <3>3. QED BY <2>1, <3>1, <3>2
  <2>3. s < more
    BY <1>1, <2>1
  <2>4. (high + 1) * M + s = bits + more
    <3>1. PICK hm \in Nat : hm = high * M /\ (high + 1) * M = hm + M
      BY <1>1
    <3>2. QED BY <1>1, <2>1, <3>1
  <2>5. (high + 1) % M = high + 1
    <3>1. high + 1 < M
      <4>1. SUFFICES ASSUME high + 1 >= M PROVE FALSE
        BY <1>1
      <4>2. (high + 1) * M >= M * M
        BY <1>1, <4>1
      <4>3. bits + more >= M * M
        BY <1>1, <2>4, <4>2
      <4>4. QED BY <1>1, <4>3 DEF M
    <3>2. PICK h \in 0..(M - 1) : h = high + 1
      BY <1>1, <3>1
    <3>3. 0 * M + h = h /\ 0 \in Nat
      BY <1>1, <3>2
    <3>4. (0 * M + h) % M = h
      BY <1>1, Division
    <3>5. QED BY <3>2, <3>3, <3>4
  <2>6. Counted(more) = <<s, high + 1>>
    BY <1>2, <1>5, <2>2, <2>3, <2>5
  <2>7. QED BY <1>1, <2>4, <2>6 DEF BitsAre, Counters, M
<1>6. QED BY <1>3, <1>4, <1>5
-----------------------------------------------------------------------------
(* Each step keeps the invariant.                                          *)

\* Bytes of the message are bytes, and stand where they were copied to.
LEMMA WithBytes ==
  ASSUME buffer \in Bytes, fed \in Nat, NEW at \in Nat, NEW n \in Nat
  PROVE  /\ With(at, n) \in Bytes
         /\ \A i \in Places : With(at, n)[i] = IF i \in at..(at + n - 1) THEN fed + 1 + i - at ELSE buffer[i]
<1>1. Places \subseteq Int
  BY DEF Places
<1>2. QED BY <1>1 DEF With, Bytes

\* What a step of an update takes is counted.
LEMMA TakenCounted ==
  ASSUME Context, BitsAre(bitcount, 8 * fed), NEW n \in Nat, n <= Block, n <= left, NEW next, Take(n, next)
  PROVE  /\ BitsAre(bitcount', 8 * fed') /\ fed' = fed + n /\ fed' \in Nat /\ left' = left - n /\ left' \in Nat
         /\ fed' + left' <= MaxLength /\ pc' = next /\ UNCHANGED <<wide, little, digest>>
<1>1. fed \in Nat /\ left \in Nat /\ fed + left <= MaxLength /\ MaxLength \in Nat /\ wide \in BOOLEAN
      /\ 8 * MaxLength < WordMod * WordMod
  BY ShaStreamAssumption DEF Context
<1>2. /\ fed' = fed + n /\ left' = left - n /\ bitcount' = Counted(n * 8) /\ pc' = next
      /\ UNCHANGED <<wide, little, digest>>
  BY DEF Take
<1>3. n * 8 <= WordMod /\ n * 8 \in Nat
  <2>1. PICK c \in Nat \ {0} : WordMod = c * (8 * Block)
    BY Sizes
  <2>2. Block \in Nat \ {0}
    BY Sizes
  <2>3. 8 * Block <= c * (8 * Block)
    <3>1. PICK d \in Nat : c = d + 1
      <4>1. c - 1 \in Nat /\ c = (c - 1) + 1
        OBVIOUS
      <4>2. QED BY <4>1
    <3>2. c * (8 * Block) = d * (8 * Block) + 8 * Block /\ d * (8 * Block) \in Nat
      BY <2>2, <3>1
    <3>3. QED BY <2>2, <3>2
  <2>4. QED BY <2>1, <2>2, <2>3
<1>4. PICK bits \in Nat, more \in Nat : bits = 8 * fed /\ more = n * 8
  BY <1>1
<1>5. bits + more < WordMod * WordMod
  <2>1. PICK square \in Nat : square = WordMod * WordMod
    BY Sizes
  <2>2. QED BY <1>1, <1>4, <2>1
<1>6. BitsAre(Counted(more), bits + more)
  BY <1>1, <1>3, <1>4, <1>5, CountedBits
<1>7. bits + more = 8 * (fed + n)
  BY <1>1, <1>4
<1>8. BitsAre(bitcount', 8 * fed')
  BY <1>2, <1>4, <1>6, <1>7
<1>9. QED BY <1>1, <1>2, <1>8

\* When a full block is hashed, the state has taken one more.
LEMMA BlockTaken ==
  ASSUME Context, hashed \in Seq(Bytes), NEW used \in 0..(Block - 1), Absorbed(used),
         Process(With(used, Block - used)), fed' = fed + (Block - used)
  PROVE  Absorbed(0)' /\ hashed' \in Seq(Bytes) /\ buffer' \in Bytes
<1> DEFINE n == Len(hashed)
           new == With(used, Block - used)
<1>1. n \in Nat /\ Block \in Nat \ {0} /\ fed \in Nat /\ fed = n * Block + used /\ used \in Nat /\ Block - used \in Nat
      /\ buffer \in Bytes
  BY Sizes DEF Context, Absorbed
<1>2. /\ new \in Bytes
      /\ \A i \in Places : new[i] = IF i \in used..(used + (Block - used) - 1) THEN fed + 1 + i - used ELSE buffer[i]
  BY <1>1, WithBytes
<1>3. buffer' = Turned(new, Words) /\ hashed' = Append(hashed, Read(Turned(new, Words)))
  BY DEF Process
<1> HIDE DEF new
<1>4. hashed' = Append(hashed, new)
  BY <1>2, <1>3, TurnedTwice DEF Bytes
<1>5. buffer' \in Bytes
  <2>1. ASSUME NEW i \in Places PROVE Turned(new, Words)[i] \in Int
    BY <1>2, TurnedPlace, Mirrored DEF Bytes
  <2>2. Turned(new, Words) = [i \in Places |-> Turned(new, Words)[i]]
    BY DEF Turned
  <2>3. QED BY <1>3, <2>1, <2>2 DEF Bytes
<1>6. new = MessageBlock(n + 1)
  <2>1. PICK whole \in Nat : whole = n * Block
    BY <1>1
  <2>2. ASSUME NEW i \in Places PROVE new[i] = whole + i + 1
    <3>1. i \in 0..(Block - 1)
      BY DEF Places
    <3>2. CASE i < used
      <4>1. i \in 0..(used - 1) /\ i \notin used..(used + (Block - used) - 1)
        BY <3>1, <3>2
      <4>2. QED BY <1>2, <2>1, <4>1 DEF Absorbed
    <3>3. CASE ~ (i < used)
      <4>1. i \in used..(used + (Block - used) - 1)
        BY <1>1, <3>1, <3>3
      <4>2. fed + 1 + i - used = whole + i + 1
        BY <1>1, <2>1, <3>1
      <4>3. QED BY <1>2, <4>1, <4>2
    <3>4. QED BY <3>2, <3>3
  <2>3. (n + 1) - 1 = n
    BY <1>1
  <2>4. MessageBlock(n + 1) = [i \in Places |-> whole + i + 1]
    BY <2>1, <2>3 DEF MessageBlock
  <2>5. new = [i \in Places |-> new[i]]
    BY <1>2 DEF Bytes
  <2>6. QED BY <2>2, <2>4, <2>5
<1>7. hashed' \in Seq(Bytes) /\ Len(hashed') = n + 1
      /\ \A k \in 1..(n + 1) : hashed'[k] = IF k <= n THEN hashed[k] ELSE new
  BY <1>1, <1>2, <1>4, AppendProperties
<1>8. ASSUME NEW k \in 1..(n + 1) PROVE hashed'[k] = MessageBlock(k)
  <2>1. CASE k <= n
    <3>1. k \in 1..n
      BY <1>1, <2>1
    <3>2. QED BY <1>7, <2>1, <3>1 DEF Absorbed
  <2>2. CASE ~ (k <= n)
    <3>1. k = n + 1
      BY <1>1, <2>2
    <3>2. QED BY <1>6, <1>7, <2>2, <3>1
  <2>3. QED BY <2>1, <2>2
<1>9. fed' = Len(hashed') * Block + 0
  <2>1. PICK whole \in Nat : whole = n * Block /\ (n + 1) * Block = whole + Block
    BY <1>1
  <2>2. fed' = (n + 1) * Block + 0
    BY <1>1, <2>1
  <2>3. QED BY <1>7, <2>2
<1>10. 0 \in 0..(Block - 1) /\ 0..(0 - 1) = {}
  BY <1>1
<1>11. QED BY <1>5, <1>7, <1>8, <1>9, <1>10 DEF Absorbed, MessageBlock

\* The bytes that are copied behind those that wait wait too.
LEMMA BytesWait ==
  ASSUME Context, hashed \in Seq(Bytes), NEW used \in Nat, NEW n \in Nat, Absorbed(used), used + n < Block,
         buffer' = With(used, n), hashed' = hashed, fed' = fed + n
  PROVE  Absorbed(used + n)' /\ buffer' \in Bytes
<1>1. Block \in Nat \ {0} /\ Len(hashed) \in Nat /\ fed \in Nat /\ buffer \in Bytes
  BY Sizes DEF Context
<1>2. buffer' \in Bytes
      /\ \A i \in Places : buffer'[i] = IF i \in used..(used + n - 1) THEN fed + 1 + i - used ELSE buffer[i]
  BY <1>1, WithBytes
<1>3. PICK whole \in Nat : whole = Len(hashed) * Block
  BY <1>1
<1>4. fed = whole + used
  BY <1>3 DEF Absorbed
<1>5. ASSUME NEW i \in 0..(used + n - 1) PROVE buffer'[i] = whole + i + 1
  <2>1. i \in Places
    BY <1>1 DEF Places
  <2>2. CASE i < used
    <3>1. i \in 0..(used - 1) /\ i \notin used..(used + n - 1)
      BY <2>2
    <3>2. QED BY <1>2, <1>3, <2>1, <3>1 DEF Absorbed
  <2>3. CASE ~ (i < used)
    <3>1. i \in used..(used + n - 1) /\ fed + 1 + i - used = whole + i + 1
      BY <1>4, <2>3
    <3>2. QED BY <1>2, <2>1, <3>1
  <2>4. QED BY <2>2, <2>3
<1>6. used + n \in 0..(Block - 1) /\ fed' = whole + (used + n)
  BY <1>1, <1>4
<1>7. QED BY <1>2, <1>3, <1>5, <1>6 DEF Absorbed, MessageBlock
-----------------------------------------------------------------------------
(* The padding.                                                            *)

\* The bytes that wait, the mark, and zeros.
Marked(used) ==
  [i \in Places |-> IF i < used THEN Len(hashed) * Block + i + 1 ELSE IF i = used THEN -1 ELSE 0]

\* A byte of the number of bits, counted from the lowest.
BitsByte(k) == IF k < WordBytes THEN ByteOf(bitcount[1], k) ELSE ByteOf(bitcount[2], k - WordBytes)

Closed(b) == [i \in Places |-> IF i < Short THEN b[i] ELSE BitsByte(Block - 1 - i)]

\* The rest of a block that is too full for the length, and the last block.
Ended(used) == IF TooFull(used + 1) THEN <<Marked(used)>> ELSE << >>
LastBlock(used) == Closed(IF TooFull(used + 1) THEN Zeros ELSE Marked(used))

\* The blocks of padding are blocks of bytes.
LEMMA PaddingBytes ==
  ASSUME hashed \in Seq(Bytes), bitcount \in Counters, NEW used \in Nat
  PROVE  /\ Zeros \in Bytes /\ Marked(used) \in Bytes /\ Closed(Zeros) \in Bytes /\ Closed(Marked(used)) \in Bytes
         /\ LastBlock(used) \in Bytes /\ Ended(used) \in Seq(Bytes)
<1>1. Zeros \in Bytes
  BY DEF Zeros, Bytes
<1>2. Marked(used) \in Bytes
  <2>1. PICK whole \in Nat : whole = Len(hashed) * Block
    BY Sizes
  <2>2. Places \subseteq Int
    BY DEF Places
  <2>3. \A i \in Places : whole + i + 1 \in Int
    BY <2>1, <2>2
  <2>4. QED BY <2>1, <2>3 DEF Marked, Bytes
<1>3. ASSUME NEW b \in Bytes PROVE Closed(b) \in Bytes
  <2>1. ASSUME NEW word \in Nat, NEW digit \in Int PROVE ByteOf(word, digit) \in Int
    <3>1. PICK at \in Nat : at = word * WordBytes
      BY Sizes
    <3>2. QED BY <3>1 DEF ByteOf
  <2>2. bitcount[1] \in Nat /\ bitcount[2] \in Nat
    BY DEF Counters
  <2>3. ASSUME NEW i \in Places PROVE BitsByte(Block - 1 - i) \in Int
    <3>1. PICK k \in Int : k = Block - 1 - i
      BY Sizes DEF Places
    <3>2. k - WordBytes \in Int
      BY Sizes
    <3>3. BitsByte(k) \in Int
      BY <2>1, <2>2, <3>2 DEF BitsByte
    <3>4. QED BY <3>1, <3>3
  <2>4. QED BY <2>3 DEF Closed, Bytes
<1>4. LastBlock(used) \in Bytes
  BY <1>1, <1>2, <1>3 DEF LastBlock
<1>5. Ended(used) \in Seq(Bytes)
  BY <1>2 DEF Ended
<1>6. QED BY <1>1, <1>2, <1>3, <1>4, <1>5

\* How many blocks the padded message has.
LEMMA BlocksOfPadded ==
  ASSUME NEW n \in Nat, NEW used \in 0..(Block - 1), fed = n * Block + used
  PROVE  (fed + 1 + 2 * WordBytes + Block - 1) \div Block = IF TooFull(used + 1) THEN n + 2 ELSE n + 1
<1>1. Block \in Nat \ {0} /\ WordBytes \in Nat \ {0} /\ Short \in Nat /\ Block = Short + 2 * WordBytes /\ used \in Nat
  BY Sizes
<1>2. PICK whole \in Nat : whole = n * Block /\ (n + 1) * Block = whole + Block /\ (n + 2) * Block = whole + Block + Block
  BY <1>1
<1>3. CASE TooFull(used + 1)
  <2>1. PICK r \in 0..(Block - 1) : used + 2 * WordBytes = Block + r
    <3>1. used + 1 > Short
      BY <1>3 DEF TooFull
    <3>2. used + 2 * WordBytes - Block \in 0..(Block - 1) /\ used + 2 * WordBytes = Block + (used + 2 * WordBytes - Block)
      BY <1>1, <3>1
    <3>3. QED BY <3>2
  <2>2. fed + 1 + 2 * WordBytes + Block - 1 = (n + 2) * Block + r
    BY <1>1, <1>2, <2>1
  <2>3. ((n + 2) * Block + r) \div Block = n + 2
    <3>1. n + 2 \in Nat
      OBVIOUS
    <3>2. QED BY <1>1, <3>1, Division
  <2>4. QED BY <1>3, <2>2, <2>3
<1>4. CASE ~ TooFull(used + 1)
  <2>1. PICK r \in 0..(Block - 1) : r = used + 2 * WordBytes
    <3>1. used + 1 <= Short
      BY <1>1, <1>4 DEF TooFull
    <3>2. used + 2 * WordBytes \in 0..(Block - 1)
      BY <1>1, <3>1
    <3>3. QED BY <3>2
  <2>2. fed + 1 + 2 * WordBytes + Block - 1 = (n + 1) * Block + r
    BY <1>1, <1>2, <2>1
  <2>3. ((n + 1) * Block + r) \div Block = n + 1
    <3>1. n + 1 \in Nat
      OBVIOUS
    <3>2. QED BY <1>1, <3>1, Division
  <2>4. QED BY <1>4, <2>2, <2>3
<1>5. QED BY <1>3, <1>4

\* A byte of the padded message, which has so many blocks.
PaddedByte(k, blocks) ==
  CASE k < fed -> k + 1
    [] k = fed -> -1
    [] k \in (fed + 1)..((blocks - 1) * Block + Short - 1) -> 0
    [] OTHER -> BitsByte(blocks * Block - 1 - k)

\* The definition of the padding with the counters in place of the length.
LEMMA PaddedIs ==
  ASSUME fed \in Nat, BitsAre(bitcount, 8 * fed), NEW blocks,
         blocks = (fed + 1 + 2 * WordBytes + Block - 1) \div Block
  PROVE  Padded = [n \in 1..blocks |-> [i \in Places |-> PaddedByte((n - 1) * Block + i, blocks)]]
<1>1. (8 * fed) % WordMod = bitcount[1] /\ (8 * fed) \div WordMod = bitcount[2]
  <2>1. PICK low \in 0..(WordMod - 1), high \in Nat :
          low = bitcount[1] /\ high = bitcount[2] /\ high * WordMod + low = 8 * fed
    BY Sizes DEF BitsAre, Counters
  <2>2. (high * WordMod + low) \div WordMod = high /\ (high * WordMod + low) % WordMod = low
    BY Sizes, Division
  <2>3. QED BY <2>1, <2>2
<1>2. QED BY <1>1 DEF Padded, PaddedByte, BitsByte

\* Its bytes, in the order of the message, the mark, the zeros and the length.
LEMMA PaddedByteIs ==
  ASSUME fed \in Nat, NEW k \in Nat, NEW blocks \in Nat, NEW end \in Nat,
         (blocks - 1) * Block = end, blocks * Block = end + Block
  PROVE  /\ k < fed => PaddedByte(k, blocks) = k + 1
         /\ k = fed => PaddedByte(k, blocks) = -1
         /\ k > fed /\ k < end + Short => PaddedByte(k, blocks) = 0
         /\ k > fed /\ ~ (k < end + Short) => PaddedByte(k, blocks) = BitsByte(end + Block - 1 - k)
<1>1. Short \in Nat
  BY Sizes
<1>2. k > fed => ~ (k < fed) /\ k # fed
  OBVIOUS
<1>3. k > fed => (k \in (fed + 1)..(end + Short - 1) <=> k < end + Short)
  BY <1>1
<1>4. ASSUME k < fed PROVE PaddedByte(k, blocks) = k + 1
  BY <1>4 DEF PaddedByte
<1>5. ASSUME k = fed PROVE PaddedByte(k, blocks) = -1
  BY <1>5 DEF PaddedByte
<1>6. ASSUME k > fed, k < end + Short PROVE PaddedByte(k, blocks) = 0
  <2>1. k \in (fed + 1)..((blocks - 1) * Block + Short - 1) /\ ~ (k < fed) /\ k # fed
    BY <1>2, <1>3, <1>6
  <2>2. QED BY <2>1 DEF PaddedByte
<1>7. ASSUME k > fed, ~ (k < end + Short) PROVE PaddedByte(k, blocks) = BitsByte(end + Block - 1 - k)
  <2>1. k \notin (fed + 1)..((blocks - 1) * Block + Short - 1) /\ ~ (k < fed) /\ k # fed
    BY <1>2, <1>3, <1>7
  <2>2. PaddedByte(k, blocks) = BitsByte(blocks * Block - 1 - k)
    BY <2>1, Zenon DEF PaddedByte
  <2>3. blocks * Block - 1 - k = end + Block - 1 - k
    BY Sizes
  <2>4. QED BY <2>2, <2>3, Zenon
<1>8. QED BY <1>4, <1>5, <1>6, <1>7

\* The bytes of the blocks of the padded message.
LEMMA PaddedBytes ==
  ASSUME NEW n \in Nat, NEW used \in 0..(Block - 1), fed = n * Block + used, n = Len(hashed), NEW i \in Places
  PROVE  /\ \A k \in 1..n, blocks \in Nat \ {0} : PaddedByte((k - 1) * Block + i, blocks) = (k - 1) * Block + i + 1
         /\ TooFull(used + 1) => /\ PaddedByte(n * Block + i, n + 2) = Marked(used)[i]
                                 /\ PaddedByte((n + 1) * Block + i, n + 2) = Closed(Zeros)[i]
         /\ ~ TooFull(used + 1) => PaddedByte(n * Block + i, n + 1) = Closed(Marked(used))[i]
<1>1. Block \in Nat \ {0} /\ WordBytes \in Nat \ {0} /\ Short \in Nat /\ Block = Short + 2 * WordBytes /\ used \in Nat
      /\ i \in Nat /\ i < Block
  BY Sizes DEF Places
<1>2. PICK whole \in Nat : whole = n * Block /\ (n + 1) * Block = whole + Block /\ (n + 2) * Block = whole + Block + Block
  BY <1>1
<1>3. fed = whole + used /\ fed \in Nat
  BY <1>1, <1>2
<1>4. (n + 1) - 1 = n /\ (n + 2) - 1 = n + 1
  OBVIOUS
<1>5. ASSUME NEW k \in 1..n, NEW blocks \in Nat \ {0}
      PROVE  PaddedByte((k - 1) * Block + i, blocks) = (k - 1) * Block + i + 1
  <2>1. PICK d \in Nat : n = (k - 1) + 1 + d
    <3>1. n - k \in Nat /\ n = (k - 1) + 1 + (n - k)
      OBVIOUS
    <3>2. QED BY <3>1
  <2>2. PICK before \in Nat, after \in Nat : before = (k - 1) * Block /\ after = d * Block
    BY <1>1
  <2>3. whole = before + Block + after
    BY <1>1, <1>2, <2>1, <2>2
  <2>4. PICK end \in Nat : end = (blocks - 1) * Block /\ blocks * Block = end + Block
    BY <1>1
  <2>5. PICK at \in Nat : at = before + i
    BY <1>1
  <2>6. at < fed
    BY <1>1, <1>3, <2>3, <2>5
  <2>7. PaddedByte(at, blocks) = at + 1
    BY <1>3, <2>4, <2>6, PaddedByteIs
  <2>8. QED BY <2>2, <2>5, <2>7
<1>6. ASSUME TooFull(used + 1)
      PROVE  PaddedByte(whole + i, n + 2) = Marked(used)[i]
  <2>1. used + 1 > Short
    BY <1>6 DEF TooFull
  <2>2. Marked(used)[i] = IF i < used THEN whole + i + 1 ELSE IF i = used THEN -1 ELSE 0
    BY <1>2 DEF Marked
  <2>3. PICK at \in Nat, end \in Nat, blocks \in Nat : at = whole + i /\ end = whole + Block /\ blocks = n + 2 /\ blocks - 1 = n + 1
    <3>1. whole + i \in Nat /\ whole + Block \in Nat /\ n + 2 \in Nat /\ (n + 2) - 1 = n + 1
      BY <1>1
    <3>2. QED BY <3>1
  <2>4. /\ at < fed => PaddedByte(at, blocks) = at + 1
        /\ at = fed => PaddedByte(at, blocks) = -1
        /\ at > fed /\ at < end + Short => PaddedByte(at, blocks) = 0
    <3>1. (blocks - 1) * Block = end /\ blocks * Block = end + Block
      BY <1>2, <2>3, Zenon
    <3>2. QED BY <1>3, <3>1, PaddedByteIs
  <2>5. /\ at < fed <=> i < used
        /\ at = fed <=> i = used
        /\ at < end + Short
    BY <1>1, <1>3, <2>3
  <2>6. at > fed <=> ~ (i < used) /\ i # used
    BY <1>1, <1>3, <2>3
  <2>7. PaddedByte(at, blocks) = Marked(used)[i]
    BY <2>2, <2>3, <2>4, <2>5, <2>6
  <2>8. QED BY <2>3, <2>7
<1>7. ASSUME TooFull(used + 1)
      PROVE  PaddedByte(whole + Block + i, n + 2) = Closed(Zeros)[i]
  <2>1. Closed(Zeros)[i] = IF i < Short THEN 0 ELSE BitsByte(Block - 1 - i)
    BY DEF Closed, Zeros
  <2>2. PICK at \in Nat, end \in Nat, blocks \in Nat : at = whole + Block + i /\ end = whole + Block /\ blocks = n + 2 /\ blocks - 1 = n + 1
    <3>1. whole + Block + i \in Nat /\ whole + Block \in Nat /\ n + 2 \in Nat /\ (n + 2) - 1 = n + 1
      BY <1>1
    <3>2. QED BY <3>1
  <2>3. /\ at > fed /\ at < end + Short => PaddedByte(at, blocks) = 0
        /\ at > fed /\ ~ (at < end + Short) => PaddedByte(at, blocks) = BitsByte(end + Block - 1 - at)
    <3>1. (blocks - 1) * Block = end /\ blocks * Block = end + Block
      BY <1>2, <2>2, Zenon
    <3>2. QED BY <1>3, <3>1, PaddedByteIs
  <2>4. at > fed /\ (at < end + Short <=> i < Short) /\ end + Block - 1 - at = Block - 1 - i
    BY <1>1, <1>3, <2>2
  <2>5. PaddedByte(at, blocks) = Closed(Zeros)[i]
    BY <2>1, <2>3, <2>4
  <2>6. QED BY <2>2, <2>5
<1>8. ASSUME ~ TooFull(used + 1)
      PROVE  PaddedByte(whole + i, n + 1) = Closed(Marked(used))[i]
  <2>1. used < Short
    BY <1>1, <1>8 DEF TooFull
  <2>2. Closed(Marked(used))[i] =
          IF i < Short THEN (IF i < used THEN whole + i + 1 ELSE IF i = used THEN -1 ELSE 0) ELSE BitsByte(Block - 1 - i)
    BY <1>2 DEF Closed, Marked
  <2>3. PICK at \in Nat, end \in Nat, blocks \in Nat : at = whole + i /\ end = whole /\ blocks = n + 1 /\ blocks - 1 = n
    <3>1. whole + i \in Nat /\ whole \in Nat /\ n + 1 \in Nat /\ (n + 1) - 1 = n
      BY <1>1
    <3>2. QED BY <3>1
  <2>4. /\ at < fed => PaddedByte(at, blocks) = at + 1
        /\ at = fed => PaddedByte(at, blocks) = -1
        /\ at > fed /\ at < end + Short => PaddedByte(at, blocks) = 0
        /\ at > fed /\ ~ (at < end + Short) => PaddedByte(at, blocks) = BitsByte(end + Block - 1 - at)
    <3>1. (blocks - 1) * Block = end /\ blocks * Block = end + Block
      BY <1>2, <2>3, Zenon
    <3>2. QED BY <1>3, <3>1, PaddedByteIs
  <2>5. /\ at < fed <=> i < used
        /\ at = fed <=> i = used
        /\ at < end + Short <=> i < Short
        /\ end + Block - 1 - at = Block - 1 - i
    BY <1>1, <1>3, <2>3
  <2>6. /\ at > fed <=> ~ (i < used) /\ i # used
        /\ i < used \/ i = used => i < Short
    BY <1>1, <1>3, <2>1, <2>3
  <2>7. PaddedByte(at, blocks) = Closed(Marked(used))[i]
    BY <2>2, <2>3, <2>4, <2>5, <2>6
  <2>8. QED BY <2>3, <2>7
<1>9. QED BY <1>2, <1>5, <1>6, <1>7, <1>8

\* The blocks of the padded message are those the state has taken, then what
\* waits, the padding and the length.
LEMMA PaddedBlocks ==
  ASSUME Context, hashed \in Seq(Bytes), NEW used \in 0..(Block - 1), Absorbed(used), BitsAre(bitcount, 8 * fed)
  PROVE  Padded = (hashed \o Ended(used)) \o <<LastBlock(used)>>
<1> DEFINE n == Len(hashed)
           ended == Ended(used)
           last == LastBlock(used)
           taken == hashed \o ended
           all == taken \o <<last>>
           byte(m, i, blocks) == PaddedByte((m - 1) * Block + i, blocks)
           padding(m, blocks) == [i \in Places |-> byte(m, i, blocks)]
<1>1. n \in Nat /\ used \in Nat /\ fed \in Nat /\ fed = n * Block + used /\ bitcount \in Counters
  BY DEF Absorbed, BitsAre, Context
<1>2. PICK blocks \in Nat \ {0} : blocks = IF TooFull(used + 1) THEN n + 2 ELSE n + 1
  BY <1>1
<1>3. Padded = [m \in 1..blocks |-> padding(m, blocks)]
  <2>1. blocks = (fed + 1 + 2 * WordBytes + Block - 1) \div Block
    BY <1>1, <1>2, BlocksOfPadded
  <2>2. QED BY <1>1, <2>1, PaddedIs
<1>4. /\ last \in Bytes /\ ended \in Seq(Bytes)
      /\ Marked(used) \in Bytes /\ Closed(Zeros) \in Bytes /\ Closed(Marked(used)) \in Bytes
      /\ ended = IF TooFull(used + 1) THEN <<Marked(used)>> ELSE << >>
      /\ last = Closed(IF TooFull(used + 1) THEN Zeros ELSE Marked(used))
  BY <1>1, PaddingBytes DEF Ended, LastBlock
<1>5. ASSUME NEW m \in 1..n PROVE padding(m, blocks) = hashed[m]
  <2>1. \A i \in Places : byte(m, i, blocks) = (m - 1) * Block + i + 1
    BY <1>1, PaddedBytes
  <2>2. hashed[m] = [i \in Places |-> (m - 1) * Block + i + 1]
    BY DEF Absorbed, MessageBlock
  <2> HIDE DEF byte
  <2>3. QED BY <2>1, <2>2, Zenon
<1>6. TooFull(used + 1) => padding(n + 1, n + 2) = Marked(used) /\ padding(n + 2, n + 2) = Closed(Zeros)
  <2>1. (n + 1) - 1 = n /\ (n + 2) - 1 = n + 1
    BY <1>1
  <2>2. ASSUME TooFull(used + 1), NEW i \in Places
        PROVE  byte(n + 1, i, n + 2) = Marked(used)[i] /\ byte(n + 2, i, n + 2) = Closed(Zeros)[i]
    <3> HIDE DEF n
    <3>1. /\ PaddedByte(n * Block + i, n + 2) = Marked(used)[i]
          /\ PaddedByte((n + 1) * Block + i, n + 2) = Closed(Zeros)[i]
      BY <1>1, <2>2, PaddedBytes DEF n
    <3>2. QED BY <2>1, <3>1, Zenon
  <2>3. ASSUME TooFull(used + 1) PROVE padding(n + 1, n + 2) = Marked(used)
    <3> HIDE DEF byte
    <3>1. Marked(used) = [i \in Places |-> Marked(used)[i]]
      BY <1>4 DEF Bytes
    <3>2. QED BY <2>2, <2>3, <3>1, Zenon
  <2>4. ASSUME TooFull(used + 1) PROVE padding(n + 2, n + 2) = Closed(Zeros)
    <3> HIDE DEF byte
    <3>1. Closed(Zeros) = [i \in Places |-> Closed(Zeros)[i]]
      BY <1>4 DEF Bytes
    <3>2. QED BY <2>2, <2>4, <3>1, Zenon
  <2>5. QED BY <2>3, <2>4
<1>7. ~ TooFull(used + 1) => padding(n + 1, n + 1) = Closed(Marked(used))
  <2>1. (n + 1) - 1 = n
    BY <1>1
  <2>2. ASSUME ~ TooFull(used + 1), NEW i \in Places PROVE byte(n + 1, i, n + 1) = Closed(Marked(used))[i]
    <3> HIDE DEF n
    <3>1. PaddedByte(n * Block + i, n + 1) = Closed(Marked(used))[i]
      BY <1>1, <2>2, PaddedBytes DEF n
    <3>2. QED BY <2>1, <3>1, Zenon
  <2>3. Closed(Marked(used)) = [i \in Places |-> Closed(Marked(used))[i]]
    BY <1>4 DEF Bytes
  <2> HIDE DEF byte
  <2>4. QED BY <2>2, <2>3, Zenon
<1> HIDE DEF n, ended, last, padding
<1>8. /\ taken \in Seq(Bytes) /\ Len(taken) = n + Len(ended)
      /\ \A m \in 1..Len(taken) : taken[m] = IF m <= n THEN hashed[m] ELSE ended[m - n]
  BY <1>4, ConcatProperties DEF n
<1> HIDE DEF taken
<1>9. /\ all \in Seq(Bytes) /\ Len(all) = Len(taken) + 1 /\ Len(taken) \in Nat
      /\ \A m \in 1..Len(all) : all[m] = IF m <= Len(taken) THEN taken[m] ELSE last
  <2>1. all = Append(taken, last)
    <3> HIDE DEF last
    <3>1. QED BY <1>4, <1>8 DEF all
  <2>2. Len(taken) \in Nat
    BY <1>8, LenProperties
  <2>3. QED BY <1>4, <1>8, <2>1, <2>2, AppendProperties
<1> HIDE DEF all
<1>10. Len(all) = blocks /\ all = [m \in 1..blocks |-> all[m]]
  <2>1. Len(all) = blocks
    <3>1. CASE TooFull(used + 1)
      <4>1. Len(ended) = 1
        BY <1>4, <3>1
      <4>2. QED BY <1>1, <1>2, <1>8, <1>9, <3>1, <4>1
    <3>2. CASE ~ TooFull(used + 1)
      <4>1. Len(ended) = 0
        BY <1>4, <3>2
      <4>2. QED BY <1>1, <1>2, <1>8, <1>9, <3>2, <4>1
    <3>3. QED BY <3>1, <3>2
  <2>2. all \in [1..blocks -> Bytes]
    BY <1>9, <2>1, LenProperties
  <2>3. QED BY <2>1, <2>2
<1>11. ASSUME NEW m \in 1..blocks PROVE all[m] = padding(m, blocks)
  <2>1. CASE m <= n
    <3>1. m \in 1..n /\ m \in 1..Len(taken) /\ m \in 1..Len(all) /\ m <= Len(taken)
      <4>1. Len(ended) \in Nat
        BY <1>4, LenProperties
      <4>2. QED BY <1>1, <1>8, <1>9, <1>10, <2>1, <4>1
    <3>2. QED BY <1>5, <1>8, <1>9, <2>1, <3>1
  <2>2. CASE m > n /\ TooFull(used + 1)
    <3>1. Len(ended) = 1 /\ ended[1] = Marked(used) /\ last = Closed(Zeros) /\ blocks = n + 2
      BY <1>2, <1>4, <2>2
    <3>2. Len(taken) = n + 1 /\ m \in 1..Len(all)
      BY <1>8, <1>10, <3>1
    <3>3. CASE m = n + 1
      <4>1. m \in 1..Len(taken) /\ m <= Len(taken) /\ ~ (m <= n) /\ m - n = 1
        BY <1>1, <3>2, <3>3
      <4>2. all[m] = Marked(used)
        BY <1>8, <1>9, <3>1, <3>2, <4>1
      <4>3. QED BY <1>6, <2>2, <3>1, <3>3, <4>2
    <3>4. CASE m # n + 1
      <4>1. m = n + 2 /\ ~ (m <= Len(taken))
        BY <1>1, <2>2, <3>1, <3>2, <3>4
      <4>2. all[m] = Closed(Zeros)
        BY <1>9, <3>1, <3>2, <4>1
      <4>3. QED BY <1>6, <2>2, <3>1, <4>1, <4>2
    <3>5. QED BY <3>3, <3>4
  <2>3. CASE m > n /\ ~ TooFull(used + 1)
    <3>1. Len(ended) = 0 /\ last = Closed(Marked(used)) /\ blocks = n + 1
      BY <1>2, <1>4, <2>3
    <3>2. Len(taken) = n /\ m \in 1..Len(all) /\ m = n + 1 /\ ~ (m <= Len(taken))
      BY <1>1, <1>8, <1>10, <2>3, <3>1
    <3>3. all[m] = Closed(Marked(used))
      BY <1>9, <3>1, <3>2
    <3>4. QED BY <1>7, <2>3, <3>1, <3>2, <3>3
  <2>4. QED BY <1>1, <2>1, <2>2, <2>3
<1>12. all = Padded
  BY <1>3, <1>10, <1>11
<1>13. QED BY <1>12 DEF all, taken, ended, last

\* The length as Final stores it behind the zeros, on either machine.
WithLength(b) ==
  [i \in Places |-> CASE i \in Short..(Short + WordBytes - 1) -> Stored(bitcount[2], i - Short)
                      [] i >= Short + WordBytes -> Stored(bitcount[1], i - Short - WordBytes)
                      [] OTHER -> Turned(b, Words - 2)[i]]

\* A stored word's bytes, and where they are read.
LEMMA StoredByte ==
  ASSUME NEW word, NEW r \in 0..(WordBytes - 1)
  PROVE  ByteOf(word, WordBytes - 1 - r) = IF little THEN Stored(word, WordBytes - 1 - r) ELSE Stored(word, r)
BY DEF Stored

\* The last block, place by place.
LEMMA WithLengthPlace ==
  ASSUME NEW b, NEW i \in Places
  PROVE  /\ i < Short => WithLength(b)[i] = IF little THEN b[Mirror(i)] ELSE b[i]
         /\ i \in Short..(Short + WordBytes - 1) => WithLength(b)[i] = Stored(bitcount[2], i - Short)
         /\ i >= Short + WordBytes => WithLength(b)[i] = Stored(bitcount[1], i - Short - WordBytes)
<1>1. Short \in Nat /\ WordBytes \in Nat \ {0} /\ i \in Nat
  BY Sizes DEF Places
<1>2. ASSUME i < Short PROVE i \div WordBytes < Words - 2
  <2>1. PICK w \in Nat, r \in 0..(WordBytes - 1) : w = i \div WordBytes /\ i = w * WordBytes + r
    BY WordOfPlace
  <2>2. PICK d \in Nat : Words = d + 2 /\ Words - 2 = d
    <3>1. Words - 2 \in Nat /\ Words = (Words - 2) + 2
      BY ShaStreamAssumption
    <3>2. QED BY <3>1
  <2>3. Short = d * WordBytes
    <3>1. Words * WordBytes = d * WordBytes + 2 * WordBytes /\ d * WordBytes \in Nat
      BY <1>1, <2>2
    <3>2. QED BY <1>1, <3>1 DEF Short, Block
  <2>4. w < d
    <3>1. SUFFICES ASSUME w >= d PROVE FALSE
      BY <2>2
    <3>2. PICK e \in Nat : w = d + e
      <4>1. w - d \in Nat /\ w = d + (w - d)
        BY <2>2, <3>1
      <4>2. QED BY <4>1
    <3>3. w * WordBytes = d * WordBytes + e * WordBytes /\ e * WordBytes \in Nat /\ d * WordBytes \in Nat
      BY <1>1, <2>2, <3>2
    <3>4. QED BY <1>1, <1>2, <2>1, <2>3, <3>3
  <2>5. QED BY <2>1, <2>2, <2>4
<1>3. ASSUME i < Short PROVE WithLength(b)[i] = Turned(b, Words - 2)[i]
  <2>1. i \notin Short..(Short + WordBytes - 1) /\ ~ (i >= Short + WordBytes)
    BY <1>1, <1>3
  <2>2. QED BY <2>1, Zenon DEF WithLength
<1>4. ASSUME i < Short PROVE WithLength(b)[i] = IF little THEN b[Mirror(i)] ELSE b[i]
  BY <1>2, <1>3, <1>4, TurnedPlace
<1>5. ASSUME i \in Short..(Short + WordBytes - 1) PROVE WithLength(b)[i] = Stored(bitcount[2], i - Short)
  <2>1. ~ (i >= Short + WordBytes)
    BY <1>1, <1>5
  <2>2. QED BY <1>5, <2>1, Zenon DEF WithLength
<1>6. ASSUME i >= Short + WordBytes PROVE WithLength(b)[i] = Stored(bitcount[1], i - Short - WordBytes)
  <2>1. i \notin Short..(Short + WordBytes - 1)
    BY <1>1, <1>6
  <2>2. QED BY <1>6, <2>1, Zenon DEF WithLength
<1>7. QED BY <1>4, <1>5, <1>6

\* The words that hold the length, and their bytes.
LEMMA LengthPlaces ==
  ASSUME NEW r \in 0..(WordBytes - 1)
  PROVE  /\ Short + r \in Places /\ Mirror(Short + r) = Short + (WordBytes - 1 - r)
         /\ Short + WordBytes + r \in Places /\ Mirror(Short + WordBytes + r) = Short + WordBytes + (WordBytes - 1 - r)
<1>1. WordBytes \in Nat \ {0} /\ Short \in Nat /\ Block = Short + 2 * WordBytes
  BY Sizes
<1>2. PICK d \in Nat : d = Words - 2 /\ d + 1 \in Nat
  BY ShaStreamAssumption
<1>3. Short = d * WordBytes /\ Short + WordBytes = (d + 1) * WordBytes
  <2>1. Words = d + 2 /\ Words * WordBytes = d * WordBytes + 2 * WordBytes /\ d * WordBytes \in Nat
    BY <1>1, <1>2, ShaStreamAssumption
  <2>2. Short = d * WordBytes
    BY <1>1, <2>1 DEF Short, Block
  <2>3. (d + 1) * WordBytes = d * WordBytes + WordBytes
    BY <1>1
  <2>4. QED BY <2>2, <2>3
<1>4. ASSUME NEW w \in Nat PROVE Mirror(w * WordBytes + r) = w * WordBytes + (WordBytes - 1 - r)
  <2>1. (w * WordBytes + r) \div WordBytes = w /\ (w * WordBytes + r) % WordBytes = r
    BY <1>1, Division
  <2>2. Mirror(w * WordBytes + r) = w * WordBytes + WordBytes - 1 - r
    BY <2>1 DEF Mirror
  <2>3. PICK at \in Nat : at = w * WordBytes
    BY <1>1
  <2>4. at + WordBytes - 1 - r = at + (WordBytes - 1 - r)
    BY <1>1
  <2>5. QED BY <2>2, <2>3, <2>4
<1>5. Mirror(Short + r) = Short + (WordBytes - 1 - r)
  BY <1>3, <1>4
<1>6. Mirror(Short + WordBytes + r) = Short + WordBytes + (WordBytes - 1 - r)
  BY <1>2, <1>3, <1>4
<1>7. Short + r \in Places /\ Short + WordBytes + r \in Places
  BY <1>1 DEF Places
<1>8. QED BY <1>5, <1>6, <1>7

\* What the last block is when it is read: the words before the length, which
\* are reversed twice, and the length with its highest byte first.
LEMMA LengthRead ==
  ASSUME NEW b, NEW c, \A i \in 0..(Short - 1) : b[i] = c[i]
  PROVE  Read(WithLength(b)) = Closed(c)
<1> DEFINE length == WithLength(b)
<1>1. WordBytes \in Nat \ {0} /\ Short \in Nat /\ Short >= WordBytes /\ Block = Short + 2 * WordBytes
  BY Sizes
<1>2. ASSUME NEW i \in Places
      PROVE  Read(length)[i] = IF little THEN length[Mirror(i)] ELSE length[i]
  <2>1. i \div WordBytes < Words
    BY WordOfPlace
  <2>2. QED BY <2>1, TurnedPlace DEF Read
<1>3. ASSUME NEW i \in Places, i < Short PROVE Mirror(i) \in Places /\ Mirror(i) < Short
  <2>1. Mirror(i) \in Places /\ Mirror(Mirror(i)) = i
    BY Mirrored
  <2>2. SUFFICES ASSUME Mirror(i) >= Short PROVE FALSE
    BY <1>1, <2>1 DEF Places
  <2>3. PICK j \in Places : j = Mirror(i)
    BY <2>1
  <2>4. j \in Nat /\ j >= Short /\ j < Short + 2 * WordBytes /\ i \in Nat
    BY <1>1, <2>2, <2>3 DEF Places
  <2>5. CASE j < Short + WordBytes
    <3>1. PICK r \in 0..(WordBytes - 1) : j = Short + r
      <4>1. j - Short \in 0..(WordBytes - 1) /\ j = Short + (j - Short)
        BY <1>1, <2>4, <2>5
      <4>2. QED BY <4>1
    <3>2. Mirror(j) = Short + (WordBytes - 1 - r)
      BY <3>1, LengthPlaces
    <3>3. QED BY <1>1, <1>3, <2>1, <2>3, <2>4, <3>2
  <2>6. CASE ~ (j < Short + WordBytes)
    <3>1. PICK r \in 0..(WordBytes - 1) : j = Short + WordBytes + r
      <4>1. j - Short - WordBytes \in 0..(WordBytes - 1) /\ j = Short + WordBytes + (j - Short - WordBytes)
        BY <1>1, <2>4, <2>6
      <4>2. QED BY <4>1
    <3>2. Mirror(j) = Short + WordBytes + (WordBytes - 1 - r)
      BY <3>1, LengthPlaces
    <3>3. QED BY <1>1, <1>3, <2>1, <2>3, <2>4, <3>2
  <2>7. QED BY <2>5, <2>6
<1>4. ASSUME NEW i \in Places, i < Short PROVE Read(length)[i] = c[i]
  <2>1. Mirror(i) \in Places /\ Mirror(i) < Short /\ Mirror(Mirror(i)) = i /\ i \in 0..(Short - 1)
    BY <1>1, <1>3, <1>4, Mirrored DEF Places
  <2>2. length[i] = IF little THEN b[Mirror(i)] ELSE b[i]
    BY <1>4, WithLengthPlace
  <2>3. length[Mirror(i)] = IF little THEN b[i] ELSE b[Mirror(i)]
    <3>1. PICK j \in Places : j = Mirror(i) /\ j < Short
      BY <2>1
    <3>2. length[j] = IF little THEN b[Mirror(j)] ELSE b[j]
      BY <3>1, WithLengthPlace
    <3>3. QED BY <2>1, <3>1, <3>2
  <2>4. QED BY <1>2, <2>1, <2>2, <2>3
<1>5. ASSUME NEW i \in Places, NEW r \in 0..(WordBytes - 1), i = Short + r PROVE Read(length)[i] = BitsByte(Block - 1 - i)
  <2>1. PICK s \in 0..(WordBytes - 1), j \in Places : s = WordBytes - 1 - r /\ j = Short + s /\ Mirror(i) = j
    <3>1. WordBytes - 1 - r \in 0..(WordBytes - 1)
      BY <1>1
    <3>2. Short + (WordBytes - 1 - r) \in Places /\ Mirror(i) = Short + (WordBytes - 1 - r)
      BY <1>5, <3>1, LengthPlaces
    <3>3. QED BY <3>1, <3>2
  <2>2. /\ i \in Short..(Short + WordBytes - 1) /\ i - Short = r
        /\ j \in Short..(Short + WordBytes - 1) /\ j - Short = s
    BY <1>1, <1>5, <2>1
  <2>3. length[i] = Stored(bitcount[2], r) /\ length[j] = Stored(bitcount[2], s)
    BY <2>2, WithLengthPlace
  <2>4. Read(length)[i] = ByteOf(bitcount[2], s)
    BY <1>2, <2>1, <2>3, StoredByte
  <2>5. PICK k \in Nat : k = Block - 1 - i /\ ~ (k < WordBytes) /\ k - WordBytes = s
    <3>1. Block - 1 - i \in Nat /\ ~ (Block - 1 - i < WordBytes) /\ Block - 1 - i - WordBytes = s
      BY <1>1, <1>5, <2>1
    <3>2. QED BY <3>1
  <2>6. BitsByte(k) = ByteOf(bitcount[2], s)
    BY <2>5 DEF BitsByte
  <2>7. QED BY <2>4, <2>5, <2>6
<1>6. ASSUME NEW i \in Places, NEW r \in 0..(WordBytes - 1), i = Short + WordBytes + r
      PROVE  Read(length)[i] = BitsByte(Block - 1 - i)
  <2>1. PICK s \in 0..(WordBytes - 1), j \in Places : s = WordBytes - 1 - r /\ j = Short + WordBytes + s /\ Mirror(i) = j
    <3>1. WordBytes - 1 - r \in 0..(WordBytes - 1)
      BY <1>1
    <3>2. /\ Short + WordBytes + (WordBytes - 1 - r) \in Places
          /\ Mirror(i) = Short + WordBytes + (WordBytes - 1 - r)
      BY <1>6, <3>1, LengthPlaces
    <3>3. QED BY <3>1, <3>2
  <2>2. /\ i >= Short + WordBytes /\ i - Short - WordBytes = r
        /\ j >= Short + WordBytes /\ j - Short - WordBytes = s
    BY <1>1, <1>6, <2>1
  <2>3. length[i] = Stored(bitcount[1], r) /\ length[j] = Stored(bitcount[1], s)
    BY <2>2, WithLengthPlace
  <2>4. Read(length)[i] = ByteOf(bitcount[1], s)
    BY <1>2, <2>1, <2>3, StoredByte
  <2>5. s < WordBytes /\ s = Block - 1 - i
    BY <1>1, <1>6, <2>1
  <2>6. BitsByte(s) = ByteOf(bitcount[1], s)
    BY <2>5 DEF BitsByte
  <2>7. QED BY <2>4, <2>5, <2>6
<1> HIDE DEF length
<1>7. ASSUME NEW i \in Places PROVE Read(length)[i] = IF i < Short THEN c[i] ELSE BitsByte(Block - 1 - i)
  <2>1. i \in Nat /\ i < Short + 2 * WordBytes
    BY <1>1 DEF Places
  <2>2. CASE i < Short
    BY <1>4, <2>2
  <2>3. CASE ~ (i < Short) /\ i < Short + WordBytes
    <3>1. i - Short \in 0..(WordBytes - 1) /\ i = Short + (i - Short)
      BY <1>1, <2>1, <2>3
    <3>2. QED BY <1>5, <2>3, <3>1
  <2>4. CASE ~ (i < Short + WordBytes)
    <3>1. i - Short - WordBytes \in 0..(WordBytes - 1) /\ i = Short + WordBytes + (i - Short - WordBytes) /\ ~ (i < Short)
      BY <1>1, <2>1, <2>4
    <3>2. QED BY <1>6, <3>1
  <2>5. QED BY <2>2, <2>3, <2>4
<1>8. Read(length) = [i \in Places |-> Read(length)[i]]
  BY DEF Read, Turned
<1>9. Closed(c) = [i \in Places |-> IF i < Short THEN c[i] ELSE BitsByte(Block - 1 - i)]
  BY DEF Closed
<1>10. Read(length) = Closed(c)
  BY <1>7, <1>8, <1>9, Zenon
<1>11. QED BY <1>10 DEF length

\* What Final hashes are the blocks of padding.
LEMMA FinalBlocks ==
  ASSUME Context, hashed \in Seq(Bytes), NEW used \in 0..(Block - 1), Absorbed(used), BitsAre(bitcount, 8 * fed),
         NEW asked \in BOOLEAN, Final(asked)
  PROVE  digest' = IF asked THEN (hashed \o Ended(used)) \o <<LastBlock(used)>> ELSE NULL
<1> DEFINE marked == [buffer EXCEPT ![used] = -1]
           full == RestCleared(marked, used + 1)
           base == IF TooFull(used + 1) THEN Zeroed(Turned(full, Words), 0, Short)
                   ELSE Zeroed(marked, used + 1, Short - (used + 1))
           goal == IF TooFull(used + 1) THEN Zeros ELSE Marked(used)
<1>1. used \in Nat /\ Block \in Nat \ {0} /\ Short \in Nat /\ Short <= Block /\ used \in Places /\ usedspace = used
  BY Sizes, UsedSpace DEF Places
<1>2. bitcount \in Counters /\ buffer \in Bytes
  BY DEF BitsAre, Context
<1>3. ASSUME NEW i \in Places
      PROVE  marked[i] = IF i = used THEN -1 ELSE buffer[i]
  BY <1>1, <1>2 DEF Bytes
<1>4. ASSUME NEW i \in Places, i < used + 1 PROVE marked[i] = Marked(used)[i]
  <2>1. i \in Nat
    BY DEF Places
  <2>2. CASE i < used
    <3>1. i \in 0..(used - 1) /\ i # used
      BY <1>1, <2>1, <2>2
    <3>2. QED BY <1>3, <2>2, <3>1 DEF Absorbed, Marked
  <2>3. CASE i = used
    <3>1. ~ (i < used)
      BY <1>1, <2>3
    <3>2. QED BY <1>3, <2>3, <3>1 DEF Marked
  <2>4. QED BY <1>1, <1>4, <2>1, <2>2, <2>3
<1>5. ASSUME NEW i \in Places, ~ (i < used + 1) PROVE Marked(used)[i] = 0
  <2>1. ~ (i < used) /\ i # used
    BY <1>1, <1>5 DEF Places
  <2>2. QED BY <2>1 DEF Marked
<1>6. full = Marked(used)
  <2>1. ASSUME NEW i \in Places PROVE full[i] = Marked(used)[i]
    <3>1. full[i] = IF i \in (used + 1)..(used + 1 + (Block - (used + 1)) - 1) THEN 0 ELSE marked[i]
      BY DEF RestCleared, Zeroed
    <3>2. i \in (used + 1)..(used + 1 + (Block - (used + 1)) - 1) <=> ~ (i < used + 1)
      BY <1>1 DEF Places
    <3>3. QED BY <1>4, <1>5, <3>1, <3>2
  <2>2. full = [i \in Places |-> full[i]]
    BY DEF RestCleared, Zeroed
  <2>3. Marked(used) = [i \in Places |-> Marked(used)[i]]
    BY DEF Marked
  <2> HIDE DEF full
  <2>4. QED BY <2>1, <2>2, <2>3, Zenon
<1>7. Read(Turned(full, Words)) = Marked(used)
  BY <1>1, <1>2, <1>6, PaddingBytes, TurnedTwice DEF Bytes
<1>8. ASSUME NEW i \in 0..(Short - 1) PROVE base[i] = goal[i]
  <2>1. i \in Places
    BY <1>1 DEF Places
  <2>2. CASE TooFull(used + 1)
    <3>1. base[i] = IF i \in 0..(0 + Short - 1) THEN 0 ELSE Turned(full, Words)[i]
      BY <2>1, <2>2 DEF Zeroed
    <3>2. i \in 0..(0 + Short - 1)
      BY <1>1
    <3>3. QED BY <2>1, <2>2, <3>1, <3>2 DEF Zeros
  <2>3. CASE ~ TooFull(used + 1)
    <3>1. base[i] = IF i \in (used + 1)..(used + 1 + (Short - (used + 1)) - 1) THEN 0 ELSE marked[i]
      BY <2>1, <2>3 DEF Zeroed
    <3>2. i \in (used + 1)..(used + 1 + (Short - (used + 1)) - 1) <=> ~ (i < used + 1)
      BY <1>1
    <3>3. QED BY <1>4, <1>5, <2>1, <2>3, <3>1, <3>2
  <2>4. QED BY <2>2, <2>3
<1>9. digest' = IF ~ asked THEN NULL
                ELSE hashed \o (IF TooFull(used + 1) THEN <<Read(Turned(full, Words))>> ELSE << >>)
                       \o <<Read(WithLength(base))>>
  <2>1. WithLength(base) =
          [i \in Places |-> CASE i \in Short..(Short + WordBytes - 1) -> Stored(bitcount[2], i - Short)
                              [] i >= Short + WordBytes -> Stored(bitcount[1], i - Short - WordBytes)
                              [] OTHER -> Turned(base, Words - 2)[i]]
    BY DEF WithLength
  <2>2. QED BY <1>1, <2>1, Zenon DEF Final
<1> HIDE DEF marked, full, base, goal
<1>10. Read(WithLength(base)) = LastBlock(used)
  <2>1. Read(WithLength(base)) = Closed(goal)
    BY <1>8, LengthRead
  <2>2. QED BY <2>1 DEF goal, LastBlock
<1>11. QED BY <1>7, <1>9, <1>10, Zenon DEF Ended

-----------------------------------------------------------------------------
(* The invariant holds.                                                    *)

\* A context that StreamInit has filled waits for the first byte.
LEMMA BlankIsSound ==
  ASSUME wide \in BOOLEAN, little \in BOOLEAN, hashed = << >>, buffer = Zeros, bitcount = <<0, 0>>,
         fed = 0, left = 0, pc = "idle", digest = NULL
  PROVE  IInv
<1>1. Block \in Nat \ {0} /\ WordMod \in Nat \ {0} /\ MaxLength \in Nat
  BY Sizes, ShaStreamAssumption
<1>2. Context
  BY <1>1 DEF Context, Zeros, Bytes
<1>3. Absorbed(0)
  <2>1. Len(hashed) = 0 /\ 0 \in 0..(Block - 1) /\ 0 = 0 * Block + 0 /\ 1..0 = {} /\ 0..(0 - 1) = {}
    BY <1>1
  <2>2. QED BY <2>1 DEF Absorbed
<1>4. BitsAre(bitcount, 8 * fed)
  BY <1>1 DEF BitsAre, Counters
<1>5. hashed \in Seq(Bytes)
  BY EmptySeq
<1>6. Hashing
  BY <1>3, <1>4, <1>5 DEF Hashing
<1>7. QED BY <1>2, <1>6 DEF IInv, DigestIsOfPadded

\* An update begins with what waits, or with whole blocks where nothing does.
LEMMA UpdateStep ==
  ASSUME IInv, NEW len \in 0..MaxChunk, Update(len)
  PROVE  IInv'
<1>1. /\ Context /\ digest = NULL /\ hashed \in Seq(Bytes) /\ BitsAre(bitcount, 8 * fed) /\ pc = "idle"
      /\ len \in Nat /\ fed + len <= MaxLength
  BY ShaStreamAssumption DEF IInv, Hashing, Update
<1>2. PICK used \in Nat : Absorbed(used)
  BY <1>1 DEF IInv, Hashing
<1>3. usedspace = used
  BY <1>1, <1>2, UsedSpace
<1>4. /\ left' = len /\ pc' = IF len = 0 THEN "idle" ELSE IF used > 0 THEN "fill" ELSE "blocks"
      /\ UNCHANGED <<wide, little, hashed, buffer, bitcount, fed, digest>>
  BY <1>3 DEF Update
<1>5. Context'
  BY <1>1, <1>4 DEF Context
<1>6. Absorbed(used)'
  BY <1>2, <1>4 DEF Absorbed, MessageBlock
<1>7. pc' = "blocks" => used = 0
  BY <1>4
<1>8. Hashing'
  <2>1. hashed' \in Seq(Bytes) /\ BitsAre(bitcount', 8 * fed') /\ digest' = NULL
    BY <1>1, <1>4
  <2>2. pc' = "idle" => left' = 0
    BY <1>4
  <2>3. QED BY <1>6, <1>7, <2>1, <2>2 DEF Hashing
<1>9. QED BY <1>1, <1>4, <1>5, <1>8 DEF IInv, DigestIsOfPadded

\* A step of an update that has taken whole blocks goes on with blocks.
LEMMA BlockStep ==
  ASSUME Context, digest = NULL, hashed \in Seq(Bytes), BitsAre(bitcount, 8 * fed),
         NEW used \in 0..(Block - 1), Absorbed(used), left >= Block - used,
         Process(With(used, Block - used)), Take(Block - used, "blocks")
  PROVE  IInv'
<1>1. Block - used \in Nat /\ Block - used <= Block
  BY Sizes
<1>2. PICK n \in Nat : n = Block - used /\ n <= Block /\ n <= left
  BY <1>1
<1>3. Take(n, "blocks")
  BY <1>2
<1>4. /\ BitsAre(bitcount', 8 * fed') /\ fed' = fed + n /\ fed' \in Nat /\ left' \in Nat
      /\ fed' + left' <= MaxLength /\ pc' = "blocks" /\ UNCHANGED <<wide, little, digest>>
  BY <1>2, <1>3, TakenCounted
<1>5. Absorbed(0)' /\ hashed' \in Seq(Bytes) /\ buffer' \in Bytes
  BY <1>2, <1>4, BlockTaken
<1>6. Context'
  BY <1>4, <1>5 DEF Context
<1>7. Hashing'
  BY <1>4, <1>5 DEF Hashing
<1>8. QED BY <1>4, <1>6, <1>7 DEF IInv, DigestIsOfPadded

\* A step that takes less than what is free in the buffer ends the update.
LEMMA RestStep ==
  ASSUME Context, digest = NULL, hashed \in Seq(Bytes), BitsAre(bitcount, 8 * fed),
         NEW used \in 0..(Block - 1), Absorbed(used), left < Block - used,
         buffer' = With(used, left), Take(left, "idle"), hashed' = hashed
  PROVE  IInv'
<1>1. used \in Nat /\ left \in Nat /\ used + left < Block /\ left <= Block
  BY Sizes DEF Context
<1>2. PICK n \in Nat : n = left
  BY <1>1
<1>3. Take(n, "idle") /\ buffer' = With(used, n)
  BY <1>2
<1>4. /\ BitsAre(bitcount', 8 * fed') /\ fed' = fed + n /\ fed' \in Nat /\ left' = left - n /\ left' \in Nat
      /\ fed' + left' <= MaxLength /\ pc' = "idle" /\ UNCHANGED <<wide, little, digest>>
  BY <1>1, <1>2, <1>3, TakenCounted
<1>5. PICK waiting \in Nat : waiting = used + n
  BY <1>1
<1>6. Absorbed(waiting)' /\ buffer' \in Bytes
  <2>1. Absorbed(used + n)' /\ buffer' \in Bytes
    BY <1>1, <1>2, <1>3, <1>4, BytesWait
  <2>2. QED BY <1>5, <2>1
<1>7. Context'
  BY <1>4, <1>6 DEF Context
<1>8. Hashing'
  BY <1>1, <1>2, <1>4, <1>6 DEF Hashing
<1>9. QED BY <1>4, <1>7, <1>8 DEF IInv, DigestIsOfPadded

\* Bytes fill a block that was begun, or do not.
LEMMA FillStep ==
  ASSUME IInv, Fill
  PROVE  IInv'
<1>1. Context /\ digest = NULL /\ hashed \in Seq(Bytes) /\ BitsAre(bitcount, 8 * fed) /\ pc = "fill"
  BY DEF IInv, Hashing, Fill
<1>2. PICK used \in Nat : Absorbed(used)
  BY <1>1 DEF IInv, Hashing
<1>3. used \in 0..(Block - 1) /\ usedspace = used /\ left \in Nat /\ Block \in Nat
  BY <1>1, <1>2, UsedSpace, Sizes DEF Absorbed, Context
<1>4. IF left >= Block - used
        THEN Process(With(used, Block - used)) /\ Take(Block - used, "blocks")
        ELSE buffer' = With(used, left) /\ Take(left, "idle") /\ hashed' = hashed
  BY <1>3 DEF Fill
<1>5. CASE left >= Block - used
  BY <1>1, <1>2, <1>3, <1>4, <1>5, BlockStep
<1>6. CASE ~ (left >= Block - used)
  <2>1. left < Block - used
    BY <1>3, <1>6
  <2>2. QED BY <1>1, <1>2, <1>3, <1>4, <1>6, <2>1, RestStep
<1>7. QED BY <1>5, <1>6

\* Whole blocks, and what is left over.
LEMMA BlocksStep ==
  ASSUME IInv, TakeBlock \/ Save
  PROVE  IInv'
<1>1. Context /\ digest = NULL /\ hashed \in Seq(Bytes) /\ BitsAre(bitcount, 8 * fed) /\ Absorbed(0)
  BY DEF IInv, Hashing, TakeBlock, Save
<1>2. PICK used \in 0..(Block - 1) : used = 0 /\ Block - used = Block
  BY Sizes
<1>3. Absorbed(used)
  BY <1>1, <1>2
<1>4. CASE TakeBlock
  <2>1. left >= Block - used /\ Process(With(used, Block - used)) /\ Take(Block - used, "blocks")
    BY <1>2, <1>4 DEF TakeBlock
  <2>2. QED BY <1>1, <1>3, <2>1, BlockStep
<1>5. CASE Save
  <2>1. left < Block - used /\ buffer' = With(used, left) /\ Take(left, "idle") /\ hashed' = hashed
    BY <1>2, <1>5 DEF Save
  <2>2. QED BY <1>1, <1>3, <2>1, RestStep
<1>6. QED BY <1>4, <1>5

\* The digest is made from the padded message.
LEMMA FinalStep ==
  ASSUME IInv, NEW asked \in BOOLEAN, Final(asked)
  PROVE  IInv'
<1>1. Context /\ hashed \in Seq(Bytes) /\ BitsAre(bitcount, 8 * fed) /\ pc = "idle"
  BY DEF IInv, Hashing, Final
<1>2. PICK used \in Nat : Absorbed(used)
  BY <1>1 DEF IInv, Hashing
<1>3. used \in 0..(Block - 1)
  BY <1>2 DEF Absorbed
<1>4. digest' = IF asked THEN Padded ELSE NULL
  <2>1. digest' = IF asked THEN (hashed \o Ended(used)) \o <<LastBlock(used)>> ELSE NULL
    BY <1>1, <1>2, <1>3, FinalBlocks
  <2>2. Padded = (hashed \o Ended(used)) \o <<LastBlock(used)>>
    BY <1>1, <1>2, <1>3, PaddedBlocks
  <2>3. QED BY <2>1, <2>2
<1>5. Padded' = Padded
  BY DEF Final, Padded
<1>6. DigestIsOfPadded'
  BY <1>4, <1>5 DEF DigestIsOfPadded
<1>7. Context'
  <2>1. Zeros \in Bytes
    BY DEF Zeros, Bytes
  <2>2. QED BY <1>1, <2>1 DEF Context, Final
<1>8. Hashing'
  BY DEF Hashing, Final
<1>9. QED BY <1>6, <1>7, <1>8 DEF IInv

\* A context that is initialized again is blank.
LEMMA RestartStep ==
  ASSUME IInv, Restart
  PROVE  IInv'
<1>1. /\ wide' \in BOOLEAN /\ little' \in BOOLEAN /\ hashed' = << >> /\ buffer' = Zeros /\ bitcount' = <<0, 0>>
      /\ fed' = 0 /\ left' = 0 /\ pc' = "idle" /\ digest' = NULL
  BY DEF IInv, Context, Restart
<1>2. Block \in Nat \ {0} /\ WordMod \in Nat \ {0} /\ MaxLength \in Nat
  BY Sizes, ShaStreamAssumption
<1>3. Context'
  BY <1>1, <1>2 DEF Context, Zeros, Bytes
<1>4. Absorbed(0)'
  <2>1. Len(hashed') = 0 /\ 0 \in 0..(Block - 1) /\ 0 = 0 * Block + 0 /\ 1..0 = {} /\ 0..(0 - 1) = {}
    BY <1>1, <1>2
  <2>2. QED BY <1>1, <2>1 DEF Absorbed
<1>5. BitsAre(bitcount', 8 * fed')
  BY <1>1, <1>2 DEF BitsAre, Counters
<1>6. hashed' \in Seq(Bytes)
  BY <1>1, EmptySeq
<1>7. Hashing'
  BY <1>1, <1>4, <1>5, <1>6 DEF Hashing
<1>8. QED BY <1>1, <1>3, <1>7 DEF IInv, DigestIsOfPadded

\* One step of StreamNext, or none.
LEMMA StepKeepsIInv ==
  ASSUME IInv, [StreamNext]_streamVars
  PROVE  IInv'
<1>1. CASE \E len \in 0..MaxChunk : Update(len)
  BY <1>1, UpdateStep
<1>2. CASE Fill
  BY <1>2, FillStep
<1>3. CASE TakeBlock \/ Save
  BY <1>3, BlocksStep
<1>4. CASE \E asked \in BOOLEAN : Final(asked)
  BY <1>4, FinalStep
<1>5. CASE Restart
  BY <1>5, RestartStep
<1>6. CASE UNCHANGED streamVars
  BY <1>6 DEF streamVars, IInv, Context, Hashing, BitsAre, Absorbed, MessageBlock, DigestIsOfPadded, Padded
<1>7. QED BY <1>1, <1>2, <1>3, <1>4, <1>5, <1>6 DEF StreamNext

\* The invariant of SHA-1 and SHA-2: in each state the blocks taken and the
\* buffer are together the part of the message that was given, counted in bits.
THEOREM StreamInvariant == StreamSpec => []IInv
<1>1. StreamInit => IInv
  BY BlankIsSound DEF StreamInit
<1>2. IInv /\ [StreamNext]_streamVars => IInv'
  BY StepKeepsIInv
<1>3. QED BY <1>1, <1>2, PTL DEF StreamSpec

\* However a message is cut into updates, on machines of both byte orders and
\* with either counter, a digest is made from the message padded as in FIPS 180.
THEOREM HashesPaddedMessage == StreamSpec => []DigestIsOfPadded
<1>1. IInv => DigestIsOfPadded
  BY DEF IInv
<1>2. QED BY <1>1, StreamInvariant, PTL

\* Where an update ended, what waits is the remainder.
LEMMA InvTail ==
  ASSUME IInv
  PROVE  TailInBuffer
<1> SUFFICES ASSUME pc = "idle" PROVE TailInBuffer
  BY DEF TailInBuffer
<1>1. PICK used \in Nat : Absorbed(used)
  BY DEF IInv, Hashing
<1>2. hashed \in Seq(Bytes) /\ bitcount[2] * WordMod + bitcount[1] = 8 * fed
  BY DEF IInv, Hashing, BitsAre
<1>3. Block \in Nat \ {0} /\ Len(hashed) \in Nat /\ used \in 0..(Block - 1) /\ fed = Len(hashed) * Block + used
  BY <1>1, <1>2, Sizes DEF Absorbed
<1>4. fed \div Block = Len(hashed) /\ fed % Block = used
  BY <1>3, Division
<1>5. QED BY <1>1, <1>2, <1>4 DEF TailInBuffer, Absorbed, MessageBlock

\* Between two updates the state has taken the whole blocks, the buffer holds the
\* rest and every bit is counted.
THEOREM TailKept == StreamSpec => []TailInBuffer
<1>1. IInv => TailInBuffer
  BY InvTail
<1>2. QED BY <1>1, StreamInvariant, PTL

\* However a message is cut into updates: between them nothing of it is lost or
\* counted wrong, and the digest is of all of it.
THEOREM MessageHashed == StreamSpec => []HashesMessage
BY TailKept, HashesPaddedMessage, PTL DEF HashesMessage
=============================================================================
