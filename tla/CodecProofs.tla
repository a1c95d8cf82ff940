---------------------------- MODULE CodecProofs ----------------------------
(***************************************************************************)
(* Proofs about the conversions of texts and bytes, for any inputs.        *)
(***************************************************************************)
EXTENDS Base64, Decoders, JsonMinify, Unicode, FiniteSetTheorems, SequenceTheorems, NaturalsInduction, WellFoundedInduction, TLAPS

-----------------------------------------------------------------------------
(* Recursion over a natural number.                                        *)

\* Every set of naturals that is not empty has a least member.
LEMMA LeastNatural ==
  ASSUME NEW T \in SUBSET Nat, T # {}
  PROVE  \E n \in T : \A m \in T : n <= m
<1> DEFINE less == {ss \in Nat \X Nat : ss[1] < ss[2]}
<1>1. less = OpToRel(<, Nat)
  BY Zenon DEF OpToRel
<1>2. \E x \in T : \A y \in T : <<y, x>> \notin OpToRel(<, Nat)
  BY NatLessThanWellFounded, WFMin, Zenon
<1>3. \E x \in T : \A y \in T : <<y, x>> \notin less
  BY <1>1, <1>2, Zenon
<1>4. \A x, y \in Nat : y < x => <<y, x>> \in less
  OBVIOUS
<1>5. \A x, y \in Nat : <<y, x>> \notin less => x <= y
  BY <1>4
<1> HIDE DEF less
<1>6. QED BY <1>3, <1>5

\* What holds for no first number holds for none: a set of naturals is empty that
\* has no least member.
LEMMA NoLeast ==
  ASSUME NEW T \in SUBSET Nat, \A n \in T : \E m \in T : m < n
  PROVE  T = {}
BY LeastNatural

\* The values that n steps from a pass through; there is such a sequence.
Steps(n, S) == [1..n -> [S -> S]]
RunsOf(n, S, a, step) == {f \in [0..n -> S] : f[0] = a /\ \A i \in 1..n : f[i] = step[i][f[i - 1]]}

\* From a, steps by given functions lead through one value after the other,
\* however many there are.
LEMMA Recursion ==
  ASSUME NEW n \in Nat, NEW S, NEW a \in S, NEW step \in Steps(n, S)
  PROVE  \E f : f \in RunsOf(n, S, a, step)
<1> DEFINE UpTo(k, f) == f \in [0..k -> S] /\ f[0] = a /\ \A i \in 1..k : f[i] = step[i][f[i - 1]]
           Bad == {k \in 0..n : ~ \E f : UpTo(k, f)}
<1>1. Bad = {}
  <2>1. ASSUME NEW k \in Bad PROVE \E m \in Bad : m < k
    <3>1. k # 0
      <4>1. UpTo(0, [i \in 0..0 |-> a])
        OBVIOUS
      <4>2. \E f : UpTo(0, f)
        <5> HIDE DEF UpTo
        <5> QED BY <4>1, Zenon
      <4>3. 0 \notin Bad
        <5> HIDE DEF UpTo
        <5> QED BY <4>2, Zenon
      <4>4. QED BY <4>3, <2>1
    <3>2. SUFFICES ASSUME k - 1 \notin Bad PROVE FALSE
      <4>1. k \in Nat
        BY <2>1
      <4> HIDE DEF Bad
      <4>2. QED BY <4>1, <3>1
    <3>3. PICK f : UpTo(k - 1, f)
      BY <3>1, <3>2, <2>1
    <3> DEFINE g == [i \in 0..k |-> IF i < k THEN f[i] ELSE step[k][f[k - 1]]]
    <3>4. g \in [0..k -> S]
      BY <3>3, <3>1, <2>1, k \in 1..n DEF Steps
    <3>5. g[0] = a /\ \A i \in 1..k : g[i] = step[i][g[i - 1]]
      BY <3>3, <3>1, <2>1
    <3>6. k \in 0..n /\ k \in Nat /\ k - 1 < k
      BY <2>1
    <3>7. UpTo(k, g)
      BY <3>4, <3>5
    <3>8. \E r : UpTo(k, r)
      <4> HIDE DEF UpTo, g
      <4> QED BY <3>7, Zenon
    <3> HIDE DEF UpTo
    <3>9. k \notin Bad
      BY <3>8, Zenon
    <3>10. QED BY <3>9, <2>1
  <2>2. Bad \in SUBSET Nat
    OBVIOUS
  <2> HIDE DEF Bad
  <2>3. QED BY <2>1, <2>2, NoLeast
<1>2. \E f : UpTo(n, f)
  BY <1>1
<1>3. QED BY <1>2 DEF RunsOf

-----------------------------------------------------------------------------
(* base64: the characters that a text keeps.                               *)

LEMMA KeptSteps ==
  ASSUME NEW t \in Texts64
  PROVE  /\ Len(t) \in Nat /\ Kept(t) \in [0..Len(t) -> Texts64] /\ Kept(t)[0] = << >>
         /\ \A n \in 1..Len(t) :
              Kept(t)[n] = IF IsTaken(t[n]) THEN Append(Kept(t)[n - 1], t[n]) ELSE Kept(t)[n - 1]
<1> DEFINE N == Len(t)
           step == [n \in 1..N |-> [s \in Texts64 |-> IF IsTaken(t[n]) THEN Append(s, t[n]) ELSE s]]
           Body(f) == [n \in 0..N |-> IF n = 0 THEN << >>
                                      ELSE IF IsTaken(t[n]) THEN Append(f[n - 1], t[n]) ELSE f[n - 1]]
           kept == CHOOSE f : f = Body(f)
<1>1. N \in Nat /\ (\A n \in 1..N : t[n] \in 0..Foreign) /\ << >> \in Texts64
  <2>1. Foreign \in Nat
    BY DEF Foreign
  <2> DEFINE S == 0..Foreign
  <2>2. t \in Seq(S)
    BY DEF Texts64
  <2> HIDE DEF S
  <2>3. N \in Nat /\ (\A n \in 1..N : t[n] \in S) /\ << >> \in Seq(S)
    BY <2>2
  <2>4. QED BY <2>3 DEF S, Texts64
<1>2. step \in Steps(N, Texts64)
  <2>1. \A n \in 1..N, s \in Texts64 : Append(s, t[n]) \in Texts64
    <3> DEFINE S == 0..Foreign
    <3>1. \A x \in S, s \in Seq(S) : Append(s, x) \in Seq(S)
      <4> HIDE DEF S
      <4> QED OBVIOUS
    <3>2. QED BY <1>1, <3>1 DEF Texts64
  <2>2. QED BY <2>1 DEF Steps
<1>3. PICK r : r \in RunsOf(N, Texts64, << >>, step)
  <2> HIDE DEF step, N
  <2> QED BY <1>1, <1>2, Recursion
<1>4. r \in [0..N -> Texts64] /\ r[0] = << >> /\ \A n \in 1..N : r[n] = step[n][r[n - 1]]
  BY <1>3, Zenon DEF RunsOf
<1>5. \A n \in 1..N : r[n] = IF IsTaken(t[n]) THEN Append(r[n - 1], t[n]) ELSE r[n - 1]
  <2>1. \A n \in 1..N : r[n - 1] \in Texts64
    <3> HIDE DEF step, N
    <3> QED BY <1>1, <1>4
  <2>2. \A n \in 1..N, s \in Texts64 : step[n][s] = IF IsTaken(t[n]) THEN Append(s, t[n]) ELSE s
    OBVIOUS
  <2> HIDE DEF step, N
  <2>3. QED BY <1>4, <2>1, <2>2
<1>6. r = Body(r)
  <2>1. \A n \in 0..N : r[n] = IF n = 0 THEN << >>
                               ELSE IF IsTaken(t[n]) THEN Append(r[n - 1], t[n]) ELSE r[n - 1]
    <3> HIDE DEF step, N
    <3>1. \A n \in 0..N : n = 0 \/ n \in 1..N
      BY <1>1
    <3>2. QED BY <3>1, <1>4, <1>5
  <2>2. r = [n \in 0..N |-> r[n]]
    BY <1>4
  <2> HIDE DEF step, N
  <2>3. QED BY <2>1, <2>2
<1>7. kept = Body(kept)
  <2> HIDE DEF Body
  <2> QED BY <1>6
<1>8. kept = r
  <2> DEFINE Bad == {n \in 0..N : kept[n] # r[n]}
  <2>0. \A n \in 0..N : kept[n] = IF n = 0 THEN << >>
                               ELSE IF IsTaken(t[n]) THEN Append(kept[n - 1], t[n]) ELSE kept[n - 1]
    <3> HIDE DEF kept
    <3> QED BY <1>7
  <2>1. kept = [n \in 0..N |-> kept[n]]
    <3> HIDE DEF kept
    <3> QED BY <1>7
  <2> HIDE DEF kept, step
  <2>2. ASSUME NEW n \in Bad PROVE \E m \in Bad : m < n
    <3>1. n \in 1..N /\ n - 1 \in 0..N /\ n - 1 < n
      BY <2>2, <2>0, <1>1, <1>4
    <3>2. kept[n - 1] # r[n - 1]
      BY <2>2, <2>0, <1>5, <3>1
    <3>3. QED BY <3>1, <3>2
  <2>3. Bad \in SUBSET Nat
    OBVIOUS
  <2>4. Bad = {}
    <3> HIDE DEF Bad
    <3> QED BY <2>2, <2>3, NoLeast
  <2>5. QED BY <2>1, <2>4, <1>4
<1>9. Kept(t) = kept
  BY DEF Kept
<1> HIDE DEF kept, step
<1>10. QED BY <1>1, <1>4, <1>5, <1>8, <1>9

\* How many characters a text keeps is how many of it are taken.
LEMMA TakenKept ==
  ASSUME NEW t \in Texts64
  PROVE  Taken(t) = Len(Clean(t))
<1> DEFINE N == Len(t)
           Set(n) == {i \in 1..n : IsTaken(t[i])}
           Bad == {n \in 0..N : ~ (IsFiniteSet(Set(n)) /\ Cardinality(Set(n)) = Len(Kept(t)[n]))}
<1>1. /\ N \in Nat /\ Kept(t) \in [0..N -> Texts64] /\ Kept(t)[0] = << >>
      /\ \A n \in 1..N : Kept(t)[n] = IF IsTaken(t[n]) THEN Append(Kept(t)[n - 1], t[n]) ELSE Kept(t)[n - 1]
  BY KeptSteps
<1>2. ASSUME NEW n \in Bad PROVE \E m \in Bad : m < n
  <2>1. n # 0
    <3>1. Set(0) = {}
      OBVIOUS
    <3> HIDE DEF Set
    <3>2. IsFiniteSet(Set(0)) /\ Cardinality(Set(0)) = 0 /\ Len(Kept(t)[0]) = 0
      BY <3>1, <1>1, FS_EmptySet
    <3>3. QED BY <1>2, <3>2
  <2>2. n \in 1..N /\ n - 1 \in 0..N /\ n - 1 < n
    BY <1>2, <2>1, <1>1
  <2>3. SUFFICES ASSUME IsFiniteSet(Set(n - 1)), Cardinality(Set(n - 1)) = Len(Kept(t)[n - 1]) PROVE FALSE
    <3> HIDE DEF Set
    <3> QED BY <2>2
  <2>4. Kept(t)[n - 1] \in Texts64
    BY <2>2, <1>1
  <2>5. CASE IsTaken(t[n])
    <3>1. Set(n) = Set(n - 1) \cup {n} /\ n \notin Set(n - 1)
      BY <2>2, <2>5
    <3> HIDE DEF Set
    <3> DEFINE S == Set(n - 1)
    <3>2. IsFiniteSet(S \cup {n}) /\ Cardinality(S \cup {n}) = Cardinality(S) + 1
      <4>1. IsFiniteSet(S) /\ n \notin S
        BY <2>3, <3>1
      <4> HIDE DEF S
      <4>2. QED BY <4>1, FS_AddElement
    <3>3. Len(Kept(t)[n]) = Len(Kept(t)[n - 1]) + 1
      <4> DEFINE a == Kept(t)[n - 1]
      <4>1. Kept(t)[n] = Append(a, t[n])
        BY <1>1, <2>2, <2>5
      <4>2. a \in Seq(0..Foreign)
        BY <2>4 DEF Texts64
      <4> HIDE DEF a
      <4>3. Len(Append(a, t[n])) = Len(a) + 1
        BY <4>2
      <4>4. QED BY <4>1, <4>3 DEF a
    <3>4. IsFiniteSet(Set(n)) /\ Cardinality(Set(n)) = Len(Kept(t)[n])
      BY <3>1, <3>2, <3>3, <2>3
    <3> HIDE DEF S
    <3>5. QED BY <3>4, <1>2
  <2>6. CASE ~ IsTaken(t[n])
    <3>1. Set(n) = Set(n - 1)
      BY <2>2, <2>6
    <3> HIDE DEF Set
    <3>2. Kept(t)[n] = Kept(t)[n - 1]
      BY <1>1, <2>2, <2>6
    <3>3. QED BY <3>1, <3>2, <2>3, <1>2
  <2>7. QED BY <2>5, <2>6
<1>3. Bad \in SUBSET Nat
  OBVIOUS
<1>4. Bad = {}
  <2> HIDE DEF Bad
  <2> QED BY <1>2, <1>3, NoLeast
<1>5. N \in 0..N
  BY <1>1
<1>6. Cardinality(Set(N)) = Len(Kept(t)[N])
  <2> HIDE DEF Set
  <2> QED BY <1>4, <1>5
<1>7. Set(N) = {i \in DOMAIN t : IsTaken(t[i])}
  BY <1>1 DEF Texts64
<1> HIDE DEF Set
<1>8. QED BY <1>6, <1>7 DEF Taken, Clean

\* A text keeps what its beginnings keep, and no foreign character.
LEMMA KeptPrefix ==
  ASSUME NEW t \in Texts64, NEW n \in 0..Len(t)
  PROVE  /\ Kept(t)[n] \in Texts64 /\ Len(Kept(t)[n]) \in Nat /\ Clean(t) \in Texts64 /\ Len(Clean(t)) \in Nat
         /\ Len(Kept(t)[n]) <= Len(Clean(t))
         /\ \A i \in 1..Len(Kept(t)[n]) : Clean(t)[i] = Kept(t)[n][i]
<1> DEFINE N == Len(t)
           Holds(m) == /\ Len(Kept(t)[m]) <= Len(Clean(t))
                       /\ \A i \in 1..Len(Kept(t)[m]) : Clean(t)[i] = Kept(t)[m][i]
           Bad == {k \in 0..N : ~ Holds(N - k)}
<1>1. /\ N \in Nat /\ Kept(t) \in [0..N -> Texts64]
      /\ \A m \in 1..N : Kept(t)[m] = IF IsTaken(t[m]) THEN Append(Kept(t)[m - 1], t[m]) ELSE Kept(t)[m - 1]
  BY KeptSteps
<1>2. \A m \in 0..N : Kept(t)[m] \in Texts64 /\ Len(Kept(t)[m]) \in Nat
  BY <1>1 DEF Texts64
<1>3. Clean(t) = Kept(t)[N] /\ N \in 0..N
  BY <1>1 DEF Clean
<1>4. ASSUME NEW k \in Bad PROVE \E m \in Bad : m < k
  <2>0. k \in 0..N /\ k \in Nat
    BY <1>4
  <2>1. k # 0
    <3>1. Holds(N)
      BY <1>2, <1>3
    <3>2. N - 0 = N
      BY <1>1
    <3> HIDE DEF Holds
    <3>3. QED BY <1>4, <3>1, <3>2
  <2>2. k - 1 \in 0..N /\ k - 1 < k /\ N - k \in 0..N /\ N - (k - 1) \in 1..N /\ (N - (k - 1)) - 1 = N - k
    BY <2>0, <2>1, <1>1
  <2>3. SUFFICES ASSUME Holds(N - (k - 1)) PROVE Holds(N - k)
    <3> HIDE DEF Holds
    <3> QED BY <2>2, <1>4
  <2> DEFINE a == Kept(t)[N - k]
             b == Kept(t)[N - (k - 1)]
  <2>4. b = IF IsTaken(t[N - (k - 1)]) THEN Append(a, t[N - (k - 1)]) ELSE a
    BY <1>1, <2>2
  <2>5. a \in Texts64 /\ Len(a) \in Nat /\ Len(Clean(t)) \in Nat
    BY <1>2, <1>3, <2>2
  <2>6. Len(a) <= Len(b) /\ Len(b) \in Nat /\ \A i \in 1..Len(a) : b[i] = a[i]
    <3> HIDE DEF a, b
    <3> QED BY <2>4, <2>5 DEF Texts64
  <2>7. Len(b) <= Len(Clean(t)) /\ \A i \in 1..Len(b) : Clean(t)[i] = b[i]
    BY <2>3
  <2> HIDE DEF a, b
  <2>8. Len(a) <= Len(Clean(t)) /\ \A i \in 1..Len(a) : Clean(t)[i] = a[i]
    BY <2>5, <2>6, <2>7
  <2>9. QED BY <2>8 DEF a
<1>5. Bad \in SUBSET Nat
  OBVIOUS
<1>6. Bad = {}
  <2> HIDE DEF Bad
  <2> QED BY <1>4, <1>5, NoLeast
<1>7. N - n \in 0..N /\ N - (N - n) = n
  BY <1>1
<1>8. Holds(n)
  <2> HIDE DEF Holds
  <2> QED BY <1>6, <1>7
<1>9. QED BY <1>2, <1>3, <1>8

\* The next character is kept, unless it is foreign.
LEMMA KeptNext ==
  ASSUME NEW t \in Texts64, NEW n \in Nat, n < Len(t)
  PROVE  LET m == Len(Kept(t)[n])
         IN  /\ t[n + 1] \in 0..Foreign
             /\ ~ IsTaken(t[n + 1]) => Kept(t)[n + 1] = Kept(t)[n]
             /\ IsTaken(t[n + 1]) => /\ Len(Kept(t)[n + 1]) = m + 1 /\ m + 1 <= Len(Clean(t))
                                     /\ Clean(t)[m + 1] = t[n + 1] /\ t[n + 1] \in 0..Pad
<1>1. /\ Len(t) \in Nat /\ n \in 0..Len(t) /\ n + 1 \in 1..Len(t) /\ n + 1 \in 0..Len(t) /\ (n + 1) - 1 = n
      /\ t[n + 1] \in 0..Foreign
  <2> DEFINE S == 0..Foreign
  <2>1. t \in Seq(S)
    BY DEF Texts64
  <2> HIDE DEF S
  <2>2. Len(t) \in Nat /\ \A i \in 1..Len(t) : t[i] \in S
    BY <2>1
  <2>3. n + 1 \in 1..Len(t)
    BY <2>2
  <2>4. QED BY <2>2, <2>3 DEF S
<1>2. Kept(t)[n + 1] = IF IsTaken(t[n + 1]) THEN Append(Kept(t)[n], t[n + 1]) ELSE Kept(t)[n]
  BY <1>1, KeptSteps
<1> DEFINE a == Kept(t)[n]
           b == Kept(t)[n + 1]
<1>3. a \in Texts64 /\ Len(a) \in Nat
  BY <1>1, KeptPrefix
<1>4. Len(b) <= Len(Clean(t)) /\ \A i \in 1..Len(b) : Clean(t)[i] = b[i]
  BY <1>1, KeptPrefix
<1>5. ASSUME IsTaken(t[n + 1])
      PROVE  Len(b) = Len(a) + 1 /\ b[Len(a) + 1] = t[n + 1] /\ t[n + 1] \in 0..Pad
  <2>1. b = Append(a, t[n + 1])
    BY <1>2, <1>5
  <2> HIDE DEF a, b
  <2>2. QED BY <2>1, <1>1, <1>3, <1>5 DEF Texts64, IsTaken, Foreign, Pad
<1>6. QED
  <2>1. ASSUME IsTaken(t[n + 1]) PROVE Len(a) + 1 <= Len(Clean(t)) /\ Clean(t)[Len(a) + 1] = t[n + 1]
    <3> HIDE DEF a, b
    <3> QED BY <2>1, <1>3, <1>4, <1>5
  <2>2. QED BY <1>1, <1>2, <1>5, <2>1

-----------------------------------------------------------------------------
(* base64: the invariant.                                                   *)

\* The k-th block of the text of the bytes d.
ByteOr0(d, i) == IF i <= Len(d) THEN d[i] ELSE 0
First(a) == a \div 4
Second(a, b) == (a % 4) * 16 + b \div 16
Third(b, c) == (b % 16) * 4 + c \div 64
Fourth(c) == c % 64
BlockOf(d, t, k) ==
  LET a == ByteOr0(d, 3 * k - 2)  b == ByteOr0(d, 3 * k - 1)  c == ByteOr0(d, 3 * k)
  IN /\ t[4 * k - 3] = First(a) /\ t[4 * k - 2] = Second(a, b)
     /\ t[4 * k - 1] = IF 3 * k - 1 <= Len(d) THEN Third(b, c) ELSE Pad
     /\ t[4 * k] = IF 3 * k <= Len(d) THEN Fourth(c) ELSE Pad
Blocks(n) == (n + 2) \div 3

Base64TypeInv ==
  /\ data \in Data \cup {NoBytes} /\ encoded \in Texts64 /\ olen \in Nat /\ at \in Nat
  /\ pad \in Nat /\ block \in Seq(0..63) /\ (out \in Bytes64 \/ out = NoBytes)
  /\ coding \in {"encode", "encoded", "count", "decode", "done", "failed"}

Encoding ==
  /\ coding = "encode" =>
       /\ data # NoBytes /\ olen = Room(Len(data))
       /\ at % 3 = 0 /\ at <= Len(data) /\ Len(encoded) = 4 * (at \div 3)
       /\ \A k \in 1..(at \div 3) : BlockOf(data, encoded, k)
  /\ coding = "encoded" => data # NoBytes /\ olen = Room(Len(data))
  /\ coding \notin {"encode", "failed"} /\ data # NoBytes =>
       /\ Len(encoded) = 4 * Blocks(Len(data))
       /\ \A k \in 1..Blocks(Len(data)) : BlockOf(data, encoded, k)

NothingDecoded == coding \in {"encode", "encoded", "count"} => pad = 0 /\ block = << >> /\ out = << >>
  /\ (coding # "encode" => at = 0)

PadIn(c, i, n) == IF i <= n THEN PadAt(c, i) ELSE 0
Decoding ==
  coding = "decode" =>
    LET c == Clean(encoded)
        m == Len(Kept(encoded)[at])
        q == m \div 4
    IN /\ c # << >> /\ Len(c) % 4 = 0 /\ olen = 3 * (Len(c) \div 4) /\ at <= Len(encoded)
       /\ Len(block) = m % 4 /\ \A j \in 1..Len(block) : block[j] = Value(c[4 * q + j])
       /\ \A k \in 1..q : PadsOf(c, k) = 0
       /\ pad = PadIn(c, 4 * q + 1, m) + PadIn(c, 4 * q + 2, m) + PadIn(c, 4 * q + 3, m)
       /\ out \in Bytes64 /\ Len(out) = 3 * q /\ \A i \in 1..Len(out) : out[i] = ByteAt(c, i)

Base64Inv == Base64TypeInv /\ Encoding /\ NothingDecoded /\ Decoding /\ DecodesItsBlocks

-----------------------------------------------------------------------------
(* base64: arithmetic.                                                      *)

Byte == 0..255
Digit == 0..63
Char == 0..Foreign

\* Three bytes in a number, and a number's bytes.
ThreeIn(a, b, c) == (a * 256 + b) * 256 + c
AreBytes(n, a, b, c) == (n \div 256) \div 256 = a /\ (n \div 256) % 256 = b /\ n % 256 = c

LEMMA BytesOfThree ==
  ASSUME NEW a \in Byte, NEW b \in Byte, NEW c \in Byte
  PROVE  AreBytes(ThreeIn(a, b, c), a, b, c)
<1> DEFINE n == ThreeIn(a, b, c)
           p == a * 256 + b
<1>1. p \in Nat /\ p = a * 256 + b /\ n = p * 256 + c
  BY DEF ThreeIn, Byte
<1> HIDE DEF p, n
<1>2. p % 256 = b /\ p \div 256 = a
  BY <1>1 DEF Byte
<1>3. n \div 256 = p /\ n % 256 = c
  BY <1>1 DEF Byte
<1>4. QED BY <1>2, <1>3 DEF n, AreBytes

\* The masks and shifts of base64_decode take the bytes of a block's number.
SameBytes(a, b, c, d, n) ==
  /\ (a * 4 + b \div 16) % 256 = (n \div 256) \div 256 /\ (b * 16 + c \div 4) % 256 = (n \div 256) % 256
  /\ (c * 64 + d) % 256 = n % 256
  /\ (a * 4 + b \div 16) % 256 \in Byte /\ (b * 16 + c \div 4) % 256 \in Byte /\ (c * 64 + d) % 256 \in Byte

LEMMA BytesOfBlock ==
  ASSUME NEW a \in Digit, NEW b \in Digit, NEW c \in Digit, NEW d \in Digit
  PROVE  SameBytes(a, b, c, d, ((a * 64 + b) * 64 + c) * 64 + d)
<1> USE DEF Digit
<1> DEFINE b1 == b \div 16
           b2 == b % 16
           c1 == c \div 4
           c2 == c % 4
           x == a * 4 + b1
           y == b2 * 16 + c1
           z == c2 * 64 + d
           n == ((a * 64 + b) * 64 + c) * 64 + d
<1>1. b1 \in 0..3 /\ b2 \in 0..15 /\ b = 16 * b1 + b2
  OBVIOUS
<1>2. c1 \in 0..15 /\ c2 \in 0..3 /\ c = 4 * c1 + c2
  OBVIOUS
<1> HIDE DEF b1, b2, c1, c2
<1>3. x \in 0..255 /\ y \in 0..255 /\ z \in 0..255
  BY <1>1, <1>2
<1>4. n = (x * 256 + y) * 256 + z /\ b * 16 + c1 = b1 * 256 + y /\ c * 64 + d = c1 * 256 + z 
  BY <1>1, <1>2
<1> HIDE DEF x, y, z, n
<1>5. x % 256 = x /\ (b1 * 256 + y) % 256 = y /\ (c1 * 256 + z) % 256 = z
  BY <1>1, <1>2, <1>3
<1>6. (n \div 256) \div 256 = x /\ (n \div 256) % 256 = y /\ n % 256 = z
  <2> DEFINE p == x * 256 + y
  <2>1. p \in Nat /\ p = x * 256 + y /\ n = p * 256 + z
    BY <1>3, <1>4
  <2> HIDE DEF p
  <2>2. p % 256 = y /\ p \div 256 = x
    BY <1>3, <2>1
  <2>3. n \div 256 = p /\ n % 256 = z
    BY <1>3, <2>1
  <2>4. QED BY <2>2, <2>3
<1>7. (a * 4 + b1) % 256 = x /\ (b * 16 + c1) % 256 = y /\ (c * 64 + d) % 256 = z
  BY <1>4, <1>5 DEF x
<1>8. QED BY <1>3, <1>6, <1>7 DEF n, b1, c1, SameBytes, Byte

LEMMA DigitsOfBytes ==
  ASSUME NEW a \in Byte, NEW b \in Byte, NEW c \in Byte
  PROVE  First(a) \in Digit /\ Second(a, b) \in Digit /\ Third(b, c) \in Digit /\ Fourth(c) \in Digit
<1>1. a \div 4 \in 0..63 /\ a % 4 \in 0..3
  BY DEF Byte
<1>2. b \div 16 \in 0..15 /\ b % 16 \in 0..15
  BY DEF Byte
<1>3. c \div 64 \in 0..3 /\ c % 64 \in 0..63
  BY DEF Byte
<1>4. QED BY <1>1, <1>2, <1>3 DEF First, Second, Third, Fourth, Digit, Byte

FourIn(v, w, x, y) == ((v * 64 + w) * 64 + x) * 64 + y

\* The masks and shifts of base64_encode spell a number of three bytes.
LEMMA BlockOfBytes ==
  ASSUME NEW a \in Byte, NEW b \in Byte, NEW c \in Byte
  PROVE  FourIn(First(a), Second(a, b), Third(b, c), Fourth(c)) = ThreeIn(a, b, c)
<1>1. a \div 4 \in 0..63 /\ a % 4 \in 0..3 /\ a = 4 * (a \div 4) + (a % 4)
  BY DEF Byte
<1>2. b \div 16 \in 0..15 /\ b % 16 \in 0..15 /\ b = 16 * (b \div 16) + (b % 16)
  BY DEF Byte
<1>3. c \div 64 \in 0..3 /\ c % 64 \in 0..63 /\ c = 64 * (c \div 64) + (c % 64)
  BY DEF Byte
<1>4. QED BY <1>1, <1>2, <1>3 DEF FourIn, ThreeIn, First, Second, Third, Fourth, Digit, Byte

LEMMA ElementsOf ==
  ASSUME NEW S, NEW s \in Seq(S)
  PROVE  Len(s) \in Nat /\ DOMAIN s = 1..Len(s) /\ \A i \in 1..Len(s) : s[i] \in S
OBVIOUS

LEMMA Concat ==
  ASSUME NEW S, NEW a \in Seq(S), NEW b \in Seq(S)
  PROVE  /\ a \o b \in Seq(S) /\ Len(a \o b) = Len(a) + Len(b) /\ Len(a) \in Nat /\ Len(b) \in Nat
         /\ \A i \in 1..Len(a) : (a \o b)[i] = a[i]
         /\ \A i \in (Len(a) + 1)..(Len(a) + Len(b)) : (a \o b)[i] = b[i - Len(a)]
OBVIOUS

-----------------------------------------------------------------------------
(* base64: encoding.                                                        *)

LEMMA BlockKept ==
  ASSUME NEW d, NEW t, NEW u, NEW m \in Nat, \A i \in 1..(4 * m) : u[i] = t[i],
         NEW k \in 1..m, BlockOf(d, t, k)
  PROVE  BlockOf(d, u, k)
<1>1. 4 * k - 3 \in 1..(4 * m) /\ 4 * k - 2 \in 1..(4 * m) /\ 4 * k - 1 \in 1..(4 * m) /\ 4 * k \in 1..(4 * m)
  OBVIOUS
<1>2. u[4 * k - 3] = t[4 * k - 3] /\ u[4 * k - 2] = t[4 * k - 2] /\ u[4 * k - 1] = t[4 * k - 1] /\ u[4 * k] = t[4 * k]
  BY <1>1
<1>3. QED BY <1>2 DEF BlockOf

\* Four characters behind a text.
IsLonger(u, t, a, b, c, d) ==
  /\ u \in Texts64 /\ Len(u) = Len(t) + 4
  /\ \A i \in 1..Len(t) : u[i] = t[i]
  /\ u[Len(t) + 1] = a /\ u[Len(t) + 2] = b /\ u[Len(t) + 3] = c /\ u[Len(t) + 4] = d

LEMMA FourMore ==
  ASSUME NEW t \in Texts64, NEW a \in Char, NEW b \in Char, NEW c \in Char, NEW d \in Char
  PROVE  IsLonger(t \o <<a, b, c, d>>, t, a, b, c, d)
<1> DEFINE S == Char
<1>1. t \in Seq(S) /\ a \in S /\ b \in S /\ c \in S /\ d \in S
  BY DEF Texts64, Char
<1> HIDE DEF S
<1> DEFINE v == <<a, b, c, d>>
<1>2. v \in Seq(S) /\ Len(v) = 4 /\ v[1] = a /\ v[2] = b /\ v[3] = c /\ v[4] = d
  BY <1>1
<1> HIDE DEF v
<1>3. t \o v \in Seq(S) /\ Len(t \o v) = Len(t) + Len(v) /\ Len(t) \in Nat
  BY <1>1, <1>2, Concat
<1>4. \A i \in 1..Len(t) : (t \o v)[i] = t[i]
  BY <1>1, <1>2, Concat
<1>5. \A i \in (Len(t) + 1)..(Len(t) + Len(v)) : (t \o v)[i] = v[i - Len(t)]
  BY <1>1, <1>2, Concat
<1> DEFINE u == t \o v
           m == Len(t)
<1>6. u[m + 1] = a /\ u[m + 2] = b /\ u[m + 3] = c /\ u[m + 4] = d
  BY <1>2, <1>3, <1>5
<1>7. QED BY <1>2, <1>3, <1>4, <1>6 DEF S, Texts64, Char, IsLonger, v

LEMMA BytesGiven ==
  ASSUME Base64TypeInv, data # NoBytes
  PROVE  data \in Bytes64 /\ Len(data) \in Nat /\ \A i \in 1..Len(data) : data[i] \in Byte
<1>1. data \in Bytes64
  BY Base64Given DEF Base64TypeInv, Base64Assumption
<1>2. QED BY <1>1, ElementsOf DEF Bytes64, Byte

\* While encoding nothing has been decoded; what is left is the block that comes.
LEMMA EncodeBlockStep ==
  ASSUME Base64Inv, EncodeBlock
  PROVE  Base64Inv'
<1> DEFINE q == at \div 3
           n == Len(data)
<1>1. /\ coding = "encode" /\ n - at >= 3 /\ at' = at + 3 /\ data' = data /\ olen' = olen /\ pad' = pad
      /\ block' = block /\ out' = out /\ coding' = coding
  BY DEF EncodeBlock, Left
<1>2. /\ data # NoBytes /\ olen = Room(n) /\ at % 3 = 0 /\ at <= n /\ at \in Nat /\ Len(encoded) = 4 * q
      /\ \A k \in 1..q : BlockOf(data, encoded, k)
  BY <1>1 DEF Base64Inv, Encoding, Base64TypeInv
<1>3. data \in Bytes64 /\ n \in Nat /\ \A i \in 1..n : data[i] \in Byte
  BY <1>2, BytesGiven DEF Base64Inv
<1>4. at = 3 * q /\ q \in Nat /\ (at + 3) \div 3 = q + 1 /\ (at + 3) % 3 = 0
  BY <1>2
<1> HIDE DEF q, n
<1> DEFINE a == data[at + 1]
           b == data[at + 2]
           c == data[at + 3]
<1>5. a \in Byte /\ b \in Byte /\ c \in Byte
  BY <1>1, <1>2, <1>3
<1>6. /\ In(0) = a /\ In(1) = b /\ In(2) = c
  <2>1. at + 1 + 0 = at + 1 /\ at + 1 + 1 = at + 2 /\ at + 1 + 2 = at + 3
    BY <1>2
  <2>2. QED BY <2>1 DEF In
<1> DEFINE w == First(a)
           x == Second(a, b)
           y == Third(b, c)
           z == Fourth(c)
           u == encoded \o <<w, x, y, z>>
<1>7. encoded' = u
  BY <1>6 DEF EncodeBlock, First, Second, Third, Fourth
<1> HIDE DEF a, b, c
<1>8. w \in Char /\ x \in Char /\ y \in Char /\ z \in Char
  <2>1. First(a) \in Digit /\ Second(a, b) \in Digit /\ Third(b, c) \in Digit /\ Fourth(c) \in Digit
    BY <1>5, DigitsOfBytes
  <2>2. QED BY <2>1 DEF Foreign, Digit, Char
<1>9. encoded \in Texts64
  BY DEF Base64Inv, Base64TypeInv
<1>10. /\ u \in Texts64 /\ Len(u) = 4 * q + 4
       /\ \A i \in 1..(4 * q) : u[i] = encoded[i]
       /\ u[4 * q + 1] = w /\ u[4 * q + 2] = x /\ u[4 * q + 3] = y /\ u[4 * q + 4] = z
  <2>1. IsLonger(encoded \o <<w, x, y, z>>, encoded, w, x, y, z)
    <3> HIDE DEF w, x, y, z
    <3> QED BY <1>8, <1>9, FourMore, Zenon
  <2> HIDE DEF w, x, y, z
  <2>2. IsLonger(u, encoded, w, x, y, z)
    BY <2>1
  <2> HIDE DEF u
  <2>3. QED BY <2>2, <1>2 DEF IsLonger
<1> HIDE DEF u
<1>11. BlockOf(data, u, q + 1)
  <2>1. 3 * (q + 1) - 2 = at + 1 /\ 3 * (q + 1) - 1 = at + 2 /\ 3 * (q + 1) = at + 3
    BY <1>4
  <2>2. 4 * (q + 1) - 3 = 4 * q + 1 /\ 4 * (q + 1) - 2 = 4 * q + 2 /\ 4 * (q + 1) - 1 = 4 * q + 3 /\ 4 * (q + 1) = 4 * q + 4
    BY <1>4
  <2>3. at + 1 <= n /\ at + 2 <= n /\ at + 3 <= n
    BY <1>1, <1>2, <1>3
  <2>4. ByteOr0(data, at + 1) = a /\ ByteOr0(data, at + 2) = b /\ ByteOr0(data, at + 3) = c
    BY <2>3 DEF ByteOr0, a, b, c, n
  <2>5. QED BY <2>1, <2>2, <2>3, <2>4, <1>10 DEF BlockOf, n
<1>12. \A k \in 1..(q + 1) : BlockOf(data, u, k)
  <2> TAKE k \in 1..(q + 1)
  <2>1. CASE k = q + 1
    BY <2>1, <1>11
  <2>2. CASE k # q + 1
    <3>1. k \in 1..q
      BY <2>2, <1>4
    <3>2. BlockOf(data, encoded, k)
      BY <3>1, <1>2
    <3>3. QED BY <3>1, <3>2, <1>4, <1>10, BlockKept
  <2>3. QED BY <2>1, <2>2
<1>13. Encoding'
  <2>1. at + 3 <= n
    BY <1>1, <1>2, <1>3
  <2>2. QED BY <1>1, <1>2, <1>4, <1>7, <1>10, <1>12, <2>1 DEF Encoding, n
<1>14. Base64TypeInv'
  BY <1>1, <1>2, <1>7, <1>10 DEF Base64Inv, Base64TypeInv
<1>15. NothingDecoded'
  BY <1>1 DEF Base64Inv, NothingDecoded
<1>16. QED BY <1>1, <1>13, <1>14, <1>15 DEF Base64Inv, Decoding, DecodesItsBlocks

LEMMA EncodeRestStep ==
  ASSUME Base64Inv, EncodeRest
  PROVE  Base64Inv'
<1> DEFINE q == at \div 3
           n == Len(data)
           r == n - at
<1>1. /\ coding = "encode" /\ r < 3 /\ at' = 0 /\ data' = data /\ olen' = olen /\ pad' = pad
      /\ block' = block /\ out' = out /\ coding' = "encoded"
  BY DEF EncodeRest, Left
<1>2. /\ data # NoBytes /\ olen = Room(n) /\ at % 3 = 0 /\ at <= n /\ at \in Nat /\ Len(encoded) = 4 * q
      /\ \A k \in 1..q : BlockOf(data, encoded, k)
  BY <1>1 DEF Base64Inv, Encoding, Base64TypeInv
<1>3. data \in Bytes64 /\ n \in Nat /\ \A i \in 1..n : data[i] \in Byte
  BY <1>2, BytesGiven DEF Base64Inv
<1>4. at = 3 * q /\ q \in Nat /\ r \in 0..2 /\ n = 3 * q + r
  BY <1>1, <1>2, <1>3
<1>5. encoded \in Texts64
  BY DEF Base64Inv, Base64TypeInv
<1>6. /\ encoded' \in Texts64 /\ Len(encoded') = 4 * Blocks(n)
      /\ \A k \in 1..Blocks(n) : BlockOf(data, encoded', k)
  <2> HIDE DEF q, n
  <2>1. CASE r = 0
    <3>0. Left = 0
      BY <2>1 DEF Left, n
    <3>1. encoded' = encoded \o << >>
      BY <3>0 DEF EncodeRest
    <3>2. encoded' = encoded
      BY <3>1, <1>5 DEF Texts64
    <3>3. Blocks(n) = q
      BY <2>1, <1>4 DEF Blocks
    <3>4. QED BY <3>2, <3>3, <1>2, <1>5
  <2>2. ASSUME r > 0, NEW a, a = data[at + 1], NEW b, b = IF r = 2 THEN data[at + 2] ELSE 0,
               NEW y \in Char, y = IF r = 2 THEN Third(b, 0) ELSE Pad,
               encoded' = encoded \o <<First(a), Second(a, b), y, Pad>>
        PROVE  /\ encoded' \in Texts64 /\ Len(encoded') = 4 * Blocks(n)
               /\ \A k \in 1..Blocks(n) : BlockOf(data, encoded', k)
    <3> DEFINE w == First(a)
               x == Second(a, b)
               u == encoded \o <<w, x, y, Pad>>
    <3>1. a \in Byte /\ b \in Byte
      BY <2>2, <1>3, <1>4 DEF Byte
    <3>2. encoded' = u /\ y = IF r = 2 THEN Third(b, 0) ELSE Pad
      BY <2>2
    <3>3. ByteOr0(data, at + 1) = a /\ ByteOr0(data, at + 2) = b /\ ByteOr0(data, at + 3) = 0
      <4>1. at + 1 <= n /\ (at + 2 <= n <=> r = 2) /\ ~ at + 3 <= n
        BY <2>2, <1>4
      <4>2. QED BY <4>1, <2>2 DEF ByteOr0, n
    <3>4. w \in Char /\ x \in Char /\ Pad \in Char
      <4>1. First(a) \in Digit /\ Second(a, b) \in Digit
        BY <3>1, DigitsOfBytes
      <4>2. QED BY <4>1 DEF Foreign, Pad, Digit, Char
    <3>5. /\ u \in Texts64 /\ Len(u) = 4 * q + 4
          /\ \A i \in 1..(4 * q) : u[i] = encoded[i]
          /\ u[4 * q + 1] = w /\ u[4 * q + 2] = x /\ u[4 * q + 3] = y /\ u[4 * q + 4] = Pad
      <4>1. y \in Char
        BY <2>2
      <4> HIDE DEF w, x
      <4>2. IsLonger(u, encoded, w, x, y, Pad)
        BY <1>5, <3>4, <4>1, FourMore, Zenon
      <4> HIDE DEF u
      <4>3. QED BY <4>2, <1>2 DEF IsLonger
    <3> HIDE DEF u
    <3>6. Blocks(n) = q + 1
      BY <2>2, <1>4 DEF Blocks
    <3>7. BlockOf(data, u, q + 1)
      <4>1. 3 * (q + 1) - 2 = at + 1 /\ 3 * (q + 1) - 1 = at + 2 /\ 3 * (q + 1) = at + 3
        BY <1>4
      <4>2. 4 * (q + 1) - 3 = 4 * q + 1 /\ 4 * (q + 1) - 2 = 4 * q + 2 /\ 4 * (q + 1) - 1 = 4 * q + 3 /\ 4 * (q + 1) = 4 * q + 4
        BY <1>4
      <4>3. (at + 2 <= n <=> r = 2) /\ ~ at + 3 <= n
        BY <1>4
      <4>4. y = IF at + 2 <= n THEN Third(b, 0) ELSE Pad
        BY <4>3, <3>2
      <4>5. QED BY <4>1, <4>2, <4>3, <4>4, <3>3, <3>5 DEF BlockOf, n
    <3>8. \A k \in 1..(q + 1) : BlockOf(data, u, k)
      <4> TAKE k \in 1..(q + 1)
      <4>1. CASE k = q + 1
        BY <4>1, <3>7
      <4>2. CASE k # q + 1
        <5>1. k \in 1..q
          BY <4>2, <1>4
        <5>2. BlockOf(data, encoded, k)
          BY <5>1, <1>2
        <5>3. QED BY <5>1, <5>2, <1>4, <3>5, BlockKept
      <4>3. QED BY <4>1, <4>2
    <3>9. QED BY <3>2, <3>5, <3>6, <3>8, <1>4
  <2>3. In(0) = data[at + 1] /\ In(1) = data[at + 2]
    <3>1. at + 1 + 0 = at + 1 /\ at + 1 + 1 = at + 2
      BY <1>2
    <3>2. QED BY <3>1 DEF In
  <2>4. CASE r = 1
    <3> DEFINE a == data[at + 1]
    <3>1. Left = 1
      BY <2>4 DEF Left, n
    <3>2. encoded' = encoded \o <<a \div 4, (a % 4) * 16, Pad, Pad>>
      BY <2>3, <3>1 DEF EncodeRest
    <3>3. a \in Byte
      BY <2>4, <1>3, <1>4
    <3> HIDE DEF a
    <3>4. a \div 4 = First(a) /\ (a % 4) * 16 = Second(a, 0)
      BY <3>3 DEF First, Second, Byte
    <3>5. Pad \in Char
      BY DEF Pad, Foreign, Char
    <3>6. encoded' = encoded \o <<First(a), Second(a, 0), Pad, Pad>>
      BY <3>2, <3>4
    <3>7. a = data[at + 1] /\ r > 0 /\ r # 2
      BY <2>4 DEF a
    <3>8. QED BY <2>2, <3>5, <3>6, <3>7
  <2>5. CASE r = 2
    <3> DEFINE a == data[at + 1]
               b == data[at + 2]
    <3>1. Left = 2
      BY <2>5 DEF Left, n
    <3>2. encoded' = encoded \o <<a \div 4, (a % 4) * 16 + b \div 16, (b % 16) * 4, Pad>>
      <4>1. Left # 0 /\ Left # 1
        BY <3>1
      <4>2. QED BY <2>3, <3>1, <4>1 DEF EncodeRest
    <3>3. b \in Byte
      BY <2>5, <1>3, <1>4
    <3> HIDE DEF a, b
    <3>4. (b % 16) * 4 = Third(b, 0) /\ Third(b, 0) \in Char
      <4>1. 0 \in Byte
        BY DEF Byte
      <4>2. (b % 16) * 4 = Third(b, 0)
        BY <3>3 DEF Third, Byte
      <4>3. Third(b, 0) \in Digit
        BY <3>3, <4>1, DigitsOfBytes
      <4>4. QED BY <4>2, <4>3 DEF Foreign, Digit, Char
    <3>5. encoded' = encoded \o <<First(a), Second(a, b), Third(b, 0), Pad>>
      BY <3>2, <3>4 DEF First, Second
    <3>6. a = data[at + 1] /\ b = data[at + 2] /\ r > 0
      BY <2>5 DEF a, b
    <3>7. QED BY <2>2, <2>5, <3>4, <3>5, <3>6
  <2>6. QED BY <2>1, <2>4, <2>5, <1>4
<1>7. Encoding'
  BY <1>1, <1>2, <1>6 DEF Encoding
<1>8. Base64TypeInv'
  BY <1>1, <1>6 DEF Base64Inv, Base64TypeInv
<1>9. NothingDecoded'
  BY <1>1 DEF Base64Inv, NothingDecoded
<1>10. QED BY <1>1, <1>7, <1>8, <1>9 DEF Base64Inv, Decoding, DecodesItsBlocks

LEMMA EncodeNothingStep ==
  ASSUME Base64Inv, EncodeNothing
  PROVE  Base64Inv'
BY DEF EncodeNothing, Base64Inv, Base64TypeInv, Encoding, NothingDecoded, Decoding, DecodesItsBlocks

LEMMA ResumeStep ==
  ASSUME Base64Inv, Resume
  PROVE  Base64Inv'
BY DEF Resume, Base64Inv, Base64TypeInv, Encoding, NothingDecoded, Decoding, DecodesItsBlocks

-----------------------------------------------------------------------------
(* base64: decoding.                                                        *)

\* What a text is counted to hold, and the text it then decodes.
LEMMA CountStep ==
  ASSUME Base64Inv, Count
  PROVE  Base64Inv'
<1> DEFINE c == Clean(encoded)
<1>1. encoded \in Texts64 /\ coding = "count" /\ pad = 0 /\ block = << >> /\ out = << >> /\ at = 0
  BY DEF Count, Base64Inv, Base64TypeInv, NothingDecoded
<1>2. Kept(encoded)[0] = << >> /\ Len(encoded) \in Nat
  BY <1>1, KeptSteps
<1>3. c \in Texts64 /\ Len(c) \in Nat /\ Taken(encoded) = Len(c)
  <2>1. 0 \in 0..Len(encoded)
    BY <1>2
  <2>2. QED BY <1>1, <2>1, KeptPrefix, TakenKept
<1>4. Len(c) = 0 <=> c = << >>
  BY <1>3 DEF Texts64
<1> HIDE DEF c
<1>5. CASE Refuse
  <2>1. Taken(encoded) = 0 \/ Taken(encoded) % 4 # 0
    BY <1>5, <1>1 DEF Count, Refuse
  <2>2. c = << >> \/ Len(c) % 4 # 0
    BY <2>1, <1>3, <1>4
  <2>3. DecodesItsBlocks'
    BY <1>5, <2>2 DEF Refuse, DecodesItsBlocks, c
  <2>4. QED
    BY <1>5, <1>1, <2>3 DEF Refuse, Base64Inv, Base64TypeInv, Encoding, NothingDecoded, Decoding
<1>6. CASE coding' = "failed" /\ UNCHANGED <<data, encoded, olen, at, pad, block, out>>
  BY <1>6, <1>1 DEF Base64Inv, Base64TypeInv, Encoding, NothingDecoded, Decoding, DecodesItsBlocks
<1>7. CASE /\ ~ (Taken(encoded) = 0 \/ Taken(encoded) % 4 # 0) /\ olen' = (Taken(encoded) \div 4) * 3
           /\ coding' = "decode" /\ UNCHANGED <<data, encoded, at, pad, block, out>>
  <2>1. c # << >> /\ Len(c) % 4 = 0 /\ olen' = 3 * (Len(c) \div 4) /\ olen' \in Nat
    BY <1>3, <1>4, <1>7
  <2>2. Len(Kept(encoded)[at]) = 0 /\ at <= Len(encoded)
    BY <1>1, <1>2
  <2>3. Decoding'
    <3>1. c' = c
      BY <1>7 DEF c
    <3>2. out \in Bytes64 /\ Len(out) = 0 /\ Len(block) = 0
      BY <1>1 DEF Bytes64
    <3>3. \A i \in 1..2 : 4 * 0 + i > 0
      OBVIOUS
    <3>4. \A i : PadIn(c, 4 * 0 + 1, 0) = 0 /\ PadIn(c, 4 * 0 + 2, 0) = 0 /\ PadIn(c, 4 * 0 + 3, 0) = 0
      BY DEF PadIn
    <3>5. QED BY <1>1, <1>7, <2>1, <2>2, <3>1, <3>2, <3>4 DEF Decoding, c
  <2>4. Base64TypeInv' /\ Encoding' /\ NothingDecoded' /\ DecodesItsBlocks'
    BY <1>7, <1>1, <2>1 DEF Base64Inv, Base64TypeInv, Encoding, NothingDecoded, DecodesItsBlocks
  <2>5. QED BY <2>3, <2>4 DEF Base64Inv
<1>8. QED BY <1>5, <1>6, <1>7 DEF Count

\* Four digits make the three bytes that the text has at their place.
LEMMA BytesOfText ==
  ASSUME NEW c, NEW q \in Nat, NEW b, NEW v, NEW w, NEW x, NEW y, b = <<v, w, x, y>>,
         v \in Digit, w \in Digit, x \in Digit, y \in Digit,
         v = Value(c[4 * q + 1]), w = Value(c[4 * q + 2]), x = Value(c[4 * q + 3]), y = Value(c[4 * q + 4])
  PROVE  /\ ThreeBytes(b) \in Bytes64 /\ Len(ThreeBytes(b)) = 3
         /\ \A i \in 1..3 : ThreeBytes(b)[i] = ByteAt(c, 3 * q + i)
<1> DEFINE k == q + 1
           n == ((v * 64 + w) * 64 + x) * 64 + y
<1>1. 4 * k - 3 = 4 * q + 1 /\ 4 * k - 2 = 4 * q + 2 /\ 4 * k - 1 = 4 * q + 3 /\ 4 * k = 4 * q + 4
  OBVIOUS
<1>2. NumberOf(c, k) = n
  BY <1>1 DEF NumberOf
<1>3. (3 * q + 1 + 2) \div 3 = k /\ (3 * q + 2 + 2) \div 3 = k /\ (3 * q + 3 + 2) \div 3 = k
  OBVIOUS
<1>4. (3 * q + 1) % 3 = 1 /\ (3 * q + 2) % 3 = 2 /\ (3 * q + 3) % 3 = 0
  OBVIOUS
<1>5. SameBytes(v, w, x, y, n)
  BY BytesOfBlock, Zenon
<1> DEFINE r1 == (v * 4 + w \div 16) % 256
           r2 == (w * 16 + x \div 4) % 256
           r3 == (x * 64 + y) % 256
<1>6. ThreeBytes(b) = <<r1, r2, r3>>
  <2>1. b[1] = v /\ b[2] = w /\ b[3] = x /\ b[4] = y
    OBVIOUS
  <2>2. QED BY <2>1 DEF ThreeBytes
<1> HIDE DEF n, k
<1>7. ByteAt(c, 3 * q + 1) = r1
  BY <1>2, <1>3, <1>4, <1>5 DEF ByteAt, SameBytes
<1>8. ByteAt(c, 3 * q + 2) = r2
  BY <1>2, <1>3, <1>4, <1>5 DEF ByteAt, SameBytes
<1>9. ByteAt(c, 3 * q + 3) = r3
  BY <1>2, <1>3, <1>4, <1>5 DEF ByteAt, SameBytes
<1>10. r1 \in Byte /\ r2 \in Byte /\ r3 \in Byte
  BY <1>5 DEF SameBytes
<1> HIDE DEF r1, r2, r3
<1> DEFINE t == <<r1, r2, r3>>
<1>11. t \in Seq(Byte) /\ Len(t) = 3 /\ t[1] = r1 /\ t[2] = r2 /\ t[3] = r3
  BY <1>10
<1> HIDE DEF t
<1>12. \A i \in 1..3 : t[i] = ByteAt(c, 3 * q + i)
  <2>1. \A i \in 1..3 : i = 1 \/ i = 2 \/ i = 3
    OBVIOUS
  <2>2. QED BY <2>1, <1>7, <1>8, <1>9, <1>11
<1>13. ThreeBytes(b) = t
  BY <1>6 DEF t
<1>14. QED BY <1>11, <1>12, <1>13 DEF Bytes64, Byte

\* The first block with padding is the one the text ends at.
LEMMA LastPadded ==
  ASSUME NEW c, NEW whole \in Nat, NEW k \in 1..whole, PadsOf(c, k) > 0,
         \A j \in 1..whole : PadsOf(c, j) > 0 => k <= j
  PROVE  LET padded == {p \in 1..whole : PadsOf(c, p) > 0}
         IN  padded # {} /\ (CHOOSE p \in padded : \A j \in padded : p <= j) = k
<1> DEFINE padded == {p \in 1..whole : PadsOf(c, p) > 0}
<1>1. k \in padded /\ (\A j \in padded : k <= j) /\ \A p \in padded : p \in Nat
  OBVIOUS
<1> HIDE DEF padded
<1>2. (CHOOSE p \in padded : \A j \in padded : p <= j) = k
  <2> DEFINE l == CHOOSE p \in padded : \A j \in padded : p <= j
  <2>1. l \in padded /\ \A j \in padded : l <= j
    BY <1>1
  <2> HIDE DEF l
  <2>2. l = k
    BY <1>1, <2>1
  <2>3. QED BY <2>2 DEF l
<1>3. QED BY <1>1, <1>2 DEF padded

LEMMA DecodeEndStep ==
  ASSUME Base64Inv, DecodeEnd
  PROVE  Base64Inv'
<1> DEFINE c == Clean(encoded)
           q == Len(c) \div 4
<1>1. /\ coding = "decode" /\ at = Len(encoded) /\ coding' = "done" /\ encoded \in Texts64
      /\ UNCHANGED <<data, encoded, olen, at, pad, block, out>>
  BY DEF DecodeEnd, Base64Inv, Base64TypeInv
<1>2. Kept(encoded)[at] = c
  BY <1>1 DEF Clean
<1>3. /\ c # << >> /\ Len(c) % 4 = 0 /\ out \in Bytes64 /\ Len(out) = 3 * q
      /\ \A k \in 1..q : PadsOf(c, k) = 0
      /\ \A i \in 1..Len(out) : out[i] = ByteAt(c, i)
  BY <1>1, <1>2 DEF Base64Inv, Decoding
<1>4. c \in Texts64 /\ Len(c) \in Nat
  <2>1. Len(encoded) \in 0..Len(encoded)
    BY <1>1, KeptSteps
  <2>2. QED BY <1>1, <2>1, KeptPrefix
<1>5. q \in Nat /\ q > 0
  <2>1. Len(c) > 0
    BY <1>3, <1>4 DEF Texts64
  <2> HIDE DEF c
  <2>2. QED BY <2>1, <1>3, <1>4
<1>6. DOMAIN out = 1..Len(out)
  BY <1>3, ElementsOf DEF Bytes64
<1> HIDE DEF c, q
<1>7. out = [i \in 1..(3 * q - PadsOf(c, q)) |-> ByteAt(c, i)]
  <2>1. PadsOf(c, q) = 0
    BY <1>3, <1>5
  <2>2. 3 * q - 0 = 3 * q
    BY <1>5
  <2>3. out = [i \in DOMAIN out |-> out[i]]
    BY <1>3 DEF Bytes64
  <2>4. QED BY <2>1, <2>2, <2>3, <1>3, <1>6
<1>8. {k \in 1..q : PadsOf(c, k) > 0} = {} /\ ~ PadsOf(c, q) > 2
  BY <1>3, <1>5
<1>9. DecodesItsBlocks'
  <2>1. c' = c /\ out' = out
    BY <1>1 DEF c
  <2>2. QED BY <2>1, <1>3, <1>7, <1>8 DEF DecodesItsBlocks, c, q
<1>10. QED BY <1>1, <1>9 DEF Base64Inv, Base64TypeInv, Encoding, NothingDecoded, Decoding

\* What decoding has done, given the place in the text without foreign characters.
Decoded(c, m, q) ==
  /\ c # << >> /\ Len(c) % 4 = 0 /\ olen = 3 * (Len(c) \div 4)
  /\ Len(block) = m % 4
  /\ \A j \in 1..Len(block) : block[j] = Value(c[4 * q + j])
  /\ \A k \in 1..q : PadsOf(c, k) = 0
  /\ pad = PadIn(c, 4 * q + 1, m) + PadIn(c, 4 * q + 2, m) + PadIn(c, 4 * q + 3, m)
  /\ out \in Bytes64 /\ Len(out) = 3 * q
  /\ \A i \in 1..Len(out) : out[i] = ByteAt(c, i)

\* Zero, one, two or three characters of a block are taken.
LEMMA PadsSoFar ==
  ASSUME NEW c, NEW q \in Nat
  PROVE  \A r \in 0..3 :
           PadIn(c, 4 * q + 1, 4 * q + r) + PadIn(c, 4 * q + 2, 4 * q + r) + PadIn(c, 4 * q + 3, 4 * q + r)
             = (IF r >= 1 THEN PadAt(c, 4 * q + 1) ELSE 0) + (IF r >= 2 THEN PadAt(c, 4 * q + 2) ELSE 0)
               + (IF r >= 3 THEN PadAt(c, 4 * q + 3) ELSE 0)
BY DEF PadIn

LEMMA DecodeNextStep ==
  ASSUME Base64Inv, DecodeNext
  PROVE  Base64Inv'
<1> DEFINE c == Clean(encoded)
           m == Len(Kept(encoded)[at])
           q == m \div 4
           r == m % 4
           x == encoded[at + 1]
           n == pad + (IF x = Pad THEN 1 ELSE 0)
           full == Append(block, Value(x))
<1>1. /\ coding = "decode" /\ at \in Nat /\ at < Len(encoded) /\ at' = at + 1 /\ encoded \in Texts64
      /\ UNCHANGED <<data, encoded, olen>> /\ pad \in Nat /\ block \in Seq(Digit)
  BY DEF DecodeNext, Base64Inv, Base64TypeInv, Digit
<1>2. /\ Decoded(c, m, q) /\ at <= Len(encoded)
  BY <1>1 DEF Base64Inv, Decoding, Decoded
<1>3. Len(encoded) \in Nat /\ at \in 0..Len(encoded) /\ at + 1 \in 0..Len(encoded) /\ at + 1 <= Len(encoded)
  <2>1. Len(encoded) \in Nat
    BY <1>1, KeptSteps
  <2>2. QED BY <2>1, <1>1
<1>4. m \in Nat /\ c \in Texts64 /\ Len(c) \in Nat /\ m <= Len(c)
  BY <1>1, <1>3, KeptPrefix
<1>5. /\ ~ IsTaken(x) => Kept(encoded)[at + 1] = Kept(encoded)[at]
      /\ IsTaken(x) => /\ Len(Kept(encoded)[at + 1]) = m + 1 /\ m + 1 <= Len(c)
                       /\ c[m + 1] = x /\ x \in 0..Pad
  BY <1>1, KeptNext
<1>6. q \in Nat /\ r \in 0..3 /\ m = 4 * q + r
  <2> HIDE DEF m
  <2> QED BY <1>4
<1>7. \/ ~ IsTaken(x) /\ UNCHANGED <<pad, block, out, coding>>
      \/ IsTaken(x) /\ Len(block) < 3 /\ pad' = n /\ block' = full /\ UNCHANGED <<out, coding>>
      \/ /\ IsTaken(x) /\ Len(block) = 3 /\ pad' = n /\ block' = << >>
         /\ coding' = (IF n > 0 THEN "done" ELSE coding)
         /\ out' = IF n > 2 THEN NoBytes ELSE SubSeq(out \o ThreeBytes(full), 1, Len(out) + 3 - Drop(n))
  BY DEF DecodeNext
<1> HIDE DEF m, q, r, x, n, full, c
<1>8. IsTaken(x) => n = pad + PadAt(c, m + 1) /\ Value(x) = Value(c[m + 1]) /\ Value(x) \in Digit
  BY <1>5 DEF PadAt, n, Value, Digit, Pad
<1>9. Encoding' /\ NothingDecoded'
  <2>1. coding' \in {"decode", "done"}
    BY <1>1, <1>7
  <2>2. QED BY <1>1, <2>1 DEF Base64Inv, Encoding, NothingDecoded
<1>10. CASE ~ IsTaken(x) /\ UNCHANGED <<pad, block, out, coding>>
  <2>1. Len(Kept(encoded)[at + 1]) = m
    BY <1>5, <1>10 DEF m
  <2>2. Decoding'
    BY <1>1, <1>2, <1>3, <1>10, <2>1 DEF Decoding, Decoded, c, q
  <2>3. QED BY <1>1, <1>9, <1>10, <2>2 DEF Base64Inv, Base64TypeInv, DecodesItsBlocks
<1>11. ASSUME IsTaken(x)
       PROVE  /\ full \in Seq(Digit) /\ Len(full) = r + 1 /\ n \in Nat
              /\ \A j \in 1..(r + 1) : full[j] = Value(c[4 * q + j])
  <2> DEFINE y == Value(x)
  <2>1. y \in Digit /\ y = Value(c[4 * q + (r + 1)])
    BY <1>4, <1>6, <1>8, <1>11
  <2>2. block \in Seq(Digit) /\ Len(block) = r /\ \A j \in 1..r : block[j] = Value(c[4 * q + j])
    BY <1>1, <1>2 DEF Decoded, r
  <2>3. full = Append(block, y)
    BY DEF full
  <2> HIDE DEF y
  <2>4. /\ Append(block, y) \in Seq(Digit) /\ Len(Append(block, y)) = r + 1 /\ Append(block, y)[r + 1] = y
    BY <2>1, <2>2
  <2>5. \A j \in 1..r : Append(block, y)[j] = block[j]
    BY <2>1, <2>2
  <2>6. \A j \in 1..(r + 1) : j \in 1..r \/ j = r + 1
    BY <1>6
  <2>7. n \in Nat
    BY <1>1 DEF n
  <2>8. QED BY <2>1, <2>2, <2>3, <2>4, <2>5, <2>6, <2>7
<1>12. CASE IsTaken(x) /\ Len(block) < 3 /\ pad' = n /\ block' = full /\ UNCHANGED <<out, coding>>
  <2>1. r < 3 /\ Len(Kept(encoded)[at + 1]) = m + 1
    BY <1>2, <1>5, <1>12 DEF Decoded, r
  <2>2. (m + 1) \div 4 = q /\ (m + 1) % 4 = r + 1 /\ m + 1 = 4 * q + (r + 1) /\ r + 1 \in 0..3
    BY <1>6, <2>1
  <2>3. n = PadIn(c, 4 * q + 1, m + 1) + PadIn(c, 4 * q + 2, m + 1) + PadIn(c, 4 * q + 3, m + 1)
    <3> DEFINE p1 == PadAt(c, 4 * q + 1)
               p2 == PadAt(c, 4 * q + 2)
               p3 == PadAt(c, 4 * q + 3)
               sum(l) == (IF l >= 1 THEN p1 ELSE 0) + (IF l >= 2 THEN p2 ELSE 0) + (IF l >= 3 THEN p3 ELSE 0)
    <3>1. p1 \in 0..1 /\ p2 \in 0..1 /\ p3 \in 0..1
      BY DEF PadAt
    <3>2. pad = PadIn(c, 4 * q + 1, 4 * q + r) + PadIn(c, 4 * q + 2, 4 * q + r) + PadIn(c, 4 * q + 3, 4 * q + r)
      BY <1>2, <1>6 DEF Decoded
    <3>3. pad = sum(r)
      BY <3>2, <1>6, PadsSoFar
    <3>4. PadIn(c, 4 * q + 1, 4 * q + (r + 1)) + PadIn(c, 4 * q + 2, 4 * q + (r + 1))
            + PadIn(c, 4 * q + 3, 4 * q + (r + 1)) = sum(r + 1)
      BY <1>6, <2>2, PadsSoFar
    <3>5. r = 0 \/ r = 1 \/ r = 2
      BY <1>6, <2>1
    <3>6. n = pad + PadAt(c, 4 * q + (r + 1))
      BY <1>8, <1>12, <2>2
    <3>7. n = sum(r + 1)
      <4>1. CASE r = 0
        <5>1. n = pad + p1
          BY <4>1, <3>6
        <5> HIDE DEF p1, p2, p3
        <5>2. QED BY <5>1, <4>1, <3>1, <3>3
      <4>2. CASE r = 1
        <5>1. n = pad + p2
          BY <4>2, <3>6
        <5> HIDE DEF p1, p2, p3
        <5>2. QED BY <5>1, <4>2, <3>1, <3>3
      <4>3. CASE r = 2
        <5>1. n = pad + p3
          BY <4>3, <3>6
        <5> HIDE DEF p1, p2, p3
        <5>2. QED BY <5>1, <4>3, <3>1, <3>3
      <4>4. QED BY <3>5, <4>1, <4>2, <4>3
    <3>8. QED BY <3>4, <3>7, <2>2
  <2>4. Decoding'
    <3>1. c' = c /\ at + 1 <= Len(encoded)
      BY <1>1, <1>3 DEF c
    <3> DEFINE mm == m + 1
    <3>2. Len(full) = mm % 4 /\ mm \div 4 = q /\ \A j \in 1..Len(full) : full[j] = Value(c[4 * q + j])
      BY <1>11, <1>12, <2>2
    <3>3. n = PadIn(c, 4 * q + 1, mm) + PadIn(c, 4 * q + 2, mm) + PadIn(c, 4 * q + 3, mm)
      BY <2>3
    <3>4. Len(Kept(encoded)[at + 1]) = mm
      BY <2>1
    <3> HIDE DEF mm
    <3>5. QED BY <1>1, <1>2, <1>12, <3>1, <3>2, <3>3, <3>4 DEF Decoding, Decoded, c
  <2>5. QED BY <1>1, <1>9, <1>11, <1>12, <2>4 DEF Base64Inv, Base64TypeInv, DecodesItsBlocks, Digit
<1>13. CASE /\ IsTaken(x) /\ Len(block) = 3 /\ pad' = n /\ block' = << >>
            /\ coding' = (IF n > 0 THEN "done" ELSE coding)
            /\ out' = IF n > 2 THEN NoBytes ELSE SubSeq(out \o ThreeBytes(full), 1, Len(out) + 3 - Drop(n))
  <2>1. r = 3 /\ Len(Kept(encoded)[at + 1]) = m + 1 /\ m + 1 <= Len(c)
    BY <1>2, <1>5, <1>13 DEF Decoded, r
  <2>2. m + 1 = 4 * q + 4 /\ (m + 1) \div 4 = q + 1 /\ (m + 1) % 4 = 0
    BY <1>6, <2>1
  <2>3. n = PadsOf(c, q + 1)
    <3> DEFINE p1 == PadAt(c, 4 * q + 1)
               p2 == PadAt(c, 4 * q + 2)
               p3 == PadAt(c, 4 * q + 3)
               p4 == PadAt(c, 4 * q + 4)
    <3>1. p1 \in 0..1 /\ p2 \in 0..1 /\ p3 \in 0..1 /\ p4 \in 0..1
      BY DEF PadAt
    <3>2. pad = p1 + p2 + p3
      <4>1. 4 * q + 1 <= m /\ 4 * q + 2 <= m /\ 4 * q + 3 <= m
        BY <1>6, <2>1
      <4>2. QED BY <4>1, <1>2 DEF Decoded, PadIn
    <3>3. n = pad + p4
      BY <1>8, <1>13, <2>2
    <3>4. 4 * (q + 1) - 3 = 4 * q + 1 /\ 4 * (q + 1) - 2 = 4 * q + 2 /\ 4 * (q + 1) - 1 = 4 * q + 3 /\ 4 * (q + 1) = 4 * q + 4
      BY <1>6
    <3>5. PadsOf(c, q + 1) = p1 + p2 + p3 + p4
      BY <3>4 DEF PadsOf
    <3> HIDE DEF p1, p2, p3, p4
    <3>6. QED BY <3>1, <3>2, <3>3, <3>5
  <2> DEFINE b == ThreeBytes(full)
             o == out \o b
  <2>4. b \in Bytes64 /\ Len(b) = 3 /\ \A i \in 1..3 : b[i] = ByteAt(c, 3 * q + i)
    <3>1. full \in Seq(Digit) /\ Len(full) = 4 /\ \A j \in 1..4 : full[j] = Value(c[4 * q + j])
      BY <1>11, <1>13, <2>1
    <3>2. 1 \in 1..4 /\ 2 \in 1..4 /\ 3 \in 1..4 /\ 4 \in 1..4
      OBVIOUS
    <3>3. /\ full[1] = Value(c[4 * q + 1]) /\ full[2] = Value(c[4 * q + 2])
          /\ full[3] = Value(c[4 * q + 3]) /\ full[4] = Value(c[4 * q + 4])
      BY <3>1, <3>2
    <3>4. full[1] \in Digit /\ full[2] \in Digit /\ full[3] \in Digit /\ full[4] \in Digit
      <4>1. \A j \in 1..Len(full) : full[j] \in Digit
        BY <3>1, ElementsOf
      <4>2. QED BY <3>1, <3>2, <4>1
    <3>5. full = <<full[1], full[2], full[3], full[4]>>
      BY <3>1
    <3>6. QED BY <1>6, <3>3, <3>4, <3>5, BytesOfText
  <2>5. out \in Bytes64 /\ Len(out) = 3 * q /\ \A i \in 1..Len(out) : out[i] = ByteAt(c, i)
    BY <1>2 DEF Decoded
  <2> HIDE DEF b
  <2>6. o \in Bytes64 /\ Len(o) = 3 * q + 3 /\ \A i \in 1..(3 * q + 3) : o[i] = ByteAt(c, i)
    <3>1. o \in Bytes64 /\ Len(o) = Len(out) + Len(b)
      BY <2>4, <2>5, Concat DEF Bytes64
    <3>2. \A i \in 1..Len(out) : o[i] = out[i]
      BY <2>4, <2>5, Concat DEF Bytes64
    <3>3. \A i \in (Len(out) + 1)..(Len(out) + Len(b)) : o[i] = b[i - Len(out)]
      BY <2>4, <2>5, Concat DEF Bytes64
    <3> HIDE DEF o
    <3>4. ASSUME NEW i \in 1..(3 * q + 3) PROVE o[i] = ByteAt(c, i)
      <4>1. CASE i <= 3 * q
        BY <4>1, <2>5, <3>2, <1>6
      <4>2. CASE i > 3 * q
        <5>1. i - 3 * q \in 1..3 /\ 3 * q + (i - 3 * q) = i /\ i \in (Len(out) + 1)..(Len(out) + Len(b))
          BY <4>2, <1>6, <2>4, <2>5
        <5>2. o[i] = b[i - 3 * q]
          BY <5>1, <3>3, <2>5
        <5>3. b[i - 3 * q] = ByteAt(c, 3 * q + (i - 3 * q))
          BY <5>1, <2>4
        <5>4. QED BY <5>1, <5>2, <5>3
      <4>3. QED BY <4>1, <4>2, <1>6
    <3>5. QED BY <3>1, <3>4, <2>4, <2>5
  <2>7. ASSUME NEW l \in 0..(3 * q + 3)
        PROVE  SubSeq(o, 1, l) \in Bytes64 /\ Len(SubSeq(o, 1, l)) = l /\ SubSeq(o, 1, l) = [i \in 1..l |-> ByteAt(c, i)]
    <3> DEFINE S == 0..255
    <3>1. o \in Seq(S) /\ l <= Len(o) /\ l \in Nat
      BY <2>6, <1>6 DEF Bytes64
    <3> HIDE DEF S, o
    <3>2. SubSeq(o, 1, l) \in Seq(S) /\ Len(SubSeq(o, 1, l)) = l
      BY <3>1
    <3>3. SubSeq(o, 1, l) = [i \in 1..l |-> o[i]]
      BY <3>1, <3>2
    <3>4. \A i \in 1..l : i \in 1..(3 * q + 3)
      BY <1>6
    <3>5. QED BY <2>6, <3>2, <3>3, <3>4 DEF S, Bytes64
  <2> HIDE DEF o
  <2>8. out' = IF n > 2 THEN NoBytes ELSE SubSeq(o, 1, (3 * q + 3) - n)
    <3>1. Len(out) + 3 - Drop(n) = (3 * q + 3) - n
      BY <2>5, <1>6, <1>11, <1>13 DEF Drop
    <3>2. out' = IF n > 2 THEN NoBytes ELSE SubSeq(o, 1, Len(out) + 3 - Drop(n))
      BY <1>13 DEF o, b
    <3>3. QED BY <3>1, <3>2
  <2>9. n \in Nat
    BY <1>11, <1>13
  <2>10. out' \in Bytes64 \/ out' = NoBytes
    <3>1. ASSUME ~ n > 2 PROVE (3 * q + 3) - n \in 0..(3 * q + 3)
      BY <3>1, <2>9, <1>6
    <3>2. QED BY <3>1, <2>7, <2>8
  <2>11. Base64TypeInv'
    <3>1. block' \in Seq(0..63)
      BY <1>13
    <3>2. pad' \in Nat
      BY <1>13, <2>9
    <3>3. coding' \in {"decode", "done"} /\ at' \in Nat
      BY <1>1, <1>13
    <3>4. QED BY <1>1, <2>10, <3>1, <3>2, <3>3 DEF Base64Inv, Base64TypeInv
  <2>12. CASE n = 0
    <3>1. coding' = "decode" /\ pad' = 0 /\ block' = << >>
      BY <2>12, <1>1, <1>13
    <3> DEFINE mm == m + 1
               qq == q + 1
    <3>2. out' \in Bytes64 /\ Len(out') = 3 * qq /\ \A i \in 1..Len(out') : out'[i] = ByteAt(c, i)
      <4>1. (3 * q + 3) - n = 3 * qq /\ 3 * qq \in 0..(3 * q + 3)
        BY <2>12, <1>6
      <4>2. out' = SubSeq(o, 1, 3 * qq)
        BY <2>12, <2>8, <4>1
      <4> DEFINE l == 3 * qq
      <4>3. out' \in Bytes64 /\ Len(out') = l /\ out' = [i \in 1..l |-> ByteAt(c, i)]
        <5>1. out' = SubSeq(o, 1, l) /\ l \in 0..(3 * q + 3)
          BY <4>1, <4>2
        <5> HIDE DEF l
        <5>2. QED BY <5>1, <2>7
      <4> HIDE DEF l
      <4>4. Len(out') = l /\ \A i \in 1..l : out'[i] = ByteAt(c, i)
        BY <4>3
      <4>5. QED BY <4>3, <4>4 DEF l
    <3>3. \A k \in 1..qq : PadsOf(c, k) = 0
      <4>1. \A k \in 1..q : PadsOf(c, k) = 0
        BY <1>2 DEF Decoded
      <4>2. \A k \in 1..qq : k \in 1..q \/ k = q + 1
        BY <1>6
      <4>3. QED BY <4>1, <4>2, <2>3, <2>12
    <3>4. 0 = PadIn(c, 4 * qq + 1, mm) + PadIn(c, 4 * qq + 2, mm) + PadIn(c, 4 * qq + 3, mm)
      <4>1. ~ 4 * qq + 1 <= mm /\ ~ 4 * qq + 2 <= mm /\ ~ 4 * qq + 3 <= mm
        BY <2>2, <1>6
      <4>2. QED BY <4>1 DEF PadIn
    <3>5. mm \div 4 = qq /\ mm % 4 = 0 /\ Len(Kept(encoded)[at + 1]) = mm
      BY <2>1, <2>2
    <3>6. c' = c /\ at + 1 <= Len(encoded)
      BY <1>1, <1>3 DEF c
    <3>7. Len(block') = 0
      BY <3>1
    <3> HIDE DEF mm, qq
    <3>8. Decoding'
      BY <1>1, <1>2, <3>1, <3>2, <3>3, <3>4, <3>5, <3>6, <3>7 DEF Decoding, Decoded, c
    <3>9. QED BY <3>1, <3>8, <1>9, <2>11 DEF Base64Inv, DecodesItsBlocks
  <2>13. CASE n > 0
    <3> DEFINE whole == Len(c) \div 4
               padded == {k \in 1..whole : PadsOf(c, k) > 0}
    <3>1. whole \in Nat /\ q + 1 \in 1..whole
      <4> HIDE DEF c
      <4> QED BY <1>4, <1>6, <2>1, <2>2
    <3>2. \A j \in 1..whole : PadsOf(c, j) > 0 => q + 1 <= j
      <4>1. \A k \in 1..q : PadsOf(c, k) = 0
        BY <1>2 DEF Decoded
      <4> HIDE DEF whole
      <4>2. \A j \in 1..whole : j \in 1..q \/ q + 1 <= j
        BY <1>6, <3>1
      <4>3. QED BY <4>1, <4>2
    <3>3. padded # {} /\ (CHOOSE k \in padded : \A j \in padded : k <= j) = q + 1
      <4> DEFINE k == q + 1
      <4>1. k \in 1..whole /\ PadsOf(c, k) > 0 /\ \A j \in 1..whole : PadsOf(c, j) > 0 => k <= j
        BY <3>1, <3>2, <2>3, <2>13
      <4> HIDE DEF k, whole
      <4>2. padded # {} /\ (CHOOSE p \in padded : \A j \in padded : p <= j) = k
        BY <4>1, <3>1, LastPadded
      <4>3. QED BY <4>2 DEF k
    <3>4. c # << >> /\ Len(c) % 4 = 0
      BY <1>2 DEF Decoded
    <3>5. out' = IF n > 2 THEN NoBytes ELSE [i \in 1..(3 * (q + 1) - n) |-> ByteAt(c, i)]
      <4>1. CASE n > 2
        BY <4>1, <2>8
      <4>2. CASE ~ n > 2
        <5> DEFINE l == 3 * (q + 1) - n
        <5>1. l \in 0..(3 * q + 3) /\ l = (3 * q + 3) - n
          BY <4>2, <2>9, <1>6
        <5> HIDE DEF l
        <5>2. SubSeq(o, 1, l) = [i \in 1..l |-> ByteAt(c, i)]
          BY <5>1, <2>7
        <5>3. QED BY <4>2, <5>1, <5>2, <2>8 DEF l
      <4>3. QED BY <4>1, <4>2
    <3>6. c' = c /\ coding' = "done"
      BY <1>1, <1>13, <2>13 DEF c
    <3> HIDE DEF whole, padded
    <3>7. DecodesItsBlocks'
      BY <2>3, <3>3, <3>4, <3>5, <3>6 DEF DecodesItsBlocks, c, whole, padded
    <3>8. QED BY <3>6, <3>7, <1>9, <2>11 DEF Base64Inv, Decoding
  <2>14. QED BY <2>9, <2>12, <2>13
<1>14. QED BY <1>7, <1>10, <1>12, <1>13

-----------------------------------------------------------------------------
(* base64: the round trip.                                                  *)

LEMMA Base64Start ==
  ASSUME Base64Init
  PROVE  Base64Inv
<1>1. << >> \in Seq(0..63) /\ << >> \in Bytes64 /\ << >> \in Texts64
  BY DEF Bytes64, Texts64
<1>2. CASE \E d \in Data : data = d /\ encoded = << >> /\ coding = "encode" /\ olen = Room(Len(d))
  <2>1. PICK d \in Data : data = d /\ encoded = << >> /\ coding = "encode" /\ olen = Room(Len(d))
    BY <1>2
  <2>2. d \in Bytes64 /\ d # NoBytes /\ Len(d) \in Nat
    BY Base64Given, ElementsOf DEF Base64Assumption, Bytes64
  <2>3. olen \in Nat
    <3> DEFINE n == Len(d)
    <3>1. n \in Nat /\ olen = Room(n)
      BY <2>1, <2>2
    <3> HIDE DEF n
    <3>2. QED BY <3>1 DEF Room
  <2>4. at = 0 /\ pad = 0 /\ block = << >> /\ out = << >>
    BY DEF Base64Init
  <2>5. Base64TypeInv
    BY <1>1, <2>1, <2>3, <2>4 DEF Base64TypeInv
  <2>6. Encoding
    <3>1. 0 % 3 = 0 /\ 0 \div 3 = 0 /\ Len(encoded) = 0 /\ 0 <= Len(data)
      BY <2>1, <2>2
    <3>2. QED BY <2>1, <2>2, <2>4, <3>1 DEF Encoding
  <2>7. QED BY <2>1, <2>4, <2>5, <2>6 DEF Base64Inv, NothingDecoded, Decoding, DecodesItsBlocks
<1>3. CASE \E t \in Encodings : data = NoBytes /\ encoded = t /\ coding = "count" /\ olen = 0
  <2>1. encoded \in Texts64 /\ data = NoBytes /\ coding = "count" /\ olen = 0
    BY <1>3, Base64Given DEF Base64Assumption
  <2>2. at = 0 /\ pad = 0 /\ block = << >> /\ out = << >>
    BY DEF Base64Init
  <2>3. Base64TypeInv
    BY <1>1, <2>1, <2>2 DEF Base64TypeInv
  <2>4. QED BY <2>1, <2>2, <2>3 DEF Base64Inv, Encoding, NothingDecoded, Decoding, DecodesItsBlocks
<1>4. QED BY <1>2, <1>3 DEF Base64Init

\* The bytes o of the text c, which has that many blocks.
DecodesTo(c, whole, o) ==
  LET padded == {k \in 1..whole : PadsOf(c, k) > 0}
      last   == IF padded = {} THEN whole ELSE CHOOSE k \in padded : \A j \in padded : k <= j
  IN o = IF c = << >> \/ Len(c) % 4 # 0 \/ PadsOf(c, last) > 2 THEN NoBytes
         ELSE [i \in 1..(3 * last - PadsOf(c, last)) |-> ByteAt(c, i)]

LEMMA DecodesTheText ==
  /\ DecodesItsBlocks <=> (coding = "done" => DecodesTo(Clean(encoded), Len(Clean(encoded)) \div 4, out))
  /\ DecodesItsBlocks' <=> (coding' = "done" => DecodesTo(Clean(encoded'), Len(Clean(encoded')) \div 4, out'))
BY Zenon DEF DecodesItsBlocks, DecodesTo

LEMMA Base64Step ==
  ASSUME Base64Inv, [Base64Next]_base64Vars
  PROVE  Base64Inv'
<1>1. CASE EncodeBlock
  BY <1>1, EncodeBlockStep
<1>2. CASE EncodeRest
  BY <1>2, EncodeRestStep
<1>3. CASE EncodeNothing
  BY <1>3, EncodeNothingStep
<1>4. CASE Resume
  BY <1>4, ResumeStep
<1>5. CASE Count
  BY <1>5, CountStep
<1>6. CASE DecodeNext
  BY <1>6, DecodeNextStep
<1>7. CASE DecodeEnd
  BY <1>7, DecodeEndStep
<1>8. CASE UNCHANGED base64Vars
  <2> USE <1>8 DEF base64Vars, Base64Inv
  <2>1. Base64TypeInv'
    BY DEF Base64TypeInv
  <2>2. Encoding' /\ NothingDecoded'
    BY DEF Encoding, NothingDecoded
  <2>3. Decoding'
    BY DEF Decoding
  <2>4. DecodesItsBlocks'
    <3>1. encoded' = encoded /\ out' = out /\ coding' = coding
      OBVIOUS
    <3>2. QED BY <3>1, DecodesTheText
  <2>5. QED BY <2>1, <2>2, <2>3, <2>4
<1>9. QED BY <1>1, <1>2, <1>3, <1>4, <1>5, <1>6, <1>7, <1>8 DEF Base64Next

\* A text without foreign characters keeps all of them.
LEMMA CleanKept ==
  ASSUME NEW t \in Texts64, \A i \in 1..Len(t) : IsTaken(t[i])
  PROVE  Clean(t) = t
<1> DEFINE N == Len(t)
           Bad == {n \in 0..N : Len(Kept(t)[n]) # n}
<1>1. N \in Nat /\ Kept(t)[0] = << >>
  BY KeptSteps
<1>2. ASSUME NEW n \in 0..N PROVE Len(Kept(t)[n]) \in Nat /\ Clean(t) \in Texts64 /\ Len(Clean(t)) \in Nat
  BY KeptPrefix
<1>3. ASSUME NEW n \in Nat, n < N PROVE Len(Kept(t)[n + 1]) = Len(Kept(t)[n]) + 1 /\ Clean(t)[Len(Kept(t)[n]) + 1] = t[n + 1]
  <2>1. n + 1 \in 1..N
    BY <1>1, <1>3
  <2>2. QED BY <2>1, <1>3, KeptNext
<1>4. ASSUME NEW n \in Bad PROVE \E m \in Bad : m < n
  <2>1. n # 0
    <3>1. Len(Kept(t)[0]) = 0
      BY <1>1
    <3>2. QED BY <3>1, <1>4
  <2>2. n - 1 \in Nat /\ n - 1 \in 0..N /\ n - 1 < N /\ (n - 1) + 1 = n /\ n - 1 < n
    BY <2>1, <1>1, <1>4
  <2>3. Len(Kept(t)[n]) = Len(Kept(t)[n - 1]) + 1
    BY <2>2, <1>3
  <2>4. Len(Kept(t)[n - 1]) # n - 1
    BY <2>2, <2>3, <1>4
  <2>5. QED BY <2>2, <2>4
<1>5. Bad \in SUBSET Nat
  OBVIOUS
<1>6. Bad = {}
  <2> HIDE DEF Bad
  <2> QED BY <1>4, <1>5, NoLeast
<1>7. \A n \in 0..N : Len(Kept(t)[n]) = n
  BY <1>6
<1>8. Len(Clean(t)) = N /\ Clean(t) \in Texts64
  <2>1. N \in 0..N
    BY <1>1
  <2>2. QED BY <2>1, <1>2, <1>7 DEF Clean
<1>9. \A i \in 1..N : Clean(t)[i] = t[i]
  <2> TAKE i \in 1..N
  <2>1. i - 1 \in Nat /\ i - 1 < N /\ i - 1 \in 0..N /\ (i - 1) + 1 = i
    BY <1>1
  <2>2. QED BY <2>1, <1>3, <1>7
<1> HIDE DEF N
<1>10. QED BY <1>8, <1>9 DEF N, Texts64

StandsFor(d, t, k, a, b, c) ==
  /\ NumberOf(t, k) = ThreeIn(a, b, c)
  /\ PadsOf(t, k) = IF 3 * k <= Len(d) THEN 0 ELSE 3 * k - Len(d)
  /\ t[4 * k - 3] \in Char /\ t[4 * k - 2] \in Char /\ t[4 * k - 1] \in Char /\ t[4 * k] \in Char
  /\ IsTaken(t[4 * k - 3]) /\ IsTaken(t[4 * k - 2]) /\ IsTaken(t[4 * k - 1]) /\ IsTaken(t[4 * k])

\* What a block of a text stands for, when it has been written for three bytes, or
\* fewer at the end.
LEMMA BlockNumber ==
  ASSUME NEW d, NEW t, NEW k \in Nat, NEW a \in Byte, NEW b \in Byte, NEW c \in Byte,
         a = ByteOr0(d, 3 * k - 2), b = ByteOr0(d, 3 * k - 1), c = ByteOr0(d, 3 * k),
         Len(d) \in Nat, 3 * k - 2 <= Len(d), BlockOf(d, t, k)
  PROVE  StandsFor(d, t, k, a, b, c)
<1> DEFINE v == First(a)
           w == Second(a, b)
           x == Third(b, c)
           y == Fourth(c)
<1>1. First(a) \in Digit /\ Second(a, b) \in Digit /\ Third(b, c) \in Digit /\ Fourth(c) \in Digit
  BY DigitsOfBytes
<1>2. FourIn(v, w, x, y) = ThreeIn(a, b, c)
  BY BlockOfBytes, Zenon
<1>3. v \in Digit /\ w \in Digit /\ x \in Digit /\ y \in Digit
  BY <1>1
<1>4. /\ t[4 * k - 3] = v /\ t[4 * k - 2] = w
      /\ t[4 * k - 1] = (IF 3 * k - 1 <= Len(d) THEN x ELSE Pad)
      /\ t[4 * k] = (IF 3 * k <= Len(d) THEN y ELSE Pad)
  BY DEF BlockOf
<1>5. ~ (3 * k <= Len(d)) => c = 0
  BY DEF ByteOr0
<1>6. ~ (3 * k - 1 <= Len(d)) => b = 0 /\ c = 0 /\ ~ (3 * k <= Len(d))
  <2>1. ~ (3 * k - 1 <= Len(d)) => ~ (3 * k <= Len(d))
    OBVIOUS
  <2>2. ~ (3 * k - 1 <= Len(d)) => b = 0
    BY DEF ByteOr0
  <2>3. QED BY <2>1, <2>2, <1>5
<1>7. (c = 0 => y = 0) /\ (b = 0 /\ c = 0 => x = 0)
  BY DEF Third, Fourth
<1> HIDE DEF v, w, x, y
<1>8. \A u \in Digit : Value(u) = u /\ u # Pad
  BY DEF Digit, Value, Pad
<1>9. /\ Value(t[4 * k - 3]) = v /\ Value(t[4 * k - 2]) = w /\ t[4 * k - 3] # Pad /\ t[4 * k - 2] # Pad
      /\ PadAt(t, 4 * k - 3) = 0 /\ PadAt(t, 4 * k - 2) = 0
  <2>1. Value(t[4 * k - 3]) = v /\ Value(t[4 * k - 2]) = w /\ t[4 * k - 3] # Pad /\ t[4 * k - 2] # Pad
    BY <1>3, <1>4, <1>8
  <2>2. QED BY <2>1 DEF PadAt
<1>10. /\ Value(t[4 * k - 1]) = x /\ PadAt(t, 4 * k - 1) = (IF 3 * k - 1 <= Len(d) THEN 0 ELSE 1)
       /\ Value(t[4 * k]) = y /\ PadAt(t, 4 * k) = (IF 3 * k <= Len(d) THEN 0 ELSE 1)
  <2>1. CASE 3 * k <= Len(d)
    <3>1. 3 * k - 1 <= Len(d)
      BY <2>1
    <3>2. t[4 * k - 1] = x /\ t[4 * k] = y
      BY <2>1, <3>1, <1>4
    <3>3. QED BY <2>1, <3>1, <3>2, <1>3, <1>8 DEF PadAt
  <2>2. CASE ~ (3 * k <= Len(d)) /\ 3 * k - 1 <= Len(d)
    <3>1. t[4 * k - 1] = x /\ t[4 * k] = Pad /\ y = 0
      BY <2>2, <1>4, <1>5, <1>7
    <3>2. QED BY <2>2, <3>1, <1>3, <1>8 DEF PadAt, Value
  <2>3. CASE ~ (3 * k - 1 <= Len(d))
    <3>1. t[4 * k - 1] = Pad /\ t[4 * k] = Pad /\ y = 0 /\ x = 0 /\ ~ (3 * k <= Len(d))
      BY <2>3, <1>4, <1>6, <1>7
    <3>2. QED BY <2>3, <3>1 DEF PadAt, Value
  <2>4. QED BY <2>1, <2>2, <2>3
<1>11. NumberOf(t, k) = ThreeIn(a, b, c)
  BY <1>2, <1>9, <1>10 DEF NumberOf, FourIn
<1>12. PadsOf(t, k) = IF 3 * k <= Len(d) THEN 0 ELSE 3 * k - Len(d)
  <2>1. CASE 3 * k <= Len(d)
    <3>1. 3 * k - 1 <= Len(d)
      BY <2>1
    <3>2. QED BY <2>1, <3>1, <1>9, <1>10 DEF PadsOf
  <2>2. CASE ~ (3 * k <= Len(d)) /\ 3 * k - 1 <= Len(d)
    <3>1. 3 * k - Len(d) = 1
      BY <2>2
    <3>2. QED BY <2>2, <3>1, <1>9, <1>10 DEF PadsOf
  <2>3. CASE ~ (3 * k - 1 <= Len(d))
    <3>1. 3 * k - Len(d) = 2 /\ ~ (3 * k <= Len(d))
      BY <2>3
    <3>2. QED BY <2>3, <3>1, <1>9, <1>10 DEF PadsOf
  <2>4. QED BY <2>1, <2>2, <2>3
<1>13. \A u \in Digit : u \in Char /\ IsTaken(u)
  BY DEF Digit, Char, Foreign, IsTaken
<1>14. Pad \in Char /\ IsTaken(Pad)
  BY DEF Char, Pad, Foreign, IsTaken
<1>15. QED BY <1>3, <1>4, <1>11, <1>12, <1>13, <1>14 DEF StandsFor

\* What has been encoded: no foreign character, padding in the last block at most,
\* and the bytes that were given.
LEMMA Encoded ==
  ASSUME Base64Inv, coding = "done", data # NoBytes
  PROVE  LET n == Len(data)
             h == Blocks(n)
         IN  /\ Clean(encoded) = encoded /\ Len(encoded) = 4 * h /\ n \in Nat /\ h \in Nat
             /\ \A k \in 1..h : PadsOf(encoded, k) = IF 3 * k <= n THEN 0 ELSE 3 * k - n
             /\ \A i \in 1..n : ByteAt(encoded, i) = data[i]
<1> DEFINE n == Len(data)
           h == Blocks(n)
           t == encoded
<1>1. data \in Bytes64 /\ n \in Nat /\ \A i \in 1..n : data[i] \in Byte
  BY BytesGiven DEF Base64Inv
<1>2. t \in Texts64 /\ Len(t) = 4 * h /\ \A k \in 1..h : BlockOf(data, t, k)
  BY DEF Base64Inv, Base64TypeInv, Encoding
<1>3. h \in Nat /\ \A k \in 1..h : 3 * k - 2 <= n
  <2> HIDE DEF n
  <2> QED BY <1>1 DEF Blocks
<1> HIDE DEF n, h, t
<1>4. ASSUME NEW k \in 1..h
      PROVE  LET a == ByteOr0(data, 3 * k - 2)  b == ByteOr0(data, 3 * k - 1)  c == ByteOr0(data, 3 * k)
             IN  a \in Byte /\ b \in Byte /\ c \in Byte /\ StandsFor(data, t, k, a, b, c)
  <2> DEFINE a == ByteOr0(data, 3 * k - 2)
             b == ByteOr0(data, 3 * k - 1)
             c == ByteOr0(data, 3 * k)
  <2>1. k \in Nat /\ 3 * k - 2 <= n /\ 3 * k - 2 > 0 /\ BlockOf(data, t, k)
    BY <1>2, <1>3
  <2>2. \A i \in Nat : i > 0 => ByteOr0(data, i) \in Byte
    BY <1>1 DEF ByteOr0, Byte, n
  <2>3. a \in Byte /\ b \in Byte /\ c \in Byte
    <3>1. 3 * k - 2 \in Nat /\ 3 * k - 1 \in Nat /\ 3 * k \in Nat /\ 3 * k - 1 > 0 /\ 3 * k > 0
      BY <2>1
    <3>2. QED BY <2>1, <2>2, <3>1
  <2>4. StandsFor(data, t, k, a, b, c)
    <3>1. Len(data) \in Nat /\ 3 * k - 2 <= Len(data)
      BY <1>1, <2>1 DEF n
    <3>2. a = ByteOr0(data, 3 * k - 2) /\ b = ByteOr0(data, 3 * k - 1) /\ c = ByteOr0(data, 3 * k)
      OBVIOUS
    <3> HIDE DEF a, b, c
    <3>3. QED BY <2>1, <2>3, <3>1, <3>2, BlockNumber, Zenon
  <2>5. QED BY <2>3, <2>4
<1>5. Clean(t) = t
  <2>1. ASSUME NEW i \in 1..Len(t) PROVE IsTaken(t[i])
    <3> DEFINE k == (i + 3) \div 4
    <3>1. i \in Nat /\ i > 0 /\ i <= 4 * h
      BY <1>2, <1>3
    <3>2. k \in 1..h /\ (i = 4 * k - 3 \/ i = 4 * k - 2 \/ i = 4 * k - 1 \/ i = 4 * k)
      BY <3>1, <1>3
    <3> HIDE DEF k
    <3>3. IsTaken(t[4 * k - 3]) /\ IsTaken(t[4 * k - 2]) /\ IsTaken(t[4 * k - 1]) /\ IsTaken(t[4 * k])
      BY <3>2, <1>4 DEF StandsFor
    <3>4. QED BY <3>2, <3>3
  <2>2. QED BY <1>2, <2>1, CleanKept
<1>6. \A i \in 1..n : ByteAt(t, i) = data[i]
  <2> TAKE i \in 1..n
  <2> DEFINE k == (i + 2) \div 3
             a == ByteOr0(data, 3 * k - 2)
             b == ByteOr0(data, 3 * k - 1)
             c == ByteOr0(data, 3 * k)
             num == NumberOf(t, k)
  <2>1. k \in 1..h
    <3>1. i \in Nat /\ i > 0 /\ i <= n
      BY <1>1
    <3>2. QED BY <3>1, <1>1 DEF h, Blocks
  <2>2. /\ i % 3 = 1 => i = 3 * k - 2
        /\ i % 3 = 2 => i = 3 * k - 1
        /\ i % 3 = 0 => i = 3 * k
        /\ i % 3 \in 0..2
    BY <1>1
  <2>3. a \in Byte /\ b \in Byte /\ c \in Byte /\ num = ThreeIn(a, b, c)
    <3> HIDE DEF k
    <3> QED BY <2>1, <1>4 DEF StandsFor
  <2>4. ByteOr0(data, i) = data[i]
    BY <1>1 DEF ByteOr0, n
  <2>5. ByteAt(t, i) = CASE i % 3 = 1 -> (num \div 256) \div 256 [] i % 3 = 2 -> (num \div 256) % 256 [] i % 3 = 0 -> num % 256
    BY DEF ByteAt
  <2> HIDE DEF k, num
  <2>6. (i % 3 = 1 => a = data[i]) /\ (i % 3 = 2 => b = data[i]) /\ (i % 3 = 0 => c = data[i])
    BY <2>2, <2>4
  <2> HIDE DEF a, b, c
  <2>7. (num \div 256) \div 256 = a /\ (num \div 256) % 256 = b /\ num % 256 = c
    <3>1. AreBytes(ThreeIn(a, b, c), a, b, c)
      BY <2>3, BytesOfThree, Zenon
    <3>2. QED BY <2>3, <3>1 DEF AreBytes
  <2>8. QED BY <2>2, <2>5, <2>6, <2>7
<1>7. \A k \in 1..h : PadsOf(t, k) = IF 3 * k <= n THEN 0 ELSE 3 * k - n
  BY <1>4 DEF StandsFor, n
<1>8. QED BY <1>1, <1>2, <1>3, <1>5, <1>6, <1>7 DEF n, h, t

LEMMA InvRoundTrip ==
  ASSUME Base64Inv
  PROVE  RoundTrip
<1> SUFFICES ASSUME coding = "done", data # NoBytes
             PROVE  out = IF data = << >> THEN NoBytes ELSE data
  BY DEF RoundTrip
<1> DEFINE n == Len(data)
           h == Blocks(n)
           padded == {k \in 1..h : PadsOf(encoded, k) > 0}
           last == IF padded = {} THEN h ELSE CHOOSE k \in padded : \A j \in padded : k <= j
<1>1. /\ Clean(encoded) = encoded /\ Len(encoded) = 4 * h /\ n \in Nat /\ h \in Nat
      /\ \A k \in 1..h : PadsOf(encoded, k) = IF 3 * k <= n THEN 0 ELSE 3 * k - n
      /\ \A i \in 1..n : ByteAt(encoded, i) = data[i]
  BY Encoded
<1>2. data \in Bytes64 /\ encoded \in Texts64
  BY BytesGiven DEF Base64Inv, Base64TypeInv
<1>3. Len(encoded) \div 4 = h /\ Len(encoded) % 4 = 0
  <2> HIDE DEF h
  <2> QED BY <1>1
<1>4. out = IF encoded = << >> \/ PadsOf(encoded, last) > 2 THEN NoBytes
            ELSE [i \in 1..(3 * last - PadsOf(encoded, last)) |-> ByteAt(encoded, i)]
  <2>1. DecodesTo(encoded, h, out)
    BY <1>1, <1>3, DecodesTheText DEF Base64Inv
  <2>2. \A k \in 1..0 : FALSE
    OBVIOUS
  <2> HIDE DEF h
  <2>3. QED BY <2>1, <1>3, Zenon DEF DecodesTo
<1>5. CASE data = << >>
  <2>1. h = 0
    BY <1>5 DEF Blocks
  <2>2. encoded = << >>
    BY <1>1, <1>2, <2>1 DEF Texts64
  <2>3. QED BY <1>4, <1>5, <2>2
<1>6. CASE data # << >>
  <2>1. n > 0
    BY <1>1, <1>2, <1>6 DEF Bytes64
  <2>2. h > 0 /\ h \in 1..h /\ 3 * h - n \in 0..2 /\ \A k \in 1..h : k # h => 3 * k <= n
    <3> HIDE DEF n
    <3> QED BY <1>1, <2>1 DEF Blocks
  <2>3. encoded # << >>
    <3> HIDE DEF h
    <3> QED BY <1>1, <2>2
  <2> HIDE DEF n, h
  <2>4. PadsOf(encoded, h) = 3 * h - n
    BY <1>1, <2>2
  <2>5. last = h
    <3>1. CASE padded = {}
      BY <3>1
    <3>2. CASE padded # {}
      <4>1. \A k \in 1..h : PadsOf(encoded, k) > 0 => k = h
        BY <1>1, <2>2
      <4>2. PadsOf(encoded, h) > 0
        BY <3>2, <4>1
      <4>3. \A j \in 1..h : PadsOf(encoded, j) > 0 => h <= j
        BY <4>1, <1>1
      <4>4. (CHOOSE k \in padded : \A j \in padded : k <= j) = h
        BY <1>1, <2>2, <4>2, <4>3, LastPadded
      <4>5. QED BY <3>2, <4>4
    <3>3. QED BY <3>1, <3>2
  <2> HIDE DEF last
  <2>6. 3 * last - PadsOf(encoded, last) = n /\ ~ PadsOf(encoded, last) > 2
    BY <1>1, <2>2, <2>4, <2>5
  <2>7. out = [i \in 1..n |-> ByteAt(encoded, i)]
    BY <1>4, <2>3, <2>6
  <2>8. out = [i \in 1..n |-> data[i]]
    BY <1>1, <2>7
  <2>9. data = [i \in 1..n |-> data[i]]
    BY <1>2 DEF Bytes64, n
  <2>10. QED BY <1>6, <2>8, <2>9
<1>7. QED BY <1>5, <1>6

LEMMA InvFits ==
  ASSUME Base64Inv
  PROVE  EncodedFits /\ DecodedFits
<1>1. EncodedFits
  <2> SUFFICES ASSUME coding \in {"encode", "encoded"} PROVE Len(encoded) + 1 <= olen
    BY DEF EncodedFits
  <2> DEFINE n == Len(data)
             text4 == (n * 4) \div 3 + 4
             feeds == text4 \div 72
  <2>1. data # NoBytes /\ olen = Room(n)
    BY DEF Base64Inv, Encoding
  <2>2. n \in Nat
    BY <2>1, BytesGiven DEF Base64Inv
  <2>3. Len(encoded) <= 4 * Blocks(n) /\ Len(encoded) \in Nat /\ Blocks(n) \in Nat
    <3>1. CASE coding = "encode"
      <4>1. Len(encoded) = 4 * (at \div 3) /\ at <= n /\ at \in Nat
        BY <3>1 DEF Base64Inv, Base64TypeInv, Encoding
      <4> HIDE DEF n
      <4>2. QED BY <2>2, <4>1 DEF Blocks
    <3>2. CASE coding = "encoded"
      <4>1. Len(encoded) = 4 * Blocks(n)
        BY <2>1, <3>2 DEF Base64Inv, Encoding
      <4> HIDE DEF n
      <4>2. QED BY <2>2, <4>1 DEF Blocks
    <3>3. QED BY <3>1, <3>2
  <2> HIDE DEF n
  <2>4. text4 \in Nat /\ 4 * Blocks(n) <= text4
    BY <2>2 DEF Blocks
  <2>5. Room(n) = text4 + feeds + 1
    BY DEF Room
  <2> HIDE DEF text4
  <2>6. feeds \in Nat
    BY <2>4
  <2> HIDE DEF feeds
  <2>7. QED BY <2>1, <2>3, <2>4, <2>5, <2>6
<1>2. DecodedFits
  <2> SUFFICES ASSUME coding = "decode"
               PROVE  LET left == Len(Clean(encoded)) - Len(Kept(encoded)[at])
                      IN Len(out) + 3 * ((Len(block) + left) \div 4) = olen
    BY DEF DecodedFits
  <2> DEFINE l == Len(Clean(encoded))
             m == Len(Kept(encoded)[at])
  <2>1. /\ l % 4 = 0 /\ olen = 3 * (l \div 4) /\ Len(block) = m % 4 /\ Len(out) = 3 * (m \div 4)
        /\ at <= Len(encoded) /\ at \in Nat /\ encoded \in Texts64
    BY DEF Base64Inv, Base64TypeInv, Decoding
  <2>2. l \in Nat /\ m \in Nat
    <3>1. at \in 0..Len(encoded)
      BY <2>1, KeptSteps
    <3>2. QED BY <2>1, <3>1, KeptPrefix
  <2> HIDE DEF l, m
  <2>3. ((m % 4) + (l - m)) \div 4 = l \div 4 - m \div 4
    BY <2>1, <2>2
  <2>4. 3 * (m \div 4) + 3 * (((m % 4) + (l - m)) \div 4) = 3 * (l \div 4)
    BY <2>2, <2>3
  <2>5. QED BY <2>1, <2>4 DEF l, m
<1>3. QED BY <1>1, <1>2

\* What base64_encode has written and what base64_decode has read and written,
\* in every state and for any bytes and any text.
THEOREM Base64Invariant == Base64Spec => []Base64Inv
<1>1. Base64Init => Base64Inv
  BY Base64Start
<1>2. Base64Inv /\ [Base64Next]_base64Vars => Base64Inv'
  BY Base64Step
<1>3. QED BY <1>1, <1>2, PTL DEF Base64Spec

\* Bytes of any length are encoded to a text that decodes to them, inside the
\* buffers whose sizes were computed before; any other text decodes as it does
\* without its foreign characters.
THEOREM Base64Decodes == Base64Spec => []Base64RoundTrip
<1>1. Base64Inv => Base64RoundTrip
  BY InvFits, InvRoundTrip DEF Base64RoundTrip, Base64Inv
<1>2. QED BY <1>1, Base64Invariant, PTL

-----------------------------------------------------------------------------
(* base58: numbers in digits.                                               *)

\* The numbers of a sequence's first digits.
LEMMA HornerSteps ==
  ASSUME NEW digits \in Seq(Int), NEW base \in Int
  PROVE  /\ Len(digits) \in Nat /\ Horner(digits, base) \in [0..Len(digits) -> Int] /\ Horner(digits, base)[0] = 0
         /\ \A n \in 1..Len(digits) : Horner(digits, base)[n] = base * Horner(digits, base)[n - 1] + digits[n]
<1> DEFINE N == Len(digits)
           step == [n \in 1..N |-> [h \in Int |-> base * h + digits[n]]]
           Body(f) == [n \in 0..N |-> IF n = 0 THEN 0 ELSE base * f[n - 1] + digits[n]]
           number == CHOOSE f : f = Body(f)
<1>1. N \in Nat /\ (\A n \in 1..N : digits[n] \in Int) /\ 0 \in Int
  OBVIOUS
<1>2. \A h \in Int : base * h \in Int
  OBVIOUS
<1>3. step \in Steps(N, Int)
  BY <1>1, <1>2 DEF Steps
<1>4. PICK r : r \in RunsOf(N, Int, 0, step)
  <2> HIDE DEF step, N
  <2> QED BY <1>1, <1>3, Recursion
<1>5. r \in [0..N -> Int] /\ r[0] = 0 /\ \A n \in 1..N : r[n] = step[n][r[n - 1]]
  BY <1>4, Zenon DEF RunsOf
<1>6. r = Body(r)
  <2>1. \A n \in 0..N : n = 0 \/ (n \in 1..N /\ n - 1 \in 0..N)
    BY <1>1
  <2> DEFINE next(n, h) == base * h + digits[n]
  <2>2. \A n \in 1..N, h \in Int : step[n][h] = next(n, h)
    OBVIOUS
  <2>3. \A n \in 1..N : r[n] = base * r[n - 1] + digits[n]
    <3>1. \A n \in 1..N : r[n - 1] \in Int
      <4> HIDE DEF step, N, next
      <4> QED BY <1>5, <2>1
    <3> HIDE DEF step, N, next
    <3>2. \A n \in 1..N : r[n] = next(n, r[n - 1])
      BY <1>5, <2>2, <3>1
    <3>3. QED BY <3>2 DEF next
  <2> HIDE DEF step, N
  <2>4. \A n \in 0..N : r[n] = IF n = 0 THEN 0 ELSE base * r[n - 1] + digits[n]
    BY <1>5, <2>1, <2>3
  <2>5. r = [n \in 0..N |-> r[n]]
    BY <1>5
  <2>6. QED BY <2>4, <2>5
<1>7. number = Body(number)
  <2> HIDE DEF Body
  <2> QED BY <1>6
<1>8. Horner(digits, base) = number
  BY DEF Horner
<1> HIDE DEF number, step
<1>9. number[0] = 0 /\ \A n \in 1..N : number[n] = base * number[n - 1] + digits[n]
  <2>1. 0 \in 0..N /\ \A n \in 1..N : n \in 0..N /\ n # 0
    BY <1>1
  <2>2. QED BY <1>7, <2>1
<1>10. \A n \in 0..N : number[n] \in Int
  <2> DEFINE Bad == {n \in 0..N : number[n] \notin Int}
  <2>1. ASSUME NEW n \in Bad PROVE \E m \in Bad : m < n
    <3>1. n \in 1..N /\ n - 1 \in 0..N /\ n - 1 < n
      BY <2>1, <1>9, <1>1
    <3>2. number[n - 1] \notin Int
      <4>1. number[n] = base * number[n - 1] + digits[n] /\ digits[n] \in Int
        BY <3>1, <1>9, <1>1
      <4>2. ASSUME number[n - 1] \in Int PROVE FALSE
        <5> DEFINE h == number[n - 1]
        <5>1. base * h \in Int
          BY <4>2, <1>2
        <5>2. number[n] \in Int
          BY <4>1, <5>1
        <5>3. QED BY <5>2, <2>1
      <4>3. QED BY <4>2
    <3>3. QED BY <3>1, <3>2
  <2>2. Bad \in SUBSET Nat
    OBVIOUS
  <2>3. Bad = {}
    <3> HIDE DEF Bad
    <3> QED BY <2>1, <2>2, NoLeast
  <2>4. QED BY <2>3
<1>11. number \in [0..N -> Int]
  <2>1. number = [n \in 0..N |-> number[n]]
    BY <1>7
  <2> HIDE DEF N
  <2>2. QED BY <2>1, <1>10
<1>12. QED BY <1>1, <1>8, <1>9, <1>11

\* With 58 or 256 for the base; numbers of nonnegative digits are not negative.
LEMMA Horner58 ==
  ASSUME NEW digits \in Seq(Int)
  PROVE  /\ Horner(digits, 58)[0] = 0
         /\ \A n \in 1..Len(digits) : /\ Horner(digits, 58)[n] = 58 * Horner(digits, 58)[n - 1] + digits[n]
                                      /\ Horner(digits, 58)[n] \in Int /\ Horner(digits, 58)[n - 1] \in Int
<1>1. 58 \in Int
  OBVIOUS
<1>2. /\ Len(digits) \in Nat /\ Horner(digits, 58) \in [0..Len(digits) -> Int] /\ Horner(digits, 58)[0] = 0
      /\ \A n \in 1..Len(digits) : Horner(digits, 58)[n] = 58 * Horner(digits, 58)[n - 1] + digits[n]
  BY <1>1, HornerSteps
<1>3. \A n \in 1..Len(digits) : n \in 0..Len(digits) /\ n - 1 \in 0..Len(digits)
  BY <1>2
<1>4. QED BY <1>2, <1>3

LEMMA Horner256 ==
  ASSUME NEW digits \in Seq(Int)
  PROVE  /\ Horner(digits, 256)[0] = 0
         /\ \A n \in 1..Len(digits) : /\ Horner(digits, 256)[n] = 256 * Horner(digits, 256)[n - 1] + digits[n]
                                      /\ Horner(digits, 256)[n] \in Int /\ Horner(digits, 256)[n - 1] \in Int
<1>1. 256 \in Int
  OBVIOUS
<1>2. /\ Len(digits) \in Nat /\ Horner(digits, 256) \in [0..Len(digits) -> Int] /\ Horner(digits, 256)[0] = 0
      /\ \A n \in 1..Len(digits) : Horner(digits, 256)[n] = 256 * Horner(digits, 256)[n - 1] + digits[n]
  BY <1>1, HornerSteps
<1>3. \A n \in 1..Len(digits) : n \in 0..Len(digits) /\ n - 1 \in 0..Len(digits)
  BY <1>2
<1> DEFINE h == Horner(digits, 256)
           l == Len(digits)
<1>4. h \in [0..l -> Int] /\ \A n \in 1..l : h[n] = 256 * h[n - 1] + digits[n]
  BY <1>2
<1>5. \A n \in 1..l : h[n] \in Int /\ h[n - 1] \in Int
  <2> HIDE DEF h, l
  <2> QED BY <1>3, <1>4 DEF l
<1> HIDE DEF h, l
<1>6. QED BY <1>2, <1>4, <1>5 DEF h, l

-----------------------------------------------------------------------------
(* base58: a number times 58.                                               *)

Digits58 == 0..57

Summed(s, c, b) ==
  /\ s = c + b * 58 /\ s \div 256 \in Digits58 /\ s % 256 \in Byte
  /\ s = 256 * (s \div 256) + (s % 256)

\* A byte times 58 and a carry is less than 58 times 256.
LEMMA SumOf ==
  ASSUME NEW c \in Digits58, NEW b \in Byte
  PROVE  Summed(Sum(c, b), c, b)
<1> DEFINE s == c + b * 58
<1>1. s \in Nat /\ s < 256 * 58
  BY DEF Digits58, Byte
<1>2. UInts \in Nat /\ s < UInts
  BY <1>1, Base58Given DEF Base58Assumption
<1>3. s % UInts = s
  <2> HIDE DEF s
  <2> QED BY <1>1, <1>2
<1>4. Sum(c, b) = s
  BY <1>3 DEF Sum
<1> HIDE DEF s
<1>5. s \div 256 \in Digits58 /\ s % 256 \in Byte /\ s = 256 * (s \div 256) + (s % 256)
  BY <1>1 DEF Digits58, Byte
<1>6. QED BY <1>4, <1>5 DEF s, Summed

LEMMA CarriesSteps ==
  ASSUME NEW bytes \in Seq(Byte), NEW digit \in Digits58
  PROVE  LET c == Carries(bytes, digit)
         IN /\ c[0] = digit /\ Len(bytes) \in Nat
            /\ \A n \in 0..Len(bytes) : c[n] \in Digits58
            /\ \A n \in 1..Len(bytes) : c[n] = Sum(c[n - 1], bytes[n]) \div 256
<1> DEFINE N == Len(bytes)
           step == [n \in 1..N |-> [h \in Digits58 |-> Sum(h, bytes[n]) \div 256]]
           Body(f) == [n \in 0..N |-> IF n = 0 THEN digit % UInts ELSE Sum(f[n - 1], bytes[n]) \div 256]
           carry == CHOOSE f : f = Body(f)
<1>1. N \in Nat /\ (\A n \in 1..N : bytes[n] \in Byte)
  BY ElementsOf
<1>2. digit % UInts = digit
  <2>1. digit \in Nat /\ UInts \in Nat /\ digit < UInts
    BY Base58Given DEF Base58Assumption, Digits58
  <2>2. QED BY <2>1
<1>3. step \in Steps(N, Digits58)
  BY <1>1, SumOf DEF Steps, Summed
<1>4. PICK r : r \in RunsOf(N, Digits58, digit, step)
  <2> HIDE DEF step, N
  <2> QED BY <1>1, <1>3, Recursion
<1>5. r \in [0..N -> Digits58] /\ r[0] = digit /\ \A n \in 1..N : r[n] = step[n][r[n - 1]]
  BY <1>4, Zenon DEF RunsOf
<1>6. r = Body(r)
  <2>1. \A n \in 0..N : n = 0 \/ (n \in 1..N /\ n - 1 \in 0..N)
    BY <1>1
  <2>2. \A n \in 1..N, h \in Digits58 : step[n][h] = Sum(h, bytes[n]) \div 256
    OBVIOUS
  <2> HIDE DEF step, N
  <2>3. \A n \in 1..N : r[n] = Sum(r[n - 1], bytes[n]) \div 256
    BY <1>5, <2>1, <2>2
  <2>4. \A n \in 0..N : r[n] = IF n = 0 THEN digit % UInts ELSE Sum(r[n - 1], bytes[n]) \div 256
    BY <1>2, <1>5, <2>1, <2>3
  <2>5. r = [n \in 0..N |-> r[n]]
    BY <1>5
  <2>6. QED BY <2>4, <2>5
<1>7. carry = Body(carry)
  <2> HIDE DEF Body
  <2> QED BY <1>6
<1>8. Carries(bytes, digit) = carry
  BY DEF Carries
<1> HIDE DEF carry, step
<1>9. carry[0] = digit /\ \A n \in 1..N : carry[n] = Sum(carry[n - 1], bytes[n]) \div 256
  <2>1. 0 \in 0..N /\ \A n \in 1..N : n \in 0..N /\ n # 0
    BY <1>1
  <2>2. QED BY <1>2, <1>7, <2>1
<1>10. \A n \in 0..N : carry[n] \in Digits58
  <2> DEFINE Bad == {n \in 0..N : carry[n] \notin Digits58}
  <2>1. ASSUME NEW n \in Bad PROVE \E m \in Bad : m < n
    <3>1. n \in 1..N /\ n - 1 \in 0..N /\ n - 1 < n
      BY <2>1, <1>9, <1>1
    <3>2. carry[n - 1] \notin Digits58
      BY <3>1, <2>1, <1>9, <1>1, SumOf DEF Summed
    <3>3. QED BY <3>1, <3>2
  <2>2. Bad \in SUBSET Nat
    OBVIOUS
  <2>3. Bad = {}
    <3> HIDE DEF Bad
    <3> QED BY <2>1, <2>2, NoLeast
  <2>4. QED BY <2>3
<1>11. QED BY <1>1, <1>8, <1>9, <1>10

\* The bytes of a carry below 58: one, or none of zero.
LEMMA CarriedOf ==
  ASSUME NEW c \in Digits58
  PROVE  Carried(c) = IF c = 0 THEN << >> ELSE <<c>>
<1>1. c \in Nat /\ c < 256 /\ c % 256 = c /\ CarriedBytes(c) = IF c = 0 THEN 0 ELSE 1
  BY DEF Digits58, CarriedBytes
<1> DEFINE s == <<c % 256, (c \div 256) % 256, ((c \div 256) \div 256) % 256, ((c \div 256) \div 256) \div 256>>
<1>2. s \in Seq(Int) /\ Len(s) = 4 /\ s[1] = c
  <2>1. (c \div 256) % 256 \in Int /\ ((c \div 256) \div 256) % 256 \in Int /\ ((c \div 256) \div 256) \div 256 \in Int
    BY <1>1
  <2>2. QED BY <1>1, <2>1
<1> HIDE DEF s
<1>3. SubSeq(s, 1, 0) = << >> /\ SubSeq(s, 1, 1) = <<c>>
  <2>1. SubSeq(s, 1, 0) = << >>
    BY <1>2
  <2> DEFINE u == SubSeq(s, 1, 1)
  <2>2. u \in Seq(Int) /\ Len(u) = 1 /\ u[1] = s[1]
    BY <1>2
  <2> HIDE DEF u
  <2>3. u = <<c>>
    BY <1>2, <2>2
  <2>4. QED BY <2>1, <2>3 DEF u
<1>4. Carried(c) = SubSeq(s, 1, CarriedBytes(c))
  BY DEF Carried, s
<1>5. QED BY <1>1, <1>3, <1>4

\* The bytes r and the carries c of a pass: as many bytes, or one more if a carry is
\* left.
Passed(r, c, bytes, digit, n) ==
  /\ r \in Seq(Byte) /\ n \in Nat /\ c[0] = digit
  /\ \A i \in 0..n : c[i] \in Digits58
  /\ \A i \in 1..n : c[i] = Sum(c[i - 1], bytes[i]) \div 256
  /\ \A i \in 1..n : r[i] = Sum(c[i - 1], bytes[i]) % 256
  /\ c[n] = 0 => Len(r) = n
  /\ c[n] # 0 => Len(r) = n + 1 /\ r[n + 1] = c[n]

LEMMA MultipliedOf ==
  ASSUME NEW bytes \in Seq(Byte), NEW digit \in Digits58
  PROVE  Passed(Multiplied(bytes, digit), Carries(bytes, digit), bytes, digit, Len(bytes))
<1> DEFINE c == Carries(bytes, digit)
           n == Len(bytes)
           low == [i \in DOMAIN bytes |-> Sum(c[i - 1], bytes[i]) % 256]
           high == Carried(c[n])
<1>1. /\ c[0] = digit /\ n \in Nat /\ \A i \in 0..n : c[i] \in Digits58
  BY CarriesSteps
<1>2. \A i \in 1..n : c[i] = Sum(c[i - 1], bytes[i]) \div 256
  BY CarriesSteps
<1>3. DOMAIN bytes = 1..n /\ \A i \in 1..n : bytes[i] \in Byte
  BY ElementsOf
<1>4. \A i \in 1..n : Sum(c[i - 1], bytes[i]) % 256 \in Byte
  <2>1. \A i \in 1..n : i - 1 \in 0..n
    BY <1>1
  <2> HIDE DEF c, n
  <2>2. QED BY <2>1, <1>1, <1>3, SumOf DEF Summed
<1> HIDE DEF c, n
<1>5. low \in Seq(Byte) /\ Len(low) = n /\ \A i \in 1..n : low[i] = Sum(c[i - 1], bytes[i]) % 256
  BY <1>1, <1>3, <1>4
<1>6. n \in 0..n /\ c[n] \in Digits58 /\ c[n] \in Byte
  BY <1>1 DEF Digits58, Byte
<1>7. high = IF c[n] = 0 THEN << >> ELSE <<c[n]>>
  BY <1>6, CarriedOf
<1>8. Multiplied(bytes, digit) = low \o high
  BY DEF Multiplied, c, n
<1> HIDE DEF low, high
<1>9. CASE c[n] = 0
  <2>1. low \o high = low
    BY <1>5, <1>7, <1>9
  <2>2. QED BY <2>1, <1>1, <1>2, <1>5, <1>8, <1>9 DEF c, n, Passed
<1>10. CASE c[n] # 0
  <2> DEFINE x == c[n]
  <2>1. low \o high = Append(low, x) /\ x \in Byte
    BY <1>5, <1>6, <1>7, <1>10
  <2> HIDE DEF x
  <2> DEFINE r == Append(low, x)
  <2>2. r \in Seq(Byte) /\ Len(r) = n + 1 /\ r[n + 1] = x /\ \A i \in 1..n : r[i] = low[i]
    BY <2>1, <1>1, <1>5
  <2> HIDE DEF r
  <2>3. Multiplied(bytes, digit) = r
    BY <2>1, <1>8 DEF r
  <2>4. QED BY <2>2, <2>3, <1>1, <1>2, <1>5, <1>10 DEF c, n, x, Passed
<1>11. QED BY <1>9, <1>10

LEMMA SmallIntegers == (\A v \in Digits58 : v \in Int) /\ (\A v \in Byte : v \in Int)
BY DEF Digits58, Byte

LEMMA BytesAreIntegers ==
  ASSUME NEW s \in Seq(Byte)
  PROVE  s \in Seq(Int)
<1>1. Len(s) \in Nat /\ DOMAIN s = 1..Len(s) /\ \A i \in 1..Len(s) : s[i] \in Byte
  BY ElementsOf
<1>2. \A x \in Byte : x \in Int
  BY DEF Byte
<1>3. s = [i \in 1..Len(s) |-> s[i]]
  BY <1>1
<1>4. QED BY <1>1, <1>2, <1>3

LEMMA ReverseOf ==
  ASSUME NEW S, NEW s \in Seq(S)
  PROVE  /\ Reverse(s) \in Seq(S) /\ Len(Reverse(s)) = Len(s) /\ Len(s) \in Nat
         /\ \A i \in 1..Len(s) : Reverse(s)[i] = s[(Len(s) - i) + 1]
BY DEF Reverse

\* The pass multiplies by 58 and adds the digit: seen from the highest byte down,
\* what the bytes of the product stand for is 58 times the number and the carry
\* that still comes in.
LEMMA ProductNumber ==
  ASSUME NEW bytes \in Seq(Byte), NEW digit \in Digits58
  PROVE  Number(Reverse(Multiplied(bytes, digit)), 256) = 58 * Number(Reverse(bytes), 256) + digit
<1> DEFINE r == Multiplied(bytes, digit)
           c == Carries(bytes, digit)
           n == Len(bytes)
           m == Len(r)
           e == m - n
           A == Horner(Reverse(r), 256)
           B == Horner(Reverse(bytes), 256)
<1>1. Passed(r, c, bytes, digit, n)
  BY MultipliedOf, Zenon
<1> USE DEF Passed
<1> HIDE DEF r, c
<1>2. \A i \in 1..n : bytes[i] \in Byte
  BY ElementsOf
<1>3. e \in 0..1 /\ m = n + e /\ (e = 0 => c[n] = 0) /\ (e = 1 => r[n + 1] = c[n])
  BY <1>1
<1>4. /\ Reverse(r) \in Seq(Byte) /\ Len(Reverse(r)) = m
      /\ \A i \in 1..m : Reverse(r)[i] = r[(m - i) + 1]
  BY <1>1, ReverseOf
<1>5. /\ Reverse(bytes) \in Seq(Byte) /\ Len(Reverse(bytes)) = n
      /\ \A i \in 1..n : Reverse(bytes)[i] = bytes[(n - i) + 1]
  BY ReverseOf
<1>6. \A s \in Seq(Byte) : s \in Seq(Int)
  BY BytesAreIntegers
<1>7. A[0] = 0 /\ \A i \in 1..m : A[i] = 256 * A[i - 1] + Reverse(r)[i] /\ A[i] \in Int /\ A[i - 1] \in Int
  BY <1>4, <1>6, Horner256
<1>8. B[0] = 0 /\ \A i \in 1..n : B[i] = 256 * B[i - 1] + Reverse(bytes)[i] /\ B[i] \in Int /\ B[i - 1] \in Int
  BY <1>5, <1>6, Horner256
<1> HIDE DEF n, m, e, A, B
<1> DEFINE Bad == {k \in 0..n : A[k + e] # 58 * B[k] + c[n - k]}
<1>9. ASSUME NEW k \in Bad PROVE \E l \in Bad : l < k
  <2>1. k \in 0..n /\ k \in Nat /\ A[k + e] # 58 * B[k] + c[n - k]
    BY <1>9
  <2>2. k # 0
    <3>1. SUFFICES ASSUME k = 0 PROVE A[e] = 58 * 0 + c[n]
      BY <2>1, <1>1, <1>3, <1>8
    <3>2. CASE e = 0
      BY <3>2, <1>3, <1>7
    <3>3. CASE e = 1
      <4>1. A[1] = 256 * A[0] + Reverse(r)[1] /\ Reverse(r)[1] = r[n + 1]
        <5>1. 1 \in 1..m /\ (m - 1) + 1 = n + 1 /\ 1 - 1 = 0
          BY <3>3, <1>1, <1>3
        <5>2. QED BY <5>1, <1>4, <1>7
      <4>2. c[n] \in Int
        <5>1. n \in 0..n
          BY <1>1
        <5>2. QED BY <5>1, <1>1, SmallIntegers
      <4>3. QED BY <3>3, <4>1, <4>2, <1>3, <1>7
    <3>4. QED BY <3>2, <3>3, <1>3
  <2> DEFINE j == (n - k) + 1
             s == Sum(c[j - 1], bytes[j])
  <2>3. /\ j \in 1..n /\ k - 1 \in 0..n /\ k - 1 < k /\ n - (k - 1) = j /\ n - k = j - 1 /\ j - 1 \in 0..n
        /\ k + e \in 1..m /\ (k + e) - 1 = (k - 1) + e /\ (m - (k + e)) + 1 = j /\ k \in 1..n
    BY <2>1, <2>2, <1>1, <1>3
  <2>12. Reverse(bytes)[k] = bytes[j]
    BY <2>3, <1>5
  <2> HIDE DEF j
  <2>4. c[j - 1] \in Digits58 /\ bytes[j] \in Byte /\ c[j] \in Digits58
    BY <2>3, <1>1, <1>2
  <2>5. c[j] = s \div 256 /\ r[j] = s % 256
    BY <2>3, <1>1
  <2>6. s = c[j - 1] + bytes[j] * 58 /\ s = 256 * c[j] + r[j] /\ r[j] \in Byte
    <3>1. Summed(s, c[j - 1], bytes[j])
      BY <2>4, SumOf, Zenon
    <3> HIDE DEF s
    <3>2. QED BY <3>1, <2>5 DEF Summed
  <2> HIDE DEF s
  <2>7. A[k + e] = 256 * A[(k - 1) + e] + r[j] /\ A[(k - 1) + e] \in Int
    BY <2>3, <1>4, <1>7
  <2>8. B[k] = 256 * B[k - 1] + bytes[j] /\ B[k - 1] \in Int
    BY <2>3, <2>12, <1>8
  <2>9. A[(k - 1) + e] # 58 * B[k - 1] + c[j]
    <3> DEFINE a1 == A[k + e]
               a0 == A[(k - 1) + e]
               b1 == B[k]
               b0 == B[k - 1]
               cj == c[j]
               ci == c[j - 1]
               x == bytes[j]
               y == r[j]
    <3>1. a1 = 256 * a0 + y /\ b1 = 256 * b0 + x /\ s = ci + x * 58 /\ s = 256 * cj + y
      BY <2>6, <2>7, <2>8
    <3>2. a0 \in Int /\ b0 \in Int /\ cj \in Int /\ ci \in Int /\ x \in Int /\ y \in Int
      BY SmallIntegers, <2>4, <2>6, <2>7, <2>8
    <3>3. a1 # 58 * b1 + ci
      BY <2>1, <2>3
    <3> HIDE DEF a1, a0, b1, b0, cj, ci, x, y
    <3>4. a0 # 58 * b0 + cj
      BY <3>1, <3>2, <3>3
    <3>5. QED BY <3>4 DEF a0, b0, cj
  <2>10. k - 1 \in Bad
    BY <2>3, <2>9
  <2>11. QED BY <2>3, <2>10
<1>10. Bad \in SUBSET Nat
  BY <1>1
<1>11. Bad = {}
  <2> HIDE DEF Bad
  <2> QED BY <1>9, <1>10, NoLeast
<1>12. A[n + e] = 58 * B[n] + c[0]
  <2>1. n \in 0..n /\ n - n = 0
    BY <1>1
  <2>2. QED BY <2>1, <1>11
<1>13. QED BY <1>1, <1>3, <1>4, <1>5, <1>12 DEF Number, A, B, r

\* A pass adds one byte at most, and a number without a zero in front stays so.
LEMMA PassLength ==
  ASSUME NEW bytes \in Seq(Byte), NEW digit \in Digits58, Len(bytes) >= 1
  PROVE  LET r == Multiplied(bytes, digit)
         IN /\ r \in Seq(Byte) /\ Len(r) >= 1 /\ Len(r) <= Len(bytes) + 1
            /\ bytes[Len(bytes)] # 0 => r[Len(r)] # 0
            /\ bytes = <<0>> => r = <<digit>>
<1> DEFINE r == Multiplied(bytes, digit)
           c == Carries(bytes, digit)
           n == Len(bytes)
           s == Sum(c[n - 1], bytes[n])
<1>1. Passed(r, c, bytes, digit, n)
  BY MultipliedOf, Zenon
<1> HIDE DEF r, c
<1>2. n \in Nat /\ n \in 1..n /\ n \in 0..n /\ n - 1 \in 0..n /\ r \in Seq(Byte) /\ Len(r) \in Nat
  BY <1>1 DEF Passed
<1>3. c[n - 1] \in Digits58 /\ bytes[n] \in Byte /\ c[n] \in Digits58
  BY <1>1, <1>2, ElementsOf DEF Passed
<1>4. c[n] = s \div 256 /\ r[n] = s % 256
  BY <1>1, <1>2 DEF Passed
<1>5. s = c[n - 1] + bytes[n] * 58 /\ s = 256 * c[n] + r[n] /\ r[n] \in Byte
  <2>1. Summed(s, c[n - 1], bytes[n])
    BY <1>3, SumOf, Zenon
  <2> HIDE DEF s
  <2>2. QED BY <2>1, <1>4 DEF Summed
<1>6. Len(r) >= 1 /\ Len(r) <= n + 1
  BY <1>1, <1>2 DEF Passed
<1> HIDE DEF n, s
<1>7. bytes[n] # 0 => r[Len(r)] # 0
  <2>1. CASE c[n] # 0
    BY <2>1, <1>1 DEF Passed
  <2>2. CASE c[n] = 0
    <3>1. Len(r) = n
      BY <2>2, <1>1 DEF Passed
    <3> DEFINE ci == c[n - 1]
               x == bytes[n]
               y == r[n]
    <3>2. s = ci + x * 58 /\ s = 256 * 0 + y /\ ci \in Digits58 /\ x \in Byte /\ y \in Byte
      BY <1>3, <1>5, <2>2
    <3> HIDE DEF ci, x, y
    <3>3. x # 0 => y # 0
      BY <3>2 DEF Digits58, Byte
    <3>4. QED BY <3>1, <3>3 DEF x, y
  <2>3. QED BY <2>1, <2>2
<1>8. bytes = <<0>> => r = <<digit>>
  <2>1. HAVE bytes = <<0>>
  <2>2. n = 1 /\ bytes[1] = 0 /\ n - 1 = 0 /\ c[0] = digit
    BY <2>1, <1>1 DEF n, Passed
  <2> DEFINE y == r[1]
             d == c[1]
  <2>3. s = digit + 0 * 58 /\ s = 256 * d + y /\ y \in Byte /\ d \in Digits58
    BY <2>2, <1>3, <1>5
  <2> HIDE DEF y, d
  <2>4. y = digit /\ d = 0
    BY <2>3 DEF Byte, Digits58
  <2>5. Len(r) = 1 /\ r[1] = digit
    BY <2>2, <2>4, <1>1 DEF y, d, Passed
  <2>6. QED BY <2>5, <1>2
<1>9. QED BY <1>2, <1>6, <1>7, <1>8 DEF n, r

-----------------------------------------------------------------------------
(* base58: the invariant.                                                   *)

AllOnes(digits, n) == \A i \in 1..n : digits[i] = 0

\* s, the lowest byte first, is the number that the first n digits stand for:
\* without a zero in front, but for the number zero, which is one byte, and one
\* byte for each digit after the ones in front at most, and one more.
Reads(s, digits, n) ==
  /\ s \in Seq(Byte) /\ Len(s) >= 1
  /\ Number(Reverse(s), 256) = Horner(digits, 58)[n]
  /\ IF AllOnes(digits, n) THEN s = <<0>> ELSE s[Len(s)] # 0
  /\ \A k \in 0..n : AllOnes(digits, k) => Len(s) <= (n - k) + 1

Zeros(n) == [i \in 1..n |-> 0]

Base58Inv ==
  /\ input \in Seq(-1..57) /\ outsize \in Nat /\ read \in 0..Len(input)
  /\ decoding \in {"digits", "ones", "done"}
  /\ InAlphabet =>
       /\ decoding = "digits" => Reads(result, input, read)
       /\ decoding \in {"ones", "done"} => AllOnes(input, read)
       /\ decoding = "ones" => \E low : Reads(low, input, Len(input)) /\ result = low \o Zeros(read)
       /\ decoding = "done" =>
            /\ ~ OneInFront /\ output = SubSeq(result, 1, Copied)
            /\ \E low : Reads(low, input, Len(input)) /\ result = Zeros(read) \o Reverse(low)

\* A text of the alphabet is a sequence of digits.
LEMMA DigitsOf ==
  ASSUME NEW digits \in Seq(-1..57), \A i \in DOMAIN digits : digits[i] >= 0
  PROVE  digits \in Seq(Int) /\ Len(digits) \in Nat /\ \A i \in 1..Len(digits) : digits[i] \in Digits58
<1>1. Len(digits) \in Nat /\ DOMAIN digits = 1..Len(digits) /\ \A i \in 1..Len(digits) : digits[i] \in -1..57
  BY ElementsOf
<1>2. \A v \in -1..57 : v \in Int /\ (v >= 0 => v \in Digits58)
  BY DEF Digits58
<1>3. digits = [i \in 1..Len(digits) |-> digits[i]]
  BY <1>1
<1>4. digits \in Seq(Int)
  <2> DEFINE l == Len(digits)
  <2>1. \A i \in 1..l : digits[i] \in Int
    BY <1>1, <1>2
  <2>2. digits \in [1..l -> Int] /\ l \in Nat
    <3> HIDE DEF l
    <3>1. QED BY <1>1, <1>3, <2>1 DEF l
  <2>3. QED BY <2>2
<1>5. QED BY <1>1, <1>2, <1>4

\* No digit makes the number zero.
LEMMA ReadsNothing ==
  ASSUME NEW digits \in Seq(Int)
  PROVE  Reads(<<0>>, digits, 0)
<1> DEFINE s == <<0>>
<1>1. s \in Seq(Byte) /\ Len(s) = 1 /\ s[1] = 0
  BY DEF Byte
<1> HIDE DEF s
<1>2. Reverse(s) \in Seq(Byte) /\ Len(Reverse(s)) = 1 /\ Reverse(s)[1] = 0
  <2>1. /\ Reverse(s) \in Seq(Byte) /\ Len(Reverse(s)) = Len(s)
        /\ \A i \in 1..Len(s) : Reverse(s)[i] = s[(Len(s) - i) + 1]
    BY <1>1, ReverseOf
  <2>2. 1 \in 1..Len(s) /\ (Len(s) - 1) + 1 = 1
    BY <1>1
  <2>3. QED BY <2>1, <2>2, <1>1
<1>3. Horner(Reverse(s), 256)[1] = 0
  <2>1. Reverse(s) \in Seq(Int) /\ 1 \in 1..Len(Reverse(s)) /\ 1 - 1 = 0
    BY <1>2, BytesAreIntegers
  <2>2. Horner(Reverse(s), 256)[0] = 0
    BY <2>1, Horner256
  <2>3. Horner(Reverse(s), 256)[1] = 256 * Horner(Reverse(s), 256)[1 - 1] + Reverse(s)[1]
    BY <2>1, Horner256
  <2>4. QED BY <2>1, <2>2, <2>3, <1>2
<1>4. Number(Reverse(s), 256) = Horner(digits, 58)[0]
  BY <1>2, <1>3, Horner58 DEF Number
<1>5. AllOnes(digits, 0)
  BY DEF AllOnes
<1>6. QED BY <1>1, <1>4, <1>5 DEF Reads, s

\* One more digit.
LEMMA ReadsDigit ==
  ASSUME NEW digits \in Seq(Int), NEW n \in Nat, n < Len(digits), digits[n + 1] \in Digits58, NEW s, Reads(s, digits, n)
  PROVE  Reads(Multiplied(s, digits[n + 1]), digits, n + 1)
<1> DEFINE d == digits[n + 1]
           r == Multiplied(s, d)
<1>1. s \in Seq(Byte) /\ Len(s) >= 1 /\ Len(s) \in Nat /\ d \in Digits58
  BY DEF Reads
<1>2. /\ r \in Seq(Byte) /\ Len(r) >= 1 /\ Len(r) <= Len(s) + 1
      /\ s[Len(s)] # 0 => r[Len(r)] # 0
      /\ s = <<0>> => r = <<d>>
  <2> HIDE DEF d
  <2>1. QED BY <1>1, PassLength
<1>3. Number(Reverse(r), 256) = Horner(digits, 58)[n + 1]
  <2>1. Number(Reverse(r), 256) = 58 * Number(Reverse(s), 256) + d
    <3> HIDE DEF d
    <3>1. QED BY <1>1, ProductNumber
  <2>2. Horner(digits, 58)[n + 1] = 58 * Horner(digits, 58)[n] + d
    <3>1. n + 1 \in 1..Len(digits) /\ (n + 1) - 1 = n
      OBVIOUS
    <3>2. Horner(digits, 58)[n + 1] = 58 * Horner(digits, 58)[(n + 1) - 1] + digits[n + 1]
      BY <3>1, Horner58
    <3>3. QED BY <3>1, <3>2
  <2>3. QED BY <2>1, <2>2 DEF Reads
<1>4. AllOnes(digits, n + 1) <=> AllOnes(digits, n) /\ d = 0
  <2>1. \A i \in 1..(n + 1) : i \in 1..n \/ i = n + 1
    OBVIOUS
  <2>2. \A i \in 1..n : i \in 1..(n + 1)
    OBVIOUS
  <2>3. n + 1 \in 1..(n + 1)
    OBVIOUS
  <2>4. QED BY <2>1, <2>2, <2>3 DEF AllOnes
<1> HIDE DEF d, r
<1>5. IF AllOnes(digits, n + 1) THEN r = <<0>> ELSE r[Len(r)] # 0
  <2>1. CASE AllOnes(digits, n)
    <3>1. r = <<d>>
      BY <2>1, <1>2 DEF Reads
    <3>2. Len(r) = 1 /\ r[1] = d
      BY <3>1
    <3>3. QED BY <3>1, <3>2, <2>1, <1>4
  <2>2. CASE ~ AllOnes(digits, n)
    BY <2>2, <1>2, <1>4 DEF Reads
  <2>3. QED BY <2>1, <2>2
<1>6. ASSUME NEW k \in 0..(n + 1), AllOnes(digits, k) PROVE Len(r) <= ((n + 1) - k) + 1
  <2>1. CASE k \in 0..n
    <3>1. Len(s) <= (n - k) + 1
      BY <2>1, <1>6 DEF Reads
    <3>2. QED BY <3>1, <2>1, <1>1, <1>2
  <2>2. CASE k = n + 1
    <3>1. r = <<0>>
      BY <2>2, <1>5, <1>6
    <3>2. QED BY <3>1, <2>2
  <2>3. QED BY <2>1, <2>2
<1>7. QED BY <1>2, <1>3, <1>5, <1>6 DEF Reads, r, d

Base58Types == input \in Seq(-1..57) /\ outsize \in Nat /\ read \in 0..Len(input) /\ decoding \in {"digits", "ones", "done"}

LEMMA Base58Start ==
  ASSUME Base58Init
  PROVE  Base58Inv
<1>1. input \in Seq(-1..57) /\ outsize \in Nat /\ read = 0 /\ result = <<0>> /\ decoding = "digits"
  BY Base58Given DEF Base58Init, Base58Assumption
<1>2. Len(input) \in Nat
  BY <1>1
<1>3. InAlphabet => Reads(result, input, read)
  BY <1>1, DigitsOf, ReadsNothing DEF InAlphabet
<1>4. QED BY <1>1, <1>2, <1>3 DEF Base58Inv

\* A one more: the bytes get a zero more at the end.
LEMMA OneZeroMore ==
  ASSUME NEW low \in Seq(Byte), NEW n \in Nat
  PROVE  Append(low \o Zeros(n), 0) = low \o Zeros(n + 1)
<1>1. \A k \in Nat : Zeros(k) \in Seq(Byte) /\ Len(Zeros(k)) = k /\ \A i \in 1..k : Zeros(k)[i] = 0
  <2>1. 0 \in Byte
    BY DEF Byte
  <2>2. QED BY <2>1 DEF Zeros
<1> DEFINE z == Zeros(n)
           y == Zeros(n + 1)
<1>2. z \in Seq(Byte) /\ Len(z) = n /\ \A i \in 1..n : z[i] = 0
  BY <1>1
<1>3. y \in Seq(Byte) /\ Len(y) = n + 1 /\ \A i \in 1..(n + 1) : y[i] = 0
  BY <1>1
<1> HIDE DEF z, y
<1>4. y = Append(z, 0)
  BY <1>2, <1>3
<1>5. Append(low \o z, 0) = low \o Append(z, 0)
  BY <1>2, 0 \in Byte DEF Byte
<1>6. QED BY <1>4, <1>5 DEF z, y

LEMMA ReverseZeros ==
  ASSUME NEW low \in Seq(Byte), NEW n \in Nat
  PROVE  Reverse(low \o Zeros(n)) = Zeros(n) \o Reverse(low)
<1> DEFINE z == Zeros(n)
           a == low \o z
           v == Reverse(low)
           b == z \o v
           l == Len(low)
<1>1. z \in Seq(Byte) /\ Len(z) = n /\ \A i \in 1..n : z[i] = 0
  <2>1. 0 \in Byte
    BY DEF Byte
  <2>2. QED BY <2>1 DEF Zeros
<1>2. v \in Seq(Byte) /\ Len(v) = l /\ l \in Nat /\ \A i \in 1..l : v[i] = low[(l - i) + 1]
  BY ReverseOf
<1> HIDE DEF z, v
<1>3. /\ a \in Seq(Byte) /\ Len(a) = l + n /\ \A i \in 1..l : a[i] = low[i]
      /\ \A i \in (l + 1)..(l + n) : a[i] = z[i - l]
  BY <1>1, Concat
<1>4. /\ b \in Seq(Byte) /\ Len(b) = n + l /\ \A i \in 1..n : b[i] = z[i]
      /\ \A i \in (n + 1)..(n + l) : b[i] = v[i - n]
  <2>1. /\ b \in Seq(Byte) /\ Len(b) = Len(z) + Len(v) /\ \A i \in 1..Len(z) : b[i] = z[i]
        /\ \A i \in (Len(z) + 1)..(Len(z) + Len(v)) : b[i] = v[i - Len(z)]
    <3>1. z \in Seq(Byte) /\ v \in Seq(Byte)
      BY <1>1, <1>2
    <3>2. QED BY <3>1, Concat, Zenon
  <2> HIDE DEF b, l
  <2>2. Len(z) = n /\ Len(v) = l
    BY <1>1, <1>2
  <2>3. QED BY <2>1, <2>2
<1> HIDE DEF a, b, l
<1> DEFINE w == Reverse(a)
<1>5. w \in Seq(Byte) /\ Len(w) = l + n /\ \A i \in 1..(l + n) : w[i] = a[((l + n) - i) + 1]
  <2>1. w \in Seq(Byte) /\ Len(w) = Len(a) /\ \A i \in 1..Len(a) : w[i] = a[(Len(a) - i) + 1]
    BY <1>3, ReverseOf
  <2> HIDE DEF w
  <2>2. Len(a) = l + n
    BY <1>3
  <2>3. QED BY <2>1, <2>2
<1> HIDE DEF w
<1>6. ASSUME NEW i \in 1..(l + n) PROVE w[i] = b[i]
  <2>1. CASE i \in 1..n
    <3>1. ((l + n) - i) + 1 \in (l + 1)..(l + n) /\ (((l + n) - i) + 1) - l \in 1..n
      BY <2>1, <1>1, <1>2
    <3>2. w[i] = 0
      BY <3>1, <1>1, <1>3, <1>5
    <3>3. QED BY <3>2, <2>1, <1>1, <1>4
  <2>2. CASE i \in (n + 1)..(l + n)
    <3>1. /\ ((l + n) - i) + 1 \in 1..l /\ i - n \in 1..l /\ i \in (n + 1)..(n + l)
          /\ (l - (i - n)) + 1 = ((l + n) - i) + 1
      BY <2>2, <1>1, <1>2
    <3>2. w[i] = low[((l + n) - i) + 1] /\ b[i] = v[i - n]
      BY <3>1, <1>3, <1>4, <1>5
    <3>3. QED BY <3>1, <3>2, <1>2
  <2>3. QED BY <2>1, <2>2, <1>1, <1>2
<1>7. w = b
  BY <1>4, <1>5, <1>6, <1>1, <1>2
<1>8. QED BY <1>7 DEF w, b, a, z, v

LEMMA Base58Steps ==
  ASSUME Base58Inv, [Base58Next]_base58Vars
  PROVE  Base58Inv'
<1> DEFINE N == Len(input)
<1>1. Base58Types /\ N \in Nat
  BY DEF Base58Inv, Base58Types
<1>2. CASE DecodeDigit /\ read < N
  <2>1. /\ decoding = "digits" /\ result' = Multiplied(result, input[read + 1]) /\ read' = read + 1
        /\ UNCHANGED <<decoding, input, outsize, output>>
    BY <1>2 DEF DecodeDigit
  <2>2. Base58Types'
    BY <1>1, <1>2, <2>1 DEF Base58Types
  <2>3. InAlphabet => Reads(result', input, read + 1)
    <3>1. SUFFICES ASSUME InAlphabet PROVE Reads(result', input, read + 1)
      OBVIOUS
    <3>2. Reads(result, input, read)
      BY <2>1, <3>1 DEF Base58Inv
    <3>3. input \in Seq(Int) /\ input[read + 1] \in Digits58 /\ read \in Nat
      <4>1. read + 1 \in 1..N /\ read \in Nat
        BY <1>1, <1>2 DEF Base58Types
      <4>2. QED BY <4>1, <1>1, <3>1, DigitsOf DEF InAlphabet, Base58Types
    <3>4. QED BY <3>2, <3>3, <1>2, <2>1, ReadsDigit
  <2>4. InAlphabet' = InAlphabet
    BY <2>1 DEF InAlphabet
  <2>5. QED BY <2>1, <2>2, <2>3, <2>4 DEF Base58Inv, Base58Types
<1>3. CASE DecodeDigit /\ ~ (read < N)
  <2>1. decoding = "digits" /\ read' = 0 /\ decoding' = "ones" /\ UNCHANGED <<result, input, outsize, output>>
    BY <1>3 DEF DecodeDigit
  <2>2. Base58Types' /\ read = N
    BY <1>1, <1>3, <2>1 DEF Base58Types
  <2>3. InAlphabet => Reads(result, input, N)
    BY <2>1, <2>2 DEF Base58Inv
  <2>4. InAlphabet => result = result \o Zeros(0)
    <3>1. Zeros(0) = << >>
      BY DEF Zeros
    <3>2. QED BY <3>1, <2>3 DEF Reads
  <2>5. AllOnes(input, 0)
    BY DEF AllOnes
  <2>6. InAlphabet => \E low : Reads(low, input', Len(input')) /\ result' = low \o Zeros(read')
    BY <2>1, <2>3, <2>4
  <2>7. InAlphabet' = InAlphabet
    BY <2>1 DEF InAlphabet
  <2>8. QED BY <2>1, <2>2, <2>5, <2>6, <2>7 DEF Base58Inv, Base58Types
<1>4. CASE LeadingOne
  <2>1. /\ decoding = "ones" /\ read < N /\ input[read + 1] = 0 /\ result' = Append(result, 0) /\ read' = read + 1
        /\ UNCHANGED <<input, outsize, output, decoding>>
    BY <1>4 DEF LeadingOne, OneInFront
  <2>2. Base58Types' /\ read \in Nat
    BY <1>1, <2>1 DEF Base58Types
  <2>3. ASSUME InAlphabet
        PROVE  AllOnes(input, read + 1) /\ \E low : Reads(low, input, N) /\ result' = low \o Zeros(read + 1)
    <3>1. PICK low : Reads(low, input, N) /\ result = low \o Zeros(read)
      BY <2>1, <2>3 DEF Base58Inv
    <3>2. result' = low \o Zeros(read + 1)
      BY <3>1, <2>1, <2>2, OneZeroMore DEF Reads
    <3>3. AllOnes(input, read)
      BY <2>1, <2>3 DEF Base58Inv
    <3>4. \A i \in 1..(read + 1) : i \in 1..read \/ i = read + 1
      BY <2>2
    <3>5. AllOnes(input, read + 1)
      BY <3>3, <3>4, <2>1 DEF AllOnes
    <3>6. QED BY <3>1, <3>2, <3>5
  <2>4. InAlphabet' = InAlphabet
    BY <2>1 DEF InAlphabet
  <2>5. QED BY <2>1, <2>2, <2>3, <2>4 DEF Base58Inv, Base58Types
<1>5. CASE Deliver
  <2>1. /\ decoding = "ones" /\ ~ OneInFront /\ result' = Reverse(result) /\ decoding' = "done"
        /\ output' = SubSeq(Reverse(result), 1, Copied) /\ UNCHANGED <<input, outsize, read>>
    BY <1>5 DEF Deliver
  <2>2. Base58Types' /\ read \in Nat
    BY <1>1, <2>1 DEF Base58Types
  <2>3. ASSUME InAlphabet
        PROVE  /\ AllOnes(input, read) /\ output' = SubSeq(result', 1, Copied')
               /\ \E low : Reads(low, input, N) /\ result' = Zeros(read) \o Reverse(low)
    <3>1. PICK low : Reads(low, input, N) /\ result = low \o Zeros(read)
      BY <2>1, <2>3 DEF Base58Inv
    <3>2. Reverse(result) = Zeros(read) \o Reverse(low)
      BY <3>1, <2>2, ReverseZeros DEF Reads
    <3>3. AllOnes(input, read)
      BY <2>1, <2>3 DEF Base58Inv
    <3>4. result \in Seq(Byte)
      <4>1. low \in Seq(Byte) /\ Zeros(read) \in Seq(Byte)
        <5>1. 0 \in Byte
          BY DEF Byte
        <5>2. QED BY <5>1, <3>1, <2>2 DEF Reads, Zeros
      <4>2. QED BY <4>1, <3>1, Concat
    <3>5. Len(result') = Len(result)
      BY <3>4, <2>1, ReverseOf
    <3>6. Copied' = Copied
      BY <3>5, <2>1 DEF Copied
    <3>7. QED BY <3>1, <3>2, <3>3, <3>6, <2>1
  <2>4. InAlphabet' = InAlphabet /\ OneInFront' = OneInFront
    BY <2>1 DEF InAlphabet, OneInFront
  <2>5. QED BY <2>1, <2>2, <2>3, <2>4 DEF Base58Inv, Base58Types
<1>6. CASE UNCHANGED base58Vars
  BY <1>6 DEF base58Vars, Base58Inv, InAlphabet, OneInFront, Copied
<1>7. QED BY <1>2, <1>3, <1>4, <1>5, <1>6 DEF Base58Next

\* The ones in front end where the decoder stopped.
LEMMA OnesRead ==
  ASSUME input \in Seq(Int), read \in 0..Len(input), AllOnes(input, read), ~ OneInFront, Ones < Len(input)
  PROVE  Ones = read /\ read < Len(input) /\ input[read + 1] # 0
<1>1. Len(input) \in Nat /\ DOMAIN input = 1..Len(input) /\ read \in Nat /\ read <= Len(input)
  OBVIOUS
<1>2. read < Len(input)
  <2>1. ASSUME read = Len(input) PROVE FALSE
    <3>1. \A i \in DOMAIN input : input[i] = 0
      BY <1>1, <2>1 DEF AllOnes
    <3>2. QED BY <3>1, <1>1 DEF Ones
  <2> DEFINE N == Len(input)
  <2>2. N \in Nat /\ read <= N /\ read # N
    BY <2>1, <1>1
  <2> HIDE DEF N
  <2>3. read < N
    BY <2>2, <1>1
  <2>4. QED BY <2>3 DEF N
<1>3. read + 1 \in 1..Len(input) /\ input[read + 1] # 0
  BY <1>1, <1>2 DEF OneInFront
<1> DEFINE Starts(i) == i \in DOMAIN input /\ input[i] # 0 /\ \A j \in 1..(i - 1) : input[j] = 0
           first == CHOOSE i \in DOMAIN input : input[i] # 0 /\ \A j \in 1..(i - 1) : input[j] = 0
<1>4. Starts(read + 1)
  <2>1. (read + 1) - 1 = read
    BY <1>1
  <2>2. QED BY <2>1, <1>1, <1>3 DEF AllOnes
<1>5. Starts(first)
  BY <1>4
<1>6. Ones = first - 1
  BY <1>1, <1>3 DEF Ones
<1> HIDE DEF first
<1>7. first = read + 1
  <2>1. first \in 1..Len(input) /\ input[first] # 0 /\ \A j \in 1..(first - 1) : input[j] = 0
    BY <1>1, <1>5
  <2>2. first \in Int
    BY <2>1
  <2>3. CASE first < read + 1
    <3>1. first \in 1..read
      BY <2>1, <2>2, <2>3, <1>1
    <3>2. QED BY <3>1, <2>1 DEF AllOnes
  <2>4. CASE first > read + 1
    <3>1. read + 1 \in 1..(first - 1)
      BY <2>2, <2>4, <1>1
    <3>2. QED BY <3>1, <2>1, <1>3
  <2>5. QED BY <2>2, <2>3, <2>4, <1>1
<1>8. QED BY <1>1, <1>2, <1>3, <1>6, <1>7

LEMMA ZerosAreBytes ==
  ASSUME NEW n \in Nat
  PROVE  Zeros(n) \in Seq(Byte) /\ Len(Zeros(n)) = n /\ \A i \in 1..n : Zeros(n)[i] = 0
<1>1. 0 \in Byte
  BY DEF Byte
<1>2. QED BY <1>1 DEF Zeros

\* As long as a buffer of 137 hundredths of the text: a byte for each digit, and
\* one more.
LEMMA BytesFit ==
  ASSUME Base58Inv
  PROVE  ResultFits
<1> DEFINE N == Len(input)
<1>1. SUFFICES ASSUME InAlphabet, N >= 3 PROVE Len(result) <= (N * 137) \div 100
  BY DEF ResultFits
<1>2. N \in Nat /\ read \in 0..N
  BY DEF Base58Inv
<1>3. \A s : Reads(s, input, N) /\ AllOnes(input, read) => s \in Seq(Byte) /\ Len(s) \in Nat /\ Len(s) + read <= N + 1
  <2>1. SUFFICES ASSUME NEW s, Reads(s, input, N), AllOnes(input, read)
                 PROVE  s \in Seq(Byte) /\ Len(s) \in Nat /\ Len(s) + read <= N + 1
    OBVIOUS
  <2>2. s \in Seq(Byte) /\ Len(s) <= (N - read) + 1
    BY <2>1, <1>2 DEF Reads
  <2>3. Len(s) \in Nat
    BY <2>2
  <2>4. QED BY <2>2, <2>3, <1>2
<1>4. Len(result) \in Nat /\ Len(result) <= N + 1
  <2>1. CASE decoding = "digits"
    <3>1. Reads(result, input, read) /\ AllOnes(input, 0)
      BY <1>1, <2>1 DEF Base58Inv, AllOnes
    <3>2. result \in Seq(Byte) /\ Len(result) <= (read - 0) + 1
      BY <3>1, <1>2 DEF Reads
    <3>3. Len(result) \in Nat
      BY <3>2
    <3>4. QED BY <3>2, <3>3, <1>2
  <2>2. CASE decoding = "ones"
    <3>1. PICK low : Reads(low, input, N) /\ result = low \o Zeros(read)
      BY <1>1, <2>2 DEF Base58Inv
    <3>2. AllOnes(input, read)
      BY <1>1, <2>2 DEF Base58Inv
    <3>3. low \in Seq(Byte) /\ Zeros(read) \in Seq(Byte) /\ Len(Zeros(read)) = read
      BY <3>1, <1>2, ZerosAreBytes DEF Reads
    <3>4. Len(result) = Len(low) + read
      BY <3>1, <3>3, Concat
    <3>5. QED BY <3>1, <3>2, <3>4, <1>2, <1>3
  <2>3. CASE decoding = "done"
    <3>1. PICK low : Reads(low, input, N) /\ result = Zeros(read) \o Reverse(low)
      BY <1>1, <2>3 DEF Base58Inv
    <3>2. AllOnes(input, read)
      BY <1>1, <2>3 DEF Base58Inv
    <3>3. low \in Seq(Byte) /\ Zeros(read) \in Seq(Byte) /\ Len(Zeros(read)) = read
      BY <3>1, <1>2, ZerosAreBytes DEF Reads
    <3>4. Reverse(low) \in Seq(Byte) /\ Len(Reverse(low)) = Len(low)
      BY <3>3, ReverseOf
    <3>5. Len(result) = Len(Zeros(read)) + Len(Reverse(low))
      BY <3>1, <3>3, <3>4, Concat, Zenon
    <3>6. QED BY <3>1, <3>2, <3>3, <3>4, <3>5, <1>2, <1>3
  <2>4. QED BY <2>1, <2>2, <2>3 DEF Base58Inv
<1> DEFINE l == Len(result)
<1> HIDE DEF l, N
<1>5. l <= (N * 137) \div 100
  <2>1. l \in Nat /\ N \in Nat /\ N >= 3 /\ l <= N + 1
    BY <1>1, <1>2, <1>4 DEF l
  <2>2. 100 * (N + 1) <= N * 137
    BY <2>1
  <2>3. N + 1 <= (N * 137) \div 100
    BY <2>1, <2>2
  <2>4. QED BY <2>1, <2>3
<1>6. QED BY <1>5 DEF l

LEMMA DigitsBehind ==
  ASSUME Base58Inv
  PROVE  BytesAreNumber
<1>1. SUFFICES ASSUME decoding = "digits", InAlphabet
               PROVE  /\ Number(Reverse(result), 256) = Horner(input, 58)[read]
                      /\ Len(result) > 1 => result[Len(result)] # 0
  BY DEF BytesAreNumber
<1>2. Reads(result, input, read)
  BY <1>1 DEF Base58Inv
<1>3. result = <<0>> => Len(result) = 1
  OBVIOUS
<1>4. QED BY <1>2, <1>3 DEF Reads

\* The zero bytes and the number, whose first byte is not zero.
LEMMA DeliveredIs ==
  ASSUME Base58Inv
  PROVE  GetsDecoded
<1> DEFINE N == Len(input)
<1>1. SUFFICES ASSUME decoding = "done", InAlphabet, Ones < N
               PROVE  /\ \A i \in 1..Ones : result[i] = 0
                      /\ Ones < Len(result) /\ result[Ones + 1] # 0
                      /\ Number(SubSeq(result, Ones + 1, Len(result)), 256) = Number(input, 58)
                      /\ output = SubSeq(result, 1, Copied)
  BY DEF GetsDecoded, Copied
<1>2. AllOnes(input, read) /\ ~ OneInFront /\ output = SubSeq(result, 1, Copied)
  BY <1>1 DEF Base58Inv
<1>3. PICK low : Reads(low, input, N) /\ result = Zeros(read) \o Reverse(low)
  BY <1>1 DEF Base58Inv
<1>4. input \in Seq(Int) /\ N \in Nat /\ read \in 0..N /\ read \in Nat
  BY <1>1, DigitsOf DEF Base58Inv, InAlphabet
<1>5. Ones = read /\ read < N /\ input[read + 1] # 0
  BY <1>1, <1>2, <1>4, OnesRead
<1>6. low[Len(low)] # 0
  <2>1. read + 1 \in 1..N
    BY <1>4, <1>5
  <2>2. ~ AllOnes(input, N)
    BY <2>1, <1>5 DEF AllOnes
  <2>3. QED BY <2>2, <1>3 DEF Reads
<1> DEFINE z == Zeros(read)
           v == Reverse(low)
           l == Len(low)
<1>7. low \in Seq(Byte) /\ l \in Nat /\ l >= 1
  BY <1>3 DEF Reads
<1>8. z \in Seq(Byte) /\ Len(z) = read /\ \A i \in 1..read : z[i] = 0
  BY <1>4, ZerosAreBytes
<1>9. v \in Seq(Byte) /\ Len(v) = l /\ v[1] = low[l]
  <2>1. v \in Seq(Byte) /\ Len(v) = l /\ \A i \in 1..l : v[i] = low[(l - i) + 1]
    BY <1>7, ReverseOf
  <2> HIDE DEF v, l
  <2>2. 1 \in 1..l /\ (l - 1) + 1 = l
    BY <1>7
  <2>3. QED BY <2>1, <2>2
<1>10. result = z \o v
  BY <1>3
<1>11. Number(v, 256) = Number(input, 58)
  BY <1>3 DEF Reads, Number
<1>12. low[l] # 0
  BY <1>6
<1> HIDE DEF z, v, l
<1>13. /\ result \in Seq(Byte) /\ Len(result) = Len(z) + Len(v)
       /\ \A i \in 1..Len(z) : result[i] = z[i]
       /\ \A i \in (Len(z) + 1)..(Len(z) + Len(v)) : result[i] = v[i - Len(z)]
  <2>1. z \in Seq(Byte) /\ v \in Seq(Byte)
    BY <1>8, <1>9
  <2>2. QED BY <2>1, <1>10, Concat, Zenon
<1>14. /\ Len(result) = read + l
       /\ \A i \in 1..read : result[i] = 0
       /\ \A i \in (read + 1)..(read + l) : result[i] = v[i - read]
  BY <1>8, <1>9, <1>13
<1>15. result[read + 1] = low[l]
  <2>1. read + 1 \in (read + 1)..(read + l) /\ (read + 1) - read = 1
    BY <1>4, <1>7
  <2>2. QED BY <2>1, <1>9, <1>14
<1>16. SubSeq(result, read + 1, Len(result)) = v
  <2> DEFINE w == SubSeq(result, read + 1, read + l)
  <2>1. w \in Seq(Byte) /\ Len(w) = l /\ \A i \in 1..l : w[i] = result[(read + i)]
    <3>1. read \in Nat /\ l \in Nat /\ result \in Seq(Byte) /\ Len(result) = read + l
      BY <1>4, <1>7, <1>13, <1>14
    <3>2. QED BY <3>1
  <2> HIDE DEF w
  <2>2. \A i \in 1..l : read + i \in (read + 1)..(read + l) /\ (read + i) - read = i
    BY <1>4, <1>7
  <2>3. \A i \in 1..l : w[i] = v[i]
    BY <2>1, <2>2, <1>14
  <2>4. w = v
    BY <2>1, <2>3, <1>7, <1>9
  <2>5. QED BY <2>4, <1>14 DEF w
<1>17. Ones < Len(result) /\ \A i \in 1..Ones : result[i] = 0
  BY <1>4, <1>5, <1>7, <1>14
<1>18. result[Ones + 1] # 0 /\ SubSeq(result, Ones + 1, Len(result)) = v
  BY <1>5, <1>12, <1>15, <1>16
<1>19. Number(SubSeq(result, Ones + 1, Len(result)), 256) = Number(input, 58)
  BY <1>11, <1>18
<1>20. QED BY <1>2, <1>17, <1>18, <1>19

\* base58_decode keeps, digit by digit, the number it has read.
THEOREM Base58Invariant == Base58Spec => []Base58Inv
<1>1. QED BY Base58Start, Base58Steps, PTL DEF Base58Spec

THEOREM Base58Delivers == Base58Spec => []Base58Decodes
<1>1. Base58Inv => Base58Decodes
  BY BytesFit, DigitsBehind, DeliveredIs DEF Base58Decodes
<1>2. QED BY <1>1, Base58Invariant, PTL

-----------------------------------------------------------------------------
(* near_decode_result: the invariant.                                      *)

\* The bytes so far are those of the items, and the zero at the end.
ResultInv ==
  /\ response.items \in Seq(ArrayItems) /\ result_data \in Seq(Int)
  /\ decoded \in {"start", "null", "crashed", "items", "done"}
  /\ decoded \in {"start", "null", "crashed"} => result_data = << >> /\ room \in Nat
  /\ decoded = "items" => Len(result_data) <= Len(response.items)
  /\ decoded = "done" => Len(result_data) = Len(response.items) + 1 /\ result_data[Len(response.items) + 1] = 0
  /\ decoded \in {"items", "done"} =>
       /\ out_size = Len(response.items) /\ room = Len(response.items) + 1
       /\ \A i \in 1..Len(result_data) : i \in 1..Len(response.items) => result_data[i] = ItemByte(response.items[i])

LEMMA ItemsAre ==
  ASSUME NEW r \in Responses
  PROVE  r.items \in Seq(ArrayItems)
<1>1. CASE r.array = TRUE /\ r \in [array : {TRUE}, items : Arrays]
  <2>1. PICK n \in 0..MaxItems : r.items \in [1..n -> ArrayItems]
    BY <1>1 DEF Arrays
  <2>2. n \in Nat
    BY ResultDecodeGiven DEF ResultDecodeAssumption
  <2>3. \A s : s \in [1..n -> ArrayItems] => s \in Seq(ArrayItems)
    BY <2>2
  <2>4. QED BY <2>1, <2>3, Zenon
<1>2. CASE r \in [array : {FALSE}, items : {<< >>}]
  <2>1. r.items = << >>
    BY <1>2
  <2>2. << >> \in Seq(ArrayItems)
    OBVIOUS
  <2>3. QED BY <2>1, <2>2, Zenon
<1>3. QED BY <1>1, <1>2 DEF Responses

\* An item's byte is an integer; a byte stays what it is.
LEMMA ByteOf ==
  ASSUME NEW item \in ArrayItems
  PROVE  ItemByte(item) \in Int /\ (item \in 0..255 => ItemByte(item) = item)
<1>1. ValueMax \in Nat /\ (item = NoNumber \/ item \in Int) /\ NoNumber \notin Int
  BY ResultDecodeGiven DEF ResultDecodeAssumption
<1>2. ValueMax >= 255
  BY ResultDecodeGiven DEF ResultDecodeAssumption
<1>3. CASE item = NoNumber
  <2>1. item \notin 0..255
    BY <1>1, <1>3
  <2>2. QED BY <2>1, <1>3 DEF ItemByte
<1>4. CASE item \in Int /\ item # NoNumber
  <2>1. valueint(item) \in Int /\ (item \in 0..255 => valueint(item) = item)
    BY <1>1, <1>2, <1>4 DEF valueint
  <2>2. ItemByte(item) = valueint(item) % 256
    BY <1>4 DEF ItemByte
  <2> DEFINE x == valueint(item)
  <2> HIDE DEF x
  <2>3. x \in Int => x % 256 \in Int /\ (x \in 0..255 => x % 256 = x)
    OBVIOUS
  <2>4. QED BY <2>1, <2>2, <2>3 DEF x
<1>5. QED BY <1>1, <1>3, <1>4

LEMMA ResultStart ==
  ASSUME ResultInit
  PROVE  ResultInv
BY ItemsAre DEF ResultInit, ResultInv

LEMMA ResultSteps ==
  ASSUME ResultInv, [ResultNext]_resultVars
  PROVE  ResultInv'
<1> DEFINE items == response.items
           n == Len(items)
           l == Len(result_data)
<1>1. items \in Seq(ArrayItems) /\ n \in Nat /\ result_data \in Seq(Int) /\ l \in Nat
  BY DEF ResultInv
<1>2. CASE ReturnsNull
  BY <1>2 DEF ReturnsNull, ResultInv
<1>3. CASE AllocateBytes
  <2>1. /\ result_data = << >> /\ out_size' = n /\ UNCHANGED <<response, result_data>>
        /\ \/ room' = n + 1 /\ decoded' = "items"
           \/ room' = 0 /\ decoded' = "crashed"
    BY <1>3 DEF AllocateBytes, ResultInv
  <2>2. QED BY <1>1, <2>1 DEF ResultInv
<1>4. CASE DecodeItem
  <2> DEFINE b == ItemByte(items[l + 1])
  <2>1. decoded = "items" /\ l < n /\ result_data' = Append(result_data, b) /\ UNCHANGED <<response, out_size, room, decoded>>
    BY <1>4 DEF DecodeItem
  <2>2. b \in Int
    <3>1. items[l + 1] \in ArrayItems
      BY <1>1, <2>1
    <3>2. QED BY <3>1, ByteOf
  <2> DEFINE r == Append(result_data, b)
  <2>3. r \in Seq(Int) /\ Len(r) = l + 1 /\ r[l + 1] = b /\ \A i \in 1..l : r[i] = result_data[i]
    <3> HIDE DEF b
    <3>1. QED BY <1>1, <2>2
  <2>4. \A i \in 1..(l + 1) : i \in 1..n => r[i] = ItemByte(items[i])
    <3>1. \A i \in 1..(l + 1) : i \in 1..l \/ i = l + 1
      BY <1>1
    <3>2. \A i \in 1..l : i \in 1..n => result_data[i] = ItemByte(items[i])
      BY <2>1 DEF ResultInv
    <3> HIDE DEF r
    <3>3. QED BY <3>1, <3>2, <2>3
  <2>5. result_data' = r
    BY <2>1
  <2> HIDE DEF r, b
  <2>6. QED BY <1>1, <2>1, <2>3, <2>4, <2>5 DEF ResultInv
<1>5. CASE TerminateBytes
  <2>1. decoded = "items" /\ l = n /\ result_data' = Append(result_data, 0) /\ decoded' = "done" /\ UNCHANGED <<response, out_size, room>>
    BY <1>5 DEF TerminateBytes
  <2> DEFINE r == Append(result_data, 0)
  <2>2. r \in Seq(Int) /\ Len(r) = n + 1 /\ r[n + 1] = 0 /\ \A i \in 1..n : r[i] = result_data[i]
    BY <1>1, <2>1
  <2>3. \A i \in 1..(n + 1) : i \in 1..n => r[i] = ItemByte(items[i])
    <3>1. \A i \in 1..n : i \in 1..l
      BY <2>1
    <3>2. \A i \in 1..l : i \in 1..n => result_data[i] = ItemByte(items[i])
      BY <2>1 DEF ResultInv
    <3> HIDE DEF r
    <3>3. QED BY <3>1, <3>2, <2>2
  <2>4. result_data' = r
    BY <2>1
  <2> HIDE DEF r
  <2>5. QED BY <1>1, <2>1, <2>2, <2>3, <2>4 DEF ResultInv
<1>6. CASE UNCHANGED resultVars
  BY <1>6 DEF resultVars, ResultInv
<1>7. QED BY <1>2, <1>3, <1>4, <1>5, <1>6 DEF ResultNext

LEMMA ResultReturned ==
  ASSUME ResultInv
  PROVE  ReturnsContractBytes
<1> DEFINE items == response.items
           n == Len(items)
<1>1. items \in Seq(ArrayItems) /\ n \in Nat /\ result_data \in Seq(Int) /\ Len(result_data) \in Nat
  BY DEF ResultInv
<1>2. Len(result_data) <= room
  BY <1>1 DEF ResultInv
<1>3. ASSUME decoded = "done", \A i \in DOMAIN items : items[i] \in 0..255
      PROVE  SubSeq(result_data, 1, out_size) = items /\ Len(result_data) = out_size + 1 /\ result_data[out_size + 1] = 0
  <2>1. out_size = n /\ Len(result_data) = n + 1 /\ result_data[n + 1] = 0
    BY <1>3 DEF ResultInv
  <2>2. \A i \in 1..n : result_data[i] = items[i]
    <3>1. \A i \in 1..n : i \in 1..Len(result_data) /\ items[i] \in ArrayItems /\ i \in DOMAIN items
      BY <1>1, <2>1
    <3>2. \A i \in 1..n : result_data[i] = ItemByte(items[i])
      BY <3>1, <1>3 DEF ResultInv
    <3>3. QED BY <3>1, <3>2, <1>3, ByteOf
  <2> DEFINE s == SubSeq(result_data, 1, n)
  <2>3. s \in Seq(Int) /\ Len(s) = n /\ \A i \in 1..n : s[i] = result_data[i]
    BY <1>1, <2>1
  <2> HIDE DEF s
  <2>4. \A i \in 1..n : s[i] = items[i]
    BY <2>2, <2>3
  <2>5. s = items
    <3>1. s = [i \in 1..n |-> s[i]] /\ items = [i \in 1..n |-> items[i]]
      <4>1. \A S, q : q \in Seq(S) => q = [i \in 1..Len(q) |-> q[i]]
        OBVIOUS
      <4>2. s = [i \in 1..Len(s) |-> s[i]]
        BY <4>1, <2>3, Zenon
      <4>3. items = [i \in 1..n |-> items[i]]
        BY <4>1, <1>1, Zenon
      <4>4. QED BY <4>2, <4>3, <2>3
    <3> HIDE DEF items, n
    <3>2. [i \in 1..n |-> s[i]] = [i \in 1..n |-> items[i]]
      BY <2>4
    <3>3. QED BY <3>1, <3>2
  <2>6. QED BY <2>1, <2>5 DEF s
<1>4. QED BY <1>2, <1>3 DEF ReturnsContractBytes

THEOREM ResultInvariant == ResultSpec => []ResultInv
<1>1. QED BY ResultStart, ResultSteps, PTL DEF ResultSpec

\* base58_decode returns the bytes and the length of what a text stands for, if
\* it is not all ones, also where the caller's buffer is too short for it;
\* near_decode_result returns the bytes of a contract's result and their number.
THEOREM DecodersDeliver == Base58Spec /\ ResultSpec => []DecodesBytes
<1>1. ResultInv => ReturnsContractBytes
  BY ResultReturned
<1>2. QED BY <1>1, Base58Delivers, ResultInvariant, PTL DEF DecodesBytes

-----------------------------------------------------------------------------
(* cJSON_Minify: the texts.                                                 *)

\* The first of some positions from i on.
LEMMA FirstFrom ==
  ASSUME NEW S, NEW t \in Seq(S), NEW i \in 1..(Len(t) + 1), NEW P \in SUBSET (i..Len(t))
  PROVE  FirstOf(P, t) \in (i - 1)..Len(t) /\ (i <= Len(t) => FirstOf(P, t) \in i..Len(t)) /\ (i \in P => FirstOf(P, t) = i)
<1> DEFINE First1 == CHOOSE k \in P : \A j \in P : k <= j
<1>1. Len(t) \in Nat /\ P \in SUBSET Nat
  OBVIOUS
<1>2. CASE P = {}
  BY <1>1, <1>2 DEF FirstOf
<1>3. CASE P # {}
  <2>1. \E k \in P : \A j \in P : k <= j
    BY <1>1, <1>3, LeastNatural
  <2>2. First1 \in P /\ \A j \in P : First1 <= j
    BY <2>1
  <2>3. FirstOf(P, t) = First1
    BY <1>3 DEF FirstOf
  <2> HIDE DEF First1
  <2>4. First1 \in i..Len(t) /\ (i \in P => First1 <= i)
    BY <2>2
  <2>5. QED BY <2>3, <2>4, <1>1
<1>4. QED BY <1>2, <1>3

\* The end of a line, read on from i.
LEMMA LineEndIs ==
  ASSUME NEW S, NEW t \in Seq(S), NEW i \in 1..(Len(t) + 1)
  PROVE  /\ LineEnd(t, i) \in (i - 1)..Len(t) /\ (i = Len(t) + 1 => LineEnd(t, i) = Len(t))
         /\ i <= Len(t) => LineEnd(t, i) = IF t[i] = "newline" THEN i ELSE LineEnd(t, i + 1)
<1> DEFINE P(n) == {k \in n..Len(t) : t[k] = "newline"}
<1>1. LineEnd(t, i) = FirstOf(P(i), t) /\ LineEnd(t, i + 1) = FirstOf(P(i + 1), t) /\ Len(t) \in Nat
  BY DEF LineEnd
<1>2. P(i) \in SUBSET (i..Len(t))
  OBVIOUS
<1>3. i <= Len(t) /\ t[i] = "newline" => i \in P(i)
  OBVIOUS
<1>4. i <= Len(t) /\ t[i] # "newline" => P(i) = P(i + 1)
  OBVIOUS
<1>5. i = Len(t) + 1 => P(i) = {}
  BY <1>1
<1> HIDE DEF P
<1>6. FirstOf(P(i), t) \in (i - 1)..Len(t) /\ (i \in P(i) => FirstOf(P(i), t) = i)
  BY <1>2, FirstFrom, Zenon
<1>7. QED BY <1>1, <1>3, <1>4, <1>5, <1>6

\* The end of a comment: with the slash that comes first behind a star.
LEMMA CommentEndIs ==
  ASSUME NEW S, NEW t \in Seq(S), NEW i \in 1..(Len(t) + 1)
  PROVE  /\ CommentEnd(t, i) \in (i - 1)..Len(t) /\ (i = Len(t) + 1 => CommentEnd(t, i) = Len(t))
         /\ i <= Len(t) => CommentEnd(t, i) = IF i < Len(t) /\ t[i] = "star" /\ t[i + 1] = "slash" THEN i + 1
                                              ELSE CommentEnd(t, i + 1)
<1> DEFINE P(n) == {k \in (n + 1)..Len(t) : t[k - 1] = "star" /\ t[k] = "slash"}
           Closes == i < Len(t) /\ t[i] = "star" /\ t[i + 1] = "slash"
<1>1. CommentEnd(t, i) = FirstOf(P(i), t) /\ CommentEnd(t, i + 1) = FirstOf(P(i + 1), t) /\ Len(t) \in Nat
  BY DEF CommentEnd
<1>2. i <= Len(t) => i + 1 \in 1..(Len(t) + 1) /\ P(i) \in SUBSET ((i + 1)..Len(t))
  BY <1>1
<1>3. i <= Len(t) /\ Closes => i + 1 \in P(i)
  <2>1. (i + 1) - 1 = i
    OBVIOUS
  <2>2. QED BY <2>1, <1>1
<1>4. i <= Len(t) /\ ~ Closes => P(i) = P(i + 1)
  <2>1. SUFFICES ASSUME i <= Len(t), ~ Closes PROVE P(i) = P(i + 1)
    OBVIOUS
  <2>2. \A k \in (i + 1)..Len(t) : k \in ((i + 1) + 1)..Len(t) \/ k = i + 1
    BY <1>1
  <2>3. \A k \in ((i + 1) + 1)..Len(t) : k \in (i + 1)..Len(t)
    BY <1>1
  <2>4. i + 1 \notin P(i)
    <3>1. (i + 1) - 1 = i
      OBVIOUS
    <3>2. QED BY <2>1, <3>1, <1>1
  <2>5. QED BY <2>2, <2>3, <2>4
<1>5. i = Len(t) + 1 => P(i) = {}
  BY <1>1
<1> HIDE DEF P
<1>6. i <= Len(t) => /\ FirstOf(P(i), t) \in ((i + 1) - 1)..Len(t)
                     /\ i + 1 \in P(i) => FirstOf(P(i), t) = i + 1
  BY <1>2, FirstFrom, Zenon
<1>7. i = Len(t) + 1 => FirstOf(P(i), t) = Len(t)
  BY <1>5 DEF FirstOf
<1>8. CASE i <= Len(t)
  <2>1. CommentEnd(t, i) \in (i - 1)..Len(t)
    BY <1>1, <1>6, <1>8
  <2>2. CASE Closes
    BY <2>1, <2>2, <1>1, <1>3, <1>6, <1>8
  <2>3. CASE ~ Closes
    BY <2>1, <2>3, <1>1, <1>4, <1>8
  <2>4. QED BY <2>2, <2>3
<1>9. CASE i = Len(t) + 1
  BY <1>1, <1>7, <1>9
<1>10. QED BY <1>1, <1>8, <1>9

\* The end of a string, read on from i: a quote that no backslash precedes.
QuoteEnd(t, i) == FirstOf({k \in i..Len(t) : t[k] = "quote" /\ t[k - 1] # "backslash"}, t)

LEMMA QuoteEndIs ==
  ASSUME NEW S, NEW t \in Seq(S), NEW i \in 2..(Len(t) + 1)
  PROVE  /\ QuoteEnd(t, i) \in (i - 1)..Len(t) /\ (i = Len(t) + 1 => QuoteEnd(t, i) = Len(t))
         /\ i <= Len(t) => QuoteEnd(t, i) = IF t[i] = "quote" /\ t[i - 1] # "backslash" THEN i ELSE QuoteEnd(t, i + 1)
<1> DEFINE P(n) == {k \in n..Len(t) : t[k] = "quote" /\ t[k - 1] # "backslash"}
<1>1. QuoteEnd(t, i) = FirstOf(P(i), t) /\ QuoteEnd(t, i + 1) = FirstOf(P(i + 1), t) /\ Len(t) \in Nat /\ i \in 1..(Len(t) + 1)
  BY DEF QuoteEnd
<1>2. P(i) \in SUBSET (i..Len(t))
  OBVIOUS
<1>3. i <= Len(t) /\ t[i] = "quote" /\ t[i - 1] # "backslash" => i \in P(i)
  OBVIOUS
<1>4. i <= Len(t) /\ ~ (t[i] = "quote" /\ t[i - 1] # "backslash") => P(i) = P(i + 1)
  OBVIOUS
<1>5. i = Len(t) + 1 => P(i) = {}
  BY <1>1
<1> HIDE DEF P
<1>6. FirstOf(P(i), t) \in (i - 1)..Len(t) /\ (i \in P(i) => FirstOf(P(i), t) = i)
  BY <1>1, <1>2, FirstFrom, Zenon
<1>7. QED BY <1>1, <1>3, <1>4, <1>5, <1>6

\* Where no backslash is escaped, a quote is escaped by the one before it.
LEMMA EscapedByOne ==
  ASSUME NEW S, NEW t \in Seq(S), NEW i \in 1..Len(t), t[i] = "quote", NothingEscapedTwice(t), NEW k \in (i + 1)..Len(t)
  PROVE  Backslashes(t, i, k) % 2 = 0 <=> t[k - 1] # "backslash"
<1> DEFINE Before(j) == (j = i \/ t[j] # "backslash") /\ \A l \in (j + 1)..(k - 1) : t[l] = "backslash"
           last == CHOOSE j \in i..(k - 1) : Before(j)
<1>1. Backslashes(t, i, k) = (k - 1) - last
  BY DEF Backslashes
<1>2. Len(t) \in Nat /\ k - 1 \in i..(k - 1) /\ k \in Int /\ i \in Int
  OBVIOUS
<1>3. CASE t[k - 1] # "backslash"
  <2>1. Before(k - 1)
    BY <1>2, <1>3
  <2>2. last \in i..(k - 1) /\ Before(last)
    BY <2>1, <1>2
  <2> HIDE DEF last
  <2>3. last = k - 1
    <3>1. ASSUME last # k - 1 PROVE FALSE
      <4>1. k - 1 \in (last + 1)..(k - 1)
        BY <2>2, <3>1, <1>2
      <4>2. QED BY <4>1, <2>2, <1>3
    <3>2. QED BY <3>1
  <2>4. Backslashes(t, i, k) = 0
    BY <1>1, <1>2, <2>3
  <2>5. QED BY <2>4, <1>3
<1>4. CASE t[k - 1] = "backslash"
  <2>1. k - 1 # i /\ k - 2 \in i..(k - 1) /\ k - 1 \in 2..Len(t)
    BY <1>2, <1>4
  <2>2. t[k - 2] # "backslash"
    <3>1. (k - 1) - 1 = k - 2
      BY <1>2
    <3>2. ~ (t[(k - 1) - 1] = "backslash" /\ t[k - 1] = "backslash")
      BY <2>1 DEF NothingEscapedTwice
    <3>3. QED BY <3>1, <3>2, <1>4
  <2>3. Before(k - 2)
    <3>1. \A l \in ((k - 2) + 1)..(k - 1) : l = k - 1
      BY <1>2
    <3>2. QED BY <3>1, <2>2, <1>4
  <2>4. last \in i..(k - 1) /\ Before(last)
    BY <2>3, <2>1
  <2> HIDE DEF last
  <2>5. last = k - 2
    <3>1. last # k - 1
      BY <2>1, <2>4, <1>4
    <3>2. ASSUME last # k - 2 PROVE FALSE
      <4>1. k - 2 \in (last + 1)..(k - 1)
        BY <2>4, <3>1, <3>2, <1>2
      <4>2. QED BY <4>1, <2>2, <2>4
    <3>3. QED BY <3>2
  <2>6. Backslashes(t, i, k) = 1
    BY <1>1, <1>2, <2>5
  <2>7. QED BY <2>6, <1>4
<1>5. QED BY <1>3, <1>4

LEMMA StringEndIs ==
  ASSUME NEW S, NEW t \in Seq(S), NEW i \in 1..Len(t), t[i] = "quote", NothingEscapedTwice(t)
  PROVE  StringEnd(t, i) = QuoteEnd(t, i + 1)
<1> DEFINE P == {k \in (i + 1)..Len(t) : t[k] = "quote" /\ Backslashes(t, i, k) % 2 = 0}
           R == {k \in (i + 1)..Len(t) : t[k] = "quote" /\ t[k - 1] # "backslash"}
<1>1. P = R
  BY EscapedByOne
<1>2. StringEnd(t, i) = FirstOf(P, t) /\ QuoteEnd(t, i + 1) = FirstOf(R, t)
  BY DEF StringEnd, QuoteEnd
<1> HIDE DEF P, R
<1>3. QED BY <1>1, <1>2

\* Sequences that begin with a value at each position and go on as at a later one:
\* there are such, from the last position to the first.
Later(N) == {next \in [1..N -> 1..(N + 1)] : \A i \in 1..N : next[i] > i}
RestsOf(N, S, value, next) ==
  {f \in [1..(N + 1) -> Seq(S)] : f[N + 1] = << >> /\ \A i \in 1..N : f[i] = value[i] \o f[next[i]]}

LEMMA Descent ==
  ASSUME NEW S, NEW N \in Nat, NEW value \in [1..N -> Seq(S)], NEW next \in Later(N)
  PROVE  \E f : f \in RestsOf(N, S, value, next)
<1> DEFINE From(k, f) == /\ f \in [((N + 1) - k)..(N + 1) -> Seq(S)] /\ f[N + 1] = << >>
                         /\ \A i \in ((N + 1) - k)..N : f[i] = value[i] \o f[next[i]]
           Bad == {k \in 0..N : ~ \E f : From(k, f)}
<1> USE DEF Later
<1>1. ASSUME NEW k \in Bad PROVE \E m \in Bad : m < k
  <2>1. k \in 0..N /\ k \in Nat
    OBVIOUS
  <2>2. k # 0
    <3>1. From(0, [i \in (N + 1)..(N + 1) |-> << >>])
      <4> DEFINE z == [i \in (N + 1)..(N + 1) |-> << >>]
      <4>1. (N + 1) - 0 = N + 1 /\ << >> \in Seq(S) /\ (N + 1)..N = {} /\ N + 1 \in (N + 1)..(N + 1)
        OBVIOUS
      <4>2. z \in [(N + 1)..(N + 1) -> Seq(S)] /\ z[N + 1] = << >>
        BY <4>1
      <4> HIDE DEF z
      <4>3. z \in [((N + 1) - 0)..(N + 1) -> Seq(S)]
        BY <4>1, <4>2
      <4>4. \A i \in ((N + 1) - 0)..N : z[i] = value[i] \o z[next[i]]
        BY <4>1
      <4>5. QED BY <4>2, <4>3, <4>4 DEF z
    <3>2. \E f : From(0, f)
      <4> HIDE DEF From
      <4> QED BY <3>1, Zenon
    <3> HIDE DEF From
    <3>3. 0 \notin Bad
      BY <3>2, Zenon
    <3>4. QED BY <3>3
  <2>3. k - 1 \in 0..N /\ k - 1 < k
    BY <2>1, <2>2
  <2>4. SUFFICES ASSUME k - 1 \notin Bad PROVE FALSE
    <3> HIDE DEF Bad
    <3>1. QED BY <2>3
  <2>5. PICK f : From(k - 1, f)
    <3> HIDE DEF From
    <3>1. QED BY <2>3, <2>4, Zenon
  <2> DEFINE p == (N + 1) - k
             x == value[p] \o f[next[p]]
             g == [i \in p..(N + 1) |-> IF i = p THEN x ELSE f[i]]
  <2>6. p \in 1..N /\ (N + 1) - (k - 1) = p + 1 /\ next[p] \in (p + 1)..(N + 1)
    BY <2>1, <2>2
  <2>7. f \in [(p + 1)..(N + 1) -> Seq(S)] /\ f[N + 1] = << >> /\ \A i \in (p + 1)..N : f[i] = value[i] \o f[next[i]]
    BY <2>5, <2>6
  <2> HIDE DEF p, From
  <2>8. value[p] \in Seq(S) /\ f[next[p]] \in Seq(S)
    BY <2>6, <2>7
  <2>9. x \in Seq(S)
    BY <2>8, Concat
  <2> HIDE DEF x
  <2>10. \A i \in p..(N + 1) : i = p \/ i \in (p + 1)..(N + 1)
    BY <2>6
  <2>11. \A i \in p..N : i = p \/ i \in (p + 1)..N
    BY <2>6
  <2>12. g \in [p..(N + 1) -> Seq(S)]
    BY <2>7, <2>9, <2>10
  <2>13. g[p] = x /\ \A i \in (p + 1)..(N + 1) : g[i] = f[i]
    BY <2>6
  <2>14. \A i \in p..N : next[i] \in (p + 1)..(N + 1)
    BY <2>6
  <2> HIDE DEF g
  <2>15. N + 1 \in (p + 1)..(N + 1) /\ g[N + 1] = << >>
    <3>1. N + 1 \in (p + 1)..(N + 1)
      BY <2>6
    <3>2. QED BY <3>1, <2>7, <2>13
  <2>16. \A i \in p..N : g[i] = value[i] \o g[next[i]]
    <3>1. ASSUME NEW i \in p..N PROVE g[i] = value[i] \o g[next[i]]
      <4>1. g[next[i]] = f[next[i]]
        BY <2>13, <2>14
      <4>2. CASE i = p
        BY <4>1, <4>2, <2>13 DEF x
      <4>3. CASE i \in (p + 1)..N
        <5>1. i \in (p + 1)..(N + 1)
          BY <4>3, <2>6
        <5>2. QED BY <4>1, <4>3, <5>1, <2>7, <2>13
      <4>4. QED BY <4>2, <4>3, <2>11
    <3>2. QED BY <3>1
  <2>17. From(k, g)
    BY <2>12, <2>15, <2>16 DEF From, p
  <2>18. \E h : From(k, h)
    BY <2>17, Zenon
  <2>19. k \notin Bad
    BY <2>18, Zenon
  <2>20. QED BY <2>19
<1>2. Bad \in SUBSET Nat
  <2> HIDE DEF From
  <2>1. QED OBVIOUS
<1>3. Bad = {}
  <2> HIDE DEF Bad
  <2> QED BY <1>1, <1>2, NoLeast
<1>4. PICK f : From(N, f)
  <2>1. N \in 0..N
    OBVIOUS
  <2> HIDE DEF From
  <2>2. QED BY <1>3, <2>1, Zenon
<1>5. (N + 1) - N = 1
  OBVIOUS
<1>6. f \in RestsOf(N, S, value, next)
  BY <1>4, <1>5 DEF RestsOf
<1>7. QED BY <1>6

\* What begins at i ends there or later, inside the text.
LEMMA EndsInside ==
  ASSUME NEW S, NEW t \in Seq(S), NEW i \in 1..Len(t)
  PROVE  EndOf(t, i) \in i..Len(t) /\ KeptFrom(t, i) \in Seq(S)
<1>1. Len(t) \in Nat
  OBVIOUS
<1>2. EndOf(t, i) \in i..Len(t)
  <2>1. CASE Opens(t, i, "slash")
    <3>1. i + 2 \in 1..(Len(t) + 1)
      BY <2>1, <1>1 DEF Opens
    <3>2. LineEnd(t, i + 2) \in ((i + 2) - 1)..Len(t)
      BY <3>1, LineEndIs
    <3>3. EndOf(t, i) = LineEnd(t, i + 2)
      BY <2>1 DEF EndOf
    <3>4. QED BY <3>2, <3>3, <1>1
  <2>2. CASE Opens(t, i, "star") /\ ~ Opens(t, i, "slash")
    <3>1. i + 2 \in 1..(Len(t) + 1)
      BY <2>2, <1>1 DEF Opens
    <3>2. CommentEnd(t, i + 2) \in ((i + 2) - 1)..Len(t)
      BY <3>1, CommentEndIs
    <3>3. EndOf(t, i) = CommentEnd(t, i + 2)
      BY <2>2 DEF EndOf
    <3>4. QED BY <3>2, <3>3, <1>1
  <2>3. CASE t[i] = "quote"
    <3> DEFINE P == {k \in (i + 1)..Len(t) : t[k] = "quote" /\ Backslashes(t, i, k) % 2 = 0}
    <3>1. i + 1 \in 1..(Len(t) + 1) /\ P \in SUBSET ((i + 1)..Len(t))
      BY <1>1
    <3>2. StringEnd(t, i) = FirstOf(P, t)
      BY DEF StringEnd
    <3> HIDE DEF P
    <3>3. FirstOf(P, t) \in ((i + 1) - 1)..Len(t)
      BY <3>1, FirstFrom, Zenon
    <3>4. EndOf(t, i) = StringEnd(t, i)
      BY <2>3 DEF EndOf, Opens
    <3>5. QED BY <3>2, <3>3, <3>4, <1>1
  <2>4. CASE ~ Opens(t, i, "slash") /\ ~ Opens(t, i, "star") /\ t[i] # "quote"
    BY <2>4, <1>1 DEF EndOf
  <2>5. QED BY <2>1, <2>2, <2>3, <2>4
<1> DEFINE e == EndOf(t, i)
<1> HIDE DEF e
<1>3. SubSeq(t, i, e) \in Seq(S) /\ << >> \in Seq(S)
  <2>1. e \in i..Len(t)
    BY <1>2 DEF e
  <2>2. QED BY <2>1, <1>1
<1>4. QED BY <1>2, <1>3 DEF e, KeptFrom

LEMMA MinifiedIs ==
  ASSUME NEW S, NEW t \in Seq(S)
  PROVE  /\ Minified(t) \in [1..(Len(t) + 1) -> Seq(S)] /\ Minified(t)[Len(t) + 1] = << >>
         /\ \A i \in 1..Len(t) : Minified(t)[i] = KeptFrom(t, i) \o Minified(t)[EndOf(t, i) + 1]
<1> DEFINE N == Len(t)
           value == [i \in 1..N |-> KeptFrom(t, i)]
           next == [i \in 1..N |-> EndOf(t, i) + 1]
           Body(f) == [i \in 1..(N + 1) |-> IF i = N + 1 THEN << >> ELSE KeptFrom(t, i) \o f[EndOf(t, i) + 1]]
           rest == CHOOSE f : f = Body(f)
<1>1. N \in Nat
  OBVIOUS
<1>2. \A i \in 1..N : EndOf(t, i) \in i..N /\ KeptFrom(t, i) \in Seq(S)
  BY EndsInside
<1> HIDE DEF N
<1>3. value \in [1..N -> Seq(S)] /\ next \in [1..N -> 1..(N + 1)] /\ \A i \in 1..N : next[i] > i
  BY <1>1, <1>2
<1>4. PICK f : f \in RestsOf(N, S, value, next)
  <2>1. next \in Later(N)
    BY <1>3 DEF Later
  <2> HIDE DEF value, next
  <2>2. QED BY <1>1, <1>3, <2>1, Descent
<1>5. f \in [1..(N + 1) -> Seq(S)] /\ f[N + 1] = << >> /\ \A i \in 1..N : f[i] = value[i] \o f[next[i]]
  BY <1>4, Zenon DEF RestsOf
<1>6. f = Body(f)
  <2>1. \A i \in 1..(N + 1) : i = N + 1 \/ i \in 1..N
    BY <1>1
  <2>2. \A i \in 1..N : f[i] = KeptFrom(t, i) \o f[EndOf(t, i) + 1]
    BY <1>5
  <2>3. \A i \in 1..(N + 1) : f[i] = IF i = N + 1 THEN << >> ELSE KeptFrom(t, i) \o f[EndOf(t, i) + 1]
    BY <1>5, <2>1, <2>2
  <2>4. f = [i \in 1..(N + 1) |-> f[i]]
    BY <1>5
  <2>5. QED BY <2>3, <2>4
<1>7. rest = Body(rest)
  <2> HIDE DEF Body
  <2> QED BY <1>6
<1>8. Minified(t) = rest
  BY DEF Minified, N
<1> HIDE DEF rest
<1>9. rest[N + 1] = << >> /\ \A i \in 1..N : rest[i] = KeptFrom(t, i) \o rest[EndOf(t, i) + 1]
  <2>1. N + 1 \in 1..(N + 1) /\ \A i \in 1..N : i \in 1..(N + 1) /\ i # N + 1
    BY <1>1
  <2>2. QED BY <1>7, <2>1
<1>10. \A i \in 1..(N + 1) : rest[i] \in Seq(S)
  <2> DEFINE Bad == {k \in 0..N : rest[(N + 1) - k] \notin Seq(S)}
  <2>1. ASSUME NEW k \in Bad PROVE \E m \in Bad : m < k
    <3>1. k \in Nat /\ k \in 0..N /\ rest[(N + 1) - k] \notin Seq(S)
      OBVIOUS
    <3>2. k # 0
      <4>1. ASSUME k = 0 PROVE FALSE
        <5>1. (N + 1) - k = N + 1 /\ << >> \in Seq(S)
          BY <4>1, <1>1
        <5>2. QED BY <5>1, <3>1, <1>9
      <4>2. QED BY <4>1
    <3> DEFINE p == (N + 1) - k
               m == N - EndOf(t, p)
    <3>3. p \in 1..N
      BY <3>1, <3>2, <1>1
    <3>4. EndOf(t, p) \in p..N /\ KeptFrom(t, p) \in Seq(S)
      BY <3>3, <1>2
    <3>5. m \in 0..N /\ m < k /\ (N + 1) - m = EndOf(t, p) + 1
      BY <3>1, <3>3, <3>4, <1>1
    <3>6. rest[EndOf(t, p) + 1] \notin Seq(S)
      <4>1. rest[p] = KeptFrom(t, p) \o rest[EndOf(t, p) + 1] /\ rest[p] \notin Seq(S)
        BY <3>1, <3>3, <1>9
      <4> HIDE DEF p
      <4>2. QED BY <4>1, <3>4, Concat
    <3>7. m \in Bad
      BY <3>5, <3>6
    <3>8. QED BY <3>5, <3>7
  <2>2. Bad \in SUBSET Nat
    OBVIOUS
  <2>3. Bad = {}
    <3> HIDE DEF Bad
    <3> QED BY <2>1, <2>2, NoLeast
  <2>4. \A i \in 1..(N + 1) : (N + 1) - i \in 0..N /\ (N + 1) - ((N + 1) - i) = i
    BY <1>1
  <2>5. QED BY <2>3, <2>4
<1>11. rest \in [1..(N + 1) -> Seq(S)]
  <2>1. rest = [i \in 1..(N + 1) |-> rest[i]]
    BY <1>7
  <2>2. QED BY <2>1, <1>10
<1>12. QED BY <1>8, <1>9, <1>11 DEF N

-----------------------------------------------------------------------------
(* cJSON_Minify: the invariant.                                             *)

\* What the text from position i on still comes to, in each of the loops.
Remains(t, i, loop) ==
  IF loop = "string" THEN SubSeq(t, i, QuoteEnd(t, i)) \o Minified(t)[QuoteEnd(t, i) + 1]
  ELSE Minified(t)[IF loop = "line" THEN LineEnd(t, i) + 1 ELSE IF loop = "comment" THEN CommentEnd(t, i) + 1 ELSE i]

MinifyTypes == original \in Seq(Characters) /\ minified \in Seq(Characters) /\ in \in {"text", "line", "comment", "string", "done"}

\* While a loop runs: the positions, and what is still to be read; in a string,
\* a backslash before json has escaped nothing.
Reading ==
  /\ Len(minified) = Len(original) /\ json \in 1..(Len(original) + 1) /\ into \in 1..json
  /\ \A i \in json..Len(original) : minified[i] = original[i]
  /\ in = "string" => json >= 2 /\ (json <= Len(original) /\ original[json - 1] = "backslash" => original[json] # "quote")

Done == SubSeq(minified, 1, into - 1)

MinifyInv ==
  /\ MinifyTypes /\ (in # "done" => Reading)
  /\ NothingEscapedTwice(original) =>
       IF in = "done" THEN minified = Minified(original)[1]
       ELSE Done \o Remains(original, json, in) = Minified(original)[1]

LEMMA MinifyStart ==
  ASSUME MinifyInit
  PROVE  MinifyInv
<1>1. original \in Seq(Characters) /\ minified = original /\ json = 1 /\ into = 1 /\ in = "text"
  <2>1. PICK n \in 0..MinifyLength : original \in [1..n -> Characters]
    BY DEF MinifyInit, MinifyTexts
  <2>2. n \in Nat
    BY JsonMinifyGiven DEF JsonMinifyAssumption
  <2>3. \A s : s \in [1..n -> Characters] => s \in Seq(Characters)
    BY <2>2
  <2>4. original \in Seq(Characters)
    BY <2>1, <2>3, Zenon
  <2>5. QED BY <2>4 DEF MinifyInit
<1>2. Len(original) \in Nat
  BY <1>1
<1>3. MinifyTypes /\ Reading
  BY <1>1, <1>2 DEF MinifyTypes, Reading
<1>4. Done \o Remains(original, json, in) = Minified(original)[1]
  <2>1. Done = << >>
    BY <1>1 DEF Done
  <2>2. Remains(original, json, in) = Minified(original)[1]
    BY <1>1 DEF Remains
  <2>3. Minified(original)[1] \in Seq(Characters)
    <3>1. Minified(original) \in [1..(Len(original) + 1) -> Seq(Characters)]
      BY <1>1, MinifiedIs
    <3>2. 1 \in 1..(Len(original) + 1)
      BY <1>2
    <3>3. QED BY <3>1, <3>2
  <2> DEFINE m == Minified(original)[1]
  <2> HIDE DEF m
  <2>4. << >> \o m = m
    BY <2>3 DEF m
  <2>5. QED BY <2>1, <2>2, <2>4 DEF m
<1>5. QED BY <1>1, <1>3, <1>4 DEF MinifyInv

\* The characters ahead are those of the text.
LEMMA AheadIs ==
  ASSUME MinifyTypes, Reading
  PROVE  /\ json <= Len(original) => Ahead(0) = original[json] /\ original[json] \in Characters
         /\ json > Len(original) => Ahead(0) = "zero"
         /\ json + 1 <= Len(original) => Ahead(1) = original[json + 1] /\ original[json + 1] \in Characters
         /\ json + 1 > Len(original) => Ahead(1) = "zero"
         /\ Over <=> json = Len(original) + 1
<1>1. /\ DOMAIN minified = 1..Len(original) /\ Len(original) \in Nat /\ json \in 1..(Len(original) + 1)
      /\ \A i \in 1..Len(original) : original[i] \in Characters
      /\ \A i \in json..Len(original) : minified[i] = original[i]
  BY DEF MinifyTypes, Reading
<1>2. json + 0 = json /\ "zero" \notin Characters
  BY <1>1 DEF Characters, Blanks
<1>3. json <= Len(original) => json \in 1..Len(original) /\ json \in json..Len(original)
  BY <1>1
<1>4. json + 1 <= Len(original) => json + 1 \in 1..Len(original) /\ json + 1 \in json..Len(original)
  BY <1>1
<1>5. json > Len(original) => json \notin 1..Len(original)
  BY <1>1
<1>6. json + 1 > Len(original) => json + 1 \notin 1..Len(original)
  BY <1>1
<1>7. QED BY <1>1, <1>2, <1>3, <1>4, <1>5, <1>6 DEF Ahead, Over

\* A part of a text and the part behind it.
LEMMA PartsOf ==
  ASSUME NEW S, NEW t \in Seq(S), NEW a \in 1..(Len(t) + 1), NEW b \in (a - 1)..Len(t), NEW c \in b..Len(t)
  PROVE  /\ SubSeq(t, a, c) = SubSeq(t, a, b) \o SubSeq(t, b + 1, c)
         /\ SubSeq(t, a, b) \in Seq(S) /\ SubSeq(t, b + 1, c) \in Seq(S)
<1> DEFINE u == SubSeq(t, a, b)
           v == SubSeq(t, b + 1, c)
           w == SubSeq(t, a, c)
           l == b - a + 1
           m == c - b
<1>1. Len(t) \in Nat
  OBVIOUS
<1>2. u \in Seq(S) /\ Len(u) = l /\ \A i \in 1..l : u[i] = t[(a + i) - 1]
  BY <1>1
<1>3. v \in Seq(S) /\ Len(v) = m /\ \A i \in 1..m : v[i] = t[(b + i)]
  BY <1>1
<1>4. w \in Seq(S) /\ Len(w) = l + m /\ \A i \in 1..(l + m) : w[i] = t[(a + i) - 1]
  BY <1>1
<1> HIDE DEF u, v, w
<1> DEFINE x == u \o v
<1>5. /\ x \in Seq(S) /\ Len(x) = Len(u) + Len(v) /\ \A i \in 1..Len(u) : x[i] = u[i]
      /\ \A i \in (Len(u) + 1)..(Len(u) + Len(v)) : x[i] = v[i - Len(u)]
  <2>1. u \in Seq(S) /\ v \in Seq(S)
    BY <1>2, <1>3
  <2>2. QED BY <2>1, Concat, Zenon
<1>6. l \in Nat /\ m \in Nat /\ Len(u) = l /\ Len(v) = m
  BY <1>1, <1>2, <1>3
<1>7. \A i \in 1..(l + m) : i \in 1..l \/ (i \in (l + 1)..(l + m) /\ i - l \in 1..m /\ b + (i - l) = (a + i) - 1)
  BY <1>1
<1> HIDE DEF l, m, x
<1>8. \A i \in 1..(l + m) : x[i] = w[i]
  <2>1. \A i \in 1..l : x[i] = w[i]
    <3>1. \A i \in 1..l : i \in 1..(l + m)
      BY <1>6
    <3>2. QED BY <3>1, <1>2, <1>4, <1>5, <1>6
  <2>2. \A i \in (l + 1)..(l + m) : x[i] = w[i]
    <3>1. \A i \in (l + 1)..(l + m) : i \in 1..(l + m) /\ i - l \in 1..m /\ b + (i - l) = (a + i) - 1
      BY <1>6, <1>7
    <3>2. \A i \in (l + 1)..(l + m) : x[i] = v[i - l]
      BY <1>5, <1>6
    <3>3. \A i \in (l + 1)..(l + m) : v[i - l] = t[b + (i - l)]
      BY <3>1, <1>3
    <3>4. \A i \in (l + 1)..(l + m) : w[i] = t[(a + i) - 1]
      BY <3>1, <1>4
    <3>5. QED BY <3>1, <3>2, <3>3, <3>4
  <2>3. QED BY <2>1, <2>2, <1>7
<1>9. x \in Seq(S) /\ Len(x) = l + m /\ w \in Seq(S) /\ Len(w) = l + m
  BY <1>4, <1>5, <1>6
<1>10. x = w
  BY <1>8, <1>9
<1>11. QED BY <1>2, <1>3, <1>10 DEF u, v, w, x

\* n characters are kept: they come behind those that were, and the rest of the
\* text is where it was.
LEMMA KeepIs ==
  ASSUME MinifyTypes, Reading, NEW n \in 1..2, (json + n) - 1 <= Len(original), NEW next, Keep(n, next)
  PROVE  /\ minified' \in Seq(Characters) /\ Len(minified') = Len(original)
         /\ \A i \in (json + n)..Len(original) : minified'[i] = original[i]
         /\ Done' = Done \o SubSeq(original, json, (json + n) - 1)
         /\ Done \in Seq(Characters) /\ json' = json + n /\ into' = into + n /\ in' = next /\ original' = original
<1> DEFINE N == Len(original)
           C == Characters
           new == [i \in 1..N |-> IF i - into \in 0..(n - 1) THEN Ahead(i - into) ELSE minified[i]]
<1>1. /\ original \in Seq(C) /\ minified \in Seq(C) /\ Len(minified) = N /\ N \in Nat
      /\ json \in 1..(N + 1) /\ into \in 1..json /\ \A i \in json..N : minified[i] = original[i]
  BY DEF MinifyTypes, Reading
<1>2. minified' = new /\ json' = json + n /\ into' = into + n /\ in' = next /\ original' = original
  BY <1>1 DEF Keep
<1>3. \A i \in 1..N : original[i] \in C /\ minified[i] \in C
  BY <1>1
<1>4. \A d \in 0..(n - 1) : Ahead(d) = original[json + d] /\ json + d \in 1..N
  <2>1. \A d \in 0..(n - 1) : json + d \in 1..N /\ json + d \in json..N
    BY <1>1
  <2>2. DOMAIN minified = 1..N
    BY <1>1
  <2>3. QED BY <2>1, <2>2, <1>1 DEF Ahead
<1>5. \A i \in 1..N : new[i] = IF i - into \in 0..(n - 1) THEN original[json + (i - into)] ELSE minified[i]
  BY <1>4
<1>6. \A i \in 1..N : new[i] \in C
  <2> HIDE DEF new, N, C
  <2>1. QED BY <1>3, <1>4, <1>5
<1>7. new \in Seq(C) /\ Len(new) = N
  <2>1. new = [i \in 1..N |-> new[i]]
    OBVIOUS
  <2> HIDE DEF new, N, C
  <2>2. QED BY <2>1, <1>1, <1>6
<1>8. \A i \in (json + n)..N : new[i] = original[i]
  <2>1. \A i \in (json + n)..N : i \in 1..N /\ i \in json..N /\ i - into \notin 0..(n - 1)
    BY <1>1
  <2> HIDE DEF new, N
  <2>2. QED BY <2>1, <1>1, <1>5
<1> HIDE DEF new, N, C
<1> DEFINE u == SubSeq(minified, 1, into - 1)
           v == SubSeq(original, json, (json + n) - 1)
           w == SubSeq(new, 1, (into + n) - 1)
<1>9. u \in Seq(C) /\ Len(u) = into - 1 /\ \A i \in 1..(into - 1) : u[i] = minified[i]
  BY <1>1
<1>10. v \in Seq(C) /\ Len(v) = n /\ \A i \in 1..n : v[i] = original[(json + i) - 1]
  <2>1. (json + n) - 1 \in json..N
    BY <1>1 DEF N
  <2>2. QED BY <2>1, <1>1 DEF N
<1>11. w \in Seq(C) /\ Len(w) = (into + n) - 1 /\ \A i \in 1..((into + n) - 1) : w[i] = new[i]
  <2>1. (into + n) - 1 \in 1..N
    BY <1>1 DEF N
  <2>2. QED BY <2>1, <1>1, <1>7
<1> HIDE DEF u, v, w
<1>12. w = u \o v
  <2> DEFINE x == u \o v
             l == into - 1
  <2>1. /\ x \in Seq(C) /\ Len(x) = Len(u) + Len(v) /\ \A i \in 1..Len(u) : x[i] = u[i]
        /\ \A i \in (Len(u) + 1)..(Len(u) + Len(v)) : x[i] = v[i - Len(u)]
    BY <1>9, <1>10, Concat, Zenon
  <2>2. Len(u) = l /\ Len(v) = n /\ l \in Nat /\ (into + n) - 1 = l + n
    BY <1>1, <1>9, <1>10
  <2>3. \A i \in 1..(l + n) : i \in 1..N
    BY <1>1 DEF N
  <2>4. \A i \in 1..l : i - into \notin 0..(n - 1)
    BY <1>1
  <2>5. \A i \in (l + 1)..(l + n) : i - into \in 0..(n - 1) /\ i - l \in 1..n /\ json + (i - into) = (json + (i - l)) - 1
    BY <1>1
  <2>6. \A i \in 1..l : u[i] = minified[i]
    BY <1>9
  <2> HIDE DEF x, l
  <2>7. \A i \in 1..l : x[i] = w[i]
    <3>1. \A i \in 1..l : i \in 1..(l + n)
      BY <2>2
    <3>2. \A i \in 1..l : w[i] = minified[i]
      BY <3>1, <2>2, <2>3, <2>4, <1>5, <1>11
    <3>3. QED BY <3>2, <2>1, <2>2, <2>6
  <2>8. \A i \in (l + 1)..(l + n) : x[i] = w[i]
    <3>1. \A i \in (l + 1)..(l + n) : i \in 1..(l + n)
      BY <2>2
    <3>2. \A i \in (l + 1)..(l + n) : w[i] = original[json + (i - into)]
      BY <3>1, <2>2, <2>3, <2>5, <1>5, <1>11
    <3>3. \A i \in (l + 1)..(l + n) : x[i] = original[(json + (i - l)) - 1]
      BY <2>1, <2>2, <2>5, <1>10
    <3>4. QED BY <3>2, <3>3, <2>5
  <2>9. \A i \in 1..(l + n) : i \in 1..l \/ i \in (l + 1)..(l + n)
    BY <2>2
  <2>10. Len(x) = l + n /\ Len(w) = l + n
    BY <2>1, <2>2, <1>11
  <2>11. x = w
    BY <2>1, <2>7, <2>8, <2>9, <2>10, <1>11
  <2>12. QED BY <2>11 DEF x
<1>13. Done' = w /\ Done = u
  BY <1>2 DEF Done, u, w
<1>14. QED BY <1>2, <1>7, <1>8, <1>9, <1>12, <1>13 DEF N, C, v

\* Three texts are one, whichever two are joined first.
LEMMA JoinedLater ==
  ASSUME NEW S, NEW a \in Seq(S), NEW b \in Seq(S), NEW c \in Seq(S), NEW d \in Seq(S), d = a \o b
  PROVE  d \o c = a \o (b \o c)
<1>1. (a \o b) \o c = a \o (b \o c)
  BY ConcatAssociative
<1>2. QED BY <1>1

LEMMA RemainsText ==
  ASSUME NEW t \in Seq(Characters), NEW i \in 1..(Len(t) + 1), NEW loop, loop = "string" => i >= 2
  PROVE  Remains(t, i, loop) \in Seq(Characters)
<1> DEFINE C == Characters
<1>1. Len(t) \in Nat /\ \A k \in 1..(Len(t) + 1) : Minified(t)[k] \in Seq(C)
  BY MinifiedIs
<1> HIDE DEF C
<1>2. CASE loop = "string"
  <2> DEFINE q == QuoteEnd(t, i)
  <2>1. q \in (i - 1)..Len(t)
    BY <1>2, QuoteEndIs
  <2> HIDE DEF q
  <2>2. q + 1 \in 1..(Len(t) + 1) /\ q \in 0..Len(t)
    BY <2>1, <1>1
  <2>3. SubSeq(t, i, q) \in Seq(C) /\ Minified(t)[q + 1] \in Seq(C)
    BY <2>1, <2>2, <1>1 DEF C
  <2>4. SubSeq(t, i, q) \o Minified(t)[q + 1] \in Seq(C)
    BY <2>3, Concat
  <2>5. QED BY <2>4, <1>2 DEF Remains, q, C
<1>3. CASE loop = "line"
  <2> DEFINE q == LineEnd(t, i)
  <2>1. q \in (i - 1)..Len(t)
    BY LineEndIs
  <2> HIDE DEF q
  <2>2. q + 1 \in 1..(Len(t) + 1)
    BY <2>1, <1>1
  <2>3. QED BY <2>2, <1>1, <1>3 DEF Remains, q, C
<1>4. CASE loop = "comment"
  <2> DEFINE q == CommentEnd(t, i)
  <2>1. q \in (i - 1)..Len(t)
    BY CommentEndIs
  <2> HIDE DEF q
  <2>2. q + 1 \in 1..(Len(t) + 1)
    BY <2>1, <1>1
  <2>3. QED BY <2>2, <1>1, <1>4 DEF Remains, q, C
<1>5. CASE loop \notin {"string", "line", "comment"}
  BY <1>1, <1>5 DEF Remains, C
<1>6. QED BY <1>2, <1>3, <1>4, <1>5

\* What is skipped leaves what the text comes to.
LEMMA SkipStep ==
  ASSUME MinifyInv, in # "done", NEW n \in 1..2, NEW next \in {"text", "line", "comment"}, Skip(n, next),
         json + n <= Len(original) + 1,
         NothingEscapedTwice(original) => Remains(original, json + n, next) = Remains(original, json, in)
  PROVE  MinifyInv'
<1>1. MinifyTypes /\ Reading /\ Len(original) \in Nat /\ n \in Nat
  BY DEF MinifyInv, MinifyTypes
<1>2. json' = json + n /\ in' = next /\ original' = original /\ minified' = minified /\ into' = into
  BY DEF Skip
<1>3. MinifyTypes'
  BY <1>1, <1>2 DEF MinifyTypes
<1>4. Reading'
  <2>1. json + n \in 1..(Len(original) + 1) /\ into \in 1..(json + n) /\ \A i \in (json + n)..Len(original) : i \in json..Len(original)
    BY <1>1 DEF Reading
  <2>2. QED BY <2>1, <1>1, <1>2 DEF Reading
<1>5. Done' = Done
  BY <1>2 DEF Done
<1>6. NothingEscapedTwice(original) => Done \o Remains(original, json + n, next) = Minified(original)[1]
  BY DEF MinifyInv
<1>7. QED BY <1>2, <1>3, <1>4, <1>5, <1>6 DEF MinifyInv

\* What is kept is what the text begins with.
LEMMA KeepStep ==
  ASSUME MinifyInv, in # "done", NEW n \in 1..2, NEW next \in {"text", "string"}, Keep(n, next),
         (json + n) - 1 <= Len(original),
         next = "string" /\ json + n <= Len(original) /\ original[(json + n) - 1] = "backslash" => original[json + n] # "quote",
         NothingEscapedTwice(original) =>
           Remains(original, json, in) = SubSeq(original, json, (json + n) - 1) \o Remains(original, json + n, next)
  PROVE  MinifyInv'
<1> DEFINE C == Characters
           v == SubSeq(original, json, (json + n) - 1)
           r == Remains(original, json + n, next)
<1>1. MinifyTypes /\ Reading /\ Len(original) \in Nat /\ n \in Nat /\ original \in Seq(C) /\ json \in Nat /\ json >= 1
  BY DEF MinifyInv, MinifyTypes, Reading
<1>2. /\ minified' \in Seq(C) /\ Len(minified') = Len(original)
      /\ \A i \in (json + n)..Len(original) : minified'[i] = original[i]
      /\ Done' = Done \o v
      /\ Done \in Seq(C) /\ json' = json + n /\ into' = into + n /\ in' = next /\ original' = original
  BY <1>1, KeepIs
<1>3. MinifyTypes'
  BY <1>1, <1>2 DEF MinifyTypes
<1>4. json + n \in 1..(Len(original) + 1) /\ json + n >= 2 /\ into + n \in 1..(json + n)
  BY <1>1 DEF Reading
<1>5. Reading'
  BY <1>1, <1>2, <1>4 DEF Reading
<1>6. v \in Seq(C)
  BY <1>1, <1>4
<1>7. r \in Seq(C)
  BY <1>1, <1>4, RemainsText
<1> HIDE DEF C, v, r
<1>8. NothingEscapedTwice(original) => Done' \o r = Minified(original)[1]
  <2>1. SUFFICES ASSUME NothingEscapedTwice(original) PROVE Done' \o r = Minified(original)[1]
    OBVIOUS
  <2>2. Done \o (v \o r) = Minified(original)[1]
    BY <2>1 DEF MinifyInv, v, r
  <2>3. (Done \o v) \o r = Done \o (v \o r)
    <3>1. Done \in Seq(C)
      BY <1>2
    <3> DEFINE d == Done \o v
    <3>2. d \in Seq(C) /\ d = Done \o v
      BY <3>1, <1>6, Concat
    <3> HIDE DEF d
    <3>3. d \o r = Done \o (v \o r)
      BY <3>1, <3>2, <1>6, <1>7, JoinedLater
    <3>4. QED BY <3>2, <3>3
  <2>4. QED BY <2>2, <2>3, <1>2
<1>9. QED BY <1>2, <1>3, <1>5, <1>8 DEF MinifyInv, r

\* The text from a character on: that character's part, and the text behind it.
LEMMA RemainsFrom ==
  ASSUME NEW t \in Seq(Characters), NEW i \in 1..Len(t)
  PROVE  /\ t[i] \in Blanks => Remains(t, i + 1, "text") = Remains(t, i, "text")
         /\ Opens(t, i, "slash") => Remains(t, i + 2, "line") = Remains(t, i, "text")
         /\ Opens(t, i, "star") => Remains(t, i + 2, "comment") = Remains(t, i, "text")
         /\ t[i] = "slash" /\ ~ Opens(t, i, "slash") /\ ~ Opens(t, i, "star") => Remains(t, i + 1, "text") = Remains(t, i, "text")
         /\ t[i] \in {"backslash", "star", "other"} => Remains(t, i, "text") = SubSeq(t, i, i) \o Remains(t, i + 1, "text")
         /\ t[i] = "quote" /\ NothingEscapedTwice(t) => Remains(t, i, "text") = SubSeq(t, i, i) \o Remains(t, i + 1, "string")
<1> DEFINE C == Characters
           e == EndOf(t, i)
           m == Minified(t)[e + 1]
<1>1. Len(t) \in Nat /\ e \in i..Len(t) /\ \A k \in 1..(Len(t) + 1) : Minified(t)[k] \in Seq(C)
  <2>1. Len(t) \in Nat /\ \A k \in 1..(Len(t) + 1) : Minified(t)[k] \in Seq(C)
    BY MinifiedIs
  <2>2. QED BY <2>1, EndsInside
<1>2. Minified(t)[i] = KeptFrom(t, i) \o m /\ Remains(t, i, "text") = Minified(t)[i] /\ Remains(t, i + 1, "text") = Minified(t)[i + 1]
  BY MinifiedIs DEF Remains
<1>3. e + 1 \in 1..(Len(t) + 1)
  BY <1>1
<1>4. m \in Seq(C)
  BY <1>1, <1>3
<1>5. t[i] \in Blanks \cup {"slash"} => Minified(t)[i] = m
  <2>1. SUFFICES ASSUME t[i] \in Blanks \cup {"slash"} PROVE Minified(t)[i] = m
    OBVIOUS
  <2>2. KeptFrom(t, i) = << >>
    BY <2>1 DEF KeptFrom
  <2> HIDE DEF m, C
  <2>3. << >> \o m = m
    BY <1>4
  <2>4. QED BY <2>2, <2>3, <1>2
<1> HIDE DEF C
<1>6. t[i] \in Blanks => Remains(t, i + 1, "text") = Remains(t, i, "text")
  <2>1. SUFFICES ASSUME t[i] \in Blanks PROVE Remains(t, i + 1, "text") = Remains(t, i, "text")
    OBVIOUS
  <2>2. e = i
    BY <2>1 DEF EndOf, Opens, Blanks
  <2>3. QED BY <2>1, <2>2, <1>2, <1>5
<1>7. Opens(t, i, "slash") => Remains(t, i + 2, "line") = Remains(t, i, "text")
  <2>1. SUFFICES ASSUME Opens(t, i, "slash") PROVE Remains(t, i + 2, "line") = Remains(t, i, "text")
    OBVIOUS
  <2>2. e = LineEnd(t, i + 2) /\ t[i] = "slash"
    BY <2>1 DEF EndOf, Opens
  <2>3. Remains(t, i + 2, "line") = Minified(t)[LineEnd(t, i + 2) + 1]
    BY DEF Remains
  <2>4. QED BY <2>2, <2>3, <1>2, <1>5
<1>8. Opens(t, i, "star") => Remains(t, i + 2, "comment") = Remains(t, i, "text")
  <2>1. SUFFICES ASSUME Opens(t, i, "star") PROVE Remains(t, i + 2, "comment") = Remains(t, i, "text")
    OBVIOUS
  <2>2. e = CommentEnd(t, i + 2) /\ t[i] = "slash"
    BY <2>1 DEF EndOf, Opens
  <2>3. Remains(t, i + 2, "comment") = Minified(t)[CommentEnd(t, i + 2) + 1]
    BY DEF Remains
  <2>4. QED BY <2>2, <2>3, <1>2, <1>5
<1>9. t[i] = "slash" /\ ~ Opens(t, i, "slash") /\ ~ Opens(t, i, "star") => Remains(t, i + 1, "text") = Remains(t, i, "text")
  <2>1. SUFFICES ASSUME t[i] = "slash", ~ Opens(t, i, "slash"), ~ Opens(t, i, "star") PROVE Remains(t, i + 1, "text") = Remains(t, i, "text")
    OBVIOUS
  <2>2. e = i
    BY <2>1 DEF EndOf
  <2>3. QED BY <2>1, <2>2, <1>2, <1>5
<1>10. t[i] \in {"backslash", "star", "other"} => Remains(t, i, "text") = SubSeq(t, i, i) \o Remains(t, i + 1, "text")
  <2>1. SUFFICES ASSUME t[i] \in {"backslash", "star", "other"} PROVE Remains(t, i, "text") = SubSeq(t, i, i) \o Remains(t, i + 1, "text")
    OBVIOUS
  <2>2. e = i /\ t[i] \notin Blanks \cup {"slash"}
    BY <2>1 DEF EndOf, Opens, Blanks
  <2>3. KeptFrom(t, i) = SubSeq(t, i, i)
    BY <2>2 DEF KeptFrom
  <2>4. QED BY <2>2, <2>3, <1>2
<1>11. t[i] = "quote" /\ NothingEscapedTwice(t) => Remains(t, i, "text") = SubSeq(t, i, i) \o Remains(t, i + 1, "string")
  <2>1. SUFFICES ASSUME t[i] = "quote", NothingEscapedTwice(t) PROVE Remains(t, i, "text") = SubSeq(t, i, i) \o Remains(t, i + 1, "string")
    OBVIOUS
  <2>2. e = QuoteEnd(t, i + 1) /\ t[i] \notin Blanks \cup {"slash"}
    BY <2>1, StringEndIs DEF EndOf, Opens, Blanks
  <2>3. KeptFrom(t, i) = SubSeq(t, i, e)
    BY <2>2 DEF KeptFrom
  <2>4. Remains(t, i + 1, "string") = SubSeq(t, i + 1, e) \o m
    BY <2>2 DEF Remains
  <2> HIDE DEF e, m
  <2>5. SubSeq(t, i, e) = SubSeq(t, i, i) \o SubSeq(t, i + 1, e) /\ SubSeq(t, i, i) \in Seq(C) /\ SubSeq(t, i + 1, e) \in Seq(C)
    <3>1. i \in 1..(Len(t) + 1) /\ i \in (i - 1)..Len(t)
      BY <1>1
    <3>2. QED BY <3>1, <1>1, PartsOf DEF C
  <2> DEFINE a == SubSeq(t, i, i)
             b == SubSeq(t, i + 1, e)
  <2> HIDE DEF a, b
  <2>6. (a \o b) \o m = a \o (b \o m)
    <3>1. a \in Seq(C) /\ b \in Seq(C)
      BY <2>5 DEF a, b
    <3> DEFINE d == a \o b
    <3>2. d \in Seq(C) /\ d = a \o b
      BY <3>1, Concat
    <3> HIDE DEF d
    <3>3. d \o m = a \o (b \o m)
      BY <3>1, <3>2, <1>4, JoinedLater
    <3>4. QED BY <3>2, <3>3
  <2>7. QED BY <2>3, <2>4, <2>5, <2>6, <1>2 DEF a, b
<1>12. QED BY <1>6, <1>7, <1>8, <1>9, <1>10, <1>11

\* In a string: n characters that do not end it, and a quote that does.
LEMMA StringGoesOn ==
  ASSUME NEW t \in Seq(Characters), NEW i \in 2..Len(t), NEW n \in 1..2, (i + n) - 1 <= Len(t), QuoteEnd(t, i + n) = QuoteEnd(t, i)
  PROVE  Remains(t, i, "string") = SubSeq(t, i, (i + n) - 1) \o Remains(t, i + n, "string")
<1> DEFINE C == Characters
           q == QuoteEnd(t, i)
           m == Minified(t)[q + 1]
           k == (i + n) - 1
           a == SubSeq(t, i, k)
           b == SubSeq(t, i + n, q)
           d == SubSeq(t, i, q)
<1>1. Len(t) \in Nat /\ i + n \in 2..(Len(t) + 1) /\ i \in 1..(Len(t) + 1) /\ k \in (i - 1)..Len(t) /\ k + 1 = i + n
  OBVIOUS
<1>2. q \in k..Len(t)
  <2>1. QuoteEnd(t, i + n) \in ((i + n) - 1)..Len(t)
    BY <1>1, QuoteEndIs
  <2>2. QED BY <2>1
<1>3. Remains(t, i, "string") = d \o m /\ Remains(t, i + n, "string") = b \o m
  BY DEF Remains
<1>4. m \in Seq(C)
  <2>1. q + 1 \in 1..(Len(t) + 1)
    BY <1>1, <1>2
  <2>2. \A l \in 1..(Len(t) + 1) : Minified(t)[l] \in Seq(C)
    BY MinifiedIs
  <2>3. QED BY <2>1, <2>2
<1> HIDE DEF q, m, C
<1>5. d = a \o b /\ a \in Seq(C) /\ b \in Seq(C)
  <2> HIDE DEF k
  <2>1. /\ SubSeq(t, i, q) = SubSeq(t, i, k) \o SubSeq(t, k + 1, q)
        /\ SubSeq(t, i, k) \in Seq(C) /\ SubSeq(t, k + 1, q) \in Seq(C)
    BY <1>1, <1>2, PartsOf DEF C
  <2>2. QED BY <2>1, <1>1
<1>6. d \in Seq(C)
  BY <1>5, Concat
<1> HIDE DEF a, b, d
<1>7. d \o m = a \o (b \o m)
  BY <1>4, <1>5, <1>6, JoinedLater
<1>8. QED BY <1>3, <1>7 DEF a

LEMMA StringEnds ==
  ASSUME NEW t \in Seq(Characters), NEW i \in 2..Len(t), QuoteEnd(t, i) = i
  PROVE  Remains(t, i, "string") = SubSeq(t, i, i) \o Remains(t, i + 1, "text")
BY DEF Remains

LEMMA MinifyOpens ==
  ASSUME MinifyInv, OpenComment
  PROVE  MinifyInv'
<1>1. MinifyTypes /\ Reading /\ in = "text" /\ Ahead(0) = "slash" /\ original \in Seq(Characters) /\ Len(original) \in Nat
  BY DEF MinifyInv, OpenComment, MinifyTypes
<1>2. json \in 1..Len(original) /\ original[json] = "slash"
  BY <1>1, AheadIs DEF Reading
<1>3. Opens(original, json, "slash") <=> Ahead(1) = "slash"
  BY <1>1, <1>2, AheadIs DEF Opens
<1>4. Opens(original, json, "star") <=> Ahead(1) = "star"
  BY <1>1, <1>2, AheadIs DEF Opens
<1>5. CASE Ahead(1) = "slash"
  <2>1. Skip(2, "line")
    BY <1>5, <1>1 DEF OpenComment
  <2>2. json + 2 <= Len(original) + 1
    BY <1>3, <1>5, <1>2 DEF Opens
  <2>3. Remains(original, json + 2, "line") = Remains(original, json, in)
    BY <1>1, <1>2, <1>3, <1>5, RemainsFrom
  <2>4. QED BY <2>1, <2>2, <2>3, <1>1, SkipStep
<1>6. CASE Ahead(1) = "star"
  <2>1. Skip(2, "comment")
    BY <1>6, <1>1 DEF OpenComment
  <2>2. json + 2 <= Len(original) + 1
    BY <1>4, <1>6, <1>2 DEF Opens
  <2>3. Remains(original, json + 2, "comment") = Remains(original, json, in)
    BY <1>1, <1>2, <1>4, <1>6, RemainsFrom
  <2>4. QED BY <2>1, <2>2, <2>3, <1>1, SkipStep
<1>7. CASE Ahead(1) \notin {"slash", "star"}
  <2>1. Skip(1, "text")
    BY <1>7, <1>1 DEF OpenComment
  <2>2. json + 1 <= Len(original) + 1
    BY <1>2
  <2>3. Remains(original, json + 1, "text") = Remains(original, json, in)
    BY <1>1, <1>2, <1>3, <1>4, <1>7, RemainsFrom
  <2>4. QED BY <2>1, <2>2, <2>3, <1>1, SkipStep
<1>8. QED BY <1>5, <1>6, <1>7

LEMMA MinifyText ==
  ASSUME MinifyInv, DropBlank \/ OpenString \/ KeepOther
  PROVE  MinifyInv'
<1>1. MinifyTypes /\ Reading /\ in = "text" /\ original \in Seq(Characters) /\ Len(original) \in Nat
  BY DEF MinifyInv, DropBlank, OpenString, KeepOther, MinifyTypes
<1>2. json \in 1..Len(original) /\ original[json] = Ahead(0)
  <2>1. Ahead(0) # "zero"
    BY DEF DropBlank, OpenString, KeepOther, Blanks
  <2>2. QED BY <2>1, <1>1, AheadIs DEF Reading
<1>3. json + 1 <= Len(original) + 1 /\ (json + 1) - 1 = json /\ json <= Len(original)
  BY <1>2
<1>4. CASE DropBlank
  <2>1. Skip(1, "text") /\ original[json] \in Blanks
    BY <1>2, <1>4 DEF DropBlank
  <2>2. Remains(original, json + 1, "text") = Remains(original, json, in)
    BY <2>1, <1>1, <1>2, RemainsFrom
  <2>3. QED BY <2>1, <2>2, <1>1, <1>3, SkipStep
<1>5. CASE OpenString
  <2>1. Keep(1, "string") /\ original[json] = "quote"
    BY <1>2, <1>5 DEF OpenString
  <2>2. NothingEscapedTwice(original) =>
          Remains(original, json, in) = SubSeq(original, json, (json + 1) - 1) \o Remains(original, json + 1, "string")
    BY <2>1, <1>1, <1>2, <1>3, RemainsFrom
  <2>3. "string" = "string" /\ json + 1 <= Len(original) /\ original[(json + 1) - 1] = "backslash" => original[json + 1] # "quote"
    BY <2>1, <1>3
  <2>4. (json + 1) - 1 <= Len(original) /\ 1 \in 1..2 /\ "string" \in {"text", "string"}
    BY <1>3
  <2>5. QED BY <2>1, <2>2, <2>3, <2>4, <1>1, KeepStep
<1>6. CASE KeepOther
  <2>1. Keep(1, "text") /\ original[json] \in {"backslash", "star", "other"}
    BY <1>2, <1>6 DEF KeepOther
  <2>2. Remains(original, json, in) = SubSeq(original, json, (json + 1) - 1) \o Remains(original, json + 1, "text")
    BY <2>1, <1>1, <1>2, <1>3, RemainsFrom
  <2>3. (json + 1) - 1 <= Len(original) /\ 1 \in 1..2 /\ "text" \in {"text", "string"}
    BY <1>3
  <2>4. QED BY <2>1, <2>2, <2>3, <1>1, KeepStep
<1>7. QED BY <1>4, <1>5, <1>6

LEMMA MinifyLine ==
  ASSUME MinifyInv, skip_oneline_comment
  PROVE  MinifyInv'
<1>1. /\ MinifyTypes /\ Reading /\ in = "line" /\ ~ Over /\ original \in Seq(Characters) /\ Len(original) \in Nat
      /\ Skip(1, IF Ahead(0) = "newline" THEN "text" ELSE "line")
  BY DEF MinifyInv, skip_oneline_comment, MinifyTypes
<1>2. json \in 1..Len(original) /\ original[json] = Ahead(0)
  BY <1>1, AheadIs DEF Reading
<1>3. json + 1 <= Len(original) + 1 /\ json \in 1..(Len(original) + 1) /\ json <= Len(original)
  BY <1>2
<1>4. CASE Ahead(0) = "newline"
  <2>1. LineEnd(original, json) = json
    BY <1>1, <1>2, <1>3, <1>4, LineEndIs
  <2>2. Remains(original, json + 1, "text") = Remains(original, json, in)
    BY <2>1, <1>1 DEF Remains
  <2>3. Skip(1, "text")
    BY <1>1, <1>4
  <2>4. QED BY <2>2, <2>3, <1>1, <1>3, SkipStep
<1>5. CASE Ahead(0) # "newline"
  <2>1. LineEnd(original, json) = LineEnd(original, json + 1)
    BY <1>1, <1>2, <1>3, <1>5, LineEndIs
  <2>2. Remains(original, json + 1, "line") = Remains(original, json, in)
    BY <2>1, <1>1 DEF Remains
  <2>3. Skip(1, "line")
    BY <1>1, <1>5
  <2>4. QED BY <2>2, <2>3, <1>1, <1>3, SkipStep
<1>6. QED BY <1>4, <1>5

LEMMA MinifyComment ==
  ASSUME MinifyInv, skip_multiline_comment
  PROVE  MinifyInv'
<1>1. /\ MinifyTypes /\ Reading /\ in = "comment" /\ ~ Over /\ original \in Seq(Characters) /\ Len(original) \in Nat
      /\ IF Ahead(0) = "star" /\ Ahead(1) = "slash" THEN Skip(2, "text") ELSE Skip(1, "comment")
  BY DEF MinifyInv, skip_multiline_comment, MinifyTypes
<1>2. json \in 1..Len(original) /\ original[json] = Ahead(0)
  BY <1>1, AheadIs DEF Reading
<1>3. json + 1 <= Len(original) + 1 /\ json \in 1..(Len(original) + 1) /\ json <= Len(original)
  BY <1>2
<1> DEFINE Closes == json < Len(original) /\ original[json] = "star" /\ original[json + 1] = "slash"
<1>4. Closes <=> Ahead(0) = "star" /\ Ahead(1) = "slash"
  BY <1>1, <1>2, AheadIs
<1>5. CASE Closes
  <2>1. CommentEnd(original, json) = json + 1 /\ json + 2 <= Len(original) + 1
    BY <1>1, <1>2, <1>3, <1>5, CommentEndIs
  <2>2. Remains(original, json + 2, "text") = Remains(original, json, in)
    <3>1. CommentEnd(original, json) + 1 = json + 2
      BY <2>1, <1>2
    <3>2. Remains(original, json + 2, "text") = Minified(original)[json + 2]
      BY DEF Remains
    <3>3. Remains(original, json, in) = Minified(original)[CommentEnd(original, json) + 1]
      BY <1>1 DEF Remains
    <3>4. QED BY <3>1, <3>2, <3>3
  <2>3. Skip(2, "text")
    BY <1>1, <1>4, <1>5
  <2>4. QED BY <2>1, <2>2, <2>3, <1>1, SkipStep
<1>6. CASE ~ Closes
  <2>1. CommentEnd(original, json) = CommentEnd(original, json + 1)
    BY <1>1, <1>2, <1>3, <1>6, CommentEndIs
  <2>2. Remains(original, json + 1, "comment") = Remains(original, json, in)
    BY <2>1, <1>1 DEF Remains
  <2>3. Skip(1, "comment")
    BY <1>1, <1>4, <1>6
  <2>4. QED BY <2>2, <2>3, <1>1, <1>3, SkipStep
<1>7. QED BY <1>5, <1>6

LEMMA MinifyString ==
  ASSUME MinifyInv, minify_string
  PROVE  MinifyInv'
<1>1. /\ MinifyTypes /\ Reading /\ in = "string" /\ ~ Over /\ original \in Seq(Characters) /\ Len(original) \in Nat
      /\ json >= 2 /\ (json <= Len(original) /\ original[json - 1] = "backslash" => original[json] # "quote")
  BY DEF MinifyInv, minify_string, MinifyTypes, Reading
<1>2. json \in 1..Len(original) /\ original[json] = Ahead(0)
  BY <1>1, AheadIs DEF Reading
<1>3. /\ json + 1 <= Len(original) + 1 /\ json \in 2..Len(original) /\ json \in 2..(Len(original) + 1) /\ json <= Len(original)
      /\ (json + 1) - 1 = json
  BY <1>1, <1>2
<1>4. CASE Ahead(0) = "quote"
  <2>1. QuoteEnd(original, json) = json
    BY <1>1, <1>2, <1>3, <1>4, QuoteEndIs
  <2>2. Remains(original, json, in) = SubSeq(original, json, (json + 1) - 1) \o Remains(original, json + 1, "text")
    BY <2>1, <1>1, <1>3, StringEnds
  <2>3. Keep(1, "text") /\ (json + 1) - 1 <= Len(original)
    BY <1>1, <1>3, <1>4 DEF minify_string
  <2>4. QED BY <2>2, <2>3, <1>1, KeepStep
<1>5. CASE Ahead(0) = "backslash" /\ Ahead(1) = "quote"
  <2>1. json + 1 <= Len(original) /\ original[json + 1] = "quote" /\ original[json] = "backslash"
    BY <1>1, <1>2, <1>5, AheadIs
  <2>2. QuoteEnd(original, json) = QuoteEnd(original, json + 1)
    BY <2>1, <1>1, <1>2, <1>3, QuoteEndIs
  <2>3. QuoteEnd(original, json + 1) = QuoteEnd(original, json + 2)
    <3> DEFINE k == json + 1
    <3>1. k \in 2..(Len(original) + 1) /\ k <= Len(original) /\ k - 1 = json /\ k + 1 = json + 2
      BY <2>1, <1>3
    <3>2. original[k] = "quote" /\ original[k - 1] = "backslash"
      BY <2>1, <3>1
    <3> HIDE DEF k
    <3>3. QuoteEnd(original, k) = QuoteEnd(original, k + 1)
      BY <3>1, <3>2, <1>1, QuoteEndIs
    <3>4. QED BY <3>1, <3>3 DEF k
  <2>4. (json + 2) - 1 <= Len(original) /\ (json + 2) - 1 = json + 1
    BY <2>1, <1>3
  <2>5. Remains(original, json, in) = SubSeq(original, json, (json + 2) - 1) \o Remains(original, json + 2, "string")
    <3>1. QuoteEnd(original, json + 2) = QuoteEnd(original, json)
      BY <2>2, <2>3
    <3>2. /\ original \in Seq(Characters) /\ json \in 2..Len(original) /\ 2 \in 1..2
          /\ (json + 2) - 1 <= Len(original)
      BY <2>4, <1>1, <1>3
    <3>3. Remains(original, json, "string") = SubSeq(original, json, (json + 2) - 1) \o Remains(original, json + 2, "string")
      BY <3>1, <3>2, StringGoesOn
    <3>4. QED BY <3>3, <1>1
  <2>6. Keep(2, "string")
    BY <1>1, <1>5 DEF minify_string
  <2>7. original[(json + 2) - 1] # "backslash"
    BY <2>1, <2>4
  <2>8. QED BY <2>4, <2>5, <2>6, <2>7, <1>1, KeepStep
<1>6. CASE Ahead(0) # "quote" /\ ~ (Ahead(0) = "backslash" /\ Ahead(1) = "quote")
  <2>1. QuoteEnd(original, json + 1) = QuoteEnd(original, json)
    BY <1>1, <1>2, <1>3, <1>6, QuoteEndIs
  <2>2. Remains(original, json, in) = SubSeq(original, json, (json + 1) - 1) \o Remains(original, json + 1, "string")
    BY <2>1, <1>1, <1>3, StringGoesOn
  <2>3. Keep(1, "string") /\ (json + 1) - 1 <= Len(original)
    BY <1>1, <1>3, <1>6 DEF minify_string
  <2>4. json + 1 <= Len(original) /\ original[(json + 1) - 1] = "backslash" => original[json + 1] # "quote"
    BY <1>1, <1>2, <1>3, <1>6, AheadIs
  <2>5. QED BY <2>2, <2>3, <2>4, <1>1, KeepStep
<1>7. QED BY <1>4, <1>5, <1>6

LEMMA MinifyEnds ==
  ASSUME MinifyInv, Terminate
  PROVE  MinifyInv'
<1> DEFINE N == Len(original)
           C == Characters
<1>1. /\ MinifyTypes /\ Reading /\ original \in Seq(C) /\ N \in Nat /\ in # "done" /\ json = N + 1
      /\ minified' = Done /\ in' = "done" /\ original' = original
  BY AheadIs DEF MinifyInv, Terminate, MinifyTypes, Done
<1>2. Done \in Seq(C)
  <2>1. minified \in Seq(C) /\ into \in 1..(N + 1) /\ Len(minified) = N
    BY <1>1 DEF MinifyTypes, Reading
  <2>2. into - 1 \in 0..N
    BY <2>1, <1>1
  <2>3. QED BY <2>1, <2>2 DEF Done
<1>3. Remains(original, json, in) = << >>
  <2>1. Minified(original)[N + 1] = << >>
    BY <1>1, MinifiedIs
  <2>2. N + 1 \in 1..(N + 1)
    BY <1>1
  <2>3. LineEnd(original, N + 1) = N /\ CommentEnd(original, N + 1) = N
    BY <2>2, <1>1, LineEndIs, CommentEndIs
  <2>4. CASE in = "string"
    <3>1. N + 1 \in 2..(N + 1)
      BY <2>4, <1>1 DEF Reading
    <3>2. QuoteEnd(original, N + 1) = N
      BY <3>1, <1>1, QuoteEndIs
    <3>3. SubSeq(original, N + 1, N) = << >>
      BY <1>1
    <3>4. Remains(original, json, in) = << >> \o << >>
      BY <2>1, <2>4, <3>2, <3>3, <1>1 DEF Remains
    <3>5. QED BY <3>4
  <2>5. CASE in # "string"
    BY <2>1, <2>3, <2>5, <1>1 DEF Remains
  <2>6. QED BY <2>4, <2>5
<1>4. NothingEscapedTwice(original) => Done = Minified(original)[1]
  <2>1. Done \o << >> = Done
    BY <1>2
  <2>2. QED BY <2>1, <1>1, <1>3 DEF MinifyInv
<1>5. MinifyTypes'
  BY <1>1, <1>2 DEF MinifyTypes
<1>6. QED BY <1>1, <1>4, <1>5 DEF MinifyInv

\* What is written and what is still to be read are, together, the text without
\* blanks and comments.
THEOREM MinifyInvariant == MinifySpec => []MinifyInv
<1>1. MinifyInit => MinifyInv
  BY MinifyStart
<1>2. MinifyInv /\ [MinifyNext]_minifyVars => MinifyInv'
  <2>1. SUFFICES ASSUME MinifyInv, [MinifyNext]_minifyVars PROVE MinifyInv'
    OBVIOUS
  <2>2. CASE DropBlank \/ OpenString \/ KeepOther
    BY <2>1, <2>2, MinifyText
  <2>3. CASE OpenComment
    BY <2>1, <2>3, MinifyOpens
  <2>4. CASE skip_oneline_comment
    BY <2>1, <2>4, MinifyLine
  <2>5. CASE skip_multiline_comment
    BY <2>1, <2>5, MinifyComment
  <2>6. CASE minify_string
    BY <2>1, <2>6, MinifyString
  <2>7. CASE Terminate
    BY <2>1, <2>7, MinifyEnds
  <2>8. CASE UNCHANGED minifyVars
    BY <2>1, <2>8 DEF minifyVars, MinifyInv, MinifyTypes, Reading, Done
  <2>9. QED BY <2>1, <2>2, <2>3, <2>4, <2>5, <2>6, <2>7, <2>8 DEF MinifyNext
<1>3. QED BY <1>1, <1>2, PTL DEF MinifySpec

\* cJSON_Minify in place never writes over what it has still to read, and leaves
\* a text of any length without escaped backslashes the same but for blanks and
\* comments.
THEOREM MinifyKeepsTexts == MinifySpec => []MinifiesInPlace
<1>1. MinifyInv => MinifiesInPlace
  <2>1. SUFFICES ASSUME MinifyInv PROVE MinifiesInPlace
    OBVIOUS
  <2>2. UnreadIsIntact
    BY <2>1 DEF MinifyInv, Reading, MinifyTypes, UnreadIsIntact
  <2>3. MinifiesSimpleTexts
    BY <2>1 DEF MinifyInv, MinifiesSimpleTexts
  <2>4. QED BY <2>2, <2>3 DEF MinifiesInPlace
<1>2. QED BY <1>1, MinifyInvariant, PTL

-----------------------------------------------------------------------------
(* The dialog's conversions: sequences behind one another, and digits.      *)

LEMMA JoinedIs ==
  ASSUME NEW S, NEW parts \in Seq(Seq(S))
  PROVE  /\ Len(parts) \in Nat /\ Joined(parts) \in [0..Len(parts) -> Seq(S)] /\ Joined(parts)[0] = << >>
         /\ \A n \in 1..Len(parts) : Joined(parts)[n] = Joined(parts)[n - 1] \o parts[n]
<1> DEFINE N == Len(parts)
           T == Seq(S)
           step == [n \in 1..N |-> [s \in T |-> s \o parts[n]]]
           Body(f) == [n \in 0..N |-> IF n = 0 THEN << >> ELSE f[n - 1] \o parts[n]]
           joined == CHOOSE f : f = Body(f)
<1>1. N \in Nat /\ << >> \in T /\ \A n \in 1..N : parts[n] \in T
  OBVIOUS
<1>2. step \in Steps(N, T)
  <2>1. \A n \in 1..N, s \in T : s \o parts[n] \in T
    BY <1>1, Concat
  <2> HIDE DEF T, N
  <2>2. QED BY <2>1 DEF Steps
<1>3. PICK r : r \in RunsOf(N, T, << >>, step)
  <2> HIDE DEF step, N, T
  <2> QED BY <1>1, <1>2, Recursion
<1>4. r \in [0..N -> T] /\ r[0] = << >> /\ \A n \in 1..N : r[n] = step[n][r[n - 1]]
  BY <1>3, Zenon DEF RunsOf
<1> HIDE DEF N, T
<1>5. \A n \in 1..N : r[n] = r[n - 1] \o parts[n]
  <2>1. \A n \in 1..N : r[n - 1] \in T
    BY <1>1, <1>4
  <2>2. \A n \in 1..N, s \in T : step[n][s] = s \o parts[n]
    OBVIOUS
  <2> HIDE DEF step
  <2>3. QED BY <1>4, <2>1, <2>2
<1> HIDE DEF step
<1>6. r = Body(r)
  <2>1. \A n \in 0..N : r[n] = IF n = 0 THEN << >> ELSE r[n - 1] \o parts[n]
    <3>1. \A n \in 0..N : n = 0 \/ n \in 1..N
      BY <1>1
    <3>2. QED BY <3>1, <1>4, <1>5
  <2>2. r = [n \in 0..N |-> r[n]]
    BY <1>4
  <2>3. QED BY <2>1, <2>2
<1>7. joined = Body(joined)
  <2> HIDE DEF Body
  <2> QED BY <1>6
<1>8. Joined(parts) = joined
  BY DEF Joined, N
<1> HIDE DEF joined
<1>9. joined[0] = << >> /\ (\A n \in 1..N : joined[n] = joined[n - 1] \o parts[n]) /\ joined = [n \in 0..N |-> joined[n]]
  <2>1. \A n \in 0..N : joined[n] = IF n = 0 THEN << >> ELSE joined[n - 1] \o parts[n]
    BY <1>7
  <2>2. \A n \in 1..N : n \in 0..N /\ n # 0
    BY <1>1
  <2>3. 0 \in 0..N
    BY <1>1
  <2>4. joined = [n \in 0..N |-> joined[n]]
    BY <1>7
  <2>5. QED BY <2>1, <2>2, <2>3, <2>4
<1>10. \A n \in 0..N : joined[n] \in T
  <2> DEFINE Wrong == {n \in 0..N : joined[n] \notin T}
  <2>1. ASSUME NEW n \in Wrong PROVE \E k \in Wrong : k < n
    <3>1. n \in 1..N /\ n - 1 \in 0..N /\ n - 1 < n
      BY <2>1, <1>1, <1>9
    <3>2. joined[n - 1] \notin T
      <4>1. SUFFICES ASSUME joined[n - 1] \in T PROVE FALSE
        OBVIOUS
      <4>2. joined[n - 1] \o parts[n] \in T
        BY <4>1, <3>1, <1>1, Concat DEF T
      <4>3. QED BY <4>2, <3>1, <2>1, <1>9
    <3>3. QED BY <3>1, <3>2
  <2>2. Wrong \in SUBSET Nat
    BY <1>1
  <2>3. Wrong = {}
    <3> HIDE DEF Wrong
    <3> QED BY <2>1, <2>2, NoLeast
  <2>4. QED BY <2>3
<1>11. joined \in [0..N -> T]
  BY <1>9, <1>10
<1>12. QED BY <1>1, <1>8, <1>9, <1>11 DEF N, T

\* What is joined stays in front of what is joined to it.
LEMMA JoinedGrows ==
  ASSUME NEW S, NEW parts \in Seq(Seq(S)), NEW j \in 0..Len(parts), NEW k \in j..Len(parts)
  PROVE  /\ Joined(parts)[j] \in Seq(S) /\ Joined(parts)[k] \in Seq(S)
         /\ Len(Joined(parts)[j]) <= Len(Joined(parts)[k])
         /\ \A i \in 1..Len(Joined(parts)[j]) : Joined(parts)[k][i] = Joined(parts)[j][i]
<1> DEFINE N == Len(parts)
           J == Joined(parts)
           T == Seq(S)
           After(n) == Len(J[j]) <= Len(J[n]) /\ \A i \in 1..Len(J[j]) : J[n][i] = J[j][i]
           Wrong == {n \in j..N : ~ After(n)}
<1>1. N \in Nat /\ J \in [0..N -> T] /\ (\A n \in 1..N : J[n] = J[n - 1] \o parts[n] /\ parts[n] \in T)
  <2>1. N \in Nat /\ \A n \in 1..N : parts[n] \in T
    <3>1. parts \in Seq(T)
      OBVIOUS
    <3> HIDE DEF T
    <3>2. QED BY <3>1
  <2>2. J \in [0..N -> T] /\ \A n \in 1..N : J[n] = J[n - 1] \o parts[n]
    BY JoinedIs, Zenon
  <2>3. QED BY <2>1, <2>2
<1>2. j \in 0..N /\ k \in j..N
  OBVIOUS
<1>3. Len(J[j]) \in Nat /\ \A n \in 0..N : Len(J[n]) \in Nat /\ J[n] \in T
  <2> HIDE DEF J, N
  <2>1. \A n \in 0..N : J[n] \in T
    BY <1>1
  <2>2. QED BY <2>1, <1>2
<1> HIDE DEF J, N
<1>4. ASSUME NEW n \in Wrong PROVE \E m \in Wrong : m < n
  <2>1. n # j
    BY <1>4, <1>3
  <2>2. n \in 1..N /\ n - 1 \in j..N /\ n - 1 < n /\ n - 1 \in 0..N
    BY <1>1, <1>2, <1>4, <2>1
  <2>3. ~ After(n - 1)
    <3>1. SUFFICES ASSUME After(n - 1) PROVE FALSE
      OBVIOUS
    <3> DEFINE a == J[n - 1]
               b == parts[n]
    <3>2. a \in T /\ b \in T /\ J[n] = a \o b /\ Len(J[j]) \in Nat
      BY <2>2, <1>1, <1>3
    <3>3. Len(J[j]) <= Len(a) /\ \A i \in 1..Len(J[j]) : a[i] = J[j][i]
      BY <3>1
    <3> HIDE DEF a, b
    <3>4. Len(a \o b) >= Len(a) /\ \A i \in 1..Len(a) : (a \o b)[i] = a[i]
      BY <3>2
    <3>5. Len(a) \in Nat /\ Len(a \o b) \in Nat
      BY <3>2
    <3>6. After(n)
      BY <3>2, <3>3, <3>4, <3>5
    <3>7. QED BY <3>6, <1>4
  <2>4. QED BY <2>2, <2>3
<1>5. Wrong \in SUBSET Nat
  BY <1>1, <1>2
<1>6. Wrong = {}
  <2> HIDE DEF Wrong
  <2> QED BY <1>4, <1>5, NoLeast
<1>7. After(k)
  BY <1>2, <1>6
<1>8. k \in 0..N
  BY <1>1, <1>2
<1>9. QED BY <1>2, <1>3, <1>7, <1>8 DEF J

\* The number of some digits is made by one digit after the other.
LEMMA ComposeIs ==
  ASSUME NEW base \in Int, NEW high \in Int, NEW digits \in Seq(Int)
  PROVE  \E f \in [0..Len(digits) -> Int] :
           /\ f[0] = high /\ Compose(base, high, digits) = f[Len(digits)]
           /\ \A n \in 1..Len(digits) : f[n] = f[n - 1] * base + digits[n]
<1> DEFINE N == Len(digits)
           step == [n \in 1..N |-> [s \in Int |-> s * base + digits[n]]]
           Body(f) == [n \in 0..N |-> IF n = 0 THEN high ELSE f[n - 1] * base + digits[n]]
           made == CHOOSE f : f = Body(f)
<1>1. N \in Nat /\ \A n \in 1..N : digits[n] \in Int
  OBVIOUS
<1>2. step \in Steps(N, Int)
  <2>1. \A n \in 1..N, s \in Int : s * base + digits[n] \in Int
    <3>1. \A s \in Int : s * base \in Int
      OBVIOUS
    <3>2. QED BY <3>1, <1>1
  <2> HIDE DEF N
  <2>2. QED BY <2>1 DEF Steps
<1>3. PICK r : r \in RunsOf(N, Int, high, step)
  <2> HIDE DEF step, N
  <2> QED BY <1>1, <1>2, Recursion
<1>4. r \in [0..N -> Int] /\ r[0] = high /\ \A n \in 1..N : r[n] = step[n][r[n - 1]]
  BY <1>3, Zenon DEF RunsOf
<1> HIDE DEF N
<1>5. \A n \in 1..N : r[n] = r[n - 1] * base + digits[n]
  <2>1. \A n \in 1..N : r[n - 1] \in Int
    BY <1>1, <1>4
  <2>2. \A n \in 1..N, s \in Int : step[n][s] = s * base + digits[n]
    OBVIOUS
  <2> HIDE DEF step
  <2>3. QED BY <1>4, <2>1, <2>2
<1> HIDE DEF step
<1>6. r = Body(r)
  <2>1. \A n \in 0..N : r[n] = IF n = 0 THEN high ELSE r[n - 1] * base + digits[n]
    <3>1. \A n \in 0..N : n = 0 \/ n \in 1..N
      BY <1>1
    <3>2. QED BY <3>1, <1>4, <1>5
  <2>2. r = [n \in 0..N |-> r[n]]
    BY <1>4
  <2>3. QED BY <2>1, <2>2
<1>7. made = Body(made)
  <2> HIDE DEF Body
  <2> QED BY <1>6
<1>8. Compose(base, high, digits) = made[N]
  BY DEF Compose, N
<1> HIDE DEF made
<1>9. made[0] = high /\ (\A n \in 1..N : made[n] = made[n - 1] * base + digits[n]) /\ made = [n \in 0..N |-> made[n]]
  <2>1. \A n \in 0..N : made[n] = IF n = 0 THEN high ELSE made[n - 1] * base + digits[n]
    BY <1>7
  <2>2. \A n \in 1..N : n \in 0..N /\ n # 0
    BY <1>1
  <2>3. 0 \in 0..N
    BY <1>1
  <2>4. made = [n \in 0..N |-> made[n]]
    BY <1>7
  <2>5. QED BY <2>1, <2>2, <2>3, <2>4
<1>10. \A n \in 0..N : made[n] \in Int
  <2> DEFINE Wrong == {n \in 0..N : made[n] \notin Int}
  <2>1. ASSUME NEW n \in Wrong PROVE \E k \in Wrong : k < n
    <3>1. n \in 1..N /\ n - 1 \in 0..N /\ n - 1 < n
      BY <2>1, <1>1, <1>9
    <3>2. made[n - 1] \notin Int
      <4>1. SUFFICES ASSUME made[n - 1] \in Int PROVE FALSE
        OBVIOUS
      <4> DEFINE shifted == made[n - 1] * base
      <4>2. shifted \in Int /\ digits[n] \in Int
        BY <4>1, <3>1, <1>1
      <4>3. made[n] = shifted + digits[n]
        BY <3>1, <1>9
      <4> HIDE DEF shifted
      <4>4. made[n] \in Int
        BY <4>2, <4>3
      <4>5. QED BY <4>4, <2>1
    <3>3. QED BY <3>1, <3>2
  <2>2. Wrong \in SUBSET Nat
    BY <1>1
  <2>3. Wrong = {}
    <3> HIDE DEF Wrong
    <3> QED BY <2>1, <2>2, NoLeast
  <2>4. QED BY <2>3
<1>11. made \in [0..N -> Int]
  BY <1>9, <1>10
<1>12. QED BY <1>8, <1>9, <1>11 DEF N

-----------------------------------------------------------------------------
(* The dialog's conversions: characters.                                    *)

\* One text begins with another.
Begins(s, t) == Len(s) <= Len(t) /\ \A i \in 1..Len(s) : t[i] = s[i]

LEMMA Utf8Is ==
  ASSUME NEW code \in Int
  PROVE  Utf8(code) \in Seq(Int) /\ Len(Utf8(code)) \in 1..4
<1>1. \A b \in Int : Following(b) \in Int
  BY DEF Following
<1>2. /\ code \div 64 \in Int /\ code \div 4096 \in Int /\ code \div 262144 \in Int
      /\ 192 + code \div 64 \in Int /\ 224 + code \div 4096 \in Int /\ 240 + code \div 262144 \in Int
  OBVIOUS
<1>3. CASE code < 128
  BY <1>3 DEF Utf8
<1>4. CASE 128 <= code /\ code < 2048
  <2>1. Utf8(code) = <<192 + code \div 64, Following(code)>>
    BY <1>4 DEF Utf8
  <2>2. QED BY <2>1, <1>1, <1>2
<1>5. CASE 2048 <= code /\ code < 65536
  <2>1. Utf8(code) = <<224 + code \div 4096, Following(code \div 64), Following(code)>>
    BY <1>5 DEF Utf8
  <2>2. QED BY <2>1, <1>1, <1>2
<1>6. CASE 65536 <= code
  <2>1. Utf8(code) = <<240 + code \div 262144, Following(code \div 4096), Following(code \div 64), Following(code)>>
    BY <1>6 DEF Utf8
  <2>2. QED BY <2>1, <1>1, <1>2
<1>7. QED BY <1>3, <1>4, <1>5, <1>6

\* Numbers of none, one and two digits of six bits behind the first.
LEMMA ComposeShort ==
  ASSUME NEW high \in Int, NEW digits \in Seq(Int)
  PROVE  /\ Compose(64, high, digits) \in Int
         /\ Len(digits) = 0 => Compose(64, high, digits) = high
         /\ Len(digits) = 1 => Compose(64, high, digits) = high * 64 + digits[1]
         /\ Len(digits) = 2 => Compose(64, high, digits) = (high * 64 + digits[1]) * 64 + digits[2]
<1> DEFINE base == 64
<1>0. base \in Int
  OBVIOUS
<1> HIDE DEF base
<1>1. PICK f \in [0..Len(digits) -> Int] :
        /\ f[0] = high /\ Compose(base, high, digits) = f[Len(digits)]
        /\ \A n \in 1..Len(digits) : f[n] = f[n - 1] * base + digits[n]
  BY <1>0, ComposeIs
<1> USE DEF base
<1>2. Len(digits) \in Nat /\ Len(digits) \in 0..Len(digits)
  OBVIOUS
<1>3. Len(digits) = 1 => f[1] = f[0] * 64 + digits[1]
  BY <1>1
<1>4. Len(digits) = 2 => f[1] = f[0] * 64 + digits[1] /\ f[2] = f[1] * 64 + digits[2]
  BY <1>1
<1>5. f[Len(digits)] \in Int
  BY <1>2
<1>6. QED BY <1>1, <1>3, <1>4, <1>5

\* The bytes of a character of one unit tell their number, and give it back.
LEMMA BitsIs ==
  ASSUME NEW ch \in Int
  PROVE  /\ Extra(ch) \in 0..3 /\ Bits(ch) \in Int
         /\ ch < 128 => Extra(ch) = 0
         /\ ch \in 192..223 => Extra(ch) = 1
         /\ ch \in 224..239 => Extra(ch) = 2
         /\ Extra(ch) = 0 => Bits(ch) = ch
         /\ Extra(ch) = 1 => Bits(ch) = ch % 32
         /\ Extra(ch) = 2 => Bits(ch) = ch % 16
<1>1. Extra(ch) \in 0..3
  BY DEF Extra
<1>2. Extra(ch) = 0 => Bits(ch) = ch
  BY DEF Bits
<1>3. Extra(ch) = 1 => Bits(ch) = ch % 32
  BY DEF Bits
<1>4. Extra(ch) = 2 => Bits(ch) = ch % 16
  BY DEF Bits
<1>5. Extra(ch) = 3 => Bits(ch) = ch % 8
  BY DEF Bits
<1>6. ch % 32 \in Int /\ ch % 16 \in Int /\ ch % 8 \in Int
  OBVIOUS
<1>7. ch < 128 => Extra(ch) = 0
  BY DEF Extra
<1>8. ch \in 192..223 => Extra(ch) = 1
  BY DEF Extra
<1>9. ch \in 224..239 => Extra(ch) = 2
  BY DEF Extra
<1>10. QED BY <1>1, <1>2, <1>3, <1>4, <1>5, <1>6, <1>7, <1>8, <1>9

LEMMA OneUnit ==
  ASSUME NEW c \in Int, Plain(c)
  PROVE  /\ 0 < c /\ c < 65536 /\ InUtf8(c) = Utf8(c) /\ UnitsFor(c) = <<c>>
         /\ Extra(Utf8(c)[1]) \in 0..2 /\ Len(Utf8(c)) = Extra(Utf8(c)[1]) + 1
         /\ \A i \in 2..Len(Utf8(c)) : Utf8(c)[i] \in 128..191
<1> DEFINE u == Utf8(c)
           Right == Extra(u[1]) \in 0..2 /\ Len(u) = Extra(u[1]) + 1 /\ \A i \in 2..Len(u) : u[i] \in 128..191
<1>1. 0 < c /\ c < 65536 /\ ~ Surrogate(c)
  BY DEF Plain
<1>2. UnitsFor(c) = <<c>>
  <2>1. c % 65536 = c
    BY <1>1
  <2>2. UnitsFor(c) = <<c % 65536>>
    BY <1>1 DEF UnitsFor
  <2>3. QED BY <2>1, <2>2
<1>3. InUtf8(c) = Utf8(c)
  BY <1>1 DEF InUtf8, Lead, Follow
<1>4. \A x \in Int : Following(x) \in 128..191
  BY DEF Following
<1>5. ASSUME c < 128 PROVE Right
  <2>1. u = <<c>>
    BY <1>5 DEF Utf8
  <2>2. Extra(c) = 0
    BY <1>5 DEF Extra
  <2> HIDE DEF u
  <2>3. Len(u) = 1 /\ u[1] = c
    BY <2>1
  <2>4. QED BY <2>2, <2>3
<1>6. ASSUME 128 <= c, c < 2048 PROVE Right
  <2> DEFINE a == 192 + c \div 64
             b == Following(c)
  <2>1. u = <<a, b>>
    BY <1>6 DEF Utf8
  <2>2. a \in 192..223
    BY <1>6
  <2>3. b \in 128..191
    BY <1>4, <1>6
  <2> HIDE DEF u, a, b
  <2>4. Extra(a) = 1
    BY <2>2 DEF Extra
  <2>5. Len(u) = 2 /\ u[1] = a /\ u[2] = b
    BY <2>1
  <2>6. QED BY <2>3, <2>4, <2>5
<1>7. ASSUME 2048 <= c, c < 65536 PROVE Right
  <2> DEFINE a == 224 + c \div 4096
             b == Following(c \div 64)
             d == Following(c)
  <2>1. u = <<a, b, d>>
    BY <1>7 DEF Utf8
  <2>2. a \in 224..239
    BY <1>7
  <2>3. b \in 128..191 /\ d \in 128..191
    <3>1. c \div 64 \in Int /\ c \in Int
      BY <1>7
    <3>2. QED BY <3>1, <1>4
  <2> HIDE DEF u, a, b, d
  <2>4. Extra(a) = 2
    BY <2>2 DEF Extra
  <2>5. Len(u) = 3 /\ u[1] = a /\ u[2] = b /\ u[3] = d
    BY <2>1
  <2>6. QED BY <2>3, <2>4, <2>5
<1>8. Right
  <2> HIDE DEF Right
  <2> QED BY <1>1, <1>5, <1>6, <1>7
<1>9. QED BY <1>1, <1>2, <1>3, <1>8

LEMMA CodeIs ==
  ASSUME NEW bytes \in Seq(Int), NEW extra \in 0..3, extra < Len(bytes)
  PROVE  CodeAt(bytes, extra) \in Int
<1> DEFINE digits == [i \in 1..extra |-> bytes[i + 1] % 64]
<1>1. digits \in Seq(Int)
  OBVIOUS
<1>2. Bits(bytes[1]) \in Int
  <2>1. bytes[1] \in Int
    OBVIOUS
  <2>2. QED BY <2>1, BitsIs
<1> HIDE DEF digits
<1>3. Compose(64, Bits(bytes[1]), digits) \in Int
  BY <1>1, <1>2, ComposeShort
<1>4. QED BY <1>3 DEF CodeAt, digits

LEMMA CodeOfOneUnit ==
  ASSUME NEW c \in Int, Plain(c), NEW bytes \in Seq(Int), Begins(Utf8(c), bytes)
  PROVE  CodeAt(bytes, Extra(Utf8(c)[1])) = c
<1> DEFINE extra == Extra(Utf8(c)[1])
           digits == [i \in 1..extra |-> bytes[i + 1] % 64]
<1>1. /\ 0 < c /\ c < 65536 /\ extra \in 0..2 /\ Len(Utf8(c)) = extra + 1 /\ bytes[1] = Utf8(c)[1]
      /\ \A i \in 1..(extra + 1) : bytes[i] = Utf8(c)[i]
  <2>1. 0 < c /\ c < 65536 /\ extra \in 0..2 /\ Len(Utf8(c)) = extra + 1
    BY OneUnit
  <2> HIDE DEF extra
  <2>2. QED BY <2>1 DEF Begins
<1>2. Bits(bytes[1]) \in Int
  <2>1. bytes[1] \in Int
    BY <1>1 DEF Begins
  <2>2. QED BY <2>1, BitsIs
<1>3. CodeAt(bytes, extra) = Compose(64, Bits(bytes[1]), digits)
  BY DEF CodeAt
<1>4. digits \in Seq(Int) /\ Len(digits) = extra /\ \A i \in 1..extra : digits[i] = bytes[i + 1] % 64
  <2> HIDE DEF extra
  <2>1. \A i \in 1..extra : bytes[i + 1] % 64 \in Int
    BY <1>1 DEF Begins
  <2>2. QED BY <2>1, <1>1
<1> DEFINE high == Bits(bytes[1])
<1>5. CASE c < 128
  <2>1. Utf8(c) = <<c>> /\ Extra(c) = 0
    BY <1>5, <1>1 DEF Utf8, Extra
  <2>2. extra = 0 /\ bytes[1] = c
    BY <2>1, <1>1
  <2>3. high = c
    BY <2>1, <2>2, BitsIs
  <2> HIDE DEF digits, high, extra
  <2>4. Compose(64, high, digits) = high
    BY <2>2, <2>3, <1>2, <1>4, ComposeShort DEF high
  <2>5. QED BY <2>3, <2>4, <1>3 DEF high, extra
<1>6. CASE 128 <= c /\ c < 2048
  <2>1. Utf8(c) = <<192 + c \div 64, Following(c)>>
    BY <1>6 DEF Utf8
  <2>2. Extra(192 + c \div 64) = 1
    <3> DEFINE a == 192 + c \div 64
    <3>1. a \in 192..223
      BY <1>6
    <3> HIDE DEF a
    <3>2. Extra(a) = 1
      BY <3>1, BitsIs
    <3>3. QED BY <3>2 DEF a
  <2>3. extra = 1 /\ bytes[1] = 192 + c \div 64 /\ bytes[2] = 128 + (c % 64)
    BY <2>1, <2>2, <1>1 DEF Following
  <2>4. high = (192 + c \div 64) % 32
    <3>1. bytes[1] \in Int /\ Extra(bytes[1]) = 1
      BY <2>2, <2>3
    <3>2. high = bytes[1] % 32
      BY <3>1, BitsIs
    <3>3. QED BY <3>2, <2>3
  <2>5. high = c \div 64
    BY <2>4, <1>6
  <2>6. digits[1] = c % 64
    BY <2>3
  <2> HIDE DEF digits, high, extra
  <2>7. Compose(64, high, digits) = high * 64 + digits[1]
    BY <2>3, <1>2, <1>4, ComposeShort DEF high
  <2>8. (c \div 64) * 64 + (c % 64) = c
    BY <1>6
  <2>9. Compose(64, high, digits) = c
    BY <2>5, <2>6, <2>7, <2>8
  <2>10. QED BY <2>9, <1>3, Zenon DEF high, extra
<1>7. CASE 2048 <= c /\ c < 65536
  <2>1. Utf8(c) = <<224 + c \div 4096, Following(c \div 64), Following(c)>>
    BY <1>7 DEF Utf8
  <2>2. Extra(224 + c \div 4096) = 2
    <3> DEFINE a == 224 + c \div 4096
    <3>1. a \in 224..239
      BY <1>7
    <3> HIDE DEF a
    <3>2. Extra(a) = 2
      BY <3>1, BitsIs
    <3>3. QED BY <3>2 DEF a
  <2>3. extra = 2 /\ bytes[1] = 224 + c \div 4096 /\ bytes[2] = 128 + ((c \div 64) % 64) /\ bytes[3] = 128 + (c % 64)
    BY <2>1, <2>2, <1>1 DEF Following
  <2>4. high = (224 + c \div 4096) % 16
    <3>1. bytes[1] \in Int /\ Extra(bytes[1]) = 2
      BY <2>2, <2>3
    <3>2. high = bytes[1] % 16
      BY <3>1, BitsIs
    <3>3. QED BY <3>2, <2>3
  <2>5. high = c \div 4096
    BY <2>4, <1>7
  <2>6. digits[1] = (c \div 64) % 64 /\ digits[2] = c % 64
    <3>1. digits[1] = bytes[2] % 64 /\ digits[2] = bytes[3] % 64
      BY <2>3, <1>4
    <3>2. \A x \in Int : (128 + (x % 64)) % 64 = x % 64
      OBVIOUS
    <3>3. c \in Int /\ c \div 64 \in Int
      OBVIOUS
    <3> HIDE DEF digits, high, extra
    <3>4. QED BY <3>1, <3>2, <3>3, <2>3
  <2> HIDE DEF digits, high, extra
  <2>7. Compose(64, high, digits) = (high * 64 + digits[1]) * 64 + digits[2]
    BY <2>3, <1>2, <1>4, ComposeShort DEF high
  <2>8. ((c \div 4096) * 64 + ((c \div 64) % 64)) * 64 + (c % 64) = c
    BY <1>7
  <2>9. Compose(64, high, digits) = c
    BY <2>5, <2>6, <2>7, <2>8
  <2>10. QED BY <2>9, <1>3, Zenon DEF high, extra
<1> HIDE DEF digits, high, extra
<1>8. c < 128 \/ (128 <= c /\ c < 2048) \/ (2048 <= c /\ c < 65536)
  BY <1>1
<1>9. QED BY <1>5, <1>6, <1>7, <1>8

-----------------------------------------------------------------------------
(* The dialog's conversions: the invariant.                                 *)

UnicodeTypes ==
  /\ text \in Seq(Int) /\ in8 \in Seq(Int) /\ utf16 \in Seq(Int) /\ utf8 \in Seq(Int)
  /\ available \in Nat /\ size \in Nat /\ from \in Nat
  /\ converting \in {"to", "from", "done", "literal", "converted"}
  /\ Len(utf16) <= available /\ (converting \in {"to", "from", "done"} => Len(utf8) <= size)
  /\ converting \in {"literal", "converted"} => Len(utf8) <= from

PlainTo(q) == \A i \in 1..q : Plain(text[i])

\* The bytes of the text that was given.
Given8 == [i \in DOMAIN text |-> InUtf8(text[i])]
Rest8(w) == SubSeq(All(Given8), Len(Joined(Given8)[w]) + 1, Len(All(Given8)))

\* The units begin with the first q characters.
Taken16(q) == q \in 0..Len(text) /\ PlainTo(q) /\ q <= Len(utf16) /\ \A i \in 1..q : utf16[i] = text[i]

Malformed(q) == q < Len(text) /\ ~ Plain(text[q + 1])

\* convert_to_utf16 has read as many characters as it has written units, or it
\* has got past a malformed one.
ReadTo ==
  \/ Taken16(Len(utf16)) /\ in8 = Rest8(Len(utf16))
  \/ \E q \in 0..Len(text) : Taken16(q) /\ Malformed(q)

\* No more than q characters stand in the units.
Whole16(q) ==
  Taken16(q) /\ (Malformed(q) \/ (q = Len(utf16) /\ (q = Len(text) \/ q = available)))

\* convert_from_utf16 has written the characters of as many units as it has read,
\* or it has got past a malformed one.
WrittenFrom(q) ==
  \/ from <= q /\ utf8 = Utf8Of(text)[from]
  \/ Malformed(q) /\ from >= q /\ Begins(Utf8Of(text)[q], utf8)

UnicodeInv ==
  /\ UnicodeTypes
  /\ converting = "to" => utf8 = << >> /\ from = 0 /\ ReadTo
  /\ converting = "from" => \E q \in 0..Len(text) : Whole16(q) /\ WrittenFrom(q)
  /\ converting = "literal" => text \in Seq(Digits) /\ Len(text) \in {4, 8} /\ from = 0 /\ utf8 = << >>
  /\ ReturnsWholeCharacters /\ SpellsCodePoint

-----------------------------------------------------------------------------
(* The dialog's conversions: to UTF-16.                                     *)

LEMMA CharactersAre ==
  ASSUME NEW c \in Int
  PROVE  /\ InUtf8(c) \in Seq(Int) /\ Units(c) \in Seq(Int)
         /\ UnitsFor(c) \in Seq(Int) /\ Len(UnitsFor(c)) \in 1..2
<1>1. InUtf8(c) \in Seq(Int)
  <2>1. Utf8(c) \in Seq(Int)
    BY Utf8Is
  <2>2. <<195>> \in Seq(Int) /\ <<128>> \in Seq(Int)
    OBVIOUS
  <2>3. QED BY <2>1, <2>2 DEF InUtf8
<1>2. Units(c) \in Seq(Int)
  <2>1. 55296 + ((c - 65536) \div 1024) \in Int /\ 56320 + (c % 1024) \in Int
    OBVIOUS
  <2>2. Pair(c) \in Seq(Int) /\ <<c>> \in Seq(Int)
    BY <2>1 DEF Pair
  <2>3. QED BY <2>2 DEF Units
<1>3. UnitsFor(c) \in Seq(Int) /\ Len(UnitsFor(c)) \in 1..2
  <2> DEFINE a == 65536 - ((65536 - c + 1023) \div 1024)
             b == 56320 + (c % 1024)
             d == c % 65536
  <2>1. a \in Int /\ b \in Int /\ d \in Int
    OBVIOUS
  <2>2. UnitsFor(c) = <<a, b>> \/ UnitsFor(c) = <<d>>
    BY DEF UnitsFor
  <2> HIDE DEF a, b, d
  <2>3. <<a, b>> \in Seq(Int) /\ Len(<<a, b>>) \in 1..2 /\ <<d>> \in Seq(Int) /\ Len(<<d>>) \in 1..2
    BY <2>1
  <2> DEFINE u == UnitsFor(c)
  <2> HIDE DEF u
  <2>4. u = <<a, b>> \/ u = <<d>>
    BY <2>2 DEF u
  <2>5. u \in Seq(Int) /\ Len(u) \in 1..2
    BY <2>3, <2>4, Zenon
  <2>6. QED BY <2>5 DEF u
<1>4. QED BY <1>1, <1>2, <1>3

LEMMA PartsAre ==
  ASSUME NEW t \in Seq(Int)
  PROVE  /\ [i \in DOMAIN t |-> InUtf8(t[i])] \in Seq(Seq(Int)) /\ Len([i \in DOMAIN t |-> InUtf8(t[i])]) = Len(t)
         /\ [i \in DOMAIN t |-> Units(t[i])] \in Seq(Seq(Int)) /\ Len([i \in DOMAIN t |-> Units(t[i])]) = Len(t)
         /\ [i \in DOMAIN t |-> Utf8(t[i])] \in Seq(Seq(Int)) /\ Len([i \in DOMAIN t |-> Utf8(t[i])]) = Len(t)
<1> DEFINE T == Seq(Int)
<1>1. Len(t) \in Nat /\ DOMAIN t = 1..Len(t) /\ \A i \in DOMAIN t : t[i] \in Int
  OBVIOUS
<1>2. \A i \in DOMAIN t : InUtf8(t[i]) \in T /\ Units(t[i]) \in T /\ Utf8(t[i]) \in T
  BY <1>1, CharactersAre, Utf8Is
<1> HIDE DEF T
<1>3. [i \in DOMAIN t |-> InUtf8(t[i])] \in Seq(T) /\ Len([i \in DOMAIN t |-> InUtf8(t[i])]) = Len(t)
  BY <1>1, <1>2
<1>4. [i \in DOMAIN t |-> Units(t[i])] \in Seq(T) /\ Len([i \in DOMAIN t |-> Units(t[i])]) = Len(t)
  BY <1>1, <1>2
<1>5. [i \in DOMAIN t |-> Utf8(t[i])] \in Seq(T) /\ Len([i \in DOMAIN t |-> Utf8(t[i])]) = Len(t)
  BY <1>1, <1>2
<1>6. QED BY <1>3, <1>4, <1>5 DEF T

\* The characters of one unit, as units, are themselves.
LEMMA UnitsBegin ==
  ASSUME NEW t \in Seq(Int), NEW q \in 0..Len(t), \A i \in 1..q : Plain(t[i])
  PROVE  /\ Len(Joined([i \in DOMAIN t |-> Units(t[i])])[q]) = q
         /\ \A i \in 1..q : Joined([l \in DOMAIN t |-> Units(t[l])])[q][i] = t[i]
<1> DEFINE parts == [i \in DOMAIN t |-> Units(t[i])]
           J == Joined(parts)
           Same(n) == Len(J[n]) = n /\ \A i \in 1..n : J[n][i] = t[i]
           Wrong == {n \in 0..q : ~ Same(n)}
<1>1. parts \in Seq(Seq(Int)) /\ Len(parts) = Len(t) /\ Len(t) \in Nat
  <2>1. parts \in Seq(Seq(Int)) /\ Len(parts) = Len(t)
    BY PartsAre, Zenon
  <2>2. Len(t) \in Nat
    OBVIOUS
  <2>3. QED BY <2>1, <2>2
<1>2. \A n \in 1..Len(t) : parts[n] = Units(t[n])
  OBVIOUS
<1> HIDE DEF parts
<1>3. J[0] = << >> /\ J \in [0..Len(t) -> Seq(Int)] /\ \A n \in 1..Len(t) : J[n] = J[n - 1] \o parts[n]
  BY <1>1, JoinedIs
<1> HIDE DEF J
<1>4. ASSUME NEW n \in Wrong PROVE \E k \in Wrong : k < n
  <2>1. n \in 0..q /\ n # 0
    BY <1>3, <1>4
  <2>2. n \in 1..q /\ n - 1 \in 0..q /\ n - 1 < n /\ n \in 1..Len(t) /\ n - 1 \in 0..Len(t) /\ n \in Nat
    BY <2>1, <1>1
  <2>3. parts[n] = <<t[n]>> /\ t[n] \in Int
    <3>1. Plain(t[n]) /\ t[n] \in Int
      BY <2>2
    <3>2. t[n] < 65536
      BY <3>1 DEF Plain
    <3>3. Units(t[n]) = <<t[n]>>
      BY <3>2 DEF Units
    <3>4. QED BY <3>1, <3>3, <2>2, <1>2
  <2>4. ~ Same(n - 1)
    <3>1. SUFFICES ASSUME Same(n - 1) PROVE FALSE
      OBVIOUS
    <3> DEFINE a == J[n - 1]
               x == t[n]
    <3>2. a \in Seq(Int) /\ J[n] = a \o <<x>> /\ x \in Int /\ Len(a) = n - 1
      BY <2>2, <2>3, <1>3, <3>1
    <3>3. \A i \in 1..(n - 1) : a[i] = t[i]
      BY <3>1
    <3> HIDE DEF a
    <3>4. Len(a \o <<x>>) = n /\ (a \o <<x>>)[n] = x /\ \A i \in 1..(n - 1) : (a \o <<x>>)[i] = a[i]
      <4>1. a \in Seq(Int) /\ x \in Int /\ Len(a) = n - 1 /\ n \in Nat
        BY <3>2, <2>2
      <4> HIDE DEF x
      <4>2. a \o <<x>> = Append(a, x)
        BY <4>1
      <4>3. Len(Append(a, x)) = n /\ Append(a, x)[n] = x /\ \A i \in 1..(n - 1) : Append(a, x)[i] = a[i]
        BY <4>1
      <4>4. QED BY <4>2, <4>3
    <3>5. \A i \in 1..n : i = n \/ i \in 1..(n - 1)
      BY <2>2
    <3>6. Same(n)
      BY <3>2, <3>3, <3>4, <3>5
    <3>7. QED BY <3>6, <1>4
  <2>5. QED BY <2>2, <2>4
<1>5. Wrong \in SUBSET Nat
  BY <1>1
<1>6. Wrong = {}
  <2> HIDE DEF Wrong
  <2> QED BY <1>4, <1>5, NoLeast
<1>7. Same(q)
  BY <1>6, <1>1
<1>8. QED BY <1>7 DEF J, parts

\* A text has as many characters as are plain, up to one that is not.
LEMMA PlainUpTo ==
  ASSUME NEW t \in Seq(Int)
  PROVE  \E q \in 0..Len(t) : (\A i \in 1..q : Plain(t[i])) /\ (q < Len(t) => ~ Plain(t[q + 1]))
<1> DEFINE T == {i \in 1..Len(t) : ~ Plain(t[i])}
<1>1. Len(t) \in Nat /\ T \in SUBSET Nat
  OBVIOUS
<1>2. CASE T = {}
  <2>1. Len(t) \in 0..Len(t) /\ \A i \in 1..Len(t) : Plain(t[i])
    BY <1>1, <1>2
  <2>2. QED BY <2>1, <1>1
<1>3. CASE T # {}
  <2>1. PICK n \in T : \A m \in T : n <= m
    <3> HIDE DEF T
    <3> QED BY <1>1, <1>3, LeastNatural
  <2> DEFINE q == n - 1
  <2>2. q \in 0..Len(t) /\ q + 1 = n /\ n \in Nat
    BY <2>1, <1>1
  <2>3. \A i \in 1..q : i \in 1..Len(t) /\ ~ (n <= i)
    BY <2>1, <1>1
  <2>4. \A i \in 1..q : Plain(t[i])
    BY <2>1, <2>3
  <2>5. ~ Plain(t[q + 1])
    BY <2>1, <2>2
  <2>6. QED BY <2>2, <2>4, <2>5
<1>4. QED BY <1>2, <1>3

\* What is behind a part of a sequence, and behind a part of that.
LEMMA BehindBoth ==
  ASSUME NEW s \in Seq(Int), NEW j \in 0..Len(s), NEW k \in j..Len(s)
  PROVE  /\ SubSeq(s, j + 1, Len(s)) \in Seq(Int) /\ Len(SubSeq(s, j + 1, Len(s))) = Len(s) - j
         /\ \A i \in 1..(Len(s) - j) : SubSeq(s, j + 1, Len(s))[i] = s[j + i]
         /\ SubSeq(s, k + 1, Len(s)) = SubSeq(SubSeq(s, j + 1, Len(s)), (k - j) + 1, Len(s) - j)
<1> DEFINE r == SubSeq(s, j + 1, Len(s))
           n == Len(s) - j
<1>1. Len(s) \in Nat /\ n \in Nat /\ j \in Nat /\ k \in Nat
  OBVIOUS
<1>2. r \in Seq(Int) /\ Len(r) = n /\ \A i \in 1..n : r[i] = s[j + i]
  BY <1>1
<1> HIDE DEF r
<1>3. SubSeq(s, k + 1, Len(s)) = [i \in 1..(Len(s) - k) |-> s[k + i]]
  BY <1>1
<1>4. SubSeq(r, (k - j) + 1, n) = [i \in 1..(Len(s) - k) |-> r[(k - j) + i]]
  BY <1>1, <1>2
<1>5. \A i \in 1..(Len(s) - k) : r[(k - j) + i] = s[k + i]
  <2>1. \A i \in 1..(Len(s) - k) : (k - j) + i \in 1..n /\ j + ((k - j) + i) = k + i
    BY <1>1
  <2> HIDE DEF n
  <2>2. QED BY <2>1, <1>2
<1>6. QED BY <1>2, <1>3, <1>4, <1>5 DEF r

LEMMA Given8Is ==
  ASSUME text \in Seq(Int)
  PROVE  Given8 \in Seq(Seq(Int)) /\ Len(Given8) = Len(text) /\ Len(text) \in Nat
<1>1. Given8 \in Seq(Seq(Int)) /\ Len(Given8) = Len(text)
  BY PartsAre, Zenon DEF Given8
<1>2. Len(text) \in Nat
  OBVIOUS
<1>3. QED BY <1>1, <1>2

LEMMA RestBegins ==
  ASSUME text \in Seq(Int), NEW w \in 0..(Len(text) - 1)
  PROVE  /\ Rest8(w) \in Seq(Int) /\ Begins(InUtf8(text[w + 1]), Rest8(w))
         /\ Rest8(w + 1) = SubSeq(Rest8(w), Len(InUtf8(text[w + 1])) + 1, Len(Rest8(w)))
<1> DEFINE parts == Given8
           J == Joined(parts)
           N == Len(text)
           s == All(parts)
           e == InUtf8(text[w + 1])
           j == Len(J[w])
           k == Len(J[w + 1])
<1>1. parts \in Seq(Seq(Int)) /\ Len(parts) = N /\ N \in Nat
  BY Given8Is
<1>2. w \in 0..N /\ w + 1 \in 1..N /\ w + 1 \in 0..N /\ N \in w..N /\ N \in (w + 1)..N /\ (w + 1) - 1 = w /\ w + 1 \in w..N /\ N \in 0..N
  BY <1>1
<1>3. parts[w + 1] = e
  BY <1>2 DEF Given8
<1>4. e \in Seq(Int)
  <2>1. text[w + 1] \in Int
    BY <1>2
  <2>2. QED BY <2>1, CharactersAre
<1>5. s = J[N]
  BY <1>1 DEF All
<1> HIDE DEF parts, s, e
<1>6. J[w + 1] = J[w] \o e /\ J[w] \in Seq(Int) /\ J[w + 1] \in Seq(Int) /\ s \in Seq(Int)
  <2>1. J \in [0..N -> Seq(Int)] /\ \A n \in 1..N : J[n] = J[n - 1] \o parts[n]
    BY <1>1, JoinedIs
  <2> HIDE DEF J
  <2>2. QED BY <2>1, <1>2, <1>3, <1>5
<1>7. k <= Len(s) /\ \A i \in 1..k : s[i] = J[w + 1][i]
  <2>1. w + 1 \in 0..Len(parts) /\ N \in (w + 1)..Len(parts)
    BY <1>1, <1>2
  <2>2. k <= Len(J[N]) /\ \A i \in 1..k : J[N][i] = J[w + 1][i]
    BY <2>1, <1>1, JoinedGrows, Zenon
  <2>3. QED BY <2>2, <1>5, Zenon
<1> HIDE DEF J
<1>8. k = j + Len(e) /\ j \in Nat /\ Len(e) \in Nat /\ k \in Nat /\ \A i \in 1..Len(e) : J[w + 1][j + i] = e[i]
  <2>1. Len(J[w] \o e) = j + Len(e) /\ j \in Nat /\ Len(e) \in Nat
    BY <1>4, <1>6
  <2>2. \A i \in 1..Len(e) : (J[w] \o e)[j + i] = e[i]
    BY <1>4, <1>6
  <2>3. QED BY <2>1, <2>2, <1>6
<1> HIDE DEF j, k
<1>9. j \in 0..Len(s) /\ k \in j..Len(s) /\ Len(s) \in Nat /\ Len(s) \in 0..Len(s)
  <2>1. Len(s) \in Nat
    BY <1>6
  <2>2. QED BY <2>1, <1>7, <1>8
<1> DEFINE r == Rest8(w)
<1>10. r = SubSeq(s, j + 1, Len(s)) /\ Rest8(w + 1) = SubSeq(s, k + 1, Len(s))
  BY DEF Rest8, s, parts, j, k, J
<1> HIDE DEF r
<1>11. /\ r \in Seq(Int) /\ Len(r) = Len(s) - j /\ \A i \in 1..(Len(s) - j) : r[i] = s[j + i]
       /\ Rest8(w + 1) = SubSeq(r, (k - j) + 1, Len(s) - j)
  BY <1>6, <1>9, <1>10, BehindBoth
<1>12. k - j = Len(e)
  BY <1>8
<1>13. Len(e) <= Len(r) /\ \A i \in 1..Len(e) : r[i] = e[i]
  <2>1. \A i \in 1..Len(e) : i \in 1..(Len(s) - j) /\ j + i \in 1..k
    BY <1>7, <1>8, <1>9
  <2>2. Len(e) <= Len(r)
    BY <1>8, <1>9, <1>11
  <2>3. QED BY <2>1, <2>2, <1>7, <1>8, <1>11
<1>14. QED BY <1>11, <1>12, <1>13 DEF r, e, Begins

LEMMA RestEnds ==
  ASSUME text \in Seq(Int)
  PROVE  Rest8(Len(text)) = << >> /\ Rest8(0) = All(Given8) /\ All(Given8) \in Seq(Int)
<1>1. Given8 \in Seq(Seq(Int)) /\ Len(Given8) = Len(text) /\ Len(text) \in Nat
  BY Given8Is
<1> DEFINE J == Joined(Given8)
<1>2. J \in [0..Len(text) -> Seq(Int)] /\ J[0] = << >>
  BY <1>1, JoinedIs
<1> HIDE DEF J
<1>3. All(Given8) = J[Len(text)] /\ J[Len(text)] \in Seq(Int)
  BY <1>1, <1>2 DEF All, J
<1> DEFINE s == All(Given8)
<1> HIDE DEF s
<1>4. s \in Seq(Int) /\ Len(s) \in Nat
  BY <1>3 DEF s
<1>5. SubSeq(s, Len(s) + 1, Len(s)) = << >> /\ SubSeq(s, 1, Len(s)) = s
  BY <1>4
<1>6. Rest8(Len(text)) = SubSeq(s, Len(s) + 1, Len(s))
  BY <1>3 DEF Rest8, J, s
<1>7. Rest8(0) = SubSeq(s, 0 + 1, Len(s))
  BY <1>2 DEF Rest8, J, s
<1>8. QED BY <1>4, <1>5, <1>6, <1>7 DEF s

LEMMA Utf8OfIs ==
  ASSUME NEW t \in Seq(Int)
  PROVE  /\ Len(t) \in Nat /\ Utf8Of(t) \in [0..Len(t) -> Seq(Int)] /\ Utf8Of(t)[0] = << >>
         /\ \A n \in 1..Len(t) : Utf8Of(t)[n] = Utf8Of(t)[n - 1] \o Utf8(t[n])
         /\ \A j \in 0..Len(t) : \A k \in j..Len(t) : Len(Utf8Of(t)[j]) <= Len(Utf8Of(t)[k])
<1> DEFINE parts == [i \in DOMAIN t |-> Utf8(t[i])]
<1>1. parts \in Seq(Seq(Int)) /\ Len(parts) = Len(t)
  BY PartsAre, Zenon
<1>2. Len(t) \in Nat /\ \A n \in 1..Len(t) : parts[n] = Utf8(t[n])
  OBVIOUS
<1>3. Utf8Of(t) = Joined(parts)
  BY DEF Utf8Of
<1> HIDE DEF parts
<1>4. /\ Joined(parts) \in [0..Len(t) -> Seq(Int)] /\ Joined(parts)[0] = << >>
      /\ \A n \in 1..Len(t) : Joined(parts)[n] = Joined(parts)[n - 1] \o parts[n]
  BY <1>1, JoinedIs
<1>5. \A j \in 0..Len(t) : \A k \in j..Len(t) : Len(Joined(parts)[j]) <= Len(Joined(parts)[k])
  BY <1>1, JoinedGrows
<1>6. QED BY <1>2, <1>3, <1>4, <1>5

LEMMA UnicodeStart == UnicodeInit => UnicodeInv
<1>1. SUFFICES ASSUME UnicodeInit PROVE UnicodeInv
  OBVIOUS
<1>2. utf8 = << >> /\ from = 0 /\ << >> \in Seq(Int) /\ Len(<< >>) = 0
  BY <1>1 DEF UnicodeInit
<1>3. CASE \E t \in Texts : /\ text = t /\ in8 = All([i \in DOMAIN t |-> InUtf8(t[i])])
                            /\ utf16 = << >> /\ available \in Room16 /\ size \in Room8 /\ converting = "to"
  <2>1. text \in Seq(Int) /\ available \in Nat /\ size \in Nat
    BY <1>3, UnicodeGiven DEF UnicodeAssumption
  <2>2. in8 = All(Given8) /\ utf16 = << >> /\ converting = "to"
    BY <1>3 DEF Given8
  <2>3. in8 \in Seq(Int) /\ in8 = Rest8(0)
    BY <2>1, <2>2, RestEnds
  <2>4. Len(utf16) = 0 /\ Len(text) \in Nat
    BY <2>1, <2>2, <1>2
  <2>5. Taken16(Len(utf16))
    BY <2>4 DEF Taken16, PlainTo
  <2>6. ReadTo
    BY <2>3, <2>4, <2>5 DEF ReadTo
  <2>7. UnicodeTypes
    BY <2>1, <2>2, <2>3, <1>2 DEF UnicodeTypes
  <2>8. ReturnsWholeCharacters /\ SpellsCodePoint
    BY <2>2 DEF ReturnsWholeCharacters, SpellsCodePoint
  <2>9. QED BY <2>2, <2>6, <2>7, <2>8, <1>2 DEF UnicodeInv
<1>4. CASE \E t \in Typed : /\ text = t /\ utf16 = All([i \in DOMAIN t |-> Units(t[i])])
                            /\ in8 = << >> /\ available = Len(utf16) /\ size \in Room8 /\ converting = "from"
  <2> DEFINE parts == [i \in DOMAIN text |-> Units(text[i])]
             J == Joined(parts)
             N == Len(text)
  <2>1. text \in Seq(Int) /\ size \in Nat /\ N \in Nat
    <3>1. text \in Seq(Int) /\ size \in Nat
      BY <1>4, UnicodeGiven DEF UnicodeAssumption
    <3>2. QED BY <3>1
  <2>2. utf16 = All(parts) /\ in8 = << >> /\ available = Len(utf16) /\ converting = "from"
    BY <1>4
  <2>3. parts \in Seq(Seq(Int)) /\ Len(parts) = N
    BY <2>1, PartsAre, Zenon
  <2>4. PICK q \in 0..N : (\A i \in 1..q : Plain(text[i])) /\ (q < N => ~ Plain(text[q + 1]))
    BY <2>1, PlainUpTo
  <2>5. Len(J[q]) = q /\ \A i \in 1..q : J[q][i] = text[i]
    BY <2>1, <2>4, UnitsBegin
  <2> HIDE DEF parts
  <2>6. utf16 = J[N] /\ utf16 \in Seq(Int)
    <3>1. J \in [0..N -> Seq(Int)]
      BY <2>3, JoinedIs
    <3>2. utf16 = J[N]
      BY <2>2, <2>3 DEF All
    <3> HIDE DEF J
    <3>3. QED BY <3>1, <3>2, <2>1
  <2>7. Len(J[q]) <= Len(J[N]) /\ \A i \in 1..Len(J[q]) : J[N][i] = J[q][i]
    <3>1. q \in 0..Len(parts) /\ N \in q..Len(parts)
      BY <2>1, <2>3, <2>4
    <3>2. QED BY <3>1, <2>3, JoinedGrows, Zenon
  <2> HIDE DEF J
  <2>8. Taken16(q)
    <3>1. q <= Len(utf16) /\ \A i \in 1..q : utf16[i] = text[i]
      BY <2>5, <2>6, <2>7
    <3>2. QED BY <3>1, <2>4 DEF Taken16, PlainTo
  <2>9. Whole16(q)
    <3>1. CASE q < N
      BY <3>1, <2>4, <2>8 DEF Whole16, Malformed
    <3>2. CASE ~ (q < N)
      <4>1. q = N
        BY <3>2, <2>1, <2>4
      <4>2. q = Len(utf16)
        BY <4>1, <2>5, <2>6
      <4>3. QED BY <4>1, <4>2, <2>8 DEF Whole16
    <3>3. QED BY <3>1, <3>2
  <2>10. WrittenFrom(q)
    <3>1. Utf8Of(text)[0] = << >>
      BY <2>1, Utf8OfIs
    <3>2. QED BY <3>1, <1>2, <2>4 DEF WrittenFrom
  <2>11. UnicodeTypes
    <3>1. Len(utf16) \in Nat
      BY <2>6
    <3>2. QED BY <3>1, <2>1, <2>2, <2>6, <1>2 DEF UnicodeTypes
  <2>12. ReturnsWholeCharacters /\ SpellsCodePoint
    BY <2>2 DEF ReturnsWholeCharacters, SpellsCodePoint
  <2>13. QED BY <2>2, <2>4, <2>9, <2>10, <2>11, <2>12 DEF UnicodeInv
<1>5. CASE \E t \in Literals : /\ text = t /\ in8 = << >> /\ utf16 = << >>
                               /\ available = 0 /\ size = 0 /\ converting = "literal"
  <2>1. text \in Seq(Digits) /\ Len(text) \in {4, 8}
    BY <1>5, UnicodeGiven DEF UnicodeAssumption
  <2>2. in8 = << >> /\ utf16 = << >> /\ available = 0 /\ size = 0 /\ converting = "literal"
    BY <1>5
  <2>3. text \in Seq(Int)
    <3>1. \A d \in Digits : d \in Int
      BY DEF Digits, NoDigit
    <3>2. QED BY <2>1, <3>1
  <2>4. UnicodeTypes
    BY <2>2, <2>3, <1>2 DEF UnicodeTypes
  <2>5. ReturnsWholeCharacters /\ SpellsCodePoint
    BY <2>2 DEF ReturnsWholeCharacters, SpellsCodePoint
  <2>6. QED BY <2>1, <2>2, <2>4, <2>5, <1>2 DEF UnicodeInv
<1>6. QED BY <1>1, <1>3, <1>4, <1>5 DEF UnicodeInit

\* A character is read whole, and what else is read leaves the ones before it.
LEMMA ReadsCharacter ==
  ASSUME UnicodeInv, convert_to_utf16
  PROVE  UnicodeInv'
<1> DEFINE extra == IF in8 = << >> THEN 0 ELSE Extra(in8[1])
           whole == Len(in8) > extra /\ \A i \in 2..(extra + 1) : in8[i] \in 128..191
           units == UnitsFor(CodeAt(in8, extra))
           goes == in8 # << >> /\ whole /\ Len(utf16) + Len(units) <= available
           w == Len(utf16)
           N == Len(text)
           u == utf16 \o units
<1>1. UnicodeTypes /\ utf8 = << >> /\ from = 0 /\ ReadTo /\ converting = "to"
  BY DEF UnicodeInv, convert_to_utf16
<1>2. /\ text \in Seq(Int) /\ in8 \in Seq(Int) /\ utf16 \in Seq(Int) /\ available \in Nat /\ size \in Nat
      /\ N \in Nat /\ w \in Nat /\ w <= available /\ Len(in8) \in Nat
  BY <1>1 DEF UnicodeTypes
<1>3. /\ goes => utf16' = u /\ in8' = SubSeq(in8, extra + 2, Len(in8)) /\ converting' = "to"
      /\ ~ goes => utf16' = utf16 /\ in8' = in8 /\ converting' = "from"
      /\ text' = text /\ available' = available /\ size' = size /\ utf8' = utf8 /\ from' = from
  BY <1>1 DEF convert_to_utf16
<1>4. extra \in 0..3
  <2>1. in8 # << >> => in8[1] \in Int
    BY <1>2
  <2>2. in8 # << >> => Extra(in8[1]) \in 0..3
    BY <2>1, BitsIs
  <2>3. QED BY <2>2
<1>5. goes => units \in Seq(Int) /\ Len(units) \in Nat
  <2>1. SUFFICES ASSUME goes PROVE units \in Seq(Int) /\ Len(units) \in Nat
    OBVIOUS
  <2>2. extra < Len(in8)
    BY <2>1, <1>2, <1>4
  <2> HIDE DEF extra
  <2>3. CodeAt(in8, extra) \in Int
    BY <2>2, <1>2, <1>4, CodeIs
  <2>4. units \in Seq(Int)
    BY <2>3, CharactersAre
  <2> HIDE DEF units
  <2>5. QED BY <2>4
<1>6. goes => u \in Seq(Int) /\ Len(u) = w + Len(units) /\ \A i \in 1..w : u[i] = utf16[i]
  <2> HIDE DEF units, goes
  <2> QED BY <1>2, <1>5
<1>7. goes => Len(u) <= available /\ Len(u) \in Nat /\ w <= Len(u) /\ in8' \in Seq(Int)
  <2>1. SUFFICES ASSUME goes PROVE Len(u) <= available /\ Len(u) \in Nat /\ w <= Len(u) /\ in8' \in Seq(Int)
    OBVIOUS
  <2>2. in8' \in Seq(Int)
    <3>1. in8' = SubSeq(in8, extra + 2, Len(in8))
      BY <2>1, <1>3
    <3> HIDE DEF extra
    <3>2. QED BY <3>1, <1>2, <1>4
  <2>3. Len(utf16) + Len(units) <= available
    BY <2>1
  <2> HIDE DEF units, u
  <2>4. QED BY <2>1, <2>2, <2>3, <1>2, <1>5, <1>6
<1>8. UnicodeTypes'
  <2> HIDE DEF goes, u
  <2> QED BY <1>1, <1>2, <1>3, <1>6, <1>7 DEF UnicodeTypes
<1>9. (ReturnsWholeCharacters /\ SpellsCodePoint)'
  <2>1. converting' \in {"to", "from"}
    <3> HIDE DEF goes
    <3> QED BY <1>3
  <2>2. QED BY <2>1 DEF ReturnsWholeCharacters, SpellsCodePoint
<1> DEFINE Ends == \E q \in 0..N : Whole16(q)
           Goes == ReadTo'
<1>10. ASSUME NEW q \in 0..N, Taken16(q), Malformed(q) PROVE (goes => ReadTo') /\ (~ goes => Ends)
  <2>1. goes => Taken16(q)' /\ Malformed(q)'
    <3>1. SUFFICES ASSUME goes PROVE Taken16(q)' /\ Malformed(q)'
      OBVIOUS
    <3> HIDE DEF goes
    <3>2. utf16' = u /\ text' = text /\ q <= w /\ \A i \in 1..q : i \in 1..w
      BY <3>1, <1>2, <1>3, <1>10 DEF Taken16
    <3>3. q <= Len(u) /\ \A i \in 1..q : u[i] = text[i]
      <4>1. \A i \in 1..q : utf16[i] = text[i]
        BY <1>10 DEF Taken16
      <4>2. w <= Len(u) /\ Len(u) \in Nat /\ \A i \in 1..w : u[i] = utf16[i]
        BY <3>1, <1>6, <1>7
      <4> HIDE DEF u, w
      <4>3. QED BY <4>1, <4>2, <3>2, <1>2
    <3> HIDE DEF u
    <3>4. QED BY <3>2, <3>3, <1>10 DEF Taken16, Malformed, PlainTo
  <2>2. Whole16(q)
    BY <1>10 DEF Whole16
  <2> HIDE DEF goes
  <2>3. goes => ReadTo'
    BY <2>1, <1>3 DEF ReadTo
  <2>4. QED BY <2>2, <2>3
<1>11. ASSUME Taken16(w), in8 = Rest8(w) PROVE (goes => ReadTo') /\ (~ goes => Ends)
  <2>1. w \in 0..N
    BY <1>11 DEF Taken16
  <2>2. CASE w = N
    <3>1. in8 = << >>
      BY <2>2, <1>2, <1>11, RestEnds
    <3>2. ~ goes
      BY <3>1
    <3>3. Whole16(w)
      BY <2>2, <1>11 DEF Whole16
    <3> HIDE DEF goes, w
    <3>4. QED BY <3>2, <3>3, <2>1
  <2>3. CASE w < N /\ ~ Plain(text[w + 1])
    <3>1. Malformed(w)
      BY <2>3 DEF Malformed
    <3> HIDE DEF goes, w
    <3>2. QED BY <3>1, <2>1, <1>10, <1>11
  <2>4. CASE w < N /\ Plain(text[w + 1])
    <3> DEFINE c == text[w + 1]
               b == Utf8(c)
    <3>1. w \in 0..(N - 1) /\ c \in Int /\ Plain(c) /\ w + 1 \in 0..N
      BY <2>1, <2>4, <1>2
    <3> HIDE DEF c
    <3>2. /\ InUtf8(c) = b /\ UnitsFor(c) = <<c>> /\ Extra(b[1]) \in 0..2 /\ Len(b) = Extra(b[1]) + 1
          /\ \A i \in 2..Len(b) : b[i] \in 128..191
      BY <3>1, OneUnit
    <3>3. Begins(InUtf8(c), in8) /\ Rest8(w + 1) = SubSeq(in8, Len(InUtf8(c)) + 1, Len(in8))
      BY <3>1, <1>2, <1>11, RestBegins DEF c
    <3>4. CodeAt(in8, Extra(b[1])) = c
      BY <3>1, <3>2, <3>3, <1>2, CodeOfOneUnit
    <3> HIDE DEF b, c
    <3>5. Len(b) <= Len(in8) /\ Len(b) >= 1 /\ Len(b) \in Nat /\ \A i \in 1..Len(b) : in8[i] = b[i]
      BY <3>2, <3>3 DEF Begins
    <3>6. in8 # << >> /\ in8[1] = b[1]
      BY <3>5, <1>2
    <3>7. extra = Extra(b[1])
      BY <3>6
    <3>8. whole
      <4>1. Len(b) = extra + 1
        BY <3>2, <3>7
      <4> HIDE DEF extra
      <4>2. \A i \in 2..(extra + 1) : in8[i] \in 128..191
        BY <4>1, <3>2, <3>5
      <4>3. QED BY <4>1, <4>2, <3>5, <1>2, <1>4
    <3>9. units = <<c>>
      BY <3>2, <3>4, <3>7
    <3>10. goes <=> w + 1 <= available
      <4>1. Len(units) = 1
        BY <3>9
      <4> HIDE DEF whole, units
      <4>2. QED BY <4>1, <3>6, <3>8
    <3>11. CASE goes
      <4>1. u = utf16 \o <<c>> /\ utf16' = u /\ in8' = SubSeq(in8, extra + 2, Len(in8)) /\ text' = text
        BY <3>9, <3>11, <1>3
      <4>2. PICK n \in Nat : n = w
        BY <1>2
      <4> HIDE DEF goes, units
      <4>3. Len(u) = n + 1 /\ u[n + 1] = c /\ \A i \in 1..n : u[i] = utf16[i]
        <5>1. c \in Int
          BY <3>1
        <5> HIDE DEF u
        <5>2. QED BY <5>1, <4>1, <4>2, <1>2
      <4>4. \A i \in 1..(n + 1) : i \in 1..n \/ i = n + 1
        BY <4>2
      <4>5. extra + 2 = Len(InUtf8(c)) + 1
        <5>1. Len(b) = extra + 1
          BY <3>2, <3>7
        <5> HIDE DEF extra
        <5>2. QED BY <5>1, <3>2, <1>4
      <4> HIDE DEF u, extra
      <4>6. \A i \in 1..n : utf16[i] = text[i] /\ Plain(text[i])
        BY <4>2, <1>11 DEF Taken16, PlainTo
      <4>7. text[n + 1] = c /\ Plain(c) /\ n + 1 \in 0..N
        BY <4>2, <3>1 DEF c
      <4>8. \A i \in 1..(n + 1) : u[i] = text[i] /\ Plain(text[i])
        BY <4>3, <4>4, <4>6, <4>7
      <4>9. in8' = Rest8(n + 1)
        BY <4>1, <4>2, <4>5, <3>3
      <4> HIDE DEF w
      <4>10. Taken16(n + 1)'
        BY <4>1, <4>3, <4>7, <4>8 DEF Taken16, PlainTo
      <4>11. Rest8(n + 1)' = Rest8(n + 1)
        BY <4>1 DEF Rest8, Given8
      <4>12. Len(utf16') = n + 1
        BY <4>1, <4>3
      <4>13. ReadTo'
        BY <4>9, <4>10, <4>11, <4>12 DEF ReadTo
      <4>14. QED BY <4>13, <3>11
    <3>12. CASE ~ goes
      <4>1. w = available
        <5>1. ~ (w + 1 <= available)
          BY <3>10, <3>12
        <5>2. QED BY <5>1, <1>2
      <4>2. Whole16(w)
        BY <4>1, <1>11 DEF Whole16
      <4> HIDE DEF goes, w
      <4>3. QED BY <4>2, <3>12, <2>1
    <3> HIDE DEF goes
    <3>13. QED BY <3>11, <3>12
  <2>5. w = N \/ (w < N /\ ~ Plain(text[w + 1])) \/ (w < N /\ Plain(text[w + 1]))
    BY <2>1, <1>2
  <2> HIDE DEF goes, w, Ends
  <2>6. QED BY <2>2, <2>3, <2>4, <2>5
<1>12. (goes => ReadTo') /\ (~ goes => Ends)
  <2> HIDE DEF goes, Ends
  <2> QED BY <1>1, <1>10, <1>11 DEF ReadTo
<1>13. CASE goes
  <2> HIDE DEF goes
  <2> QED BY <1>1, <1>3, <1>8, <1>9, <1>12, <1>13 DEF UnicodeInv
<1>14. CASE ~ goes
  <2> HIDE DEF goes
  <2>1. PICK q \in 0..N : Whole16(q)
    BY <1>12, <1>14
  <2>2. Whole16(q)'
    BY <2>1, <1>3, <1>14 DEF Whole16, Taken16, PlainTo, Malformed
  <2>3. WrittenFrom(q)'
    <3>1. Utf8Of(text)[0] = << >> /\ 0 <= q
      <4>1. Utf8Of(text)[0] = << >>
        BY <1>2, Utf8OfIs
      <4>2. QED BY <4>1, <2>1, <1>2
    <3>2. from' = 0 /\ utf8' = << >> /\ text' = text
      BY <1>1, <1>3
    <3>3. QED BY <3>1, <3>2 DEF WrittenFrom
  <2>4. QED BY <2>1, <2>2, <2>3, <1>3, <1>8, <1>9, <1>14 DEF UnicodeInv
<1> HIDE DEF goes
<1>15. QED BY <1>13, <1>14

-----------------------------------------------------------------------------
(* The dialog's conversions: from UTF-16, and the escapes.                  *)

\* The number that fits and after which none fits is the one.
LEMMA FittingIs ==
  ASSUME text \in Seq(Int), NEW k \in 0..Len(text), Fits(k), \A j \in (k + 1)..Len(text) : ~ Fits(j)
  PROVE  Fitting = k
<1> DEFINE Greatest(i) == i \in 0..Len(text) /\ Fits(i) /\ \A j \in (i + 1)..Len(text) : ~ Fits(j)
<1>1. Len(text) \in Nat /\ Greatest(k)
  OBVIOUS
<1>2. \A i, j \in 0..Len(text) : i < j => j \in (i + 1)..Len(text)
  BY <1>1
<1>3. \A i : Greatest(i) => i = k
  <2>1. SUFFICES ASSUME NEW i, Greatest(i), i # k PROVE FALSE
    OBVIOUS
  <2>2. i \in 0..Len(text) /\ k \in 0..Len(text)
    BY <2>1
  <2>3. i < k \/ k < i
    BY <2>1, <2>2, <1>1
  <2>4. CASE i < k
    <3>1. k \in (i + 1)..Len(text)
      BY <2>2, <2>4, <1>2
    <3>2. QED BY <3>1, <2>1, <1>1
  <2>5. CASE k < i
    <3>1. i \in (k + 1)..Len(text)
      BY <2>2, <2>5, <1>2
    <3>2. QED BY <3>1, <2>1, <1>1
  <2>6. QED BY <2>3, <2>4, <2>5
<1>4. Fitting = CHOOSE i \in 0..Len(text) : Fits(i) /\ \A j \in (i + 1)..Len(text) : ~ Fits(j)
  BY DEF Fitting
<1> DEFINE x == CHOOSE i \in 0..Len(text) : Fits(i) /\ \A j \in (i + 1)..Len(text) : ~ Fits(j)
<1>5. Greatest(x)
  BY <1>1
<1>6. QED BY <1>3, <1>4, <1>5

\* No more characters fit than those whose units there are.
LEMMA NoMoreFit ==
  ASSUME UnicodeTypes, NEW q \in 0..Len(text), Whole16(q)
  PROVE  \A j \in (q + 1)..Len(text) : ~ Fits(j)
<1>1. SUFFICES ASSUME NEW j \in (q + 1)..Len(text) PROVE ~ Fits(j)
  OBVIOUS
<1>2. Len(text) \in Nat /\ q < Len(text) /\ q < j /\ q + 1 \in 1..j /\ available \in Nat
  <2>1. Len(text) \in Nat /\ available \in Nat
    BY DEF UnicodeTypes
  <2>2. QED BY <2>1
<1>3. CASE Malformed(q)
  <2>1. ~ Plain(text[q + 1])
    BY <1>3 DEF Malformed
  <2>2. QED BY <2>1, <1>2 DEF Fits
<1>4. CASE ~ Malformed(q)
  <2>1. q = available
    BY <1>2, <1>4 DEF Whole16
  <2>2. ~ (j <= available)
    BY <2>1, <1>2
  <2>3. QED BY <2>2 DEF Fits
<1>5. QED BY <1>3, <1>4

\* What convert_from_utf16 ends with is what fits.
LEMMA WrittenFits ==
  ASSUME UnicodeTypes, Len(utf8) <= size, NEW q \in 0..Len(text), Whole16(q), WrittenFrom(q),
         from < q /\ utf8 = Utf8Of(text)[from] => Len(Utf8Of(text)[from + 1]) > size
  PROVE  IF \A i \in DOMAIN text : Plain(text[i]) THEN utf8 = Utf8Of(text)[Fitting]
         ELSE IsPrefix(Utf8Of(text)[Fitting], utf8)
<1> DEFINE N == Len(text)
           U == Utf8Of(text)
<1>1. /\ text \in Seq(Int) /\ utf8 \in Seq(Int) /\ N \in Nat /\ Len(utf16) \in Nat /\ Len(utf16) <= available
      /\ available \in Nat /\ size \in Nat /\ from \in Nat /\ Len(utf8) \in Nat
  <2>1. text \in Seq(Int) /\ utf8 \in Seq(Int) /\ utf16 \in Seq(Int)
    BY DEF UnicodeTypes
  <2>2. QED BY <2>1 DEF UnicodeTypes
<1>2. U \in [0..N -> Seq(Int)] /\ \A j \in 0..N : \A k \in j..N : Len(U[j]) <= Len(U[k])
  BY <1>1, Utf8OfIs
<1>3. PlainTo(q) /\ q <= Len(utf16) /\ q <= available /\ q \in 0..N
  <2>1. PlainTo(q) /\ q <= Len(utf16)
    BY DEF Whole16, Taken16
  <2>2. QED BY <2>1, <1>1
<1>4. \A j \in (q + 1)..N : ~ Fits(j)
  BY NoMoreFit
<1>5. \A s \in Seq(Int) : IsPrefix(s, s)
  BY DEF IsPrefix
<1> HIDE DEF U
<1>6. CASE from <= q /\ utf8 = U[from]
  <2>1. from \in 0..N /\ Fits(from)
    <3>1. from \in 0..N
      BY <1>1, <1>6
    <3>2. \A i \in 1..from : Plain(text[i])
      BY <1>1, <1>3, <1>6 DEF PlainTo
    <3>3. from <= available
      BY <1>1, <1>3, <1>6
    <3>4. Len(U[from]) <= size
      BY <1>6
    <3>5. QED BY <3>1, <3>2, <3>3, <3>4 DEF Fits, U
  <2>2. \A j \in (from + 1)..N : ~ Fits(j)
    <3>1. CASE from = q
      BY <3>1, <1>4
    <3>2. CASE from < q
      <4>1. SUFFICES ASSUME NEW j \in (from + 1)..N PROVE ~ Fits(j)
        OBVIOUS
      <4>2. Len(U[from + 1]) > size
        BY <3>2, <1>6 DEF U
      <4>3. from + 1 \in 0..N /\ j \in 0..N /\ j \in (from + 1)..N
        BY <3>2, <4>1, <1>1
      <4>4. Len(U[from + 1]) <= Len(U[j])
        BY <4>3, <1>2
      <4>5. Len(U[from + 1]) \in Nat /\ Len(U[j]) \in Nat
        BY <4>3, <1>2
      <4>6. ~ (Len(U[j]) <= size)
        BY <4>2, <4>4, <4>5, <1>1
      <4>7. QED BY <4>6 DEF Fits, U
    <3>3. QED BY <3>1, <3>2, <1>1, <1>6
  <2>3. Fitting = from
    BY <2>1, <2>2, <1>1, FittingIs
  <2>4. utf8 = U[Fitting] /\ IsPrefix(U[Fitting], utf8)
    BY <2>3, <1>1, <1>5, <1>6
  <2>5. QED BY <2>4 DEF U
<1>7. CASE Malformed(q) /\ from >= q /\ Begins(U[q], utf8)
  <2> DEFINE v == U[q]
  <2>1. v \in Seq(Int) /\ Len(v) \in Nat
    BY <1>2, <1>3
  <2> HIDE DEF v
  <2>2. Len(v) <= Len(utf8) /\ \A i \in 1..Len(v) : utf8[i] = v[i]
    BY <1>7 DEF Begins, v
  <2>3. Fits(q)
    <3>1. Len(v) <= size
      BY <2>1, <2>2, <1>1
    <3>2. QED BY <3>1, <1>3 DEF Fits, PlainTo, v, U
  <2>4. Fitting = q
    BY <2>3, <1>1, <1>3, <1>4, FittingIs
  <2>5. IsPrefix(v, utf8)
    <3>1. SubSeq(v, 1, Len(v)) = [i \in 1..Len(v) |-> v[i]] /\ SubSeq(utf8, 1, Len(v)) = [i \in 1..Len(v) |-> utf8[i]]
      BY <2>1, <2>2, <1>1
    <3>2. SubSeq(v, 1, Len(v)) = SubSeq(utf8, 1, Len(v))
      BY <3>1, <2>2
    <3>3. QED BY <3>2, <2>2 DEF IsPrefix
  <2>6. ~ \A i \in DOMAIN text : Plain(text[i])
    <3>1. q + 1 \in DOMAIN text /\ ~ Plain(text[q + 1])
      BY <1>1, <1>3, <1>7 DEF Malformed
    <3>2. QED BY <3>1
  <2>7. QED BY <2>4, <2>5, <2>6 DEF v, U
<1>8. QED BY <1>6, <1>7 DEF WrittenFrom, U

LEMMA WritesCharacter ==
  ASSUME UnicodeInv, convert_from_utf16
  PROVE  UnicodeInv'
<1> DEFINE ch == Unit(0)
           ch2 == Unit(1)
           pair == Surrogate(ch)
           taken == 56320 <= ch /\ ch <= 57344 /\ 55296 <= ch2 /\ ch2 <= 56320
           code == IF pair THEN 65536 + (ch % 1024) * 1024 + (ch2 % 1024) ELSE ch
           b == Utf8(code)
           stop == ch = 0 \/ (pair /\ ~ taken) \/ WholeOrNone(b) = None
           N == Len(text)
           U == Utf8Of(text)
<1>1. UnicodeTypes /\ converting = "from"
  BY DEF UnicodeInv, convert_from_utf16
<1>2. /\ text \in Seq(Int) /\ utf16 \in Seq(Int) /\ utf8 \in Seq(Int) /\ size \in Nat /\ from \in Nat
      /\ N \in Nat /\ Len(utf16) \in Nat /\ Len(utf8) \in Nat /\ Len(utf8) <= size
  <2>1. text \in Seq(Int) /\ utf16 \in Seq(Int) /\ utf8 \in Seq(Int)
    BY <1>1 DEF UnicodeTypes
  <2>2. QED BY <2>1, <1>1 DEF UnicodeTypes
<1>3. PICK q \in 0..N : Whole16(q) /\ WrittenFrom(q)
  BY <1>1 DEF UnicodeInv
<1>4. ch \in Int /\ ch2 \in Int
  BY <1>2 DEF Unit
<1>5. code \in Int
  <2> HIDE DEF ch, ch2
  <2>1. 65536 + (ch % 1024) * 1024 + (ch2 % 1024) \in Int
    BY <1>4
  <2>2. QED BY <2>1, <1>4
<1>6. b \in Seq(Int) /\ Len(b) \in 1..4
  <2> HIDE DEF code
  <2> QED BY <1>5, Utf8Is
<1>7. /\ stop => converting' = "done" /\ utf8' = utf8 /\ from' = from
      /\ ~ stop => /\ utf8' = utf8 \o WholeOrNone(b) /\ from' = from + (IF pair THEN 2 ELSE 1)
                   /\ converting' = "from"
      /\ text' = text /\ available' = available /\ size' = size /\ in8' = in8 /\ utf16' = utf16
  BY <1>1 DEF convert_from_utf16
<1> HIDE DEF ch, ch2, b
<1>8. (WholeOrNone(b) = None <=> Len(utf8) + Len(b) > size) /\ (Len(utf8) + Len(b) <= size => WholeOrNone(b) = b)
  <2>1. b # << >>
    BY <1>6
  <2>2. Len(utf8) + Len(b) <= size \/ Len(utf8) + Len(b) > size
    BY <1>2, <1>6
  <2>3. ~ (Len(utf8) + Len(b) <= size /\ Len(utf8) + Len(b) > size)
    BY <1>2, <1>6
  <2>4. QED BY <2>1, <2>2, <2>3 DEF WholeOrNone, None
<1>9. U \in [0..N -> Seq(Int)] /\ \A n \in 1..N : U[n] = U[n - 1] \o Utf8(text[n])
  BY <1>2, Utf8OfIs
<1> HIDE DEF U
\* The next character, where its unit is still to come.
<1>10. from < q => /\ from + 1 \in 1..N /\ Plain(text[from + 1]) /\ ch = text[from + 1] /\ ~ pair /\ ch # 0
                   /\ b = Utf8(text[from + 1])
  <2>1. SUFFICES ASSUME from < q
                 PROVE  /\ from + 1 \in 1..N /\ Plain(text[from + 1]) /\ ch = text[from + 1] /\ ~ pair /\ ch # 0
                        /\ b = Utf8(text[from + 1])
    OBVIOUS
  <2>2. from + 1 \in 1..q /\ from + 1 \in 1..N /\ from + 0 < Len(utf16) /\ from + 0 + 1 = from + 1
    BY <2>1, <1>2, <1>3 DEF Whole16, Taken16
  <2>3. Plain(text[from + 1]) /\ utf16[from + 1] = text[from + 1]
    BY <2>2, <1>3 DEF Whole16, Taken16, PlainTo
  <2>4. ch = text[from + 1]
    BY <2>2, <2>3 DEF Unit, ch
  <2>5. ~ pair /\ ch # 0
    BY <2>3, <2>4, <1>4 DEF Plain
  <2>6. b = Utf8(text[from + 1])
    BY <2>4, <2>5 DEF b
  <2>7. QED BY <2>2, <2>3, <2>4, <2>5, <2>6
<1>11. SpellsCodePoint'
  <2>1. converting' \in {"from", "done"}
    <3> HIDE DEF stop
    <3> QED BY <1>7
  <2>2. QED BY <2>1 DEF SpellsCodePoint
<1>12. CASE stop
  <2>1. from < q /\ utf8 = U[from] => Len(U[from + 1]) > size
    <3>1. SUFFICES ASSUME from < q, utf8 = U[from] PROVE Len(U[from + 1]) > size
      OBVIOUS
    <3>2. WholeOrNone(b) = None
      BY <3>1, <1>10, <1>12
    <3>3. Len(utf8) + Len(b) > size
      BY <3>2, <1>8
    <3>4. from + 1 \in 1..N /\ (from + 1) - 1 = from
      BY <3>1, <1>2, <1>10
    <3>5. U[from + 1] = utf8 \o b
      BY <3>1, <3>4, <1>9, <1>10
    <3>6. Len(utf8 \o b) = Len(utf8) + Len(b)
      BY <1>2, <1>6
    <3>7. QED BY <3>3, <3>5, <3>6
  <2>2. IF \A i \in DOMAIN text : Plain(text[i]) THEN utf8 = U[Fitting] ELSE IsPrefix(U[Fitting], utf8)
    BY <2>1, <1>1, <1>2, <1>3, WrittenFits DEF U
  <2> HIDE DEF stop
  <2>3. ReturnsWholeCharacters'
    BY <2>2, <1>7, <1>12 DEF ReturnsWholeCharacters, Fitting, Fits, U
  <2>4. UnicodeTypes'
    BY <1>1, <1>7, <1>12 DEF UnicodeTypes
  <2>5. QED BY <2>3, <2>4, <1>7, <1>11, <1>12 DEF UnicodeInv
<1>13. CASE ~ stop
  <2> DEFINE s == utf8 \o b
             step == IF pair THEN 2 ELSE 1
  <2>1. Len(utf8) + Len(b) <= size /\ WholeOrNone(b) = b /\ ch # 0
    <3>1. ~ (Len(utf8) + Len(b) > size) /\ ch # 0
      BY <1>8, <1>13
    <3>2. QED BY <3>1, <1>2, <1>6, <1>8
  <2>2. utf8' = s /\ from' = from + step /\ converting' = "from" /\ step \in 1..2
    BY <2>1, <1>7, <1>13
  <2>3. s \in Seq(Int) /\ Len(s) = Len(utf8) + Len(b) /\ \A i \in 1..Len(utf8) : s[i] = utf8[i]
    BY <1>2, <1>6
  <2> HIDE DEF s, stop
  <2>4. UnicodeTypes'
    <3>1. Len(s) <= size /\ from + step \in Nat
      BY <2>1, <2>2, <2>3, <1>2
    <3> HIDE DEF step
    <3>2. QED BY <3>1, <2>2, <2>3, <1>1, <1>7 DEF UnicodeTypes
  <2>5. Whole16(q)'
    BY <1>3, <1>7 DEF Whole16, Taken16, PlainTo, Malformed
  <2>6. WrittenFrom(q)'
    <3>1. CASE from < q /\ utf8 = U[from]
      <4>1. from + 1 \in 1..N /\ (from + 1) - 1 = from /\ from + 1 <= q
        BY <3>1, <1>2, <1>3, <1>10
      <4>2. U[from + 1] = s
        BY <3>1, <4>1, <1>9, <1>10 DEF s
      <4>3. from' = from + 1 /\ from' <= q
        BY <3>1, <4>1, <2>2, <1>10
      <4>4. QED BY <4>2, <4>3, <2>2, <1>7 DEF WrittenFrom, U
    <3>2. CASE from = q /\ utf8 = U[from]
      <4>1. Malformed(q)
        <5>1. q < Len(utf16)
          <6>1. SUFFICES ASSUME ~ (from + 0 < Len(utf16)) PROVE FALSE
            BY <3>2, <1>2
          <6>2. QED BY <6>1, <2>1 DEF Unit, ch
        <5>2. QED BY <5>1, <1>2, <1>3 DEF Whole16
      <4>2. from' >= q
        BY <3>2, <2>2, <1>2
      <4>3. Begins(U[q], s)
        BY <3>2, <2>3, <1>2, <1>6 DEF Begins
      <4>4. QED BY <4>1, <4>2, <4>3, <2>2, <1>7 DEF WrittenFrom, Malformed, U, Begins
    <3>3. CASE Malformed(q) /\ from >= q /\ Begins(U[q], utf8)
      <4>1. from' >= q
        BY <3>3, <2>2, <1>2, <1>3
      <4> DEFINE v == U[q]
      <4>2. v \in Seq(Int)
        BY <1>3, <1>9
      <4> HIDE DEF v
      <4>3. Len(v) \in Nat /\ Len(v) <= Len(utf8) /\ \A i \in 1..Len(v) : utf8[i] = v[i]
        BY <3>3, <4>2 DEF Begins, v
      <4>4. \A i \in 1..Len(v) : i \in 1..Len(utf8)
        BY <4>3, <1>2
      <4>5. Len(v) <= Len(s) /\ \A i \in 1..Len(v) : s[i] = v[i]
        BY <4>3, <4>4, <2>3, <1>2, <1>6
      <4>6. QED BY <3>3, <4>1, <4>5, <2>2, <1>7 DEF WrittenFrom, Malformed, U, Begins, v
    <3>4. from <= q => from < q \/ from = q
      BY <1>2, <1>3
    <3>5. QED BY <3>1, <3>2, <3>3, <3>4, <1>3 DEF WrittenFrom, U
  <2>7. ReturnsWholeCharacters'
    BY <2>2 DEF ReturnsWholeCharacters
  <2>8. q \in 0..Len(text')
    BY <1>3, <1>7
  <2>9. QED BY <2>2, <2>4, <2>5, <2>6, <2>7, <2>8, <1>11 DEF UnicodeInv
<1> HIDE DEF stop
<1>14. QED BY <1>12, <1>13

-----------------------------------------------------------------------------
(* The literals, and what the conversions keep.                             *)

\* A pair is what the code calls one, and stands for the code point it composes.
LEMMA PairedIs ==
  ASSUME NEW c \in Int, NEW r \in Int, NEW p \in Int, Surrogate(c),
         p = 65536 + (c - 55296) * 1024 + r - 56320
  PROVE  /\ (Pair(p) = <<c, r>> /\ 65536 <= p /\ IsCode(p)) <=> (c < 56320 /\ SecondValid(r))
         /\ c < 56320 /\ SecondValid(r) => p = 65536 + (c % 1024) * 1024 + (r % 1024)
<1> DEFINE d == (p - 65536) \div 1024
           m == p % 1024
<1>1. d \in Int /\ m \in 0..1023 /\ p - 65536 = d * 1024 + m
  <2>1. \A x \in Int : (x \div 1024) \in Int /\ x % 1024 \in 0..1023 /\ x = (x \div 1024) * 1024 + (x % 1024)
    OBVIOUS
  <2>2. p % 1024 = (p - 65536) % 1024
    OBVIOUS
  <2>3. p - 65536 \in Int
    OBVIOUS
  <2>4. QED BY <2>1, <2>2, <2>3
<1>2. Pair(p) = <<c, r>> <=> 55296 + d = c /\ 56320 + m = r
  BY DEF Pair
<1> HIDE DEF d, m
<1>3. ASSUME 55296 + d = c, 56320 + m = r, 65536 <= p, IsCode(p) PROVE c < 56320 /\ SecondValid(r)
  BY <1>1, <1>3 DEF IsCode, SecondValid
<1>4. ASSUME c < 56320, SecondValid(r)
      PROVE  /\ 55296 + d = c /\ 56320 + m = r /\ 65536 <= p /\ IsCode(p)
             /\ p = 65536 + (c % 1024) * 1024 + (r % 1024)
  <2>1. 55296 <= c /\ 56320 <= r /\ r < 57344
    BY <1>4 DEF Surrogate, SecondValid
  <2>2. p - 65536 = (c - 55296) * 1024 + (r - 56320)
    OBVIOUS
  <2>3. 55296 + d = c /\ 56320 + m = r
    BY <1>1, <2>1, <2>2
  <2>4. 65536 <= p /\ IsCode(p)
    BY <1>4, <2>1, <2>2 DEF IsCode
  <2>5. c % 1024 = c - 55296 /\ r % 1024 = r - 56320
    BY <1>4, <2>1
  <2>6. QED BY <2>2, <2>3, <2>4, <2>5
<1>5. QED BY <1>2, <1>3, <1>4

\* Four digits are read as the number they make.
LEMMA HexIs ==
  ASSUME NEW digits \in Seq(Int), Len(digits) = 4
  PROVE  /\ Compose(16, 0, digits) \in Int /\ parse_hex4(digits) \in Int
         /\ (\A i \in 1..4 : digits[i] # NoDigit) => parse_hex4(digits) = Compose(16, 0, digits)
<1> DEFINE base == 16
           high == 0
<1>1. base \in Int /\ high \in Int /\ Len(digits) \in 0..Len(digits)
  OBVIOUS
<1> HIDE DEF base, high
<1>2. Compose(base, high, digits) \in Int
  <2>1. PICK f \in [0..Len(digits) -> Int] :
          /\ f[0] = high /\ Compose(base, high, digits) = f[Len(digits)]
          /\ \A n \in 1..Len(digits) : f[n] = f[n - 1] * base + digits[n]
    BY <1>1, ComposeIs
  <2>2. QED BY <1>1, <2>1
<1>3. Compose(16, 0, digits) \in Int
  BY <1>2 DEF base, high
<1>4. QED BY <1>3 DEF parse_hex4

LEMMA ReadsLiteral ==
  ASSUME UnicodeInv, utf16_literal_to_utf8
  PROVE  UnicodeInv'
<1> DEFINE one == SubSeq(text, 1, 4)
           two == SubSeq(text, 5, 8)
           first == parse_hex4(one)
           second == parse_hex4(two)
           code == Compose(16, 0, one)
           rest == Compose(16, 0, two)
           paired == 65536 + (code - 55296) * 1024 + rest - 56320
           whole == 65536 + (first % 1024) * 1024 + (second % 1024)
           both == Surrogate(first) /\ first < 56320 /\ Len(text) = 8 /\ SecondValid(second)
<1>1. /\ UnicodeTypes /\ text \in Seq(Digits) /\ Len(text) \in {4, 8} /\ from = 0 /\ utf8 = << >>
      /\ converting = "literal" /\ converting' = "converted"
      /\ text' = text /\ available' = available /\ size' = size /\ in8' = in8 /\ utf16' = utf16
  BY DEF UnicodeInv, utf16_literal_to_utf8
<1>2. one \in Seq(Int) /\ Len(one) = 4 /\ \A i \in 1..4 : one[i] = text[i]
  BY <1>1 DEF UnicodeTypes
<1>3. Len(text) = 8 => two \in Seq(Int) /\ Len(two) = 4 /\ \A i \in 1..4 : two[i] = text[i + 4]
  <2>1. SUFFICES ASSUME Len(text) = 8
                 PROVE  two \in Seq(Int) /\ Len(two) = 4 /\ \A i \in 1..4 : two[i] = text[i + 4]
    OBVIOUS
  <2>2. text \in Seq(Int)
    BY <1>1 DEF UnicodeTypes
  <2>3. two = [i \in 1..4 |-> text[i + 4]]
    BY <2>1, <2>2
  <2>4. \A i \in 1..4 : text[i + 4] \in Int
    <3>1. \A i \in 1..4 : i + 4 \in 1..Len(text)
      BY <2>1
    <3>2. \A i \in 1..Len(text) : text[i] \in Int
      BY <2>2
    <3>3. QED BY <3>1, <3>2
  <2> HIDE DEF two
  <2>5. QED BY <2>3, <2>4
<1>4. /\ ~ Surrogate(first) => from' = 6 /\ utf8' = Utf8(first)
      /\ both => from' = 12 /\ utf8' = Utf8(whole)
      /\ Surrogate(first) /\ ~ both => from' = 0 /\ utf8' = utf8
  BY DEF utf16_literal_to_utf8
<1> HIDE DEF one, two
<1>5. first \in Int /\ code \in Int /\ (Len(text) = 8 => second \in Int /\ rest \in Int)
  BY <1>2, <1>3, HexIs
<1>6. NoDigit \notin Range(text) => first = code /\ (Len(text) = 8 => second = rest)
  <2>1. SUFFICES ASSUME NoDigit \notin Range(text) PROVE first = code /\ (Len(text) = 8 => second = rest)
    OBVIOUS
  <2>2. \A i \in DOMAIN text : text[i] # NoDigit
    BY <2>1 DEF Range
  <2>3. \A i \in 1..4 : one[i] # NoDigit
    BY <1>1, <1>2, <2>2
  <2>4. Len(text) = 8 => \A i \in 1..4 : two[i] # NoDigit
    BY <1>1, <1>3, <2>2
  <2>5. QED BY <1>2, <1>3, <2>3, <2>4, HexIs
<1> HIDE DEF first, second, code, rest
<1>7. UnicodeTypes'
  <2>1. ASSUME NEW c \in Int PROVE Utf8(c) \in Seq(Int) /\ Len(Utf8(c)) \in 1..4
    BY <2>1, Utf8Is
  <2>2. both => whole \in Int
    <3>1. SUFFICES ASSUME both PROVE whole \in Int
      OBVIOUS
    <3>2. first \in Int /\ second \in Int
      BY <3>1, <1>5
    <3>3. first % 1024 \in Int /\ second % 1024 \in Int
      BY <3>2
    <3>4. QED BY <3>3
  <2> HIDE DEF whole, both, paired
  <2>3. utf8' \in Seq(Int) /\ Len(utf8') <= from' /\ from' \in Nat
    <3>1. CASE ~ Surrogate(first)
      <4>1. from' = 6 /\ utf8' = Utf8(first)
        BY <3>1, <1>4 DEF both
      <4>2. utf8' \in Seq(Int) /\ Len(utf8') \in 1..4
        BY <4>1, <1>5, <2>1
      <4>3. Len(utf8') <= from' /\ from' \in Nat
        <5> DEFINE n == Len(utf8')
                   m == from'
        <5>1. n \in 1..4 /\ (m = 6 \/ m = 12)
          BY <4>1, <4>2
        <5> HIDE DEF n, m
        <5>2. n <= m /\ m \in Nat
          BY <5>1
        <5>3. QED BY <5>2 DEF n, m
      <4>4. QED BY <4>2, <4>3
    <3>2. CASE both
      <4>1. from' = 12 /\ utf8' = Utf8(whole)
        BY <3>2, <1>4 DEF both, whole
      <4>2. utf8' \in Seq(Int) /\ Len(utf8') \in 1..4
        BY <4>1, <3>2, <2>1, <2>2
      <4>3. Len(utf8') <= from' /\ from' \in Nat
        <5> DEFINE n == Len(utf8')
                   m == from'
        <5>1. n \in 1..4 /\ (m = 6 \/ m = 12)
          BY <4>1, <4>2
        <5> HIDE DEF n, m
        <5>2. n <= m /\ m \in Nat
          BY <5>1
        <5>3. QED BY <5>2 DEF n, m
      <4>4. QED BY <4>2, <4>3
    <3>3. CASE Surrogate(first) /\ ~ both
      <4>1. from' = 0 /\ utf8' = << >>
        BY <3>3, <1>1, <1>4 DEF both
      <4>2. << >> \in Seq(Int) /\ Len(<< >>) = 0
        OBVIOUS
      <4> DEFINE b == utf8'
                 m == from'
      <4>3. m = 0 /\ b \in Seq(Int) /\ Len(b) = 0
        BY <4>1, <4>2, Zenon
      <4> HIDE DEF b, m
      <4>4. b \in Seq(Int) /\ Len(b) <= m /\ m \in Nat
        BY <4>3
      <4>5. QED BY <4>4 DEF b, m
    <3>4. QED BY <3>1, <3>2, <3>3
  <2>4. QED BY <2>3, <1>1 DEF UnicodeTypes
<1>8. SpellsCodePoint'
  <2> DEFINE meant == Surrogate(code) /\ Len(text) = 8 /\ Pair(paired) = <<code, rest>> /\ 65536 <= paired /\ IsCode(paired)
  <2>1. SUFFICES ASSUME NoDigit \notin Range(text)
                 PROVE  CASE ~ Surrogate(code) -> from' = 6 /\ utf8' = Utf8(code)
                          [] meant -> from' = 12 /\ utf8' = Utf8(paired)
                          [] OTHER -> from' = 0
    BY <1>1 DEF SpellsCodePoint, code, rest, one, two
  <2>2. first = code /\ (Len(text) = 8 => second = rest)
    BY <2>1, <1>6
  <2>3. (meant <=> both) /\ (both => paired = whole)
    <3>1. CASE Surrogate(code) /\ Len(text) = 8
      <4>1. second = rest /\ rest \in Int /\ code \in Int /\ paired \in Int
        BY <3>1, <2>2, <1>5
      <4>2. /\ (Pair(paired) = <<code, rest>> /\ 65536 <= paired /\ IsCode(paired)) <=> (code < 56320 /\ SecondValid(rest))
            /\ code < 56320 /\ SecondValid(rest) => paired = 65536 + (code % 1024) * 1024 + (rest % 1024)
        BY <3>1, <4>1, PairedIs
      <4>3. QED BY <3>1, <4>1, <4>2, <2>2
    <3>2. CASE ~ (Surrogate(code) /\ Len(text) = 8)
      BY <3>2, <2>2
    <3>3. QED BY <3>1, <3>2
  <2>4. both => Surrogate(first)
    OBVIOUS
  <2>5. meant => Surrogate(code)
    OBVIOUS
  <2> HIDE DEF meant, both, paired, whole
  <2>6. CASE ~ Surrogate(code)
    BY <2>2, <2>5, <2>6, <1>4
  <2>7. CASE meant
    BY <2>3, <2>5, <2>7, <1>4
  <2>8. CASE Surrogate(code) /\ ~ meant
    BY <2>2, <2>3, <2>8, <1>4
  <2>9. QED BY <2>6, <2>7, <2>8
<1>9. ReturnsWholeCharacters'
  BY <1>1 DEF ReturnsWholeCharacters
<1>10. QED BY <1>1, <1>7, <1>8, <1>9 DEF UnicodeInv

\* The conversions' inductive invariant: how much of the text the units and the
\* bytes stand for at each character (convert_to_utf16, convert_from_utf16,
\* utf16_literal_to_utf8).
THEOREM UnicodeInvariant == UnicodeSpec => []UnicodeInv
<1>1. UnicodeInit => UnicodeInv
  BY UnicodeStart
<1>2. UnicodeInv /\ [ConvertNext]_unicodeVars => UnicodeInv'
  <2>1. SUFFICES ASSUME UnicodeInv, [ConvertNext]_unicodeVars PROVE UnicodeInv'
    OBVIOUS
  <2>2. CASE convert_to_utf16
    BY <2>1, <2>2, ReadsCharacter
  <2>3. CASE convert_from_utf16
    BY <2>1, <2>3, WritesCharacter
  <2>4. CASE utf16_literal_to_utf8
    BY <2>1, <2>4, ReadsLiteral
  <2>5. CASE UNCHANGED unicodeVars
    <3>1. UnicodeTypes' /\ ReturnsWholeCharacters' /\ SpellsCodePoint'
      BY <2>1, <2>5 DEF unicodeVars, UnicodeInv, UnicodeTypes, ReturnsWholeCharacters, SpellsCodePoint, Fitting, Fits
    <3>2. (converting = "to" => utf8 = << >> /\ from = 0 /\ ReadTo)'
      BY <2>1, <2>5 DEF unicodeVars, UnicodeInv, ReadTo, Taken16, PlainTo, Malformed, Rest8, Given8
    <3>3. (converting = "from" => \E q \in 0..Len(text) : Whole16(q) /\ WrittenFrom(q))'
      BY <2>1, <2>5 DEF unicodeVars, UnicodeInv, Whole16, Taken16, PlainTo, Malformed, WrittenFrom
    <3>4. (converting = "literal" => text \in Seq(Digits) /\ Len(text) \in {4, 8} /\ from = 0 /\ utf8 = << >>)'
      BY <2>1, <2>5 DEF unicodeVars, UnicodeInv
    <3>5. QED BY <3>1, <3>2, <3>3, <3>4 DEF UnicodeInv
  <2>6. QED BY <2>1, <2>2, <2>3, <2>4, <2>5 DEF ConvertNext
<1>3. QED BY <1>1, <1>2, PTL DEF UnicodeSpec

\* The dialog gives back whole characters that were given to it, as many as fit;
\* no conversion writes past its buffer; an escape is read as the code point it
\* spells, and half a pair is refused.
THEOREM ConvertersKeepCharacters == UnicodeSpec => []KeepsWholeCharacters
<1>1. UnicodeInv => KeepsWholeCharacters
  <2>1. SUFFICES ASSUME UnicodeInv PROVE KeepsWholeCharacters
    OBVIOUS
  <2>2. ConvertsInPlace
    BY <2>1 DEF UnicodeInv, UnicodeTypes, ConvertsInPlace
  <2>3. QED BY <2>1, <2>2 DEF UnicodeInv, KeepsWholeCharacters
<1>2. QED BY <1>1, UnicodeInvariant, PTL
=============================================================================
