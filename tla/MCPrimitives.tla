---------------------------- MODULE MCPrimitives ----------------------------
(***************************************************************************)
(* The hashes and the arithmetic below the curve, with words of a few bits *)
(* where the code's are too many.  As in MCCodecs, each behaviour is one   *)
(* of the part that "on" names, and the variables of the others are NULL.  *)
(***************************************************************************)
EXTENDS ShaStream, Sha3Stream

CONSTANT Every  \* every so many of the long scalars is expanded

VARIABLES on,
          algorithm, block, state, j, ring, loop, unrolled, out, schedule,
          lanes, round, step, standard,
          p, q, entry, niels, ladder,
          s, window, digits, position, distance, carry,
          r, v, raw,
          x, value,
          chain, at, squarings, reg

-----------------------------------------------------------------------------
\* Rounds on words of eight bits: blocks of patterns, and of a single bit.
Word8 == 256
RoundConstant(a, i) ==
  IF a = "sha1" THEN (i \div 20 + 1) * 75 % Word8 ELSE (i * i * 29 + i * 57 + 7) % Word8
RoundBlocks ==
  { [i \in 0..15 |-> (i * f + n) % Word8] : f \in {0, 37, 101}, n \in {0, 1, 90} }
    \cup { [i \in 0..15 |-> IF i = k THEN 1 ELSE 0] : k \in 0..15 }
Rounds == INSTANCE ShaRounds WITH
  Width <- 8, K <- RoundConstant, Blocks <- RoundBlocks,
  States <- {[i \in 0..7 |-> (i * 83 + 19) % Word8]}, W <- ring

\* States with a different pattern in each lane.
Keccak == INSTANCE KeccakF WITH
  States <- { [i \in 0..24 |-> {}], [i \in 0..24 |-> 0..63],
              [i \in 0..24 |-> {b \in 0..63 : (b * (i + 3) + i * i) % 7 < 3}],
              [i \in 0..24 |-> {b \in 0..63 : b % 25 = i}] },
  state <- lanes

-----------------------------------------------------------------------------
Bounds == INSTANCE FieldBounds

\* Limbs of six bits and scalars of sixteen.
Digits == INSTANCE Recoding WITH
  Quads <- 1, Pairs <- 1, TopQuads <- 1, Windows <- {5, 7},
  WindowScalars <- 0..(2^11 - 1) \cup (2^15 - 2^11)..(2^15 - 1),
  SlidingScalars <- 0..(2^10 - 1) \cup (2^13 - 256)..(2^13 - 1),
  r <- digits, i <- position, b <- distance

\* Three limbs of four bits and scalars of ten, the order a prime.
Scalars == INSTANCE Modm WITH
  W <- 4, N <- 3, G <- 1, m <- 521,
  Inputs <- {k \in 0..(2^20 - 1) : k % Every = 0 \/ k < 1000 \/ k > 2^20 - 1000},
  Operands <- {0, 1, 2, 15, 16, 17, 255, 256, 260, 271, 511, 512, 519, 520}

\* Modulo 2^13 - 3, which no operation asks to be prime: one, the last element,
\* the largest bytes, and limbs that differ.
Field == INSTANCE FieldLimbs WITH
  Wide <- 7, Count <- 2, C <- 3, WordBits <- 13, SubCarried <- 1, Scalar <- 5,
  Operands <- {1, 8188, 8191, 6305}, v <- value

Powers == INSTANCE FieldPowers WITH left <- squarings

ASSUME MCPrimitivesAssumption ==
  /\ Rounds!ShaRoundsAssumption
  /\ Keccak!KeccakFAssumption /\ Digits!RecodingAssumption /\ Scalars!ModmAssumption /\ Field!FieldLimbsAssumption

-----------------------------------------------------------------------------
roundsVars == <<algorithm, block, state, j, ring, loop, unrolled, out, schedule>>
keccakVars == <<lanes, round, step, standard>>
boundsVars == <<p, q, entry, niels, ladder>>
digitsVars == <<s, window, digits, position, distance, carry>>
scalarsVars == <<r, v, raw>>
fieldVars == <<x, value>>
powersVars == <<chain, at, squarings, reg>>

StreamOff == wide = NULL /\ little = NULL /\ hashed = NULL /\ buffer = NULL /\ bitcount = NULL /\ fed = NULL
               /\ left = NULL /\ pc = NULL /\ digest = NULL
SpongeOff == hash = NULL /\ message = NULL /\ rest = NULL /\ block_size = NULL /\ rate = NULL /\ given = NULL
               /\ msg = NULL /\ size = NULL /\ idx = NULL /\ phase = NULL /\ squeezed = None
RoundsOff == algorithm = NULL /\ block = NULL /\ state = NULL /\ j = NULL /\ ring = NULL /\ loop = NULL
               /\ unrolled = NULL /\ out = NULL /\ schedule = NULL
KeccakOff == lanes = NULL /\ round = NULL /\ step = NULL /\ standard = NULL
BoundsOff == p = NULL /\ q = NULL /\ entry = NULL /\ niels = NULL /\ ladder = NULL
DigitsOff == s = NULL /\ window = NULL /\ digits = NULL /\ position = NULL /\ distance = NULL /\ carry = NULL
ScalarsOff == r = NULL /\ v = NULL /\ raw = NULL
FieldOff == x = NULL /\ value = NULL
PowersOff == chain = NULL /\ at = NULL /\ squarings = NULL /\ reg = NULL

Init ==
  /\ on \in {"stream", "sponge", "rounds", "keccak", "bounds", "digits", "scalars", "field", "powers"}
  /\ IF on = "stream"  THEN StreamInit   ELSE StreamOff
  /\ IF on = "sponge"  THEN SpongeInit   ELSE SpongeOff
  /\ IF on = "rounds"  THEN Rounds!Init  ELSE RoundsOff
  /\ IF on = "keccak"  THEN Keccak!Init  ELSE KeccakOff
  /\ IF on = "bounds"  THEN Bounds!Init  ELSE BoundsOff
  /\ IF on = "digits"  THEN Digits!Init  ELSE DigitsOff
  /\ IF on = "scalars" THEN Scalars!Init ELSE ScalarsOff
  /\ IF on = "field"   THEN Field!Init   ELSE FieldOff
  /\ IF on = "powers"  THEN Powers!Init  ELSE PowersOff

Next ==
  /\ UNCHANGED on
  /\ IF on = "stream"  THEN StreamNext   ELSE UNCHANGED streamVars
  /\ IF on = "sponge"  THEN SpongeNext   ELSE UNCHANGED spongeVars
  /\ IF on = "rounds"  THEN Rounds!Next  ELSE UNCHANGED roundsVars
  /\ IF on = "keccak"  THEN Keccak!Next  ELSE UNCHANGED keccakVars
  /\ IF on = "bounds"  THEN Bounds!Next  ELSE UNCHANGED boundsVars
  /\ IF on = "digits"  THEN Digits!Next  ELSE UNCHANGED digitsVars
  /\ IF on = "scalars" THEN Scalars!Next ELSE UNCHANGED scalarsVars
  /\ IF on = "field"   THEN Field!Next   ELSE UNCHANGED fieldVars
  /\ IF on = "powers"  THEN Powers!Next  ELSE UNCHANGED powersVars

Spec == Init /\ [][Next]_<<on, streamVars, spongeVars, roundsVars, keccakVars,
                             boundsVars, digitsVars, scalarsVars, fieldVars, powersVars>>

-----------------------------------------------------------------------------
\* The ring of sixteen words holds FIPS 180's schedule, and the unrolled macros
\* compute what the loops do.
RoundsFollowStandard ==
  /\ on = "rounds" => Rounds!RingHoldsSchedule /\ Rounds!MacrosFollowLoops
  /\ on = "keccak" => Keccak!FollowsStandard

\* The digits of a recoded scalar stand for it and are in the tables.
DigitsStandForScalar == on = "digits" => Digits!DigitsAreScalar /\ Digits!DigitsInTable

\* Scalars are the least residues of the integers that the operations give.
ScalarsAreResidues ==
  on = "scalars" => Scalars!LeastResidue /\ Scalars!FollowsIntegers /\ Scalars!ComparesValues

\* Elements in limbs follow the field, are packed as least residues, and the
\* chains of squarings give the powers that they are named for; no limb, sum of
\* products or carry of the real sizes is cut, whichever operations on points
\* follow each other.
LimbsFollowField ==
  /\ on = "field" => Field!FollowsField /\ Field!PacksLeast
  /\ on = "powers" => Powers!ChainsGivePowers
  /\ on = "bounds" => Bounds!NothingWraps
=============================================================================
