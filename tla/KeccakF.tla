------------------------------ MODULE KeccakF ------------------------------
(***************************************************************************)
(* The permutation of SHA-3, sha3_permutation of                           *)
(* src/ed25519-donna/sha3.c, one action per step of a round.  A lane is    *)
(* the set of its one bits.  Beside the code's state runs the standard's,  *)
(* FIPS 202, written with coordinates and none of the code's tables.       *)
(***************************************************************************)
EXTENDS Integers, FiniteSets, SequencesExt

CONSTANT States   \* the states permuted: functions from 0..24 to sets of bits

Bits == 0..63
NumberOfRounds == 24

KeccakFAssumption == \A s \in States : \A i \in 0..24 : s[i] \subseteq Bits

VARIABLES state, round, step,
          standard    \* the state as the standard has it

vars == <<state, round, step, standard>>

Init == state \in States /\ round = 0 /\ step = "theta" /\ standard = state

-----------------------------------------------------------------------------
Xor(a, b) == (a \ b) \cup (b \ a)
XorOf(lanes) == FoldLeft(Xor, {}, lanes)
ROTL64(lane, n) == {(b + n) % 64 : b \in lane}

keccak_round_constants == <<
    {0}, {1, 7, 15}, {1, 3, 7, 15, 63}, {15, 31, 63}, {0, 1, 3, 7, 15}, {0,
    31}, {0, 7, 15, 31, 63}, {0, 3, 15, 63}, {1, 3, 7}, {3, 7}, {0, 3, 15,
    31}, {1, 3, 31}, {0, 1, 3, 7, 15, 31}, {0, 1, 3, 7, 63}, {0, 3, 7, 15,
    63}, {0, 1, 15, 63}, {1, 15, 63}, {7, 63}, {1, 3, 15}, {1, 3, 31, 63},
    {0, 7, 15, 31, 63}, {7, 15, 63}, {0, 31}, {3, 15, 31, 63} >>

RhoOffsets == <<0, 1, 62, 28, 27, 36, 44, 6, 55, 20, 3, 10, 43, 25, 39, 41, 45, 15, 21, 8, 18, 2, 61, 56, 14>>

\* keccak_pi moves A[PiChain[2]] to A[PiChain[1]] and so on.
PiChain == <<1, 6, 9, 22, 14, 20, 2, 12, 13, 19, 23, 15, 4, 24, 21, 8, 16, 5, 3, 18, 17, 11, 7, 10>>

keccak_theta(A) ==
  LET C == [x \in 0..4 |-> XorOf(<<A[x], A[x + 5], A[x + 10], A[x + 15], A[x + 20]>>)]
      D == [x \in 0..4 |-> Xor(ROTL64(C[(x + 1) % 5], 1), C[(x + 4) % 5])]
  IN [i \in 0..24 |-> Xor(A[i], D[i % 5])]

Rho(A) == [i \in 0..24 |-> ROTL64(A[i], RhoOffsets[i + 1])]

\* Lanes are moved in place: only the first of the chain is kept.
keccak_pi(A) ==
  FoldLeft(LAMBDA B, k : [B EXCEPT ![PiChain[k]] = IF k < 24 THEN B[PiChain[k + 1]] ELSE A[PiChain[1]]],
           A, [k \in 1..24 |-> k])

\* The lane d places after lane i of a row B that is changed in place; the two
\* lanes in front are kept as they were in A.
Ahead(A, B, i, d) == IF (i % 5) + d < 5 THEN B[i + d] ELSE A[i + d - 5]
keccak_chi(A) ==
  FoldLeft(LAMBDA B, k : [B EXCEPT ![k - 1] = Xor(@, Ahead(A, B, k - 1, 2) \ Ahead(A, B, k - 1, 1))],
           A, [k \in 1..25 |-> k])

Iota(A) == [A EXCEPT ![0] = Xor(@, keccak_round_constants[round + 1])]

-----------------------------------------------------------------------------
(* The standard: lane (x, y), bits z.                                      *)

Lane(A, x, y) == A[(x % 5) + 5 * (y % 5)]
\* A'[x, y, z] = bit(x, y, z)
Permuted(bit(_, _, _)) == [i \in 0..24 |-> {z \in Bits : bit(i % 5, i \div 5, z)}]
Odd(n) == n % 2 = 1
Parity(A, x, z) == Odd(Cardinality({y \in 0..4 : z % 64 \in Lane(A, x, y)}))

StandardTheta(A) ==
  Permuted(LAMBDA x, y, z : (z \in Lane(A, x, y)) # (Parity(A, x + 4, z) # Parity(A, x + 1, z + 63)))

\* The lanes on the walk from (1, 0) by (x, y) -> (y, 2x + 3y).
Walk[t \in 0..23] == IF t = 0 THEN <<1, 0>> ELSE LET w == Walk[t - 1] IN <<w[2], (2 * w[1] + 3 * w[2]) % 5>>
Turns == [i \in 0..24 |-> IF i = 0 THEN 0
                          ELSE LET t == CHOOSE t \in 0..23 : Walk[t] = <<i % 5, i \div 5>>
                               IN (((t + 1) * (t + 2)) \div 2) % 64]
StandardRho(A) == Permuted(LAMBDA x, y, z : (z + 64 - Turns[x + 5 * y]) % 64 \in Lane(A, x, y))
StandardPi(A) == Permuted(LAMBDA x, y, z : z \in Lane(A, x + 3 * y, x))
StandardChi(A) ==
  Permuted(LAMBDA x, y, z : (z \in Lane(A, x, y)) # (z \notin Lane(A, x + 1, y) /\ z \in Lane(A, x + 2, y)))

\* The register of eight bits that gives rc(t).
Register[t \in 0..167] ==
  IF t = 0 THEN <<1, 0, 0, 0, 0, 0, 0, 0>>
  ELSE LET R == <<0>> \o Register[t - 1]
       IN [i \in 1..8 |-> IF i \in {1, 5, 6, 7} THEN (R[i] + R[9]) % 2 ELSE R[i]]
StandardIota(A) ==
  [A EXCEPT ![0] = Xor(@, {2^j - 1 : j \in {j \in 0..6 : Register[j + 7 * round][1] = 1}})]

-----------------------------------------------------------------------------
Step(from, to, code, other) ==
  step = from /\ round < NumberOfRounds /\ step' = to /\ state' = code /\ standard' = other

Theta == Step("theta", "rho", keccak_theta(state), StandardTheta(standard)) /\ UNCHANGED round
RhoStep == Step("rho", "pi", Rho(state), StandardRho(standard)) /\ UNCHANGED round
Pi == Step("pi", "chi", keccak_pi(state), StandardPi(standard)) /\ UNCHANGED round
Chi == Step("chi", "iota", keccak_chi(state), StandardChi(standard)) /\ UNCHANGED round
IotaStep == Step("iota", "theta", Iota(state), StandardIota(standard)) /\ round' = round + 1

Next == Theta \/ RhoStep \/ Pi \/ Chi \/ IotaStep

Spec == Init /\ [][Next]_vars

-----------------------------------------------------------------------------
\* After every step of every round the state is the standard's: the tables of
\* turns, moves and constants are right, and no lane is overwritten before its
\* last use.
FollowsStandard == state = standard
=============================================================================
