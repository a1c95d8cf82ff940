------------------------------ MODULE ShaRounds ------------------------------
(***************************************************************************)
(* The transforms of SHA-1, SHA-256 and SHA-512                            *)
(* (src/ed25519-donna/sha2.c), one step per round.  Each is written twice, *)
(* as loops that move the working variables along and, for builds with     *)
(* SHA2_UNROLL_TRANSFORM, as macros that are given them in other orders.   *)
(* Both run here side by side.  Words are Width bits wide.                 *)
(***************************************************************************)
EXTENDS Integers, SequencesExt, Bitwise

CONSTANTS Width,     \* bits of a word
          K(_, _),   \* the constant of an algorithm's round
          Blocks,    \* the blocks transformed: functions from 0..15 to words
          States     \* the states transformed: functions from 0..7 to words

ShaRoundsAssumption == Width \in Nat \ {0}

VARIABLES algorithm, block, state,
          j,          \* rounds done
          W,          \* the ring of message words
          loop,       \* a, b, ... of the loops
          unrolled,   \* a, b, ... of the macros
          out,        \* state_out by both ways
          schedule    \* the words of FIPS 180 for the rounds done, not the code's

vars == <<algorithm, block, state, j, W, loop, unrolled, out, schedule>>

Mod == 2^Width
Sha1 == algorithm = "sha1"
Count == IF Sha1 THEN 5 ELSE 8
Rounds == IF algorithm = "sha256" THEN 64 ELSE 80

Init ==
  /\ algorithm \in {"sha1", "sha256", "sha512"} /\ block \in Blocks /\ state \in States
  /\ j = 0 /\ W = [i \in 0..15 |-> 0] /\ loop = state /\ unrolled = state /\ out = << >> /\ schedule = << >>

-----------------------------------------------------------------------------
(* The logical functions.                                                  *)

Complement(x) == Mod - 1 - x
ROTR(n, x) == LET m == 2^(n % Width) IN x \div m + (x % m) * (Mod \div m)
ROTL(n, x) == ROTR(Width - (n % Width), x)
SHR(n, x) == x \div 2^(n % Width)

XorOf(words) == FoldLeft(LAMBDA x, y : x ^^ y, 0, words)
Ch(x, y, z) == (x & y) ^^ (Complement(x) & z)
Maj(x, y, z) == XorOf(<<x & y, x & z, y & z>>)
Parity(x, y, z) == XorOf(<<x, y, z>>)

ByAlgorithm(of256, of512) == IF algorithm = "sha256" THEN of256 ELSE of512
Rotated3(n, x) == XorOf(<<ROTR(n[1], x), ROTR(n[2], x), ROTR(n[3], x)>>)
Sigma0(x) == Rotated3(ByAlgorithm(<<2, 13, 22>>, <<28, 34, 39>>), x)
Sigma1(x) == Rotated3(ByAlgorithm(<<6, 11, 25>>, <<14, 18, 41>>), x)
Shifted3(n, x) == XorOf(<<ROTR(n[1], x), ROTR(n[2], x), SHR(n[3], x)>>)
sigma0(x) == Shifted3(ByAlgorithm(<<7, 18, 3>>, <<1, 8, 7>>), x)
sigma1(x) == Shifted3(ByAlgorithm(<<17, 19, 10>>, <<19, 61, 6>>), x)

Mixed(b, c, d) == CASE j < 20 -> Ch(b, c, d) [] j \in 40..59 -> Maj(b, c, d) [] OTHER -> Parity(b, c, d)

-----------------------------------------------------------------------------
(* Rounds.                                                                 *)

At(d) == W[(j + d) % 16]

\* Mutant: the ring is read one word too far.
WordFarther ==
  IF j < 16 THEN block[j] ELSE IF Sha1 THEN ROTL(1, XorOf(<<At(13), At(8), At(3), At(0)>>))
  ELSE (At(0) + sigma1(At(14)) + At(10) + sigma0(At(1))) % Mod
\* The round's message word: the block's, then one made from the ring.
Word ==
  IF j < 16 THEN block[j] ELSE IF Sha1 THEN ROTL(1, XorOf(<<At(13), At(8), At(2), At(0)>>))
  ELSE (At(0) + sigma1(At(14)) + At(9) + sigma0(At(1))) % Mod

\* The loops: every variable takes the value of the one before it.
LoopRound(v, w) ==
  IF Sha1
    THEN [i \in 0..4 |-> CASE i = 0 -> (ROTL(5, v[0]) + Mixed(v[1], v[2], v[3]) + v[4] + K(algorithm, j) + w) % Mod
                           [] i = 2 -> ROTL(30, v[1])
                           [] OTHER -> v[i - 1]]
    ELSE LET T1 == v[7] + Sigma1(v[4]) + Ch(v[4], v[5], v[6]) + K(algorithm, j) + w
             T2 == Sigma0(v[0]) + Maj(v[0], v[1], v[2])
         IN [i \in 0..7 |-> CASE i = 0 -> (T1 + T2) % Mod
                              [] i = 4 -> (v[3] + T1) % Mod
                              [] OTHER -> v[i - 1]]

\* The variable given for an argument of round j: (a,b,c,..), (h,a,b,..), ...
Argument(r) == (r - j) % Count

\* The macros: two of their arguments are changed in place.
MacroRound(v, w) ==
  LET of(r) == v[Argument(r)]
  IN IF Sha1
       THEN [v EXCEPT ![Argument(4)] =
                         (ROTL(5, of(0)) + Mixed(of(1), of(2), of(3)) + of(4) + K(algorithm, j) + w) % Mod,
                      ![Argument(1)] = ROTL(30, of(1))]
       ELSE LET T1 == of(7) + Sigma1(of(4)) + Ch(of(4), of(5), of(6)) + K(algorithm, j) + w
            IN [v EXCEPT ![Argument(3)] = (of(3) + T1) % Mod,
                         ![Argument(7)] = (T1 + Sigma0(of(0)) + Maj(of(0), of(1), of(2))) % Mod]

\* The next word by the formulas of FIPS 180, from all the words before.
Scheduled ==
  LET w(back) == schedule[j + 1 - back]
  IN IF j < 16 THEN block[j] ELSE IF Sha1 THEN ROTL(1, XorOf(<<w(3), w(8), w(14), w(16)>>))
     ELSE (sigma1(w(2)) + w(7) + sigma0(w(15)) + w(16)) % Mod

Round ==
  /\ j < Rounds
  /\ j' = j + 1 /\ W' = [W EXCEPT ![j % 16] = Word]
  /\ loop' = LoopRound(loop, Word) /\ unrolled' = MacroRound(unrolled, Word)
  /\ schedule' = Append(schedule, Scheduled)
  /\ UNCHANGED <<algorithm, block, state, out>>

Finish ==
  /\ j = Rounds /\ out = << >>
  /\ out' = << [i \in 0..(Count - 1) |-> (state[i] + loop[i]) % Mod],
               [i \in 0..(Count - 1) |-> (state[i] + unrolled[i]) % Mod] >>
  /\ UNCHANGED <<algorithm, block, state, j, W, loop, unrolled, schedule>>

Next == Round \/ Finish

Spec == Init /\ [][Next]_vars

-----------------------------------------------------------------------------
\* A ring of sixteen words holds the last sixteen of the schedule at every
\* round: none is overwritten before its last use.
RingHoldsSchedule == \A t \in 0..79 : t < j /\ t >= j - 16 => W[t % 16] = schedule[t + 1]

\* The macros keep in some variable what the loops keep in each, at every round,
\* and at the end in the same one, so the build's choice changes no digest.
MacrosFollowLoops ==
  /\ \A r \in 0..(Count - 1) : loop[r] = unrolled[(r - j) % Count]
  /\ out # << >> => out[1] = out[2]
=============================================================================
