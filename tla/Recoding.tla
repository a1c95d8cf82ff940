------------------------------ MODULE Recoding ------------------------------
(***************************************************************************)
(* A scalar becomes signed digits: contract256_window4_modm and            *)
(* contract256_slidingwindow_modm of                                       *)
(* src/ed25519-donna/modm-donna-32bit.c.                                   *)
(*                                                                         *)
(* A scalar is Pairs pairs of limbs and a last one of TopQuads quads of    *)
(* bits; a limb is Quads quads and two bits.  In the code these are four   *)
(* pairs of 30 bits, seven quads and two bits each, and four quads.        *)
(***************************************************************************)
EXTENDS Integers, SequencesExt

CONSTANTS Quads, Pairs, TopQuads,
          WindowScalars,    \* scalars for the window of four bits
          SlidingScalars,   \* scalars for the sliding windows
          Windows           \* the sizes of these, 5 and 7 in the code

LimbBits == 4 * Quads + 2
Bits == 2 * Pairs * LimbBits + 4 * TopQuads
Digits == Bits \div 4

RecodingAssumption ==
  /\ \A n \in {Quads, Pairs, TopQuads} : n \in Nat \ {0}
  /\ WindowScalars \subseteq 0..(2^(Bits - 1) - 1) /\ SlidingScalars \subseteq 0..(2^(Bits - 3) - 1)
  /\ Windows \subseteq 2..7

VARIABLES s, window,    \* the scalar, and 4 or the size of a sliding window
          r,            \* digits, from position 0
          i,            \* position of the loop (j of the sliding window)
          b,            \* the inner loop's distance, 0 outside of it
          carry

vars == <<s, window, r, i, b, carry>>

-----------------------------------------------------------------------------
Limb(n) == (s \div 2^(LimbBits * n)) % 2^(IF n = 2 * Pairs THEN 4 * TopQuads ELSE LimbBits)
QuadsOf(v, n) == [k \in 1..n |-> (v \div 16^(k - 1)) % 16]

\* The bits that are left of the even limb come below the odd one.
Joined(even, odd) == even + 4 * odd
PairQuads(n) ==
  QuadsOf(Limb(2 * n), Quads) \o QuadsOf(Joined(Limb(2 * n) \div 16^Quads, Limb(2 * n + 1)), Quads + 1)
WindowQuads ==
  FoldLeft(LAMBDA q, n : q \o PairQuads(n - 1), << >>, [n \in 1..Pairs |-> n]) \o QuadsOf(Limb(2 * Pairs), TopQuads)

Binary == [n \in 0..(Bits - 1) |-> (s \div 2^n) % 2]

Init ==
  /\ window \in Windows \cup {4} /\ s \in (IF window = 4 THEN WindowScalars ELSE SlidingScalars)
  /\ r = IF window = 4 THEN [n \in 0..(Digits - 1) |-> WindowQuads[n + 1]] ELSE Binary
  /\ i = 0 /\ b = 0 /\ carry = 0

-----------------------------------------------------------------------------
(* The window of four bits: a digit above 7 becomes negative.              *)

MakeSigned ==
  /\ window = 4 /\ i < Digits - 1
  /\ LET v == r[i] + carry
         c == (v % 16) \div 8
     IN r' = [r EXCEPT ![i] = (v % 16) - 16 * c, ![i + 1] = @ + (v \div 16)] /\ carry' = c
  /\ i' = i + 1 /\ UNCHANGED <<s, window, b>>

LastCarry ==
  /\ window = 4 /\ i = Digits - 1
  /\ r' = [r EXCEPT ![i] = @ + carry] /\ carry' = 0 /\ i' = i + 1 /\ UNCHANGED <<s, window, b>>

-----------------------------------------------------------------------------
(* The sliding window: what a digit can hold is added to it or taken away. *)

Largest == 2^(window - 1) - 1
Shifted == r[i + b] * 2^b

SkipZero == window # 4 /\ b = 0 /\ i < Bits /\ r[i] = 0 /\ i' = i + 1 /\ UNCHANGED <<s, window, r, b, carry>>
Enter == window # 4 /\ b = 0 /\ i < Bits /\ r[i] # 0 /\ b' = 1 /\ UNCHANGED <<s, window, r, i, carry>>

Inside == window # 4 /\ b > 0 /\ b < Bits - i /\ b <= 6
Leave == i' = i + 1 /\ b' = 0

Absorb ==
  /\ Inside /\ r[i] + Shifted <= Largest
  /\ r' = [r EXCEPT ![i] = @ + Shifted, ![i + b] = 0] /\ b' = b + 1 /\ UNCHANGED <<s, window, i, carry>>

\* One is added from position k on: ones up to the first zero become zeros.
Incremented(d, k) ==
  LET zeros == {n \in k..(Bits - 1) : d[n] = 0}
      first == IF zeros = {} THEN Bits ELSE CHOOSE n \in zeros : \A o \in zeros : n <= o
  IN [n \in DOMAIN d |-> IF n < k \/ n > first THEN d[n] ELSE IF n = first THEN 1 ELSE 0]
\* Mutant: from the next one on.
CarryAbove(d, k) == Incremented(d, k + 1)
CarryFrom(d, k) == Incremented(d, k)

Borrow ==
  /\ Inside /\ r[i] + Shifted > Largest /\ r[i] - Shifted >= -Largest
  /\ r' = CarryFrom([r EXCEPT ![i] = @ - Shifted], i + b) /\ b' = b + 1 /\ UNCHANGED <<s, window, i, carry>>

\* Neither fits: the digit is complete.
Stop ==
  /\ Inside /\ r[i] + Shifted > Largest /\ r[i] - Shifted < -Largest /\ r[i + b] # 0
  /\ Leave /\ UNCHANGED <<s, window, r, carry>>

WindowEnd == window # 4 /\ b > 0 /\ ~ Inside /\ Leave /\ UNCHANGED <<s, window, r, carry>>

Next == MakeSigned \/ LastCarry \/ SkipZero \/ Enter \/ Absorb \/ Borrow \/ Stop \/ WindowEnd

Spec == Init /\ [][Next]_vars

-----------------------------------------------------------------------------
Base == IF window = 4 THEN 16 ELSE 2
Value == FoldLeft(LAMBDA v, n : v + r[n - 1] * Base^(n - 1), 0, [n \in 1..(IF window = 4 THEN Digits ELSE Bits) |-> n])

\* After every step of both loops the digits, and the carry under way, are the
\* scalar's: nothing is lost between the limbs or at the end of the digits.
DigitsAreScalar == Value + (IF window = 4 /\ i < Digits THEN carry * 16^i ELSE 0) = s

\* S1_TABLE_SIZE and S2_TABLE_SIZE: the entries are the odd multiples.
TableSize == 2^(window - 2)

\* A digit that is complete has an entry in its table: the window of four bits
\* gives -8 to 8, even for a scalar that only lacks the top bit, and a sliding
\* window odd digits with an entry among the odd multiples.
DigitsInTable ==
  IF window = 4 THEN i = Digits => \A n \in DOMAIN r : r[n] \in -8..8
  ELSE \A n \in DOMAIN r : n < i /\ r[n] # 0 => r[n] % 2 = 1 /\ \E e \in 0..(TableSize - 1) : r[n] \in {2 * e + 1, -(2 * e + 1)}
=============================================================================
