------------------------------- MODULE Ladder -------------------------------
(***************************************************************************)
(* Diffie-Hellman on the abscissae of points: curve25519_scalarmult and    *)
(* curve25519_scalarmult_basepoint of src/ed25519-donna/ed25519.c, and the *)
(* ladder of curve25519-donna-scalarmult-base.c.                           *)
(*                                                                         *)
(* An abscissa that no point of the curve has (one of the twist's) is left *)
(* out.  The base point's table is ScalarMult's; here it gives the product.*)
(***************************************************************************)
EXTENDS EdPoints

CONSTANT KeyBits    \* of a secret key, 256 in the code

ASSUME LadderAssumption == KeyBits \in 6..16 /\ Base \in Points

Keys == 0..(2^KeyBits - 1)
\* The three lowest bits and the highest are cleared, the one below it is set.
Clamped(e) == ((e % 2^(KeyBits - 2)) \div 8) * 8 + 2^(KeyBits - 2)

VARIABLES point,      \* the other side's point, affine, which has the abscissa q
          n,          \* the clamped secret
          nq, nqpq,   \* two multiples of the point, each as [x, z]
          lastbit,    \* whether they are exchanged
          rung,       \* the position in n; then the doublings that were done
          climbing,   \* "loop", "double" or "done"
          mypublic    \* the result

climbingVars == <<point, n, nq, nqpq, lastbit, rung, climbing, mypublic>>

Bit(k) == (n \div 2^k) % 2
\* The abscissa of a point is (1 + y) / (1 - y).
AbscissaOf(a) == Abscissa(Projective(a, 1))
q == AbscissaOf(point)

\* The ladder starts as if the bit below the highest, always set, was swapped in.
ClimbingInit ==
  /\ point \in Points \ {Neutral} /\ n \in {Clamped(e) : e \in Keys}
  /\ nq = [x |-> q, z |-> 1] /\ nqpq = [x |-> 1, z |-> 0]
  /\ lastbit = 1 /\ rung = KeyBits - 3 /\ climbing = "loop" /\ mypublic = 0

\* Mutant: the points change places for a set bit, whether or not they did before.
BitAlone(bit, last) == bit
Swaps(bit, last) == (bit + last) % 2

LoopStep ==
  /\ climbing = "loop" /\ rung >= 2
  /\ LET step == LadderStep(nq, nqpq, q)
         swap == Swaps(Bit(rung), lastbit) = 1
     IN /\ nq'   = IF swap THEN step.nqpq ELSE step.nq
        /\ nqpq' = IF swap THEN step.nq ELSE step.nqpq
  /\ lastbit' = Bit(rung) /\ rung' = rung - 1 /\ UNCHANGED <<point, n, climbing, mypublic>>

LoopEnd == climbing = "loop" /\ rung < 2 /\ climbing' = "double" /\ rung' = 0 /\ UNCHANGED <<point, n, nq, nqpq, lastbit, mypublic>>

DoubleStep ==
  /\ climbing = "double" /\ rung < 3
  /\ nq' = FinalDouble(nq) /\ rung' = rung + 1 /\ UNCHANGED <<point, n, nqpq, lastbit, climbing, mypublic>>

Finish ==
  /\ climbing = "double" /\ rung = 3
  /\ mypublic' = Product(nq.x, curve25519_recip[nq.z]) /\ climbing' = "done" /\ UNCHANGED <<point, n, nq, nqpq, lastbit, rung>>

ClimbingNext == LoopStep \/ LoopEnd \/ DoubleStep \/ Finish

\* The product with the base point, whose z is whatever its additions left.
curve25519_scalarmult_basepoint(e, z) == Abscissa(Projective(Times(Clamped(e), Base), z))

-----------------------------------------------------------------------------
HasAbscissa(p, a) == (p.x # 0 \/ p.z # 0) /\ Product(p.x, Difference(1, a[2])) = Product(p.z, Sum(1, a[2]))

\* Between the steps the two points are kQ and (k + 1)Q, k the bits of n above
\* the one swapped in last, though either may be the neutral point.
KeepsNeighbours ==
  (climbing = "loop" /\ q # 0) =>
    LET k    == n \div 2^(rung + 2)
        low  == IF lastbit = 1 THEN nqpq ELSE nq
        high == IF lastbit = 1 THEN nq ELSE nqpq
    IN HasAbscissa(low, Times(k, point)) /\ HasAbscissa(high, Times(k + 1, point))

\* Both sides of an exchange get the same: the ladder gives the abscissa of nQ,
\* 0 for the neutral point, and so does the table of the base point.
GivesProduct ==
  climbing = "done" =>
    /\ mypublic = AbscissaOf(Times(n, point))
    /\ point = Base => \A z \in 1..3 : mypublic = curve25519_scalarmult_basepoint(n, z)
=============================================================================
