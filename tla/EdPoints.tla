------------------------------ MODULE EdPoints ------------------------------
(***************************************************************************)
(* Points of the curve -x^2 + y^2 = 1 + D x^2 y^2: the formulas of         *)
(* EdFormulas, packing and reading of src/ed25519-donna/                   *)
(* ed25519-donna-impl-base.c, over the integers modulo a prime P that is 5 *)
(* modulo 8, as 2^255 - 19 is.                                             *)
(*                                                                         *)
(* A point [x, y, z, t] stands for (x/z, y/z), and is full where t is      *)
(* xy/z.  The limbs of a field element are left out.                       *)
(***************************************************************************)
EXTENDS Integers, SequencesExt

CONSTANTS P, D,        \* the prime, and d of the curve, not a square
          Base,        \* the base point, affine
          Sqrtneg1,    \* the square root of -1
          A24,         \* of the same curve in Montgomery's form, 121665 in the code
          FieldBits    \* bits of a packed element, 255 in the code

ASSUME EdPointsAssumption ==
  /\ P % 8 = 5 /\ P < 2^FieldBits /\ 2^(FieldBits - 1) < P
  /\ (Sqrtneg1 * Sqrtneg1) % P = P - 1
  /\ \A a \in 0..(P - 1) : (a * a) % P # D % P
  /\ (D * (A24 + 1) + A24) % P = 0

Field == 0..(P - 1)

-----------------------------------------------------------------------------
(* The field.                                                              *)

Sum(a, b) == (a + b) % P
Difference(a, b) == (a - b) % P
Product(a, b) == (a * b) % P
Neg(a) == (P - a) % P
Squared(a) == Product(a, a)
TimesA24(a) == Product(a, A24)
\* The values of the chains of squares and products: a^(P - 2), which is the
\* inverse of a and 0 for 0, and a^((P - 5) / 8).
Power(a, n) == FoldLeft(LAMBDA b, i : Product(a, b), 1, [i \in 1..n |-> i])
curve25519_recip == [a \in Field |-> IF a = 0 THEN 0 ELSE CHOOSE b \in Field : Product(a, b) = 1]
curve25519_pow_two252m3 == [a \in Field |-> Power(a, (P - 5) \div 8)]

Inverted(a) == curve25519_recip[a]
RootPower(a) == curve25519_pow_two252m3[a]

\* The code's formulas, with the values of the elements.
INSTANCE EdFormulas WITH
  Zero <- 0, One <- 1, Two <- 2, ecd <- D, ec2d <- (2 * D) % P,
  Add <- Sum, AddReduce <- Sum, AddAfterBasic <- Sum,
  Sub <- Difference, SubReduce <- Difference, SubAfterBasic <- Difference,
  Neg <- Neg, Mul <- Product, Square <- Squared, ScalarProduct <- TimesA24,
  Recip <- Inverted, PowTwo252m3 <- RootPower, sqrtneg1 <- Sqrtneg1

-----------------------------------------------------------------------------
(* Packing: y and the lowest bit of x.                                     *)

ge25519_pack(p) == [y |-> Affine(p)[2], parity |-> Affine(p)[1] % 2]

None == << >>

Root(num, den, x) == IF RootTest(num, den, x) = 0 THEN x ELSE OtherRoot(x)

\* A y that is not reduced is taken as well; the sign asked for is turned.
ge25519_unpack_negative_vartime(packed) ==
  LET y   == packed.y % P
      num == Num(y)
      den == Den(y)
      x   == Candidate(num, den)
      root == Root(num, den, x)
  IN IF 0 \notin {RootTest(num, den, x), OtherRootTest(num, den, x)} THEN None
     ELSE FromRoot(IF root % 2 = packed.parity THEN Neg(root) ELSE root, y)

-----------------------------------------------------------------------------
(* The group, for reference: affine points and the addition law.           *)

OnCurve(a) == (a[2] * a[2] - a[1] * a[1] - 1 - ((D * a[1] * a[1]) % P) * a[2] * a[2]) % P = 0
Points == {a \in Field \X Field : OnCurve(a)}
\* As functions, whose arguments TLC evaluates once.
Sums ==
  [ab \in Points \X Points |->
     LET a == ab[1]
         b == ab[2]
         k == Product(Product(D, a[1] * b[1]), a[2] * b[2])
     IN << Product(Sum(a[1] * b[2], b[1] * a[2]), curve25519_recip[Sum(1, k)]),
           Product(Sum(a[2] * b[2], a[1] * b[1]), curve25519_recip[Difference(1, k)]) >>]
Plus(a, b) == Sums[<<a, b>>]
Doubles == [a \in Points |-> Plus(a, a)]
Doubled(a) == Doubles[a]
Minus(a) == << Neg(a[1]), a[2] >>
Neutral == <<0, 1>>
\* n times a point, by the bits of n.
Times(n, a) ==
  FoldLeft(LAMBDA b, i : IF (n \div 2^(16 - i)) % 2 = 1 THEN Plus(Doubled(b), a) ELSE Doubled(b), Neutral, [i \in 1..16 |-> i])

\* A point as the code keeps it, the z at will, and the point that it stands for.
Projective(a, z) == [x |-> Product(a[1], z), y |-> Product(a[2], z), z |-> z, t |-> Product(Product(a[1], a[2]), z)]
Niels(a) == [ysubx |-> Difference(a[2], a[1]), xaddy |-> Sum(a[2], a[1]), t2d |-> Product(2 * D, Product(a[1], a[2]))]
StandsFor(p, a) == p.z # 0 /\ p.x = Product(a[1], p.z) /\ p.y = Product(a[2], p.z)
IsFull(p) == Product(p.t, p.z) = Product(p.x, p.y)
=============================================================================
