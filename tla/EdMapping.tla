----------------------------- MODULE EdMapping -----------------------------
(***************************************************************************)
(* Any 32 bytes become a point: ge25519_fromfe_frombytes_vartime of        *)
(* src/ed25519-donna/ed25519-donna-impl-base.c, with what its comment      *)
(* expects next (ge25519_mul8), and ge25519_norm, ge25519_check and        *)
(* ge25519_eq on the points that come of it.                               *)
(***************************************************************************)
EXTENDS EdPoints

CONSTANT Stale    \* values that t may have in a point that was not given one

\* A of Montgomery's form, fe_ma and fe_ma2, and the square roots fe_fffb1 to 4.
A == 4 * A24 + 2
fe_ma == -A % P
fe_ma2 == -A * A % P
RootOf(a) == CHOOSE b \in Field : Squared(b) = a % P
fe_fffb1 == RootOf(-2 * A * (A + 2))
fe_fffb2 == RootOf(2 * A * (A + 2))
fe_fffb3 == RootOf(-Sqrtneg1 * A * (A + 2))
fe_fffb4 == RootOf(Sqrtneg1 * A * (A + 2))

ASSUME EdMappingAssumption ==
  /\ \E b \in Field : Squared(b) = (2 * A * (A + 2)) % P
  /\ Stale \subseteq Field

VARIABLES u,          \* the bytes as an element
          image,      \* the point
          affine,     \* the point that image stands for, affine
          mapping     \* "bytes", "mapped", "eight" or "normed"

mappingVars == <<u, image, affine, mapping>>

-----------------------------------------------------------------------------
\* (v / w)^(m + 1) with m = (P - 5) / 8, see FieldPowers.
curve25519_divpowm1(v, w) ==
  LET m == (P - 5) \div 8 IN Product(Power(v, m + 1), Power(w, 7 * m + 3))

\* The one of the four roots that is a root here, and whether the sign is odd.
\* Mutant: as if w / x had a root at once.
FirstRoot(w, x, root) == [x |-> Product(root, fe_fffb2), odd |-> FALSE]
Chosen(w, x, root) ==
  LET y == Product(Squared(root), x) IN
  IF Difference(w, y) = 0 THEN [x |-> Product(root, fe_fffb2), odd |-> FALSE]
  ELSE IF Sum(w, y) = 0 THEN [x |-> Product(root, fe_fffb1), odd |-> FALSE]
  ELSE IF Difference(w, Product(y, Sqrtneg1)) = 0 THEN [x |-> Product(root, fe_fffb4), odd |-> TRUE]
  ELSE [x |-> Product(root, fe_fffb3), odd |-> TRUE]

\* The code's two assertions: the fourth root is one if no other is, and an x of
\* the wrong sign is not 0.
AssertsHold(w, x, root, c, signed) ==
  /\ c.odd /\ Difference(w, Product(Product(Squared(root), x), Sqrtneg1)) # 0
       => Sum(w, Product(Product(Squared(root), x), Sqrtneg1)) = 0
  /\ signed % 2 # (IF c.odd THEN 1 ELSE 0) => signed # 0

Mapped(stale) ==
  LET v == Product(2, Squared(u))
      w == Sum(v, 1)
      x == Sum(Squared(w), Product(fe_ma2, v))
      root == curve25519_divpowm1(w, x)
      c == Chosen(w, x, root)
      signed == IF c.odd THEN c.x ELSE Product(c.x, u)
      z == IF c.odd THEN fe_ma ELSE Product(fe_ma, v)
      turned == IF signed % 2 = (IF c.odd THEN 1 ELSE 0) THEN signed ELSE Neg(signed)
      zz == Sum(z, w)
  IN [point |-> [x |-> Product(turned, zz), y |-> Difference(z, w), z |-> zz, t |-> stale],
      asserts |-> AssertsHold(w, x, root, c, signed)]

MappingInit ==
  /\ \E bytes \in 0..(2^(FieldBits + 1) - 1) : u = bytes % P
  /\ image = ge25519_set_neutral /\ affine = Neutral /\ mapping = "bytes"

AffineOf(p) == << Product(p.x, curve25519_recip[p.z]), Product(p.y, curve25519_recip[p.z]) >>

ge25519_fromfe_frombytes_vartime ==
  /\ mapping = "bytes"
  /\ \E stale \in Stale : image' = Mapped(stale).point
  /\ affine' = AffineOf(image') /\ mapping' = "mapped" /\ UNCHANGED u

MultiplyByEight ==
  /\ mapping = "mapped" /\ image' = ge25519_mul8(image, image)
  /\ affine' = Doubled(Doubled(Doubled(affine))) /\ mapping' = "eight" /\ UNCHANGED u

ge25519_norm ==
  /\ mapping = "eight"
  /\ LET a == Affine(image) IN image' = FromRoot(a[1], a[2])
  /\ mapping' = "normed" /\ UNCHANGED <<u, affine>>

MappingNext == ge25519_fromfe_frombytes_vartime \/ MultiplyByEight \/ ge25519_norm

-----------------------------------------------------------------------------
ge25519_check(p) ==
  /\ p.z # 0 /\ Product(p.x, p.y) = Product(p.z, p.t)
  /\ (Squared(p.y) - Squared(p.x) - Squared(p.z) - Product(D, Squared(p.t))) % P = 0

ge25519_eq(a, b) ==
  /\ ge25519_check(a) /\ ge25519_check(b)
  /\ Product(a.x, b.z) = Product(b.x, a.z) /\ Product(a.y, b.z) = Product(b.y, a.z)

-----------------------------------------------------------------------------
\* Every element gives a point of the curve, with a z, and no assertion of the
\* code fails; what t was before does not reach eight times the point.
MapsToCurve ==
  /\ mapping = "bytes" => Mapped(0).asserts
  /\ mapping # "bytes" => affine \in Points /\ StandsFor(image, affine)
  /\ mapping \in {"eight", "normed"} => IsFull(image)

\* Points are equal exactly if they are the same point, whatever their z, and one
\* whose t is of another point is none.
ComparesPoints ==
  mapping \in {"eight", "normed"} =>
    /\ \A a \in Points, z \in 1..2 : ge25519_eq(image, Projective(a, z)) <=> affine = a
    /\ \A t \in Field : ge25519_check([image EXCEPT !.t = t]) <=> t = image.t
=============================================================================
