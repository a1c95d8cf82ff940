----------------------------- MODULE EdFormulas -----------------------------
(***************************************************************************)
(* The formulas of src/ed25519-donna/ed25519-donna-impl-base.c and the     *)
(* ladder of curve25519-donna-scalarmult-base.c, over any arithmetic of    *)
(* field elements: EdPoints reads them with the values of the elements,    *)
(* FieldBounds with the sizes of their limbs.                              *)
(*                                                                         *)
(* The code has three additions and three subtractions, which leave limbs  *)
(* of different sizes: which of them a formula takes is part of it.        *)
(***************************************************************************)
CONSTANTS Zero, One, Two,    \* elements that the code writes as one limb
          ecd, ec2d,         \* d and 2d
          Add(_, _), AddReduce(_, _), AddAfterBasic(_, _),
          Sub(_, _), SubReduce(_, _), SubAfterBasic(_, _),
          Neg(_), Mul(_, _), Square(_),
          ScalarProduct(_),            \* times 121665
          Recip(_), PowTwo252m3(_),    \* the powers P - 2 and (P - 5) / 8
          sqrtneg1

-----------------------------------------------------------------------------
(* Conversions.                                                            *)

ge25519_set_neutral == [x |-> Zero, y |-> One, z |-> One, t |-> Zero]

\* A completed point becomes a point; a partial one keeps t as it was in r.
ge25519_p1p1_to_full(p) == [x |-> Mul(p.x, p.t), y |-> Mul(p.y, p.z), z |-> Mul(p.z, p.t), t |-> Mul(p.x, p.y)]
ge25519_p1p1_to_partial(r, p) == [ge25519_p1p1_to_full(p) EXCEPT !.t = r.t]

ge25519_full_to_pniels(r) == [ysubx |-> Sub(r.y, r.x), xaddy |-> Add(r.y, r.x), z |-> r.z, t2d |-> Mul(r.t, ec2d)]

ge25519_neg_full(r) == [r EXCEPT !.x = Neg(r.x), !.t = Neg(r.t)]

-----------------------------------------------------------------------------
(* Additions and doublings.                                                *)

ge25519_double_p1p1(p) ==
  LET c == Square(p.z)
      y == Add(Square(p.y), Square(p.x))
      z == Sub(Square(p.y), Square(p.x))
  IN [x |-> SubAfterBasic(Square(Add(p.x, p.y)), y), y |-> y, z |-> z, t |-> SubAfterBasic(AddReduce(c, c), z)]

\* p and a point to be added: its ysubx and xaddy change places for a
\* negative sign, and so do z and t of the sum.  zz is twice the product of the z.
CompletedBy(p, ysubx, xaddy, t2d, zz, negative, turned) ==
  LET a == Mul(Sub(p.y, p.x), IF negative THEN xaddy ELSE ysubx)
      b == Mul(Add(p.y, p.x), IF negative THEN ysubx ELSE xaddy)
      c == Mul(p.t, t2d)
  IN [x |-> Sub(b, a), y |-> Add(b, a),
      z |-> IF turned THEN Sub(zz, c) ELSE Add(zz, c),
      t |-> IF turned THEN Add(zz, c) ELSE Sub(zz, c)]
\* Mutant: z and t of the sum stay in place.
HalfNegated(p, ysubx, xaddy, t2d, zz, negative) == CompletedBy(p, ysubx, xaddy, t2d, zz, negative, FALSE)
Completed(p, ysubx, xaddy, t2d, zz, negative) == CompletedBy(p, ysubx, xaddy, t2d, zz, negative, negative)

ge25519_nielsadd2_p1p1(p, q, negative) == Completed(p, q.ysubx, q.xaddy, q.t2d, AddReduce(p.z, p.z), negative)
ge25519_pnielsadd_p1p1(p, q, negative) ==
  LET zz == Mul(p.z, q.z) IN Completed(p, q.ysubx, q.xaddy, q.t2d, AddReduce(zz, zz), negative)

ge25519_double_partial(r, p) == ge25519_p1p1_to_partial(r, ge25519_double_p1p1(p))
ge25519_double(p) == ge25519_p1p1_to_full(ge25519_double_p1p1(p))

\* The same sums with z and t carried, for what multiplies them at once.
Carried(p, q, zz) ==
  LET a == Mul(Sub(p.y, p.x), q.ysubx)
      b == Mul(Add(p.y, p.x), q.xaddy)
      c == Mul(p.t, q.t2d)
  IN [x |-> Sub(b, a), y |-> Add(b, a), z |-> AddAfterBasic(zz, c), t |-> SubAfterBasic(zz, c)]
ge25519_nielsadd2(r, q) == ge25519_p1p1_to_full(Carried(r, q, Add(r.z, r.z)))
\* The sum as a point to be added.
ge25519_pnielsadd(p, q) ==
  LET zz  == Mul(p.z, q.z)
      sum == ge25519_p1p1_to_full(Carried(p, q, Add(zz, zz)))
  IN ge25519_full_to_pniels(sum)

ge25519_add(p, q, negative) == ge25519_p1p1_to_full(ge25519_pnielsadd_p1p1(p, ge25519_full_to_pniels(q), negative))
ge25519_mul8(r, p) ==
  LET twice == ge25519_double_partial(r, p)
  IN ge25519_double(ge25519_double_partial(twice, twice))

-----------------------------------------------------------------------------
(* Points from the table of the base point's multiples.                    *)

\* The entry with its sign.
ChosenSign(entry, negative) ==
  IF negative THEN [ysubx |-> entry.xaddy, xaddy |-> entry.ysubx, t2d |-> Neg(entry.t2d)] ELSE entry
\* The first entry as a point: its z is 2.
FromEntry(entry) ==
  [x |-> SubReduce(entry.xaddy, entry.ysubx), y |-> AddReduce(entry.xaddy, entry.ysubx), z |-> Two, t |-> entry.t2d]

-----------------------------------------------------------------------------
(* Packing and reading.                                                    *)

Affine(p) == << Mul(p.x, Recip(p.z)), Mul(p.y, Recip(p.z)) >>

\* x^2 is num/den; the candidate is its root, or the other root is, or none is.
Num(y) == SubReduce(Square(y), One)
Den(y) == Add(Mul(Square(y), ecd), One)
Candidate(num, den) ==
  LET d3 == Mul(Square(den), den)
  IN Mul(Mul(PowTwo252m3(Mul(Mul(Square(d3), den), num)), d3), num)
OtherRoot(x) == Mul(x, sqrtneg1)
\* Zero where x is a root, and where the other root is one.
RootTest(num, den, x) == SubReduce(Mul(Square(x), den), num)
OtherRootTest(num, den, x) == AddReduce(Mul(Square(x), den), num)
FromRoot(x, y) == [x |-> x, y |-> y, z |-> One, t |-> Mul(x, y)]

-----------------------------------------------------------------------------
(* Montgomery's ladder: the abscissa x/z of nQ, and of nQ + Q.             *)

\* qx and nqz are the sum and the difference of x and z.
LadderDouble(qx, nqz) ==
  LET xx == Square(qx)
      zz == Square(nqz)
      d  == Sub(xx, zz)
  IN [x |-> Mul(xx, zz), z |-> Mul(d, Add(ScalarProduct(d), xx))]

LadderStep(nq, nqpq, q) ==
  LET qx   == Add(nq.x, nq.z)
      nqz  == Sub(nq.x, nq.z)
      a    == Mul(Add(nqpq.x, nqpq.z), nqz)
      b    == Mul(qx, Sub(nqpq.x, nqpq.z))
  IN [nq   |-> LadderDouble(qx, nqz),
      nqpq |-> [x |-> Square(Add(a, b)), z |-> Mul(Square(Sub(a, b)), q)]]

\* The same from a point of the other curve: (y + z) / (z - y).
Abscissa(p) == Mul(Add(p.y, p.z), Recip(Sub(p.z, p.y)))
FinalDouble(nq) == LadderDouble(Add(nq.x, nq.z), Sub(nq.x, nq.z))
=============================================================================
