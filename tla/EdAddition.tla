----------------------------- MODULE EdAddition -----------------------------
(***************************************************************************)
(* A point that is read from bytes, and any sequence of the operations of  *)
(* src/ed25519-donna/ed25519-donna-impl-base.c on it.                      *)
(***************************************************************************)
EXTENDS EdPoints

CONSTANTS Added,    \* the points that are added, affine
          Scales    \* the z of the points that are added

VARIABLES acc,    \* the point, or None for bytes that were refused
          law,    \* the point it should stand for, affine
          full,   \* its t is of the point, not of an earlier one
          given   \* the bytes that were just read, or None

additionVars == <<acc, law, full, given>>

Packed == [y : 0..(2^FieldBits - 1), parity : 0..1]

AdditionInit ==
  /\ given \in Packed /\ acc = ge25519_unpack_negative_vartime(given) /\ full = TRUE
  /\ law = IF acc = None THEN Neutral ELSE <<acc.x, acc.y>>

-----------------------------------------------------------------------------
Step(point, meant, isFull) == acc # None /\ acc' = point /\ law' = meant /\ full' = isFull /\ given' = None

DoublePartial == Step(ge25519_double_partial(acc, acc), Doubled(law), FALSE)
Double == Step(ge25519_double(acc), Doubled(law), TRUE)

Finished(sum, partial) == IF partial THEN ge25519_p1p1_to_partial(acc, sum) ELSE ge25519_p1p1_to_full(sum)
Signed(a, negative) == IF negative THEN Minus(a) ELSE a

\* An addition uses acc's t: callers come here with a full point only.
AddNiels(a, negative, partial) ==
  full /\ Step(Finished(ge25519_nielsadd2_p1p1(acc, Niels(a), negative), partial),
               Plus(law, Signed(a, negative)), ~ partial)
AddProjective(a, z, negative, partial) ==
  full /\ Step(Finished(ge25519_pnielsadd_p1p1(acc, ge25519_full_to_pniels(Projective(a, z)), negative), partial),
               Plus(law, Signed(a, negative)), ~ partial)

\* acc + a as a point to be added, and added to acc.
AddSum(a, z) ==
  LET sum == ge25519_pnielsadd(acc, ge25519_full_to_pniels(Projective(a, z)))
  IN full /\ Step(ge25519_p1p1_to_full(ge25519_pnielsadd_p1p1(acc, sum, FALSE)), Plus(law, Plus(law, a)), TRUE)

\* acc is packed and read again, which turns its sign.
Repack == acc # None /\ Step(ge25519_unpack_negative_vartime(ge25519_pack(acc)), Minus(law), TRUE)

AdditionNext ==
  \/ DoublePartial \/ Double \/ Repack
  \/ \E a \in Added, negative, partial \in BOOLEAN :
       AddNiels(a, negative, partial) \/ \E z \in Scales : AddProjective(a, z, negative, partial)
  \/ \E a \in Added, z \in Scales : AddSum(a, z)

-----------------------------------------------------------------------------
\* Whatever was added, doubled, packed and read: the point is the one that the
\* addition law gives, never without a z, and its t is right unless it is partial.
FollowsTheLaw == acc # None => law \in Points /\ StandsFor(acc, law) /\ (full => IsFull(acc))

\* Bytes are refused exactly where no point of the curve has their y; else the
\* point read has this y, reduced or not, and the sign that they do not name.
ReadsBytes ==
  given # None =>
    IF acc = None THEN \A a \in Points : a[2] # given.y % P
    ELSE law \in Points /\ acc.y = given.y % P /\ (acc.x = 0 \/ acc.x % 2 # given.parity)
=============================================================================
