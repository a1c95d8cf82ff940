----------------------------- MODULE FieldLimbs -----------------------------
(***************************************************************************)
(* Field elements in limbs: what the operations of                         *)
(* src/ed25519-donna/curve25519-donna-32bit.c compute.                     *)
(*                                                                         *)
(* Limbs have Wide bits and one less in turn, 26 and 25 in the code, ten   *)
(* of them; p is 2^255 - 19 there.  Here all are smaller, so that every    *)
(* element can be tried; C is small for the carries to stay small beside a *)
(* limb, as the code's are.  That the code's limbs stay in their words is  *)
(* FieldBounds; here a word has WordBits so that a limb below zero shows.  *)
(***************************************************************************)
EXTENDS Integers, SequencesExt

CONSTANTS Wide, Count,   \* bits of the even limbs, number of limbs
          C,             \* p is a power of two less C
          WordBits,
          SubCarried,    \* how many limbs curve25519_sub carries, 4 in the code
          Scalar,        \* 121665 in the code
          Operands       \* bytes of the other element of an operation

Limbs == 0..(Count - 1)
Width(i) == IF i % 2 = 0 THEN Wide ELSE Wide - 1
Position(i) == (i \div 2) * (2 * Wide - 1) + (IF i % 2 = 0 THEN 0 ELSE Wide)
Bits == Position(Count)
P == 2^Bits - C

FieldLimbsAssumption ==
  /\ Count % 2 = 0 /\ SubCarried \in 1..(Count - 1) /\ C % 2 = 1 /\ 4 * C < 2^Wide
  /\ Operands \subseteq 0..(2^Bits - 1)

Word(n) == n % 2^WordBits
Mask(i, n) == n % 2^Width(i)
Value(a) == FoldLeft(LAMBDA v, i : v + a[i] * 2^Position(i), 0, [i \in 1..Count |-> i - 1])
Made(s) == [i \in Limbs |-> s[i + 1]]

\* The top bit of the last byte is ignored; expand_reduce counts it as C.
curve25519_expand(in) == [i \in Limbs |-> Mask(i, in \div 2^Position(i))]
curve25519_expand_reduce(in) == [curve25519_expand(in) EXCEPT ![0] = @ + C * (in \div 2^Bits)]

\* Limbs that are handed in; the first n of them are masked and hand on a carry.
Carried(limbs, n) ==
  LET acc == FoldLeft(LAMBDA s, i :
                        LET sum == Word(limbs[i] + s.c)
                        IN IF i < n THEN [c |-> sum \div 2^Width(i), out |-> Append(s.out, Mask(i, sum))]
                           ELSE [c |-> 0, out |-> Append(s.out, sum)],
                      [c |-> 0, out |-> << >>], [i \in 1..Count |-> i - 1])
  IN [Made(acc.out) EXCEPT ![0] = @ + C * acc.c]

\* n times p, limb by limb.
\* Mutant: of the power of two less one.
MultipleOfPower(n) == [i \in Limbs |-> n * (2^Width(i) - 1)]
Multiple(n) == [i \in Limbs |-> n * (2^Width(i) - (IF i = 0 THEN C ELSE 1))]

curve25519_add(a, b) == [i \in Limbs |-> Word(a[i] + b[i])]
curve25519_add_reduce(a, b) == Carried(curve25519_add(a, b), Count)
Less(n, a, b) == [i \in Limbs |-> Word(Multiple(n)[i] + a[i] - b[i])]
curve25519_sub(a, b) == Carried(Less(2, a, b), SubCarried)
curve25519_sub_reduce(a, b) == Carried(Less(4, a, b), Count)
curve25519_neg(a) == Carried(Less(2, [i \in Limbs |-> 0], a), Count)
curve25519_reduce(a) == Carried(a, Count)

\* The columns of a product, what is above 2^Bits C times, twice where two odd
\* limbs meet; the last carry goes through the first limb to the second.
Factor(i, j) == (IF i % 2 = 1 /\ j % 2 = 1 THEN 2 ELSE 1) * (IF i + j >= Count THEN C ELSE 1)
Column(a, b, k) ==
  FoldLeft(LAMBDA s, i : s + Factor(i, (k - i) % Count) * a[i] * b[(k - i) % Count], 0, [i \in 1..Count |-> i - 1])
CarriedColumns(m) ==
  LET acc == FoldLeft(LAMBDA s, i : [c |-> (m[i] + s.c) \div 2^Width(i), out |-> Append(s.out, Mask(i, m[i] + s.c))],
                      [c |-> 0, out |-> << >>], [i \in 1..Count |-> i - 1])
      first == acc.out[1] + C * acc.c
  IN [Made(acc.out) EXCEPT ![0] = Mask(0, first), ![1] = @ + first \div 2^Wide]
curve25519_mul(a, b) == CarriedColumns([k \in Limbs |-> Column(a, b, k)])
curve25519_square(a) == curve25519_mul(a, a)
curve25519_scalar_product(a) ==
  LET acc == FoldLeft(LAMBDA s, i : [c |-> (a[i] * Scalar + s.c) \div 2^Width(i), out |-> Append(s.out, Mask(i, a[i] * Scalar + s.c))],
                      [c |-> 0, out |-> << >>], [i \in 1..Count |-> i - 1])
  IN [Made(acc.out) EXCEPT ![0] = @ + C * acc.c]

\* To bytes: two carries around, then p is taken away if the element has it:
\* C is added and the power of two dropped, which then is 2^Bits - C added on.
PrimeTaken(f) ==
  LET more == Carried([f EXCEPT ![0] = @ + C], Count)
      less == [i \in Limbs |-> more[i] + 2^Width(i) - (IF i = 0 THEN C ELSE 1)]
      last == Carried(less, Count - 1)
  IN [last EXCEPT ![Count - 1] = Mask(Count - 1, @)]
curve25519_contract(a) == Value(PrimeTaken(Carried(Carried(a, Count), Count)))
curve25519_isnegative(a) == curve25519_contract(a) % 2
curve25519_isnonzero(a) == IF curve25519_contract(a) = 0 THEN 0 ELSE 1

-----------------------------------------------------------------------------
VARIABLES x,    \* an element
          v     \* for reference, its value modulo p

vars == <<x, v>>

\* Bytes of a point or of a Montgomery key.
Init == \E in \in Operands : x = curve25519_expand(in) /\ v = in % P

Others == {curve25519_expand(in) : in \in Operands}
Of(y) == Value(y)
Becomes(limbs, value) == x' = limbs /\ v' = value % P

Add == \E y \in Others : Becomes(curve25519_add_reduce(x, y), v + Of(y))
Subtract == \E y \in Others : Becomes(curve25519_sub_reduce(x, y), v - Of(y))
Negate == Becomes(curve25519_neg(x), -v)
Multiply == \E y \in Others : Becomes(curve25519_mul(x, y), v * (Of(y) % P))
\* As a formula of the points does: a sum and a difference that are not carried.
MultiplySums ==
  \E y \in Others : Becomes(curve25519_mul(curve25519_add(x, y), curve25519_sub(y, x)), ((v + Of(y)) % P) * ((Of(y) - v) % P))
SquareSum == \E y \in Others : Becomes(curve25519_square(curve25519_add(x, y)), ((v + Of(y)) % P) * ((v + Of(y)) % P))
TimesScalar == \E y \in Others : Becomes(curve25519_scalar_product(curve25519_sub(x, y)), ((v - Of(y)) % P) * Scalar)
Reduce == Becomes(curve25519_reduce(x), v)
ReadAgain == \E top \in 0..1 : Becomes(curve25519_expand_reduce(curve25519_contract(x) + top * 2^Bits), v + top * C)

Next == Add \/ Subtract \/ Negate \/ Multiply \/ MultiplySums \/ SquareSum \/ TimesScalar \/ Reduce \/ ReadAgain

Spec == Init /\ [][Next]_vars

-----------------------------------------------------------------------------
\* Every operation gives the field's result, however its arguments were carried.
FollowsField == Value(x) % P = v

\* An element has one encoding: the bytes are those of the least number, and the
\* tests for zero and of the sign follow it, for sums not carried as well.
PacksLeast ==
  /\ curve25519_contract(x) = Value(x) % P
  /\ curve25519_isnegative(x) = v % 2 /\ curve25519_isnonzero(x) = (IF v = 0 THEN 0 ELSE 1)
  /\ \A y \in Others : curve25519_contract(curve25519_sub(x, y)) = (v - Value(y)) % P
=============================================================================
