-------------------------------- MODULE Modm --------------------------------
(***************************************************************************)
(* Scalars modulo the order m of the base point, in limbs:                 *)
(* src/ed25519-donna/modm-donna-32bit.c without the recodings.             *)
(*                                                                         *)
(* In the code a limb has 30 bits of a word of 32, there are 9 of them, a  *)
(* scalar has 32 bytes of 8 bits, so the last limb has 2 bytes.  Here the  *)
(* sizes are constants.  The accumulators of 64 bits hold 9 products of 60 *)
(* bits and a carry, so they are left out: a column of products is a sum.  *)
(***************************************************************************)
EXTENDS Integers, SequencesExt

CONSTANTS W, N, G,      \* bits of a limb, limbs, bits of a byte
          m,            \* the order
          Inputs,       \* numbers that are expanded, of twice a scalar's bytes
          Operands      \* the other scalars of an operation

TopBits == 2 * G
Bits == W * (N - 1) + TopBits
mu == 2^(2 * Bits) \div m

ModmAssumption ==
  /\ N > 2 /\ G >= 1 /\ 3 * G <= W /\ m \in 2^(Bits - G)..(2^Bits - 1)
  /\ Inputs \subseteq 0..(2^(2 * Bits) - 1) /\ Operands \subseteq 0..(m - 1)

Word(a) == a % 2^(W + 2)
LimbsOf(v) == [k \in 1..N |-> IF k = N THEN v \div 2^(W * (N - 1)) ELSE (v \div 2^(W * (k - 1))) % 2^W]
Value(x) == FoldLeft(LAMBDA v, k : v + x[k] * 2^(W * (k - 1)), 0, [k \in 1..N |-> k])

modm_m == LimbsOf(m)
modm_mu == LimbsOf(mu)

-----------------------------------------------------------------------------
(* Differences and reductions.                                             *)

lt_modm(a, b) == Word(a - b) \div 2^(W + 1)

\* x - y limb by limb, the last one of top bits, and the borrow that is left.
Difference(x, y, top) ==
  FoldLeft(LAMBDA acc, k :
             LET pb == acc.b + y[k]
                 b  == lt_modm(x[k], pb)
             IN [b |-> b, limbs |-> Append(acc.limbs, Word(x[k] - pb + b * 2^(IF k = N THEN top ELSE W)))],
           [b |-> 0, limbs |-> << >>], [k \in 1..N |-> k])

reduce256_modm(r) ==
  LET t == Difference(r, modm_m, TopBits) IN IF t.b = 1 THEN r ELSE t.limbs

\* Mutant: one multiple of m is taken away.
ReducedOnce(r) == reduce256_modm(r)
Reduced(r) == reduce256_modm(reduce256_modm(r))

-----------------------------------------------------------------------------
(* Products.                                                               *)

Column(x, y, k) == FoldLeft(LAMBDA c, i : IF k - i \in 0..(N - 1) THEN c + x[i + 1] * y[k - i + 1] ELSE c, 0, [i \in 1..N |-> i - 1])
\* The columns from the first on, as a number.
Columns(x, y, first, last) ==
  FoldLeft(LAMBDA v, k : v + Column(x, y, first + k - 1) * 2^(W * (k - 1)), 0, [k \in 1..(last - first + 1) |-> k])

\* mu * q1 without the lower columns, of which only the carry of the last counts.
Upper(q1) == Column(modm_mu, q1, N - 2) \div 2^W + Columns(modm_mu, q1, N - 1, 2 * N - 2)

\* q1 and r1 are x without its lowest 31 bytes, and its lowest 33.
barrett_reduce256_modm(q1, r1) ==
  LET q3 == LimbsOf(Upper(q1) \div 2^(3 * G))
      r2 == LimbsOf(Columns(modm_m, q3, 0, N - 1) % 2^(Bits + G))
  IN Reduced(Difference(r1, r2, 3 * G).limbs)

BarrettOf(x) == barrett_reduce256_modm(LimbsOf(x \div 2^(Bits - G)), LimbsOf(x % 2^(Bits + G)))

mul256_modm(x, y) == BarrettOf(Columns(x, y, 0, 2 * N - 2))

-----------------------------------------------------------------------------
(* Sums.                                                                   *)

\* Limbs that are carried on, the last one keeps what it has.
CarriedOn(limbs) ==
  FoldLeft(LAMBDA acc, k :
             LET c == Word(acc.c + limbs[k])
             IN [c |-> c \div 2^W, limbs |-> Append(acc.limbs, IF k = N THEN c ELSE c % 2^W)],
           [c |-> 0, limbs |-> << >>], [k \in 1..N |-> k]).limbs

add256_modm(x, y) == reduce256_modm(CarriedOn([k \in 1..N |-> x[k] + y[k]]))
neg256_modm(x) == reduce256_modm(Difference(modm_m, x, TopBits).limbs)

\* m, with limbs that no limb of a scalar exceeds.
twoP == [k \in 1..N |-> IF k = 1 THEN modm_m[k] + 2^W ELSE IF k < N THEN modm_m[k] + 2^W - 1 ELSE modm_m[k] - 1]
sub256_modm(x, y) == reduce256_modm(CarriedOn([k \in 1..N |-> twoP[k] + x[k] - y[k]]))

muladd256_modm(a, b, c) == add256_modm(c, mul256_modm(a, b))
mulsub256_modm(a, b, c) == sub256_modm(c, mul256_modm(a, b))

-----------------------------------------------------------------------------
(* Bytes: len of them are in.                                              *)

expand256_modm(in, len) == IF len * G < Bits THEN LimbsOf(in % 2^(Bits + G)) ELSE BarrettOf(in)
expand_raw256_modm(in) == LimbsOf(in)
contract256_modm(r) == Value(r) % 2^Bits

\* Numbers of two limbs and a bit (in the code two limbs and four, 64 in all),
\* and whether a scalar is one.
SmallBits == 2 * W + 1
set256_modm(v) == [k \in 1..N |-> IF k > 3 THEN 0 ELSE (v \div 2^(W * (k - 1))) % 2^W]
get256_modm(r) ==
  [v |-> r[1] + r[2] * 2^W + (r[3] % 2^(SmallBits - 2 * W)) * 2^(2 * W),
   ok |-> r[3] \div 2^(SmallBits - 2 * W) = 0 /\ \A k \in 4..N : r[k] = 0]

-----------------------------------------------------------------------------
(* Comparisons.                                                            *)

\* Limbs below and above those of m, the last limb in the highest bit.
is_reduced256_modm(in) ==
  LET weigh(Test(_)) == FoldLeft(LAMBDA v, k : v + (IF Test(k) THEN 2^(k - 1) ELSE 0), 0, [k \in 1..N |-> k])
  IN weigh(LAMBDA k : in[k] < modm_m[k]) > weigh(LAMBDA k : in[k] > modm_m[k])

eq256_modm(x, y) == \A k \in 1..N : x[k] = y[k]
iszero256_modm(x) == \A k \in 1..N : x[k] = 0
check256_modm(x) == ~iszero256_modm(x) /\ eq256_modm(barrett_reduce256_modm([k \in 1..N |-> 0], x), x)

\* By halves of words from the highest on: the first that differs decides.
Half(x, len) == (x[len \div 2 + 1] \div 2^((len % 2) * ((W + 2) \div 2))) % 2^((W + 2) \div 2)
Halves == [k \in 1..(2 * N) |-> 2 * N - k]
cmp256_modm(x, y) ==
  LET acc == FoldLeft(LAMBDA c, len :
                        LET a == c.a \/ (Half(x, len) > Half(y, len) /\ ~c.b)
                        IN [a |-> a, b |-> c.b \/ (Half(y, len) > Half(x, len) /\ ~a)],
                      [a |-> FALSE, b |-> FALSE], Halves)
  IN IF acc.a THEN 1 ELSE IF acc.b THEN -1 ELSE 0

-----------------------------------------------------------------------------
VARIABLES r,      \* a scalar
          v,      \* for reference, the number it stands for
          raw     \* whether r was read and not reduced

vars == <<r, v, raw>>

Full == Bits \div G
Init ==
  \/ \E in \in Inputs : r = expand256_modm(in, 2 * Full) /\ v = in % m /\ raw = FALSE
  \/ \E in \in 0..(2^Bits - 1) : r = expand256_modm(in, Full) /\ v = in % m /\ raw = FALSE
  \/ \E in \in 0..(2^(Bits - G) - 1) : r = expand256_modm(in, Full - 1) /\ v = in /\ raw = FALSE
  \/ \E in \in 0..(2^Bits - 1) : r = expand_raw256_modm(in) /\ v = in /\ raw = TRUE

Becomes(limbs, value) == ~raw /\ r' = limbs /\ v' = value % m /\ UNCHANGED raw

AddTo == \E y \in Operands : Becomes(add256_modm(r, LimbsOf(y)), v + y)
Subtract == \E y \in Operands : Becomes(sub256_modm(r, LimbsOf(y)), v - y)
SubtractFrom == \E y \in Operands : Becomes(sub256_modm(LimbsOf(y), r), y - v)
Negate == Becomes(neg256_modm(r), -v)
MultiplyBy == \E y \in Operands : Becomes(mul256_modm(r, LimbsOf(y)), v * y)
MultiplyAdd == \E y \in Operands : Becomes(muladd256_modm(r, LimbsOf(y), r), v * y + v)
MultiplySubtract == \E y \in Operands : Becomes(mulsub256_modm(r, LimbsOf(y), r), v - v * y)
Repack == ~raw /\ r' = expand256_modm(contract256_modm(r), Full) /\ UNCHANGED <<v, raw>>

Next == AddTo \/ Subtract \/ SubtractFrom \/ Negate \/ MultiplyBy \/ MultiplyAdd \/ MultiplySubtract \/ Repack

Spec == Init /\ [][Next]_vars

-----------------------------------------------------------------------------
\* However a scalar was made, it is the least number of its class, in limbs
\* without excess: the signature's S and the digits of a product need that.
LeastResidue == ~raw => Value(r) < m /\ r = LimbsOf(Value(r))

\* Sums, differences and products are those of the numbers modulo m.
FollowsIntegers == Value(r) % m = v % m

\* A scalar that was read from bytes is accepted exactly when it is below m,
\* and comparisons of limbs and half words are those of the numbers.
ComparesValues ==
  /\ is_reduced256_modm(r) <=> Value(r) < m
  /\ check256_modm(r) <=> Value(r) \in 1..(m - 1)
  /\ get256_modm(r) = [v |-> v % 2^SmallBits, ok |-> v < 2^SmallBits]
  /\ v < 2^SmallBits => set256_modm(v) = r
  /\ \A y \in Operands :
       cmp256_modm(r, LimbsOf(y)) = (IF v > y THEN 1 ELSE IF v < y THEN -1 ELSE 0)
=============================================================================
