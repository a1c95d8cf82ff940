----------------------------- MODULE ScalarMult -----------------------------
(***************************************************************************)
(* The multiplications of points of src/ed25519-donna/                     *)
(* ed25519-donna-impl-base.c: ge25519_scalarmult_base_niels by the table   *)
(* of the base point, ge25519_scalarmult of any point, and                 *)
(* ge25519_double_scalarmult_vartime, which adds two products.             *)
(*                                                                         *)
(* They are given digits as Recoding makes them.  Tables of the code's     *)
(* constants hold what their comments say, the first one without the       *)
(* factor d at position 0.                                                 *)
(***************************************************************************)
EXTENDS EdPoints

CONSTANTS Others,           \* the other points, affine
          Exponent,         \* a multiple of every point's order
          Digits,           \* how many digits of four bits, 64 in the code
          WindowDigits,     \* some of -8..8
          SlidingLength,    \* how many sliding digits, 256 in the code
          Sliding1, Sliding2  \* some of the odd digits with an entry, and 0

ASSUME ScalarMultAssumption ==
  /\ Base \in Points /\ Others \subseteq Points /\ \A a \in Points : Times(Exponent, a) = Neutral
  /\ Digits > 3 /\ Digits % 2 = 0 /\ WindowDigits \subseteq -8..8
  /\ \A n \in (Sliding1 \cup Sliding2) \ {0} : n % 2 = 1
  /\ Sliding1 \subseteq -15..15 /\ Sliding2 \subseteq -63..63

VARIABLES alg,    \* "base", "window" or "both"
          p1,     \* the point that is multiplied, affine
          b, c,   \* its digits and, of "both", the base point's, from position 0
          pre,    \* the table of p1's multiples
          r, t,   \* the point and the last completed one
          i,      \* the loop's position
          phase   \* "odd" and "even" digits of "base"; "table", "skip", "loop"; "done"

multiplyingVars == <<alg, p1, b, c, pre, r, t, i, phase>>

Abs(n) == IF n < 0 THEN -n ELSE n
Multiples == [a \in Points |-> [n \in 0..(Exponent - 1) |-> Times(n, a)]]
Multiple(n, a) == Multiples[a][n % Exponent]

-----------------------------------------------------------------------------
(* The tables.                                                             *)

\* The entry's sign and size are chosen by the digit; 0 gives the neutral point.
ge25519_scalarmult_base_choose_niels(pos, digit) ==
  LET a     == Multiple(Abs(digit) * 256^pos, Base)
      entry == IF digit = 0 THEN [ysubx |-> 1, xaddy |-> 1, t2d |-> 0]
               ELSE IF pos = 0 THEN [Niels(a) EXCEPT !.t2d = Product(2, Product(a[1], a[2]))]
               ELSE Niels(a)
  IN ChosenSign(entry, digit < 0)

\* p1's multiples 0 to 8, from the third on each from the one before the last.
WindowEntry(p, d1, k) ==
  IF k = 0 THEN ge25519_full_to_pniels(ge25519_set_neutral)
  ELSE IF k = 1 THEN ge25519_full_to_pniels(p)
  ELSE IF k = 2 THEN ge25519_full_to_pniels(d1)
  ELSE ge25519_pnielsadd(d1, pre[k - 2])
\* Its odd multiples, S1_TABLE_SIZE of them, each from the one before.
SlidingEntry(p, dp, k) == IF k = 0 THEN ge25519_full_to_pniels(p) ELSE ge25519_pnielsadd(dp, pre[k - 1])

Unset == [x |-> 0, y |-> 0, z |-> 0, t |-> 0]
MultiplyingInit ==
  /\ t = Unset /\ pre = << >>
  /\ \/ /\ alg = "base" /\ p1 = Base /\ b \in [0..(Digits - 1) -> WindowDigits] /\ c = << >>
        /\ r = FromEntry(ge25519_scalarmult_base_choose_niels(0, b[1])) /\ i = 3 /\ phase = "odd"
     \/ /\ alg \in {"window", "both"} /\ p1 \in Others /\ b = << >> /\ c = << >>
        /\ r = ge25519_set_neutral /\ i = 0 /\ phase = "table"

\* The digits of any point are made first in the code; they are chosen after the
\* table here, which does not depend on them.
DigitsMade ==
  IF alg = "window" THEN b' \in [0..(Digits - 1) -> WindowDigits] /\ UNCHANGED c
  ELSE b' \in [0..(SlidingLength - 1) -> Sliding1] /\ c' \in [0..(SlidingLength - 1) -> Sliding2]

\* The point as bytes gave it, or not reduced to z = 1.
Given == Projective(p1, IF alg = "window" THEN 2 ELSE 1)
FillTable ==
  /\ phase = "table" /\ UNCHANGED <<alg, p1, r, t>>
  /\ IF i < (IF alg = "window" THEN 9 ELSE 8)
     THEN /\ pre' = [k \in 0..i |-> IF k < i THEN pre[k]
                                    ELSE IF alg = "window" THEN WindowEntry(Given, ge25519_double(Given), i)
                                    ELSE SlidingEntry(Given, ge25519_double(Given), i)]
          /\ i' = i + 1 /\ UNCHANGED <<b, c, phase>>
     ELSE /\ UNCHANGED pre /\ DigitsMade
          /\ i' = (IF alg = "window" THEN Digits ELSE SlidingLength) - 1
          /\ phase' = IF alg = "window" THEN "loop" ELSE "skip"

Go(point, completed, position, next) ==
  r' = point /\ t' = completed /\ i' = position /\ phase' = next /\ UNCHANGED <<alg, p1, b, c, pre>>

-----------------------------------------------------------------------------
(* The base point: odd digits, four doublings, even digits.                *)

AddDigit ==
  /\ phase \in {"odd", "even"} /\ i < Digits
  /\ Go(ge25519_nielsadd2(r, ge25519_scalarmult_base_choose_niels(i \div 2, b[i])), t, i + 2, phase)

Thrice(p) == LET d == ge25519_double_partial(p, p) IN
             LET e == ge25519_double_partial(d, d) IN ge25519_double_partial(e, e)

\* The entry of position 0 is made like the others now.
\* Mutant: it is taken as it is.
EntryAsIs(entry) == entry
TimesD(entry) == [entry EXCEPT !.t2d = Product(entry.t2d, D)]
DoubleAll ==
  /\ phase = "odd" /\ i >= Digits
  /\ Go(ge25519_nielsadd2(ge25519_double(Thrice(r)), TimesD(ge25519_scalarmult_base_choose_niels(0, b[0]))), t, 2, "even")

BaseDone == phase = "even" /\ i >= Digits /\ Go(r, t, i, "done")

-----------------------------------------------------------------------------
(* Any point: four doublings and an addition for a digit.                  *)

WindowStep ==
  /\ alg = "window" /\ phase = "loop" /\ i >= 0
  /\ LET full == ge25519_p1p1_to_full(ge25519_double_p1p1(Thrice(r)))
         sum  == ge25519_pnielsadd_p1p1(full, pre[Abs(b[i])], b[i] < 0)
     IN Go(ge25519_p1p1_to_partial(full, sum), sum, i - 1, "loop")

\* t is made at the end.
FullT(point, completed) == [point EXCEPT !.t = Product(completed.x, completed.y)]
LoopDone == phase = "loop" /\ i < 0 /\ Go(FullT(r, t), t, i, "done")

-----------------------------------------------------------------------------
(* Two products at once.                                                   *)

SkipZeros ==
  /\ phase = "skip"
  /\ IF i >= 0 /\ b[i] = 0 /\ c[i] = 0 THEN Go(r, t, i - 1, "skip") ELSE Go(r, t, i, "loop")

\* A digit that is not 0 makes the point full before it is added.
SlidingStep ==
  /\ alg = "both" /\ phase = "loop" /\ i >= 0
  /\ LET doubled == [r |-> r, t |-> ge25519_double_p1p1(r)]
         full1   == ge25519_p1p1_to_full(doubled.t)
         first   == IF b[i] = 0 THEN doubled
                    ELSE [r |-> full1, t |-> ge25519_pnielsadd_p1p1(full1, pre[Abs(b[i]) \div 2], b[i] < 0)]
         full2   == ge25519_p1p1_to_full(first.t)
         entry   == Niels(Multiple(2 * (Abs(c[i]) \div 2) + 1, Base))
         second  == IF c[i] = 0 THEN first
                    ELSE [r |-> full2, t |-> ge25519_nielsadd2_p1p1(full2, entry, c[i] < 0)]
     IN Go(ge25519_p1p1_to_partial(second.r, second.t), second.t, i - 1, "loop")

MultiplyingNext == FillTable \/ AddDigit \/ DoubleAll \/ BaseDone \/ WindowStep \/ LoopDone \/ SkipZeros \/ SlidingStep

-----------------------------------------------------------------------------
Weighted(d, radix, from, S) == FoldLeft(LAMBDA v, n : IF n - 1 \in S THEN v + d[n - 1] * radix^(n - 1 - from) ELSE v, 0, [n \in 1..Digits |-> n])
Positions(parity, below) == {n \in 0..(Digits - 1) : n % 2 = parity /\ n < below}
Above == {n \in 0..(Digits - 1) : n > i}

\* What the digits that were taken so far stand for.
Meant ==
  CASE phase = "table" -> Neutral
    [] alg = "base" /\ phase = "odd" -> Multiple(Weighted(b, 16, 1, Positions(1, i)), Base)
    [] alg = "base" /\ phase # "odd" -> Multiple(Weighted(b, 16, 0, Positions(1, Digits) \cup Positions(0, i)), Base)
    [] alg = "window" -> Multiple(Weighted(b, 16, i + 1, Above), p1)
    [] alg = "both" -> LET S == {n \in Above : n < SlidingLength} IN
         IF S = {} THEN Neutral ELSE Plus(Multiple(Weighted(b, 2, i + 1, S), p1), Multiple(Weighted(c, 2, i + 1, S), Base))

\* At every digit the point is the product of the digits taken so far, whatever
\* their signs and whichever points are equal, opposite or neutral on the way.
FollowsScalar == StandsFor(r, Meant)

\* The point that is returned has its t, though the loops leave it stale.
EndsFull == phase = "done" => IsFull(r)

\* The tables that are built from the point hold its multiples as points to be
\* added, from the first entry to the last.
TableHoldsMultiples ==
  phase = "table" => \A k \in DOMAIN pre :
    LET a == Multiple(IF alg = "both" THEN 2 * k + 1 ELSE k, p1)
    IN /\ pre[k].z # 0 /\ Product(2, Product(a[2], pre[k].z)) = Sum(pre[k].xaddy, pre[k].ysubx)
       /\ Product(2, Product(a[1], pre[k].z)) = Difference(pre[k].xaddy, pre[k].ysubx)
       /\ pre[k].t2d = Product(Niels(a).t2d, pre[k].z)
=============================================================================
