----------------------------- MODULE FieldBounds -----------------------------
(***************************************************************************)
(* The sizes of limbs in src/ed25519-donna/curve25519-donna-32bit.c.       *)
(*                                                                         *)
(* A field element is ten limbs of 26 and 25 bits in turn, kept in 32 bits *)
(* each; most operations do not carry all of them.  An element is here the *)
(* bounds of its limbs, in units of 2^20 and rounded up, and Wrapped once  *)
(* a limb may leave its 32 bits (below zero, too) or a sum of products its *)
(* 64: from then on every result is.  The formulas are EdFormulas.         *)
(***************************************************************************)
EXTENDS Integers

VARIABLES p, q,     \* a point, and one that was doubled
          entry,    \* a point to be added, projective
          niels,    \* a point of the table with its sign
          ladder    \* [q, nq, nqpq] of the ladder, or None for the operations on points

vars == <<p, q, entry, niels, ladder>>

-----------------------------------------------------------------------------
Limbs == 0..9
Word == 2^12                \* 32 bits
DoubleWord == 2^24          \* 64 bits, of products
Wrapped == [i \in Limbs |-> Word]
Fits(a) == \A i \in Limbs : a[i] < Word

\* reduce_mask_26 and reduce_mask_25; the limbs of p are like them but for
\* less than a unit.
Mask(i) == IF i % 2 = 0 THEN 64 ELSE 32
Zero == [i \in Limbs |-> 0]
One == [Zero EXCEPT ![0] = 1]
Expanded == [i \in Limbs |-> Mask(i)]

\* The element, if all that it was made of fits.
Checked(args, ok, a) == IF (\A b \in args : Fits(b)) /\ ok /\ Fits(a) THEN a ELSE Wrapped

\* Limbs 0 to n are masked, and each hands the next one a carry of less than a
\* unit; 19 carries of the last one go to the first.
CarriedTo(n, sum) ==
  [i \in Limbs |-> IF i = 0 /\ n = 9 THEN Mask(0) + 1
                   ELSE IF i <= n THEN Mask(i)
                   ELSE IF i = n + 1 THEN sum[i] + 1 ELSE sum[i]]
CarryFits(sum) == \A i \in Limbs : sum[i] + 1 < Word

SumOf(a, b) == [i \in Limbs |-> a[i] + b[i]]
\* b is taken from n times p and a: no limb may go below zero.
LargeEnough(n, b) == \A i \in Limbs : b[i] < n * Mask(i)
Offset(n, a) == [i \in Limbs |-> n * Mask(i) + a[i]]

BAdd(a, b) == Checked({a, b}, TRUE, SumOf(a, b))
BAddReduce(a, b) == Checked({a, b}, CarryFits(SumOf(a, b)), CarriedTo(9, SumOf(a, b)))
\* Only the first limbs are carried.
BSub(a, b) == Checked({a, b}, CarryFits(Offset(2, a)) /\ LargeEnough(2, b), CarriedTo(3, Offset(2, a)))
SubBy(n, a, b) == Checked({a, b}, CarryFits(Offset(n, a)) /\ LargeEnough(n, b), CarriedTo(9, Offset(n, a)))
BSubReduce(a, b) == SubBy(4, a, b)
BNeg(a) == SubBy(2, Zero, a)

-----------------------------------------------------------------------------
(* Products: 19 times what is above 2^255, twice where two odd limbs meet. *)

Factor(i, j) == (IF i % 2 = 1 /\ j % 2 = 1 THEN 2 ELSE 1) * (IF i + j > 9 THEN 19 ELSE 1)
Column(a, b, k) ==
  LET term(i) == Factor(i, (k - i) % 10) * a[i] * b[(k - i) % 10]
  IN term(0) + term(1) + term(2) + term(3) + term(4) + term(5) + term(6) + term(7) + term(8) + term(9)
\* Each sum takes a carry of less than a unit; what the last one hands on is cut
\* to 32 bits.
SumsFit(a, b) == \A k \in Limbs : Column(a, b, k) + 1 < (IF k = 9 THEN 2^17 ELSE DoubleWord)
Multiplied == [Expanded EXCEPT ![1] = @ + 1]

\* The limbs of b are taken 19 and 38 times in 32 bits.
BMul(a, b) ==
  LET times(i) == IF i = 0 THEN 1 ELSE IF i % 2 = 1 THEN 38 ELSE 19
  IN Checked({a, b}, (\A i \in Limbs : times(i) * b[i] < Word) /\ SumsFit(a, b), Multiplied)
BSquare(a) ==
  LET times(i) == IF i < 5 THEN 4 ELSE IF i % 2 = 1 THEN 38 ELSE 19
  IN Checked({a}, (\A i \in Limbs : times(i) * a[i] < Word) /\ SumsFit(a, a), Multiplied)
\* 19 * 121665 * a[9] / 2^25 is less than a[9] / 14.
BScalarProduct(a) == Checked({a}, TRUE, [Expanded EXCEPT ![0] = @ + a[9] \div 14 + 1])
\* The chains of squares and products begin and go on with these.
BRecip(z) == BMul(BSquare(BSquare(z)), z)

F == INSTANCE EdFormulas WITH
  Zero <- Zero, One <- One, Two <- One, ecd <- Expanded, ec2d <- Expanded, sqrtneg1 <- Expanded,
  Add <- BAdd, AddReduce <- BAddReduce, AddAfterBasic <- BAddReduce,
  Sub <- BSub, SubReduce <- BSubReduce, SubAfterBasic <- BSubReduce,
  Neg <- BNeg, Mul <- BMul, Square <- BSquare, ScalarProduct <- BScalarProduct,
  Recip <- BRecip, PowTwo252m3 <- BRecip

\* Contracting an element carries all its limbs in place.
Contracted(a) == Checked({a}, CarryFits(a), Expanded)

-----------------------------------------------------------------------------
TableEntry == [ysubx |-> Expanded, xaddy |-> Expanded, t2d |-> Expanded]
None == << >>
LadderStart == [q |-> Expanded, nq |-> [x |-> Expanded, z |-> One], nqpq |-> [x |-> One, z |-> Zero]]

Init ==
  /\ p = F!ge25519_set_neutral /\ q = p /\ entry = F!ge25519_full_to_pniels(p)
  /\ niels = TableEntry /\ ladder \in {None, LadderStart}

OnPoints == ladder = None
SetP(point) == OnPoints /\ p' = point /\ UNCHANGED <<q, entry, niels, ladder>>

\* Bytes that are read as a point; the tests are contracted.
Read ==
  LET num == F!Num(Expanded)
      den == F!Den(Expanded)
      x   == F!Candidate(num, den)
      tests == {Contracted(F!RootTest(num, den, x)), Contracted(F!OtherRootTest(num, den, x))}
  IN \E root \in {x, F!OtherRoot(x)} : \E signed \in {root, BNeg(root)} :
       SetP(F!FromRoot(Checked(tests, TRUE, signed), Expanded))

DoublePartial == SetP(F!ge25519_double_partial(p, p))
Double == SetP(F!ge25519_double(p)) \/ (OnPoints /\ q' = F!ge25519_double(p) /\ UNCHANGED <<p, entry, niels, ladder>>)
SetNeutral == SetP(F!ge25519_set_neutral)
\* x alone, or with t.
Negate == SetP([p EXCEPT !.x = BNeg(p.x)]) \/ SetP(F!ge25519_neg_full(p))

SetEntry(e) == OnPoints /\ entry' = e /\ UNCHANGED <<p, q, niels, ladder>>
MakeEntry == SetEntry(F!ge25519_full_to_pniels(p))
AddToEntry == \E point \in {p, q} : SetEntry(F!ge25519_pnielsadd(point, entry))

Finished(sum) == SetP(F!ge25519_p1p1_to_full(sum)) \/ SetP(F!ge25519_p1p1_to_partial(p, sum))
AddEntry == \E negative \in BOOLEAN : Finished(F!ge25519_pnielsadd_p1p1(p, entry, negative))

\* An entry of the table, the first one times d as well.
Choose ==
  OnPoints /\ \E negative, first \in BOOLEAN :
    LET e == F!ChosenSign(TableEntry, negative)
    IN niels' = (IF first THEN [e EXCEPT !.t2d = BMul(@, Expanded)] ELSE e) /\ UNCHANGED <<p, q, entry, ladder>>
FirstEntry == SetP(F!FromEntry(niels))
AddNiels == SetP(F!ge25519_nielsadd2(p, niels))
AddSliding == \E negative \in BOOLEAN : Finished(F!ge25519_nielsadd2_p1p1(p, TableEntry, negative))

\* What is written of a point.
Written == [affine |-> F!Affine(p), abscissa |-> F!Abscissa(p)]

SetLadder(nq, nqpq) ==
  ladder # None /\ \E swapped \in BOOLEAN :
    /\ ladder' = [ladder EXCEPT !.nq = IF swapped THEN nqpq ELSE nq, !.nqpq = IF swapped THEN nq ELSE nqpq]
    /\ UNCHANGED <<p, q, entry, niels>>
StepLadder == LET next == F!LadderStep(ladder.nq, ladder.nqpq, ladder.q) IN SetLadder(next.nq, next.nqpq)
DoubleLadder == SetLadder(F!FinalDouble(ladder.nq), ladder.nqpq)

Next ==
  \/ Read \/ DoublePartial \/ Double \/ SetNeutral \/ Negate
  \/ MakeEntry \/ AddToEntry \/ AddEntry \/ Choose \/ FirstEntry \/ AddNiels \/ AddSliding
  \/ StepLadder \/ DoubleLadder

Spec == Init /\ [][Next]_vars

-----------------------------------------------------------------------------
Kept == {p.x, p.y, p.z, p.t, q.x, q.y, q.z, q.t, entry.ysubx, entry.xaddy, entry.z, entry.t2d,
         niels.ysubx, niels.xaddy, niels.t2d}

\* In no order of the operations on points does a limb leave its 32 bits, go
\* below zero or a sum of products leave its 64, nor when the point is written:
\* each formula takes the additions and subtractions that carry enough.
NothingWraps ==
  /\ \A a \in Kept : Fits(a)
  /\ ladder # None =>
       /\ \A a \in {ladder.nq.x, ladder.nq.z, ladder.nqpq.x, ladder.nqpq.z} : Fits(a)
       /\ Fits(Contracted(BMul(ladder.nq.x, BRecip(ladder.nq.z))))
  /\ Fits(Contracted(Written.affine[1])) /\ Fits(Contracted(Written.affine[2]))
  /\ Fits(Contracted(Written.abscissa))
=============================================================================
