----------------------------- MODULE FieldPowers -----------------------------
(***************************************************************************)
(* The chains of squares and products that raise a field element to a      *)
(* fixed power: curve25519_recip and curve25519_pow_two252m3 of            *)
(* src/ed25519-donna/curve25519-donna-helpers.c, and curve25519_divpowm1   *)
(* of curve25519-donna-32bit.c.                                            *)
(*                                                                         *)
(* A register holds a product u^e v^f: the exponents, of up to 256 bits as *)
(* in the code, are the sets of their bits.                                *)
(***************************************************************************)
EXTENDS Integers, Sequences

VARIABLES chain,    \* "recip", "pow_two252m3" or "divpowm1"
          at,       \* position in its program
          left,     \* squarings of the step that are left, 0 before it
          reg       \* registers

vars == <<chain, at, left, reg>>

-----------------------------------------------------------------------------
\* A bit of the sum has a carry if some bit below makes one and all between pass it.
Plus(e, f) ==
  LET passes == (e \cup f) \ (e \cap f)
      carry(k) == \E j \in e \cap f : j < k /\ (j + 1)..(k - 1) \subseteq passes
  IN {k \in 0..255 : (k \in passes) # carry(k)}
Product(a, b) == [u |-> Plus(a.u, b.u), v |-> Plus(a.v, b.v)]
Squared(a) == [u |-> {k + 1 : k \in a.u}, v |-> {k + 1 : k \in a.v}]

Mul(to, a, b) == << [op |-> "mul", to |-> to, a |-> a, b |-> b] >>
SquareTimes(to, a, n) == << [op |-> "square", to |-> to, a |-> a, n |-> n] >>

-----------------------------------------------------------------------------
(* The programs.                                                           *)

\* z^11 to register eleven, z^31 to b.
Start(eleven) ==
  SquareTimes(eleven, "z", 1) \o SquareTimes("t0", eleven, 2) \o Mul("b", "t0", "z") \o Mul(eleven, "b", eleven)
    \o SquareTimes("t0", eleven, 1) \o Mul("b", "t0", "b")

curve25519_pow_two5mtwo0_two250mtwo0 ==
  SquareTimes("t0", "b", 5) \o Mul("b", "t0", "b") \o SquareTimes("t0", "b", 10) \o Mul("c", "t0", "b")
    \o SquareTimes("t0", "c", 20) \o Mul("t0", "t0", "c") \o SquareTimes("t0", "t0", 10) \o Mul("b", "t0", "b")
    \o SquareTimes("t0", "b", 50) \o Mul("c", "t0", "b") \o SquareTimes("t0", "c", 100) \o Mul("t0", "t0", "c")
    \o SquareTimes("t0", "t0", 50) \o Mul("b", "t0", "b")

curve25519_recip ==
  Start("a") \o curve25519_pow_two5mtwo0_two250mtwo0 \o SquareTimes("b", "b", 5) \o Mul("out", "b", "a")
curve25519_pow_two252m3 ==
  Start("c") \o curve25519_pow_two5mtwo0_two250mtwo0 \o SquareTimes("b", "b", 2) \o Mul("out", "b", "z")

curve25519_divpowm1 ==
  SquareTimes("v3", "v", 1) \o Mul("v3", "v3", "v") \o SquareTimes("uv7", "v3", 1) \o Mul("uv7", "uv7", "v") \o Mul("uv7", "uv7", "u")
    \o SquareTimes("t0", "uv7", 1) \o SquareTimes("t1", "t0", 1) \o SquareTimes("t1", "t1", 1) \o Mul("t1", "uv7", "t1")
    \o Mul("t0", "t0", "t1") \o SquareTimes("t0", "t0", 1) \o Mul("t0", "t1", "t0")
    \o SquareTimes("t1", "t0", 5) \o Mul("t0", "t1", "t0") \o SquareTimes("t1", "t0", 10) \o Mul("t1", "t1", "t0")
    \o SquareTimes("t2", "t1", 20) \o Mul("t1", "t2", "t1") \o SquareTimes("t1", "t1", 10) \o Mul("t0", "t1", "t0")
    \o SquareTimes("t1", "t0", 50) \o Mul("t1", "t1", "t0") \o SquareTimes("t2", "t1", 100) \o Mul("t1", "t2", "t1")
    \o SquareTimes("t1", "t1", 50) \o Mul("t0", "t1", "t0") \o SquareTimes("t0", "t0", 2) \o Mul("t0", "t0", "uv7")
    \o Mul("t0", "t0", "v3") \o Mul("out", "t0", "u")

Program ==
  CASE chain = "recip" -> curve25519_recip
    [] chain = "pow_two252m3" -> curve25519_pow_two252m3
    [] chain = "divpowm1" -> curve25519_divpowm1

-----------------------------------------------------------------------------
U == [u |-> {0}, v |-> {}]
V == [u |-> {}, v |-> {0}]
One == [u |-> {}, v |-> {}]

Init ==
  /\ chain \in {"recip", "pow_two252m3", "divpowm1"} /\ at = 1 /\ left = 0
  /\ reg = [n \in {"z", "u", "v", "a", "b", "c", "t0", "t1", "t2", "v3", "uv7", "out"} |->
              CASE n \in {"z", "u"} -> U [] n = "v" -> V [] OTHER -> One]

Step == Program[at]
Multiply ==
  /\ at <= Len(Program) /\ Step.op = "mul"
  /\ reg' = [reg EXCEPT ![Step.to] = Product(reg[Step.a], reg[Step.b])]
  /\ at' = at + 1 /\ UNCHANGED <<chain, left>>
\* The first square is of the source, the others of the result.
Square ==
  /\ at <= Len(Program) /\ Step.op = "square"
  /\ reg' = [reg EXCEPT ![Step.to] = Squared(reg[IF left = 0 THEN Step.a ELSE Step.to])]
  /\ left' = (IF left = 0 THEN Step.n ELSE left) - 1
  /\ at' = (IF left' = 0 THEN at + 1 ELSE at) /\ UNCHANGED chain

Next == Multiply \/ Square

Spec == Init /\ [][Next]_vars

-----------------------------------------------------------------------------
Ones(n) == 0..(n - 1)

\* recip gives z^(p - 2), the inverse, and pow_two252m3 z^((p - 5) / 8), from which
\* the square root is made.  divpowm1 gives u^(m + 1) v^(-(m + 1)) with m the
\* latter exponent: with m + 1 more the exponent of v is p - 1, so that v^ it is 1.
ChainsGivePowers ==
  at > Len(Program) =>
    CASE chain = "recip" -> reg["out"].u = Ones(255) \ {2, 4}
      [] chain = "pow_two252m3" -> reg["out"].u = Ones(252) \ {1}
      [] chain = "divpowm1" ->
           /\ reg["out"].u = Ones(252) \ {0}
           /\ Plus(reg["out"].v, Ones(252) \ {0}) = Ones(255) \ {0, 1, 4}
=============================================================================
