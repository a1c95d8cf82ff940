------------------------------ MODULE Ed25519 ------------------------------
(***************************************************************************)
(* Signatures: src/ed25519-donna/ed25519.c.  A signer signs alone, or      *)
(* several sign together (CoSi): they publish keys and commitments, these  *)
(* are combined, everyone signs, and the signatures are combined.          *)
(*                                                                         *)
(* Scalars are numbers modulo Order (Modm), products with points are the   *)
(* group's (ScalarMult).  A hash answers anything, but the same for the    *)
(* same input: a secret key gives any scalar and the nonce of a message    *)
(* any other.  There is one message.                                       *)
(***************************************************************************)
EXTENDS EdPoints

CONSTANTS Order,         \* the base point's, a prime
          SBits,         \* bits of a signature's second half, 256 in the code
          Scalars,       \* scalars of one or two signers
          Few,           \* and of three
          AnyKeys        \* bytes that are combined as keys, one of three

ASSUME Ed25519Assumption ==
  /\ Base \in Points /\ Base # Neutral /\ Times(Order, Base) = Neutral
  /\ \A k \in 2..(Order - 1) : Order % k # 0
  /\ Scalars \cup Few \subseteq 0..(Order - 1) /\ Order < 2^(SBits - 2)
  /\ AnyKeys \subseteq [y : 0..(2^FieldBits - 1), parity : 0..1]

VARIABLES secret, nonce,   \* the signers' scalars
          keys, commits,   \* what they publish
          pk, R,           \* what a signature is of: the key and the commitment
          hram,            \* the hash's answer for R, pk and the message, or NoScalar
          sigs,            \* the signers' parts, or NoScalar
          RS,              \* the signature, or None
          stage            \* "published", "combined", "signing", "signed" or "refused"

signingVars == <<secret, nonce, keys, commits, pk, R, hram, sigs, RS, stage>>

Signers == DOMAIN keys
NoScalar == -1
SBytes == 0..(2^SBits - 1)

-----------------------------------------------------------------------------
(* The functions of ed25519.h; a point's z is left by the products.        *)

PackPoint(a) == ge25519_pack(Projective(a, 2))
ed25519_publickey(a) == PackPoint(Times(a, Base))

\* H(R, A, m) a + r
\* Mutant: the secret is left out.
WithoutSecret(h, a, r) == (h + r) % Order
SignedScalar(h, a, r) == (h * a + r) % Order

is_reduced256_modm(S) == S < Order

\* pk's point comes negated.
ed25519_sign_open(key, sig, h) ==
  LET minusA == ge25519_unpack_negative_vartime(key)
      below  == 2^(CHOOSE k \in 1..SBits : 2^(k - 1) <= Order /\ Order < 2^k)
  IN IF sig.S >= below \/ minusA = None THEN -1
     ELSE IF ~ is_reduced256_modm(sig.S) THEN -1
     ELSE IF PackPoint(Plus(Times(h, <<minusA.x, minusA.y>>), Times(sig.S, Base))) = sig.R THEN 0 ELSE -1

\* The product with another's key, which is read negated: the sign of x is turned.
SignTurned(p) == [p EXCEPT !.x = Neg(p.x)]
ed25519_scalarmult(a, key) ==
  LET p == ge25519_unpack_negative_vartime(key)
  IN IF p = None THEN None ELSE ge25519_pack(SignTurned(Projective(Times(a, <<p.x, p.y>>), 2)))

\* One key is copied; of more the sum is made of the negated points.
SumOfNegated(points) ==
  LET n    == Len(points)
      sump == FoldLeft(LAMBDA s, p : ge25519_pnielsadd(p, s), ge25519_full_to_pniels(points[1]), SubSeq(points, 2, n - 1))
      sum  == ge25519_p1p1_to_partial(points[n], ge25519_pnielsadd_p1p1(points[n], sump, FALSE))
  IN [sum EXCEPT !.x = Neg(sum.x)]
ed25519_cosi_combine_publickeys(pks) ==
  LET points == [i \in DOMAIN pks |-> ge25519_unpack_negative_vartime(pks[i])]
  IN IF Len(pks) = 1 THEN pks[1]
     ELSE IF None \in {points[i] : i \in DOMAIN pks} THEN None
     ELSE ge25519_pack(SumOfNegated(points))

SumOfParts(parts) == FoldLeft(LAMBDA s, t : (s + t) % Order, 0, parts)
ed25519_cosi_combine_signatures(commitment, parts) == [R |-> commitment, S |-> SumOfParts(parts)]

-----------------------------------------------------------------------------
Honest(n, S) ==
  /\ secret \in [1..n -> S] /\ nonce \in [1..n -> S]
  /\ keys = [i \in 1..n |-> ed25519_publickey(secret[i])] /\ commits = [i \in 1..n |-> ed25519_publickey(nonce[i])]
AnyPublished(n, K) == keys \in [1..n -> K] /\ secret = << >> /\ nonce = << >> /\ commits = << >>

SigningInit ==
  /\ \/ \E n \in 1..2 : Honest(n, Scalars)
     \/ Honest(3, Few)
     \/ \E n \in 1..3 : AnyPublished(n, AnyKeys)
  /\ pk = None /\ R = None /\ hram = NoScalar /\ RS = None
  /\ sigs = [i \in Signers |-> NoScalar] /\ stage = "published"

IsHonest == secret # << >>

\* The keys first, then the commitments.  Bytes that no point has are refused.
Combine ==
  /\ stage = "published"
  /\ pk' = ed25519_cosi_combine_publickeys(keys)
  /\ \/ pk' = None /\ stage' = "refused" /\ UNCHANGED R
     \/ pk' # None /\ ~ IsHonest /\ stage' = "combined" /\ UNCHANGED R
     \/ pk' # None /\ IsHonest /\ stage' = "signing" /\ R' = ed25519_cosi_combine_publickeys(commits)
  /\ UNCHANGED <<secret, nonce, keys, commits, hram, sigs, RS>>

ed25519_cosi_sign(i) ==
  /\ stage = "signing" /\ sigs[i] = NoScalar
  /\ \E h \in IF hram = NoScalar THEN 0..(Order - 1) ELSE {hram} :
       hram' = h /\ sigs' = [sigs EXCEPT ![i] = SignedScalar(h, secret[i], nonce[i])]
  /\ UNCHANGED <<secret, nonce, keys, commits, pk, R, RS, stage>>

CombineParts ==
  /\ stage = "signing" /\ \A i \in Signers : sigs[i] # NoScalar
  /\ RS' = ed25519_cosi_combine_signatures(R, sigs) /\ stage' = "signed"
  /\ UNCHANGED <<secret, nonce, keys, commits, pk, R, hram, sigs>>

\* Signer i signs alone, under the key of j that the caller gave: i's, or by
\* mistake another's.
ed25519_sign(i, j) ==
  /\ stage = "published" /\ IsHonest
  /\ pk' = keys[j] /\ R' = commits[i]
  /\ \E h \in 0..(Order - 1) :
       /\ hram' = h /\ RS' = [R |-> commits[i], S |-> SignedScalar(h, secret[i], nonce[i])]
       /\ sigs' = [sigs EXCEPT ![i] = RS'.S]
  /\ stage' = "signed" /\ UNCHANGED <<secret, nonce, keys, commits>>

SigningNext == Combine \/ CombineParts \/ (\E i \in Signers : ed25519_cosi_sign(i)) \/ \E i, j \in Signers : ed25519_sign(i, j)

-----------------------------------------------------------------------------
Together == \A i \in Signers : sigs[i] # NoScalar
Alone(i) == sigs[i] # NoScalar /\ \A j \in Signers \ {i} : sigs[j] = NoScalar
Accepted(S) == ed25519_sign_open(pk, [R |-> R, S |-> S], hram) = 0

\* Whatever the signers' keys and commitments add up to, neutral points and equal
\* or opposite keys among them, what they sign together is accepted.
CosignedIsAccepted == (stage = "signed" /\ Together) => Accepted(RS.S)

\* A signature made alone is accepted under the key of its secret; under another
\* key it is not, but for a hash of 0.  CNear takes it so.
SignsForItsKey ==
  stage = "signed" => \A i \in Signers : Alone(i) =>
    (Accepted(RS.S) <=> (pk = keys[i] \/ hram = 0))

\* No other second half is accepted in a signature's place.
OnlyOneScalar == stage = "signed" => Cardinality({S \in SBytes : Accepted(S)}) <= 1

\* Any readable keys give the key of the sum of their points, and unreadable ones
\* are refused; one key is taken as it is.
PointOf(key) == LET p == ge25519_unpack_negative_vartime(key) IN <<Neg(p.x), p.y>>
CombinedIsSum ==
  /\ stage = "refused" => \E i \in Signers : ge25519_unpack_negative_vartime(keys[i]) = None
  /\ (pk # None /\ Len(keys) > 1 /\ (Together \/ ~ IsHonest)) =>
       pk = PackPoint(FoldLeft(LAMBDA s, key : Plus(s, PointOf(key)), Neutral, keys))

\* Two signers who take each other's key get the same, the key of the product.
SharedKey ==
  (stage = "published" /\ IsHonest) => \A i, j \in Signers :
    ed25519_scalarmult(secret[i], keys[j]) = ed25519_publickey((secret[i] * secret[j]) % Order)
=============================================================================
