------------------------------- MODULE MCCurve -------------------------------
(***************************************************************************)
(* The curve and the signatures, on a curve of 56 points over 61 elements  *)
(* (the code's has about 2^255): the neutral point, one of order 2, two of *)
(* order 4 and points of every order up to 56, as the code's has a         *)
(* cofactor of 8.  As in MCCodecs, each behaviour is one of the part that  *)
(* "on" names, and the variables of the others are NULL.                   *)
(***************************************************************************)
EXTENDS EdAddition, EdMapping, ScalarMult, Ladder, Ed25519

CONSTANT NULL

VARIABLE on

-----------------------------------------------------------------------------
\* A base point of a small prime order; the points that are added or multiplied.
MCBase == <<18, 27>>
MCAdded == {a \in Points : a[1] % 7 = 0}
MCOthers == {<<3, 17>>, <<5, 6>>, Neutral}

\* Digits of every size and sign.
MCWindowDigits == {-8, 0, 3, 8}
MCSliding1 == {-15, 0, 1, 9}
MCSliding2 == {-1, 0, 63}

\* Readable and unreadable keys, the neutral point's and p's own y among them.
MCAnyKeys == [y : {0, 1, 3, 24, 61, 62}, parity : 0..1]

-----------------------------------------------------------------------------
AdditionOff == acc = NULL /\ law = NULL /\ full = NULL /\ given = NULL
MappingOff == u = NULL /\ image = NULL /\ affine = NULL /\ mapping = NULL
MultiplyingOff == alg = NULL /\ p1 = NULL /\ b = NULL /\ c = NULL /\ pre = NULL /\ r = NULL /\ t = NULL
                    /\ i = NULL /\ phase = NULL
ClimbingOff == point = NULL /\ n = NULL /\ nq = NULL /\ nqpq = NULL /\ lastbit = NULL /\ rung = NULL
                 /\ climbing = NULL /\ mypublic = NULL
SigningOff == secret = NULL /\ nonce = NULL /\ keys = NULL /\ commits = NULL /\ pk = NULL /\ R = NULL
                /\ hram = NULL /\ sigs = NULL /\ RS = NULL /\ stage = NULL

Init ==
  /\ on \in {"addition", "mapping", "multiplying", "ladder", "signing"}
  /\ IF on = "addition"    THEN AdditionInit    ELSE AdditionOff
  /\ IF on = "mapping"     THEN MappingInit     ELSE MappingOff
  /\ IF on = "multiplying" THEN MultiplyingInit ELSE MultiplyingOff
  /\ IF on = "ladder"      THEN ClimbingInit    ELSE ClimbingOff
  /\ IF on = "signing"     THEN SigningInit     ELSE SigningOff

Only(part, others) == on = part /\ UNCHANGED <<on, others>>
OnlyAddition == Only("addition", <<mappingVars, multiplyingVars, climbingVars, signingVars>>)
OnlyMapping == Only("mapping", <<additionVars, multiplyingVars, climbingVars, signingVars>>)
OnlyMultiplying == Only("multiplying", <<additionVars, mappingVars, climbingVars, signingVars>>)
OnlyClimbing == Only("ladder", <<additionVars, mappingVars, multiplyingVars, signingVars>>)
OnlySigning == Only("signing", <<additionVars, mappingVars, multiplyingVars, climbingVars>>)

\* Each part's own next-state relation, its additions one by one for TLC.
Next ==
  \/ OnlyAddition /\ (DoublePartial \/ Double \/ Repack)
  \/ \E a \in Added, negative, partial \in BOOLEAN :
       \/ OnlyAddition /\ AddNiels(a, negative, partial)
       \/ \E z \in Scales : OnlyAddition /\ AddProjective(a, z, negative, partial)
  \/ \E a \in Added, z \in Scales : OnlyAddition /\ AddSum(a, z)
  \/ OnlyMapping /\ MappingNext
  \/ OnlyMultiplying /\ MultiplyingNext
  \/ OnlyClimbing /\ ClimbingNext
  \/ OnlySigning /\ SigningNext

Spec == Init /\ [][Next]_<<on, additionVars, mappingVars, multiplyingVars, climbingVars, signingVars>>

-----------------------------------------------------------------------------
\* Points in the coordinates of the code follow the curve's law, whichever
\* doublings, additions and packings follow each other, and bytes are read as the
\* point that they are of, or refused.
PointsFollowLaw == on = "addition" => FollowsTheLaw /\ ReadsBytes

\* All bytes map to points of the subgroup's curve, no assert fails, and points
\* compare equal if and only if they are.
MapsToPoints == on = "mapping" => MapsToCurve /\ ComparesPoints

\* The three multiplications follow their scalars digit by digit, with tables of
\* the right multiples, and leave a point with all its coordinates.
MultipliesByScalar ==
  on = "multiplying" =>
    FollowsScalar /\ EndsFull /\ TableHoldsMultiples

\* The ladder keeps two neighbouring multiples and ends with the secret's.
LadderGivesProduct == on = "ladder" => KeepsNeighbours /\ GivesProduct

\* What signers make alone or together is accepted, for their key and no other
\* scalar; combined keys and commitments are sums; shared keys agree.
SignaturesVerify ==
  on = "signing" => /\ CosignedIsAccepted /\ SignsForItsKey /\ OnlyOneScalar
                    /\ CombinedIsSum /\ SharedKey
=============================================================================
