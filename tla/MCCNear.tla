------------------------------- MODULE MCCNear -------------------------------
(* Small instances of CNear for TLC. *)
EXTENDS CNear, TLC

CONSTANTS t1, t2, c1, c2, c3, alice, bob, k1, k2

MCAccounts == {alice, bob}
MCKeys == {k1, k2}
OneAccount == {<<alice, k1>>, <<alice, k2>>}
TwoAccounts == {<<alice, k1>>, <<bob, k2>>}

\* Numbers with a mantissa of five bits and texts of one digit for 15: from
\* Precise = 16 on the text may change the number, from 32 on the double.
Scaled == 0..32 \cup { 2 * n : n \in 17..32 }
OneDigit == 0..9 \cup { 10 * n : n \in 1..9 }

\* One key below Precise, one above, where 19 is printed as 20 and 21 too.
NoncesAroundPrecise == [k \in AccessKeys |-> IF k[2] = k1 THEN 13 ELSE 18]
ZeroNonces == [k \in AccessKeys |-> 0]

Good(a, k) == [account |-> a, pub |-> [key |-> k, form |-> "ok"],
               priv |-> [key |-> k, form |-> "ok"]]

OneCredential == {Good(alice, k1)}
TwoCredentials == { Good(k[1], k[2]) : k \in AccessKeys }

\* Also ones whose keys do not decode, and a JSON text without a member.
BadCredentials ==
  {Good(alice, k1),
   [Good(alice, k2) EXCEPT !.priv.form = "prefix"],
   [Good(alice, k2) EXCEPT !.priv.form = "size"],
   [Good(alice, k2) EXCEPT !.pub.form = "size"],
   [Good(alice, k2) EXCEPT !.pub.form = "prefix"],
   [Good(alice, k2) EXCEPT !.priv = NoText]}

\* Where no call waits for more than inclusion, and none reads, the blocks
\* only include.
OnlyInclusion == Executed = {} /\ final = 0

CallSymmetry == Permutations(Calls)
AllSymmetry == Permutations(Calls) \cup Permutations(Threads)
ThreadSymmetry == Permutations(Threads)
==============================================================================
