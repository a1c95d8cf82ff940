------------------------------- MODULE MCJson -------------------------------
(* JsonTree for TLC.                                                       *)
EXTENDS JsonTree, TLC

\* Addresses are only compared: permuting them changes nothing.
Addresses == Permutations(Nodes)
=============================================================================
