------------------------------ MODULE Decoders ------------------------------
(***************************************************************************)
(* base58_decode and near_decode_result beside each other: what the library*)
(* makes bytes of, the texts of keys and hashes and the results of a       *)
(* contract.                                                               *)
(***************************************************************************)
EXTENDS Base58, ResultDecode

\* base58_decode returns the bytes and the length of what a text stands for, if
\* it is not all ones, also where the caller's buffer is too short for it;
\* near_decode_result returns the bytes of a contract's result and their number.
DecodesBytes == Base58Decodes /\ ReturnsContractBytes
=============================================================================
