---------------------------- MODULE ResultDecode ----------------------------
(***************************************************************************)
(* near_decode_result (src/src/cnear.c): a contract's result, an array of  *)
(* numbers in the JSON of a response, becomes bytes; one step per item.    *)
(***************************************************************************)
EXTENDS Integers, SequencesExt

CONSTANTS ArrayItems,  \* what an array may hold: integers, and NoNumber
          NoNumber,    \* an item that is no number
          MaxItems,    \* bound on the arrays
          ValueMax     \* INT_MAX; INT_MIN is -ValueMax - 1

ResultDecodeAssumption ==
  /\ ArrayItems \subseteq Int \cup {NoNumber} /\ NoNumber \notin Int
  /\ MaxItems \in Nat /\ ValueMax \in Nat /\ (ValueMax + 1) % 256 = 0
ASSUME ResultDecodeGiven == ResultDecodeAssumption

Arrays == UNION {[1..n -> ArrayItems] : n \in 0..MaxItems}

\* A response whose result is an array, or without one: no JSON, too.
Responses == [array : {TRUE}, items : Arrays] \cup [array : {FALSE}, items : {<< >>}]

VARIABLES response, out_size, room, result_data, decoded
resultVars == <<response, out_size, room, result_data, decoded>>

ResultInit ==
  /\ response \in Responses
  /\ out_size = -1 /\ room = 0 /\ result_data = << >> /\ decoded = "start"

\* NULL, with out_size as the caller left it; parsing may run out of memory.
ReturnsNull ==
  /\ decoded = "start"
  /\ decoded' = "null"
  /\ UNCHANGED <<response, out_size, room, result_data>>

\* malloc is not checked: without memory the first byte goes to NULL.
AllocateBytes ==
  /\ decoded = "start" /\ response.array
  /\ out_size' = Len(response.items)
  /\ \/ room' = Len(response.items) + 1 /\ decoded' = "items"
     \/ room' = 0 /\ decoded' = "crashed"
  /\ UNCHANGED <<response, result_data>>

\* valueint, where the parser has put the nearest int.
valueint(n) == IF n > ValueMax THEN ValueMax ELSE IF n < -ValueMax - 1 THEN -ValueMax - 1 ELSE n

\* As uint8_t.
ItemByte(item) == IF item = NoNumber THEN 0 ELSE valueint(item) % 256

DecodeItem ==
  /\ decoded = "items" /\ Len(result_data) < Len(response.items)
  /\ result_data' = Append(result_data, ItemByte(response.items[Len(result_data) + 1]))
  /\ UNCHANGED <<response, out_size, room, decoded>>

TerminateBytes ==
  /\ decoded = "items" /\ Len(result_data) = Len(response.items)
  /\ result_data' = Append(result_data, 0)
  /\ decoded' = "done"
  /\ UNCHANGED <<response, out_size, room>>

ResultNext == ReturnsNull \/ AllocateBytes \/ DecodeItem \/ TerminateBytes

ResultSpec == ResultInit /\ [][ResultNext]_resultVars

-----------------------------------------------------------------------------
\* What a contract returned, bytes all, is what the caller gets, with its length
\* and a zero byte behind it, inside the buffer.
ReturnsContractBytes ==
  /\ Len(result_data) <= room
  /\ decoded = "done" /\ (\A i \in DOMAIN response.items : response.items[i] \in 0..255) =>
       /\ SubSeq(result_data, 1, out_size) = response.items
       /\ Len(result_data) = out_size + 1 /\ result_data[out_size + 1] = 0
=============================================================================
