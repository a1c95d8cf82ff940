------------------------------- MODULE Borsh -------------------------------
(***************************************************************************)
(* The bytes of a transaction: serialize_transaction and sign_transaction  *)
(* of src/src/cnear.c, one step per append to the buffer, any of which may *)
(* fail for lack of memory without anybody looking, and the network that   *)
(* reads the bytes (external).  Sizes are those of the code.               *)
(*                                                                         *)
(* A u64 is its eight digits to base 256, the most significant first.  The *)
(* signature is Signature, and what it was made of is kept beside it.      *)
(***************************************************************************)
EXTENDS Integers, SequencesExt

CONSTANTS Transactions,  \* the transactions serialized
          Signature,     \* the 64 bytes of a signature
          MaxLost,       \* bound on the appends that fail
          NULL

BorshAssumption == Len(Signature) = 64

VARIABLES near_tx,  \* the transaction
          memory,   \* the buffer
          next,     \* the append that is next
          signed,   \* the bytes that were signed, or NULL
          lost,     \* appends that failed
          shorter   \* bytes that should be in the buffer and are not

vars == <<near_tx, memory, next, signed, lost, shorter>>

-----------------------------------------------------------------------------
serialize_enum(val) == << [bytes |-> <<val>>, and |-> FALSE] >>
u32(val) == <<val % 256, val \div 256, 0, 0>>
serialize_u32(val) == << [bytes |-> u32(val), and |-> FALSE] >>
serialize_u64(val) == << [bytes |-> Reverse(val), and |-> FALSE] >>
serialize_bytes(data) == << [bytes |-> data, and |-> FALSE] >>
\* Nothing is appended after a length that was not.
serialize_string(str) == serialize_u32(Len(str)) \o << [bytes |-> str, and |-> TRUE] >>

ZeroU64 == [i \in 1..8 |-> 0]

\* Mutant: the two numbers are swapped.
SwappedNumbers(tx) == serialize_u64(tx.deposit) \o serialize_u64(tx.gas)
Numbers(tx) == serialize_u64(tx.gas) \o serialize_u64(tx.deposit)

Action(tx) == serialize_string(tx.method_name) \o serialize_string(tx.args) \o Numbers(tx) \o serialize_u64(ZeroU64)

serialize_transaction(tx) ==
  serialize_string(tx.signer_id) \o serialize_enum(tx.key_type) \o serialize_bytes(tx.public_key)
    \o serialize_u64(tx.nonce) \o serialize_string(tx.receiver_id) \o serialize_bytes(tx.block_hash)
    \o serialize_u32(1) \o serialize_enum(2) \o Action(tx)

\* sign_transaction appends the key type of ED25519 and the signature.
Appends == serialize_transaction(near_tx) \o serialize_enum(0) \o serialize_bytes(Signature)
SignedAt == Len(Appends) - 1

-----------------------------------------------------------------------------
Init == near_tx \in Transactions /\ memory = << >> /\ next = 1 /\ signed = NULL /\ lost = 0 /\ shorter = 0

Ready == next <= Len(Appends) /\ (next = SignedAt => signed # NULL)

\* curl_write_memory, as every append, makes room for one byte more than it needs.
Written ==
  /\ Ready
  /\ memory' = memory \o Appends[next].bytes /\ next' = next + 1
  /\ UNCHANGED <<near_tx, signed, lost, shorter>>

\* It has no memory; the bytes of a string are left out with its length.
Fails ==
  /\ Ready /\ lost < MaxLost
  /\ LET skipped == next < Len(Appends) /\ Appends[next + 1].and
     IN /\ next' = next + IF skipped THEN 2 ELSE 1
        /\ shorter' = shorter + Len(Appends[next].bytes) + IF skipped THEN Len(Appends[next + 1].bytes) ELSE 0
  /\ lost' = lost + 1 /\ UNCHANGED <<near_tx, memory, signed>>

Sign == next = SignedAt /\ signed = NULL /\ signed' = memory /\ UNCHANGED <<near_tx, memory, next, lost, shorter>>

Next == Written \/ Fails \/ Sign

Spec == Init /\ [][Next]_vars

-----------------------------------------------------------------------------
(* The network (external) reads a transaction from position p of the bytes *)
(* b: each reader gives what it read and where it stopped, 0 for a failure.*)

Fixed(b, p, n) == IF p = 0 \/ p + n - 1 > Len(b) THEN [value |-> << >>, then |-> 0]
                  ELSE [value |-> SubSeq(b, p, p + n - 1), then |-> p + n]
Counted(b, p) ==
  LET length == Fixed(b, p, 4)
      v == length.value
  IN IF length.then = 0 \/ v[3] # 0 \/ v[4] # 0 THEN [value |-> << >>, then |-> 0]
     ELSE Fixed(b, length.then, v[1] + 256 * v[2])
PublicKey(b, p) ==
  LET type == Fixed(b, p, 1)
  IN IF type.then = 0 THEN type ELSE IF type.value[1] > 1 THEN [value |-> << >>, then |-> 0]
     ELSE LET k == Fixed(b, type.then, IF type.value[1] = 0 THEN 32 ELSE 64)
          IN [value |-> type.value \o k.value, then |-> k.then]

\* Where an action ends, by its type; a permission is taken to be one byte.
ActionEnd(b, p) ==
  LET type == Fixed(b, p, 1)
      q    == type.then
  IN IF q = 0 THEN 0
     ELSE CASE type.value[1] = 0 -> q                                             \* CreateAccount
            [] type.value[1] \in {1, 7} -> Counted(b, q).then                     \* DeployContract, DeleteAccount
            [] type.value[1] = 2 -> Fixed(b, Counted(b, Counted(b, q).then).then, 24).then
            [] type.value[1] = 3 -> Fixed(b, q, 16).then                          \* Transfer
            [] type.value[1] = 4 -> PublicKey(b, Fixed(b, q, 16).then).then       \* Stake
            [] type.value[1] = 5 -> Fixed(b, PublicKey(b, q).then, 9).then        \* AddKey
            [] type.value[1] = 6 -> PublicKey(b, q).then                          \* DeleteKey
            [] OTHER -> 0

\* All fields up to the number of actions.
Header(b) ==
  LET signer == Counted(b, 1)          key == PublicKey(b, signer.then)
      nonce == Fixed(b, key.then, 8)   receiver == Counted(b, nonce.then)
      hash == Fixed(b, receiver.then, 32)  count == Fixed(b, hash.then, 4)
  IN [fields |-> <<signer.value, key.value, nonce.value, receiver.value, hash.value, count.value>>, then |-> count.then]

\* The transaction ends where its actions do, and a signature is all that follows.
BodyEnd(b) ==
  LET h == Header(b)
      c == h.fields[6]
  IN IF h.then = 0 THEN 0
     ELSE IF c[2] # 0 \/ c[3] # 0 \/ c[4] # 0 THEN 0
     ELSE FoldLeft(LAMBDA p, i : ActionEnd(b, p), h.then, [i \in 1..c[1] |-> i])

\* An account's name has two characters or more, none below "-".
Name(text) == Len(text) >= 2 /\ \A i \in DOMAIN text : text[i] >= 45

\* Accepted: the bytes are a transaction, between accounts and upon a block that
\* there are, and a signature of exactly these bytes.
Accepts(b) ==
  LET end == BodyEnd(b)
  IN /\ end # 0 /\ Name(Header(b).fields[1]) /\ Name(Header(b).fields[4]) /\ Header(b).fields[5] = near_tx.block_hash
     /\ SubSeq(b, end, Len(b)) = <<0>> \o Signature /\ signed = SubSeq(b, 1, end - 1)

\* The bytes of the transaction that was asked for, by its fields.
Meant(tx) ==
  [fields |-> <<tx.signer_id, <<tx.key_type>> \o tx.public_key, Reverse(tx.nonce), tx.receiver_id, tx.block_hash, u32(1)>>,
   action |-> <<2>> \o u32(Len(tx.method_name)) \o tx.method_name \o u32(Len(tx.args)) \o tx.args
                \o Reverse(tx.gas) \o Reverse(tx.deposit) \o ZeroU64]

Done == next > Len(Appends)

-----------------------------------------------------------------------------
(* Properties.                                                             *)

\* A transaction that was written completely is accepted.
WholeIsAccepted == Done /\ shorter = 0 => Accepts(memory)

\* Whatever appends failed, and however the rest of the bytes can be read: what
\* the network accepts from this buffer is complete, and is the transaction that
\* was asked for.
OnlyWhatWasMeant ==
  Done /\ Accepts(memory) => shorter = 0 /\
    [fields |-> Header(memory).fields, action |-> SubSeq(memory, Header(memory).then, BodyEnd(memory) - 1)] = Meant(near_tx)
=============================================================================
