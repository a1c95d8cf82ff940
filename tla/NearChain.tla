----------------------------- MODULE NearChain -----------------------------
(***************************************************************************)
(* The NEAR network, as src/src/cnear.c uses it: an external service.      *)
(* It stores one nonce per access key, takes transactions from the wire    *)
(* into its pool, includes at most one transaction per nonce of a key in   *)
(* a block, executes the receipts of an included transaction in that block *)
(* or a later one, and finalizes blocks some time later.  A view request   *)
(* reads the state of the last block ("optimistic") or of the last final   *)
(* block ("final").  Blocks that are abandoned before they are final are   *)
(* left out.  Nothing here is code of the repository.                      *)
(***************************************************************************)
EXTENDS Naturals, Sequences

CONSTANTS Calls,        \* the library calls that may be made, each at most once
          AccessKeys,   \* the pairs <<account, key>> registered on the chain
          FirstNonce    \* access key -> the nonce it starts from

ASSUME FirstNonceAssumption == FirstNonce \in [AccessKeys -> Nat]

VARIABLES tx,           \* call -> the nearTransaction it built and signed
          wire,         \* calls whose signed transaction is on its way
          pool,         \* calls whose transaction the network accepted
          ledger,       \* what the blocks did with transactions, in order
          final,        \* how much of that is in final blocks
          keyNonce      \* access key -> nonce in the last block

chainVars == <<wire, pool, ledger, final, keyNonce>>

\* A transaction is included in a block, and its receipts finish executing.
Steps == {"included", "executed"}
Event(c, step) == [call |-> c, step |-> step]

\* The calls that got this far in the first n events.
Past(step, n) == { ledger[i].call : i \in { j \in 1..n : ledger[j].step = step } }

Included == Past("included", Len(ledger))
Executed == Past("executed", Len(ledger))
FinallyIncluded == Past("included", final)
FinallyExecuted == Past("executed", final)

\* The access key a transaction names.
KeyOf(c) == <<tx[c].signer, tx[c].pub>>

\* The bytes decode, the signature verifies under the named key, and the
\* nonce is above the key's.
Acceptable(c) ==
  /\ tx[c].whole
  /\ tx[c].sig = tx[c].pub
  /\ KeyOf(c) \in AccessKeys
  /\ tx[c].nonce > keyNonce[KeyOf(c)]

ChainInit ==
  /\ wire = {}
  /\ pool = {}
  /\ ledger = << >>
  /\ final = 0
  /\ keyNonce = FirstNonce

\* The server reads a posted transaction and keeps it only if acceptable.
Admit(c) ==
  /\ c \in wire
  /\ wire' = wire \ {c}
  /\ pool' = IF Acceptable(c) THEN pool \cup {c} ELSE pool
  /\ UNCHANGED <<tx, ledger, final, keyNonce>>

\* A pooled transaction is included in a block.
Include(c) ==
  /\ c \in pool
  /\ Acceptable(c)
  /\ pool' = pool \ {c}
  /\ ledger' = Append(ledger, Event(c, "included"))
  /\ keyNonce' = [keyNonce EXCEPT ![KeyOf(c)] = tx[c].nonce]
  /\ UNCHANGED <<tx, wire, final>>

\* A pooled transaction that a later nonce has overtaken is discarded.
Discard(c) ==
  /\ c \in pool
  /\ ~ Acceptable(c)
  /\ pool' = pool \ {c}
  /\ UNCHANGED <<tx, wire, ledger, final, keyNonce>>

\* The receipts of an included transaction finish executing.
Execute(c) ==
  /\ c \in Included \ Executed
  /\ ledger' = Append(ledger, Event(c, "executed"))
  /\ UNCHANGED <<tx, wire, pool, final, keyNonce>>

\* More blocks become final.
Finalize ==
  /\ final' \in (final + 1)..Len(ledger)
  /\ UNCHANGED <<tx, wire, pool, ledger, keyNonce>>

\* What a view request with this finality reads.
HeightAt(finality) == IF finality = "final" THEN final ELSE Len(ledger)

\* The nonces of one key only grow, so its last is the greatest.
FinalNonce(k) ==
  LET nonces == {FirstNonce[k]} \cup { tx[c].nonce : c \in { d \in FinallyIncluded : KeyOf(d) = k } }
  IN CHOOSE n \in nonces : \A m \in nonces : n >= m

NonceAt(finality, k) == IF finality = "final" THEN FinalNonce(k) ELSE keyNonce[k]

\* The network may answer a send_tx request with its result once the
\* transaction reached the requested execution status.
Reached(c, waitUntil) ==
  CASE waitUntil = "NONE" -> c \notin wire
    [] waitUntil = "INCLUDED" -> c \in Included
    [] waitUntil = "EXECUTED_OPTIMISTIC" -> c \in Executed
    [] waitUntil = "INCLUDED_FINAL" -> c \in FinallyIncluded
    [] waitUntil = "EXECUTED" -> c \in FinallyIncluded \cap Executed
    [] waitUntil = "FINAL" -> c \in FinallyIncluded \cap FinallyExecuted
=============================================================================
