# cNEAR in TLA+

A model of cNEAR (`src/`), a C library that reads the NEAR blockchain and sends
transactions to it over JSON-RPC: the library itself, the JSON, base64, base58,
hash and Ed25519 code that it brings along, and its PS3 sample. TLC checks the
models on small instances; TLAPS proves part of what it checks for every one:
the library's calls, the PS3 sample, JSON trees and their printing, and hashing a
message in pieces.

## The system

| Part | Source | State it keeps | Operations | What makes it correct |
|---|---|---|---|---|
| Settings | `src/src/cnear.c` | five globals: RPC URL, account, key text, public and private key | `near_rpc_init`, `near_rpc_cleanup`, `near_account_init`, `near_account_init_json` | after a successful `near_account_init` the five belong together |
| Calls | `src/src/cnear.c` | locals of each call, the caller's `nearTransaction` | `near_rpc_view_*`, `near_rpc_call_function`, `near_rpc_send_tx`, `near_contract_call` | the response says the truth about the transaction; transactions of a key are included in call order; what is signed is what is named |
| Serialization, receive buffer, results | `src/src/cnear.c` 63-181, 643 | a growing buffer | `curl_write_memory`, `serialize_*`, `sign_transaction`, `near_decode_result` | what the network can read in the bytes is the transaction that was meant; a contract's bytes arrive whole |
| base64, base58 | `src/src/base64.c` | none | encode, decode | decoding inverts encoding; buffers sized in advance suffice |
| JSON tree | `src/src/cJSON.c` | doubly linked child lists, keys, texts | create, add, insert, detach, replace, reference, duplicate, delete, compare | the first child's `prev` is the last child; every item and text has one owner, and is freed once |
| JSON parser, printer, minifier | `src/src/cJSON.c` | input cursor, print buffer | parse, print, minify | the grammar's texts and no others; nothing outside a buffer; a failure leaves nothing allocated |
| SHA-1, SHA-2, SHA-3 | `src/ed25519-donna/sha2.c`, `sha3.c` | block buffer, counter, state | init, update, final, transform | the blocks hashed are the padded message, however the updates cut it; the rounds are the standard's |
| Scalars and field elements | `modm-donna-32bit.c`, `curve25519-donna-*.c` | limbs | add, multiply, reduce, recode, pack, invert | least residues; no limb or sum leaves its word; digits add up to the scalar |
| Points and signatures | `ed25519-donna-impl-base.c`, `ed25519.c` | coordinates, partial or full | add, double, multiply, pack, sign, verify, combine, exchange | the curve's law in every order of operations; a signature verifies for its key only |
| PS3 sample | `src/sample-ps3/source` | menu, message, dialog events | two threads, system callbacks | what is sent is what was confirmed; an exit request ends the program |

The library has no threads and no locks of its own. Its globals are shared by
the threads that call it; the PS3 sample calls it from two (`main.c` 422 starts
the control thread before the settings are made). A call reads the globals at
several points, and between these it waits for the network, so what it read may
be stale. `near_rpc_send_tx` is two exchanges: it asks for the access key's
nonce, signs a transaction with the next one, and sends it; either exchange can
fail, be answered with an error, or have its answer lost after the network acted
on it. The rest of the code is sequential. What is hard there is memory that
runs out in the middle, buffers at their limits, pointers that are shared, and
arithmetic that leaves values unreduced between steps.

`PROJECT.json` lists the components (also the ones not modelled), and the
hazards of the code at their lines with the properties that watch them.

## Modules

| Module | What it is |
|---|---|
| `NearChain` | The network as the library uses it (external): nonces of access keys, transactions on their way, in the pool, included, executed, and in final blocks. |
| `CNear` | Settings, threads, calls. Extends `NearChain`. |
| `TxCall` | What a caller may conclude from the response of `near_rpc_send_tx`: the abstract specification that `CNear` implements. |
| `Borsh` | The bytes of a transaction, any append of which may fail, and a network that reads them. |
| `ResultDecode` | `near_decode_result`. |
| `OskDialog`, `Ps3App` | The sample's keyboard dialog with the system's keyboard and its user (external); its two threads and the system callback. `Ps3App` extends `OskDialog`. |
| `Unicode` | The dialog's conversions between UTF-8 and UTF-16, and the `\u` literals of the JSON parser. |
| `JsonTree` | cJSON's items in a heap and every function that changes them. |
| `JsonCompare` | Two trees built with the calls of `JsonTree`, and `cJSON_Compare` beside what they stand for. It is recursive, and so apart from `JsonTree`. |
| `JsonLists` | What the pointers stand for: sequences of children. `JsonTree` implements it. |
| `JsonParse`, `JsonPrint`, `JsonMinify` | The parser, the printer with its buffer, the minifier. |
| `Base64`, `Base58` | Both directions of base64; base58 decoding. |
| `Decoders` | `Base58` and `ResultDecode` beside each other, and what they have in common: bytes and their number. |
| `ShaStream`, `Sha3Stream` | Init, update and final over a buffered block. |
| `ShaRounds`, `KeccakF` | The transforms beside the standards'. |
| `Modm`, `Recoding` | Scalars in limbs; their signed digits. |
| `FieldLimbs`, `FieldBounds`, `FieldPowers` | What limb arithmetic computes (short limbs); which limbs and sums can overflow (real sizes); which powers the chains of squarings reach (real exponents). |
| `EdFormulas` | The point formulas over any arithmetic: `EdPoints` reads them with field values, `FieldBounds` with limb bounds. |
| `EdPoints`, `EdAddition`, `EdMapping` | Points and their bytes; sequences of operations; Elligator's map. |
| `ScalarMult`, `Ladder` | The three multiplications by digits; the Montgomery ladder. |
| `Ed25519` | Keys, signatures, combined signatures, key exchange. |
| `MCCNear`, `MCJson`, `MCCodecs`, `MCPrimitives`, `MCCurve` | Instances for TLC. |
| `CNearProofs` | Theorems and proofs about `CNear`: responses, settings, signatures, the order of calls, nonces read as doubles. |
| `SampleProofs` | Theorems and proofs about `Ps3App` with `OskDialog`. |
| `JsonListProofs`, `JsonTreeProofs` | Theorems and proofs about `JsonTree`: what linking and unlinking does to the lists of a heap, and the calls that make items; every call, the invariant and the refinement. The second extends the first. |
| `JsonPrintProofs` | Theorems and proofs about `JsonPrint`. |
| `CodecProofs` | Theorems and proofs about `Base64`, `Decoders`, `JsonMinify` and `Unicode`. |
| `ShaProofs`, `Sha3Proofs` | Theorems and proofs about `ShaStream` and `Sha3Stream`. |

`MCCodecs`, `MCPrimitives` and `MCCurve` put parts beside each other that share
no state: a variable `on`, chosen in `Init` and never changed, says which part a
behaviour is of, and the variables of the others keep one value. The runs therefore
explore the sum of the parts' states, not their product, and a property of a part
is an invariant `on = part => ...`. Parts that theorems are about are extended
instead of instantiated, so that a run checks the very property that is proved; their
properties hold as they stand of the state in which the part is off. There is nothing to interleave: the functions
are called one at a time and keep nothing between calls but what the part itself
keeps.

### How CNear corresponds to the code

The variables `rpcUrl`, `accountId`, `b58PubKey`, `publicKey`, `privateKey` are
the globals of `cnear.c` 57-61. A thread's `pc` says where in the library it
is; `cur` is the call it is in, `reply` what `exec_curl_rpc_call` is about to
return to it. `tx[c]` is the caller's `nearTransaction`, and `req`, `stage`,
`ret` record what call `c` asked for and returned. Some of this only serves the
properties: `ready` (the last `near_account_init` returned true),
`req[c].usable` and `req[c].settled` (it had, and none was under way, when `c`
began) and `req[c].before` (the calls that were over by then). `freed` holds the
calls whose `signer_id` points to memory that was freed.

Abstractions of data:

* A key text is a key and whether `b58decode_ed25519_key` takes it: it decodes,
  it lacks `ed25519:` (nothing is written), or it has another length (other
  bytes are written, `Junk`). A key buffer never written is `Zero`.
* A signature is the key under which it verifies: the private key's, if the
  public key mixed in is its own, else none (`Junk`). `Ed25519` shows why
  (`SignsForItsKey`).
* A reply is what `exec_curl_rpc_call` detaches from it: the result, a result
  holding an `error` member (that is how the network reports an unknown access
  key), the top-level `error` object, or nothing.
* `rpc_code` is 0, 7 (any curl error), 200, or 500 (any other HTTP code).
* `AsDouble` is what becomes of a nonce that is parsed as a double (`cnear.c`
  550), after `exec_curl_rpc_call` has printed the reply that it was parsed from
  as a double before (530): the nearest double, then the text of 15 digits if
  `compare_double` takes it for the same number, else that of 17. Doubles and
  numbers of 15 digits are sets (`Doubles`, `Shorts`), and `Precise` is
  1 / DBL_EPSILON: 2^52 in the code, 16 with one digit for 15 in the runs. Below
  it the number comes back as it was. From it on, one that a double still holds
  may not: 4503599627370501 comes back as 4503599627370500.
* Serialization either is complete or is not (`tx.whole`), and the network
  takes no transaction that is not. `Borsh` shows why: no incomplete buffer is
  accepted as another transaction.

A call's steps, one action each, are cut where it waits or where another thread
may change what it will read next:

`near_rpc_send_tx` (signer, public key, request for the access key) ->
`ServeAccessKey` (the exchange) -> `GiveUp`, `DecodeNoBlockHash` (crash) or
`TakeNonce` -> `SignTx` or `ReadFreedSigner` (crash) -> `PostTx` or `NotPosted`
-> `ReturnTx`.

What the callers do is a constant, `Discipline`: they make the settings once
(`"once"`, like `tests/main.c`), or change them while no other thread is in the
library (`"between"`), or at any time (`"any"`). No two `near_account_init`
overlap in any of the three; what happens then is memory corruption, and the
code offers no defence. `near_contract_call` is `near_rpc_send_tx` on a
transaction that starts out blank, which is how every send starts here: a caller
that passes the same `nearTransaction` again has all its fields overwritten.

The network is asynchronous: a transaction on the wire may be admitted at any
later time, or never; one in the pool is included in a block if its nonce is
above the key's, or discarded. Its receipts finish executing some time after,
and blocks become final some time later still: the ledger is the sequence of
both kinds of events, of which `final` says how many are in final blocks. A
status is reached as `cnear.h` 29-43 says of it: INCLUDED_FINAL says nothing of
the receipts, EXECUTED nothing of whether their blocks are final. Queries read the
last block (`"optimistic"`, the access key query) or the last final one
(`"final"`, the others), as the request says. Blocks that are abandoned before
they are final are left out.

### How the sample's modules correspond to the code

`osk_level`, `osk_action`, `osk_event`, `osk_unloaded`, `g_ime_active` and
`g_ime_input` are the globals of `dialog.c`, `res` is
`OutputReturnedParam.res`. `osk_dialog_input_init` is one action with its
failures (`NoContainer`, `NotLoaded`, `Loaded`); the loop of
`osk_dialog_get_text` is `TakeEvent` or `Finish` (`osk_dialog_input_update`),
then `Draw` (a frame). `osk_event_handle` handles all events the system has
queued by the time of a frame, so two may come between two updates and the last
one stays in the slot. The dialog never calls `sysUtilCheckCallback`; the model
takes it that `tiny3d_Flip` runs the callbacks, without which no dialog would
end. The keyboard is external, as wide as the code leaves room for: it may
announce what was pressed before DONE or not, wait for an abort after a
cancellation or not, and ignore `oskUnloadAsync` until it has closed. A text is
a value; its conversions are `Unicode`.

`running`, `flag_exit`, `menu_level`, `yesno`, `ndirectories`, `contract_msg`,
`user_input` and `check` are those of `main.c` (`check` modulo `Period`, 0x400
in the code). The control thread's round is `ReadPad` (pad and menus), the
dialog's steps and `Send` and `SendReturns` (`call_contract`) if CROSS opens it,
and `Flip`. The main thread is `StartThread`, `Register`, `List`,
`MakeSettings`, the loop's `Round`, with `Fetch` or `FetchFails` and `Copy`
(`get_contract_greeting`), then `release_all` and `Joined`. A step ends where
the other thread may see or change a global the next one uses. `ExitGame` is
`sys_callback` run in the control thread: its `release_all` joins the thread it
runs in. What `sysThreadJoin` then does is not in this code; the model takes it
to return at once. The library is its outcomes here: `settings` says what of it
was initialized; a sent greeting may be applied later or never, and a call
returns 200 or not whatever became of it. A text is copied in one step.

### How the JSON modules correspond to the code

In `JsonTree`, `heap.mem[n]` is the `cJSON` at address `n` with its pointers
and flags, `heap.strings` counts the allocated keys and texts, `heap.left` the
allocations the current call is still granted; each function is an operator
from a heap to a heap and what it returned, composed as the C functions call
each other, and an action is one call of a caller. `held` are the items that the
caller must still delete or add; `lost` those that nobody can reach. `of`, of a
reference, is a ghost: the item whose list it shows. Callers keep to what
`cJSON.h` asks (the head of the module says how). An array of numbers is made of
one value repeated. What the C functions do by recursion or in a loop over a
list (duplicating, making an array, following `next`) are recursive functions
over the naturals, of which theorems can be proved.

In `JsonParse` and `JsonPrint` the recursion of the C functions is a stack of
arrays and objects; a step is what one of the functions does between two calls.
Characters are kinds (quote, digit, blank, ...), buffers are sequences of them,
and an allocation is a choice between success and failure. The printer's `ensure`
has all its cases: no need to grow, growth by `realloc` or by copying,
growth up to `IntMax`, refusal with and without freeing. What it should print is
`Text`, which says of an item and its level what its text is, from the texts of
its children; `from` in a frame, where in the text that item begins, only serves the
proof. The numbers'
conversions (`strtod`, `sprintf`) are the C library's.

### How the hash and curve modules correspond to the code

`ShaStream` and `Sha3Stream` keep the buffer and counters of the contexts; the
message's byte k is k, so that a byte at the wrong place shows, and a transform
is recorded by what it reads. SHA-2's bits are counted in one word or in two with
a carry, as in the code; a byte of the length is named by its word and its place
in it. `ShaRounds` runs the rolled loops and the unrolled
macros side by side; `KeccakF` runs the code's in-place steps beside FIPS 202's.

`Modm`, `Recoding` and `FieldLimbs` have the code's operations on limbs with the
number and the sizes of limbs as constants. `FieldBounds` has the code's own
sizes but intervals instead of values, in units of 2^20 rounded up (TLC's
integers have 32 bits): a column's sum of products is bounded by the sum of the
products of bounds. `FieldPowers` follows the exponents of the chains of
squarings as sets of bits, at their real length. The formulas of points are
written once, in `EdFormulas`, over operators for the arithmetic; which of the
three additions and subtractions a formula takes is part of it, since they
differ in what they leave unreduced.

`EdPoints` and the modules above it use field elements as numbers. A point has
the code's coordinates, `t` possibly stale where the code leaves it so
(`ge25519_p1p1_to_partial`). `ScalarMult` is given digits of every size and sign
instead of scalars; `Recoding` shows that the digits of a scalar are in that range
and add up to it. In `Ed25519` a hash gives any scalar, the same for the same
input.

## Runs

| Run | Instance | What it checks |
|---|---|---|
| `settings` | 1 thread, 1 call; 2 keys, six credentials, five of them bad; settings change between calls; kills | `TypeOK`; `SignedByNamedKey` |
| `order` | 1 thread, 3 calls, awaited until inclusion or not at all; settings made once; a key whose nonces are below `Precise`, one whose nonces are above; nothing but inclusion in blocks; no kills | `IncludedInCallOrder`; `FreshAfterConfirmed` |
| `threads` | 2 threads, 2 calls, a send that waits for FINAL or a view each; kills and restarts | `ZeroCodeMeansNotSent`; `ReadsFinalWrites`; `ImplementsTxCall` |
| `reinit` | 2 threads, 1 call, every status; 2 accounts with a key each; settings change at any time | `ResultMeansStatus`; `IncludedAsAsked`; `SettingsBelongTogether` |
| `app` | 2 texts, 1 dialog, 1 event queued while typing (three with those of leaving), a fetch every 2 rounds; fair | `AppTypeOK`; `SentAsConfirmed`; `ModulesOutliveDrawing`; `ResultIsVerdict`; `NothingLeft`; `ExitEnds`; `DisplayCatchesUp` |
| `json_lists` | 5 items, arrays and numbers | `ListsLinked`; `ItemsAccounted`; `ListsSpec` |
| `json_objects` | 3 items, objects and strings of 2 lengths, 2 keys that differ in case | `AllAccounted` |
| `codecs` | all short inputs and edits of long ones, buffers of 26 lengths; two trees of up to 4 items to compare | `MinifiesInPlace`; `ParsesOrFreesAll`; `PrintsOrFreesAll`; `Base64RoundTrip`; `DecodesBytes`; `KeepsWholeCharacters`; `SendsWhatWasMeant`; `CompareIsEquality` |
| `primitives` | messages of up to three blocks, hashed in pieces; limbs of 4 to 7 bits; real sizes in `FieldBounds` and `FieldPowers` | `HashesMessage`; `AbsorbsMessage`; `RoundsFollowStandard`; `DigitsStandForScalar`; `ScalarsAreResidues`; `LimbsFollowField` |
| `curve` | a curve of 56 points over 61 elements, a base of order 7 | `PointsFollowLaw`; `MapsToPoints`; `MultipliesByScalar`; `LadderGivesProduct`; `SignaturesVerify` |
| `bad_keys` | 1 thread, 1 call | violated: `SignedWithPublicKey` |
| `key_error` | 1 thread, 1 call | violated: `AccessKeyReplyHandled` |

What they show:

* A response can be trusted. `rpc_code` 0 means nothing was sent and the call
  may be repeated; a result means the status that was asked for. Anything else
  leaves it open whether the transaction takes effect: a caller that repeats it
  may pay twice. This holds even when another thread replaces the account in
  the middle. Then the network refuses what was signed, or it takes it as the
  transaction that was asked for, from the account and with the key whose nonce
  was fetched (`IncludedAsAsked`, where each key is one account's): the public
  key is copied before the wait, so a mixture has no valid signature.
* A view sees what a transaction did if its caller waited for FINAL. No other
  status promises that: EXECUTED and INCLUDED_FINAL leave receipts, or their
  blocks, to come.
* Transactions of one key are included in the order of the calls, awaited or not,
  with delays and losses, also where a nonce does not come back exactly. A
  transaction that is not awaited may be superseded by the next call's, which
  then has the same nonce: then one of the two is discarded. It is not
  superseded once its caller waited for a block (`FreshAfterConfirmed`, for
  nonces below `Precise`).
* After `near_account_init` returned true, settings and transactions belong
  together, as long as no other thread is in the library when settings change.
* A failing append never makes another valid transaction of the one that was
  asked for.
* The dialog returns what the user confirmed although events overwrite each
  other, and its ways to fail leave nothing behind. The sample sends what was
  confirmed, once; choosing to exit ends it from anywhere, and the modules are
  unloaded only when the control thread no longer draws. An old greeting may be
  displayed again after a new one was sent, but not for ever.
* cJSON's lists implement sequences under every order of calls; every item and
  every text is accounted for when allocations fail, but for the reference of
  `cJSON_AddItemReferenceToObject` whose key cannot be copied: it is lost
  (`cJSON.c` 2105), and `ItemsAccounted` says that nothing else is.
* The parser and the printer stay inside their buffers and free what they
  allocated, wherever memory ends. base64 in both directions fits the buffers
  that are sized beforehand, with foreign characters and padding anywhere.
  base58 decoding stays in its buffer for texts of three characters or more of the
  alphabet, and delivers the bytes of any text of the alphabet but the empty one and
  those of ones alone (`DecodesBytes`); nothing is said of texts with other
  characters.
* `cJSON_Compare` is equality of trees, objects being sets of named items in any
  order, with names compared in either way: an object that gives a name two values,
  or leaves an item without one, equals nothing but itself. It looks each name up
  alone, which is why this needs numbers that are told apart, or names that are
  not repeated.
* The hashes, the limb arithmetic and the curve compute what their names say;
  no limb or column of the real sizes overflows whichever operations on points
  follow each other; combined signatures verify for any keys and commitments.

### Findings

Two runs end in a violation, each a disagreement between code and text:

* `bad_keys`: `near_account_init` decodes the private key last. When that
  fails, the account, the key text and the public key are already the new ones;
  the PS3 sample carries on after such a failure (`main.c` 438-441).
* `key_error`: a JSON-RPC error under HTTP 200 is detached from its reply, so
  `cJSON_HasObjectItem(rpc_res, "error")` does not see it, and the missing
  `block_hash` reaches `base58_decode` as NULL.

Met while modelling, and left out of the properties by a condition that says so,
or noted in the module:

* From 2^52 on a nonce may lose its last digit on the way through
  `cJSON_Print` and `cJSON_Parse` (`cJSON.c` 590-598): after 4503599627370501 the
  next transaction gets 4503599627370501 again, which the network refuses.
* `cJSON_Compare` of an object that has two values under one name, or items without
  a name, does not compare a copy equal to its original (`cJSON.c` 3119; `cJSON.h`
  256 calls it "a new, identical cJSON item", 259 has "Recursively compare two
  cJSON items for equality").
* `compare_double` takes an infinite number, which `1e999` is parsed as, for equal
  to every finite one and not to itself (`cJSON.c` 557).
* `cJSON_Minify` takes the quote after an escaped backslash for an escaped one
  (`cJSON.c` 2871), and goes on as if the string had not ended.
* `ensure` copies the byte at `offset` even of an empty block (`cJSON.c` 534): with a
  first buffer of no bytes and no `realloc`, a byte behind it. `StaysInside`
  says that this is the only case.
* `base58_decode` makes one byte too many of a text of `1`s alone (`base64.c` 179).
* The dialog's two conversions disagree on surrogate pairs (`dialog.c` 137), so
  a character outside the basic plane ends the text that it is in.
* `sha3_Final` clears the context that it has just marked as finalized, so that
  `sha3_Update` after it divides by a block size of zero, where the code's
  comment says "too late for additional input" (`sha3.c` 275).

### Bounds, and why they are enough

Library. Three calls are the fewest where a transaction can be overtaken by one
of a later call while a third is awaited; two threads the fewest that interfere,
and two calls the fewest where one begins during or after the other. Two keys
are needed to mix up credentials; one account suffices, since the keys tell the
access keys apart, but in `reinit`, where an account is mixed with another's key. `Precise = 16` goes with doubles of
five bits and texts of one digit; a first nonce of 13 keeps one key's three
nonces at or below it, 18 has the other's above it, where 19 comes back as 20. The
`order` run would be too large with everything else in it: its calls wait for
inclusion at most, its blocks only include (`OnlyInclusion`, which nothing of
`Acceptable` depends on), and the process is not killed. That order is kept
across restarts is a theorem only (`CallOrderKept`). Calls and threads are
symmetric.

Sample. Two texts tell the confirmed one from another, an event queued while
typing (`MaxEvents`) and the two that leaving queues overwrite each other; a
`Period` of 2 has rounds with a fetch and rounds without. One dialog
(`MaxDialogs`) is what a run with liveness can afford; what a dialog leaves for
the next is covered by the proofs, which hold for any number.

Trees. Five items make a list of three with a reference beside its original, an
array in an array, and a replacement; three objects make two that hold one
another's references or a copy. Addresses are symmetric: nothing chooses among
them but `cJSON_New_Item`, which takes any free one. `CircularLimit = 2` lets
copies fail by depth. The trees that `cJSON_Compare` gets have up to four
items with every name of two letters in two cases, or none, and up to three of
every kind with close and infinite numbers; references make them share items. Two
items under a root are enough for another order, a repeated, a missing and a
folded name. `MaxAllocs = 5` is more than any call here makes, so every
allocation fails in some behaviour and all succeed in others.

Codecs. Inputs of up to five kinds of characters reach every pair and triple
that a branch looks at; the parser gets in addition every text one edit away
from five long ones. The printer's buffers start at 26 lengths around those of
the texts, none included, with `DefaultSize` 4 and `IntMax` 40 for 256 and 2^31 - 1: both
doublings, the one that is cut to `IntMax`, and refusals happen. base64's data
of 50 to 60 bytes go past a line break of 72 characters. Borsh has the sizes of
the code; up to three appends of a transaction fail.

Primitives. A block of `ShaStream` has four words of two bytes for 16 words of 4 or
8, of which two are the length; messages have up to three blocks and updates up
to more than two. A word of 64 values counts the bits of one block, so messages
of 8 bytes and more carry into the second. `Sha3Stream` has lanes of two bytes,
and four lengths of blocks with updates shorter, as long and longer than one.
Both are proved for the real sizes. The rounds have their
real number, on words of 8 bits; Keccak its real lanes. Scalars have three limbs
of four bits with an order just above a power of two, as the real one is; the
field has short limbs of alternating widths with small factors in place of 19
and 121665, so that carries stay as small beside a limb as the code's are.

Curve. `P = 61` is 5 modulo 8 as 2^255 - 19 is, and D no square, so the
formulas are complete as on the real curve; 56 points give a cofactor of 8 and
a subgroup of order 7; equal, opposite and neutral points meet at every step.
Four digits (three for the sliding window) pass every branch of the loops; the
digits are chosen among the ends of the tables, zero and one between.

`CHECK_DEADLOCK FALSE` stands where calls run out and the process is not killed,
where the process ends, or where a conversion is done.

### Fairness

`FairSpec` of `Ps3App` assumes that both threads run, that the user sooner or
later leaves the keyboard, and that the keyboard closes and unloads. For
`DisplayCatchesUp` the network answers infinitely many of infinitely many
requests (strong fairness of `Fetch`). No fairness of buttons: `ExitEnds` starts
where the user has chosen to exit, `DisplayCatchesUp` where the greeting no
longer changes.

Nothing else is stated as liveness. The codecs are single calls that return
after finitely many steps. A call of the library has no loop and takes no lock; it
waits for the network, and the code sets no timeout in curl (`cnear.c` 354-371):
whether it ends is up to the peer alone.

## Proofs

`CNearProofs`, for any number of threads, calls, accounts, keys and any
discipline, from the assumptions named in `CNear` and `NearChain` (distinct
special values, callers give matching key pairs):

* `TypeCorrect`: `Spec => []TypeOK`.
* `ZeroCodeSafe` and `ResultTruthful`: `Spec => []ZeroCodeMeansNotSent` and
  `Spec => []ResultMeansStatus`. Neither is inductive. `ResponseInv` adds that
  a call is in one thread only and is open there (`OneThreadPerCall`), that a
  transaction with the network belongs to a send that is over or waits for the
  answer (`PlacedOnlyByAwaiting`), that wire, pool and ledger are disjoint
  (`PlacedOnce`), and that a call that has not begun is blank (`NewIsBlank`).
  The first keeps another thread from answering for the call, the second rules
  out that a call returns 0 at an early exit after it was posted, the third
  that an included transaction comes back to the pool.
* `Implements`: `Spec => ImplementsTxCall`, a step simulation under the
  refinement mapping `PhaseOf`, from the same invariant: `Close` needs
  `ZeroCodeMeansNotSent'` and `ResultMeansStatus'`, `Apply` needs
  `ZeroCodeMeansNotSent` before the step.

* `SettingsFromOneCredential`: `Spec => []SettingsBelongTogether`, under any
  discipline. `SettingsInv` follows `near_account_init` through its three steps:
  one thread at most is in it, and until it succeeds the texts, then the public
  key, are those of its arguments (`DecodedSoFar`).
* `SignsForNamedKey`: if `Discipline # "any"`, `Spec => []SignedByNamedKey`.
  `SigningInv` says what a running call relies on: no signer text is freed; a
  thread in `near_account_init` is alone in the library; outside it a public key
  text that decodes stands for the binary key (`TextIsKey`); and between reading
  the account and signing, the call's request and transaction agree with the
  globals (`HoldsSettings`). `SignedAsAsked` is the result. Under "any" the
  theorem is false: the settings may change while the nonce is fetched.
* `ViewsSeeFinal`: `Spec => []ReadsFinalWrites`, under any discipline. `ViewInv`
  states it for a reply on its way to the caller too; it lasts because calls that
  ended do not change (`EndedFrozen`) and the ledger and its final part only grow
  (`LedgerGrows`).
* `CallOrderKept` and `FreshNonces`: if `Discipline # "any"`,
  `Spec => []IncludedInCallOrder` and `Spec => []FreshAfterConfirmed`, from
  `OrderInv`: a call's nonce comes from its key's nonce on the chain or an
  earlier one (`NoncesRead`); it is not below the nonces of the calls before it on
  that key, and above those of the confirmed ones if it is below `Precise`
  (`NoncesOrdered`); the same of a nonce that was answered and not yet used
  (`RepliesOrdered`); and the chain's nonce of a key bounds the included ones
  (`LedgerBelowNonce`). The assumption is needed so that the key signed for is the
  key asked for (`NamesAskedKey`, from `SigningInv`). What they use of the
  conversions holds for any sets of doubles and of short numbers, if the doubles
  have every number up to `Precise`: a smaller nonce never comes back greater than
  a greater one (`AsDoubleMonotone`: so does rounding to the nearest, ties to even,
  and `PrintMonotone` shows that choosing between two texts does not spoil it),
  and one below `Precise` comes back as itself (`AsDoubleExact`).
* `TakenAsAsked`: `Spec => []IncludedAsAsked`, under any discipline. `AskedInv`
  follows the copied public key: outside `near_account_init` a text that decodes
  stands for the binary key (`TextIsKey`), so a call that began outside has copied
  the key of the text that it asks with (`KeyCopied`), which is an access key
  if a nonce came (`NonceAsked`). What was included names it, and was signed with
  it, and there is one account for it (`IncludedKnown`).

`SampleProofs`, for any texts, any number of dialogs and of queued events and
any period, from `OskDialogAssumption` and `Ps3AppAssumption`:

* `SampleInvariant`: `Spec => []SampleInv`, the inductive invariant. That the
  dialog returns the user's verdict is far from inductive, since the verdict, the
  events that tell it, `osk_action`, `OutputReturnedParam` and `g_ime_input` are
  set by different steps and events overwrite each other. `DialogInv` relates
  them: while the keyboard is open nothing was said that ends it; CANCELED among
  what was said or kept in the slot means that the verdict is not OK, as does
  `osk_action = -1`; after the one event that ends the keyboard no ENTERED is
  queued (`ToldByEvents`); and once the keyboard unloads, `res` and `g_ime_input` are
  the verdict and the text, and no ENTERED is left to replace them
  (`VerdictKept`). `DialogForControl` ties the dialog to the control thread, and
  `OnItsWay` says at each point of that thread what was confirmed and not sent.
* From it `AppTypeCorrect` (`AppTypeOK`), `DialogReturnsVerdict`
  (`ResultIsVerdict`), `DialogLeavesNothing` (`NothingLeft`) and
  `GreetingsSentAsConfirmed` (`SentAsConfirmed`).
* `ModulesLastForDrawing` (`ModulesOutliveDrawing`), which is inductive itself.

`JsonTreeProofs` with the module it extends, for any number of items, keys
and values, any limits on copies, counts and allocations, and whichever
allocations fail, from `JsonTreeAssumption` (there are finitely many addresses,
`NULL` is no address, key or value, and the kinds are those of the code):

* `InvariantHolds`: `Spec => []IInv`. None of the properties below is inductive:
  that a list ends properly says nothing of the items that nobody points to, and
  that the counts of strings agree says nothing of who will free them. `IInv` has
  two parts. `Sound` is of the heap: free items are blank; the pointers of the
  items in use are `Linked` to a forest of sequences (`Forest`: no item is in two
  places; `Heads`, `Nexts` and `Prevs` follow the sequences, the head's `prev`
  to the last; `Loose`: an item in no list has no neighbours); the strings
  allocated are those the items own; a reference shows a child of an item that
  has a list of its own, or nothing. `OwnedBy` is of the callers: an item in use
  is in one list, or held, or lost, and the lost ones are references without a
  name. Both were checked by TLC on the two JSON runs before they were proved.
  Each of the calls comes down to one of eight changes to the forest (`Happened`:
  nothing but texts, a tree built, put in, taken out, deleted, taken out and
  deleted, or swapped for another; or built and lost), which keep the invariant.
* From it `ListsAreLinked` (`ListsLinked`), `ItemsAreAccounted`
  (`ItemsAccounted`) and `StringsAreAccounted` (`StringsAccounted`), of both
  `AllIsAccounted` (`AllAccounted`).
* `TreesFollowLists`: `Spec => ListsSpec`, the refinement: each change to the
  forest is a step of `JsonLists`, or none.
* What the recursive functions return is proved without induction over an
  operator: of the numbers for which a statement fails there would be a least
  (`LeastNatural`), and it cannot be.

`JsonPrintProofs`, for any set of items that holds their children too, trees of any
height, any text that an item may spell, first buffers of any length and any
`INT_MAX`, from `JsonPrintAssumption` (only a string's text may be missing, which
`print_string_ptr` takes for an empty one; no text holds a zero byte):

* `PrintInvariant`: `PrintSpec => []PrintInv`. That a finished print is right is not
  inductive: the printer keeps no record of what it has printed but the offset, and
  leaves zeros, tabs and junk behind it. `PrintInv` says what stands in
  the buffer and where. `Stacked` places each array and object that is open in
  the whole text, at the value of the current child of the one around it; `Placed`
  gives for each point of the printer the place in that text at which `offset` is,
  and, after `print_value`, which does not move it, how far the text reaches and
  that a zero is behind it, which is what `update_offset` looks for; `Solid`
  says that the buffer agrees with the text up to there. Every text is shown to be
  that of `Text`, which `Occurs` in the text of the whole, whatever the buffer has
  moved through.
* From it `PrintingPrintsOrFrees` (`PrintsOrFreesAll`): the text and its zero are
  printed, nothing is written outside, a failure has a reason (for a given buffer:
  the text with two bytes more does not fit), and one buffer is left, or none.
* The text of a tree is a recursive function over items and their height, and what it
  returns is proved by least counterexamples, as for `JsonTree`.

`CodecProofs`, for any bytes and any texts, from `Base64Assumption` (`Data` are
bytes, `Encodings` characters of the table, `=`, or foreign ones; `NULL` is no
sequence of bytes):

* `Base64Invariant`: `Base64Spec => []Base64Inv`. `Encoding` says that the text so
  far is the blocks of the bytes read (`BlockOf`), and of the last block that the
  bytes it lacks are zeros and padding. `Decoding` counts in the text without its
  foreign characters (`Kept`, a recursive function): how many are read tells how full
  the block is, how much of it is padding and how many bytes are out, each the byte
  that the text has at that place.
* From it `Base64Decodes` (`Base64RoundTrip`). That the shifts and masks of both
  functions take apart and put together the same number of 24 bits is
  `BlockOfBytes`, `BytesOfBlock` and `BytesOfThree`; that `len * 4 / 3 + 4` and its
  line feeds leave room for the last block is `InvFits`.
* `Base58Invariant`: `Base58Spec => []Base58Inv`, from `Base58Assumption` (digits are -1
  to 57; an unsigned int holds 256 * 58). `Reads` says of the bytes after each digit
  that they are the number that the digits stand for so far, that no zero is in
  front but for the number zero, and that they are as many as the digits after the
  ones, and one more, at most. The step is `ProductNumber`: seen from the highest
  byte down, a pass makes 58 times the number, and the carry that still comes in.
  `SumOf` says that no carry reaches 58.
* From it and from the invariant of `ResultDecode`, `DecodersDeliver`
  (`DecodesBytes`): any text of the alphabet, unless it is all ones, becomes a zero
  for each one in front and the bytes of its number, in a buffer of 137 hundredths of
  its length if it has three characters; `near_decode_result` returns a contract's
  bytes, however many (`ResultDecodeAssumption`: 256 divides `ValueMax` + 1).
* `MinifyInvariant`: `MinifySpec => []MinifyInv`, for texts of any length. That the
  buffer ends up as the reference `Minified` is not inductive: what is written is a
  part of it, and the loops stop amid a comment or a string. `MinifyInv` says that
  what is written, followed by what the unread rest comes to, is the whole
  (`Remains`: in a comment, the text behind its end; in a string, up to its closing
  quote as it stands and the text behind that as minified), and that the rest is
  unchanged in the buffer (`Reading`). For the escapes, `minify_string` looks only at
  the character before a quote; `StringEndIs` shows that to be the same as counting
  the backslashes if none of them is escaped itself.
* From it `MinifyKeepsTexts` (`MinifiesInPlace`).
* `UnicodeInvariant`: `UnicodeSpec => []UnicodeInv`, from `UnicodeAssumption` (texts
  are code points and stray bytes, literals four or eight digits), for texts and
  buffers of any length. That whole characters come back is not inductive: it is
  said of the end. `UnicodeInv` says at each character which part of the text is
  done. `ReadTo`: as many characters as there are units are written, and the bytes
  that are left are those of the rest (`Rest8`). `WrittenFrom`: the bytes are those
  of as many characters as units were read back. Each has an alternative, that a
  malformed character is passed; what follows one may be anything, and what is in
  front of it stays. `CodeOfOneUnit` shows that a character of one to three bytes is
  read as itself, `PairedIs` that the surrogates that a literal spells are those of
  the code point computed from them, and of no other.
* From it `ConvertersKeepCharacters` (`KeepsWholeCharacters`).

`ShaProofs`, for any number and size of words, any messages and updates, machines
of both byte orders and counters of one word or two, from `ShaStreamAssumption`:
a block has more than two words; a word counts the bits of some number of blocks
(2^32 of 64 bytes, 2^64 of 128); a message has fewer bits than two words count.

* `StreamInvariant`: `StreamSpec => []IInv`. At each point of an update the state has
  taken all that was given but the last bytes, and the buffer begins with these
  (`Absorbed`); all bits are counted; what earlier blocks left in the rest of the
  buffer may be anything.
* `HashesPaddedMessage` (`DigestIsOfPadded`): what is hashed in the end is the
  padding of FIPS 180, in one block or two. The bytes that are turned by
  `REVERSE` and by the machine are in place again, and the rest of the block that
  the length does not fit into, which is cleared before, does not reach the last
  one.
* `TailKept` (`TailInBuffer`), and of both `MessageHashed` (`HashesMessage`).

`Sha3Proofs`, for lanes of any even number of bytes (8 in the code), the four
digests, updates of any length from any address, from `Sha3StreamAssumption`:
`SpongeInvariant`, `SpongesPaddedMessage` (`SqueezedIsOfPadded`) and
`LeftoversKept` (`LeftoversInMessage`), of both `MessageAbsorbed`
(`AbsorbsMessage`), in the same way. Blocks that are read in place because
their address is aligned and blocks that are copied first leave the same state.

Only model-checked:

* `ExitEnds` and `DisplayCatchesUp`: liveness under fairness is
  out of the prover's reach.
* `CompareIsEquality`, `ParsesOrFreesAll` and `SendsWhatWasMeant`: they say what a
  recursive operator, a text of the grammar's shape, or bytes that a network reads
  come to, which needs induction over the data.
* The other properties of `primitives`, and those of `curve`: what a fixed program
  computes from numbers of real or of small size. For all sizes they are theorems
  about polynomials and groups that the provers do not have.

## Not modelled

* `ge25519_double_scalarmult_vartime2`, which no function of this code calls.
* The rumble counters of `pad.c`, which nothing sets, and the pad's edges, which
  `Ps3App` takes as any set of newly pressed buttons.
* `gfx.c` and the font, output that nothing depends on.
* The constant tables (`ScalarMult` says what they must hold) and `memzero.c`, a
  wrapper around the platform's function.
* `tests/main.c`, a sequence of calls against the live network, and the Makefiles.
* curl, TLS and the network below the exchange of a request and a reply; `strtod`
  and `sprintf`; the system libraries of the PS3.
