------------------------------- MODULE CNear -------------------------------
(***************************************************************************)
(* The library src/src/cnear.c: the process-wide account and RPC settings, *)
(* and the calls that application threads make with them.                  *)
(*                                                                         *)
(* A call that uses the network is cut where it waits for the network, and *)
(* where it reads globals that another thread may be replacing, so steps   *)
(* of several threads and of the network interleave there.  Texts are      *)
(* abstract: a key text is a key plus whether b58decode_ed25519_key takes  *)
(* it; a JSON reply is the member exec_curl_rpc_call detaches from it.     *)
(***************************************************************************)
EXTENDS NearChain, FiniteSets

CONSTANTS Threads,       \* the application threads that call the library
          Accounts, Keys,
          NoText,        \* a NULL char*
          Zero, Junk,    \* key bytes never written / partly overwritten
          NoCall,
          Credentials,   \* the arguments near_account_init may be given
          WaitStatuses,  \* the nearTxStatus values the callers use
          ViewKinds,     \* the view requests they make
          Precise,       \* 2^52, which is 1/DBL_EPSILON
          Doubles,       \* the integers that a double holds exactly
          Shorts,        \* the integers that 15 digits write exactly
          Discipline,    \* when threads change the settings: "once" per process,
                         \* "between" calls, or at "any" time
          MayKill        \* whether the process may be killed from outside

VARIABLES rpcUrl,        \* near_rpc_url # NULL
          accountId,     \* near_account_id
          b58PubKey,     \* near_b58_pub_key
          publicKey,     \* near_public_key
          privateKey,    \* near_private_key
          up,            \* the process has not crashed
          pc,            \* thread -> where it is in the library
          cur,           \* thread -> its call
          arg,           \* thread -> the credentials near_account_init was given
          reply,         \* thread -> what exec_curl_rpc_call will return
          req,           \* call -> what it asked for and saw at its start
          stage,         \* call -> "new", "open", "done" or "lost" (in a crash)
          ret,           \* call -> the cnearResponse it returned
          freed,         \* calls whose signer_id points to freed memory
          ready          \* the last near_account_init returned true

settings == <<rpcUrl, accountId, b58PubKey, publicKey, privateKey, freed, ready>>
threadVars == <<pc, cur, arg, reply>>
callVars == <<req, stage, ret>>
vars == <<chainVars, tx, settings, up, threadVars, callVars>>

Forms == {"ok", "prefix", "size"}   \* decodes; no "ed25519:"; wrong length
KeyTexts == [key : Keys, form : Forms]
KeyBytes == Keys \cup {Zero, Junk}
Texts == Accounts \cup {NoText}
CredentialType == [account : Texts, pub : KeyTexts \cup {NoText}, priv : KeyTexts \cup {NoText}]

\* Callers give a public key and the private key that belongs to it.
ASSUME CredentialsAssumption ==
  /\ NoText \notin Accounts \cup KeyTexts
  /\ Credentials \subseteq CredentialType
  /\ \A cr \in Credentials :
       cr.pub # NoText /\ cr.priv # NoText /\ cr.pub.form = "ok" /\ cr.priv.form = "ok"
         => cr.pub.key = cr.priv.key

ASSUME CNearAssumption ==
  /\ Zero \notin Keys /\ Junk \notin Keys /\ Zero # Junk
  /\ Junk \notin Texts
  /\ NoCall \notin Calls
  /\ WaitStatuses \subseteq 0..5
  /\ ViewKinds \subseteq {"view_account", "view_state", "call_function", "view_access_key"}
  /\ AccessKeys \subseteq Accounts \X Keys
  /\ Precise \in Nat \ {0}
  /\ 0..Precise \subseteq Doubles /\ Doubles \subseteq Nat
  /\ Shorts \subseteq Nat /\ Shorts # {}
  /\ Discipline \in {"once", "between", "any"}
  /\ MayKill \in BOOLEAN

-----------------------------------------------------------------------------
(* The response of an exchange: cnearResponse.rpc_code and .json.  7 stands *)
(* for every curl error, 500 for every HTTP code but 200.  "result" is a    *)
(* result member, "failed" a result that holds an "error" member, "error"   *)
(* a top-level error member, and "null" no json.                            *)

Codes == {0, 7, 200, 500}
Jsons == {"result", "failed", "error", "null"}
Response == [code : Codes, json : Jsons, seen : Nat]
Answer(code, json, seen) == [code |-> code, json |-> json, seen |-> seen]
NoAnswer == Answer(0, "null", 0)         \* cnearResponse ret = {0}

\* Mutants: texts in the wrong order.
TX_STATUSEarly == <<"NONE", "INCLUDED", "EXECUTED_OPTIMISTIC",
                    "INCLUDED_FINAL", "FINAL", "EXECUTED">>
TX_STATUSSwapped == <<"NONE", "INCLUDED", "INCLUDED_FINAL",
                      "EXECUTED_OPTIMISTIC", "EXECUTED", "FINAL">>
TX_STATUS == <<"NONE", "INCLUDED", "EXECUTED_OPTIMISTIC",
               "INCLUDED_FINAL", "EXECUTED", "FINAL">>

\* An exchange without a handle leaves *ret_code alone, a failed one sets it
\* to the curl error.
NoHandle == NoAnswer
\* Mutant: *ret_code = ret forgotten.
CurlErrorUnset == NoAnswer
CurlError == Answer(7, "null", 0)

\* What is detached from a reply that is not the request's result.  An empty
\* body leaves malloc(1)'s byte for cJSON_Parse to read, so under a code other
\* than 200 (the network always sends a 200 with a body) any earlier reply
\* still in that memory may be found.
OtherReplies == {Answer(200, "error", 0), Answer(200, "null", 0)}
                  \cup {Answer(500, "null", 0), Answer(500, "result", 0)}

\* The nonce of the access key is parsed into a double, printed into the text
\* of the reply and parsed again.
Distance(a, b) == IF a < b THEN b - a ELSE a - b

Closest(n, S) == { m \in S : \A k \in S : Distance(n, m) <= Distance(n, k) }

\* Of two that are as close, the even one.
Nearest(n, S) ==
  LET closest == Closest(n, S)
      even == { m \in closest : \A k \in closest : k = m \/ m % (2 * Distance(k, m)) = 0 }
  IN CHOOSE m \in closest : even # {} => m \in even

compare_double(a, b) == Distance(a, b) * Precise <= (IF a < b THEN b ELSE a)

\* What the printed number reads back as: 15 digits if that is the same number
\* within DBL_EPSILON, else 17.
print_number(d) ==
  LET test == Nearest(Nearest(d, Shorts), Doubles) IN IF compare_double(test, d) THEN test ELSE d

\* (uint64_t) cJSON_GetNumberValue
AsDouble(n) == print_number(Nearest(n, Doubles))

\* The nearTransaction callers pass in, before near_rpc_send_tx fills it.
BlankTx == [signer |-> NoText, pub |-> Zero, nonce |-> 0, sig |-> Zero, whole |-> FALSE]

BlankReq == [kind |-> "none", wait |-> 0, account |-> NoText, key |-> NoText,
             usable |-> FALSE, settled |-> FALSE, before |-> {}]

InitProcess ==
  /\ rpcUrl = FALSE
  /\ accountId = NoText
  /\ b58PubKey = NoText
  /\ publicKey = Zero
  /\ privateKey = Zero
  /\ freed = {}
  /\ ready = FALSE
  /\ up = TRUE
  /\ pc = [t \in Threads |-> "idle"]
  /\ cur = [t \in Threads |-> NoCall]
  /\ arg = [t \in Threads |-> NoText]
  /\ reply = [t \in Threads |-> NoAnswer]

Init ==
  /\ ChainInit
  /\ InitProcess
  /\ tx = [c \in Calls |-> BlankTx]
  /\ req = [c \in Calls |-> BlankReq]
  /\ stage = [c \in Calls |-> "new"]
  /\ ret = [c \in Calls |-> NoAnswer]

-----------------------------------------------------------------------------
(* Where a thread is.  "initPub" and "initPriv" are inside near_account_init *)
(* before each key is decoded; "view" and "viewed" are a view request before *)
(* and after the network answered it; "getKey", "gotKey", "sign", "post" and *)
(* "await" are the steps of near_rpc_send_tx.                                *)

Initializing == {"initPub", "initPriv"}
HoldsSigner == {"getKey", "gotKey", "sign"}    \* will still read tx.signer_id
PCs == {"idle", "view", "viewed", "post", "await"} \cup Initializing \cup HoldsSigner

At(t, label) == up /\ pc[t] = label

\* The callers' discipline: unless it is "any", settings change only while no
\* other thread is in the library, and if it is "once", only the first time.
\* No two near_account_init overlap.
MayChangeSettings(t, first) ==
  /\ Discipline = "once" => first
  /\ \A u \in Threads \ {t} :
       pc[u] = "idle" \/ (Discipline = "any" /\ pc[u] \notin Initializing)

MayCall == Discipline = "any" \/ \A u \in Threads : pc[u] \notin Initializing

\* The calls left with a dangling signer_id when near_account_id is freed.
Dangling == { cur[u] : u \in { v \in Threads : pc[v] \in HoldsSigner } }

Goto(t, label) == pc' = [pc EXCEPT ![t] = label]

Crash ==
  /\ up' = FALSE
  /\ UNCHANGED <<chainVars, tx, settings, threadVars, callVars>>

\* Mutant: the thread keeps its call.
ReturnKeepingCall(t, r) ==
  /\ Goto(t, "idle")
  /\ cur' = cur
  /\ reply' = [reply EXCEPT ![t] = NoAnswer]
  /\ stage' = [stage EXCEPT ![cur[t]] = "done"]
  /\ ret' = [ret EXCEPT ![cur[t]] = r]

\* A thread's call returns r to the application.
Return(t, r) ==
  /\ Goto(t, "idle")
  /\ cur' = [cur EXCEPT ![t] = NoCall]
  /\ reply' = [reply EXCEPT ![t] = NoAnswer]
  /\ stage' = [stage EXCEPT ![cur[t]] = "done"]
  /\ ret' = [ret EXCEPT ![cur[t]] = r]

-----------------------------------------------------------------------------
(* Settings.                                                               *)

\* A failing curl_global_init returns before anything is changed; strdup may
\* leave NULL.
near_rpc_init(t) ==
  /\ At(t, "idle")
  /\ MayChangeSettings(t, ~ rpcUrl)
  /\ rpcUrl' \in BOOLEAN
  /\ UNCHANGED <<chainVars, tx, accountId, b58PubKey, publicKey, privateKey,
                 freed, ready, up, threadVars, callVars>>

\* The binary keys stay.
near_rpc_cleanup(t) ==
  /\ At(t, "idle")
  /\ MayChangeSettings(t, FALSE)
  /\ rpcUrl' = FALSE
  /\ accountId' = NoText
  /\ b58PubKey' = NoText
  /\ freed' = freed \cup Dangling
  /\ UNCHANGED <<chainVars, tx, publicKey, privateKey, ready, up, threadVars, callVars>>

\* Mutant: near_b58_pub_key is only set the first time.
near_account_initKeepingText(t, cr) ==
  /\ At(t, "idle")
  /\ MayChangeSettings(t, b58PubKey = NoText)
  /\ IF NoText \in {cr.account, cr.pub} THEN Crash
     ELSE /\ accountId' \in {cr.account, NoText}
          /\ b58PubKey' = IF b58PubKey = NoText THEN cr.pub ELSE b58PubKey
          /\ freed' = freed \cup Dangling
          /\ ready' = FALSE
          /\ arg' = [arg EXCEPT ![t] = cr]
          /\ Goto(t, "initPub")
          /\ UNCHANGED <<chainVars, tx, rpcUrl, publicKey, privateKey, up,
                         cur, reply, callVars>>

\* Replaces both texts (strdup may return NULL for lack of memory; given NULL
\* it crashes), then goes on to decode the keys.
near_account_init(t, cr) ==
  /\ At(t, "idle")
  /\ MayChangeSettings(t, b58PubKey = NoText)
  /\ IF NoText \in {cr.account, cr.pub} THEN Crash
     ELSE /\ accountId' \in {cr.account, NoText}
          /\ b58PubKey' \in {cr.pub, NoText}
          /\ freed' = freed \cup Dangling
          /\ ready' = FALSE
          /\ arg' = [arg EXCEPT ![t] = cr]
          /\ Goto(t, "initPub")
          /\ UNCHANGED <<chainVars, tx, rpcUrl, publicKey, privateKey, up,
                         cur, reply, callVars>>

\* A text that does not parse returns false before anything is changed; a
\* missing member reaches near_account_init as NULL.
near_account_init_json(t) == \E cr \in Credentials : near_account_init(t, cr)

\* The bytes base58_decode leaves in a key buffer that held old.
Decoded(text, old) ==
  CASE text.form = "ok" -> text.key [] text.form = "size" -> Junk [] OTHER -> old

InitReturns(t) == Goto(t, "idle") /\ arg' = [arg EXCEPT ![t] = NoText]

DecodePublicKey(t) ==
  /\ At(t, "initPub")
  /\ publicKey' = Decoded(arg[t].pub, publicKey)
  /\ IF arg[t].pub.form = "ok" THEN Goto(t, "initPriv") /\ UNCHANGED arg
     ELSE InitReturns(t)
  /\ UNCHANGED <<chainVars, tx, rpcUrl, accountId, b58PubKey, privateKey, freed,
                 ready, up, cur, reply, callVars>>

\* Mutant: any number of decoded bytes will do.
DecodePrivateKeyAnyLength(t) ==
  /\ At(t, "initPriv")
  /\ IF arg[t].priv = NoText THEN Crash
     ELSE /\ privateKey' = Decoded(arg[t].priv, privateKey)
          /\ ready' = (arg[t].priv.form # "prefix")
          /\ InitReturns(t)
          /\ UNCHANGED <<chainVars, tx, rpcUrl, accountId, b58PubKey, publicKey,
                         freed, up, cur, reply, callVars>>

DecodePrivateKey(t) ==
  /\ At(t, "initPriv")
  /\ IF arg[t].priv = NoText THEN Crash
     ELSE /\ privateKey' = Decoded(arg[t].priv, privateKey)
          /\ ready' = (arg[t].priv.form = "ok")
          /\ InitReturns(t)
          /\ UNCHANGED <<chainVars, tx, rpcUrl, accountId, b58PubKey, publicKey,
                         freed, up, cur, reply, callVars>>

-----------------------------------------------------------------------------
(* Calls.  A request that cannot be built (no memory, a NULL account) ends  *)
(* like one without a handle, with cnearResponse ret = {0}; one sent without *)
(* "params" because cJSON_AddItemToObject failed gets an error reply.        *)

\* Mutant: the nonce is read from final blocks too.
QueryFinalityFinal(kind) == "final"

\* The finality each query builder asks for.
QueryFinality(kind) == IF kind = "view_access_key" THEN "optimistic" ELSE "final"

\* What an exchange may return, given the results the network may send.
exec_curl_rpc_call(results) ==
  {NoHandle, CurlError} \cup (IF rpcUrl THEN OtherReplies \cup results ELSE {})

Begin(t, c, r) ==
  /\ At(t, "idle")
  /\ MayCall
  /\ stage[c] = "new"
  /\ cur' = [cur EXCEPT ![t] = c]
  /\ stage' = [stage EXCEPT ![c] = "open"]
  /\ req' = [req EXCEPT ![c] =
       [r EXCEPT !.usable = ready, !.settled = \A u \in Threads : pc[u] \notin Initializing,
                 !.before = { d \in Calls : stage[d] \in {"done", "lost"} }]]

\* near_rpc_view_account, _view_state, _call_function, _view_access_key.
near_rpc_view(t, c, kind) ==
  /\ Begin(t, c, [BlankReq EXCEPT !.kind = kind])
  /\ Goto(t, "view")
  /\ UNCHANGED <<chainVars, tx, settings, up, arg, reply, ret>>

ServeView(t) ==
  /\ At(t, "view")
  /\ \E r \in exec_curl_rpc_call({Answer(200, "failed", 0),
                Answer(200, "result", HeightAt(QueryFinality(req[cur[t]].kind)))}) :
       reply' = [reply EXCEPT ![t] = r]
  /\ Goto(t, "viewed")
  /\ UNCHANGED <<chainVars, tx, settings, up, cur, arg, callVars>>

ReturnView(t) ==
  /\ At(t, "viewed")
  /\ Return(t, reply[t])
  /\ UNCHANGED <<chainVars, tx, settings, up, arg, req>>

\* signer_id points to near_account_id, public_key is a copy; the request for
\* the access key is built from near_account_id and near_b58_pub_key.
near_rpc_send_tx(t, c, status) ==
  /\ Begin(t, c, [BlankReq EXCEPT !.kind = "send", !.wait = status,
                                  !.account = accountId, !.key = b58PubKey])
  /\ tx' = [tx EXCEPT ![c].pub = publicKey]
  /\ Goto(t, "getKey")
  /\ UNCHANGED <<chainVars, settings, up, arg, reply, ret>>

\* near_contract_call sends a transaction that starts out blank, which is how
\* every call of near_rpc_send_tx starts here.
near_contract_call(t, c) == \E status \in WaitStatuses : near_rpc_send_tx(t, c, status)

\* Mutant: the request leaves out "public_key", any key of the account is read.
AskedAny(r) == { k \in AccessKeys : k[1] = r.account }

\* The access keys a request asks for: one, or none if its text is malformed.
Asked(r) == { k \in AccessKeys : r.key # NoText /\ r.key.form = "ok"
                                 /\ k = <<r.account, r.key.key>> }

ServeAccessKey(t) ==
  /\ At(t, "getKey")
  /\ LET r == req[cur[t]]
         nonces == { NonceAt(QueryFinality("view_access_key"), k) : k \in Asked(r) }
         outcomes == IF NoText \in {r.account, r.key} THEN {NoAnswer}
                     ELSE exec_curl_rpc_call({Answer(200, "failed", 0)}
                            \cup { Answer(200, "result", n) : n \in nonces })
     IN \E o \in outcomes : reply' = [reply EXCEPT ![t] = o]
  /\ Goto(t, "gotKey")
  /\ UNCHANGED <<chainVars, tx, settings, up, cur, arg, callVars>>

\* No usable access key: the outcome of the exchange is dropped.
GiveUp(t) ==
  /\ At(t, "gotKey")
  /\ reply[t].json = "null" \/ reply[t].code # 200 \/ reply[t].json = "failed"
  /\ Return(t, NoAnswer)
  /\ freed' = freed \ {cur[t]}
  /\ UNCHANGED <<chainVars, tx, rpcUrl, accountId, b58PubKey, publicKey, privateKey,
                 ready, up, arg, req>>

\* An error object under HTTP 200 has no "error" member, and no "block_hash":
\* base58_decode is given NULL.
DecodeNoBlockHash(t) ==
  /\ At(t, "gotKey")
  /\ reply[t].code = 200 /\ reply[t].json = "error"
  /\ Crash

TakeNonce(t) ==
  /\ At(t, "gotKey")
  /\ reply[t].code = 200 /\ reply[t].json = "result"
  /\ tx' = [tx EXCEPT ![cur[t]].nonce = AsDouble(reply[t].seen) + 1]
  /\ reply' = [reply EXCEPT ![t] = NoAnswer]
  /\ Goto(t, "sign")
  /\ UNCHANGED <<chainVars, settings, up, cur, arg, callVars>>

\* The key under which the signature verifies: ed25519_sign mixes both global
\* keys, and only a matching pair gives a valid signature.
sign_transaction == IF publicKey = privateKey THEN privateKey ELSE Junk

\* What reading signer_id finds.
SignerTexts(c) == IF c \in freed THEN Texts \cup {Junk} ELSE {accountId}

\* Mutant: the public key is read when it is used, like the account.
SignTxCopyingKey(t) ==
  /\ At(t, "sign")
  /\ \E signer \in SignerTexts(cur[t]), whole \in BOOLEAN :
       tx' = [tx EXCEPT ![cur[t]].signer = signer, ![cur[t]].whole = whole,
                        ![cur[t]].pub = publicKey, ![cur[t]].sig = sign_transaction]
  /\ freed' = freed \ {cur[t]}
  /\ Goto(t, "post")
  /\ UNCHANGED <<chainVars, rpcUrl, accountId, b58PubKey, publicKey, privateKey,
                 ready, up, cur, arg, reply, callVars>>

\* Serializing (incomplete when memory runs out: the return codes are not
\* looked at), signing and building the send_tx request.
SignTx(t) ==
  /\ At(t, "sign")
  /\ \E signer \in SignerTexts(cur[t]), whole \in BOOLEAN :
       tx' = [tx EXCEPT ![cur[t]].signer = signer, ![cur[t]].whole = whole,
                        ![cur[t]].sig = sign_transaction]
  /\ freed' = freed \ {cur[t]}
  /\ Goto(t, "post")
  /\ UNCHANGED <<chainVars, rpcUrl, accountId, b58PubKey, publicKey, privateKey,
                 ready, up, cur, arg, reply, callVars>>

\* Reading a freed signer_id may also end the process.
ReadFreedSigner(t) == At(t, "sign") /\ cur[t] \in freed /\ Crash

PostTx(t) ==
  /\ At(t, "post")
  /\ rpcUrl
  /\ wire' = wire \cup {cur[t]}
  /\ Goto(t, "await")
  /\ UNCHANGED <<pool, ledger, final, keyNonce, tx, settings, up, cur, arg,
                 reply, callVars>>

\* The exchange ends before anything is sent.
NotPosted(t) ==
  /\ At(t, "post")
  /\ \E r \in {NoHandle, CurlError} : Return(t, r)
  /\ UNCHANGED <<chainVars, tx, settings, up, arg, req>>

\* ... or after: broken off, with a reply that is no result, or with one.
ReturnTx(t) ==
  /\ At(t, "await")
  /\ \/ \E r \in {CurlError} \cup OtherReplies : Return(t, r)
     \/ /\ Reached(cur[t], TX_STATUS[req[cur[t]].wait + 1])
        /\ Return(t, Answer(200, "result", 0))
  /\ UNCHANGED <<chainVars, tx, settings, up, arg, req>>

-----------------------------------------------------------------------------
(* The process may be killed at any time, and started again.               *)

Kill == MayKill /\ up /\ Crash

Restart ==
  /\ ~ up
  /\ rpcUrl' = FALSE /\ accountId' = NoText /\ b58PubKey' = NoText
  /\ publicKey' = Zero /\ privateKey' = Zero
  /\ freed' = {} /\ ready' = FALSE /\ up' = TRUE
  /\ pc' = [t \in Threads |-> "idle"]
  /\ cur' = [t \in Threads |-> NoCall]
  /\ arg' = [t \in Threads |-> NoText]
  /\ reply' = [t \in Threads |-> NoAnswer]
  /\ stage' = [c \in Calls |-> IF stage[c] = "open" THEN "lost" ELSE stage[c]]
  /\ UNCHANGED <<chainVars, tx, req, ret>>

Settings(t) ==
  near_rpc_init(t) \/ near_rpc_cleanup(t) \/ near_account_init_json(t)
    \/ DecodePublicKey(t) \/ DecodePrivateKey(t)

\* The steps of a call that has begun.
CallStep(t) ==
  \/ ServeView(t) \/ ReturnView(t)
  \/ ServeAccessKey(t) \/ GiveUp(t) \/ DecodeNoBlockHash(t) \/ TakeNonce(t)
  \/ SignTx(t) \/ ReadFreedSigner(t) \/ PostTx(t) \/ NotPosted(t) \/ ReturnTx(t)

Chain ==
  /\ \/ \E c \in Calls : Admit(c) \/ Include(c) \/ Discard(c) \/ Execute(c)
     \/ Finalize
  /\ UNCHANGED <<settings, up, threadVars, callVars>>

Next ==
  \/ \E t \in Threads :
       \/ Settings(t)
       \/ \E c \in Calls : near_contract_call(t, c) \/ \E kind \in ViewKinds : near_rpc_view(t, c, kind)
       \/ CallStep(t)
  \/ Kill \/ Restart
  \/ Chain

Spec == Init /\ [][Next]_vars

-----------------------------------------------------------------------------
(* Properties.                                                             *)

TxType == [signer : Texts \cup {Junk}, pub : KeyBytes, nonce : Nat, sig : KeyBytes,
           whole : BOOLEAN]
ReqType == [kind : ViewKinds \cup {"none", "send"}, wait : 0..5, account : Texts,
            key : KeyTexts \cup {NoText}, usable : BOOLEAN, settled : BOOLEAN,
            before : SUBSET Calls]

\* Every variable has its type, and a thread has a call exactly while it is in
\* one: the shape of src/src/cnear.c's globals and of the calls on them.
TypeOK ==
  /\ tx \in [Calls -> TxType]
  /\ wire \subseteq Calls /\ pool \subseteq Calls
  /\ ledger \in Seq([call : Calls, step : Steps]) /\ final \in 0..Len(ledger)
  /\ keyNonce \in [AccessKeys -> Nat]
  /\ rpcUrl \in BOOLEAN /\ up \in BOOLEAN /\ ready \in BOOLEAN
  /\ accountId \in Texts /\ b58PubKey \in KeyTexts \cup {NoText}
  /\ publicKey \in KeyBytes /\ privateKey \in KeyBytes
  /\ pc \in [Threads -> PCs]
  /\ cur \in [Threads -> Calls \cup {NoCall}]
  /\ \A t \in Threads : cur[t] = NoCall <=> pc[t] \in {"idle"} \cup Initializing
  /\ arg \in [Threads -> Credentials \cup {NoText}]
  /\ reply \in [Threads -> Response]
  /\ req \in [Calls -> ReqType]
  /\ stage \in [Calls -> {"new", "open", "done", "lost"}]
  /\ ret \in [Calls -> Response]
  /\ freed \subseteq Calls

IsSend(c) == req[c].kind = "send"
ReturnedResult(c) == stage[c] = "done" /\ ret[c].code = 200 /\ ret[c].json = "result"

\* The statuses that cnear.h says mean the transaction is in a block, in a
\* final block, and that its receipts finished executing, in final blocks.
IncludedStatuses == 1..5
InFinalBlockStatuses == 3..5
ExecutedStatuses == {2, 4, 5}
FinalStatuses == {5}

\* A send that returned rpc_code 0 has posted nothing, and nothing of it will
\* ever take effect: it may be made again (the early returns of
\* near_rpc_send_tx, and exec_curl_rpc_call setting ret_code once it sends).
ZeroCodeMeansNotSent ==
  \A c \in Calls : IsSend(c) /\ stage[c] = "done" /\ ret[c].code = 0
                     => c \notin wire \cup pool \cup Included

\* A result under HTTP 200 means what cnear.h says of the nearTxStatus the
\* caller asked for, also when another exchange of the call went differently.
ResultMeansStatus ==
  \A c \in Calls : IsSend(c) /\ ReturnedResult(c) =>
    /\ req[c].wait \in IncludedStatuses => c \in Included
    /\ req[c].wait \in InFinalBlockStatuses => c \in FinallyIncluded
    /\ req[c].wait \in ExecutedStatuses => c \in Executed
    /\ req[c].wait \in FinalStatuses => c \in FinallyExecuted

\* Two transactions of one access key enter the chain in the order the
\* application made the calls, when one returned before the other began,
\* whatever was delayed, lost or never awaited, and across crashes: "Nonce is
\* used to determine order of transaction in the pool" (cnear.h).
IncludedInCallOrder ==
  \A i, j \in DOMAIN ledger :
    /\ ledger[i].step = "included" /\ ledger[j].step = "included"
    /\ ledger[i].call \in req[ledger[j].call].before
    /\ KeyOf(ledger[i].call) = KeyOf(ledger[j].call)
    => i < j

\* After a call that returned a result for a status that waits for a block,
\* the next transaction of the key gets a nonce of its own, so the network
\* does not discard it; below the numbers that printing may change.
FreshAfterConfirmed ==
  \A c, d \in Calls :
    /\ IsSend(d) /\ ReturnedResult(d) /\ req[d].wait \in IncludedStatuses
    /\ d \in req[c].before /\ KeyOf(c) = KeyOf(d)
    /\ tx[c].nonce \in 1..(Precise - 1)
    => tx[c].nonce > tx[d].nonce

\* What is signed after a successful near_account_init names the account and
\* key whose nonce it carries and is signed by that key, although the nonce
\* is fetched between reading the account and signing.
SignedByNamedKey ==
  \A c \in Calls : IsSend(c) /\ tx[c].whole /\ req[c].usable =>
    /\ KeyOf(c) = <<req[c].account, req[c].key.key>>
    /\ tx[c].sig = tx[c].pub

\* Where each key belongs to one account, the chain takes a transaction only
\* under the account and key whose nonce its call asked for, even if other
\* threads replace or free the settings while the call waits; unless one was
\* doing so when it began.
IncludedAsAsked ==
  (\A k, l \in AccessKeys : k[2] = l[2] => k = l) =>
    \A c \in Included : req[c].settled => KeyOf(c) = <<req[c].account, req[c].key.key>>

\* The settings come from one set of credentials after near_account_init
\* returned true, and until it is called again.
SettingsBelongTogether ==
  ready => \E cr \in { c \in Credentials : NoText \notin {c.account, c.pub, c.priv} } :
    /\ accountId \in {cr.account, NoText}
    /\ b58PubKey \in {cr.pub, NoText}
    /\ publicKey = cr.pub.key /\ privateKey = cr.priv.key

\* A view that begins after a call reported its receipts final sees what they
\* did: near_rpc_view_* ask for finality "final", NEAR_TX_STATUS_FINAL waits
\* for it, and of the statuses only that one does.
ReadsFinalWrites ==
  \A v, d \in Calls :
    /\ req[v].kind \in ViewKinds /\ ReturnedResult(v) /\ d \in req[v].before
    /\ IsSend(d) /\ ReturnedResult(d) /\ req[d].wait \in FinalStatuses
    => d \in Past("executed", ret[v].seen)

\* Unless it is killed from outside, the process does not end while
\* near_rpc_send_tx handles what the exchange for the access key brought
\* (README.md:134 "Returns the guaranteed execution status ...").
AccessKeyReplyHandled ==
  ~ MayKill => \A t \in Threads : pc[t] = "gotKey" => up

\* "A public key of the access key which was used to sign" (cnear.h:65),
\* after any near_account_init.
SignedWithPublicKey ==
  \A c \in Calls : IsSend(c) /\ tx[c].whole => tx[c].sig = tx[c].pub

-----------------------------------------------------------------------------
(* What the two properties of responses rest on: a thread in a call is the   *)
(* only one in it, and a transaction is with the network only if its send    *)
(* got to the point of waiting for the answer.                               *)

SendPCs == HoldsSigner \cup {"post", "await"}
InCall(t) == pc[t] \notin {"idle"} \cup Initializing
Placed == wire \cup pool \cup Included

OneThreadPerCall ==
  \A t \in Threads : InCall(t) =>
    /\ stage[cur[t]] = "open"
    /\ IsSend(cur[t]) <=> pc[t] \in SendPCs
    /\ \A u \in Threads : cur[u] = cur[t] => u = t

PlacedOnlyByAwaiting ==
  \A c \in Placed :
    /\ IsSend(c) /\ stage[c] # "new"
    /\ stage[c] = "open" => \E t \in Threads : cur[t] = c /\ pc[t] = "await"

PlacedOnce ==
  wire \cap pool = {} /\ (wire \cup pool) \cap Included = {} /\ Executed \subseteq Included

NewIsBlank == \A c \in Calls : stage[c] = "new" => req[c].kind = "none"

ResponseInv ==
  OneThreadPerCall /\ PlacedOnlyByAwaiting /\ PlacedOnce /\ NewIsBlank
    /\ ZeroCodeMeansNotSent /\ ResultMeansStatus

-----------------------------------------------------------------------------
(* near_rpc_send_tx implements TxCall.                                     *)

PhaseFor(r, s, a) ==
  CASE r.kind # "send" -> "new"
    [] r.kind = "send" /\ s = "open" -> "open"
    [] r.kind = "send" /\ s = "done" /\ a.code = 0 -> "notSent"
    [] /\ r.kind = "send" /\ s = "done" /\ r.wait \in ExecutedStatuses
       /\ a.code = 200 /\ a.json = "result" -> "confirmed"
    [] OTHER -> "unknown"

PhaseOf(c) == PhaseFor(req[c], stage[c], ret[c])

Promise == INSTANCE TxCall WITH phase <- [c \in Calls |-> PhaseOf(c)], applied <- Executed

\* Each behaviour of the library is one TxCall allows.
ImplementsTxCall == Promise!Spec
=============================================================================
