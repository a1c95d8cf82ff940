----------------------------- MODULE CNearProofs -----------------------------
(***************************************************************************)
(* Theorems about the library CNear, for every set of threads, calls,      *)
(* credentials and access keys: what responses say, which settings are     *)
(* signed with, what a view sees of the calls before it, and how nonces    *)
(* order transactions.                                                     *)
(***************************************************************************)
EXTENDS CNear, NaturalsInduction, WellFoundedInduction, TLAPS

-----------------------------------------------------------------------------
(* Numbers in JSON: conversions keep the order, and are exact as far as    *)
(* compare_double tells two integers apart.                                *)

\* Every set of naturals that is not empty has a least member.
LEMMA LeastMember ==
  ASSUME NEW T \in SUBSET Nat, T # {}
  PROVE  \E n \in T : \A m \in T : n <= m
<1> DEFINE less == {ss \in Nat \X Nat : ss[1] < ss[2]}
<1>1. less = OpToRel(<, Nat)
  BY Zenon DEF OpToRel
<1>2. \E x \in T : \A y \in T : <<y, x>> \notin OpToRel(<, Nat)
  BY NatLessThanWellFounded, WFMin, Zenon
<1>3. \E x \in T : \A y \in T : <<y, x>> \notin less
  BY <1>1, <1>2, Zenon
<1>4. \A x, y \in Nat : <<y, x>> \notin less => x <= y
  OBVIOUS
<1> HIDE DEF less
<1>5. QED BY <1>3, <1>4

LEMMA NearestClosest ==
  ASSUME NEW n \in Nat, NEW S \in SUBSET Nat, S # {}
  PROVE  Nearest(n, S) \in Closest(n, S)
<1> DEFINE closest == Closest(n, S)
           even == { m \in closest : \A k \in closest : k = m \/ m % (2 * Distance(k, m)) = 0 }
           distances == { Distance(n, m) : m \in S }
<1>1. distances \in SUBSET Nat /\ distances # {}
  <2>1. \A m \in S : Distance(n, m) \in Nat
    BY DEF Distance
  <2>2. QED BY <2>1
<1>2. PICK d \in distances : \A e \in distances : d <= e
  <2> HIDE DEF distances
  <2>1. QED BY <1>1, LeastMember
<1>3. closest # {}
  BY <1>2 DEF Closest
<1>4. even \subseteq closest
  OBVIOUS
<1>5. Nearest(n, S) = CHOOSE m \in closest : even # {} => m \in even
  BY DEF Nearest
<1> HIDE DEF closest, even
<1>6. \E m \in closest : even # {} => m \in even
  BY <1>3, <1>4
<1>7. Nearest(n, S) \in closest
  BY <1>5, <1>6, Zenon
<1>8. QED BY <1>7 DEF closest

LEMMA NearestIs ==
  ASSUME NEW n \in Nat, NEW S \in SUBSET Nat, S # {}
  PROVE  /\ Nearest(n, S) \in S /\ Nearest(n, S) \in Nat
         /\ \A k \in S : Distance(n, Nearest(n, S)) <= Distance(n, k)
         /\ n \in S => Nearest(n, S) = n
<1>1. Nearest(n, S) \in S /\ \A k \in S : Distance(n, Nearest(n, S)) <= Distance(n, k)
  BY NearestClosest DEF Closest
<1>2. ASSUME n \in S PROVE Nearest(n, S) = n
  <2>1. Distance(n, Nearest(n, S)) <= Distance(n, n) /\ Nearest(n, S) \in Nat
    BY <1>1, <1>2
  <2>2. ASSUME NEW p \in Nat, Distance(n, p) <= Distance(n, n) PROVE p = n
    BY <2>2 DEF Distance
  <2>3. QED BY <2>1, <2>2
<1>3. QED BY <1>1, <1>2

LEMMA NearestMonotone ==
  ASSUME NEW n \in Nat, NEW m \in Nat, n <= m, NEW S \in SUBSET Nat, S # {}
  PROVE  Nearest(n, S) <= Nearest(m, S)
<1> DEFINE p == Nearest(n, S)
           q == Nearest(m, S)
<1>1. /\ p \in S /\ q \in S /\ p \in Nat /\ q \in Nat
      /\ Distance(n, p) <= Distance(n, q) /\ Distance(m, q) <= Distance(m, p)
  BY NearestIs
<1>2. n = m => p = q
  OBVIOUS
<1> HIDE DEF p, q
<1>3. p <= q
  BY <1>1, <1>2 DEF Distance
<1>4. QED BY <1>3 DEF p, q

LEMMA Conversions ==
  /\ Doubles \in SUBSET Nat /\ Doubles # {} /\ Shorts \in SUBSET Nat /\ Shorts # {}
  /\ Precise \in Nat \ {0} /\ \A n \in Nat : n <= Precise => n \in Doubles
BY CNearAssumption

\* The texts of two doubles, and what they read back as.
Written(d) == Nearest(d, Shorts)
ReadBack(d) == Nearest(Written(d), Doubles)

LEMMA ReadBackIs ==
  ASSUME NEW d \in Doubles
  PROVE  /\ d \in Nat /\ Written(d) \in Nat /\ ReadBack(d) \in Nat /\ ReadBack(d) \in Doubles
         /\ \A e \in Doubles : /\ Written(d) <= e => ReadBack(d) <= e
                               /\ Written(d) >= e => ReadBack(d) >= e
<1>1. d \in Nat /\ Written(d) \in Nat
  BY Conversions, NearestIs DEF Written
<1>2. ReadBack(d) \in Nat /\ ReadBack(d) \in Doubles
  BY <1>1, Conversions, NearestIs DEF ReadBack
<1>3. ASSUME NEW e \in Doubles
      PROVE  /\ Written(d) <= e => ReadBack(d) <= e
             /\ Written(d) >= e => ReadBack(d) >= e
  <2>1. e \in Nat /\ Nearest(e, Doubles) = e
    BY Conversions, NearestIs
  <2>2. QED BY <1>1, <2>1, Conversions, NearestMonotone DEF ReadBack
<1>4. QED BY <1>1, <1>2, <1>3

LEMMA PrintIs ==
  ASSUME NEW d \in Doubles
  PROVE  print_number(d) = IF compare_double(ReadBack(d), d) THEN ReadBack(d) ELSE d
BY DEF print_number, ReadBack, Written

LEMMA TimesMonotone ==
  ASSUME NEW a \in Nat, NEW b \in Nat, NEW p \in Nat \ {0}, a <= b
  PROVE  a * p <= b * p /\ a <= a * p
<1>1. PICK e \in Nat : b = a + e
  <2>1. b - a \in Nat /\ b = a + (b - a)
    OBVIOUS
  <2>2. QED BY <2>1
<1>2. b * p = a * p + e * p /\ e * p \in Nat /\ a * p \in Nat
  BY <1>1
<1>3. PICK q \in Nat : p = q + 1
  <2>1. p - 1 \in Nat /\ p = (p - 1) + 1
    OBVIOUS
  <2>2. QED BY <2>1
<1>4. a * p = a * q + a /\ a * q \in Nat
  BY <1>3
<1>5. QED BY <1>2, <1>4

LEMMA PrintMonotone ==
  ASSUME NEW d \in Doubles, NEW e \in Doubles, d <= e
  PROVE  print_number(d) <= print_number(e)
<1> DEFINE s == ReadBack(d)
           r == ReadBack(e)
<1>1. /\ d \in Nat /\ e \in Nat /\ s \in Nat /\ r \in Nat
      /\ Written(d) \in Nat /\ Written(e) \in Nat
      /\ Precise \in Nat \ {0}
  BY ReadBackIs, Conversions
<1>2. Written(d) <= Written(e)
  BY <1>1, Conversions, NearestMonotone DEF Written
<1>3. s <= r
  BY <1>1, <1>2, Conversions, NearestMonotone DEF ReadBack
<1>4. /\ Distance(d, Written(d)) <= Distance(d, Written(e))
      /\ Distance(e, Written(e)) <= Distance(e, Written(d))
  BY <1>1, Conversions, NearestIs DEF Written
<1>5. CASE compare_double(s, d) /\ ~ compare_double(r, e)
  <2>1. SUFFICES ASSUME s > e PROVE FALSE
    BY <1>1, <1>5, PrintIs
  <2>2. Written(d) > e
    BY <1>1, <2>1, ReadBackIs
  <2>3. Written(e) = Written(d)
    BY <1>1, <1>2, <1>4, <2>2 DEF Distance
  <2>4. r = s
    BY <2>3 DEF ReadBack
  <2> HIDE DEF s, r
  <2>5. (s - d) * Precise <= s /\ ~ (s - e) * Precise <= s
    BY <1>1, <1>5, <2>1, <2>4 DEF compare_double, Distance
  <2>6. (s - e) * Precise <= (s - d) * Precise
    <3>1. s - e \in Nat /\ s - d \in Nat /\ s - e <= s - d
      BY <1>1, <2>1
    <3>2. QED BY <1>1, <3>1, TimesMonotone
  <2>7. (s - e) * Precise \in Int /\ (s - d) * Precise \in Int
    BY <1>1
  <2>8. QED BY <1>1, <2>5, <2>6, <2>7
<1>6. CASE ~ compare_double(s, d) /\ compare_double(r, e)
  <2>1. SUFFICES ASSUME r < d PROVE FALSE
    BY <1>1, <1>6, PrintIs
  <2>2. Written(e) < d
    BY <1>1, <2>1, ReadBackIs
  <2>3. Written(e) = Written(d)
    BY <1>1, <1>2, <1>4, <2>2 DEF Distance
  <2>4. r = s
    BY <2>3 DEF ReadBack
  <2> HIDE DEF s, r
  <2>5. (e - r) * Precise <= e /\ ~ (d - r) * Precise <= d
    BY <1>1, <1>6, <2>1, <2>4 DEF compare_double, Distance
  <2>6. PICK x \in Nat : e = d + x
    <3>1. e - d \in Nat /\ e = d + (e - d)
      BY <1>1
    <3>2. QED BY <3>1
  <2>7. (e - r) * Precise = (d - r) * Precise + x * Precise
    BY <1>1, <2>6
  <2>8. x <= x * Precise /\ x * Precise \in Nat /\ (d - r) * Precise \in Int
    BY <1>1, TimesMonotone
  <2>9. QED BY <1>1, <2>5, <2>6, <2>7, <2>8
<1>7. QED
  BY <1>1, <1>3, <1>5, <1>6, PrintIs

LEMMA PrintType ==
  ASSUME NEW d \in Doubles
  PROVE  print_number(d) \in Doubles /\ print_number(d) \in Nat
BY ReadBackIs, PrintIs, Conversions

LEMMA PrintExact ==
  ASSUME NEW d \in Doubles, print_number(d) + 1 <= Precise - 1
  PROVE  print_number(d) = d /\ d < Precise
<1> DEFINE s == ReadBack(d)
<1>1. d \in Nat /\ s \in Nat /\ Precise \in Nat \ {0}
  BY ReadBackIs, Conversions
<1>2. CASE ~ compare_double(s, d)
  BY <1>1, <1>2, PrintIs
<1>3. CASE compare_double(s, d)
  <2>1. print_number(d) = s
    BY <1>3, PrintIs
  <2> HIDE DEF s
  <2>2. Distance(s, d) * Precise <= (IF s < d THEN d ELSE s) /\ s + 1 <= Precise - 1
    BY <1>3, <2>1 DEF compare_double
  <2>3. CASE d < Precise
    <3>1. Distance(s, d) \in Nat
      BY <1>1 DEF Distance
    <3>2. Distance(s, d) * Precise < Precise
      <4>1. Distance(s, d) * Precise \in Nat
        BY <1>1, <3>1
      <4>2. QED BY <1>1, <2>2, <2>3, <4>1
    <3>3. Distance(s, d) = 0
      <4>1. SUFFICES ASSUME 1 <= Distance(s, d) PROVE FALSE
        BY <3>1
      <4>2. 1 * Precise <= Distance(s, d) * Precise
        BY <1>1, <3>1, <4>1, TimesMonotone
      <4>3. Distance(s, d) * Precise \in Nat
        BY <1>1, <3>1
      <4>4. QED BY <1>1, <3>2, <4>2, <4>3
    <3>4. QED BY <1>1, <2>1, <2>3, <3>3 DEF Distance
  <2>4. CASE d >= Precise
    <3>1. PICK x \in Nat : d = Precise + x
      <4>1. d - Precise \in Nat /\ d = Precise + (d - Precise)
        BY <1>1, <2>4
      <4>2. QED BY <4>1
    <3>2. (d - s) * Precise <= d /\ d - s \in Nat /\ x + 2 <= d - s
      BY <1>1, <2>2, <2>4, <3>1 DEF Distance
    <3>3. (x + 2) * Precise <= (d - s) * Precise
      BY <1>1, <3>2, TimesMonotone
    <3>4. (x + 2) * Precise = x * Precise + 2 * Precise /\ x <= x * Precise
      BY <1>1, TimesMonotone
    <3>5. x * Precise \in Nat /\ (d - s) * Precise \in Nat
      BY <1>1, <3>2
    <3>6. QED BY <1>1, <3>1, <3>2, <3>3, <3>4, <3>5
  <2>5. QED BY <1>1, <2>3, <2>4
<1>4. QED BY <1>2, <1>3

LEMMA AsDoubleType == \A n \in Nat : AsDouble(n) \in Nat
BY Conversions, NearestIs, PrintType DEF AsDouble

LEMMA AsDoubleMonotone ==
  ASSUME NEW n \in Nat, NEW m \in Nat, n <= m
  PROVE  AsDouble(n) <= AsDouble(m)
BY Conversions, NearestIs, NearestMonotone, PrintMonotone DEF AsDouble

LEMMA AsDoubleExact ==
  ASSUME NEW n \in Nat, AsDouble(n) + 1 <= Precise - 1
  PROVE  AsDouble(n) = n
<1>1. /\ Nearest(n, Doubles) \in Doubles /\ Nearest(n, Doubles) \in Nat
      /\ n \in Doubles => Nearest(n, Doubles) = n
  BY Conversions, NearestIs
<1>2. AsDouble(n) = Nearest(n, Doubles) /\ Nearest(n, Doubles) < Precise
  BY <1>1, PrintExact DEF AsDouble
<1>3. n <= Precise
  <2>1. SUFFICES ASSUME n > Precise PROVE FALSE
    BY Conversions
  <2>2. Nearest(Precise, Doubles) <= Nearest(n, Doubles)
    BY <2>1, Conversions, NearestMonotone
  <2>3. Nearest(Precise, Doubles) = Precise
    BY Conversions, NearestIs
  <2>4. QED BY <1>1, <1>2, <2>2, <2>3, Conversions
<1>4. QED BY <1>1, <1>2, <1>3, Conversions

-----------------------------------------------------------------------------
(* Responses and replies.                                                  *)

LEMMA ResponseTypes ==
  /\ NoAnswer \in Response /\ CurlError \in Response /\ NoHandle \in Response
  /\ OtherReplies \subseteq Response
  /\ \A n \in Nat : Answer(200, "result", n) \in Response
  /\ Answer(200, "failed", 0) \in Response
BY DEF NoAnswer, NoHandle, CurlError, OtherReplies, Answer, Response, Codes, Jsons

LEMMA ExchangeType ==
  ASSUME NEW R, R \subseteq Response
  PROVE  exec_curl_rpc_call(R) \subseteq Response
BY ResponseTypes DEF exec_curl_rpc_call

LEMMA ReqTypes ==
  /\ BlankReq \in ReqType
  /\ \A status \in WaitStatuses, a \in Texts, k \in KeyTexts \cup {NoText} :
       [BlankReq EXCEPT !.kind = "send", !.wait = status, !.account = a, !.key = k] \in ReqType
  /\ \A kind \in ViewKinds : [BlankReq EXCEPT !.kind = kind] \in ReqType
  /\ \A r \in ReqType, u, s \in BOOLEAN, b \in SUBSET Calls :
       [r EXCEPT !.usable = u, !.settled = s, !.before = b] \in ReqType
<1>1. BlankReq \in ReqType
  BY DEF BlankReq, ReqType, Texts
<1>2. ASSUME NEW r \in ReqType, NEW u \in BOOLEAN, NEW s \in BOOLEAN, NEW b \in SUBSET Calls
      PROVE  [r EXCEPT !.usable = u, !.settled = s, !.before = b] \in ReqType
  BY DEF ReqType
<1>3. ASSUME NEW r \in ReqType, NEW kind \in ViewKinds
      PROVE  [r EXCEPT !.kind = kind] \in ReqType
  BY DEF ReqType
<1>4. ASSUME NEW r \in ReqType, NEW status \in WaitStatuses, NEW a \in Texts,
             NEW k \in KeyTexts \cup {NoText}
      PROVE  [r EXCEPT !.kind = "send", !.wait = status, !.account = a, !.key = k] \in ReqType
  BY CNearAssumption DEF ReqType
<1>5. QED BY <1>1, <1>2, <1>3, <1>4

LEMMA CompleteCredential ==
  ASSUME NEW cr \in Credentials
  PROVE  /\ cr.account # NoText => cr.account \in Accounts
         /\ cr.pub # NoText => cr.pub \in KeyTexts
         /\ cr.priv # NoText => cr.priv \in KeyTexts
<1>1. cr \in CredentialType
  BY CredentialsAssumption
<1>2. QED BY <1>1 DEF CredentialType, Texts

LEMMA DecodedType ==
  ASSUME NEW text \in KeyTexts, NEW old \in KeyBytes
  PROVE  Decoded(text, old) \in KeyBytes
BY DEF Decoded, KeyTexts, KeyBytes, Forms

-----------------------------------------------------------------------------
(* Types.  near_account_init's arguments are complete while it decodes.    *)

ArgsComplete ==
  \A t \in Threads : pc[t] \in Initializing =>
    /\ arg[t] \in Credentials
    /\ arg[t].account # NoText /\ arg[t].pub # NoText

TypeInv == TypeOK /\ ArgsComplete

\* The blocks' events, in order.
Events == [call : Calls, step : Steps]

LEMMA LedgerIs ==
  ASSUME TypeInv
  PROVE  /\ ledger \in Seq(Events) /\ Len(ledger) \in Nat /\ DOMAIN ledger = 1..Len(ledger)
         /\ final \in 0..Len(ledger) /\ final \in Nat
         /\ \A i \in 1..Len(ledger) : ledger[i].call \in Calls
<1>1. ledger \in Seq(Events) /\ final \in 0..Len(ledger)
  BY DEF TypeInv, TypeOK, Events
<1>2. \A i \in 1..Len(ledger) : ledger[i] \in Events
  BY <1>1
<1>3. QED BY <1>1, <1>2 DEF Events

LEMMA PastType ==
  ASSUME TypeInv
  PROVE  /\ Included \subseteq Calls /\ Executed \subseteq Calls
         /\ FinallyIncluded \subseteq Included /\ FinallyExecuted \subseteq Executed
BY LedgerIs DEF Past, Included, Executed, FinallyIncluded, FinallyExecuted

\* One more event, of one call.
LEMMA EventAppended ==
  ASSUME TypeInv, NEW c \in Calls, NEW step \in Steps, ledger' = Append(ledger, Event(c, step))
  PROVE  /\ ledger' \in Seq(Events) /\ Len(ledger') = Len(ledger) + 1
         /\ DOMAIN ledger' = 1..(Len(ledger) + 1)
         /\ \A i \in 1..Len(ledger) : ledger'[i] = ledger[i]
         /\ ledger'[Len(ledger) + 1] = Event(c, step)
<1>1. Event(c, step) \in Events
  BY DEF Event, Events
<1>2. QED BY <1>1, LedgerIs

LEMMA TypeInit == Init => TypeInv
<1> SUFFICES ASSUME Init PROVE TypeInv OBVIOUS
<1> USE CredentialsAssumption, CNearAssumption, FirstNonceAssumption, ResponseTypes
        DEF Init, ChainInit, InitProcess
<1>1. tx \in [Calls -> TxType]
  BY DEF TxType, BlankTx, Texts, KeyBytes
<1>2. req \in [Calls -> ReqType]
  BY DEF ReqType, BlankReq, Texts
<1>3. ledger \in Seq([call : Calls, step : Steps]) /\ final \in 0..Len(ledger)
  OBVIOUS
<1>4. TypeOK
  BY <1>1, <1>2, <1>3 DEF TypeOK, Texts, KeyBytes, PCs
<1>5. ArgsComplete
  BY DEF ArgsComplete, Initializing
<1>6. QED BY <1>4, <1>5 DEF TypeInv

LEMMA CallOfThread ==
  ASSUME TypeOK, NEW t \in Threads, pc[t] \notin {"idle"} \cup Initializing
  PROVE  cur[t] \in Calls
BY DEF TypeOK

LEMMA DanglingType == TypeOK => Dangling \subseteq Calls
<1> SUFFICES ASSUME TypeOK, NEW u \in Threads, pc[u] \in HoldsSigner PROVE cur[u] \in Calls
  BY DEF Dangling
<1>1. pc[u] \notin {"idle"} \cup Initializing
  BY DEF HoldsSigner, Initializing
<1>2. QED BY <1>1, CallOfThread

LEMMA SettingsType ==
  ASSUME TypeInv, NEW t \in Threads, Settings(t)
  PROVE  TypeInv'
<1> USE DEF TypeInv, TypeOK, chainVars, threadVars, callVars, ArgsComplete, Initializing
<1>1. CASE near_rpc_init(t)
  BY <1>1 DEF near_rpc_init
<1>2. CASE near_rpc_cleanup(t)
  BY <1>2, DanglingType DEF near_rpc_cleanup, Texts
<1>3. ASSUME NEW cr \in Credentials, near_account_init(t, cr) PROVE TypeInv'
  <2>1. CASE NoText \in {cr.account, cr.pub}
    BY <1>3, <2>1 DEF near_account_init, Crash, settings
  <2>2. CASE NoText \notin {cr.account, cr.pub}
    <3>1. cr.account \in Accounts /\ cr.pub \in KeyTexts
      BY <2>2, CompleteCredential
    <3>2. /\ accountId' \in Texts /\ b58PubKey' \in KeyTexts \cup {NoText}
          /\ freed' \subseteq Calls /\ ready' \in BOOLEAN
      BY <1>3, <2>2, <3>1, DanglingType DEF near_account_init, Texts
    <3>3. /\ pc[t] = "idle" /\ pc' = [pc EXCEPT ![t] = "initPub"]
          /\ arg' = [arg EXCEPT ![t] = cr]
          /\ UNCHANGED <<chainVars, tx, rpcUrl, publicKey, privateKey, up, cur, reply, callVars>>
      BY <1>3, <2>2 DEF near_account_init, Goto, At
    <3>4. pc' \in [Threads -> PCs] /\ arg' \in [Threads -> Credentials \cup {NoText}]
      BY <3>3 DEF PCs
    <3>5. ArgsComplete'
      BY <3>1, <3>3, CredentialsAssumption
    <3>6. QED BY <3>1, <3>2, <3>3, <3>4, <3>5
  <2>3. QED BY <2>1, <2>2
<1>4. CASE DecodePublicKey(t)
  <2>1. arg[t] \in Credentials /\ arg[t].pub \in KeyTexts
    BY <1>4, CompleteCredential DEF DecodePublicKey, At
  <2>2. publicKey' \in KeyBytes
    BY <1>4, <2>1, DecodedType DEF DecodePublicKey
  <2>3. pc' \in [Threads -> PCs] /\ arg' \in [Threads -> Credentials \cup {NoText}]
    BY <1>4 DEF DecodePublicKey, InitReturns, Goto, PCs
  <2>4. ArgsComplete'
    BY <1>4, <2>3 DEF DecodePublicKey, InitReturns, Goto, At
  <2>5. QED BY <1>4, <2>2, <2>3, <2>4 DEF DecodePublicKey, InitReturns, Goto, At
<1>5. CASE DecodePrivateKey(t)
  <2>1. CASE arg[t].priv = NoText
    BY <1>5, <2>1 DEF DecodePrivateKey, Crash, settings
  <2>2. CASE arg[t].priv # NoText
    <3>1. arg[t] \in Credentials /\ arg[t].priv \in KeyTexts
      BY <1>5, <2>2, CompleteCredential DEF DecodePrivateKey, At
    <3>2. privateKey' \in KeyBytes
      BY <1>5, <2>2, <3>1, DecodedType DEF DecodePrivateKey
    <3>3. pc' \in [Threads -> PCs]
      BY <1>5, <2>2 DEF DecodePrivateKey, InitReturns, Goto, PCs
    <3>4. QED
      BY <1>5, <2>2, <3>2, <3>3 DEF DecodePrivateKey, InitReturns, Goto, At
  <2>3. QED BY <2>1, <2>2
<1>6. QED
  BY <1>1, <1>2, <1>3, <1>4, <1>5 DEF Settings, near_account_init_json

LEMMA BeginType ==
  ASSUME TypeInv, NEW t \in Threads, NEW c \in Calls,
         \/ \E status \in WaitStatuses : near_rpc_send_tx(t, c, status)
         \/ \E kind \in ViewKinds : near_rpc_view(t, c, kind)
  PROVE  TypeInv'
<1> USE DEF TypeInv, TypeOK, chainVars, threadVars, callVars, settings, ArgsComplete, Initializing
<1>1. ASSUME NEW r \in ReqType, NEW label \in {"view", "getKey"},
             Begin(t, c, r), Goto(t, label), UNCHANGED arg
      PROVE  /\ req' \in [Calls -> ReqType]
             /\ stage' \in [Calls -> {"new", "open", "done", "lost"}]
             /\ cur' \in [Threads -> Calls \cup {NoCall}]
             /\ pc' \in [Threads -> PCs]
             /\ \A u \in Threads : cur'[u] = NoCall <=> pc'[u] \in {"idle"} \cup Initializing
             /\ ArgsComplete'
  <2>1. pc' \in [Threads -> PCs]
    BY <1>1 DEF Goto, PCs, HoldsSigner
  <2>2. req' \in [Calls -> ReqType]
    BY <1>1, ReqTypes DEF Begin
  <2>3. \A u \in Threads : cur'[u] = NoCall <=> pc'[u] \in {"idle"} \cup Initializing
    BY <1>1, CNearAssumption DEF Begin, Goto, At
  <2>4. QED BY <1>1, <2>1, <2>2, <2>3 DEF Begin, Goto
<1>2. ASSUME NEW status \in WaitStatuses, near_rpc_send_tx(t, c, status) PROVE TypeInv'
  <2> DEFINE r == [BlankReq EXCEPT !.kind = "send", !.wait = status,
                                  !.account = accountId, !.key = b58PubKey]
  <2>1. r \in ReqType
    BY ReqTypes
  <2>2. tx' \in [Calls -> TxType]
    BY <1>2 DEF near_rpc_send_tx, TxType
  <2>3. Begin(t, c, r) /\ Goto(t, "getKey")
    BY <1>2 DEF near_rpc_send_tx
  <2> HIDE DEF r
  <2>4. QED BY <1>2, <1>1, <2>1, <2>2, <2>3 DEF near_rpc_send_tx
<1>3. ASSUME NEW kind \in ViewKinds, near_rpc_view(t, c, kind) PROVE TypeInv'
  <2> DEFINE r == [BlankReq EXCEPT !.kind = kind]
  <2>1. r \in ReqType
    BY ReqTypes
  <2>2. Begin(t, c, r) /\ Goto(t, "view")
    BY <1>3 DEF near_rpc_view
  <2> HIDE DEF r
  <2>3. QED BY <1>3, <1>1, <2>1, <2>2 DEF near_rpc_view
<1>4. QED BY <1>2, <1>3

LEMMA ReturnType ==
  ASSUME TypeInv, NEW t \in Threads, pc[t] \notin {"idle"} \cup Initializing,
         NEW r \in Response, Return(t, r), UNCHANGED arg
  PROVE  /\ pc' \in [Threads -> PCs]
         /\ cur' \in [Threads -> Calls \cup {NoCall}]
         /\ \A u \in Threads : cur'[u] = NoCall <=> pc'[u] \in {"idle"} \cup Initializing
         /\ reply' \in [Threads -> Response]
         /\ stage' \in [Calls -> {"new", "open", "done", "lost"}]
         /\ ret' \in [Calls -> Response]
         /\ ArgsComplete'
<1> USE DEF TypeInv, TypeOK, ArgsComplete, Initializing
<1>1. cur[t] \in Calls
  BY CallOfThread
<1>2. pc' \in [Threads -> PCs]
  BY DEF Return, Goto, PCs
<1>3. \A u \in Threads : cur'[u] = NoCall <=> pc'[u] \in {"idle"} \cup Initializing
  BY DEF Return, Goto
<1>4. QED BY <1>1, <1>2, <1>3, ResponseTypes DEF Return, Goto

\* The steps of a call that only change where the thread is, what it was
\* answered, and its transaction.
LEMMA MoveType ==
  ASSUME TypeInv, NEW t \in Threads, pc[t] \notin {"idle"} \cup Initializing,
         NEW label \in PCs \ ({"idle"} \cup Initializing), Goto(t, label),
         UNCHANGED <<cur, arg>>
  PROVE  /\ pc' \in [Threads -> PCs]
         /\ \A u \in Threads : cur'[u] = NoCall <=> pc'[u] \in {"idle"} \cup Initializing
         /\ ArgsComplete'
BY DEF TypeInv, TypeOK, ArgsComplete, Goto, PCs

LEMMA CallStepType ==
  ASSUME TypeInv, NEW t \in Threads, CallStep(t)
  PROVE  TypeInv'
<1> USE DEF chainVars, threadVars, callVars, settings
<1>1. CASE ServeView(t)
  <2>1. HeightAt(QueryFinality(req[cur[t]].kind)) \in Nat
    BY LedgerIs DEF HeightAt
  <2> DEFINE R == {Answer(200, "failed", 0),
                   Answer(200, "result", HeightAt(QueryFinality(req[cur[t]].kind)))}
  <2>a. exec_curl_rpc_call(R) \subseteq Response
    BY <2>1, ResponseTypes, ExchangeType
  <2>b. \E r \in exec_curl_rpc_call(R) : reply' = [reply EXCEPT ![t] = r]
    BY <1>1 DEF ServeView
  <2>2. reply' \in [Threads -> Response]
    <3> HIDE DEF R
    <3>1. QED BY <2>a, <2>b DEF TypeInv, TypeOK
  <2>3. pc[t] \notin {"idle"} \cup Initializing
    BY <1>1 DEF ServeView, At, Initializing
  <2>4. "viewed" \in PCs \ ({"idle"} \cup Initializing)
    BY DEF PCs, Initializing
  <2>5. QED BY <1>1, <2>2, <2>3, <2>4, MoveType DEF ServeView, TypeInv, TypeOK
<1>2. CASE ReturnView(t)
  <2>1. pc[t] \notin {"idle"} \cup Initializing /\ reply[t] \in Response
    BY <1>2 DEF ReturnView, At, Initializing, TypeInv, TypeOK
  <2>2. QED BY <1>2, <2>1, ReturnType DEF ReturnView, TypeInv, TypeOK
<1>3. CASE ServeAccessKey(t)
  <2>1. \A k \in Asked(req[cur[t]]) :
           Answer(200, "result", NonceAt(QueryFinality("view_access_key"), k)) \in Response
    BY ResponseTypes DEF NonceAt, QueryFinality, Asked, TypeInv, TypeOK
  <2> DEFINE R == {Answer(200, "failed", 0)} \cup
                   { Answer(200, "result", n) :
                       n \in { NonceAt(QueryFinality("view_access_key"), k) : k \in Asked(req[cur[t]]) } }
  <2>a. R \subseteq Response
    BY <2>1, ResponseTypes
  <2>b. exec_curl_rpc_call(R) \cup {NoAnswer} \subseteq Response
    BY <2>a, ResponseTypes, ExchangeType
  <2>c. \E r \in exec_curl_rpc_call(R) \cup {NoAnswer} : reply' = [reply EXCEPT ![t] = r]
    BY <1>3 DEF ServeAccessKey
  <2>2. reply' \in [Threads -> Response]
    <3> HIDE DEF R
    <3>1. QED BY <2>b, <2>c DEF TypeInv, TypeOK
  <2>3. pc[t] \notin {"idle"} \cup Initializing
    BY <1>3 DEF ServeAccessKey, At, Initializing
  <2>4. "gotKey" \in PCs \ ({"idle"} \cup Initializing)
    BY DEF PCs, Initializing, HoldsSigner
  <2>5. QED BY <1>3, <2>2, <2>3, <2>4, MoveType DEF ServeAccessKey, TypeInv, TypeOK
<1>4. CASE GiveUp(t)
  <2>1. pc[t] \notin {"idle"} \cup Initializing
    BY <1>4 DEF GiveUp, At, Initializing
  <2>2. QED BY <1>4, <2>1, ReturnType, ResponseTypes DEF GiveUp, TypeInv, TypeOK
<1>5. CASE DecodeNoBlockHash(t) \/ ReadFreedSigner(t)
  BY <1>5 DEF DecodeNoBlockHash, ReadFreedSigner, Crash, TypeInv, TypeOK, ArgsComplete
<1>6. CASE TakeNonce(t)
  <2>1. pc[t] \notin {"idle"} \cup Initializing
    BY <1>6 DEF TakeNonce, At, Initializing
  <2>a. cur[t] \in Calls /\ tx[cur[t]] \in TxType /\ reply[t] \in Response
    BY <2>1, CallOfThread DEF TypeInv, TypeOK
  <2>b. reply[t].seen \in Nat
    BY <2>a DEF Response
  <2>2. AsDouble(reply[t].seen) + 1 \in Nat
    BY <2>b, AsDoubleType
  <2>c. [tx[cur[t]] EXCEPT !.nonce = AsDouble(reply[t].seen) + 1] \in TxType
    BY <2>a, <2>2 DEF TxType
  <2>3. tx' \in [Calls -> TxType]
    BY <1>6, <2>a, <2>c DEF TakeNonce, TypeInv, TypeOK
  <2>4. "sign" \in PCs \ ({"idle"} \cup Initializing)
    BY DEF PCs, Initializing, HoldsSigner
  <2>5. QED BY <1>6, <2>1, <2>3, <2>4, MoveType, ResponseTypes DEF TakeNonce, TypeInv, TypeOK
<1>7. CASE SignTx(t)
  <2>1. pc[t] \notin {"idle"} \cup Initializing
    BY <1>7 DEF SignTx, At, Initializing
  <2>2. sign_transaction \in KeyBytes /\ SignerTexts(cur[t]) \subseteq Texts \cup {Junk}
    BY DEF sign_transaction, SignerTexts, KeyBytes, TypeInv, TypeOK
  <2>a. cur[t] \in Calls /\ tx[cur[t]] \in TxType
    BY <2>1, CallOfThread DEF TypeInv, TypeOK
  <2>b. PICK signer \in Texts \cup {Junk}, whole \in BOOLEAN :
          tx' = [tx EXCEPT ![cur[t]].signer = signer, ![cur[t]].whole = whole,
                           ![cur[t]].sig = sign_transaction]
    BY <1>7, <2>2 DEF SignTx
  <2>3. tx' \in [Calls -> TxType]
    BY <2>a, <2>b, <2>2 DEF TypeInv, TypeOK, TxType
  <2>4. "post" \in PCs \ ({"idle"} \cup Initializing)
    BY DEF PCs, Initializing
  <2>5. QED BY <1>7, <2>1, <2>3, <2>4, MoveType DEF SignTx, TypeInv, TypeOK
<1>8. CASE PostTx(t)
  <2>1. pc[t] \notin {"idle"} \cup Initializing
    BY <1>8 DEF PostTx, At, Initializing
  <2>2. "await" \in PCs \ ({"idle"} \cup Initializing)
    BY DEF PCs, Initializing
  <2>3. QED BY <1>8, <2>1, <2>2, MoveType, CallOfThread DEF PostTx, TypeInv, TypeOK
<1>9. CASE NotPosted(t) \/ ReturnTx(t)
  <2>1. pc[t] \notin {"idle"} \cup Initializing
    BY <1>9 DEF NotPosted, ReturnTx, At, Initializing
  <2>2. PICK r \in Response : Return(t, r)
    BY <1>9, ResponseTypes DEF NotPosted, ReturnTx
  <2>3. UNCHANGED <<chainVars, tx, settings, up, arg, req>>
    BY <1>9 DEF NotPosted, ReturnTx
  <2>4. QED BY <2>1, <2>2, <2>3, ReturnType DEF TypeInv, TypeOK
<1>10. QED
  BY <1>1, <1>2, <1>3, <1>4, <1>5, <1>6, <1>7, <1>8, <1>9 DEF CallStep

LEMMA RestartType ==
  ASSUME TypeInv, Restart
  PROVE  TypeInv'
BY ResponseTypes, CNearAssumption
   DEF Restart, TypeInv, TypeOK, ArgsComplete, PCs, Initializing, Texts, KeyBytes, chainVars

LEMMA ChainType ==
  ASSUME TypeInv, Chain
  PROVE  TypeInv'
<1> USE DEF TypeInv, TypeOK, ArgsComplete, settings, threadVars, callVars
<1>1. ASSUME NEW c \in Calls, Admit(c) \/ Discard(c) PROVE TypeInv'
  BY <1>1, Chain DEF Chain, Admit, Discard
<1>2. ASSUME NEW c \in Calls, Include(c) PROVE TypeInv'
  <2>1. ledger' \in Seq(Events) /\ final' \in 0..Len(ledger')
    BY <1>2, EventAppended, LedgerIs DEF Include, Steps
  <2>2. keyNonce' \in [AccessKeys -> Nat]
    BY <1>2 DEF Include, Acceptable, TxType
  <2>3. QED BY <1>2, <2>1, <2>2, Chain DEF Chain, Include, Events
<1>3. ASSUME NEW c \in Calls, Execute(c) PROVE TypeInv'
  <2>1. ledger' \in Seq(Events) /\ final' \in 0..Len(ledger')
    BY <1>3, EventAppended, LedgerIs DEF Execute, Steps
  <2>2. QED BY <1>3, <2>1, Chain DEF Chain, Execute, Events
<1>4. CASE Finalize
  <2>1. ledger' = ledger /\ final' \in 0..Len(ledger)
    BY <1>4, LedgerIs DEF Finalize
  <2>2. QED BY <1>4, <2>1, Chain DEF Chain, Finalize
<1>5. QED BY <1>1, <1>2, <1>3, <1>4, Chain DEF Chain

LEMMA TypeStep == TypeInv /\ [Next]_vars => TypeInv'
<1> SUFFICES ASSUME TypeInv, [Next]_vars PROVE TypeInv'
  OBVIOUS
<1>1. ASSUME NEW t \in Threads, Settings(t) PROVE TypeInv'
  BY <1>1, SettingsType
<1>2. ASSUME NEW t \in Threads, NEW c \in Calls,
             near_contract_call(t, c) \/ \E kind \in ViewKinds : near_rpc_view(t, c, kind)
      PROVE  TypeInv'
  BY <1>2, BeginType DEF near_contract_call
<1>3. ASSUME NEW t \in Threads, CallStep(t) PROVE TypeInv'
  BY <1>3, CallStepType
<1>4. CASE Kill
  BY <1>4 DEF Kill, Crash, TypeInv, TypeOK, ArgsComplete,
              chainVars, settings, threadVars, callVars
<1>5. CASE Restart
  BY <1>5, RestartType
<1>6. CASE Chain
  BY <1>6, ChainType
<1>7. CASE UNCHANGED vars
  BY <1>7 DEF vars, TypeInv, TypeOK, ArgsComplete, chainVars, settings, threadVars, callVars
<1>8. QED BY <1>1, <1>2, <1>3, <1>4, <1>5, <1>6, <1>7 DEF Next

\* Every variable always has its type.
THEOREM TypeCorrect == Spec => []TypeOK
BY TypeInit, TypeStep, PTL DEF Spec, TypeInv

-----------------------------------------------------------------------------
(* Responses.                                                              *)

LEMMA LedgerSame ==
  ASSUME UNCHANGED ledger
  PROVE  /\ Included' = Included /\ Executed' = Executed
         /\ final' = final => FinallyIncluded' = FinallyIncluded /\ FinallyExecuted' = FinallyExecuted
BY DEF Past, Included, Executed, FinallyIncluded, FinallyExecuted

\* Steps that neither begin nor end a call, nor touch the network.
LEMMA QuietStep ==
  ASSUME ResponseInv, UNCHANGED <<wire, pool, ledger, final, req, stage, ret, cur>>,
         \A u \in Threads :
           /\ InCall(u)' <=> InCall(u)
           /\ InCall(u) => (pc'[u] \in SendPCs <=> pc[u] \in SendPCs)
           /\ pc[u] = "await" => pc'[u] = "await"
  PROVE  ResponseInv'
<1> USE LedgerSame DEF ResponseInv, IsSend, Placed
<1>1. OneThreadPerCall'
  BY DEF OneThreadPerCall
<1>2. PlacedOnlyByAwaiting'
  BY DEF PlacedOnlyByAwaiting
<1>3. (PlacedOnce /\ NewIsBlank)'
  BY DEF PlacedOnce, NewIsBlank
<1>4. (ZeroCodeMeansNotSent /\ ResultMeansStatus)'
  BY DEF ZeroCodeMeansNotSent, ResultMeansStatus, ReturnedResult
<1>5. QED BY <1>1, <1>2, <1>3, <1>4

LEMMA BeginResponse ==
  ASSUME TypeInv, ResponseInv, NEW t \in Threads, NEW c \in Calls,
         NEW kind \in ViewKinds \cup {"send"}, NEW label \in {"view", "getKey"},
         kind = "send" <=> label = "getKey",
         NEW r \in ReqType, r.kind = kind, Begin(t, c, r), Goto(t, label),
         UNCHANGED <<wire, pool, ledger, final, ret>>
  PROVE  ResponseInv'
<1> USE LedgerSame DEF ResponseInv, IsSend, Placed
<1>1. /\ pc[t] = "idle" /\ stage[c] = "new" /\ cur[t] = NoCall
      /\ cur' = [cur EXCEPT ![t] = c] /\ pc' = [pc EXCEPT ![t] = label]
      /\ stage' = [stage EXCEPT ![c] = "open"]
  BY DEF Begin, Goto, At, TypeInv, TypeOK
<1>2. /\ req'[c].kind = kind
      /\ \A d \in Calls \ {c} : req'[d] = req[d]
  BY DEF Begin, TypeInv, TypeOK, ReqType
<1>3. \A u \in Threads \ {t} : cur'[u] = cur[u] /\ pc'[u] = pc[u] /\ cur[u] # c
  <2>1. SUFFICES ASSUME NEW u \in Threads \ {t}, cur[u] = c PROVE FALSE
    BY <1>1 DEF TypeInv, TypeOK
  <2>2. InCall(u)
    BY <2>1, CNearAssumption DEF InCall, TypeInv, TypeOK
  <2>3. QED BY <1>1, <2>1, <2>2 DEF OneThreadPerCall
<1>4. c \notin Placed
  BY <1>1 DEF PlacedOnlyByAwaiting
<1>5. OneThreadPerCall'
  <2>1. ASSUME NEW u \in Threads, InCall(u)'
        PROVE  /\ stage'[cur'[u]] = "open"
               /\ req'[cur'[u]].kind = "send" <=> pc'[u] \in SendPCs
               /\ \A v \in Threads : cur'[v] = cur'[u] => v = u
    <3>1. CASE u = t
      <4>1. cur'[t] = c /\ pc'[t] = label
        BY <1>1 DEF TypeInv, TypeOK
      <4>2. kind = "send" <=> label \in SendPCs
        BY DEF SendPCs, HoldsSigner
      <4>3. QED BY <3>1, <1>1, <1>2, <1>3, <4>1, <4>2 DEF TypeInv, TypeOK
    <3>2. CASE u # t
      <4>1. InCall(u) /\ cur[u] \in Calls
        BY <3>2, <2>1, <1>3, CallOfThread DEF InCall, TypeInv
      <4>2. cur[u] # c /\ cur'[u] = cur[u] /\ pc'[u] = pc[u]
        BY <3>2, <1>3
      <4>3. stage'[cur[u]] = stage[cur[u]] /\ req'[cur[u]] = req[cur[u]]
        BY <4>1, <4>2, <1>1, <1>2 DEF TypeInv, TypeOK
      <4>4. cur'[t] = c
        BY <1>1 DEF TypeInv, TypeOK
      <4>5. QED BY <4>1, <4>2, <4>3, <4>4, <1>3 DEF OneThreadPerCall
    <3>3. QED BY <3>1, <3>2
  <2>2. QED BY <2>1 DEF OneThreadPerCall
<1>6. PlacedOnlyByAwaiting'
  <2>1. SUFFICES ASSUME NEW d \in Placed'
                 PROVE  /\ req'[d].kind = "send" /\ stage'[d] # "new"
                        /\ stage'[d] = "open" => \E u \in Threads : cur'[u] = d /\ pc'[u] = "await"
    BY DEF PlacedOnlyByAwaiting
  <2>2. d \in Placed /\ d # c /\ d \in Calls
    BY <1>4, PastType DEF TypeInv, TypeOK
  <2>3. req'[d] = req[d] /\ stage'[d] = stage[d]
    BY <2>2, <1>1, <1>2 DEF TypeInv, TypeOK
  <2>4. ASSUME NEW u \in Threads, cur[u] = d, pc[u] = "await" PROVE cur'[u] = d /\ pc'[u] = "await"
    BY <2>4, <1>1, <1>3
  <2>5. QED BY <2>2, <2>3, <2>4 DEF PlacedOnlyByAwaiting
<1>7. (PlacedOnce /\ NewIsBlank)'
  BY <1>1, <1>2 DEF PlacedOnce, NewIsBlank, TypeInv, TypeOK
<1>8. (ZeroCodeMeansNotSent /\ ResultMeansStatus)'
  BY <1>1, <1>2 DEF ZeroCodeMeansNotSent, ResultMeansStatus, ReturnedResult, TypeInv, TypeOK
<1>9. QED BY <1>5, <1>6, <1>7, <1>8

\* What cnear.h says of the status that c waits for is so.
MeansStatus(c) ==
  /\ req[c].wait \in IncludedStatuses => c \in Included
  /\ req[c].wait \in InFinalBlockStatuses => c \in FinallyIncluded
  /\ req[c].wait \in ExecutedStatuses => c \in Executed
  /\ req[c].wait \in FinalStatuses => c \in FinallyExecuted

\* A call may return what is true of its transaction.
LEMMA ReturnResponse ==
  ASSUME TypeInv, ResponseInv, NEW t \in Threads, InCall(t), NEW r \in Response,
         Return(t, r), UNCHANGED <<wire, pool, ledger, final, req>>,
         IsSend(cur[t]) /\ r.code = 0 => cur[t] \notin Placed,
         IsSend(cur[t]) /\ r.code = 200 /\ r.json = "result" => MeansStatus(cur[t])
  PROVE  ResponseInv'
<1> DEFINE c == cur[t]
<1> USE LedgerSame DEF ResponseInv, IsSend, Placed
<1>1. /\ c \in Calls
      /\ cur' = [cur EXCEPT ![t] = NoCall] /\ pc' = [pc EXCEPT ![t] = "idle"]
      /\ stage' = [stage EXCEPT ![c] = "done"] /\ ret' = [ret EXCEPT ![c] = r]
  BY CallOfThread DEF Return, Goto, InCall, TypeInv
<1>2. stage[c] = "open" /\ \A u \in Threads : cur[u] = c => u = t
  BY DEF OneThreadPerCall
<1> HIDE DEF c
<1>3. OneThreadPerCall'
  <2>1. ASSUME NEW u \in Threads, InCall(u)'
        PROVE  /\ stage'[cur'[u]] = "open"
               /\ req'[cur'[u]].kind = "send" <=> pc'[u] \in SendPCs
               /\ \A v \in Threads : cur'[v] = cur'[u] => v = u
    <3>1. u # t /\ cur'[u] = cur[u] /\ pc'[u] = pc[u]
      BY <2>1, <1>1 DEF InCall, TypeInv, TypeOK
    <3>2. InCall(u) /\ cur[u] \in Calls /\ cur[u] # c
      BY <3>1, <2>1, <1>2, CallOfThread DEF InCall, TypeInv, c
    <3>3. stage'[cur[u]] = stage[cur[u]]
      BY <3>2, <1>1 DEF TypeInv, TypeOK
    <3>4. ASSUME NEW v \in Threads, cur'[v] = cur[u] PROVE v = u
      BY <3>1, <3>2, <3>4, <1>1, CNearAssumption DEF OneThreadPerCall, TypeInv, TypeOK
    <3>5. QED BY <3>1, <3>2, <3>3, <3>4 DEF OneThreadPerCall
  <2>2. QED BY <2>1 DEF OneThreadPerCall
<1>4. PlacedOnlyByAwaiting'
  <2>1. ASSUME NEW d \in Placed, stage'[d] = "open", NEW u \in Threads, cur[u] = d, pc[u] = "await"
        PROVE  cur'[u] = d /\ pc'[u] = "await"
    <3>1. u # t
      BY <2>1, <1>1 DEF c, TypeInv, TypeOK
    <3>2. QED BY <3>1, <2>1, <1>1 DEF TypeInv, TypeOK
  <2>2. QED BY <2>1, <1>1 DEF PlacedOnlyByAwaiting, TypeInv, TypeOK
<1>5. (PlacedOnce /\ NewIsBlank)'
  BY <1>1 DEF PlacedOnce, NewIsBlank, TypeInv, TypeOK
<1>6. (ZeroCodeMeansNotSent /\ ResultMeansStatus)'
  BY <1>1 DEF ZeroCodeMeansNotSent, ResultMeansStatus, ReturnedResult,
              MeansStatus, TypeInv, TypeOK, c
<1>7. QED BY <1>3, <1>4, <1>5, <1>6

LEMMA CallStepResponse ==
  ASSUME TypeInv, ResponseInv, NEW t \in Threads, CallStep(t)
  PROVE  ResponseInv'
<1> USE DEF chainVars, threadVars, callVars, settings
<1>1. CASE ServeView(t) \/ ServeAccessKey(t) \/ TakeNonce(t) \/ SignTx(t)
  <2>1. UNCHANGED <<wire, pool, ledger, final, req, stage, ret, cur>>
    BY <1>1 DEF ServeView, ServeAccessKey, TakeNonce, SignTx
  <2>2. /\ \A u \in Threads \ {t} : pc'[u] = pc[u]
        /\ InCall(t) /\ InCall(t)' /\ pc[t] # "await"
        /\ pc'[t] \in SendPCs <=> pc[t] \in SendPCs
    <3>1. \/ pc[t] = "view" /\ pc' = [pc EXCEPT ![t] = "viewed"]
          \/ pc[t] = "getKey" /\ pc' = [pc EXCEPT ![t] = "gotKey"]
          \/ pc[t] = "gotKey" /\ pc' = [pc EXCEPT ![t] = "sign"]
          \/ pc[t] = "sign" /\ pc' = [pc EXCEPT ![t] = "post"]
      BY <1>1 DEF ServeView, ServeAccessKey, TakeNonce, SignTx, At, Goto
    <3>2. QED BY <3>1 DEF InCall, Initializing, SendPCs, HoldsSigner, TypeInv, TypeOK
  <2>3. QED BY <2>1, <2>2, QuietStep DEF InCall
<1>2. CASE DecodeNoBlockHash(t) \/ ReadFreedSigner(t)
  BY <1>2, QuietStep DEF DecodeNoBlockHash, ReadFreedSigner, Crash, InCall
<1>3. CASE ReturnView(t)
  <2>1. InCall(t) /\ pc[t] \notin SendPCs /\ reply[t] \in Response
    BY <1>3 DEF ReturnView, At, InCall, Initializing, SendPCs, HoldsSigner, TypeInv, TypeOK
  <2>2. ~ IsSend(cur[t])
    BY <2>1 DEF ResponseInv, OneThreadPerCall
  <2>3. QED BY <1>3, <2>1, <2>2, ReturnResponse DEF ReturnView
<1>4. CASE GiveUp(t) \/ NotPosted(t)
  <2>1. InCall(t) /\ pc[t] # "await"
    BY <1>4 DEF GiveUp, NotPosted, At, InCall, Initializing
  <2>2. cur[t] \notin Placed
    BY <2>1 DEF ResponseInv, OneThreadPerCall, PlacedOnlyByAwaiting
  <2>3. PICK r \in {NoAnswer, NoHandle, CurlError} : Return(t, r)
    BY <1>4 DEF GiveUp, NotPosted
  <2>4. r \in Response /\ r.json # "result"
    BY ResponseTypes DEF NoAnswer, NoHandle, CurlError, Answer
  <2>5. QED BY <1>4, <2>1, <2>2, <2>3, <2>4, ReturnResponse DEF GiveUp, NotPosted
<1>5. CASE PostTx(t)
  <2> DEFINE c == cur[t]
  <2>1. /\ InCall(t) /\ pc[t] = "post" /\ pc[t] \in SendPCs
        /\ pc' = [pc EXCEPT ![t] = "await"] /\ wire' = wire \cup {c}
        /\ UNCHANGED <<pool, ledger, final, req, stage, ret, cur>>
    BY <1>5 DEF PostTx, At, Goto, InCall, Initializing, SendPCs
  <2>2. c \in Calls /\ IsSend(c) /\ stage[c] = "open"
    BY <2>1, CallOfThread DEF ResponseInv, OneThreadPerCall, TypeInv, InCall
  <2>3. c \notin Placed
    BY <2>1 DEF ResponseInv, OneThreadPerCall, PlacedOnlyByAwaiting
  <2> HIDE DEF c
  <2> USE LedgerSame DEF ResponseInv, IsSend, Placed
  <2>4. /\ pc'[t] = "await" /\ InCall(t)'
        /\ \A u \in Threads \ {t} : pc'[u] = pc[u]
    BY <2>1 DEF InCall, Initializing, TypeInv, TypeOK
  <2>5. OneThreadPerCall'
    BY <2>1, <2>4 DEF OneThreadPerCall, InCall, SendPCs
  <2>6. PlacedOnlyByAwaiting'
    BY <2>1, <2>2, <2>4 DEF PlacedOnlyByAwaiting, c
  <2>7. (PlacedOnce /\ NewIsBlank)'
    BY <2>1, <2>3 DEF PlacedOnce, NewIsBlank
  <2>8. (ZeroCodeMeansNotSent /\ ResultMeansStatus)'
    BY <2>1, <2>2 DEF ZeroCodeMeansNotSent, ResultMeansStatus, ReturnedResult
  <2>9. QED BY <2>5, <2>6, <2>7, <2>8
<1>6. CASE ReturnTx(t)
  <2>1. InCall(t) /\ pc[t] \in SendPCs
    BY <1>6 DEF ReturnTx, At, InCall, Initializing, SendPCs
  <2>2. cur[t] \in Calls /\ IsSend(cur[t]) /\ req[cur[t]].wait \in 0..5
    BY <2>1, CallOfThread DEF ResponseInv, OneThreadPerCall, TypeInv, TypeOK, InCall, ReqType
  <2>3. CASE \E r \in {CurlError} \cup OtherReplies : Return(t, r)
    <3>1. PICK r \in {CurlError} \cup OtherReplies : Return(t, r)
      BY <2>3
    <3>2. r \in Response /\ r.code # 0 /\ ~ (r.code = 200 /\ r.json = "result")
      BY ResponseTypes DEF CurlError, OtherReplies, Answer
    <3>3. QED BY <1>6, <2>1, <3>1, <3>2, ReturnResponse DEF ReturnTx
  <2>4. CASE /\ Reached(cur[t], TX_STATUS[req[cur[t]].wait + 1])
             /\ Return(t, Answer(200, "result", 0))
    <3>1. Answer(200, "result", 0) \in Response /\ Answer(200, "result", 0).code = 200
      BY ResponseTypes DEF Answer
    <3>2. MeansStatus(cur[t])
      <4> DEFINE wait == req[cur[t]].wait
      <4>1. wait \in 0..5 /\ Reached(cur[t], TX_STATUS[wait + 1])
        BY <2>2, <2>4
      <4>2. /\ TX_STATUS[1] = "NONE" /\ TX_STATUS[2] = "INCLUDED"
            /\ TX_STATUS[3] = "EXECUTED_OPTIMISTIC" /\ TX_STATUS[4] = "INCLUDED_FINAL"
            /\ TX_STATUS[5] = "EXECUTED" /\ TX_STATUS[6] = "FINAL"
        BY DEF TX_STATUS
      <4> HIDE DEF wait
      <4>3. /\ wait = 1 => cur[t] \in Included
            /\ wait = 2 => cur[t] \in Executed
            /\ wait = 3 => cur[t] \in FinallyIncluded
            /\ wait = 4 => cur[t] \in FinallyIncluded \cap Executed
            /\ wait = 5 => cur[t] \in FinallyIncluded \cap FinallyExecuted
        <5>1. /\ wait = 1 => Reached(cur[t], "INCLUDED")
              /\ wait = 2 => Reached(cur[t], "EXECUTED_OPTIMISTIC")
              /\ wait = 3 => Reached(cur[t], "INCLUDED_FINAL")
              /\ wait = 4 => Reached(cur[t], "EXECUTED")
              /\ wait = 5 => Reached(cur[t], "FINAL")
          BY <4>1, <4>2
        <5>2. /\ Reached(cur[t], "INCLUDED") => cur[t] \in Included
              /\ Reached(cur[t], "EXECUTED_OPTIMISTIC") => cur[t] \in Executed
              /\ Reached(cur[t], "INCLUDED_FINAL") => cur[t] \in FinallyIncluded
              /\ Reached(cur[t], "EXECUTED") => cur[t] \in FinallyIncluded \cap Executed
              /\ Reached(cur[t], "FINAL") => cur[t] \in FinallyIncluded \cap FinallyExecuted
          BY DEF Reached
        <5>3. QED BY <5>1, <5>2
      <4>4. Executed \subseteq Included /\ FinallyIncluded \subseteq Included
            /\ FinallyExecuted \subseteq Executed
        BY PastType DEF ResponseInv, PlacedOnce
      <4>5. QED
        BY <4>1, <4>3, <4>4 DEF MeansStatus, wait, IncludedStatuses, InFinalBlockStatuses,
                                ExecutedStatuses, FinalStatuses
    <3>3. QED BY <1>6, <2>1, <2>4, <3>1, <3>2, ReturnResponse DEF ReturnTx
  <2>5. QED BY <1>6, <2>3, <2>4 DEF ReturnTx
<1>7. QED BY <1>1, <1>2, <1>3, <1>4, <1>5, <1>6 DEF CallStep

LEMMA RestartResponse ==
  ASSUME TypeInv, ResponseInv, Restart
  PROVE  ResponseInv'
<1> USE LedgerSame DEF ResponseInv, IsSend, Placed, chainVars
<1>1. OneThreadPerCall'
  BY DEF Restart, OneThreadPerCall, InCall
<1>2. \A c \in Calls : /\ stage'[c] = "new" <=> stage[c] = "new"
                       /\ stage'[c] = "done" <=> stage[c] = "done"
                       /\ stage'[c] # "open"
  BY DEF Restart, TypeInv, TypeOK
<1>3. UNCHANGED <<wire, pool, ledger, final, req, ret>>
  BY DEF Restart
<1>4. PlacedOnlyByAwaiting'
  BY <1>2, <1>3, PastType DEF PlacedOnlyByAwaiting, TypeInv, TypeOK
<1>5. (PlacedOnce /\ NewIsBlank)'
  BY <1>2, <1>3 DEF PlacedOnce, NewIsBlank
<1>6. (ZeroCodeMeansNotSent /\ ResultMeansStatus)'
  BY <1>2, <1>3 DEF ZeroCodeMeansNotSent, ResultMeansStatus, ReturnedResult
<1>7. QED BY <1>1, <1>4, <1>5, <1>6

\* What the network does with a transaction it has.
LEMMA PastAfter ==
  ASSUME TypeInv, NEW c \in Calls, NEW step \in Steps, ledger' = Append(ledger, Event(c, step))
  PROVE  /\ Included' = IF step = "included" THEN Included \cup {c} ELSE Included
         /\ Executed' = IF step = "executed" THEN Executed \cup {c} ELSE Executed
         /\ final' = final => FinallyIncluded' = FinallyIncluded /\ FinallyExecuted' = FinallyExecuted
<1> DEFINE n == Len(ledger)
<1>1. /\ Len(ledger') = n + 1 /\ n \in Nat /\ final \in 0..n
      /\ \A i \in 1..n : ledger'[i] = ledger[i]
      /\ ledger'[n + 1] = Event(c, step)
  BY EventAppended, LedgerIs
<1> HIDE DEF n
<1>2. ASSUME NEW kind
      PROVE  { ledger'[i].call : i \in { j \in 1..(n + 1) : ledger'[j].step = kind } }
               = IF step = kind THEN Past(kind, n) \cup {c} ELSE Past(kind, n)
  <2>1. Event(c, step).call = c /\ Event(c, step).step = step
    BY DEF Event
  <2>2. { j \in 1..(n + 1) : ledger'[j].step = kind }
          = { j \in 1..n : ledger[j].step = kind } \cup (IF step = kind THEN {n + 1} ELSE {})
    BY <1>1, <2>1
  <2>3. QED BY <1>1, <2>1, <2>2 DEF Past
<1>3. ASSUME NEW kind
      PROVE  { ledger'[i].call : i \in { j \in 1..final : ledger'[j].step = kind } } = Past(kind, final)
  <2>1. \A i \in 1..final : ledger'[i] = ledger[i]
    BY <1>1
  <2>2. { j \in 1..final : ledger'[j].step = kind } = { j \in 1..final : ledger[j].step = kind }
    BY <2>1
  <2>3. QED BY <2>1, <2>2 DEF Past
<1>4. Included' = (IF step = "included" THEN Included \cup {c} ELSE Included)
  BY <1>1, <1>2 DEF Included, Past, n
<1>5. Executed' = (IF step = "executed" THEN Executed \cup {c} ELSE Executed)
  BY <1>1, <1>2 DEF Executed, Past, n
<1>6. final' = final => FinallyIncluded' = FinallyIncluded /\ FinallyExecuted' = FinallyExecuted
  BY <1>3 DEF FinallyIncluded, FinallyExecuted, Past
<1>7. QED BY <1>4, <1>5, <1>6

LEMMA PastGrows ==
  ASSUME TypeInv, Chain
  PROVE  /\ Included \subseteq Included' /\ Executed \subseteq Executed'
         /\ FinallyIncluded \subseteq FinallyIncluded' /\ FinallyExecuted \subseteq FinallyExecuted'
<1>1. ASSUME NEW c \in Calls, Admit(c) \/ Discard(c) PROVE UNCHANGED <<ledger, final>>
  BY <1>1 DEF Admit, Discard
<1>2. ASSUME NEW c \in Calls, Include(c) \/ Execute(c)
      PROVE  final' = final /\ \E step \in Steps : ledger' = Append(ledger, Event(c, step))
  BY <1>2 DEF Include, Execute, Steps
<1>3. ASSUME Finalize PROVE ledger' = ledger /\ final' \in Nat /\ final <= final'
  BY <1>3, LedgerIs DEF Finalize
<1>4. ASSUME Finalize
      PROVE  FinallyIncluded \subseteq FinallyIncluded' /\ FinallyExecuted \subseteq FinallyExecuted'
  <2>1. 1..final \subseteq 1..final'
    BY <1>3, <1>4, LedgerIs
  <2>2. QED BY <1>3, <1>4, <2>1 DEF FinallyIncluded, FinallyExecuted, Past
<1>5. QED BY <1>1, <1>2, <1>3, <1>4, LedgerSame, PastAfter DEF Chain

LEMMA ChainResponse ==
  ASSUME TypeInv, ResponseInv, Chain
  PROVE  ResponseInv'
<1> USE DEF ResponseInv
<1>1. UNCHANGED <<req, stage, ret, cur, pc>>
  BY DEF Chain, threadVars, callVars
<1>2. Placed' \subseteq Placed /\ PlacedOnce'
  <2>1. ASSUME NEW c \in Calls, Admit(c) \/ Discard(c) PROVE <1>2
    BY <2>1, LedgerSame DEF Admit, Discard, Placed, PlacedOnce
  <2>2. ASSUME NEW c \in Calls, Include(c) PROVE <1>2
    <3>1. c \in pool /\ pool' = pool \ {c} /\ wire' = wire
      BY <2>2 DEF Include
    <3>2. Included' = Included \cup {c} /\ Executed' = Executed
      BY <2>2, PastAfter DEF Include, Steps
    <3>3. QED BY <3>1, <3>2 DEF Placed, PlacedOnce
  <2>3. ASSUME NEW c \in Calls, Execute(c) PROVE <1>2
    <3>1. c \in Included /\ UNCHANGED <<wire, pool>>
      BY <2>3 DEF Execute
    <3>2. Included' = Included /\ Executed' = Executed \cup {c}
      BY <2>3, PastAfter DEF Execute, Steps
    <3>3. QED BY <3>1, <3>2 DEF Placed, PlacedOnce
  <2>4. CASE Finalize
    BY <2>4, LedgerSame DEF Finalize, Placed, PlacedOnce
  <2>5. QED BY <2>1, <2>2, <2>3, <2>4 DEF Chain
<1>3. OneThreadPerCall'
  BY <1>1 DEF OneThreadPerCall, InCall, IsSend
<1>4. PlacedOnlyByAwaiting'
  BY <1>1, <1>2 DEF PlacedOnlyByAwaiting, IsSend
<1>5. NewIsBlank'
  BY <1>1 DEF NewIsBlank
<1>6. ZeroCodeMeansNotSent'
  BY <1>1, <1>2 DEF ZeroCodeMeansNotSent, IsSend, Placed
<1>7. ResultMeansStatus'
  BY <1>1, PastGrows DEF ResultMeansStatus, IsSend, ReturnedResult
<1>8. QED BY <1>2, <1>3, <1>4, <1>5, <1>6, <1>7

LEMMA ResponseInit == Init => ResponseInv
<1> SUFFICES ASSUME Init PROVE ResponseInv OBVIOUS
<1>1. Included = {} /\ Executed = {} /\ wire = {} /\ pool = {}
  BY DEF Init, ChainInit, Included, Executed, Past
<1>2. QED
  BY <1>1 DEF Init, InitProcess, ResponseInv, OneThreadPerCall, PlacedOnlyByAwaiting, PlacedOnce,
       NewIsBlank, ZeroCodeMeansNotSent, ResultMeansStatus, ReturnedResult, InCall, Placed, BlankReq,
       IsSend

LEMMA ResponseStep == TypeInv /\ ResponseInv /\ [Next]_vars => ResponseInv'
<1> SUFFICES ASSUME TypeInv, ResponseInv, [Next]_vars PROVE ResponseInv'
  OBVIOUS
<1> USE DEF chainVars, threadVars, callVars, settings
<1>1. ASSUME NEW t \in Threads, Settings(t) PROVE ResponseInv'
  <2>1. UNCHANGED <<wire, pool, ledger, final, req, stage, ret, cur>>
    BY <1>1 DEF Settings, near_rpc_init, near_rpc_cleanup, near_account_init_json,
                near_account_init, DecodePublicKey, DecodePrivateKey, Crash
  <2>2. \/ pc' = pc
        \/ /\ pc[t] \in {"idle"} \cup Initializing
           /\ \E label \in {"idle"} \cup Initializing : pc' = [pc EXCEPT ![t] = label]
    <3>1. CASE near_rpc_init(t) \/ near_rpc_cleanup(t)
      BY <3>1 DEF near_rpc_init, near_rpc_cleanup
    <3>2. CASE near_account_init_json(t)
      BY <3>2 DEF near_account_init_json, near_account_init, Crash, At, Goto, Initializing
    <3>3. CASE DecodePublicKey(t) \/ DecodePrivateKey(t)
      BY <3>3 DEF DecodePublicKey, DecodePrivateKey, InitReturns, Crash, At, Goto, Initializing
    <3>4. QED BY <1>1, <3>1, <3>2, <3>3 DEF Settings
  <2>3. \A u \in Threads : pc'[u] = pc[u] \/ (~ InCall(u) /\ ~ InCall(u)' /\ pc[u] # "await")
    BY <2>2 DEF InCall, Initializing, TypeInv, TypeOK
  <2>4. QED BY <2>1, <2>3, QuietStep DEF InCall
<1>2. ASSUME NEW t \in Threads, NEW c \in Calls, NEW status \in WaitStatuses,
             near_rpc_send_tx(t, c, status)
      PROVE  ResponseInv'
  <2> DEFINE r == [BlankReq EXCEPT !.kind = "send", !.wait = status,
                                  !.account = accountId, !.key = b58PubKey]
  <2>1. r \in ReqType /\ r.kind = "send"
    BY ReqTypes DEF TypeInv, TypeOK, BlankReq
  <2>2. Begin(t, c, r) /\ Goto(t, "getKey") /\ UNCHANGED <<wire, pool, ledger, final, ret>>
    BY <1>2 DEF near_rpc_send_tx
  <2> HIDE DEF r
  <2>3. QED BY <2>1, <2>2, BeginResponse
<1>3. ASSUME NEW t \in Threads, NEW c \in Calls, NEW kind \in ViewKinds, near_rpc_view(t, c, kind)
      PROVE  ResponseInv'
  <2> DEFINE r == [BlankReq EXCEPT !.kind = kind]
  <2>1. r \in ReqType /\ r.kind = kind /\ kind # "send"
    BY ReqTypes, CNearAssumption DEF BlankReq
  <2>2. Begin(t, c, r) /\ Goto(t, "view") /\ UNCHANGED <<wire, pool, ledger, final, ret>>
    BY <1>3 DEF near_rpc_view
  <2> HIDE DEF r
  <2>3. QED BY <2>1, <2>2, BeginResponse
<1>4. ASSUME NEW t \in Threads, CallStep(t) PROVE ResponseInv'
  BY <1>4, CallStepResponse
<1>5. CASE Kill \/ UNCHANGED vars
  BY <1>5, QuietStep DEF Kill, Crash, vars, InCall
<1>6. CASE Restart
  BY <1>6, RestartResponse
<1>7. CASE Chain
  BY <1>7, ChainResponse
<1>8. QED
  BY <1>1, <1>2, <1>3, <1>4, <1>5, <1>6, <1>7 DEF Next, near_contract_call

LEMMA ResponseInvariant == Spec => [](TypeInv /\ ResponseInv)
BY TypeInit, TypeStep, ResponseInit, ResponseStep, PTL DEF Spec

\* A send that returned rpc_code 0 was not sent and never will be.
THEOREM ZeroCodeSafe == Spec => []ZeroCodeMeansNotSent
BY ResponseInvariant, PTL DEF ResponseInv

\* A result means the execution status the caller waited for.
THEOREM ResultTruthful == Spec => []ResultMeansStatus
BY ResponseInvariant, PTL DEF ResponseInv

-----------------------------------------------------------------------------
(* Each step of the library is a step of TxCall, or changes nothing there.  *)

PhaseMap == [c \in Calls |-> PhaseOf(c)]
PromiseStep == Promise!Next \/ UNCHANGED <<PhaseMap, Executed>>

LEMMA PhaseCases ==
  ASSUME NEW r, NEW s, NEW a
  PROVE  /\ r.kind # "send" => PhaseFor(r, s, a) = "new"
         /\ r.kind = "send" /\ s = "open" => PhaseFor(r, s, a) = "open"
         /\ r.kind = "send" /\ s # "open" =>
              PhaseFor(r, s, a) \in {"notSent", "unknown", "confirmed"}
         /\ r.kind = "send" /\ s = "lost" => PhaseFor(r, s, a) = "unknown"
         /\ PhaseFor(r, s, a) = "notSent" => r.kind = "send" /\ s = "done" /\ a.code = 0
         /\ PhaseFor(r, s, a) = "confirmed" =>
              /\ r.kind = "send" /\ s = "done" /\ r.wait \in ExecutedStatuses
              /\ a.code = 200 /\ a.json = "result"
<1>1. CASE r.kind # "send"
  BY <1>1 DEF PhaseFor
<1>2. CASE r.kind = "send" /\ s = "open"
  BY <1>2 DEF PhaseFor
<1>3. CASE r.kind = "send" /\ s # "open" /\ s # "done"
  BY <1>3 DEF PhaseFor
<1>4. CASE r.kind = "send" /\ s = "done" /\ a.code = 0
  BY <1>4 DEF PhaseFor
<1>5. CASE r.kind = "send" /\ s = "done" /\ a.code # 0
  BY <1>5 DEF PhaseFor
<1>6. QED BY <1>1, <1>2, <1>3, <1>4, <1>5

LEMMA QuietPromise ==
  ASSUME UNCHANGED <<req, stage, ret, ledger>>
  PROVE  PromiseStep
BY LedgerSame DEF PromiseStep, PhaseMap, PhaseOf

LEMMA BeginPromise ==
  ASSUME TypeInv, ResponseInv, NEW t \in Threads, NEW c \in Calls,
         NEW r \in ReqType, r.kind \in ViewKinds \cup {"send"}, Begin(t, c, r), UNCHANGED <<ret, ledger>>
  PROVE  PromiseStep
<1>1. /\ stage[c] = "new" /\ req[c].kind = "none"
      /\ stage'[c] = "open" /\ req'[c].kind = r.kind
      /\ \A d \in Calls \ {c} : req'[d] = req[d] /\ stage'[d] = stage[d]
  BY DEF Begin, TypeInv, TypeOK, ReqType, ResponseInv, NewIsBlank
<1>2. \A d \in Calls \ {c} : PhaseOf(d)' = PhaseOf(d)
  BY <1>1 DEF PhaseOf
<1>3. PhaseOf(c) = "new" /\ PhaseOf(c)' = IF r.kind = "send" THEN "open" ELSE "new"
  BY <1>1, PhaseCases DEF PhaseOf
<1>4. Executed' = Executed
  BY LedgerSame
<1>5. CASE r.kind = "send"
  <2>1. PhaseMap' = [PhaseMap EXCEPT ![c] = "open"]
    BY <1>2, <1>3, <1>5 DEF PhaseMap
  <2>2. Promise!Open(c)
    BY <1>3, <1>4, <2>1 DEF Promise!Open, PhaseMap
  <2>3. QED BY <2>2 DEF PromiseStep, Promise!Next
<1>6. CASE r.kind # "send"
  BY <1>2, <1>3, <1>4, <1>6 DEF PhaseMap, PromiseStep
<1>7. QED BY <1>5, <1>6

LEMMA ReturnPromise ==
  ASSUME TypeInv, ResponseInv, ResponseInv', NEW t \in Threads, InCall(t), NEW r, Return(t, r),
         UNCHANGED <<req, ledger, final>>, NEW c \in Calls, c = cur[t]
  PROVE  PromiseStep
<1>1. stage[c] = "open"
  BY DEF ResponseInv, OneThreadPerCall
<1>2. /\ stage'[c] = "done" /\ stage' = [stage EXCEPT ![c] = "done"] /\ ret' = [ret EXCEPT ![c] = r]
      /\ \A d \in Calls \ {c} : stage'[d] = stage[d] /\ ret'[d] = ret[d]
  BY <1>1 DEF Return, TypeInv, TypeOK
<1>3. \A d \in Calls \ {c} : PhaseOf(d)' = PhaseOf(d)
  BY <1>2 DEF PhaseOf
<1>4. Executed' = Executed
  BY LedgerSame
<1>5. CASE ~ IsSend(c)
  <2>1. PhaseOf(c) = "new" /\ PhaseOf(c)' = "new"
    BY <1>5, PhaseCases DEF PhaseOf, IsSend
  <2>2. QED BY <2>1, <1>3, <1>4 DEF PhaseMap, PromiseStep
<1>6. CASE IsSend(c)
  <2>1. PhaseOf(c) = "open" /\ PhaseOf(c)' \in {"notSent", "unknown", "confirmed"}
    BY <1>1, <1>2, <1>6, PhaseCases DEF PhaseOf, IsSend
  <2>2. PhaseOf(c)' = "notSent" => c \notin Executed
    <3>1. PhaseOf(c)' = "notSent" => IsSend(c)' /\ stage'[c] = "done" /\ ret'[c].code = 0
      BY PhaseCases DEF PhaseOf, IsSend
    <3>2. Executed' \subseteq Included'
      BY DEF ResponseInv, PlacedOnce
    <3>3. QED BY <1>1, <1>4, <3>1, <3>2 DEF ResponseInv, ZeroCodeMeansNotSent
  <2>3. PhaseOf(c)' = "confirmed" => c \in Executed
    <3>1. PhaseOf(c)' = "confirmed" => IsSend(c)' /\ ReturnedResult(c)' /\ (req[c].wait \in ExecutedStatuses)'
      BY PhaseCases DEF PhaseOf, IsSend, ReturnedResult
    <3>2. QED BY <1>1, <1>4, <3>1 DEF ResponseInv, ResultMeansStatus
  <2>4. PhaseMap' = [PhaseMap EXCEPT ![c] = PhaseOf(c)']
    BY <1>3 DEF PhaseMap
  <2>5. Promise!Close(c, PhaseOf(c)')
    BY <1>1, <1>4, <2>1, <2>2, <2>3, <2>4 DEF Promise!Close, PhaseMap
  <2>6. QED BY <1>1, <2>1, <2>5 DEF PromiseStep, Promise!Next
<1>7. QED BY <1>5, <1>6

LEMMA RestartPromise ==
  ASSUME TypeInv, Restart
  PROVE  PromiseStep
<1>1. UNCHANGED <<req, ret, ledger>>
  BY DEF Restart, chainVars
<1>2. \A c \in Calls : stage'[c] = IF stage[c] = "open" THEN "lost" ELSE stage[c]
  BY DEF Restart
<1>3. \A c \in Calls : PhaseOf(c)' = IF PhaseOf(c) = "open" THEN "unknown" ELSE PhaseOf(c)
  <2> SUFFICES ASSUME NEW c \in Calls
               PROVE  PhaseOf(c)' = IF PhaseOf(c) = "open" THEN "unknown" ELSE PhaseOf(c)
    OBVIOUS
  <2>1. CASE req[c].kind = "send" /\ stage[c] = "open"
    BY <1>1, <1>2, <2>1, PhaseCases DEF PhaseOf
  <2>2. CASE req[c].kind # "send"
    BY <1>1, <1>2, <2>2, PhaseCases DEF PhaseOf
  <2>3. CASE req[c].kind = "send" /\ stage[c] # "open"
    <3>1. PhaseOf(c)' = PhaseOf(c)
      BY <1>1, <1>2, <2>3 DEF PhaseOf
    <3>2. PhaseOf(c) # "open"
      BY <2>3, PhaseCases DEF PhaseOf
    <3>3. QED BY <3>1, <3>2
  <2>4. QED BY <2>1, <2>2, <2>3
<1>4. Promise!Abandon
  BY <1>1, <1>3, LedgerSame DEF Promise!Abandon, PhaseMap
<1>5. QED BY <1>4 DEF PromiseStep, Promise!Next

LEMMA ChainPromise ==
  ASSUME TypeInv, ResponseInv, Chain
  PROVE  PromiseStep
<1>1. UNCHANGED <<req, stage, ret>>
  BY DEF Chain, callVars
<1>2. PhaseMap' = PhaseMap
  BY <1>1 DEF PhaseMap, PhaseOf
<1>3. ASSUME NEW c \in Calls, Execute(c) PROVE PromiseStep
  <2>1. c \in Included /\ c \notin Executed
    BY <1>3 DEF Execute
  <2>2. IsSend(c) /\ stage[c] # "new"
    BY <2>1 DEF ResponseInv, PlacedOnlyByAwaiting, Placed
  <2>3. ~ (stage[c] = "done" /\ ret[c].code = 0)
    BY <2>1, <2>2 DEF ResponseInv, ZeroCodeMeansNotSent
  <2>4. ~ (ReturnedResult(c) /\ req[c].wait \in ExecutedStatuses)
    BY <2>1, <2>2 DEF ResponseInv, ResultMeansStatus
  <2>5. PhaseOf(c) \in {"open", "unknown"}
    <3>1. PhaseOf(c) \notin {"new", "notSent", "confirmed"}
      BY <2>2, <2>3, <2>4, PhaseCases DEF PhaseOf, IsSend, ReturnedResult
    <3>2. QED BY <3>1, <2>2, PhaseCases DEF PhaseOf, IsSend
  <2>6. Executed' = Executed \cup {c}
    BY <1>3, PastAfter DEF Execute, Steps
  <2>7. Promise!Apply(c)
    BY <1>2, <2>1, <2>5, <2>6 DEF Promise!Apply, PhaseMap
  <2>8. QED BY <2>7 DEF PromiseStep, Promise!Next
<1>4. ASSUME NEW c \in Calls, Include(c) PROVE PromiseStep
  <2>1. Executed' = Executed
    BY <1>4, PastAfter DEF Include, Steps
  <2>2. QED BY <1>2, <2>1 DEF PromiseStep
<1>5. ASSUME NEW c \in Calls, Admit(c) \/ Discard(c) PROVE PromiseStep
  <2>1. ledger' = ledger
    BY <1>5 DEF Admit, Discard
  <2>2. QED BY <1>2, <2>1, LedgerSame DEF PromiseStep
<1>6. CASE Finalize
  BY <1>2, <1>6, LedgerSame DEF Finalize, PromiseStep
<1>7. QED BY <1>3, <1>4, <1>5, <1>6 DEF Chain

LEMMA CallStepPromise ==
  ASSUME TypeInv, ResponseInv, ResponseInv', NEW t \in Threads, CallStep(t)
  PROVE  PromiseStep
<1> USE DEF chainVars, threadVars, callVars
<1>1. CASE \/ ServeView(t) \/ ServeAccessKey(t) \/ TakeNonce(t) \/ SignTx(t) \/ PostTx(t)
           \/ DecodeNoBlockHash(t) \/ ReadFreedSigner(t)
  <2>1. UNCHANGED <<req, stage, ret, ledger>>
    BY <1>1 DEF ServeView, ServeAccessKey, TakeNonce, SignTx, PostTx, DecodeNoBlockHash,
                ReadFreedSigner, Crash
  <2>2. QED BY <2>1, QuietPromise
<1>2. CASE ReturnView(t) \/ GiveUp(t) \/ NotPosted(t) \/ ReturnTx(t)
  <2>1. InCall(t) /\ UNCHANGED <<req, ledger, final>>
    BY <1>2 DEF ReturnView, GiveUp, NotPosted, ReturnTx, At, InCall, Initializing
  <2>2. \E r : Return(t, r)
    BY <1>2 DEF ReturnView, GiveUp, NotPosted, ReturnTx
  <2>3. PICK c \in Calls : c = cur[t]
    BY <2>1, CallOfThread DEF InCall, TypeInv
  <2>4. QED BY <2>1, <2>2, <2>3, ReturnPromise
<1>3. QED BY <1>1, <1>2 DEF CallStep

LEMMA PromiseNext == TypeInv /\ ResponseInv /\ ResponseInv' /\ [Next]_vars => PromiseStep
<1> SUFFICES ASSUME TypeInv, ResponseInv, ResponseInv', [Next]_vars PROVE PromiseStep
  OBVIOUS
<1>1. ASSUME NEW t \in Threads, Settings(t) PROVE PromiseStep
  <2>1. UNCHANGED <<req, stage, ret, ledger>>
    BY <1>1 DEF Settings, near_rpc_init, near_rpc_cleanup, near_account_init_json, chainVars,
                near_account_init, DecodePublicKey, DecodePrivateKey, Crash, callVars
  <2>2. QED BY <2>1, QuietPromise
<1>2. ASSUME NEW t \in Threads, NEW c \in Calls, NEW status \in WaitStatuses,
             near_rpc_send_tx(t, c, status)
      PROVE  PromiseStep
  <2> DEFINE r == [BlankReq EXCEPT !.kind = "send", !.wait = status,
                                  !.account = accountId, !.key = b58PubKey]
  <2>1. r \in ReqType /\ r.kind = "send"
    BY ReqTypes DEF TypeInv, TypeOK, BlankReq
  <2>2. Begin(t, c, r) /\ UNCHANGED <<ret, ledger>>
    BY <1>2 DEF near_rpc_send_tx, chainVars
  <2> HIDE DEF r
  <2>3. QED BY <2>1, <2>2, BeginPromise
<1>3. ASSUME NEW t \in Threads, NEW c \in Calls, NEW kind \in ViewKinds, near_rpc_view(t, c, kind)
      PROVE  PromiseStep
  <2> DEFINE r == [BlankReq EXCEPT !.kind = kind]
  <2>1. r \in ReqType /\ r.kind = kind
    BY ReqTypes DEF BlankReq
  <2>2. Begin(t, c, r) /\ UNCHANGED <<ret, ledger>>
    BY <1>3 DEF near_rpc_view, chainVars
  <2> HIDE DEF r
  <2>3. QED BY <2>1, <2>2, BeginPromise
<1>4. ASSUME NEW t \in Threads, CallStep(t) PROVE PromiseStep
  BY <1>4, CallStepPromise
<1>5. CASE Kill \/ UNCHANGED vars
  BY <1>5, QuietPromise DEF Kill, Crash, vars, chainVars, callVars
<1>6. CASE Restart
  BY <1>6, RestartPromise
<1>7. CASE Chain
  BY <1>7, ChainPromise
<1>8. QED
  BY <1>1, <1>2, <1>3, <1>4, <1>5, <1>6, <1>7 DEF Next, near_contract_call

\* The library implements TxCall: what a caller concludes from a response is
\* so, in every interleaving, across crashes, under any use of the settings.
THEOREM Implements == Spec => ImplementsTxCall
<1>1. Init => Promise!Init
  <2>1. Init => Executed = {}
    BY DEF Init, ChainInit, Executed, Past
  <2>2. ASSUME Init, NEW c \in Calls PROVE PhaseOf(c) = "new"
    <3>1. req[c].kind # "send"
      BY <2>2 DEF Init, BlankReq
    <3>2. QED BY <3>1, PhaseCases DEF PhaseOf
  <2>3. QED BY <2>1, <2>2 DEF Promise!Init
<1>2. TypeInv /\ ResponseInv /\ ResponseInv' /\ [Next]_vars
        => [Promise!Next]_<<[c \in Calls |-> PhaseOf(c)], Executed>>
  BY PromiseNext DEF PromiseStep, PhaseMap
<1>3. QED
  BY <1>1, <1>2, ResponseInvariant, PTL DEF Spec, ImplementsTxCall, Promise!Spec

-----------------------------------------------------------------------------
(* The settings while and after near_account_init runs.                    *)

OneInitializing ==
  \A t, u \in Threads : pc[t] \in Initializing /\ pc[u] \in Initializing => t = u

\* The texts are replaced first, then each key; success comes last.
DecodedSoFar ==
  \A t \in Threads : pc[t] \in Initializing =>
    /\ ~ ready
    /\ accountId \in {arg[t].account, NoText}
    /\ b58PubKey \in {arg[t].pub, NoText}
    /\ pc[t] = "initPriv" => arg[t].pub.form = "ok" /\ publicKey = arg[t].pub.key

\* SettingsBelongTogether, and both keys decoded.
ReadyMeansDecoded ==
  ready => \E cr \in { c \in Credentials : NoText \notin {c.account, c.pub, c.priv} } :
    /\ accountId \in {cr.account, NoText}
    /\ b58PubKey \in {cr.pub, NoText}
    /\ cr.pub.form = "ok" /\ cr.priv.form = "ok"
    /\ publicKey = cr.pub.key /\ privateKey = cr.priv.key

SettingsInv == OneInitializing /\ DecodedSoFar /\ ReadyMeansDecoded

LEMMA SettingsInit == Init => SettingsInv
BY DEF Init, InitProcess, SettingsInv, OneInitializing, DecodedSoFar, ReadyMeansDecoded, Initializing

\* Steps outside near_account_init and near_rpc_cleanup.
LEMMA QuietSettings ==
  ASSUME SettingsInv,
         UNCHANGED <<accountId, b58PubKey, publicKey, privateKey, ready, arg>>,
         \A u \in Threads : pc'[u] \in Initializing => pc'[u] = pc[u]
  PROVE  SettingsInv'
BY DEF SettingsInv, OneInitializing, DecodedSoFar, ReadyMeansDecoded

LEMMA MovesOutsideInit ==
  ASSUME TypeInv, NEW t \in Threads, NEW label \in PCs \ Initializing, Goto(t, label)
  PROVE  \A u \in Threads : pc'[u] \in Initializing => pc'[u] = pc[u]
BY DEF Goto, TypeInv, TypeOK

LEMMA CallStepMoves ==
  ASSUME TypeInv, NEW t \in Threads, CallStep(t)
  PROVE  \A u \in Threads : pc'[u] \in Initializing => pc'[u] = pc[u]
<1>1. CASE DecodeNoBlockHash(t) \/ ReadFreedSigner(t)
  BY <1>1 DEF DecodeNoBlockHash, ReadFreedSigner, Crash, threadVars
<1>2. CASE ~ (DecodeNoBlockHash(t) \/ ReadFreedSigner(t))
  <2>1. PICK label \in {"idle", "viewed", "gotKey", "sign", "post", "await"} : Goto(t, label)
    BY <1>2, CallStep(t)
       DEF CallStep, ServeView, ReturnView, ServeAccessKey, GiveUp, TakeNonce, SignTx,
           PostTx, NotPosted, ReturnTx, Return
  <2>2. label \in PCs \ Initializing
    BY DEF PCs, Initializing, HoldsSigner
  <2>3. QED BY <2>1, <2>2, MovesOutsideInit
<1>3. QED BY <1>1, <1>2

LEMMA CallStepSettings ==
  ASSUME NEW t \in Threads, CallStep(t)
  PROVE  UNCHANGED <<rpcUrl, accountId, b58PubKey, publicKey, privateKey, ready, arg>>
BY DEF CallStep, ServeView, ReturnView, ServeAccessKey, GiveUp, DecodeNoBlockHash, TakeNonce,
       SignTx, ReadFreedSigner, PostTx, NotPosted, ReturnTx, Crash, settings, threadVars

LEMMA SettingsSettings ==
  ASSUME TypeInv, SettingsInv, NEW t \in Threads, Settings(t)
  PROVE  SettingsInv'
<1> USE DEF SettingsInv, OneInitializing, DecodedSoFar, ReadyMeansDecoded
<1>1. CASE near_rpc_init(t)
  BY <1>1, QuietSettings DEF near_rpc_init, threadVars
<1>2. CASE near_rpc_cleanup(t)
  BY <1>2 DEF near_rpc_cleanup, threadVars
<1>3. ASSUME NEW cr \in Credentials, near_account_init(t, cr) PROVE SettingsInv'
  <2>1. CASE NoText \in {cr.account, cr.pub}
    BY <1>3, <2>1, QuietSettings DEF near_account_init, Crash, settings, threadVars
  <2>2. CASE NoText \notin {cr.account, cr.pub}
    <3>1. /\ pc[t] = "idle" /\ pc' = [pc EXCEPT ![t] = "initPub"]
          /\ arg' = [arg EXCEPT ![t] = cr] /\ ready' = FALSE
          /\ accountId' \in {cr.account, NoText} /\ b58PubKey' \in {cr.pub, NoText}
      BY <1>3, <2>2 DEF near_account_init, Goto, At
    <3>2. \A u \in Threads \ {t} : pc[u] \notin Initializing
      BY <1>3 DEF near_account_init, MayChangeSettings, Initializing
    <3>3. /\ pc'[t] = "initPub" /\ arg'[t] = cr
          /\ \A u \in Threads \ {t} : pc'[u] \notin Initializing
      BY <3>1, <3>2 DEF TypeInv, TypeOK
    <3>4. QED BY <3>1, <3>3
  <2>3. QED BY <2>1, <2>2
<1>4. CASE DecodePublicKey(t)
  <2>1. /\ pc[t] = "initPub" /\ publicKey' = Decoded(arg[t].pub, publicKey)
        /\ UNCHANGED <<accountId, b58PubKey, privateKey, ready>>
    BY <1>4 DEF DecodePublicKey, At
  <2>2. pc[t] \in Initializing /\ ~ ready
    BY <2>1 DEF Initializing
  <2>3. \A u \in Threads \ {t} : pc[u] \notin Initializing
    BY <2>2
  <2>4. CASE arg[t].pub.form = "ok"
    <3>1. publicKey' = arg[t].pub.key
      BY <2>1, <2>4 DEF Decoded
    <3>2. pc' = [pc EXCEPT ![t] = "initPriv"] /\ arg' = arg
      BY <1>4, <2>4 DEF DecodePublicKey, Goto
    <3>3. QED BY <2>1, <2>2, <2>3, <2>4, <3>1, <3>2 DEF TypeInv, TypeOK
  <2>5. CASE arg[t].pub.form # "ok"
    <3>1. pc' = [pc EXCEPT ![t] = "idle"]
      BY <1>4, <2>5 DEF DecodePublicKey, InitReturns, Goto
    <3>2. \A u \in Threads : pc'[u] \notin Initializing
      BY <3>1, <2>3 DEF Initializing, TypeInv, TypeOK
    <3>3. QED BY <2>1, <2>2, <3>2
  <2>6. QED BY <2>4, <2>5
<1>5. CASE DecodePrivateKey(t)
  <2>1. CASE arg[t].priv = NoText
    BY <1>5, <2>1, QuietSettings DEF DecodePrivateKey, Crash, settings, threadVars
  <2>2. CASE arg[t].priv # NoText
    <3>1. /\ pc[t] = "initPriv" /\ privateKey' = Decoded(arg[t].priv, privateKey)
          /\ ready' = (arg[t].priv.form = "ok")
          /\ pc' = [pc EXCEPT ![t] = "idle"]
          /\ UNCHANGED <<accountId, b58PubKey, publicKey>>
      BY <1>5, <2>2 DEF DecodePrivateKey, InitReturns, Goto, At
    <3>2. pc[t] \in Initializing
      BY <3>1 DEF Initializing
    <3>3. \A u \in Threads : pc'[u] \notin Initializing
      BY <3>1, <3>2 DEF Initializing, TypeInv, TypeOK
    <3>4. /\ arg[t] \in { c \in Credentials : NoText \notin {c.account, c.pub, c.priv} }
          /\ accountId \in {arg[t].account, NoText} /\ b58PubKey \in {arg[t].pub, NoText}
          /\ arg[t].pub.form = "ok" /\ publicKey = arg[t].pub.key
      BY <2>2, <3>1, <3>2 DEF TypeInv, ArgsComplete
    <3>5. arg[t].priv.form = "ok" => privateKey' = arg[t].priv.key
      BY <3>1 DEF Decoded
    <3>6. QED BY <3>1, <3>3, <3>4, <3>5
  <2>3. QED BY <2>1, <2>2
<1>6. QED BY <1>1, <1>2, <1>3, <1>4, <1>5 DEF Settings, near_account_init_json

LEMMA SettingsStep == TypeInv /\ SettingsInv /\ [Next]_vars => SettingsInv'
<1> SUFFICES ASSUME TypeInv, SettingsInv, [Next]_vars PROVE SettingsInv'
  OBVIOUS
<1>1. ASSUME NEW t \in Threads, Settings(t) PROVE SettingsInv'
  BY <1>1, SettingsSettings
<1>2. ASSUME NEW t \in Threads, NEW c \in Calls,
             near_contract_call(t, c) \/ \E kind \in ViewKinds : near_rpc_view(t, c, kind)
      PROVE  SettingsInv'
  <2>1. PICK label \in {"view", "getKey"} : Goto(t, label)
    BY <1>2 DEF near_contract_call, near_rpc_send_tx, near_rpc_view
  <2>2. label \in PCs \ Initializing
    BY DEF PCs, Initializing, HoldsSigner
  <2>3. UNCHANGED <<settings, arg>>
    BY <1>2 DEF near_contract_call, near_rpc_send_tx, near_rpc_view
  <2>4. QED BY <2>1, <2>2, <2>3, MovesOutsideInit, QuietSettings DEF settings
<1>3. ASSUME NEW t \in Threads, CallStep(t) PROVE SettingsInv'
  BY <1>3, CallStepMoves, CallStepSettings, QuietSettings
<1>4. CASE Kill \/ Chain \/ UNCHANGED vars
  BY <1>4, QuietSettings DEF Kill, Crash, Chain, vars, settings, threadVars
<1>5. CASE Restart
  BY <1>5 DEF Restart, SettingsInv, OneInitializing, DecodedSoFar, ReadyMeansDecoded, Initializing
<1>6. QED BY <1>1, <1>2, <1>3, <1>4, <1>5 DEF Next

LEMMA SettingsInvariant == Spec => [](TypeInv /\ SettingsInv)
BY TypeInit, TypeStep, SettingsInit, SettingsStep, PTL DEF Spec

\* While near_account_init has succeeded and nothing replaced them, the four
\* settings come from one set of credentials, under any discipline.
THEOREM SettingsFromOneCredential == Spec => []SettingsBelongTogether
<1>1. SettingsInv => SettingsBelongTogether
  BY DEF SettingsInv, ReadyMeansDecoded, SettingsBelongTogether
<1>2. QED BY <1>1, SettingsInvariant, PTL

-----------------------------------------------------------------------------
(* How a call begins, and which replies are the request's result.          *)

LEMMA BeginsRequest ==
  ASSUME TypeInv, NEW t \in Threads, NEW c \in Calls, NEW r \in ReqType, Begin(t, c, r)
  PROVE  /\ req'[c].kind = r.kind /\ req'[c].wait = r.wait
         /\ req'[c].account = r.account /\ req'[c].key = r.key /\ req'[c].usable = ready
         /\ req'[c].settled => \A u \in Threads : pc[u] \notin Initializing
         /\ req'[c].before = { d \in Calls : stage[d] \in {"done", "lost"} }
         /\ \A d \in Calls \ {c} : req'[d] = req[d]
BY DEF Begin, TypeInv, TypeOK, ReqType

LEMMA BeginsSend ==
  ASSUME TypeInv, NEW t \in Threads, NEW c \in Calls, NEW status \in WaitStatuses,
         near_rpc_send_tx(t, c, status)
  PROVE  /\ MayCall /\ pc[t] = "idle" /\ stage[c] = "new"
         /\ pc' = [pc EXCEPT ![t] = "getKey"] /\ cur' = [cur EXCEPT ![t] = c]
         /\ stage' = [stage EXCEPT ![c] = "open"]
         /\ req'[c].kind = "send" /\ req'[c].wait = status
         /\ req'[c].account = accountId /\ req'[c].key = b58PubKey /\ req'[c].usable = ready
         /\ req'[c].settled => \A u \in Threads : pc[u] \notin Initializing
         /\ req'[c].before = { d \in Calls : stage[d] \in {"done", "lost"} }
         /\ tx' = [tx EXCEPT ![c].pub = publicKey]
         /\ \A d \in Calls \ {c} : req'[d] = req[d]
         /\ UNCHANGED <<chainVars, settings, up, arg, reply, ret>>
<1> DEFINE r == [BlankReq EXCEPT !.kind = "send", !.wait = status,
                                !.account = accountId, !.key = b58PubKey]
<1>1. r \in ReqType
  BY ReqTypes DEF TypeInv, TypeOK
<1>2. r.kind = "send" /\ r.wait = status /\ r.account = accountId /\ r.key = b58PubKey
  BY DEF BlankReq
<1>3. Begin(t, c, r)
  BY DEF near_rpc_send_tx
<1> HIDE DEF r
<1>4. /\ req'[c].kind = r.kind /\ req'[c].wait = r.wait
      /\ req'[c].account = r.account /\ req'[c].key = r.key /\ req'[c].usable = ready
      /\ req'[c].settled => \A u \in Threads : pc[u] \notin Initializing
      /\ req'[c].before = { d \in Calls : stage[d] \in {"done", "lost"} }
      /\ \A d \in Calls \ {c} : req'[d] = req[d]
  BY <1>1, <1>3, BeginsRequest
<1>5. QED BY <1>2, <1>3, <1>4 DEF near_rpc_send_tx, Begin, Goto, At

LEMMA BeginsView ==
  ASSUME TypeInv, NEW t \in Threads, NEW c \in Calls, NEW kind \in ViewKinds,
         near_rpc_view(t, c, kind)
  PROVE  /\ MayCall /\ pc[t] = "idle" /\ stage[c] = "new"
         /\ pc' = [pc EXCEPT ![t] = "view"] /\ cur' = [cur EXCEPT ![t] = c]
         /\ stage' = [stage EXCEPT ![c] = "open"]
         /\ req'[c].kind = kind
         /\ req'[c].before = { d \in Calls : stage[d] \in {"done", "lost"} }
         /\ \A d \in Calls \ {c} : req'[d] = req[d]
         /\ UNCHANGED <<chainVars, tx, settings, up, arg, reply, ret>>
<1> DEFINE r == [BlankReq EXCEPT !.kind = kind]
<1>1. r \in ReqType /\ r.kind = kind
  BY ReqTypes DEF BlankReq
<1>2. Begin(t, c, r)
  BY DEF near_rpc_view
<1> HIDE DEF r
<1>3. /\ req'[c].kind = r.kind
      /\ req'[c].before = { d \in Calls : stage[d] \in {"done", "lost"} }
      /\ \A d \in Calls \ {c} : req'[d] = req[d]
  BY <1>1, <1>2, BeginsRequest
<1>4. QED BY <1>1, <1>2, <1>3 DEF near_rpc_view, Begin, Goto, At

\* The access key a call's transaction is built for.
AskedKey(c) == <<req[c].account, req[c].key.key>>
Askable(c) == NoText \notin {req[c].account, req[c].key} /\ req[c].key.form = "ok"
IsResult(r) == r.code = 200 /\ r.json = "result"

LEMMA OnlyResults ==
  ASSUME NEW R, NEW r \in exec_curl_rpc_call(R), IsResult(r)
  PROVE  r \in R
BY DEF exec_curl_rpc_call, NoHandle, CurlError, NoAnswer, OtherReplies, Answer, IsResult

LEMMA ServedKey ==
  ASSUME TypeInv, NEW t \in Threads, ServeAccessKey(t), IsResult(reply'[t])
  PROVE  /\ Askable(cur[t]) /\ AskedKey(cur[t]) \in AccessKeys
         /\ reply'[t].seen = keyNonce[AskedKey(cur[t])]
<1> DEFINE r == req[cur[t]]
           nonces == { NonceAt(QueryFinality("view_access_key"), k) : k \in Asked(r) }
           results == { Answer(200, "result", n) : n \in nonces }
<1>1. pc[t] \notin {"idle"} \cup Initializing /\ cur[t] \in Calls
  BY CallOfThread DEF ServeAccessKey, At, Initializing, TypeInv
<1>2. PICK o \in IF NoText \in {r.account, r.key} THEN {NoAnswer}
                 ELSE exec_curl_rpc_call({Answer(200, "failed", 0)} \cup results) :
        reply' = [reply EXCEPT ![t] = o]
  BY DEF ServeAccessKey
<1>3. reply'[t] = o
  BY <1>2 DEF TypeInv, TypeOK
<1>4. NoText \notin {r.account, r.key}
  BY <1>2, <1>3 DEF NoAnswer, Answer, IsResult
<1>5. o \in {Answer(200, "failed", 0)} \cup results
  <2> HIDE DEF results
  <2>1. QED BY <1>2, <1>3, <1>4, OnlyResults
<1>6. o \in results
  BY <1>3, <1>5 DEF Answer, IsResult
<1>7. PICK k \in Asked(r) : o = Answer(200, "result", NonceAt("optimistic", k))
  BY <1>6 DEF QueryFinality
<1>8. k = AskedKey(cur[t]) /\ k \in AccessKeys /\ r.key.form = "ok"
  BY <1>7 DEF Asked, AskedKey
<1>9. o.seen = keyNonce[k]
  BY <1>7 DEF Answer, NonceAt
<1>10. QED BY <1>3, <1>4, <1>8, <1>9 DEF Askable

-----------------------------------------------------------------------------
(* What is signed, while the settings do not change under a call.          *)

InitializingAlone ==
  \A t \in Threads : pc[t] \in Initializing => \A u \in Threads \ {t} : pc[u] = "idle"

\* Outside near_account_init, a public key text that decodes has been decoded.
TextIsKey ==
  (\A t \in Threads : pc[t] # "initPub") /\ b58PubKey # NoText /\ b58PubKey.form = "ok"
    => publicKey = b58PubKey.key

\* A call that will still read the settings finds what it began with.
HoldsSettings ==
  \A t \in Threads : pc[t] \in HoldsSigner =>
    /\ tx[cur[t]].signer = NoText /\ ~ tx[cur[t]].whole /\ tx[cur[t]].pub = publicKey
    /\ tx[cur[t]].nonce # 0 <=> pc[t] = "sign"
    /\ req[cur[t]].account = accountId /\ req[cur[t]].key = b58PubKey
    /\ req[cur[t]].usable = ready
    /\ pc[t] = "sign" \/ (pc[t] = "gotKey" /\ IsResult(reply[t])) => Askable(cur[t])

SignedAsAsked ==
  \A c \in Calls :
    /\ tx[c].whole => tx[c].signer # NoText
    /\ tx[c].signer # NoText =>
         /\ tx[c].nonce # 0 /\ KeyOf(c) = AskedKey(c)
         /\ req[c].usable => tx[c].sig = tx[c].pub

NewIsUnsigned == \A c \in Calls : stage[c] = "new" => tx[c] = BlankTx

SigningInv ==
  /\ freed = {} /\ InitializingAlone /\ TextIsKey
  /\ HoldsSettings /\ SignedAsAsked /\ NewIsUnsigned

LEMMA SigningInit == Init => SigningInv
BY DEF Init, InitProcess, SigningInv, InitializingAlone, TextIsKey, HoldsSettings,
       SignedAsAsked, NewIsUnsigned, BlankTx, Initializing, HoldsSigner

\* Steps that change no transaction, request or setting, and take no thread
\* into near_account_init or towards signing.
LEMMA QuietSigning ==
  ASSUME SigningInv,
         UNCHANGED <<tx, req, accountId, b58PubKey, publicKey, ready>>, freed' = {},
         \A u \in Threads :
           \/ pc'[u] = pc[u]
           \/ /\ pc[u] \notin {"idle"} \cup Initializing
              /\ pc'[u] \notin Initializing \cup HoldsSigner,
         \A u \in Threads : pc'[u] \in HoldsSigner => cur'[u] = cur[u] /\ reply'[u] = reply[u],
         \A c \in Calls : stage'[c] = "new" => stage[c] = "new"
  PROVE  SigningInv'
<1> USE DEF SigningInv
<1>1. (InitializingAlone /\ TextIsKey)'
  BY DEF InitializingAlone, TextIsKey, Initializing
<1>2. HoldsSettings'
  BY DEF HoldsSettings, Askable, HoldsSigner
<1>3. (SignedAsAsked /\ NewIsUnsigned)'
  BY DEF SignedAsAsked, NewIsUnsigned, KeyOf, AskedKey
<1>4. QED BY <1>1, <1>2, <1>3

LEMMA SettingsSigning ==
  ASSUME Discipline # "any", TypeInv, SettingsInv, SigningInv, NEW t \in Threads, Settings(t)
  PROVE  SigningInv'
<1>1. \A u \in Threads \ {t} : pc[u] = "idle"
  <2>1. CASE near_rpc_init(t) \/ near_rpc_cleanup(t) \/ near_account_init_json(t)
    BY <2>1 DEF near_rpc_init, near_rpc_cleanup, near_account_init_json, near_account_init,
                MayChangeSettings
  <2>2. CASE DecodePublicKey(t) \/ DecodePrivateKey(t)
    BY <2>2 DEF DecodePublicKey, DecodePrivateKey, At, Initializing, SigningInv, InitializingAlone
  <2>3. QED BY <2>1, <2>2 DEF Settings
<1>2. /\ UNCHANGED <<tx, req, stage>>
      /\ pc[t] \in {"idle"} \cup Initializing
  BY DEF Settings, near_rpc_init, near_rpc_cleanup, near_account_init_json, near_account_init,
         DecodePublicKey, DecodePrivateKey, Crash, At, Initializing, callVars
<1>3. \E label \in {"idle"} \cup Initializing : pc' = [pc EXCEPT ![t] = label]
  <2>1. pc = [pc EXCEPT ![t] = pc[t]]
    BY DEF TypeInv, TypeOK
  <2>2. pc' = pc \/ \E label \in {"idle"} \cup Initializing : pc' = [pc EXCEPT ![t] = label]
    BY DEF Settings, near_rpc_init, near_rpc_cleanup, near_account_init_json,
           near_account_init, DecodePublicKey, DecodePrivateKey, InitReturns, Crash, Goto,
           threadVars, Initializing
  <2>3. QED BY <2>1, <2>2, <1>2
<1>4. /\ \A u \in Threads \ {t} : pc'[u] = "idle"
      /\ \A u \in Threads : pc[u] \notin HoldsSigner /\ pc'[u] \notin HoldsSigner
  BY <1>1, <1>2, <1>3 DEF TypeInv, TypeOK, Initializing, HoldsSigner
<1>5. freed' = {}
  <2>1. Dangling = {}
    BY <1>4 DEF Dangling
  <2>2. freed' \in {freed, freed \cup Dangling}
    BY DEF Settings, near_rpc_init, near_rpc_cleanup, near_account_init_json,
           near_account_init, DecodePublicKey, DecodePrivateKey, Crash, settings
  <2>3. QED BY <2>1, <2>2 DEF SigningInv
<1>6. TextIsKey'
  <2> USE DEF SigningInv, TextIsKey
  <2>1. CASE near_rpc_init(t) \/ near_rpc_cleanup(t)
    BY <2>1 DEF near_rpc_init, near_rpc_cleanup, threadVars
  <2>2. ASSUME NEW cr \in Credentials, near_account_init(t, cr) PROVE TextIsKey'
    <3>1. CASE NoText \in {cr.account, cr.pub}
      BY <2>2, <3>1 DEF near_account_init, Crash, settings, threadVars
    <3>2. CASE NoText \notin {cr.account, cr.pub}
      BY <2>2, <3>2 DEF near_account_init, Goto, TypeInv, TypeOK
    <3>3. QED BY <3>1, <3>2
  <2>3. CASE DecodePublicKey(t)
    <3>1. b58PubKey \in {arg[t].pub, NoText} /\ b58PubKey' = b58PubKey
      BY <2>3 DEF DecodePublicKey, At, SettingsInv, DecodedSoFar, Initializing
    <3>2. arg[t].pub.form = "ok" => publicKey' = arg[t].pub.key
      BY <2>3 DEF DecodePublicKey, Decoded
    <3>3. QED BY <3>1, <3>2
  <2>4. CASE DecodePrivateKey(t)
    <3>1. UNCHANGED <<b58PubKey, publicKey>> /\ pc[t] = "initPriv"
      BY <2>4 DEF DecodePrivateKey, Crash, settings, At
    <3>2. \A u \in Threads : pc[u] # "initPub"
      BY <3>1, <1>1
    <3>3. QED BY <3>1, <3>2
  <2>5. QED BY <2>1, <2>2, <2>3, <2>4 DEF Settings, near_account_init_json
<1>7. InitializingAlone'
  BY <1>4 DEF InitializingAlone, Initializing
<1>8. (HoldsSettings /\ SignedAsAsked /\ NewIsUnsigned)'
  BY <1>2, <1>4 DEF SigningInv, HoldsSettings, SignedAsAsked, NewIsUnsigned, KeyOf, AskedKey
<1>9. QED BY <1>5, <1>6, <1>7, <1>8 DEF SigningInv

LEMMA BeginSigning ==
  ASSUME Discipline # "any", TypeInv, ResponseInv, SigningInv, NEW t \in Threads, NEW c \in Calls,
         NEW label \in {"view", "getKey"}, MayCall, pc[t] = "idle", stage[c] = "new",
         pc' = [pc EXCEPT ![t] = label], cur' = [cur EXCEPT ![t] = c],
         stage' = [stage EXCEPT ![c] = "open"],
         \A d \in Calls \ {c} : req'[d] = req[d],
         tx' \in {tx, [tx EXCEPT ![c].pub = publicKey]},
         label = "getKey" =>
           /\ tx' = [tx EXCEPT ![c].pub = publicKey]
           /\ req'[c].account = accountId /\ req'[c].key = b58PubKey /\ req'[c].usable = ready,
         UNCHANGED <<settings, reply>>
  PROVE  SigningInv'
<1> USE DEF settings
<1>1. \A u \in Threads : pc[u] \notin Initializing /\ pc'[u] \notin Initializing
  BY DEF MayCall, Initializing, TypeInv, TypeOK
<1>2. tx[c] = BlankTx /\ c \notin { cur[u] : u \in { v \in Threads : pc[v] \in HoldsSigner } }
  BY CNearAssumption DEF SigningInv, NewIsUnsigned, ResponseInv, OneThreadPerCall, InCall,
       HoldsSigner, Initializing
<1>3. /\ \A d \in Calls \ {c} : tx'[d] = tx[d]
      /\ tx'[c].signer = NoText /\ ~ tx'[c].whole /\ tx'[c].nonce = 0
      /\ label = "getKey" => tx'[c].pub = publicKey
  <2>1. tx[c] \in TxType /\ tx[c].signer = NoText /\ tx[c].whole = FALSE /\ tx[c].nonce = 0
    <3>1. BlankTx.signer = NoText /\ BlankTx.whole = FALSE /\ BlankTx.nonce = 0
      BY DEF BlankTx
    <3>2. QED BY <1>2, <3>1 DEF TypeInv, TypeOK
  <2>2. tx' = tx \/ tx' = [tx EXCEPT ![c] = [tx[c] EXCEPT !.pub = publicKey]]
    OBVIOUS
  <2>3. tx'[c] = tx[c] \/ tx'[c] = [tx[c] EXCEPT !.pub = publicKey]
    BY <2>2 DEF TypeInv, TypeOK
  <2>4. tx'[c].signer = NoText /\ ~ tx'[c].whole /\ tx'[c].nonce = 0
    BY <2>1, <2>3 DEF TxType
  <2>5. label = "getKey" => tx'[c].pub = publicKey
    BY <2>1 DEF TxType, TypeInv, TypeOK
  <2>6. \A d \in Calls \ {c} : tx'[d] = tx[d]
    BY <2>2 DEF TypeInv, TypeOK
  <2>7. QED BY <2>4, <2>5, <2>6
<1>4. (InitializingAlone /\ TextIsKey)'
  BY <1>1 DEF SigningInv, InitializingAlone, TextIsKey, Initializing
<1>5. HoldsSettings'
  <2>1. ASSUME NEW u \in Threads, u # t, pc'[u] \in HoldsSigner
        PROVE  /\ pc[u] = pc'[u] /\ cur'[u] = cur[u] /\ cur[u] \in Calls \ {c}
    BY <2>1, <1>2, CallOfThread DEF TypeInv, TypeOK, HoldsSigner, Initializing
  <2>2. ASSUME pc'[t] \in HoldsSigner
        PROVE  /\ pc'[t] = "getKey" /\ label = "getKey" /\ cur'[t] = c
    BY <2>2 DEF TypeInv, TypeOK, HoldsSigner
  <2>3. ASSUME NEW u \in Threads, pc'[u] \in HoldsSigner
        PROVE  /\ tx'[cur'[u]].signer = NoText /\ ~ tx'[cur'[u]].whole
               /\ tx'[cur'[u]].pub = publicKey
               /\ tx'[cur'[u]].nonce # 0 <=> pc'[u] = "sign"
               /\ req'[cur'[u]].account = accountId /\ req'[cur'[u]].key = b58PubKey
               /\ req'[cur'[u]].usable = ready
               /\ pc'[u] = "sign" \/ (pc'[u] = "gotKey" /\ IsResult(reply[u]))
                    => Askable(cur[u])'
    <3>1. CASE u = t
      BY <2>2, <2>3, <3>1, <1>3
    <3>2. CASE u # t
      BY <2>1, <2>3, <3>2, <1>3 DEF SigningInv, HoldsSettings, Askable
    <3>3. QED BY <3>1, <3>2
  <2>4. QED BY <2>3 DEF HoldsSettings
<1>6. SignedAsAsked'
  <2>1. ASSUME NEW d \in Calls \ {c} PROVE KeyOf(d)' = KeyOf(d) /\ AskedKey(d)' = AskedKey(d)
    BY <1>3 DEF KeyOf, AskedKey
  <2>2. QED BY <2>1, <1>3 DEF SigningInv, SignedAsAsked
<1>7. NewIsUnsigned'
  BY <1>3 DEF SigningInv, NewIsUnsigned, TypeInv, TypeOK
<1>8. QED BY <1>4, <1>5, <1>6, <1>7 DEF SigningInv

\* The two steps that change the transaction of the thread's own call.
LEMMA OwnTransaction ==
  ASSUME TypeInv, ResponseInv, SigningInv, NEW t \in Threads, pc[t] \in HoldsSigner,
         NEW label \in {"sign", "post"}, pc' = [pc EXCEPT ![t] = label],
         NEW own \in TxType, tx' = [tx EXCEPT ![cur[t]] = own],
         own.whole => own.signer # NoText,
         label = "sign" =>
           /\ own.signer = NoText /\ own.nonce # 0 /\ own.pub = publicKey
           /\ Askable(cur[t]),
         own.signer # NoText =>
           /\ own.nonce # 0 /\ <<own.signer, own.pub>> = AskedKey(cur[t])
           /\ req[cur[t]].usable => own.sig = own.pub,
         freed' = {},
         \A u \in Threads \ {t} : reply'[u] = reply[u],
         UNCHANGED <<req, stage, cur, accountId, b58PubKey, publicKey, ready>>
  PROVE  SigningInv'
<1>1. /\ InCall(t) /\ cur[t] \in Calls /\ stage[cur[t]] = "open"
      /\ \A u \in Threads \ {t} : pc[u] \in HoldsSigner => cur[u] # cur[t] /\ cur[u] \in Calls
  BY CallOfThread DEF InCall, HoldsSigner, Initializing, ResponseInv, OneThreadPerCall, TypeInv
<1>2. tx'[cur[t]] = own /\ \A c \in Calls \ {cur[t]} : tx'[c] = tx[c]
  BY <1>1 DEF TypeInv, TypeOK
<1>3. pc'[t] = label /\ \A u \in Threads \ {t} : pc'[u] = pc[u]
  BY DEF TypeInv, TypeOK
<1>4. (InitializingAlone /\ TextIsKey)'
  BY <1>3 DEF SigningInv, InitializingAlone, TextIsKey, HoldsSigner, Initializing
<1>5. HoldsSettings'
  <2>1. ASSUME NEW u \in Threads, pc'[u] \in HoldsSigner
        PROVE  /\ tx'[cur[u]].signer = NoText /\ ~ tx'[cur[u]].whole
               /\ tx'[cur[u]].pub = publicKey
               /\ tx'[cur[u]].nonce # 0 <=> pc'[u] = "sign"
               /\ req[cur[u]].account = accountId /\ req[cur[u]].key = b58PubKey
               /\ req[cur[u]].usable = ready
               /\ pc'[u] = "sign" \/ (pc'[u] = "gotKey" /\ IsResult(reply'[u]))
                    => Askable(cur[u])
    <3>1. CASE u = t
      <4>1. label = "sign"
        BY <2>1, <3>1, <1>3 DEF HoldsSigner
      <4>2. QED
        BY <3>1, <4>1, <1>2, <1>3 DEF SigningInv, HoldsSettings
    <3>2. CASE u # t
      BY <2>1, <3>2, <1>1, <1>2, <1>3 DEF SigningInv, HoldsSettings
    <3>3. QED BY <3>1, <3>2
  <2>2. QED BY <2>1 DEF HoldsSettings, Askable
<1>6. SignedAsAsked'
  <2>1. ASSUME NEW c \in Calls PROVE KeyOf(c)' = <<tx'[c].signer, tx'[c].pub>> /\ AskedKey(c)' = AskedKey(c)
    BY DEF KeyOf, AskedKey
  <2>2. ASSUME NEW c \in Calls, c # cur[t] PROVE KeyOf(c)' = KeyOf(c)
    BY <2>2, <1>2 DEF KeyOf
  <2>3. QED BY <2>1, <2>2, <1>2 DEF SigningInv, SignedAsAsked
<1>7. NewIsUnsigned'
  BY <1>1, <1>2 DEF SigningInv, NewIsUnsigned
<1>8. QED BY <1>4, <1>5, <1>6, <1>7 DEF SigningInv

LEMMA TakeNonceSigning ==
  ASSUME TypeInv, ResponseInv, SigningInv, NEW t \in Threads, TakeNonce(t)
  PROVE  SigningInv'
<1> DEFINE own == [tx[cur[t]] EXCEPT !.nonce = AsDouble(reply[t].seen) + 1]
<1>1. pc[t] = "gotKey" /\ IsResult(reply[t]) /\ pc[t] \in HoldsSigner
  BY DEF TakeNonce, At, IsResult, HoldsSigner
<1>2. cur[t] \in Calls /\ tx[cur[t]] \in TxType /\ AsDouble(reply[t].seen) \in Nat
  <2>1. reply[t].seen \in Nat
    BY DEF TypeInv, TypeOK, Response
  <2>2. QED BY <2>1, <1>1, AsDoubleType, CallOfThread DEF TypeInv, TypeOK, Initializing
<1>3. /\ own \in TxType /\ own.nonce # 0
      /\ own.signer = tx[cur[t]].signer /\ own.whole = tx[cur[t]].whole
      /\ own.pub = tx[cur[t]].pub
  BY <1>2 DEF TxType
<1>4. tx' = [tx EXCEPT ![cur[t]] = own]
  BY DEF TakeNonce
<1>5. /\ own.signer = NoText /\ ~ own.whole /\ own.pub = publicKey /\ Askable(cur[t])
  BY <1>1, <1>3 DEF SigningInv, HoldsSettings
<1>6. /\ pc' = [pc EXCEPT ![t] = "sign"] /\ freed' = {}
      /\ \A u \in Threads \ {t} : reply'[u] = reply[u]
      /\ UNCHANGED <<req, stage, cur, accountId, b58PubKey, publicKey, ready>>
  BY DEF TakeNonce, Goto, SigningInv, settings, callVars, TypeInv, TypeOK
<1> HIDE DEF own
<1>7. QED BY <1>1, <1>3, <1>4, <1>5, <1>6, OwnTransaction

LEMMA SignTxSigning ==
  ASSUME TypeInv, ResponseInv, SettingsInv, SigningInv, NEW t \in Threads, SignTx(t)
  PROVE  SigningInv'
<1>1. pc[t] = "sign" /\ pc[t] \in HoldsSigner
  BY DEF SignTx, At, HoldsSigner
<1>2. cur[t] \in Calls /\ tx[cur[t]] \in TxType
  BY <1>1, CallOfThread DEF TypeInv, TypeOK, Initializing
<1>3. /\ tx[cur[t]].nonce # 0 /\ tx[cur[t]].pub = publicKey /\ Askable(cur[t])
      /\ req[cur[t]].account = accountId /\ req[cur[t]].key = b58PubKey
      /\ req[cur[t]].usable = ready
  BY <1>1 DEF SigningInv, HoldsSettings
<1>4. accountId # NoText /\ b58PubKey # NoText /\ b58PubKey.form = "ok"
  BY <1>3 DEF Askable
<1>5. publicKey = b58PubKey.key
  <2>1. \A u \in Threads : pc[u] # "initPub"
    BY <1>1 DEF SigningInv, InitializingAlone, Initializing
  <2>2. QED BY <2>1, <1>4 DEF SigningInv, TextIsKey
<1>6. ready => publicKey = privateKey
  BY CredentialsAssumption DEF SettingsInv, ReadyMeansDecoded
<1>7. PICK whole \in BOOLEAN :
        tx' = [tx EXCEPT ![cur[t]].signer = accountId, ![cur[t]].whole = whole,
                         ![cur[t]].sig = sign_transaction]
  BY DEF SignTx, SignerTexts, SigningInv
<1> DEFINE own == [tx[cur[t]] EXCEPT !.signer = accountId, !.whole = whole, !.sig = sign_transaction]
<1>8. tx' = [tx EXCEPT ![cur[t]] = own]
  BY <1>2, <1>7 DEF TypeInv, TypeOK
<1>9. sign_transaction \in KeyBytes /\ accountId \in Texts
  BY DEF sign_transaction, KeyBytes, TypeInv, TypeOK
<1>10. /\ own \in TxType /\ own.signer = accountId /\ own.sig = sign_transaction
       /\ own.nonce = tx[cur[t]].nonce /\ own.pub = tx[cur[t]].pub
  BY <1>2, <1>9 DEF TxType
<1>11. /\ pc' = [pc EXCEPT ![t] = "post"] /\ freed' = {}
       /\ UNCHANGED <<req, stage, cur, reply, accountId, b58PubKey, publicKey, ready>>
  BY DEF SignTx, Goto, SigningInv, callVars
<1>12. <<own.signer, own.pub>> = AskedKey(cur[t])
  BY <1>3, <1>5, <1>10 DEF AskedKey
<1>13. req[cur[t]].usable => own.sig = own.pub
  BY <1>3, <1>6, <1>10 DEF sign_transaction
<1> HIDE DEF own
<1>14. QED BY <1>1, <1>3, <1>4, <1>8, <1>10, <1>11, <1>12, <1>13, OwnTransaction

LEMMA ServeAccessKeySigning ==
  ASSUME TypeInv, ResponseInv, SigningInv, NEW t \in Threads, ServeAccessKey(t)
  PROVE  SigningInv'
<1>1. /\ pc[t] = "getKey" /\ pc' = [pc EXCEPT ![t] = "gotKey"]
      /\ UNCHANGED <<tx, req, stage, cur, accountId, b58PubKey, publicKey, ready, freed>>
      /\ \A u \in Threads \ {t} : reply'[u] = reply[u]
  BY DEF ServeAccessKey, At, Goto, settings, callVars, TypeInv, TypeOK
<1>2. IsResult(reply'[t]) => Askable(cur[t])
  BY ServedKey
<1>3. (InitializingAlone /\ TextIsKey)'
  BY <1>1 DEF SigningInv, InitializingAlone, TextIsKey, Initializing, TypeInv, TypeOK
<1>4. ASSUME NEW u \in Threads, pc'[u] \in HoldsSigner
      PROVE  /\ pc[u] \in HoldsSigner
             /\ pc'[u] = "sign" <=> pc[u] = "sign"
             /\ pc'[u] = "sign" \/ (pc'[u] = "gotKey" /\ IsResult(reply'[u])) => Askable(cur[u])
  <2>1. CASE u = t
    BY <1>1, <1>2, <2>1 DEF HoldsSigner, TypeInv, TypeOK
  <2>2. CASE u # t
    BY <1>1, <1>4, <2>2 DEF SigningInv, HoldsSettings, TypeInv, TypeOK
  <2>3. QED BY <2>1, <2>2
<1>5. HoldsSettings'
  BY <1>1, <1>4 DEF SigningInv, HoldsSettings, Askable
<1>6. (SignedAsAsked /\ NewIsUnsigned)'
  BY <1>1 DEF SigningInv, SignedAsAsked, NewIsUnsigned, KeyOf, AskedKey
<1>7. QED BY <1>1, <1>3, <1>5, <1>6 DEF SigningInv

LEMMA CallStepSigning ==
  ASSUME TypeInv, ResponseInv, SettingsInv, SigningInv, NEW t \in Threads, CallStep(t)
  PROVE  SigningInv'
<1> USE DEF settings, threadVars, callVars
<1>1. CASE TakeNonce(t) \/ SignTx(t) \/ ServeAccessKey(t)
  BY <1>1, TakeNonceSigning, SignTxSigning, ServeAccessKeySigning
<1>2. CASE DecodeNoBlockHash(t) \/ ReadFreedSigner(t)
  BY <1>2, QuietSigning DEF DecodeNoBlockHash, ReadFreedSigner, Crash, SigningInv
<1>3. CASE ServeView(t) \/ PostTx(t)
  <2>1. PICK label \in {"viewed", "await"} : pc' = [pc EXCEPT ![t] = label]
    BY <1>3 DEF ServeView, PostTx, Goto
  <2>2. /\ pc[t] \notin {"idle"} \cup Initializing
        /\ label \notin Initializing \cup HoldsSigner
        /\ \A u \in Threads \ {t} : reply'[u] = reply[u]
        /\ UNCHANGED <<tx, req, stage, cur, settings>>
    BY <1>3 DEF ServeView, PostTx, At, Initializing, HoldsSigner, TypeInv, TypeOK
  <2>3. QED BY <2>1, <2>2, QuietSigning DEF SigningInv, TypeInv, TypeOK
<1>4. CASE ReturnView(t) \/ GiveUp(t) \/ NotPosted(t) \/ ReturnTx(t)
  <2>1. PICK r : Return(t, r)
    BY <1>4 DEF ReturnView, GiveUp, NotPosted, ReturnTx
  <2>2. /\ pc[t] \notin {"idle"} \cup Initializing
        /\ UNCHANGED <<tx, req, accountId, b58PubKey, publicKey, ready>> /\ freed' = {}
    BY <1>4 DEF ReturnView, GiveUp, NotPosted, ReturnTx, At, Initializing, SigningInv
  <2>3. /\ pc' = [pc EXCEPT ![t] = "idle"]
        /\ \A u \in Threads \ {t} : cur'[u] = cur[u] /\ reply'[u] = reply[u]
        /\ \A c \in Calls : stage'[c] = "new" => stage[c] = "new"
    BY <2>1 DEF Return, Goto, TypeInv, TypeOK
  <2>4. "idle" \notin Initializing \cup HoldsSigner
    BY DEF Initializing, HoldsSigner
  <2>5. QED BY <2>2, <2>3, <2>4, QuietSigning DEF TypeInv, TypeOK
<1>5. QED BY <1>1, <1>2, <1>3, <1>4 DEF CallStep

LEMMA SigningStep ==
  ASSUME Discipline # "any"
  PROVE  TypeInv /\ ResponseInv /\ SettingsInv /\ SigningInv /\ [Next]_vars => SigningInv'
<1> SUFFICES ASSUME TypeInv, ResponseInv, SettingsInv, SigningInv, [Next]_vars PROVE SigningInv'
  OBVIOUS
<1>1. ASSUME NEW t \in Threads, Settings(t) PROVE SigningInv'
  BY <1>1, SettingsSigning
<1>2. ASSUME NEW t \in Threads, NEW c \in Calls, NEW status \in WaitStatuses,
             near_rpc_send_tx(t, c, status)
      PROVE  SigningInv'
  <2>1. /\ MayCall /\ pc[t] = "idle" /\ stage[c] = "new"
        /\ pc' = [pc EXCEPT ![t] = "getKey"] /\ cur' = [cur EXCEPT ![t] = c]
        /\ stage' = [stage EXCEPT ![c] = "open"]
        /\ req'[c].account = accountId /\ req'[c].key = b58PubKey /\ req'[c].usable = ready
        /\ tx' = [tx EXCEPT ![c].pub = publicKey]
        /\ \A d \in Calls \ {c} : req'[d] = req[d]
        /\ UNCHANGED <<settings, reply>>
    BY <1>2, BeginsSend
  <2>2. QED BY <2>1, BeginSigning
<1>3. ASSUME NEW t \in Threads, NEW c \in Calls, NEW kind \in ViewKinds, near_rpc_view(t, c, kind)
      PROVE  SigningInv'
  <2>1. /\ MayCall /\ pc[t] = "idle" /\ stage[c] = "new"
        /\ pc' = [pc EXCEPT ![t] = "view"] /\ cur' = [cur EXCEPT ![t] = c]
        /\ stage' = [stage EXCEPT ![c] = "open"] /\ tx' = tx
        /\ \A d \in Calls \ {c} : req'[d] = req[d]
        /\ UNCHANGED <<settings, reply>>
    BY <1>3, BeginsView
  <2>2. QED BY <2>1, BeginSigning
<1>4. ASSUME NEW t \in Threads, CallStep(t) PROVE SigningInv'
  BY <1>4, CallStepSigning
<1>5. CASE Kill \/ Chain \/ UNCHANGED vars
  BY <1>5, QuietSigning
     DEF Kill, Crash, Chain, Admit, Include, Execute, Discard, Finalize, vars, settings, threadVars,
         callVars, SigningInv
<1>6. CASE Restart
  <2>1. \A c \in Calls : stage'[c] = "new" => stage[c] = "new"
    BY <1>6 DEF Restart, TypeInv, TypeOK
  <2>2. QED
    BY <1>6, <2>1 DEF Restart, SigningInv, InitializingAlone, TextIsKey, HoldsSettings,
       SignedAsAsked, NewIsUnsigned, KeyOf, AskedKey, Initializing, HoldsSigner
<1>7. QED
  BY <1>1, <1>2, <1>3, <1>4, <1>5, <1>6 DEF Next, near_contract_call

LEMMA SigningInvariant ==
  ASSUME Discipline # "any"
  PROVE  Spec => [](TypeInv /\ ResponseInv /\ SettingsInv /\ SigningInv)
<1>1. Init => TypeInv /\ ResponseInv /\ SettingsInv /\ SigningInv
  BY TypeInit, ResponseInit, SettingsInit, SigningInit
<1>2. TypeInv /\ ResponseInv /\ SettingsInv /\ SigningInv /\ [Next]_vars
        => (TypeInv /\ ResponseInv /\ SettingsInv /\ SigningInv)'
  BY TypeStep, ResponseStep, SettingsStep, SigningStep
<1>3. QED BY <1>1, <1>2, PTL DEF Spec

\* If the settings only change while no call is running, what is signed after
\* a successful near_account_init names the account and the key whose nonce
\* it carries, and is signed by that key.
THEOREM SignsForNamedKey ==
  ASSUME Discipline # "any"
  PROVE  Spec => []SignedByNamedKey
<1>1. SigningInv => SignedByNamedKey
  BY DEF SigningInv, SignedAsAsked, SignedByNamedKey, AskedKey
<1>2. QED BY <1>1, SigningInvariant, PTL
-----------------------------------------------------------------------------
(* Calls that ended do not change any more.                                *)

Ended(c) == stage[c] \in {"done", "lost"}

BeforeEnded == \A c \in Calls : c \notin req[c].before /\ \A d \in req[c].before : Ended(d)

\* What a step leaves alone: a request once made, an ended call, and an
\* included transaction.
EndedStay ==
  /\ \A c \in Calls : stage[c] # "new" => req'[c] = req[c] /\ stage'[c] # "new"
  /\ \A c \in Calls : Ended(c) => tx'[c] = tx[c] /\ stage'[c] = stage[c] /\ ret'[c] = ret[c]
  /\ \A c \in Included : tx'[c] = tx[c]
  /\ \A c \in Calls : \/ req'[c] = req[c]
                      \/ stage[c] = "new" /\ req'[c].before = { d \in Calls : Ended(d) }

LEMMA EndedFrozen == TypeInv /\ ResponseInv /\ [Next]_vars => EndedStay
<1> SUFFICES ASSUME TypeInv, ResponseInv, [Next]_vars PROVE EndedStay
  OBVIOUS
<1>1. ASSUME UNCHANGED <<tx, callVars>> PROVE EndedStay
  BY <1>1 DEF callVars, EndedStay
<1>2. ASSUME NEW t \in Threads, NEW c \in Calls, NEW status \in WaitStatuses,
             near_rpc_send_tx(t, c, status)
      PROVE  EndedStay
  <2>1. /\ stage[c] = "new" /\ stage' = [stage EXCEPT ![c] = "open"]
        /\ tx' = [tx EXCEPT ![c].pub = publicKey]
        /\ \A d \in Calls \ {c} : req'[d] = req[d]
        /\ req'[c].before = { d \in Calls : stage[d] \in {"done", "lost"} }
        /\ ret' = ret
    BY <1>2, BeginsSend
  <2>2. c \notin Included
    BY <2>1 DEF ResponseInv, PlacedOnlyByAwaiting, Placed
  <2>3. Included \subseteq Calls
    BY PastType
  <2>4. \A d \in Calls \ {c} : tx'[d] = tx[d]
    BY <2>1 DEF TypeInv, TypeOK
  <2>5. QED BY <2>1, <2>2, <2>3, <2>4 DEF EndedStay, Ended, TypeInv, TypeOK
<1>3. ASSUME NEW t \in Threads, NEW c \in Calls, NEW kind \in ViewKinds, near_rpc_view(t, c, kind)
      PROVE  EndedStay
  <2>1. /\ stage[c] = "new" /\ stage' = [stage EXCEPT ![c] = "open"] /\ tx' = tx
        /\ \A d \in Calls \ {c} : req'[d] = req[d]
        /\ req'[c].before = { d \in Calls : stage[d] \in {"done", "lost"} }
        /\ ret' = ret
    BY <1>3, BeginsView
  <2>2. QED BY <2>1 DEF EndedStay, Ended, TypeInv, TypeOK
<1>4. ASSUME NEW t \in Threads, TakeNonce(t) \/ SignTx(t) PROVE EndedStay
  <2>1. InCall(t) /\ pc[t] # "await" /\ UNCHANGED <<req, stage, ret>>
    BY <1>4 DEF TakeNonce, SignTx, At, InCall, Initializing, callVars
  <2>2. cur[t] \in Calls /\ stage[cur[t]] = "open" /\ cur[t] \notin Included
    BY <2>1, CallOfThread
       DEF InCall, ResponseInv, OneThreadPerCall, PlacedOnlyByAwaiting, Placed, TypeInv
  <2>3. \A d \in Calls \ {cur[t]} : tx'[d] = tx[d]
    <3>1. CASE TakeNonce(t)
      BY <3>1 DEF TakeNonce, TypeInv, TypeOK
    <3>2. CASE SignTx(t)
      <4>1. PICK signer, whole :
              tx' = [tx EXCEPT ![cur[t]].signer = signer, ![cur[t]].whole = whole,
                               ![cur[t]].sig = sign_transaction]
        BY <3>2 DEF SignTx
      <4>2. QED BY <4>1 DEF TypeInv, TypeOK
    <3>3. QED BY <1>4, <3>1, <3>2
  <2>4. Included \subseteq Calls
    BY PastType
  <2>5. QED BY <2>1, <2>2, <2>3, <2>4 DEF EndedStay, Ended
<1>5. ASSUME NEW t \in Threads, ReturnView(t) \/ GiveUp(t) \/ NotPosted(t) \/ ReturnTx(t)
      PROVE  EndedStay
  <2>1. InCall(t) /\ UNCHANGED <<req, tx>> /\ \E r : Return(t, r)
    BY <1>5 DEF ReturnView, GiveUp, NotPosted, ReturnTx, At, InCall, Initializing
  <2>2. stage[cur[t]] = "open"
    BY <2>1 DEF ResponseInv, OneThreadPerCall
  <2>3. QED BY <2>1, <2>2 DEF Return, EndedStay, Ended, TypeInv, TypeOK
<1>6. CASE Restart
  BY <1>6 DEF Restart, EndedStay, Ended, TypeInv, TypeOK
<1>7. ASSUME NEW t \in Threads, CallStep(t) PROVE EndedStay
  <2>1. CASE ServeView(t) \/ ServeAccessKey(t) \/ PostTx(t) \/ DecodeNoBlockHash(t) \/ ReadFreedSigner(t)
    BY <2>1, <1>1 DEF ServeView, ServeAccessKey, PostTx, DecodeNoBlockHash, ReadFreedSigner, Crash
  <2>2. QED BY <2>1, <1>4, <1>5, <1>7 DEF CallStep
<1>8. ASSUME NEW t \in Threads, Settings(t) PROVE EndedStay
  <2>1. UNCHANGED <<tx, callVars>>
    BY <1>8 DEF Settings, near_rpc_init, near_rpc_cleanup, near_account_init_json,
                near_account_init, DecodePublicKey, DecodePrivateKey, Crash
  <2>2. QED BY <2>1, <1>1
<1>9. CASE Kill \/ Chain \/ UNCHANGED vars
  <2>1. UNCHANGED <<tx, callVars>>
    BY <1>9 DEF Kill, Crash, Chain, Admit, Include, Execute, Discard, Finalize, vars
  <2>2. QED BY <2>1, <1>1
<1>10. QED
  BY <1>2, <1>3, <1>6, <1>7, <1>8, <1>9 DEF Next, near_contract_call

LEMMA BeforeStep == TypeInv /\ ResponseInv /\ BeforeEnded /\ [Next]_vars => BeforeEnded'
<1> SUFFICES ASSUME TypeInv, ResponseInv, BeforeEnded, [Next]_vars,
                    NEW c \in Calls
             PROVE  c \notin req'[c].before /\ \A d \in req'[c].before : Ended(d)'
  BY DEF BeforeEnded
<1>1. c \notin req'[c].before /\ \A d \in req'[c].before : Ended(d)
  BY EndedFrozen DEF BeforeEnded, EndedStay, Ended
<1>2. req'[c].before \subseteq Calls
  BY TypeStep DEF TypeInv, TypeOK, ReqType
<1>3. QED BY <1>1, <1>2, EndedFrozen DEF EndedStay, Ended

LEMMA BeforeInvariant == Spec => [](TypeInv /\ ResponseInv /\ BeforeEnded)
<1>1. Init => BeforeEnded
  <2>1. BlankReq.before = {}
    BY DEF BlankReq
  <2>2. QED BY <2>1 DEF Init, BeforeEnded
<1>2. QED BY <1>1, TypeInit, TypeStep, ResponseInit, ResponseStep, BeforeStep, PTL DEF Spec

-----------------------------------------------------------------------------
(* Views.                                                                  *)

ConfirmedFinal(d) == IsSend(d) /\ ReturnedResult(d) /\ req[d].wait \in FinalStatuses

\* What was executed in the first seen events includes all that was reported
\* final before v.
SeesFinal(v, seen) ==
  \A d \in req[v].before : ConfirmedFinal(d) =>
    \E i \in DOMAIN ledger : i <= seen /\ ledger[i].step = "executed" /\ ledger[i].call = d

Grown == ledger' = ledger \/ \E c \in Calls, step \in Steps : ledger' = Append(ledger, Event(c, step))

ViewInv ==
  /\ \A t \in Threads : pc[t] = "viewed" /\ IsResult(reply[t]) => SeesFinal(cur[t], reply[t].seen)
  /\ \A v \in Calls : req[v].kind \in ViewKinds /\ ReturnedResult(v) => SeesFinal(v, ret[v].seen)

\* What a view saw stays so: the calls before it have ended, and the ledger
\* only grows.
LEMMA SeesFinalStays ==
  ASSUME TypeInv, BeforeEnded, EndedStay, NEW v \in Calls, stage[v] # "new", NEW seen,
         SeesFinal(v, seen), Grown
  PROVE  SeesFinal(v, seen)'
<1>1. req'[v] = req[v] /\ req[v].before \subseteq Calls
  BY DEF EndedStay, TypeInv, TypeOK, ReqType
<1>2. ASSUME NEW d \in req[v].before PROVE ConfirmedFinal(d)' <=> ConfirmedFinal(d)
  BY <1>1 DEF BeforeEnded, EndedStay, Ended, ConfirmedFinal, IsSend, ReturnedResult
<1>3. ASSUME NEW i \in DOMAIN ledger PROVE i \in DOMAIN ledger' /\ ledger'[i] = ledger[i]
  <2>1. ASSUME NEW c \in Calls, NEW step \in Steps, ledger' = Append(ledger, Event(c, step))
        PROVE  i \in DOMAIN ledger' /\ ledger'[i] = ledger[i]
    BY <2>1, EventAppended, LedgerIs
  <2>2. QED BY <2>1 DEF Grown
<1>4. QED BY <1>1, <1>2, <1>3 DEF SeesFinal

LEMMA LedgerGrows == [Next]_vars => Grown
<1> SUFFICES ASSUME [Next]_vars PROVE Grown
  OBVIOUS
<1>1. ASSUME NEW t \in Threads, Settings(t) PROVE ledger' = ledger
  BY <1>1 DEF Settings, near_rpc_init, near_rpc_cleanup, near_account_init_json,
              near_account_init, DecodePublicKey, DecodePrivateKey, Crash, chainVars
<1>2. ASSUME NEW t \in Threads, NEW c \in Calls,
             near_contract_call(t, c) \/ \E kind \in ViewKinds : near_rpc_view(t, c, kind)
      PROVE  ledger' = ledger
  BY <1>2 DEF near_contract_call, near_rpc_send_tx, near_rpc_view, chainVars
<1>3. ASSUME NEW t \in Threads, CallStep(t) PROVE ledger' = ledger
  BY <1>3 DEF CallStep, ServeView, ReturnView, ServeAccessKey, GiveUp, DecodeNoBlockHash,
              TakeNonce, SignTx, ReadFreedSigner, PostTx, NotPosted, ReturnTx, Crash, chainVars
<1>4. ASSUME Kill \/ Restart \/ UNCHANGED vars PROVE ledger' = ledger
  BY <1>4 DEF Kill, Crash, Restart, vars, chainVars
<1>5. ASSUME Chain PROVE Grown
  <2>1. ASSUME NEW c \in Calls, Admit(c) \/ Discard(c) PROVE Grown
    BY <2>1 DEF Admit, Discard, Grown
  <2>2. ASSUME NEW c \in Calls, Include(c) \/ Execute(c) PROVE Grown
    BY <2>2 DEF Include, Execute, Grown, Steps
  <2>3. CASE Finalize
    BY <2>3 DEF Finalize, Grown
  <2>4. QED BY <1>5, <2>1, <2>2, <2>3 DEF Chain
<1>6. QED BY <1>1, <1>2, <1>3, <1>4, <1>5 DEF Next, Grown

\* The result of a view is read from the last final block, or a later one.
LEMMA ServedView ==
  ASSUME TypeInv, ResponseInv, NEW t \in Threads, ServeView(t), IsResult(reply'[t])
  PROVE  SeesFinal(cur[t], reply'[t].seen)
<1> DEFINE height == HeightAt(QueryFinality(req[cur[t]].kind))
<1>1. PICK o \in exec_curl_rpc_call({Answer(200, "failed", 0), Answer(200, "result", height)}) :
        reply' = [reply EXCEPT ![t] = o]
  BY DEF ServeView
<1>2. reply'[t] = o
  BY <1>1 DEF TypeInv, TypeOK
<1>3. o \in {Answer(200, "failed", 0), Answer(200, "result", height)}
  <2> HIDE DEF height
  <2>1. QED BY <1>1, <1>2, OnlyResults
<1>4. o.seen = height
  BY <1>2, <1>3 DEF Answer, IsResult
<1>5. height \in Nat /\ height >= final
  BY LedgerIs DEF HeightAt
<1> HIDE DEF height
<1>6. ASSUME NEW d \in req[cur[t]].before, ConfirmedFinal(d)
      PROVE  \E i \in DOMAIN ledger : i <= height /\ ledger[i].step = "executed" /\ ledger[i].call = d
  <2>1. d \in Calls
    <3>1. cur[t] \in Calls
      BY CallOfThread DEF ServeView, At, Initializing, TypeInv
    <3>2. QED BY <3>1 DEF TypeInv, TypeOK, ReqType
  <2>2. d \in FinallyExecuted
    BY <1>6, <2>1 DEF ConfirmedFinal, ResponseInv, ResultMeansStatus
  <2>3. PICK i \in 1..final : ledger[i].step = "executed" /\ ledger[i].call = d
    BY <2>2 DEF FinallyExecuted, Past
  <2>4. i \in DOMAIN ledger /\ i <= height
    BY <1>5, <2>3, LedgerIs
  <2>5. QED BY <2>3, <2>4
<1>7. QED BY <1>2, <1>4, <1>6 DEF SeesFinal

\* How threads get to having a view's reply, and how calls come to be done.
ViewMoves ==
  /\ \A t \in Threads : pc'[t] = "viewed" =>
       cur'[t] = cur[t] /\ (ServeView(t) \/ (pc[t] = "viewed" /\ reply'[t] = reply[t]))
  /\ \A v \in Calls : stage'[v] = "done" /\ stage[v] # "done" =>
       IsSend(v) \/ \E t \in Threads : cur[t] = v /\ pc[t] = "viewed" /\ ret'[v] = reply[t]

LEMMA ReturnMoves ==
  ASSUME TypeInv, ResponseInv, NEW t \in Threads, InCall(t), NEW r, Return(t, r),
         pc[t] \in SendPCs \/ (pc[t] = "viewed" /\ r = reply[t])
  PROVE  ViewMoves
<1>1. cur[t] \in Calls /\ (pc[t] \in SendPCs => IsSend(cur[t]))
  BY CallOfThread DEF InCall, ResponseInv, OneThreadPerCall, TypeInv
<1>2. /\ stage' = [stage EXCEPT ![cur[t]] = "done"] /\ ret' = [ret EXCEPT ![cur[t]] = r]
      /\ pc' = [pc EXCEPT ![t] = "idle"]
      /\ \A u \in Threads \ {t} : cur'[u] = cur[u] /\ reply'[u] = reply[u]
  BY DEF Return, Goto, TypeInv, TypeOK
<1>3. \A v \in Calls : stage'[v] = "done" /\ stage[v] # "done" => v = cur[t]
  BY <1>1, <1>2 DEF TypeInv, TypeOK
<1>4. ret'[cur[t]] = r
  BY <1>1, <1>2 DEF TypeInv, TypeOK
<1>5. \A u \in Threads : pc'[u] = "viewed" => u # t /\ pc[u] = "viewed"
  BY <1>2 DEF TypeInv, TypeOK
<1>6. QED BY <1>1, <1>2, <1>3, <1>4, <1>5 DEF ViewMoves

LEMMA CallStepViewMoves ==
  ASSUME TypeInv, ResponseInv, NEW t \in Threads, CallStep(t)
  PROVE  ViewMoves
<1> USE DEF callVars, threadVars
<1>1. CASE DecodeNoBlockHash(t) \/ ReadFreedSigner(t)
  BY <1>1 DEF DecodeNoBlockHash, ReadFreedSigner, Crash, ViewMoves
<1>2. CASE ServeView(t)
  BY <1>2 DEF ServeView, Goto, ViewMoves, TypeInv, TypeOK
<1>3. CASE ServeAccessKey(t) \/ TakeNonce(t) \/ SignTx(t) \/ PostTx(t)
  <2>1. PICK label \in {"gotKey", "sign", "post", "await"} : pc' = [pc EXCEPT ![t] = label]
    BY <1>3 DEF ServeAccessKey, TakeNonce, SignTx, PostTx, Goto
  <2>2. UNCHANGED <<cur, callVars>> /\ \E r : reply' \in {reply, [reply EXCEPT ![t] = r]}
    BY <1>3 DEF ServeAccessKey, TakeNonce, SignTx, PostTx
  <2>3. QED BY <2>1, <2>2 DEF ViewMoves, TypeInv, TypeOK
<1>4. CASE ReturnView(t)
  BY <1>4, ReturnMoves DEF ReturnView, At, InCall, Initializing
<1>5. CASE GiveUp(t) \/ NotPosted(t) \/ ReturnTx(t)
  <2>1. pc[t] \in SendPCs /\ InCall(t)
    BY <1>5 DEF GiveUp, NotPosted, ReturnTx, At, SendPCs, HoldsSigner, InCall, Initializing
  <2>2. PICK r : Return(t, r)
    BY <1>5 DEF GiveUp, NotPosted, ReturnTx
  <2>3. QED BY <2>1, <2>2, ReturnMoves
<1>6. QED BY <1>1, <1>2, <1>3, <1>4, <1>5 DEF CallStep

LEMMA NextViewMoves == TypeInv /\ ResponseInv /\ [Next]_vars => ViewMoves
<1> SUFFICES ASSUME TypeInv, ResponseInv, [Next]_vars PROVE ViewMoves
  OBVIOUS
<1>1. ASSUME NEW t \in Threads, Settings(t) PROVE ViewMoves
  <2>1. UNCHANGED <<cur, reply, stage>>
    BY <1>1 DEF Settings, near_rpc_init, near_rpc_cleanup, near_account_init_json, threadVars,
                near_account_init, DecodePublicKey, DecodePrivateKey, Crash, callVars
  <2>2. pc' = pc \/ \E label \in {"idle"} \cup Initializing : pc' = [pc EXCEPT ![t] = label]
    BY <1>1 DEF Settings, near_rpc_init, near_rpc_cleanup, near_account_init_json, threadVars,
                near_account_init, DecodePublicKey, DecodePrivateKey, InitReturns, Crash, Goto,
                Initializing
  <2>3. QED BY <2>1, <2>2 DEF ViewMoves, Initializing, TypeInv, TypeOK
<1>2. ASSUME NEW t \in Threads, NEW c \in Calls,
             near_contract_call(t, c) \/ \E kind \in ViewKinds : near_rpc_view(t, c, kind)
      PROVE  ViewMoves
  <2>1. PICK label \in {"view", "getKey"} : pc' = [pc EXCEPT ![t] = label]
    BY <1>2 DEF near_contract_call, near_rpc_send_tx, near_rpc_view, Goto
  <2>2. /\ cur' = [cur EXCEPT ![t] = c] /\ stage' = [stage EXCEPT ![c] = "open"]
        /\ reply' = reply
    BY <1>2 DEF near_contract_call, near_rpc_send_tx, near_rpc_view, Begin
  <2>3. QED BY <2>1, <2>2 DEF ViewMoves, TypeInv, TypeOK
<1>3. ASSUME NEW t \in Threads, CallStep(t) PROVE ViewMoves
  BY <1>3, CallStepViewMoves
<1>4. CASE Kill \/ Chain \/ UNCHANGED vars
  BY <1>4 DEF Kill, Crash, Chain, vars, threadVars, callVars, ViewMoves
<1>5. CASE Restart
  BY <1>5 DEF Restart, ViewMoves, TypeInv, TypeOK
<1>6. QED BY <1>1, <1>2, <1>3, <1>4, <1>5 DEF Next

LEMMA ViewStep == TypeInv /\ ResponseInv /\ BeforeEnded /\ ViewInv /\ [Next]_vars => ViewInv'
<1> SUFFICES ASSUME TypeInv, ResponseInv, BeforeEnded, ViewInv, [Next]_vars PROVE ViewInv'
  OBVIOUS
<1>1. EndedStay /\ ViewMoves /\ Grown
  BY EndedFrozen, NextViewMoves, LedgerGrows
<1>2. ASSUME NEW t \in Threads, pc'[t] = "viewed", IsResult(reply'[t])
      PROVE  SeesFinal(cur[t], reply[t].seen)'
  <2>1. cur'[t] = cur[t] /\ (ServeView(t) \/ (pc[t] = "viewed" /\ reply'[t] = reply[t]))
    BY <1>1, <1>2 DEF ViewMoves
  <2>2. InCall(t)
    BY <2>1 DEF ServeView, At, InCall, Initializing
  <2>3. PICK v \in Calls, n \in {reply'[t].seen} : v = cur[t] /\ stage[v] # "new" /\ n = reply'[t].seen
    BY <2>2, CallOfThread DEF InCall, ResponseInv, OneThreadPerCall, TypeInv
  <2>4. SeesFinal(v, n)
    <3>1. CASE ServeView(t)
      BY <1>2, <2>3, <3>1, ServedView
    <3>2. CASE pc[t] = "viewed" /\ reply'[t] = reply[t]
      BY <1>2, <2>3, <3>2 DEF ViewInv
    <3>3. QED BY <2>1, <3>1, <3>2
  <2>5. SeesFinal(v, n)'
    BY <1>1, <2>3, <2>4, SeesFinalStays
  <2>6. QED BY <2>1, <2>3, <2>5
<1>3. ASSUME NEW v \in Calls, req'[v].kind \in ViewKinds, ReturnedResult(v)'
      PROVE  SeesFinal(v, ret[v].seen)'
  <2>1. stage'[v] = "done" /\ IsResult(ret'[v])
    BY <1>3 DEF ReturnedResult, IsResult
  <2>2. PICK n : n = ret'[v].seen
    OBVIOUS
  <2>3. stage[v] # "new" /\ req'[v] = req[v] /\ SeesFinal(v, n)
    <3>1. CASE stage[v] = "done"
      <4>1. req'[v] = req[v] /\ ret'[v] = ret[v]
        BY <1>1, <3>1 DEF EndedStay, Ended
      <4>2. QED BY <1>3, <2>1, <2>2, <3>1, <4>1 DEF ViewInv, ReturnedResult, IsResult
    <3>2. CASE stage[v] # "done"
      <4>1. stage[v] # "new"
        BY <1>3, <1>1, <2>1, <3>2 DEF ViewMoves, ResponseInv, OneThreadPerCall, NewIsBlank, IsSend,
              InCall, Initializing
      <4>2. req'[v] = req[v]
        BY <1>1, <4>1 DEF EndedStay
      <4>3. ~ IsSend(v)
        BY <1>3, <4>2, CNearAssumption DEF IsSend
      <4>4. PICK t \in Threads : cur[t] = v /\ pc[t] = "viewed" /\ ret'[v] = reply[t]
        BY <1>1, <2>1, <3>2, <4>3 DEF ViewMoves
      <4>5. QED BY <2>1, <2>2, <4>1, <4>2, <4>4 DEF ViewInv
    <3>3. QED BY <3>1, <3>2
  <2>4. SeesFinal(v, n)'
    BY <1>1, <2>3, SeesFinalStays
  <2>5. QED BY <2>2, <2>4
<1>4. QED BY <1>2, <1>3 DEF ViewInv

\* A view that begins after a call reported its receipts final sees what they
\* did, under any discipline and across crashes.
THEOREM ViewsSeeFinal == Spec => []ReadsFinalWrites
<1>1. Init => ViewInv
  BY DEF Init, InitProcess, ViewInv, ReturnedResult
<1>2. TypeInv /\ ViewInv => ReadsFinalWrites
  <2>1. SUFFICES ASSUME TypeInv, ViewInv, NEW v \in Calls, NEW d \in Calls,
                        req[v].kind \in ViewKinds, ReturnedResult(v), d \in req[v].before,
                        ConfirmedFinal(d)
                 PROVE  d \in Past("executed", ret[v].seen)
    BY DEF ReadsFinalWrites, ConfirmedFinal
  <2>2. PICK i \in DOMAIN ledger :
          i <= ret[v].seen /\ ledger[i].step = "executed" /\ ledger[i].call = d
    BY <2>1 DEF ViewInv, SeesFinal
  <2>3. ret[v].seen \in Nat
    BY <2>1 DEF TypeInv, TypeOK, Response
  <2>4. i \in 1..ret[v].seen
    BY <2>1, <2>2, <2>3, LedgerIs
  <2>5. QED BY <2>2, <2>4 DEF Past
<1>3. QED BY <1>1, <1>2, ViewStep, BeforeInvariant, PTL DEF Spec

-----------------------------------------------------------------------------
(* Nonces, while the settings do not change under a call.  A send reads the *)
(* nonce of the access key it asked for after the calls before it have      *)
(* read theirs, so its own is not lower; and the doubles that numbers pass  *)
(* through keep the order, but not the difference.                          *)

Confirmed(d) == IsSend(d) /\ ReturnedResult(d) /\ req[d].wait \in IncludedStatuses
HasNonce(c) == tx[c].nonce # 0

NoncesRead ==
  \A c \in Calls : HasNonce(c) =>
    AskedKey(c) \in AccessKeys /\ tx[c].nonce <= AsDouble(keyNonce[AskedKey(c)]) + 1

\* The calls before c that used the access key c asked for.
Rivals(c) == { d \in req[c].before : HasNonce(d) /\ AskedKey(d) = AskedKey(c) }

NoncesOrdered ==
  \A c \in Calls : HasNonce(c) => \A d \in Rivals(c) :
    /\ tx[d].nonce <= tx[c].nonce
    /\ Confirmed(d) /\ tx[c].nonce <= Precise - 1 => tx[d].nonce < tx[c].nonce

RepliesOrdered ==
  \A t \in Threads : pc[t] = "gotKey" /\ IsResult(reply[t]) =>
    /\ AskedKey(cur[t]) \in AccessKeys
    /\ reply[t].seen <= keyNonce[AskedKey(cur[t])]
    /\ \A d \in Rivals(cur[t]) :
         /\ tx[d].nonce <= AsDouble(reply[t].seen) + 1
         /\ Confirmed(d) => tx[d].nonce <= reply[t].seen

LedgerBelowNonce ==
  \A c \in Included : KeyOf(c) \in AccessKeys /\ tx[c].nonce <= keyNonce[KeyOf(c)]

OrderInv ==
  NoncesRead /\ NoncesOrdered /\ RepliesOrdered /\ LedgerBelowNonce /\ IncludedInCallOrder

LEMMA OrderInit == Init => OrderInv
<1> SUFFICES ASSUME Init PROVE OrderInv
  OBVIOUS
<1>1. \A c \in Calls : ~ HasNonce(c)
  BY DEF Init, BlankTx, HasNonce
<1>2. Included = {} /\ DOMAIN ledger = {}
  BY DEF Init, ChainInit, Included, Past
<1>3. QED
  BY <1>1, <1>2 DEF Init, InitProcess, OrderInv, NoncesRead, NoncesOrdered, RepliesOrdered,
                    LedgerBelowNonce, IncludedInCallOrder

LEMMA RivalsStay ==
  ASSUME TypeInv, BeforeEnded, EndedStay, NEW c \in Calls, stage[c] # "new"
  PROVE  /\ AskedKey(c)' = AskedKey(c) /\ Rivals(c)' = Rivals(c)
         /\ \A d \in Rivals(c) : /\ d \in Calls /\ Ended(d)
                                 /\ tx'[d] = tx[d] /\ (Confirmed(d)' <=> Confirmed(d))
<1>1. req'[c] = req[c] /\ req[c].before \subseteq Calls
  BY DEF EndedStay, TypeInv, TypeOK, ReqType
<1>2. ASSUME NEW d \in req[c].before
      PROVE  /\ d \in Calls /\ Ended(d) /\ req'[d] = req[d] /\ tx'[d] = tx[d]
             /\ stage'[d] = stage[d] /\ ret'[d] = ret[d]
  BY <1>1 DEF BeforeEnded, EndedStay, Ended
<1>3. ASSUME NEW d \in req[c].before PROVE Confirmed(d)' <=> Confirmed(d)
  BY <1>2 DEF Confirmed, IsSend, ReturnedResult
<1>4. AskedKey(c)' = AskedKey(c) /\ \A d \in req[c].before : AskedKey(d)' = AskedKey(d)
  BY <1>1, <1>2 DEF AskedKey
<1>5. Rivals(c)' = Rivals(c)
  BY <1>1, <1>2, <1>4 DEF Rivals, HasNonce
<1>6. QED BY <1>2, <1>3, <1>4, <1>5 DEF Rivals

LEMMA HasNonceNotNew ==
  ASSUME NewIsUnsigned, NEW c \in Calls, HasNonce(c)
  PROVE  stage[c] # "new"
<1>1. BlankTx.nonce = 0
  BY DEF BlankTx
<1>2. QED BY <1>1 DEF NewIsUnsigned, HasNonce

LEMMA IncludedNotNew ==
  ASSUME TypeInv, ResponseInv, NEW c \in Included
  PROVE  c \in Calls /\ stage[c] # "new"
BY PastType DEF ResponseInv, PlacedOnlyByAwaiting, Placed

\* Nothing is included in a block.
NoneIncluded == ledger' = ledger \/ \E c \in Calls : ledger' = Append(ledger, Event(c, "executed"))

LEMMA InclusionsStay ==
  ASSUME TypeInv, ResponseInv, IncludedInCallOrder, NoneIncluded,
         \A c \in Included : req'[c] = req[c] /\ tx'[c] = tx[c]
  PROVE  Included' = Included /\ IncludedInCallOrder'
<1>1. Included' = Included
  BY LedgerSame, PastAfter DEF NoneIncluded, Steps
<1>2. ASSUME NEW i \in DOMAIN ledger', ledger'[i].step = "included"
      PROVE  i \in DOMAIN ledger /\ ledger'[i] = ledger[i] /\ ledger[i].call \in Included
  <2>1. ASSUME NEW c \in Calls, ledger' = Append(ledger, Event(c, "executed"))
        PROVE  i \in DOMAIN ledger /\ ledger'[i] = ledger[i]
    <3>1. /\ DOMAIN ledger' = 1..(Len(ledger) + 1)
          /\ \A j \in 1..Len(ledger) : ledger'[j] = ledger[j]
          /\ ledger'[Len(ledger) + 1] = Event(c, "executed")
      BY <2>1, EventAppended DEF Steps
    <3>2. i # Len(ledger) + 1
      BY <1>2, <3>1 DEF Event
    <3>3. QED BY <3>1, <3>2, LedgerIs
  <2>2. i \in DOMAIN ledger /\ ledger'[i] = ledger[i]
    BY <2>1 DEF NoneIncluded
  <2>3. i \in { j \in 1..Len(ledger) : ledger[j].step = "included" }
    BY <1>2, <2>2, LedgerIs
  <2>4. QED BY <2>2, <2>3 DEF Included, Past
<1>3. ASSUME NEW c \in Included PROVE KeyOf(c)' = KeyOf(c)
  BY DEF KeyOf
<1>4. IncludedInCallOrder'
  BY <1>2, <1>3 DEF IncludedInCallOrder
<1>5. QED BY <1>1, <1>4

\* Steps that change no nonce and include nothing.
LEMMA OrderStays ==
  ASSUME TypeInv, ResponseInv, BeforeEnded, NewIsUnsigned, OrderInv, EndedStay, NoneIncluded,
         UNCHANGED keyNonce, \A c \in Calls : tx'[c].nonce = tx[c].nonce,
         \A t \in Threads : pc'[t] = "gotKey" /\ IsResult(reply'[t]) =>
           pc[t] = "gotKey" /\ cur'[t] = cur[t] /\ reply'[t] = reply[t]
  PROVE  OrderInv'
<1>1. ASSUME NEW c \in Calls, HasNonce(c)'
      PROVE  HasNonce(c) /\ stage[c] # "new" /\ tx'[c].nonce = tx[c].nonce
  BY <1>1, HasNonceNotNew DEF HasNonce
<1>2. NoncesRead'
  BY <1>1, RivalsStay DEF OrderInv, NoncesRead
<1>3. NoncesOrdered'
  <2>1. SUFFICES ASSUME NEW c \in Calls, HasNonce(c)', NEW d \in Rivals(c)'
                 PROVE  /\ tx'[d].nonce <= tx'[c].nonce
                        /\ Confirmed(d)' /\ tx'[c].nonce <= Precise - 1 => tx'[d].nonce < tx'[c].nonce
    BY DEF NoncesOrdered
  <2>2. d \in Rivals(c) /\ tx'[d] = tx[d] /\ (Confirmed(d)' <=> Confirmed(d))
    BY <1>1, <2>1, RivalsStay
  <2>3. QED BY <1>1, <2>1, <2>2 DEF OrderInv, NoncesOrdered
<1>4. RepliesOrdered'
  <2>1. SUFFICES ASSUME NEW t \in Threads, pc'[t] = "gotKey", IsResult(reply'[t])
        PROVE  /\ AskedKey(cur[t])' \in AccessKeys
               /\ reply'[t].seen <= keyNonce'[AskedKey(cur[t])']
               /\ \A d \in Rivals(cur[t])' :
                    /\ tx'[d].nonce <= AsDouble(reply'[t].seen) + 1
                    /\ Confirmed(d)' => tx'[d].nonce <= reply'[t].seen
    BY DEF RepliesOrdered
  <2>2. PICK c \in Calls : c = cur[t] /\ stage[c] # "new"
    BY <2>1, CallOfThread
       DEF TypeInv, InCall, Initializing, ResponseInv, OneThreadPerCall
  <2>3. pc[t] = "gotKey" /\ cur'[t] = c /\ reply'[t] = reply[t]
    BY <2>1, <2>2
  <2>4. /\ AskedKey(c)' = AskedKey(c) /\ Rivals(c)' = Rivals(c)
        /\ \A d \in Rivals(c) : tx'[d] = tx[d] /\ (Confirmed(d)' <=> Confirmed(d))
    BY <2>2, RivalsStay
  <2>5. AskedKey(cur[t])' = AskedKey(c) /\ Rivals(cur[t])' = Rivals(c)
    <3>1. AskedKey(cur[t])' = AskedKey(c)' /\ Rivals(cur[t])' = Rivals(c)'
      BY <2>3 DEF AskedKey, Rivals
    <3>2. QED BY <3>1, <2>4
  <2>6. QED BY <2>1, <2>2, <2>3, <2>4, <2>5 DEF OrderInv, RepliesOrdered
<1>5. \A c \in Included : req'[c] = req[c] /\ tx'[c] = tx[c]
  BY IncludedNotNew DEF EndedStay
<1>6. Included' = Included /\ IncludedInCallOrder'
  BY <1>5, InclusionsStay DEF OrderInv
<1>7. LedgerBelowNonce'
  BY <1>5, <1>6 DEF OrderInv, LedgerBelowNonce, KeyOf
<1>8. QED BY <1>2, <1>3, <1>4, <1>6, <1>7 DEF OrderInv

\* A confirmed transaction was included with the key its call asked for.
LEMMA ConfirmedBelowNonce ==
  ASSUME TypeInv, ResponseInv, SigningInv, OrderInv, NEW d \in Calls, Confirmed(d)
  PROVE  tx[d].nonce <= keyNonce[AskedKey(d)]
<1>1. d \in Included
  BY DEF Confirmed, ResponseInv, ResultMeansStatus
<1>2. KeyOf(d) \in AccessKeys /\ tx[d].nonce <= keyNonce[KeyOf(d)]
  BY <1>1 DEF OrderInv, LedgerBelowNonce
<1>3. tx[d].signer # NoText
  BY <1>2, CNearAssumption, CredentialsAssumption DEF KeyOf
<1>4. KeyOf(d) = AskedKey(d)
  BY <1>3 DEF SigningInv, SignedAsAsked
<1>5. QED BY <1>2, <1>4

LEMMA ServeOrder ==
  ASSUME TypeInv, ResponseInv, SigningInv, BeforeEnded, OrderInv, EndedStay,
         NEW t \in Threads, ServeAccessKey(t)
  PROVE  OrderInv'
<1>1. /\ UNCHANGED <<tx, req, stage, ret, cur, ledger, keyNonce>>
      /\ pc' = [pc EXCEPT ![t] = "gotKey"]
      /\ \A u \in Threads \ {t} : reply'[u] = reply[u]
  BY DEF ServeAccessKey, Goto, chainVars, callVars, TypeInv, TypeOK
<1>2. ASSUME IsResult(reply'[t])
      PROVE  /\ AskedKey(cur[t]) \in AccessKeys
             /\ reply'[t].seen = keyNonce[AskedKey(cur[t])]
             /\ \A d \in Rivals(cur[t]) :
                  /\ tx[d].nonce <= AsDouble(reply'[t].seen) + 1
                  /\ Confirmed(d) => tx[d].nonce <= reply'[t].seen
  <2>1. AskedKey(cur[t]) \in AccessKeys /\ reply'[t].seen = keyNonce[AskedKey(cur[t])]
    BY <1>2, ServedKey
  <2>2. cur[t] \in Calls
    BY CallOfThread DEF ServeAccessKey, At, Initializing, TypeInv
  <2>3. ASSUME NEW d \in Rivals(cur[t])
        PROVE  d \in Calls /\ HasNonce(d) /\ AskedKey(d) = AskedKey(cur[t])
    BY <2>2 DEF Rivals, TypeInv, TypeOK, ReqType
  <2>4. QED BY <2>1, <2>3, ConfirmedBelowNonce DEF OrderInv, NoncesRead
<1>3. RepliesOrdered'
  <2>1. ASSUME NEW u \in Threads, pc'[u] = "gotKey", IsResult(reply'[u])
        PROVE  /\ AskedKey(cur[u]) \in AccessKeys
               /\ reply'[u].seen <= keyNonce[AskedKey(cur[u])]
               /\ \A d \in Rivals(cur[u]) :
                    /\ tx[d].nonce <= AsDouble(reply'[u].seen) + 1
                    /\ Confirmed(d) => tx[d].nonce <= reply'[u].seen
    <3>1. CASE u = t
      <4>1. keyNonce[AskedKey(cur[t])] \in Nat
        BY <2>1, <3>1, <1>2 DEF TypeInv, TypeOK
      <4>2. QED BY <2>1, <3>1, <1>2, <4>1
    <3>2. CASE u # t
      <4>1. pc[u] = "gotKey" /\ reply'[u] = reply[u]
        BY <2>1, <3>2, <1>1 DEF TypeInv, TypeOK
      <4>2. QED BY <2>1, <4>1 DEF OrderInv, RepliesOrdered
    <3>3. QED BY <3>1, <3>2
  <2>2. QED
    BY <2>1, <1>1 DEF RepliesOrdered, AskedKey, Rivals, HasNonce, Confirmed, IsSend, ReturnedResult
<1>4. (NoncesRead /\ NoncesOrdered)'
  BY <1>1 DEF OrderInv, NoncesRead, NoncesOrdered, AskedKey, Rivals, HasNonce, Confirmed, IsSend,
              ReturnedResult
<1>5. (LedgerBelowNonce /\ IncludedInCallOrder)'
  <2>1. Included' = Included /\ IncludedInCallOrder'
    BY <1>1, InclusionsStay DEF OrderInv, NoneIncluded
  <2>2. QED BY <1>1, <2>1 DEF OrderInv, LedgerBelowNonce, KeyOf
<1>6. QED BY <1>3, <1>4, <1>5 DEF OrderInv

LEMMA TakeNonceOrder ==
  ASSUME TypeInv, ResponseInv, SigningInv, BeforeEnded, OrderInv, EndedStay,
         NEW t \in Threads, TakeNonce(t)
  PROVE  OrderInv'
<1> DEFINE n == reply[t].seen
<1>1. /\ pc[t] = "gotKey" /\ IsResult(reply[t]) /\ pc' = [pc EXCEPT ![t] = "sign"]
      /\ UNCHANGED <<req, stage, ret, cur, ledger, keyNonce>>
      /\ \A u \in Threads \ {t} : reply'[u] = reply[u]
      /\ tx' = [tx EXCEPT ![cur[t]].nonce = AsDouble(n) + 1]
  BY DEF TakeNonce, At, IsResult, Goto, chainVars, callVars, TypeInv, TypeOK
<1>2. PICK c \in Calls : c = cur[t]
  BY <1>1, CallOfThread DEF TypeInv, Initializing
<1>3. stage[c] = "open" /\ \A u \in Threads \ {t} : cur[u] # c
  BY <1>1, <1>2 DEF ResponseInv, OneThreadPerCall, InCall, Initializing
<1>4. n \in Nat /\ AsDouble(n) \in Nat
  BY AsDoubleType DEF TypeInv, TypeOK, Response
<1>5. /\ tx'[c].nonce = AsDouble(n) + 1
      /\ \A d \in Calls \ {c} : tx'[d] = tx[d]
  <2>1. tx[c] \in TxType
    BY DEF TypeInv, TypeOK
  <2>2. QED BY <1>1, <1>2, <2>1 DEF TypeInv, TypeOK, TxType
<1>6. /\ AskedKey(c) \in AccessKeys /\ n <= keyNonce[AskedKey(c)]
      /\ \A d \in Rivals(c) : tx[d].nonce <= AsDouble(n) + 1 /\ (Confirmed(d) => tx[d].nonce <= n)
  BY <1>1, <1>2 DEF OrderInv, RepliesOrdered
<1> HIDE DEF n
<1>7. ASSUME NEW d \in Calls
      PROVE  /\ AskedKey(d)' = AskedKey(d)
             /\ stage[d] # "new" => Rivals(d)' = Rivals(d)
             /\ c \notin req[d].before
  BY <1>1, <1>3, RivalsStay DEF AskedKey, BeforeEnded, Ended
<1>8. NoncesRead'
  <2>1. AsDouble(n) <= AsDouble(keyNonce[AskedKey(c)]) /\ AsDouble(keyNonce[AskedKey(c)]) \in Nat
    <3>1. keyNonce[AskedKey(c)] \in Nat
      BY <1>6 DEF TypeInv, TypeOK
    <3>2. QED BY <3>1, <1>4, <1>6, AsDoubleMonotone, AsDoubleType
  <2>2. ASSUME NEW d \in Calls, HasNonce(d)'
        PROVE  /\ AskedKey(d)' \in AccessKeys
               /\ tx'[d].nonce <= AsDouble(keyNonce[AskedKey(d)]) + 1
    <3>1. CASE d = c
      BY <3>1, <2>1, <1>4, <1>5, <1>6, <1>7
    <3>2. CASE d # c
      BY <3>2, <2>2, <1>5, <1>7 DEF HasNonce, OrderInv, NoncesRead
    <3>3. QED BY <3>1, <3>2
  <2>3. QED BY <2>2, <1>1, <1>7 DEF NoncesRead
<1>9. NoncesOrdered'
  <2>1. SUFFICES ASSUME NEW e \in Calls, HasNonce(e)', NEW d \in Rivals(e)'
                 PROVE  /\ tx'[d].nonce <= tx'[e].nonce
                        /\ Confirmed(d)' /\ tx'[e].nonce <= Precise - 1 => tx'[d].nonce < tx'[e].nonce
    BY DEF NoncesOrdered
  <2>2. stage[e] # "new" /\ (e # c => HasNonce(e) /\ tx'[e] = tx[e])
    BY <2>1, <1>3, <1>5, HasNonceNotNew DEF HasNonce, SigningInv
  <2>3. /\ d \in Rivals(e) /\ d \in Calls /\ tx'[d] = tx[d]
        /\ Confirmed(d)' <=> Confirmed(d)
    BY <2>1, <2>2, <1>7, RivalsStay
  <2>4. tx[d].nonce \in Nat
    BY <2>3 DEF TypeInv, TypeOK, TxType
  <2>5. CASE e = c
    <3>1. AsDouble(n) + 1 <= Precise - 1 => AsDouble(n) = n
      BY <1>4, AsDoubleExact
    <3>2. QED BY <2>3, <2>4, <2>5, <3>1, <1>4, <1>5, <1>6, CNearAssumption
  <2>6. CASE e # c
    BY <2>2, <2>3, <2>6 DEF OrderInv, NoncesOrdered
  <2>7. QED BY <2>5, <2>6
<1>10. RepliesOrdered'
  <2>1. ASSUME NEW u \in Threads, pc'[u] = "gotKey", IsResult(reply'[u])
        PROVE  /\ AskedKey(cur[u])' \in AccessKeys
               /\ reply'[u].seen <= keyNonce[AskedKey(cur[u])']
               /\ \A d \in Rivals(cur[u])' :
                    /\ tx'[d].nonce <= AsDouble(reply'[u].seen) + 1
                    /\ Confirmed(d)' => tx'[d].nonce <= reply'[u].seen
    <3>1. u # t /\ pc[u] = "gotKey" /\ reply'[u] = reply[u]
      BY <2>1, <1>1 DEF TypeInv, TypeOK
    <3>2. PICK e \in Calls : e = cur[u] /\ stage[e] # "new"
      BY <3>1, CallOfThread
         DEF TypeInv, InCall, Initializing, ResponseInv, OneThreadPerCall
    <3>3. /\ AskedKey(e)' = AskedKey(e) /\ Rivals(e)' = Rivals(e)
          /\ \A d \in Rivals(e) : tx'[d] = tx[d] /\ (Confirmed(d)' <=> Confirmed(d))
      BY <3>2, RivalsStay
    <3>4. AskedKey(cur[u])' = AskedKey(e) /\ Rivals(cur[u])' = Rivals(e)
      <4>1. AskedKey(cur[u])' = AskedKey(e)' /\ Rivals(cur[u])' = Rivals(e)'
        BY <1>1, <3>2 DEF AskedKey, Rivals
      <4>2. QED BY <4>1, <3>3
    <3>5. QED BY <2>1, <3>1, <3>2, <3>3, <3>4 DEF OrderInv, RepliesOrdered
  <2>2. QED BY <2>1, <1>1 DEF RepliesOrdered
<1>11. (LedgerBelowNonce /\ IncludedInCallOrder)'
  <2>1. \A d \in Included : req'[d] = req[d] /\ tx'[d] = tx[d]
    BY <1>1 DEF EndedStay
  <2>2. Included' = Included /\ IncludedInCallOrder'
    BY <1>1, <2>1, InclusionsStay DEF OrderInv, NoneIncluded
  <2>3. QED BY <2>1, <2>2, <1>1 DEF OrderInv, LedgerBelowNonce, KeyOf
<1>12. QED BY <1>8, <1>9, <1>10, <1>11 DEF OrderInv

\* A transaction that names an access key was signed for the one asked for.
LEMMA NamesAskedKey ==
  ASSUME SigningInv, NEW c \in Calls, KeyOf(c) \in AccessKeys
  PROVE  KeyOf(c) = AskedKey(c) /\ HasNonce(c)
<1>1. tx[c].signer # NoText
  BY CNearAssumption, CredentialsAssumption DEF KeyOf
<1>2. QED BY <1>1 DEF SigningInv, SignedAsAsked, HasNonce

\* The network includes c only with a nonce above those of its key's included
\* transactions, so none of them was called for after c ended.
LEMMA IncludeOrder ==
  ASSUME TypeInv, ResponseInv, SigningInv, BeforeEnded, OrderInv,
         NEW c \in Calls, Include(c), UNCHANGED <<settings, up, threadVars, callVars>>
  PROVE  OrderInv'
<1> DEFINE k == KeyOf(c)
<1>1. /\ k \in AccessKeys /\ tx[c].nonce > keyNonce[k]
      /\ ledger' = Append(ledger, Event(c, "included")) /\ keyNonce' = [keyNonce EXCEPT ![k] = tx[c].nonce]
      /\ UNCHANGED <<tx, req, stage, ret, pc, cur, reply>>
  BY DEF Include, Acceptable, threadVars, callVars
<1>2. k = AskedKey(c) /\ HasNonce(c)
  BY <1>1, NamesAskedKey
<1> HIDE DEF k
<1>3. /\ \A j \in AccessKeys : keyNonce[j] \in Nat /\ keyNonce'[j] \in Nat /\ keyNonce[j] <= keyNonce'[j]
      /\ keyNonce'[k] = tx[c].nonce
  <2>1. tx[c].nonce \in Nat /\ keyNonce \in [AccessKeys -> Nat]
    BY DEF TypeInv, TypeOK, TxType
  <2>2. QED BY <2>1, <1>1
<1>4. Included' = Included \cup {c}
  BY <1>1, PastAfter DEF Steps
<1>5. NoncesRead'
  <2>1. ASSUME NEW d \in Calls, HasNonce(d)
        PROVE  /\ AskedKey(d) \in AccessKeys
               /\ tx[d].nonce <= AsDouble(keyNonce'[AskedKey(d)]) + 1
    <3>1. AskedKey(d) \in AccessKeys /\ tx[d].nonce <= AsDouble(keyNonce[AskedKey(d)]) + 1
      BY <2>1 DEF OrderInv, NoncesRead
    <3>2. /\ AsDouble(keyNonce[AskedKey(d)]) <= AsDouble(keyNonce'[AskedKey(d)])
          /\ AsDouble(keyNonce[AskedKey(d)]) \in Nat /\ AsDouble(keyNonce'[AskedKey(d)]) \in Nat
      BY <3>1, <1>3, AsDoubleMonotone, AsDoubleType
    <3>3. tx[d].nonce \in Nat
      BY DEF TypeInv, TypeOK, TxType
    <3>4. QED BY <3>1, <3>2, <3>3
  <2>2. QED BY <2>1, <1>1 DEF NoncesRead, AskedKey, HasNonce
<1>6. NoncesOrdered'
  BY <1>1 DEF OrderInv, NoncesOrdered, AskedKey, Rivals, HasNonce, Confirmed, IsSend, ReturnedResult
<1>7. RepliesOrdered'
  <2>1. ASSUME NEW t \in Threads, pc[t] = "gotKey", IsResult(reply[t])
        PROVE  /\ AskedKey(cur[t]) \in AccessKeys
               /\ reply[t].seen <= keyNonce'[AskedKey(cur[t])]
               /\ \A d \in Rivals(cur[t]) :
                    /\ tx[d].nonce <= AsDouble(reply[t].seen) + 1
                    /\ Confirmed(d) => tx[d].nonce <= reply[t].seen
    <3>1. reply[t].seen \in Nat
      BY DEF TypeInv, TypeOK, Response
    <3>2. QED BY <2>1, <3>1, <1>3 DEF OrderInv, RepliesOrdered
  <2>2. QED
    BY <2>1, <1>1 DEF RepliesOrdered, AskedKey, Rivals, HasNonce, Confirmed, IsSend, ReturnedResult
<1>8. LedgerBelowNonce'
  <2>1. ASSUME NEW d \in Included \cup {c}
        PROVE  KeyOf(d) \in AccessKeys /\ tx[d].nonce <= keyNonce'[KeyOf(d)]
    <3>1. CASE d = c
      <4>1. tx[c].nonce \in Nat
        BY DEF TypeInv, TypeOK, TxType
      <4>2. QED BY <3>1, <4>1, <1>1, <1>3 DEF k
    <3>2. CASE d \in Included
      <4>1. KeyOf(d) \in AccessKeys /\ tx[d].nonce <= keyNonce[KeyOf(d)]
        BY <3>2 DEF OrderInv, LedgerBelowNonce
      <4>2. tx[d].nonce \in Nat
        BY <3>2, IncludedNotNew DEF TypeInv, TypeOK, TxType
      <4>3. QED BY <4>1, <4>2, <1>3
    <3>3. QED BY <2>1, <3>1, <3>2
  <2>2. QED BY <2>1, <1>1, <1>4 DEF LedgerBelowNonce, KeyOf
<1>9. IncludedInCallOrder'
  <2> DEFINE n == Len(ledger)
  <2>1. SUFFICES ASSUME NEW i \in DOMAIN ledger', NEW j \in DOMAIN ledger',
                        ledger'[i].step = "included", ledger'[j].step = "included",
                        ledger'[i].call \in req[ledger'[j].call].before,
                        KeyOf(ledger'[i].call) = KeyOf(ledger'[j].call)
                 PROVE  i < j
    BY <1>1 DEF IncludedInCallOrder, KeyOf
  <2>2. /\ DOMAIN ledger = 1..n /\ DOMAIN ledger' = 1..(n + 1) /\ n \in Nat
        /\ ledger'[n + 1].call = c
        /\ \A m \in 1..n : ledger'[m] = ledger[m]
    BY <1>1, EventAppended, LedgerIs DEF Steps, Event
  <2> HIDE DEF n
  <2>3. CASE i \in 1..n /\ j \in 1..n
    BY <2>1, <2>2, <2>3 DEF OrderInv, IncludedInCallOrder
  <2>4. CASE i \in 1..n /\ j = n + 1
    BY <2>2, <2>4
  <2>5. CASE i = n + 1 /\ j \in 1..n
    <3>1. j \in { m \in 1..Len(ledger) : ledger[m].step = "included" } /\ ledger'[j] = ledger[j]
      BY <2>1, <2>2, <2>5, LedgerIs
    <3>2. PICK d \in Included : d = ledger'[j].call
      BY <3>1 DEF Included, Past
    <3>3. c \in req[d].before /\ KeyOf(d) = k
      BY <2>1, <2>2, <2>5, <3>2 DEF k
    <3>4. d \in Calls /\ KeyOf(d) \in AccessKeys /\ tx[d].nonce <= keyNonce[k]
      BY <3>2, <3>3, IncludedNotNew DEF OrderInv, LedgerBelowNonce
    <3>5. k = AskedKey(d) /\ HasNonce(d)
      BY <3>3, <3>4, NamesAskedKey
    <3>6. tx[c].nonce <= tx[d].nonce
      BY <1>2, <3>3, <3>4, <3>5 DEF OrderInv, NoncesOrdered, Rivals
    <3>7. tx[c].nonce \in Nat /\ tx[d].nonce \in Nat /\ keyNonce[k] \in Nat
      BY <1>1, <3>4 DEF TypeInv, TypeOK, TxType
    <3>8. QED BY <1>1, <3>4, <3>6, <3>7
  <2>6. CASE i = n + 1 /\ j = n + 1
    BY <2>1, <2>2, <2>6 DEF BeforeEnded
  <2>7. QED BY <2>1, <2>2, <2>3, <2>4, <2>5, <2>6
<1>10. QED BY <1>5, <1>6, <1>7, <1>8, <1>9 DEF OrderInv

LEMMA CallStepOrder ==
  ASSUME TypeInv, ResponseInv, SigningInv, BeforeEnded, OrderInv, EndedStay,
         NEW t \in Threads, CallStep(t)
  PROVE  OrderInv'
<1> USE DEF chainVars, threadVars, callVars
<1>1. CASE ServeAccessKey(t) \/ TakeNonce(t)
  BY <1>1, ServeOrder, TakeNonceOrder
<1>2. CASE DecodeNoBlockHash(t) \/ ReadFreedSigner(t)
  BY <1>2, OrderStays DEF DecodeNoBlockHash, ReadFreedSigner, Crash, SigningInv, NoneIncluded
<1>3. CASE ServeView(t) \/ PostTx(t)
  <2>1. PICK label \in {"viewed", "await"} : pc' = [pc EXCEPT ![t] = label]
    BY <1>3 DEF ServeView, PostTx, Goto
  <2>2. /\ \A u \in Threads \ {t} : reply'[u] = reply[u]
        /\ UNCHANGED <<keyNonce, ledger, tx, cur>>
    BY <1>3 DEF ServeView, PostTx, TypeInv, TypeOK
  <2>3. QED BY <2>1, <2>2, OrderStays DEF SigningInv, NoneIncluded, TypeInv, TypeOK
<1>4. CASE SignTx(t)
  <2>1. pc' = [pc EXCEPT ![t] = "post"] /\ UNCHANGED <<keyNonce, ledger, cur, reply>>
    BY <1>4 DEF SignTx, Goto
  <2>2. PICK signer, whole :
          tx' = [tx EXCEPT ![cur[t]].signer = signer, ![cur[t]].whole = whole,
                           ![cur[t]].sig = sign_transaction]
    BY <1>4 DEF SignTx
  <2>3. \A c \in Calls : tx'[c].nonce = tx[c].nonce
    BY <2>2 DEF TypeInv, TypeOK, TxType
  <2>4. QED BY <2>1, <2>3, OrderStays DEF SigningInv, NoneIncluded, TypeInv, TypeOK
<1>5. CASE ReturnView(t) \/ GiveUp(t) \/ NotPosted(t) \/ ReturnTx(t)
  <2>1. (\E r : Return(t, r)) /\ UNCHANGED <<keyNonce, ledger, tx>>
    BY <1>5 DEF ReturnView, GiveUp, NotPosted, ReturnTx
  <2>2. /\ pc' = [pc EXCEPT ![t] = "idle"]
        /\ \A u \in Threads \ {t} : cur'[u] = cur[u] /\ reply'[u] = reply[u]
    BY <2>1 DEF Return, Goto, TypeInv, TypeOK
  <2>3. QED BY <2>1, <2>2, OrderStays DEF SigningInv, NoneIncluded, TypeInv, TypeOK
<1>6. QED BY <1>1, <1>2, <1>3, <1>4, <1>5 DEF CallStep

LEMMA OrderStep ==
  TypeInv /\ ResponseInv /\ SigningInv /\ BeforeEnded /\ OrderInv /\ [Next]_vars => OrderInv'
<1> SUFFICES ASSUME TypeInv, ResponseInv, SigningInv, BeforeEnded, OrderInv, [Next]_vars
             PROVE  OrderInv'
  OBVIOUS
<1>1. EndedStay
  BY EndedFrozen
<1>2. ASSUME NEW t \in Threads, Settings(t) PROVE OrderInv'
  <2>1. UNCHANGED <<tx, keyNonce, ledger, cur, reply>>
    BY <1>2 DEF Settings, near_rpc_init, near_rpc_cleanup, near_account_init_json, threadVars,
                near_account_init, DecodePublicKey, DecodePrivateKey, Crash, chainVars
  <2>2. pc' = pc \/ \E label \in {"idle"} \cup Initializing : pc' = [pc EXCEPT ![t] = label]
    BY <1>2 DEF Settings, near_rpc_init, near_rpc_cleanup, near_account_init_json, threadVars,
                near_account_init, DecodePublicKey, DecodePrivateKey, InitReturns, Crash, Goto,
                Initializing
  <2>3. \A u \in Threads : pc'[u] = "gotKey" => pc[u] = "gotKey"
    BY <2>2 DEF Initializing, TypeInv, TypeOK
  <2>4. QED BY <1>1, <2>1, <2>3, OrderStays DEF SigningInv, NoneIncluded
<1>3. ASSUME NEW t \in Threads, NEW c \in Calls,
             near_contract_call(t, c) \/ \E kind \in ViewKinds : near_rpc_view(t, c, kind)
      PROVE  OrderInv'
  <2>1. PICK label \in {"view", "getKey"} : pc' = [pc EXCEPT ![t] = label]
    BY <1>3 DEF near_contract_call, near_rpc_send_tx, near_rpc_view, Goto
  <2>2. cur' = [cur EXCEPT ![t] = c] /\ UNCHANGED <<keyNonce, ledger, reply>>
    BY <1>3 DEF near_contract_call, near_rpc_send_tx, near_rpc_view, Begin, chainVars
  <2>3. tx' = tx \/ tx' = [tx EXCEPT ![c] = [tx[c] EXCEPT !.pub = publicKey]]
    BY <1>3 DEF near_contract_call, near_rpc_send_tx, near_rpc_view
  <2>4. \A d \in Calls : tx'[d].nonce = tx[d].nonce
    <3>1. tx \in [Calls -> TxType] /\ [tx[c] EXCEPT !.pub = publicKey].nonce = tx[c].nonce
      BY DEF TypeInv, TypeOK, TxType
    <3>2. QED BY <2>3, <3>1
  <2>5. QED BY <1>1, <2>1, <2>2, <2>4, OrderStays DEF SigningInv, NoneIncluded, TypeInv, TypeOK
<1>4. ASSUME NEW t \in Threads, CallStep(t) PROVE OrderInv'
  BY <1>1, <1>4, CallStepOrder
<1>5. CASE Kill \/ UNCHANGED vars
  BY <1>1, <1>5, OrderStays DEF Kill, Crash, vars, chainVars, threadVars, SigningInv, NoneIncluded
<1>6. CASE Restart
  BY <1>1, <1>6, OrderStays DEF Restart, chainVars, SigningInv, NoneIncluded
<1>7. CASE Chain
  <2>1. ASSUME NEW c \in Calls, Include(c) PROVE OrderInv'
    BY <1>7, <2>1, IncludeOrder DEF Chain
  <2>2. CASE \E c \in Calls : Admit(c) \/ Discard(c)
    BY <1>1, <1>7, <2>2, OrderStays DEF Chain, Admit, Discard, threadVars, SigningInv, NoneIncluded
  <2>3. ASSUME NEW c \in Calls, Execute(c) PROVE OrderInv'
    BY <1>1, <1>7, <2>3, OrderStays DEF Chain, Execute, threadVars, SigningInv, NoneIncluded
  <2>4. CASE Finalize
    BY <1>1, <1>7, <2>4, OrderStays DEF Chain, Finalize, threadVars, SigningInv, NoneIncluded
  <2>5. QED BY <1>7, <2>1, <2>2, <2>3, <2>4 DEF Chain
<1>8. QED BY <1>2, <1>3, <1>4, <1>5, <1>6, <1>7 DEF Next

LEMMA OrderInvariant ==
  ASSUME Discipline # "any"
  PROVE  Spec => [](TypeInv /\ ResponseInv /\ SigningInv /\ OrderInv)
BY OrderInit, OrderStep, BeforeInvariant, SigningInvariant, PTL DEF Spec

\* If the settings only change while no call is running, two transactions of
\* one access key enter the chain in the order of the calls, when one call ended
\* before the other began: whatever was delayed, lost or never awaited, and
\* across crashes.
THEOREM CallOrderKept ==
  ASSUME Discipline # "any"
  PROVE  Spec => []IncludedInCallOrder
<1>1. OrderInv => IncludedInCallOrder
  BY DEF OrderInv
<1>2. QED BY <1>1, OrderInvariant, PTL

\* And the transaction after a confirmed one gets a nonce of its own, as far
\* as printing and parsing keep integers apart.
THEOREM FreshNonces ==
  ASSUME Discipline # "any"
  PROVE  Spec => []FreshAfterConfirmed
<1>1. TypeInv /\ ResponseInv /\ SigningInv /\ OrderInv => FreshAfterConfirmed
  <2>1. SUFFICES ASSUME TypeInv, ResponseInv, SigningInv, OrderInv,
                        NEW c \in Calls, NEW d \in Calls, Confirmed(d),
                        d \in req[c].before, KeyOf(c) = KeyOf(d), tx[c].nonce \in 1..(Precise - 1)
                 PROVE  tx[c].nonce > tx[d].nonce
    BY DEF FreshAfterConfirmed, Confirmed
  <2>2. d \in Included
    BY <2>1 DEF Confirmed, ResponseInv, ResultMeansStatus
  <2>3. KeyOf(d) \in AccessKeys
    BY <2>1, <2>2 DEF OrderInv, LedgerBelowNonce
  <2>4. d \in Rivals(c) /\ HasNonce(c)
    BY <2>1, <2>3, NamesAskedKey DEF Rivals
  <2>5. tx[d].nonce < tx[c].nonce
    BY <2>1, <2>4, CNearAssumption DEF OrderInv, NoncesOrdered
  <2>6. tx[c].nonce \in Nat /\ tx[d].nonce \in Nat
    BY <2>1 DEF TypeInv, TypeOK, TxType
  <2>7. QED BY <2>5, <2>6
<1>2. QED BY <1>1, OrderInvariant, PTL

-----------------------------------------------------------------------------
(* Under any discipline: the public key a send copies is the one whose text *)
(* it asks for, and the chain knows no other account for that key.          *)

KeyCopied ==
  \A c \in Calls :
    /\ stage[c] # "new" /\ IsSend(c) /\ req[c].settled /\ req[c].key # NoText /\ req[c].key.form = "ok"
    => tx[c].pub = req[c].key.key

AskedKnown(c) == Askable(c) /\ AskedKey(c) \in AccessKeys

NonceAsked ==
  /\ \A c \in Calls : HasNonce(c) => AskedKnown(c)
  /\ \A t \in Threads : pc[t] = "gotKey" /\ IsResult(reply[t]) => AskedKnown(cur[t])

IncludedKnown == \A c \in Included : HasNonce(c) /\ KeyOf(c) \in AccessKeys

AskedInv == TextIsKey /\ KeyCopied /\ NonceAsked /\ IncludedKnown /\ NewIsUnsigned

LEMMA AskedInit == Init => AskedInv
<1> SUFFICES ASSUME Init PROVE AskedInv
  OBVIOUS
<1>1. Included = {} /\ \A c \in Calls : ~ HasNonce(c)
  BY DEF Init, ChainInit, Included, Past, BlankTx, HasNonce
<1>2. QED
  BY <1>1 DEF Init, InitProcess, AskedInv, TextIsKey, KeyCopied, NonceAsked, IncludedKnown,
              NewIsUnsigned

\* Steps that change no request, no nonce and no public key of a transaction.
LEMMA AskedStays ==
  ASSUME TypeInv, AskedInv, TextIsKey', UNCHANGED req, Included' = Included,
         \A c \in Calls : tx'[c].pub = tx[c].pub /\ tx'[c].nonce = tx[c].nonce,
         \A c \in Included : tx'[c] = tx[c],
         \A c \in Calls : /\ stage'[c] = "new" => stage[c] = "new" /\ tx'[c] = tx[c]
                          /\ stage[c] = "new" => stage'[c] = "new",
         \A t \in Threads : pc'[t] = "gotKey" /\ IsResult(reply'[t]) =>
           pc[t] = "gotKey" /\ cur'[t] = cur[t] /\ reply'[t] = reply[t]
  PROVE  AskedInv'
<1> USE DEF AskedInv
<1>1. KeyCopied'
  BY DEF KeyCopied, IsSend
<1>2. NonceAsked'
  BY DEF NonceAsked, AskedKnown, Askable, AskedKey, HasNonce
<1>3. IncludedKnown'
  BY DEF IncludedKnown, KeyOf, HasNonce
<1>4. NewIsUnsigned'
  BY DEF NewIsUnsigned
<1>5. QED BY <1>1, <1>2, <1>3, <1>4

LEMMA TextIsKeyStays ==
  ASSUME TextIsKey, UNCHANGED <<b58PubKey, publicKey>>,
         \A u \in Threads : pc[u] = "initPub" => pc'[u] = "initPub"
  PROVE  TextIsKey'
BY DEF TextIsKey

LEMMA SettingsTextIsKey ==
  ASSUME TypeInv, SettingsInv, TextIsKey, NEW t \in Threads, Settings(t)
  PROVE  TextIsKey'
<1>1. CASE near_rpc_init(t)
  BY <1>1, TextIsKeyStays DEF near_rpc_init, threadVars
<1>2. CASE near_rpc_cleanup(t)
  BY <1>2 DEF near_rpc_cleanup, TextIsKey
<1>3. ASSUME NEW cr \in Credentials, near_account_init(t, cr) PROVE TextIsKey'
  <2>1. CASE NoText \in {cr.account, cr.pub}
    BY <1>3, <2>1, TextIsKeyStays DEF near_account_init, Crash, settings, threadVars
  <2>2. CASE NoText \notin {cr.account, cr.pub}
    BY <1>3, <2>2 DEF near_account_init, Goto, TextIsKey, TypeInv, TypeOK
  <2>3. QED BY <2>1, <2>2
<1>4. CASE DecodePublicKey(t)
  <2>1. b58PubKey \in {arg[t].pub, NoText} /\ b58PubKey' = b58PubKey
    BY <1>4 DEF DecodePublicKey, At, SettingsInv, DecodedSoFar, Initializing
  <2>2. arg[t].pub.form = "ok" => publicKey' = arg[t].pub.key
    BY <1>4 DEF DecodePublicKey, Decoded
  <2>3. QED BY <2>1, <2>2 DEF TextIsKey
<1>5. CASE DecodePrivateKey(t)
  <2>1. UNCHANGED <<b58PubKey, publicKey>> /\ pc[t] = "initPriv"
    BY <1>5 DEF DecodePrivateKey, Crash, settings, At
  <2>2. \A u \in Threads : pc[u] # "initPub"
    BY <2>1 DEF SettingsInv, OneInitializing, Initializing
  <2>3. QED BY <2>1, <2>2 DEF TextIsKey
<1>6. QED BY <1>1, <1>2, <1>3, <1>4, <1>5 DEF Settings, near_account_init_json

LEMMA BeginAsked ==
  ASSUME TypeInv, ResponseInv, AskedInv, NEW t \in Threads, NEW c \in Calls,
         NEW label \in {"view", "getKey"}, stage[c] = "new",
         pc' = [pc EXCEPT ![t] = label], cur' = [cur EXCEPT ![t] = c], pc[t] = "idle",
         stage' = [stage EXCEPT ![c] = "open"],
         \A d \in Calls \ {c} : req'[d] = req[d],
         tx' \in {tx, [tx EXCEPT ![c].pub = publicKey]},
         label = "view" => req'[c].kind # "send",
         label = "getKey" =>
           /\ tx' = [tx EXCEPT ![c].pub = publicKey] /\ req'[c].key = b58PubKey
           /\ req'[c].settled => \A u \in Threads : pc[u] \notin Initializing,
         UNCHANGED <<b58PubKey, publicKey, reply, ledger>>
  PROVE  AskedInv'
<1> USE DEF AskedInv
<1>1. /\ tx[c] \in TxType /\ ~ HasNonce(c) /\ c \notin Included
      /\ \A d \in Calls \ {c} : tx'[d] = tx[d]
      /\ tx'[c].nonce = tx[c].nonce
      /\ label = "getKey" => tx'[c].pub = publicKey
  <2>1. tx[c] \in TxType
    BY DEF TypeInv, TypeOK
  <2>2. ~ HasNonce(c)
    BY HasNonceNotNew
  <2>3. c \notin Included
    BY IncludedNotNew
  <2>4. tx' = tx \/ tx' = [tx EXCEPT ![c] = [tx[c] EXCEPT !.pub = publicKey]]
    OBVIOUS
  <2>5. [tx[c] EXCEPT !.pub = publicKey].nonce = tx[c].nonce
    BY <2>1 DEF TxType
  <2>6. (\A d \in Calls \ {c} : tx'[d] = tx[d]) /\ tx'[c].nonce = tx[c].nonce
    BY <2>4, <2>5 DEF TypeInv, TypeOK
  <2>7. label = "getKey" => tx'[c].pub = publicKey
    BY <2>1 DEF TxType, TypeInv, TypeOK
  <2>8. QED BY <2>1, <2>2, <2>3, <2>6, <2>7
<1>2. TextIsKey'
  BY TextIsKeyStays DEF TypeInv, TypeOK
<1>3. KeyCopied'
  <2>1. ASSUME req'[c].settled, label = "getKey", b58PubKey # NoText, b58PubKey.form = "ok"
        PROVE  publicKey = b58PubKey.key
    BY <2>1 DEF TextIsKey, Initializing
  <2>2. QED BY <1>1, <2>1 DEF KeyCopied, IsSend, TypeInv, TypeOK
<1>4. NonceAsked'
  <2>1. ASSUME NEW d \in Calls, HasNonce(d)' PROVE AskedKnown(d)'
    <3>1. d # c /\ HasNonce(d)
      BY <1>1, <2>1 DEF HasNonce
    <3>2. QED BY <3>1 DEF NonceAsked, AskedKnown, Askable, AskedKey
  <2>2. ASSUME NEW u \in Threads, pc'[u] = "gotKey", IsResult(reply'[u])
        PROVE  AskedKnown(cur[u])'
    <3>1. u # t /\ pc[u] = "gotKey" /\ cur'[u] = cur[u]
      BY <2>2 DEF TypeInv, TypeOK
    <3>2. cur[u] \in Calls \ {c}
      <4>1. InCall(u) /\ cur[u] \in Calls
        BY <3>1, CallOfThread DEF InCall, Initializing, TypeInv
      <4>2. QED BY <4>1 DEF ResponseInv, OneThreadPerCall
    <3>3. QED BY <2>2, <3>1, <3>2 DEF NonceAsked, AskedKnown, Askable, AskedKey
  <2>3. QED BY <2>1, <2>2 DEF NonceAsked
<1>5. IncludedKnown'
  <2>1. Included \subseteq Calls \ {c}
    BY <1>1, PastType
  <2>2. \A d \in Included : tx'[d] = tx[d]
    BY <1>1, <2>1
  <2>3. QED BY <2>2, LedgerSame DEF IncludedKnown, KeyOf, HasNonce
<1>6. NewIsUnsigned'
  BY <1>1 DEF NewIsUnsigned, TypeInv, TypeOK
<1>7. QED BY <1>2, <1>3, <1>4, <1>5, <1>6

LEMMA CallStepAsked ==
  ASSUME TypeInv, ResponseInv, AskedInv, EndedStay, NEW t \in Threads, CallStep(t)
  PROVE  AskedInv'
<1> USE DEF AskedInv, chainVars, threadVars, callVars
<1>1. TextIsKey'
  <2>1. UNCHANGED <<b58PubKey, publicKey>>
    BY CallStepSettings
  <2>2. pc' = pc \/ (pc[t] # "initPub" /\ \E label : pc' = [pc EXCEPT ![t] = label])
    BY DEF CallStep, ServeView, ReturnView, ServeAccessKey, GiveUp, DecodeNoBlockHash, TakeNonce,
           SignTx, ReadFreedSigner, PostTx, NotPosted, ReturnTx, Return, Crash, Goto, At
  <2>3. \A u \in Threads : pc[u] = "initPub" => pc'[u] = "initPub"
    BY <2>2 DEF TypeInv, TypeOK
  <2>4. QED BY <2>1, <2>3, TextIsKeyStays
<1>2. Included' = Included
  <2>1. ledger' = ledger
    BY DEF CallStep, ServeView, ReturnView, ServeAccessKey, GiveUp, DecodeNoBlockHash, TakeNonce,
           SignTx, ReadFreedSigner, PostTx, NotPosted, ReturnTx, Crash
  <2>2. QED BY <2>1, LedgerSame
<1>3. \A c \in Included : tx'[c] = tx[c]
  BY DEF EndedStay
<1>4. CASE ServeAccessKey(t)
  <2>1. /\ pc' = [pc EXCEPT ![t] = "gotKey"] /\ UNCHANGED <<tx, req, stage, cur>>
        /\ \A u \in Threads \ {t} : reply'[u] = reply[u]
    BY <1>4 DEF ServeAccessKey, Goto, TypeInv, TypeOK
  <2>2. IsResult(reply'[t]) => AskedKnown(cur[t])
    BY <1>4, ServedKey DEF AskedKnown
  <2>3. NonceAsked'
    <3>1. ASSUME NEW u \in Threads, pc'[u] = "gotKey", IsResult(reply'[u]) PROVE AskedKnown(cur[u])
      <4>1. CASE u = t
        BY <2>2, <3>1, <4>1
      <4>2. CASE u # t
        BY <2>1, <3>1, <4>2 DEF NonceAsked, TypeInv, TypeOK
      <4>3. QED BY <4>1, <4>2
    <3>2. QED BY <2>1, <3>1 DEF NonceAsked, AskedKnown, Askable, AskedKey, HasNonce
  <2>4. QED
    BY <1>1, <1>2, <2>1, <2>3 DEF KeyCopied, IsSend, IncludedKnown, HasNonce, KeyOf, NewIsUnsigned
<1>5. CASE TakeNonce(t)
  <2>1. /\ pc[t] = "gotKey" /\ IsResult(reply[t]) /\ pc' = [pc EXCEPT ![t] = "sign"]
        /\ UNCHANGED <<req, stage, cur>> /\ \A u \in Threads \ {t} : reply'[u] = reply[u]
        /\ tx' = [tx EXCEPT ![cur[t]].nonce = AsDouble(reply[t].seen) + 1]
    BY <1>5 DEF TakeNonce, At, IsResult, Goto, TypeInv, TypeOK
  <2>2. PICK c \in Calls : c = cur[t] /\ stage[c] # "new"
    BY <2>1, CallOfThread DEF TypeInv, InCall, Initializing, ResponseInv, OneThreadPerCall
  <2>3. tx'[c].pub = tx[c].pub /\ \A d \in Calls \ {c} : tx'[d] = tx[d]
    <3>1. tx[c] \in TxType
      BY DEF TypeInv, TypeOK
    <3>2. QED BY <2>1, <2>2, <3>1 DEF TypeInv, TypeOK, TxType
  <2>4. AskedKnown(c)
    BY <2>1, <2>2 DEF NonceAsked
  <2>5. NonceAsked'
    <3>1. ASSUME NEW d \in Calls, HasNonce(d)' PROVE AskedKnown(d)
      BY <2>3, <2>4, <3>1 DEF NonceAsked, HasNonce
    <3>2. ASSUME NEW u \in Threads, pc'[u] = "gotKey", IsResult(reply'[u]) PROVE AskedKnown(cur[u])
      BY <2>1, <3>2 DEF NonceAsked, TypeInv, TypeOK
    <3>3. QED BY <2>1, <3>1, <3>2 DEF NonceAsked, AskedKnown, Askable, AskedKey
  <2>6. KeyCopied'
    BY <2>1, <2>3 DEF KeyCopied, IsSend
  <2>7. IncludedKnown'
    BY <1>2, <1>3 DEF IncludedKnown, HasNonce, KeyOf
  <2>8. NewIsUnsigned'
    BY <2>1, <2>2, <2>3 DEF NewIsUnsigned
  <2>9. QED BY <1>1, <2>5, <2>6, <2>7, <2>8
<1>6. CASE SignTx(t)
  <2>1. pc[t] = "sign" /\ pc' = [pc EXCEPT ![t] = "post"] /\ UNCHANGED <<req, stage, cur, reply>>
    BY <1>6 DEF SignTx, Goto, At
  <2>2. PICK signer, whole :
          tx' = [tx EXCEPT ![cur[t]].signer = signer, ![cur[t]].whole = whole,
                           ![cur[t]].sig = sign_transaction]
    BY <1>6 DEF SignTx
  <2>3. stage[cur[t]] # "new" /\ cur[t] \in Calls
    BY <2>1, CallOfThread DEF TypeInv, InCall, Initializing, ResponseInv, OneThreadPerCall
  <2>4. \A c \in Calls : tx'[c].pub = tx[c].pub /\ tx'[c].nonce = tx[c].nonce
    BY <2>2 DEF TypeInv, TypeOK, TxType
  <2>5. \A c \in Calls : stage[c] = "new" => tx'[c] = tx[c]
    BY <2>2, <2>3 DEF TypeInv, TypeOK
  <2>6. \A u \in Threads : pc'[u] = "gotKey" => pc[u] = "gotKey"
    BY <2>1 DEF TypeInv, TypeOK
  <2>7. QED BY <1>1, <1>2, <1>3, <2>1, <2>4, <2>5, <2>6, AskedStays
<1>7. CASE DecodeNoBlockHash(t) \/ ReadFreedSigner(t)
  BY <1>1, <1>2, <1>7, AskedStays DEF DecodeNoBlockHash, ReadFreedSigner, Crash
<1>8. CASE ServeView(t) \/ PostTx(t)
  <2>1. PICK label \in {"viewed", "await"} : pc' = [pc EXCEPT ![t] = label]
    BY <1>8 DEF ServeView, PostTx, Goto
  <2>2. /\ \A u \in Threads \ {t} : reply'[u] = reply[u]
        /\ UNCHANGED <<tx, cur, req, stage>>
    BY <1>8 DEF ServeView, PostTx, TypeInv, TypeOK
  <2>3. \A u \in Threads : pc'[u] = "gotKey" => pc[u] = "gotKey" /\ u # t
    BY <2>1 DEF TypeInv, TypeOK
  <2>4. QED BY <1>1, <1>2, <2>2, <2>3, AskedStays
<1>9. CASE ReturnView(t) \/ GiveUp(t) \/ NotPosted(t) \/ ReturnTx(t)
  <2>1. InCall(t) /\ (\E r : Return(t, r)) /\ UNCHANGED <<req, tx>>
    BY <1>9 DEF ReturnView, GiveUp, NotPosted, ReturnTx, At, InCall, Initializing
  <2>2. /\ pc' = [pc EXCEPT ![t] = "idle"] /\ stage' = [stage EXCEPT ![cur[t]] = "done"]
        /\ \A u \in Threads \ {t} : cur'[u] = cur[u] /\ reply'[u] = reply[u]
    BY <2>1 DEF Return, Goto, TypeInv, TypeOK
  <2>3. stage[cur[t]] = "open"
    BY <2>1 DEF ResponseInv, OneThreadPerCall
  <2>4. \A c \in Calls : stage'[c] = "new" <=> stage[c] = "new"
    BY <2>2, <2>3 DEF TypeInv, TypeOK
  <2>5. \A u \in Threads : pc'[u] = "gotKey" => pc[u] = "gotKey" /\ u # t
    BY <2>2 DEF TypeInv, TypeOK
  <2>6. QED BY <1>1, <1>2, <2>1, <2>2, <2>4, <2>5, AskedStays
<1>10. QED BY <1>4, <1>5, <1>6, <1>7, <1>8, <1>9 DEF CallStep

LEMMA ChainAsked ==
  ASSUME TypeInv, AskedInv, Chain
  PROVE  AskedInv'
<1>1. UNCHANGED <<settings, pc, cur, reply, req, stage, tx>>
  BY DEF Chain, threadVars, callVars, Admit, Include, Execute, Discard, Finalize
<1>2. TextIsKey'
  BY <1>1, TextIsKeyStays DEF AskedInv, settings
<1>3. ASSUME Included' = Included PROVE AskedInv'
  BY <1>1, <1>2, <1>3, AskedStays
<1>4. ASSUME NEW c \in Calls, Admit(c) \/ Discard(c) PROVE AskedInv'
  BY <1>3, <1>4, LedgerSame DEF Admit, Discard
<1>5. ASSUME NEW c \in Calls, Include(c) PROVE AskedInv'
  <2>1. Included' = Included \cup {c}
    BY <1>5, PastAfter DEF Include, Steps
  <2>2. HasNonce(c) /\ KeyOf(c) \in AccessKeys
    <3>1. KeyOf(c) \in AccessKeys /\ tx[c].nonce > keyNonce[KeyOf(c)]
      BY <1>5 DEF Include, Acceptable
    <3>2. tx[c].nonce \in Nat /\ keyNonce[KeyOf(c)] \in Nat
      BY <3>1 DEF TypeInv, TypeOK, TxType
    <3>3. QED BY <3>1, <3>2 DEF HasNonce
  <2>3. IncludedKnown'
    BY <1>1, <2>1, <2>2 DEF AskedInv, IncludedKnown, HasNonce, KeyOf
  <2>4. (KeyCopied /\ NonceAsked /\ NewIsUnsigned)'
    BY <1>1 DEF AskedInv, KeyCopied, IsSend, NonceAsked, AskedKnown, Askable, AskedKey, HasNonce,
                NewIsUnsigned
  <2>5. QED BY <1>2, <2>3, <2>4 DEF AskedInv
<1>6. ASSUME NEW c \in Calls, Execute(c) PROVE AskedInv'
  BY <1>3, <1>6, PastAfter DEF Execute, Steps
<1>7. CASE Finalize
  BY <1>3, <1>7, LedgerSame DEF Finalize
<1>8. QED BY <1>4, <1>5, <1>6, <1>7 DEF Chain

LEMMA AskedStep ==
  TypeInv /\ ResponseInv /\ SettingsInv /\ AskedInv /\ [Next]_vars => AskedInv'
<1> SUFFICES ASSUME TypeInv, ResponseInv, SettingsInv, AskedInv, [Next]_vars PROVE AskedInv'
  OBVIOUS
<1> USE DEF chainVars, threadVars, callVars
<1>1. EndedStay
  BY EndedFrozen
<1>2. ASSUME NEW t \in Threads, Settings(t) PROVE AskedInv'
  <2>1. UNCHANGED <<tx, ledger, cur, reply, req, stage>>
    BY <1>2 DEF Settings, near_rpc_init, near_rpc_cleanup, near_account_init_json,
                near_account_init, DecodePublicKey, DecodePrivateKey, Crash
  <2>2. pc' = pc \/ \E label \in {"idle"} \cup Initializing : pc' = [pc EXCEPT ![t] = label]
    BY <1>2 DEF Settings, near_rpc_init, near_rpc_cleanup, near_account_init_json,
                near_account_init, DecodePublicKey, DecodePrivateKey, InitReturns, Crash, Goto,
                Initializing
  <2>3. \A u \in Threads : pc'[u] = "gotKey" => pc[u] = "gotKey"
    BY <2>2 DEF Initializing, TypeInv, TypeOK
  <2>4. TextIsKey'
    BY <1>2, SettingsTextIsKey DEF AskedInv
  <2>5. QED BY <2>1, <2>3, <2>4, LedgerSame, AskedStays
<1>3. ASSUME NEW t \in Threads, NEW c \in Calls, NEW status \in WaitStatuses,
             near_rpc_send_tx(t, c, status)
      PROVE  AskedInv'
  <2>1. /\ pc[t] = "idle" /\ stage[c] = "new"
        /\ pc' = [pc EXCEPT ![t] = "getKey"] /\ cur' = [cur EXCEPT ![t] = c]
        /\ stage' = [stage EXCEPT ![c] = "open"]
        /\ req'[c].key = b58PubKey
        /\ req'[c].settled => \A u \in Threads : pc[u] \notin Initializing
        /\ tx' = [tx EXCEPT ![c].pub = publicKey]
        /\ \A d \in Calls \ {c} : req'[d] = req[d]
        /\ UNCHANGED <<b58PubKey, publicKey, reply, ledger>>
    BY <1>3, BeginsSend DEF settings
  <2>2. QED BY <2>1, BeginAsked
<1>4. ASSUME NEW t \in Threads, NEW c \in Calls, NEW kind \in ViewKinds, near_rpc_view(t, c, kind)
      PROVE  AskedInv'
  <2>1. /\ pc[t] = "idle" /\ stage[c] = "new"
        /\ pc' = [pc EXCEPT ![t] = "view"] /\ cur' = [cur EXCEPT ![t] = c]
        /\ stage' = [stage EXCEPT ![c] = "open"] /\ tx' = tx
        /\ req'[c].kind = kind /\ kind # "send"
        /\ \A d \in Calls \ {c} : req'[d] = req[d]
        /\ UNCHANGED <<b58PubKey, publicKey, reply, ledger>>
    BY <1>4, BeginsView, CNearAssumption DEF settings
  <2>2. QED BY <2>1, BeginAsked
<1>5. ASSUME NEW t \in Threads, CallStep(t) PROVE AskedInv'
  BY <1>1, <1>5, CallStepAsked
<1>6. CASE Kill \/ UNCHANGED vars
  <2>1. UNCHANGED <<tx, ledger, pc, cur, reply, req, stage, b58PubKey, publicKey>>
    BY <1>6 DEF Kill, Crash, vars, settings
  <2>2. TextIsKey'
    BY <2>1, TextIsKeyStays DEF AskedInv
  <2>3. QED BY <2>1, <2>2, LedgerSame, AskedStays
<1>7. CASE Restart
  <2>1. UNCHANGED <<tx, ledger, req>> /\ \A c \in Calls : stage'[c] = "new" <=> stage[c] = "new"
    BY <1>7 DEF Restart, TypeInv, TypeOK
  <2>2. TextIsKey' /\ \A u \in Threads : pc'[u] # "gotKey"
    BY <1>7 DEF Restart, TextIsKey
  <2>3. QED BY <2>1, <2>2, LedgerSame, AskedStays
<1>8. CASE Chain
  BY <1>8, ChainAsked
<1>9. QED
  BY <1>2, <1>3, <1>4, <1>5, <1>6, <1>7, <1>8 DEF Next, near_contract_call

\* Where each key belongs to one account, the chain takes a transaction only
\* under the account and key its call asked for, under any discipline: also
\* when other threads replace or free the settings meanwhile.
THEOREM TakenAsAsked == Spec => []IncludedAsAsked
<1>1. TypeInv /\ ResponseInv /\ AskedInv => IncludedAsAsked
  <2>1. SUFFICES ASSUME TypeInv, ResponseInv, AskedInv,
                        \A k, l \in AccessKeys : k[2] = l[2] => k = l,
                        NEW c \in Included, req[c].settled
                 PROVE  KeyOf(c) = AskedKey(c)
    BY DEF IncludedAsAsked, AskedKey
  <2>2. c \in Calls /\ stage[c] # "new" /\ IsSend(c)
    BY <2>1, IncludedNotNew DEF ResponseInv, PlacedOnlyByAwaiting, Placed
  <2>3. KeyOf(c) \in AccessKeys /\ Askable(c) /\ AskedKey(c) \in AccessKeys
    BY <2>1, <2>2 DEF AskedInv, IncludedKnown, NonceAsked, AskedKnown
  <2>4. tx[c].pub = req[c].key.key
    BY <2>1, <2>2, <2>3 DEF AskedInv, KeyCopied, Askable
  <2>5. KeyOf(c)[2] = AskedKey(c)[2]
    BY <2>4 DEF KeyOf, AskedKey
  <2>6. QED BY <2>1, <2>3, <2>5
<1>2. Spec => [](TypeInv /\ ResponseInv /\ SettingsInv /\ AskedInv)
  <2>1. TypeInv /\ ResponseInv /\ SettingsInv /\ AskedInv /\ [Next]_vars
          => (TypeInv /\ ResponseInv /\ SettingsInv /\ AskedInv)'
    BY TypeStep, ResponseStep, SettingsStep, AskedStep
  <2>2. Init => TypeInv /\ ResponseInv /\ SettingsInv /\ AskedInv
    BY TypeInit, ResponseInit, SettingsInit, AskedInit
  <2>3. QED BY <2>1, <2>2, PTL DEF Spec
<1>3. QED BY <1>1, <1>2, PTL
=============================================================================
