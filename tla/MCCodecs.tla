------------------------------ MODULE MCCodecs ------------------------------
(***************************************************************************)
(* The conversions of texts and bytes on small inputs.  They share nothing,*)
(* so each behaviour is one of one of them: "on" says which, and the       *)
(* variables of the others stay as they are.                               *)
(***************************************************************************)
EXTENDS JsonPrint, Base64, Decoders, JsonMinify, Unicode

CONSTANTS ParseLength, Alphabet,       \* all inputs up to a length, over the kinds of characters
          Base64Length, Base58Length, UnicodeLength

VARIABLES on,
          parsed, require, readTo, parents, parsing, allocated, failed, position,
          near_tx, memory, next, signed, lost, shorter,
          trees, roots

Up(S, n) == UNION {[1..k -> S] : k \in 0..n}

-----------------------------------------------------------------------------
\* All short texts, and the texts a character away from some long ones.
Q == "quote"
Seeds ==
  { <<"{", Q, Q, ":", "digit", ",", Q, "backslash", Q, Q, ":", "[", "]", "}">>,
    <<"[", "{", "}", "blank", ",", "minus", "digit", "]", "blank">>,
    <<"bom", "blank", "[", "[", "literal", "]", ",", "[", "]", "]">>,
    <<"{", Q, "digit", Q, ":", "[", "[", "]", "]", "}">>,
    <<"blank", "digit", "digit", "zero", "blank">> }
Edits(t) ==
  {ReplaceAt(t, i, c) : i \in DOMAIN t, c \in Alphabet} \cup {RemoveAt(t, i) : i \in DOMAIN t}
    \cup {InsertAt(t, i, c) : i \in 1..(Len(t) + 1), c \in Alphabet}

Parser == INSTANCE JsonParse WITH
  Inputs <- Up(Alphabet, ParseLength) \cup Seeds \cup UNION {Edits(t) : t \in Seeds},
  NestingLimit <- 2, NumberLimit <- 3, text <- parsed, offset <- readTo, stack <- parents,
  refused <- failed, pc <- parsing

\* Items of every type, empty and nested.
Make(type, value, children) == [type |-> type, string |-> NULL, value |-> value, children |-> children]
Named(item, string) == [item EXCEPT !.string = string]
Array(items) == Make("array", << >>, items)
Object(items) == Make("object", << >>, items)
Literal == Make("literal", <<"t", "r", "u", "e">>, << >>)
One     == Make("number", <<"1">>, << >>)
Word    == Make("string", <<"a", Q, "a">>, << >>)
Control == Make("string", <<"control">>, << >>)
RawText == Make("raw", <<"r">>, << >>)
Invalid == Make("invalid", << >>, << >>)
Leaves == {Literal, One, Word, Control, RawText}
Roots ==
  Leaves \cup {Invalid, Array(<< >>), Object(<< >>)}
    \cup {Array(<<a>>) : a \in Leaves} \cup {Object(<<Named(a, <<"k">>)>>) : a \in Leaves}
    \cup { Array(<<One, Invalid>>), Object(<<Make("string", NULL, << >>), One>>),
           Array(<<One, Object(<<Named(Word, << >>), Named(Array(<<One, One>>), <<Q>>)>>), Literal>>),
           Object(<<Named(Array(<<Object(<< >>), Array(<< >>)>>), <<"k">>), Named(One, <<"k">>)>>),
           Object(<<Named(Object(<<Named(Object(<<Named(RawText, << >>)>>), << >>)>>), << >>)>>) }
Children(S) == UNION {ToSet(item.children) : item \in S}
MCItems == Roots \cup Children(Roots) \cup Children(Children(Roots)) \cup Children(Children(Children(Roots)))
RECURSIVE HeightOf(_)
HeightOf(item) == 1 + Max({0} \cup {HeightOf(item.children[i]) : i \in DOMAIN item.children})
MCHeight == [item \in MCItems |-> HeightOf(item)]
MCChars == Marks \cup {"t", "r", "e", "a", "k", "control"}

-----------------------------------------------------------------------------
MCData == Up({0, 90, 165, 255}, Base64Length) \cup {[i \in 1..n |-> i] : n \in 50..60}
MCEncodings == Up({0, 27, 63, Pad, Foreign}, Base64Length)

MCEncodings58 == Up({-1, 0, 1, 4, 24, 57}, Base58Length) \ {<< >>}

\* A byte's ends, what an int does not hold, and an item that is no number.
MCArrayItems == {0, 7, 255, 256, -1, 5000, -5000, NULL}

\* Code points of every length, stray bytes and lone halves of a pair; literals
\* of every kind of digit, and of none.
MCTexts == Up({65, 233, 8364, 128512, 55357, Lead, Follow}, UnicodeLength)
MCTyped == Up({65, 2047, 2048, 65535, 128512}, UnicodeLength)
MCLiterals == [1..4 -> {0, 8, 11, 12, 13, 15, NoDigit}] \cup {<<13>> \o d : d \in [1..7 -> {0, 8, 11, 13, 15}]}

\* Names of the shortest and the longest lengths, small and large numbers, and
\* keys and hashes of zeros, of small and of large bytes.
Times(n, b) == [i \in 1..n |-> b]
U64(low) == [i \in 1..8 |-> IF i = 8 THEN low ELSE 0]
Tx(sizes, number, raw) ==
  [signer_id |-> Times(sizes[1], 97), key_type |-> 0, public_key |-> Times(32, raw), nonce |-> U64(number),
   receiver_id |-> Times(sizes[2], 98), block_hash |-> Times(32, raw), method_name |-> Times(12, 99),
   args |-> Times(sizes[3], 34), gas |-> U64(number + 1), deposit |-> U64(number)]
Serial == INSTANCE Borsh WITH
  Transactions <- {Tx(sizes, number, raw) : sizes \in {<<2, 2, 0>>, <<30, 26, 31>>, <<64, 64, 300>>},
                                            number \in {0, 24}, raw \in {0, 2, 32, 200}},
  Signature <- Times(64, 201), MaxLost <- 3

\* Trees of objects and numbers under all names, and of all values under one.
Names == INSTANCE JsonCompare WITH
  Nodes <- 1..6, Letters <- {"a", "b"}, Cases <- {"upper", "lower"}, Values <- {16},
  Kinds <- {"Object", "Number"}, CircularLimit <- 0, MaxAllocs <- 2, MaxCount <- 0,
  Precision <- 16, Infinite <- NULL, TreeSize <- 4,
  heap <- trees, held <- {}, lost <- {}
Contents == INSTANCE JsonCompare WITH
  Nodes <- 1..5, Letters <- {"a"}, Cases <- {"lower"}, Values <- {1, 16, 17, 99},
  Kinds <- {"Object", "Array", "Null", "Number", "String", "Raw"},
  CircularLimit <- 0, MaxAllocs <- 2, MaxCount <- 0,
  Precision <- 16, Infinite <- 99, TreeSize <- 3,
  heap <- trees, held <- {}, lost <- {}

ASSUME MCCodecsAssumption ==
  Parser!JsonParseAssumption /\ Serial!BorshAssumption

-----------------------------------------------------------------------------
parseVars == <<parsed, require, readTo, parents, parsing, allocated, failed, position>>
borshVars == <<near_tx, memory, next, signed, lost, shorter>>
compareVars == <<trees, roots>>

MinifyOff == original = << >> /\ minified = << >> /\ json = 1 /\ into = 1 /\ in = NULL
ParseOff == parsed = NULL /\ require = NULL /\ readTo = NULL /\ parents = NULL /\ parsing = NULL
              /\ allocated = NULL /\ failed = NULL /\ position = NULL
PrintOff == call = NULL /\ format = NULL /\ manual = NULL /\ given = NULL /\ buffer = NULL /\ offset = 0 /\ depth = 0
              /\ stack = <<NULL>> /\ printing = "start" /\ blocks = 0 /\ refused = FALSE /\ outside = FALSE
Base64Off == data = NULL /\ encoded = NULL /\ olen = NULL /\ at = NULL /\ pad = NULL /\ block = NULL
               /\ out = NULL /\ coding = NULL
Base58Off == input = << >> /\ outsize = NULL /\ read = NULL /\ result = NULL /\ output = NULL /\ decoding = NULL
UnicodeOff == text = << >> /\ available = 0 /\ size = 0 /\ in8 = << >> /\ utf16 = << >> /\ utf8 = << >>
                /\ from = 0 /\ converting = NULL
BorshOff == near_tx = NULL /\ memory = NULL /\ next = NULL /\ signed = NULL /\ lost = NULL /\ shorter = NULL
ResultOff == response = NULL /\ out_size = NULL /\ room = 0 /\ result_data = << >> /\ decoded = NULL
CompareOff == trees = NULL /\ roots = << >>

Init ==
  /\ on \in {"minify", "parse", "print", "base64", "base58", "unicode", "borsh", "result", "names", "contents"}
  /\ IF on = "minify"  THEN MinifyInit ELSE MinifyOff
  /\ IF on = "parse"   THEN Parser!Init   ELSE ParseOff
  /\ IF on = "print"   THEN PrintInit   ELSE PrintOff
  /\ IF on = "base64"  THEN Base64Init  ELSE Base64Off
  /\ IF on = "base58"  THEN Base58Init  ELSE Base58Off
  /\ IF on = "unicode" THEN UnicodeInit ELSE UnicodeOff
  /\ IF on = "borsh"   THEN Serial!Init   ELSE BorshOff
  /\ IF on = "result"  THEN ResultInit  ELSE ResultOff
  /\ CASE on = "names" -> Names!CompareInit [] on = "contents" -> Contents!CompareInit [] OTHER -> CompareOff

Next ==
  /\ UNCHANGED on
  /\ IF on = "minify"  THEN MinifyNext ELSE UNCHANGED minifyVars
  /\ IF on = "parse"   THEN Parser!Next   ELSE UNCHANGED parseVars
  /\ IF on = "print"   THEN PrintNext   ELSE UNCHANGED printVars
  /\ IF on = "base64"  THEN Base64Next  ELSE UNCHANGED base64Vars
  /\ IF on = "base58"  THEN Base58Next  ELSE UNCHANGED base58Vars
  /\ IF on = "unicode" THEN ConvertNext ELSE UNCHANGED unicodeVars
  /\ IF on = "borsh"   THEN Serial!Next   ELSE UNCHANGED borshVars
  /\ IF on = "result"  THEN ResultNext  ELSE UNCHANGED resultVars
  /\ CASE on = "names" -> Names!CompareNext
       [] on = "contents" -> Contents!CompareNext
       [] OTHER -> UNCHANGED compareVars

Spec == Init /\ [][Next]_<<on, minifyVars, parseVars, printVars, base64Vars, base58Vars, unicodeVars, borshVars, resultVars, compareVars>>

-----------------------------------------------------------------------------
(* What each module says of its part.                                      *)

\* cJSON_ParseWithLengthOpts takes the texts of its grammar and no others, reads
\* only inside the text, and every block that it allocated is in the tree that
\* it returns, none if it returns none, wherever memory ends.
ParsesOrFreesAll ==
  on = "parse" => Parser!ParseTypeOK /\ Parser!BlocksAreTheTree /\ Parser!ReadsInside /\ Parser!ParsesTheGrammar

\* A transaction that the network can read from the bytes of serialize_transaction
\* is the one that was meant, also where appends have failed.
SendsWhatWasMeant == on = "borsh" => Serial!WholeIsAccepted /\ Serial!OnlyWhatWasMeant

\* cJSON_Compare is equality of the trees that a caller has built, whatever the
\* order, the case and the number of the names in objects.
CompareIsEquality ==
  (on = "names" => Names!CompareIsEquality) /\ (on = "contents" => Contents!CompareIsEquality)
=============================================================================
