------------------------------ MODULE JsonParse ------------------------------
(***************************************************************************)
(* The parser of src/src/cJSON.c.  parse_value, parse_array and            *)
(* parse_object call each other; here a stack holds the arrays and objects *)
(* being parsed, and a step is what one of them does between two calls.    *)
(* Any allocation may fail.                                                *)
(*                                                                         *)
(* A text is a sequence of characters of a few kinds.  "literal" stands    *)
(* for null, true or false, "bom" for the three bytes of a byte order      *)
(* mark, "blank" for a byte from 1 to 32 and "zero" for the byte 0.        *)
(***************************************************************************)
EXTENDS Integers, SequencesExt, FiniteSetsExt

CONSTANTS Inputs,          \* the texts given to the parser
          NULL,
          NestingLimit,    \* CJSON_NESTING_LIMIT
          NumberLimit      \* how many characters of a number parse_number copies

JsonParseAssumption == NestingLimit \in Nat /\ NumberLimit \in Nat \ {0}

VARIABLES text,        \* the buffer
          require,     \* require_null_terminated
          offset,      \* the reading position, from 0
          stack,       \* the item to be returned, then the arrays and objects open
          pc,
          allocated,   \* blocks allocated and not freed
          refused,     \* an allocation has failed
          position     \* global_error.position, or return_parse_end

vars == <<text, require, offset, stack, pc, allocated, refused, position>>

NewItem == [type |-> "Invalid", string |-> NULL, value |-> NULL, children |-> << >>]
Opening == [array |-> "[", object |-> "{"]
Closing == [array |-> "]", object |-> "}"]

Init ==
  /\ text \in Inputs \cup {Append(t, "zero") : t \in Inputs}
  /\ require \in BOOLEAN
  /\ offset = 0 /\ stack = << >> /\ pc = "start"
  /\ allocated = 0 /\ refused = FALSE /\ position = 0

-----------------------------------------------------------------------------
(* The buffer.                                                             *)

Length == Len(text)
CanAccess(o) == o < Length
At(o) == IF CanAccess(o) THEN text[o + 1] ELSE "beyond"
Blanks == {"blank", "zero"}

\* Blanks up to the end of the buffer are skipped but for the last.
buffer_skip_whitespace(o) ==
  IF ~ CanAccess(o) THEN o
  ELSE LET next == Min({k \in o..Length : At(k) \notin Blanks})
       IN IF next = Length THEN next - 1 ELSE next

\* A byte order mark is skipped if two more characters follow.
skip_utf8_bom(o) == IF At(o) = "bom" /\ Length >= 3 THEN o + 1 ELSE o

-----------------------------------------------------------------------------
(* Strings and numbers.                                                    *)

\* The closing quote of a string that opens at o, or the end of the buffer.
StringEnd(o) ==
  LET escaped[k \in o..Length] == k > o + 1 /\ At(k - 1) = "backslash" /\ ~ escaped[k - 1]
  IN Min({k \in (o + 1)..Length : k = Length \/ (At(k) = "quote" /\ ~ escaped[k])})

\* The escapes of a string: only quote and backslash may follow.
Escapes(o) ==
  LET escape[k \in o..Length] == k > o /\ At(k) = "backslash" /\ ~ escape[k - 1]
  IN {k \in (o + 1)..(StringEnd(o) - 1) : escape[k]}
BadEscapes(o) == {k \in Escapes(o) : At(k + 1) \notin {"quote", "backslash"}}

Unescaped(o) ==
  LET kept == {k \in (o + 1)..(StringEnd(o) - 1) : k \notin Escapes(o)}
  IN [i \in 1..Cardinality(kept) |-> At(CHOOSE k \in kept : Cardinality({j \in kept : j <= k}) = i)]

\* parse_string finds no string, and why.
NoString(o) == At(o) # "quote" \/ StringEnd(o) = Length

\* strtod on the characters of a number that are copied: a minus, then digits.
NumberEnd(o) ==
  LET digits == IF At(o) = "minus" THEN o + 1 ELSE o
  IN Min({k \in digits..(o + NumberLimit) : k = o + NumberLimit \/ At(k) # "digit"})
IsNumber(o) == \E k \in o..(NumberEnd(o) - 1) : At(k) = "digit"

-----------------------------------------------------------------------------
(* Steps.                                                                  *)

Top == Last(stack)
Depth == Len(stack) - 1

\* The item being parsed is the last one of the innermost array or object.
WithItem(f) == [stack EXCEPT ![Len(stack)].items[Len(Top.items)] = f]
Item == Last(Top.items)

RECURSIVE Blocks(_)
Blocks(items) ==
  FoldLeft(LAMBDA n, i : n + 1 + (IF i.string = NULL THEN 0 ELSE 1)
                           + (IF i.value = NULL THEN 0 ELSE 1) + Blocks(i.children), 0, items)

Go(o, next) == offset' = o /\ pc' = next
Fail(o) == Go(o, "failing")
Same == UNCHANGED <<text, require, position>>
Allocate == allocated' = allocated + 1 /\ UNCHANGED refused
NoMemory == refused' = TRUE /\ UNCHANGED <<allocated, stack>>
Keep == UNCHANGED <<allocated, refused>>

\* cJSON_ParseWithLengthOpts, up to parse_value.
Start ==
  /\ pc = "start"
  /\ \/ Length = 0 /\ Fail(0) /\ Keep /\ UNCHANGED stack
     \/ Length > 0 /\ Fail(0) /\ NoMemory
     \/ /\ Length > 0 /\ Allocate
        /\ stack' = <<[kind |-> "root", items |-> <<NewItem>>]>>
        /\ Go(buffer_skip_whitespace(skip_utf8_bom(0)), "value")
  /\ Same

parse_literal ==
  /\ pc = "value" /\ At(offset) = "literal"
  /\ stack' = WithItem([Item EXCEPT !.type = "literal"])
  /\ Go(offset + 1, "after") /\ Keep /\ Same

parse_number ==
  /\ pc = "value" /\ At(offset) \in {"minus", "digit"}
  /\ IF IsNumber(offset)
       THEN stack' = WithItem([Item EXCEPT !.type = "number"]) /\ Go(NumberEnd(offset), "after")
       ELSE UNCHANGED stack /\ Fail(offset)
  /\ Keep /\ Same

\* parse_string for a value: the position of a failure is inside the string.
parse_string ==
  /\ pc = "value" /\ At(offset) = "quote"
  /\ \/ NoString(offset) /\ Fail(offset + 1) /\ Keep /\ UNCHANGED stack
     \/ ~ NoString(offset) /\ Fail(offset + 1) /\ NoMemory
     \/ /\ ~ NoString(offset) /\ BadEscapes(offset) # {}
        /\ Fail(Min(BadEscapes(offset))) /\ Keep /\ UNCHANGED stack
     \/ /\ ~ NoString(offset) /\ BadEscapes(offset) = {}
        /\ stack' = WithItem([Item EXCEPT !.type = "string", !.value = Unescaped(offset)])
        /\ Allocate /\ Go(StringEnd(offset) + 1, "after")
  /\ Same

MayNest == Depth < NestingLimit

\* The head of parse_array and parse_object.
Open(kind) ==
  LET first == buffer_skip_whitespace(offset + 1)
  IN /\ pc = "value" /\ At(offset) = Opening[kind]
     /\ IF ~ MayNest THEN Fail(offset) /\ UNCHANGED stack
        ELSE /\ stack' = Append(stack, [kind |-> kind, items |-> << >>])
             /\ CASE At(first) = Closing[kind] -> Go(first, "close")
                  [] ~ CanAccess(first)        -> Fail(first - 1)
                  [] OTHER                     -> Go(first - 1, "next")
     /\ Keep /\ Same

NoValue ==
  /\ pc = "value"
  /\ At(offset) \notin {"literal", "minus", "digit", "quote", "[", "{"}
  /\ Fail(offset) /\ Keep /\ Same /\ UNCHANGED stack

\* Another element: a new item, one character on.
NextItem ==
  /\ pc = "next"
  /\ \/ Fail(offset) /\ NoMemory
     \/ /\ Allocate
        /\ stack' = [stack EXCEPT ![Len(stack)].items = Append(@, NewItem)]
        /\ CASE Top.kind = "array" -> Go(buffer_skip_whitespace(offset + 1), "value")
             [] Top.kind = "object" /\ CanAccess(offset + 1) ->
                  Go(buffer_skip_whitespace(offset + 1), "name")
             [] OTHER -> Fail(offset)
  /\ Same

\* Mutant: the name is left in valuestring too.
NamedTwice(name) == [Item EXCEPT !.string = name, !.value = name]
Named(name) == [Item EXCEPT !.string = name]

\* The name and the colon of an object's element.
Name ==
  /\ pc = "name"
  /\ \/ NoString(offset) /\ Fail(offset + 1) /\ Keep /\ UNCHANGED stack
     \/ ~ NoString(offset) /\ Fail(offset + 1) /\ NoMemory
     \/ /\ ~ NoString(offset) /\ BadEscapes(offset) # {}
        /\ Fail(Min(BadEscapes(offset))) /\ Keep /\ UNCHANGED stack
     \/ /\ ~ NoString(offset) /\ BadEscapes(offset) = {}
        /\ Allocate /\ stack' = WithItem(Named(Unescaped(offset)))
        /\ LET colon == buffer_skip_whitespace(StringEnd(offset) + 1)
           IN IF At(colon) = ":" THEN Go(buffer_skip_whitespace(colon + 1), "value") ELSE Fail(colon)
  /\ Same

\* After an element: a comma, the end of its array or object, or neither.
After ==
  LET o == buffer_skip_whitespace(offset)
  IN /\ pc = "after"
     /\ CASE Top.kind = "root" -> Go(offset, "end")
          [] Top.kind # "root" /\ At(o) = "," -> Go(o, "next")
          [] Top.kind # "root" /\ At(o) = Closing[Top.kind] -> Go(o, "close")
          [] OTHER -> Fail(o)
     /\ Keep /\ Same /\ UNCHANGED stack

Close ==
  /\ pc = "close"
  /\ LET outer == Front(stack)
     IN stack' = [outer EXCEPT ![Len(outer)].items[Len(Last(outer).items)].type = Top.kind,
                               ![Len(outer)].items[Len(Last(outer).items)].children = Top.items]
  /\ Go(offset + 1, "after") /\ Keep /\ Same

\* A function returns false: it deletes its list, and its caller fails too.
Unwind ==
  /\ pc = "failing" /\ stack # << >>
  /\ allocated' = allocated - Blocks(Top.items)
  /\ stack' = Front(stack)
  /\ UNCHANGED <<offset, pc, refused>> /\ Same

ErrorPosition ==
  CASE offset < Length -> offset
    [] offset >= Length /\ Length > 0 -> Length - 1
    [] OTHER -> 0

Failed ==
  /\ pc = "failing" /\ stack = << >>
  /\ position' = ErrorPosition /\ Go(offset, "failed")
  /\ Keep /\ UNCHANGED <<stack, text, require>>

\* The end: nothing but a terminating zero may follow, if that is required.
End ==
  LET o == IF require THEN buffer_skip_whitespace(offset) ELSE offset
  IN /\ pc = "end"
     /\ IF require /\ At(o) # "zero" THEN Fail(o) /\ UNCHANGED position
        ELSE Go(o, "done") /\ position' = o
     /\ Keep /\ UNCHANGED <<stack, text, require>>

Next ==
  \/ Start \/ parse_literal \/ parse_number \/ parse_string \/ (\E kind \in {"array", "object"} : Open(kind))
  \/ NoValue \/ NextItem \/ Name \/ After \/ Close \/ Unwind \/ Failed \/ End

Spec == Init /\ [][Next]_vars

-----------------------------------------------------------------------------
(* Properties.                                                             *)

ParseTypeOK ==
  /\ offset \in 0..(Length + 1) /\ allocated \in Nat /\ position \in Nat
  /\ pc \in {"start", "value", "next", "name", "after", "close", "failing", "failed", "end", "done"}
  /\ stack # << >> => stack[1].kind = "root" /\ Len(stack[1].items) = 1
  /\ \A i \in 2..Len(stack) : stack[i].kind \in DOMAIN Opening
  /\ Depth <= NestingLimit

\* Whatever fails, every block is in the tree being built, once, and none is
\* left when the parser has failed.
BlocksAreTheTree ==
  /\ allocated = FoldLeft(LAMBDA n, frame : n + Blocks(frame.items), 0, stack)
  /\ pc = "failed" => allocated = 0

\* A character is only looked at inside the buffer where the code does not ask
\* first, and the error position a caller may print is inside it too.
ReadsInside ==
  /\ pc \in {"name", "next"} => CanAccess(offset)
  /\ pc \in {"failed", "done"} /\ Length > 0 => position \in 0..(Length - (IF pc = "failed" THEN 1 ELSE 0))

\* The grammar: the tree that t has at o, with the offset behind it, or none.
SkipBlanks(t, o) ==
  Min({k \in o..Len(t) : k = Len(t) \/ t[k + 1] \notin Blanks})
Char(t, o) == IF o < Len(t) THEN t[o + 1] ELSE "beyond"

StringAt(t, o) ==
  LET quotes == {k \in (o + 1)..(Len(t) - 1) : t[k + 1] = "quote"}
      plain[k \in (o + 1)..Len(t)] ==
        IF Char(t, k) = "quote" THEN {[end |-> k + 1, value |-> << >>]}
        ELSE IF Char(t, k) = "beyond" THEN {}
        ELSE IF Char(t, k) # "backslash"
          THEN {[end |-> s.end, value |-> <<Char(t, k)>> \o s.value] : s \in plain[k + 1]}
        ELSE IF Char(t, k + 1) \in {"quote", "backslash"}
          THEN {[end |-> s.end, value |-> <<Char(t, k + 1)>> \o s.value] : s \in plain[k + 2]}
        ELSE {}
  IN IF Char(t, o) = "quote" THEN plain[o + 1] ELSE {}

NumberAt(t, o) ==
  LET ends == {k \in (o + 1)..Len(t) :
                 /\ \A i \in (o + 1)..(k - 1) : Char(t, i) = "digit"
                 /\ Char(t, k - 1) = "digit" /\ Char(t, k) # "digit"
                 /\ Char(t, o) \in {"minus", "digit"}}
  IN {[end |-> k, item |-> [NewItem EXCEPT !.type = "number"]] : k \in ends}

RECURSIVE ValueAt(_, _, _), ElementsAt(_, _, _, _)

\* The elements from o on, up to and with the closing bracket.
ElementsAt(t, o, kind, depth) ==
  LET b     == SkipBlanks(t, o)
      names == IF kind = "array" THEN {[end |-> b, value |-> NULL]}
               ELSE {[end |-> SkipBlanks(t, s.end) + 1, value |-> s.value] :
                       s \in {x \in StringAt(t, b) : Char(t, SkipBlanks(t, x.end)) = ":"}}
      heads == UNION {{[end |-> SkipBlanks(t, v.end), item |-> [v.item EXCEPT !.string = n.value]] :
                         v \in ValueAt(t, SkipBlanks(t, n.end), depth)} : n \in names}
  IN UNION {CASE Char(t, h.end) = Closing[kind] -> {[end |-> h.end + 1, items |-> <<h.item>>]}
              [] Char(t, h.end) = "," ->
                   {[end |-> r.end, items |-> <<h.item>> \o r.items] :
                      r \in ElementsAt(t, h.end + 1, kind, depth)}
              [] OTHER -> {} : h \in heads}

ValueAt(t, o, depth) ==
  LET of(kind) ==
        LET b == SkipBlanks(t, o + 1)
            found == IF Char(t, b) = Closing[kind] THEN {[end |-> b + 1, items |-> << >>]}
                     ELSE ElementsAt(t, o + 1, kind, depth + 1)
        IN IF depth = NestingLimit THEN {}
           ELSE {[end |-> e.end, item |-> [NewItem EXCEPT !.type = kind, !.children = e.items]] : e \in found}
  IN CASE Char(t, o) = "literal" -> {[end |-> o + 1, item |-> [NewItem EXCEPT !.type = "literal"]]}
       [] Char(t, o) = "quote" -> {[end |-> s.end, item |-> [NewItem EXCEPT !.type = "string", !.value = s.value]] :
                                     s \in StringAt(t, o)}
       [] Char(t, o) = "[" -> of("array")
       [] Char(t, o) = "{" -> of("object")
       [] OTHER -> NumberAt(t, o)

\* A number no longer than parse_number copies.
NumbersFit ==
  \A i, j \in 1..Length : i <= j /\ (\A k \in i..j : text[k] \in {"minus", "digit"}) => j - i < NumberLimit

\* When no allocation fails, the parser accepts the texts of the grammar and no
\* others, with the tree the grammar gives, and stops behind it.  Blanks are the
\* bytes up to 32, and where a zero is required it is the last blank.
ParsesTheGrammar ==
  pc \in {"done", "failed"} /\ ~ refused /\ NumbersFit =>
    LET o      == SkipBlanks(text, skip_utf8_bom(0))
        values == {v \in ValueAt(text, o, 0) :
                     require => /\ SkipBlanks(text, v.end) = Length
                                /\ v.end < Length /\ Last(text) = "zero"}
    IN IF values = {} THEN pc = "failed"
       ELSE \E v \in values : pc = "done" /\ stack[1].items[1] = v.item
                                /\ position = IF require THEN Length - 1 ELSE v.end

=============================================================================
