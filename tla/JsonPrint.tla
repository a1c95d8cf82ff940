------------------------------ MODULE JsonPrint ------------------------------
(***************************************************************************)
(* The printer of src/src/cJSON.c.  print_value, print_array and           *)
(* print_object call each other and write to a buffer that ensure lets     *)
(* grow; here a stack holds the arrays and objects being printed, and a    *)
(* step is one ensure with what is written after it.                       *)
(***************************************************************************)
EXTENDS Integers, SequencesExt, FiniteSetsExt

CONSTANTS Chars,          \* the kinds of characters in texts
          Items,          \* the items printed and all that they hold
          Height,         \* how many levels of items an item has, its own included
          Nesting,        \* the most levels
          NULL,
          Lengths,        \* the lengths a caller gives, an int
          DefaultSize,    \* default_buffer_size
          IntMax          \* INT_MAX

Types == {"array", "object", "string", "number", "literal", "raw", "invalid"}
Marks == {"[", "]", "{", "}", ",", ":", "quote", "backslash", "u", "0", "1", "newline", "tab", "blank"}
Bytes == Chars \cup {"zero", "junk"}

JsonPrintAssumption ==
  /\ IntMax \in Nat /\ Lengths \subseteq 0..IntMax /\ DefaultSize \in 1..IntMax
  /\ Marks \subseteq Chars /\ "zero" \notin Chars /\ NULL \notin Seq(Bytes)
  /\ Items \subseteq [type : Types, string : Seq(Chars) \cup {NULL}, value : Seq(Chars) \cup {NULL},
                      children : Seq(Items)]
  /\ \A item \in Items : item.type # "string" => item.value # NULL
  /\ Nesting \in Nat /\ Height \in [Items -> 1..Nesting]
  /\ \A item \in Items : \A i \in DOMAIN item.children : Height[item.children[i]] < Height[item]
ASSUME PrintAssumption == JsonPrintAssumption

VARIABLES call,      \* "print", "buffered" or "preallocated"
          format,    \* printing with blanks
          manual,    \* there is no realloc
          given,     \* the length of the first buffer
          buffer,    \* what it holds, a sequence, or NULL
          offset, depth,
          stack,     \* the arrays and objects open, innermost last, from where in the text
          printing,  \* where the printer is
          blocks,    \* buffers allocated and not freed
          refused,   \* an allocation has failed
          outside    \* a byte outside the buffer was read or written

options == <<call, format, manual, given>>
printVars == <<options, buffer, offset, depth, stack, printing, blocks, refused, outside>>

noalloc == call = "preallocated"
Junk(n) == [i \in 1..n |-> "junk"]

PrintInit ==
  /\ call \in {"print", "buffered", "preallocated"}
  /\ format \in BOOLEAN /\ manual \in BOOLEAN
  /\ \E item \in Items : stack = <<[kind |-> "root", items |-> <<item>>, next |-> 1, from |-> 0]>>
  /\ given \in IF call = "print" THEN {DefaultSize} ELSE Lengths
  /\ buffer = Junk(given)
  /\ offset = 0 /\ depth = 0 /\ printing = "start" /\ blocks = 0 /\ refused = FALSE /\ outside = FALSE

-----------------------------------------------------------------------------
(* The buffer.                                                             *)

\* The size to which a buffer grows that must hold "needed" bytes.
NewSize(needed) == IF needed > IntMax \div 2 THEN IntMax ELSE needed * 2

Needed(n) == n + offset + 1

MayGrow(n) == ~ noalloc /\ n <= IntMax /\ Needed(n) <= IntMax
OffsetValid == Len(buffer) > 0 => offset < Len(buffer)

\* The buffer after growing: realloc keeps it all, the copy up to offset.
Grown(n) ==
  LET kept == IF manual THEN offset + 1 ELSE Len(buffer)
  IN [i \in 1..NewSize(Needed(n)) |-> IF i <= kept /\ i <= Len(buffer) THEN buffer[i] ELSE "junk"]

Written(b, chars) ==
  [i \in DOMAIN b |-> IF i - offset \in DOMAIN chars THEN chars[i - offset] ELSE b[i]]
WritesOutside(b, chars) == offset + Len(chars) > Len(b)

\* update_offset, with strlen, after chars were written.
LengthOf(b, o) == Min({k \in 0..(Len(b) - o) : k = Len(b) - o \/ b[o + k + 1] = "zero"})
Unterminated == \A k \in (offset + 1)..Len(buffer) : buffer[k] # "zero"
Terminated(chars) == Append(chars, "zero")

Fails == printing' = "false" /\ UNCHANGED <<offset, depth, stack>>

\* ensure(n), then chars are written.
Put(n, chars) ==
  \/ /\ OffsetValid /\ n <= IntMax /\ Needed(n) <= Len(buffer)
     /\ buffer' = Written(buffer, chars)
     /\ outside' = (outside \/ WritesOutside(buffer, chars))
     /\ UNCHANGED <<blocks, refused>>
  \/ /\ OffsetValid /\ MayGrow(n) /\ Needed(n) > Len(buffer)
     /\ buffer' = Written(Grown(n), chars)
     /\ outside' = (outside \/ WritesOutside(Grown(n), chars) \/ (manual /\ offset + 1 > Len(buffer)))
     /\ UNCHANGED <<blocks, refused>>

\* Mutant: the buffer is not freed when it cannot grow, but forgotten.
GiveUpKeeping(n) ==
  \/ /\ OffsetValid /\ MayGrow(n) /\ Needed(n) > Len(buffer)
     /\ buffer' = NULL /\ refused' = TRUE /\ UNCHANGED <<blocks, outside>> /\ Fails
  \/ /\ ~ OffsetValid \/ n > IntMax \/ (Needed(n) > Len(buffer) /\ ~ MayGrow(n))
     /\ UNCHANGED <<buffer, blocks, refused, outside>> /\ Fails

\* ensure(n) gives NULL: a buffer that cannot grow for lack of memory is freed.
GiveUp(n) ==
  \/ /\ OffsetValid /\ MayGrow(n) /\ Needed(n) > Len(buffer)
     /\ buffer' = NULL /\ blocks' = blocks - 1 /\ refused' = TRUE /\ UNCHANGED outside /\ Fails
  \/ /\ ~ OffsetValid \/ n > IntMax \/ (Needed(n) > Len(buffer) /\ ~ MayGrow(n))
     /\ UNCHANGED <<buffer, blocks, refused, outside>> /\ Fails

-----------------------------------------------------------------------------
(* Texts.                                                                  *)

Escaped(char) == CASE char \in {"quote", "newline"} -> <<"backslash", char>>
                   [] char = "control" -> <<"backslash", "u", "0", "0", "0", "1">>
                   [] OTHER -> <<char>>
EscapedAll(string) == FlattenSeq([i \in DOMAIN string |-> Escaped(string[i])])
Quoted(string) ==
  <<"quote">> \o (IF string = NULL THEN << >> ELSE EscapedAll(string)) \o <<"quote">>

\* What print_value prints for an item without children.
Leaf(item) == IF item.type = "string" THEN Quoted(item.value) ELSE item.value
\* How much is ensured: a string needs one byte more than it ensures.
LeafRoom(item) == Len(Leaf(item)) + 1

Blank(n) == [i \in 1..n |-> "tab"]
IfBlanks(blanks, chars) == IF blanks THEN chars ELSE << >>

\* The head of print_array and print_object; the tabs before an element of an
\* object; what stands between two values, and after an object's last one; the
\* end of an item, whose own depth is level.
OpenText(kind, blanks) == IF kind = "array" THEN <<"[">> ELSE <<"{">> \o IfBlanks(blanks, <<"newline">>)
Tabs(level, blanks) == Blank(IF blanks THEN level ELSE 0)
ColonText(blanks) == <<":">> \o IfBlanks(blanks, <<"tab">>)
SeparatorText(kind, more, blanks) ==
  IF kind = "array" THEN <<",">> \o IfBlanks(blanks, <<"blank">>)
  ELSE (IF more THEN <<",">> ELSE << >>) \o IfBlanks(blanks, <<"newline">>)
CloseText(kind, level, blanks) ==
  IF kind = "array" THEN <<"]">> ELSE Tabs(level, blanks) \o <<"}">>

-----------------------------------------------------------------------------
(* Steps.                                                                  *)

Top == Last(stack)
Current == Top.items[Top.next]
More == Top.next < Len(Top.items)
Go(next) == printing' = next
Same == UNCHANGED options

\* The first buffer: cJSON_PrintPreallocated is given one.
Begin ==
  /\ printing = "start"
  /\ \/ Go("value") /\ blocks' = (IF noalloc THEN 0 ELSE 1) /\ UNCHANGED <<buffer, refused>>
     \/ ~ noalloc /\ Go("failed") /\ refused' = TRUE /\ buffer' = NULL /\ UNCHANGED blocks
  /\ Same /\ UNCHANGED <<offset, depth, stack, outside>>

\* print_value for an item without children; print_number moves offset too.
print_leaf ==
  /\ printing = "value" /\ Current.type \notin {"array", "object", "invalid"}
  /\ \/ /\ Put(LeafRoom(Current), Terminated(Leaf(Current)))
        /\ offset' = IF Current.type = "number" THEN offset + Len(Leaf(Current)) ELSE offset
        /\ Go("printed") /\ UNCHANGED <<depth, stack>>
     \/ GiveUp(LeafRoom(Current))
  /\ Same

print_invalid ==
  /\ printing = "value" /\ Current.type = "invalid"
  /\ Fails /\ Same /\ UNCHANGED <<buffer, blocks, refused, outside>>

Open ==
  /\ printing = "value" /\ Current.type \in {"array", "object"}
  /\ LET chars == OpenText(Current.type, format)
         room  == IF Current.type = "array" THEN 1 ELSE Len(chars) + 1
     IN \/ /\ Put(room, chars) /\ offset' = offset + Len(chars)
           /\ depth' = depth + 1
           /\ stack' = Append(stack, [kind |-> Current.type, items |-> Current.children,
                                   next |-> 1, from |-> offset])
           /\ Go(IF Current.children = << >> THEN "close"
                 ELSE IF Current.type = "array" THEN "value" ELSE "indent")
        \/ GiveUp(room)
  /\ Same

\* An object's element: the tabs, the key and the colon before the value.
Indent ==
  /\ printing = "indent"
  /\ \/ ~ format /\ Go("key") /\ UNCHANGED <<buffer, offset, depth, stack, blocks, refused, outside>>
     \/ /\ format /\ Put(depth, Blank(depth)) /\ offset' = offset + depth
        /\ Go("key") /\ UNCHANGED <<depth, stack>>
     \/ format /\ GiveUp(depth)
  /\ Same

Key ==
  /\ printing = "key"
  /\ LET chars == Quoted(Current.string)
     IN \/ /\ Put(Len(chars) + 1, Terminated(chars)) /\ offset' = offset + LengthOf(buffer', offset)
           /\ Go("colon") /\ UNCHANGED <<depth, stack>>
        \/ GiveUp(Len(chars) + 1)
  /\ Same

Colon ==
  /\ printing = "colon"
  /\ LET chars == ColonText(format)
     IN \/ /\ Put(Len(chars), chars) /\ offset' = offset + Len(chars)
           /\ Go("value") /\ UNCHANGED <<depth, stack>>
        \/ GiveUp(Len(chars))
  /\ Same

\* What stands between two values, and after an object's last one.
Separator == SeparatorText(Top.kind, More, format)

\* print_value has returned: update_offset.  An array's last element is
\* followed by the bracket at once.
Printed ==
  /\ printing = "printed" /\ Top.kind # "root"
  /\ offset' = offset + LengthOf(buffer, offset)
  /\ Go(IF Top.kind = "array" /\ ~ More THEN "close" ELSE "separate")
  /\ outside' = (outside \/ Unterminated)
  /\ Same /\ UNCHANGED <<buffer, depth, stack, blocks, refused>>

Separate ==
  /\ printing = "separate"
  /\ \/ /\ Put(Len(Separator) + 1, Terminated(Separator)) /\ offset' = offset + Len(Separator)
        /\ stack' = IF More THEN [stack EXCEPT ![Len(stack)].next = @ + 1] ELSE stack
        /\ Go(CASE ~ More -> "close" [] More /\ Top.kind = "array" -> "value" [] OTHER -> "indent")
        /\ UNCHANGED depth
     \/ GiveUp(Len(Separator) + 1)
  /\ Same

Close ==
  /\ printing = "close"
  /\ LET object == Top.kind = "object"
         chars  == CloseText(Top.kind, depth - 1, format)
         room   == IF object /\ format THEN depth + 1 ELSE 2
     IN \/ /\ Put(room, Terminated(chars)) /\ UNCHANGED offset
           /\ depth' = depth - 1 /\ stack' = Front(stack) /\ Go("printed")
        \/ GiveUp(room)
  /\ Same

\* The whole item is printed.  print gives back a block of the text's size.
Return ==
  /\ printing = "printed" /\ Top.kind = "root" /\ Same
  /\ \/ /\ call # "print" /\ Go("true")
        /\ UNCHANGED <<buffer, offset, depth, stack, blocks, refused, outside>>
     \/ /\ call = "print" /\ Go("true")
        /\ offset' = offset + LengthOf(buffer, offset)
        /\ buffer' = [i \in 1..(offset' + 1) |-> IF manual /\ i = offset' + 1 THEN "zero" ELSE buffer[i]]
        /\ outside' = (outside \/ Unterminated)
        /\ UNCHANGED <<depth, stack, blocks, refused>>
     \/ /\ call = "print" /\ printing' = "false" /\ refused' = TRUE
        /\ offset' = offset + LengthOf(buffer, offset)
        /\ UNCHANGED <<buffer, depth, stack, blocks, outside>>

\* print and cJSON_PrintBuffered free the buffer that is left.
ReturnFalse ==
  /\ printing = "false" /\ Go("failed")
  /\ buffer' = IF noalloc THEN buffer ELSE NULL
  /\ blocks' = IF ~ noalloc /\ buffer # NULL THEN blocks - 1 ELSE blocks
  /\ Same /\ UNCHANGED <<offset, depth, stack, refused, outside>>

PrintNext ==
  Begin \/ print_leaf \/ print_invalid \/ Open \/ Indent \/ Key \/ Colon \/ Printed \/ Separate \/ Close
    \/ Return \/ ReturnFalse

PrintSpec == PrintInit /\ [][PrintNext]_printVars

-----------------------------------------------------------------------------
(* Properties.                                                             *)

PrintTypeOK ==
  /\ printing \in {"start", "value", "indent", "key", "colon", "printed", "separate", "close",
                   "true", "false", "failed"}
  /\ offset \in 0..IntMax /\ depth = Len(stack) - 1
  /\ buffer # NULL => buffer \in Seq(Bytes) /\ Len(buffer) <= IntMax
  /\ blocks \in 0..1

\* Nothing is written or copied outside the buffer, each ensure asking for what
\* is written after it (ensure keeps a byte more); only the copy of a first
\* buffer of no bytes takes the byte behind it.
StaysInside == outside => given = 0 /\ call = "buffered" /\ manual

\* What stands in the text of an array or an object before the value of its k-th
\* child, and after that value, if values are its children's texts.
Label(child, kind, level, blanks) ==
  IF kind = "array" THEN << >>
  ELSE Tabs(level + 1, blanks) \o Quoted(child.string) \o ColonText(blanks)
After(item, k, blanks) ==
  IF item.type = "array" /\ k = Len(item.children) THEN << >>
  ELSE SeparatorText(item.type, k < Len(item.children), blanks)
Elements(item, values, level, blanks, k) ==
  FlattenSeq([i \in 1..k |-> Label(item.children[i], item.type, level, blanks) \o values[i]
                              \o After(item, i, blanks)])

\* An item's text, from those of its children.
SpelledWith(item, values, level, blanks) ==
  IF item.type \in {"array", "object"}
  THEN OpenText(item.type, blanks) \o Elements(item, values, level, blanks, Len(item.children))
         \o CloseText(item.type, level, blanks)
  ELSE Leaf(item)

\* The text of an item whose place is n levels above the lowest.
Spelling(blanks) ==
  LET spell[place \in (0..Nesting) \X Items] ==
        LET children == place[2].children
        IN  IF place[1] = 0 THEN << >>
            ELSE SpelledWith(place[2], [i \in DOMAIN children |-> spell[<<place[1] - 1, children[i]>>]],
                             Nesting - place[1], blanks)
  IN spell
Text(item, level, blanks) == Spelling(blanks)[<<Nesting - level, item>>]

Root == stack[1].items[1]
Whole == Text(Root, 0, format)

\* Whether what is printed of a tree has no invalid item, its root's place being
\* n levels above the lowest.
Valid(item, level) ==
  LET valid[place \in (0..Nesting) \X Items] ==
        LET children == place[2].children
        IN  place[1] > 0 => /\ place[2].type # "invalid"
                            /\ place[2].type \in {"array", "object"} =>
                                 \A i \in DOMAIN children : valid[<<place[1] - 1, children[i]>>]
  IN valid[<<Nesting - level, item>>]
Printable(item) == Valid(item, 0)

\* What is printed is the item's text and its zero, wherever the buffer had to
\* grow and whether realloc moved it or it was copied up to offset; print gives
\* back a block that holds nothing else.
PrintsTheText ==
  printing = "true" =>
    /\ Printable(Root)
    /\ Len(buffer) >= Len(Whole) + 1
    /\ SubSeq(buffer, 1, Len(Whole) + 1) = Append(Whole, "zero")
    /\ call = "print" => Len(buffer) = Len(Whole) + 1

\* A failed print leaves no buffer and frees none twice; otherwise there is
\* the one the caller gets.
OneBufferOrNone ==
  /\ printing = "failed" => blocks = 0
  /\ printing \notin {"start", "failed"} /\ ~ noalloc => blocks = IF buffer = NULL THEN 0 ELSE 1

\* Printing fails only for a reason: an item that cannot be printed, an
\* allocation that fails, or a text whose last growth would pass INT_MAX; with a
\* given buffer, two bytes more than the text ("to be safe allocate 5 bytes more
\* than you actually need", cJSON.h 168) are enough.
FailsForAReason ==
  printing = "failed" /\ Printable(Root) =>
    \/ refused
    \/ Len(Whole) + 2 > IF noalloc THEN given ELSE IntMax

\* The three ways to print write the item's text, inside their buffer however it
\* grows or moves, fail only for a reason, and leave one buffer or none.
PrintsOrFreesAll ==
  PrintTypeOK /\ StaysInside /\ PrintsTheText /\ OneBufferOrNone /\ FailsForAReason
=============================================================================
