----------------------------- MODULE JsonMinify -----------------------------
(***************************************************************************)
(* cJSON_Minify (src/src/cJSON.c): blanks and comments are dropped from a  *)
(* text in place, strings are kept.  One step per turn of the loops.       *)
(***************************************************************************)
EXTENDS Integers, Sequences

CONSTANT MinifyLength     \* bound on the texts

JsonMinifyAssumption == MinifyLength \in Nat
ASSUME JsonMinifyGiven == JsonMinifyAssumption

Blanks == {"blank", "newline"}
Characters == Blanks \cup {"quote", "backslash", "slash", "star", "other"}
MinifyTexts == UNION {[1..n -> Characters] : n \in 0..MinifyLength}

VARIABLES original,    \* the text before the call
          minified,    \* the buffer, without its terminating zero
          json, into,  \* the reading and the writing position
          in           \* which loop runs

minifyVars == <<original, minified, json, into, in>>

MinifyInit == /\ original \in MinifyTexts /\ minified = original
              /\ json = 1 /\ into = 1 /\ in = "text"

\* The character d places ahead; "zero" ends the text.
Ahead(d) == IF json + d \in DOMAIN minified THEN minified[json + d] ELSE "zero"
Over == Ahead(0) = "zero"

Skip(n, next) == json' = json + n /\ in' = next /\ UNCHANGED <<original, minified, into>>
Keep(n, next) ==
  /\ minified' = [i \in DOMAIN minified |-> IF i - into \in 0..(n - 1) THEN Ahead(i - into) ELSE minified[i]]
  /\ json' = json + n /\ into' = into + n /\ in' = next
  /\ UNCHANGED original

DropBlank == in = "text" /\ Ahead(0) \in Blanks /\ Skip(1, "text")

\* A slash that opens no comment is dropped.
OpenComment ==
  /\ in = "text" /\ Ahead(0) = "slash"
  /\ CASE Ahead(1) = "slash" -> Skip(2, "line")
       [] Ahead(1) = "star"  -> Skip(2, "comment")
       [] OTHER           -> Skip(1, "text")

OpenString == in = "text" /\ Ahead(0) = "quote" /\ Keep(1, "string")

KeepOther == in = "text" /\ Ahead(0) \in {"backslash", "star", "other"} /\ Keep(1, "text")

skip_oneline_comment ==
  in = "line" /\ ~ Over /\ Skip(1, IF Ahead(0) = "newline" THEN "text" ELSE "line")

\* Mutant: a comment ends at any slash.
CommentEndsAtSlash ==
  in = "comment" /\ ~ Over /\ Skip(1, IF Ahead(0) = "slash" THEN "text" ELSE "comment")

skip_multiline_comment ==
  /\ in = "comment" /\ ~ Over
  /\ IF Ahead(0) = "star" /\ Ahead(1) = "slash" THEN Skip(2, "text") ELSE Skip(1, "comment")

\* A backslash escapes only a quote, whatever stands before it.
minify_string ==
  /\ in = "string" /\ ~ Over
  /\ CASE Ahead(0) = "quote" -> Keep(1, "text")
       [] Ahead(0) = "backslash" /\ Ahead(1) = "quote" -> Keep(2, "string")
       [] OTHER -> Keep(1, "string")

Terminate ==
  /\ in # "done" /\ Over
  /\ minified' = SubSeq(minified, 1, into - 1) /\ in' = "done"
  /\ UNCHANGED <<original, json, into>>

MinifyNext == DropBlank \/ OpenComment \/ OpenString \/ KeepOther
                \/ skip_oneline_comment \/ skip_multiline_comment \/ minify_string \/ Terminate

MinifySpec == MinifyInit /\ [][MinifyNext]_minifyVars

-----------------------------------------------------------------------------
(* Properties.                                                             *)

\* The first of some positions in t, or the last of all, and with it the ends of
\* a comment that is read from i on and of a string that opens at i.
FirstOf(positions, t) ==
  IF positions = {} THEN Len(t) ELSE CHOOSE k \in positions : \A j \in positions : k <= j
LineEnd(t, i) == FirstOf({k \in i..Len(t) : t[k] = "newline"}, t)
CommentEnd(t, i) == FirstOf({k \in (i + 1)..Len(t) : t[k - 1] = "star" /\ t[k] = "slash"}, t)

\* A quote at k is escaped if an odd number of backslashes precedes it.
Backslashes(t, i, k) ==
  k - 1 - (CHOOSE j \in i..(k - 1) : (j = i \/ t[j] # "backslash")
                                       /\ \A l \in (j + 1)..(k - 1) : t[l] = "backslash")
StringEnd(t, i) == FirstOf({k \in (i + 1)..Len(t) : t[k] = "quote" /\ Backslashes(t, i, k) % 2 = 0}, t)

\* Where ends what begins at i, and what is kept of it: strings as they are.
Opens(t, i, mark) == i < Len(t) /\ t[i] = "slash" /\ t[i + 1] = mark
EndOf(t, i) ==
  IF Opens(t, i, "slash") THEN LineEnd(t, i + 2)
  ELSE IF Opens(t, i, "star") THEN CommentEnd(t, i + 2)
  ELSE IF t[i] = "quote" THEN StringEnd(t, i) ELSE i
KeptFrom(t, i) == IF t[i] \in Blanks \cup {"slash"} THEN << >> ELSE SubSeq(t, i, EndOf(t, i))

\* A text from each position on, without blanks and comments.
Minified(t) ==
  LET rest[i \in 1..(Len(t) + 1)] == IF i = Len(t) + 1 THEN << >> ELSE KeptFrom(t, i) \o rest[EndOf(t, i) + 1]
  IN rest

\* Writing never overtakes reading, so what is still to be read is the text as
\* it was given, and nothing is read beyond its end.
UnreadIsIntact ==
  in # "done" => /\ into <= json /\ json <= Len(original) + 1
                 /\ \A i \in json..Len(original) : minified[i] = original[i]

\* cJSON_Minify drops the blanks and comments outside strings and nothing
\* else, if no backslash is escaped.
NothingEscapedTwice(t) == \A i \in 2..Len(t) : ~ (t[i - 1] = "backslash" /\ t[i] = "backslash")
MinifiesSimpleTexts == in = "done" /\ NothingEscapedTwice(original) => minified = Minified(original)[1]

\* cJSON_Minify in place never writes over what it has still to read, and
\* leaves a text without escapes the same but for blanks and comments.
MinifiesInPlace == UnreadIsIntact /\ MinifiesSimpleTexts
=============================================================================
