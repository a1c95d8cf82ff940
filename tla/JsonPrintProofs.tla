--------------------------- MODULE JsonPrintProofs ---------------------------
(***************************************************************************)
(* Proofs about the printer of JsonPrint, for any items, any lengths of    *)
(* buffers and any size of an int.                                         *)
(***************************************************************************)
EXTENDS JsonPrint, SequenceTheorems, NaturalsInduction, WellFoundedInduction, TLAPS

-----------------------------------------------------------------------------
(* Recursion over a natural number.                                        *)

\* Every set of naturals that is not empty has a least member.
LEMMA LeastNatural ==
  ASSUME NEW T \in SUBSET Nat, T # {}
  PROVE  \E n \in T : \A m \in T : n <= m
<1> DEFINE less == {ss \in Nat \X Nat : ss[1] < ss[2]}
<1>1. less = OpToRel(<, Nat)
  BY Zenon DEF OpToRel
<1>2. \E x \in T : \A y \in T : <<y, x>> \notin OpToRel(<, Nat)
  BY NatLessThanWellFounded, WFMin, Zenon
<1>3. \E x \in T : \A y \in T : <<y, x>> \notin less
  BY <1>1, <1>2, Zenon
<1>4. \A x, y \in Nat : y < x => <<y, x>> \in less
  OBVIOUS
<1>5. \A x, y \in Nat : <<y, x>> \notin less => x <= y
  BY <1>4
<1> HIDE DEF less
<1>6. QED BY <1>3, <1>5

\* What holds for no first number holds for none: a set of naturals is empty that
\* has no least member.
LEMMA NoLeast ==
  ASSUME NEW T \in SUBSET Nat, \A n \in T : \E m \in T : m < n
  PROVE  T = {}
BY LeastNatural

\* The values that n steps from a pass through; there is such a sequence.
Steps(n, S) == [1..n -> [S -> S]]
RunsOf(n, S, a, step) == {f \in [0..n -> S] : f[0] = a /\ \A i \in 1..n : f[i] = step[i][f[i - 1]]}

\* From a, steps by given functions lead through one value after the other,
\* however many there are.
LEMMA Recursion ==
  ASSUME NEW n \in Nat, NEW S, NEW a \in S, NEW step \in Steps(n, S)
  PROVE  \E f : f \in RunsOf(n, S, a, step)
<1> DEFINE UpTo(k, f) == f \in [0..k -> S] /\ f[0] = a /\ \A i \in 1..k : f[i] = step[i][f[i - 1]]
           Bad == {k \in 0..n : ~ \E f : UpTo(k, f)}
<1>1. Bad = {}
  <2>1. ASSUME NEW k \in Bad PROVE \E m \in Bad : m < k
    <3>1. k # 0
      <4>1. UpTo(0, [i \in 0..0 |-> a])
        OBVIOUS
      <4>2. \E f : UpTo(0, f)
        <5> HIDE DEF UpTo
        <5> QED BY <4>1, Zenon
      <4>3. 0 \notin Bad
        <5> HIDE DEF UpTo
        <5> QED BY <4>2, Zenon
      <4>4. QED BY <4>3, <2>1
    <3>2. SUFFICES ASSUME k - 1 \notin Bad PROVE FALSE
      <4>1. k \in Nat
        BY <2>1
      <4> HIDE DEF Bad
      <4>2. QED BY <4>1, <3>1
    <3>3. PICK f : UpTo(k - 1, f)
      BY <3>1, <3>2, <2>1
    <3> DEFINE g == [i \in 0..k |-> IF i < k THEN f[i] ELSE step[k][f[k - 1]]]
    <3>4. g \in [0..k -> S]
      BY <3>3, <3>1, <2>1, k \in 1..n DEF Steps
    <3>5. g[0] = a /\ \A i \in 1..k : g[i] = step[i][g[i - 1]]
      BY <3>3, <3>1, <2>1
    <3>6. k \in 0..n /\ k \in Nat /\ k - 1 < k
      BY <2>1
    <3>7. UpTo(k, g)
      BY <3>4, <3>5
    <3>8. \E r : UpTo(k, r)
      <4> HIDE DEF UpTo, g
      <4> QED BY <3>7, Zenon
    <3> HIDE DEF UpTo
    <3>9. k \notin Bad
      BY <3>8, Zenon
    <3>10. QED BY <3>9, <2>1
  <2>2. Bad \in SUBSET Nat
    OBVIOUS
  <2> HIDE DEF Bad
  <2>3. QED BY <2>1, <2>2, NoLeast
<1>2. \E f : UpTo(n, f)
  BY <1>1
<1>3. QED BY <1>2 DEF RunsOf

-----------------------------------------------------------------------------
(* Sequences of sequences.                                                 *)

\* FlattenSeq puts one sequence behind the other.
LEMMA FlattenRuns ==
  ASSUME NEW S, NEW seqs \in Seq(Seq(S)), Len(seqs) > 0
  PROVE  \E f \in [1..Len(seqs) -> Seq(S)] :
            /\ \A i \in 1..Len(seqs) : f[i] = IF i = 1 THEN seqs[i] ELSE f[i - 1] \o seqs[i]
            /\ FlattenSeq(seqs) = f[Len(seqs)]
<1> DEFINE n == Len(seqs)
           step == [i \in 1..n |-> [s \in Seq(S) |-> s \o seqs[i]]]
           Body(f) == [i \in 1..n |-> IF i = 1 THEN seqs[i] ELSE f[i - 1] \o seqs[i]]
           flatten == CHOOSE f : f = Body(f)
<1>1. n \in Nat /\ n > 0 /\ \A i \in 1..n : seqs[i] \in Seq(S)
  OBVIOUS
<1>2. step \in Steps(n, Seq(S))
  BY <1>1 DEF Steps
<1>3. << >> \in Seq(S)
  OBVIOUS
<1>4. PICK r : r \in RunsOf(n, Seq(S), << >>, step)
  <2> HIDE DEF n, step
  <2> QED BY <1>1, <1>2, <1>3, Recursion
<1> DEFINE g == [i \in 1..n |-> r[i]]
<1>5. \A i \in 1..n : r[i] = r[i - 1] \o seqs[i] /\ r[i] \in Seq(S) /\ r[i - 1] \in Seq(S)
  <2>1. r \in [0..n -> Seq(S)] /\ \A i \in 1..n : r[i] = step[i][r[i - 1]]
    BY <1>4, Zenon DEF RunsOf
  <2>2. \A i \in 1..n : r[i] \in Seq(S) /\ r[i - 1] \in Seq(S)
    <3> HIDE DEF step, n
    <3> QED BY <2>1, <1>1
  <2>3. \A i \in 1..n, x \in Seq(S) : step[i][x] = x \o seqs[i]
    OBVIOUS
  <2> HIDE DEF step, n
  <2>4. QED BY <2>1, <2>2, <2>3
<1>6. 1 \in 1..n /\ r[1] = seqs[1]
  <2>1. r[0] = << >>
    BY <1>4, Zenon DEF RunsOf
  <2>2. 1 \in 1..n
    BY <1>1
  <2> HIDE DEF n
  <2>3. r[1] = r[0] \o seqs[1] /\ seqs[1] \in Seq(S)
    <3>1. r[1] = r[1 - 1] \o seqs[1]
      BY <2>2, <1>5, Zenon
    <3>2. QED BY <3>1, <2>2, <1>1
  <2>4. << >> \o seqs[1] = seqs[1]
    BY <2>3
  <2>5. QED BY <2>1, <2>2, <2>3, <2>4
<1>7. g = Body(g)
  <2>1. \A i \in 1..n : g[i] = IF i = 1 THEN seqs[i] ELSE g[i - 1] \o seqs[i]
    <3> TAKE i \in 1..n
    <3>1. CASE i = 1
      BY <3>1, <1>6
    <3>2. CASE i # 1
      <4>1. i - 1 \in 1..n
        BY <3>2, <1>1
      <4>2. g[i] = r[i] /\ g[i - 1] = r[i - 1]
        BY <4>1
      <4>3. QED BY <4>2, <1>5, <3>2
    <3>3. QED BY <3>1, <3>2
  <2>2. g = [i \in 1..n |-> g[i]]
    OBVIOUS
  <2> HIDE DEF g, n
  <2>3. QED BY <2>1, <2>2
<1>8. flatten = Body(flatten)
  <2> HIDE DEF Body, g
  <2> QED BY <1>7
<1>9. \A i \in 1..n : flatten[i] \in Seq(S)
  <2> DEFINE Bad == {i \in 1..n : flatten[i] \notin Seq(S)}
  <2>0. \A i \in 1..n : flatten[i] = IF i = 1 THEN seqs[i] ELSE flatten[i - 1] \o seqs[i]
    <3> HIDE DEF flatten
    <3> QED BY <1>8
  <2> HIDE DEF flatten
  <2>1. ASSUME NEW i \in Bad PROVE \E m \in Bad : m < i
    <3> HIDE DEF n
    <3>1. i # 1 /\ i - 1 \in 1..n
      BY <2>1, <2>0, <1>1
    <3>2. flatten[i] = flatten[i - 1] \o seqs[i] /\ seqs[i] \in Seq(S)
      BY <2>1, <3>1, <2>0, <1>1
    <3>3. flatten[i - 1] \notin Seq(S)
      <4>1. flatten[i] \notin Seq(S)
        BY <2>1
      <4>2. \A x, y \in Seq(S) : x \o y \in Seq(S)
        OBVIOUS
      <4>3. QED BY <3>2, <4>1, <4>2, Zenon
    <3>4. i - 1 \in Bad /\ i - 1 < i
      BY <3>1, <3>3, <2>1, <1>1
    <3>5. QED BY <3>4
  <2>2. Bad \in SUBSET Nat
    OBVIOUS
  <2>3. Bad = {}
    <3> HIDE DEF Bad
    <3> QED BY <2>1, <2>2, NoLeast
  <2>4. QED BY <2>3
<1>10. FlattenSeq(seqs) = flatten[n]
  BY <1>1 DEF FlattenSeq
<1>11. flatten \in [1..n -> Seq(S)] /\ \A i \in 1..n : flatten[i] = IF i = 1 THEN seqs[i] ELSE flatten[i - 1] \o seqs[i]
  <2> HIDE DEF flatten
  <2> QED BY <1>8, <1>9
<1> HIDE DEF flatten
<1>12. QED BY <1>10, <1>11

\* What is flattened has the members of the sequences.
LEMMA FlattenType ==
  ASSUME NEW S, NEW seqs \in Seq(Seq(S))
  PROVE  FlattenSeq(seqs) \in Seq(S)
<1>0. Len(seqs) \in Nat
  OBVIOUS
<1>1. CASE Len(seqs) > 0
  <2>1. PICK f \in [1..Len(seqs) -> Seq(S)] : FlattenSeq(seqs) = f[Len(seqs)]
    BY <1>1, FlattenRuns
  <2>2. Len(seqs) \in 1..Len(seqs)
    BY <1>0, <1>1
  <2>3. QED BY <2>1, <2>2
<1>2. CASE Len(seqs) = 0
  BY <1>2 DEF FlattenSeq
<1>3. QED BY <1>1, <1>2

\* A sequence more is put behind what the others come to.
LEMMA FlattenStep ==
  ASSUME NEW S, NEW s \in Seq(Seq(S)), NEW t \in Seq(Seq(S)), Len(t) = Len(s) + 1,
         \A i \in 1..Len(s) : t[i] = s[i]
  PROVE  FlattenSeq(t) = FlattenSeq(s) \o t[Len(t)]
<1>0. Len(s) \in Nat /\ Len(t) \in Nat /\ Len(t) > 0 /\ \A i \in 1..Len(t) : t[i] \in Seq(S)
  OBVIOUS
<1>1. PICK g \in [1..Len(t) -> Seq(S)] :
            /\ \A i \in 1..Len(t) : g[i] = IF i = 1 THEN t[i] ELSE g[i - 1] \o t[i]
            /\ FlattenSeq(t) = g[Len(t)]
  BY <1>0, FlattenRuns
<1>2. CASE Len(s) = 0
  <2>1. FlattenSeq(s) = << >>
    BY <1>2 DEF FlattenSeq
  <2>2. QED BY <1>1, <1>2, <2>1
<1>3. CASE Len(s) > 0
  <2>1. PICK f \in [1..Len(s) -> Seq(S)] :
            /\ \A i \in 1..Len(s) : f[i] = IF i = 1 THEN s[i] ELSE f[i - 1] \o s[i]
            /\ FlattenSeq(s) = f[Len(s)]
    BY <1>3, FlattenRuns
  <2> DEFINE Bad == {i \in 1..Len(s) : f[i] # g[i]}
  <2>2. ASSUME NEW i \in Bad PROVE \E m \in Bad : m < i
    <3>0. i \in 1..Len(s) /\ i \in 1..Len(t) /\ f[i] # g[i] /\ i \in Nat
      BY <2>2, <1>0
    <3>1. f[i] = (IF i = 1 THEN s[i] ELSE f[i - 1] \o s[i]) /\ g[i] = (IF i = 1 THEN t[i] ELSE g[i - 1] \o t[i])
      BY <2>1, <1>1, <3>0
    <3>2. t[i] = s[i]
      BY <3>0
    <3>3. i # 1 /\ f[i - 1] # g[i - 1]
      BY <3>0, <3>1, <3>2
    <3>4. i - 1 \in 1..Len(s) /\ i - 1 < i
      BY <3>0, <3>3, <1>0
    <3>5. QED BY <3>3, <3>4
  <2>3. Bad \in SUBSET Nat
    OBVIOUS
  <2>4. Bad = {}
    <3> HIDE DEF Bad
    <3> QED BY <2>2, <2>3, NoLeast
  <2>5. f[Len(s)] = g[Len(s)]
    <3>1. Len(s) \in 1..Len(s)
      BY <1>3, <1>0
    <3>2. QED BY <2>4, <3>1
  <2>6. g[Len(t)] = g[Len(s)] \o t[Len(t)]
    <3>1. Len(t) \in 1..Len(t) /\ Len(t) # 1 /\ Len(t) - 1 = Len(s)
      BY <1>3, <1>0
    <3>2. QED BY <1>1, <3>1
  <2>7. QED BY <2>5, <2>6, <2>1, <1>1
<1>4. QED BY <1>2, <1>3, <1>0

-----------------------------------------------------------------------------
(* Texts.                                                                  *)

LEMMA Concat ==
  ASSUME NEW S, NEW a \in Seq(S), NEW b \in Seq(S)
  PROVE  /\ a \o b \in Seq(S) /\ Len(a \o b) = Len(a) + Len(b)
         /\ \A i \in 1..Len(a) : (a \o b)[i] = a[i]
         /\ \A i \in 1..Len(b) : (a \o b)[Len(a) + i] = b[i]
OBVIOUS

LEMMA MarksAreChars ==
  /\ "[" \in Chars /\ "]" \in Chars /\ "{" \in Chars /\ "}" \in Chars /\ "," \in Chars /\ ":" \in Chars
  /\ "quote" \in Chars /\ "backslash" \in Chars /\ "u" \in Chars /\ "0" \in Chars /\ "1" \in Chars
  /\ "newline" \in Chars /\ "tab" \in Chars /\ "blank" \in Chars /\ "zero" \notin Chars
BY PrintAssumption DEF JsonPrintAssumption, Marks

LEMMA ShortTypes ==
  /\ << >> \in Seq(Chars) /\ Len(<< >>) = 0
  /\ \A m \in Chars : <<m>> \in Seq(Chars) /\ Len(<<m>>) = 1
  /\ \A a, b \in Chars : <<a, b>> \in Seq(Chars)
  /\ \A a, b, c, d, e, f \in Chars : <<a, b, c, d, e, f>> \in Seq(Chars)
OBVIOUS

LEMMA EscapedType ==
  ASSUME NEW char \in Chars
  PROVE  Escaped(char) \in Seq(Chars)
<1>1. <<"backslash", char>> \in Seq(Chars) /\ <<char>> \in Seq(Chars)
  BY MarksAreChars, ShortTypes, Zenon
<1>2. <<"backslash", "u", "0", "0", "0", "1">> \in Seq(Chars)
  BY MarksAreChars, ShortTypes, Zenon
<1>3. \/ Escaped(char) = <<"backslash", char>> \/ Escaped(char) = <<char>>
      \/ Escaped(char) = <<"backslash", "u", "0", "0", "0", "1">>
  BY DEF Escaped
<1>4. QED BY <1>1, <1>2, <1>3, Zenon

LEMMA QuotedType ==
  ASSUME NEW string \in Seq(Chars) \cup {NULL}
  PROVE  Quoted(string) \in Seq(Chars)
<1>1. <<"quote">> \in Seq(Chars) /\ << >> \in Seq(Chars)
  BY MarksAreChars, ShortTypes, Zenon
<1>2. ASSUME string # NULL PROVE EscapedAll(string) \in Seq(Chars)
  <2>1. string \in Seq(Chars) /\ DOMAIN string = 1..Len(string) /\ Len(string) \in Nat
    BY <1>2
  <2>2. [i \in DOMAIN string |-> Escaped(string[i])] \in Seq(Seq(Chars))
    <3>1. \A i \in DOMAIN string : Escaped(string[i]) \in Seq(Chars)
      BY <2>1, EscapedType
    <3>2. QED BY <2>1, <3>1
  <2>3. QED BY <2>2, FlattenType DEF EscapedAll
<1> DEFINE inside == IF string = NULL THEN << >> ELSE EscapedAll(string)
<1>3. inside \in Seq(Chars)
  BY <1>1, <1>2
<1>4. Quoted(string) = <<"quote">> \o inside \o <<"quote">>
  BY DEF Quoted
<1> HIDE DEF inside
<1> DEFINE q == <<"quote">>
<1>5. q \in Seq(Chars) /\ Quoted(string) = q \o inside \o q
  BY <1>1, <1>4
<1> HIDE DEF q
<1>6. QED BY <1>3, <1>5, Concat

LEMMA ItemType ==
  ASSUME NEW item \in Items
  PROVE  /\ item.type \in Types /\ item.string \in Seq(Chars) \cup {NULL}
         /\ item.value \in Seq(Chars) \cup {NULL} /\ (item.type # "string" => item.value # NULL)
         /\ item.children \in Seq(Items) /\ Len(item.children) \in Nat
         /\ DOMAIN item.children = 1..Len(item.children)
         /\ \A i \in 1..Len(item.children) : item.children[i] \in Items
         /\ Height[item] \in 1..Nesting /\ Nesting \in Nat
         /\ \A i \in 1..Len(item.children) : Height[item.children[i]] < Height[item]
<1>1. item \in [type : Types, string : Seq(Chars) \cup {NULL}, value : Seq(Chars) \cup {NULL}, children : Seq(Items)]
  BY PrintAssumption DEF JsonPrintAssumption
<1>2. item.type \in Types /\ item.string \in Seq(Chars) \cup {NULL} /\ item.value \in Seq(Chars) \cup {NULL}
        /\ item.children \in Seq(Items)
  BY <1>1
<1>3. Len(item.children) \in Nat /\ DOMAIN item.children = 1..Len(item.children)
        /\ \A i \in 1..Len(item.children) : item.children[i] \in Items
  BY <1>2
<1>4. Height[item] \in 1..Nesting /\ Nesting \in Nat
  BY PrintAssumption DEF JsonPrintAssumption
<1>5. \A i \in DOMAIN item.children : Height[item.children[i]] < Height[item]
  BY PrintAssumption, Zenon DEF JsonPrintAssumption
<1>6. item.type # "string" => item.value # NULL
  BY PrintAssumption, Zenon DEF JsonPrintAssumption
<1>7. QED BY <1>2, <1>3, <1>4, <1>5, <1>6

LEMMA LeafType ==
  ASSUME NEW item \in Items
  PROVE  Leaf(item) \in Seq(Chars)
BY ItemType, QuotedType DEF Leaf

LEMMA PartTypes ==
  ASSUME NEW kind, NEW blanks \in BOOLEAN, NEW more \in BOOLEAN, NEW level \in Nat
  PROVE  /\ OpenText(kind, blanks) \in Seq(Chars) /\ Len(OpenText(kind, blanks)) >= 1
         /\ (kind = "array" => Len(OpenText(kind, blanks)) = 1)
         /\ Tabs(level, blanks) \in Seq(Chars) /\ Len(Tabs(level, blanks)) = (IF blanks THEN level ELSE 0)
         /\ ColonText(blanks) \in Seq(Chars)
         /\ SeparatorText(kind, more, blanks) \in Seq(Chars)
         /\ CloseText(kind, level, blanks) \in Seq(Chars)
         /\ Len(CloseText(kind, level, blanks)) = 1 + (IF kind # "array" /\ blanks THEN level ELSE 0)
<1>1. \A m \in Chars : IfBlanks(blanks, <<m>>) \in Seq(Chars)
  BY ShortTypes, Zenon DEF IfBlanks
<1>2. ASSUME NEW n \in Nat PROVE Blank(n) \in Seq(Chars) /\ Len(Blank(n)) = n
  <2>1. ASSUME NEW t \in Chars PROVE [i \in 1..n |-> t] \in Seq(Chars) /\ Len([i \in 1..n |-> t]) = n
    OBVIOUS
  <2>2. QED BY <2>1, MarksAreChars, Zenon DEF Blank
<1>3. /\ <<"{">> \in Seq(Chars) /\ Len(<<"{">>) = 1 /\ <<"}">> \in Seq(Chars) /\ Len(<<"}">>) = 1
      /\ <<"[">> \in Seq(Chars) /\ Len(<<"[">>) = 1 /\ <<"]">> \in Seq(Chars) /\ Len(<<"]">>) = 1
      /\ <<",">> \in Seq(Chars) /\ <<":">> \in Seq(Chars) /\ << >> \in Seq(Chars)
  BY ShortTypes, MarksAreChars, Zenon
<1>4. /\ IfBlanks(blanks, <<"newline">>) \in Seq(Chars) /\ IfBlanks(blanks, <<"tab">>) \in Seq(Chars)
      /\ IfBlanks(blanks, <<"blank">>) \in Seq(Chars)
  BY <1>1, MarksAreChars, Zenon
<1>5. \A a, b \in Seq(Chars) : a \o b \in Seq(Chars) /\ Len(a \o b) = Len(a) + Len(b) /\ Len(a) \in Nat
  BY Concat
<1>6. OpenText(kind, blanks) \in Seq(Chars) /\ Len(OpenText(kind, blanks)) >= 1
         /\ (kind = "array" => Len(OpenText(kind, blanks)) = 1)
  <2> DEFINE a == <<"{">>
             b == IfBlanks(blanks, <<"newline">>)
             c == <<"[">>
  <2>1. OpenText(kind, blanks) = IF kind = "array" THEN c ELSE a \o b
    BY DEF OpenText
  <2>2. a \in Seq(Chars) /\ Len(a) = 1 /\ b \in Seq(Chars) /\ c \in Seq(Chars) /\ Len(c) = 1
    BY <1>3, <1>4
  <2> HIDE DEF a, b, c
  <2>3. QED BY <2>1, <2>2, <1>5
<1>7. Tabs(level, blanks) \in Seq(Chars) /\ Len(Tabs(level, blanks)) = (IF blanks THEN level ELSE 0)
  BY <1>2 DEF Tabs
<1>8. ColonText(blanks) \in Seq(Chars)
  BY <1>3, <1>4, <1>5, Zenon DEF ColonText
<1>9. SeparatorText(kind, more, blanks) \in Seq(Chars)
  <2>1. (IF more THEN <<",">> ELSE << >>) \in Seq(Chars)
    BY <1>3
  <2>2. QED BY <2>1, <1>3, <1>4, <1>5, Zenon DEF SeparatorText
<1>10. CloseText(kind, level, blanks) \in Seq(Chars)
         /\ Len(CloseText(kind, level, blanks)) = 1 + (IF kind # "array" /\ blanks THEN level ELSE 0)
  <2> DEFINE a == <<"]">>
             b == <<"}">>
  <2>1. CloseText(kind, level, blanks) = IF kind = "array" THEN a ELSE Tabs(level, blanks) \o b
    BY DEF CloseText
  <2>2. a \in Seq(Chars) /\ Len(a) = 1 /\ b \in Seq(Chars) /\ Len(b) = 1
    BY <1>3
  <2> HIDE DEF a, b
  <2>3. CASE kind = "array"
    BY <2>1, <2>2, <2>3
  <2>4. CASE kind # "array"
    <3>1. CloseText(kind, level, blanks) = Tabs(level, blanks) \o b
      BY <2>1, <2>4
    <3>2. Tabs(level, blanks) \o b \in Seq(Chars) /\ Len(Tabs(level, blanks) \o b) = Len(Tabs(level, blanks)) + 1
      BY <2>2, <1>5, <1>7
    <3>3. QED BY <3>1, <3>2, <1>7, <2>4
  <2>5. QED BY <2>3, <2>4
<1>11. QED BY <1>6, <1>7, <1>8, <1>9, <1>10

\* The elements of an array or an object, from the texts of its children, and the
\* place of the k-th in the text.
Piece(item, values, level, blanks, k) ==
  Label(item.children[k], item.type, level, blanks) \o values[k] \o After(item, k, blanks)
Start(item, values, level, blanks, k) ==
  Len(OpenText(item.type, blanks)) + Len(Elements(item, values, level, blanks, k - 1))

LEMMA LabelTypes ==
  ASSUME NEW item \in Items, NEW blanks \in BOOLEAN, NEW level \in Nat, NEW k \in 1..Len(item.children)
  PROVE  /\ Label(item.children[k], item.type, level, blanks) \in Seq(Chars)
         /\ After(item, k, blanks) \in Seq(Chars)
<1>1. item.children[k] \in Items /\ Len(item.children) \in Nat
  BY ItemType
<1>2. Quoted(item.children[k].string) \in Seq(Chars)
  BY <1>1, ItemType, QuotedType
<1>3. level + 1 \in Nat /\ (k < Len(item.children)) \in BOOLEAN
  BY <1>1
<1>4. Tabs(level + 1, blanks) \in Seq(Chars) /\ ColonText(blanks) \in Seq(Chars)
        /\ SeparatorText(item.type, k < Len(item.children), blanks) \in Seq(Chars)
  BY <1>3, PartTypes
<1>5. Label(item.children[k], item.type, level, blanks) \in Seq(Chars)
  BY <1>2, <1>4, Concat, ShortTypes DEF Label
<1>6. After(item, k, blanks) \in Seq(Chars)
  BY <1>4, ShortTypes DEF After
<1>7. QED BY <1>5, <1>6

LEMMA PieceTypes ==
  ASSUME NEW item \in Items, NEW values \in Seq(Seq(Chars)), Len(values) = Len(item.children),
         NEW blanks \in BOOLEAN, NEW level \in Nat, NEW k \in 1..Len(item.children)
  PROVE  /\ values[k] \in Seq(Chars)
         /\ Piece(item, values, level, blanks, k) \in Seq(Chars)
         /\ Len(Piece(item, values, level, blanks, k)) =
              Len(Label(item.children[k], item.type, level, blanks)) + Len(values[k]) + Len(After(item, k, blanks))
<1>1. values[k] \in Seq(Chars)
  OBVIOUS
<1> DEFINE a == Label(item.children[k], item.type, level, blanks)
           b == values[k]
           c == After(item, k, blanks)
<1>2. a \in Seq(Chars) /\ b \in Seq(Chars) /\ c \in Seq(Chars)
  BY <1>1, LabelTypes
<1>3. Piece(item, values, level, blanks, k) = a \o b \o c
  BY DEF Piece
<1> HIDE DEF a, b, c
<1>4. Piece(item, values, level, blanks, k) \in Seq(Chars)
        /\ Len(Piece(item, values, level, blanks, k)) = Len(a) + Len(b) + Len(c)
  BY <1>2, <1>3, Concat
<1>5. QED BY <1>1, <1>4 DEF a, b, c

LEMMA ElementsTypes ==
  ASSUME NEW item \in Items, NEW values \in Seq(Seq(Chars)), Len(values) = Len(item.children),
         NEW blanks \in BOOLEAN, NEW level \in Nat
  PROVE  /\ \A k \in 0..Len(item.children) : Elements(item, values, level, blanks, k) \in Seq(Chars)
         /\ Len(Elements(item, values, level, blanks, 0)) = 0
         /\ \A k \in 1..Len(item.children) :
              Elements(item, values, level, blanks, k) =
                Elements(item, values, level, blanks, k - 1) \o Piece(item, values, level, blanks, k)
<1> DEFINE s(k) == [i \in 1..k |-> Piece(item, values, level, blanks, i)]
           n == Len(item.children)
<1>0. n \in Nat
  BY ItemType
<1>1. \A k : Elements(item, values, level, blanks, k) = FlattenSeq(s(k))
  BY DEF Elements, Piece
<1>2. \A i \in 1..n : Piece(item, values, level, blanks, i) \in Seq(Chars)
  BY PieceTypes
<1>3. ASSUME NEW k \in 0..n PROVE s(k) \in Seq(Seq(Chars)) /\ Len(s(k)) = k
  <2>1. k \in Nat /\ \A i \in 1..k : Piece(item, values, level, blanks, i) \in Seq(Chars)
    BY <1>0, <1>2
  <2>2. QED BY <2>1
<1>4. \A k \in 0..n : FlattenSeq(s(k)) \in Seq(Chars)
  <2> HIDE DEF s, n
  <2> QED BY <1>3, FlattenType
<1>5. Len(FlattenSeq(s(0))) = 0
  <2>1. s(0) = << >>
    OBVIOUS
  <2>2. QED BY <2>1 DEF FlattenSeq
<1>6. ASSUME NEW k \in 1..n PROVE FlattenSeq(s(k)) = FlattenSeq(s(k - 1)) \o Piece(item, values, level, blanks, k)
  <2>1. k - 1 \in 0..n /\ k \in 0..n
    BY <1>0
  <2>2. s(k)[k] = Piece(item, values, level, blanks, k)
    BY <1>0
  <2>3. \A i \in 1..(k - 1) : s(k)[i] = s(k - 1)[i]
    BY <1>0
  <2>4. s(k) \in Seq(Seq(Chars)) /\ Len(s(k)) = k /\ s(k - 1) \in Seq(Seq(Chars)) /\ Len(s(k - 1)) = k - 1
    <3> HIDE DEF s, n
    <3> QED BY <1>3, <2>1
  <2>5. Len(s(k)) = Len(s(k - 1)) + 1 /\ \A i \in 1..Len(s(k - 1)) : s(k)[i] = s(k - 1)[i]
    <3> HIDE DEF s
    <3> QED BY <2>4, <2>3, <1>0
  <2>6. FlattenSeq(s(k)) = FlattenSeq(s(k - 1)) \o s(k)[Len(s(k))]
    <3> HIDE DEF s
    <3> QED BY <2>4, <2>5, FlattenStep
  <2>7. QED BY <2>6, <2>4, <2>2
<1> HIDE DEF s
<1>7. QED BY <1>1, <1>4, <1>5, <1>6

LEMMA StartStep ==
  ASSUME NEW item \in Items, NEW values \in Seq(Seq(Chars)), Len(values) = Len(item.children),
         NEW blanks \in BOOLEAN, NEW level \in Nat
  PROVE  /\ Start(item, values, level, blanks, 1) = Len(OpenText(item.type, blanks))
         /\ \A k \in 1..(Len(item.children) + 1) : Start(item, values, level, blanks, k) \in Nat
         /\ \A k \in 1..Len(item.children) :
              Start(item, values, level, blanks, k + 1) =
                Start(item, values, level, blanks, k) + Len(Label(item.children[k], item.type, level, blanks))
                  + Len(values[k]) + Len(After(item, k, blanks))
<1>1. OpenText(item.type, blanks) \in Seq(Chars) /\ Len(OpenText(item.type, blanks)) \in Nat
  BY PartTypes
<1>2. Len(item.children) \in Nat
  BY ItemType
<1>3. Len(Elements(item, values, level, blanks, 0)) = 0
         /\ \A k \in 0..Len(item.children) : Elements(item, values, level, blanks, k) \in Seq(Chars)
  BY ElementsTypes
<1>4. Start(item, values, level, blanks, 1) = Len(OpenText(item.type, blanks))
  BY <1>1, <1>3 DEF Start
<1>5. \A k \in 1..(Len(item.children) + 1) : Start(item, values, level, blanks, k) \in Nat
  <2> TAKE k \in 1..(Len(item.children) + 1)
  <2>1. k - 1 \in 0..Len(item.children)
    BY <1>2
  <2>2. Len(Elements(item, values, level, blanks, k - 1)) \in Nat
    BY <2>1, <1>3
  <2>3. QED BY <2>2, <1>1 DEF Start
<1>6. ASSUME NEW k \in 1..Len(item.children)
      PROVE  Start(item, values, level, blanks, k + 1) =
                Start(item, values, level, blanks, k) + Len(Label(item.children[k], item.type, level, blanks))
                  + Len(values[k]) + Len(After(item, k, blanks))
  <2>1. k - 1 \in 0..Len(item.children) /\ (k + 1) - 1 = k
    BY <1>2
  <2> DEFINE e == Elements(item, values, level, blanks, k - 1)
             q == Piece(item, values, level, blanks, k)
  <2>2. e \in Seq(Chars) /\ q \in Seq(Chars)
    BY <2>1, <1>3, PieceTypes
  <2>3. Elements(item, values, level, blanks, k) = e \o q
    BY ElementsTypes
  <2>4. Start(item, values, level, blanks, k + 1) = Len(OpenText(item.type, blanks)) + Len(e \o q)
          /\ Start(item, values, level, blanks, k) = Len(OpenText(item.type, blanks)) + Len(e)
    BY <2>3, <2>1 DEF Start
  <2>5. Len(e \o q) = Len(e) + Len(q) /\ Len(e) \in Nat
    <3> HIDE DEF e, q
    <3> QED BY <2>2, Concat
  <2>6. /\ Len(q) = Len(Label(item.children[k], item.type, level, blanks)) + Len(values[k]) + Len(After(item, k, blanks))
        /\ Len(Label(item.children[k], item.type, level, blanks)) \in Nat
        /\ Len(values[k]) \in Nat /\ Len(After(item, k, blanks)) \in Nat
    <3>1. \A x \in Seq(Chars) : Len(x) \in Nat
      OBVIOUS
    <3>2. values[k] \in Seq(Chars) /\ Label(item.children[k], item.type, level, blanks) \in Seq(Chars)
            /\ After(item, k, blanks) \in Seq(Chars)
      BY PieceTypes, LabelTypes
    <3>3. QED BY <3>1, <3>2, PieceTypes, Zenon
  <2> DEFINE l1 == Len(Label(item.children[k], item.type, level, blanks))
             l2 == Len(values[k])
             l3 == Len(After(item, k, blanks))
             o == Len(OpenText(item.type, blanks))
  <2>7. Len(q) = l1 + l2 + l3 /\ l1 \in Nat /\ l2 \in Nat /\ l3 \in Nat /\ o \in Nat
    BY <2>6, <1>1
  <2>8. Start(item, values, level, blanks, k + 1) = o + (Len(e) + Len(q)) /\ Start(item, values, level, blanks, k) = o + Len(e)
    BY <2>4, <2>5
  <2> HIDE DEF e, q, l1, l2, l3, o
  <2>9. Start(item, values, level, blanks, k + 1) = Start(item, values, level, blanks, k) + l1 + l2 + l3
    BY <2>7, <2>8, <2>5
  <2>10. QED BY <2>9 DEF l1, l2, l3
<1>7. QED BY <1>4, <1>5, <1>6

LEMMA SpelledType ==
  ASSUME NEW item \in Items, NEW values \in Seq(Seq(Chars)), Len(values) = Len(item.children),
         NEW blanks \in BOOLEAN, NEW level \in Nat
  PROVE  SpelledWith(item, values, level, blanks) \in Seq(Chars)
<1> DEFINE n == Len(item.children)
           a == OpenText(item.type, blanks)
           b == Elements(item, values, level, blanks, n)
           c == CloseText(item.type, level, blanks)
<1>1. n \in 0..n
  BY ItemType
<1>2. a \in Seq(Chars) /\ b \in Seq(Chars) /\ c \in Seq(Chars)
  BY <1>1, ElementsTypes, PartTypes
<1>3. a \o b \o c \in Seq(Chars)
  <2> HIDE DEF a, b, c
  <2> QED BY <1>2, Concat
<1>4. QED BY <1>3, LeafType DEF SpelledWith

\* The text of an item is spelled with those of its children.
ValuesOf(item, level, blanks) == [i \in DOMAIN item.children |-> Text(item.children[i], level + 1, blanks)]

LEMMA SpellingEquation ==
  ASSUME NEW blanks \in BOOLEAN
  PROVE  /\ \A n \in 0..Nesting, item \in Items : Spelling(blanks)[<<n, item>>] \in Seq(Chars)
         /\ \A n \in 1..Nesting, item \in Items :
              Spelling(blanks)[<<n, item>>] =
                SpelledWith(item, [i \in DOMAIN item.children |-> Spelling(blanks)[<<n - 1, item.children[i]>>]],
                            Nesting - n, blanks)
<1> DEFINE Places == (0..Nesting) \X Items
           S == [Items -> Seq(Chars)]
           Next(n, f) == [item \in Items |->
                            SpelledWith(item, [i \in DOMAIN item.children |-> f[item.children[i]]], Nesting - n, blanks)]
           step == [n \in 1..Nesting |-> [f \in S |-> Next(n, f)]]
           first == [item \in Items |-> << >>]
           Body(f) == [place \in Places |->
                         IF place[1] = 0 THEN << >>
                         ELSE SpelledWith(place[2],
                                [i \in DOMAIN place[2].children |-> f[<<place[1] - 1, place[2].children[i]>>]],
                                Nesting - place[1], blanks)]
<1>0. Nesting \in Nat
  BY PrintAssumption DEF JsonPrintAssumption
<1>1. ASSUME NEW n \in 1..Nesting, NEW f \in S PROVE Next(n, f) \in S
  <2>1. ASSUME NEW item \in Items
        PROVE  SpelledWith(item, [i \in DOMAIN item.children |-> f[item.children[i]]], Nesting - n, blanks) \in Seq(Chars)
    <3> DEFINE values == [i \in DOMAIN item.children |-> f[item.children[i]]]
    <3>1. values \in Seq(Seq(Chars)) /\ Len(values) = Len(item.children)
      <4>1. DOMAIN item.children = 1..Len(item.children) /\ Len(item.children) \in Nat
              /\ \A i \in 1..Len(item.children) : item.children[i] \in Items
        BY ItemType
      <4>2. \A i \in 1..Len(item.children) : f[item.children[i]] \in Seq(Chars)
        BY <4>1
      <4>3. QED BY <4>1, <4>2
    <3>2. Nesting - n \in Nat
      BY <1>0
    <3> HIDE DEF values
    <3>3. QED BY <3>1, <3>2, SpelledType DEF values
  <2>2. QED BY <2>1
<1>2. step \in Steps(Nesting, S)
  <2> HIDE DEF Next, S
  <2> QED BY <1>1 DEF Steps
<1>3. first \in S
  BY ShortTypes
<1>4. PICK r : r \in RunsOf(Nesting, S, first, step)
  <2> HIDE DEF S, step, first
  <2> QED BY <1>0, <1>2, <1>3, Recursion
<1>5. r \in [0..Nesting -> S] /\ r[0] = first /\ \A n \in 1..Nesting : r[n] = Next(n, r[n - 1])
  <2>1. r \in [0..Nesting -> S] /\ r[0] = first /\ \A n \in 1..Nesting : r[n] = step[n][r[n - 1]]
    <3> HIDE DEF S, step, first
    <3> QED BY <1>4 DEF RunsOf
  <2>2. \A n \in 1..Nesting : r[n - 1] \in S
    <3> HIDE DEF S, step, first
    <3> QED BY <2>1, <1>0
  <2>3. \A n \in 1..Nesting, f \in S : step[n][f] = Next(n, f)
    <3> HIDE DEF S, Next
    <3> QED OBVIOUS
  <2> HIDE DEF S, step, first, Next
  <2>4. QED BY <2>1, <2>2, <2>3
<1> DEFINE g == [place \in Places |-> r[place[1]][place[2]]]
<1>6. g = Body(g)
  <2>1. ASSUME NEW place \in Places PROVE g[place] = Body(g)[place]
    <3>1. PICK n \in 0..Nesting, item \in Items : place = <<n, item>>
      OBVIOUS
    <3>2. g[place] = r[n][item]
      BY <3>1
    <3>3. CASE n = 0
      <4>1. r[n][item] = << >>
        BY <3>3, <1>5
      <4>2. Body(g)[place] = << >>
        BY <3>1, <3>3
      <4>3. QED BY <4>1, <4>2, <3>2
    <3>4. CASE n # 0
      <4>1. n \in 1..Nesting /\ n - 1 \in 0..Nesting
        BY <3>4, <1>0
      <4>2. r[n][item] = SpelledWith(item, [i \in DOMAIN item.children |-> r[n - 1][item.children[i]]], Nesting - n, blanks)
        BY <4>1, <1>5
      <4>3. \A i \in DOMAIN item.children : g[<<n - 1, item.children[i]>>] = r[n - 1][item.children[i]]
        <5>1. \A i \in DOMAIN item.children : item.children[i] \in Items
          BY ItemType
        <5>2. QED BY <4>1, <5>1
      <4> HIDE DEF g
      <4>4. [i \in DOMAIN item.children |-> r[n - 1][item.children[i]]]
              = [i \in DOMAIN item.children |-> g[<<n - 1, item.children[i]>>]]
        BY <4>3
      <4>5. Body(g)[place] = SpelledWith(item, [i \in DOMAIN item.children |-> g[<<n - 1, item.children[i]>>]], Nesting - n, blanks)
        BY <3>1, <3>4
      <4>6. QED BY <4>2, <4>4, <4>5, <3>2
    <3>5. QED BY <3>3, <3>4
  <2>2. g = [place \in Places |-> g[place]] /\ Body(g) = [place \in Places |-> Body(g)[place]]
    OBVIOUS
  <2> HIDE DEF g, Body
  <2>3. [place \in Places |-> g[place]] = [place \in Places |-> Body(g)[place]]
    BY <2>1
  <2>4. QED BY <2>2, <2>3
<1> DEFINE spell == CHOOSE f : f = Body(f)
<1>7. spell = Body(spell)
  <2> HIDE DEF g, Body
  <2> QED BY <1>6
<1>8. Spelling(blanks) = spell
  BY DEF Spelling
<1> HIDE DEF spell
<1>9. ASSUME NEW n \in 0..Nesting, NEW item \in Items
      PROVE  spell[<<n, item>>] = IF n = 0 THEN << >>
               ELSE SpelledWith(item, [i \in DOMAIN item.children |-> spell[<<n - 1, item.children[i]>>]], Nesting - n, blanks)
  <2>1. Body(spell)[<<n, item>>] = IF n = 0 THEN << >>
               ELSE SpelledWith(item, [i \in DOMAIN item.children |-> spell[<<n - 1, item.children[i]>>]], Nesting - n, blanks)
    OBVIOUS
  <2> HIDE DEF Body
  <2>2. QED BY <2>1, <1>7
<1> DEFINE Bad == {n \in 0..Nesting : \E item \in Items : spell[<<n, item>>] \notin Seq(Chars)}
<1>10. Bad = {}
  <2>1. ASSUME NEW n \in Bad PROVE \E m \in Bad : m < n
    <3>1. PICK item \in Items : spell[<<n, item>>] \notin Seq(Chars)
      OBVIOUS
    <3>2. n \in 0..Nesting /\ n # 0
      BY <3>1, <1>9, ShortTypes
    <3> DEFINE values == [i \in DOMAIN item.children |-> spell[<<n - 1, item.children[i]>>]]
    <3>3. spell[<<n, item>>] = SpelledWith(item, values, Nesting - n, blanks)
      BY <3>2, <1>9
    <3>4. ASSUME n - 1 \notin Bad PROVE FALSE
      <4>1. n - 1 \in 0..Nesting
        BY <3>2, <1>0
      <4>2. \A x \in Items : spell[<<n - 1, x>>] \in Seq(Chars)
        BY <4>1, <3>4
      <4>3. DOMAIN item.children = 1..Len(item.children) /\ Len(item.children) \in Nat
              /\ \A i \in 1..Len(item.children) : item.children[i] \in Items
        BY ItemType
      <4>4. values \in Seq(Seq(Chars)) /\ Len(values) = Len(item.children)
        BY <4>2, <4>3
      <4>5. Nesting - n \in Nat
        BY <3>2, <1>0
      <4> HIDE DEF values
      <4>6. QED BY <4>4, <4>5, <3>3, <3>1, SpelledType
    <3>5. QED BY <3>2, <3>4
  <2>2. Bad \in SUBSET Nat
    OBVIOUS
  <2> HIDE DEF Bad
  <2>3. QED BY <2>1, <2>2, NoLeast
<1>11. \A n \in 1..Nesting : n \in 0..Nesting /\ n # 0
  BY <1>0
<1>12. QED BY <1>8, <1>9, <1>10, <1>11

\* An item whose tree fits below a level has a text there, and so have its children.
Fits(item, level) == item \in Items /\ level \in Nat /\ Height[item] + level <= Nesting

LEMMA ChildrenFit ==
  ASSUME NEW item, NEW level, Fits(item, level), NEW i \in 1..Len(item.children)
  PROVE  Fits(item.children[i], level + 1)
BY ItemType DEF Fits

LEMMA TextOfItem ==
  ASSUME NEW item, NEW level, Fits(item, level), NEW blanks \in BOOLEAN
  PROVE  /\ Text(item, level, blanks) \in Seq(Chars)
         /\ ValuesOf(item, level, blanks) \in Seq(Seq(Chars))
         /\ Len(ValuesOf(item, level, blanks)) = Len(item.children)
         /\ Text(item, level, blanks) = SpelledWith(item, ValuesOf(item, level, blanks), level, blanks)
<1>1. item \in Items /\ Nesting - level \in 1..Nesting /\ Nesting - level \in 0..Nesting /\ level \in Nat
        /\ Nesting - (Nesting - level) = level
        /\ (Nesting - level) - 1 = Nesting - (level + 1) /\ (Nesting - level) - 1 \in 0..Nesting
  BY ItemType DEF Fits
<1>2. Text(item, level, blanks) \in Seq(Chars)
  BY <1>1, SpellingEquation DEF Text
<1>3. DOMAIN item.children = 1..Len(item.children) /\ Len(item.children) \in Nat
              /\ \A i \in 1..Len(item.children) : item.children[i] \in Items
  BY <1>1, ItemType
<1>4. \A i \in 1..Len(item.children) : Text(item.children[i], level + 1, blanks) \in Seq(Chars)
  BY <1>1, <1>3, SpellingEquation DEF Text
<1>5. ValuesOf(item, level, blanks) \in Seq(Seq(Chars)) /\ Len(ValuesOf(item, level, blanks)) = Len(item.children)
  BY <1>3, <1>4 DEF ValuesOf
<1>6. [i \in DOMAIN item.children |-> Spelling(blanks)[<<(Nesting - level) - 1, item.children[i]>>]]
        = ValuesOf(item, level, blanks)
  BY <1>1 DEF ValuesOf, Text
<1>7. Spelling(blanks)[<<Nesting - level, item>>] =
        SpelledWith(item, [i \in DOMAIN item.children |-> Spelling(blanks)[<<(Nesting - level) - 1, item.children[i]>>]],
                    Nesting - (Nesting - level), blanks)
  BY <1>1, SpellingEquation
<1>8. Text(item, level, blanks) = SpelledWith(item, ValuesOf(item, level, blanks), level, blanks)
  BY <1>1, <1>6, <1>7 DEF Text
<1>9. QED BY <1>2, <1>5, <1>8

\* An item is valid if it is not marked as invalid and, in an array or an object,
\* its children are valid.
LEMMA ValidItem ==
  ASSUME NEW item, NEW level, Fits(item, level)
  PROVE  Valid(item, level) <=> /\ item.type # "invalid"
                                /\ item.type \in {"array", "object"} =>
                                     \A i \in 1..Len(item.children) : Valid(item.children[i], level + 1)
<1> DEFINE Holders == {"array", "object"}
           Places == (0..Nesting) \X Items
           S == [Items -> BOOLEAN]
           Next(n, f) == [x \in Items |-> x.type # "invalid" /\ (x.type \in Holders => \A i \in DOMAIN x.children : f[x.children[i]])]
           step == [n \in 1..Nesting |-> [f \in S |-> Next(n, f)]]
           first == [x \in Items |-> TRUE]
           Body(f) == [place \in Places |->
                         place[1] > 0 => /\ place[2].type # "invalid"
                                         /\ place[2].type \in Holders =>
                                              \A i \in DOMAIN place[2].children :
                                                f[<<place[1] - 1, place[2].children[i]>>]]
<1>0. Nesting \in Nat
  BY PrintAssumption DEF JsonPrintAssumption
<1>1. ASSUME NEW n \in 1..Nesting, NEW f \in S PROVE Next(n, f) \in S
  OBVIOUS
<1>2. step \in Steps(Nesting, S)
  <2> HIDE DEF Next, S
  <2> QED BY <1>1 DEF Steps
<1>3. first \in S
  OBVIOUS
<1>4. PICK r : r \in RunsOf(Nesting, S, first, step)
  <2> HIDE DEF S, step, first
  <2> QED BY <1>0, <1>2, <1>3, Recursion
<1>5. r \in [0..Nesting -> S] /\ r[0] = first /\ \A n \in 1..Nesting : r[n] = Next(n, r[n - 1])
  <2>1. r \in [0..Nesting -> S] /\ r[0] = first /\ \A n \in 1..Nesting : r[n] = step[n][r[n - 1]]
    <3> HIDE DEF S, step, first
    <3> QED BY <1>4 DEF RunsOf
  <2>2. \A n \in 1..Nesting : r[n - 1] \in S
    <3> HIDE DEF S, step, first
    <3> QED BY <2>1, <1>0
  <2>3. \A n \in 1..Nesting, f \in S : step[n][f] = Next(n, f)
    <3> HIDE DEF S, Next
    <3> QED OBVIOUS
  <2> HIDE DEF S, step, first, Next
  <2>4. QED BY <2>1, <2>2, <2>3
<1> DEFINE g == [place \in Places |-> r[place[1]][place[2]]]
<1>6. g = Body(g)
  <2>1. ASSUME NEW place \in Places PROVE g[place] = Body(g)[place]
    <3>1. PICK n \in 0..Nesting, x \in Items : place = <<n, x>>
      OBVIOUS
    <3>2. g[place] = r[n][x] /\ r[n][x] \in BOOLEAN
      <4>1. r[n] \in S
        <5> HIDE DEF S
        <5> QED BY <1>5
      <4>2. QED BY <3>1, <4>1
    <3>3. CASE n = 0
      <4>1. r[n][x] = TRUE
        BY <3>3, <1>5
      <4> DEFINE R == x.type # "invalid" /\ (x.type \in Holders => \A i \in DOMAIN x.children : g[<<n - 1, x.children[i]>>])
      <4> HIDE DEF g
      <4>2. Body(g)[place] = (n > 0 => R)
        BY <3>1
      <4>2a. Body(g)[place] = TRUE
        <5> HIDE DEF R, Body
        <5>1. ~ (n > 0)
          BY <3>3
        <5>2. QED BY <4>2, <5>1, Zenon
      <4>3. QED BY <4>1, <4>2a, <3>2
    <3>4. CASE n # 0
      <4>1. n \in 1..Nesting /\ n - 1 \in 0..Nesting
        BY <3>4, <1>0
      <4>2. r[n][x] = (x.type # "invalid" /\ (x.type \in Holders => \A i \in DOMAIN x.children : r[n - 1][x.children[i]]))
        <5>1. r[n] = Next(n, r[n - 1])
          BY <4>1, <1>5
        <5>2. QED BY <5>1
      <4>3. \A i \in DOMAIN x.children : g[<<n - 1, x.children[i]>>] = r[n - 1][x.children[i]]
        <5>1. \A i \in DOMAIN x.children : x.children[i] \in Items
          BY ItemType
        <5>2. QED BY <4>1, <5>1
      <4> HIDE DEF g
      <4> DEFINE R == x.type # "invalid" /\ (x.type \in Holders => \A i \in DOMAIN x.children : g[<<n - 1, x.children[i]>>])
      <4>4a. Body(g)[place] = (n > 0 => R)
        BY <3>1
      <4>4. Body(g)[place] = R
        <5> HIDE DEF R, Body
        <5>1. n > 0 /\ R \in BOOLEAN
          BY <4>1 DEF R
        <5>2. QED BY <4>4a, <5>1, Zenon
      <4>5. QED BY <4>2, <4>3, <4>4, <3>2
    <3>5. QED BY <3>3, <3>4
  <2>2. g = [place \in Places |-> g[place]] /\ Body(g) = [place \in Places |-> Body(g)[place]]
    OBVIOUS
  <2> HIDE DEF g, Body
  <2>3. [place \in Places |-> g[place]] = [place \in Places |-> Body(g)[place]]
    BY <2>1
  <2>4. QED BY <2>2, <2>3
<1> DEFINE valid == CHOOSE f : f = Body(f)
<1>7. valid = Body(valid)
  <2> HIDE DEF g, Body
  <2> QED BY <1>6
<1>8. \A x, l : Valid(x, l) = valid[<<Nesting - l, x>>]
  BY DEF Valid
<1> HIDE DEF valid
<1>9. ASSUME NEW n \in 1..Nesting, NEW x \in Items
      PROVE  valid[<<n, x>>] = (x.type # "invalid" /\ (x.type \in Holders => \A i \in DOMAIN x.children : valid[<<n - 1, x.children[i]>>]))
  <2>1. Body(valid)[<<n, x>>] = (x.type # "invalid" /\ (x.type \in Holders => \A i \in DOMAIN x.children : valid[<<n - 1, x.children[i]>>]))
    BY <1>0
  <2> HIDE DEF Body
  <2>2. QED BY <2>1, <1>7
<1>10. item \in Items /\ Nesting - level \in 1..Nesting /\ (Nesting - level) - 1 = Nesting - (level + 1)
         /\ DOMAIN item.children = 1..Len(item.children)
  BY ItemType DEF Fits
<1>11. QED BY <1>8, <1>9, <1>10

-----------------------------------------------------------------------------
(* Texts inside a text.                                                    *)

\* The text s stands in w behind the first p characters.
Occurs(s, w, p) == p + Len(s) <= Len(w) /\ \A j \in 1..Len(s) : w[p + j] = s[j]

LEMMA OccursConcat ==
  ASSUME NEW a \in Seq(Chars), NEW b \in Seq(Chars), NEW w \in Seq(Chars), NEW p \in Nat
  PROVE  Occurs(a \o b, w, p) <=> Occurs(a, w, p) /\ Occurs(b, w, p + Len(a))
<1>1. Len(a) \in Nat /\ Len(b) \in Nat /\ Len(w) \in Nat /\ Len(a \o b) = Len(a) + Len(b)
  OBVIOUS
<1>2. \A j \in 1..Len(a) : (a \o b)[j] = a[j]
  OBVIOUS
<1>3. \A j \in 1..Len(b) : (a \o b)[Len(a) + j] = b[j]
  OBVIOUS
<1>4. ASSUME Occurs(a \o b, w, p) PROVE Occurs(a, w, p) /\ Occurs(b, w, p + Len(a))
  <2>1. \A j \in 1..(Len(a) + Len(b)) : w[p + j] = (a \o b)[j]
    BY <1>1, <1>4 DEF Occurs
  <2>2. p + (Len(a) + Len(b)) <= Len(w)
    BY <1>1, <1>4 DEF Occurs
  <2>3. \A j \in 1..Len(a) : w[p + j] = a[j]
    BY <2>1, <1>1, <1>2
  <2>4. ASSUME NEW j \in 1..Len(b) PROVE w[(p + Len(a)) + j] = b[j]
    <3>1. Len(a) + j \in 1..(Len(a) + Len(b)) /\ p + (Len(a) + j) = (p + Len(a)) + j
      BY <1>1
    <3>2. w[p + (Len(a) + j)] = (a \o b)[Len(a) + j]
      BY <2>1, <3>1
    <3>3. QED BY <3>1, <3>2, <1>3
  <2>5. QED BY <1>1, <2>2, <2>3, <2>4 DEF Occurs
<1>5. ASSUME Occurs(a, w, p), Occurs(b, w, p + Len(a)) PROVE Occurs(a \o b, w, p)
  <2>1. \A j \in 1..Len(a) : w[p + j] = a[j]
    BY <1>5 DEF Occurs
  <2>2. \A j \in 1..Len(b) : w[(p + Len(a)) + j] = b[j]
    BY <1>5 DEF Occurs
  <2>3. ASSUME NEW j \in 1..(Len(a) + Len(b)) PROVE w[p + j] = (a \o b)[j]
    <3>1. CASE j <= Len(a)
      BY <3>1, <2>1, <1>2, <1>1
    <3>2. CASE j > Len(a)
      <4>1. j - Len(a) \in 1..Len(b) /\ (p + Len(a)) + (j - Len(a)) = p + j /\ Len(a) + (j - Len(a)) = j
        BY <3>2, <1>1
      <4>2. QED BY <4>1, <2>2, <1>3
    <3>3. QED BY <3>1, <3>2, <1>1
  <2>4. p + (Len(a) + Len(b)) <= Len(w)
    BY <1>5, <1>1 DEF Occurs
  <2>5. QED BY <2>3, <2>4, <1>1 DEF Occurs
<1>6. QED BY <1>4, <1>5

\* Where a list's or an object's text stands, its parts stand one after the other.
LEMMA PartsOccur ==
  ASSUME NEW item \in Items, item.type \in {"array", "object"}, NEW blanks \in BOOLEAN, NEW level \in Nat,
         NEW values \in Seq(Seq(Chars)), Len(values) = Len(item.children),
         NEW w \in Seq(Chars), NEW p \in Nat, Occurs(SpelledWith(item, values, level, blanks), w, p)
  PROVE  /\ Occurs(OpenText(item.type, blanks), w, p)
         /\ \A k \in 1..Len(item.children) :
              LET q == p + Start(item, values, level, blanks, k)
                  l == Label(item.children[k], item.type, level, blanks)
              IN  /\ Occurs(l, w, q) /\ Occurs(values[k], w, q + Len(l))
                  /\ Occurs(After(item, k, blanks), w, q + Len(l) + Len(values[k]))
         /\ Occurs(CloseText(item.type, level, blanks), w, p + Start(item, values, level, blanks, Len(item.children) + 1))
         /\ Len(SpelledWith(item, values, level, blanks)) =
              Start(item, values, level, blanks, Len(item.children) + 1) + Len(CloseText(item.type, level, blanks))
<1> DEFINE n == Len(item.children)
           a == OpenText(item.type, blanks)
           e(k) == Elements(item, values, level, blanks, k)
           c == CloseText(item.type, level, blanks)
           q(k) == p + Start(item, values, level, blanks, k)
<1>0. n \in Nat /\ Len(w) \in Nat
  BY ItemType
<1>1. a \in Seq(Chars) /\ Len(a) \in Nat /\ c \in Seq(Chars) /\ Len(c) \in Nat /\ \A k \in 0..n : e(k) \in Seq(Chars)
  <2>1. a \in Seq(Chars) /\ c \in Seq(Chars)
    BY PartTypes
  <2>2. \A k \in 0..n : e(k) \in Seq(Chars)
    BY ElementsTypes
  <2> HIDE DEF a, c, e, n
  <2>3. QED BY <2>1, <2>2
<1>2. \A k \in 1..(n + 1) : q(k) \in Nat /\ q(k) = p + Len(a) + Len(e(k - 1)) /\ Len(e(k - 1)) \in Nat
  <2> TAKE k \in 1..(n + 1)
  <2>1. k - 1 \in 0..n
    BY <1>0
  <2>2. e(k - 1) \in Seq(Chars)
    <3> HIDE DEF e, n
    <3> QED BY <2>1, <1>1
  <2>3. Len(e(k - 1)) \in Nat
    <3> HIDE DEF e, n
    <3> QED BY <2>2
  <2>4. q(k) = p + (Len(a) + Len(e(k - 1)))
    BY DEF Start
  <2> HIDE DEF q, a, e, n
  <2>5. QED BY <2>3, <2>4, <1>1
<1>3. SpelledWith(item, values, level, blanks) = a \o e(n) \o c
  BY DEF SpelledWith
<1>4. n \in 0..n /\ n + 1 \in 1..(n + 1) /\ (n + 1) - 1 = n
  BY <1>0
<1>5. Occurs(a, w, p) /\ Occurs(e(n), w, p + Len(a)) /\ Occurs(c, w, q(n + 1))
        /\ Len(a \o e(n) \o c) = Len(a) + Len(e(n)) + Len(c)
  <2> HIDE DEF a, e, c, q, n
  <2>1. e(n) \in Seq(Chars) /\ Len(e(n)) \in Nat /\ a \o e(n) \in Seq(Chars) /\ Len(a \o e(n)) = Len(a) + Len(e(n))
    BY <1>1, <1>4, Concat
  <2>2. Occurs(a \o e(n), w, p) /\ Occurs(c, w, p + Len(a \o e(n)))
    BY <1>1, <1>3, <2>1, OccursConcat
  <2>3. Occurs(a, w, p) /\ Occurs(e(n), w, p + Len(a))
    BY <2>1, <2>2, <1>1, OccursConcat
  <2>4. q(n + 1) = p + Len(a \o e(n))
    BY <2>1, <1>2, <1>4, <1>1
  <2>5. Len(a \o e(n) \o c) = Len(a) + Len(e(n)) + Len(c)
    BY <2>1, <1>1, Concat
  <2>6. QED BY <2>2, <2>3, <2>4, <2>5
<1>6. \A k \in 0..n : Occurs(e(k), w, p + Len(a))
  <2> DEFINE Bad == {m \in 0..n : ~ Occurs(e(n - m), w, p + Len(a))}
  <2>1. ASSUME NEW m \in Bad PROVE \E x \in Bad : x < m
    <3>0. m \in 0..n /\ ~ Occurs(e(n - m), w, p + Len(a))
      OBVIOUS
    <3>1. m # 0
      <4> HIDE DEF e, n, a
      <4> QED BY <3>0, <1>5, <1>0
    <3>2. n - m \in 0..n /\ n - m + 1 \in 1..n /\ n - (m - 1) = n - m + 1 /\ (n - m + 1) - 1 = n - m /\ m - 1 \in 0..n /\ m - 1 < m
      BY <3>0, <3>1, <1>0
    <3>3. e(n - m + 1) = e(n - m) \o Piece(item, values, level, blanks, n - m + 1)
      <4>1. \A k \in 1..n : e(k) = e(k - 1) \o Piece(item, values, level, blanks, k)
        BY ElementsTypes
      <4> HIDE DEF e, n
      <4>2. QED BY <3>2, <4>1
    <3>4. ~ Occurs(e(n - m + 1), w, p + Len(a))
      <4>1. e(n - m) \in Seq(Chars) /\ Piece(item, values, level, blanks, n - m + 1) \in Seq(Chars)
        <5>1. Piece(item, values, level, blanks, n - m + 1) \in Seq(Chars)
          BY <3>2, PieceTypes
        <5> HIDE DEF e, n
        <5>2. QED BY <5>1, <3>2, <1>1
      <4> DEFINE x == e(n - m)
                 y == Piece(item, values, level, blanks, n - m + 1)
      <4>2. x \in Seq(Chars) /\ y \in Seq(Chars) /\ e(n - m + 1) = x \o y /\ ~ Occurs(x, w, p + Len(a))
        <5> HIDE DEF e, n, a
        <5> QED BY <4>1, <3>0, <3>3
      <4>3. p + Len(a) \in Nat
        <5> HIDE DEF a
        <5> QED BY <1>1
      <4> HIDE DEF e, n, a, x, y
      <4>4. ~ Occurs(x \o y, w, p + Len(a))
        BY <4>2, <4>3, OccursConcat
      <4>5. QED BY <4>2, <4>4
    <3>5. m - 1 \in Bad
      <4> HIDE DEF e, n, a
      <4> QED BY <3>4, <3>2
    <3>6. QED BY <3>5, <3>2
  <2>2. Bad \in SUBSET Nat
    OBVIOUS
  <2>3. Bad = {}
    <3> HIDE DEF Bad
    <3> QED BY <2>1, <2>2, NoLeast
  <2> TAKE k \in 0..n
  <2>4. n - k \in 0..n /\ n - (n - k) = k
    BY <1>0
  <2> HIDE DEF e, n, a
  <2>5. QED BY <2>3, <2>4
<1>7. ASSUME NEW k \in 1..n
      PROVE  LET l == Label(item.children[k], item.type, level, blanks)
             IN  /\ Occurs(l, w, q(k)) /\ Occurs(values[k], w, q(k) + Len(l))
                 /\ Occurs(After(item, k, blanks), w, q(k) + Len(l) + Len(values[k]))
  <2> DEFINE l == Label(item.children[k], item.type, level, blanks)
             v == values[k]
             t == After(item, k, blanks)
  <2>1. k - 1 \in 0..n /\ k \in 0..n /\ k \in 1..(n + 1)
    BY <1>0
  <2>2. l \in Seq(Chars) /\ v \in Seq(Chars) /\ t \in Seq(Chars)
    BY LabelTypes, PieceTypes
  <2>3. e(k) = e(k - 1) \o (l \o v \o t)
    BY ElementsTypes DEF Piece
  <2>4. Occurs(e(k), w, p + Len(a)) /\ e(k - 1) \in Seq(Chars) /\ q(k) = (p + Len(a)) + Len(e(k - 1)) /\ q(k) \in Nat
    <3> HIDE DEF e, n, a, q
    <3> QED BY <2>1, <1>6, <1>1, <1>2
  <2> HIDE DEF l, v, t, e, n, a, q
  <2>5. l \o v \in Seq(Chars) /\ l \o v \o t \in Seq(Chars) /\ Len(l \o v) = Len(l) + Len(v) /\ Len(l) \in Nat /\ Len(v) \in Nat
    BY <2>2, Concat
  <2>6. Occurs(l \o v \o t, w, q(k))
    <3>1. p + Len(a) \in Nat
      BY <1>1
    <3> DEFINE x == e(k - 1)
               y == l \o v \o t
    <3>2. x \in Seq(Chars) /\ y \in Seq(Chars) /\ Occurs(x \o y, w, p + Len(a)) /\ q(k) = (p + Len(a)) + Len(x)
      BY <2>3, <2>4, <2>5
    <3> HIDE DEF x, y
    <3>3. Occurs(y, w, (p + Len(a)) + Len(x))
      BY <3>1, <3>2, OccursConcat
    <3>4. QED BY <3>2, <3>3 DEF y
  <2>7. Occurs(l \o v, w, q(k)) /\ Occurs(t, w, q(k) + Len(l \o v))
    BY <2>2, <2>4, <2>5, <2>6, OccursConcat
  <2>8. Occurs(l, w, q(k)) /\ Occurs(v, w, q(k) + Len(l))
    BY <2>2, <2>4, <2>7, OccursConcat
  <2>9. q(k) + Len(l \o v) = q(k) + Len(l) + Len(v)
    BY <2>4, <2>5
  <2>10. QED BY <2>7, <2>8, <2>9 DEF l, v, t
<1>8. Len(SpelledWith(item, values, level, blanks)) = Start(item, values, level, blanks, n + 1) + Len(c)
  <2>1. Start(item, values, level, blanks, n + 1) = Len(a) + Len(e(n))
    BY <1>4 DEF Start
  <2> HIDE DEF a, e, c, n
  <2>2. QED BY <2>1, <1>3, <1>5
<1>9. QED BY <1>5, <1>7, <1>8

-----------------------------------------------------------------------------
(* The invariant.                                                          *)

\* Of the arrays and objects open, s: what the i-th is, its current child, where
\* in the text this child's part begins, and where its value.
HolderIn(s, i) == s[i - 1].items[s[i - 1].next]
CurrentIn(s, i) == s[i].items[s[i].next]
StartIn(s, blanks, i, k) ==
  IF i = 1 THEN 0 ELSE Start(HolderIn(s, i), ValuesOf(HolderIn(s, i), i - 2, blanks), i - 2, blanks, k)
ElementIn(s, blanks, i) == s[i].from + StartIn(s, blanks, i, s[i].next)
LabelIn(s, blanks, i) == IF i = 1 THEN << >> ELSE Label(CurrentIn(s, i), s[i].kind, i - 2, blanks)
ValueIn(s, blanks, i) == ElementIn(s, blanks, i) + Len(LabelIn(s, blanks, i))
TextIn(s, blanks, i) == Text(CurrentIn(s, i), i - 1, blanks)
CloseIn(s, blanks, i) == s[i].from + StartIn(s, blanks, i, Len(s[i].items) + 1)

\* Each array or object that is open is the current child of the one around it,
\* and its text stands in the whole text w where its printing began.
Frame == [kind : {"root", "array", "object"}, items : Seq(Items), next : Nat \ {0}, from : Nat]
Nested(s, blanks, w, i) ==
  LET holder == HolderIn(s, i)
  IN  /\ Fits(holder, i - 2) /\ holder.type \in {"array", "object"}
      /\ s[i].kind = holder.type /\ s[i].items = holder.children
      /\ s[i].from = ValueIn(s, blanks, i - 1)
      /\ Occurs(Text(holder, i - 2, blanks), w, s[i].from)
Stacked(s, blanks, w) ==
  /\ s \in Seq(Frame) /\ Len(s) >= 1
  /\ s[1].kind = "root" /\ Len(s[1].items) = 1 /\ s[1].next = 1 /\ s[1].from = 0
  /\ w = Text(s[1].items[1], 0, blanks)
  /\ \A i \in 2..Len(s) : Nested(s, blanks, w, i)
  /\ \A i \in 1..(Len(s) - 1) : s[i].next <= Len(s[i].items)
  /\ \A i \in 1..Len(s) : \A j \in 1..Len(s[i].items) : j < s[i].next => Valid(s[i].items[j], i - 1)

Running == printing \in {"start", "value", "indent", "key", "colon", "printed", "separate", "close"}
InChild == Top.next <= Len(Top.items)

\* Up to e, the buffer holds the text.
Solid(b, w, e) == e \in Nat /\ e <= Len(b) /\ \A j \in 1..e : b[j] = w[j]

\* Where the printer is in the text.
Placed ==
  LET t   == Len(stack)
      end == ValueIn(stack, format, t) + Len(TextIn(stack, format, t))
  IN  CASE printing = "start"  -> t = 1 /\ offset = 0
        [] printing = "value"  -> InChild /\ offset = ValueIn(stack, format, t)
        [] printing = "indent" -> InChild /\ Top.kind = "object" /\ offset = ElementIn(stack, format, t)
        [] printing = "key"    ->
             InChild /\ Top.kind = "object" /\ offset = ElementIn(stack, format, t) + Len(Tabs(t - 1, format))
        [] printing = "colon"  ->
             /\ InChild /\ Top.kind = "object"
             /\ offset = ElementIn(stack, format, t) + Len(Tabs(t - 1, format)) + Len(Quoted(Current.string))
        [] printing = "printed" ->
             /\ InChild /\ Valid(Current, t - 1)
             /\ offset <= end /\ end < Len(buffer) /\ Solid(buffer, Whole, end) /\ buffer[end + 1] = "zero"
        [] printing = "separate" ->
             /\ InChild /\ Valid(Current, t - 1) /\ offset = end
             /\ (Top.kind = "object" \/ (Top.kind = "array" /\ More))
        [] printing = "close"  ->
             /\ t >= 2 /\ offset = CloseIn(stack, format, t)
             /\ \A j \in 1..Len(Top.items) : Valid(Top.items[j], t - 1)

PrintsOn ==
  /\ buffer \in Seq(Bytes) /\ Len(buffer) <= IntMax
  /\ Solid(buffer, Whole, offset) /\ (offset < Len(buffer) \/ (offset = 0 /\ given = 0))
  /\ Len(buffer) = 0 => given = 0
  /\ noalloc => Len(buffer) = given
  /\ Stacked(stack, format, Whole) /\ Placed

Reason == Printable(Root) => refused \/ Len(Whole) + 2 > IF noalloc THEN given ELSE IntMax

BlocksCounted ==
  blocks = IF noalloc \/ printing \in {"start", "failed"} \/ buffer = NULL THEN 0 ELSE 1

PrintInv ==
  /\ call \in {"print", "buffered", "preallocated"} /\ format \in BOOLEAN /\ manual \in BOOLEAN
  /\ given \in 0..IntMax /\ (call = "print" => given # 0) /\ Len(stack) \in Nat
  /\ PrintTypeOK /\ StaysInside /\ PrintsTheText /\ BlocksCounted
  /\ Running => PrintsOn
  /\ printing = "true" => buffer \in Seq(Bytes)
  /\ printing \in {"false", "failed"} => Reason

-----------------------------------------------------------------------------
(* The stack.                                                              *)

LEMMA StackBasics ==
  ASSUME NEW s, NEW blanks \in BOOLEAN, NEW w, Stacked(s, blanks, w)
  PROVE  /\ Len(s) \in Nat /\ Len(s) >= 1 /\ s \in Seq(Frame) /\ w \in Seq(Chars)
         /\ \A i \in 1..Len(s) : /\ s[i] \in Frame /\ s[i].items \in Seq(Items) /\ Len(s[i].items) \in Nat
                                 /\ s[i].next \in Nat \ {0} /\ s[i].from \in Nat
         /\ \A i \in 1..Len(s) : s[i].next <= Len(s[i].items) => Fits(CurrentIn(s, i), i - 1)
<1>1. Len(s) \in Nat /\ Len(s) >= 1 /\ s \in Seq(Frame)
  BY DEF Stacked
<1>2. \A i \in 1..Len(s) : /\ s[i] \in Frame /\ s[i].items \in Seq(Items) /\ Len(s[i].items) \in Nat
                           /\ s[i].next \in Nat \ {0} /\ s[i].from \in Nat
  <2> TAKE i \in 1..Len(s)
  <2>1. s[i] \in Frame
    BY <1>1
  <2>2. s[i].items \in Seq(Items) /\ s[i].next \in Nat \ {0} /\ s[i].from \in Nat
    BY <2>1 DEF Frame
  <2>3. QED BY <2>1, <2>2
<1>3. Fits(CurrentIn(s, 1), 0)
  <2>1. Len(s[1].items) = 1 /\ s[1].next = 1 /\ s[1].items \in Seq(Items)
    BY <1>1, <1>2 DEF Stacked
  <2>2. s[1].items[1] \in Items
    BY <2>1
  <2>3. QED BY <2>1, <2>2, ItemType DEF CurrentIn, Fits
<1>4. w \in Seq(Chars)
  <2>1. w = Text(CurrentIn(s, 1), 0, blanks)
    BY DEF Stacked, CurrentIn
  <2>2. QED BY <2>1, <1>3, TextOfItem
<1>5. ASSUME NEW i \in 1..Len(s), s[i].next <= Len(s[i].items) PROVE Fits(CurrentIn(s, i), i - 1)
  <2>1. CASE i = 1
    BY <2>1, <1>3
  <2>2. CASE i # 1
    <3>1. i \in 2..Len(s)
      BY <2>2, <1>1
    <3> DEFINE holder == HolderIn(s, i)
    <3>2. Fits(holder, i - 2) /\ s[i].items = holder.children
      BY <3>1 DEF Stacked, Nested
    <3>3. s[i].next \in 1..Len(holder.children) /\ (i - 2) + 1 = i - 1
      BY <1>2, <1>5, <3>1, <3>2
    <3> HIDE DEF holder
    <3>4. QED BY <3>2, <3>3, ChildrenFit DEF CurrentIn
  <2>3. QED BY <2>1, <2>2
<1>6. QED BY <1>1, <1>2, <1>4, <1>5

\* Where the current child of an open array or object stands, with what is before
\* and behind it, and where the next one does.
LEMMA Where ==
  ASSUME NEW s, NEW blanks \in BOOLEAN, NEW w, Stacked(s, blanks, w), NEW i \in 1..Len(s),
         s[i].next <= Len(s[i].items)
  PROVE  /\ ElementIn(s, blanks, i) \in Nat /\ ValueIn(s, blanks, i) \in Nat
         /\ LabelIn(s, blanks, i) \in Seq(Chars) /\ TextIn(s, blanks, i) \in Seq(Chars)
         /\ ValueIn(s, blanks, i) = ElementIn(s, blanks, i) + Len(LabelIn(s, blanks, i))
         /\ Occurs(LabelIn(s, blanks, i), w, ElementIn(s, blanks, i))
         /\ Occurs(TextIn(s, blanks, i), w, ValueIn(s, blanks, i))
         /\ i >= 2 =>
              LET after == After(HolderIn(s, i), s[i].next, blanks)
                  end   == ValueIn(s, blanks, i) + Len(TextIn(s, blanks, i))
              IN  /\ after \in Seq(Chars) /\ end \in Nat /\ Occurs(after, w, end)
                  /\ s[i].from + StartIn(s, blanks, i, s[i].next + 1) = end + Len(after)
<1>0. \A x \in Seq(Chars) : Len(x) \in Nat
  OBVIOUS
<1>1. CASE i = 1
  <2>1. ElementIn(s, blanks, i) = 0 /\ ValueIn(s, blanks, i) = 0 /\ LabelIn(s, blanks, i) = << >>
    BY <1>1 DEF Stacked, ElementIn, ValueIn, LabelIn, StartIn
  <2>2. TextIn(s, blanks, i) = w /\ w \in Seq(Chars)
    BY <1>1, StackBasics DEF Stacked, TextIn, CurrentIn
  <2>3. Occurs(w, w, 0) /\ Occurs(<< >>, w, 0)
    BY <2>2 DEF Occurs
  <2>4. /\ ElementIn(s, blanks, i) \in Nat /\ ValueIn(s, blanks, i) \in Nat
        /\ LabelIn(s, blanks, i) \in Seq(Chars) /\ TextIn(s, blanks, i) \in Seq(Chars)
        /\ ValueIn(s, blanks, i) = ElementIn(s, blanks, i) + Len(LabelIn(s, blanks, i))
        /\ Occurs(LabelIn(s, blanks, i), w, ElementIn(s, blanks, i))
        /\ Occurs(TextIn(s, blanks, i), w, ValueIn(s, blanks, i))
    <3>1. 0 + Len(<< >>) = 0
      BY ShortTypes
    <3>2. QED BY <2>1, <2>2, <2>3, <3>1, ShortTypes
  <2>5. ~ (i >= 2)
    BY <1>1
  <2>6. QED BY <2>4, <2>5, Zenon
<1>2. CASE i # 1
  <2>1. i \in 2..Len(s) /\ i - 2 \in Nat /\ (i - 2) + 1 = i - 1
    BY <1>2, StackBasics
  <2> DEFINE holder == HolderIn(s, i)
             k == s[i].next
             values == ValuesOf(holder, i - 2, blanks)
             l == Label(holder.children[k], holder.type, i - 2, blanks)
             q == s[i].from + Start(holder, values, i - 2, blanks, k)
  <2>2. /\ Fits(holder, i - 2) /\ holder.type \in {"array", "object"} /\ s[i].kind = holder.type
        /\ s[i].items = holder.children /\ Occurs(Text(holder, i - 2, blanks), w, s[i].from)
    BY <2>1 DEF Stacked, Nested
  <2>3. s[i].from \in Nat /\ w \in Seq(Chars) /\ k \in 1..Len(holder.children) /\ holder \in Items
          /\ Len(holder.children) \in Nat
    BY <2>1, <2>2, StackBasics DEF Fits
  <2>4. CurrentIn(s, i) = holder.children[k] /\ LabelIn(s, blanks, i) = l
          /\ ElementIn(s, blanks, i) = q /\ ValueIn(s, blanks, i) = q + Len(l)
          /\ s[i].from + StartIn(s, blanks, i, k + 1) = s[i].from + Start(holder, values, i - 2, blanks, k + 1)
    BY <1>2, <2>2 DEF CurrentIn, LabelIn, ElementIn, ValueIn, StartIn
  <2>5. values \in Seq(Seq(Chars)) /\ Len(values) = Len(holder.children)
          /\ Text(holder, i - 2, blanks) = SpelledWith(holder, values, i - 2, blanks)
    BY <2>2, TextOfItem
  <2>6. values[k] = TextIn(s, blanks, i)
    <3>1. k \in DOMAIN holder.children
      BY <2>3, ItemType
    <3>2. QED BY <3>1, <2>1, <2>4 DEF ValuesOf, TextIn
  <2> DEFINE t == TextIn(s, blanks, i)
             after == After(holder, k, blanks)
  <2>7. l \in Seq(Chars) /\ t \in Seq(Chars) /\ after \in Seq(Chars)
    <3>1. l \in Seq(Chars) /\ after \in Seq(Chars)
      BY <2>1, <2>3, LabelTypes
    <3>2. values[k] \in Seq(Chars)
      <4> HIDE DEF values, k, holder
      <4> QED BY <2>1, <2>3, <2>5
    <3>3. QED BY <3>1, <3>2, <2>6
  <2>8. Occurs(SpelledWith(holder, values, i - 2, blanks), w, s[i].from)
    BY <2>2, <2>5
  <2>9. /\ Start(holder, values, i - 2, blanks, k) \in Nat
        /\ Start(holder, values, i - 2, blanks, k + 1) =
             Start(holder, values, i - 2, blanks, k) + Len(l) + Len(values[k]) + Len(after)
    <3>1. k \in 1..(Len(holder.children) + 1)
      BY <2>3
    <3> HIDE DEF values, k, holder
    <3>2. QED BY <3>1, <2>1, <2>3, <2>5, StartStep
  <2>10. Occurs(l, w, q) /\ Occurs(values[k], w, q + Len(l)) /\ Occurs(after, w, q + Len(l) + Len(values[k]))
    <3> HIDE DEF values, k, holder
    <3> QED BY <2>1, <2>2, <2>3, <2>5, <2>8, PartsOccur
  <2> DEFINE z == Start(holder, values, i - 2, blanks, k + 1)
             z0 == Start(holder, values, i - 2, blanks, k)
  <2>11. /\ q \in Nat /\ q + Len(l) \in Nat /\ q + Len(l) + Len(t) \in Nat
         /\ s[i].from + z = q + Len(l) + Len(t) + Len(after)
    <3>1. q = s[i].from + z0 /\ z0 \in Nat /\ z = z0 + Len(l) + Len(t) + Len(after)
      BY <2>9, <2>6
    <3>2. Len(l) \in Nat /\ Len(t) \in Nat /\ Len(after) \in Nat
      <4> HIDE DEF l, t, after
      <4> QED BY <2>7
    <3>3. s[i].from \in Nat
      BY <2>3
    <3> DEFINE f == s[i].from
               l1 == Len(l)
               l2 == Len(t)
               l3 == Len(after)
    <3>4. q = f + z0 /\ z0 \in Nat /\ z = z0 + l1 + l2 + l3 /\ l1 \in Nat /\ l2 \in Nat /\ l3 \in Nat /\ f \in Nat
      BY <3>1, <3>2, <3>3, Zenon
    <3> HIDE DEF z, z0, q, f, l1, l2, l3
    <3>5. q \in Nat /\ q + l1 \in Nat /\ q + l1 + l2 \in Nat /\ f + z = q + l1 + l2 + l3
      BY <3>4
    <3>6. QED BY <3>5, Zenon DEF f, l1, l2, l3
  <2> HIDE DEF z, q, l
  <2>12. QED BY <2>4, <2>6, <2>7, <2>10, <2>11 DEF z
<1>3. QED BY <1>1, <1>2

\* Where the end of an open array or object stands.
LEMMA WhereClose ==
  ASSUME NEW s, NEW blanks \in BOOLEAN, NEW w, Stacked(s, blanks, w), NEW i \in 2..Len(s)
  PROVE  LET c == CloseText(s[i].kind, i - 2, blanks)
         IN  /\ CloseIn(s, blanks, i) \in Nat /\ c \in Seq(Chars) /\ Occurs(c, w, CloseIn(s, blanks, i))
             /\ CloseIn(s, blanks, i) + Len(c) = ValueIn(s, blanks, i - 1) + Len(TextIn(s, blanks, i - 1))
<1>1. i - 2 \in Nat /\ i - 1 \in 1..Len(s) /\ (i - 1) - 1 = i - 2 /\ i \in 1..Len(s) /\ i # 1
  BY StackBasics
<1> DEFINE holder == HolderIn(s, i)
           values == ValuesOf(holder, i - 2, blanks)
           n == Len(holder.children)
           c == CloseText(holder.type, i - 2, blanks)
           z == Start(holder, values, i - 2, blanks, n + 1)
<1>2. /\ Fits(holder, i - 2) /\ holder.type \in {"array", "object"} /\ s[i].kind = holder.type
      /\ s[i].items = holder.children /\ s[i].from = ValueIn(s, blanks, i - 1)
      /\ Occurs(Text(holder, i - 2, blanks), w, s[i].from)
  BY DEF Stacked, Nested
<1>3. s[i].from \in Nat /\ w \in Seq(Chars) /\ holder \in Items /\ n \in Nat
  BY <1>1, <1>2, StackBasics, ItemType DEF Fits
<1>4. values \in Seq(Seq(Chars)) /\ Len(values) = n
        /\ Text(holder, i - 2, blanks) = SpelledWith(holder, values, i - 2, blanks)
  BY <1>2, TextOfItem
<1>5. CloseIn(s, blanks, i) = s[i].from + z
  BY <1>1, <1>2 DEF CloseIn, StartIn
<1>6. TextIn(s, blanks, i - 1) = Text(holder, i - 2, blanks)
  BY <1>1 DEF TextIn, CurrentIn, HolderIn
<1>7. c \in Seq(Chars) /\ Len(c) \in Nat
  <2>1. c \in Seq(Chars)
    BY <1>1, PartTypes
  <2> HIDE DEF c
  <2>2. QED BY <2>1
<1>8. z \in Nat
  <2>1. n + 1 \in 1..(n + 1)
    BY <1>3
  <2> HIDE DEF values, holder
  <2>2. QED BY <2>1, <1>1, <1>3, <1>4, StartStep
<1>9. Occurs(c, w, s[i].from + z) /\ Len(SpelledWith(holder, values, i - 2, blanks)) = z + Len(c)
  <2>1. Occurs(SpelledWith(holder, values, i - 2, blanks), w, s[i].from)
    BY <1>2, <1>4
  <2> HIDE DEF values, holder
  <2>2. QED BY <2>1, <1>1, <1>2, <1>3, <1>4, PartsOccur
<1>12. CloseText(s[i].kind, i - 2, blanks) = c
  BY <1>2
<1> HIDE DEF c, z, values, holder, n
<1>10. (s[i].from + z) + Len(c) = s[i].from + (z + Len(c))
  BY <1>3, <1>7, <1>8
<1>11. s[i].from + z \in Nat /\ (s[i].from + z) + Len(c) = ValueIn(s, blanks, i - 1) + Len(TextIn(s, blanks, i - 1))
  BY <1>2, <1>3, <1>4, <1>6, <1>8, <1>9, <1>10
<1>13. QED BY <1>5, <1>7, <1>9, <1>11, <1>12
\* Where a child stands depends on the two innermost frames around it.
LEMMA PlacesAgree ==
  ASSUME NEW s, NEW u, NEW blanks, NEW i, u[i] = s[i], i # 1 => u[i - 1] = s[i - 1]
  PROVE  /\ \A k : StartIn(u, blanks, i, k) = StartIn(s, blanks, i, k)
         /\ ValueIn(u, blanks, i) = ValueIn(s, blanks, i) /\ TextIn(u, blanks, i) = TextIn(s, blanks, i)
<1>1. i # 1 => HolderIn(u, i) = HolderIn(s, i)
  BY DEF HolderIn
<1>2. \A k : StartIn(u, blanks, i, k) = StartIn(s, blanks, i, k)
  BY <1>1 DEF StartIn
<1>3. CurrentIn(u, i) = CurrentIn(s, i)
  BY DEF CurrentIn
<1>4. QED BY <1>2, <1>3 DEF ValueIn, ElementIn, LabelIn, TextIn

\* What is nested says nothing of how far the innermost item has come.
LEMMA NestedAgrees ==
  ASSUME NEW s, NEW u, NEW blanks, NEW w, NEW i \in Nat, i >= 2,
         \A j \in 1..(i - 1) : u[j] = s[j],
         u[i].kind = s[i].kind, u[i].items = s[i].items, u[i].from = s[i].from
  PROVE  /\ Nested(u, blanks, w, i) <=> Nested(s, blanks, w, i)
         /\ HolderIn(u, i) = HolderIn(s, i) /\ \A k : StartIn(u, blanks, i, k) = StartIn(s, blanks, i, k)
         /\ ValueIn(u, blanks, i - 1) = ValueIn(s, blanks, i - 1)
<1>1. u[i - 1] = s[i - 1]
  OBVIOUS
<1>2. HolderIn(u, i) = HolderIn(s, i)
  BY <1>1 DEF HolderIn
<1>3. \A k : StartIn(u, blanks, i, k) = StartIn(s, blanks, i, k)
  BY <1>2 DEF StartIn
<1>4. ValueIn(u, blanks, i - 1) = ValueIn(s, blanks, i - 1)
  <2>1. i - 1 # 1 => u[(i - 1) - 1] = s[(i - 1) - 1]
    OBVIOUS
  <2>2. QED BY <1>1, <2>1, PlacesAgree
<1>5. Nested(u, blanks, w, i) <=> Nested(s, blanks, w, i)
  BY <1>2, <1>4 DEF Nested
<1>6. QED BY <1>2, <1>3, <1>4, <1>5

\* The current child, an array or an object, can be opened.
LEMMA Pushed ==
  ASSUME NEW s, NEW blanks \in BOOLEAN, NEW w, Stacked(s, blanks, w),
         NEW t, t = Len(s), s[t].next <= Len(s[t].items),
         NEW holder, holder = CurrentIn(s, t), holder.type \in {"array", "object"},
         NEW u \in Seq(Frame), Len(u) = t + 1, \A j \in 1..t : u[j] = s[j],
         u[t + 1].kind = holder.type, u[t + 1].items = holder.children, u[t + 1].next = 1,
         u[t + 1].from = ValueIn(s, blanks, t)
  PROVE  /\ Stacked(u, blanks, w) /\ Len(u) = t + 1 /\ HolderIn(u, t + 1) = holder
         /\ u[1] = s[1] /\ u[t + 1].kind = holder.type /\ u[t + 1].items = holder.children /\ u[t + 1].next = 1
         /\ ElementIn(u, blanks, t + 1) = ValueIn(s, blanks, t) + Len(OpenText(holder.type, blanks))
<1>1. /\ t \in Nat /\ t >= 1 /\ s \in Seq(Frame) /\ Fits(holder, t - 1) /\ ValueIn(s, blanks, t) \in Nat
      /\ t \in 1..Len(s)
  BY StackBasics, Where
<1>2. holder \in Items
  BY <1>1 DEF Fits
<1>3. Len(u) = t + 1 /\ \A j \in 1..t : u[j] = s[j]
  OBVIOUS
<1>4. u[t + 1].kind = holder.type /\ u[t + 1].items = holder.children /\ u[t + 1].next = 1
        /\ u[t + 1].from = ValueIn(s, blanks, t) /\ u[1] = s[1]
  BY <1>1, <1>3
<1>5. HolderIn(u, t + 1) = holder
  <2>1. (t + 1) - 1 = t /\ u[t] = s[t]
    BY <1>1, <1>3
  <2>2. QED BY <2>1 DEF HolderIn, CurrentIn
<1>6. ValueIn(u, blanks, t) = ValueIn(s, blanks, t)
  <2>1. u[t] = s[t] /\ (t # 1 => u[t - 1] = s[t - 1])
    BY <1>1, <1>3
  <2>2. \A x : x = t => ValueIn(u, blanks, x) = ValueIn(s, blanks, x)
    BY <2>1, PlacesAgree
  <2>3. QED BY <2>2
<1>7. Nested(u, blanks, w, t + 1)
  <2>1. (t + 1) - 2 = t - 1 /\ (t + 1) - 1 = t
    BY <1>1
  <2>2. Occurs(Text(holder, t - 1, blanks), w, ValueIn(s, blanks, t))
    BY <1>1, Where DEF TextIn
  <2>3. QED BY <1>1, <1>4, <1>5, <1>6, <2>1, <2>2 DEF Nested
<1>8. \A i \in 2..Len(u) : Nested(u, blanks, w, i)
  <2> TAKE i \in 2..Len(u)
  <2>1. CASE i = t + 1
    BY <2>1, <1>7
  <2>2. CASE i # t + 1
    <3>1. i \in 2..Len(s) /\ i \in Nat /\ i >= 2 /\ (\A j \in 1..(i - 1) : u[j] = s[j]) /\ u[i] = s[i]
      BY <2>2, <1>1, <1>3
    <3>2. Nested(s, blanks, w, i)
      BY <3>1 DEF Stacked
    <3>3. QED BY <3>1, <3>2, NestedAgrees
  <2>3. QED BY <2>1, <2>2
<1>9. /\ \A i \in 1..(Len(u) - 1) : u[i].next <= Len(u[i].items)
      /\ \A i \in 1..Len(u) : \A j \in 1..Len(u[i].items) : j < u[i].next => Valid(u[i].items[j], i - 1)
  <2>1. \A i \in 1..(Len(u) - 1) : u[i].next <= Len(u[i].items)
    <3>1. ASSUME NEW i \in 1..(Len(u) - 1) PROVE u[i].next <= Len(u[i].items)
      <4>1. i \in 1..t /\ u[i] = s[i] /\ (i # t => i \in 1..(Len(s) - 1))
        BY <1>1, <1>3
      <4>2. \A k \in 1..(Len(s) - 1) : s[k].next <= Len(s[k].items)
        BY DEF Stacked
      <4>3. QED BY <4>1, <4>2
    <3>2. QED BY <3>1
  <2>2. ASSUME NEW i \in 1..Len(u), NEW j \in 1..Len(u[i].items), j < u[i].next PROVE Valid(u[i].items[j], i - 1)
    <3>1. i # t + 1
      BY <2>2, <1>4
    <3>2. i \in 1..Len(s) /\ u[i] = s[i]
      BY <3>1, <1>1, <1>3
    <3>3. QED BY <2>2, <3>2 DEF Stacked
  <2>3. QED BY <2>1, <2>2
<1>10. Stacked(u, blanks, w)
  <2>1. s[1].kind = "root" /\ Len(s[1].items) = 1 /\ s[1].next = 1 /\ s[1].from = 0 /\ w = Text(s[1].items[1], 0, blanks)
    BY DEF Stacked
  <2>2. QED BY <2>1, <1>1, <1>3, <1>4, <1>8, <1>9 DEF Stacked
<1>11. ElementIn(u, blanks, t + 1) = ValueIn(s, blanks, t) + Len(OpenText(holder.type, blanks))
  <2>1. t + 1 # 1 /\ (t + 1) - 2 = t - 1
    BY <1>1
  <2>2. StartIn(u, blanks, t + 1, 1) = Start(holder, ValuesOf(holder, t - 1, blanks), t - 1, blanks, 1)
    BY <2>1, <1>5 DEF StartIn
  <2>3. Start(holder, ValuesOf(holder, t - 1, blanks), t - 1, blanks, 1) = Len(OpenText(holder.type, blanks))
    <3>1. t - 1 \in Nat /\ ValuesOf(holder, t - 1, blanks) \in Seq(Seq(Chars))
            /\ Len(ValuesOf(holder, t - 1, blanks)) = Len(holder.children)
      BY <1>1, TextOfItem
    <3>2. QED BY <3>1, <1>2, StartStep
  <2>4. QED BY <2>2, <2>3, <1>4 DEF ElementIn
<1>12. QED BY <1>3, <1>4, <1>5, <1>10, <1>11

\* The frame on top, one child further.
LEMMA NextFrame ==
  ASSUME NEW s \in Seq(Frame), Len(s) >= 1
  PROVE  LET u == [s EXCEPT ![Len(s)].next = @ + 1]
             t == Len(s)
         IN  /\ u \in Seq(Frame) /\ Len(u) = t /\ (\A j \in 1..(t - 1) : u[j] = s[j])
             /\ u[t].kind = s[t].kind /\ u[t].items = s[t].items /\ u[t].next = s[t].next + 1
             /\ u[t].from = s[t].from
<1> DEFINE t == Len(s)
           u == [s EXCEPT ![Len(s)].next = @ + 1]
<1>1. t \in Nat /\ s[t] \in Frame /\ s[t].next \in Nat \ {0} /\ t \in 1..Len(s)
  <2>1. t \in Nat /\ t \in 1..Len(s)
    OBVIOUS
  <2>2. s[t] \in Frame
    BY <2>1
  <2>3. s[t].next \in Nat \ {0}
    BY <2>2 DEF Frame
  <2>4. QED BY <2>1, <2>2, <2>3
<1>2. /\ Len(u) = t /\ DOMAIN u = 1..t /\ (\A j \in 1..(t - 1) : u[j] = s[j])
      /\ u[t] = [s[t] EXCEPT !.next = s[t].next + 1]
  BY <1>1
<1>3. u[t].kind = s[t].kind /\ u[t].items = s[t].items /\ u[t].next = s[t].next + 1 /\ u[t].from = s[t].from
        /\ u[t] \in Frame
  <2> DEFINE f == s[t]
             n == f.next + 1
             g == [f EXCEPT !.next = n]
  <2>1. f \in Frame /\ n \in Nat \ {0}
    BY <1>1
  <2>2. u[t] = g
    BY <1>2
  <2> HIDE DEF f, n
  <2>3. g.kind = f.kind /\ g.items = f.items /\ g.next = n /\ g.from = f.from /\ g \in Frame
    BY <2>1 DEF Frame
  <2> HIDE DEF g
  <2>4. QED BY <2>2, <2>3 DEF f, n
<1>4. u \in Seq(Frame)
  <2>1. \A j \in 1..t : u[j] \in Frame
    BY <1>1, <1>2, <1>3
  <2>2. \E n \in Nat : u \in [1..n -> Frame]
    <3>1. u = [j \in DOMAIN s |-> u[j]]
      OBVIOUS
    <3>2. DOMAIN s = 1..t
      BY <1>1
    <3>3. u = [j \in 1..t |-> u[j]]
      BY <3>1, <3>2, Zenon
    <3>4. u \in [1..t -> Frame]
      BY <2>1, <3>3, Zenon
    <3>5. QED BY <3>4, <1>1
  <2>3. u \in Seq(Frame)
    <3>1. \A S : \A n \in Nat : \A f \in [1..n -> S] : f \in Seq(S)
      OBVIOUS
    <3>2. QED BY <2>2, <3>1, Zenon
  <2>4. QED BY <2>3
<1>5. QED BY <1>2, <1>3, <1>4

\* One goes on to the next child when the current one is valid and not the last.
LEMMA Advanced ==
  ASSUME NEW s, NEW blanks \in BOOLEAN, NEW w, Stacked(s, blanks, w),
         Len(s) >= 2, s[Len(s)].next < Len(s[Len(s)].items), Valid(CurrentIn(s, Len(s)), Len(s) - 1),
         NEW u \in Seq(Frame), Len(u) = Len(s), \A j \in 1..(Len(s) - 1) : u[j] = s[j],
         u[Len(s)].kind = s[Len(s)].kind, u[Len(s)].items = s[Len(s)].items, u[Len(s)].next = s[Len(s)].next + 1,
         u[Len(s)].from = s[Len(s)].from
  PROVE  /\ Stacked(u, blanks, w) /\ u[1] = s[1]
         /\ ElementIn(u, blanks, Len(s)) = s[Len(s)].from + StartIn(s, blanks, Len(s), s[Len(s)].next + 1)
<1> DEFINE t == Len(s)
<1>1. t \in Nat /\ s \in Seq(Frame) /\ s[t] \in Frame /\ s[t].next \in Nat \ {0} /\ Len(s[t].items) \in Nat /\ t \in 1..Len(s)
  BY StackBasics
<1>2. Len(u) = t /\ DOMAIN u = 1..t /\ (\A j \in 1..(t - 1) : u[j] = s[j])
  OBVIOUS
<1>3. u[t].kind = s[t].kind /\ u[t].items = s[t].items /\ u[t].next = s[t].next + 1 /\ u[t].from = s[t].from
  OBVIOUS
<1>4. u \in Seq(Frame) /\ u[1] = s[1]
  <2>1. 1 \in 1..(t - 1)
    BY <1>1
  <2>2. QED BY <2>1
<1>5. ASSUME NEW i \in 2..Len(u) PROVE Nested(u, blanks, w, i)
  <2>1. i \in 2..Len(s) /\ i \in Nat /\ i >= 2 /\ (\A j \in 1..(i - 1) : u[j] = s[j])
          /\ u[i].kind = s[i].kind /\ u[i].items = s[i].items /\ u[i].from = s[i].from
    BY <1>1, <1>2, <1>3
  <2>2. Nested(s, blanks, w, i)
    BY <2>1 DEF Stacked
  <2>3. QED BY <2>1, <2>2, NestedAgrees
<1>6. \A i \in 1..(Len(u) - 1) : u[i].next <= Len(u[i].items)
  BY <1>1, <1>2 DEF Stacked
<1>7. ASSUME NEW i \in 1..Len(u), NEW j \in 1..Len(u[i].items), j < u[i].next PROVE Valid(u[i].items[j], i - 1)
  <2>1. i \in 1..Len(s) /\ u[i].items = s[i].items /\ (i # t => u[i] = s[i])
    <3>1. i \in 1..Len(s) /\ (i # t => i \in 1..(t - 1))
      BY <1>1, <1>2
    <3>2. i # t => u[i] = s[i]
      BY <3>1, <1>2
    <3>3. QED BY <3>1, <3>2, <1>3
  <2>2. CASE j < s[i].next
    BY <2>1, <2>2 DEF Stacked
  <2>3. CASE ~ (j < s[i].next)
    <3>1. i = t
      BY <1>7, <2>1, <2>3
    <3>2. j = s[t].next
      BY <1>1, <1>3, <1>7, <2>3, <3>1
    <3>3. QED BY <2>1, <3>1, <3>2 DEF CurrentIn
  <2>4. QED BY <2>2, <2>3
<1>8. Stacked(u, blanks, w)
  <2>1. s[1].kind = "root" /\ Len(s[1].items) = 1 /\ s[1].next = 1 /\ s[1].from = 0 /\ w = Text(s[1].items[1], 0, blanks)
    BY DEF Stacked
  <2>2. QED BY <2>1, <1>1, <1>2, <1>4, <1>5, <1>6, <1>7 DEF Stacked
<1>9. ElementIn(u, blanks, t) = s[t].from + StartIn(s, blanks, t, s[t].next + 1)
  <2>1. StartIn(u, blanks, t, s[t].next + 1) = StartIn(s, blanks, t, s[t].next + 1)
    <3>1. u[t - 1] = s[t - 1]
      BY <1>1, <1>2
    <3>2. HolderIn(u, t) = HolderIn(s, t)
      BY <3>1 DEF HolderIn
    <3>3. QED BY <3>2 DEF StartIn
  <2>2. QED BY <2>1, <1>3 DEF ElementIn
<1>10. QED BY <1>2, <1>3, <1>4, <1>8, <1>9

\* The innermost array or object can be closed.
LEMMA Popped ==
  ASSUME NEW s, NEW blanks \in BOOLEAN, NEW w, Stacked(s, blanks, w), Len(s) >= 2,
         NEW u, u = Front(s)
  PROVE  /\ Stacked(u, blanks, w) /\ Len(u) = Len(s) - 1 /\ u[1] = s[1] /\ u[Len(s) - 1] = s[Len(s) - 1]
         /\ u[Len(s) - 1].next <= Len(u[Len(s) - 1].items)
         /\ ValueIn(u, blanks, Len(s) - 1) = ValueIn(s, blanks, Len(s) - 1) /\ TextIn(u, blanks, Len(s) - 1) = TextIn(s, blanks, Len(s) - 1)
<1> DEFINE t == Len(s)
<1>1. t \in Nat /\ s \in Seq(Frame)
  BY StackBasics
<1>2. u \in Seq(Frame) /\ Len(u) = t - 1 /\ (\A j \in 1..(t - 1) : u[j] = s[j])
  BY <1>1 DEF Front
<1>3. ASSUME NEW i \in 2..Len(u) PROVE Nested(u, blanks, w, i)
  <2>1. i \in 2..Len(s) /\ i \in Nat /\ i >= 2 /\ (\A j \in 1..(i - 1) : u[j] = s[j]) /\ u[i] = s[i]
    BY <1>1, <1>2
  <2>2. Nested(s, blanks, w, i)
    BY <2>1 DEF Stacked
  <2>3. QED BY <2>1, <2>2, NestedAgrees
<1>4. \A i \in 1..(t - 1) : u[i].next <= Len(u[i].items)
  BY <1>1, <1>2 DEF Stacked
<1>5. ASSUME NEW i \in 1..Len(u), NEW j \in 1..Len(u[i].items), j < u[i].next PROVE Valid(u[i].items[j], i - 1)
  <2>1. i \in 1..Len(s) /\ u[i] = s[i]
    BY <1>1, <1>2
  <2>2. QED BY <1>5, <2>1 DEF Stacked
<1>6. u[1] = s[1] /\ u[t - 1] = s[t - 1] /\ t - 1 \in 1..(t - 1) /\ 1 \in 1..(t - 1)
  BY <1>1, <1>2
<1>7. Stacked(u, blanks, w)
  <2>1. s[1].kind = "root" /\ Len(s[1].items) = 1 /\ s[1].next = 1 /\ s[1].from = 0 /\ w = Text(s[1].items[1], 0, blanks)
    BY DEF Stacked
  <2>2. \A i \in 1..(Len(u) - 1) : u[i].next <= Len(u[i].items)
    BY <1>1, <1>2, <1>4
  <2>3. Len(u) >= 1
    BY <1>1, <1>2
  <2>4. QED BY <2>1, <2>2, <2>3, <1>2, <1>3, <1>5, <1>6 DEF Stacked
<1>8. ValueIn(u, blanks, t - 1) = ValueIn(s, blanks, t - 1) /\ TextIn(u, blanks, t - 1) = TextIn(s, blanks, t - 1)
  <2>1. t - 1 # 1 => u[(t - 1) - 1] = s[(t - 1) - 1]
    BY <1>1, <1>2
  <2>2. QED BY <1>6, <2>1, PlacesAgree
<1>10. QED BY <1>2, <1>4, <1>6, <1>7, <1>8

\* In a tree without invalid items, those being printed are none.
LEMMA ValidInside ==
  ASSUME NEW s, NEW blanks \in BOOLEAN, NEW w, Stacked(s, blanks, w), Valid(s[1].items[1], 0),
         NEW i \in 1..Len(s), s[i].next <= Len(s[i].items)
  PROVE  Valid(CurrentIn(s, i), i - 1)
<1> DEFINE Bad == {k \in 1..Len(s) : s[k].next <= Len(s[k].items) /\ ~ Valid(CurrentIn(s, k), k - 1)}
<1>0. Len(s) \in Nat
  BY StackBasics
<1>1. ASSUME NEW k \in Bad PROVE \E m \in Bad : m < k
  <2>0. k \in 1..Len(s) /\ s[k].next <= Len(s[k].items) /\ ~ Valid(CurrentIn(s, k), k - 1) /\ k \in Nat
    BY <1>0
  <2>1. k # 1
    BY <2>0 DEF CurrentIn, Stacked
  <2>2. k \in 2..Len(s) /\ k - 1 \in 1..(Len(s) - 1) /\ k - 1 \in 1..Len(s) /\ k - 1 < k /\ (k - 1) - 1 = k - 2 /\ (k - 2) + 1 = k - 1
    BY <2>0, <2>1, <1>0
  <2> DEFINE holder == HolderIn(s, k)
  <2>3. Fits(holder, k - 2) /\ s[k].items = holder.children /\ holder = CurrentIn(s, k - 1)
          /\ holder.type \in {"array", "object"}
    BY <2>2 DEF Stacked, Nested, HolderIn, CurrentIn
  <2>4. s[k].next \in 1..Len(holder.children) /\ CurrentIn(s, k) = holder.children[s[k].next]
    <3>1. s[k].next \in Nat \ {0} /\ Len(s[k].items) \in Nat
      BY <2>0, StackBasics
    <3>2. QED BY <3>1, <2>0, <2>3 DEF CurrentIn
  <2>5. ~ Valid(holder, k - 2)
    <3> HIDE DEF holder
    <3> QED BY <2>0, <2>2, <2>3, <2>4, ValidItem
  <2>6. s[k - 1].next <= Len(s[k - 1].items)
    BY <2>2 DEF Stacked
  <2>7. k - 1 \in Bad
    BY <2>2, <2>3, <2>5, <2>6
  <2>8. QED BY <2>2, <2>7
<1>2. Bad \in SUBSET Nat
  BY <1>0
<1>3. Bad = {}
  <2> HIDE DEF Bad
  <2> QED BY <1>1, <1>2, NoLeast
<1>4. QED BY <1>3
-----------------------------------------------------------------------------
(* The buffer.                                                             *)

\* strlen, from o: the text up to the zero behind e.
LEMMA LengthOfText ==
  ASSUME NEW b \in Seq(Bytes), NEW o \in Nat, NEW e \in Nat, o <= e, e < Len(b), b[e + 1] = "zero",
         \A j \in (o + 1)..e : b[j] # "zero"
  PROVE  LengthOf(b, o) = e - o
<1> DEFINE S == {k \in 0..(Len(b) - o) : k = Len(b) - o \/ b[o + k + 1] = "zero"}
<1>1. Len(b) \in Nat
  OBVIOUS
<1>2. e - o \in S
  <2>1. e - o \in 0..(Len(b) - o) /\ o + (e - o) + 1 = e + 1
    BY <1>1
  <2>2. QED BY <2>1
<1>3. ASSUME NEW k \in S PROVE e - o <= k
  <2>1. k \in 0..(Len(b) - o) /\ (k = Len(b) - o \/ b[o + k + 1] = "zero")
    OBVIOUS
  <2>2. CASE k = Len(b) - o
    BY <2>2, <1>1
  <2>3. CASE k < e - o
    <3>1. o + k + 1 \in (o + 1)..e
      BY <2>1, <2>3, <1>1
    <3>2. QED BY <3>1, <2>1, <2>3, <1>1
  <2>4. QED BY <2>1, <2>2, <2>3, <1>1
<1>4. S \subseteq Nat /\ \A x \in S : x \in Nat
  BY <1>1
<1> HIDE DEF S
<1>5. \A m \in S : (\A k \in S : m <= k) => m = e - o
  BY <1>2, <1>3, <1>4
<1>6. Min(S) \in S /\ \A k \in S : Min(S) <= k
  <2> DEFINE P(m) == \A k \in S : m <= k
  <2>1. \E m \in S : P(m)
    BY <1>2, <1>3
  <2>2. Min(S) = CHOOSE m \in S : P(m)
    BY DEF Min
  <2> HIDE DEF P
  <2>3. Min(S) \in S /\ P(Min(S))
    BY <2>1, <2>2, Zenon
  <2>4. QED BY <2>3 DEF P
<1>7. LengthOf(b, o) = Min(S)
  BY DEF LengthOf, S
<1>8. QED BY <1>5, <1>6, <1>7

\* A text written behind what is there makes the buffer hold that much more of
\* the whole text; a zero written after it is behind it.
LEMMA WrittenText ==
  ASSUME NEW b \in Seq(Bytes), NEW w \in Seq(Chars), offset \in Nat, Solid(b, w, offset),
         NEW chars \in Seq(Chars), Occurs(chars, w, offset),
         NEW text, text = chars \/ text = Terminated(chars), offset + Len(text) <= Len(b)
  PROVE  LET c == Written(b, text)
         IN  /\ c \in Seq(Bytes) /\ Len(c) = Len(b) /\ ~ WritesOutside(b, text)
             /\ Solid(c, w, offset + Len(chars))
             /\ text = Terminated(chars) => Len(text) = Len(chars) + 1 /\ c[offset + Len(chars) + 1] = "zero"
<1>0. /\ Len(b) \in Nat /\ Len(chars) \in Nat /\ DOMAIN b = 1..Len(b) /\ Len(w) \in Nat
      /\ \A i \in 1..Len(b) : b[i] \in Bytes
  OBVIOUS
<1>1. text \in Seq(Bytes) /\ Len(text) >= Len(chars) /\ \A i \in 1..Len(chars) : text[i] = chars[i]
  <2>1. chars \in Seq(Bytes)
    BY DEF Bytes
  <2>2. "zero" \in Bytes
    BY DEF Bytes
  <2>3. CASE text = Terminated(chars)
    BY <2>1, <2>2, <2>3 DEF Terminated
  <2>4. QED BY <2>1, <2>3
<1>2. text = Terminated(chars) => Len(text) = Len(chars) + 1 /\ text[Len(chars) + 1] = "zero"
  BY DEF Terminated
<1> DEFINE c == Written(b, text)
<1>3. /\ DOMAIN text = 1..Len(text) /\ Len(text) \in Nat
      /\ \A i \in 1..Len(text) : text[i] \in Bytes
  BY <1>1
<1>4. c = [i \in 1..Len(b) |-> IF i - offset \in 1..Len(text) THEN text[i - offset] ELSE b[i]]
  BY <1>0, <1>3, Zenon DEF Written
<1>5. \A i \in 1..Len(b) : (IF i - offset \in 1..Len(text) THEN text[i - offset] ELSE b[i]) \in Bytes
  BY <1>0, <1>3
<1> HIDE DEF c
<1>6. c \in [1..Len(b) -> Bytes] /\ \A i \in 1..Len(b) : c[i] = IF i - offset \in 1..Len(text) THEN text[i - offset] ELSE b[i]
  BY <1>4, <1>5
<1>7. c \in Seq(Bytes) /\ Len(c) = Len(b)
  BY <1>6, <1>0
<1>8. ASSUME NEW j \in 1..(offset + Len(chars)) PROVE c[j] = w[j]
  <2>1. j \in 1..Len(b)
    BY <1>0, <1>1, <1>3
  <2>2. CASE j <= offset
    <3>1. j \in 1..offset /\ ~ (j - offset \in 1..Len(text))
      BY <2>2, <1>0
    <3>2. QED BY <3>1, <2>1, <1>6 DEF Solid
  <2>3. CASE j > offset
    <3>1. j - offset \in 1..Len(chars) /\ j - offset \in 1..Len(text) /\ offset + (j - offset) = j
      BY <2>3, <1>0, <1>1, <1>3
    <3>2. c[j] = chars[j - offset]
      BY <3>1, <2>1, <1>1, <1>6
    <3>3. w[offset + (j - offset)] = chars[j - offset]
      BY <3>1 DEF Occurs
    <3>4. QED BY <3>1, <3>2, <3>3
  <2>4. QED BY <2>2, <2>3, <1>0
<1>9. Solid(c, w, offset + Len(chars))
  BY <1>0, <1>1, <1>3, <1>7, <1>8 DEF Solid
<1>10. ASSUME text = Terminated(chars) PROVE c[offset + Len(chars) + 1] = "zero"
  <2>1. Len(text) = Len(chars) + 1 /\ text[Len(chars) + 1] = "zero"
    BY <1>2, <1>10
  <2>2. offset + Len(chars) + 1 \in 1..Len(b) /\ (offset + Len(chars) + 1) - offset = Len(chars) + 1
          /\ Len(chars) + 1 \in 1..Len(text)
    BY <2>1, <1>0
  <2>3. QED BY <2>1, <2>2, <1>6
<1>11. ~ WritesOutside(b, text)
  BY <1>0, <1>3 DEF WritesOutside
<1>12. QED BY <1>2, <1>7, <1>9, <1>10, <1>11 DEF c

\* A buffer that grows keeps what was printed and has room for what is needed.
LEMMA GrownBuffer ==
  ASSUME buffer \in Seq(Bytes), offset \in Nat, NEW w, Solid(buffer, w, offset), IntMax \in Nat, manual \in BOOLEAN,
         NEW n \in Nat, Needed(n) <= IntMax
  PROVE  /\ Grown(n) \in Seq(Bytes) /\ Len(Grown(n)) >= Needed(n) /\ Len(Grown(n)) <= IntMax
         /\ Solid(Grown(n), w, offset)
<1>0. Len(buffer) \in Nat /\ Needed(n) \in Nat /\ Needed(n) = n + offset + 1 /\ \A i \in 1..Len(buffer) : buffer[i] \in Bytes
  BY DEF Needed
<1> DEFINE m == NewSize(Needed(n))
<1>1. m \in Nat /\ m >= Needed(n) /\ m <= IntMax
  <2>1. CASE Needed(n) > IntMax \div 2
    BY <2>1, <1>0 DEF NewSize
  <2>2. CASE ~ (Needed(n) > IntMax \div 2)
    <3>1. Needed(n) * 2 <= IntMax
      BY <2>2, <1>0
    <3>2. m = Needed(n) * 2
      BY <2>2 DEF NewSize
    <3>3. QED BY <3>1, <3>2, <1>0
  <2>3. QED BY <2>1, <2>2
<1> DEFINE kept == IF manual THEN offset + 1 ELSE Len(buffer)
<1>2. kept \in Nat /\ kept >= offset
  BY <1>0 DEF Solid
<1>3. Grown(n) = [i \in 1..m |-> IF i <= kept /\ i <= Len(buffer) THEN buffer[i] ELSE "junk"]
  BY DEF Grown
<1> HIDE DEF m, kept
<1>4. Grown(n) \in [1..m -> Bytes]
  <2>1. "junk" \in Bytes
    BY DEF Bytes
  <2>2. \A i \in 1..m : (IF i <= kept /\ i <= Len(buffer) THEN buffer[i] ELSE "junk") \in Bytes
    BY <2>1, <1>0, <1>1
  <2>3. QED BY <1>3, <2>2
<1>5. Grown(n) \in Seq(Bytes) /\ Len(Grown(n)) = m
  BY <1>1, <1>4
<1>6. \A j \in 1..offset : Grown(n)[j] = w[j]
  <2> TAKE j \in 1..offset
  <2>1. j \in 1..m /\ j <= kept /\ j <= Len(buffer)
    BY <1>0, <1>1, <1>2 DEF Solid
  <2>2. QED BY <2>1, <1>3 DEF Solid
<1>7. Solid(Grown(n), w, offset)
  BY <1>0, <1>1, <1>5, <1>6 DEF Solid
<1>8. QED BY <1>1, <1>5, <1>7 DEF m
LEMMA RunningFacts ==
  ASSUME PrintInv, Running
  PROVE  /\ IntMax \in Nat /\ offset \in Nat /\ offset <= IntMax /\ manual \in BOOLEAN /\ format \in BOOLEAN
         /\ call \in {"print", "buffered", "preallocated"} /\ given \in 0..IntMax
         /\ (call = "print" => given # 0)
         /\ depth = Len(stack) - 1 /\ Stacked(stack, format, Whole)
         /\ buffer \in Seq(Bytes) /\ buffer # NULL /\ Len(buffer) \in Nat /\ Len(buffer) <= IntMax
         /\ Solid(buffer, Whole, offset) /\ (offset < Len(buffer) \/ (offset = 0 /\ given = 0))
         /\ (noalloc => Len(buffer) = given)
         /\ StaysInside /\ BlocksCounted /\ Placed
<1>1. IntMax \in Nat /\ NULL \notin Seq(Bytes)
  BY PrintAssumption DEF JsonPrintAssumption
<1>2. offset \in Nat /\ offset <= IntMax /\ depth = Len(stack) - 1
  BY <1>1 DEF PrintInv, PrintTypeOK
<1>3. PrintsOn
  BY DEF PrintInv
<1>4. buffer \in Seq(Bytes) /\ Len(buffer) \in Nat
  BY <1>3 DEF PrintsOn
<1>5. QED BY <1>1, <1>2, <1>3, <1>4 DEF PrintInv, PrintsOn

\* What ensure and a write do to the buffer.
LEMMA Putting ==
  ASSUME PrintInv, Running, NEW n \in Nat, NEW chars \in Seq(Chars), NEW text,
         text = chars \/ text = Terminated(chars), Len(text) <= n + 1,
         Occurs(chars, Whole, offset), Put(n, text)
  PROVE  /\ buffer' \in Seq(Bytes) /\ Len(buffer') <= IntMax /\ offset + n < Len(buffer')
         /\ Solid(buffer', Whole, offset + Len(chars))
         /\ (text = Terminated(chars) => buffer'[offset + Len(chars) + 1] = "zero")
         /\ (noalloc => Len(buffer') = given)
         /\ (outside' => given = 0 /\ call = "buffered" /\ manual)
         /\ blocks' = blocks /\ refused' = refused
<1> DEFINE w == Whole
<1>1. w \in Seq(Chars)
  BY RunningFacts, StackBasics
<1>2. /\ IntMax \in Nat /\ offset \in Nat /\ buffer \in Seq(Bytes) /\ manual \in BOOLEAN
      /\ Solid(buffer, w, offset) /\ Occurs(chars, w, offset)
  BY RunningFacts
<1> HIDE DEF w
<1>3. Len(text) \in Nat /\ Needed(n) = n + offset + 1 /\ Needed(n) \in Nat
  BY <1>2 DEF Needed, Terminated
<1>4. ASSUME NEW b \in Seq(Bytes), Solid(b, w, offset), Needed(n) <= Len(b), Len(b) <= IntMax, buffer' = Written(b, text)
      PROVE  /\ buffer' \in Seq(Bytes) /\ Len(buffer') = Len(b) /\ offset + n < Len(buffer')
             /\ Solid(buffer', w, offset + Len(chars))
             /\ (text = Terminated(chars) => buffer'[offset + Len(chars) + 1] = "zero")
             /\ ~ WritesOutside(b, text)
  <2>1. offset + Len(text) <= Len(b) /\ Len(b) \in Nat
    BY <1>2, <1>3, <1>4
  <2>2. LET c == Written(b, text)
        IN  /\ c \in Seq(Bytes) /\ Len(c) = Len(b) /\ ~ WritesOutside(b, text)
            /\ Solid(c, w, offset + Len(chars))
            /\ text = Terminated(chars) => Len(text) = Len(chars) + 1 /\ c[offset + Len(chars) + 1] = "zero"
    BY <1>1, <1>2, <1>4, <2>1, WrittenText
  <2>3. offset + n < Len(b)
    BY <1>2, <1>3, <1>4, <2>1
  <2>4. QED BY <2>2, <2>3, <1>4
<1>5. CASE /\ OffsetValid /\ n <= IntMax /\ Needed(n) <= Len(buffer)
           /\ buffer' = Written(buffer, text)
           /\ outside' = (outside \/ WritesOutside(buffer, text))
           /\ UNCHANGED <<blocks, refused>>
  <2>1. Len(buffer) <= IntMax
    BY RunningFacts
  <2>2. /\ buffer' \in Seq(Bytes) /\ Len(buffer') = Len(buffer) /\ offset + n < Len(buffer')
             /\ Solid(buffer', w, offset + Len(chars))
             /\ (text = Terminated(chars) => buffer'[offset + Len(chars) + 1] = "zero")
             /\ ~ WritesOutside(buffer, text)
    BY <2>1, <1>2, <1>4, <1>5
  <2>3. outside' => given = 0 /\ call = "buffered" /\ manual
    BY <2>2, <1>5, RunningFacts DEF StaysInside
  <2>4. QED BY <2>1, <2>2, <2>3, <1>5, RunningFacts DEF w
<1>6. CASE /\ OffsetValid /\ MayGrow(n) /\ Needed(n) > Len(buffer)
           /\ buffer' = Written(Grown(n), text)
           /\ outside' = (outside \/ WritesOutside(Grown(n), text) \/ (manual /\ offset + 1 > Len(buffer)))
           /\ UNCHANGED <<blocks, refused>>
  <2>1. ~ noalloc /\ Needed(n) <= IntMax
    BY <1>6 DEF MayGrow
  <2>2. Grown(n) \in Seq(Bytes) /\ Len(Grown(n)) >= Needed(n) /\ Len(Grown(n)) <= IntMax /\ Solid(Grown(n), w, offset)
    BY <2>1, <1>2, GrownBuffer
  <2>3. Needed(n) <= Len(Grown(n))
    BY <2>2, <1>3
  <2>4. /\ buffer' \in Seq(Bytes) /\ Len(buffer') = Len(Grown(n)) /\ offset + n < Len(buffer')
             /\ Solid(buffer', w, offset + Len(chars))
             /\ (text = Terminated(chars) => buffer'[offset + Len(chars) + 1] = "zero")
             /\ ~ WritesOutside(Grown(n), text)
    BY <2>2, <2>3, <1>4, <1>6
  <2>5. offset + 1 > Len(buffer) => given = 0
    BY RunningFacts
  <2>6. outside' => given = 0 /\ call = "buffered" /\ manual
    <3>1. given = 0 => call = "buffered"
      BY <2>1, RunningFacts DEF noalloc
    <3>2. QED BY <2>4, <2>5, <3>1, <1>6, RunningFacts DEF StaysInside
  <2>7. QED BY <2>1, <2>2, <2>4, <2>6, <1>6 DEF w
<1>7. QED BY <1>5, <1>6 DEF Put

\* A step that writes and moves on, from what it makes of the stack.
LEMMA PutMoves ==
  ASSUME PrintInv, Running, printing # "start", NEW n \in Nat, NEW chars \in Seq(Chars), NEW text,
         text = chars \/ text = Terminated(chars), Len(text) <= n + 1, Len(chars) <= n,
         Occurs(chars, Whole, offset), Put(n, text), UNCHANGED options,
         printing' \in {"value", "indent", "key", "colon", "printed", "separate", "close"},
         stack'[1] = stack[1], depth' = Len(stack') - 1, Stacked(stack', format, Whole),
         offset' \in Nat, offset' <= offset + Len(chars), Placed'
  PROVE  PrintInv'
<1>1. /\ buffer' \in Seq(Bytes) /\ Len(buffer') <= IntMax /\ offset + n < Len(buffer')
      /\ Solid(buffer', Whole, offset + Len(chars))
      /\ (noalloc => Len(buffer') = given)
      /\ (outside' => given = 0 /\ call = "buffered" /\ manual)
      /\ blocks' = blocks /\ refused' = refused
  BY Putting
<1>2. call' = call /\ format' = format /\ manual' = manual /\ given' = given /\ noalloc' = noalloc
  BY DEF options, noalloc
<1>3. Whole' = Whole
  BY <1>2 DEF Whole, Root
<1>4. Running' /\ printing' \notin {"start", "true", "false", "failed"}
  BY DEF Running
<1>5. IntMax \in Nat /\ NULL \notin Seq(Bytes) /\ Len(buffer') \in Nat /\ Len(chars) \in Nat /\ offset \in Nat
  BY <1>1, RunningFacts, PrintAssumption DEF JsonPrintAssumption
<1>6. Solid(buffer', Whole, offset') /\ offset' < Len(buffer') /\ offset' \in 0..IntMax
  BY <1>1, <1>5 DEF Solid
<1>7. Len(stack') \in Nat
  BY RunningFacts, StackBasics
<1>8. PrintsOn'
  <2>1. Stacked(stack, format, Whole)'
    BY <1>2, <1>3
  <2>2. Solid(buffer, Whole, offset)'
    BY <1>3, <1>6
  <2>3. (Len(buffer) = 0 => given = 0)'
    BY <1>5, <1>6
  <2>4. QED BY <2>1, <2>2, <2>3, <1>1, <1>2, <1>6 DEF PrintsOn
<1>9. blocks = (IF noalloc THEN 0 ELSE 1)
  BY RunningFacts DEF Running, BlocksCounted
<1>10. BlocksCounted'
  BY <1>1, <1>2, <1>4, <1>5, <1>9 DEF BlocksCounted
<1>11. PrintTypeOK'
  BY <1>1, <1>6, <1>9 DEF PrintTypeOK
<1>12. StaysInside'
  BY <1>1, <1>2 DEF StaysInside
<1>13. PrintsTheText'
  BY <1>4 DEF PrintsTheText
<1>14. QED BY <1>2, <1>4, <1>7, <1>8, <1>10, <1>11, <1>12, <1>13, RunningFacts DEF PrintInv

\* Giving up, when what was to be printed is in the whole text.
LEMMA GivingUp ==
  ASSUME PrintInv, Running, printing # "start", NEW n \in Nat, n + offset <= Len(Whole) + 1,
         GiveUp(n), UNCHANGED options
  PROVE  PrintInv'
<1>1. call' = call /\ format' = format /\ manual' = manual /\ given' = given /\ noalloc' = noalloc
  BY DEF options, noalloc
<1>2. printing' = "false" /\ offset' = offset /\ depth' = depth /\ stack' = stack /\ outside' = outside
  BY DEF GiveUp, Fails
<1>3. Whole' = Whole /\ Printable(Root)' = Printable(Root)
  BY <1>1, <1>2 DEF Whole, Root
<1>4. blocks = (IF noalloc THEN 0 ELSE 1) /\ Len(Whole) \in Nat
  BY RunningFacts, StackBasics DEF Running, BlocksCounted
<1>5. \/ buffer' = NULL /\ blocks' = blocks - 1 /\ refused' = TRUE /\ ~ noalloc
      \/ buffer' = buffer /\ blocks' = blocks /\ refused' = refused
  BY DEF GiveUp, MayGrow
<1>6. BlocksCounted' /\ PrintTypeOK'
  BY <1>1, <1>2, <1>4, <1>5, RunningFacts DEF BlocksCounted, PrintTypeOK
<1>7. Reason'
  <2>1. CASE refused'
    BY <2>1 DEF Reason
  <2>2. CASE ~ refused'
    <3>1. ~ OffsetValid \/ n > IntMax \/ (Needed(n) > Len(buffer) /\ ~ MayGrow(n))
      BY <2>2 DEF GiveUp
    <3>2. OffsetValid
      BY RunningFacts DEF OffsetValid
    <3>3. n > IntMax \/ Needed(n) > IntMax \/ (noalloc /\ Needed(n) > given)
      <4>1. noalloc => Len(buffer) = given
        BY RunningFacts
      <4>2. IntMax \in Nat /\ Needed(n) \in Nat
        BY RunningFacts DEF Needed
      <4>3. QED BY <3>1, <3>2, <4>1, <4>2 DEF MayGrow
    <3>4. Len(Whole) + 2 > IF noalloc THEN given ELSE IntMax
      <4>1. given <= IntMax /\ given \in Nat /\ IntMax \in Nat /\ offset \in Nat
        BY RunningFacts
      <4>2. QED BY <4>1, <3>3, <1>4 DEF Needed
    <3>5. QED BY <3>4, <1>1, <1>3 DEF Reason
  <2>3. QED BY <2>1, <2>2
<1>8. PrintsTheText' /\ StaysInside' /\ ~ Running' /\ printing' # "true"
  BY <1>1, <1>2, RunningFacts DEF PrintsTheText, StaysInside, Running
<1>9. Len(stack') \in Nat
  BY <1>2 DEF PrintInv
<1>10. QED BY <1>1, <1>6, <1>7, <1>8, <1>9, RunningFacts DEF PrintInv
-----------------------------------------------------------------------------
(* The steps.                                                              *)

LEMMA TopFacts ==
  ASSUME PrintInv, Running, InChild
  PROVE  /\ Len(stack) \in Nat /\ Len(stack) \in 1..Len(stack) /\ Top = stack[Len(stack)]
         /\ Current = CurrentIn(stack, Len(stack)) /\ stack[Len(stack)].next <= Len(stack[Len(stack)].items)
         /\ Fits(Current, Len(stack) - 1) /\ Current \in Items
<1>1. Top = stack[Len(stack)]
  BY DEF Top, Last
<1>2. Len(stack) \in Nat /\ Len(stack) \in 1..Len(stack)
  BY RunningFacts, StackBasics
<1>3. Current = CurrentIn(stack, Len(stack)) /\ stack[Len(stack)].next <= Len(stack[Len(stack)].items)
  BY <1>1 DEF Current, CurrentIn, InChild
<1>4. Fits(Current, Len(stack) - 1)
  BY <1>2, <1>3, RunningFacts, StackBasics
<1>5. QED BY <1>1, <1>2, <1>3, <1>4 DEF Fits

\* The first buffer.
LEMMA BeginStep ==
  ASSUME PrintInv, Begin
  PROVE  PrintInv'
<1>1. Running /\ printing = "start"
  BY DEF Begin, Running
<1>2. call' = call /\ format' = format /\ manual' = manual /\ given' = given /\ noalloc' = noalloc
        /\ offset' = offset /\ depth' = depth /\ stack' = stack /\ outside' = outside
  BY DEF Begin, Same, options, noalloc
<1>3. Whole' = Whole /\ Printable(Root)' = Printable(Root)
  BY <1>2 DEF Whole, Root
<1>4. Len(stack) = 1 /\ offset = 0
  BY <1>1, RunningFacts DEF Placed
<1>5. CASE Go("value") /\ blocks' = (IF noalloc THEN 0 ELSE 1) /\ UNCHANGED <<buffer, refused>>
  <2>1. printing' = "value" /\ buffer' = buffer
    BY <1>5 DEF Go
  <2>2. stack[1].next <= Len(stack[1].items) /\ ValueIn(stack, format, 1) = 0
    <3>1. stack[1].next = 1 /\ Len(stack[1].items) = 1 /\ stack[1].from = 0
      BY RunningFacts, <1>1 DEF Stacked
    <3>2. ElementIn(stack, format, 1) = 0 /\ LabelIn(stack, format, 1) = << >>
      BY <3>1 DEF ElementIn, StartIn, LabelIn
    <3>3. QED BY <3>1, <3>2, ShortTypes DEF ValueIn
  <2>3. Placed'
    BY <1>2, <1>4, <2>1, <2>2 DEF Placed, InChild, Top, Last
  <2>4. PrintsOn'
    BY <1>1, <1>2, <1>3, <2>1, <2>3 DEF PrintsOn, PrintInv
  <2>5. BlocksCounted' /\ PrintTypeOK'
    BY <1>1, <1>2, <1>5, <2>1, RunningFacts DEF BlocksCounted, PrintTypeOK
  <2>6. PrintsTheText' /\ StaysInside'
    BY <1>1, <1>2, <2>1, RunningFacts DEF PrintsTheText, StaysInside
  <2>7. QED BY <1>1, <1>2, <2>1, <2>4, <2>5, <2>6 DEF PrintInv
<1>6. CASE ~ noalloc /\ Go("failed") /\ refused' = TRUE /\ buffer' = NULL /\ UNCHANGED blocks
  <2>1. printing' = "failed" /\ ~ Running'
    BY <1>6 DEF Go, Running
  <2>2. BlocksCounted' /\ PrintTypeOK'
    BY <1>1, <1>2, <1>6, <2>1, RunningFacts DEF BlocksCounted, PrintTypeOK
  <2>3. PrintsTheText' /\ StaysInside' /\ Reason'
    BY <1>1, <1>2, <1>6, <2>1, RunningFacts DEF PrintsTheText, StaysInside, Reason
  <2>4. QED BY <1>1, <1>2, <2>1, <2>2, <2>3 DEF PrintInv
<1>7. QED BY <1>5, <1>6 DEF Begin

\* An item without children is printed.
LEMMA LeafStep ==
  ASSUME PrintInv, print_leaf
  PROVE  PrintInv'
<1>1. Running /\ printing = "value" /\ Current.type \notin {"array", "object", "invalid"}
  BY DEF print_leaf, Running
<1> DEFINE t == Len(stack)
           leaf == Leaf(Current)
<1>2. InChild /\ offset = ValueIn(stack, format, t)
  BY <1>1, RunningFacts DEF Placed
<1>3. t \in Nat /\ t \in 1..Len(stack) /\ Current = CurrentIn(stack, t) /\ Fits(Current, t - 1) /\ Current \in Items
        /\ stack[t].next <= Len(stack[t].items)
  BY <1>1, <1>2, TopFacts
<1>4. leaf = TextIn(stack, format, t)
  <2>1. Text(Current, t - 1, format) = SpelledWith(Current, ValuesOf(Current, t - 1, format), t - 1, format)
    BY <1>1, <1>3, RunningFacts, TextOfItem
  <2>2. QED BY <2>1, <1>1, <1>3 DEF SpelledWith, TextIn
<1>5. Occurs(leaf, Whole, offset) /\ leaf \in Seq(Chars) /\ Len(leaf) \in Nat
  <2>1. leaf \in Seq(Chars) /\ Occurs(leaf, Whole, offset)
    BY <1>1, <1>2, <1>3, <1>4, RunningFacts, Where
  <2> HIDE DEF leaf
  <2>2. QED BY <2>1
<1>6. Valid(Current, t - 1)
  <2>1. Current.type # "invalid" /\ Current.type \notin {"array", "object"}
    BY <1>1
  <2>2. QED BY <1>3, <2>1, ValidItem
<1>7. UNCHANGED options
  BY DEF print_leaf, Same
<1>8. LeafRoom(Current) = Len(leaf) + 1 /\ LeafRoom(Current) \in Nat
  BY <1>5 DEF LeafRoom
<1>9. CASE /\ Put(LeafRoom(Current), Terminated(leaf))
           /\ offset' = IF Current.type = "number" THEN offset + Len(leaf) ELSE offset
           /\ Go("printed") /\ UNCHANGED <<depth, stack>>
  <2>1. Terminated(leaf) \in Seq(Bytes) /\ Len(Terminated(leaf)) = Len(leaf) + 1
    <3> HIDE DEF leaf
    <3> QED BY <1>5 DEF Terminated, Bytes
  <2> DEFINE n == LeafRoom(Current)
             text == Terminated(leaf)
             end == offset + Len(leaf)
  <2>2. n \in Nat /\ n = Len(leaf) + 1 /\ Len(text) <= n + 1 /\ Len(leaf) <= n /\ (text = leaf \/ text = Terminated(leaf))
          /\ Put(n, text)
    BY <1>5, <1>8, <1>9, <2>1
  <2> HIDE DEF n, text, leaf
  <2>3. /\ buffer' \in Seq(Bytes) /\ offset + n < Len(buffer') /\ Solid(buffer', Whole, end)
        /\ buffer'[end + 1] = "zero"
    BY <1>1, <1>5, <2>2, Putting DEF text
  <2>4. format' = format /\ stack' = stack /\ depth' = depth /\ printing' = "printed" /\ Whole' = Whole
          /\ offset \in Nat /\ end = ValueIn(stack, format, t) + Len(TextIn(stack, format, t))
    BY <1>2, <1>4, <1>7, <1>9, RunningFacts, <1>1 DEF options, Go, Whole, Root
  <2>5. offset' \in Nat /\ offset' <= end /\ end < Len(buffer')
    BY <1>5, <1>9, <2>2, <2>3, <2>4
  <2>6. Placed'
    <3> HIDE DEF end
    <3>1. InChild' /\ (Valid(Current, t - 1))'
      BY <1>2, <1>6, <2>4 DEF InChild, Top, Current
    <3>2. ValueIn(stack', format', Len(stack')) + Len(TextIn(stack', format', Len(stack'))) = end
      BY <2>4
    <3>3. QED BY <2>3, <2>4, <2>5, <3>1, <3>2 DEF Placed
  <2>7. stack'[1] = stack[1] /\ depth' = Len(stack') - 1 /\ Stacked(stack', format, Whole)
    BY <1>1, <2>4, RunningFacts
  <2>8. QED BY <1>1, <1>5, <1>7, <2>2, <2>4, <2>5, <2>6, <2>7, PutMoves DEF end
<1>10. CASE GiveUp(LeafRoom(Current))
  <2>1. LeafRoom(Current) + offset <= Len(Whole) + 1
    <3> HIDE DEF leaf
    <3>1. Len(Whole) \in Nat /\ offset \in Nat /\ offset + Len(leaf) <= Len(Whole)
      BY <1>1, <1>5, RunningFacts, StackBasics DEF Occurs
    <3>2. QED BY <3>1, <1>5, <1>8
  <2>2. QED BY <1>1, <1>7, <1>8, <1>10, <2>1, GivingUp
<1>11. QED BY <1>9, <1>10 DEF print_leaf

\* An invalid item cannot be printed.
LEMMA InvalidStep ==
  ASSUME PrintInv, print_invalid
  PROVE  PrintInv'
<1>1. Running /\ printing = "value" /\ Current.type = "invalid"
  BY DEF print_invalid, Running
<1>2. InChild
  BY <1>1, RunningFacts DEF Placed
<1>3. call' = call /\ format' = format /\ manual' = manual /\ given' = given /\ noalloc' = noalloc
        /\ printing' = "false" /\ UNCHANGED <<buffer, offset, depth, stack, blocks, refused, outside>>
  BY DEF print_invalid, Fails, Same, options, noalloc
<1>4. ~ Printable(Root)
  <2>1. ~ Valid(Current, Len(stack) - 1)
    BY <1>1, <1>2, TopFacts, ValidItem
  <2>2. Len(stack) \in 1..Len(stack) /\ Current = CurrentIn(stack, Len(stack))
          /\ stack[Len(stack)].next <= Len(stack[Len(stack)].items)
    BY <1>1, <1>2, TopFacts
  <2>3. QED BY <1>1, <2>1, <2>2, RunningFacts, ValidInside DEF Printable, Root
<1>5. Reason'
  BY <1>3, <1>4 DEF Reason, Root
<1>6. BlocksCounted' /\ PrintTypeOK'
  BY <1>1, <1>3 DEF BlocksCounted, PrintTypeOK, PrintInv
<1>7. PrintsTheText' /\ StaysInside' /\ ~ Running' /\ printing' # "true"
  BY <1>1, <1>3, RunningFacts DEF PrintsTheText, StaysInside, Running
<1>8. QED BY <1>3, <1>5, <1>6, <1>7 DEF PrintInv
\* A step that writes nothing and moves on.
LEMMA Moves ==
  ASSUME PrintInv, Running, printing # "start", UNCHANGED options,
         UNCHANGED <<buffer, depth, stack, blocks, refused>>, outside' => outside,
         printing' \in {"value", "indent", "key", "colon", "printed", "separate", "close"},
         Solid(buffer, Whole, offset'), offset' < Len(buffer) \/ (offset' = 0 /\ given = 0), Placed'
  PROVE  PrintInv'
<1>1. call' = call /\ format' = format /\ manual' = manual /\ given' = given /\ noalloc' = noalloc
  BY DEF options, noalloc
<1>2. Whole' = Whole
  BY <1>1 DEF Whole, Root
<1>3. Running' /\ printing' \notin {"start", "true", "false", "failed"}
  BY DEF Running
<1>4. offset' \in 0..IntMax
  <2>1. offset' \in Nat /\ offset' <= Len(buffer) /\ Len(buffer) \in Nat /\ Len(buffer) <= IntMax /\ IntMax \in Nat
    BY RunningFacts DEF Solid
  <2>2. QED BY <2>1
<1>5. PrintsOn'
  <2>1. Stacked(stack, format, Whole)' /\ Solid(buffer, Whole, offset)'
    BY <1>1, <1>2, RunningFacts
  <2>2. PrintsOn
    BY DEF PrintInv
  <2>3. QED BY <2>1, <2>2, <1>1 DEF PrintsOn
<1>6. BlocksCounted' /\ PrintTypeOK'
  BY <1>1, <1>3, <1>4, RunningFacts DEF BlocksCounted, PrintTypeOK, PrintInv, Running
<1>7. PrintsTheText' /\ StaysInside'
  BY <1>1, <1>3, RunningFacts DEF PrintsTheText, StaysInside
<1>8. QED BY <1>1, <1>3, <1>5, <1>6, <1>7 DEF PrintInv

\* The parts of what an object's child has before its value.
LEMMA LabelOccurs ==
  ASSUME PrintInv, Running, InChild, Top.kind = "object"
  PROVE  LET t    == Len(stack)
             e    == ElementIn(stack, format, t)
             tabs == Tabs(t - 1, format)
             key  == Quoted(Current.string)
         IN  /\ t >= 2 /\ e \in Nat /\ tabs \in Seq(Chars) /\ key \in Seq(Chars) /\ ColonText(format) \in Seq(Chars)
             /\ Occurs(tabs, Whole, e) /\ Occurs(key, Whole, e + Len(tabs))
             /\ Occurs(ColonText(format), Whole, e + Len(tabs) + Len(key))
             /\ ValueIn(stack, format, t) = e + Len(tabs) + Len(key) + Len(ColonText(format))
<1> DEFINE t == Len(stack)
           e == ElementIn(stack, format, t)
           tabs == Tabs(t - 1, format)
           key == Quoted(Current.string)
           colon == ColonText(format)
           w == Whole
<1>1. t \in Nat /\ t \in 1..Len(stack) /\ Top = stack[t] /\ Current = CurrentIn(stack, t) /\ Current \in Items
        /\ stack[t].next <= Len(stack[t].items)
  BY TopFacts
<1>2. t >= 2
  <2>1. stack[1].kind = "root"
    BY RunningFacts DEF Stacked
  <2>2. t # 1
    BY <2>1, <1>1
  <2>3. t \in Nat /\ t >= 1
    BY RunningFacts, StackBasics
  <2> HIDE DEF t
  <2>4. QED BY <2>2, <2>3
<1>3. tabs \in Seq(Chars) /\ key \in Seq(Chars) /\ colon \in Seq(Chars)
  <2>1. t - 1 \in Nat /\ format \in BOOLEAN /\ TRUE \in BOOLEAN
    BY <1>1, RunningFacts
  <2>2. tabs \in Seq(Chars) /\ colon \in Seq(Chars)
    BY <2>1, PartTypes
  <2>3. key \in Seq(Chars)
    BY <1>1, ItemType, QuotedType
  <2>4. QED BY <2>2, <2>3
<1>4. LabelIn(stack, format, t) = tabs \o key \o colon
  <2>1. (t - 2) + 1 = t - 1 /\ t # 1
    BY <1>2, <1>1
  <2>2. QED BY <2>1, <1>1 DEF LabelIn, Label
<1>5. /\ e \in Nat /\ w \in Seq(Chars) /\ Occurs(LabelIn(stack, format, t), w, e)
      /\ ValueIn(stack, format, t) = e + Len(LabelIn(stack, format, t))
  BY <1>1, RunningFacts, StackBasics, Where
<1> DEFINE value == ValueIn(stack, format, t)
           label == LabelIn(stack, format, t)
<1>6. Occurs(tabs \o key \o colon, w, e) /\ value = e + Len(tabs \o key \o colon)
  BY <1>4, <1>5
<1> HIDE DEF t, e, tabs, key, colon, w, value, label
<1>7. /\ tabs \o key \in Seq(Chars) /\ Len(tabs \o key) = Len(tabs) + Len(key) /\ Len(tabs) \in Nat /\ Len(key) \in Nat
      /\ Len(tabs \o key \o colon) = Len(tabs) + Len(key) + Len(colon) /\ Len(colon) \in Nat
  BY <1>3, Concat
<1>8. Occurs(tabs \o key, w, e) /\ Occurs(colon, w, e + Len(tabs \o key))
  BY <1>3, <1>5, <1>6, <1>7, OccursConcat
<1>9. Occurs(tabs, w, e) /\ Occurs(key, w, e + Len(tabs))
  BY <1>3, <1>5, <1>8, OccursConcat
<1>10. e + Len(tabs \o key) = e + Len(tabs) + Len(key) /\ value = e + Len(tabs) + Len(key) + Len(colon)
  BY <1>5, <1>6, <1>7
<1>11. QED BY <1>2, <1>3, <1>5, <1>8, <1>9, <1>10 DEF t, e, tabs, key, colon, w, value

\* The tabs before an object's child.
LEMMA IndentStep ==
  ASSUME PrintInv, Indent
  PROVE  PrintInv'
<1>1. Running /\ printing = "indent" /\ UNCHANGED options
  BY DEF Indent, Running, Same
<1> DEFINE t == Len(stack)
           e == ElementIn(stack, format, t)
           tabs == Tabs(t - 1, format)
<1>2. InChild /\ Top.kind = "object" /\ offset = e
  BY <1>1, RunningFacts DEF Placed
<1>3. t \in Nat /\ t >= 2 /\ tabs \in Seq(Chars) /\ Occurs(tabs, Whole, offset) /\ depth = t - 1 /\ offset \in Nat
        /\ format \in BOOLEAN
  BY <1>1, <1>2, LabelOccurs, RunningFacts, StackBasics
<1>4. Len(tabs) = (IF format THEN t - 1 ELSE 0) /\ depth \in Nat
  <2> HIDE DEF t
  <2>1. t - 1 \in Nat
    BY <1>3
  <2>2. QED BY <2>1, <1>3, PartTypes
<1>5. ASSUME stack' = stack, printing' = "key", offset' = e + Len(tabs) PROVE Placed'
  <2>1. format' = format
    BY <1>1 DEF options
  <2>2. InChild' /\ (Top.kind = "object")'
    BY <1>2, <1>5 DEF InChild, Top
  <2>3. QED BY <1>5, <2>1, <2>2 DEF Placed
<1>6. CASE ~ format /\ Go("key") /\ UNCHANGED <<buffer, offset, depth, stack, blocks, refused, outside>>
  <2>1. printing' = "key" /\ offset' = e + Len(tabs) /\ offset' = offset
    BY <1>2, <1>3, <1>4, <1>6 DEF Go
  <2>2. Placed'
    BY <2>1, <1>5, <1>6
  <2>3. Solid(buffer, Whole, offset') /\ (offset' < Len(buffer) \/ (offset' = 0 /\ given = 0))
    BY <2>1, <1>1, RunningFacts
  <2>4. UNCHANGED <<buffer, depth, stack, blocks, refused>> /\ (outside' => outside)
    BY <1>6
  <2>5. QED BY <1>1, <2>1, <2>2, <2>3, <2>4, Moves
<1>7. CASE /\ format /\ Put(depth, Blank(depth)) /\ offset' = offset + depth
           /\ Go("key") /\ UNCHANGED <<depth, stack>>
  <2>1. Blank(depth) = tabs /\ Len(tabs) = depth /\ depth \in Nat
    BY <1>3, <1>4, <1>7 DEF Tabs
  <2>2. printing' = "key" /\ offset' = e + Len(tabs) /\ offset' = offset + Len(tabs) /\ stack' = stack /\ depth' = depth
    BY <1>2, <1>7, <2>1 DEF Go
  <2>3. Placed'
    BY <2>2, <1>5
  <2>4. offset' \in Nat /\ offset' <= offset + Len(tabs)
    BY <2>1, <2>2, <1>3
  <2>5. Put(depth, tabs) /\ Len(tabs) <= depth + 1 /\ Len(tabs) <= depth
    <3>1. Put(depth, tabs)
      BY <1>7, <2>1
    <3> HIDE DEF tabs
    <3>2. QED BY <3>1, <2>1
  <2>6. stack'[1] = stack[1] /\ depth' = Len(stack') - 1 /\ Stacked(stack', format, Whole)
    BY <1>1, <2>2, RunningFacts
  <2> HIDE DEF tabs
  <2>7. QED BY <1>1, <1>3, <2>1, <2>2, <2>3, <2>4, <2>5, <2>6, PutMoves
<1>8. CASE format /\ GiveUp(depth)
  <2>1. depth \in Nat /\ Len(tabs) = depth
    <3> HIDE DEF tabs, t
    <3> QED BY <1>3, <1>4, <1>8
  <2>2. depth + offset <= Len(Whole) + 1
    <3> HIDE DEF tabs
    <3>1. Len(Whole) \in Nat /\ offset + Len(tabs) <= Len(Whole)
      BY <1>1, <1>3, RunningFacts, StackBasics DEF Occurs
    <3>2. QED BY <3>1, <2>1, <1>3
  <2>3. QED BY <1>1, <1>8, <2>1, <2>2, GivingUp
<1>9. QED BY <1>6, <1>7, <1>8 DEF Indent

\* The key.
LEMMA KeyStep ==
  ASSUME PrintInv, Key
  PROVE  PrintInv'
<1>1. Running /\ printing = "key" /\ UNCHANGED options
  BY DEF Key, Running, Same
<1> DEFINE t == Len(stack)
           e == ElementIn(stack, format, t)
           tabs == Tabs(t - 1, format)
           chars == Quoted(Current.string)
           n == Len(chars) + 1
           text == Terminated(chars)
<1>2. InChild /\ Top.kind = "object" /\ offset = e + Len(tabs)
  BY <1>1, RunningFacts DEF Placed
<1>3. chars \in Seq(Chars) /\ Occurs(chars, Whole, offset) /\ offset \in Nat /\ Whole \in Seq(Chars)
  BY <1>1, <1>2, LabelOccurs, RunningFacts, StackBasics
<1>4. Len(chars) \in Nat /\ n \in Nat /\ n = Len(chars) + 1 /\ Len(text) <= n + 1 /\ Len(chars) <= n
        /\ (text = chars \/ text = Terminated(chars))
  <2>1. Len(text) = Len(chars) + 1
    <3> HIDE DEF chars
    <3> QED BY <1>3 DEF Terminated
  <2>2. Len(chars) \in Nat
    <3> HIDE DEF chars
    <3> QED BY <1>3
  <2> HIDE DEF chars, text
  <2>3. QED BY <2>1, <2>2 DEF text
<1>5. CASE /\ Put(n, text) /\ offset' = offset + LengthOf(buffer', offset)
           /\ Go("colon") /\ UNCHANGED <<depth, stack>>
  <2> HIDE DEF n, text, chars
  <2>1. /\ buffer' \in Seq(Bytes) /\ offset + n < Len(buffer') /\ Solid(buffer', Whole, offset + Len(chars))
        /\ buffer'[offset + Len(chars) + 1] = "zero"
    BY <1>1, <1>3, <1>4, <1>5, Putting DEF text
  <2>2. \A j \in (offset + 1)..(offset + Len(chars)) : buffer'[j] # "zero"
    <3> TAKE j \in (offset + 1)..(offset + Len(chars))
    <3>1. buffer'[j] = Whole[j] /\ j \in 1..Len(Whole)
      BY <2>1, <1>3, <1>4 DEF Solid, Occurs
    <3>2. Whole[j] \in Chars
      BY <3>1, <1>3
    <3>3. QED BY <3>1, <3>2, MarksAreChars
  <2>3. LengthOf(buffer', offset) = (offset + Len(chars)) - offset
    <3>1. offset <= offset + Len(chars) /\ offset + Len(chars) < Len(buffer') /\ offset + Len(chars) \in Nat
      BY <2>1, <1>3, <1>4
    <3>2. QED BY <3>1, <2>1, <2>2, <1>3, LengthOfText
  <2>4. offset' = offset + Len(chars) /\ offset' \in Nat /\ offset' <= offset + Len(chars)
    BY <2>3, <1>3, <1>4, <1>5
  <2>5. printing' = "colon" /\ stack' = stack /\ depth' = depth /\ format' = format
    BY <1>1, <1>5 DEF Go, options
  <2>6. Placed'
    <3>1. InChild' /\ (Top.kind = "object")' /\ Current' = Current
      BY <1>2, <2>5 DEF InChild, Top, Current
    <3>2. offset' = e + Len(tabs) + Len(Quoted(Current.string))
      BY <1>2, <2>4 DEF chars
    <3>3. QED BY <2>5, <3>1, <3>2 DEF Placed
  <2>7. stack'[1] = stack[1] /\ depth' = Len(stack') - 1 /\ Stacked(stack', format, Whole)
    BY <1>1, <2>5, RunningFacts
  <2>8. QED BY <1>1, <1>3, <1>4, <1>5, <2>4, <2>5, <2>6, <2>7, PutMoves
<1>6. CASE GiveUp(n)
  <2> HIDE DEF n, chars
  <2>1. n + offset <= Len(Whole) + 1
    <3>1. Len(Whole) \in Nat /\ offset + Len(chars) <= Len(Whole)
      BY <1>3 DEF Occurs
    <3>2. QED BY <3>1, <1>3, <1>4
  <2>2. QED BY <1>1, <1>4, <1>6, <2>1, GivingUp
<1>7. QED BY <1>5, <1>6 DEF Key

\* The colon.
LEMMA ColonStep ==
  ASSUME PrintInv, Colon
  PROVE  PrintInv'
<1>1. Running /\ printing = "colon" /\ UNCHANGED options
  BY DEF Colon, Running, Same
<1> DEFINE t == Len(stack)
           e == ElementIn(stack, format, t)
           tabs == Tabs(t - 1, format)
           key == Quoted(Current.string)
           chars == ColonText(format)
<1>2. InChild /\ Top.kind = "object" /\ offset = e + Len(tabs) + Len(key)
  BY <1>1, RunningFacts DEF Placed
<1>3. chars \in Seq(Chars) /\ Occurs(chars, Whole, offset) /\ offset \in Nat /\ Whole \in Seq(Chars)
        /\ offset + Len(chars) = ValueIn(stack, format, t)
  BY <1>1, <1>2, LabelOccurs, RunningFacts, StackBasics
<1>4. Len(chars) \in Nat
  <2> HIDE DEF chars
  <2> QED BY <1>3
<1>5. CASE /\ Put(Len(chars), chars) /\ offset' = offset + Len(chars)
           /\ Go("value") /\ UNCHANGED <<depth, stack>>
  <2>1. printing' = "value" /\ stack' = stack /\ depth' = depth /\ format' = format
    BY <1>1, <1>5 DEF Go, options
  <2>2. Placed'
    <3>1. InChild'
      BY <1>2, <2>1 DEF InChild, Top
    <3>2. offset' = ValueIn(stack, format, t)
      BY <1>3, <1>5
    <3>3. QED BY <2>1, <3>1, <3>2 DEF Placed
  <2> HIDE DEF chars
  <2>3. offset' \in Nat /\ offset' <= offset + Len(chars) /\ Len(chars) <= Len(chars) + 1 /\ Len(chars) <= Len(chars)
    BY <1>3, <1>4, <1>5
  <2>4. stack'[1] = stack[1] /\ depth' = Len(stack') - 1 /\ Stacked(stack', format, Whole)
    BY <1>1, <2>1, RunningFacts
  <2>5. QED BY <1>1, <1>3, <1>4, <1>5, <2>1, <2>2, <2>3, <2>4, PutMoves
<1>6. CASE GiveUp(Len(chars))
  <2> HIDE DEF chars
  <2>1. Len(chars) + offset <= Len(Whole) + 1
    <3>1. Len(Whole) \in Nat /\ offset + Len(chars) <= Len(Whole)
      BY <1>3 DEF Occurs
    <3>2. QED BY <3>1, <1>3, <1>4
  <2>2. QED BY <1>1, <1>4, <1>6, <2>1, GivingUp
<1>7. QED BY <1>5, <1>6 DEF Colon
\* An array or an object is opened.
LEMMA OpenStep ==
  ASSUME PrintInv, Open
  PROVE  PrintInv'
<1>1. Running /\ printing = "value" /\ Current.type \in {"array", "object"} /\ UNCHANGED options
  BY DEF Open, Running, Same
<1> DEFINE t == Len(stack)
           chars == OpenText(Current.type, format)
           room == IF Current.type = "array" THEN 1 ELSE Len(chars) + 1
           u == stack'
<1>2. InChild /\ offset = ValueIn(stack, format, t) /\ offset \in Nat /\ format \in BOOLEAN
  BY <1>1, RunningFacts DEF Placed
<1>3. /\ t \in Nat /\ t \in 1..Len(stack) /\ Current = CurrentIn(stack, t) /\ Current \in Items
      /\ stack[t].next <= Len(stack[t].items) /\ Fits(Current, t - 1)
  BY <1>1, <1>2, TopFacts
<1>4. chars \in Seq(Chars) /\ (Current.type = "array" => Len(chars) = 1)
  <2>1. TRUE \in BOOLEAN /\ 0 \in Nat
    OBVIOUS
  <2>2. QED BY <1>2, <2>1, PartTypes
<1>5. Len(chars) \in Nat /\ room \in Nat /\ Len(chars) <= room + 1 /\ Len(chars) <= room /\ room <= Len(chars) + 1
  <2>1. Len(chars) \in Nat
    <3> HIDE DEF chars
    <3> QED BY <1>4
  <2>2. (room = 1 /\ Len(chars) = 1) \/ room = Len(chars) + 1
    BY <1>4
  <2> HIDE DEF chars, room
  <2>3. QED BY <2>1, <2>2
<1>6. Occurs(chars, Whole, offset) /\ Whole \in Seq(Chars)
  <2> DEFINE values == ValuesOf(Current, t - 1, format)
  <2>1. /\ values \in Seq(Seq(Chars)) /\ Len(values) = Len(Current.children)
        /\ Text(Current, t - 1, format) = SpelledWith(Current, values, t - 1, format)
    BY <1>2, <1>3, TextOfItem
  <2>2. Occurs(TextIn(stack, format, t), Whole, offset) /\ Whole \in Seq(Chars)
    BY <1>1, <1>2, <1>3, RunningFacts, Where, StackBasics
  <2>3. Occurs(SpelledWith(Current, values, t - 1, format), Whole, offset) /\ t - 1 \in Nat
    BY <2>1, <2>2, <1>3 DEF TextIn
  <2> HIDE DEF values
  <2>4. QED BY <2>1, <2>2, <2>3, <1>1, <1>2, <1>3, PartsOccur
<1>7. CASE /\ Put(room, chars) /\ offset' = offset + Len(chars)
           /\ depth' = depth + 1
           /\ stack' = Append(stack, [kind |-> Current.type, items |-> Current.children,
                                      next |-> 1, from |-> offset])
           /\ Go(IF Current.children = << >> THEN "close"
                 ELSE IF Current.type = "array" THEN "value" ELSE "indent")
  <2> DEFINE frame == [kind |-> Current.type, items |-> Current.children, next |-> 1, from |-> offset]
  <2>1. /\ Current.children \in Seq(Items) /\ Len(Current.children) \in Nat
        /\ (Current.children = << >> <=> Len(Current.children) = 0)
    BY <1>3, ItemType
  <2>2. frame \in Frame /\ frame.kind = Current.type /\ frame.items = Current.children /\ frame.next = 1
          /\ frame.from = offset
    BY <1>1, <1>2, <2>1 DEF Frame
  <2>3. u \in Seq(Frame) /\ Len(u) = t + 1 /\ (\A j \in 1..t : u[j] = stack[j]) /\ u[t + 1] = frame
    <3>1. stack \in Seq(Frame) /\ u = Append(stack, frame)
      BY <1>1, <1>7, RunningFacts, StackBasics
    <3> HIDE DEF frame
    <3>2. QED BY <3>1, <2>2
  <2>4. /\ u[t + 1].kind = Current.type /\ u[t + 1].items = Current.children /\ u[t + 1].next = 1
        /\ u[t + 1].from = ValueIn(stack, format, t)
    BY <2>2, <2>3, <1>2
  <2>5. /\ Stacked(u, format, Whole) /\ u[1] = stack[1]
        /\ ElementIn(u, format, t + 1) = ValueIn(stack, format, t) + Len(OpenText(Current.type, format))
    <3>1. Stacked(stack, format, Whole)
      BY <1>1, RunningFacts
    <3>2. PICK v : v = u
      OBVIOUS
    <3>3. /\ v \in Seq(Frame) /\ Len(v) = t + 1 /\ (\A j \in 1..t : v[j] = stack[j])
          /\ v[t + 1].kind = Current.type /\ v[t + 1].items = Current.children /\ v[t + 1].next = 1
          /\ v[t + 1].from = ValueIn(stack, format, t)
      BY <2>3, <2>4, <3>2
    <3>4. /\ Stacked(v, format, Whole) /\ v[1] = stack[1]
          /\ ElementIn(v, format, t + 1) = ValueIn(stack, format, t) + Len(OpenText(Current.type, format))
      BY <3>1, <3>3, <1>1, <1>2, <1>3, Pushed
    <3>5. QED BY <3>2, <3>4
  <2>6. ElementIn(u, format, t + 1) = offset + Len(chars) /\ format' = format
    BY <1>1, <1>2, <2>5 DEF options
  <2>7. Top' = u[t + 1] /\ Len(stack') = t + 1
    BY <2>3 DEF Top, Last
  <2>8. printing' = (IF Current.children = << >> THEN "close" ELSE IF Current.type = "array" THEN "value" ELSE "indent")
    BY <1>7 DEF Go
  <2>9. Placed'
    <3>1. CASE Current.children = << >>
      <4>1. CloseIn(u, format, t + 1) = ElementIn(u, format, t + 1)
        <5>1. Len(u[t + 1].items) + 1 = u[t + 1].next
          BY <2>1, <2>4, <3>1
        <5>2. QED BY <5>1 DEF CloseIn, ElementIn
      <4>2. Len(Top'.items) = 0 /\ t + 1 >= 2
        BY <2>1, <2>4, <2>7, <3>1, <1>3
      <4>3. \A j \in 1..Len(Top'.items) : (Valid(Top.items[j], Len(stack) - 1))'
        BY <4>2
      <4>4. printing' = "close" /\ offset' = CloseIn(u, format, t + 1)
        BY <1>7, <2>6, <2>8, <3>1, <4>1
      <4>5. QED BY <2>6, <2>7, <4>2, <4>3, <4>4 DEF Placed
    <3>2. CASE Current.children # << >>
      <4>1. InChild'
        BY <2>1, <2>4, <2>7, <3>2 DEF InChild
      <4>2. CASE Current.type = "array"
        <5>1. printing' = "value"
          BY <2>8, <3>2, <4>2
        <5>2. LabelIn(u, format, t + 1) = << >>
          <6>1. t + 1 # 1 /\ u[t + 1].kind = "array"
            BY <1>3, <2>4, <4>2
          <6>2. QED BY <6>1 DEF LabelIn, Label
        <5>3. ValueIn(u, format, t + 1) = (offset + Len(chars)) + 0
          BY <2>6, <5>2, ShortTypes DEF ValueIn
        <5>4. offset' = ValueIn(u, format, t + 1)
          <6> HIDE DEF chars
          <6> QED BY <5>3, <1>2, <1>5, <1>7
        <5>5. QED BY <2>6, <2>7, <4>1, <5>1, <5>4 DEF Placed
      <4>3. CASE Current.type # "array"
        <5>1. printing' = "indent" /\ Current.type = "object"
          BY <1>1, <2>8, <3>2, <4>3
        <5>2. (Top.kind = "object")' /\ offset' = ElementIn(u, format, t + 1)
          BY <1>7, <2>4, <2>6, <2>7, <5>1
        <5>3. QED BY <2>6, <2>7, <4>1, <5>1, <5>2 DEF Placed
      <4>4. QED BY <4>2, <4>3
    <3>3. QED BY <3>1, <3>2
  <2>10. depth' = Len(stack') - 1
    BY <1>1, <1>3, <1>7, <2>7, RunningFacts
  <2>11. offset' \in Nat /\ offset' <= offset + Len(chars)
    <3> HIDE DEF chars
    <3> QED BY <1>2, <1>5, <1>7
  <2>12. printing' \in {"value", "indent", "key", "colon", "printed", "separate", "close"}
    BY <2>8
  <2>13. Put(room, chars)
    BY <1>7
  <2> HIDE DEF chars, room
  <2>14. QED BY <1>1, <1>4, <1>5, <1>6, <2>5, <2>9, <2>10, <2>11, <2>12, <2>13, PutMoves
<1>8. CASE GiveUp(room)
  <2> HIDE DEF chars, room
  <2>1. room + offset <= Len(Whole) + 1
    <3>1. Len(Whole) \in Nat /\ offset + Len(chars) <= Len(Whole)
      BY <1>6 DEF Occurs
    <3>2. QED BY <3>1, <1>2, <1>5
  <2>2. QED BY <1>1, <1>5, <1>8, <2>1, GivingUp
<1>9. QED BY <1>7, <1>8 DEF Open

\* What stands behind the current child of an array or an object.
LEMMA AfterTop ==
  ASSUME PrintInv, Running, InChild, Top.kind # "root"
  PROVE  LET t     == Len(stack)
             after == IF Top.kind = "array" /\ ~ More THEN << >> ELSE Separator
             end   == ValueIn(stack, format, t) + Len(TextIn(stack, format, t))
         IN  /\ t \in 2..Len(stack) /\ Top.kind \in {"array", "object"} /\ Top.next \in Nat \ {0} /\ Len(Top.items) \in Nat
             /\ end \in Nat /\ after \in Seq(Chars) /\ Occurs(after, Whole, end)
             /\ Top.from + StartIn(stack, format, t, Top.next + 1) = end + Len(after)
<1> DEFINE t == Len(stack)
           holder == HolderIn(stack, t)
           after == After(holder, Top.next, format)
           end == ValueIn(stack, format, t) + Len(TextIn(stack, format, t))
<1>1. t \in Nat /\ t \in 1..Len(stack) /\ Top = stack[t] /\ stack[t].next <= Len(stack[t].items)
  BY TopFacts
<1>2. t \in 2..Len(stack) /\ t >= 2
  <2>1. stack[1].kind = "root"
    BY RunningFacts DEF Stacked
  <2>2. t # 1
    BY <2>1, <1>1
  <2> HIDE DEF t
  <2>3. QED BY <2>2, <1>1
<1>3. Top.next \in Nat \ {0} /\ Len(Top.items) \in Nat
  BY <1>1, RunningFacts, StackBasics
<1>4. holder.type \in {"array", "object"} /\ Top.kind = holder.type /\ Top.items = holder.children
  BY <1>1, <1>2, RunningFacts DEF Stacked, Nested
<1>5. after = IF Top.kind = "array" /\ ~ More THEN << >> ELSE Separator
  <2>1. Top.next <= Len(Top.items)
    BY <1>1
  <2>2. (Top.next = Len(holder.children) <=> ~ More) /\ (Top.next < Len(holder.children)) = More
    <3> HIDE DEF holder
    <3> QED BY <2>1, <1>3, <1>4 DEF More
  <2> HIDE DEF holder
  <2>3. QED BY <2>2, <1>4 DEF After, Separator
<1>6. /\ after \in Seq(Chars) /\ end \in Nat /\ Occurs(after, Whole, end)
      /\ Top.from + StartIn(stack, format, t, Top.next + 1) = end + Len(after)
  <2>1. Stacked(stack, format, Whole) /\ format \in BOOLEAN
    BY RunningFacts
  <2>2. QED BY <2>1, <1>1, <1>2, Where
<1> HIDE DEF after
<1>7. QED BY <1>2, <1>3, <1>4, <1>5, <1>6

\* One has been printed: the text's end is looked for.
LEMMA TextEnds ==
  ASSUME PrintInv, Running, printing = "printed"
  PROVE  LET t   == Len(stack)
             end == ValueIn(stack, format, t) + Len(TextIn(stack, format, t))
         IN  /\ InChild /\ Valid(Current, t - 1) /\ end \in Nat /\ end < Len(buffer) /\ Solid(buffer, Whole, end)
             /\ buffer[end + 1] = "zero" /\ offset + LengthOf(buffer, offset) = end /\ ~ Unterminated
<1> DEFINE t == Len(stack)
           end == ValueIn(stack, format, t) + Len(TextIn(stack, format, t))
<1>1. /\ InChild /\ Valid(Current, t - 1) /\ offset <= end /\ end < Len(buffer) /\ Solid(buffer, Whole, end)
      /\ buffer[end + 1] = "zero"
  BY RunningFacts DEF Placed
<1>2. end \in Nat /\ offset \in Nat /\ buffer \in Seq(Bytes) /\ Len(buffer) \in Nat /\ Whole \in Seq(Chars)
  BY <1>1, RunningFacts, StackBasics DEF Solid
<1>3. end <= Len(Whole)
  <2>1. Occurs(TextIn(stack, format, t), Whole, ValueIn(stack, format, t))
    BY <1>1, RunningFacts, TopFacts, Where
  <2>2. QED BY <2>1 DEF Occurs
<1> HIDE DEF end
<1>4. \A j \in (offset + 1)..end : buffer[j] # "zero"
  <2> TAKE j \in (offset + 1)..end
  <2>1. j \in 1..Len(Whole) /\ j \in 1..end
    BY <1>2, <1>3
  <2>2. buffer[j] = Whole[j] /\ Whole[j] \in Chars
    BY <2>1, <1>1, <1>2 DEF Solid
  <2>3. QED BY <2>2, MarksAreChars
<1>5. LengthOf(buffer, offset) = end - offset
  BY <1>1, <1>2, <1>4, LengthOfText
<1>6. ~ Unterminated
  <2>1. end + 1 \in (offset + 1)..Len(buffer)
    BY <1>1, <1>2
  <2>2. QED BY <2>1, <1>1 DEF Unterminated
<1>7. QED BY <1>1, <1>2, <1>5, <1>6 DEF end

LEMMA PrintedStep ==
  ASSUME PrintInv, Printed
  PROVE  PrintInv'
<1>1. /\ Running /\ printing = "printed" /\ UNCHANGED options /\ Top.kind # "root"
      /\ UNCHANGED <<buffer, depth, stack, blocks, refused>> /\ outside' = (outside \/ Unterminated)
      /\ offset' = offset + LengthOf(buffer, offset)
      /\ printing' = (IF Top.kind = "array" /\ ~ More THEN "close" ELSE "separate")
  BY DEF Printed, Running, Same, Go
<1> DEFINE t == Len(stack)
           end == ValueIn(stack, format, t) + Len(TextIn(stack, format, t))
<1>2. /\ InChild /\ Valid(Current, t - 1) /\ end \in Nat /\ end < Len(buffer) /\ Solid(buffer, Whole, end)
      /\ offset' = end /\ ~ Unterminated
  BY <1>1, TextEnds
<1>3. /\ t \in 2..Len(stack) /\ t >= 2 /\ Top.kind \in {"array", "object"} /\ Top.next \in Nat \ {0} /\ Len(Top.items) \in Nat
      /\ Top.from + StartIn(stack, format, t, Top.next + 1) =
           end + Len(IF Top.kind = "array" /\ ~ More THEN << >> ELSE Separator)
  <2>1. t \in 2..Len(stack) /\ Top.kind \in {"array", "object"} /\ Top.next \in Nat \ {0} /\ Len(Top.items) \in Nat
      /\ Top.from + StartIn(stack, format, t, Top.next + 1) =
           end + Len(IF Top.kind = "array" /\ ~ More THEN << >> ELSE Separator)
    BY <1>1, <1>2, AfterTop
  <2>2. t >= 2
    BY <2>1, RunningFacts, StackBasics, <1>1
  <2>3. QED BY <2>1, <2>2
<1>4. Top' = Top /\ More' = More /\ Current' = Current /\ InChild' /\ format' = format
        /\ ValueIn(stack, format, t)' = ValueIn(stack, format, t) /\ TextIn(stack, format, t)' = TextIn(stack, format, t)
  BY <1>1, <1>2 DEF Top, More, Current, InChild, options
<1>5. Placed'
  <2>1. CASE Top.kind = "array" /\ ~ More
    <3>1. Top.next = Len(Top.items) /\ Top = stack[t]
      BY <1>2, <1>3, <2>1 DEF InChild, More, Top, Last
    <3>2. CloseIn(stack, format, t) = Top.from + StartIn(stack, format, t, Top.next + 1)
      BY <3>1 DEF CloseIn
    <3>3. CloseIn(stack, format, t) = end
      <4>1. Top.from + StartIn(stack, format, t, Top.next + 1) = end + 0
        BY <2>1, <1>3, ShortTypes
      <4> HIDE DEF end
      <4>2. QED BY <4>1, <3>2, <1>2
    <3>4. \A j \in 1..Len(Top.items) : Valid(Top.items[j], t - 1)
      <4> TAKE j \in 1..Len(Top.items)
      <4>1. CASE j < Top.next
        <5>1. t \in 1..Len(stack)
          BY <1>3, RunningFacts, StackBasics, <1>1
        <5>2. QED BY <5>1, <4>1, <3>1, <1>1, RunningFacts DEF Stacked
      <4>2. CASE ~ (j < Top.next)
        <5>1. j = Top.next
          BY <4>2, <3>1, <1>3
        <5>2. QED BY <5>1, <1>2 DEF Current
      <4>3. QED BY <4>1, <4>2
    <3>5. printing' = "close" /\ offset' = CloseIn(stack, format, t)
      BY <1>1, <1>2, <2>1, <3>3
    <3>6. QED BY <1>1, <1>3, <1>4, <3>4, <3>5 DEF Placed
  <2>2. CASE ~ (Top.kind = "array" /\ ~ More)
    <3>1. printing' = "separate" /\ (Top.kind = "object" \/ (Top.kind = "array" /\ More))
      BY <1>1, <1>3, <2>2
    <3>2. QED BY <1>1, <1>2, <1>4, <3>1 DEF Placed
  <2>3. QED BY <2>1, <2>2
<1>6. printing' \in {"value", "indent", "key", "colon", "printed", "separate", "close"}
  BY <1>1
<1>7. QED BY <1>1, <1>2, <1>5, <1>6, Moves
\* What stands between two children, or after an object's last one.
LEMMA SeparateStep ==
  ASSUME PrintInv, Separate
  PROVE  PrintInv'
<1>1. Running /\ printing = "separate" /\ UNCHANGED options
  BY DEF Separate, Running, Same
<1> DEFINE t == Len(stack)
           chars == Separator
           n == Len(chars) + 1
           text == Terminated(chars)
           end == ValueIn(stack, format, t) + Len(TextIn(stack, format, t))
<1>2. /\ InChild /\ Valid(Current, t - 1) /\ offset = end
      /\ (Top.kind = "object" \/ (Top.kind = "array" /\ More))
  BY <1>1, RunningFacts DEF Placed
<1>3. /\ t \in 2..Len(stack) /\ Top.kind \in {"array", "object"} /\ Top.next \in Nat \ {0} /\ Len(Top.items) \in Nat
      /\ chars \in Seq(Chars) /\ Occurs(chars, Whole, offset) /\ offset \in Nat
      /\ Top.from + StartIn(stack, format, t, Top.next + 1) = offset + Len(chars)
  <2>1. (IF Top.kind = "array" /\ ~ More THEN << >> ELSE Separator) = chars
    BY <1>2
  <2>2. Top.kind # "root"
    BY <1>2
  <2>3. QED BY <2>1, <2>2, <1>1, <1>2, AfterTop
<1>4. t \in Nat /\ t >= 2 /\ t \in 1..Len(stack) /\ Top = stack[t] /\ Whole \in Seq(Chars)
        /\ Current = CurrentIn(stack, t)
  <2>1. t \in Nat /\ t \in 1..Len(stack) /\ Top = stack[t] /\ Whole \in Seq(Chars) /\ Current = CurrentIn(stack, t)
    BY <1>1, <1>2, TopFacts, RunningFacts, StackBasics
  <2> HIDE DEF t
  <2>2. QED BY <2>1, <1>3
<1>5. Len(chars) \in Nat /\ n \in Nat /\ n = Len(chars) + 1 /\ Len(text) <= n + 1 /\ Len(chars) <= n
        /\ (text = chars \/ text = Terminated(chars))
  <2>1. Len(text) = Len(chars) + 1
    <3> HIDE DEF chars
    <3> QED BY <1>3 DEF Terminated
  <2>2. Len(chars) \in Nat
    <3> HIDE DEF chars
    <3> QED BY <1>3
  <2> HIDE DEF chars, text
  <2>3. QED BY <2>1, <2>2 DEF text
<1>6. CASE /\ Put(n, text) /\ offset' = offset + Len(chars)
           /\ stack' = IF More THEN [stack EXCEPT ![Len(stack)].next = @ + 1] ELSE stack
           /\ Go(CASE ~ More -> "close" [] More /\ Top.kind = "array" -> "value" [] OTHER -> "indent")
           /\ UNCHANGED depth
  <2>0. format' = format
    BY <1>1 DEF options
  <2>1. offset' \in Nat /\ offset' <= offset + Len(chars)
    <3> HIDE DEF chars
    <3> QED BY <1>3, <1>5, <1>6
  <2>2. CASE More
    <3>1. PICK v : v = stack'
      OBVIOUS
    <3>2. v = [stack EXCEPT ![Len(stack)].next = @ + 1]
      BY <1>6, <2>2, <3>1
    <3>3. stack[t].next < Len(stack[t].items) /\ Valid(CurrentIn(stack, t), t - 1) /\ Stacked(stack, format, Whole)
            /\ format \in BOOLEAN
      BY <1>1, <1>2, <1>4, <2>2, RunningFacts DEF More
    <3>4. /\ v \in Seq(Frame) /\ Len(v) = t /\ (\A j \in 1..(t - 1) : v[j] = stack[j])
          /\ v[t].kind = stack[t].kind /\ v[t].items = stack[t].items /\ v[t].next = stack[t].next + 1
          /\ v[t].from = stack[t].from
      <4>1. stack \in Seq(Frame) /\ Len(stack) >= 1
        BY <3>3, StackBasics
      <4>2. QED BY <3>2, <4>1, NextFrame
    <3>4a. /\ Stacked(v, format, Whole) /\ v[1] = stack[1]
           /\ ElementIn(v, format, t) = stack[t].from + StartIn(stack, format, t, stack[t].next + 1)
      <4>1. t >= 2
        BY <1>4
      <4>2. QED BY <3>3, <3>4, <4>1, Advanced
    <3>5. Top' = v[t] /\ Len(stack') = t /\ ElementIn(stack', format, t) = offset + Len(chars)
      BY <1>3, <1>4, <3>1, <3>4, <3>4a DEF Top, Last
    <3>6. InChild'
      <4>1. Top'.next = Top.next + 1 /\ Top'.items = Top.items
        BY <1>4, <3>4, <3>5
      <4>2. QED BY <4>1, <1>3, <2>2 DEF InChild, More
    <3>7. printing' = (IF Top.kind = "array" THEN "value" ELSE "indent")
      BY <1>6, <2>2 DEF Go
    <3>8. Placed'
      <4>1. CASE Top.kind = "array"
        <5>1. LabelIn(stack', format, t) = << >>
          <6>1. t # 1 /\ stack'[t].kind = "array"
            BY <1>4, <3>1, <3>4, <4>1
          <6>2. QED BY <6>1 DEF LabelIn, Label
        <5>2. ValueIn(stack', format, t) = (offset + Len(chars)) + 0
          BY <3>5, <5>1, ShortTypes DEF ValueIn
        <5>3. offset' = ValueIn(stack', format, t)
          <6> HIDE DEF chars
          <6> QED BY <5>2, <1>3, <1>5, <1>6
        <5>4. QED BY <2>0, <3>5, <3>6, <3>7, <4>1, <5>3 DEF Placed
      <4>2. CASE Top.kind # "array"
        <5>1. printing' = "indent" /\ (Top.kind = "object")' /\ offset' = ElementIn(stack', format, t)
          BY <1>3, <1>4, <1>6, <3>4, <3>5, <3>7, <4>2
        <5>2. QED BY <2>0, <3>5, <3>6, <5>1 DEF Placed
      <4>3. QED BY <4>1, <4>2
    <3>9. printing' \in {"value", "indent", "key", "colon", "printed", "separate", "close"}
      BY <3>7
    <3>10. stack'[1] = stack[1] /\ depth' = Len(stack') - 1 /\ Stacked(stack', format, Whole)
      BY <3>1, <3>4, <3>4a, <3>5, <1>1, <1>6, RunningFacts
    <3>11. Put(n, text)
      BY <1>6
    <3> HIDE DEF chars, n, text
    <3>12. QED BY <1>1, <1>3, <1>5, <2>1, <3>8, <3>9, <3>10, <3>11, PutMoves
  <2>3. CASE ~ More
    <3>1. stack' = stack /\ printing' = "close" /\ Top.kind = "object"
      BY <1>2, <1>6, <2>3 DEF Go
    <3>2. Top.next = Len(Top.items)
      BY <1>2, <1>3, <2>3 DEF InChild, More
    <3>3. CloseIn(stack, format, t) = offset'
      <4>1. CloseIn(stack, format, t) = Top.from + StartIn(stack, format, t, Top.next + 1)
        BY <1>4, <3>2 DEF CloseIn
      <4>2. QED BY <4>1, <1>3, <1>6
    <3>4. \A j \in 1..Len(Top.items) : Valid(Top.items[j], t - 1)
      <4> TAKE j \in 1..Len(Top.items)
      <4>1. CASE j < Top.next
        BY <4>1, <1>1, <1>4, RunningFacts DEF Stacked
      <4>2. CASE ~ (j < Top.next)
        <5>1. j = Top.next
          BY <4>2, <3>2, <1>3
        <5>2. QED BY <5>1, <1>2 DEF Current
      <4>3. QED BY <4>1, <4>2
    <3>5. Placed'
      <4>1. Top' = Top
        BY <3>1 DEF Top
      <4>2. QED BY <4>1, <1>4, <2>0, <3>1, <3>3, <3>4 DEF Placed
    <3>6. stack'[1] = stack[1] /\ depth' = Len(stack') - 1 /\ Stacked(stack', format, Whole)
      BY <3>1, <1>1, <1>6, RunningFacts
    <3>7. Put(n, text)
      BY <1>6
    <3> HIDE DEF chars, n, text
    <3>8. QED BY <1>1, <1>3, <1>5, <2>1, <3>1, <3>5, <3>6, <3>7, PutMoves
  <2>4. QED BY <2>2, <2>3
<1>7. CASE GiveUp(n)
  <2> HIDE DEF n, chars
  <2>1. n + offset <= Len(Whole) + 1
    <3>1. Len(Whole) \in Nat /\ offset + Len(chars) <= Len(Whole)
      BY <1>3, <1>4 DEF Occurs
    <3>2. QED BY <3>1, <1>3, <1>5
  <2>2. QED BY <1>1, <1>5, <1>7, <2>1, GivingUp
<1>8. QED BY <1>6, <1>7 DEF Separate

\* The end of an array or an object.
LEMMA CloseStep ==
  ASSUME PrintInv, Close
  PROVE  PrintInv'
<1>1. Running /\ printing = "close" /\ UNCHANGED options
  BY DEF Close, Running, Same
<1> DEFINE t == Len(stack)
           chars == CloseText(Top.kind, depth - 1, format)
           room == IF Top.kind = "object" /\ format THEN depth + 1 ELSE 2
           text == Terminated(chars)
           holder == HolderIn(stack, t)
           end == ValueIn(stack, format, t - 1) + Len(TextIn(stack, format, t - 1))
<1>2. t >= 2 /\ offset = CloseIn(stack, format, t) /\ \A j \in 1..Len(Top.items) : Valid(Top.items[j], t - 1)
  BY <1>1, RunningFacts DEF Placed
<1>3. t \in Nat /\ Top = stack[t] /\ depth = t - 1 /\ format \in BOOLEAN /\ Stacked(stack, format, Whole) /\ Whole \in Seq(Chars)
        /\ offset \in Nat
  BY <1>1, RunningFacts, StackBasics DEF Top, Last
<1>4. t \in 2..Len(stack) /\ t - 2 \in Nat /\ depth - 1 = t - 2 /\ t - 1 \in Nat /\ t # 1
  <2>1. t \in 2..t
    <3> HIDE DEF t
    <3> QED BY <1>2, <1>3
  <2>2. t - 2 \in Nat /\ depth - 1 = t - 2 /\ t - 1 \in Nat /\ t # 1
    <3> HIDE DEF t
    <3> QED BY <1>2, <1>3
  <2>3. QED BY <2>1, <2>2
<1>5. /\ Fits(holder, t - 2) /\ holder.type \in {"array", "object"} /\ Top.kind = holder.type
      /\ Top.items = holder.children
  BY <1>3, <1>4 DEF Stacked, Nested
<1>6. chars \in Seq(Chars) /\ Occurs(chars, Whole, offset) /\ offset + Len(chars) = end
        /\ Len(chars) = 1 + (IF Top.kind # "array" /\ format THEN t - 2 ELSE 0)
  <2>1. chars = CloseText(stack[t].kind, t - 2, format)
    BY <1>3, <1>4
  <2>2. chars \in Seq(Chars) /\ Occurs(chars, Whole, offset) /\ offset + Len(chars) = end
    BY <2>1, <1>2, <1>3, <1>4, WhereClose
  <2>3. Len(CloseText(Top.kind, t - 2, format)) = 1 + (IF Top.kind # "array" /\ format THEN t - 2 ELSE 0)
    <3>1. TRUE \in BOOLEAN
      OBVIOUS
    <3> HIDE DEF t
    <3>2. QED BY <3>1, <1>3, <1>4, PartTypes
  <2>4. QED BY <2>1, <2>2, <2>3, <1>3
<1>7. Len(chars) \in Nat /\ room \in Nat /\ room = Len(chars) + 1 /\ Len(text) <= room + 1 /\ Len(chars) <= room
        /\ (text = chars \/ text = Terminated(chars))
  <2>1. Len(text) = Len(chars) + 1
    <3>1. chars \in Seq(Chars)
      BY <1>6
    <3> HIDE DEF chars
    <3>2. QED BY <3>1 DEF Terminated
  <2>2. Len(chars) \in Nat
    <3> HIDE DEF chars
    <3> QED BY <1>6
  <2>3. room = Len(chars) + 1
    <3>1. Top.kind = "array" \/ Top.kind = "object"
      BY <1>5
    <3>2. CASE Top.kind = "object" /\ format
      <4>1. room = depth + 1 /\ Len(chars) = 1 + (t - 2)
        BY <3>2, <1>6
      <4> HIDE DEF t, room, chars
      <4>2. QED BY <4>1, <1>3
    <3>3. CASE ~ (Top.kind = "object" /\ format)
      <4>1. room = 2 /\ Len(chars) = 1 + 0
        BY <3>1, <3>3, <1>6
      <4> HIDE DEF room, chars
      <4>2. QED BY <4>1
    <3>4. QED BY <3>2, <3>3
  <2> HIDE DEF chars, text, room
  <2>4. QED BY <2>1, <2>2, <2>3 DEF text
<1>8. CASE /\ Put(room, text) /\ UNCHANGED offset
           /\ depth' = depth - 1 /\ stack' = Front(stack) /\ Go("printed")
  <2>1. PICK v : v = stack'
    OBVIOUS
  <2>2. /\ Stacked(v, format, Whole) /\ Len(v) = t - 1 /\ v[1] = stack[1] /\ v[t - 1] = stack[t - 1]
        /\ v[t - 1].next <= Len(v[t - 1].items)
        /\ ValueIn(v, format, t - 1) = ValueIn(stack, format, t - 1)
        /\ TextIn(v, format, t - 1) = TextIn(stack, format, t - 1)
    <3>1. v = Front(stack)
      BY <1>8, <2>1
    <3>2. Stacked(stack, format, Whole) /\ format \in BOOLEAN /\ t >= 2
      BY <1>2, <1>3
    <3>3. QED BY <3>1, <3>2, Popped
  <2>3. Len(stack') = t - 1 /\ Top' = v[t - 1] /\ Current' = holder /\ InChild' /\ format' = format
          /\ printing' = "printed"
    BY <1>1, <1>8, <2>1, <2>2 DEF Top, Last, Current, InChild, HolderIn, Go, options
  <2>4. Valid(holder, t - 2)
    <3>1. \A j \in 1..Len(holder.children) : Valid(holder.children[j], (t - 2) + 1)
      <4>1. (t - 2) + 1 = t - 1
        <5> HIDE DEF t
        <5> QED BY <1>3
      <4>2. QED BY <4>1, <1>2, <1>5
    <3>2. holder.type # "invalid"
      BY <1>5
    <3> HIDE DEF holder
    <3>3. QED BY <3>1, <3>2, <1>5, ValidItem
  <2>5. /\ buffer' \in Seq(Bytes) /\ offset + room < Len(buffer') /\ Solid(buffer', Whole, offset + Len(chars))
        /\ buffer'[offset + Len(chars) + 1] = "zero"
    <3> HIDE DEF chars, room, text
    <3> QED BY <1>1, <1>6, <1>7, <1>8, Putting DEF text
  <2>6. offset' = offset /\ offset <= end /\ end < Len(buffer') /\ Solid(buffer', Whole, end) /\ buffer'[end + 1] = "zero"
    <3> HIDE DEF chars, room, text, end
    <3>1. Len(buffer') \in Nat
      BY <2>5
    <3>2. QED BY <3>1, <2>5, <1>3, <1>6, <1>7, <1>8
  <2>7. ValueIn(stack', format, t - 1) + Len(TextIn(stack', format, t - 1)) = end
    BY <2>1, <2>2
  <2>8. Whole' = Whole
    BY <2>1, <2>2, <2>3 DEF Whole, Root
  <2>9. Placed'
    <3>1. (Valid(Current, Len(stack) - 1))'
      <4>1. (t - 1) - 1 = t - 2
        <5> HIDE DEF t
        <5> QED BY <1>3
      <4>2. QED BY <4>1, <2>3, <2>4
    <3> HIDE DEF end
    <3>2. QED BY <3>1, <2>3, <2>6, <2>7, <2>8 DEF Placed
  <2>10. stack'[1] = stack[1] /\ Stacked(stack', format, Whole) /\ depth' = Len(stack') - 1
    <3>1. stack'[1] = stack[1] /\ Stacked(stack', format, Whole)
      BY <2>1, <2>2
    <3>2. depth' = depth - 1 /\ Len(stack') = t - 1 /\ depth = t - 1
      BY <1>3, <1>8, <2>3
    <3> HIDE DEF t
    <3>3. QED BY <3>1, <3>2, <1>3
  <2>11. offset' \in Nat /\ offset' <= offset + Len(chars)
    <3> HIDE DEF chars
    <3> QED BY <1>3, <1>7, <2>6
  <2>12. Put(room, text)
    BY <1>8
  <2> HIDE DEF chars, room, text
  <2>13. QED BY <1>1, <1>6, <1>7, <2>3, <2>9, <2>10, <2>11, <2>12, PutMoves
<1>9. CASE GiveUp(room)
  <2> HIDE DEF chars, room
  <2>1. room + offset <= Len(Whole) + 1
    <3>1. Len(Whole) \in Nat /\ offset + Len(chars) <= Len(Whole)
      BY <1>3, <1>6 DEF Occurs
    <3>2. QED BY <3>1, <1>3, <1>7
  <2>2. QED BY <1>1, <1>7, <1>9, <2>1, GivingUp
<1>10. QED BY <1>8, <1>9 DEF Close

\* The whole item has been printed.
LEMMA ReturnStep ==
  ASSUME PrintInv, Return
  PROVE  PrintInv'
<1>1. Running /\ printing = "printed" /\ Top.kind = "root"
  BY DEF Return, Running
<1>2. call' = call /\ format' = format /\ manual' = manual /\ given' = given /\ noalloc' = noalloc
        /\ depth' = depth /\ stack' = stack /\ blocks' = blocks
  BY DEF Return, Same, options, noalloc
<1>3. Whole' = Whole /\ Printable(Root)' = Printable(Root)
  BY <1>2 DEF Whole, Root
<1> DEFINE t == Len(stack)
           end == ValueIn(stack, format, t) + Len(TextIn(stack, format, t))
<1>4. /\ InChild /\ Valid(Current, t - 1) /\ end \in Nat /\ end < Len(buffer) /\ Solid(buffer, Whole, end)
      /\ buffer[end + 1] = "zero" /\ offset + LengthOf(buffer, offset) = end /\ ~ Unterminated
  BY <1>1, TextEnds
<1>5. t = 1 /\ Top = stack[1] /\ stack[1].next = 1 /\ stack[1].from = 0 /\ Current = Root
  <2>1. t \in Nat /\ t \in 1..Len(stack) /\ Top = stack[t] /\ Stacked(stack, format, Whole) /\ t >= 1
    BY <1>1, <1>4, TopFacts, RunningFacts, StackBasics
  <2>2. t \in 2..Len(stack) => stack[t].kind \in {"array", "object"}
    BY <2>1 DEF Stacked, Nested
  <2>3. t \notin 2..Len(stack)
    BY <2>1, <2>2, <1>1
  <2>4. t = 1
    <3>1. t \in 2..t => FALSE
      BY <2>3
    <3> HIDE DEF t
    <3>2. QED BY <2>1, <3>1
  <2>5. QED BY <2>1, <2>4 DEF Stacked, Current, Root
<1>6. end = Len(Whole) /\ Printable(Root) /\ Whole \in Seq(Chars) /\ Len(Whole) \in Nat
  <2>1. TextIn(stack, format, 1) = Whole
    BY <1>5 DEF TextIn, CurrentIn, Whole, Root
  <2>2. ValueIn(stack, format, 1) = 0
    <3>1. ElementIn(stack, format, 1) = 0 /\ LabelIn(stack, format, 1) = << >>
      BY <1>5 DEF ElementIn, StartIn, LabelIn
    <3>2. QED BY <3>1, ShortTypes DEF ValueIn
  <2>3. Whole \in Seq(Chars) /\ Len(Whole) \in Nat
    BY <1>1, RunningFacts, StackBasics
  <2>4. end = 0 + Len(Whole)
    BY <1>5, <2>1, <2>2
  <2>5. Valid(Root, 0)
    BY <1>4, <1>5
  <2> HIDE DEF end
  <2>6. QED BY <2>3, <2>4, <2>5 DEF Printable
<1> HIDE DEF end
<1>7. /\ Len(buffer) \in Nat /\ Len(buffer) <= IntMax /\ IntMax \in Nat /\ buffer \in Seq(Bytes) /\ buffer # NULL
      /\ offset \in 0..IntMax /\ depth = Len(stack) - 1 /\ StaysInside
      /\ blocks = (IF noalloc THEN 0 ELSE 1)
  <2>1. blocks = (IF noalloc THEN 0 ELSE 1)
    BY <1>1, RunningFacts DEF BlocksCounted
  <2>2. QED BY <2>1, <1>1, RunningFacts DEF PrintTypeOK
<1>8. ASSUME NEW b \in Seq(Bytes), Len(b) >= end + 1, Solid(b, Whole, end), b[end + 1] = "zero"
      PROVE  SubSeq(b, 1, Len(Whole) + 1) = Append(Whole, "zero")
  <2> DEFINE m == end + 1
             x == SubSeq(b, 1, m)
             y == Append(Whole, "zero")
  <2>1. m \in Nat /\ m <= Len(b) /\ Len(b) \in Nat
    BY <1>4, <1>8
  <2>2. x \in Seq(Bytes) /\ Len(x) = m /\ \A j \in 1..m : x[j] = b[j]
    <3> HIDE DEF m
    <3> QED BY <2>1
  <2>3. y \in Seq(Bytes) /\ Len(y) = m /\ \A j \in 1..m : y[j] = IF j = m THEN "zero" ELSE Whole[j]
    <3>1. Whole \in Seq(Bytes) /\ "zero" \in Bytes
      BY <1>6 DEF Bytes
    <3>2. QED BY <3>1, <1>6
  <2>4. \A j \in 1..m : x[j] = y[j]
    <3> TAKE j \in 1..m
    <3>1. CASE j = m
      BY <3>1, <2>2, <2>3, <1>8
    <3>2. CASE j # m
      <4>1. j \in 1..end
        BY <3>2, <1>4
      <4>2. QED BY <4>1, <3>2, <2>2, <2>3, <1>8 DEF Solid
    <3>3. QED BY <3>1, <3>2
  <2> HIDE DEF x, y
  <2>5. x = y
    BY <2>1, <2>2, <2>3, <2>4
  <2>6. QED BY <2>5, <1>6 DEF x, y
<1>9. CASE call # "print" /\ Go("true") /\ UNCHANGED <<buffer, offset, depth, stack, blocks, refused, outside>>
  <2>1. printing' = "true" /\ ~ Running' /\ buffer' = buffer /\ offset' = offset /\ outside' = outside
    BY <1>9 DEF Go, Running
  <2>2. PrintsTheText'
    <3>1. Len(buffer) >= end + 1
      BY <1>4, <1>7
    <3>2. SubSeq(buffer, 1, Len(Whole) + 1) = Append(Whole, "zero")
      BY <3>1, <1>4, <1>7, <1>8
    <3>3. QED BY <3>1, <3>2, <1>2, <1>3, <1>6, <1>9, <2>1 DEF PrintsTheText
  <2>3. BlocksCounted' /\ PrintTypeOK' /\ StaysInside'
    BY <1>2, <1>7, <2>1 DEF BlocksCounted, PrintTypeOK, StaysInside
  <2>4. QED BY <1>1, <1>2, <1>7, <2>1, <2>2, <2>3 DEF PrintInv
<1>10. CASE /\ call = "print" /\ Go("true")
            /\ offset' = offset + LengthOf(buffer, offset)
            /\ buffer' = [i \in 1..(offset' + 1) |-> IF manual /\ i = offset' + 1 THEN "zero" ELSE buffer[i]]
            /\ outside' = (outside \/ Unterminated)
            /\ UNCHANGED <<depth, stack, blocks, refused>>
  <2>1. printing' = "true" /\ ~ Running' /\ offset' = end /\ (outside' => outside)
    BY <1>4, <1>10 DEF Go, Running
  <2> DEFINE b == [i \in 1..(end + 1) |-> IF manual /\ i = end + 1 THEN "zero" ELSE buffer[i]]
  <2>2. buffer' = b
    BY <1>10, <2>1
  <2>3. /\ b \in Seq(Bytes) /\ Len(b) = end + 1 /\ b[end + 1] = "zero"
        /\ \A i \in 1..end : b[i] = buffer[i]
    <3>1. end + 1 \in Nat /\ \A i \in 1..(end + 1) : buffer[i] \in Bytes /\ (IF manual /\ i = end + 1 THEN "zero" ELSE buffer[i]) \in Bytes
      <4>1. "zero" \in Bytes
        BY DEF Bytes
      <4>2. QED BY <4>1, <1>4, <1>7
    <3>2. QED BY <3>1, <1>4
  <2>4. Solid(b, Whole, end)
    <3> HIDE DEF b
    <3> QED BY <2>3, <1>4 DEF Solid
  <2>5. PrintsTheText'
    <3> HIDE DEF b
    <3>1. SubSeq(b, 1, Len(Whole) + 1) = Append(Whole, "zero")
      BY <2>3, <2>4, <1>4, <1>8
    <3>2. Len(b) = Len(Whole) + 1
      BY <2>3, <1>6
    <3>3. Len(b) >= Len(Whole) + 1
      BY <3>2, <1>6
    <3>4. QED BY <3>1, <3>2, <3>3, <1>2, <1>3, <1>6, <2>2 DEF PrintsTheText
  <2>6. BlocksCounted' /\ PrintTypeOK' /\ StaysInside'
    <3> HIDE DEF b
    <3>1. buffer' \in Seq(Bytes) /\ Len(buffer') <= IntMax /\ buffer' # NULL /\ offset' \in 0..IntMax
      <4>1. NULL \notin Seq(Bytes)
        BY PrintAssumption DEF JsonPrintAssumption
      <4>2. QED BY <4>1, <2>1, <2>2, <2>3, <1>4, <1>7
    <3>2. QED BY <3>1, <1>2, <1>7, <2>1 DEF BlocksCounted, PrintTypeOK, StaysInside
  <2>7. buffer' \in Seq(Bytes)
    <3> HIDE DEF b
    <3> QED BY <2>2, <2>3
  <2>8. QED BY <1>1, <1>2, <2>1, <2>5, <2>6, <2>7 DEF PrintInv
<1>11. CASE /\ call = "print" /\ printing' = "false" /\ refused' = TRUE
            /\ offset' = offset + LengthOf(buffer, offset)
            /\ UNCHANGED <<buffer, depth, stack, blocks, outside>>
  <2>1. printing' = "false" /\ ~ Running' /\ offset' = end /\ outside' = outside /\ buffer' = buffer /\ refused'
    BY <1>4, <1>11 DEF Running
  <2>2. Reason' /\ PrintsTheText' /\ StaysInside'
    BY <1>2, <1>7, <2>1 DEF Reason, PrintsTheText, StaysInside
  <2>3. offset' \in 0..IntMax
    BY <1>4, <1>7, <2>1
  <2>4. BlocksCounted' /\ PrintTypeOK'
    BY <1>2, <1>7, <2>1, <2>3 DEF BlocksCounted, PrintTypeOK
  <2>5. QED BY <1>1, <1>2, <2>1, <2>2, <2>4 DEF PrintInv
<1>12. QED BY <1>9, <1>10, <1>11 DEF Return

\* What is left when printing has failed is freed.
LEMMA ReturnFalseStep ==
  ASSUME PrintInv, ReturnFalse
  PROVE  PrintInv'
<1>1. printing = "false" /\ printing' = "failed" /\ ~ Running' /\ Reason
        /\ buffer' = (IF noalloc THEN buffer ELSE NULL)
        /\ blocks' = (IF ~ noalloc /\ buffer # NULL THEN blocks - 1 ELSE blocks)
        /\ UNCHANGED <<offset, depth, stack, refused, outside>>
  BY DEF ReturnFalse, Go, Running, PrintInv
<1>2. call' = call /\ format' = format /\ manual' = manual /\ given' = given /\ noalloc' = noalloc
  BY DEF ReturnFalse, Same, options, noalloc
<1>3. Reason'
  BY <1>1, <1>2 DEF Reason, Root, Whole
<1>4. blocks = (IF noalloc \/ buffer = NULL THEN 0 ELSE 1)
  BY <1>1 DEF PrintInv, BlocksCounted
<1>5. BlocksCounted' /\ PrintTypeOK'
  BY <1>1, <1>2, <1>4 DEF BlocksCounted, PrintTypeOK, PrintInv
<1>6. PrintsTheText' /\ StaysInside'
  BY <1>1, <1>2 DEF PrintsTheText, StaysInside, PrintInv
<1>7. QED BY <1>1, <1>2, <1>3, <1>5, <1>6 DEF PrintInv

-----------------------------------------------------------------------------
(* The theorems.                                                           *)

LEMMA PrintStart ==
  ASSUME PrintInit
  PROVE  PrintInv
<1>1. IntMax \in Nat /\ Lengths \subseteq 0..IntMax /\ DefaultSize \in 1..IntMax /\ NULL \notin Seq(Bytes)
  BY PrintAssumption DEF JsonPrintAssumption
<1>2. PICK item \in Items : stack = <<[kind |-> "root", items |-> <<item>>, next |-> 1, from |-> 0]>>
  BY DEF PrintInit
<1>3. /\ call \in {"print", "buffered", "preallocated"} /\ format \in BOOLEAN /\ manual \in BOOLEAN
      /\ given \in 0..IntMax /\ (call = "print" => given # 0) /\ buffer = Junk(given)
      /\ offset = 0 /\ depth = 0 /\ printing = "start" /\ blocks = 0 /\ refused = FALSE /\ outside = FALSE
  BY <1>1 DEF PrintInit
<1>4. Len(stack) = 1 /\ stack \in Seq(Frame) /\ stack[1].kind = "root" /\ stack[1].items = <<item>>
        /\ stack[1].next = 1 /\ stack[1].from = 0 /\ Len(stack[1].items) = 1 /\ Root = item
  <2> DEFINE frame == [kind |-> "root", items |-> <<item>>, next |-> 1, from |-> 0]
  <2>1. frame \in Frame /\ frame.kind = "root" /\ frame.items = <<item>> /\ frame.next = 1 /\ frame.from = 0
    BY DEF Frame
  <2>2. stack = <<frame>>
    BY <1>2
  <2> HIDE DEF frame
  <2>3. QED BY <2>1, <2>2 DEF Root
<1>5. Stacked(stack, format, Whole)
  <2>1. \A i \in 1..Len(stack) : \A j \in 1..Len(stack[i].items) : ~ (j < stack[i].next)
    BY <1>4
  <2>2. Whole = Text(stack[1].items[1], 0, format)
    BY DEF Whole, Root
  <2>3. QED BY <1>4, <2>1, <2>2 DEF Stacked
<1>6. buffer \in Seq(Bytes) /\ Len(buffer) = given /\ buffer # NULL
  <2>1. "junk" \in Bytes
    BY DEF Bytes
  <2>2. QED BY <2>1, <1>1, <1>3 DEF Junk
<1>7. PrintsOn
  <2>1. Placed
    BY <1>3, <1>4 DEF Placed
  <2>2. Solid(buffer, Whole, 0) /\ (0 < Len(buffer) \/ given = 0)
    BY <1>3, <1>6 DEF Solid
  <2>3. QED BY <2>1, <2>2, <1>3, <1>5, <1>6 DEF PrintsOn
<1>8. PrintTypeOK /\ StaysInside /\ PrintsTheText /\ BlocksCounted
  BY <1>1, <1>3, <1>4, <1>6 DEF PrintTypeOK, StaysInside, PrintsTheText, BlocksCounted
<1>9. QED BY <1>3, <1>4, <1>7, <1>8 DEF PrintInv

\* The invariant of the printer: the buffer holds the text up to where the
\* printer is in it.
THEOREM PrintInvariant == PrintSpec => []PrintInv
<1>1. ASSUME PrintInv, [PrintNext]_printVars PROVE PrintInv'
  <2>1. CASE UNCHANGED printVars
    <3>1. UNCHANGED <<call, format, manual, given, buffer, offset, depth, stack, printing, blocks, refused, outside>>
      BY <2>1 DEF printVars, options
    <3>2. /\ noalloc' = noalloc /\ Top' = Top /\ More' = More /\ Current' = Current /\ Root' = Root /\ Whole' = Whole
          /\ Running' = Running /\ InChild' = InChild
      BY <3>1 DEF noalloc, Top, More, Current, Root, Whole, Running, InChild
    <3>3. Placed' = Placed /\ PrintsOn' = PrintsOn /\ Reason' = Reason
      BY <3>1, <3>2 DEF Placed, PrintsOn, Reason
    <3>4. PrintTypeOK' = PrintTypeOK /\ StaysInside' = StaysInside /\ PrintsTheText' = PrintsTheText
            /\ BlocksCounted' = BlocksCounted
      BY <3>1, <3>2 DEF PrintTypeOK, StaysInside, PrintsTheText, BlocksCounted
    <3>5. QED BY <3>1, <3>2, <3>3, <3>4, <1>1 DEF PrintInv
  <2>2. CASE PrintNext
    BY <1>1, <2>2, BeginStep, LeafStep, InvalidStep, OpenStep, IndentStep, KeyStep, ColonStep, PrintedStep,
       SeparateStep, CloseStep, ReturnStep, ReturnFalseStep DEF PrintNext
  <2>3. QED BY <1>1, <2>1, <2>2
<1>2. QED BY <1>1, PrintStart, PTL DEF PrintSpec

\* The three ways to print write the item's text, inside their buffer however it
\* grows or moves, fail only for a reason, and leave one buffer or none.
THEOREM PrintingPrintsOrFrees == PrintSpec => []PrintsOrFreesAll
<1>1. ASSUME PrintInv PROVE PrintsOrFreesAll
  <2>1. PrintTypeOK /\ StaysInside /\ PrintsTheText /\ BlocksCounted
    BY <1>1 DEF PrintInv
  <2>2. OneBufferOrNone
    BY <2>1 DEF OneBufferOrNone, BlocksCounted
  <2>3. FailsForAReason
    BY <1>1 DEF PrintInv, Reason, FailsForAReason
  <2>4. QED BY <2>1, <2>2, <2>3 DEF PrintsOrFreesAll
<1>2. QED BY <1>1, PrintInvariant, PTL
=============================================================================
