--------------------------- MODULE JsonTreeProofs ---------------------------
(***************************************************************************)
(* Each call of JsonTree makes one change to the lists, and the inductive  *)
(* invariant IInv holds after it; from it the properties of JsonTree       *)
(* follow, and that its pointers do what JsonLists says of sequences.      *)
(***************************************************************************)
EXTENDS JsonListProofs
-----------------------------------------------------------------------------
(* Heaps whose pointers, references and strings are in order.              *)

\* r shows nothing, or a child of an item of S that has a list of its own.
Shows(m, r, S, L) == \/ m[r].of = NULL /\ m[r].child = NULL
                     \/ /\ m[r].of \in S /\ ~ m[m[r].of].ref
                        /\ m[r].child \in ToSet(L[m[r].of]) \cup {NULL}

Sound(h) ==
  /\ h \in Heaps /\ Blank(h)
  /\ Linked(h.mem, Live(h), Kids(h))
  /\ h.strings = Blocks(h, Live(h))
  /\ \A n \in Live(h) : Typed(h.mem[n]) /\ (h.mem[n].ref => Shows(h.mem, n, Live(h), Kids(h)))

\* The lists that references show keep what they have, and the references what they show.
StillShown(h2, h, L, L2) ==
  \A r \in Live(h) : h.mem[r].ref =>
    /\ h2.mem[r].child = h.mem[r].child
    /\ h.mem[r].of # NULL => ToSet(L[h.mem[r].of]) \subseteq ToSet(L2[h.mem[r].of])

\* Items that differ only in their pointers are in use in both heaps or in
\* none.
LEMMA SameLive ==
  ASSUME NEW h, NEW h2, Unchanged(h2, h)
  PROVE  Live(h2) = Live(h)
BY DEF Live, Unchanged, SameTexts

\* Only pointers change, and they follow other lists.
LEMMA Relinked ==
  ASSUME NEW h, Sound(h), NEW h2 \in Heaps, Unchanged(h2, h), h2.strings = h.strings,
         Untouched(h2, h, Nodes \ Live(h)),
         NEW L2, Linked(h2.mem, Live(h), L2), StillShown(h2, h, Kids(h), L2)
  PROVE  Sound(h2) /\ Kids(h2) = L2 /\ Live(h2) = Live(h)
<1>1. Live(h2) = Live(h) /\ Live(h) \subseteq Nodes
  BY SameLive DEF Live
<1>2. h \in Heaps /\ Blank(h) /\ h.strings = Blocks(h, Live(h))
      /\ \A n \in Live(h) : Typed(h.mem[n]) /\ (h.mem[n].ref => Shows(h.mem, n, Live(h), Kids(h)))
  BY DEF Sound
<1>3. Blank(h2)
  BY <1>1, <1>2 DEF Blank, Untouched
<1>4. Kids(h2) = L2
  BY <1>1, <1>3, KidsAreListed
<1>5. Blocks(h2, Live(h)) = Blocks(h, Live(h))
  BY <1>1, BlocksSame DEF Unchanged
<1>6. ASSUME NEW n \in Live(h)
      PROVE  Typed(h2.mem[n]) /\ (h2.mem[n].ref => Shows(h2.mem, n, Live(h), L2))
  <2>1. SameTexts(h2.mem[n], h.mem[n]) /\ h2.mem[n].of = h.mem[n].of
    BY <1>1, <1>6 DEF Unchanged
  <2>2. Typed(h.mem[n]) /\ (h.mem[n].ref => Shows(h.mem, n, Live(h), Kids(h)))
    BY <1>2, <1>6
  <2>3. Typed(h2.mem[n])
    BY <2>1, <2>2 DEF Typed, SameTexts
  <2>4. ASSUME h2.mem[n].ref PROVE Shows(h2.mem, n, Live(h), L2)
    <3>1. h.mem[n].ref /\ Shows(h.mem, n, Live(h), Kids(h))
      BY <2>1, <2>2, <2>4 DEF SameTexts
    <3>2. h2.mem[n].child = h.mem[n].child
          /\ (h.mem[n].of # NULL => ToSet(Kids(h)[h.mem[n].of]) \subseteq ToSet(L2[h.mem[n].of]))
      BY <1>6, <3>1 DEF StillShown
    <3>3. CASE h.mem[n].of = NULL /\ h.mem[n].child = NULL
      BY <2>1, <3>2, <3>3 DEF Shows
    <3>4. CASE ~ (h.mem[n].of = NULL /\ h.mem[n].child = NULL)
      <4> DEFINE o == h.mem[n].of
      <4>1. o \in Live(h) /\ ~ h.mem[o].ref /\ h.mem[n].child \in ToSet(Kids(h)[o]) \cup {NULL}
        BY <3>1, <3>4 DEF Shows
      <4>2. o \in Nodes /\ NULL \notin Nodes
        BY <1>1, <4>1, JsonTreeAssumption
      <4>3. ~ h2.mem[o].ref
        BY <4>1, <4>2 DEF Unchanged, SameTexts
      <4>4. h2.mem[n].child \in ToSet(L2[o]) \cup {NULL}
        BY <3>2, <4>1, <4>2
      <4>5. QED BY <2>1, <4>1, <4>3, <4>4 DEF Shows
    <3>5. QED BY <3>3, <3>4
  <2>5. QED BY <2>3, <2>4
<1>7. QED BY <1>1, <1>2, <1>3, <1>4, <1>5, <1>6 DEF Sound

\* Lists whose pointers have not changed are linked as they were.
LEMMA SameLinksLinked ==
  ASSUME NEW m, NEW S, NEW L, Linked(m, S, L), NEW m2, Keeps(m2, m, S)
  PROVE  Linked(m2, S, L)
<1>1. Forest(S, L) /\ Heads(m, S, L) /\ Nexts(m, L) /\ Prevs(m, L) /\ Loose(m, S, L)
  BY DEF Linked
<1>2. \A q \in Nodes : \A i \in 1..Len(L[q]) : L[q][i] \in S
  BY <1>1, ForestLists
<1>3. Heads(m2, S, L)
  BY <1>1 DEF Heads, Keeps, SameLinks
<1>4. Nexts(m2, L)
  BY <1>1, <1>2 DEF Nexts, Keeps, SameLinks
<1>5. Prevs(m2, L)
  BY <1>1, <1>2 DEF Prevs, Keeps, SameLinks
<1>6. Loose(m2, S, L)
  BY <1>1 DEF Loose, Keeps, SameLinks
<1>7. QED BY <1>1, <1>3, <1>4, <1>5, <1>6 DEF Linked

\* Only how many allocations are granted changes.
LEMMA SameHeap ==
  ASSUME NEW h, Sound(h), NEW h2 \in Heaps, h2.mem = h.mem, h2.strings = h.strings
  PROVE  Sound(h2) /\ Kids(h2) = Kids(h) /\ Live(h2) = Live(h)
<1>1. Unchanged(h2, h)
  BY DEF Unchanged, SameTexts
<1>2. Untouched(h2, h, Nodes \ Live(h))
  BY DEF Untouched
<1>3. Linked(h2.mem, Live(h), Kids(h))
  BY DEF Sound
<1>4. StillShown(h2, h, Kids(h), Kids(h))
  BY DEF StillShown
<1>5. QED BY <1>1, <1>2, <1>3, <1>4, Relinked

\* How many allocations are granted is nothing to the lists.
LEMMA LeftSet ==
  ASSUME NEW h, Sound(h), NEW l \in Nat
  PROVE  LET g == [h EXCEPT !.left = l]
         IN /\ Sound(g) /\ Kids(g) = Kids(h) /\ Live(g) = Live(h)
            /\ g.mem = h.mem /\ g.strings = h.strings /\ g.left = l
<1> DEFINE g == [h EXCEPT !.left = l]
<1>1. h \in Heaps
  BY DEF Sound
<1>2. g \in Heaps /\ g.mem = h.mem /\ g.strings = h.strings /\ g.left = l
  BY <1>1 DEF Heaps
<1> HIDE DEF g
<1>3. QED BY <1>2, SameHeap DEF g

\* Only the texts of one item in use change.
LEMMA Retexted ==
  ASSUME NEW h, Sound(h), NEW g \in Heaps, NEW n \in Live(h), Untouched(g, h, Nodes \ {n}),
         g.mem[n].type = h.mem[n].type, SameLinks(g.mem[n], h.mem[n]), g.mem[n].of = h.mem[n].of,
         Typed(g.mem[n]), NEW before \in Int, NEW after \in Int,
         before = One(OwnsString(h.mem[n])) + One(OwnsValue(h.mem[n])),
         after  = One(OwnsString(g.mem[n])) + One(OwnsValue(g.mem[n])),
         g.strings = h.strings - before + after
  PROVE  Sound(g) /\ Kids(g) = Kids(h) /\ Live(g) = Live(h)
<1>1. n \in Nodes /\ Live(h) \subseteq Nodes /\ h.mem[n].type # "free"
  BY DEF Live
<1>2. \A x \in Nodes : x # n => g.mem[x] = h.mem[x]
  BY DEF Untouched
<1>3. Live(g) = Live(h)
  BY <1>1, <1>2 DEF Live
<1>4. h \in Heaps /\ Blank(h) /\ h.strings = Blocks(h, Live(h)) /\ Linked(h.mem, Live(h), Kids(h))
      /\ \A x \in Live(h) : Typed(h.mem[x]) /\ (h.mem[x].ref => Shows(h.mem, x, Live(h), Kids(h)))
  BY DEF Sound
<1>5. Blank(g)
  BY <1>1, <1>2, <1>3, <1>4 DEF Blank
<1>6. \A x \in Nodes : SameLinks(g.mem[x], h.mem[x]) /\ g.mem[x].of = h.mem[x].of
  BY <1>2 DEF SameLinks
<1>7. Linked(g.mem, Live(h), Kids(h))
  <2>1. Keeps(g.mem, h.mem, Live(h))
    BY <1>1, <1>6 DEF Keeps
  <2>2. QED BY <1>4, <2>1, SameLinksLinked
<1>8. Kids(g) = Kids(h)
  BY <1>3, <1>5, <1>7, KidsAreListed
<1>9. g.strings = Blocks(g, Live(h))
  <2> DEFINE R == Live(h) \ {n}
  <2>1. R \in SUBSET Nodes /\ {n} \in SUBSET Nodes /\ R \cap {n} = {} /\ Live(h) = R \cup {n}
    BY <1>1
  <2>2. \A x \in R : SameTexts(g.mem[x], h.mem[x])
    BY <1>2, <2>1 DEF SameTexts
  <2> HIDE DEF R
  <2>3. Blocks(g, R) = Blocks(h, R)
    BY <2>2, BlocksSame
  <2>4. Blocks(g, Live(h)) = Blocks(g, R) + Blocks(g, {n}) /\ Blocks(h, Live(h)) = Blocks(h, R) + Blocks(h, {n})
    BY <2>1, BlocksAdd
  <2>5. Blocks(g, {n}) = after /\ Blocks(h, {n}) = before
    BY BlocksOfOne
  <2>6. Blocks(h, R) \in Int
    BY <2>1, BlocksIsInt
  <2>7. QED BY <1>4, <2>3, <2>4, <2>5, <2>6
<1>10. ASSUME NEW x \in Live(h)
       PROVE  Typed(g.mem[x]) /\ (g.mem[x].ref => Shows(g.mem, x, Live(h), Kids(h)))
  <2>1. Typed(g.mem[x])
    BY <1>1, <1>2, <1>4
  <2>2. SameLinks(g.mem[x], h.mem[x]) /\ g.mem[x].of = h.mem[x].of
    BY <1>1, <1>6
  <2>3. ASSUME g.mem[x].ref PROVE Shows(g.mem, x, Live(h), Kids(h))
    <3>1. Shows(h.mem, x, Live(h), Kids(h))
      BY <1>4, <2>2, <2>3 DEF SameLinks
    <3>2. h.mem[x].of \in Live(h) => g.mem[h.mem[x].of].ref = h.mem[h.mem[x].of].ref
      BY <1>1, <1>6 DEF SameLinks
    <3>3. QED BY <2>2, <3>1, <3>2 DEF Shows, SameLinks
  <2>4. QED BY <2>1, <2>3
<1>11. QED BY <1>3, <1>5, <1>7, <1>8, <1>9, <1>10 DEF Sound

\* A new tree beside the others.
LEMMA MoreSound ==
  ASSUME NEW h, Sound(h), NEW h2, NEW F, Added(h, h2, F), NEW T, NEW n, Tree(h2.mem, F, T, n),
         \A x \in F : Typed(h2.mem[x])
                      /\ (h2.mem[x].ref => Shows(h2.mem, x, Live(h) \cup F, Joined(Kids(h), T, F)))
  PROVE  /\ Sound(h2) /\ Kids(h2) = Joined(Kids(h), T, F) /\ Live(h2) = Live(h) \cup F
         /\ \A x : x \in ListedBy(Kids(h2)) <=> x \in ListedBy(Kids(h)) \/ x \in ListedBy(T)
<1> DEFINE S == Live(h)
           L == Kids(h)
           L2 == Joined(L, T, F)
<1>1. /\ Live(h2) = S \cup F /\ S \cap F = {} /\ F \subseteq Nodes
      /\ \A x \in S : h2.mem[x] = h.mem[x]
      /\ Blank(h) => Blank(h2)
  BY AddedLive
<1>2. /\ h \in Heaps /\ Blank(h) /\ Linked(h.mem, S, L) /\ h.strings = Blocks(h, S)
      /\ \A x \in S : Typed(h.mem[x]) /\ (h.mem[x].ref => Shows(h.mem, x, S, L))
  BY DEF Sound
<1>3. h2 \in Heaps /\ h2.strings = h.strings + Blocks(h2, F) /\ Linked(h2.mem, F, T) /\ S \subseteq Nodes
  BY DEF Added, Tree, Live
<1> HIDE DEF S, L
<1>4. /\ Linked(h2.mem, S \cup F, L2)
      /\ \A x : x \in ListedBy(L2) <=> x \in ListedBy(L) \/ x \in ListedBy(T)
  <2>1. Keeps(h2.mem, h.mem, S) /\ Keeps(h2.mem, h2.mem, F)
    BY <1>1 DEF Keeps, SameLinks
  <2>2. Linked(h.mem, S, L) /\ Linked(h2.mem, F, T) /\ S \cap F = {}
    BY <1>1, <1>2, <1>3
  <2>3. Linked(h2.mem, S \cup F, Joined(L, T, F))
    BY <2>1, <2>2, JoinedLinks
  <2>4. \A x : x \in ListedBy(Joined(L, T, F)) <=> x \in ListedBy(L) \/ x \in ListedBy(T)
    BY <2>1, <2>2, JoinedLinks, ZenonT(40)
  <2>5. QED BY <2>3, <2>4
<1> HIDE DEF L2
<1>5. Kids(h2) = L2 /\ Blank(h2)
  BY <1>1, <1>2, <1>3, <1>4, KidsAreListed
<1>6. h2.strings = Blocks(h2, Live(h2))
  <2>1. Blocks(h2, S \cup F) = Blocks(h2, S) + Blocks(h2, F)
    BY <1>1, <1>3, BlocksAdd
  <2>2. Blocks(h2, S) = Blocks(h, S)
    BY <1>1, BlocksSame DEF SameTexts
  <2>3. QED BY <1>1, <1>2, <1>3, <2>1, <2>2
<1>7. ASSUME NEW x \in S \cup F
      PROVE  Typed(h2.mem[x]) /\ (h2.mem[x].ref => Shows(h2.mem, x, S \cup F, L2))
  <2>1. CASE x \in F
    BY <2>1 DEF S, L, L2
  <2>2. CASE x \in S
    <3>1. h2.mem[x] = h.mem[x] /\ Typed(h.mem[x]) /\ (h.mem[x].ref => Shows(h.mem, x, S, L))
      BY <1>1, <1>2, <2>2
    <3>2. ASSUME h.mem[x].ref PROVE Shows(h2.mem, x, S \cup F, L2)
      <4> DEFINE o == h.mem[x].of
      <4>1. (o = NULL /\ h.mem[x].child = NULL) \/ (o \in S /\ ~ h.mem[o].ref /\ h.mem[x].child \in ToSet(L[o]) \cup {NULL})
        BY <3>1, <3>2 DEF Shows
      <4>2. o \in S => h2.mem[o] = h.mem[o] /\ o \notin F /\ o \in Nodes
        BY <1>1, <1>3
      <4>3. o \in S => L2[o] = L[o]
        BY <4>2 DEF L2, Joined
      <4>4. QED BY <3>1, <4>1, <4>2, <4>3 DEF Shows
    <3>3. QED BY <3>1, <3>2
  <2>3. QED BY <1>7, <2>1, <2>2
<1>8. Sound(h2)
  BY <1>1, <1>3, <1>4, <1>5, <1>6, <1>7 DEF Sound
<1>9. QED BY <1>1, <1>4, <1>5, <1>8 DEF S, L, L2

\* What is left of a heap when items are deleted.
LEMMA DeletedFields ==
  ASSUME NEW h \in Heaps, NEW n \in Nodes
  PROVE  LET g == cJSON_Delete(h, n)
             F == Reached(h, {n})
         IN /\ g \in Heaps /\ g.strings = h.strings - Blocks(h, F) /\ g.left = h.left
            /\ \A x \in Nodes : g.mem[x] = IF x \in F THEN Free ELSE h.mem[x]
<1> DEFINE F == Reached(h, {n})
           M == [x \in Nodes |-> IF x \in F THEN Free ELSE h.mem[x]]
           b == Blocks(h, F)
           g == cJSON_Delete(h, n)
<1>1. g \in Heaps /\ h.mem \in [Nodes -> cJSON] /\ h.strings \in Int /\ h.left \in Nat /\ n # NULL
      /\ h = [mem |-> h.mem, strings |-> h.strings, left |-> h.left]
  BY DeletedHeap, JsonTreeAssumption DEF Heaps
<1>2. g = [h EXCEPT !.mem = [x \in Nodes |-> IF x \in F THEN Free ELSE @[x]], !.strings = @ - b]
  BY <1>1 DEF cJSON_Delete
<1> HIDE DEF F, b, g
<1>3. g = [[h EXCEPT !.mem = M] EXCEPT !.strings = @ - b]
  BY <1>2
<1> HIDE DEF M
<1>4. g.mem = M /\ g.strings = h.strings - b /\ g.left = h.left
  BY <1>1, <1>3
<1>5. \A x \in Nodes : M[x] = IF x \in F THEN Free ELSE h.mem[x]
  BY DEF M
<1>6. QED BY <1>1, <1>4, <1>5 DEF F, b, g

\* A tree nobody lists, and nothing outside it shows a part of, is deleted.
LEMMA LessSound ==
  ASSUME NEW h, Sound(h), NEW n \in Live(h), n \notin ListedBy(Kids(h)),
         ~ Borrowed(h, FamilyOf(Kids(h), n))
  PROVE  LET g == cJSON_Delete(h, n)
             F == FamilyOf(Kids(h), n)
         IN /\ Sound(g) /\ Kids(g) = Dropped(Kids(h), F) /\ Live(g) = Live(h) \ F /\ g.left = h.left
            /\ \A x \in Live(g) : g.mem[x] = h.mem[x]
            /\ ListedBy(Kids(g)) = ListedBy(Kids(h)) \ F
<1> DEFINE S == Live(h)
           L == Kids(h)
           F == FamilyOf(L, n)
           g == cJSON_Delete(h, n)
           L2 == Dropped(L, F)
<1>1. /\ h \in Heaps /\ Blank(h) /\ Linked(h.mem, S, L) /\ h.strings = Blocks(h, S)
      /\ \A x \in S : Typed(h.mem[x]) /\ (h.mem[x].ref => Shows(h.mem, x, S, L))
      /\ S \subseteq Nodes /\ n \in S \ ListedBy(L) /\ n \in Nodes
  BY DEF Sound, Live
<1> HIDE DEF S, L
<1>2. Reached(h, {n}) = F
  <2>1. Forest(S, L) /\ Heads(h.mem, S, L) /\ h.mem[n].next = NULL
    BY <1>1 DEF Linked, Loose
  <2>2. \A p \in Nodes : \A i \in 1..Len(L[p]) : L[p][i] # n => h.mem[L[p][i]].next = After(L[p], i)
    BY <1>1 DEF Linked, Nexts
  <2>3. QED BY <1>1, <2>1, <2>2, ReachedIsFamily
<1>3. /\ g \in Heaps /\ g.strings = h.strings - Blocks(h, F) /\ g.left = h.left
      /\ \A x \in Nodes : g.mem[x] = IF x \in F THEN Free ELSE h.mem[x]
  BY <1>1, <1>2, DeletedFields
<1>4. F \subseteq S /\ n \in F
  BY <1>1, FamilyWithin DEF Linked
<1> HIDE DEF g
<1>5. /\ Linked(g.mem, S \ F, L2) /\ ListedBy(L2) = ListedBy(L) \ F
  <2>1. Keeps(g.mem, h.mem, S \ F)
    BY <1>1, <1>3 DEF Keeps, SameLinks
  <2>2. Keeps(g.mem, h.mem, S \ FamilyOf(L, n))
    BY <2>1
  <2> HIDE DEF F, L2
  <2>3. LET G == FamilyOf(L, n)
        IN  Linked(g.mem, S \ G, Dropped(L, G)) /\ ListedBy(Dropped(L, G)) = ListedBy(L) \ G
    <3>1. Linked(h.mem, S, L) /\ n \in S \ ListedBy(L)
      BY <1>1
    <3> DEFINE m2 == g.mem
               m  == h.mem
    <3>2. Keeps(m2, m, S \ FamilyOf(L, n)) /\ Linked(m, S, L)
      BY <2>2, <3>1
    <3> HIDE DEF m2, m
    <3>3. LET G == FamilyOf(L, n)
          IN  Linked(m2, S \ G, Dropped(L, G)) /\ ListedBy(Dropped(L, G)) = ListedBy(L) \ G
      BY <3>1, <3>2, DroppedLinks
    <3>4. QED BY <3>3 DEF m2
  <2>4. QED BY <2>3 DEF F, L2
<1> HIDE DEF F, L2
<1>6. Free.type = "free" /\ \A x \in S : h.mem[x].type # "free"
  BY DEF Free, S, Live
<1>7. Live(g) = S \ F
  <2>1. \A x \in Nodes : x \notin S => h.mem[x].type = "free"
    BY DEF S, Live
  <2>2. \A x \in Nodes : g.mem[x].type # "free" <=> x \in S \ F
    BY <1>3, <1>6, <2>1
  <2>3. QED BY <1>1, <2>2 DEF Live
<1>8. Blank(g)
  <2>1. \A x \in Nodes \ S : h.mem[x] = Free
    BY <1>1 DEF Blank, S
  <2>2. QED BY <1>3, <1>7, <2>1 DEF Blank
<1>9. Kids(g) = L2
  BY <1>3, <1>5, <1>7, <1>8, KidsAreListed
<1>10. g.strings = Blocks(g, S \ F)
  <2> DEFINE R == S \ F
  <2>1. R \in SUBSET Nodes /\ F \in SUBSET Nodes /\ R \cap F = {} /\ S = R \cup F
    BY <1>1, <1>4
  <2>2. \A x \in R : SameTexts(g.mem[x], h.mem[x])
    BY <1>1, <1>3 DEF SameTexts
  <2> HIDE DEF R
  <2>3. Blocks(g, R) = Blocks(h, R)
    BY <2>2, BlocksSame
  <2>4. Blocks(h, S) = Blocks(h, R) + Blocks(h, F)
    BY <2>1, BlocksAdd
  <2>5. Blocks(h, R) \in Int /\ Blocks(h, F) \in Int
    BY <2>1, BlocksIsInt
  <2>6. g.strings = Blocks(g, R)
    BY <1>1, <1>3, <2>3, <2>4, <2>5
  <2>7. QED BY <2>6 DEF R
<1>11. ASSUME NEW x \in S \ F
       PROVE  Typed(g.mem[x]) /\ (g.mem[x].ref => Shows(g.mem, x, S \ F, L2))
  <2>1. x \in Nodes /\ x \in S
    BY <1>1, <1>11
  <2>2. g.mem[x] = h.mem[x] /\ Typed(h.mem[x]) /\ (h.mem[x].ref => Shows(h.mem, x, S, L))
    BY <1>1, <1>3, <1>11, <2>1
  <2>3. ASSUME h.mem[x].ref PROVE Shows(g.mem, x, S \ F, L2)
    <3> DEFINE o == h.mem[x].of
    <3>1. (o = NULL /\ h.mem[x].child = NULL) \/ (o \in S /\ ~ h.mem[o].ref /\ h.mem[x].child \in ToSet(L[o]) \cup {NULL})
      BY <2>2, <2>3 DEF Shows
    <3>2. o \notin F
      BY <1>11, <2>3 DEF Borrowed, S, L, F
    <3>3. o \in S => g.mem[o] = h.mem[o] /\ o \in Nodes
      BY <1>1, <1>3, <3>2
    <3>4. o \in S => L2[o] = L[o]
      BY <3>2, <3>3 DEF L2, Dropped
    <3>5. QED BY <2>2, <3>1, <3>2, <3>3, <3>4 DEF Shows
  <2>4. QED BY <2>2, <2>3
<1>12. Sound(g)
  BY <1>3, <1>5, <1>7, <1>8, <1>9, <1>10, <1>11 DEF Sound
<1>13. \A x \in Live(g) : g.mem[x] = h.mem[x]
  BY <1>1, <1>3, <1>7
<1>14. QED BY <1>3, <1>5, <1>7, <1>9, <1>12, <1>13 DEF g, F, L, S, L2
-----------------------------------------------------------------------------
(* Calls that change pointers.                                             *)

\* Two items with the same fields are the same.
LEMMA SameItem ==
  ASSUME NEW a \in cJSON, NEW b \in cJSON, SameTexts(a, b), SameLinks(a, b), a.of = b.of
  PROVE  a = b
<1>1. /\ a = [type |-> a.type, ref |-> a.ref, const |-> a.const, string |-> a.string, value |-> a.value,
              child |-> a.child, next |-> a.next, prev |-> a.prev, of |-> a.of]
      /\ b = [type |-> b.type, ref |-> b.ref, const |-> b.const, string |-> b.string, value |-> b.value,
              child |-> b.child, next |-> b.next, prev |-> b.prev, of |-> b.of]
  BY DEF cJSON
<1>2. QED BY <1>1 DEF SameTexts, SameLinks

\* Pointers that follow other lists, whose references still show what they
\* showed, leave a heap in order.
LEMMA Rewiring ==
  ASSUME NEW h, Sound(h), NEW h2, Rewired(h2, h), Keeps(h2.mem, h.mem, Nodes \ Live(h)),
         NEW L2, Linked(h2.mem, Live(h), L2), StillShown(h2, h, Kids(h), L2)
  PROVE  Sound(h2) /\ Kids(h2) = L2 /\ Live(h2) = Live(h)
<1>1. h \in Heaps /\ h2 \in Heaps /\ Unchanged(h2, h) /\ h2.strings = h.strings
  BY DEF Sound, Rewired
<1>2. ASSUME NEW x \in Nodes \ Live(h) PROVE h2.mem[x] = h.mem[x]
  <2>1. h2.mem[x] \in cJSON /\ h.mem[x] \in cJSON
    BY <1>1, Fields
  <2>2. SameTexts(h2.mem[x], h.mem[x]) /\ h2.mem[x].of = h.mem[x].of /\ SameLinks(h2.mem[x], h.mem[x])
    BY <1>1 DEF Unchanged, Keeps
  <2>3. QED BY <2>1, <2>2, SameItem
<1>3. Untouched(h2, h, Nodes \ Live(h))
  BY <1>2 DEF Untouched
<1>4. QED BY <1>1, <1>3, Relinked

\* What every change of a list of p starts from.
OwnList(h, p) == Sound(h) /\ p \in Live(h) /\ ~ h.mem[p].ref
\* n can be put below p.
CanTake(h, p, n) ==
  OwnList(h, p) /\ n \in Live(h) /\ n \notin ListedBy(Kids(h)) /\ p \notin FamilyOf(Kids(h), n)

\* What the definition of OwnList gives.
LEMMA OwnListMeans ==
  ASSUME NEW h, NEW p, OwnList(h, p)
  PROVE  /\ h \in Heaps /\ Linked(h.mem, Live(h), Kids(h)) /\ p \in Nodes /\ Live(h) \subseteq Nodes
         /\ Kids(h)[p] \in Seq(Live(h)) /\ Len(Kids(h)[p]) \in Nat
         /\ Kids(h) \in [Nodes -> Seq(Nodes)]
<1>1. h \in Heaps /\ Linked(h.mem, Live(h), Kids(h)) /\ p \in Nodes /\ Live(h) \subseteq Nodes
  BY DEF OwnList, Sound, Live
<1>2. QED BY <1>1, ForestLists DEF Linked

\* A heap stays in order when an item is put in a list.
LEMMA PutSound ==
  ASSUME NEW h, NEW p, NEW n, CanTake(h, p, n), NEW h2, Rewired(h2, h), NEW k \in 1..(Len(Kids(h)[p]) + 1),
         PutIn(h.mem, h2.mem, p, Kids(h)[p], k, n)
  PROVE  Sound(h2) /\ Kids(h2) = Putting(Kids(h), p, k, n) /\ Live(h2) = Live(h)
<1> DEFINE L == Kids(h)
           s == L[p]
           m == h.mem
           m2 == h2.mem
           S == Live(h)
           L2 == Putting(L, p, k, n)
<1>1. /\ h \in Heaps /\ Linked(m, S, L) /\ p \in Nodes /\ S \subseteq Nodes /\ s \in Seq(S) /\ Len(s) \in Nat
      /\ Sound(h) /\ p \in S /\ ~ m[p].ref /\ n \in S /\ n \notin ListedBy(L) /\ p \notin FamilyOf(L, n)
      /\ L \in [Nodes -> Seq(Nodes)]
  BY OwnListMeans DEF CanTake, OwnList
<1>2. PutIn(m, m2, p, L[p], k, n) /\ k \in 1..(Len(L[p]) + 1) /\ k \in 1..(Len(s) + 1)
  OBVIOUS
<1> HIDE DEF L, m, m2, S
<1>3. Linked(m2, S, L2)
  BY <1>1, <1>2, InsertedLinks
<1>4. Keeps(m2, m, Nodes \ S)
  <2>1. SUFFICES ASSUME NEW x \in Nodes \ S PROVE SameLinks(m2[x], m[x])
    BY DEF Keeps
  <2>2. x # n /\ x # p
    BY <1>1
  <2>3. k <= Len(s) => x # s[k]
    BY <1>1, <1>2
  <2>4. k > 1 => x # s[k - 1]
    BY <1>1, <1>2
  <2>5. s # << >> => x # s[1]
    BY <1>1
  <2>6. QED BY <1>2, <2>2, <2>3, <2>4, <2>5 DEF PutIn, SameLinks, s
<1>5. StillShown(h2, h, L, L2)
  <2>1. \A r \in S : m[r].ref => m2[r].child = m[r].child
    BY <1>1, <1>2 DEF PutIn
  <2>2. ASSUME NEW o \in Nodes PROVE ToSet(L[o]) \subseteq ToSet(L2[o])
    <3>1. CASE o # p
      BY <1>1, <3>1 DEF Putting
    <3>2. CASE o = p
      <4>1. L2[o] = InsertAt(s, k, n)
        BY <1>1, <3>2 DEF Putting
      <4> DEFINE t == InsertAt(s, k, n)
      <4>2. /\ t \in Seq(S) /\ Len(t) = Len(s) + 1
            /\ \A i \in 1..(Len(s) + 1) : t[i] = IF i < k THEN s[i] ELSE IF i = k THEN n ELSE s[i - 1]
        <5>1. s \in Seq(S) /\ n \in S /\ k \in 1..(Len(s) + 1)
          BY <1>1, <1>2
        <5> HIDE DEF s
        <5>2. IsInserted(InsertAt(s, k, n), S, s, k, n)
          BY <5>1, Inserted
        <5>3. QED BY <5>2 DEF IsInserted
      <4> HIDE DEF t, s
      <4>3. ASSUME NEW i \in 1..Len(s) PROVE s[i] \in ToSet(t)
        <5>1. i \in 1..Len(t) /\ i + 1 \in 1..Len(t) /\ (i + 1) - 1 = i
          BY <1>1, <4>2
        <5>2. CASE i < k
          <6>1. t[i] = s[i]
            BY <1>1, <4>2, <5>1, <5>2
          <6>2. QED BY <4>2, <5>1, <6>1, Members
        <5>3. CASE ~ (i < k)
          <6>1. ~ (i + 1 < k) /\ i + 1 # k
            BY <1>2, <5>3
          <6>2. t[i + 1] = s[i]
            BY <4>2, <5>1, <6>1
          <6>3. QED BY <4>2, <5>1, <6>2, Members
        <5>4. QED BY <5>2, <5>3
      <4>4. \A x \in ToSet(s) : \E i \in 1..Len(s) : x = s[i]
        BY <1>1, Members
      <4>5. L[o] = s /\ L2[o] = t
        BY <3>2, <4>1 DEF s, t
      <4>6. QED BY <4>3, <4>4, <4>5
    <3>3. QED BY <3>1, <3>2
  <2>3. \A r \in S : m[r].of \in Nodes \cup {NULL}
    BY <1>1, Fields DEF m
  <2>4. QED BY <2>1, <2>2, <2>3 DEF StillShown, m, m2, S
<1>6. QED BY <1>1, <1>3, <1>4, <1>5, Rewiring DEF L, m, m2, S

\* A heap stays in order when an item is taken out of a list that no reference
\* shows.
LEMMA TakenSound ==
  ASSUME NEW h, NEW p, OwnList(h, p), ~ Borrowed(h, {p}), NEW h2, Rewired(h2, h), NEW k \in 1..Len(Kids(h)[p]),
         TakenOut(h.mem, h2.mem, p, Kids(h)[p], k)
  PROVE  Sound(h2) /\ Kids(h2) = Taking(Kids(h), p, k) /\ Live(h2) = Live(h)
<1> DEFINE L == Kids(h)
           s == L[p]
           m == h.mem
           m2 == h2.mem
           S == Live(h)
           L2 == Taking(L, p, k)
<1>1. /\ h \in Heaps /\ Linked(m, S, L) /\ p \in Nodes /\ S \subseteq Nodes /\ s \in Seq(S) /\ Len(s) \in Nat
      /\ Sound(h) /\ p \in S /\ ~ m[p].ref /\ L \in [Nodes -> Seq(Nodes)]
  BY OwnListMeans DEF OwnList
<1>2. TakenOut(m, m2, p, L[p], k) /\ k \in 1..Len(L[p]) /\ k \in 1..Len(s)
  OBVIOUS
<1>0. \A r \in S : m[r].ref => m[r].of # p
  BY <1>1 DEF Borrowed
<1> HIDE DEF L, m, m2, S
<1>3. Linked(m2, S, L2)
  BY <1>1, <1>2, RemovedLinks
<1>4. Keeps(m2, m, Nodes \ S)
  <2>1. SUFFICES ASSUME NEW x \in Nodes \ S PROVE SameLinks(m2[x], m[x])
    BY DEF Keeps
  <2>2. x # p /\ x # s[k]
    BY <1>1, <1>2
  <2>3. k < Len(s) => x # s[k + 1]
    BY <1>1, <1>2
  <2>4. k > 1 => x # s[k - 1]
    BY <1>1, <1>2
  <2>5. k > 1 => x # s[1]
    BY <1>1, <1>2
  <2>6. QED BY <1>2, <2>2, <2>3, <2>4, <2>5 DEF TakenOut, SameLinks, s
<1>5. StillShown(h2, h, L, L2)
  <2>1. \A r \in S : m[r].ref => m2[r].child = m[r].child
    BY <1>1, <1>2 DEF TakenOut
  <2>2. ASSUME NEW o \in Nodes, o # p PROVE ToSet(L[o]) \subseteq ToSet(L2[o])
    BY <1>1, <2>2 DEF Taking
  <2>3. \A r \in S : m[r].of \in Nodes \cup {NULL}
    BY <1>1, Fields DEF m
  <2>4. QED BY <1>0, <2>1, <2>2, <2>3 DEF StillShown, m, m2, S
<1>6. QED BY <1>1, <1>3, <1>4, <1>5, Rewiring DEF L, m, m2, S

\* A heap stays in order when an item takes another one's place in a list that
\* no reference shows.
LEMMA ExchangedSound ==
  ASSUME NEW h, NEW p, NEW n, CanTake(h, p, n), ~ Borrowed(h, {p}), NEW h2, Rewired(h2, h),
         NEW k \in 1..Len(Kids(h)[p]), PutInPlace(h.mem, h2.mem, p, Kids(h)[p], k, n)
  PROVE  Sound(h2) /\ Kids(h2) = Exchanging(Kids(h), p, k, n) /\ Live(h2) = Live(h)
<1> DEFINE L == Kids(h)
           s == L[p]
           m == h.mem
           m2 == h2.mem
           S == Live(h)
           L2 == Exchanging(L, p, k, n)
<1>1. /\ h \in Heaps /\ Linked(m, S, L) /\ p \in Nodes /\ S \subseteq Nodes /\ s \in Seq(S) /\ Len(s) \in Nat
      /\ Sound(h) /\ p \in S /\ ~ m[p].ref /\ L \in [Nodes -> Seq(Nodes)]
      /\ n \in S /\ n \notin ListedBy(L) /\ p \notin FamilyOf(L, n)
  BY OwnListMeans DEF CanTake, OwnList
<1>2. PutInPlace(m, m2, p, L[p], k, n) /\ k \in 1..Len(L[p]) /\ k \in 1..Len(s)
  OBVIOUS
<1>0. \A r \in S : m[r].ref => m[r].of # p
  BY <1>1 DEF Borrowed
<1> HIDE DEF L, m, m2, S
<1>3. Linked(m2, S, L2)
  BY <1>1, <1>2, ExchangedLinks
<1>4. Keeps(m2, m, Nodes \ S)
  <2>1. SUFFICES ASSUME NEW x \in Nodes \ S PROVE SameLinks(m2[x], m[x])
    BY DEF Keeps
  <2>2. x # p /\ x # s[k] /\ x # n
    BY <1>1, <1>2
  <2>3. k < Len(s) => x # s[k + 1]
    BY <1>1, <1>2
  <2>4. k > 1 => x # s[k - 1]
    BY <1>1, <1>2
  <2>5. k > 1 => x # s[1]
    BY <1>1, <1>2
  <2>6. QED BY <1>2, <2>2, <2>3, <2>4, <2>5 DEF PutInPlace, SameLinks, s
<1>5. StillShown(h2, h, L, L2)
  <2>1. \A r \in S : m[r].ref => m2[r].child = m[r].child
    BY <1>1, <1>2 DEF PutInPlace
  <2>2. ASSUME NEW o \in Nodes, o # p PROVE ToSet(L[o]) \subseteq ToSet(L2[o])
    BY <1>1, <2>2 DEF Exchanging
  <2>3. \A r \in S : m[r].of \in Nodes \cup {NULL}
    BY <1>1, Fields DEF m
  <2>4. QED BY <1>0, <2>1, <2>2, <2>3 DEF StillShown, m, m2, S
<1>6. QED BY <1>1, <1>3, <1>4, <1>5, Rewiring DEF L, m, m2, S

\* Pointers that change twice have changed.
LEMMA RewiredTwice ==
  ASSUME NEW h, NEW g, NEW g2, Rewired(g, h), Rewired(g2, g)
  PROVE  Rewired(g2, h)
BY DEF Rewired, Unchanged, SameTexts

\* What the pointers of p's list are.
LEMMA OwnListLinks ==
  ASSUME NEW h, NEW p, OwnList(h, p)
  PROVE  LET s == Kids(h)[p]
             m == h.mem
         IN /\ s \in Seq(Nodes) /\ Len(s) \in Nat /\ m \in Mems /\ h \in Heaps /\ p \in Nodes /\ NULL \notin Nodes
            /\ m[p].child = First(s) /\ Once(s) /\ Children(h, p) = s
            /\ \A i \in 1..Len(s) : /\ s[i] \in Nodes /\ s[i] \in ListedBy(Kids(h)) /\ s[i] \in ToSet(s)
                                    /\ m[s[i]].next = After(s, i) /\ m[s[i]].prev = Before(s, i)
<1> DEFINE L == Kids(h)
           s == L[p]
           m == h.mem
           S == Live(h)
<1>1. /\ h \in Heaps /\ Linked(m, S, L) /\ p \in Nodes /\ S \subseteq Nodes /\ s \in Seq(S) /\ Len(s) \in Nat
      /\ p \in S /\ ~ m[p].ref /\ NULL \notin Nodes
  BY OwnListMeans, JsonTreeAssumption DEF OwnList
<1>2. Children(h, p) = s
  BY <1>1 DEF Kids
<1> HIDE DEF L, m
<1>3. m \in Mems
  BY <1>1 DEF Heaps, Mems, m
<1>4. Forest(S, L) /\ Heads(m, S, L) /\ Nexts(m, L) /\ Prevs(m, L)
  BY <1>1 DEF Linked
<1>5. m[p].child = First(s)
  BY <1>1, <1>4 DEF Heads
<1>6. Once(s)
  BY <1>1, <1>4, ForestLists
<1>7. ASSUME NEW i \in 1..Len(s)
      PROVE  /\ s[i] \in Nodes /\ s[i] \in ListedBy(L) /\ s[i] \in ToSet(s)
             /\ m[s[i]].next = After(s, i) /\ m[s[i]].prev = Before(s, i)
  <2>1. m[s[i]].next = After(s, i) /\ m[s[i]].prev = Before(s, i)
    BY <1>1, <1>4 DEF Nexts, Prevs
  <2>2. s[i] \in ToSet(s)
    <3> HIDE DEF s
    <3>1. QED BY <1>1, Members
  <2>3. s[i] \in ListedBy(L)
    BY <1>1, <2>2, ListedMeans
  <2>4. s[i] \in Nodes
    BY <1>1
  <2>5. QED BY <2>1, <2>2, <2>3, <2>4
<1>8. s \in Seq(Nodes)
  BY <1>1
<1>9. QED BY <1>1, <1>2, <1>3, <1>5, <1>6, <1>7, <1>8 DEF L, m

\* An item that can be put in a list has no neighbours, is not the parent and
\* is not in the list.
LEMMA CanTakeMeans ==
  ASSUME NEW h, NEW p, NEW n, CanTake(h, p, n)
  PROVE  /\ OwnList(h, p) /\ n \in Nodes /\ n # NULL /\ n # p
         /\ h.mem[n].next = NULL /\ h.mem[n].prev = NULL
         /\ \A i \in 1..Len(Kids(h)[p]) : Kids(h)[p][i] # n
<1>1. OwnList(h, p) /\ n \in Live(h) /\ n \notin ListedBy(Kids(h)) /\ p \notin FamilyOf(Kids(h), n)
  BY DEF CanTake
<1>2. Linked(h.mem, Live(h), Kids(h)) /\ n \in Nodes /\ NULL \notin Nodes
  BY <1>1, OwnListMeans, JsonTreeAssumption
<1>3. n # p
  BY <1>1, <1>2, FamilyWithin DEF Linked
<1>4. h.mem[n].next = NULL /\ h.mem[n].prev = NULL
  BY <1>1, <1>2 DEF Linked, Loose
<1>5. \A i \in 1..Len(Kids(h)[p]) : Kids(h)[p][i] # n
  BY <1>1, OwnListLinks
<1>6. QED BY <1>1, <1>2, <1>3, <1>4, <1>5

\* add_item_to_array puts the item behind the last one.
LEMMA AddedLinks ==
  ASSUME NEW h, NEW p, NEW n, CanTake(h, p, n)
  PROVE  LET r == add_item_to_array(h, p, n)
             s == Kids(h)[p]
         IN r.ret = TRUE /\ Rewired(r.heap, h) /\ PutIn(h.mem, r.heap.mem, p, s, Len(s) + 1, n)
<1> DEFINE r == add_item_to_array(h, p, n)
           s == Kids(h)[p]
           m == h.mem
           first == m[p].child
           last  == m[first].prev
<1>1. /\ s \in Seq(Nodes) /\ Len(s) \in Nat /\ m \in Mems /\ h \in Heaps /\ p \in Nodes /\ NULL \notin Nodes
      /\ first = First(s)
      /\ \A i \in 1..Len(s) : s[i] \in Nodes /\ s[i] # n /\ m[s[i]].prev = Before(s, i)
      /\ n \in Nodes /\ n # NULL /\ n # p /\ m[n].next = NULL
  BY CanTakeMeans, OwnListLinks
<1> HIDE DEF s, m
<1>2. CASE s = << >>
  <2> DEFINE g1 == [h EXCEPT !.mem[p].child = n]
             g2 == [g1 EXCEPT !.mem[n].prev = n]
             g  == [g2 EXCEPT !.mem[n].next = NULL]
  <2>1. first = NULL
    BY <1>1, <1>2 DEF First
  <2>2. r = Returns([h EXCEPT !.mem[p].child = n, !.mem[n].prev = n, !.mem[n].next = NULL], TRUE)
    BY <1>1, <2>1 DEF add_item_to_array, m
  <2>3. r.ret = TRUE /\ r.heap = g
    BY <2>2 DEF Returns
  <2> DEFINE m1 == g1.mem
             m2 == g2.mem
             m3 == g.mem
  <2>4. g1 \in Heaps /\ Rewired(g1, h) /\ ChildIs(m1, m, p, n)
    BY <1>1, ChildPut DEF m
  <2> HIDE DEF g1
  <2>5. g2 \in Heaps /\ Rewired(g2, g1) /\ PrevIs(m2, m1, n, n)
    BY <1>1, <2>4, PrevPut
  <2> HIDE DEF g2
  <2>6. g \in Heaps /\ Rewired(g, g2) /\ NextIs(m3, m2, n, NULL)
    BY <1>1, <2>5, NextPut
  <2> HIDE DEF g
  <2>7. Rewired(g, h) /\ g.mem = m3
    BY <2>4, <2>5, <2>6, RewiredTwice
  <2> HIDE DEF m1, m2, m3
  <2>8. PutIn(m, m3, p, s, Len(s) + 1, n)
    <3>1. Len(s) = 0
      BY <1>2, EmptySeq
    <3>2. SUFFICES ASSUME NEW x \in Nodes
                   PROVE  /\ m3[x].ref = m[x].ref
                          /\ m3[x].child = IF x = p THEN n ELSE m[x].child
                          /\ m3[x].next = IF x = n THEN NULL ELSE m[x].next
                          /\ m3[x].prev = IF x = n THEN n ELSE m[x].prev
      BY <1>2, <3>1 DEF PutIn
    <3>3. QED BY <2>4, <2>5, <2>6 DEF ChildIs, PrevIs, NextIs, SameTexts
  <2>9. QED BY <2>3, <2>7, <2>8 DEF s, m
<1>3. CASE s # << >>
  <2> DEFINE z == s[Len(s)]
             a == s[1]
             g1 == [h EXCEPT !.mem[z].next = n]
             g2 == [g1 EXCEPT !.mem[n].prev = z]
             g  == [g2 EXCEPT !.mem[a].prev = n]
  <2>1. Len(s) \in 1..Len(s) /\ 1 \in 1..Len(s) /\ 1 <= Len(s)
    BY <1>1, <1>3
  <2>2. first = a /\ a \in Nodes /\ z \in Nodes /\ a # n /\ z # n
    BY <1>1, <1>3, <2>1 DEF First
  <2>3. last = z
    BY <1>1, <2>1, <2>2 DEF Before
  <2>40. first # NULL /\ last # NULL
    BY <1>1, <2>2, <2>3
  <2> HIDE DEF a, z
  <2>4. r = Returns([h EXCEPT !.mem[z].next = n, !.mem[n].prev = z, !.mem[a].prev = n], TRUE)
    BY <1>1, <2>2, <2>3, <2>40 DEF add_item_to_array, m
  <2>5. r.ret = TRUE /\ r.heap = g
    BY <2>4 DEF Returns
  <2> DEFINE m1 == g1.mem
             m2 == g2.mem
             m3 == g.mem
  <2>6. g1 \in Heaps /\ Rewired(g1, h) /\ NextIs(m1, m, z, n)
    BY <1>1, <2>2, NextPut DEF m
  <2> HIDE DEF g1
  <2>7. g2 \in Heaps /\ Rewired(g2, g1) /\ PrevIs(m2, m1, n, z)
    BY <1>1, <2>2, <2>6, PrevPut
  <2> HIDE DEF g2
  <2>8. g \in Heaps /\ Rewired(g, g2) /\ PrevIs(m3, m2, a, n)
    BY <1>1, <2>2, <2>7, PrevPut
  <2> HIDE DEF g
  <2>9. Rewired(g, h) /\ g.mem = m3
    BY <2>6, <2>7, <2>8, RewiredTwice
  <2> HIDE DEF m1, m2, m3
  <2>10. PutIn(m, m3, p, s, Len(s) + 1, n)
    <3> DEFINE k == Len(s) + 1
    <3>1. ~ (k <= Len(s)) /\ k > 1 /\ k # 1 /\ k - 1 = Len(s)
      BY <1>1, <2>1
    <3> HIDE DEF k
    <3>2. s[k - 1] = z
      BY <3>1 DEF z
    <3>3. SUFFICES ASSUME NEW x \in Nodes
                   PROVE  /\ m3[x].ref = m[x].ref
                          /\ m3[x].child = m[x].child
                          /\ m3[x].next = IF x = n THEN NULL ELSE IF x = z THEN n ELSE m[x].next
                          /\ m3[x].prev = IF x = n THEN z ELSE IF x = a THEN n ELSE m[x].prev
      <4>1. PutIn(m, m3, p, s, k, n)
        BY <1>3, <3>1, <3>2 DEF PutIn, a
      <4>2. QED BY <4>1 DEF k
    <3>4. QED BY <1>1, <2>2, <2>6, <2>7, <2>8 DEF PrevIs, NextIs, SameTexts
  <2>11. QED BY <2>5, <2>9, <2>10 DEF s, m
<1>4. QED BY <1>2, <1>3

\* cJSON_InsertItemInArray puts the item in the place asked for, or behind the last.
LEMMA InsertedItemLinks ==
  ASSUME NEW h, NEW p, NEW n, CanTake(h, p, n), NEW which \in Nat
  PROVE  LET r == cJSON_InsertItemInArray(h, p, which, n)
             s == Kids(h)[p]
         IN /\ r.ret = TRUE /\ Rewired(r.heap, h)
            /\ \E k \in 1..(Len(s) + 1) : PutIn(h.mem, r.heap.mem, p, s, k, n)
<1> DEFINE r == cJSON_InsertItemInArray(h, p, which, n)
           s == Kids(h)[p]
           m == h.mem
           k == which + 1
           after == get_array_item(h, p, which)
           prev  == m[after].prev
<1>1. /\ s \in Seq(Nodes) /\ Len(s) \in Nat /\ m \in Mems /\ h \in Heaps /\ p \in Nodes /\ NULL \notin Nodes
      /\ m[p].child = First(s) /\ Children(h, p) = s /\ Once(s)
      /\ \A i \in 1..Len(s) : s[i] \in Nodes /\ s[i] # n /\ m[s[i]].prev = Before(s, i)
      /\ n \in Nodes /\ n # NULL /\ n # p /\ m[n].next = NULL
  BY CanTakeMeans, OwnListLinks
<1>2. after = IF which < Len(s) THEN s[k] ELSE NULL
  <2>1. Children(h, p) = s
    BY <1>1
  <2> HIDE DEF s
  <2>2. QED BY <2>1 DEF get_array_item
<1> HIDE DEF s, m
<1>3. CASE ~ (which < Len(s))
  <2>1. r = add_item_to_array(h, p, n)
    BY <1>2, <1>3 DEF cJSON_InsertItemInArray
  <2>2. r.ret = TRUE /\ Rewired(r.heap, h) /\ PutIn(h.mem, r.heap.mem, p, s, Len(s) + 1, n)
    BY <2>1, AddedLinks DEF s
  <2>3. Len(s) + 1 \in 1..(Len(s) + 1)
    BY <1>1
  <2>4. QED BY <2>2, <2>3 DEF s
<1>4. CASE which < Len(s)
  <2> DEFINE a == s[k]
             z == Before(s, k)
             m1 == [m EXCEPT ![n].next = a]
             m2 == [m1 EXCEPT ![n].prev = z]
             m3 == [m2 EXCEPT ![a].prev = n]
             m4 == IF k = 1 THEN [m3 EXCEPT ![p].child = n] ELSE [m3 EXCEPT ![z].next = n]
             g  == [h EXCEPT !.mem = m4]
  <2>1. /\ k \in 1..Len(s) /\ k \in 1..(Len(s) + 1) /\ 1 \in 1..Len(s) /\ Len(s) \in 1..Len(s) /\ k <= Len(s)
        /\ k # 1 => k - 1 \in 1..Len(s) /\ k > 1
    BY <1>1, <1>4
  <2> HIDE DEF k
  <2>20. after = a
    BY <1>2, <1>4
  <2>2. /\ a \in Nodes /\ a # n
        /\ z = (IF k = 1 THEN s[Len(s)] ELSE s[k - 1]) /\ z \in Nodes /\ z # n /\ m[a].prev = z
    BY <1>1, <2>1 DEF Before
  <2>3. a = m[p].child <=> k = 1
    <3>1. m[p].child = s[1]
      <4>1. s # << >>
        BY <2>1
      <4>2. QED BY <1>1, <4>1 DEF First
    <3>2. s[k] = s[1] <=> k = 1
      BY <1>1, <2>1 DEF Once
    <3>3. QED BY <3>1, <3>2
  <2>4. prev = z
    BY <2>2, <2>20
  <2> HIDE DEF z, a, after
  <2>5. r = Returns(g, TRUE)
    <3>1. after # NULL /\ prev # NULL
      BY <1>1, <2>2, <2>20, <2>4
    <3>2. r = Returns([h EXCEPT !.mem = IF after = m[p].child
                        THEN [[m EXCEPT ![n].next = after, ![n].prev = prev, ![after].prev = n] EXCEPT ![p].child = n]
                        ELSE [[m EXCEPT ![n].next = after, ![n].prev = prev, ![after].prev = n] EXCEPT ![prev].next = n]],
                      TRUE)
      BY <3>1 DEF cJSON_InsertItemInArray, m, after
    <3>3. [m EXCEPT ![n].next = a, ![n].prev = z, ![a].prev = n] = m3
      OBVIOUS
    <3> HIDE DEF m3
    <3>4. QED BY <2>20, <2>3, <2>4, <3>2, <3>3
  <2>6. NextIs(m1, m, n, a)
    BY <1>1, <2>2, NextSet
  <2> HIDE DEF m1
  <2>7. PrevIs(m2, m1, n, z)
    BY <1>1, <2>2, <2>6, LikeMeans, PrevSet
  <2> HIDE DEF m2
  <2>8. PrevIs(m3, m2, a, n)
    BY <1>1, <2>2, <2>7, LikeMeans, PrevSet
  <2> HIDE DEF m3
  <2>9. IF k = 1 THEN ChildIs(m4, m3, p, n) ELSE NextIs(m4, m3, z, n)
    <3>1. m3 \in Mems
      BY <2>8, LikeMeans
    <3>2. CASE k = 1
      BY <1>1, <3>1, <3>2, ChildSet
    <3>3. CASE k # 1
      BY <1>1, <2>2, <3>1, <3>3, NextSet
    <3>4. QED BY <3>2, <3>3
  <2> HIDE DEF m4
  <2>10. Rewired(g, h) /\ g.mem = m4
    <3>1. m4 \in Mems /\ Like(m4, m)
      BY <2>6, <2>7, <2>8, <2>9, LikeMeans, LikeTwice
    <3>2. QED BY <1>1, <3>1, MemSet DEF m
  <2> HIDE DEF g
  <2>11. PutIn(m, m4, p, s, k, n)
    <3>1. SUFFICES ASSUME NEW x \in Nodes
                   PROVE  /\ m4[x].ref = m[x].ref
                          /\ m4[x].child = IF x = p /\ k = 1 THEN n ELSE m[x].child
                          /\ m4[x].next = IF x = n THEN a ELSE IF k # 1 /\ x = z THEN n ELSE m[x].next
                          /\ m4[x].prev = IF x = n THEN z ELSE IF x = a THEN n ELSE m[x].prev
      <4>1. s # << >> /\ (k > 1 <=> k # 1)
        BY <2>1
      <4>2. s[k] = a
        BY DEF a
      <4>3. QED BY <2>1, <2>2, <4>1, <4>2 DEF PutIn
    <3>2. CASE k = 1
      BY <2>2, <2>6, <2>7, <2>8, <2>9, <3>2 DEF PrevIs, NextIs, ChildIs, SameTexts
    <3>3. CASE k # 1
      BY <2>2, <2>6, <2>7, <2>8, <2>9, <3>3 DEF PrevIs, NextIs, ChildIs, SameTexts
    <3>4. QED BY <3>2, <3>3
  <2>12. r.ret = TRUE /\ r.heap = g
    BY <2>5 DEF Returns
  <2>13. QED BY <2>1, <2>10, <2>11, <2>12 DEF s, m
<1>5. QED BY <1>3, <1>4

\* cJSON_DetachItemViaPointer takes the item out of its list.
LEMMA DetachedLinks ==
  ASSUME NEW h, NEW p, OwnList(h, p), NEW k \in 1..Len(Kids(h)[p])
  PROVE  LET s == Kids(h)[p]
             r == cJSON_DetachItemViaPointer(h, p, s[k])
         IN r.ret = s[k] /\ Rewired(r.heap, h) /\ TakenOut(h.mem, r.heap.mem, p, s, k)
<1> DEFINE s == Kids(h)[p]
           m == h.mem
           n == s[k]
           r == cJSON_DetachItemViaPointer(h, p, n)
           a == After(s, k)
           z == Before(s, k)
           first == n = m[p].child
           m1 == IF first THEN m ELSE [m EXCEPT ![z].next = a]
           m2 == IF a = NULL THEN m1 ELSE [m1 EXCEPT ![a].prev = z]
           m3 == CASE first -> [m2 EXCEPT ![p].child = a]
                   [] ~ first /\ a = NULL -> [m2 EXCEPT ![m[p].child].prev = z]
                   [] OTHER -> m2
           m4 == [m3 EXCEPT ![n].prev = NULL]
           m5 == [m4 EXCEPT ![n].next = NULL]
           g  == [h EXCEPT !.mem = m5]
<1>1. /\ s \in Seq(Nodes) /\ Len(s) \in Nat /\ m \in Mems /\ h \in Heaps /\ p \in Nodes /\ NULL \notin Nodes
      /\ m[p].child = First(s) /\ Once(s)
      /\ \A i \in 1..Len(s) : s[i] \in Nodes /\ m[s[i]].next = After(s, i) /\ m[s[i]].prev = Before(s, i)
  BY OwnListLinks
<1> HIDE DEF s, m
<1>2. /\ k \in 1..Len(s) /\ 1 \in 1..Len(s) /\ Len(s) \in 1..Len(s) /\ k <= Len(s)
      /\ (k < Len(s) <=> k # Len(s)) /\ (k > 1 <=> k # 1)
      /\ k # Len(s) => k + 1 \in 1..Len(s)
  BY <1>1 DEF s
<1>20. k # 1 => k - 1 \in 1..Len(s) /\ k > 1
  BY <1>1, <1>2
<1>3. n \in Nodes /\ n # NULL /\ m[n].next = a /\ m[n].prev = z /\ z \in Nodes /\ a \in Nodes \cup {NULL}
      /\ (a = NULL <=> k = Len(s)) /\ z # NULL
  BY <1>1, <1>2, <1>20 DEF After, Before
<1>4. m[p].child = s[1] /\ (first <=> k = 1)
  <2>1. m[p].child = s[1]
    <3>1. s # << >>
      BY <1>2
    <3>2. QED BY <1>1, <3>1 DEF First
  <2>2. s[k] = s[1] <=> k = 1
    BY <1>1, <1>2 DEF Once
  <2>3. QED BY <2>1, <2>2
<1>40. /\ k # 1 => s[k - 1] = z /\ z # n
       /\ a # NULL => s[k + 1] = a /\ a # n
  <2>1. k # 1 => s[k - 1] # s[k]
    BY <1>1, <1>2, <1>20 DEF Once
  <2>2. k # Len(s) => s[k + 1] # s[k]
    BY <1>1, <1>2 DEF Once
  <2>3. QED BY <1>3, <2>1, <2>2 DEF After, Before
<1>5. r = Returns(g, n)
  <2> HIDE DEF a, z, n
  <2>1. r = Returns([h EXCEPT !.mem = [m3 EXCEPT ![n].prev = NULL, ![n].next = NULL]], n)
    BY <1>3, ZenonT(40) DEF cJSON_DetachItemViaPointer, m
  <2> HIDE DEF m3
  <2>2. [m3 EXCEPT ![n].prev = NULL, ![n].next = NULL] = m5
    OBVIOUS
  <2>3. QED BY <2>1, <2>2
<1> HIDE DEF first, n, a, z
<1>6. /\ m3 \in Mems /\ Like(m3, m)
      /\ \A x \in Nodes : /\ m3[x].child = IF x = p /\ k = 1 THEN a ELSE m[x].child
                          /\ m3[x].next = IF k # 1 /\ x = z THEN a ELSE m[x].next
                          /\ m3[x].prev = IF a # NULL THEN (IF x = a THEN z ELSE m[x].prev)
                                          ELSE IF k # 1 /\ x = s[1] THEN z ELSE m[x].prev
  <2>0. Like(m, m)
    BY DEF Like, SameTexts
  <2>1. IF k = 1 THEN m1 = m ELSE NextIs(m1, m, z, a)
    BY <1>1, <1>3, <1>4, NextSet
  <2>2. m1 \in Mems /\ Like(m1, m)
    <3> HIDE DEF m1
    <3>1. QED BY <1>1, <2>0, <2>1, LikeMeans
  <2> HIDE DEF m1
  <2>3. IF a = NULL THEN m2 = m1 ELSE PrevIs(m2, m1, a, z)
    BY <1>3, <2>2, PrevSet
  <2>4. m2 \in Mems /\ Like(m2, m)
    <3> HIDE DEF m2
    <3>1. QED BY <2>2, <2>3, LikeMeans, LikeTwice
  <2> HIDE DEF m2
  <2>5. CASE k = 1
    <3>1. m3 = [m2 EXCEPT ![p].child = a]
      BY <1>4, <2>5
    <3> HIDE DEF m3
    <3>2. ChildIs(m3, m2, p, a)
      BY <1>1, <1>3, <2>4, <3>1, ChildSet
    <3>3. m3 \in Mems /\ Like(m3, m)
      BY <2>4, <3>2, LikeMeans, LikeTwice
    <3>4. CASE a = NULL
      BY <2>1, <2>3, <2>5, <3>2, <3>3, <3>4 DEF ChildIs
    <3>5. CASE a # NULL
      BY <2>1, <2>3, <2>5, <3>2, <3>3, <3>5 DEF ChildIs, PrevIs
    <3>6. QED BY <3>4, <3>5
  <2>6. CASE k # 1 /\ a = NULL
    <3>1. m3 = [m2 EXCEPT ![s[1]].prev = z]
      BY <1>4, <2>6
    <3> HIDE DEF m3
    <3>2. PrevIs(m3, m2, s[1], z)
      <4>1. s[1] \in Nodes
        BY <1>1, <1>2
      <4>2. QED BY <1>3, <2>4, <3>1, <4>1, PrevSet
    <3>3. m3 \in Mems /\ Like(m3, m)
      BY <2>4, <3>2, LikeMeans, LikeTwice
    <3>4. QED BY <2>1, <2>3, <2>6, <3>2, <3>3 DEF PrevIs, NextIs
  <2>7. CASE k # 1 /\ a # NULL
    <3>1. m3 = m2
      BY <1>4, <2>7
    <3> HIDE DEF m3
    <3>2. QED BY <2>1, <2>3, <2>4, <2>7, <3>1 DEF PrevIs, NextIs
  <2>8. QED BY <2>5, <2>6, <2>7
<1> HIDE DEF m3
<1>7. PrevIs(m4, m3, n, NULL)
  BY <1>3, <1>6, PrevSet
<1> HIDE DEF m4
<1>8. NextIs(m5, m4, n, NULL)
  BY <1>3, <1>7, LikeMeans, NextSet
<1> HIDE DEF m5
<1>9. Rewired(g, h) /\ g.mem = m5
  <2>1. m5 \in Mems /\ Like(m5, m)
    BY <1>6, <1>7, <1>8, LikeMeans, LikeTwice
  <2>2. QED BY <1>1, <2>1, MemSet DEF m
<1> HIDE DEF g
<1>10. TakenOut(m, m5, p, s, k)
  <2>1. SUFFICES ASSUME NEW x \in Nodes
                 PROVE  /\ m5[x].ref = m[x].ref
                        /\ m5[x].child = IF x = p /\ k = 1 THEN a ELSE m[x].child
                        /\ m5[x].next = IF x = n THEN NULL ELSE IF k # 1 /\ x = z THEN a ELSE m[x].next
                        /\ m5[x].prev = IF x = n THEN NULL
                                        ELSE IF a # NULL THEN (IF x = a THEN z ELSE m[x].prev)
                                        ELSE IF k # 1 /\ x = s[1] THEN z ELSE m[x].prev
    <3>1. s[k] = n /\ After(s, k) = a /\ Before(s, k) = z
      BY DEF n, a, z
    <3>2. (k < Len(s) <=> a # NULL) /\ (k > 1 <=> k # 1) /\ (k # 1 => s[k - 1] = z) /\ (a # NULL => s[k + 1] = a)
      BY <1>2, <1>3, <1>40
    <3>3. QED BY <3>1, <3>2 DEF TakenOut
  <2>2. m5[x].ref = m[x].ref
    BY <1>6, <1>7, <1>8 DEF Like, PrevIs, NextIs, SameTexts
  <2>3. QED BY <1>6, <1>7, <1>8, <2>2 DEF PrevIs, NextIs
<1>11. r.ret = n /\ r.heap = g
  BY <1>5 DEF Returns
<1>12. QED BY <1>9, <1>10, <1>11 DEF s, m, n

\* cJSON_ReplaceItemViaPointer puts the item in the other one's place, and deletes that.
LEMMA ReplacedLinks ==
  ASSUME NEW h, NEW p, NEW n, CanTake(h, p, n), NEW k \in 1..Len(Kids(h)[p])
  PROVE  LET s == Kids(h)[p]
             r == cJSON_ReplaceItemViaPointer(h, p, s[k], n)
         IN \E g : /\ Rewired(g, h) /\ PutInPlace(h.mem, g.mem, p, s, k, n)
                   /\ r = Returns(cJSON_Delete(g, s[k]), TRUE)
<1> DEFINE s == Kids(h)[p]
           m == h.mem
           o == s[k]
           r == cJSON_ReplaceItemViaPointer(h, p, o, n)
           a == After(s, k)
           z == Before(s, k)
           y == IF Len(s) = 1 THEN n ELSE z
           f == m[p].child
           m1 == [m EXCEPT ![n].next = a]
           m2 == [m1 EXCEPT ![n].prev = y]
           m3 == IF a = NULL THEN m2 ELSE [m2 EXCEPT ![a].prev = n]
           m4 == IF k = 1 THEN [m3 EXCEPT ![p].child = n] ELSE [m3 EXCEPT ![y].next = n]
           m5 == IF k # 1 /\ a = NULL THEN [m4 EXCEPT ![f].prev = n] ELSE m4
           m6 == [m5 EXCEPT ![o].next = NULL]
           m7 == [m6 EXCEPT ![o].prev = NULL]
           g  == [h EXCEPT !.mem = m7]
<1>1. /\ s \in Seq(Nodes) /\ Len(s) \in Nat /\ m \in Mems /\ h \in Heaps /\ p \in Nodes /\ NULL \notin Nodes
      /\ m[p].child = First(s) /\ Once(s)
      /\ \A i \in 1..Len(s) : s[i] \in Nodes /\ s[i] # n /\ m[s[i]].next = After(s, i) /\ m[s[i]].prev = Before(s, i)
      /\ n \in Nodes /\ n # NULL /\ n # p
  BY CanTakeMeans, OwnListLinks
<1> HIDE DEF s, m
<1>2. /\ k \in 1..Len(s) /\ 1 \in 1..Len(s) /\ Len(s) \in 1..Len(s) /\ k <= Len(s)
      /\ (k < Len(s) <=> k # Len(s)) /\ (k > 1 <=> k # 1)
      /\ k # Len(s) => k + 1 \in 1..Len(s)
      /\ k # 1 => Len(s) # 1
  BY <1>1 DEF s
<1>20. k # 1 => k - 1 \in 1..Len(s)
  BY <1>1, <1>2
<1>3. o \in Nodes /\ o # NULL /\ o # n /\ m[o].next = a /\ m[o].prev = z /\ z \in Nodes /\ a \in Nodes \cup {NULL}
      /\ (a = NULL <=> k = Len(s)) /\ z # NULL /\ y \in Nodes /\ y # NULL
  BY <1>1, <1>2, <1>20 DEF After, Before
<1>4. f = s[1] /\ f \in Nodes /\ f # NULL /\ (f = o <=> k = 1)
  <2>1. f = s[1]
    <3>1. s # << >>
      BY <1>2
    <3>2. QED BY <1>1, <3>1 DEF First
  <2>2. s[k] = s[1] <=> k = 1
    BY <1>1, <1>2 DEF Once
  <2>3. QED BY <1>1, <1>2, <2>1, <2>2
<1>5. m[f].prev = s[Len(s)] /\ (s[Len(s)] = s[1] <=> Len(s) = 1)
  <2>1. m[s[1]].prev = s[Len(s)]
    BY <1>1, <1>2 DEF Before
  <2>2. s[Len(s)] = s[1] <=> Len(s) = 1
    BY <1>1, <1>2 DEF Once
  <2>3. QED BY <1>4, <2>1, <2>2
<1>6. y = IF f = o /\ m[f].prev = f THEN n ELSE m[o].prev
  BY <1>2, <1>3, <1>4, <1>5
<1>7. /\ k # 1 => s[k - 1] = z /\ z # o /\ y = z /\ z # n
      /\ a # NULL => s[k + 1] = a /\ a # o /\ a # n
      /\ f # n
  <2>1. k # 1 => s[k - 1] # s[k]
    BY <1>1, <1>2, <1>20 DEF Once
  <2>2. k # Len(s) => s[k + 1] # s[k]
    BY <1>1, <1>2 DEF Once
  <2>3. QED BY <1>1, <1>2, <1>20, <1>3, <1>4, <2>1, <2>2 DEF After, Before
<1> HIDE DEF f, o, a, z, y
<1>8. r = Returns(cJSON_Delete(g, o), TRUE)
  <2> DEFINE c1 == [m EXCEPT ![n].next = a, ![n].prev = y]
             c2 == IF a = NULL THEN c1 ELSE [c1 EXCEPT ![a].prev = n]
             c3 == CASE f = o -> [c2 EXCEPT ![p].child = n]
                     [] f # o /\ y = NULL -> c2
                     [] OTHER -> [c2 EXCEPT ![y].next = n]
             c4 == IF f # o /\ a = NULL THEN [c3 EXCEPT ![f].prev = n] ELSE c3
  <2>1. r = Returns(cJSON_Delete([h EXCEPT !.mem = [c4 EXCEPT ![o].next = NULL, ![o].prev = NULL]], o), TRUE)
    <3> DEFINE yy == IF f = o /\ m[f].prev = f THEN n ELSE m[o].prev
               aa == m[o].next
               d1 == [m EXCEPT ![n].next = aa, ![n].prev = yy]
               d2 == IF aa = NULL THEN d1 ELSE [d1 EXCEPT ![aa].prev = n]
               d3 == CASE f = o -> [d2 EXCEPT ![p].child = n]
                     [] f # o /\ yy = NULL -> d2
                     [] OTHER -> [d2 EXCEPT ![yy].next = n]
               d4 == IF f # o /\ aa = NULL THEN [d3 EXCEPT ![f].prev = n] ELSE d3
               d  == Returns(cJSON_Delete([h EXCEPT !.mem = [d4 EXCEPT ![o].next = NULL, ![o].prev = NULL]], o), TRUE)
    <3>1. r = IF f = NULL \/ o = NULL THEN Returns(h, FALSE) ELSE IF n = o THEN Returns(h, TRUE) ELSE d
      BY Zenon DEF cJSON_ReplaceItemViaPointer, m, f
    <3>2. yy = y /\ aa = a
      BY <1>3, <1>6
    <3> HIDE DEF yy, aa
    <3>3. d = Returns(cJSON_Delete([h EXCEPT !.mem = [c4 EXCEPT ![o].next = NULL, ![o].prev = NULL]], o), TRUE)
      BY <3>2
    <3> HIDE DEF d
    <3>4. f # NULL /\ o # NULL /\ n # o
      BY <1>3, <1>4
    <3>5. QED BY <3>1, <3>3, <3>4, Zenon
  <2>2. c1 = m2
    OBVIOUS
  <2> HIDE DEF c1, m2
  <2>3. c2 = m3
    BY <2>2
  <2> HIDE DEF c2, m3
  <2>4. c3 = m4
    BY <1>3, <1>4, <2>3
  <2> HIDE DEF c3, m4
  <2>5. c4 = m5
    BY <1>4, <2>4
  <2> HIDE DEF c4, m5
  <2>6. [c4 EXCEPT ![o].next = NULL, ![o].prev = NULL] = m7
    <3>1. [m5 EXCEPT ![o].next = NULL, ![o].prev = NULL] = m7
      OBVIOUS
    <3>2. QED BY <2>5, <3>1
  <2> HIDE DEF m7
  <2>7. QED BY <2>1, <2>6, Zenon
<1>9. NextIs(m1, m, n, a)
  BY <1>1, <1>3, NextSet
<1> HIDE DEF m1
<1>10. PrevIs(m2, m1, n, y)
  BY <1>1, <1>3, <1>9, LikeMeans, PrevSet
<1>11. m2 \in Mems /\ Like(m2, m)
  <2> HIDE DEF m2
  <2>1. QED BY <1>9, <1>10, LikeMeans, LikeTwice
<1> HIDE DEF m2
<1>12. IF a = NULL THEN m3 = m2 ELSE PrevIs(m3, m2, a, n)
  BY <1>1, <1>3, <1>11, PrevSet
<1>13. m3 \in Mems /\ Like(m3, m)
  <2> HIDE DEF m3
  <2>1. QED BY <1>11, <1>12, LikeMeans, LikeTwice
<1> HIDE DEF m3
<1>14. IF k = 1 THEN ChildIs(m4, m3, p, n) ELSE NextIs(m4, m3, y, n)
  <2>1. CASE k = 1
    BY <1>1, <1>13, <2>1, ChildSet
  <2>2. CASE k # 1
    BY <1>1, <1>3, <1>13, <2>2, NextSet
  <2>3. QED BY <2>1, <2>2
<1>15. m4 \in Mems /\ Like(m4, m)
  <2> HIDE DEF m4
  <2>1. QED BY <1>13, <1>14, LikeMeans, LikeTwice
<1> HIDE DEF m4
<1>16. IF k # 1 /\ a = NULL THEN PrevIs(m5, m4, f, n) ELSE m5 = m4
  BY <1>1, <1>4, <1>15, PrevSet
<1>17. m5 \in Mems /\ Like(m5, m)
  <2> HIDE DEF m5
  <2>1. QED BY <1>15, <1>16, LikeMeans, LikeTwice
<1> HIDE DEF m5
<1>18. NextIs(m6, m5, o, NULL)
  BY <1>3, <1>17, NextSet
<1> HIDE DEF m6
<1>19. PrevIs(m7, m6, o, NULL)
  BY <1>3, <1>18, LikeMeans, PrevSet
<1> HIDE DEF m7
<1>21. m7 \in Mems /\ Like(m7, m)
  BY <1>17, <1>18, <1>19, LikeMeans, LikeTwice
<1>22. Rewired(g, h) /\ g.mem = m7
  BY <1>1, <1>21, MemSet DEF m
<1> HIDE DEF g
<1>23. \A x \in Nodes : /\ m5[x].child = IF x = p /\ k = 1 THEN n ELSE m[x].child
                        /\ m5[x].next = IF x = n THEN a ELSE IF k # 1 /\ x = z THEN n ELSE m[x].next
                        /\ m5[x].prev = IF x = n THEN y
                                        ELSE IF a # NULL THEN (IF x = a THEN n ELSE m[x].prev)
                                        ELSE IF k # 1 /\ x = f THEN n ELSE m[x].prev
  <2>1. CASE k = 1 /\ a = NULL
    BY <1>9, <1>10, <1>12, <1>14, <1>16, <2>1 DEF ChildIs, PrevIs, NextIs
  <2>2. CASE k = 1 /\ a # NULL
    BY <1>7, <1>9, <1>10, <1>12, <1>14, <1>16, <2>2 DEF ChildIs, PrevIs, NextIs
  <2>3. CASE k # 1 /\ a = NULL
    BY <1>7, <1>9, <1>10, <1>12, <1>14, <1>16, <2>3 DEF ChildIs, PrevIs, NextIs
  <2>4. CASE k # 1 /\ a # NULL
    BY <1>7, <1>9, <1>10, <1>12, <1>14, <1>16, <2>4 DEF ChildIs, PrevIs, NextIs
  <2>5. QED BY <2>1, <2>2, <2>3, <2>4
<1>24. PutInPlace(m, m7, p, s, k, n)
  <2>1. SUFFICES ASSUME NEW x \in Nodes
                 PROVE  /\ m7[x].ref = m[x].ref
                        /\ m7[x].child = IF x = p /\ k = 1 THEN n ELSE m[x].child
                        /\ m7[x].next = IF x = n THEN a ELSE IF x = o THEN NULL
                                        ELSE IF k # 1 /\ x = z THEN n ELSE m[x].next
                        /\ m7[x].prev = IF x = n THEN y ELSE IF x = o THEN NULL
                                        ELSE IF a # NULL THEN (IF x = a THEN n ELSE m[x].prev)
                                        ELSE IF k # 1 /\ x = f THEN n ELSE m[x].prev
    <3>1. s[k] = o /\ After(s, k) = a /\ Before(s, k) = z /\ y = (IF Len(s) = 1 THEN n ELSE z) /\ f = s[1]
      BY <1>4 DEF o, a, z, y
    <3>2. (k < Len(s) <=> a # NULL) /\ (k > 1 <=> k # 1) /\ (k # 1 => s[k - 1] = z) /\ (a # NULL => s[k + 1] = a)
      BY <1>2, <1>3, <1>7
    <3>3. QED BY <3>1, <3>2 DEF PutInPlace
  <2>2. m7[x].ref = m[x].ref
    BY <1>21 DEF Like, SameTexts
  <2>3. QED BY <1>3, <1>18, <1>19, <1>23, <2>2 DEF PrevIs, NextIs
<1>25. QED BY <1>8, <1>22, <1>24 DEF s, m, o
-----------------------------------------------------------------------------
(* What a call can do to the lists.                                        *)

\* Items stay references or not, and keep their keys, other than n.
Steady(h2, h, n) ==
  \A x \in Live(h) \cap Live(h2) :
    h2.mem[x].ref = h.mem[x].ref /\ (x # n => h2.mem[x].string = h.mem[x].string)

\* No list changes.
Idle(h, h2, n) == Sound(h2) /\ Steady(h2, h, n) /\ Live(h2) = Live(h) /\ Kids(h2) = Kids(h)
\* There is a new tree, of n.
Grew(h, h2, F, T, n) ==
  /\ F \in SUBSET Nodes /\ T \in [Nodes -> Seq(Nodes)]
  /\ Forest(F, T) /\ n \in F \ ListedBy(T) /\ FamilyOf(T, n) = F
  /\ F \cap Live(h) = {} /\ Live(h2) = Live(h) \cup F /\ Kids(h2) = Joined(Kids(h), T, F)
  /\ \A x : x \in ListedBy(Kids(h2)) <=> x \in ListedBy(Kids(h)) \/ x \in ListedBy(T)
Built(h, h2, n) == Sound(h2) /\ Steady(h2, h, NULL) /\ \E F, T : Grew(h, h2, F, T, n)
\* n, which may be new, is put in the list of p.
Put(h, h2, p, n) ==
  /\ Sound(h2) /\ Steady(h2, h, n)
  /\ p \in Live(h) /\ n \in Nodes \ ListedBy(Kids(h)) /\ p \notin FamilyOf(Kids(h), n) /\ Live(h2) = Live(h) \cup {n}
  /\ \E k \in 1..(Len(Kids(h)[p]) + 1) : Kids(h2) = Putting(Kids(h), p, k, n)
  /\ ListedBy(Kids(h2)) = ListedBy(Kids(h)) \cup {n}
\* The item at k of p is taken out.
TakenAt(h, h2, p, k) ==
  /\ Sound(h2) /\ Steady(h2, h, NULL)
  /\ p \in Live(h) /\ k \in 1..Len(Kids(h)[p])
  /\ Live(h2) = Live(h) /\ Kids(h2) = Taking(Kids(h), p, k)
  /\ ListedBy(Kids(h2)) = ListedBy(Kids(h)) \ {Kids(h)[p][k]}
\* The tree of n, which nobody lists, is dropped.
Gone(h, h2, n) ==
  LET F == FamilyOf(Kids(h), n)
  IN /\ Sound(h2) /\ Steady(h2, h, NULL)
     /\ n \in Live(h) \ ListedBy(Kids(h))
     /\ Live(h2) = Live(h) \ F /\ Kids(h2) = Dropped(Kids(h), F)
     /\ ListedBy(Kids(h2)) = ListedBy(Kids(h)) \ F
\* The tree of the item at k of p is dropped.
TakenGone(h, h2, p, k) ==
  LET F == FamilyOf(Kids(h), Kids(h)[p][k])
  IN /\ Sound(h2) /\ Steady(h2, h, NULL)
     /\ p \in Live(h) /\ k \in 1..Len(Kids(h)[p])
     /\ Live(h2) = Live(h) \ F /\ Kids(h2) = Dropped(Taking(Kids(h), p, k), F)
     /\ ListedBy(Kids(h2)) = ListedBy(Kids(h)) \ F
\* n takes the place of the tree that is at k of p, and that is dropped.
Swapped(h, h2, p, k, n) ==
  LET F == FamilyOf(Kids(h), Kids(h)[p][k])
  IN /\ Sound(h2) /\ Steady(h2, h, n)
     /\ p \in Live(h) /\ n \in Live(h) \ ListedBy(Kids(h)) /\ p \notin FamilyOf(Kids(h), n)
     /\ k \in 1..Len(Kids(h)[p]) /\ n \notin F
     /\ Live(h2) = Live(h) \ F /\ Kids(h2) = Dropped(Exchanging(Kids(h), p, k, n), F)
     /\ ListedBy(Kids(h2)) = (ListedBy(Kids(h)) \cup {n}) \ F

\* What the definition of Sound gives.
LEMMA SoundMeans ==
  ASSUME NEW h, Sound(h)
  PROVE  /\ h \in Heaps /\ Blank(h) /\ Live(h) \subseteq Nodes /\ NULL \notin Nodes
         /\ Linked(h.mem, Live(h), Kids(h)) /\ Forest(Live(h), Kids(h))
         /\ Kids(h) \in [Nodes -> Seq(Nodes)] /\ ListedBy(Kids(h)) \subseteq Live(h)
         /\ \A n \in Nodes \ Live(h) : Kids(h)[n] = << >>
         /\ \A n \in Live(h) : Typed(h.mem[n]) /\ (h.mem[n].ref => Shows(h.mem, n, Live(h), Kids(h)))
<1>1. /\ h \in Heaps /\ Blank(h) /\ Live(h) \subseteq Nodes /\ NULL \notin Nodes
      /\ Linked(h.mem, Live(h), Kids(h)) /\ Forest(Live(h), Kids(h))
      /\ \A n \in Live(h) : Typed(h.mem[n]) /\ (h.mem[n].ref => Shows(h.mem, n, Live(h), Kids(h)))
  BY JsonTreeAssumption DEF Sound, Live, Linked
<1>2. Kids(h) \in [Nodes -> Seq(Nodes)] /\ ListedBy(Kids(h)) \subseteq Live(h)
  BY <1>1, ForestLists
<1>3. \A n \in Nodes \ Live(h) : Kids(h)[n] = << >>
  BY <1>1 DEF Forest
<1>4. QED BY <1>1, <1>2, <1>3

\* What is granted to a call does not matter to what it did.
LEMMA LeftAside ==
  ASSUME NEW h, Sound(h), NEW l \in Nat, NEW h2, Sound(h2)
  PROVE  LET g  == [h EXCEPT !.left = l]
             g2 == [h2 EXCEPT !.left = 0]
         IN /\ \A n : Idle(g, h2, n) => Idle(h, g2, n)
            /\ \A n : Built(g, h2, n) => Built(h, g2, n)
            /\ \A p, n : Put(g, h2, p, n) => Put(h, g2, p, n)
            /\ \A p, k : TakenAt(g, h2, p, k) => TakenAt(h, g2, p, k)
            /\ \A n : Gone(g, h2, n) => Gone(h, g2, n)
            /\ \A p, k : TakenGone(g, h2, p, k) => TakenGone(h, g2, p, k)
            /\ \A p, k, n : Swapped(g, h2, p, k, n) => Swapped(h, g2, p, k, n)
<1> DEFINE g  == [h EXCEPT !.left = l]
           g2 == [h2 EXCEPT !.left = 0]
<1>1. Sound(g) /\ Kids(g) = Kids(h) /\ Live(g) = Live(h) /\ g.mem = h.mem
  BY LeftSet
<1>2. Sound(g2) /\ Kids(g2) = Kids(h2) /\ Live(g2) = Live(h2) /\ g2.mem = h2.mem
  BY LeftSet
<1> HIDE DEF g, g2
<1>3. \A n : Steady(h2, g, n) => Steady(g2, h, n)
  BY <1>1, <1>2 DEF Steady
<1>4. \A n : Idle(g, h2, n) => Idle(h, g2, n)
  BY <1>1, <1>2, <1>3 DEF Idle
<1>5. \A n : Built(g, h2, n) => Built(h, g2, n)
  BY <1>1, <1>2, <1>3 DEF Built, Grew
<1>6. \A p, n : Put(g, h2, p, n) => Put(h, g2, p, n)
  BY <1>1, <1>2, <1>3 DEF Put
<1>7. \A p, k : TakenAt(g, h2, p, k) => TakenAt(h, g2, p, k)
  BY <1>1, <1>2, <1>3 DEF TakenAt
<1>8. \A n : Gone(g, h2, n) => Gone(h, g2, n)
  BY <1>1, <1>2, <1>3 DEF Gone
<1>9. \A p, k : TakenGone(g, h2, p, k) => TakenGone(h, g2, p, k)
  BY <1>1, <1>2, <1>3 DEF TakenGone
<1>10. \A p, k, n : Swapped(g, h2, p, k, n) => Swapped(h, g2, p, k, n)
  BY <1>1, <1>2, <1>3 DEF Swapped
<1>11. QED BY <1>4, <1>5, <1>6, <1>7, <1>8, <1>9, <1>10 DEF g, g2

\* A call that makes a tree, or fails.
LEMMA GrownCall ==
  ASSUME NEW h, Sound(h), NEW r, Grown(h, r)
  PROVE  /\ r.ret = NULL => Idle(h, r.heap, NULL)
         /\ r.ret # NULL => Built(h, r.heap, r.ret)
<1>0. h \in Heaps /\ Blank(h) /\ Live(h) \subseteq Nodes /\ Forest(Live(h), Kids(h))
  BY SoundMeans
<1>1. CASE r.ret = NULL /\ Added(h, r.heap, {})
  <2>1. /\ r.heap \in Heaps /\ \A x \in Nodes : r.heap.mem[x] = h.mem[x]
        /\ r.heap.strings = h.strings
    <3>1. h.strings \in Int
      BY <1>0 DEF Heaps
    <3>2. r.heap.strings = h.strings + 0
      BY <1>1, EmptyBlocks DEF Added
    <3>3. QED BY <1>1, <3>1, <3>2 DEF Added
  <2>2. r.heap.mem = h.mem
    BY <1>0, <2>1, SameMem
  <2>3. Sound(r.heap) /\ Kids(r.heap) = Kids(h) /\ Live(r.heap) = Live(h)
    BY <2>1, <2>2, SameHeap
  <2>4. QED BY <1>1, <2>2, <2>3 DEF Idle, Steady
<1>2. CASE r.ret # NULL /\ \E F \in SUBSET Nodes, T \in [Nodes -> Seq(Nodes)] :
             Added(h, r.heap, F) /\ Tree(r.heap.mem, F, T, r.ret) /\ Plain(r.heap.mem, F)
  <2>1. PICK F \in SUBSET Nodes, T \in [Nodes -> Seq(Nodes)] :
             Added(h, r.heap, F) /\ Tree(r.heap.mem, F, T, r.ret) /\ Plain(r.heap.mem, F)
    BY <1>2
  <2>2. /\ Sound(r.heap) /\ Kids(r.heap) = Joined(Kids(h), T, F) /\ Live(r.heap) = Live(h) \cup F
        /\ \A x : x \in ListedBy(Kids(r.heap)) <=> x \in ListedBy(Kids(h)) \/ x \in ListedBy(T)
    BY <2>1, MoreSound DEF Plain
  <2>3. Forest(F, T) /\ r.ret \in F \ ListedBy(T) /\ FamilyOf(T, r.ret) = F
    BY <2>1 DEF Tree, Linked
  <2>4. Live(h) \cap F = {} /\ \A x \in Live(h) : r.heap.mem[x] = h.mem[x]
    BY <2>1, AddedLive
  <2>5. Steady(r.heap, h, NULL)
    BY <2>4 DEF Steady
  <2>6. Grew(h, r.heap, F, T, r.ret)
    BY <2>1, <2>2, <2>3, <2>4 DEF Grew
  <2>7. QED BY <1>2, <2>2, <2>5, <2>6 DEF Built
<1>3. QED BY <1>1, <1>2 DEF Grown

\* A call whose pointers put n in p's list does that to the lists.
LEMMA PutCall ==
  ASSUME NEW h, NEW p, NEW n, CanTake(h, p, n), NEW h2, Rewired(h2, h), NEW k \in 1..(Len(Kids(h)[p]) + 1),
         PutIn(h.mem, h2.mem, p, Kids(h)[p], k, n)
  PROVE  Put(h, h2, p, n)
<1>1. Sound(h) /\ p \in Live(h) /\ n \in Live(h) /\ n \notin ListedBy(Kids(h)) /\ p \notin FamilyOf(Kids(h), n)
  BY DEF CanTake, OwnList
<1>2. Sound(h2) /\ Kids(h2) = Putting(Kids(h), p, k, n) /\ Live(h2) = Live(h)
  BY PutSound
<1>3. Forest(Live(h), Kids(h)) /\ Live(h) \subseteq Nodes
  BY <1>1, SoundMeans
<1>4. ListedBy(Kids(h2)) = ListedBy(Kids(h)) \cup {n}
  BY <1>1, <1>2, <1>3, InsertedForest
<1>5. Steady(h2, h, n)
  BY <1>3 DEF Rewired, Unchanged, SameTexts, Steady
<1>6. Live(h) \cup {n} = Live(h)
  BY <1>1
<1>7. QED BY <1>1, <1>2, <1>3, <1>4, <1>5, <1>6 DEF Put

\* A family is what its members' lists make it.
LEMMA SameFamily ==
  ASSUME NEW L \in [Nodes -> Seq(Nodes)], NEW L2 \in [Nodes -> Seq(Nodes)], NEW n \in Nodes,
         \A y \in FamilyOf(L, n) : L2[y] = L[y]
  PROVE  FamilyOf(L2, n) = FamilyOf(L, n)
<1> DEFINE F == FamilyOf(L, n)
           G == FamilyOf(L2, n)
<1>1. /\ F \in SUBSET Nodes /\ n \in F /\ \A y \in F : ToSet(L[y]) \subseteq F
      /\ \A C \in SUBSET Nodes : n \in C /\ (\A y \in C : ToSet(L[y]) \subseteq C) => F \subseteq C
  BY FamilyIsLeast
<1>2. /\ G \in SUBSET Nodes /\ n \in G /\ \A y \in G : ToSet(L2[y]) \subseteq G
      /\ \A C \in SUBSET Nodes : n \in C /\ (\A y \in C : ToSet(L2[y]) \subseteq C) => G \subseteq C
  BY FamilyIsLeast
<1>3. \A y \in F : L2[y] = L[y]
  OBVIOUS
<1> HIDE DEF F, G
<1>4. G \subseteq F
  BY <1>1, <1>2, <1>3
<1>5. F \subseteq G
  BY <1>1, <1>2, <1>3, <1>4
<1>6. G = F
  BY <1>4, <1>5
<1>7. QED BY <1>6 DEF F, G

\* What is reached from an item that nobody lists, or from one alone, is its family.
LEMMA ReachedAlone ==
  ASSUME NEW h, Sound(h), NEW n \in Live(h), n \notin ListedBy(Kids(h))
  PROVE  Reached(h, {n}) = FamilyOf(Kids(h), n)
<1>1. h \in Heaps /\ Linked(h.mem, Live(h), Kids(h))
  BY SoundMeans
<1> DEFINE L == Kids(h)
           m == h.mem
<1>2. Forest(Live(h), L) /\ Heads(m, Live(h), L) /\ m[n].next = NULL
  BY <1>1 DEF Linked, Loose
<1>3. \A p \in Nodes : \A i \in 1..Len(L[p]) : L[p][i] # n => m[L[p][i]].next = After(L[p], i)
  BY <1>1 DEF Linked, Nexts
<1> HIDE DEF L
<1>4. QED BY <1>1, <1>2, <1>3, ReachedIsFamily DEF L

\* What is reached from an item without its next one is its family.
LEMMA ReachedCutOff ==
  ASSUME NEW h, Sound(h), NEW n \in Live(h)
  PROVE  Reached([h EXCEPT !.mem[n].next = NULL], {n}) = FamilyOf(Kids(h), n)
<1> DEFINE g == [h EXCEPT !.mem[n].next = NULL]
           L == Kids(h)
           m == h.mem
           m2 == g.mem
           S == Live(h)
<1>1. h \in Heaps /\ Linked(m, S, L) /\ n \in Nodes /\ S \subseteq Nodes /\ Forest(S, L)
  BY SoundMeans
<1>2. g \in Heaps /\ NextIs(m2, m, n, NULL)
  BY <1>1, NextPut
<1> HIDE DEF g, L, m, S
<1>3. Heads(m2, S, L)
  BY <1>1, <1>2 DEF Linked, Heads, NextIs, SameTexts
<1>4. m2[n].next = NULL
  BY <1>1, <1>2 DEF NextIs
<1>5. \A p \in Nodes : \A i \in 1..Len(L[p]) : L[p][i] # n => m2[L[p][i]].next = After(L[p], i)
  <2>1. SUFFICES ASSUME NEW p \in Nodes, NEW i \in 1..Len(L[p]), L[p][i] # n PROVE m2[L[p][i]].next = After(L[p], i)
    OBVIOUS
  <2>2. L[p][i] \in Nodes
    <3>1. L[p] \in Seq(Nodes)
      BY <1>1, ForestLists
    <3>2. QED BY <3>1
  <2>3. m[L[p][i]].next = After(L[p], i)
    BY <1>1 DEF Linked, Nexts
  <2>4. QED BY <1>2, <2>1, <2>2, <2>3 DEF NextIs
<1>6. n \in S
  BY DEF S
<1>7. Reached(g, {n}) = FamilyOf(L, n)
  BY <1>1, <1>2, <1>3, <1>4, <1>5, <1>6, ReachedIsFamily
<1>8. QED BY <1>7 DEF g, L

\* Pointers that change leave what the references refer to as it is.
LEMMA SameBorrowed ==
  ASSUME NEW h, NEW g, Rewired(g, h), NEW F
  PROVE  Borrowed(g, F) <=> Borrowed(h, F)
<1>1. Live(g) = Live(h) /\ Unchanged(g, h) /\ Live(h) \subseteq Nodes
  BY SameLive DEF Rewired, Live
<1>2. \A x \in Live(h) : g.mem[x].ref = h.mem[x].ref /\ g.mem[x].of = h.mem[x].of
  BY <1>1 DEF Unchanged, SameTexts
<1>3. QED BY <1>1, <1>2 DEF Borrowed

\* Pointers that change leave the keys as they are.
LEMMA SteadyRewired ==
  ASSUME NEW h, NEW g, Rewired(g, h), NEW n
  PROVE  Steady(g, h, n)
BY DEF Rewired, Unchanged, SameTexts, Steady, Live

\* cJSON_DetachItemViaPointer, then perhaps cJSON_Delete.
LEMMA DetachedCall ==
  ASSUME NEW h, NEW p, OwnList(h, p), ~ Borrowed(h, {p}), NEW k \in 1..Len(Kids(h)[p])
  PROVE  LET n == Kids(h)[p][k]
             r == cJSON_DetachItemViaPointer(h, p, n)
         IN /\ r.ret = n /\ TakenAt(h, r.heap, p, k)
            /\ ~ Borrowed(h, FamilyOf(Kids(h), n)) => TakenGone(h, cJSON_Delete(r.heap, n), p, k)
<1> DEFINE L == Kids(h)
           n == L[p][k]
           r == cJSON_DetachItemViaPointer(h, p, n)
           g == r.heap
           F == FamilyOf(L, n)
           d == cJSON_Delete(g, n)
<1>1. Sound(h) /\ p \in Live(h) /\ Forest(Live(h), L) /\ Live(h) \subseteq Nodes /\ k \in 1..Len(L[p])
  BY SoundMeans DEF OwnList
<1>2. r.ret = n /\ Rewired(g, h) /\ TakenOut(h.mem, g.mem, p, L[p], k)
  BY DetachedLinks
<1> HIDE DEF r
<1>3. Sound(g) /\ Kids(g) = Taking(L, p, k) /\ Live(g) = Live(h)
  BY <1>2, TakenSound
<1> HIDE DEF L
<1>4. ListedBy(Kids(g)) = ListedBy(L) \ {n} /\ FamilyOf(Kids(g), n) = F
  BY <1>1, <1>3, RemovedForest
<1>5. TakenAt(h, g, p, k)
  BY <1>1, <1>2, <1>3, <1>4, SteadyRewired DEF TakenAt, L
<1>6. ASSUME ~ Borrowed(h, F) PROVE TakenGone(h, d, p, k)
  <2>1. n \in Live(g) /\ n \notin ListedBy(Kids(g)) /\ ~ Borrowed(g, F)
    <3>1. L[p] \in Seq(Live(h))
      BY <1>1, ForestLists
    <3>2. n \in Live(h)
      BY <1>1, <3>1
    <3>3. QED BY <1>2, <1>3, <1>4, <1>6, <3>2, SameBorrowed
  <2>2. /\ Sound(d) /\ Kids(d) = Dropped(Kids(g), F) /\ Live(d) = Live(g) \ F
        /\ \A x \in Live(d) : d.mem[x] = g.mem[x]
        /\ ListedBy(Kids(d)) = ListedBy(Kids(g)) \ F
    <3>1. FamilyOf(Kids(g), n) = F
      BY <1>4
    <3> HIDE DEF g, n, F
    <3>2. QED BY <1>3, <2>1, <3>1, LessSound
  <2>3. n \in F
    BY <1>1, <1>3, <2>1, FamilyWithin
  <2>4. ListedBy(Kids(d)) = ListedBy(L) \ F
    BY <1>4, <2>2, <2>3
  <2>5. Steady(d, h, NULL)
    <3>1. Steady(g, h, NULL)
      BY <1>2, SteadyRewired
    <3>2. QED BY <1>3, <2>2, <3>1 DEF Steady
  <2>6. QED BY <1>1, <1>3, <2>2, <2>4, <2>5 DEF TakenGone, L
<1>7. QED BY <1>2, <1>5, <1>6 DEF r, L

\* cJSON_Delete of a tree the caller has.
LEMMA DeletedCall ==
  ASSUME NEW h, Sound(h), NEW n \in Live(h), n \notin ListedBy(Kids(h)), ~ Borrowed(h, FamilyOf(Kids(h), n))
  PROVE  Gone(h, cJSON_Delete(h, n), n)
<1> DEFINE d == cJSON_Delete(h, n)
           F == FamilyOf(Kids(h), n)
<1>1. /\ Sound(d) /\ Kids(d) = Dropped(Kids(h), F) /\ Live(d) = Live(h) \ F
      /\ \A x \in Live(d) : d.mem[x] = h.mem[x]
      /\ ListedBy(Kids(d)) = ListedBy(Kids(h)) \ F
  BY LessSound
<1>2. Steady(d, h, NULL)
  BY <1>1 DEF Steady
<1>3. QED BY <1>1, <1>2 DEF Gone

\* cJSON_ReplaceItemViaPointer, and whom it deletes.
LEMMA ReplacedCall ==
  ASSUME NEW h, NEW p, NEW n, CanTake(h, p, n), ~ Borrowed(h, {p}), NEW k \in 1..Len(Kids(h)[p]),
         ~ Borrowed(h, FamilyOf(Kids(h), Kids(h)[p][k]))
  PROVE  LET r == cJSON_ReplaceItemViaPointer(h, p, Kids(h)[p][k], n)
         IN r.ret = TRUE /\ Swapped(h, r.heap, p, k, n)
<1> DEFINE L == Kids(h)
           o == L[p][k]
           r == cJSON_ReplaceItemViaPointer(h, p, o, n)
           F == FamilyOf(L, o)
           L2 == Exchanging(L, p, k, n)
<1>1. /\ Sound(h) /\ p \in Live(h) /\ Forest(Live(h), L) /\ Live(h) \subseteq Nodes /\ k \in 1..Len(L[p])
      /\ n \in Live(h) /\ n \notin ListedBy(L) /\ p \notin FamilyOf(L, n) /\ L \in [Nodes -> Seq(Nodes)]
  BY SoundMeans DEF OwnList, CanTake
<1>2. PICK g : /\ Rewired(g, h) /\ PutInPlace(h.mem, g.mem, p, L[p], k, n)
               /\ r = Returns(cJSON_Delete(g, o), TRUE)
  BY ReplacedLinks
<1> DEFINE d == cJSON_Delete(g, o)
<1>3. r.ret = TRUE /\ r.heap = d
  BY <1>2 DEF Returns
<1> HIDE DEF r
<1>4. Sound(g) /\ Kids(g) = L2 /\ Live(g) = Live(h)
  BY <1>2, ExchangedSound
<1>5. ~ Borrowed(h, F)
  OBVIOUS
<1> HIDE DEF L
<1>6. Forest(Live(h), L2) /\ ListedBy(L2) = (ListedBy(L) \ {o}) \cup {n}
  BY <1>1, ExchangedForest
<1>7. o \in ToSet(L[p]) /\ o \in Live(h) /\ o \in Nodes /\ o \in ListedBy(L) /\ o # n
  <2>1. L[p] \in Seq(Live(h))
    BY <1>1, ForestLists
  <2>2. o \in Live(h)
    BY <1>1, <2>1
  <2>3. o \in ToSet(L[p])
    <3> DEFINE s == L[p]
    <3>1. s \in Seq(Live(h)) /\ k \in 1..Len(s) /\ o = s[k]
      BY <1>1, <2>1
    <3> HIDE DEF s, o
    <3>2. o \in ToSet(s)
      BY <3>1, Members
    <3>3. QED BY <3>2 DEF s
  <2>4. o \in ListedBy(L)
    BY <1>1, <2>3, ListedMeans
  <2>5. QED BY <1>1, <2>2, <2>3, <2>4
<1> HIDE DEF o
<1>8. p \notin F
  BY <1>1, <1>7, NotBelowItself
<1>9. L2 \in [Nodes -> Seq(Nodes)]
  BY <1>6, ForestLists
<1>10. FamilyOf(L2, o) = F
  <2>1. \A y \in F : y \in Nodes /\ L2[y] = L[y]
    BY <1>1, <1>7, <1>8, FamilyIsLeast DEF Exchanging
  <2> HIDE DEF L2
  <2>2. FamilyOf(L, o) = F /\ o \in Nodes /\ L \in [Nodes -> Seq(Nodes)]
    BY <1>1, <1>7
  <2>3. QED BY <1>9, <2>1, <2>2, SameFamily, ZenonT(40)
<1>11. n \notin F
  <2>1. F \in SUBSET Nodes
    BY <1>1, <1>7, FamilyIsLeast
  <2>2. SUFFICES ASSUME n \in F PROVE FALSE
    OBVIOUS
  <2>3. PICK q \in F : n \in ToSet(L[q])
    BY <1>1, <1>7, <2>2, ParentsInFamily
  <2>4. n \in ListedBy(L)
    BY <2>1, <2>3, ListedMeans
  <2>5. QED BY <1>1, <2>4
<1>12. o \in F
  BY <1>1, <1>7, FamilyIsLeast
<1>13. /\ Sound(d) /\ Kids(d) = Dropped(L2, F) /\ Live(d) = Live(h) \ F
       /\ \A x \in Live(d) : d.mem[x] = g.mem[x]
       /\ ListedBy(Kids(d)) = ListedBy(L2) \ F
  <2>1. ~ Borrowed(g, F)
    BY <1>2, <1>5, SameBorrowed
  <2>2. o \in Live(g) /\ o \notin ListedBy(Kids(g)) /\ FamilyOf(Kids(g), o) = F
    BY <1>4, <1>6, <1>7, <1>10
  <2> HIDE DEF F, L2
  <2>3. QED BY <1>4, <2>1, <2>2, LessSound
<1>14. Steady(d, h, n)
  <2>1. Steady(g, h, n)
    BY <1>2, SteadyRewired
  <2>2. QED BY <1>4, <1>13, <2>1 DEF Steady
<1>15. ListedBy(Kids(d)) = (ListedBy(L) \cup {n}) \ F
  BY <1>6, <1>12, <1>13
<1>16. Swapped(h, d, p, k, n)
  BY <1>1, <1>11, <1>13, <1>14, <1>15 DEF Swapped, L, o
<1>17. QED BY <1>3, <1>16 DEF r, L, o

\* An item gets another key, and the heap counts the strings it has.
LEMMA RenamedCall ==
  ASSUME NEW h, Sound(h), NEW n \in Live(h), NEW key \in Keys \cup {NULL}, NEW const \in BOOLEAN,
         NEW g \in Heaps, g.mem = h.mem, g.strings = h.strings + One(key # NULL /\ ~ const)
  PROVE  /\ Idle(h, Renamed(g, n, key, const), n) /\ Renamed(g, n, key, const).left = g.left
         /\ \A x \in Nodes : Renamed(g, n, key, const).mem[x].of = h.mem[x].of
<1> DEFINE m == g.mem[n]
           g1 == [g EXCEPT !.mem[n].string = key]
           g2 == [g1 EXCEPT !.mem[n].const = const]
           owned == OwnsString(m)
           g3 == [g2 EXCEPT !.strings = IF owned THEN @ - 1 ELSE @]
           u == [m EXCEPT !.string = key]
           v == [u EXCEPT !.const = const]
<1>1. n \in Nodes /\ Live(h) \subseteq Nodes /\ h \in Heaps /\ m \in cJSON /\ Typed(h.mem[n]) /\ m = h.mem[n]
  BY SoundMeans, Fields
<1>2. Renamed(g, n, key, const) = g3
  BY DEF Renamed
<1>3. /\ g1 \in Heaps /\ g1.strings = g.strings /\ g1.left = g.left
      /\ \A x \in Nodes : g1.mem[x] = IF x = n THEN u ELSE g.mem[x]
  <2>1. ItemIs(g1, g, n, u)
    BY <1>1, StringSet
  <2> HIDE DEF g1, u
  <2>2. QED BY <2>1 DEF ItemIs
<1> HIDE DEF g1, u
<1>4. /\ g2 \in Heaps /\ g2.strings = g1.strings /\ g2.left = g1.left
      /\ \A x \in Nodes : g2.mem[x] = IF x = n THEN [g1.mem[n] EXCEPT !.const = const] ELSE g1.mem[x]
  <2>1. ItemIs(g2, g1, n, [g1.mem[n] EXCEPT !.const = const])
    BY <1>1, <1>3, ConstSet
  <2> HIDE DEF g2
  <2>2. QED BY <2>1 DEF ItemIs
<1>5. g2.mem[n] = v /\ \A x \in Nodes : x # n => g2.mem[x] = g.mem[x]
  BY <1>1, <1>3, <1>4
<1>6. /\ v.type = m.type /\ v.ref = m.ref /\ v.value = m.value /\ v.string = key /\ v.const = const
      /\ v.child = m.child /\ v.next = m.next /\ v.prev = m.prev /\ v.of = m.of
  BY <1>1 DEF cJSON, u
<1> HIDE DEF g2, v, owned
<1>7. g3 \in Heaps /\ g3.mem = g2.mem /\ g3.left = g2.left /\ g3.strings = g2.strings - One(owned)
  BY <1>4 DEF Heaps, One
<1> HIDE DEF g3
<1> DEFINE before == One(OwnsString(h.mem[n])) + One(OwnsValue(h.mem[n]))
           after  == One(OwnsString(g3.mem[n])) + One(OwnsValue(g3.mem[n]))
<1>8. g3.mem[n] = v
  BY <1>5, <1>7
<1>9. One(OwnsString(v)) = One(key # NULL /\ ~ const) /\ One(OwnsValue(v)) = One(OwnsValue(m)) /\ Typed(v)
  BY <1>1, <1>6 DEF One, OwnsString, OwnsValue, Typed
<1>10. before \in Int /\ after \in Int
  BY DEF One
<1>11. g3.strings = h.strings - before + after
  <2>1. One(owned) = One(OwnsString(h.mem[n])) /\ One(OwnsValue(m)) = One(OwnsValue(h.mem[n]))
    BY <1>1 DEF owned
  <2>2. h.strings \in Int /\ One(owned) \in Int /\ One(key # NULL /\ ~ const) \in Int /\ One(OwnsValue(m)) \in Int
    BY <1>1 DEF Heaps, One
  <2>3. g3.strings = h.strings + One(key # NULL /\ ~ const) - One(owned)
    <3>1. g2.strings = h.strings + One(key # NULL /\ ~ const)
      BY <1>3, <1>4
    <3> DEFINE a == One(key # NULL /\ ~ const)
               b == One(owned)
    <3>2. /\ g2.strings = h.strings + a /\ g3.strings = g2.strings - b
          /\ a \in Int /\ b \in Int /\ h.strings \in Int
      BY <3>1, <1>7, <2>2
    <3> HIDE DEF a, b
    <3>3. g3.strings = h.strings + a - b
      BY <3>2
    <3>4. QED BY <3>3 DEF a, b
  <2>4. before = One(owned) + One(OwnsValue(m)) /\ after = One(key # NULL /\ ~ const) + One(OwnsValue(m))
    BY <1>8, <1>9, <2>1
  <2> HIDE DEF before, after
  <2>5. QED BY <2>2, <2>3, <2>4
<1> HIDE DEF before, after
<1>12. Untouched(g3, h, Nodes \ {n})
  BY <1>5, <1>7 DEF Untouched
<1>13. SameLinks(g3.mem[n], h.mem[n]) /\ g3.mem[n].type = h.mem[n].type /\ g3.mem[n].of = h.mem[n].of
       /\ Typed(g3.mem[n])
  BY <1>1, <1>6, <1>8, <1>9 DEF SameLinks
<1>14. Sound(g3) /\ Kids(g3) = Kids(h) /\ Live(g3) = Live(h)
  BY <1>7, <1>10, <1>11, <1>12, <1>13, Retexted DEF before, after
<1>15. Steady(g3, h, n)
  BY <1>1, <1>12, <1>13 DEF Steady, Untouched, SameLinks
<1>16. \A x \in Nodes : g3.mem[x].of = h.mem[x].of
  BY <1>12, <1>13 DEF Untouched
<1>17. QED BY <1>2, <1>3, <1>4, <1>7, <1>14, <1>15, <1>16 DEF Idle

\* cJSON_SetValuestring changes no list and no key, and owns as many strings.
LEMMA SetCall ==
  ASSUME NEW h, Sound(h), NEW n \in Live(h), NEW value \in Values
  PROVE  Idle(h, cJSON_SetValuestring(h, n, value).heap, NULL)
<1> DEFINE m == h.mem[n]
           r == cJSON_SetValuestring(h, n, value)
           g == [h EXCEPT !.mem[n].value = value]
           v == [m EXCEPT !.value = value]
<1>1. n \in Nodes /\ Live(h) \subseteq Nodes /\ h \in Heaps /\ m \in cJSON /\ Typed(m) /\ NULL \notin Values
  BY SoundMeans, Fields, JsonTreeAssumption
<1>2. CASE m.type # "String" \/ m.ref \/ (value > m.value /\ ~ MayCopy(h))
  <2>1. r.heap = h
    BY <1>2 DEF cJSON_SetValuestring, Returns
  <2>2. QED BY <2>1 DEF Idle, Steady
<1>3. CASE ~ (m.type # "String" \/ m.ref \/ (value > m.value /\ ~ MayCopy(h)))
  <2>1. r.heap = g
    BY <1>3 DEF cJSON_SetValuestring, Returns
  <2>2. /\ g \in Heaps /\ g.strings = h.strings
        /\ \A x \in Nodes : g.mem[x] = IF x = n THEN v ELSE h.mem[x]
    <3>1. ItemIs(g, h, n, v)
      BY <1>1, ValueSet
    <3> HIDE DEF g, v
    <3>2. QED BY <3>1 DEF ItemIs
  <2> HIDE DEF g
  <2>3. /\ v.type = m.type /\ v.ref = m.ref /\ v.value = value /\ v.string = m.string /\ v.const = m.const
        /\ v.child = m.child /\ v.next = m.next /\ v.prev = m.prev /\ v.of = m.of
    BY <1>1 DEF cJSON
  <2> HIDE DEF v
  <2>4. m.value \in Values /\ m.type = "String"
    BY <1>1, <1>3 DEF Typed
  <2>5. OwnsString(v) = OwnsString(m) /\ OwnsValue(v) = OwnsValue(m) /\ Typed(v)
    <3>1. v.value # NULL /\ m.value # NULL
      BY <1>1, <2>3, <2>4
    <3>2. "String" \notin Parents
      BY DEF Parents
    <3>3. QED BY <2>3, <2>4, <3>1, <3>2 DEF OwnsString, OwnsValue, Typed
  <2>6. g.mem[n] = v
    BY <1>1, <2>2
  <2> DEFINE before == One(OwnsString(h.mem[n])) + One(OwnsValue(h.mem[n]))
             after  == One(OwnsString(g.mem[n])) + One(OwnsValue(g.mem[n]))
  <2>7. before \in Int /\ after \in Int
    BY DEF One
  <2>8. before = after /\ h.strings \in Int
    BY <1>1, <2>5, <2>6 DEF Heaps
  <2> HIDE DEF before, after
  <2>9. g.strings = h.strings - before + after
    BY <2>2, <2>7, <2>8
  <2>10. Untouched(g, h, Nodes \ {n})
    BY <2>2 DEF Untouched
  <2>11. SameLinks(g.mem[n], h.mem[n]) /\ g.mem[n].type = h.mem[n].type /\ g.mem[n].of = h.mem[n].of
         /\ Typed(g.mem[n])
    BY <2>3, <2>5, <2>6 DEF SameLinks
  <2>12. Sound(g) /\ Kids(g) = Kids(h) /\ Live(g) = Live(h)
    BY <2>2, <2>7, <2>9, <2>10, <2>11, Retexted DEF before, after
  <2>13. Steady(g, h, NULL)
    BY <1>1, <2>2, <2>3 DEF Steady
  <2>14. QED BY <2>1, <2>12, <2>13 DEF Idle
<1>4. QED BY <1>2, <1>3

-----------------------------------------------------------------------------
(* One call after another.                                                 *)

\* Nothing happens to the lists twice.
LEMMA IdleTwice ==
  ASSUME NEW h, NEW g, NEW g2, NEW n, Idle(h, g, n), Idle(g, g2, n)
  PROVE  Idle(h, g2, n)
BY DEF Idle, Steady

\* Something is put in a list after a call that changed none.
LEMMA IdlePut ==
  ASSUME NEW h, NEW g, NEW g2, NEW p, NEW n, Idle(h, g, n), Put(g, g2, p, n)
  PROVE  Put(h, g2, p, n)
<1>1. Live(g) = Live(h) /\ Kids(g) = Kids(h) /\ Live(g2) = Live(g) \cup {n} /\ Steady(g, h, n) /\ Steady(g2, g, n)
  BY DEF Idle, Put
<1>2. Steady(g2, h, n)
  BY <1>1 DEF Steady
<1>3. QED BY <1>1, <1>2 DEF Put

\* An item takes another one's place after a call that changed no list.
LEMMA IdleSwapped ==
  ASSUME NEW h, NEW g, NEW g2, NEW p, NEW k, NEW n, Idle(h, g, n), Swapped(g, g2, p, k, n)
  PROVE  Swapped(h, g2, p, k, n)
<1>1. Live(g) = Live(h) /\ Kids(g) = Kids(h) /\ Live(g2) \subseteq Live(g) /\ Steady(g, h, n) /\ Steady(g2, g, n)
  BY DEF Idle, Swapped
<1>2. Steady(g2, h, n)
  BY <1>1 DEF Steady
<1>3. QED BY <1>1, <1>2 DEF Swapped

\* After a call that changed no list, what can be put where is the same.
LEMMA IdleCanTake ==
  ASSUME NEW h, NEW g, NEW p, NEW n, Idle(h, g, n), CanTake(h, p, n)
  PROVE  CanTake(g, p, n)
BY DEF Idle, Steady, CanTake, OwnList

\* add_item_to_array.
LEMMA AddedCall ==
  ASSUME NEW h, NEW p, NEW n, CanTake(h, p, n)
  PROVE  add_item_to_array(h, p, n).ret = TRUE /\ Put(h, add_item_to_array(h, p, n).heap, p, n)
<1> DEFINE s == Kids(h)[p]
           g == add_item_to_array(h, p, n).heap
<1>1. add_item_to_array(h, p, n).ret = TRUE /\ Rewired(g, h) /\ PutIn(h.mem, g.mem, p, s, Len(s) + 1, n)
  BY AddedLinks
<1>2. Len(s) \in Nat
  BY OwnListMeans DEF CanTake
<1> DEFINE k == Len(s) + 1
<1>3. k \in 1..(Len(s) + 1) /\ PutIn(h.mem, g.mem, p, s, k, n)
  BY <1>1, <1>2
<1> HIDE DEF k, g
<1>4. Put(h, g, p, n)
  BY <1>1, <1>3, PutCall
<1>5. QED BY <1>1, <1>4 DEF g

\* add_item_to_object.
LEMMA NamedCall ==
  ASSUME NEW h, NEW p, NEW n, CanTake(h, p, n), NEW key \in Keys, NEW constantKey \in BOOLEAN
  PROVE  LET r == add_item_to_object(h, p, key, n, constantKey)
         IN \/ r.ret = TRUE /\ Put(h, r.heap, p, n)
            \/ r.ret = FALSE /\ r.heap = h
<1> DEFINE r == add_item_to_object(h, p, key, n, constantKey)
<1>1. Sound(h) /\ n \in Live(h) /\ h \in Heaps /\ n # NULL /\ n # p /\ key # NULL /\ key \in Keys \cup {NULL}
  <2>1. Sound(h) /\ n \in Live(h) /\ n # NULL /\ n # p
    BY CanTakeMeans DEF CanTake, OwnList
  <2>2. QED BY <2>1, SoundMeans, JsonTreeAssumption
<1>2. h.strings \in Int
  BY <1>1 DEF Heaps
<1>3. ASSUME NEW g \in Heaps, g.mem = h.mem, NEW const \in BOOLEAN, g.strings = h.strings + One(key # NULL /\ ~ const),
             r = add_item_to_array(Renamed(g, n, key, const), p, n)
      PROVE  r.ret = TRUE /\ Put(h, r.heap, p, n)
  <2> DEFINE g2 == Renamed(g, n, key, const)
  <2>1. Idle(h, g2, n)
    BY <1>1, <1>3, RenamedCall
  <2> HIDE DEF g2
  <2>2. CanTake(g2, p, n)
    BY <2>1, IdleCanTake
  <2>3. add_item_to_array(g2, p, n).ret = TRUE /\ Put(g2, add_item_to_array(g2, p, n).heap, p, n)
    BY <2>2, AddedCall
  <2>4. r = add_item_to_array(g2, p, n)
    BY <1>3 DEF g2
  <2>5. QED BY <2>1, <2>3, <2>4, IdlePut
<1>4. CASE constantKey
  <2>1. r = add_item_to_array(Renamed(h, n, key, TRUE), p, n)
    BY <1>1, <1>4 DEF add_item_to_object
  <2>2. h.strings = h.strings + One(key # NULL /\ ~ TRUE)
    BY <1>2 DEF One
  <2>3. QED BY <1>1, <1>3, <2>1, <2>2
<1>5. CASE ~ constantKey /\ MayCopy(h)
  <2>1. r = add_item_to_array(Renamed(Copied(h), n, key, FALSE), p, n)
    BY <1>1, <1>5 DEF add_item_to_object
  <2>2. Copied(h) \in Heaps /\ Copied(h).mem = h.mem /\ Copied(h).strings = h.strings + 1
    BY <1>1, <1>5, CopiedHeap
  <2>3. Copied(h).strings = h.strings + One(key # NULL /\ ~ FALSE)
    BY <1>1, <2>2 DEF One
  <2>4. QED BY <1>3, <2>1, <2>2, <2>3
<1>6. CASE ~ constantKey /\ ~ MayCopy(h)
  BY <1>1, <1>6 DEF add_item_to_object, Returns
<1>7. QED BY <1>4, <1>5, <1>6

\* The same, for a call that is not looked into.
PutOrKept(h, r, p, n) == \/ r.ret = TRUE /\ Put(h, r.heap, p, n)
                         \/ r.ret = FALSE /\ r.heap = h
\* NamedCall, as a property of the call.
LEMMA NamedPuts ==
  ASSUME NEW h, NEW p, NEW n, CanTake(h, p, n), NEW key \in Keys, NEW constantKey \in BOOLEAN
  PROVE  PutOrKept(h, add_item_to_object(h, p, key, n, constantKey), p, n)
BY NamedCall, ZenonT(40) DEF PutOrKept

\* cJSON_InsertItemInArray.
LEMMA InsertedCall ==
  ASSUME NEW h, NEW p, NEW n, CanTake(h, p, n), NEW which \in Nat
  PROVE  LET r == cJSON_InsertItemInArray(h, p, which, n) IN r.ret = TRUE /\ Put(h, r.heap, p, n)
<1> DEFINE r == cJSON_InsertItemInArray(h, p, which, n)
           s == Kids(h)[p]
<1>1. r.ret = TRUE /\ Rewired(r.heap, h) /\ \E k \in 1..(Len(s) + 1) : PutIn(h.mem, r.heap.mem, p, s, k, n)
  BY InsertedItemLinks
<1>2. PICK k \in 1..(Len(s) + 1) : PutIn(h.mem, r.heap.mem, p, s, k, n)
  BY <1>1
<1> HIDE DEF r
<1>3. Put(h, r.heap, p, n)
  BY <1>1, <1>2, PutCall
<1>4. QED BY <1>1, <1>3 DEF r

-----------------------------------------------------------------------------
(* A new item that is put in a list.                                       *)

\* n is new, and in no list.
Single(h, g, n) ==
  /\ Sound(g) /\ Steady(g, h, NULL)
  /\ n \in Nodes \ Live(h) /\ Live(g) = Live(h) \cup {n} /\ Kids(g) = Kids(h)

\* A new item has no children, is nobody's child, and fits anywhere.
LEMMA SingleFits ==
  ASSUME NEW h, NEW p, OwnList(h, p), NEW g, NEW n, Single(h, g, n)
  PROVE  CanTake(g, p, n) /\ FamilyOf(Kids(h), n) = {n} /\ n \notin ListedBy(Kids(h)) /\ n # p
<1>1. Sound(h) /\ p \in Live(h) /\ ~ h.mem[p].ref /\ n \in Nodes \ Live(h)
  BY DEF OwnList, Single
<1>2. Kids(h) \in [Nodes -> Seq(Nodes)] /\ ListedBy(Kids(h)) \subseteq Live(h) /\ Kids(h)[n] = << >>
  BY <1>1, SoundMeans
<1>3. FamilyOf(Kids(h), n) = {n}
  BY <1>1, <1>2, FamilyOfLeaf
<1>4. g.mem[p].ref = h.mem[p].ref /\ p \in Live(g) /\ n \in Live(g) /\ Sound(g) /\ Kids(g) = Kids(h)
  BY <1>1 DEF Single, Steady
<1>5. QED BY <1>1, <1>2, <1>3, <1>4 DEF CanTake, OwnList

\* A new item that is put in a list is what was put there.
LEMMA SinglePut ==
  ASSUME NEW h, NEW p, OwnList(h, p), NEW g, NEW n, Single(h, g, n), NEW h2, Put(g, h2, p, n)
  PROVE  Put(h, h2, p, n)
<1>1. FamilyOf(Kids(h), n) = {n} /\ n \notin ListedBy(Kids(h)) /\ n # p /\ p \in Live(h)
  BY SingleFits DEF OwnList
<1>2. Live(g) = Live(h) \cup {n} /\ Kids(g) = Kids(h) /\ Steady(g, h, NULL) /\ Steady(h2, g, n)
      /\ Live(h2) = Live(g) \cup {n} /\ n \notin Live(h) /\ n \in Nodes
  BY DEF Single, Put
<1>3. NULL \notin Live(h)
  BY JsonTreeAssumption DEF Live
<1>4. Steady(h2, h, n)
  BY <1>2, <1>3 DEF Steady
<1>5. p \notin FamilyOf(Kids(h), n)
  BY <1>1
<1>6. QED BY <1>1, <1>2, <1>4, <1>5 DEF Put

\* One item that has just been made is a tree and a single item.
LEMMA SingleMade ==
  ASSUME NEW h, Sound(h), NEW g \in Heaps, NEW n \in Nodes \ Live(h),
         \A x \in Nodes : x # n => g.mem[x] = h.mem[x],
         g.mem[n].type # "free", g.mem[n].next = NULL, g.mem[n].prev = NULL,
         g.mem[n].ref \/ g.mem[n].child = NULL,
         g.strings = h.strings + One(OwnsString(g.mem[n])) + One(OwnsValue(g.mem[n])),
         Typed(g.mem[n]), g.mem[n].ref => Shows(g.mem, n, Live(h), Kids(h))
  PROVE  Built(h, g, n) /\ Single(h, g, n)
<1> DEFINE F == {n}
           T == NoLists
<1>1. h \in Heaps /\ Kids(h) \in [Nodes -> Seq(Nodes)] /\ Kids(h)[n] = << >> /\ Live(h) \subseteq Nodes
  BY SoundMeans
<1>2. h.strings \in Int
  BY <1>1 DEF Heaps
<1>3. Added(h, g, F) /\ Tree(g.mem, F, T, n) /\ T \in [Nodes -> Seq(Nodes)] /\ T[n] = << >>
  BY <1>2, OneItemAdded
<1>4. \A x \in Nodes : Joined(Kids(h), T, F)[x] = Kids(h)[x]
  BY <1>1, <1>3 DEF Joined
<1>5. Joined(Kids(h), T, F) = Kids(h)
  BY <1>1, <1>4 DEF Joined
<1>6. \A x \in F : Typed(g.mem[x]) /\ (g.mem[x].ref => Shows(g.mem, x, Live(h) \cup F, Joined(Kids(h), T, F)))
  <2>1. Shows(g.mem, n, Live(h), Kids(h)) => Shows(g.mem, n, Live(h) \cup F, Kids(h))
    BY DEF Shows
  <2>2. QED BY <1>5, <2>1
<1> HIDE DEF F, T
<1>7. Sound(g) /\ Kids(g) = Joined(Kids(h), T, F) /\ Live(g) = Live(h) \cup F
      /\ \A x : x \in ListedBy(Kids(g)) <=> x \in ListedBy(Kids(h)) \/ x \in ListedBy(T)
  BY <1>3, <1>6, MoreSound
<1>8. Steady(g, h, NULL)
  BY <1>1, <1>3, AddedLive DEF Steady
<1>9. Forest(F, T) /\ n \in F \ ListedBy(T) /\ FamilyOf(T, n) = F
  BY <1>3 DEF Tree, Linked
<1>10. F \in SUBSET Nodes /\ F \cap Live(h) = {}
  BY DEF F
<1>11. Grew(h, g, F, T, n)
  BY <1>3, <1>7, <1>9, <1>10 DEF Grew
<1>12. Built(h, g, n)
  BY <1>7, <1>8, <1>11 DEF Built
<1>13. Live(g) = Live(h) \cup {n} /\ Kids(g) = Kids(h)
  BY <1>5, <1>7 DEF F, T
<1>14. QED BY <1>7, <1>8, <1>12, <1>13 DEF Single

\* Nothing but how many allocations are left has changed.
LEMMA SameMemIdle ==
  ASSUME NEW h, Sound(h), NEW g \in Heaps, \A x \in Nodes : g.mem[x] = h.mem[x], g.strings = h.strings
  PROVE  Idle(h, g, NULL)
<1>1. g.mem = h.mem
  BY SoundMeans, SameMem
<1>2. Sound(g) /\ Kids(g) = Kids(h) /\ Live(g) = Live(h)
  BY <1>1, SameHeap
<1>3. QED BY <1>1, <1>2 DEF Idle, Steady

\* No item was given.
LEMMA NoItem ==
  ASSUME NEW h, Sound(h), NEW type \in Kinds \cup {"Array", "free"}, cJSON_New_Item(h, type).ret = NULL
  PROVE  Idle(h, cJSON_New_Item(h, type).heap, NULL)
<1> DEFINE r == cJSON_New_Item(h, type)
<1>1. h \in Heaps /\ NULL \notin Nodes
  BY SoundMeans
<1>2. r \in Results /\ r.heap.strings = h.strings
      /\ \A x \in Nodes : r.heap.mem[x] = IF x = r.ret THEN [Free EXCEPT !.type = type] ELSE h.mem[x]
  BY <1>1, NewItem
<1> HIDE DEF r
<1>3. \A x \in Nodes : r.heap.mem[x] = h.mem[x]
  <2>1. r.ret = NULL
    BY DEF r
  <2>2. QED BY <1>1, <1>2, <2>1
<1>4. r.heap \in Heaps
  BY <1>2 DEF Results
<1>5. Idle(h, r.heap, NULL)
  BY <1>2, <1>3, <1>4, SameMemIdle
<1>6. QED BY <1>5 DEF r

Nameless(h, n) == h.mem[n].ref /\ h.mem[n].string = NULL

\* A call gives a reference without a key, in no list, or nothing changes.
RefCall(h, r) ==
  /\ r.ret = NULL => Idle(h, r.heap, NULL)
  /\ r.ret # NULL => /\ Built(h, r.heap, r.ret) /\ Single(h, r.heap, r.ret)
                     /\ Nameless(r.heap, r.ret)

\* n is a new reference, and nothing else has changed.
IsReference(h, g, n, w) ==
  /\ g \in Heaps /\ g.strings = h.strings /\ n \in Nodes \ Live(h)
  /\ \A x \in Nodes : g.mem[x] = IF x = n THEN w ELSE h.mem[x]
  /\ w.ref /\ w.string = NULL /\ w.type # "free" /\ w.next = NULL /\ w.prev = NULL

\* An item that is made a reference to what it is to show is what a call may
\* give.
LEMMA ReferenceMade ==
  ASSUME NEW h, Sound(h), NEW g, NEW n, NEW w, IsReference(h, g, n, w), Typed(w), Shows(g.mem, n, Live(h), Kids(h))
  PROVE  RefCall(h, Returns(g, n))
<1>1. n \in Nodes \ Live(h) /\ g \in Heaps /\ g.mem[n] = w /\ w.ref /\ w.string = NULL /\ w.type # "free"
      /\ w.next = NULL /\ w.prev = NULL
  BY DEF IsReference
<1>2. \A x \in Nodes : x # n => g.mem[x] = h.mem[x]
  BY DEF IsReference
<1>3. g.strings = h.strings + One(OwnsString(g.mem[n])) + One(OwnsValue(g.mem[n]))
  <2>1. h.strings \in Int /\ g.strings = h.strings
    BY SoundMeans DEF IsReference, Heaps
  <2>2. ~ OwnsString(g.mem[n]) /\ ~ OwnsValue(g.mem[n])
    BY <1>1 DEF OwnsString, OwnsValue
  <2>3. QED BY <2>1, <2>2 DEF One
<1>4. Typed(g.mem[n])
  BY <1>1
<1>5. Built(h, g, n) /\ Single(h, g, n)
  BY <1>1, <1>2, <1>3, <1>4, SingleMade
<1>6. n # NULL
  BY <1>1, JsonTreeAssumption
<1>7. QED BY <1>1, <1>5, <1>6 DEF RefCall, Returns, Nameless

\* An item is marked as a reference, and nothing else changes.
LEMMA RefSet ==
  ASSUME NEW g \in Heaps, NEW n \in Nodes
  PROVE  ItemIs([g EXCEPT !.mem[n].ref = TRUE], g, n, [g.mem[n] EXCEPT !.ref = TRUE])
<1> DEFINE u == [g.mem[n] EXCEPT !.ref = TRUE]
           g2 == [g EXCEPT !.mem[n] = u]
<1>1. u \in cJSON
  <2>1. g.mem[n] \in cJSON
    BY DEF Heaps
  <2>2. QED BY <2>1 DEF cJSON
<1> HIDE DEF u
<1>2. g2 \in Heaps /\ g2.strings = g.strings /\ g2.left = g.left
      /\ \A x \in Nodes : g2.mem[x] = IF x = n THEN u ELSE g.mem[x]
  BY <1>1 DEF Heaps
<1>3. [g EXCEPT !.mem[n].ref = TRUE] = g2
  BY DEF u
<1> HIDE DEF g2
<1>4. ItemIs(g2, g, n, u)
  BY <1>2 DEF ItemIs
<1>5. QED BY <1>3, <1>4 DEF u

\* An item is overwritten, and nothing else changes.
LEMMA ItemSet ==
  ASSUME NEW g \in Heaps, NEW n \in Nodes, NEW w \in cJSON
  PROVE  LET g2 == [g EXCEPT !.mem[n] = w]
         IN /\ g2 \in Heaps /\ g2.strings = g.strings
            /\ \A x \in Nodes : g2.mem[x] = IF x = n THEN w ELSE g.mem[x]
<1> DEFINE g2 == [g EXCEPT !.mem[n] = w]
<1>1. g \in [mem : [Nodes -> cJSON], strings : Int, left : Nat]
  BY DEF Heaps
<1>2. g2 = [g EXCEPT !.mem = [g.mem EXCEPT ![n] = w]]
  OBVIOUS
<1>3. [g.mem EXCEPT ![n] = w] \in [Nodes -> cJSON]
  BY <1>1
<1>4. g2 \in Heaps
  BY <1>1, <1>2, <1>3 DEF Heaps
<1>5. g2.mem = [g.mem EXCEPT ![n] = w] /\ g2.strings = g.strings
  BY <1>1, <1>2
<1>6. \A x \in Nodes : g2.mem[x] = IF x = n THEN w ELSE g.mem[x]
  BY <1>1, <1>5
<1>7. QED BY <1>4, <1>5, <1>6

\* The call returned a new item of a type.
Fresh(h, type, r) ==
  /\ r.heap \in Heaps /\ r.heap.strings = h.strings /\ r.ret \in Nodes \ Live(h)
  /\ r = Returns(r.heap, r.ret)
  /\ \A x \in Nodes : x # r.ret => r.heap.mem[x] = h.mem[x]
  /\ LET w == r.heap.mem[r.ret]
     IN /\ w \in cJSON /\ w.type = type /\ type # "free" /\ ~ w.ref /\ w.string = NULL /\ w.value = NULL
        /\ w.child = NULL /\ w.next = NULL /\ w.prev = NULL /\ w.of = NULL
\* The item that a call starts from.
LEMMA FreshItem ==
  ASSUME NEW h, Sound(h), NEW type \in Kinds \cup {"Array"}, cJSON_New_Item(h, type).ret # NULL
  PROVE  Fresh(h, type, cJSON_New_Item(h, type))
<1> DEFINE r == cJSON_New_Item(h, type)
<1>1. h \in Heaps
  BY SoundMeans
<1>2. r \in Results /\ r.heap.strings = h.strings /\ (r.ret = NULL \/ r.ret \in Nodes \ Live(h))
      /\ \A x \in Nodes : r.heap.mem[x] = IF x = r.ret THEN [Free EXCEPT !.type = type] ELSE h.mem[x]
  BY <1>1, NewItem
<1>3. r.ret # NULL
  OBVIOUS
<1> HIDE DEF r
<1>4. r.heap \in Heaps /\ r = Returns(r.heap, r.ret) /\ r.ret \in Nodes \ Live(h)
  BY <1>2, <1>3 DEF Results, Returns
<1> DEFINE w == [Free EXCEPT !.type = type]
<1>5. type # "free" /\ w.type = type /\ ~ w.ref /\ w.string = NULL /\ w.value = NULL
      /\ w.child = NULL /\ w.next = NULL /\ w.prev = NULL /\ w.of = NULL
  BY FreeIsItem DEF Free
<1> HIDE DEF w
<1>6. r.heap.mem[r.ret] = w /\ \A x \in Nodes : x # r.ret => r.heap.mem[x] = h.mem[x]
  BY <1>2, <1>4 DEF w
<1>7. r.heap.mem[r.ret] \in cJSON
  BY <1>4, Fields
<1>8. Fresh(h, type, r)
  BY <1>2, <1>4, <1>5, <1>6, <1>7 DEF Fresh
<1>9. QED BY <1>8 DEF r

\* cJSON_CreateStringReference.
LEMMA StringReferenceCall ==
  ASSUME NEW h, Sound(h), "String" \in Kinds, NEW value \in Values
  PROVE  RefCall(h, CreateStringReference(h, value))
<1> DEFINE new == cJSON_New_Item(h, "String")
           n == new.ret
           r == CreateStringReference(h, value)
<1>1. CASE n = NULL
  <2>1. r = new
    BY <1>1 DEF CreateStringReference
  <2>2. Idle(h, new.heap, NULL)
    BY <1>1, NoItem
  <2>3. QED BY <1>1, <2>1, <2>2 DEF RefCall
<1>2. CASE n # NULL
  <2>1. /\ new.heap \in Heaps /\ new.heap.strings = h.strings /\ n \in Nodes \ Live(h)
        /\ new = Returns(new.heap, n)
        /\ \A x \in Nodes : x # n => new.heap.mem[x] = h.mem[x]
        /\ new.heap.mem[n] \in cJSON /\ new.heap.mem[n].type = "String" /\ new.heap.mem[n].string = NULL
        /\ new.heap.mem[n].child = NULL /\ new.heap.mem[n].next = NULL /\ new.heap.mem[n].prev = NULL
        /\ new.heap.mem[n].of = NULL
    <3>1. Fresh(h, "String", new)
      BY <1>2, FreshItem
    <3> HIDE DEF new
    <3>2. QED BY <3>1 DEF Fresh
  <2> DEFINE g1 == [new.heap EXCEPT !.mem[n].ref = TRUE]
             g2 == [g1 EXCEPT !.mem[n].value = value]
             w1 == [new.heap.mem[n] EXCEPT !.ref = TRUE]
             w2 == [w1 EXCEPT !.value = value]
  <2>2. r = [new EXCEPT !.heap.mem[n].ref = TRUE, !.heap.mem[n].value = value]
    BY <1>2 DEF CreateStringReference
  <2> HIDE DEF new
  <2>3. r = Returns(g2, n)
    BY <2>1, <2>2 DEF Returns
  <2>4. g1 \in Heaps /\ g1.strings = h.strings /\ \A x \in Nodes : g1.mem[x] = IF x = n THEN w1 ELSE h.mem[x]
    <3>1. ItemIs(g1, new.heap, n, w1)
      BY <2>1, RefSet
    <3> HIDE DEF g1, w1
    <3>2. QED BY <2>1, <3>1 DEF ItemIs
  <2> HIDE DEF g1
  <2>5. g2 \in Heaps /\ g2.strings = g1.strings
        /\ \A x \in Nodes : g2.mem[x] = IF x = n THEN [g1.mem[n] EXCEPT !.value = value] ELSE g1.mem[x]
    <3>1. g1 \in Heaps /\ n \in Nodes
      BY <2>1, <2>4
    <3>2. ItemIs(g2, g1, n, [g1.mem[n] EXCEPT !.value = value])
      BY <3>1, ValueSet
    <3> HIDE DEF g2
    <3>3. QED BY <3>2 DEF ItemIs
  <2>6. \A x \in Nodes : g2.mem[x] = IF x = n THEN w2 ELSE h.mem[x]
    BY <2>1, <2>4, <2>5
  <2>7. w2.type = "String" /\ w2.ref /\ w2.string = NULL /\ w2.child = NULL /\ w2.next = NULL /\ w2.prev = NULL
        /\ w2.of = NULL /\ w2.value = value
    BY <2>1 DEF cJSON
  <2> HIDE DEF w2, g2
  <2>8. IsReference(h, g2, n, w2)
    BY <2>1, <2>4, <2>5, <2>6, <2>7 DEF IsReference
  <2>9. Typed(w2) /\ Shows(g2.mem, n, Live(h), Kids(h))
    BY <2>1, <2>6, <2>7 DEF Typed, Parents, Shows
  <2>10. QED BY <2>3, <2>8, <2>9, ReferenceMade
<1>3. QED BY <1>1, <1>2

\* What an item's first child is, and whose list a reference to the item shows.
LEMMA ShownChild ==
  ASSUME NEW h, Sound(h), NEW item \in Live(h), NEW g, NEW n \in Nodes \ Live(h),
         \A x \in Nodes : x # n => g.mem[x] = h.mem[x],
         g.mem[n].child = h.mem[item].child, g.mem[n].of = Owner(h, item)
  PROVE  Shows(g.mem, n, Live(h), Kids(h))
<1>1. Live(h) \subseteq Nodes /\ Linked(h.mem, Live(h), Kids(h)) /\ Forest(Live(h), Kids(h))
      /\ (h.mem[item].ref => Shows(h.mem, item, Live(h), Kids(h)))
  BY SoundMeans
<1>2. CASE h.mem[item].ref
  BY <1>1, <1>2 DEF Shows, Owner
<1>3. CASE ~ h.mem[item].ref
  <2> DEFINE s == Kids(h)[item]
  <2>1. h.mem[item].child = First(s)
    BY <1>1, <1>3 DEF Linked, Heads
  <2>2. s \in Seq(Nodes) /\ Len(s) \in Nat /\ \A x : x \in ToSet(s) <=> \E i \in 1..Len(s) : x = s[i]
    BY <1>1, ForestLists
  <2>3. First(s) \in ToSet(s) \cup {NULL}
    <3>1. CASE s = << >>
      BY <3>1 DEF First
    <3>2. CASE s # << >>
      <4>1. 1 \in 1..Len(s)
        BY <2>2, <3>2
      <4>2. First(s) = s[1]
        BY <3>2 DEF First
      <4>3. QED BY <2>2, <4>1, <4>2
    <3>3. QED BY <3>1, <3>2
  <2>4. g.mem[n].of = item /\ g.mem[item] = h.mem[item]
    BY <1>1, <1>3 DEF Owner
  <2>5. QED BY <1>3, <2>1, <2>3, <2>4 DEF Shows
<1>4. QED BY <1>2, <1>3

\* n is made a reference that shows the list of o from c on.
Showing(g, n, c, o) == [g EXCEPT !.mem[n].ref = TRUE, !.mem[n].child = c, !.mem[n].of = o]

ShownIn(g2, g, n, c, o) ==
  /\ g2 \in Heaps /\ g2.strings = g.strings
  /\ \A x \in Nodes : x # n => g2.mem[x] = g.mem[x]
  /\ g2.mem[n].ref = TRUE /\ g2.mem[n].child = c /\ g2.mem[n].of = o
  /\ g2.mem[n].type = g.mem[n].type /\ g2.mem[n].string = g.mem[n].string /\ g2.mem[n].value = g.mem[n].value
  /\ g2.mem[n].next = g.mem[n].next /\ g2.mem[n].prev = g.mem[n].prev

\* What the three assignments that make an item a reference do.
LEMMA ShownSet ==
  ASSUME NEW g \in Heaps, NEW n \in Nodes, NEW c \in Nodes \cup {NULL}, NEW o \in Nodes \cup {NULL}
  PROVE  ShownIn(Showing(g, n, c, o), g, n, c, o)
<1> DEFINE w == [g.mem[n] EXCEPT !.ref = TRUE, !.child = c, !.of = o]
           g2 == Showing(g, n, c, o)
<1>1. g \in [mem : [Nodes -> cJSON], strings : Int, left : Nat] /\ g.mem[n] \in cJSON
  BY DEF Heaps
<1>2. w \in cJSON
  BY <1>1 DEF cJSON
<1>3. g2 = [g EXCEPT !.mem[n] = w]
  BY <1>1 DEF Showing
<1>4. w.ref = TRUE /\ w.child = c /\ w.of = o /\ w.type = g.mem[n].type /\ w.string = g.mem[n].string
      /\ w.value = g.mem[n].value /\ w.next = g.mem[n].next /\ w.prev = g.mem[n].prev
  BY <1>1 DEF cJSON
<1> HIDE DEF w, g2
<1>5. g2 \in Heaps /\ g2.strings = g.strings /\ \A x \in Nodes : g2.mem[x] = IF x = n THEN w ELSE g.mem[x]
  BY <1>2, <1>3, ItemSet
<1>6. g2.mem[n] = w
  BY <1>5
<1>7. ShownIn(g2, g, n, c, o)
  BY <1>4, <1>5, <1>6 DEF ShownIn
<1>8. QED BY <1>7 DEF g2

\* cJSON_CreateObjectReference and ArrayReference.
LEMMA ListReferenceCall ==
  ASSUME NEW h, Sound(h), NEW from \in Live(h), h.mem[from].type \in Parents
  PROVE  RefCall(h, CreateReference(h, h.mem[from].type, from))
<1> DEFINE type == h.mem[from].type
           new == cJSON_New_Item(h, type)
           n == new.ret
           r == CreateReference(h, type, from)
           c == h.mem[from].child
           o == Owner(h, from)
<1>1. from \in Nodes /\ type \in Kinds \cup {"Array"} /\ h \in Heaps /\ c \in Nodes \cup {NULL} /\ o \in Nodes \cup {NULL}
  <2>1. from \in Nodes /\ h \in Heaps
    BY SoundMeans
  <2>2. type \in Kinds \cup {"Array", "free"} /\ type # "free"
    BY <2>1, Fields DEF Live
  <2>3. QED BY <2>1, <2>2, Fields DEF Owner
<1> HIDE DEF type
<1>2. CASE n = NULL
  <2>1. r = new
    BY <1>2 DEF CreateReference, type
  <2>2. Idle(h, new.heap, NULL)
    BY <1>1, <1>2, NoItem
  <2>3. QED BY <1>2, <2>1, <2>2 DEF RefCall, type
<1>3. CASE n # NULL
  <2>1. /\ new.heap \in Heaps /\ new.heap.strings = h.strings /\ n \in Nodes \ Live(h)
        /\ new = Returns(new.heap, n)
        /\ \A x \in Nodes : x # n => new.heap.mem[x] = h.mem[x]
        /\ new.heap.mem[n] \in cJSON /\ new.heap.mem[n].type = type /\ new.heap.mem[n].string = NULL
        /\ type # "free" /\ new.heap.mem[n].value = NULL
        /\ new.heap.mem[n].next = NULL /\ new.heap.mem[n].prev = NULL
    <3>1. Fresh(h, type, new)
      BY <1>1, <1>3, FreshItem
    <3> HIDE DEF new
    <3>2. QED BY <3>1 DEF Fresh
  <2> DEFINE g == Showing(new.heap, n, c, o)
             w == g.mem[n]
  <2>2. r = [new EXCEPT !.heap.mem[n].ref = TRUE, !.heap.mem[n].child = c, !.heap.mem[n].of = o]
    BY <1>3, Zenon DEF CreateReference, type
  <2>3. type \in Parents
    BY Zenon DEF type
  <2> HIDE DEF new, c, o
  <2>4. r = Returns(g, n)
    BY <2>1, <2>2, ZenonT(60) DEF Returns, Showing
  <2>5. /\ g \in Heaps /\ g.strings = new.heap.strings
        /\ \A x \in Nodes : x # n => g.mem[x] = new.heap.mem[x]
        /\ w.type = new.heap.mem[n].type /\ w.ref /\ w.string = new.heap.mem[n].string /\ w.child = c
        /\ w.next = new.heap.mem[n].next /\ w.prev = new.heap.mem[n].prev /\ w.of = o
        /\ w.value = new.heap.mem[n].value
    <3>1. new.heap \in Heaps /\ n \in Nodes /\ c \in Nodes \cup {NULL} /\ o \in Nodes \cup {NULL}
      BY <1>1, <2>1 DEF c, o
    <3>2. ShownIn(g, new.heap, n, c, o)
      BY <3>1, ShownSet
    <3> HIDE DEF g
    <3>3. QED BY <3>2 DEF ShownIn
  <2> HIDE DEF g
  <2>6. w.type = type /\ w.string = NULL /\ w.next = NULL /\ w.prev = NULL /\ w.value = NULL
    BY <2>1, <2>5
  <2>7. IsReference(h, g, n, w)
    BY <1>1, <2>1, <2>5, <2>6 DEF IsReference
  <2>8. Typed(w)
    BY <2>3, <2>6 DEF Typed, Parents
  <2>9. Shows(g.mem, n, Live(h), Kids(h))
    <3>1. g.mem[n].child = h.mem[from].child /\ g.mem[n].of = Owner(h, from)
      BY <2>5 DEF c, o
    <3>2. \A x \in Nodes : x # n => g.mem[x] = h.mem[x]
      BY <2>1, <2>5
    <3>3. QED BY <2>1, <3>1, <3>2, ShownChild
  <2>10. RefCall(h, r)
    BY <2>4, <2>7, <2>8, <2>9, ReferenceMade
  <2>11. QED BY <2>10 DEF type
<1>4. QED BY <1>2, <1>3

\* create_reference.
LEMMA ItemReferenceCall ==
  ASSUME NEW h, Sound(h), NEW item \in Live(h)
  PROVE  RefCall(h, create_reference(h, item))
<1> DEFINE type == h.mem[item].type
           new == cJSON_New_Item(h, type)
           n == new.ret
           r == create_reference(h, item)
           o == Owner(h, item)
           w == [h.mem[item] EXCEPT !.ref = TRUE, !.string = NULL, !.next = NULL, !.prev = NULL, !.of = o]
<1>1. item \in Nodes /\ type \in Kinds \cup {"Array"} /\ h \in Heaps /\ h.mem[item] \in cJSON /\ o \in Nodes \cup {NULL}
      /\ Typed(h.mem[item])
  <2>1. item \in Nodes /\ h \in Heaps /\ Typed(h.mem[item])
    BY SoundMeans
  <2>2. type \in Kinds \cup {"Array", "free"} /\ type # "free"
    BY <2>1, Fields DEF Live
  <2>3. QED BY <2>1, <2>2, Fields DEF Owner
<1>2. CASE n = NULL
  <2>1. r = new
    BY <1>2 DEF create_reference
  <2>2. Idle(h, new.heap, NULL)
    BY <1>1, <1>2, NoItem
  <2>3. QED BY <1>2, <2>1, <2>2 DEF RefCall
<1>3. CASE n # NULL
  <2>1. /\ new.heap \in Heaps /\ new.heap.strings = h.strings /\ n \in Nodes \ Live(h)
        /\ new = Returns(new.heap, n) /\ type # "free"
        /\ \A x \in Nodes : x # n => new.heap.mem[x] = h.mem[x]
    <3>1. Fresh(h, type, new)
      BY <1>1, <1>3, FreshItem
    <3> HIDE DEF new
    <3>2. QED BY <3>1 DEF Fresh
  <2> DEFINE g == [new.heap EXCEPT !.mem[n] = w]
  <2>2. r = [new EXCEPT !.heap.mem[n] = w]
    BY <1>3 DEF create_reference
  <2>3. w \in cJSON /\ w.type = type /\ w.ref /\ w.string = NULL /\ w.child = h.mem[item].child /\ w.next = NULL
        /\ w.prev = NULL /\ w.of = o /\ w.value = h.mem[item].value
    BY <1>1 DEF cJSON
  <2> HIDE DEF new, w
  <2>4. r = Returns(g, n)
    BY <2>1, <2>2 DEF Returns
  <2>5. g \in Heaps /\ g.strings = new.heap.strings
        /\ \A x \in Nodes : g.mem[x] = IF x = n THEN w ELSE new.heap.mem[x]
    BY <2>1, <2>3, ItemSet
  <2> HIDE DEF g
  <2>7. IsReference(h, g, n, w)
    BY <2>1, <2>3, <2>5 DEF IsReference
  <2>8. Typed(w)
    BY <1>1, <2>3 DEF Typed
  <2>9. Shows(g.mem, n, Live(h), Kids(h))
    <3>1. g.mem[n].child = h.mem[item].child /\ g.mem[n].of = Owner(h, item)
      BY <2>1, <2>3, <2>5
    <3>2. \A x \in Nodes : x # n => g.mem[x] = h.mem[x]
      BY <2>1, <2>5
    <3>3. QED BY <2>1, <3>1, <3>2, ShownChild
  <2>10. QED BY <2>4, <2>7, <2>8, <2>9, ReferenceMade
<1>4. QED BY <1>2, <1>3

\* A reference to an item is put at the end of a list.
LEMMA ReferenceAdded ==
  ASSUME NEW h, NEW p, OwnList(h, p), NEW r, RefCall(h, r)
  PROVE  LET g == add_item_to_array(r.heap, p, r.ret).heap
         IN \/ r.ret = NULL /\ Idle(h, g, NULL)
            \/ r.ret \in Nodes \ Live(h) /\ Put(h, g, p, r.ret)
<1> DEFINE g == add_item_to_array(r.heap, p, r.ret).heap
<1>1. CASE r.ret = NULL
  <2>1. g = r.heap
    BY <1>1 DEF add_item_to_array, Returns
  <2>2. Idle(h, r.heap, NULL)
    BY <1>1 DEF RefCall
  <2>3. QED BY <1>1, <2>1, <2>2
<1>2. CASE r.ret # NULL
  <2>1. Single(h, r.heap, r.ret)
    BY <1>2 DEF RefCall
  <2>2. CanTake(r.heap, p, r.ret)
    BY <2>1, SingleFits
  <2>3. Put(r.heap, g, p, r.ret)
    BY <2>2, AddedCall
  <2> HIDE DEF g
  <2>4. Put(h, g, p, r.ret)
    BY <2>1, <2>3, SinglePut
  <2>5. QED BY <2>1, <2>4 DEF Single, g
<1>3. QED BY <1>1, <1>2

\* A reference n is in the list of p, or nobody has it, or there is none.
Placed(h, p, n, added) ==
  \/ n = NULL /\ added.ret = FALSE /\ Idle(h, added.heap, NULL)
  \/ n \in Nodes \ Live(h) /\ added.ret = TRUE /\ Put(h, added.heap, p, n)
  \/ n \in Nodes \ Live(h) /\ added.ret = FALSE /\ Built(h, added.heap, n) /\ Nameless(added.heap, n)

\* The same with a key; a reference that cannot be named is in no list.
LEMMA NamedReferenceAdded ==
  ASSUME NEW h, NEW p, OwnList(h, p), NEW r, RefCall(h, r), NEW key \in Keys
  PROVE  Placed(h, p, r.ret, add_item_to_object(r.heap, p, key, r.ret, FALSE))
<1> DEFINE added == add_item_to_object(r.heap, p, key, r.ret, FALSE)
<1>1. CASE r.ret = NULL
  <2>1. added = Returns(r.heap, FALSE)
    BY <1>1 DEF add_item_to_object
  <2>2. Idle(h, r.heap, NULL)
    BY <1>1 DEF RefCall
  <2> HIDE DEF added
  <2>3. added.heap = r.heap /\ added.ret = FALSE
    BY <2>1 DEF Returns
  <2>4. Placed(h, p, r.ret, added)
    BY <1>1, <2>2, <2>3 DEF Placed
  <2>5. QED BY <2>4 DEF added
<1>2. CASE r.ret # NULL
  <2>1. Single(h, r.heap, r.ret) /\ r.ret \in Nodes \ Live(h)
    BY <1>2 DEF RefCall, Single
  <2>2. CanTake(r.heap, p, r.ret)
    BY <2>1, SingleFits
  <2>21. PutOrKept(r.heap, added, p, r.ret)
    BY <2>2, NamedPuts
  <2> HIDE DEF added
  <2>3. \/ added.ret = TRUE /\ Put(r.heap, added.heap, p, r.ret)
        \/ added.ret = FALSE /\ added.heap = r.heap
    BY <2>21 DEF PutOrKept
  <2> SUFFICES Placed(h, p, r.ret, added)
    BY DEF added
  <2>4. CASE added.ret = TRUE /\ Put(r.heap, added.heap, p, r.ret)
    <3>1. Put(h, added.heap, p, r.ret)
      BY <2>1, <2>4, SinglePut
    <3>2. QED BY <2>1, <2>4, <3>1 DEF Placed
  <2>5. CASE added.ret = FALSE /\ added.heap = r.heap
    <3>1. Built(h, r.heap, r.ret) /\ Nameless(r.heap, r.ret)
      BY <1>2 DEF RefCall
    <3>2. Built(h, added.heap, r.ret) /\ Nameless(added.heap, r.ret)
      BY <2>5, <3>1
    <3>3. QED BY <2>1, <2>5, <3>2 DEF Placed
  <2>6. QED BY <2>3, <2>4, <2>5 DEF added
<1>3. QED BY <1>1, <1>2

-----------------------------------------------------------------------------
(* cJSON_Add*ToObject.                                                     *)

\* An item that cJSON_Create* makes has no children.
LEMMA CreatedBare ==
  ASSUME NEW h \in Heaps, NEW type \in Kinds, NEW value, ValueFits(type, value),
         CreateItem(h, type, value).ret # NULL
  PROVE  CreateItem(h, type, value).heap.mem[CreateItem(h, type, value).ret].child = NULL
<1> DEFINE new == cJSON_New_Item(h, type)
           n == new.ret
           r == CreateItem(h, type, value)
<1>1. /\ new \in Results
      /\ n = NULL \/ n \in Nodes \ Live(h)
      /\ \A x \in Nodes : new.heap.mem[x] = IF x = n THEN [Free EXCEPT !.type = type] ELSE h.mem[x]
  BY NewItem
<1>2. CASE n = NULL
  <2>1. r.ret = NULL
    BY <1>2 DEF CreateItem, CreateText
  <2>2. QED BY <2>1
<1>3. CASE n # NULL
  <2>1. n \in Nodes /\ new.heap \in Heaps /\ new.heap.mem[n].child = NULL /\ new.heap.mem[n] \in cJSON
        /\ new = Returns(new.heap, n)
    <3>1. n \in Nodes /\ new.heap \in Heaps /\ new.heap.mem[n] = [Free EXCEPT !.type = type] /\ new = Returns(new.heap, n)
      BY <1>1, <1>3 DEF Results, Returns
    <3> HIDE DEF new
    <3>2. QED BY <3>1, Fields DEF Free
  <2>2. CASE IsText(type)
    <3>1. r = CreateText(h, type, value) /\ value \in Values \cup {NULL}
      BY <2>2 DEF CreateItem, ValueFits, IsText
    <3>2. MayCopy(new.heap)
      BY <1>3, <3>1 DEF CreateText, Returns
    <3> DEFINE g == Copied(new.heap)
               g2 == [g EXCEPT !.mem[n].value = value]
    <3>3. r = Returns(g2, n)
      BY <1>3, <3>1, <3>2 DEF CreateText
    <3> HIDE DEF new
    <3>4. g \in Heaps /\ g.mem = new.heap.mem
      BY <2>1, <3>2, CopiedHeap
    <3> HIDE DEF g
    <3>5. g2 \in Heaps /\ \A x \in Nodes : g2.mem[x] = IF x = n THEN [g.mem[n] EXCEPT !.value = value] ELSE g.mem[x]
      <4>1. ItemIs(g2, g, n, [g.mem[n] EXCEPT !.value = value])
        BY <2>1, <3>1, <3>4, ValueSet
      <4> HIDE DEF g2
      <4>2. QED BY <4>1 DEF ItemIs
    <3> HIDE DEF g2
    <3>6. g2.mem[n].child = NULL
      BY <2>1, <3>4, <3>5 DEF cJSON
    <3>7. QED BY <3>3, <3>6 DEF Returns
  <2>3. CASE type = "Number"
    <3> DEFINE g2 == [new.heap EXCEPT !.mem[n].value = value]
    <3>1. r = [new EXCEPT !.heap.mem[n].value = value] /\ value \in Values \cup {NULL}
      BY <1>3, <2>3 DEF CreateItem, ValueFits, IsText
    <3> HIDE DEF new
    <3>2. r = Returns(g2, n)
      BY <2>1, <3>1 DEF Returns
    <3>5. g2 \in Heaps /\ \A x \in Nodes : g2.mem[x] = IF x = n THEN [new.heap.mem[n] EXCEPT !.value = value]
                                                       ELSE new.heap.mem[x]
      <4>1. ItemIs(g2, new.heap, n, [new.heap.mem[n] EXCEPT !.value = value])
        BY <2>1, <3>1, ValueSet
      <4> HIDE DEF g2
      <4>2. QED BY <4>1 DEF ItemIs
    <3> HIDE DEF g2
    <3>6. g2.mem[n].child = NULL
      BY <2>1, <3>5 DEF cJSON
    <3>7. QED BY <3>2, <3>6 DEF Returns
  <2>4. CASE ~ IsText(type) /\ type # "Number"
    <3>1. r = new
      BY <2>4 DEF CreateItem
    <3>2. QED BY <2>1, <3>1
  <2>5. QED BY <2>2, <2>3, <2>4
<1>4. QED BY <1>2, <1>3

\* What cJSON_Create* makes is one item, in no list.
LEMMA CreatedSingle ==
  ASSUME NEW h, Sound(h), NEW type \in Kinds, NEW value, ValueFits(type, value),
         CreateItem(h, type, value).ret # NULL
  PROVE  Single(h, CreateItem(h, type, value).heap, CreateItem(h, type, value).ret)
<1> DEFINE r == CreateItem(h, type, value)
           g == r.heap
           n == r.ret
<1>1. h \in Heaps /\ Blank(h) /\ Kids(h) \in [Nodes -> Seq(Nodes)] /\ \A x \in Nodes \ Live(h) : Kids(h)[x] = << >>
  BY SoundMeans
<1>2. Grown(h, r) /\ n # NULL
  BY <1>1, CreatedItem
<1>3. g.mem[n].child = NULL
  BY <1>1, CreatedBare
<1> HIDE DEF r
<1>4. PICK F \in SUBSET Nodes, T \in [Nodes -> Seq(Nodes)] : Added(h, g, F) /\ Tree(g.mem, F, T, n) /\ Plain(g.mem, F)
  BY <1>2 DEF Grown
<1>5. n \in F /\ Forest(F, T) /\ FamilyOf(T, n) = F /\ ~ g.mem[n].ref /\ g.mem[n].child = First(T[n]) /\ n \in Nodes
  BY <1>4 DEF Tree, Linked, Plain, Heads
<1>6. T[n] = << >>
  <2>1. T[n] \in Seq(Nodes) /\ Len(T[n]) \in Nat /\ NULL \notin Nodes
    BY <1>5, ForestLists, JsonTreeAssumption
  <2>2. SUFFICES ASSUME T[n] # << >> PROVE FALSE
    OBVIOUS
  <2>3. First(T[n]) = T[n][1] /\ T[n][1] \in Nodes
    BY <2>1, <2>2 DEF First
  <2>4. QED BY <1>3, <1>5, <2>1, <2>3
<1>7. F = {n}
  BY <1>5, <1>6, FamilyOfLeaf
<1>8. Built(h, g, n)
  BY <1>2, GrownCall
<1>9. \A x \in F : Typed(g.mem[x]) /\ (g.mem[x].ref => Shows(g.mem, x, Live(h) \cup F, Joined(Kids(h), T, F)))
  BY <1>4 DEF Plain
<1>10. Sound(g) /\ Kids(g) = Joined(Kids(h), T, F) /\ Live(g) = Live(h) \cup F
  BY <1>4, <1>9, MoreSound
<1>11. F \cap Live(h) = {}
  BY <1>4 DEF Added
<1>12. Joined(Kids(h), T, F) = Kids(h)
  <2>1. Kids(h)[n] = << >>
    BY <1>1, <1>5, <1>7, <1>11
  <2>2. \A x \in Nodes : Joined(Kids(h), T, F)[x] = Kids(h)[x]
    BY <1>6, <1>7, <2>1 DEF Joined
  <2>3. QED BY <1>1, <2>2 DEF Joined
<1>13. Steady(g, h, NULL)
  BY <1>8 DEF Built
<1>14. Single(h, g, n)
  BY <1>5, <1>7, <1>10, <1>11, <1>12, <1>13 DEF Single
<1>15. QED BY <1>14 DEF r

\* cJSON_Delete of nothing.
LEMMA DeletedNull ==
  ASSUME NEW h, Sound(h)
  PROVE  Idle(h, cJSON_Delete(h, NULL), NULL)
<1> DEFINE g == cJSON_Delete(h, NULL)
<1>1. h \in Heaps
  BY SoundMeans
<1>2. g \in Heaps
  BY <1>1, DeletedHeap
<1>3. g = [h EXCEPT !.mem = [n \in Nodes |-> IF n \in {} THEN Free ELSE @[n]], !.strings = @ - Blocks(h, {})]
  BY DEF cJSON_Delete
<1>4. Blocks(h, {}) = 0
  BY EmptyBlocks
<1> HIDE DEF g
<1>5. g.strings = h.strings /\ \A x \in Nodes : g.mem[x] = h.mem[x]
  BY <1>1, <1>3, <1>4 DEF Heaps
<1>6. Idle(h, g, NULL)
  BY <1>2, <1>5, SameMemIdle
<1>7. QED BY <1>6 DEF g

\* cJSON_Add*ToObject: a new item is put at the end of the list, or nothing is left of it.
LEMMA NewAdded ==
  ASSUME NEW h, NEW p, OwnList(h, p), NEW key \in Keys, NEW type \in Kinds, NEW value, ValueFits(type, value)
  PROVE  LET g == AddNewToObject(h, p, key, type, value).heap
         IN Idle(h, g, NULL) \/ \E n \in Nodes \ Live(h) : Put(h, g, p, n)
<1> DEFINE new == CreateItem(h, type, value)
           n == new.ret
           added == add_item_to_object(new.heap, p, key, n, FALSE)
           r == AddNewToObject(h, p, key, type, value)
<1>1. Sound(h) /\ h \in Heaps /\ Blank(h)
  BY SoundMeans DEF OwnList
<1>2. Grown(h, new) /\ (n # NULL => Single(h, new.heap, n))
  BY <1>1, CreatedItem, CreatedSingle
<1>3. r.heap = IF added.ret THEN added.heap ELSE cJSON_Delete(added.heap, n)
  BY DEF AddNewToObject, Returns
<1> HIDE DEF new, r
<1>4. CASE n = NULL
  <2>1. added = Returns(new.heap, FALSE)
    BY <1>4 DEF add_item_to_object
  <2> HIDE DEF added
  <2>2. added.heap = new.heap /\ added.ret = FALSE
    BY <2>1 DEF Returns
  <2>3. r.heap = cJSON_Delete(new.heap, NULL)
    BY <1>3, <1>4, <2>2
  <2>4. Idle(h, new.heap, NULL) /\ Sound(new.heap)
    BY <1>1, <1>2, <1>4, GrownCall DEF Idle
  <2>5. Idle(new.heap, r.heap, NULL)
    BY <2>3, <2>4, DeletedNull
  <2>6. Idle(h, r.heap, NULL)
    BY <2>4, <2>5, IdleTwice
  <2>7. QED BY <2>6 DEF r
<1>5. CASE n # NULL
  <2>1. CanTake(new.heap, p, n) /\ n \in Nodes \ Live(h) /\ Single(h, new.heap, n)
    BY <1>2, <1>5, SingleFits DEF Single
  <2>11. PutOrKept(new.heap, added, p, n)
    BY <2>1, NamedPuts
  <2> HIDE DEF added
  <2>2. \/ added.ret = TRUE /\ Put(new.heap, added.heap, p, n)
        \/ added.ret = FALSE /\ added.heap = new.heap
    BY <2>11 DEF PutOrKept
  <2>3. CASE added.ret = TRUE /\ Put(new.heap, added.heap, p, n)
    <3>1. Put(h, added.heap, p, n)
      BY <2>1, <2>3, SinglePut
    <3>2. Put(h, r.heap, p, n)
      BY <1>3, <2>3, <3>1
    <3>3. QED BY <2>1, <3>2 DEF r
  <2>4. CASE added.ret = FALSE /\ added.heap = new.heap
    <3> DEFINE g == cJSON_Delete(new.heap, n)
    <3>1. r.heap = g
      BY <1>3, <2>4
    <3>2. PICK F, T : Added(h, new.heap, F) /\ Tree(new.heap.mem, F, T, n)
      BY <1>2, <1>5 DEF Grown
    <3>3. Added(h, g, {}) /\ g \in Heaps
      BY <1>1, <3>2, TreeIsReaching, DeleteAdded
    <3> HIDE DEF g
    <3>4. Grown(h, Returns(g, NULL)) /\ Returns(g, NULL).heap = g /\ Returns(g, NULL).ret = NULL
      BY <3>3 DEF Grown, Returns, Results
    <3>5. Idle(h, g, NULL)
      BY <1>1, <3>4, GrownCall
    <3>6. QED BY <3>1, <3>5 DEF r
  <2>5. QED BY <2>2, <2>3, <2>4
<1>6. QED BY <1>4, <1>5
-----------------------------------------------------------------------------
(* replace_item_in_object.                                                 *)

\* What is found is an item of the list, or nothing.
LEMMA LookupFinds ==
  ASSUME NEW h, NEW p, OwnList(h, p), NEW name, NEW caseSensitive
  PROVE  LET item == get_object_item(h, p, name, caseSensitive)
         IN item = NULL \/ \E k \in 1..Len(Kids(h)[p]) : item = Kids(h)[p][k]
<1> DEFINE items == Children(h, p)
           stops(i) == LET string == h.mem[items[i]].string
                       IN IF caseSensitive THEN string = NULL \/ string = name
                          ELSE string # NULL /\ Folded(string) = Folded(name)
           hits == {i \in 1..Len(items) : stops(i)}
           first == CHOOSE i \in hits : \A j \in hits : i <= j
           item == get_object_item(h, p, name, caseSensitive)
<1>1. item = IF hits = {} \/ h.mem[items[first]].string = NULL THEN NULL ELSE items[first]
  BY DEF get_object_item
<1>2. items = Kids(h)[p] /\ Len(items) \in Nat
  BY OwnListLinks
<1>3. hits \subseteq 1..Len(items)
  OBVIOUS
<1> HIDE DEF items, hits, item
<1>4. CASE hits = {}
  BY <1>1, <1>4 DEF item
<1>5. CASE hits # {}
  <2>1. hits \in SUBSET Nat
    BY <1>2, <1>3
  <2>2. \E i \in hits : \A j \in hits : i <= j
    BY <1>5, <2>1, LeastNatural
  <2>3. first \in hits
    BY <2>2
  <2> HIDE DEF first
  <2>4. item = NULL \/ item = items[first]
    BY <1>1
  <2>5. first \in 1..Len(Kids(h)[p])
    BY <1>2, <1>3, <2>3
  <2>6. QED BY <1>2, <2>4, <2>5 DEF item
<1>6. QED BY <1>4, <1>5

\* The same keys give the same item.
LEMMA LookupSame ==
  ASSUME NEW h, NEW g, NEW p, Children(g, p) = Children(h, p), Len(Children(h, p)) \in Nat,
         \A i \in 1..Len(Children(h, p)) : g.mem[Children(h, p)[i]].string = h.mem[Children(h, p)[i]].string,
         NEW name, NEW caseSensitive
  PROVE  get_object_item(g, p, name, caseSensitive) = get_object_item(h, p, name, caseSensitive)
<1> DEFINE items == Children(h, p)
           word(f, i) == f.mem[items[i]].string
           stop(s) == IF caseSensitive THEN s = NULL \/ s = name ELSE s # NULL /\ Folded(s) = Folded(name)
           hits(f) == {i \in 1..Len(items) : stop(word(f, i))}
           first(S) == CHOOSE i \in S : \A j \in S : i <= j
           found(f) == IF hits(f) = {} \/ word(f, first(hits(f))) = NULL THEN NULL ELSE items[first(hits(f))]
<1>1. get_object_item(h, p, name, caseSensitive) = found(h)
  BY DEF get_object_item
<1>2. get_object_item(g, p, name, caseSensitive) = found(g)
  BY DEF get_object_item
<1>3. \A i \in 1..Len(items) : word(g, i) = word(h, i)
  OBVIOUS
<1> HIDE DEF items, stop, word
<1>4. hits(g) = hits(h)
  BY <1>3
<1>5. hits(h) \subseteq 1..Len(items) /\ Len(items) \in Nat
  BY DEF items
<1> HIDE DEF hits
<1>6. CASE hits(h) = {}
  <2>1. found(h) = NULL /\ found(g) = NULL
    BY <1>4, <1>6
  <2>2. QED BY <1>1, <1>2, <2>1
<1>7. CASE hits(h) # {}
  <2> DEFINE i == first(hits(h))
  <2>1. \E j \in hits(h) : \A k \in hits(h) : j <= k
    BY <1>5, <1>7, LeastNatural
  <2>2. i \in hits(h)
    BY <2>1
  <2>3. first(hits(g)) = i
    BY <1>4
  <2> HIDE DEF first, i
  <2>4. word(g, i) = word(h, i)
    BY <1>3, <1>5, <2>2
  <2>5. found(h) = IF word(h, i) = NULL THEN NULL ELSE items[i]
    BY <1>7 DEF i
  <2>6. found(g) = IF word(g, i) = NULL THEN NULL ELSE items[i]
    BY <1>4, <1>7, <2>3
  <2> HIDE DEF found
  <2>7. QED BY <1>1, <1>2, <2>4, <2>5, <2>6
<1>8. QED BY <1>6, <1>7

\* What the references refer to decides what is borrowed.
LEMMA BorrowedSame ==
  ASSUME NEW h, NEW g, Live(g) = Live(h), \A x \in Live(h) : g.mem[x].ref = h.mem[x].ref,
         \A x \in Live(h) : g.mem[x].of = h.mem[x].of, NEW F
  PROVE  Borrowed(g, F) <=> Borrowed(h, F)
BY DEF Borrowed

\* cJSON_ReplaceItemViaPointer without an item to replace does nothing.
LEMMA NothingReplaced ==
  ASSUME NEW h, NEW p, NEW n
  PROVE  LET r == cJSON_ReplaceItemViaPointer(h, p, NULL, n) IN r.heap = h /\ r.ret = FALSE
<1> DEFINE r == cJSON_ReplaceItemViaPointer(h, p, NULL, n)
<1>1. r = Returns(h, FALSE)
  BY DEF cJSON_ReplaceItemViaPointer
<1> HIDE DEF r
<1>2. r.heap = h /\ r.ret = FALSE
  BY <1>1 DEF Returns
<1>3. QED BY <1>2 DEF r

\* The item that a key is looked up by is replaced, or only the new item's own
\* key changes.
LEMMA ReplacedInObject ==
  ASSUME NEW h, NEW p, NEW n, CanTake(h, p, n), ~ Borrowed(h, {p}), NEW key \in Keys, NEW caseSensitive,
         LET item == get_object_item(h, p, key, caseSensitive)
         IN item # NULL => ~ Borrowed(h, FamilyOf(Kids(h), item))
  PROVE  LET r == replace_item_in_object(h, p, key, n, caseSensitive)
         IN \/ r.ret = FALSE /\ Idle(h, r.heap, n)
            \/ r.ret = TRUE /\ \E k \in 1..Len(Kids(h)[p]) : Swapped(h, r.heap, p, k, n)
<1> DEFINE const == h.mem[n].const
           unnamed == Renamed(h, n, NULL, const)
           copied == Copied(unnamed)
           named == Renamed(copied, n, key, FALSE)
           item == get_object_item(h, p, key, caseSensitive)
           r == replace_item_in_object(h, p, key, n, caseSensitive)
<1>1. /\ Sound(h) /\ n \in Live(h) /\ OwnList(h, p) /\ h \in Heaps /\ h.strings \in Int /\ const \in BOOLEAN
      /\ key # NULL /\ key \in Keys \cup {NULL}
      /\ \A i \in 1..Len(Kids(h)[p]) : Kids(h)[p][i] # n
  <2>1. Sound(h) /\ n \in Live(h) /\ OwnList(h, p) /\ \A i \in 1..Len(Kids(h)[p]) : Kids(h)[p][i] # n
    BY CanTakeMeans DEF CanTake, OwnList
  <2>2. h \in Heaps /\ n \in Nodes
    BY <2>1, SoundMeans
  <2>3. h.strings \in Int /\ const \in BOOLEAN
    BY <2>2, Fields DEF Heaps
  <2>4. QED BY <2>1, <2>2, <2>3, JsonTreeAssumption
<1>2. Idle(h, unnamed, n) /\ unnamed.left = h.left /\ \A x \in Nodes : unnamed.mem[x].of = h.mem[x].of
  <2>1. h.strings = h.strings + One(NULL # NULL /\ ~ const)
    BY <1>1 DEF One
  <2>2. NULL \in Keys \cup {NULL}
    OBVIOUS
  <2> HIDE DEF const
  <2>3. QED BY <1>1, <2>1, <2>2, RenamedCall
<1> HIDE DEF unnamed
<1>3. Sound(unnamed) /\ unnamed \in Heaps /\ Live(unnamed) = Live(h) /\ unnamed.strings \in Int
  BY <1>2, SoundMeans DEF Idle, Heaps
<1>4. CASE ~ MayCopy(h)
  <2>1. r = Returns(unnamed, FALSE)
    BY <1>4 DEF replace_item_in_object, unnamed
  <2> HIDE DEF r
  <2>2. r.heap = unnamed /\ r.ret = FALSE
    BY <2>1 DEF Returns
  <2>3. QED BY <1>2, <2>2 DEF r
<1>5. CASE MayCopy(h)
  <2>1. r = cJSON_ReplaceItemViaPointer(named, p, get_object_item(named, p, key, caseSensitive), n)
    BY <1>5 DEF replace_item_in_object, unnamed
  <2>2. copied \in Heaps /\ copied.mem = unnamed.mem /\ copied.strings = unnamed.strings + 1
    BY <1>2, <1>3, <1>5, CopiedHeap DEF MayCopy
  <2> HIDE DEF copied
  <2>3. copied.strings = unnamed.strings + One(key # NULL /\ ~ FALSE)
    BY <1>1, <2>2 DEF One
  <2>4. Idle(unnamed, named, n) /\ \A x \in Nodes : named.mem[x].of = unnamed.mem[x].of
    <3>1. ASSUME NEW c \in BOOLEAN, copied.strings = unnamed.strings + One(key # NULL /\ ~ c)
          PROVE  /\ Idle(unnamed, Renamed(copied, n, key, c), n)
                 /\ \A x \in Nodes : Renamed(copied, n, key, c).mem[x].of = unnamed.mem[x].of
      BY <1>1, <1>3, <2>2, <3>1, RenamedCall
    <3>2. FALSE \in BOOLEAN
      OBVIOUS
    <3>3. QED BY <2>3, <3>1, <3>2
  <2> HIDE DEF named
  <2>5. Idle(h, named, n)
    BY <1>2, <2>4, IdleTwice
  <2>6. CanTake(named, p, n) /\ OwnList(named, p)
    BY <2>5, IdleCanTake DEF CanTake
  <2>7. Live(named) = Live(h) /\ Kids(named) = Kids(h) /\ Steady(named, h, n) /\ Live(h) \subseteq Nodes
    BY <1>1, <2>5, SoundMeans DEF Idle
  <2>8. \A F : Borrowed(named, F) <=> Borrowed(h, F)
    <3>1. \A x \in Live(h) : named.mem[x].ref = h.mem[x].ref
      BY <2>7 DEF Steady
    <3>2. \A x \in Live(h) : named.mem[x].of = h.mem[x].of
      BY <1>2, <2>4, <2>7
    <3>3. QED BY <2>7, <3>1, <3>2, BorrowedSame
  <2>9. get_object_item(named, p, key, caseSensitive) = item
    <3>1. Children(named, p) = Kids(h)[p] /\ Children(h, p) = Kids(h)[p] /\ Len(Kids(h)[p]) \in Nat
          /\ \A i \in 1..Len(Kids(h)[p]) : Kids(h)[p][i] \in Live(h)
      <4>1. Children(named, p) = Kids(h)[p] /\ Children(h, p) = Kids(h)[p] /\ Len(Kids(h)[p]) \in Nat
        BY <1>1, <2>6, <2>7, OwnListLinks
      <4>2. Kids(h)[p] \in Seq(Live(h))
        BY <1>1, OwnListMeans
      <4>3. QED BY <4>1, <4>2
    <3>2. \A i \in 1..Len(Kids(h)[p]) : named.mem[Kids(h)[p][i]].string = h.mem[Kids(h)[p][i]].string
      BY <1>1, <2>7, <3>1 DEF Steady
    <3>3. QED BY <3>1, <3>2, LookupSame
  <2>10. CASE item = NULL
    <3> HIDE DEF r, item
    <3>1. r = cJSON_ReplaceItemViaPointer(named, p, NULL, n)
      BY <2>1, <2>9, <2>10
    <3>2. r.heap = named /\ r.ret = FALSE
      BY <3>1, NothingReplaced
    <3>3. QED BY <2>5, <3>2 DEF r
  <2>11. CASE item # NULL
    <3>1. PICK k \in 1..Len(Kids(h)[p]) : item = Kids(h)[p][k]
      BY <1>1, <2>11, LookupFinds
    <3>2. ~ Borrowed(named, {p}) /\ ~ Borrowed(named, FamilyOf(Kids(h), item))
      BY <2>8, <2>11
    <3>3. r = cJSON_ReplaceItemViaPointer(named, p, Kids(named)[p][k], n)
      BY <2>1, <2>7, <2>9, <3>1
    <3> HIDE DEF r, item
    <3>4. ~ Borrowed(named, FamilyOf(Kids(named), Kids(named)[p][k])) /\ k \in 1..Len(Kids(named)[p])
      BY <2>7, <3>1, <3>2
    <3>5. r.ret = TRUE /\ Swapped(named, r.heap, p, k, n)
      BY <2>6, <3>2, <3>3, <3>4, ReplacedCall
    <3>6. Swapped(h, r.heap, p, k, n)
      BY <2>5, <3>5, IdleSwapped
    <3>7. QED BY <3>1, <3>5, <3>6 DEF r
  <2>12. QED BY <2>10, <2>11
<1>6. QED BY <1>4, <1>5

\* What an item points at is in use.
LEMMA PointersLive ==
  ASSUME NEW h, Sound(h), NEW x \in Live(h)
  PROVE  /\ h.mem[x].next \in Live(h) \cup {NULL} /\ h.mem[x].prev \in Live(h) \cup {NULL}
         /\ h.mem[x].child \in Live(h) \cup {NULL}
<1> DEFINE S == Live(h)
           L == Kids(h)
           m == h.mem
<1>1. /\ Linked(m, S, L) /\ Forest(S, L) /\ S \subseteq Nodes
      /\ (m[x].ref => Shows(m, x, S, L)) /\ x \in Nodes /\ x \in S
  BY SoundMeans
<1> HIDE DEF S, L, m
<1>2. \A p \in Nodes : /\ L[p] \in Seq(S) /\ Len(L[p]) \in Nat
                       /\ \A y : y \in ToSet(L[p]) <=> \E i \in 1..Len(L[p]) : y = L[p][i]
  BY <1>1, ForestLists
<1>3. \A p \in Nodes : \A i \in 1..Len(L[p]) : L[p][i] \in S
  BY <1>2
<1>4. m[x].next \in S \cup {NULL} /\ m[x].prev \in S \cup {NULL}
  <2>1. CASE x \in ListedBy(L)
    <3>1. PICK p \in Nodes : x \in ToSet(L[p])
      BY <2>1, ListedMeans
    <3>2. PICK i \in 1..Len(L[p]) : x = L[p][i]
      BY <1>2, <3>1
    <3>3. m[x].next = After(L[p], i) /\ m[x].prev = Before(L[p], i) /\ Len(L[p]) \in Nat
      BY <1>1, <1>2, <3>2 DEF Linked, Nexts, Prevs
    <3>4. After(L[p], i) \in S \cup {NULL}
      <4>1. CASE i = Len(L[p])
        BY <4>1 DEF After
      <4>2. CASE i # Len(L[p])
        <5>1. i + 1 \in 1..Len(L[p])
          BY <3>3, <4>2
        <5>2. QED BY <1>3, <4>2, <5>1 DEF After
      <4>3. QED BY <4>1, <4>2
    <3>5. Before(L[p], i) \in S
      <4>1. CASE i = 1
        <5>1. Len(L[p]) \in 1..Len(L[p])
          BY <3>3
        <5>2. QED BY <1>3, <4>1, <5>1 DEF Before
      <4>2. CASE i # 1
        <5>1. i - 1 \in 1..Len(L[p])
          BY <3>3, <4>2
        <5>2. QED BY <1>3, <4>2, <5>1 DEF Before
      <4>3. QED BY <4>1, <4>2
    <3>6. QED BY <3>3, <3>4, <3>5
  <2>2. CASE x \notin ListedBy(L)
    BY <1>1, <2>2 DEF Linked, Loose
  <2>3. QED BY <2>1, <2>2
<1>5. m[x].child \in S \cup {NULL}
  <2>1. CASE m[x].ref
    <3>1. Shows(m, x, S, L)
      BY <1>1, <2>1
    <3>2. CASE m[x].child = NULL
      BY <3>2
    <3>3. CASE m[x].child # NULL
      <4>1. m[x].of \in S /\ m[x].child \in ToSet(L[m[x].of])
        BY <3>1, <3>3 DEF Shows
      <4> DEFINE o == m[x].of
      <4>2. o \in Nodes /\ m[x].child \in ToSet(L[o])
        BY <1>1, <4>1
      <4> HIDE DEF o
      <4>3. PICK i \in 1..Len(L[o]) : m[x].child = L[o][i]
        BY <1>2, <4>2
      <4>4. QED BY <1>3, <4>2, <4>3
    <3>4. QED BY <3>2, <3>3
  <2>2. CASE ~ m[x].ref
    <3>1. m[x].child = First(L[x])
      BY <1>1, <2>2 DEF Linked, Heads
    <3>2. CASE L[x] = << >>
      BY <3>1, <3>2 DEF First
    <3>3. CASE L[x] # << >>
      <4>1. 1 \in 1..Len(L[x])
        BY <1>1, <1>2, <3>3
      <4>2. QED BY <1>1, <1>3, <3>1, <3>3, <4>1 DEF First
    <3>4. QED BY <3>2, <3>3
  <2>3. QED BY <2>1, <2>2
<1>6. QED BY <1>4, <1>5 DEF S, m

\* cJSON_Duplicate.
LEMMA DuplicatedCall ==
  ASSUME NEW h, Sound(h), NEW item \in Live(h), NEW recurse \in BOOLEAN
  PROVE  Grown(h, cJSON_Duplicate(h, item, recurse))
<1>1. h \in Heaps /\ Blank(h) /\ \A n \in Live(h) : Typed(h.mem[n])
  BY SoundMeans
<1>2. Copyable(h, Live(h))
  BY <1>1, PointersLive DEF Copyable
<1>3. QED BY <1>1, <1>2, Duplicated

-----------------------------------------------------------------------------
(* Who has what.                                                           *)

\* H is what the caller has, and L what is lost.
OwnedBy(h, H, L) ==
  /\ H \subseteq Live(h) /\ L \subseteq Live(h) \ H
  /\ \A n \in Live(h) : n \in ListedBy(Kids(h)) <=> n \notin H \cup L
  /\ \A n \in L : Nameless(h, n)

\* Who has what stays when no list changes.
LEMMA IdleOwned ==
  ASSUME NEW h, NEW H, NEW L, OwnedBy(h, H, L), NEW g, NEW n, Idle(h, g, n), n \notin L
  PROVE  OwnedBy(g, H, L)
BY DEF OwnedBy, Idle, Steady, Nameless

\* Everybody in a tree but its first item is listed.
LEMMA BelowListed ==
  ASSUME NEW L \in [Nodes -> Seq(Nodes)], NEW n \in Nodes, NEW x \in FamilyOf(L, n), x # n
  PROVE  x \in ListedBy(L)
<1>1. PICK p \in FamilyOf(L, n) : x \in ToSet(L[p])
  BY ParentsInFamily
<1>2. p \in Nodes
  BY FamilyIsLeast
<1>3. QED BY <1>1, <1>2, ListedMeans

\* A new tree is the caller's, or it is lost and had no name.
LEMMA BuiltOwned ==
  ASSUME NEW h, Sound(h), NEW H, NEW L, OwnedBy(h, H, L), NEW g, NEW n, Built(h, g, n)
  PROVE  OwnedBy(g, H \cup {n}, L) /\ (Nameless(g, n) => OwnedBy(g, H, L \cup {n}))
<1>1. PICK F, T : Grew(h, g, F, T, n)
  BY DEF Built
<1>2. /\ F \subseteq Nodes /\ T \in [Nodes -> Seq(Nodes)] /\ Forest(F, T) /\ n \in F /\ n \notin ListedBy(T)
      /\ FamilyOf(T, n) = F /\ F \cap Live(h) = {} /\ Live(g) = Live(h) \cup F
      /\ \A x : x \in ListedBy(Kids(g)) <=> x \in ListedBy(Kids(h)) \/ x \in ListedBy(T)
  BY <1>1 DEF Grew
<1>3. ListedBy(Kids(h)) \subseteq Live(h) /\ ListedBy(T) \subseteq F
  BY <1>2, SoundMeans, ForestLists
<1>4. \A x \in F : x # n => x \in ListedBy(T)
  BY <1>2, BelowListed
<1>5. \A x \in L : Nameless(g, x)
  BY <1>2, JsonTreeAssumption DEF OwnedBy, Built, Steady, Nameless, Live
<1>6. QED BY <1>2, <1>3, <1>4, <1>5 DEF OwnedBy

\* An item that is put in a list is no longer the caller's.
LEMMA PutOwned ==
  ASSUME NEW h, NEW H, NEW L, OwnedBy(h, H, L), NEW g, NEW p, NEW n, Put(h, g, p, n), n \notin L
  PROVE  OwnedBy(g, H \ {n}, L)
BY DEF OwnedBy, Put, Steady, Nameless

\* An item of a list is listed and in use.
LEMMA ItemListed ==
  ASSUME NEW h, Sound(h), NEW p \in Live(h), NEW k \in 1..Len(Kids(h)[p])
  PROVE  Kids(h)[p][k] \in ListedBy(Kids(h)) /\ Kids(h)[p][k] \in Live(h) /\ NULL \notin Live(h)
<1> DEFINE K == Kids(h)
           n == K[p][k]
<1>1. Forest(Live(h), K) /\ Live(h) \subseteq Nodes /\ NULL \notin Nodes /\ ListedBy(K) \subseteq Live(h)
  BY SoundMeans
<1>2. p \in Nodes
  BY <1>1
<1> HIDE DEF K
<1>3. \A x : x \in ToSet(K[p]) <=> \E i \in 1..Len(K[p]) : x = K[p][i]
  BY <1>1, <1>2, ForestLists
<1>4. k \in 1..Len(K[p])
  BY DEF K
<1>5. n \in ListedBy(K)
  BY <1>2, <1>3, <1>4, ListedMeans
<1>6. QED BY <1>1, <1>5 DEF K

\* An item taken out of its list is the caller's.
LEMMA TakenOwned ==
  ASSUME NEW h, Sound(h), NEW H, NEW L, OwnedBy(h, H, L), NEW g, NEW p, NEW k, TakenAt(h, g, p, k)
  PROVE  OwnedBy(g, H \cup {Kids(h)[p][k]}, L)
<1> DEFINE n == Kids(h)[p][k]
<1>1. /\ p \in Live(h) /\ k \in 1..Len(Kids(h)[p]) /\ Steady(g, h, NULL)
      /\ Live(g) = Live(h) /\ ListedBy(Kids(g)) = ListedBy(Kids(h)) \ {n}
  BY DEF TakenAt
<1>2. n \in ListedBy(Kids(h)) /\ n \in Live(h) /\ NULL \notin Live(h)
  BY <1>1, ItemListed
<1> HIDE DEF n
<1>3. \A x \in L : Nameless(g, x)
  BY <1>1, <1>2 DEF OwnedBy, Steady, Nameless
<1>4. OwnedBy(g, H \cup {n}, L)
  BY <1>1, <1>2, <1>3 DEF OwnedBy
<1>5. QED BY <1>4 DEF n

\* In the tree of an item that is not lost, nobody is lost and the caller has
\* nobody but the item itself.
LEMMA FamilyOwned ==
  ASSUME NEW h, Sound(h), NEW H, NEW L, OwnedBy(h, H, L), NEW n \in Live(h), n \notin L
  PROVE  \A x \in FamilyOf(Kids(h), n) : x \notin L /\ (x \in H => x = n)
<1>1. Kids(h) \in [Nodes -> Seq(Nodes)] /\ n \in Nodes /\ Forest(Live(h), Kids(h))
  BY SoundMeans
<1>2. FamilyOf(Kids(h), n) \subseteq Live(h)
  BY <1>1, FamilyWithin
<1>3. \A x \in FamilyOf(Kids(h), n) : x # n => x \in ListedBy(Kids(h))
  BY <1>1, BelowListed
<1>4. QED BY <1>2, <1>3 DEF OwnedBy

\* A tree the caller gave up is nobody's any more.
LEMMA GoneOwned ==
  ASSUME NEW h, Sound(h), NEW H, NEW L, OwnedBy(h, H, L), NEW g, NEW n, Gone(h, g, n), n \in H
  PROVE  OwnedBy(g, H \ {n}, L)
<1> DEFINE F == FamilyOf(Kids(h), n)
<1>1. /\ n \in Live(h) /\ n \notin L /\ Steady(g, h, NULL) /\ Live(g) = Live(h) \ F
      /\ ListedBy(Kids(g)) = ListedBy(Kids(h)) \ F
  BY DEF Gone, OwnedBy
<1>2. (\A x \in F : x \notin L /\ (x \in H => x = n)) /\ n \in F
  BY <1>1, FamilyOwned, SoundMeans, FamilyWithin
<1> HIDE DEF F
<1>3. \A x \in L : Nameless(g, x)
  BY <1>1, <1>2, JsonTreeAssumption DEF OwnedBy, Steady, Nameless, Live
<1>4. QED BY <1>1, <1>2, <1>3 DEF OwnedBy

\* A tree deleted from a list was nobody's but the list's.
LEMMA TakenGoneOwned ==
  ASSUME NEW h, Sound(h), NEW H, NEW L, OwnedBy(h, H, L), NEW g, NEW p, NEW k, TakenGone(h, g, p, k)
  PROVE  OwnedBy(g, H, L)
<1> DEFINE n == Kids(h)[p][k]
           F == FamilyOf(Kids(h), n)
<1>1. /\ p \in Live(h) /\ k \in 1..Len(Kids(h)[p]) /\ Steady(g, h, NULL) /\ Live(g) = Live(h) \ F
      /\ ListedBy(Kids(g)) = ListedBy(Kids(h)) \ F
  BY DEF TakenGone
<1>2. n \in ListedBy(Kids(h)) /\ n \in Live(h) /\ NULL \notin Live(h)
  BY <1>1, ItemListed
<1> HIDE DEF n
<1>3. n \notin H /\ n \notin L
  BY <1>2 DEF OwnedBy
<1>4. \A x \in F : x \notin L /\ x \notin H
  BY <1>2, <1>3, FamilyOwned
<1> HIDE DEF F
<1>5. \A x \in L : Nameless(g, x)
  BY <1>1, <1>2, <1>4 DEF OwnedBy, Steady, Nameless
<1>6. QED BY <1>1, <1>4, <1>5 DEF OwnedBy

\* The item that takes another one's place is no longer the caller's.
LEMMA SwappedOwned ==
  ASSUME NEW h, Sound(h), NEW H, NEW L, OwnedBy(h, H, L), NEW g, NEW p, NEW k, NEW n, Swapped(h, g, p, k, n),
         n \in H
  PROVE  OwnedBy(g, H \ {n}, L)
<1> DEFINE c == Kids(h)[p][k]
           F == FamilyOf(Kids(h), c)
<1>1. /\ p \in Live(h) /\ k \in 1..Len(Kids(h)[p]) /\ Steady(g, h, n) /\ Live(g) = Live(h) \ F
      /\ ListedBy(Kids(g)) = (ListedBy(Kids(h)) \cup {n}) \ F /\ n \notin F
  BY DEF Swapped
<1>2. c \in ListedBy(Kids(h)) /\ c \in Live(h) /\ NULL \notin Live(h)
  BY <1>1, ItemListed
<1> HIDE DEF c
<1>3. c \notin H /\ c \notin L
  BY <1>2 DEF OwnedBy
<1>4. \A x \in F : x \notin L /\ x \notin H
  BY <1>2, <1>3, FamilyOwned
<1> HIDE DEF F
<1>5. \A x \in L : Nameless(g, x)
  BY <1>1, <1>2, <1>4 DEF OwnedBy, Steady, Nameless
<1>6. QED BY <1>1, <1>4, <1>5 DEF OwnedBy

-----------------------------------------------------------------------------
(* What a step can do.                                                     *)

Happened(h, H, L, g, H2, L2) ==
  \/ \E n : Idle(h, g, n) /\ n \notin L /\ H2 = H /\ L2 = L
  \/ \E n : Built(h, g, n) /\ H2 = H \cup {n} /\ L2 = L
  \/ \E n : Built(h, g, n) /\ Nameless(g, n) /\ H2 = H /\ L2 = L \cup {n}
  \/ \E p, n : Put(h, g, p, n) /\ n \notin L /\ H2 = H \ {n} /\ L2 = L
  \/ \E p, k : TakenAt(h, g, p, k) /\ H2 = H \cup {Kids(h)[p][k]} /\ L2 = L
  \/ \E n \in H : Gone(h, g, n) /\ H2 = H \ {n} /\ L2 = L
  \/ \E p, k : TakenGone(h, g, p, k) /\ H2 = H /\ L2 = L
  \/ \E p, k : \E n \in H : Swapped(h, g, p, k, n) /\ H2 = H \ {n} /\ L2 = L

\* After each of the changes the heap is in order, and every item is
\* somebody's.
LEMMA HappenedOwned ==
  ASSUME NEW h, Sound(h), NEW H, NEW L, OwnedBy(h, H, L), NEW g, NEW H2, NEW L2,
         Happened(h, H, L, g, H2, L2)
  PROVE  Sound(g) /\ OwnedBy(g, H2, L2)
<1>1. Sound(g)
  BY DEF Happened, Idle, Built, Put, TakenAt, Gone, TakenGone, Swapped
<1>2. CASE \E n : Idle(h, g, n) /\ n \notin L /\ H2 = H /\ L2 = L
  BY <1>1, <1>2, IdleOwned
<1>3. CASE \E n : Built(h, g, n) /\ H2 = H \cup {n} /\ L2 = L
  <2>1. PICK n : Built(h, g, n) /\ H2 = H \cup {n} /\ L2 = L
    BY <1>3
  <2>2. OwnedBy(g, H \cup {n}, L)
    BY <2>1, BuiltOwned
  <2>3. QED BY <1>1, <2>1, <2>2
<1>4. CASE \E n : Built(h, g, n) /\ Nameless(g, n) /\ H2 = H /\ L2 = L \cup {n}
  <2>1. PICK n : Built(h, g, n) /\ Nameless(g, n) /\ H2 = H /\ L2 = L \cup {n}
    BY <1>4
  <2>2. OwnedBy(g, H, L \cup {n})
    BY <2>1, BuiltOwned
  <2>3. QED BY <1>1, <2>1, <2>2
<1>5. CASE \E p, n : Put(h, g, p, n) /\ n \notin L /\ H2 = H \ {n} /\ L2 = L
  <2>1. PICK p, n : Put(h, g, p, n) /\ n \notin L /\ H2 = H \ {n} /\ L2 = L
    BY <1>5
  <2>2. OwnedBy(g, H \ {n}, L)
    BY <2>1, PutOwned
  <2>3. QED BY <1>1, <2>1, <2>2
<1>6. CASE \E p, k : TakenAt(h, g, p, k) /\ H2 = H \cup {Kids(h)[p][k]} /\ L2 = L
  <2>1. PICK p, k : TakenAt(h, g, p, k) /\ H2 = H \cup {Kids(h)[p][k]} /\ L2 = L
    BY <1>6
  <2>2. OwnedBy(g, H \cup {Kids(h)[p][k]}, L)
    BY <2>1, TakenOwned
  <2>3. QED BY <1>1, <2>1, <2>2
<1>7. CASE \E n \in H : Gone(h, g, n) /\ H2 = H \ {n} /\ L2 = L
  BY <1>1, <1>7, GoneOwned
<1>8. CASE \E p, k : TakenGone(h, g, p, k) /\ H2 = H /\ L2 = L
  BY <1>1, <1>8, TakenGoneOwned
<1>9. CASE \E p, k : \E n \in H : Swapped(h, g, p, k, n) /\ H2 = H \ {n} /\ L2 = L
  <2>1. PICK p, k : \E n \in H : Swapped(h, g, p, k, n) /\ H2 = H \ {n} /\ L2 = L
    BY <1>9
  <2>2. PICK n \in H : Swapped(h, g, p, k, n) /\ H2 = H \ {n} /\ L2 = L
    BY <2>1
  <2>3. OwnedBy(g, H \ {n}, L)
    BY <2>2, SwappedOwned
  <2>4. QED BY <1>1, <2>2, <2>3
<1>10. QED BY <1>2, <1>3, <1>4, <1>5, <1>6, <1>7, <1>8, <1>9 DEF Happened
-----------------------------------------------------------------------------
(* The invariant, and what each action is to it.                           *)

IInv == Sound(heap) /\ heap.left = 0 /\ OwnedBy(heap, held, lost)

\* A step is one of the changes that keep the invariant.
Event == Happened(heap, held, lost, heap', held', lost') /\ heap'.left = 0

\* What happened to a heap with its allocations granted happened to the heap.
LEMMA Transported ==
  ASSUME NEW h, Sound(h), NEW l \in Nat, NEW H, NEW L, NEW h2, NEW H2, NEW L2,
         Happened([h EXCEPT !.left = l], H, L, h2, H2, L2)
  PROVE  Happened(h, H, L, [h2 EXCEPT !.left = 0], H2, L2)
<1> DEFINE g == [h EXCEPT !.left = l]
           g2 == [h2 EXCEPT !.left = 0]
<1>1. Sound(h2)
  BY DEF Happened, Idle, Built, Put, TakenAt, Gone, TakenGone, Swapped
<1>2. Kids(g) = Kids(h)
  BY LeftSet
<1>3. g2.mem = h2.mem
  BY <1>1, SoundMeans DEF Heaps
<1>4. Happened(g, H, L, h2, H2, L2)
  OBVIOUS
<1>5. /\ \A n : Idle(g, h2, n) => Idle(h, g2, n)
      /\ \A n : Built(g, h2, n) => Built(h, g2, n)
      /\ \A p, n : Put(g, h2, p, n) => Put(h, g2, p, n)
      /\ \A p, k : TakenAt(g, h2, p, k) => TakenAt(h, g2, p, k)
      /\ \A n : Gone(g, h2, n) => Gone(h, g2, n)
      /\ \A p, k : TakenGone(g, h2, p, k) => TakenGone(h, g2, p, k)
      /\ \A p, k, n : Swapped(g, h2, p, k, n) => Swapped(h, g2, p, k, n)
  BY <1>1, LeftAside
<1> HIDE DEF g, g2
<1>6. \A n : Nameless(h2, n) => Nameless(g2, n)
  BY <1>3 DEF Nameless
<1>7. CASE \E n : Idle(g, h2, n) /\ n \notin L /\ H2 = H /\ L2 = L
  BY <1>5, <1>7 DEF Happened, g2
<1>8. CASE \E n : Built(g, h2, n) /\ H2 = H \cup {n} /\ L2 = L
  BY <1>5, <1>8 DEF Happened, g2
<1>9. CASE \E n : Built(g, h2, n) /\ Nameless(h2, n) /\ H2 = H /\ L2 = L \cup {n}
  BY <1>5, <1>6, <1>9 DEF Happened, g2
<1>10. CASE \E p, n : Put(g, h2, p, n) /\ n \notin L /\ H2 = H \ {n} /\ L2 = L
  BY <1>5, <1>10 DEF Happened, g2
<1>11. CASE \E p, k : TakenAt(g, h2, p, k) /\ H2 = H \cup {Kids(g)[p][k]} /\ L2 = L
  BY <1>2, <1>5, <1>11 DEF Happened, g2
<1>12. CASE \E n \in H : Gone(g, h2, n) /\ H2 = H \ {n} /\ L2 = L
  BY <1>5, <1>12 DEF Happened, g2
<1>13. CASE \E p, k : TakenGone(g, h2, p, k) /\ H2 = H /\ L2 = L
  BY <1>5, <1>13 DEF Happened, g2
<1>14. CASE \E p, k : \E n \in H : Swapped(g, h2, p, k, n) /\ H2 = H \ {n} /\ L2 = L
  BY <1>5, <1>14 DEF Happened, g2
<1>15. QED BY <1>4, <1>7, <1>8, <1>9, <1>10, <1>11, <1>12, <1>13, <1>14 DEF Happened

\* What a call that is granted allocations did, the step did.
LEMMA GrantedEvent ==
  ASSUME IInv, NEW l \in Nat, NEW h2, Happened(Granted(l), held, lost, h2, held', lost'), Now(h2)
  PROVE  Event
<1>1. Sound(heap)
  BY DEF IInv
<1>2. Happened(heap, held, lost, [h2 EXCEPT !.left = 0], held', lost')
  BY <1>1, Transported DEF Granted
<1>3. Sound(h2)
  BY DEF Happened, Idle, Built, Put, TakenAt, Gone, TakenGone, Swapped
<1>4. [h2 EXCEPT !.left = 0].left = 0
  BY <1>3, SoundMeans DEF Heaps
<1>5. QED BY <1>2, <1>4 DEF Now, Event

\* The calls find the heap as it is.
LEMMA GrantedSame ==
  ASSUME IInv, NEW l \in Nat
  PROVE  LET g == Granted(l)
         IN /\ Sound(g) /\ Kids(g) = Kids(heap) /\ Live(g) = Live(heap) /\ g.mem = heap.mem
            /\ \A F : Borrowed(g, F) <=> Borrowed(heap, F)
            /\ \A p, n : CanTake(heap, p, n) => CanTake(g, p, n)
            /\ \A p : OwnList(heap, p) => OwnList(g, p)
            /\ l = 0 => g = heap
<1> DEFINE g == Granted(l)
<1>1. Sound(heap) /\ heap.left = 0
  BY DEF IInv
<1>2. Sound(g) /\ Kids(g) = Kids(heap) /\ Live(g) = Live(heap) /\ g.mem = heap.mem
  BY <1>1, LeftSet DEF Granted
<1>3. l = 0 => g = heap
  BY <1>1, SoundMeans DEF Granted, Heaps
<1> HIDE DEF g
<1>4. \A F : Borrowed(g, F) <=> Borrowed(heap, F)
  BY <1>2 DEF Borrowed
<1>5. \A p : OwnList(heap, p) => OwnList(g, p)
  BY <1>2 DEF OwnList
<1>6. \A p, n : CanTake(heap, p, n) => CanTake(g, p, n)
  BY <1>2, <1>5 DEF CanTake
<1>7. QED BY <1>2, <1>3, <1>4, <1>5, <1>6 DEF g

\* The guards of the actions.
LEMMA ParentMeans ==
  ASSUME IInv, NEW p, Parent(p)
  PROVE  OwnList(heap, p)
BY DEF IInv, Parent, OwnList

\* Fits is what a call needs to put n in p's list.
LEMMA FitsMeans ==
  ASSUME IInv, NEW p, NEW n, Fits(p, n)
  PROVE  CanTake(heap, p, n) /\ n \in held /\ n \notin lost
<1>1. Parent(p) /\ n \in held /\ p \notin Reached(heap, {n}) /\ Sound(heap)
  BY DEF Fits, IInv
<1>2. n \in Live(heap) /\ n \notin lost /\ n \notin ListedBy(Kids(heap))
  BY <1>1 DEF IInv, OwnedBy
<1>3. p \notin FamilyOf(Kids(heap), n)
  BY <1>1, <1>2, ReachedAlone
<1>4. QED BY <1>1, <1>2, <1>3, ParentMeans DEF CanTake

\* Unshared is what a call needs to delete a tree.
LEMMA UnsharedMeans ==
  ASSUME IInv, NEW n \in Live(heap), Unshared(n)
  PROVE  ~ Borrowed(heap, FamilyOf(Kids(heap), n))
BY ReachedCutOff DEF IInv, Unshared

\* MayTake names an item of a list that no reference shows.
LEMMA MayTakeMeans ==
  ASSUME IInv, NEW p, NEW n, MayTake(p, n)
  PROVE  OwnList(heap, p) /\ ~ Borrowed(heap, {p}) /\ \E k \in 1..Len(Kids(heap)[p]) : n = Kids(heap)[p][k]
<1>1. OwnList(heap, p) /\ ~ Borrowed(heap, {p}) /\ n \in ToSet(Children(heap, p))
  BY ParentMeans DEF MayTake
<1>2. Children(heap, p) = Kids(heap)[p] /\ Kids(heap)[p] \in Seq(Nodes)
  BY <1>1, OwnListLinks
<1>3. \E k \in 1..Len(Kids(heap)[p]) : n = Kids(heap)[p][k]
  BY <1>1, <1>2, Members
<1>4. QED BY <1>1, <1>3

\* The caller gets what a call made.
LEMMA GainsEvent ==
  ASSUME IInv, NEW l \in Nat, NEW r, Gains(r),
         r.ret = NULL => Idle(Granted(l), r.heap, NULL), r.ret # NULL => Built(Granted(l), r.heap, r.ret)
  PROVE  Event
<1>1. Now(r.heap) /\ held' = held \cup ({r.ret} \ {NULL}) /\ lost' = lost
  BY DEF Gains
<1>2. NULL \notin lost
  BY JsonTreeAssumption DEF IInv, OwnedBy, Live
<1>3. Happened(Granted(l), held, lost, r.heap, held', lost')
  <2>1. CASE r.ret = NULL
    <3>1. held' = held
      BY <1>1, <2>1
    <3>2. QED BY <1>1, <1>2, <2>1, <3>1 DEF Happened
  <2>2. CASE r.ret # NULL
    <3>1. held' = held \cup {r.ret}
      BY <1>1, <2>2
    <3>2. QED BY <1>1, <2>2, <3>1 DEF Happened
  <2>3. QED BY <2>1, <2>2
<1>4. QED BY <1>1, <1>3, GrantedEvent

\* The caller gives an item away.
LEMMA GivesEvent ==
  ASSUME IInv, NEW l \in Nat, NEW r, NEW n \in held, Gives(r, n),
         \/ r.ret = FALSE /\ Idle(Granted(l), r.heap, n)
         \/ r.ret = TRUE /\ \E p : Put(Granted(l), r.heap, p, n)
         \/ r.ret = TRUE /\ \E p, k : Swapped(Granted(l), r.heap, p, k, n)
  PROVE  Event
<1>1. Now(r.heap) /\ held' = (IF r.ret THEN held \ {n} ELSE held) /\ lost' = lost
  BY DEF Gives
<1>2. n \notin lost
  BY DEF IInv, OwnedBy
<1>3. CASE r.ret = FALSE /\ Idle(Granted(l), r.heap, n)
  <2>1. held' = held
    BY <1>1, <1>3
  <2>2. Happened(Granted(l), held, lost, r.heap, held', lost')
    BY <1>1, <1>2, <1>3, <2>1 DEF Happened
  <2>3. QED BY <1>1, <2>2, GrantedEvent
<1>4. CASE r.ret = TRUE /\ \E p : Put(Granted(l), r.heap, p, n)
  <2>1. held' = held \ {n}
    BY <1>1, <1>4
  <2>2. Happened(Granted(l), held, lost, r.heap, held', lost')
    BY <1>1, <1>2, <1>4, <2>1 DEF Happened
  <2>3. QED BY <1>1, <2>2, GrantedEvent
<1>5. CASE r.ret = TRUE /\ \E p, k : Swapped(Granted(l), r.heap, p, k, n)
  <2>1. held' = held \ {n}
    BY <1>1, <1>5
  <2>2. Happened(Granted(l), held, lost, r.heap, held', lost')
    BY <1>1, <1>2, <1>5, <2>1 DEF Happened
  <2>3. QED BY <1>1, <2>2, GrantedEvent
<1>6. QED BY <1>3, <1>4, <1>5

\* The caller gets a new tree, or nothing.
LEMMA GrownEvent ==
  ASSUME IInv, NEW l \in Nat, NEW r, Gains(r), Grown(Granted(l), r)
  PROVE  Event
<1>1. Sound(Granted(l))
  BY GrantedSame
<1>2. /\ r.ret = NULL => Idle(Granted(l), r.heap, NULL)
      /\ r.ret # NULL => Built(Granted(l), r.heap, r.ret)
  BY <1>1, GrownCall
<1>3. QED BY <1>2, GainsEvent

\* The caller gets a reference, or nothing.
LEMMA ReferenceEvent ==
  ASSUME IInv, NEW l \in Nat, NEW r, Gains(r), RefCall(Granted(l), r)
  PROVE  Event
BY GainsEvent DEF RefCall

\* cJSON_Create* and the references to strings, arrays and objects.
LEMMA CreateStep ==
  ASSUME IInv, NEW l \in Nat, Create(l)
  PROVE  Event
<1> DEFINE g == Granted(l)
<1>1. Sound(g) /\ g \in Heaps /\ Blank(g) /\ Live(g) = Live(heap) /\ g.mem = heap.mem
  BY GrantedSame, SoundMeans
<1> HIDE DEF g
<1>2. CASE \E type \in Kinds : \E value \in ValuesFor(type) : Gains(CreateItem(g, type, value))
  <2>1. PICK type \in Kinds : \E value \in ValuesFor(type) : Gains(CreateItem(g, type, value))
    BY <1>2
  <2>2. PICK value \in ValuesFor(type) : Gains(CreateItem(g, type, value))
    BY <2>1
  <2>3. ValueFits(type, value)
    BY DEF ValuesFor, ValueFits
  <2>4. Grown(g, CreateItem(g, type, value))
    BY <1>1, <2>3, CreatedItem
  <2>5. QED BY <2>2, <2>4, GrownEvent DEF g
<1>3. CASE \E value \in Values : "String" \in Kinds /\ Gains(CreateStringReference(g, value))
  <2>1. PICK value \in Values : "String" \in Kinds /\ Gains(CreateStringReference(g, value))
    BY <1>3
  <2>2. RefCall(g, CreateStringReference(g, value))
    BY <1>1, <2>1, StringReferenceCall
  <2>3. QED BY <2>1, <2>2, ReferenceEvent DEF g
<1>4. CASE \E from \in Live(heap) : Parent(from) /\ Gains(CreateReference(g, heap.mem[from].type, from))
  <2>1. PICK from \in Live(heap) : Parent(from) /\ Gains(CreateReference(g, heap.mem[from].type, from))
    BY <1>4
  <2>2. from \in Live(g) /\ g.mem[from].type \in Parents
    BY <1>1, <2>1 DEF Parent
  <2>3. RefCall(g, CreateReference(g, g.mem[from].type, from))
    BY <1>1, <2>2, ListReferenceCall
  <2>4. RefCall(g, CreateReference(g, heap.mem[from].type, from))
    BY <1>1, <2>3
  <2>5. QED BY <2>1, <2>4, ReferenceEvent DEF g
<1>5. QED BY <1>2, <1>3, <1>4 DEF Create, g

\* cJSON_Create*Array.
LEMMA CreateArrayStep ==
  ASSUME IInv, NEW l \in Nat, CreateArray(l)
  PROVE  Event
<1>1. Granted(l) \in Heaps /\ Blank(Granted(l))
  BY GrantedSame, SoundMeans
<1>2. PICK type \in Kinds \cap {"Number", "String"}, count \in 0..MaxCount, value \in Values :
        Gains(CreateArrayOf(Granted(l), type, count, value))
  BY DEF CreateArray
<1>3. count \in Nat
  BY JsonTreeAssumption
<1>4. Grown(Granted(l), CreateArrayOf(Granted(l), type, count, value))
  BY <1>1, <1>3, CreatedArray
<1>5. QED BY <1>2, <1>4, GrownEvent

\* cJSON_Duplicate.
LEMMA DuplicateStep ==
  ASSUME IInv, NEW l \in Nat, NEW n \in Live(heap), Duplicate(n, l)
  PROVE  Event
<1>1. Sound(Granted(l)) /\ n \in Live(Granted(l))
  BY GrantedSame
<1>2. PICK recurse \in BOOLEAN : Gains(cJSON_Duplicate(Granted(l), n, recurse))
  BY DEF Duplicate
<1>3. Grown(Granted(l), cJSON_Duplicate(Granted(l), n, recurse))
  BY <1>1, DuplicatedCall
<1>4. QED BY <1>2, <1>3, GrownEvent

\* heap is what a call that allocates nothing finds.
LEMMA NotGranted ==
  ASSUME IInv
  PROVE  Granted(0) = heap /\ 0 \in Nat
BY GrantedSame

\* cJSON_AddItemToArray.
LEMMA AddItemToArrayStep ==
  ASSUME IInv, NEW p, NEW n, AddItemToArray(p, n)
  PROVE  Event
<1> DEFINE r == add_item_to_array(heap, p, n)
<1>1. CanTake(heap, p, n) /\ n \in held /\ Gives(r, n)
  BY FitsMeans DEF AddItemToArray
<1>2. r.ret = TRUE /\ Put(heap, r.heap, p, n)
  BY <1>1, AddedCall
<1> HIDE DEF r
<1>3. Granted(0) = heap /\ 0 \in Nat
  BY NotGranted
<1>4. \E q : Put(Granted(0), r.heap, q, n)
  BY <1>2, <1>3
<1>5. QED BY <1>1, <1>2, <1>3, <1>4, GivesEvent

\* cJSON_InsertItemInArray.
LEMMA InsertStep ==
  ASSUME IInv, NEW p, NEW n, NEW which \in Nat, Insert(p, n, which)
  PROVE  Event
<1> DEFINE r == cJSON_InsertItemInArray(heap, p, which, n)
<1>1. CanTake(heap, p, n) /\ n \in held /\ Gives(r, n)
  BY FitsMeans DEF Insert
<1>2. r.ret = TRUE /\ Put(heap, r.heap, p, n)
  BY <1>1, InsertedCall
<1> HIDE DEF r
<1>3. Granted(0) = heap /\ 0 \in Nat
  BY NotGranted
<1>4. \E q : Put(Granted(0), r.heap, q, n)
  BY <1>2, <1>3
<1>5. QED BY <1>1, <1>2, <1>3, <1>4, GivesEvent

\* cJSON_AddItemToObject and cJSON_AddItemToObjectCS.
LEMMA AddItemToObjectStep ==
  ASSUME IInv, NEW l \in Nat, NEW p, NEW n, AddItemToObject(p, n, l)
  PROVE  Event
<1>1. CanTake(heap, p, n) /\ n \in held
  BY FitsMeans DEF AddItemToObject
<1>2. PICK key \in Keys, constantKey \in BOOLEAN :
        Gives(add_item_to_object(Granted(l), p, key, n, constantKey), n)
  BY DEF AddItemToObject
<1> DEFINE g == Granted(l)
           r == add_item_to_object(g, p, key, n, constantKey)
<1>3. CanTake(g, p, n) /\ Sound(g)
  BY <1>1, GrantedSame
<1>31. PutOrKept(g, r, p, n)
  BY <1>3, NamedPuts
<1>5. Gives(r, n)
  BY <1>2
<1> HIDE DEF g, r
<1>4. \/ r.ret = TRUE /\ Put(g, r.heap, p, n)
      \/ r.ret = FALSE /\ r.heap = g
  BY <1>31 DEF PutOrKept
<1>6. Idle(g, g, n)
  BY <1>3 DEF Idle, Steady
<1>7. \/ r.ret = FALSE /\ Idle(g, r.heap, n)
      \/ r.ret = TRUE /\ \E q : Put(g, r.heap, q, n)
  BY <1>4, <1>6
<1>8. QED BY <1>1, <1>5, <1>7, GivesEvent DEF g

\* cJSON_ReplaceItemViaPointer and cJSON_ReplaceItemInArray.
LEMMA ReplaceStep ==
  ASSUME IInv, NEW p, NEW n, NEW item, Replace(p, n, item)
  PROVE  Event
<1> DEFINE r == cJSON_ReplaceItemViaPointer(heap, p, item, n)
<1>1. CanTake(heap, p, n) /\ n \in held /\ Gives(r, n) /\ Unshared(item) /\ ~ Borrowed(heap, {p})
      /\ \E k \in 1..Len(Kids(heap)[p]) : item = Kids(heap)[p][k]
  BY FitsMeans, MayTakeMeans DEF Replace
<1>2. PICK k \in 1..Len(Kids(heap)[p]) : item = Kids(heap)[p][k]
  BY <1>1
<1>3. item \in Live(heap)
  BY <1>1, <1>2, ItemListed DEF CanTake, OwnList
<1>4. ~ Borrowed(heap, FamilyOf(Kids(heap), item))
  BY <1>1, <1>3, UnsharedMeans
<1>5. r.ret = TRUE /\ Swapped(heap, r.heap, p, k, n)
  <2>1. r = cJSON_ReplaceItemViaPointer(heap, p, Kids(heap)[p][k], n)
    BY <1>2
  <2> HIDE DEF r
  <2>2. ~ Borrowed(heap, FamilyOf(Kids(heap), Kids(heap)[p][k]))
    BY <1>2, <1>4
  <2>3. QED BY <1>1, <2>1, <2>2, ReplacedCall
<1> HIDE DEF r
<1>6. Granted(0) = heap /\ 0 \in Nat
  BY NotGranted
<1>7. \E q, j : Swapped(Granted(0), r.heap, q, j, n)
  BY <1>5, <1>6
<1>8. QED BY <1>1, <1>5, <1>6, <1>7, GivesEvent

\* cJSON_ReplaceItemInObject, CaseSensitive or not.
LEMMA ReplaceInObjectStep ==
  ASSUME IInv, NEW l \in Nat, NEW p, NEW n, ReplaceInObject(p, n, l)
  PROVE  Event
<1>1. CanTake(heap, p, n) /\ n \in held /\ ~ Borrowed(heap, {p})
  BY FitsMeans DEF ReplaceInObject
<1>2. PICK key \in Keys, caseSensitive \in BOOLEAN :
        /\ get_object_item(heap, p, key, caseSensitive) # NULL =>
             Unshared(get_object_item(heap, p, key, caseSensitive))
        /\ Gives(replace_item_in_object(Granted(l), p, key, n, caseSensitive), n)
  BY DEF ReplaceInObject
<1> DEFINE g == Granted(l)
           r == replace_item_in_object(g, p, key, n, caseSensitive)
           item == get_object_item(heap, p, key, caseSensitive)
           K == Kids(heap)
<1>3. CanTake(g, p, n) /\ ~ Borrowed(g, {p}) /\ Kids(g) = K /\ g.mem = heap.mem /\ OwnList(heap, p) /\ OwnList(g, p)
      /\ \A F : Borrowed(g, F) <=> Borrowed(heap, F)
  BY <1>1, GrantedSame DEF CanTake
<1>4. Gives(r, n)
  BY <1>2
<1>5. get_object_item(g, p, key, caseSensitive) = item
  <2>1. Children(g, p) = Children(heap, p) /\ Len(Children(heap, p)) \in Nat
    BY <1>3, OwnListLinks
  <2> HIDE DEF g
  <2>2. QED BY <1>3, <2>1, LookupSame
<1>6. item # NULL => ~ Borrowed(g, FamilyOf(Kids(g), item))
  <2>1. SUFFICES ASSUME item # NULL PROVE ~ Borrowed(heap, FamilyOf(Kids(heap), item))
    BY <1>3
  <2>2. Unshared(item)
    BY <1>2, <2>1
  <2>3. PICK k \in 1..Len(K[p]) : item = K[p][k]
    BY <1>3, <2>1, LookupFinds
  <2>4. item \in Live(heap)
    BY <1>3, <2>3, ItemListed DEF OwnList
  <2> HIDE DEF item
  <2>5. QED BY <2>2, <2>4, UnsharedMeans
<1>7. \/ r.ret = FALSE /\ Idle(g, r.heap, n)
      \/ r.ret = TRUE /\ \E k \in 1..Len(Kids(g)[p]) : Swapped(g, r.heap, p, k, n)
  <2> HIDE DEF item, g
  <2>1. QED BY <1>3, <1>5, <1>6, ReplacedInObject
<1> HIDE DEF r, g
<1>8. QED BY <1>1, <1>4, <1>7, GivesEvent DEF g

\* Who has what is in use.
LEMMA OutOfUse ==
  ASSUME IInv
  PROVE  /\ held \subseteq Live(heap) /\ lost \subseteq Live(heap) /\ NULL \notin Live(heap) /\ NULL \notin lost
BY JsonTreeAssumption DEF IInv, OwnedBy, Live

\* cJSON_AddItemReferenceToArray.
LEMMA AddReferenceToArrayStep ==
  ASSUME IInv, NEW l \in Nat, NEW p, NEW n \in Live(heap), AddReferenceToArray(p, n, l)
  PROVE  Event
<1> DEFINE g == Granted(l)
           r == create_reference(g, n)
           h2 == add_item_to_array(r.heap, p, r.ret).heap
<1>1. Parent(p) /\ Now(h2) /\ held' = held /\ lost' = lost
  BY DEF AddReferenceToArray
<1>2. OwnList(g, p) /\ Sound(g) /\ Live(g) = Live(heap)
  BY <1>1, GrantedSame, ParentMeans
<1> HIDE DEF g
<1>3. RefCall(g, r)
  BY <1>2, ItemReferenceCall
<1> HIDE DEF r
<1>4. \/ r.ret = NULL /\ Idle(g, h2, NULL)
      \/ r.ret \in Nodes \ Live(g) /\ Put(g, h2, p, r.ret)
  BY <1>2, <1>3, ReferenceAdded
<1> HIDE DEF h2
<1>5. CASE Idle(g, h2, NULL)
  <2>1. Happened(g, held, lost, h2, held', lost')
    BY <1>1, <1>5, OutOfUse DEF Happened
  <2>2. QED BY <1>1, <2>1, GrantedEvent DEF g
<1>6. CASE r.ret \in Nodes \ Live(g) /\ Put(g, h2, p, r.ret)
  <2>1. r.ret \notin lost /\ held' = held \ {r.ret}
    BY <1>1, <1>2, <1>6, OutOfUse
  <2>2. Happened(g, held, lost, h2, held', lost')
    BY <1>1, <1>6, <2>1 DEF Happened
  <2>3. QED BY <1>1, <2>2, GrantedEvent DEF g
<1>7. QED BY <1>4, <1>5, <1>6

\* cJSON_AddItemReferenceToObject.
LEMMA AddReferenceToObjectStep ==
  ASSUME IInv, NEW l \in Nat, NEW p, NEW n \in Live(heap), AddReferenceToObject(p, n, l)
  PROVE  Event
<1> DEFINE g == Granted(l)
           r == create_reference(g, n)
           added(key) == add_item_to_object(r.heap, p, key, r.ret, FALSE)
<1>1. PICK key \in Keys :
        Now(added(key).heap) /\ lost' = (IF added(key).ret THEN lost ELSE lost \cup ({r.ret} \ {NULL}))
  BY DEF AddReferenceToObject
<1>2. Parent(p) /\ held' = held
  BY DEF AddReferenceToObject
<1>3. OwnList(g, p) /\ Sound(g) /\ Live(g) = Live(heap)
  BY <1>2, GrantedSame, ParentMeans
<1> HIDE DEF g
<1>4. RefCall(g, r)
  BY <1>3, ItemReferenceCall
<1> HIDE DEF r
<1> DEFINE a == added(key)
           m == r.ret
<1>5. Placed(g, p, m, a)
  BY <1>3, <1>4, NamedReferenceAdded
<1>6. Now(a.heap) /\ lost' = (IF a.ret THEN lost ELSE lost \cup ({m} \ {NULL}))
  BY <1>1
<1> HIDE DEF a, m
<1>7. CASE m = NULL /\ a.ret = FALSE /\ Idle(g, a.heap, NULL)
  <2>1. lost' = lost
    BY <1>6, <1>7
  <2>2. Happened(g, held, lost, a.heap, held', lost')
    BY <1>2, <1>7, <2>1, OutOfUse DEF Happened
  <2>3. QED BY <1>6, <2>2, GrantedEvent DEF g
<1>8. CASE m \in Nodes \ Live(g) /\ a.ret = TRUE /\ Put(g, a.heap, p, m)
  <2>1. m \notin lost /\ held' = held \ {m} /\ lost' = lost
    BY <1>2, <1>3, <1>6, <1>8, OutOfUse
  <2>2. Happened(g, held, lost, a.heap, held', lost')
    BY <1>8, <2>1 DEF Happened
  <2>3. QED BY <1>6, <2>2, GrantedEvent DEF g
<1>9. CASE m \in Nodes \ Live(g) /\ a.ret = FALSE /\ Built(g, a.heap, m) /\ Nameless(a.heap, m)
  <2>1. lost' = lost \cup {m}
    BY <1>6, <1>9, JsonTreeAssumption
  <2>2. Happened(g, held, lost, a.heap, held', lost')
    BY <1>2, <1>9, <2>1 DEF Happened
  <2>3. QED BY <1>6, <2>2, GrantedEvent DEF g
<1>10. QED BY <1>5, <1>7, <1>8, <1>9 DEF Placed

\* cJSON_Add*ToObject.
LEMMA AddNewStep ==
  ASSUME IInv, NEW l \in Nat, NEW p, AddNew(p, l)
  PROVE  Event
<1> DEFINE g == Granted(l)
<1>1. Parent(p) /\ held' = held /\ lost' = lost
      /\ \E key \in Keys, type \in Kinds : \E value \in ValuesFor(type) :
           Now(AddNewToObject(g, p, key, type, value).heap)
  BY DEF AddNew
<1>2. OwnList(g, p) /\ Live(g) = Live(heap)
  BY <1>1, GrantedSame, ParentMeans
<1> HIDE DEF g
<1>3. PICK key \in Keys, type \in Kinds :
        \E value \in ValuesFor(type) : Now(AddNewToObject(g, p, key, type, value).heap)
  BY <1>1
<1>4. PICK value \in ValuesFor(type) : Now(AddNewToObject(g, p, key, type, value).heap)
  BY <1>3
<1>5. ValueFits(type, value)
  BY DEF ValuesFor, ValueFits
<1> DEFINE h2 == AddNewToObject(g, p, key, type, value).heap
<1>6. Idle(g, h2, NULL) \/ \E n \in Nodes \ Live(g) : Put(g, h2, p, n)
  BY <1>2, <1>5, NewAdded
<1>7. Now(h2)
  BY <1>4
<1> HIDE DEF h2
<1>8. CASE Idle(g, h2, NULL)
  <2>1. Happened(g, held, lost, h2, held', lost')
    BY <1>1, <1>8, OutOfUse DEF Happened
  <2>2. QED BY <1>7, <2>1, GrantedEvent DEF g
<1>9. CASE \E n \in Nodes \ Live(g) : Put(g, h2, p, n)
  <2>1. PICK n \in Nodes \ Live(g) : Put(g, h2, p, n)
    BY <1>9
  <2>2. n \notin lost /\ held' = held \ {n}
    BY <1>1, <1>2, OutOfUse
  <2>3. Happened(g, held, lost, h2, held', lost')
    BY <1>1, <2>1, <2>2 DEF Happened
  <2>4. QED BY <1>7, <2>3, GrantedEvent DEF g
<1>10. QED BY <1>6, <1>8, <1>9

\* cJSON_DetachItemViaPointer and the other ways to detach an item.
LEMMA DetachStep ==
  ASSUME IInv, NEW p, NEW n, Detach(p, n)
  PROVE  Event
<1> DEFINE r == cJSON_DetachItemViaPointer(heap, p, n)
<1>1. OwnList(heap, p) /\ ~ Borrowed(heap, {p}) /\ Gains(r)
      /\ \E k \in 1..Len(Kids(heap)[p]) : n = Kids(heap)[p][k]
  BY MayTakeMeans DEF Detach
<1>2. PICK k \in 1..Len(Kids(heap)[p]) : n = Kids(heap)[p][k]
  BY <1>1
<1>3. r.ret = n /\ TakenAt(heap, r.heap, p, k)
  <2>1. r = cJSON_DetachItemViaPointer(heap, p, Kids(heap)[p][k])
    BY <1>2
  <2> HIDE DEF r
  <2>2. QED BY <1>1, <1>2, <2>1, DetachedCall
<1> HIDE DEF r
<1>4. n \in Live(heap) /\ n # NULL
  BY <1>1, <1>2, ItemListed DEF OwnList
<1>5. Now(r.heap) /\ held' = held \cup {Kids(heap)[p][k]} /\ lost' = lost
  BY <1>1, <1>2, <1>3, <1>4 DEF Gains
<1>6. Happened(heap, held, lost, r.heap, held', lost')
  BY <1>3, <1>5 DEF Happened
<1>7. QED BY <1>5, <1>6, NotGranted, GrantedEvent

\* cJSON_DeleteItemFromArray and cJSON_DeleteItemFromObject.
LEMMA DeleteFromStep ==
  ASSUME IInv, NEW p, NEW n, DeleteFrom(p, n)
  PROVE  Event
<1> DEFINE r == cJSON_DetachItemViaPointer(heap, p, n)
           h2 == cJSON_Delete(r.heap, r.ret)
<1>1. OwnList(heap, p) /\ ~ Borrowed(heap, {p}) /\ Unshared(n) /\ Now(h2) /\ held' = held /\ lost' = lost
      /\ \E k \in 1..Len(Kids(heap)[p]) : n = Kids(heap)[p][k]
  BY MayTakeMeans DEF DeleteFrom
<1>2. PICK k \in 1..Len(Kids(heap)[p]) : n = Kids(heap)[p][k]
  BY <1>1
<1>3. n \in Live(heap)
  BY <1>1, <1>2, ItemListed DEF OwnList
<1>4. ~ Borrowed(heap, FamilyOf(Kids(heap), n))
  BY <1>1, <1>3, UnsharedMeans
<1>5. TakenGone(heap, h2, p, k)
  <2>1. r = cJSON_DetachItemViaPointer(heap, p, Kids(heap)[p][k])
    BY <1>2
  <2> HIDE DEF r
  <2>2. r.ret = Kids(heap)[p][k] /\ TakenGone(heap, cJSON_Delete(r.heap, Kids(heap)[p][k]), p, k)
    BY <1>1, <1>2, <1>4, <2>1, DetachedCall
  <2>3. QED BY <2>2
<1> HIDE DEF h2
<1>6. Happened(heap, held, lost, h2, held', lost')
  BY <1>1, <1>5 DEF Happened
<1>7. QED BY <1>1, <1>6, NotGranted, GrantedEvent

\* cJSON_Delete.
LEMMA DeleteStep ==
  ASSUME IInv, NEW n, Delete(n)
  PROVE  Event
<1> DEFINE h2 == cJSON_Delete(heap, n)
<1>1. n \in held /\ Unshared(n) /\ Now(h2) /\ held' = held \ {n} /\ lost' = lost
  BY DEF Delete
<1>2. n \in Live(heap) /\ n \notin ListedBy(Kids(heap)) /\ Sound(heap)
  BY <1>1 DEF IInv, OwnedBy
<1>3. ~ Borrowed(heap, FamilyOf(Kids(heap), n))
  BY <1>1, <1>2, UnsharedMeans
<1>4. Gone(heap, h2, n)
  BY <1>2, <1>3, DeletedCall
<1> HIDE DEF h2
<1>5. Happened(heap, held, lost, h2, held', lost')
  BY <1>1, <1>4 DEF Happened
<1>6. QED BY <1>1, <1>5, NotGranted, GrantedEvent

\* cJSON_SetValuestring.
LEMMA SetValuestringStep ==
  ASSUME IInv, NEW l \in Nat, NEW n, SetValuestring(n, l)
  PROVE  Event
<1> DEFINE g == Granted(l)
<1>1. n \in Live(heap) /\ held' = held /\ lost' = lost
  BY DEF SetValuestring
<1>2. Sound(g) /\ Live(g) = Live(heap)
  BY GrantedSame
<1>3. PICK value \in Values : Now(cJSON_SetValuestring(g, n, value).heap)
  BY DEF SetValuestring
<1> HIDE DEF g
<1> DEFINE h2 == cJSON_SetValuestring(g, n, value).heap
<1>4. Idle(g, h2, NULL)
  BY <1>1, <1>2, SetCall
<1>5. Now(h2)
  BY <1>3
<1> HIDE DEF h2
<1>6. Happened(g, held, lost, h2, held', lost')
  BY <1>1, <1>4, OutOfUse DEF Happened
<1>7. QED BY <1>5, <1>6, GrantedEvent DEF g

\* Every call is one of the changes that keep the invariant.
LEMMA StepIsEvent ==
  ASSUME IInv, Next
  PROVE  Event
<1>1. 0..MaxAllocs \subseteq Nat /\ 0..1 \subseteq Nat /\ 0..2 \subseteq Nat /\ 0..3 \subseteq Nat
      /\ 0..Cardinality(Nodes) \subseteq Nat
  BY JsonTreeAssumption, SomeNodes
<1>2. CASE \E left \in 0..MaxAllocs : CreateArray(left) \/ \E n \in Live(heap) : Duplicate(n, left)
  BY <1>1, <1>2, CreateArrayStep, DuplicateStep
<1>3. CASE \E left \in 0..2 : Create(left)
  BY <1>1, <1>3, CreateStep
<1>4. CASE \E left \in 0..3, n \in Live(heap) : AddNew(n, left)
  BY <1>1, <1>4, AddNewStep
<1>5. CASE \E left \in 0..2, p, n \in Live(heap) : AddReferenceToObject(p, n, left)
  BY <1>1, <1>5, AddReferenceToObjectStep
<1>6. CASE \E left \in 0..1, n \in Live(heap) :
             \/ SetValuestring(n, left)
             \/ \E p \in Live(heap) :
                  AddItemToObject(p, n, left) \/ ReplaceInObject(p, n, left) \/ AddReferenceToArray(p, n, left)
  <2>1. PICK left \in 0..1, n \in Live(heap) :
             \/ SetValuestring(n, left)
             \/ \E p \in Live(heap) :
                  AddItemToObject(p, n, left) \/ ReplaceInObject(p, n, left) \/ AddReferenceToArray(p, n, left)
    BY <1>6
  <2>2. left \in Nat
    BY <1>1
  <2>3. CASE SetValuestring(n, left)
    BY <2>2, <2>3, SetValuestringStep
  <2>4. ASSUME NEW p \in Live(heap), AddItemToObject(p, n, left) PROVE Event
    BY <2>2, <2>4, AddItemToObjectStep
  <2>5. ASSUME NEW p \in Live(heap), ReplaceInObject(p, n, left) PROVE Event
    BY <2>2, <2>5, ReplaceInObjectStep
  <2>6. ASSUME NEW p \in Live(heap), AddReferenceToArray(p, n, left) PROVE Event
    BY <2>2, <2>6, AddReferenceToArrayStep
  <2>7. QED BY <2>1, <2>3, <2>4, <2>5, <2>6
<1>7. CASE \E n \in Live(heap) :
             \/ Delete(n)
             \/ \E p \in Live(heap) :
                  \/ AddItemToArray(p, n) \/ Detach(p, n) \/ DeleteFrom(p, n)
                  \/ \E which \in 0..Cardinality(Nodes) : Insert(p, n, which)
                  \/ \E item \in Live(heap) : Replace(p, n, item)
  <2>1. PICK n \in Live(heap) :
             \/ Delete(n)
             \/ \E p \in Live(heap) :
                  \/ AddItemToArray(p, n) \/ Detach(p, n) \/ DeleteFrom(p, n)
                  \/ \E which \in 0..Cardinality(Nodes) : Insert(p, n, which)
                  \/ \E item \in Live(heap) : Replace(p, n, item)
    BY <1>7
  <2>2. CASE Delete(n)
    BY <2>2, DeleteStep
  <2>3. ASSUME NEW p \in Live(heap), AddItemToArray(p, n) PROVE Event
    BY <2>3, AddItemToArrayStep
  <2>4. ASSUME NEW p \in Live(heap), Detach(p, n) PROVE Event
    BY <2>4, DetachStep
  <2>5. ASSUME NEW p \in Live(heap), DeleteFrom(p, n) PROVE Event
    BY <2>5, DeleteFromStep
  <2>6. ASSUME NEW p \in Live(heap), NEW which \in 0..Cardinality(Nodes), Insert(p, n, which) PROVE Event
    BY <1>1, <2>6, InsertStep
  <2>7. ASSUME NEW p \in Live(heap), NEW item \in Live(heap), Replace(p, n, item) PROVE Event
    BY <2>7, ReplaceStep
  <2>8. QED BY <2>1, <2>2, <2>3, <2>4, <2>5, <2>6, <2>7
<1>8. QED BY <1>2, <1>3, <1>4, <1>5, <1>6, <1>7 DEF Next

\* The invariant holds of a heap without items.
LEMMA InitIsSound ==
  ASSUME Init
  PROVE  IInv
<1> DEFINE m == [n \in Nodes |-> Free]
           L == Kids(heap)
<1>1. heap = [mem |-> m, strings |-> 0, left |-> 0] /\ held = {} /\ lost = {}
  BY DEF Init
<1>2. heap \in Heaps
  BY <1>1, FreeIsItem DEF Heaps
<1>3. heap.mem = m /\ heap.strings = 0 /\ heap.left = 0
  BY <1>1
<1>4. Free.type = "free" /\ Free.ref = FALSE /\ Free.child = NULL
  BY DEF Free
<1>5. Live(heap) = {}
  BY <1>3, <1>4 DEF Live
<1>6. \A n \in Nodes : L[n] = << >>
  <2>1. << >> \in Seq(Nodes) /\ Once(<< >>) /\ \A i \in 1..Len(<< >>) : FALSE
    BY DEF Once
  <2>2. Chain(heap, NULL) = << >>
    BY <1>2, <2>1, ChainIsList
  <2>3. \A n \in Nodes : Children(heap, n) = << >>
    BY <1>3, <1>4, <2>2 DEF Children
  <2>4. QED BY <2>3 DEF Kids
<1>7. L = [n \in Nodes |-> << >>]
  BY <1>6 DEF Kids
<1> HIDE DEF L, m
<1>8. Forest({}, L)
  <2>1. L \in [Nodes -> Seq({})]
    BY <1>7
  <2>2. Disjoint(L)
    BY <1>6 DEF Disjoint
  <2>3. \A p \in Nodes : ToSet(L[p]) = {}
    BY <1>6 DEF ToSet
  <2>4. Rooted(L)
    BY <2>3 DEF Rooted
  <2>5. QED BY <1>6, <2>1, <2>2, <2>4 DEF Forest
<1>9. ListedBy(L) \subseteq {} /\ Nexts(heap.mem, L) /\ Prevs(heap.mem, L)
  BY <1>6, <1>8, ForestLists DEF Nexts, Prevs
<1>10. Linked(heap.mem, {}, L)
  BY <1>8, <1>9 DEF Linked, Heads, Loose
<1>11. Blank(heap)
  BY <1>3 DEF Blank, m
<1>12. heap.strings = Blocks(heap, {})
  BY <1>3, EmptyBlocks
<1>13. Sound(heap)
  BY <1>2, <1>5, <1>10, <1>11, <1>12 DEF Sound, L
<1>14. OwnedBy(heap, held, lost)
  BY <1>1, <1>5 DEF OwnedBy
<1>15. QED BY <1>3, <1>13, <1>14 DEF IInv

\* The invariant holds after every call.
LEMMA StepKeepsIInv ==
  ASSUME IInv, [Next]_vars
  PROVE  IInv'
<1>1. CASE Next
  <2>1. Event
    BY <1>1, StepIsEvent
  <2>2. Sound(heap) /\ OwnedBy(heap, held, lost)
    BY DEF IInv
  <2>3. Sound(heap') /\ OwnedBy(heap', held', lost')
    BY <2>1, <2>2, HappenedOwned DEF Event
  <2>4. QED BY <2>1, <2>3 DEF IInv, Event
<1>2. CASE UNCHANGED vars
  BY <1>2 DEF IInv, vars
<1>3. QED BY <1>1, <1>2

\* Whatever calls are made, in whatever order, and whichever allocations fail:
\* the heap is linked as its lists are, owns the strings it counts, and every
\* item is in one list, or is the caller's or lost.
THEOREM InvariantHolds == Spec => []IInv
<1>1. Init => IInv
  BY InitIsSound
<1>2. IInv /\ [Next]_vars => IInv'
  BY StepKeepsIInv
<1>3. QED BY <1>1, <1>2, PTL DEF Spec

\* No sequence of calls frees a key or a value twice, forgets it, or frees one
\* that is constant or belongs to the item a reference shows.
THEOREM StringsAreAccounted == Spec => []StringsAccounted
<1>1. IInv => StringsAccounted
  BY DEF IInv, Sound, StringsAccounted
<1>2. QED BY <1>1, InvariantHolds, PTL
-----------------------------------------------------------------------------
(* What the invariant says of the lists, and of who has what.              *)

\* The lists by which the properties are stated are those of the invariant.
LEMMA ChildrenAreKids ==
  ASSUME IInv
  PROVE  \A p \in Live(heap) : ~ heap.mem[p].ref => Children(heap, p) = Kids(heap)[p]
BY OwnListLinks DEF IInv, OwnList

\* Each list is linked both ways, as ListsLinked says.
LEMMA InvLinksLists ==
  ASSUME IInv
  PROVE  ListsLinked
<1> DEFINE m == heap.mem
           L == Kids(heap)
<1>1. Sound(heap) /\ OwnedBy(heap, held, lost)
  BY DEF IInv
<1>2. Loose(m, Live(heap), L)
  BY <1>1, SoundMeans DEF Linked
<1>3. ASSUME NEW n \in held PROVE m[n].next = NULL /\ m[n].prev = NULL
  <2>1. n \in Live(heap) \ ListedBy(L)
    BY <1>1, <1>3 DEF OwnedBy
  <2>2. QED BY <1>2, <2>1 DEF Loose
<1>4. ASSUME NEW p \in Live(heap), ~ m[p].ref, Children(heap, p) # << >>
      PROVE  LET items == Children(heap, p)
             IN /\ m[items[1]].prev = Last(items) /\ m[Last(items)].next = NULL
                /\ \A i \in 2..Len(items) : m[items[i]].prev = items[i - 1]
  <2> DEFINE s == L[p]
  <2>1. OwnList(heap, p)
    BY <1>1, <1>4 DEF OwnList
  <2>2. /\ s \in Seq(Nodes) /\ Len(s) \in Nat /\ Children(heap, p) = s
        /\ \A i \in 1..Len(s) : m[s[i]].next = After(s, i) /\ m[s[i]].prev = Before(s, i)
    BY <2>1, OwnListLinks
  <2>3. s # << >>
    BY <1>4, <2>2
  <2> HIDE DEF s, m
  <2>4. Len(s) # 0
    BY <2>2, <2>3, EmptySeq
  <2>5. 1 \in 1..Len(s) /\ Len(s) \in 1..Len(s)
    BY <2>2, <2>4
  <2>6. m[s[1]].prev = s[Len(s)] /\ m[s[Len(s)]].next = NULL
    BY <2>2, <2>5 DEF After, Before
  <2>7. ASSUME NEW i \in 2..Len(s) PROVE m[s[i]].prev = s[i - 1]
    <3>1. i \in 1..Len(s) /\ i # 1
      BY <2>2
    <3>2. QED BY <2>2, <3>1 DEF Before
  <2>8. QED BY <2>2, <2>6, <2>7 DEF Last
<1>5. QED BY <1>3, <1>4 DEF ListsLinked, m

\* Nobody is in two lists, and who is in none is the caller's or lost.
LEMMA InvLosesNothing ==
  ASSUME IInv
  PROVE  NothingLost
<1> DEFINE L == Kids(heap)
           parents(n) == {p \in Live(heap) : ~ heap.mem[p].ref /\ n \in ToSet(Children(heap, p))}
<1>1. Sound(heap) /\ OwnedBy(heap, held, lost)
  BY DEF IInv
<1>2. /\ Forest(Live(heap), L) /\ Live(heap) \subseteq Nodes
      /\ \A n \in Nodes \ Live(heap) : L[n] = << >>
  BY <1>1, SoundMeans
<1>3. \A p \in Nodes : heap.mem[p].ref => L[p] = << >>
  BY DEF Kids
<1>4. \A n : n \notin ToSet(<< >>)
  BY DEF ToSet
<1>5. \A p \in Nodes : \A n : n \in ToSet(L[p]) => p \in Live(heap) /\ ~ heap.mem[p].ref
  BY <1>2, <1>3, <1>4
<1>6. \A n : parents(n) = {p \in Nodes : n \in ToSet(L[p])}
  BY <1>2, <1>5, ChildrenAreKids
<1> HIDE DEF L
<1>7. ASSUME NEW n \in Live(heap) PROVE Cardinality(parents(n)) = IF n \in held \cup lost THEN 0 ELSE 1
  <2>1. n \in ListedBy(L) <=> n \notin held \cup lost
    BY <1>1 DEF OwnedBy, L
  <2>2. CASE n \in held \cup lost
    <3>1. \A p \in Nodes : n \notin ToSet(L[p])
      BY <2>1, <2>2, ListedMeans
    <3>2. parents(n) = {}
      BY <1>6, <3>1
    <3>3. QED BY <2>2, <3>2, FS_EmptySet
  <2>3. CASE n \notin held \cup lost
    <3>1. PICK p \in Nodes : n \in ToSet(L[p])
      BY <2>1, <2>3, ListedMeans
    <3>2. ASSUME NEW q \in Nodes, n \in ToSet(L[q]) PROVE q = p
      <4>0. \A x \in Nodes : L[x] \in Seq(Nodes)
        BY <1>2, ForestLists
      <4>1. \A x \in Nodes : n \in ToSet(L[x]) => \E i \in 1..Len(L[x]) : n = L[x][i]
        BY <4>0, Members
      <4>2. PICK i \in 1..Len(L[p]) : n = L[p][i]
        BY <3>1, <4>1
      <4>3. PICK j \in 1..Len(L[q]) : n = L[q][j]
        BY <3>2, <4>1
      <4>4. Disjoint(L)
        BY <1>2 DEF Forest
      <4>5. QED BY <4>2, <4>3, <4>4, OnePlace
    <3>3. parents(n) = {p}
      BY <1>6, <3>1, <3>2
    <3>4. QED BY <2>3, <3>3, FS_Singleton
  <2>4. QED BY <2>2, <2>3
<1>8. \A n \in lost : heap.mem[n].ref /\ heap.mem[n].string = NULL
  BY <1>1 DEF OwnedBy, Nameless
<1>9. QED BY <1>7, <1>8 DEF NothingLost

\* A reference shows a suffix of its original's list.
LEMMA InvShowsOriginals ==
  ASSUME IInv
  PROVE  ReferencesShowOriginals
<1> SUFFICES ASSUME NEW r \in Live(heap), heap.mem[r].ref, heap.mem[r].of # NULL
             PROVE  /\ heap.mem[r].of \in Live(heap)
                    /\ IsSuffix(Children(heap, r), Children(heap, heap.mem[r].of))
  BY DEF ReferencesShowOriginals
<1> DEFINE p == heap.mem[r].of
<1>1. Sound(heap)
  BY DEF IInv
<1>2. Shows(heap.mem, r, Live(heap), Kids(heap)) /\ Linked(heap.mem, Live(heap), Kids(heap))
      /\ heap \in Heaps /\ Live(heap) \subseteq Nodes
  BY <1>1, SoundMeans
<1>3. p \in Live(heap) /\ ~ heap.mem[p].ref /\ heap.mem[r].child \in ToSet(Kids(heap)[p]) \cup {NULL}
  BY <1>2 DEF Shows
<1>4. IsSuffix(Chain(heap, heap.mem[r].child), Kids(heap)[p])
  BY <1>2, <1>3, ShowsSuffix
<1>5. Kids(heap)[p] = Children(heap, p)
  BY <1>3, ChildrenAreKids
<1>6. QED BY <1>3, <1>4, <1>5 DEF Children

\* How many strings there are is a number, for what is counted is finite.
LEMMA BlocksIsNat ==
  ASSUME NEW h, NEW S \in SUBSET Nodes
  PROVE  Blocks(h, S) \in Nat
<1>1. IsFiniteSet(S)
  BY JsonTreeAssumption, FS_Subset
<1>2. IsFiniteSet({n \in S : OwnsString(h.mem[n])}) /\ IsFiniteSet({n \in S : OwnsValue(h.mem[n])})
  BY <1>1, FS_Subset
<1>3. QED BY <1>2, FS_CardinalityType DEF Blocks

\* The items have their types.
LEMMA InvTypesTrees ==
  ASSUME IInv
  PROVE  TreeTypeOK
<1>1. Sound(heap) /\ OwnedBy(heap, held, lost) /\ heap.left = 0
  BY DEF IInv
<1>2. heap \in Heaps /\ Blank(heap) /\ Live(heap) \subseteq Nodes /\ \A n \in Live(heap) : Typed(heap.mem[n])
  BY <1>1, SoundMeans
<1>3. heap.mem \in [Nodes -> cJSON]
  BY <1>2 DEF Heaps
<1>4. heap.strings \in Nat
  BY <1>1, <1>2, BlocksIsNat DEF Sound
<1>5. ASSUME NEW n \in Nodes
      PROVE  /\ heap.mem[n].type \in Kinds \cup {"Array", "free"}
             /\ {heap.mem[n].next, heap.mem[n].prev, heap.mem[n].child} \subseteq Nodes \cup {NULL}
             /\ heap.mem[n].string \in Keys \cup {NULL}
             /\ heap.mem[n].type \in Parents => heap.mem[n].value = NULL
  <2>1. heap.mem[n] \in cJSON
    BY <1>3
  <2>2. heap.mem[n].type \in Parents => n \in Live(heap)
    BY DEF Live, Parents
  <2>3. heap.mem[n].type \in Parents => heap.mem[n].value = NULL
    BY <1>2, <2>2 DEF Typed
  <2>4. QED BY <2>1, <2>3 DEF cJSON
<1>6. held \subseteq Live(heap) /\ lost \subseteq Live(heap) \ held
  BY <1>1 DEF OwnedBy
<1>7. QED BY <1>1, <1>3, <1>4, <1>5, <1>6 DEF TreeTypeOK

\* The invariant is what ItemsAccounted says of the items.
LEMMA InvAccounts ==
  ASSUME IInv
  PROVE  ItemsAccounted
<1>1. NothingDangles
  BY PointersLive DEF IInv, NothingDangles
<1>2. QED BY <1>1, InvTypesTrees, InvLosesNothing, InvShowsOriginals DEF ItemsAccounted

\* After any sequence of calls each list is linked both ways, its first item's
\* prev is its last item, and an item the caller holds has no neighbours.
THEOREM ListsAreLinked == Spec => []ListsLinked
BY InvLinksLists, InvariantHolds, PTL

\* After any sequence of calls no item points at a deleted one, every item in
\* use is in one list or somebody's, and references show what they were made
\* for.
THEOREM ItemsAreAccounted == Spec => []ItemsAccounted
BY InvAccounts, InvariantHolds, PTL

\* After any sequence of calls, whichever allocations fail, every item and every
\* string is somebody's.
THEOREM AllIsAccounted == Spec => []AllAccounted
<1>1. ItemsAccounted /\ StringsAccounted => AllAccounted
  BY DEF AllAccounted
<1>2. QED BY <1>1, ItemsAreAccounted, StringsAreAccounted, PTL
-----------------------------------------------------------------------------
(* A call does to the lists what JsonLists says.                           *)

\* What JsonLists makes of the lists of the heap.
LEMMA ListsMean ==
  ASSUME Sound(heap)
  PROVE  /\ Lists!Listed = ListedBy(Kids(heap))
         /\ \A n \in Nodes : Lists!Family(n) = FamilyOf(Kids(heap), n)
<1>1. Kids(heap) \in [Nodes -> Seq(Nodes)]
  BY SoundMeans
<1>2. Lists!Listed = ListedBy(Kids(heap))
  BY DEF Lists!Listed, ListedBy, Kids, Lists!ToSet, ToSet
<1>3. ASSUME NEW n \in Nodes PROVE Lists!Family(n) = FamilyOf(Kids(heap), n)
  <2>1. Lists!Family(n) = FamilyBy(Kids(heap), n)
    BY Zenon DEF Lists!Family, FamilyBy, Kids, Lists!ToSet, ToSet, Lists!Cardinality, Cardinality
  <2>2. QED BY <1>1, <2>1, FamilyByIteration
<1>4. QED BY <1>2, <1>3

\* The same for a family after a step.
LEMMA ListsMeanNext ==
  ASSUME Sound(heap'), NEW n \in Nodes
  PROVE  Lists!Family(n)' = FamilyOf(Kids(heap'), n)
<1>1. Kids(heap') \in [Nodes -> Seq(Nodes)]
  BY SoundMeans
<1>2. Lists!Family(n)' = FamilyBy(Kids(heap'), n)
  BY Zenon DEF Lists!Family, FamilyBy, Kids, Lists!ToSet, ToSet, Lists!Cardinality, Cardinality
<1>3. QED BY <1>1, <1>2, FamilyByIteration

\* The operators on sequences, of whatever module.
LEMMA SameOperators ==
  /\ \A s : Lists!ToSet(s) = ToSet(s)
  /\ \A s, k : Lists!RemoveAt(s, k) = RemoveAt(s, k)
  /\ \A s, k, n : Lists!InsertAt(s, k, n) = InsertAt(s, k, n)
  /\ \A s, k, n : Lists!ReplaceAt(s, k, n) = ReplaceAt(s, k, n)
  /\ \A S : Lists!Cardinality(S) = Cardinality(S)
  /\ \A f : Lists!IsInjective(f) <=> IsInjective(f)
<1>1. \A s : Lists!ToSet(s) = ToSet(s)
  BY DEF Lists!ToSet, ToSet
<1>2. \A s, k : Lists!RemoveAt(s, k) = RemoveAt(s, k)
  BY DEF Lists!RemoveAt, RemoveAt
<1>3. \A s, k, n : Lists!InsertAt(s, k, n) = InsertAt(s, k, n)
  BY DEF Lists!InsertAt, InsertAt
<1>4. \A s, k, n : Lists!ReplaceAt(s, k, n) = ReplaceAt(s, k, n)
  BY DEF Lists!ReplaceAt, ReplaceAt
<1>5. \A S : Lists!Cardinality(S) = Cardinality(S)
  BY Zenon DEF Lists!Cardinality, Cardinality
<1>6. \A f : Lists!IsInjective(f) <=> IsInjective(f)
  BY DEF Lists!IsInjective, IsInjective
<1>7. QED BY <1>1, <1>2, <1>3, <1>4, <1>5, <1>6

\* cJSON_Delete discards the tree of the item.
LEMMA GoneRefines ==
  ASSUME Sound(heap), NEW n, Gone(heap, heap', n)
  PROVE  Lists!Discard(n)
<1>1. n \in Live(heap) \ ListedBy(Kids(heap)) /\ n \in Nodes
  BY SoundMeans DEF Gone
<1>2. Lists!Family(n) = FamilyOf(Kids(heap), n) /\ Lists!Listed = ListedBy(Kids(heap))
  BY <1>1, ListsMean
<1>3. Live(heap') = Live(heap) \ FamilyOf(Kids(heap), n) /\ Kids(heap') = Dropped(Kids(heap), FamilyOf(Kids(heap), n))
  BY DEF Gone
<1>4. Live(heap)' = Live(heap) \ Lists!Family(n) /\ Kids(heap)' = Lists!Dropping(Kids(heap), Lists!Family(n))
  BY <1>2, <1>3 DEF Lists!Dropping, Dropped
<1>5. QED BY <1>1, <1>2, <1>4 DEF Lists!Discard, Kids

\* To take an item out is to remove its place from the sequence.
LEMMA TakenAtRefines ==
  ASSUME Sound(heap), NEW p, NEW k, TakenAt(heap, heap', p, k)
  PROVE  Lists!Change(p) /\ p \in Live(heap)
<1> DEFINE L == Kids(heap)
           n == L[p][k]
<1>1. p \in Live(heap) /\ p \in Nodes /\ k \in 1..Len(L[p]) /\ L[p] \in Seq(Nodes) /\ Len(L[p]) \in Nat
  BY SoundMeans DEF TakenAt
<1>2. Live(heap') = Live(heap) /\ Kids(heap') = Taking(L, p, k)
  BY DEF TakenAt
<1>3. L \in [Nodes -> Seq(Nodes)]
  BY SoundMeans
<1>4. n \in Nodes /\ k \in 1..(Len(L[p]) + 1) /\ k \in DOMAIN L[p]
  BY <1>1
<1>5. Kids(heap') = [L EXCEPT ![p] = Lists!RemoveAt(@, k)]
  BY <1>2, SameOperators DEF Taking
<1>6. Kids(heap')[p] # L[p]
  <2>1. Len(RemoveAt(L[p], k)) = Len(L[p]) - 1
    BY <1>1, Removed
  <2>2. Kids(heap')[p] = RemoveAt(L[p], k)
    BY <1>1, <1>2, <1>3 DEF Taking
  <2>3. QED BY <1>1, <2>1, <2>2
<1> HIDE DEF n
<1>7. Lists!Detach(p, k)
  BY <1>2, <1>4, <1>5 DEF Lists!Detach, Kids
<1>8. QED BY <1>1, <1>4, <1>6, <1>7 DEF Lists!Change, Kids

\* To put an item in a list is to insert it into the sequence.
LEMMA PutRefines ==
  ASSUME Sound(heap), NEW p, NEW n, Put(heap, heap', p, n)
  PROVE  Lists!Change(p) /\ p \in Live(heap)
<1> DEFINE L == Kids(heap)
<1>1. PICK k \in 1..(Len(L[p]) + 1) : Kids(heap') = Putting(L, p, k, n)
  BY DEF Put
<1>2. /\ p \in Live(heap) /\ p \in Nodes /\ n \in Nodes \ ListedBy(L) /\ p \notin FamilyOf(L, n)
      /\ Live(heap') = Live(heap) \cup {n}
  BY SoundMeans DEF Put
<1>3. L \in [Nodes -> Seq(Nodes)]
  BY SoundMeans
<1>4. L[p] \in Seq(Nodes) /\ Len(L[p]) \in Nat
  BY <1>2, <1>3
<1>5. Kids(heap') = [L EXCEPT ![p] = Lists!InsertAt(@, k, n)]
  BY <1>1, SameOperators DEF Putting
<1>6. Kids(heap')[p] # L[p]
  <2>1. IsInserted(InsertAt(L[p], k, n), Nodes, L[p], k, n)
    BY <1>1, <1>2, <1>4, Inserted
  <2>2. Kids(heap')[p] = InsertAt(L[p], k, n)
    BY <1>1, <1>2, <1>3 DEF Putting
  <2>3. QED BY <1>4, <2>1, <2>2 DEF IsInserted
<1>7. Lists!Alone(p, n)
  BY <1>2, ListsMean DEF Lists!Alone
<1>8. Lists!Insert(p, k, n)
  BY <1>1, <1>2, <1>5, <1>7 DEF Lists!Insert, Kids
<1>9. QED BY <1>1, <1>2, <1>6, <1>8 DEF Lists!Change, Kids

\* To delete an item from a list is to remove its place and discard its tree.
LEMMA TakenGoneRefines ==
  ASSUME Sound(heap), NEW p, NEW k, TakenGone(heap, heap', p, k)
  PROVE  Lists!Change(p) /\ p \in Live(heap)
<1> DEFINE L == Kids(heap)
           n == L[p][k]
           F == FamilyOf(L, n)
<1>1. /\ p \in Live(heap) /\ p \in Nodes /\ k \in 1..Len(L[p]) /\ L \in [Nodes -> Seq(Nodes)]
      /\ Forest(Live(heap), L)
  BY SoundMeans DEF TakenGone
<1>2. Live(heap') = Live(heap) \ F /\ Kids(heap') = Dropped(Taking(L, p, k), F)
  BY DEF TakenGone
<1>3. L[p] \in Seq(Nodes) /\ Len(L[p]) \in Nat
  BY <1>1
<1>4. n \in Nodes /\ k \in 1..(Len(L[p]) + 1) /\ k \in DOMAIN L[p] /\ n \in ToSet(L[p])
  BY <1>1, <1>3, Members
<1>5. p \notin F
  BY <1>1, <1>4, NotBelowItself
<1>6. Lists!Family(n) = F
  BY <1>4, ListsMean
<1> HIDE DEF F
<1>7. Kids(heap') = Lists!Dropping([L EXCEPT ![p] = Lists!RemoveAt(@, k)], F)
  BY <1>2, SameOperators DEF Taking, Dropped, Lists!Dropping
<1>8. Kids(heap')[p] # L[p]
  <2>1. Len(RemoveAt(L[p], k)) = Len(L[p]) - 1
    BY <1>1, <1>3, Removed
  <2>2. Kids(heap')[p] = RemoveAt(L[p], k)
    BY <1>1, <1>2, <1>5 DEF Taking, Dropped
  <2>3. QED BY <1>3, <2>1, <2>2
<1>9. Lists!DetachAndDiscard(p, k)
  BY <1>2, <1>4, <1>6, <1>7 DEF Lists!DetachAndDiscard, Kids
<1>10. QED BY <1>1, <1>4, <1>8, <1>9 DEF Lists!Change, Kids

\* To replace an item is to put the new one in its place and to discard its
\* tree.
LEMMA SwappedRefines ==
  ASSUME Sound(heap), NEW p, NEW k, NEW n, Swapped(heap, heap', p, k, n)
  PROVE  Lists!Change(p) /\ p \in Live(heap)
<1> DEFINE L == Kids(heap)
           x == L[p][k]
           F == FamilyOf(L, x)
<1>1. /\ p \in Live(heap) /\ p \in Nodes /\ k \in 1..Len(L[p]) /\ L \in [Nodes -> Seq(Nodes)]
      /\ Forest(Live(heap), L)
      /\ n \in Nodes /\ n \notin ListedBy(L) /\ p \notin FamilyOf(L, n)
  BY SoundMeans DEF Swapped
<1>2. Live(heap') = Live(heap) \ F /\ Kids(heap') = Dropped(Exchanging(L, p, k, n), F)
  BY DEF Swapped
<1>3. L[p] \in Seq(Nodes) /\ Len(L[p]) \in Nat
  BY <1>1
<1>4. x \in Nodes /\ k \in 1..(Len(L[p]) + 1) /\ k \in DOMAIN L[p] /\ x \in ToSet(L[p])
  BY <1>1, <1>3, Members
<1>5. p \notin F
  BY <1>1, <1>4, NotBelowItself
<1>6. Lists!Family(x) = F
  BY <1>4, ListsMean
<1> HIDE DEF F
<1>7. Kids(heap') = Lists!Dropping([L EXCEPT ![p] = Lists!ReplaceAt(@, k, n)], F)
  BY <1>2, SameOperators DEF Exchanging, Dropped, Lists!Dropping
<1>8. Kids(heap')[p] # L[p]
  <2>1. ReplaceAt(L[p], k, n)[k] = n
    BY <1>1, <1>3, Exchanged
  <2>2. Kids(heap')[p] = ReplaceAt(L[p], k, n)
    BY <1>1, <1>2, <1>5 DEF Exchanging, Dropped
  <2>3. x # n
    BY <1>1, <1>4, ListedMeans
  <2>4. QED BY <2>1, <2>2, <2>3
<1>9. Lists!Alone(p, n)
  BY <1>1, ListsMean DEF Lists!Alone
<1>10. Lists!Replace(p, k, n)
  BY <1>2, <1>4, <1>6, <1>7, <1>9 DEF Lists!Replace, Kids
<1>11. QED BY <1>1, <1>4, <1>8, <1>10 DEF Lists!Change, Kids

\* What a call makes is one tree of items that were not in use.
LEMMA BuiltRefines ==
  ASSUME Sound(heap), NEW root, Built(heap, heap', root)
  PROVE  \E new \in SUBSET (Nodes \ Live(heap)) : Lists!Build(new)
<1> DEFINE L == Kids(heap)
<1>1. PICK F, T : Grew(heap, heap', F, T, root)
  BY DEF Built
<1>2. /\ F \in SUBSET Nodes /\ T \in [Nodes -> Seq(Nodes)]
      /\ Forest(F, T) /\ root \in F /\ root \notin ListedBy(T) /\ FamilyOf(T, root) = F
      /\ F \cap Live(heap) = {} /\ Live(heap') = Live(heap) \cup F /\ Kids(heap') = Joined(L, T, F)
  BY <1>1 DEF Grew
<1>3. \A n \in F : Kids(heap')[n] = T[n]
  BY <1>2 DEF Joined
<1>4. \A n \in Nodes \ F : Kids(heap')[n] = L[n]
  BY <1>2 DEF Joined
<1>5. Sound(heap') /\ Kids(heap') \in [Nodes -> Seq(Nodes)]
  BY SoundMeans DEF Built
<1>6. FamilyOf(Kids(heap'), root) = F
  BY <1>2, <1>3, <1>5, SameFamily
<1>7. Lists!Family(root)' = F
  BY <1>2, <1>5, <1>6, ListsMeanNext
<1>8. ASSUME NEW n \in F
      PROVE  Cardinality({p \in F : n \in ToSet(Kids(heap')[p])}) = IF n = root THEN 0 ELSE 1
  <2> DEFINE P == {p \in F : n \in ToSet(Kids(heap')[p])}
  <2>1. P = {p \in F : n \in ToSet(T[p])}
    BY <1>3
  <2>2. CASE n = root
    <3>1. P = {}
      BY <1>2, <2>1, <2>2, ListedMeans
    <3>2. QED BY <2>2, <3>1, FS_EmptySet
  <2>3. CASE n # root
    <3>1. PICK p \in F : n \in ToSet(T[p])
      BY <1>2, <2>3, ParentsInFamily
    <3>2. ASSUME NEW q \in F, n \in ToSet(T[q]) PROVE q = p
      <4>1. T[p] \in Seq(Nodes) /\ T[q] \in Seq(Nodes) /\ p \in Nodes /\ q \in Nodes /\ Disjoint(T)
        BY <1>2 DEF Forest
      <4>2. PICK i \in 1..Len(T[p]) : n = T[p][i]
        BY <3>1, <4>1, Members
      <4>3. PICK j \in 1..Len(T[q]) : n = T[q][j]
        BY <3>2, <4>1, Members
      <4>4. QED BY <4>1, <4>2, <4>3, OnePlace
    <3>3. P = {p}
      BY <2>1, <3>1, <3>2
    <3>4. QED BY <2>3, <3>3, FS_Singleton
  <2>4. QED BY <2>2, <2>3
<1>9. ASSUME NEW n \in F PROVE IsInjective(Kids(heap')[n]) /\ ToSet(Kids(heap')[n]) \subseteq F
  <2>1. Once(T[n]) /\ T[n] \in Seq(Nodes) /\ ToSet(T[n]) \subseteq F
    BY <1>2, ForestLists
  <2>2. IsInjective(T[n])
    BY <2>1 DEF Once, IsInjective
  <2>3. QED BY <1>3, <2>1, <2>2
<1>10. Lists!Build(F)
  BY <1>2, <1>4, <1>7, <1>8, <1>9, SameOperators, ZenonT(40) DEF Lists!Build, Kids
<1>11. QED BY <1>2, <1>10

\* A step of JsonTree is a step of JsonLists, or leaves the lists as they are.
LEMMA StepRefines ==
  ASSUME IInv, [Next]_vars
  PROVE  Lists!Next \/ (Kids(heap') = Kids(heap) /\ Live(heap') = Live(heap))
<1> DEFINE same == Kids(heap') = Kids(heap) /\ Live(heap') = Live(heap)
<1>1. Sound(heap)
  BY DEF IInv
<1>2. CASE UNCHANGED vars
  BY <1>2 DEF vars
<1>3. CASE Next /\ ~ same
  <2>1. Event
    BY <1>3, StepIsEvent
  <2>2. Happened(heap, held, lost, heap', held', lost')
    BY <2>1 DEF Event
  <2>3. <<Kids(heap), Live(heap)>>' # <<Kids(heap), Live(heap)>>
    BY <1>3
  <2>4. CASE \E n : Idle(heap, heap', n)
    BY <1>3, <2>4 DEF Idle
  <2>5. CASE \E n : Built(heap, heap', n)
    BY <1>1, <2>3, <2>5, BuiltRefines DEF Lists!Next, Kids
  <2>6. CASE \E p, n : Put(heap, heap', p, n)
    BY <1>1, <2>3, <2>6, PutRefines DEF Lists!Next, Kids
  <2>7. CASE \E p, k : TakenAt(heap, heap', p, k)
    BY <1>1, <2>3, <2>7, TakenAtRefines DEF Lists!Next, Kids
  <2>8. CASE \E n : Gone(heap, heap', n)
    <3>1. PICK n : Gone(heap, heap', n)
      BY <2>8
    <3>2. n \in Live(heap)
      BY <3>1 DEF Gone
    <3>3. QED BY <1>1, <2>3, <3>1, <3>2, GoneRefines DEF Lists!Next, Kids
  <2>9. CASE \E p, k : TakenGone(heap, heap', p, k)
    BY <1>1, <2>3, <2>9, TakenGoneRefines DEF Lists!Next, Kids
  <2>10. CASE \E p, k, n : Swapped(heap, heap', p, k, n)
    BY <1>1, <2>3, <2>10, SwappedRefines DEF Lists!Next, Kids
  <2>11. QED BY <2>2, <2>4, <2>5, <2>6, <2>7, <2>8, <2>9, <2>10 DEF Happened
<1>4. QED BY <1>2, <1>3

\* No items stand for no lists.
LEMMA InitRefines ==
  ASSUME Init
  PROVE  Lists!Init
<1>1. IInv /\ Live(heap) = {}
  BY InitIsSound DEF Init, Live, Free
<1>2. Sound(heap)
  BY <1>1 DEF IInv
<1>3. Kids(heap) \in [Nodes -> Seq(Nodes)] /\ \A n \in Nodes : Kids(heap)[n] = << >>
  BY <1>1, <1>2, SoundMeans
<1>4. Kids(heap) = [n \in Nodes |-> << >>]
  BY <1>3
<1>5. QED BY <1>1, <1>4 DEF Lists!Init, Kids

\* Each call changes one sequence of children in one place, or makes or drops
\* one tree, as JsonLists says: the pointers of JsonTree implement it.
THEOREM TreesFollowLists == Spec => ListsSpec
<1>1. Init => Lists!Init
  BY InitRefines
<1>2. IInv /\ [Next]_vars => [Lists!Next]_<<Kids(heap), Live(heap)>>
  BY StepRefines
<1>3. ListsSpec <=> Lists!Init /\ [][Lists!Next]_<<Kids(heap), Live(heap)>>
  BY DEF ListsSpec, Lists!Spec, Kids
<1>4. QED BY <1>1, <1>2, <1>3, InvariantHolds, PTL DEF Spec
=============================================================================
