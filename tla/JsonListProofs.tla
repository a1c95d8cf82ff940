--------------------------- MODULE JsonListProofs ---------------------------
(***************************************************************************)
(* What the pointers of a heap of JsonTree stand for: lemmas about the     *)
(* lists of a heap, what an item owns, and how a pointer that changes      *)
(* changes them.  And the calls that make items: what is made is a tree of *)
(* items that were not in use, linked as its lists are, or nothing is left *)
(* of it; for any number of items, children and levels.                    *)
(***************************************************************************)
EXTENDS JsonTree, FiniteSetTheorems, SequenceTheorems, TLAPS

-----------------------------------------------------------------------------
(* Recursion over a natural number.                                        *)

\* Every set of naturals that is not empty has a least member.
LEMMA LeastNatural ==
  ASSUME NEW T \in SUBSET Nat, T # {}
  PROVE  \E n \in T : \A m \in T : n <= m
<1> DEFINE less == {ss \in Nat \X Nat : ss[1] < ss[2]}
<1>1. less = OpToRel(<, Nat)
  BY Zenon DEF OpToRel
<1>2. \E x \in T : \A y \in T : <<y, x>> \notin OpToRel(<, Nat)
  BY NatLessThanWellFounded, WFMin, Zenon
<1>3. \E x \in T : \A y \in T : <<y, x>> \notin less
  BY <1>1, <1>2, Zenon
<1>4. \A x, y \in Nat : y < x => <<y, x>> \in less
  OBVIOUS
<1>5. \A x, y \in Nat : <<y, x>> \notin less => x <= y
  BY <1>4
<1> HIDE DEF less
<1>6. QED BY <1>3, <1>5

\* The values that n steps from a pass through; there is such a sequence.
Steps(n, S) == [1..n -> [S -> S]]
RunsOf(n, S, a, step) == {f \in [0..n -> S] : f[0] = a /\ \A i \in 1..n : f[i] = step[i][f[i - 1]]}

\* From a, steps by given functions lead through one value after the other,
\* however many there are.
LEMMA Recursion ==
  ASSUME NEW n \in Nat, NEW S, NEW a \in S, NEW step \in Steps(n, S)
  PROVE  \E f : f \in RunsOf(n, S, a, step)
<1> DEFINE UpTo(k, f) == f \in [0..k -> S] /\ f[0] = a /\ \A i \in 1..k : f[i] = step[i][f[i - 1]]
           Bad == {k \in 0..n : ~ \E f : UpTo(k, f)}
<1>1. ASSUME Bad # {} PROVE FALSE
  <2>1. Bad \in SUBSET Nat
    OBVIOUS
  <2>2. PICK k \in Bad : \A m \in Bad : k <= m
    <3> HIDE DEF Bad
    <3> QED BY <1>1, <2>1, LeastNatural
  <2>3. CASE k = 0
    <3>1. UpTo(0, [i \in 0..0 |-> a])
      OBVIOUS
    <3>2. QED BY <3>1, <2>2, <2>3
  <2>4. CASE k # 0
    <3>1. k - 1 \in 0..n /\ k - 1 \notin Bad
      BY <2>2, <2>4, SMTT(30)
    <3>2. PICK f : UpTo(k - 1, f)
      BY <3>1
    <3> DEFINE g == [i \in 0..k |-> IF i < k THEN f[i] ELSE step[k][f[k - 1]]]
    <3>3. g \in [0..k -> S]
      BY <3>2, <2>4, <3>1, k \in 1..n DEF Steps
    <3>4. g[0] = a /\ \A i \in 1..k : g[i] = step[i][g[i - 1]]
      BY <3>2, <2>4, <3>1
    <3>5. UpTo(k, g)
      BY <3>3, <3>4
    <3>6. QED BY <3>5, <2>2
  <2>5. QED BY <2>3, <2>4
<1>2. PICK f : UpTo(n, f)
  <2>1. n \notin Bad
    BY <1>1
  <2>2. QED BY <2>1
<1>3. QED BY <1>2 DEF RunsOf

-----------------------------------------------------------------------------
(* The least set that holds a set X and, with an item, what R gives for it.*)

Closed(R, C) == \A x \in C : R[x] \subseteq C
Rounds(R, X, f) ==
  /\ f[0] = X
  /\ \A k \in 1..Cardinality(Nodes) :
       f[k - 1] \in SUBSET Nodes => f[k] = UNION {R[n] : n \in f[k - 1]}
IsLeastClosed(R, X, all) ==
  /\ X \subseteq all /\ all \subseteq Nodes /\ Closed(R, all)
  /\ \A C \in SUBSET Nodes : X \subseteq C /\ Closed(R, C) => all \subseteq C

\* The number of addresses is a natural number.
LEMMA SomeNodes == Cardinality(Nodes) \in Nat
BY JsonTreeAssumption, FS_CardinalityType

\* Who is in what R gives for the members of a set.
LEMMA UnionOfImages ==
  ASSUME NEW R, NEW Y
  PROVE  \A y : y \in UNION {R[n] : n \in Y} <=> \E n \in Y : y \in R[n]
OBVIOUS

\* A round adds an item, as long as the set is not closed.
LEMMA ClosureGrows ==
  ASSUME NEW R \in [Nodes -> SUBSET Nodes], \A x \in Nodes : x \in R[x],
         NEW f, \A k \in 0..Cardinality(Nodes) : f[k] \in SUBSET Nodes,
         \A k \in 1..Cardinality(Nodes) : f[k] = UNION {R[n] : n \in f[k - 1]}
  PROVE  \A k \in 0..Cardinality(Nodes) :
           \/ Cardinality(f[k]) >= k
           \/ Closed(R, f[k])
<1> DEFINE N == Cardinality(Nodes)
           Bad == {k \in 0..N : ~ (Cardinality(f[k]) >= k \/ Closed(R, f[k]))}
<1>0. N \in Nat
  BY SomeNodes
<1>1. ASSUME Bad # {} PROVE FALSE
  <2>1. Bad \in SUBSET Nat
    BY <1>0
  <2>2. PICK k \in Bad : \A m \in Bad : k <= m
    <3> HIDE DEF Bad
    <3> QED BY <1>1, <2>1, LeastNatural
  <2>3. \A j \in 0..N : IsFiniteSet(f[j]) /\ Cardinality(f[j]) \in Nat
    BY JsonTreeAssumption, FS_Subset, FS_CardinalityType
  <2>4. k \in 0..N /\ k # 0 /\ k - 1 \in 0..N /\ k - 1 \notin Bad
    <3>1. k \in 0..N /\ ~ (Cardinality(f[k]) >= k)
      BY <2>2
    <3>2. k # 0 /\ k - 1 \in 0..N /\ k \in Nat
      <4>1. Cardinality(f[k]) \in Nat
        BY <2>3, <3>1, Zenon
      <4>2. k # 0
        BY <3>1, <4>1
      <4>3. QED BY <1>0, <3>1, <4>2
    <3>3. k - 1 \notin Bad
      <4> HIDE DEF Bad
      <4> QED BY <2>2, <3>2
    <3>4. QED BY <3>1, <3>2, <3>3
  <2>5. f[k] = UNION {R[n] : n \in f[k - 1]}
    BY <2>4
  <2>6. f[k - 1] \subseteq f[k]
    <3>1. \A x \in f[k - 1] : x \in R[x]
      BY <2>4
    <3>2. QED BY <2>5, <3>1
  <2>7. CASE Closed(R, f[k - 1])
    <3>1. f[k] \subseteq f[k - 1]
      <4>1. \A n \in f[k - 1] : R[n] \subseteq f[k - 1]
        BY <2>7, Zenon DEF Closed
      <4>2. \A y \in f[k] : \E n \in f[k - 1] : y \in R[n]
        <5>1. \A y : y \in UNION {R[n] : n \in f[k - 1]} <=> \E n \in f[k - 1] : y \in R[n]
          BY UnionOfImages
        <5>2. QED BY <2>5, <5>1
      <4>3. QED BY <4>1, <4>2, Zenon
    <3>2. Closed(R, f[k])
      BY <2>6, <2>7, <3>1 DEF Closed
    <3>3. QED BY <3>2, <2>2
  <2>8. CASE ~ Closed(R, f[k - 1]) /\ Cardinality(f[k - 1]) >= k - 1
    <3>1. PICK x \in f[k - 1] : ~ (R[x] \subseteq f[k - 1])
      BY <2>8 DEF Closed
    <3>2. R[x] \subseteq f[k]
      BY <2>5, <3>1
    <3>3. f[k - 1] # f[k]
      BY <3>1, <3>2
    <3>4. Cardinality(f[k - 1]) <= Cardinality(f[k]) /\ Cardinality(f[k]) # Cardinality(f[k - 1])
      BY <2>3, <2>4, <2>6, <3>3, FS_Subset
    <3> DEFINE a == Cardinality(f[k - 1])
               b == Cardinality(f[k])
    <3>5. a \in Nat /\ b \in Nat /\ k \in Nat /\ a <= b /\ a # b /\ a >= k - 1
      <4>1. a \in Nat /\ b \in Nat
        BY <2>3, <2>4
      <4>2. a <= b /\ a # b /\ a >= k - 1
        BY <2>8, <3>4
      <4>3. k \in Nat
        BY <1>0, <2>4
      <4>4. QED BY <4>1, <4>2, <4>3
    <3>6. b >= k
      <4> HIDE DEF a, b
      <4> QED BY <3>5
    <3>7. QED BY <3>6, <2>2
  <2>9. QED BY <2>4, <2>7, <2>8
<1>2. QED BY <1>1 DEF Closed

\* As many rounds as there are addresses reach the least closed set.
LEMMA Closure ==
  ASSUME NEW R \in [Nodes -> SUBSET Nodes], \A x \in Nodes : x \in R[x],
         NEW X \in SUBSET Nodes, NEW f, Rounds(R, X, f)
  PROVE  IsLeastClosed(R, X, f[Cardinality(Nodes)])
<1> DEFINE N == Cardinality(Nodes)
           Fine(k, C) == f[k] \subseteq Nodes /\ X \subseteq f[k] /\ f[k] \subseteq C
<1>0. N \in Nat
  BY SomeNodes
<1>1. ASSUME NEW C \in SUBSET Nodes, X \subseteq C, \A x \in C : R[x] \subseteq C
      PROVE  \A k \in 0..N : Fine(k, C)
  <2> DEFINE Bad == {k \in 0..N : ~ Fine(k, C)}
  <2>1. ASSUME Bad # {} PROVE FALSE
    <3>1. Bad \in SUBSET Nat
      BY <1>0
    <3>2. PICK k \in Bad : \A m \in Bad : k <= m
      <4> HIDE DEF Bad
      <4> QED BY <2>1, <3>1, LeastNatural
    <3>3. f[0] = X
      BY <1>0 DEF Rounds
    <3>4. k \in 0..N /\ k # 0 /\ k - 1 \in 0..N /\ Fine(k - 1, C)
      BY <1>0, <1>1, <3>2, <3>3
    <3>5. f[k] = UNION {R[n] : n \in f[k - 1]}
      BY <3>4 DEF Rounds
    <3>6. \A x \in f[k - 1] : x \in R[x] /\ R[x] \subseteq C
      BY <3>4, <1>1
    <3>7. Fine(k, C)
      BY <3>4, <3>5, <3>6
    <3>8. QED BY <3>7, <3>2
  <2>2. QED BY <2>1
<1>2. \A k \in 0..N : Fine(k, Nodes)
  BY <1>1
<1>3. /\ \A k \in 0..N : f[k] \in SUBSET Nodes
      /\ \A k \in 1..N : f[k] = UNION {R[n] : n \in f[k - 1]}
  BY <1>2, <1>0 DEF Rounds
<1>4. \A x \in f[N] : R[x] \subseteq f[N]
  <2>1. CASE Cardinality(f[N]) >= N
    <3>1. f[N] \in SUBSET Nodes /\ Cardinality(f[N]) <= N /\ Cardinality(f[N]) \in Nat
      BY <1>0, <1>2, JsonTreeAssumption, FS_Subset, FS_CardinalityType
    <3>2. f[N] = Nodes
      BY <3>1, <2>1, <1>0, JsonTreeAssumption, FS_Subset
    <3>3. QED BY <3>2
  <2>2. N \in 0..N
    BY <1>0
  <2>3. QED BY <2>1, <2>2, <1>3, ClosureGrows DEF Closed
<1>5. N \in 0..N
  BY <1>0
<1>6. QED BY <1>1, <1>2, <1>4, <1>5 DEF IsLeastClosed, Closed

-----------------------------------------------------------------------------
(* Forests.  L gives every item the sequence of its children.              *)

\* n and everything below it: the least set that has n and all children of its members.
FamilyOf(L, n) ==
  {x \in Nodes : \A C \in SUBSET Nodes : n \in C /\ (\A y \in C : ToSet(L[y]) \subseteq C) => x \in C}

ListedBy(L) == UNION {ToSet(L[p]) : p \in Nodes}

\* A family is the least set that has n and the children of its members.
LEMMA FamilyIsLeast ==
  ASSUME NEW L \in [Nodes -> Seq(Nodes)], NEW n \in Nodes
  PROVE  /\ FamilyOf(L, n) \in SUBSET Nodes
         /\ n \in FamilyOf(L, n)
         /\ \A y \in FamilyOf(L, n) : ToSet(L[y]) \subseteq FamilyOf(L, n)
         /\ \A C \in SUBSET Nodes :
              n \in C /\ (\A y \in C : ToSet(L[y]) \subseteq C) => FamilyOf(L, n) \subseteq C
<1>1. \A y \in Nodes : ToSet(L[y]) \subseteq Nodes
  BY DEF ToSet
<1>2. QED BY <1>1, Zenon DEF FamilyOf

\* The iteration by which JsonLists computes it.
FamilyBy(L, n) ==
  LET upTo[k \in 0..Cardinality(Nodes)] ==
        IF k = 0 THEN {n} ELSE UNION {{x} \cup ToSet(L[x]) : x \in upTo[k - 1]}
  IN upTo[Cardinality(Nodes)]

\* The rounds in which JsonLists computes a family give the least such set.
LEMMA FamilyByIteration ==
  ASSUME NEW L \in [Nodes -> Seq(Nodes)], NEW n \in Nodes
  PROVE  FamilyBy(L, n) = FamilyOf(L, n)
<1> DEFINE N == Cardinality(Nodes)
           R == [x \in Nodes |-> {x} \cup ToSet(L[x])]
           round == [Y \in SUBSET Nodes |-> UNION {{x} \cup ToSet(L[x]) : x \in Y}]
           step == [k \in 1..N |-> round]
           P(f) == f = [k \in 0..N |-> IF k = 0 THEN {n} ELSE UNION {{x} \cup ToSet(L[x]) : x \in f[k - 1]}]
           g == CHOOSE f : P(f)
<1>0. N \in Nat
  BY SomeNodes
<1>1. R \in [Nodes -> SUBSET Nodes] /\ (\A x \in Nodes : x \in R[x])
  BY DEF ToSet
<1>2. \A Y \in SUBSET Nodes : UNION {R[x] : x \in Y} = UNION {{x} \cup ToSet(L[x]) : x \in Y}
  OBVIOUS
<1>3. \E f : P(f)
  <2>1. round \in [SUBSET Nodes -> SUBSET Nodes]
    <3> HIDE DEF R
    <3>1. QED BY <1>1, <1>2, UnionOfImages
  <2>2. step \in Steps(N, SUBSET Nodes)
    BY <2>1 DEF Steps
  <2> DEFINE a == {n}
             S == SUBSET Nodes
  <2>3. PICK f \in [0..N -> S] : f[0] = a /\ \A k \in 1..N : f[k] = step[k][f[k - 1]]
    <3>1. a \in S /\ step \in Steps(N, S)
      BY <2>2
    <3> HIDE DEF N, step, a, S
    <3>2. \E f : f \in RunsOf(N, S, a, step)
      BY <1>0, <3>1, Recursion
    <3>3. QED BY <3>2 DEF RunsOf
  <2>4. ASSUME NEW k \in 0..N, k # 0
        PROVE  f[k] = UNION {{x} \cup ToSet(L[x]) : x \in f[k - 1]}
    <3>1. k \in 1..N /\ k - 1 \in 0..N
      BY <1>0, <2>4
    <3>2. step[k] = round /\ f[k - 1] \in SUBSET Nodes
      BY <3>1
    <3>3. QED BY <2>3, <3>1, <3>2
  <2>5. P(f)
    <3> HIDE DEF N
    <3>1. QED BY <2>3, <2>4
  <2>6. QED BY <2>5
<1>4. P(g)
  <2> HIDE DEF P
  <2>1. QED BY <1>3, Zenon
<1>5. FamilyBy(L, n) = g[N]
  BY DEF FamilyBy
<1>6. Rounds(R, {n}, g)
  <2>1. g[0] = {n} /\ \A k \in 1..N : g[k] = UNION {{x} \cup ToSet(L[x]) : x \in g[k - 1]}
    <3> HIDE DEF g, N
    <3>1. 0 \in 0..N /\ \A k \in 1..N : k \in 0..N /\ k # 0
      BY <1>0
    <3>2. QED BY <3>1, <1>4
  <2> HIDE DEF g, R
  <2>2. QED BY <2>1, <1>2 DEF Rounds
<1>7. IsLeastClosed(R, {n}, g[N])
  <2>1. {n} \in SUBSET Nodes
    OBVIOUS
  <2> HIDE DEF g, R
  <2>2. QED BY <1>1, <1>6, <2>1, Closure
<1>8. \A C \in SUBSET Nodes : Closed(R, C) <=> (\A x \in C : ToSet(L[x]) \subseteq C)
  BY DEF Closed
<1>9. g[N] = FamilyOf(L, n)
  <2> HIDE DEF g, R
  <2>1. g[N] \subseteq FamilyOf(L, n)
    <3>1. FamilyOf(L, n) \in SUBSET Nodes /\ n \in FamilyOf(L, n) /\ Closed(R, FamilyOf(L, n))
      BY <1>8, FamilyIsLeast
    <3>2. QED BY <3>1, <1>7 DEF IsLeastClosed
  <2>2. FamilyOf(L, n) \subseteq g[N]
    BY <1>7, <1>8, FamilyIsLeast DEF IsLeastClosed
  <2>3. QED BY <2>1, <2>2
<1>10. QED BY <1>5, <1>9

-----------------------------------------------------------------------------
(* What cJSON_Delete and a loop along next reach.                          *)

\* The item itself, the next one and its own first child.
NextTo(h) ==
  [n \in Nodes |-> ({n, h.mem[n].next} \cup (IF h.mem[n].ref THEN {} ELSE {h.mem[n].child})) \ {NULL}]

\* What cJSON_Delete reaches is the least set closed under child and next.
LEMMA ReachedIsLeast ==
  ASSUME NEW h \in Heaps, NEW X \in SUBSET Nodes
  PROVE  IsLeastClosed(NextTo(h), X, Reached(h, X))
<1> DEFINE N == Cardinality(Nodes)
           R == NextTo(h)
           near(n) == {n, h.mem[n].next} \cup (IF h.mem[n].ref THEN {} ELSE {h.mem[n].child})
           round == [Y \in SUBSET Nodes |-> (UNION {near(n) : n \in Y}) \ {NULL}]
           step == [k \in 1..N |-> round]
           P(f) == f = [k \in 0..N |-> IF k = 0 THEN X ELSE (UNION {near(n) : n \in f[k - 1]}) \ {NULL}]
           g == CHOOSE f : P(f)
<1>0. N \in Nat
  BY SomeNodes
<1>1. /\ R \in [Nodes -> SUBSET Nodes] /\ (\A x \in Nodes : x \in R[x])
      /\ \A n \in Nodes : R[n] = near(n) \ {NULL}
  <2>1. \A n \in Nodes : h.mem[n].next \in Nodes \cup {NULL} /\ h.mem[n].child \in Nodes \cup {NULL}
    BY DEF Heaps, cJSON
  <2>2. \A n \in Nodes : R[n] = near(n) \ {NULL} /\ n # NULL
    BY JsonTreeAssumption DEF NextTo
  <2>3. QED BY <2>1, <2>2 DEF NextTo
<1>2. ASSUME NEW Y \in SUBSET Nodes
      PROVE  (UNION {near(n) : n \in Y}) \ {NULL} = UNION {R[n] : n \in Y}
  <2>1. \A x : x \in UNION {near(n) : n \in Y} <=> \E n \in Y : x \in near(n)
    <3> HIDE DEF near
    <3>1. QED OBVIOUS
  <2>2. \A x : x \in UNION {R[n] : n \in Y} <=> \E n \in Y : x \in R[n]
    BY UnionOfImages
  <2> HIDE DEF near, R
  <2>3. QED BY <2>1, <2>2, <1>1
<1>3. \E f : P(f)
  <2>1. round \in [SUBSET Nodes -> SUBSET Nodes]
    <3> HIDE DEF R, near
    <3>1. \A Y \in SUBSET Nodes : UNION {R[n] : n \in Y} \in SUBSET Nodes
      BY <1>1, UnionOfImages
    <3>2. QED BY <3>1, <1>2
  <2>2. step \in Steps(N, SUBSET Nodes)
    BY <2>1 DEF Steps
  <2> DEFINE S == SUBSET Nodes
  <2>3. PICK f \in [0..N -> S] : f[0] = X /\ \A k \in 1..N : f[k] = step[k][f[k - 1]]
    <3>1. X \in S /\ step \in Steps(N, S)
      BY <2>2
    <3> HIDE DEF N, step, S
    <3>2. \E f : f \in RunsOf(N, S, X, step)
      BY <1>0, <3>1, Recursion
    <3>3. QED BY <3>2 DEF RunsOf
  <2>4. ASSUME NEW k \in 0..N, k # 0
        PROVE  f[k] = (UNION {near(n) : n \in f[k - 1]}) \ {NULL}
    <3>1. k \in 1..N /\ k - 1 \in 0..N
      BY <1>0, <2>4
    <3>2. step[k] = round /\ f[k - 1] \in SUBSET Nodes
      BY <3>1
    <3> HIDE DEF near
    <3>3. QED BY <2>3, <3>1, <3>2
  <2>5. P(f)
    <3> HIDE DEF N, near
    <3>1. QED BY <2>3, <2>4
  <2>6. QED BY <2>5
<1>4. P(g)
  <2> HIDE DEF P
  <2>1. QED BY <1>3, Zenon
<1>5. Reached(h, X) = g[N]
  BY DEF Reached
<1>6. Rounds(R, X, g)
  <2>1. g[0] = X /\ \A k \in 1..N : g[k] = (UNION {near(n) : n \in g[k - 1]}) \ {NULL}
    <3> HIDE DEF g, N, near
    <3>1. 0 \in 0..N /\ \A k \in 1..N : k \in 0..N /\ k # 0
      BY <1>0
    <3>2. QED BY <3>1, <1>4
  <2> HIDE DEF g, R, near
  <2>2. QED BY <2>1, <1>2 DEF Rounds
<1>7. IsLeastClosed(R, X, g[N])
  <2> HIDE DEF g, R
  <2>1. QED BY <1>1, <1>6, Closure
<1>8. QED BY <1>5, <1>7

Once(s) == \A i, j \in 1..Len(s) : s[i] = s[j] => i = j
\* The neighbours of the item at i in a list.
After(s, i) == IF i = Len(s) THEN NULL ELSE s[i + 1]
First(s) == IF s = << >> THEN NULL ELSE s[1]

\* A list without repetitions is not longer than there are addresses: a loop
\* bounded by their number goes to its end.
LEMMA ShortEnough ==
  ASSUME NEW s \in Seq(Nodes), Once(s)
  PROVE  Len(s) <= Cardinality(Nodes) /\ Len(s) \in Nat
<1>1. s \in Injection(1..Len(s), Nodes)
  BY DEF Injection, IsInjective, Once
<1>2. Cardinality(1..Len(s)) <= Cardinality(Nodes)
  BY <1>1, JsonTreeAssumption, FS_Injection
<1>3. Cardinality(1..Len(s)) = Len(s)
  <2>1. Len(s) \in Nat
    OBVIOUS
  <2>2. Cardinality(1..Len(s)) = IF 1 > Len(s) THEN 0 ELSE Len(s) - 1 + 1
    BY <2>1, FS_Interval, SMTT(30)
  <2>3. QED BY <2>1, <2>2
<1>4. QED BY <1>2, <1>3

\* The first k items of a chain, if it has so many.
LEMMA ChainByIteration ==
  ASSUME NEW h \in Heaps
  PROVE  \E from : /\ \A n \in Nodes \cup {NULL} : Chain(h, n) = from[Cardinality(Nodes)][n]
                   /\ \A k \in 0..Cardinality(Nodes), x \in Nodes \cup {NULL} :
                        from[k][x] = IF x = NULL \/ k = 0 THEN << >>
                                     ELSE <<x>> \o from[k - 1][h.mem[x].next]
<1> DEFINE N == Cardinality(Nodes)
           Addr == Nodes \cup {NULL}
           S == [Addr -> Seq(Nodes)]
           a == [x \in Addr |-> << >>]
           more == [f \in S |-> [x \in Addr |-> IF x = NULL THEN << >> ELSE <<x>> \o f[h.mem[x].next]]]
           step == [k \in 1..N |-> more]
           P(f) == f = [k \in 0..N |->
                          [x \in Addr |-> IF x = NULL \/ k = 0 THEN << >> ELSE <<x>> \o f[k - 1][h.mem[x].next]]]
           g == CHOOSE f : P(f)
<1>0. N \in Nat
  BY SomeNodes
<1>1. \A x \in Nodes : h.mem[x].next \in Addr
  BY DEF Heaps, cJSON
<1>2. \E f : P(f)
  <2>1. a \in S
    OBVIOUS
  <2>2. more \in [S -> S]
    <3>1. SUFFICES ASSUME NEW f \in S, NEW x \in Addr
                   PROVE  (IF x = NULL THEN << >> ELSE <<x>> \o f[h.mem[x].next]) \in Seq(Nodes)
      OBVIOUS
    <3>2. CASE x = NULL
      BY <3>2
    <3>3. CASE x \in Nodes
      <4>1. f[h.mem[x].next] \in Seq(Nodes) /\ <<x>> \in Seq(Nodes)
        BY <1>1, <3>3
      <4>2. QED BY <4>1
    <3>4. QED BY <3>2, <3>3
  <2>3. step \in Steps(N, S)
    BY <2>2 DEF Steps
  <2>4. PICK f \in [0..N -> S] : f[0] = a /\ \A k \in 1..N : f[k] = step[k][f[k - 1]]
    <3> HIDE DEF N, step, S, a
    <3>1. \E f : f \in RunsOf(N, S, a, step)
      BY <1>0, <2>1, <2>3, Recursion
    <3>2. QED BY <3>1 DEF RunsOf
  <2>5. ASSUME NEW k \in 0..N
        PROVE  f[k] = [x \in Addr |-> IF x = NULL \/ k = 0 THEN << >> ELSE <<x>> \o f[k - 1][h.mem[x].next]]
    <3>1. CASE k = 0
      BY <2>4, <3>1, SMTT(30)
    <3>2. CASE k # 0
      <4>1. k \in 1..N /\ k - 1 \in 0..N
        BY <1>0, <3>2
      <4>2. step[k] = more /\ f[k - 1] \in S
        BY <4>1
      <4>3. f[k] = more[f[k - 1]]
        BY <4>1, <4>2, <2>4
      <4>4. QED BY <4>2, <4>3, <3>2
    <3>3. QED BY <3>1, <3>2
  <2>6. P(f)
    <3>1. f = [k \in 0..N |-> f[k]]
      BY <2>4
    <3>2. QED BY <3>1, <2>5
  <2>7. QED BY <2>6
<1>3. P(g)
  <2> HIDE DEF P
  <2>1. QED BY <1>2, Zenon
<1>4. \A n \in Addr : Chain(h, n) = g[N][n]
  BY DEF Chain
<1>5. \A k \in 0..N, x \in Addr :
        g[k][x] = IF x = NULL \/ k = 0 THEN << >> ELSE <<x>> \o g[k - 1][h.mem[x].next]
  <2> HIDE DEF g, N
  <2>1. \A k \in 0..N :
          g[k] = [x \in Addr |-> IF x = NULL \/ k = 0 THEN << >> ELSE <<x>> \o g[k - 1][h.mem[x].next]]
    BY <1>3
  <2>2. QED BY <2>1
<1>6. QED BY <1>4, <1>5, ZenonT(30)

\* The rest of a list from j on is the item there and the rest behind it.
LEMMA RestOfList ==
  ASSUME NEW s \in Seq(Nodes), NEW j \in 1..Len(s)
  PROVE  SubSeq(s, j, Len(s)) = <<s[j]>> \o SubSeq(s, j + 1, Len(s))
<1>1. Len(s) \in Nat /\ Len(s) \in j..Len(s)
  OBVIOUS
<1>2. QED BY <1>1, SubSeqRecursiveFirst, Zenon

\* The loop along next from the item at j goes through the rest of its list.
LEMMA ChainIsList ==
  ASSUME NEW h \in Heaps, NEW s \in Seq(Nodes), Once(s),
         \A i \in 1..Len(s) : h.mem[s[i]].next = After(s, i)
  PROVE  /\ \A j \in 1..Len(s) : Chain(h, s[j]) = SubSeq(s, j, Len(s))
         /\ Chain(h, NULL) = << >>
         /\ Chain(h, First(s)) = s
<1> DEFINE N == Cardinality(Nodes)
           Addr == Nodes \cup {NULL}
<1>0. N \in Nat /\ Len(s) <= N /\ Len(s) \in Nat
  BY SomeNodes, ShortEnough
<1>1. PICK from : /\ \A n \in Addr : Chain(h, n) = from[N][n]
                  /\ \A k \in 0..N, x \in Addr :
                       from[k][x] = IF x = NULL \/ k = 0 THEN << >>
                                     ELSE <<x>> \o from[k - 1][h.mem[x].next]
  BY ChainByIteration
<1> HIDE DEF N
<1>2. \A k \in 0..N : from[k][NULL] = << >>
  BY <1>1
<1> DEFINE Bad == {k \in 0..N : ~ \A j \in 1..Len(s) : k + j > Len(s) => from[k][s[j]] = SubSeq(s, j, Len(s))}
<1>3. ASSUME Bad # {} PROVE FALSE
  <2>1. Bad \in SUBSET Nat
    BY <1>0
  <2>2. PICK k \in Bad : \A m \in Bad : k <= m
    <3> HIDE DEF Bad
    <3> QED BY <1>3, <2>1, LeastNatural
  <2>3. PICK j \in 1..Len(s) : k + j > Len(s) /\ from[k][s[j]] # SubSeq(s, j, Len(s))
    BY <2>2
  <2>4. k \in 0..N /\ k # 0
    BY <1>0, <2>2, <2>3
  <2>5. k - 1 \in 0..N /\ k - 1 \notin Bad
    <3>1. k - 1 \in 0..N /\ k \in Nat
      BY <1>0, <2>4
    <3> HIDE DEF Bad
    <3>2. QED BY <2>2, <3>1
  <2>6. s[j] \in Nodes /\ s[j] # NULL /\ h.mem[s[j]].next = After(s, j)
    BY JsonTreeAssumption
  <2>7. from[k][s[j]] = <<s[j]>> \o from[k - 1][After(s, j)]
    <3>1. from[k][s[j]] = IF s[j] = NULL \/ k = 0 THEN << >> ELSE <<s[j]>> \o from[k - 1][h.mem[s[j]].next]
      BY <1>1, <2>4, <2>6
    <3>2. QED BY <3>1, <2>4, <2>6
  <2>8. CASE j = Len(s)
    <3>1. from[k][s[j]] = <<s[j]>> \o << >>
      BY <1>2, <2>5, <2>7, <2>8 DEF After
    <3>2. SubSeq(s, j, Len(s)) = <<s[j]>> \o << >>
      <4>1. SubSeq(s, j + 1, Len(s)) = << >>
        BY <1>0, <2>8, SubSeqEmpty
      <4>2. QED BY <4>1, RestOfList
    <3>3. QED BY <3>1, <3>2, <2>3
  <2>9. CASE j < Len(s)
    <3>1. j + 1 \in 1..Len(s) /\ (k - 1) + (j + 1) > Len(s)
      BY <1>0, <2>3, <2>9, <2>4
    <3>2. from[k - 1][s[j + 1]] = SubSeq(s, j + 1, Len(s))
      BY <2>5, <3>1
    <3>3. After(s, j) = s[j + 1]
      BY <2>9 DEF After
    <3>4. from[k][s[j]] = <<s[j]>> \o SubSeq(s, j + 1, Len(s))
      BY <2>7, <3>2, <3>3
    <3>5. SubSeq(s, j, Len(s)) = <<s[j]>> \o SubSeq(s, j + 1, Len(s))
      BY RestOfList
    <3>6. QED BY <3>4, <3>5, <2>3
  <2>10. QED BY <1>0, <2>8, <2>9
<1>4. \A j \in 1..Len(s) : Chain(h, s[j]) = SubSeq(s, j, Len(s))
  <2>1. ASSUME NEW j \in 1..Len(s) PROVE from[N][s[j]] = SubSeq(s, j, Len(s))
    <3>1. N \notin Bad /\ N \in 0..N
      <4> HIDE DEF Bad
      <4>1. QED BY <1>0, <1>3
    <3>2. N + j > Len(s)
      BY <1>0
    <3>3. QED BY <3>1, <3>2
  <2>2. \A j \in 1..Len(s) : s[j] \in Addr
    OBVIOUS
  <2>3. QED BY <1>1, <2>1, <2>2
<1>5. Chain(h, NULL) = << >>
  BY <1>0, <1>1, <1>2
<1>6. Chain(h, First(s)) = s
  <2>1. CASE s = << >>
    BY <2>1, <1>5 DEF First
  <2>2. CASE s # << >>
    <3>1. 1 \in 1..Len(s)
      BY <1>0, <2>2
    <3>2. SubSeq(s, 1, Len(s)) = s
      OBVIOUS
    <3>3. QED BY <3>1, <3>2, <2>2, <1>4 DEF First
  <2>3. QED BY <2>1, <2>2
<1>7. QED BY <1>4, <1>5, <1>6

\* The loop stays within a set that holds the next item of each of its members.
LEMMA ChainStays ==
  ASSUME NEW h \in Heaps, NEW C \in SUBSET Nodes, NEW n \in C \cup {NULL},
         \A x \in C : h.mem[x].next \in C \cup {NULL}
  PROVE  Chain(h, n) \in Seq(C)
<1> DEFINE N == Cardinality(Nodes)
           Addr == Nodes \cup {NULL}
<1>0. N \in Nat
  BY SomeNodes
<1>1. PICK from : /\ \A x \in Addr : Chain(h, x) = from[N][x]
                  /\ \A k \in 0..N, x \in Addr :
                       from[k][x] = IF x = NULL \/ k = 0 THEN << >>
                                     ELSE <<x>> \o from[k - 1][h.mem[x].next]
  BY ChainByIteration
<1> HIDE DEF N
<1> DEFINE Bad == {k \in 0..N : ~ \A x \in C \cup {NULL} : from[k][x] \in Seq(C)}
<1>2. ASSUME Bad # {} PROVE FALSE
  <2>1. Bad \in SUBSET Nat
    BY <1>0
  <2>2. PICK k \in Bad : \A m \in Bad : k <= m
    <3> HIDE DEF Bad
    <3> QED BY <1>2, <2>1, LeastNatural
  <2>3. PICK x \in C \cup {NULL} : from[k][x] \notin Seq(C)
    BY <2>2
  <2>4. from[k][x] = IF x = NULL \/ k = 0 THEN << >> ELSE <<x>> \o from[k - 1][h.mem[x].next]
    BY <1>1, <2>2
  <2>5. x # NULL /\ k # 0 /\ x \in C
    BY <2>3, <2>4
  <2>6. k - 1 \in 0..N /\ k - 1 \notin Bad
    <3>1. k - 1 \in 0..N /\ k \in Nat
      BY <1>0, <2>2, <2>5
    <3> HIDE DEF Bad
    <3>2. QED BY <2>2, <3>1
  <2>7. from[k - 1][h.mem[x].next] \in Seq(C) /\ <<x>> \in Seq(C)
    BY <2>5, <2>6
  <2>8. <<x>> \o from[k - 1][h.mem[x].next] \in Seq(C)
    BY <2>7
  <2>9. QED BY <2>3, <2>4, <2>5, <2>8
<1>3. N \notin Bad /\ N \in 0..N
  <2> HIDE DEF Bad
  <2>1. QED BY <1>0, <1>2
<1>4. QED BY <1>1, <1>3

-----------------------------------------------------------------------------
(* Forests: the items of S have lists of items of S, nobody is in two      *)
(* places, and nobody is below itself.                                     *)

\* In every set of items there is one that is no child of another.
Rooted(L) == \A D \in SUBSET Nodes : D # {} => \E n \in D : \A p \in D : n \notin ToSet(L[p])
Disjoint(L) ==
  \A p, q \in Nodes : \A i \in 1..Len(L[p]), j \in 1..Len(L[q]) : L[p][i] = L[q][j] => p = q /\ i = j
Forest(S, L) ==
  /\ L \in [Nodes -> Seq(S)] /\ S \subseteq Nodes
  /\ \A n \in Nodes \ S : L[n] = << >>
  /\ Disjoint(L) /\ Rooted(L)

\* The lists of a forest are sequences without repetitions of its items.
LEMMA ForestLists ==
  ASSUME NEW S, NEW L, Forest(S, L)
  PROVE  /\ L \in [Nodes -> Seq(Nodes)]
         /\ \A p \in Nodes : /\ L[p] \in Seq(Nodes) /\ L[p] \in Seq(S) /\ Once(L[p]) /\ Len(L[p]) \in Nat
                             /\ ToSet(L[p]) \subseteq S
                             /\ \A x : x \in ToSet(L[p]) <=> \E i \in 1..Len(L[p]) : x = L[p][i]
         /\ ListedBy(L) \subseteq S
<1>1. \A p \in Nodes : L[p] \in Seq(S) /\ S \subseteq Nodes
  BY DEF Forest
<1>2. \A p \in Nodes : L[p] \in Seq(Nodes)
  BY <1>1, SeqMonotonic
<1>3. \A p \in Nodes : Once(L[p])
  BY DEF Forest, Disjoint, Once
<1>4. \A p \in Nodes : /\ ToSet(L[p]) \subseteq S
                       /\ \A x : x \in ToSet(L[p]) <=> \E i \in 1..Len(L[p]) : x = L[p][i]
  BY <1>1 DEF ToSet
<1>5. L \in [Nodes -> Seq(Nodes)]
  BY <1>2 DEF Forest
<1>6. ListedBy(L) \subseteq S
  BY <1>4 DEF ListedBy
<1>7. QED BY <1>1, <1>2, <1>3, <1>4, <1>5, <1>6

\* What is in a sequence has a place there.
LEMMA Members ==
  ASSUME NEW S, NEW s \in Seq(S)
  PROVE  \A x : x \in ToSet(s) <=> \E i \in 1..Len(s) : x = s[i]
BY DEF ToSet

\* An item is listed when some list has it.
LEMMA ListedMeans ==
  ASSUME NEW L, NEW n
  PROVE  n \in ListedBy(L) <=> \E p \in Nodes : n \in ToSet(L[p])
BY DEF ListedBy

\* Who is in a family, other than its first, has its parent there.
LEMMA ParentsInFamily ==
  ASSUME NEW L \in [Nodes -> Seq(Nodes)], NEW n \in Nodes, NEW x \in FamilyOf(L, n), x # n
  PROVE  \E p \in FamilyOf(L, n) : x \in ToSet(L[p])
<1> DEFINE F == FamilyOf(L, n)
           C == F \ {x}
<1>1. SUFFICES ASSUME \A p \in F : x \notin ToSet(L[p]) PROVE FALSE
  OBVIOUS
<1>2. C \in SUBSET Nodes /\ n \in C
  BY FamilyIsLeast
<1>3. \A y \in C : ToSet(L[y]) \subseteq C
  BY <1>1, FamilyIsLeast
<1>4. F \subseteq C
  <2> HIDE DEF C
  <2>1. QED BY <1>2, <1>3, FamilyIsLeast
<1>5. QED BY <1>4

\* A parent is not below its child.
LEMMA NotBelowItself ==
  ASSUME NEW S, NEW L, Forest(S, L), NEW p \in Nodes, NEW n \in ToSet(L[p])
  PROVE  p \notin FamilyOf(L, n)
<1> DEFINE F == FamilyOf(L, n)
<1>1. SUFFICES ASSUME p \in F PROVE FALSE
  OBVIOUS
<1>2. L \in [Nodes -> Seq(Nodes)] /\ n \in Nodes
  BY ForestLists DEF Forest
<1>3. F \in SUBSET Nodes /\ n \in F
  BY <1>2, FamilyIsLeast
<1>4. \A x \in F : \E q \in F : x \in ToSet(L[q])
  BY <1>1, <1>2, ParentsInFamily
<1>5. PICK x \in F : \A q \in F : x \notin ToSet(L[q])
  BY <1>3 DEF Forest, Rooted
<1>6. QED BY <1>4, <1>5

\* Everything below an item of a forest is in the forest.
LEMMA FamilyWithin ==
  ASSUME NEW S, NEW L, Forest(S, L), NEW n \in S
  PROVE  /\ FamilyOf(L, n) \subseteq S
         /\ n \in FamilyOf(L, n)
         /\ \A y \in FamilyOf(L, n) : ToSet(L[y]) \subseteq FamilyOf(L, n)
<1>1. L \in [Nodes -> Seq(Nodes)] /\ n \in Nodes /\ S \in SUBSET Nodes
  BY ForestLists DEF Forest
<1>2. \A y \in S : ToSet(L[y]) \subseteq S
  BY <1>1, ForestLists
<1>3. QED BY <1>1, <1>2, FamilyIsLeast

\* An item without children is all there is below it.
LEMMA FamilyOfLeaf ==
  ASSUME NEW L \in [Nodes -> Seq(Nodes)], NEW n \in Nodes, L[n] = << >>
  PROVE  FamilyOf(L, n) = {n}
<1>1. ToSet(L[n]) = {}
  BY DEF ToSet
<1>2. {n} \in SUBSET Nodes /\ (\A y \in {n} : ToSet(L[y]) \subseteq {n})
  BY <1>1
<1>3. FamilyOf(L, n) \subseteq {n} /\ n \in FamilyOf(L, n)
  BY <1>2, FamilyIsLeast
<1>4. QED BY <1>3

-----------------------------------------------------------------------------
(* Heaps whose pointers follow the lists of a forest.                      *)

\* child and next lead through the lists; a reference has no list of its own.
Heads(m, S, L) == \A p \in S : IF m[p].ref THEN L[p] = << >> ELSE m[p].child = First(L[p])
Nexts(m, L) == \A p \in Nodes : \A i \in 1..Len(L[p]) : m[L[p][i]].next = After(L[p], i)

\* The loop along next from p's first child goes through the list of p.
LEMMA ChildrenAreListed ==
  ASSUME NEW S, NEW L, Forest(S, L), NEW h \in Heaps, Heads(h.mem, S, L), Nexts(h.mem, L),
         NEW p \in S, ~ h.mem[p].ref
  PROVE  Children(h, p) = L[p]
<1>1. p \in Nodes /\ L[p] \in Seq(Nodes) /\ Once(L[p])
  BY ForestLists DEF Forest
<1>2. h.mem[p].child = First(L[p])
  BY DEF Heads
<1>3. Chain(h, First(L[p])) = L[p]
  BY <1>1, ChainIsList DEF Nexts
<1>4. QED BY <1>2, <1>3 DEF Children

\* What is reached from an item that has no next one is its family.
LEMMA ReachedIsFamily ==
  ASSUME NEW S, NEW L, Forest(S, L), NEW h \in Heaps, Heads(h.mem, S, L), NEW n \in S,
         h.mem[n].next = NULL,
         \A p \in Nodes : \A i \in 1..Len(L[p]) : L[p][i] # n => h.mem[L[p][i]].next = After(L[p], i)
  PROVE  Reached(h, {n}) = FamilyOf(L, n)
<1> DEFINE R == NextTo(h)
           F == FamilyOf(L, n)
           A == Reached(h, {n})
<1>1. n \in Nodes /\ S \subseteq Nodes /\ L \in [Nodes -> Seq(Nodes)] /\ NULL \notin Nodes
  BY ForestLists, JsonTreeAssumption DEF Forest
<1>2. IsLeastClosed(R, {n}, A)
  BY <1>1, ReachedIsLeast
<1>3. F \subseteq S /\ n \in F /\ \A y \in F : ToSet(L[y]) \subseteq F
  BY FamilyWithin
<1>4. A \subseteq F
  <2>1. ASSUME NEW x \in F PROVE R[x] \subseteq F
    <3>1. h.mem[x].next \in F \cup {NULL}
      <4>1. CASE x = n
        BY <4>1
      <4>2. CASE x # n
        <5>1. PICK p \in F : x \in ToSet(L[p])
          BY <1>1, <4>2, ParentsInFamily
        <5>2. p \in Nodes
          BY <1>1, <1>3
        <5>3. PICK i \in 1..Len(L[p]) : x = L[p][i]
          <6>1. L[p] \in Seq(Nodes)
            BY <1>1, <5>2
          <6>2. QED BY <6>1, <5>1 DEF ToSet
        <5>4. h.mem[x].next = After(L[p], i) /\ Len(L[p]) \in Nat
          BY <4>2, <5>2, <5>3, ForestLists
        <5>5. CASE i = Len(L[p])
          BY <5>4, <5>5 DEF After
        <5>6. CASE i # Len(L[p])
          <6>1. i + 1 \in 1..Len(L[p])
            BY <5>4, <5>6
          <6>2. L[p][i + 1] \in ToSet(L[p])
            BY <6>1, <5>2 DEF ToSet
          <6>3. QED BY <1>3, <5>1, <5>4, <5>6, <6>2 DEF After
        <5>7. QED BY <5>5, <5>6
      <4>3. QED BY <4>1, <4>2
    <3>2. h.mem[x].ref \/ h.mem[x].child \in F \cup {NULL}
      <4>1. SUFFICES ASSUME ~ h.mem[x].ref PROVE h.mem[x].child \in F \cup {NULL}
        OBVIOUS
      <4>2. h.mem[x].child = First(L[x]) /\ x \in Nodes
        BY <1>1, <1>3, <4>1 DEF Heads
      <4>3. CASE L[x] = << >>
        BY <4>2, <4>3 DEF First
      <4>4. CASE L[x] # << >>
        <5>1. 1 \in 1..Len(L[x])
          BY <4>2, <4>4, <1>1
        <5>2. L[x][1] \in ToSet(L[x])
          BY <4>2, <5>1, ForestLists
        <5>3. QED BY <1>3, <4>2, <4>4, <5>2 DEF First
      <4>5. QED BY <4>3, <4>4
    <3>3. x \in Nodes
      BY <1>1, <1>3
    <3>4. QED BY <3>1, <3>2, <3>3 DEF NextTo
  <2>2. Closed(R, F)
    BY <2>1 DEF Closed
  <2> HIDE DEF R, A
  <2>3. {n} \subseteq F /\ F \in SUBSET Nodes
    BY <1>1, <1>3
  <2>4. QED BY <1>2, <2>2, <2>3 DEF IsLeastClosed
<1>5. \A x \in A : ToSet(L[x]) \subseteq A
  <2>1. SUFFICES ASSUME NEW x \in A PROVE ToSet(L[x]) \subseteq A
    OBVIOUS
  <2>2. x \in F /\ x \in S /\ x \in Nodes
    BY <1>1, <1>3, <1>4
  <2>3. \A y \in A : y \in Nodes /\ R[y] \subseteq A
    BY <1>2 DEF IsLeastClosed, Closed
  <2>4. Len(L[x]) \in Nat /\ \A i \in 1..Len(L[x]) : L[x][i] # n /\ L[x][i] \in Nodes
    <3>1. \A i \in 1..Len(L[x]) : L[x][i] \in ToSet(L[x])
      BY <2>2, ForestLists
    <3>2. ASSUME NEW i \in 1..Len(L[x]), L[x][i] = n PROVE FALSE
      <4>1. n \in ToSet(L[x])
        BY <3>1, <3>2
      <4>2. x \notin F
        BY <2>2, <4>1, NotBelowItself
      <4>3. QED BY <2>2, <4>2
    <3>3. QED BY <2>2, <3>2, ForestLists
  <2> DEFINE Bad == {i \in 1..Len(L[x]) : L[x][i] \notin A}
  <2>5. ASSUME Bad # {} PROVE FALSE
    <3>1. Bad \in SUBSET Nat
      BY <2>4
    <3>2. PICK i \in Bad : \A j \in Bad : i <= j
      <4> HIDE DEF Bad
      <4> QED BY <2>5, <3>1, LeastNatural
    <3>3. i \in 1..Len(L[x]) /\ L[x][i] \notin A /\ L[x][i] # NULL
      BY <1>1, <2>4, <3>2
    <3>4. CASE i = 1
      <4>1. L[x] # << >> /\ ~ h.mem[x].ref
        BY <2>2, <2>4, <3>3 DEF Heads
      <4>2. h.mem[x].child = L[x][1]
        BY <2>2, <4>1 DEF Heads, First
      <4>3. L[x][1] \in R[x]
        BY <2>2, <3>3, <3>4, <4>1, <4>2 DEF NextTo
      <4>4. QED BY <2>3, <3>3, <3>4, <4>3
    <3>5. CASE i # 1
      <4>1. i - 1 \in 1..Len(L[x]) /\ i - 1 # Len(L[x]) /\ (i - 1) + 1 = i
        BY <2>4, <3>3, <3>5
      <4>2. i - 1 \notin Bad
        <5>1. ~ (i <= i - 1)
          BY <2>4, <3>3
        <5> HIDE DEF Bad
        <5>2. QED BY <3>2, <5>1
      <4>3. L[x][i - 1] \in A
        BY <4>1, <4>2
      <4>4. h.mem[L[x][i - 1]].next = L[x][i]
        BY <2>2, <2>4, <4>1 DEF After
      <4>5. L[x][i] \in R[L[x][i - 1]]
        BY <2>4, <3>3, <4>1, <4>4 DEF NextTo
      <4>6. QED BY <2>3, <3>3, <4>3, <4>5
    <3>6. QED BY <3>4, <3>5
  <2>6. SUFFICES ASSUME NEW y \in ToSet(L[x]) PROVE y \in A
    BY Zenon
  <2>7. \E i \in 1..Len(L[x]) : y = L[x][i]
    <3>1. L[x] \in Seq(Nodes)
      BY <1>1, <2>2
    <3>2. QED BY <3>1, <2>6 DEF ToSet
  <2>8. QED BY <2>5, <2>7
<1>6. F \subseteq A
  <2>1. n \in A /\ A \in SUBSET Nodes
    BY <1>2 DEF IsLeastClosed
  <2> HIDE DEF A
  <2>2. QED BY <1>1, <1>5, <2>1, FamilyIsLeast
<1>7. QED BY <1>4, <1>6

-----------------------------------------------------------------------------
(* Sequences with an item put in, taken out or exchanged.                  *)

\* t is s with n put in at k.
IsInserted(t, S, s, k, n) ==
  /\ t \in Seq(S) /\ Len(t) = Len(s) + 1
  /\ \A i \in 1..(Len(s) + 1) : t[i] = IF i < k THEN s[i] ELSE IF i = k THEN n ELSE s[i - 1]

\* What InsertAt makes of a sequence, place by place.
LEMMA Inserted ==
  ASSUME NEW S, NEW s \in Seq(S), NEW n \in S, NEW k \in 1..(Len(s) + 1)
  PROVE  IsInserted(InsertAt(s, k, n), S, s, k, n)
<1> DEFINE a == SubSeq(s, 1, k - 1)
           b == SubSeq(s, k, Len(s))
<1>0. Len(s) \in Nat /\ k \in Nat /\ k >= 1
  OBVIOUS
<1>1. a \in Seq(S) /\ Len(a) = k - 1 /\ \A i \in 1..(k - 1) : a[i] = s[i]
  BY <1>0
<1>2. b \in Seq(S) /\ Len(b) = Len(s) - k + 1 /\ \A i \in 1..(Len(s) - k + 1) : b[i] = s[k + i - 1]
  BY <1>0
<1> HIDE DEF a, b
<1>3. (a \o <<n>>) \in Seq(S) /\ Len(a \o <<n>>) = k
        /\ (\A i \in 1..(k - 1) : (a \o <<n>>)[i] = s[i]) /\ (a \o <<n>>)[k] = n
  BY <1>0, <1>1
<1> DEFINE c == a \o <<n>>
<1> HIDE DEF c
<1>4. c \o b \in Seq(S) /\ Len(c \o b) = Len(s) + 1
  <2>1. c \o b \in Seq(S) /\ Len(c \o b) = Len(c) + Len(b)
    BY <1>2, <1>3, ConcatProperties DEF c
  <2>2. Len(c) = k /\ Len(b) = Len(s) - k + 1
    BY <1>2, <1>3 DEF c
  <2>3. QED BY <1>0, <2>1, <2>2
<1>5. ASSUME NEW i \in 1..(Len(s) + 1)
      PROVE  (c \o b)[i] = IF i < k THEN s[i] ELSE IF i = k THEN n ELSE s[i - 1]
  <2>1. Len(c) = k /\ c \in Seq(S) /\ Len(b) = Len(s) - k + 1
    BY <1>2, <1>3 DEF c
  <2>2. i \in 1..(Len(c) + Len(b))
    BY <1>0, <2>1
  <2>3. (c \o b)[i] = IF i <= k THEN c[i] ELSE b[i - k]
    BY <1>2, <2>1, <2>2, ConcatProperties
  <2>4. CASE i < k
    BY <1>0, <1>3, <2>3, <2>4 DEF c
  <2>5. CASE i = k
    BY <1>0, <1>3, <2>3, <2>5 DEF c
  <2>6. CASE i > k
    <3>1. i - k \in 1..(Len(s) - k + 1) /\ k + (i - k) - 1 = i - 1
      BY <1>0, <2>6
    <3>2. b[i - k] = s[i - 1]
      BY <1>2, <3>1
    <3>3. QED BY <1>0, <2>3, <2>6, <3>2
  <2>7. i < k \/ i = k \/ i > k
    BY <1>0
  <2>8. QED BY <2>4, <2>5, <2>6, <2>7, Zenon
<1>6. InsertAt(s, k, n) = c \o b
  BY DEF InsertAt, a, b, c
<1>7. QED BY <1>4, <1>5, <1>6 DEF IsInserted

\* What RemoveAt makes of a sequence, place by place.
LEMMA Removed ==
  ASSUME NEW S, NEW s \in Seq(S), NEW k \in 1..Len(s)
  PROVE  LET t == RemoveAt(s, k)
         IN /\ t \in Seq(S) /\ Len(t) = Len(s) - 1
            /\ \A i \in 1..(Len(s) - 1) : t[i] = IF i < k THEN s[i] ELSE s[i + 1]
<1> DEFINE a == SubSeq(s, 1, k - 1)
           b == SubSeq(s, k + 1, Len(s))
<1>0. Len(s) \in Nat /\ k \in Nat /\ k >= 1 /\ k <= Len(s)
  OBVIOUS
<1>1. a \in Seq(S) /\ Len(a) = k - 1 /\ \A i \in 1..(k - 1) : a[i] = s[i]
  BY <1>0
<1>2. b \in Seq(S) /\ Len(b) = Len(s) - k /\ \A i \in 1..(Len(s) - k) : b[i] = s[k + i]
  BY <1>0
<1> HIDE DEF a, b
<1>3. a \o b \in Seq(S) /\ Len(a \o b) = Len(s) - 1
  <2>1. a \o b \in Seq(S) /\ Len(a \o b) = Len(a) + Len(b)
    BY <1>1, <1>2, ConcatProperties
  <2>2. Len(a) = k - 1 /\ Len(b) = Len(s) - k
    BY <1>1, <1>2
  <2>3. QED BY <1>0, <2>1, <2>2
<1>4. ASSUME NEW i \in 1..(Len(s) - 1)
      PROVE  (a \o b)[i] = IF i < k THEN s[i] ELSE s[i + 1]
  <2>1. Len(a) = k - 1 /\ Len(b) = Len(s) - k
    BY <1>1, <1>2
  <2>2. i \in 1..(Len(a) + Len(b))
    BY <1>0, <2>1
  <2>3. (a \o b)[i] = IF i <= k - 1 THEN a[i] ELSE b[i - (k - 1)]
    BY <1>1, <1>2, <2>1, <2>2, ConcatProperties
  <2>4. CASE i < k
    BY <1>0, <1>1, <2>3, <2>4
  <2>5. CASE i >= k
    <3>1. i - (k - 1) \in 1..(Len(s) - k) /\ k + (i - (k - 1)) = i + 1
      BY <1>0, <2>5
    <3>2. b[i - (k - 1)] = s[i + 1]
      BY <1>2, <3>1
    <3>3. QED BY <1>0, <2>3, <2>5, <3>2
  <2>6. i < k \/ i >= k
    BY <1>0
  <2>7. QED BY <2>4, <2>5, <2>6, Zenon
<1>5. RemoveAt(s, k) = a \o b
  BY DEF RemoveAt, a, b
<1>6. QED BY <1>3, <1>4, <1>5

\* What ReplaceAt makes of a sequence, place by place.
LEMMA Exchanged ==
  ASSUME NEW S, NEW s \in Seq(S), NEW n \in S, NEW k \in 1..Len(s)
  PROVE  LET t == ReplaceAt(s, k, n)
         IN /\ t \in Seq(S) /\ Len(t) = Len(s)
            /\ \A i \in 1..Len(s) : t[i] = IF i = k THEN n ELSE s[i]
BY DEF ReplaceAt

-----------------------------------------------------------------------------
(* Forests with an item added, taken out or exchanged, or a tree dropped.  *)

Putting(L, p, k, n) == [L EXCEPT ![p] = InsertAt(@, k, n)]
Taking(L, p, k) == [L EXCEPT ![p] = RemoveAt(@, k)]
Exchanging(L, p, k, n) == [L EXCEPT ![p] = ReplaceAt(@, k, n)]

\* Fewer children make no cycle.
LEMMA FewerChildren ==
  ASSUME NEW L, NEW L2, Rooted(L), \A p \in Nodes : ToSet(L2[p]) \subseteq ToSet(L[p])
  PROVE  Rooted(L2)
BY DEF Rooted

\* n may be put below p when it is nobody's child and p is not below it.
LEMMA OneMoreChild ==
  ASSUME NEW S, NEW L, Forest(S, L), NEW p \in S, NEW n \in S, p \notin FamilyOf(L, n),
         NEW L2, \A q \in Nodes : ToSet(L2[q]) \subseteq ToSet(L[q]) \cup (IF q = p THEN {n} ELSE {})
  PROVE  Rooted(L2)
<1> DEFINE F == FamilyOf(L, n)
<1>1. /\ L \in [Nodes -> Seq(Nodes)] /\ S \subseteq Nodes /\ n \in F /\ F \subseteq S
      /\ \A y \in F : ToSet(L[y]) \subseteq F
  BY ForestLists, FamilyWithin DEF Forest
<1> HIDE DEF F
<1>2. SUFFICES ASSUME NEW D \in SUBSET Nodes, D # {}
               PROVE  \E x \in D : \A q \in D : x \notin ToSet(L2[q])
  BY DEF Rooted
<1>3. CASE D \subseteq F
  <2>1. PICK x \in D : \A q \in D : x \notin ToSet(L[q])
    BY <1>2 DEF Forest, Rooted
  <2>2. \A q \in D : q # p
    BY <1>3 DEF F
  <2>3. QED BY <2>1, <2>2
<1>4. CASE ~ (D \subseteq F)
  <2>1. PICK x \in D \ F : \A q \in D \ F : x \notin ToSet(L[q])
    <3>1. D \ F # {} /\ D \ F \in SUBSET Nodes
      BY <1>4
    <3>2. QED BY <3>1 DEF Forest, Rooted
  <2>2. \A q \in D : x \notin ToSet(L[q])
    BY <1>1, <2>1
  <2>3. x # n
    BY <1>1, <2>1
  <2>4. QED BY <2>1, <2>2, <2>3
<1>5. QED BY <1>3, <1>4

\* An item in no list, and not above p, may be put at any place of p's list.
LEMMA InsertedForest ==
  ASSUME NEW S, NEW L, Forest(S, L), NEW p \in S, NEW n \in S, n \notin ListedBy(L),
         p \notin FamilyOf(L, n), NEW k \in 1..(Len(L[p]) + 1)
  PROVE  LET L2 == Putting(L, p, k, n)
         IN  Forest(S, L2) /\ ListedBy(L2) = ListedBy(L) \cup {n}
<1> DEFINE s == L[p]
           t == InsertAt(s, k, n)
           L2 == [L EXCEPT ![p] = t]
<1>1. p \in Nodes /\ n \in Nodes /\ S \subseteq Nodes /\ L \in [Nodes -> Seq(S)] /\ s \in Seq(S) /\ Len(s) \in Nat
  BY ForestLists DEF Forest
<1>2. /\ t \in Seq(S) /\ Len(t) = Len(s) + 1
      /\ \A i \in 1..(Len(s) + 1) : t[i] = IF i < k THEN s[i] ELSE IF i = k THEN n ELSE s[i - 1]
  <2>1. IsInserted(InsertAt(s, k, n), S, s, k, n)
    BY <1>1, Inserted
  <2>2. QED BY <2>1 DEF IsInserted
<1> HIDE DEF t
<1>3. L2 \in [Nodes -> Seq(S)] /\ L2[p] = t /\ \A q \in Nodes : q # p => L2[q] = L[q]
  BY <1>1, <1>2
<1>4. ToSet(t) = ToSet(s) \cup {n}
  <2>1. ASSUME NEW i \in 1..Len(t) PROVE t[i] \in ToSet(s) \cup {n}
    <3>1. i \in 1..(Len(s) + 1)
      BY <1>2
    <3>2. (i < k => i \in 1..Len(s)) /\ (i > k => i - 1 \in 1..Len(s))
      BY <1>1, <3>1
    <3>3. QED BY <1>1, <1>2, <3>1, <3>2 DEF ToSet
  <2>2. ASSUME NEW i \in 1..Len(s) PROVE s[i] \in ToSet(t)
    <3>1. CASE i < k
      <4>1. i \in 1..Len(t) /\ t[i] = s[i]
        BY <1>1, <1>2, <3>1
      <4>2. QED BY <4>1, <1>2 DEF ToSet
    <3>2. CASE i >= k
      <4>1. i + 1 \in 1..Len(t) /\ t[i + 1] = s[i]
        <5>1. i + 1 \in 1..(Len(s) + 1) /\ ~ (i + 1 < k) /\ i + 1 # k /\ (i + 1) - 1 = i
          BY <1>1, <3>2
        <5>2. QED BY <1>2, <5>1
      <4>2. QED BY <4>1, <1>2 DEF ToSet
    <3>3. QED BY <1>1, <3>1, <3>2
  <2>3. k \in 1..Len(t) /\ t[k] = n
    BY <1>1, <1>2
  <2>4. /\ \A x : x \in ToSet(t) <=> \E i \in 1..Len(t) : x = t[i]
        /\ \A x : x \in ToSet(s) <=> \E i \in 1..Len(s) : x = s[i]
    BY <1>1, <1>2, Members
  <2>5. ToSet(t) \subseteq ToSet(s) \cup {n}
    BY <2>1, <2>4
  <2>6. ToSet(s) \cup {n} \subseteq ToSet(t)
    BY <2>2, <2>3, <2>4
  <2>7. QED BY <2>5, <2>6
<1>5. Rooted(L2)
  <2>1. \A q \in Nodes : ToSet(L2[q]) \subseteq ToSet(L[q]) \cup (IF q = p THEN {n} ELSE {})
    BY <1>3, <1>4
  <2> HIDE DEF L2, s
  <2>2. QED BY <2>1, OneMoreChild
<1>6. \A q \in Nodes : \A i \in 1..Len(L[q]) : L[q][i] # n /\ L[q][i] \in ToSet(L[q])
  BY <1>1 DEF ListedBy, ToSet
<1>7. Disjoint(L2)
  <2>1. SUFFICES ASSUME NEW q \in Nodes, NEW r \in Nodes,
                        NEW i \in 1..Len(L2[q]), NEW j \in 1..Len(L2[r]), L2[q][i] = L2[r][j]
                 PROVE  q = r /\ i = j
    BY DEF Disjoint
  \* Where the item at j of r was before.
  <2> DEFINE was(x, y) == IF x = p /\ y > k THEN y - 1 ELSE y
  <2>2. ASSUME NEW x \in Nodes, NEW y \in 1..Len(L2[x])
        PROVE  \/ x = p /\ y = k /\ L2[x][y] = n
               \/ was(x, y) \in 1..Len(L[x]) /\ L2[x][y] = L[x][was(x, y)] /\ ~ (x = p /\ y = k)
    <3>1. CASE x # p
      BY <3>1, <1>3, <2>2
    <3>2. CASE x = p
      <4>1. y \in 1..(Len(s) + 1) /\ L2[x][y] = t[y]
        BY <3>2, <1>2, <1>3, <2>2
      <4>2. CASE y < k
        <5>1. y \in 1..Len(s) /\ t[y] = s[y] /\ was(x, y) = y
          BY <1>1, <1>2, <4>1, <4>2
        <5>2. QED BY <3>2, <4>1, <4>2, <5>1
      <4>3. CASE y = k
        BY <3>2, <1>2, <4>1, <4>3
      <4>4. CASE y > k
        <5>1. y - 1 \in 1..Len(s) /\ t[y] = s[y - 1] /\ was(x, y) = y - 1
          BY <1>1, <1>2, <3>2, <4>1, <4>4
        <5>2. QED BY <3>2, <4>1, <4>4, <5>1
      <4>5. QED BY <1>1, <4>1, <4>2, <4>3, <4>4
    <3>3. QED BY <3>1, <3>2
  <2>3. CASE L2[q][i] = n
    BY <2>1, <2>2, <2>3, <1>6
  <2>4. CASE L2[q][i] # n
    <3>1. /\ was(q, i) \in 1..Len(L[q]) /\ L2[q][i] = L[q][was(q, i)] /\ ~ (q = p /\ i = k)
          /\ was(r, j) \in 1..Len(L[r]) /\ L2[r][j] = L[r][was(r, j)] /\ ~ (r = p /\ j = k)
      BY <2>1, <2>2, <2>4
    <3>2. q = r /\ was(q, i) = was(r, j)
      <4> DEFINE a == was(q, i)
                 b == was(r, j)
      <4>1. a \in 1..Len(L[q]) /\ b \in 1..Len(L[r]) /\ L[q][a] = L[r][b]
        BY <2>1, <3>1, Zenon
      <4>2. Disjoint(L)
        BY DEF Forest
      <4> HIDE DEF a, b
      <4>3. q = r /\ a = b
        BY <4>1, <4>2, Zenon DEF Disjoint
      <4>4. QED BY <4>3 DEF a, b
    <3>3. i \in Int /\ j \in Int /\ k \in Int
      OBVIOUS
    <3>4. QED BY <3>1, <3>2, <3>3
  <2>5. QED BY <2>3, <2>4
<1>8. \A q \in Nodes \ S : L2[q] = << >>
  BY <1>3 DEF Forest
<1>9. ListedBy(L2) = ListedBy(L) \cup {n}
  <2>1. \A x : x \in ListedBy(L2) <=> \E q \in Nodes : x \in ToSet(L2[q])
    BY ListedMeans
  <2>2. \A x : x \in ListedBy(L) <=> \E q \in Nodes : x \in ToSet(L[q])
    BY ListedMeans
  <2>3. ToSet(L2[p]) = ToSet(L[p]) \cup {n} /\ \A q \in Nodes : q # p => ToSet(L2[q]) = ToSet(L[q])
    BY <1>3, <1>4
  <2> HIDE DEF L2
  <2>4. QED BY <2>1, <2>2, <2>3, <1>1
<1>10. L2 = Putting(L, p, k, n)
  BY DEF Putting, t
<1>11. QED BY <1>1, <1>3, <1>5, <1>7, <1>8, <1>9, <1>10 DEF Forest

\* An item has one place in all the lists.
LEMMA OnePlace ==
  ASSUME NEW L, Disjoint(L), NEW p \in Nodes, NEW q \in Nodes,
         NEW i \in 1..Len(L[p]), NEW j \in 1..Len(L[q]), L[p][i] = L[q][j]
  PROVE  p = q /\ i = j
BY DEF Disjoint

\* An item taken out of its list leaves a forest, and keeps what is below it.
LEMMA RemovedForest ==
  ASSUME NEW S, NEW L, Forest(S, L), NEW p \in S, NEW k \in 1..Len(L[p])
  PROVE  LET L2 == Taking(L, p, k)
         IN /\ Forest(S, L2) /\ ListedBy(L2) = ListedBy(L) \ {L[p][k]}
            /\ FamilyOf(L2, L[p][k]) = FamilyOf(L, L[p][k])
<1> DEFINE s == L[p]
           t == RemoveAt(s, k)
           n == L[p][k]
           L2 == [L EXCEPT ![p] = t]
<1>1. p \in Nodes /\ n \in Nodes /\ S \subseteq Nodes /\ L \in [Nodes -> Seq(S)] /\ s \in Seq(S) /\ Len(s) \in Nat
        /\ n \in ToSet(s) /\ n \in S
  BY ForestLists DEF Forest, ToSet
<1>2. /\ t \in Seq(S) /\ Len(t) = Len(s) - 1
      /\ \A i \in 1..(Len(s) - 1) : t[i] = IF i < k THEN s[i] ELSE s[i + 1]
  BY <1>1, Removed
<1> HIDE DEF t
<1>3. L2 \in [Nodes -> Seq(S)] /\ L2[p] = t /\ \A q \in Nodes : q # p => L2[q] = L[q]
  BY <1>1, <1>2
\* Where the item at y of x was before.
<1> DEFINE was(x, y) == IF x = p /\ y >= k THEN y + 1 ELSE y
<1>4. ASSUME NEW x \in Nodes, NEW y \in 1..Len(L2[x])
      PROVE  was(x, y) \in 1..Len(L[x]) /\ L2[x][y] = L[x][was(x, y)] /\ ~ (x = p /\ was(x, y) = k)
  <2>1. CASE x # p
    BY <2>1, <1>3, <1>4
  <2>2. CASE x = p
    <3>1. y \in 1..(Len(s) - 1) /\ L2[x][y] = t[y]
      BY <2>2, <1>2, <1>3, <1>4
    <3>2. CASE y < k
      <4>1. y \in 1..Len(s) /\ t[y] = s[y] /\ was(x, y) = y /\ y # k
        BY <1>1, <1>2, <3>1, <3>2
      <4>2. QED BY <2>2, <3>1, <4>1
    <3>3. CASE y >= k
      <4>1. y + 1 \in 1..Len(s) /\ t[y] = s[y + 1] /\ was(x, y) = y + 1 /\ y + 1 # k
        BY <1>1, <1>2, <2>2, <3>1, <3>3
      <4>2. QED BY <2>2, <3>1, <4>1
    <3>4. QED BY <1>1, <3>1, <3>2, <3>3
  <2>3. QED BY <2>1, <2>2
<1>5. ASSUME NEW i \in 1..Len(s), i # k PROVE s[i] \in ToSet(t)
  <2>1. CASE i < k
    <3>1. i \in 1..Len(t) /\ t[i] = s[i]
      BY <1>1, <1>2, <2>1
    <3>2. QED BY <3>1, <1>2, Members
  <2>2. CASE i > k
    <3>1. i - 1 \in 1..(Len(s) - 1) /\ ~ (i - 1 < k) /\ (i - 1) + 1 = i
      BY <1>1, <2>2
    <3>2. i - 1 \in 1..Len(t) /\ t[i - 1] = s[i]
      BY <1>2, <3>1
    <3>3. QED BY <3>2, <1>2, Members
  <2>3. QED BY <1>1, <1>5, <2>1, <2>2
<1>6. ASSUME NEW q \in Nodes PROVE ToSet(L2[q]) = ToSet(L[q]) \ {n}
  <2>1. L2[q] \in Seq(S) /\ L[q] \in Seq(S)
    BY <1>1, <1>3
  <2>2. /\ \A x : x \in ToSet(L2[q]) <=> \E i \in 1..Len(L2[q]) : x = L2[q][i]
        /\ \A x : x \in ToSet(L[q]) <=> \E i \in 1..Len(L[q]) : x = L[q][i]
    BY <2>1, Members
  <2>3. \A i \in 1..Len(L[q]) : L[q][i] = n => q = p /\ i = k
    BY <1>1 DEF Forest, Disjoint
  <2>4. ASSUME NEW i \in 1..Len(L2[q]) PROVE L2[q][i] \in ToSet(L[q]) \ {n}
    <3> DEFINE j == was(q, i)
    <3>1. j \in 1..Len(L[q]) /\ L2[q][i] = L[q][j] /\ ~ (q = p /\ j = k)
      BY <1>4
    <3> HIDE DEF j
    <3>2. QED BY <2>2, <2>3, <3>1
  <2>5. ASSUME NEW i \in 1..Len(L[q]), L[q][i] # n PROVE L[q][i] \in ToSet(L2[q])
    <3>1. CASE q = p
      BY <3>1, <1>3, <1>5, <2>5
    <3>2. CASE q # p
      BY <3>2, <1>3, <2>2
    <3>3. QED BY <3>1, <3>2
  <2> HIDE DEF L2, n
  <2>6. QED BY <2>2, <2>4, <2>5
<1>7. Disjoint(L2)
  <2>1. SUFFICES ASSUME NEW q \in Nodes, NEW r \in Nodes,
                        NEW i \in 1..Len(L2[q]), NEW j \in 1..Len(L2[r]), L2[q][i] = L2[r][j]
                 PROVE  q = r /\ i = j
    BY DEF Disjoint
  <2> DEFINE a == was(q, i)
             b == was(r, j)
  <2>2. a \in 1..Len(L[q]) /\ b \in 1..Len(L[r]) /\ L[q][a] = L[r][b]
    BY <2>1, <1>4, Zenon
  <2>3. Disjoint(L)
    BY DEF Forest
  <2>4. q = r /\ a = b
    <3> HIDE DEF a, b, L2
    <3>1. QED BY <2>2, <2>3, OnePlace
  <2>5. i \in Int /\ j \in Int /\ k \in Int
    OBVIOUS
  <2>6. QED BY <2>4, <2>5
<1>8. Rooted(L2)
  <2>1. \A q \in Nodes : ToSet(L2[q]) \subseteq ToSet(L[q])
    BY <1>6
  <2> HIDE DEF L2
  <2>2. QED BY <2>1, FewerChildren DEF Forest
<1>9. \A q \in Nodes \ S : L2[q] = << >>
  BY <1>3 DEF Forest
<1>10. ListedBy(L2) = ListedBy(L) \ {n}
  <2>1. \A x : x \in ListedBy(L2) <=> \E q \in Nodes : x \in ToSet(L2[q])
    BY ListedMeans
  <2>2. \A x : x \in ListedBy(L) <=> \E q \in Nodes : x \in ToSet(L[q])
    BY ListedMeans
  <2> HIDE DEF L2, n
  <2>3. \A x : \A q \in Nodes : x \in ToSet(L2[q]) <=> x \in ToSet(L[q]) /\ x # n
    BY <1>6
  <2>4. ASSUME NEW x PROVE x \in ListedBy(L2) <=> x \in ListedBy(L) /\ x # n
    BY <2>1, <2>2, <2>3
  <2>5. QED BY <2>4
<1>11. Forest(S, L2)
  BY <1>1, <1>3, <1>7, <1>8, <1>9 DEF Forest
<1>12. FamilyOf(L2, n) = FamilyOf(L, n)
  <2> DEFINE F == FamilyOf(L, n)
             G == FamilyOf(L2, n)
  <2>1. L \in [Nodes -> Seq(Nodes)] /\ L2 \in [Nodes -> Seq(Nodes)]
    BY <1>11, ForestLists
  <2> HIDE DEF L2, n
  <2>2. F \in SUBSET Nodes /\ n \in F /\ \A y \in F : ToSet(L[y]) \subseteq F
    BY <1>1, <2>1, FamilyIsLeast
  <2>3. G \in SUBSET Nodes /\ n \in G /\ \A y \in G : ToSet(L2[y]) \subseteq G
    BY <1>1, <2>1, FamilyIsLeast
  <2>4. \A y \in F : ToSet(L2[y]) \subseteq F
    BY <2>2, <1>6
  <2>5. \A y \in G : ToSet(L[y]) \subseteq G
    BY <2>3, <1>6
  <2>6. G \subseteq F
    <3> HIDE DEF F
    <3>1. QED BY <1>1, <2>1, <2>2, <2>4, FamilyIsLeast
  <2>7. F \subseteq G
    <3> HIDE DEF G
    <3>1. QED BY <1>1, <2>1, <2>3, <2>5, FamilyIsLeast
  <2>8. QED BY <2>6, <2>7
<1>13. L2 = Taking(L, p, k)
  BY DEF Taking, t
<1>14. QED BY <1>10, <1>11, <1>12, <1>13

\* An item in no list, and not above p, may take the place of any item of p's
\* list.
LEMMA ExchangedForest ==
  ASSUME NEW S, NEW L, Forest(S, L), NEW p \in S, NEW n \in S, n \notin ListedBy(L),
         p \notin FamilyOf(L, n), NEW k \in 1..Len(L[p])
  PROVE  LET L2 == Exchanging(L, p, k, n)
         IN  Forest(S, L2) /\ ListedBy(L2) = (ListedBy(L) \ {L[p][k]}) \cup {n}
<1> DEFINE s == L[p]
           t == ReplaceAt(s, k, n)
           old == L[p][k]
           L2 == [L EXCEPT ![p] = t]
<1>1. p \in Nodes /\ n \in Nodes /\ S \subseteq Nodes /\ L \in [Nodes -> Seq(S)] /\ s \in Seq(S) /\ Len(s) \in Nat
  BY ForestLists DEF Forest
<1>2. t \in Seq(S) /\ Len(t) = Len(s) /\ \A i \in 1..Len(s) : t[i] = IF i = k THEN n ELSE s[i]
  BY <1>1, Exchanged
<1> HIDE DEF t
<1>3. L2 \in [Nodes -> Seq(S)] /\ L2[p] = t /\ \A q \in Nodes : q # p => L2[q] = L[q]
  BY <1>1, <1>2
<1>4. ASSUME NEW x \in Nodes, NEW y \in 1..Len(L2[x])
      PROVE  /\ y \in 1..Len(L[x])
             /\ L2[x][y] = IF x = p /\ y = k THEN n ELSE L[x][y]
  BY <1>2, <1>3
<1>5. \A q \in Nodes : Len(L2[q]) = Len(L[q])
  BY <1>2, <1>3
<1>6. \A q \in Nodes : \A i \in 1..Len(L[q]) : L[q][i] # n
  BY <1>1 DEF ListedBy, ToSet
<1>7. \A q \in Nodes : /\ \A x : x \in ToSet(L2[q]) <=> \E i \in 1..Len(L2[q]) : x = L2[q][i]
                       /\ \A x : x \in ToSet(L[q]) <=> \E i \in 1..Len(L[q]) : x = L[q][i]
  BY <1>1, <1>3, Members, SMTT(30)
<1>8. Disjoint(L2)
  <2>1. SUFFICES ASSUME NEW q \in Nodes, NEW r \in Nodes,
                        NEW i \in 1..Len(L2[q]), NEW j \in 1..Len(L2[r]), L2[q][i] = L2[r][j]
                 PROVE  q = r /\ i = j
    BY DEF Disjoint
  <2>2. /\ i \in 1..Len(L[q]) /\ L2[q][i] = IF q = p /\ i = k THEN n ELSE L[q][i]
        /\ j \in 1..Len(L[r]) /\ L2[r][j] = IF r = p /\ j = k THEN n ELSE L[r][j]
    BY <1>4
  <2>3. Disjoint(L)
    BY DEF Forest
  <2> HIDE DEF L2
  <2>4. CASE q = p /\ i = k
    BY <2>1, <2>2, <2>4, <1>6
  <2>5. CASE ~ (q = p /\ i = k)
    <3>1. L2[q][i] = L[q][i] /\ L[q][i] # n
      BY <2>2, <2>5, <1>6
    <3>2. L2[r][j] = L[r][j]
      BY <2>1, <2>2, <3>1
    <3>3. L[q][i] = L[r][j]
      BY <2>1, <3>1, <3>2
    <3>4. QED BY <2>2, <2>3, <3>3, OnePlace
  <2>6. QED BY <2>4, <2>5
<1>9. Rooted(L2)
  <2>1. \A q \in Nodes : ToSet(L2[q]) \subseteq ToSet(L[q]) \cup (IF q = p THEN {n} ELSE {})
    <3>1. SUFFICES ASSUME NEW q \in Nodes, NEW x \in ToSet(L2[q])
                   PROVE  x \in ToSet(L[q]) \/ (q = p /\ x = n)
      BY Zenon
    <3>2. PICK i \in 1..Len(L2[q]) : x = L2[q][i]
      BY <1>7, <3>1
    <3>3. i \in 1..Len(L[q]) /\ L2[q][i] = IF q = p /\ i = k THEN n ELSE L[q][i]
      BY <1>4, <3>2
    <3> HIDE DEF L2
    <3>4. QED BY <1>7, <3>2, <3>3
  <2> HIDE DEF L2
  <2>2. QED BY <2>1, OneMoreChild
<1>10. \A q \in Nodes \ S : L2[q] = << >>
  BY <1>3 DEF Forest
<1>11. \A q \in Nodes : \A i \in 1..Len(L[q]) : L[q][i] = old <=> q = p /\ i = k
  BY <1>1 DEF Forest, Disjoint
<1>12. ListedBy(L2) = (ListedBy(L) \ {old}) \cup {n}
  <2>1. \A x : x \in ListedBy(L2) <=> \E q \in Nodes : x \in ToSet(L2[q])
    BY ListedMeans
  <2>2. \A x : x \in ListedBy(L) <=> \E q \in Nodes : x \in ToSet(L[q])
    BY ListedMeans
  <2>3. ASSUME NEW x \in ListedBy(L2) PROVE x \in (ListedBy(L) \ {old}) \cup {n}
    <3>1. PICK q \in Nodes : x \in ToSet(L2[q])
      BY <2>1
    <3>2. PICK i \in 1..Len(L2[q]) : x = L2[q][i]
      BY <3>1, <1>7
    <3>3. i \in 1..Len(L[q]) /\ x = IF q = p /\ i = k THEN n ELSE L[q][i]
      BY <1>4, <3>2
    <3>4. CASE q = p /\ i = k
      BY <3>3, <3>4
    <3>5. CASE ~ (q = p /\ i = k)
      <4>1. x = L[q][i] /\ x # old /\ x \in ToSet(L[q])
        BY <3>3, <3>5, <1>7, <1>11
      <4>2. QED BY <4>1, <2>2
    <3>6. QED BY <3>4, <3>5
  <2>4. n \in ListedBy(L2)
    <3>1. k \in 1..Len(L2[p]) /\ L2[p][k] = n
      BY <1>2, <1>3
    <3> HIDE DEF L2
    <3>2. QED BY <3>1, <2>1, <1>1, <1>7
  <2>5. ASSUME NEW x \in ListedBy(L), x # old PROVE x \in ListedBy(L2)
    <3>1. PICK q \in Nodes : x \in ToSet(L[q])
      BY <2>2
    <3>2. PICK i \in 1..Len(L[q]) : x = L[q][i]
      BY <3>1, <1>7, ZenonT(40)
    <3>3. i \in 1..Len(L2[q]) /\ L2[q][i] = x
      BY <1>4, <1>5, <3>2, <2>5
    <3> HIDE DEF L2
    <3>4. QED BY <3>3, <2>1, <1>7
  <2>6. QED BY <2>3, <2>4, <2>5
<1>13. L2 = Exchanging(L, p, k, n)
  BY DEF Exchanging, t
<1>14. QED BY <1>1, <1>3, <1>8, <1>9, <1>10, <1>12, <1>13 DEF Forest

\* L without the lists of the items of F.
Dropped(L, F) == [n \in Nodes |-> IF n \in F THEN << >> ELSE L[n]]
\* The lists of T for the items of F, and of L for the others.
Joined(L, T, F) == [n \in Nodes |-> IF n \in F THEN T[n] ELSE L[n]]

\* A sequence of members of C.
LEMMA InSeq ==
  ASSUME NEW S, NEW s \in Seq(S), NEW C, \A i \in 1..Len(s) : s[i] \in C
  PROVE  s \in Seq(C)
OBVIOUS

\* Without a tree that nobody lists, the other lists are a forest.
LEMMA DroppedForest ==
  ASSUME NEW S, NEW L, Forest(S, L), NEW n \in S \ ListedBy(L)
  PROVE  LET F == FamilyOf(L, n)
         IN  Forest(S \ F, Dropped(L, F)) /\ ListedBy(Dropped(L, F)) = ListedBy(L) \ F
<1> DEFINE F == FamilyOf(L, n)
           L2 == Dropped(L, F)
<1>1. S \subseteq Nodes /\ n \in S /\ L \in [Nodes -> Seq(S)] /\ L \in [Nodes -> Seq(Nodes)]
        /\ \A q \in Nodes : L[q] \in Seq(S) /\ Len(L[q]) \in Nat
  BY ForestLists DEF Forest
<1>2. F \subseteq S /\ n \in F /\ \A y \in F : ToSet(L[y]) \subseteq F
  BY <1>1, FamilyWithin
<1>3. \A q \in Nodes : \A x : x \in ToSet(L[q]) <=> \E i \in 1..Len(L[q]) : x = L[q][i]
  BY <1>1, Members
<1>4. ASSUME NEW q \in Nodes \ F, NEW i \in 1..Len(L[q]) PROVE L[q][i] \in S \ F
  <2> DEFINE x == L[q][i]
  <2>1. x \in S /\ x \in ToSet(L[q])
    BY <1>1, <1>3
  <2>2. x # n
    BY <2>1 DEF ListedBy
  <2>3. ASSUME x \in F PROVE FALSE
    <3> HIDE DEF x
    <3>1. PICK p \in F : x \in ToSet(L[p])
      BY <1>1, <2>2, <2>3, ParentsInFamily
    <3>2. p \in Nodes
      BY <1>1, <1>2
    <3>3. PICK j \in 1..Len(L[p]) : x = L[p][j]
      BY <1>3, <3>1, <3>2
    <3>4. p = q
      BY <3>2, <3>3, OnePlace DEF Forest, x
    <3>5. QED BY <3>4, <1>4
  <2>4. QED BY <2>1, <2>3
<1>5. ASSUME NEW q \in Nodes \ F PROVE L[q] \in Seq(S \ F)
  <2>1. L[q] \in Seq(S) /\ \A i \in 1..Len(L[q]) : L[q][i] \in S \ F
    BY <1>1, <1>4
  <2> HIDE DEF F
  <2>2. QED BY <2>1, InSeq
<1> HIDE DEF F
<1>6. L2 \in [Nodes -> Seq(S \ F)] /\ \A q \in Nodes : L2[q] = IF q \in F THEN << >> ELSE L[q]
  BY <1>5 DEF Dropped
<1> HIDE DEF L2
<1>7. \A q \in Nodes : ToSet(L2[q]) = IF q \in F THEN {} ELSE ToSet(L[q])
  <2>1. ToSet(<< >>) = {}
    BY DEF ToSet
  <2>2. QED BY <1>6, <2>1
<1>8. Rooted(L2)
  <2>1. \A q \in Nodes : ToSet(L2[q]) \subseteq ToSet(L[q])
    BY <1>7
  <2>2. QED BY <2>1, FewerChildren DEF Forest
<1>9. Disjoint(L2)
  <2>1. SUFFICES ASSUME NEW q \in Nodes, NEW r \in Nodes,
                        NEW i \in 1..Len(L2[q]), NEW j \in 1..Len(L2[r]), L2[q][i] = L2[r][j]
                 PROVE  q = r /\ i = j
    BY DEF Disjoint
  <2>2. L2[q] = L[q] /\ L2[r] = L[r]
    BY <1>6, <2>1
  <2>3. QED BY <2>1, <2>2, OnePlace DEF Forest
<1>10. \A q \in Nodes \ (S \ F) : L2[q] = << >>
  BY <1>6 DEF Forest
<1>11. ListedBy(L2) = ListedBy(L) \ F
  <2>1. \A x : x \in ListedBy(L2) <=> \E q \in Nodes : x \in ToSet(L2[q])
    BY ListedMeans
  <2>2. \A x : x \in ListedBy(L) <=> \E q \in Nodes : x \in ToSet(L[q])
    BY ListedMeans
  <2>3. ASSUME NEW x PROVE x \in ListedBy(L2) => x \in ListedBy(L) /\ x \notin F
    BY <2>1, <2>2, <1>3, <1>4, <1>7
  <2>4. ASSUME NEW x PROVE x \in ListedBy(L) /\ x \notin F => x \in ListedBy(L2)
    BY <2>1, <2>2, <1>2, <1>7
  <2>5. QED BY <2>3, <2>4
<1>12. QED BY <1>1, <1>6, <1>8, <1>9, <1>10, <1>11 DEF Forest, F, L2

\* Two forests that share no item are one.
LEMMA JoinedForest ==
  ASSUME NEW S, NEW L, Forest(S, L), NEW F, NEW T, Forest(F, T), S \cap F = {}
  PROVE  /\ Forest(S \cup F, Joined(L, T, F))
         /\ \A x : x \in ListedBy(Joined(L, T, F)) <=> x \in ListedBy(L) \/ x \in ListedBy(T)
<1> DEFINE L2 == Joined(L, T, F)
<1>1. /\ S \subseteq Nodes /\ L \in [Nodes -> Seq(S)] /\ F \subseteq Nodes /\ T \in [Nodes -> Seq(F)]
      /\ \A q \in Nodes : L[q] \in Seq(S) /\ T[q] \in Seq(F)
      /\ \A q \in Nodes \ S : L[q] = << >>
      /\ \A q \in Nodes \ F : T[q] = << >>
  BY DEF Forest
<1>2. \A q \in Nodes : L[q] \in Seq(S \cup F) /\ T[q] \in Seq(S \cup F)
  BY <1>1, SeqMonotonic
<1>3. L2 \in [Nodes -> Seq(S \cup F)] /\ \A q \in Nodes : L2[q] = IF q \in F THEN T[q] ELSE L[q]
  BY <1>2 DEF Joined
<1> HIDE DEF L2
<1>4. \A q \in Nodes : ToSet(L[q]) \subseteq S /\ ToSet(T[q]) \subseteq F
  BY <1>1 DEF ToSet
<1>5. ToSet(<< >>) = {}
  BY DEF ToSet
<1>6. \A q \in Nodes : ToSet(L2[q]) = ToSet(L[q]) \cup ToSet(T[q])
  <2>1. SUFFICES ASSUME NEW q \in Nodes PROVE ToSet(L2[q]) = ToSet(L[q]) \cup ToSet(T[q])
    OBVIOUS
  <2>2. CASE q \in F
    BY <1>1, <1>3, <1>5, <2>2
  <2>3. CASE q \notin F
    BY <1>1, <1>3, <1>5, <2>3
  <2>4. QED BY <2>2, <2>3
<1>7. Rooted(L2)
  <2>1. SUFFICES ASSUME NEW D \in SUBSET Nodes, D # {}
                 PROVE  \E x \in D : \A q \in D : x \notin ToSet(L2[q])
    BY DEF Rooted
  <2>2. CASE D \cap F # {}
    <3>1. PICK x \in D \cap F : \A q \in D \cap F : x \notin ToSet(T[q])
      BY <2>2, ZenonT(40) DEF Forest, Rooted
    <3>2. \A q \in D : x \notin ToSet(L2[q])
      <4>1. SUFFICES ASSUME NEW q \in D PROVE x \notin ToSet(L2[q])
        OBVIOUS
      <4>2. x \notin ToSet(L[q])
        BY <1>4, <3>1
      <4>3. x \notin ToSet(T[q])
        BY <1>1, <1>5, <3>1
      <4>4. QED BY <1>6, <4>2, <4>3
    <3>3. QED BY <3>2
  <2>3. CASE D \cap F = {}
    <3>1. PICK x \in D : \A q \in D : x \notin ToSet(L[q])
      BY <2>1 DEF Forest, Rooted
    <3>2. \A q \in D : x \notin ToSet(L2[q])
      BY <1>4, <1>6, <2>3, <3>1
    <3>3. QED BY <3>2
  <2>4. QED BY <2>2, <2>3
<1>8. Disjoint(L2)
  <2>1. SUFFICES ASSUME NEW q \in Nodes, NEW r \in Nodes,
                        NEW i \in 1..Len(L2[q]), NEW j \in 1..Len(L2[r]), L2[q][i] = L2[r][j]
                 PROVE  q = r /\ i = j
    BY DEF Disjoint
  <2>2. \A x \in Nodes : \A y \in 1..Len(L2[x]) : L2[x][y] \in F <=> x \in F
    <3>1. \A x \in Nodes : \A y \in 1..Len(L[x]) : L[x][y] \in S
      BY <1>1
    <3>2. \A x \in Nodes : \A y \in 1..Len(T[x]) : T[x][y] \in F
      BY <1>1
    <3>3. QED BY <1>3, <3>1, <3>2
  <2>3. CASE q \in F /\ r \in F
    BY <1>3, <2>1, <2>3, OnePlace, SMTT(30) DEF Forest
  <2>4. CASE q \notin F /\ r \notin F
    BY <1>3, <2>1, <2>4, OnePlace, SMTT(30) DEF Forest
  <2>5. QED BY <2>1, <2>2, <2>3, <2>4
<1>9. \A q \in Nodes \ (S \cup F) : L2[q] = << >>
  BY <1>1, <1>3
<1>10. ListedBy(L2) = ListedBy(L) \cup ListedBy(T)
  <2>1. \A x : x \in ListedBy(L2) <=> \E q \in Nodes : x \in ToSet(L2[q])
    BY ListedMeans
  <2>2. \A x : x \in ListedBy(L) <=> \E q \in Nodes : x \in ToSet(L[q])
    BY ListedMeans
  <2>3. \A x : x \in ListedBy(T) <=> \E q \in Nodes : x \in ToSet(T[q])
    BY ListedMeans
  <2>4. ASSUME NEW x PROVE x \in ListedBy(L2) <=> x \in ListedBy(L) \/ x \in ListedBy(T)
    BY <2>1, <2>2, <2>3, <1>6
  <2>5. QED BY <2>4
<1>11. QED BY <1>1, <1>3, <1>7, <1>8, <1>9, <1>10 DEF Forest, L2

-----------------------------------------------------------------------------
(* How pointers change when a list does.                                   *)

\* The first item's prev is the last one.
Before(s, i) == IF i = 1 THEN s[Len(s)] ELSE s[i - 1]
Prevs(m, L) == \A p \in Nodes : \A i \in 1..Len(L[p]) : m[L[p][i]].prev = Before(L[p], i)
Loose(m, S, L) == \A n \in S \ ListedBy(L) : m[n].next = NULL /\ m[n].prev = NULL

Linked(m, S, L) == Forest(S, L) /\ Heads(m, S, L) /\ Nexts(m, L) /\ Prevs(m, L) /\ Loose(m, S, L)

\* m2 is m after the pointers were changed that put n at k of s, p's list.
PutIn(m, m2, p, s, k, n) ==
  \A x \in Nodes :
    /\ m2[x].ref = m[x].ref
    /\ m2[x].child = IF x = p /\ k = 1 THEN n ELSE m[x].child
    /\ m2[x].next = IF x = n THEN (IF k <= Len(s) THEN s[k] ELSE NULL)
                    ELSE IF k > 1 /\ x = s[k - 1] THEN n ELSE m[x].next
    /\ m2[x].prev = IF x = n THEN (IF s = << >> THEN n ELSE IF k = 1 THEN s[Len(s)] ELSE s[k - 1])
                    ELSE IF k <= Len(s) THEN (IF x = s[k] THEN n ELSE m[x].prev)
                    ELSE IF s # << >> /\ x = s[1] THEN n ELSE m[x].prev

\* The pointers of a list follow it when an item is put in it.
LEMMA InsertedLinks ==
  ASSUME NEW m, NEW S, NEW L, Linked(m, S, L), NEW p \in S, ~ m[p].ref,
         NEW n \in S, n \notin ListedBy(L), p \notin FamilyOf(L, n), NEW k \in 1..(Len(L[p]) + 1),
         NEW m2, PutIn(m, m2, p, L[p], k, n)
  PROVE  Linked(m2, S, Putting(L, p, k, n))
<1> DEFINE s == L[p]
           t == InsertAt(s, k, n)
           L2 == [L EXCEPT ![p] = t]
<1>1. /\ p \in Nodes /\ n \in Nodes /\ S \subseteq Nodes /\ L \in [Nodes -> Seq(S)]
      /\ s \in Seq(S) /\ Len(s) \in Nat /\ p # n /\ Forest(S, L) /\ Disjoint(L)
      /\ \A q \in Nodes : L[q] \in Seq(S) /\ Len(L[q]) \in Nat
  BY ForestLists, FamilyWithin DEF Linked, Forest
<1>2. /\ t \in Seq(S) /\ Len(t) = Len(s) + 1
      /\ \A i \in 1..(Len(s) + 1) : t[i] = IF i < k THEN s[i] ELSE IF i = k THEN n ELSE s[i - 1]
  <2>1. k \in 1..(Len(s) + 1)
    OBVIOUS
  <2>2. IsInserted(InsertAt(s, k, n), S, s, k, n)
    BY <1>1, <2>1, Inserted
  <2>3. QED BY <2>2 DEF IsInserted
<1>3. Forest(S, L2) /\ ListedBy(L2) = ListedBy(L) \cup {n}
  <2>1. Forest(S, Putting(L, p, k, n)) /\ ListedBy(Putting(L, p, k, n)) = ListedBy(L) \cup {n}
    BY <1>1, InsertedForest
  <2>2. QED BY <2>1 DEF Putting
<1> HIDE DEF t
<1>4. L2 \in [Nodes -> Seq(S)] /\ L2[p] = t /\ \A q \in Nodes : q # p => L2[q] = L[q]
  BY <1>1, <1>2
<1>5. \A q \in Nodes : \A i \in 1..Len(L[q]) : L[q][i] # n /\ L[q][i] \in Nodes /\ L[q][i] \in ListedBy(L)
  BY <1>1 DEF ListedBy, ToSet
<1>6. \A q \in Nodes : \A i \in 1..Len(L[q]), j \in 1..Len(s) : L[q][i] = s[j] <=> q = p /\ i = j
  BY <1>1, OnePlace
<1> HIDE DEF L2
<1>7. Heads(m2, S, L2)
  <2>1. SUFFICES ASSUME NEW x \in S
                 PROVE  IF m2[x].ref THEN L2[x] = << >> ELSE m2[x].child = First(L2[x])
    BY DEF Heads
  <2>2. /\ x \in Nodes /\ m2[x].ref = m[x].ref /\ (IF m[x].ref THEN L[x] = << >> ELSE m[x].child = First(L[x]))
        /\ m2[x].child = IF x = p /\ k = 1 THEN n ELSE m[x].child
    BY <1>1 DEF Linked, Heads, PutIn
  <2>3. CASE x # p
    BY <2>2, <2>3, <1>4
  <2>4. CASE x = p
    <3>1. L2[x] = t /\ t # << >> /\ First(t) = t[1] /\ 1 \in 1..(Len(s) + 1)
      BY <1>1, <1>2, <1>4, <2>4 DEF First
    <3>2. CASE k = 1
      BY <1>2, <2>2, <2>4, <3>1, <3>2
    <3>3. CASE k # 1
      <4>1. 1 < k /\ s # << >>
        BY <1>1, <3>3
      <4>2. t[1] = s[1] /\ First(s) = s[1]
        BY <1>2, <3>1, <4>1 DEF First
      <4>3. QED BY <2>2, <2>4, <3>1, <3>3, <4>2
    <3>4. QED BY <3>2, <3>3
  <2>5. QED BY <2>3, <2>4
<1>8. Nexts(m2, L2)
  <2>1. SUFFICES ASSUME NEW q \in Nodes, NEW i \in 1..Len(L2[q])
                 PROVE  m2[L2[q][i]].next = After(L2[q], i)
    BY DEF Nexts
  <2>2. CASE q # p
    <3>1. i \in 1..Len(L[q]) /\ L2[q] = L[q] /\ L[q][i] \in Nodes /\ L[q][i] # n
      BY <1>4, <1>5, <2>2
    <3>2. k > 1 => L[q][i] # s[k - 1]
      <4>1. k > 1 => k - 1 \in 1..Len(s)
        BY <1>1
      <4>2. QED BY <1>6, <2>2, <3>1, <4>1
    <3>3. m2[L[q][i]].next = m[L[q][i]].next
      BY <3>1, <3>2 DEF PutIn
    <3>4. m[L[q][i]].next = After(L[q], i)
      BY <3>1 DEF Linked, Nexts
    <3>5. QED BY <3>1, <3>3, <3>4
  <2>3. CASE q = p
    <3>0. L2[q] = t /\ i \in 1..(Len(s) + 1)
      BY <1>2, <1>4, <2>3
    <3>1. CASE i = k
      <4>1. t[i] = n /\ m2[n].next = IF k <= Len(s) THEN s[k] ELSE NULL
        BY <1>1, <1>2, <3>0, <3>1 DEF PutIn
      <4>2. CASE k <= Len(s)
        <5>1. i # Len(t) /\ i + 1 \in 1..(Len(s) + 1) /\ ~ (i + 1 < k) /\ i + 1 # k /\ (i + 1) - 1 = k
          BY <1>1, <1>2, <3>1, <4>2
        <5>2. After(t, i) = s[k]
          BY <1>2, <5>1 DEF After
        <5>3. QED BY <3>0, <4>1, <4>2, <5>2
      <4>3. CASE k > Len(s)
        <5>1. i = Len(t)
          BY <1>1, <1>2, <3>1, <4>3
        <5>2. QED BY <1>1, <3>0, <4>1, <4>3, <5>1 DEF After
      <4>4. QED BY <1>1, <4>2, <4>3
    <3>2. CASE i < k
      <4>1. i \in 1..Len(s) /\ t[i] = s[i] /\ s[i] # n /\ s[i] \in Nodes
        BY <1>1, <1>2, <1>5, <3>0, <3>2
      <4>2. CASE i = k - 1
        <5>1. k > 1 /\ m2[s[i]].next = n
          BY <4>1, <4>2 DEF PutIn
        <5>2. i # Len(t) /\ i + 1 = k /\ k \in 1..(Len(s) + 1)
          BY <1>1, <1>2, <4>2, <3>0
        <5>3. After(t, i) = n
          BY <1>2, <5>2 DEF After
        <5>4. QED BY <3>0, <4>1, <5>1, <5>3
      <4>3. CASE i # k - 1
        <5>1. i + 1 < k /\ i + 1 \in 1..(Len(s) + 1) /\ i # Len(t) /\ i # Len(s)
          BY <1>1, <1>2, <3>0, <3>2, <4>3
        <5>2. After(t, i) = s[i + 1] /\ After(s, i) = s[i + 1]
          BY <1>2, <5>1 DEF After
        <5>3. k > 1 => s[i] # s[k - 1]
          <6>1. k > 1 => k - 1 \in 1..Len(s)
            BY <1>1
          <6>2. QED BY <1>1, <1>6, <4>1, <4>3, <6>1
        <5>4. m2[s[i]].next = m[s[i]].next
          BY <4>1, <5>3 DEF PutIn
        <5>5. m[s[i]].next = After(s, i)
          BY <1>1, <4>1 DEF Linked, Nexts
        <5>6. QED BY <3>0, <4>1, <5>2, <5>4, <5>5
      <4>4. QED BY <4>2, <4>3
    <3>3. CASE i > k
      <4>1. i - 1 \in 1..Len(s) /\ ~ (i < k) /\ i # k
        BY <1>1, <3>0, <3>3
      <4>2. t[i] = s[i - 1] /\ s[i - 1] # n /\ s[i - 1] \in Nodes
        BY <1>1, <1>2, <1>5, <3>0, <4>1
      <4>3. k > 1 => s[i - 1] # s[k - 1]
        <5>1. (k > 1 => k - 1 \in 1..Len(s)) /\ i - 1 # k - 1
          BY <1>1, <4>1
        <5>2. \A j \in 1..Len(s) : s[i - 1] = s[j] => i - 1 = j
          BY <1>1, <1>6, <4>1
        <5>3. QED BY <5>1, <5>2
      <4>4. m2[s[i - 1]].next = m[s[i - 1]].next
        BY <4>2, <4>3 DEF PutIn
      <4>5. m[s[i - 1]].next = After(s, i - 1)
        BY <1>1, <4>1 DEF Linked, Nexts
      <4>6. After(s, i - 1) = After(t, i)
        <5>1. CASE i = Len(t)
          <6>1. i - 1 = Len(s)
            BY <1>1, <1>2, <5>1
          <6>2. QED BY <5>1, <6>1 DEF After
        <5>2. CASE i # Len(t)
          <6>0. i \in 1..Len(s) /\ k \in Nat /\ i > k
            <7>1. i # Len(s) + 1
              BY <1>2, <5>2
            <7>2. Len(s) \in Nat /\ i \in 1..(Len(s) + 1)
              BY <1>1, <3>0
            <7>3. i \in 1..Len(s)
              BY <7>1, <7>2
            <7>4. k \in Nat
              BY <1>1
            <7>5. QED BY <7>3, <7>4, <3>3
          <6>1. i - 1 # Len(s) /\ (i - 1) + 1 = i /\ i + 1 \in 1..(Len(s) + 1) /\ ~ (i + 1 < k) /\ i + 1 # k
                  /\ (i + 1) - 1 = i
            BY <1>1, <6>0
          <6>2. t[i + 1] = s[i]
            BY <1>2, <6>1
          <6>3. QED BY <5>2, <6>1, <6>2 DEF After
        <5>3. QED BY <5>1, <5>2
      <4>7. QED BY <3>0, <4>2, <4>4, <4>5, <4>6
    <3>4. i = k \/ i < k \/ i > k
      BY <1>1, <3>0
    <3>5. QED BY <3>1, <3>2, <3>3, <3>4
  <2>4. QED BY <2>2, <2>3
<1>9. Prevs(m2, L2)
  <2>1. SUFFICES ASSUME NEW q \in Nodes, NEW i \in 1..Len(L2[q])
                 PROVE  m2[L2[q][i]].prev = Before(L2[q], i)
    BY DEF Prevs
  <2>2. CASE q # p
    <3>1. i \in 1..Len(L[q]) /\ L2[q] = L[q] /\ L[q][i] \in Nodes /\ L[q][i] # n
      BY <1>4, <1>5, <2>2
    <3>2. (k <= Len(s) => L[q][i] # s[k]) /\ (s # << >> => L[q][i] # s[1])
      <4>1. (k <= Len(s) => k \in 1..Len(s)) /\ (s # << >> => 1 \in 1..Len(s))
        BY <1>1
      <4>2. QED BY <1>6, <2>2, <3>1, <4>1
    <3>3. m2[L[q][i]].prev = m[L[q][i]].prev
      BY <3>1, <3>2 DEF PutIn
    <3>4. m[L[q][i]].prev = Before(L[q], i)
      BY <3>1 DEF Linked, Prevs
    <3>5. QED BY <3>1, <3>3, <3>4
  <2>3. CASE q = p
    <3>0. L2[q] = t /\ i \in 1..(Len(s) + 1)
      BY <1>2, <1>4, <2>3
    <3>1. CASE i = k
      <4>1. t[i] = n /\ m2[n].prev = IF s = << >> THEN n ELSE IF k = 1 THEN s[Len(s)] ELSE s[k - 1]
        BY <1>1, <1>2, <3>0, <3>1 DEF PutIn
      <4>2. CASE k = 1
        <5>1. Before(t, i) = t[Len(s) + 1]
          BY <1>2, <3>1, <4>2 DEF Before
        <5>2. t[Len(s) + 1] = IF s = << >> THEN n ELSE s[Len(s)]
          BY <1>1, <1>2, <4>2
        <5>3. QED BY <3>0, <4>1, <4>2, <5>1, <5>2
      <4>3. CASE k # 1
        <5>1. i # 1 /\ i - 1 \in 1..(Len(s) + 1) /\ i - 1 < k /\ s # << >>
          BY <1>1, <3>0, <3>1, <4>3
        <5>2. Before(t, i) = s[k - 1]
          BY <1>2, <3>1, <5>1 DEF Before
        <5>3. QED BY <3>0, <4>1, <4>3, <5>1, <5>2
      <4>4. QED BY <4>2, <4>3
    <3>2. CASE i < k
      <4>1. i \in 1..Len(s) /\ t[i] = s[i] /\ s[i] # n /\ s[i] \in Nodes /\ s # << >>
        BY <1>1, <1>2, <1>5, <3>0, <3>2
      <4>2. m[s[i]].prev = Before(s, i)
        BY <1>1, <4>1 DEF Linked, Prevs
      <4>3. CASE k <= Len(s)
        <5>1. s[i] # s[k]
          <6>1. k \in 1..Len(s) /\ i # k
            BY <1>1, <3>2, <4>3
          <6>2. QED BY <1>1, <1>6, <4>1, <6>1
        <5>2. m2[s[i]].prev = m[s[i]].prev
          BY <4>1, <4>3, <5>1 DEF PutIn
        <5>3. Before(t, i) = Before(s, i)
          <6>1. CASE i = 1
            <7>1. Before(t, i) = t[Len(s) + 1] /\ Before(s, i) = s[Len(s)]
              BY <1>2, <6>1 DEF Before
            <7>2. Len(s) + 1 \in 1..(Len(s) + 1) /\ ~ (Len(s) + 1 < k) /\ Len(s) + 1 # k /\ (Len(s) + 1) - 1 = Len(s)
              BY <1>1, <4>3
            <7>3. t[Len(s) + 1] = s[Len(s)]
              BY <1>2, <7>2
            <7>4. QED BY <7>1, <7>3
          <6>2. CASE i # 1
            <7>1. i - 1 \in 1..(Len(s) + 1) /\ i - 1 < k
              BY <1>1, <3>0, <3>2, <6>2
            <7>2. QED BY <1>2, <6>2, <7>1 DEF Before
          <6>3. QED BY <6>1, <6>2
        <5>4. QED BY <3>0, <4>1, <4>2, <5>2, <5>3
      <4>4. CASE k > Len(s)
        <5>1. k = Len(s) + 1 /\ ~ (k <= Len(s))
          BY <1>1, <4>4
        <5>2. CASE i = 1
          <6>1. m2[s[i]].prev = n
            BY <4>1, <5>1, <5>2 DEF PutIn
          <6>2. Before(t, i) = t[k] /\ k \in 1..(Len(s) + 1)
            BY <1>2, <5>1, <5>2 DEF Before
          <6>3. t[k] = n
            BY <1>1, <1>2, <6>2
          <6>4. QED BY <3>0, <4>1, <6>1, <6>2, <6>3
        <5>3. CASE i # 1
          <6>1. s[i] # s[1]
            <7>1. 1 \in 1..Len(s)
              BY <1>1, <4>1
            <7>2. QED BY <1>1, <1>6, <4>1, <5>3, <7>1
          <6>2. m2[s[i]].prev = m[s[i]].prev
            BY <4>1, <5>1, <6>1 DEF PutIn
          <6>3. i - 1 \in 1..(Len(s) + 1) /\ i - 1 < k
            BY <1>1, <3>0, <3>2, <5>3
          <6>4. Before(t, i) = s[i - 1] /\ Before(s, i) = s[i - 1]
            BY <1>2, <5>3, <6>3 DEF Before
          <6>5. QED BY <3>0, <4>1, <4>2, <6>2, <6>4
        <5>4. QED BY <5>2, <5>3
      <4>5. QED BY <1>1, <4>3, <4>4
    <3>3. CASE i > k
      <4>1. i - 1 \in 1..Len(s) /\ ~ (i < k) /\ i # k /\ k <= Len(s) /\ k \in 1..Len(s) /\ i # 1 /\ s # << >>
        BY <1>1, <3>0, <3>3
      <4>2. t[i] = s[i - 1] /\ s[i - 1] # n /\ s[i - 1] \in Nodes
        BY <1>1, <1>2, <1>5, <3>0, <4>1
      <4>3. CASE i - 1 = k
        <5>1. m2[s[i - 1]].prev = n
          BY <4>1, <4>2, <4>3 DEF PutIn
        <5>2. Before(t, i) = t[k]
          BY <4>1, <4>3 DEF Before
        <5>3. t[k] = n
          BY <1>1, <1>2
        <5>4. QED BY <3>0, <4>2, <5>1, <5>2, <5>3
      <4>4. CASE i - 1 # k
        <5>1. s[i - 1] # s[k]
          BY <1>1, <1>6, <4>1, <4>4
        <5>2. m2[s[i - 1]].prev = m[s[i - 1]].prev
          BY <4>1, <4>2, <5>1 DEF PutIn
        <5>3. m[s[i - 1]].prev = Before(s, i - 1)
          BY <1>1, <4>1 DEF Linked, Prevs
        <5>4. /\ i - 1 # 1 /\ i - 1 \in 1..(Len(s) + 1) /\ ~ (i - 1 < k)
              /\ (i - 1) - 1 = i - 2
          BY <1>1, <3>3, <4>1, <4>4
        <5>5. Before(s, i - 1) = s[i - 2] /\ Before(t, i) = t[i - 1] /\ t[i - 1] = s[i - 2]
          BY <1>2, <4>1, <4>4, <5>4 DEF Before
        <5>6. QED BY <3>0, <4>2, <5>2, <5>3, <5>5
      <4>5. QED BY <4>3, <4>4
    <3>4. i = k \/ i < k \/ i > k
      BY <1>1, <3>0
    <3>5. QED BY <3>1, <3>2, <3>3, <3>4
  <2>4. QED BY <2>2, <2>3
<1>10. Loose(m2, S, L2)
  <2>1. SUFFICES ASSUME NEW x \in S \ ListedBy(L2) PROVE m2[x].next = NULL /\ m2[x].prev = NULL
    BY DEF Loose
  <2>2. x \notin ListedBy(L) /\ x # n /\ x \in Nodes
    BY <1>1, <1>3
  <2>3. /\ \A i \in 1..Len(s) : s[i] # x
        /\ k > 1 => k - 1 \in 1..Len(s)
        /\ k <= Len(s) => k \in 1..Len(s)
        /\ s # << >> => 1 \in 1..Len(s)
    BY <1>1, <1>5, <2>2
  <2>4. m2[x].next = m[x].next /\ m2[x].prev = m[x].prev
    BY <2>2, <2>3 DEF PutIn
  <2>5. QED BY <2>1, <2>2, <2>4 DEF Linked, Loose
<1>11. L2 = Putting(L, p, k, n)
  BY DEF L2, t, Putting
<1>12. QED BY <1>3, <1>7, <1>8, <1>9, <1>10, <1>11 DEF Linked

\* m2 is m after the pointers were changed that take the item at k out of s, p's list.
TakenOut(m, m2, p, s, k) ==
  \A x \in Nodes :
    /\ m2[x].ref = m[x].ref
    /\ m2[x].child = IF x = p /\ k = 1 THEN After(s, k) ELSE m[x].child
    /\ m2[x].next = IF x = s[k] THEN NULL ELSE IF k > 1 /\ x = s[k - 1] THEN After(s, k) ELSE m[x].next
    /\ m2[x].prev = IF x = s[k] THEN NULL
                    ELSE IF k < Len(s) THEN (IF x = s[k + 1] THEN Before(s, k) ELSE m[x].prev)
                    ELSE IF k > 1 /\ x = s[1] THEN Before(s, k) ELSE m[x].prev

\* The pointers of a list follow it when an item is taken out.
LEMMA RemovedLinks ==
  ASSUME NEW m, NEW S, NEW L, Linked(m, S, L), NEW p \in S, ~ m[p].ref,
         NEW k \in 1..Len(L[p]), NEW m2, TakenOut(m, m2, p, L[p], k)
  PROVE  Linked(m2, S, Taking(L, p, k))
<1> DEFINE s == L[p]
           t == RemoveAt(s, k)
           n == L[p][k]
           L2 == [L EXCEPT ![p] = t]
<1>1. /\ p \in Nodes /\ n \in Nodes /\ n \in S /\ S \subseteq Nodes /\ L \in [Nodes -> Seq(S)]
      /\ s \in Seq(S) /\ Len(s) \in Nat /\ Forest(S, L) /\ Disjoint(L)
      /\ k \in 1..Len(s) /\ k \in Nat /\ s # << >> /\ 1 \in 1..Len(s)
      /\ \A q \in Nodes : L[q] \in Seq(S) /\ Len(L[q]) \in Nat
  BY ForestLists DEF Linked, Forest
<1>2. /\ t \in Seq(S) /\ Len(t) = Len(s) - 1
      /\ \A i \in 1..(Len(s) - 1) : t[i] = IF i < k THEN s[i] ELSE s[i + 1]
  BY <1>1, Removed
<1>3. Forest(S, L2) /\ ListedBy(L2) = ListedBy(L) \ {n}
  <2>1. Forest(S, Taking(L, p, k)) /\ ListedBy(Taking(L, p, k)) = ListedBy(L) \ {n}
    BY <1>1, RemovedForest
  <2>2. QED BY <2>1 DEF Taking
<1> HIDE DEF t
<1>4. L2 \in [Nodes -> Seq(S)] /\ L2[p] = t /\ \A q \in Nodes : q # p => L2[q] = L[q]
  BY <1>1, <1>2
<1>5. \A q \in Nodes : \A i \in 1..Len(L[q]) : L[q][i] \in Nodes /\ L[q][i] \in ListedBy(L)
  BY <1>1 DEF ListedBy, ToSet
<1>6. \A q \in Nodes : \A i \in 1..Len(L[q]), j \in 1..Len(s) : L[q][i] = s[j] <=> q = p /\ i = j
  BY <1>1, OnePlace
<1> HIDE DEF L2
<1>7. Heads(m2, S, L2)
  <2>1. SUFFICES ASSUME NEW x \in S
                 PROVE  IF m2[x].ref THEN L2[x] = << >> ELSE m2[x].child = First(L2[x])
    BY DEF Heads
  <2>2. /\ x \in Nodes /\ m2[x].ref = m[x].ref /\ (IF m[x].ref THEN L[x] = << >> ELSE m[x].child = First(L[x]))
        /\ m2[x].child = IF x = p /\ k = 1 THEN After(s, k) ELSE m[x].child
    BY <1>1 DEF Linked, Heads, TakenOut
  <2>3. CASE x # p
    BY <2>2, <2>3, <1>4
  <2>4. CASE x = p
    <3>1. First(s) = s[1]
      BY <1>1 DEF First
    <3>2. CASE k = 1
      <4>1. CASE Len(s) = 1
        <5>1. t = << >>
          BY <1>2, <4>1
        <5>2. After(s, k) = NULL
          BY <3>2, <4>1 DEF After
        <5>3. QED BY <1>4, <2>2, <2>4, <3>2, <5>1, <5>2 DEF First
      <4>2. CASE Len(s) # 1
        <5>1. 1 \in 1..(Len(s) - 1) /\ t # << >> /\ k # Len(s)
          BY <1>1, <1>2, <3>2, <4>2
        <5>2. t[1] = s[2] /\ After(s, k) = s[2]
          BY <1>2, <3>2, <5>1 DEF After
        <5>3. QED BY <1>4, <2>2, <2>4, <3>2, <5>1, <5>2 DEF First
      <4>3. QED BY <4>1, <4>2
    <3>3. CASE k # 1
      <4>1. 1 \in 1..(Len(s) - 1) /\ t # << >> /\ 1 < k
        BY <1>1, <1>2, <3>3
      <4>2. t[1] = s[1]
        BY <1>2, <4>1
      <4>3. QED BY <1>4, <2>2, <2>4, <3>1, <3>3, <4>1, <4>2 DEF First
    <3>4. QED BY <3>2, <3>3
  <2>5. QED BY <2>3, <2>4
<1>8. Nexts(m2, L2)
  <2>1. SUFFICES ASSUME NEW q \in Nodes, NEW i \in 1..Len(L2[q])
                 PROVE  m2[L2[q][i]].next = After(L2[q], i)
    BY DEF Nexts
  <2>2. CASE q # p
    <3>1. i \in 1..Len(L[q]) /\ L2[q] = L[q] /\ L[q][i] \in Nodes
      BY <1>4, <1>5, <2>2
    <3>2. L[q][i] # s[k] /\ (k > 1 => L[q][i] # s[k - 1])
      <4>1. k > 1 => k - 1 \in 1..Len(s)
        BY <1>1
      <4>2. QED BY <1>1, <1>6, <2>2, <3>1, <4>1
    <3>3. m2[L[q][i]].next = m[L[q][i]].next
      BY <3>1, <3>2 DEF TakenOut
    <3>4. m[L[q][i]].next = After(L[q], i)
      BY <3>1 DEF Linked, Nexts
    <3>5. QED BY <3>1, <3>3, <3>4
  <2>3. CASE q = p
    <3>0. L2[q] = t /\ i \in 1..(Len(s) - 1)
      BY <1>2, <1>4, <2>3
    <3>1. CASE i < k
      <4>1. i \in 1..Len(s) /\ t[i] = s[i] /\ s[i] \in Nodes
        <5>1. i \in 1..Len(s)
          BY <1>1, <3>0
        <5>2. t[i] = s[i]
          BY <1>2, <3>0, <3>1
        <5>3. QED BY <1>1, <1>5, <5>1, <5>2
      <4>2. s[i] # s[k]
        BY <1>1, <1>6, <3>1, <4>1
      <4>3. CASE i = k - 1
        <5>1. k > 1 /\ m2[s[i]].next = After(s, k)
          BY <1>1, <4>1, <4>2, <4>3, <3>0 DEF TakenOut
        <5>2. After(t, i) = After(s, k)
          <6>1. CASE k = Len(s)
            <7>1. i = Len(t)
              BY <1>2, <4>3, <6>1
            <7>2. QED BY <6>1, <7>1 DEF After
          <6>2. CASE k # Len(s)
            <7>1. i # Len(t) /\ i + 1 = k /\ k \in 1..(Len(s) - 1)
              BY <1>1, <1>2, <4>3, <6>2
            <7>2. t[k] = s[k + 1]
              BY <1>1, <1>2, <7>1
            <7>3. QED BY <6>2, <7>1, <7>2 DEF After
          <6>3. QED BY <6>1, <6>2
        <5>3. QED BY <3>0, <4>1, <5>1, <5>2
      <4>4. CASE i # k - 1
        <5>1. i + 1 < k /\ i + 1 \in 1..(Len(s) - 1) /\ i # Len(t) /\ i # Len(s)
          BY <1>1, <1>2, <3>0, <3>1, <4>4
        <5>2. After(t, i) = s[i + 1] /\ After(s, i) = s[i + 1]
          BY <1>2, <5>1 DEF After
        <5>3. k > 1 => s[i] # s[k - 1]
          <6>1. k > 1 => k - 1 \in 1..Len(s)
            BY <1>1
          <6>2. QED BY <1>1, <1>6, <4>1, <4>4, <6>1
        <5>4. m2[s[i]].next = m[s[i]].next
          BY <4>1, <4>2, <5>3 DEF TakenOut
        <5>5. m[s[i]].next = After(s, i)
          BY <1>1, <4>1 DEF Linked, Nexts
        <5>6. QED BY <3>0, <4>1, <5>2, <5>4, <5>5
      <4>5. QED BY <4>3, <4>4
    <3>2. CASE i >= k
      <4>1. i + 1 \in 1..Len(s) /\ ~ (i < k) /\ i + 1 # k
        BY <1>1, <3>0, <3>2
      <4>2. t[i] = s[i + 1] /\ s[i + 1] \in Nodes
        BY <1>1, <1>2, <1>5, <3>0, <4>1
      <4>3. s[i + 1] # s[k]
        BY <1>1, <1>6, <4>1
      <4>4. k > 1 => s[i + 1] # s[k - 1]
        <5>1. (k > 1 => k - 1 \in 1..Len(s)) /\ i + 1 # k - 1
          BY <1>1, <3>0, <3>2
        <5>2. \A j \in 1..Len(s) : s[i + 1] = s[j] => i + 1 = j
          BY <1>1, <1>6, <4>1
        <5>3. QED BY <5>1, <5>2
      <4>5. m2[s[i + 1]].next = m[s[i + 1]].next
        BY <4>2, <4>3, <4>4 DEF TakenOut
      <4>6. m[s[i + 1]].next = After(s, i + 1)
        BY <1>1, <4>1 DEF Linked, Nexts
      <4>7. After(s, i + 1) = After(t, i)
        <5>1. CASE i = Len(t)
          <6>1. i + 1 = Len(s)
            BY <1>1, <1>2, <5>1
          <6>2. QED BY <5>1, <6>1 DEF After
        <5>2. CASE i # Len(t)
          <6>1. i + 1 # Len(s)
            BY <1>1, <1>2, <5>2, <3>0
          <6>2. i + 1 \in 1..(Len(s) - 1) /\ ~ (i + 1 < k)
            BY <1>1, <3>0, <3>2, <6>1
          <6>3. t[i + 1] = s[(i + 1) + 1]
            BY <1>2, <6>2
          <6>4. QED BY <5>2, <6>1, <6>3 DEF After
        <5>3. QED BY <5>1, <5>2
      <4>8. QED BY <3>0, <4>2, <4>5, <4>6, <4>7
    <3>3. i < k \/ i >= k
      BY <1>1, <3>0
    <3>4. QED BY <3>1, <3>2, <3>3
  <2>4. QED BY <2>2, <2>3
<1>9. Prevs(m2, L2)
  <2>1. SUFFICES ASSUME NEW q \in Nodes, NEW i \in 1..Len(L2[q])
                 PROVE  m2[L2[q][i]].prev = Before(L2[q], i)
    BY DEF Prevs
  <2>2. CASE q # p
    <3>1. i \in 1..Len(L[q]) /\ L2[q] = L[q] /\ L[q][i] \in Nodes
      BY <1>4, <1>5, <2>2
    <3>2. L[q][i] # s[k] /\ (k < Len(s) => L[q][i] # s[k + 1]) /\ L[q][i] # s[1]
      <4>1. k < Len(s) => k + 1 \in 1..Len(s)
        BY <1>1
      <4>2. QED BY <1>1, <1>6, <2>2, <3>1, <4>1
    <3>3. m2[L[q][i]].prev = m[L[q][i]].prev
      BY <3>1, <3>2 DEF TakenOut
    <3>4. m[L[q][i]].prev = Before(L[q], i)
      BY <3>1 DEF Linked, Prevs
    <3>5. QED BY <3>1, <3>3, <3>4
  <2>3. CASE q = p
    <3>0. L2[q] = t /\ i \in 1..(Len(s) - 1)
      BY <1>2, <1>4, <2>3
    <3>1. CASE i < k
      <4>1. i \in 1..Len(s) /\ t[i] = s[i] /\ s[i] \in Nodes
        <5>1. i \in 1..Len(s)
          BY <1>1, <3>0
        <5>2. t[i] = s[i]
          BY <1>2, <3>0, <3>1
        <5>3. QED BY <1>1, <1>5, <5>1, <5>2
      <4>2. s[i] # s[k]
        BY <1>1, <1>6, <3>1, <4>1
      <4>3. m[s[i]].prev = Before(s, i)
        BY <1>1, <4>1 DEF Linked, Prevs
      <4>4. CASE k < Len(s)
        <5>1. s[i] # s[k + 1]
          <6>1. k + 1 \in 1..Len(s) /\ i # k + 1
            BY <1>1, <3>1, <4>4
          <6>2. QED BY <1>1, <1>6, <4>1, <6>1
        <5>2. m2[s[i]].prev = m[s[i]].prev
          BY <4>1, <4>2, <4>4, <5>1 DEF TakenOut
        <5>3. Before(t, i) = Before(s, i)
          <6>1. CASE i = 1
            <7>1. Before(t, i) = t[Len(s) - 1] /\ Before(s, i) = s[Len(s)]
              BY <1>2, <6>1 DEF Before
            <7>2. Len(s) - 1 \in 1..(Len(s) - 1) /\ ~ (Len(s) - 1 < k) /\ (Len(s) - 1) + 1 = Len(s)
              BY <1>1, <4>4
            <7>3. t[Len(s) - 1] = s[Len(s)]
              BY <1>2, <7>2
            <7>4. QED BY <7>1, <7>3
          <6>2. CASE i # 1
            <7>1. i - 1 \in 1..(Len(s) - 1) /\ i - 1 < k
              BY <1>1, <3>0, <3>1, <6>2
            <7>2. QED BY <1>2, <6>2, <7>1 DEF Before
          <6>3. QED BY <6>1, <6>2
        <5>4. QED BY <3>0, <4>1, <4>3, <5>2, <5>3
      <4>5. CASE k = Len(s)
        <5>1. ~ (k < Len(s)) /\ k > 1 /\ k # 1
          <6>1. i \in Nat /\ i >= 1
            BY <3>0
          <6>2. k > 1 /\ k # 1
            BY <1>1, <3>1, <6>1
          <6>3. ~ (k < Len(s))
            BY <1>1, <4>5
          <6>4. QED BY <6>2, <6>3
        <5>2. CASE i = 1
          <6>1. m2[s[i]].prev = s[k - 1]
            BY <4>1, <4>2, <5>1, <5>2 DEF TakenOut, Before
          <6>2. Before(t, i) = t[k - 1]
            BY <1>2, <4>5, <5>2 DEF Before
          <6>3. k - 1 \in 1..(Len(s) - 1) /\ k - 1 < k
            BY <1>1, <4>5, <5>1
          <6>4. t[k - 1] = s[k - 1]
            BY <1>2, <6>3
          <6>5. QED BY <3>0, <4>1, <6>1, <6>2, <6>4
        <5>3. CASE i # 1
          <6>1. s[i] # s[1]
            BY <1>1, <1>6, <4>1, <5>3
          <6>2. m2[s[i]].prev = m[s[i]].prev
            BY <4>1, <4>2, <5>1, <6>1 DEF TakenOut
          <6>3. i - 1 \in 1..(Len(s) - 1) /\ i - 1 < k
            BY <1>1, <3>0, <3>1, <5>3
          <6>4. Before(t, i) = s[i - 1] /\ Before(s, i) = s[i - 1]
            BY <1>2, <5>3, <6>3 DEF Before
          <6>5. QED BY <3>0, <4>1, <4>3, <6>2, <6>4
        <5>4. QED BY <5>2, <5>3
      <4>6. QED BY <1>1, <4>4, <4>5
    <3>2. CASE i >= k
      <4>1. i + 1 \in 1..Len(s) /\ ~ (i < k) /\ i + 1 # k /\ k < Len(s) /\ k + 1 \in 1..Len(s)
        BY <1>1, <3>0, <3>2
      <4>2. t[i] = s[i + 1] /\ s[i + 1] \in Nodes
        BY <1>1, <1>2, <1>5, <3>0, <4>1
      <4>3. s[i + 1] # s[k]
        BY <1>1, <1>6, <4>1
      <4>4. CASE i = k
        <5>1. m2[s[i + 1]].prev = Before(s, k)
          BY <4>1, <4>2, <4>3, <4>4 DEF TakenOut
        <5>2. Before(t, i) = Before(s, k)
          <6>1. CASE k = 1
            <7>1. Before(t, i) = t[Len(s) - 1] /\ Before(s, k) = s[Len(s)]
              BY <1>2, <4>4, <6>1 DEF Before
            <7>2. Len(s) - 1 \in 1..(Len(s) - 1) /\ ~ (Len(s) - 1 < k) /\ (Len(s) - 1) + 1 = Len(s)
              BY <1>1, <4>1, <6>1
            <7>3. t[Len(s) - 1] = s[Len(s)]
              BY <1>2, <7>2
            <7>4. QED BY <7>1, <7>3
          <6>2. CASE k # 1
            <7>1. k - 1 \in 1..(Len(s) - 1) /\ k - 1 < k
              BY <1>1, <6>2
            <7>2. QED BY <1>2, <4>4, <6>2, <7>1 DEF Before
          <6>3. QED BY <6>1, <6>2
        <5>3. QED BY <3>0, <4>2, <5>1, <5>2
      <4>5. CASE i # k
        <5>1. s[i + 1] # s[k + 1]
          <6>1. \A j \in 1..Len(s) : s[i + 1] = s[j] => i + 1 = j
            BY <1>1, <1>6, <4>1
          <6>2. i + 1 # k + 1
            BY <1>1, <3>0, <4>5
          <6>3. QED BY <4>1, <6>1, <6>2
        <5>2. m2[s[i + 1]].prev = m[s[i + 1]].prev
          BY <4>1, <4>2, <4>3, <5>1 DEF TakenOut
        <5>3. m[s[i + 1]].prev = Before(s, i + 1)
          BY <1>1, <4>1 DEF Linked, Prevs
        <5>4. i # 1 /\ i + 1 # 1 /\ (i + 1) - 1 = i /\ i - 1 \in 1..(Len(s) - 1) /\ ~ (i - 1 < k) /\ (i - 1) + 1 = i
          BY <1>1, <3>0, <3>2, <4>5
        <5>5. Before(s, i + 1) = s[i] /\ Before(t, i) = t[i - 1] /\ t[i - 1] = s[i]
          BY <1>2, <5>4 DEF Before
        <5>6. QED BY <3>0, <4>2, <5>2, <5>3, <5>5
      <4>6. QED BY <4>4, <4>5
    <3>3. i < k \/ i >= k
      BY <1>1, <3>0
    <3>4. QED BY <3>1, <3>2, <3>3
  <2>4. QED BY <2>2, <2>3
<1>10. Loose(m2, S, L2)
  <2>1. SUFFICES ASSUME NEW x \in S \ ListedBy(L2) PROVE m2[x].next = NULL /\ m2[x].prev = NULL
    BY DEF Loose
  <2>2. CASE x = n
    BY <1>1, <2>2 DEF TakenOut
  <2>3. CASE x # n
    <3>1. x \notin ListedBy(L) /\ x \in Nodes
      BY <1>1, <1>3, <2>1, <2>3
    <3>2. /\ \A i \in 1..Len(s) : s[i] # x
          /\ k > 1 => k - 1 \in 1..Len(s)
          /\ k < Len(s) => k + 1 \in 1..Len(s)
      BY <1>1, <1>5, <3>1
    <3>3. m2[x].next = m[x].next /\ m2[x].prev = m[x].prev
      BY <1>1, <3>1, <3>2 DEF TakenOut
    <3>4. QED BY <2>1, <3>1, <3>3 DEF Linked, Loose
  <2>4. QED BY <2>2, <2>3
<1>11. L2 = Taking(L, p, k)
  BY DEF L2, t, Taking
<1>12. QED BY <1>3, <1>7, <1>8, <1>9, <1>10, <1>11 DEF Linked

\* m2 is m after the pointers were changed that put n in the place of the item at k of s, p's list.
PutInPlace(m, m2, p, s, k, n) ==
  \A x \in Nodes :
    /\ m2[x].ref = m[x].ref
    /\ m2[x].child = IF x = p /\ k = 1 THEN n ELSE m[x].child
    /\ m2[x].next = IF x = n THEN After(s, k) ELSE IF x = s[k] THEN NULL
                    ELSE IF k > 1 /\ x = s[k - 1] THEN n ELSE m[x].next
    /\ m2[x].prev = IF x = n THEN (IF Len(s) = 1 THEN n ELSE Before(s, k)) ELSE IF x = s[k] THEN NULL
                    ELSE IF k < Len(s) THEN (IF x = s[k + 1] THEN n ELSE m[x].prev)
                    ELSE IF k > 1 /\ x = s[1] THEN n ELSE m[x].prev

\* To exchange an item is to take it out and to put the other one there.
LEMMA ExchangedInTwo ==
  ASSUME NEW S, NEW s \in Seq(S), NEW n \in S, NEW k \in 1..Len(s)
  PROVE  ReplaceAt(s, k, n) = InsertAt(RemoveAt(s, k), k, n)
<1> DEFINE t == RemoveAt(s, k)
           u == InsertAt(t, k, n)
           v == ReplaceAt(s, k, n)
<1>1. t \in Seq(S) /\ Len(t) = Len(s) - 1 /\ \A i \in 1..(Len(s) - 1) : t[i] = IF i < k THEN s[i] ELSE s[i + 1]
  BY Removed
<1>2. Len(s) \in Nat /\ k \in 1..(Len(t) + 1) /\ k \in Nat
  BY <1>1
<1> HIDE DEF t
<1>3. u \in Seq(S) /\ Len(u) = Len(t) + 1
      /\ \A i \in 1..(Len(t) + 1) : u[i] = IF i < k THEN t[i] ELSE IF i = k THEN n ELSE t[i - 1]
  <2>1. IsInserted(u, S, t, k, n)
    BY <1>1, <1>2, Inserted
  <2>2. QED BY <2>1 DEF IsInserted
<1>4. v \in Seq(S) /\ Len(v) = Len(s) /\ \A i \in 1..Len(s) : v[i] = IF i = k THEN n ELSE s[i]
  BY Exchanged
<1> HIDE DEF u, v
<1>5. Len(u) = Len(v)
  BY <1>1, <1>2, <1>3, <1>4
<1>6. \A i \in 1..Len(v) : u[i] = v[i]
  <2>1. SUFFICES ASSUME NEW i \in 1..Len(v) PROVE u[i] = v[i]
    OBVIOUS
  <2>2. i \in Nat /\ i \in 1..(Len(t) + 1) /\ i \in 1..Len(s)
    BY <1>1, <1>2, <1>3, <1>4, <1>5, <2>1
  <2>3. CASE i < k
    <3>1. i \in 1..(Len(s) - 1) /\ i # k
      BY <1>1, <1>2, <2>2, <2>3
    <3>2. QED BY <1>1, <1>3, <1>4, <2>2, <2>3, <3>1
  <2>4. CASE i = k
    <3>1. ~ (i < k)
      BY <1>2, <2>2, <2>4
    <3>2. QED BY <1>3, <1>4, <2>2, <2>4, <3>1
  <2>5. CASE i > k
    <3>1. i - 1 \in 1..(Len(s) - 1) /\ ~ (i - 1 < k) /\ (i - 1) + 1 = i /\ i # k /\ ~ (i < k)
      BY <1>1, <1>2, <2>2, <2>5
    <3>2. QED BY <1>1, <1>3, <1>4, <2>2, <3>1
  <2>6. i < k \/ i = k \/ i > k
    BY <1>2, <2>2
  <2>7. QED BY <2>3, <2>4, <2>5, <2>6
<1>7. u = v
  BY <1>3, <1>4, <1>5, <1>6, SeqEqual
<1>8. QED BY <1>7 DEF u, v, t

\* The pointers of a list follow it when an item takes another one's place.
LEMMA ExchangedLinks ==
  ASSUME NEW m, NEW S, NEW L, Linked(m, S, L), NEW p \in S, ~ m[p].ref,
         NEW n \in S, n \notin ListedBy(L), p \notin FamilyOf(L, n), NEW k \in 1..Len(L[p]),
         NEW m2, PutInPlace(m, m2, p, L[p], k, n)
  PROVE  Linked(m2, S, Exchanging(L, p, k, n))
<1> DEFINE s == L[p]
           t == RemoveAt(s, k)
           L1 == Taking(L, p, k)
           m1 == [x \in Nodes |->
                   [ref |-> m[x].ref,
                    child |-> IF x = p /\ k = 1 THEN After(s, k) ELSE m[x].child,
                    next |-> IF x = s[k] THEN NULL ELSE IF k > 1 /\ x = s[k - 1] THEN After(s, k) ELSE m[x].next,
                    prev |-> IF x = s[k] THEN NULL
                    ELSE IF k < Len(s) THEN (IF x = s[k + 1] THEN Before(s, k) ELSE m[x].prev)
                    ELSE IF k > 1 /\ x = s[1] THEN Before(s, k) ELSE m[x].prev]]
<1>1. /\ p \in Nodes /\ n \in Nodes /\ S \subseteq Nodes /\ L \in [Nodes -> Seq(S)]
      /\ s \in Seq(S) /\ Len(s) \in Nat /\ Forest(S, L)
      /\ k \in 1..Len(s) /\ k \in Nat
  BY ForestLists DEF Linked, Forest
<1>2. /\ t \in Seq(S) /\ Len(t) = Len(s) - 1
      /\ \A i \in 1..(Len(s) - 1) : t[i] = IF i < k THEN s[i] ELSE s[i + 1]
  BY <1>1, Removed
<1>3. TakenOut(m, m1, p, s, k)
  BY DEF TakenOut
<1>4. m1[p].ref = m[p].ref
  BY <1>1
<1> HIDE DEF m1
<1>5. Linked(m1, S, L1)
  BY <1>1, <1>3, RemovedLinks
<1>6. L1[p] = t
  BY <1>1 DEF Taking
<1>7. n \notin ListedBy(L1)
  BY <1>1, RemovedForest
<1>8. p \notin FamilyOf(L1, n)
  <2>1. L1 \in [Nodes -> Seq(Nodes)] /\ L \in [Nodes -> Seq(Nodes)]
    BY <1>1, RemovedForest, ForestLists
  <2>2. \A q \in Nodes : ToSet(L1[q]) \subseteq ToSet(L[q])
    <3>1. SUFFICES ASSUME NEW q \in Nodes PROVE ToSet(L1[q]) \subseteq ToSet(L[q])
      OBVIOUS
    <3>2. CASE q # p
      BY <1>1, <3>2 DEF Taking
    <3>3. CASE q = p
      <4>1. SUFFICES ASSUME NEW x \in ToSet(t) PROVE x \in ToSet(s)
        BY <1>6, <3>3
      <4>2. PICK i \in 1..Len(t) : x = t[i]
        BY <1>2, <4>1, Members
      <4>3. i \in 1..(Len(s) - 1) /\ i \in 1..Len(s) /\ i + 1 \in 1..Len(s)
        BY <1>1, <1>2
      <4>4. x = s[i] \/ x = s[i + 1]
        BY <1>2, <4>2, <4>3
      <4>5. QED BY <1>1, <4>3, <4>4, Members
    <3>4. QED BY <3>2, <3>3
  <2>3. FamilyOf(L1, n) \subseteq FamilyOf(L, n)
    <3> DEFINE C == FamilyOf(L, n)
    <3>1. C \in SUBSET Nodes /\ n \in C /\ \A y \in C : ToSet(L[y]) \subseteq C
      BY <1>1, <2>1, FamilyIsLeast
    <3> HIDE DEF C
    <3>2. \A y \in C : ToSet(L1[y]) \subseteq C
      BY <2>2, <3>1
    <3>3. FamilyOf(L1, n) \subseteq C
      BY <1>1, <2>1, <3>1, <3>2, FamilyIsLeast
    <3>4. QED BY <3>3 DEF C
  <2>4. QED BY <2>3
<1>9. k \in 1..(Len(t) + 1)
  BY <1>1, <1>2
<1>10. PutIn(m1, m2, p, t, k, n)
  <2>1. k > 1 => k - 1 \in 1..(Len(s) - 1) /\ k - 1 < k
    BY <1>1
  <2>2. k > 1 => t[k - 1] = s[k - 1]
    BY <1>2, <2>1
  <2>3. k <= Len(t) <=> k < Len(s)
    BY <1>1, <1>2
  <2>4. k < Len(s) => t[k] = s[k + 1]
    <3>1. ASSUME k < Len(s) PROVE t[k] = s[k + 1]
      <4>1. k \in 1..(Len(s) - 1) /\ ~ (k < k)
        BY <1>1, <3>1
      <4>2. QED BY <1>2, <4>1
    <3>2. QED BY <3>1
  <2>0. Len(s) \in Nat /\ k \in Nat /\ 1 <= k /\ k <= Len(s)
    BY <1>1
  <2>5. t = << >> <=> Len(s) = 1
    <3>1. t = << >> <=> Len(t) = 0
      BY <1>2, EmptySeq
    <3>2. QED BY <1>2, <2>0, <3>1
  <2>6. k = 1 /\ Len(s) # 1 => t[Len(t)] = s[Len(s)]
    <3>1. ASSUME k = 1, Len(s) # 1 PROVE t[Len(s) - 1] = s[Len(s)]
      <4>1. Len(s) - 1 \in 1..(Len(s) - 1) /\ ~ (Len(s) - 1 < k) /\ (Len(s) - 1) + 1 = Len(s)
        <5>0. \A l \in Nat : 1 <= l /\ l # 1 => l - 1 >= 1
          OBVIOUS
        <5>1. Len(s) - 1 >= 1
          BY <2>0, <3>1, <5>0
        <5>2. Len(s) - 1 \in 1..(Len(s) - 1)
          BY <2>0, <5>1
        <5>3. ~ (Len(s) - 1 < k)
          BY <2>0, <3>1, <5>1
        <5>4. (Len(s) - 1) + 1 = Len(s)
          BY <2>0
        <5>5. QED BY <5>2, <5>3, <5>4
      <4>2. t[Len(s) - 1] = s[(Len(s) - 1) + 1]
        BY <1>2, <4>1
      <4>3. QED BY <4>1, <4>2
    <3>2. QED BY <1>2, <3>1
  <2>7. ~ (k < Len(s)) => (k = Len(s) /\ (k > 1 <=> Len(s) # 1))
    <3>1. SUFFICES ASSUME ~ (k < Len(s)) PROVE k = Len(s) /\ (k > 1 <=> Len(s) # 1)
      OBVIOUS
    <3>2. k = Len(s)
      BY <2>0, <3>1
    <3>3. k > 1 <=> k # 1
      BY <2>0
    <3>4. QED BY <3>2, <3>3
  <2>8. k > 1 => t[1] = s[1]
    <3>1. ASSUME k > 1 PROVE t[1] = s[1]
      <4>1. 1 \in 1..(Len(s) - 1)
        BY <1>1, <3>1
      <4>2. QED BY <1>2, <3>1, <4>1
    <3>2. QED BY <3>1
  <2>9. k # 1 <=> k > 1
    BY <1>1
  <2>10. k = Len(s) /\ k = 1 => Len(s) = 1
    OBVIOUS
  <2>11. After(s, k) = IF k <= Len(t) THEN t[k] ELSE NULL
    BY <2>3, <2>4, <2>7, <1>1 DEF After
  <2>12. Len(s) # 1 => Before(s, k) = IF k = 1 THEN t[Len(t)] ELSE t[k - 1]
    BY <2>2, <2>6, <2>9 DEF Before
  <2>13. SUFFICES ASSUME NEW x \in Nodes
         PROVE
    /\ m2[x].ref = m1[x].ref
    /\ m2[x].child = IF x = p /\ k = 1 THEN n ELSE m1[x].child
    /\ m2[x].next = IF x = n THEN (IF k <= Len(t) THEN t[k] ELSE NULL)
                    ELSE IF k > 1 /\ x = t[k - 1] THEN n ELSE m1[x].next
    /\ m2[x].prev = IF x = n THEN (IF t = << >> THEN n ELSE IF k = 1 THEN t[Len(t)] ELSE t[k - 1])
                    ELSE IF k <= Len(t) THEN (IF x = t[k] THEN n ELSE m1[x].prev)
                    ELSE IF t # << >> /\ x = t[1] THEN n ELSE m1[x].prev
    BY DEF PutIn
  <2>14. m2[x].ref = m1[x].ref /\ m2[x].child = IF x = p /\ k = 1 THEN n ELSE m1[x].child
    BY <1>3 DEF TakenOut, PutInPlace
  <2>15. k > 1 => s[k - 1] # s[k]
    <3>1. k > 1 => k - 1 \in 1..Len(s) /\ k - 1 # k
      BY <1>1
    <3>2. Once(s)
      BY <1>1, ForestLists
    <3>3. QED BY <1>1, <3>1, <3>2 DEF Once
  <2>16. m2[x].next = IF x = n THEN (IF k <= Len(t) THEN t[k] ELSE NULL)
                    ELSE IF k > 1 /\ x = t[k - 1] THEN n ELSE m1[x].next
    <3>1. m2[x].next = IF x = n THEN After(s, k) ELSE IF x = s[k] THEN NULL
                    ELSE IF k > 1 /\ x = s[k - 1] THEN n ELSE m[x].next
      BY DEF PutInPlace
    <3>2. m1[x].next = IF x = s[k] THEN NULL ELSE IF k > 1 /\ x = s[k - 1] THEN After(s, k) ELSE m[x].next
      BY <1>3 DEF TakenOut
    <3>3. QED BY <2>2, <2>11, <2>15, <3>1, <3>2
  <2>17. k < Len(s) => s[k + 1] # s[k]
    <3>1. k < Len(s) => k + 1 \in 1..Len(s) /\ k + 1 # k
      BY <1>1
    <3>2. Once(s)
      BY <1>1, ForestLists
    <3>3. QED BY <1>1, <3>1, <3>2 DEF Once
  <2>18. k > 1 => s[1] # s[k]
    <3>1. k > 1 => 1 \in 1..Len(s) /\ k # 1
      BY <1>1
    <3>2. Once(s)
      BY <1>1, ForestLists
    <3>3. QED BY <1>1, <3>1, <3>2 DEF Once
  <2>19. m2[x].prev = IF x = n THEN (IF t = << >> THEN n ELSE IF k = 1 THEN t[Len(t)] ELSE t[k - 1])
                    ELSE IF k <= Len(t) THEN (IF x = t[k] THEN n ELSE m1[x].prev)
                    ELSE IF t # << >> /\ x = t[1] THEN n ELSE m1[x].prev
    <3>1. m2[x].prev = IF x = n THEN (IF Len(s) = 1 THEN n ELSE Before(s, k)) ELSE IF x = s[k] THEN NULL
                    ELSE IF k < Len(s) THEN (IF x = s[k + 1] THEN n ELSE m[x].prev)
                    ELSE IF k > 1 /\ x = s[1] THEN n ELSE m[x].prev
      BY DEF PutInPlace
    <3>2. m1[x].prev = IF x = s[k] THEN NULL
                    ELSE IF k < Len(s) THEN (IF x = s[k + 1] THEN Before(s, k) ELSE m[x].prev)
                    ELSE IF k > 1 /\ x = s[1] THEN Before(s, k) ELSE m[x].prev
      BY <1>3 DEF TakenOut
    <3>3. CASE x = n
      BY <2>5, <2>12, <3>1, <3>3
    <3>4. CASE x # n /\ k < Len(s)
      BY <2>3, <2>4, <2>17, <3>1, <3>2, <3>4
    <3>5. CASE x # n /\ ~ (k < Len(s))
      <4>1. t # << >> <=> k > 1
        BY <2>5, <2>7, <3>5
      <4>2. QED BY <2>3, <2>8, <2>18, <3>1, <3>2, <3>5, <4>1
    <3>6. QED BY <3>3, <3>4, <3>5
  <2>20. QED BY <2>14, <2>16, <2>19
<1> HIDE DEF L1, t
<1>11. Linked(m2, S, Putting(L1, p, k, n))
  BY <1>1, <1>4, <1>5, <1>6, <1>7, <1>8, <1>9, <1>10, InsertedLinks
<1>12. Putting(L1, p, k, n) = Exchanging(L, p, k, n)
  <2>1. ReplaceAt(s, k, n) = InsertAt(t, k, n)
    BY <1>1, ExchangedInTwo DEF t
  <2>2. Putting(L1, p, k, n) = [L1 EXCEPT ![p] = InsertAt(t, k, n)]
    BY <1>6 DEF Putting
  <2>3. L1 = [L EXCEPT ![p] = t]
    BY DEF L1, t, Taking
  <2>4. Exchanging(L, p, k, n) = [L EXCEPT ![p] = ReplaceAt(s, k, n)]
    BY DEF Exchanging
  <2>5. QED BY <1>1, <2>1, <2>2, <2>3, <2>4
<1>13. QED BY <1>11, <1>12

\* Two items whose pointers, and whether they are references, are the same.
SameLinks(a, b) == a.ref = b.ref /\ a.child = b.child /\ a.next = b.next /\ a.prev = b.prev
Keeps(m2, m, S) == \A x \in S : SameLinks(m2[x], m[x])

\* Without a tree that nobody lists, the other lists are linked as they were.
LEMMA DroppedLinks ==
  ASSUME NEW m, NEW S, NEW L, Linked(m, S, L), NEW n \in S \ ListedBy(L),
         NEW m2, Keeps(m2, m, S \ FamilyOf(L, n))
  PROVE  LET F == FamilyOf(L, n)
         IN  Linked(m2, S \ F, Dropped(L, F)) /\ ListedBy(Dropped(L, F)) = ListedBy(L) \ F
<1> DEFINE F == FamilyOf(L, n)
           L2 == Dropped(L, F)
<1>1. Forest(S \ F, L2) /\ ListedBy(L2) = ListedBy(L) \ F
  BY DroppedForest DEF Linked
<1>2. /\ S \subseteq Nodes
      /\ \A q \in Nodes : L2[q] = IF q \in F THEN << >> ELSE L[q]
      /\ \A x \in S \ F : m2[x].ref = m[x].ref /\ m2[x].child = m[x].child
                          /\ m2[x].next = m[x].next /\ m2[x].prev = m[x].prev
  BY DEF Linked, Forest, Dropped, SameLinks, Keeps, F
<1>3. \A q \in Nodes : L2[q] \in Seq(S \ F)
  BY <1>1, ForestLists
<1>4. Len(<< >>) = 0
  BY EmptySeq
<1> HIDE DEF L2, F
<1>5. Heads(m2, S \ F, L2)
  BY <1>2 DEF Linked, Heads
<1>6. \A q \in Nodes : \A i \in 1..Len(L2[q]) : q \notin F /\ L2[q] = L[q] /\ L2[q][i] \in S \ F /\ i \in 1..Len(L[q])
  <2>1. SUFFICES ASSUME NEW q \in Nodes, NEW i \in 1..Len(L2[q])
                 PROVE  q \notin F /\ L2[q] = L[q] /\ L2[q][i] \in S \ F /\ i \in 1..Len(L[q])
    OBVIOUS
  <2>2. q \notin F
    BY <1>2, <1>4
  <2>3. L2[q][i] \in S \ F
    BY <1>3
  <2>4. QED BY <1>2, <2>2, <2>3
<1>7. Nexts(m2, L2)
  BY <1>2, <1>6 DEF Linked, Nexts
<1>8. Prevs(m2, L2)
  BY <1>2, <1>6 DEF Linked, Prevs
<1>9. Loose(m2, S \ F, L2)
  BY <1>1, <1>2 DEF Linked, Loose
<1>10. Linked(m2, S \ F, L2)
  BY <1>1, <1>5, <1>7, <1>8, <1>9 DEF Linked
<1>11. QED BY <1>1, <1>10 DEF F, L2

\* Trees beside others: each list is linked as it was.
LEMMA JoinedLinks ==
  ASSUME NEW m, NEW S, NEW L, Linked(m, S, L), NEW F, NEW T, NEW m2, Linked(m2, F, T), S \cap F = {},
         NEW m3, Keeps(m3, m, S), Keeps(m3, m2, F)
  PROVE  /\ Linked(m3, S \cup F, Joined(L, T, F))
         /\ \A x : x \in ListedBy(Joined(L, T, F)) <=> x \in ListedBy(L) \/ x \in ListedBy(T)
<1> DEFINE L2 == Joined(L, T, F)
<1>1. Forest(S \cup F, L2) /\ \A x : x \in ListedBy(L2) <=> x \in ListedBy(L) \/ x \in ListedBy(T)
  <2>1. Forest(S, L) /\ Forest(F, T)
    BY DEF Linked
  <2>2. QED BY <2>1, JoinedForest
<1>2. /\ S \subseteq Nodes /\ F \subseteq Nodes
      /\ \A q \in Nodes : L2[q] = IF q \in F THEN T[q] ELSE L[q]
      /\ \A x \in S : m3[x].ref = m[x].ref /\ m3[x].child = m[x].child
                          /\ m3[x].next = m[x].next /\ m3[x].prev = m[x].prev
      /\ \A x \in F : m3[x].ref = m2[x].ref /\ m3[x].child = m2[x].child
                          /\ m3[x].next = m2[x].next /\ m3[x].prev = m2[x].prev
  BY DEF Linked, Forest, Joined, SameLinks, Keeps
<1>3. \A q \in Nodes : L[q] \in Seq(S) /\ T[q] \in Seq(F)
  BY ForestLists DEF Linked
<1>4. \A q \in Nodes : \A i \in 1..Len(L[q]) : L[q][i] \in S
  BY <1>3
<1>5. \A q \in Nodes : \A i \in 1..Len(T[q]) : T[q][i] \in F
  BY <1>3
<1> HIDE DEF L2
<1>6. Heads(m3, S \cup F, L2)
  BY <1>2 DEF Linked, Heads
<1>7. Nexts(m3, L2)
  BY <1>2, <1>4, <1>5 DEF Linked, Nexts
<1>8. Prevs(m3, L2)
  BY <1>2, <1>4, <1>5 DEF Linked, Prevs
<1>9. Loose(m3, S \cup F, L2)
  BY <1>1, <1>2 DEF Linked, Loose
<1>10. QED BY <1>1, <1>6, <1>7, <1>8, <1>9 DEF Linked, L2

-----------------------------------------------------------------------------
(* The lists of a heap, and what a reference shows of them.                *)

Kids(h) == [n \in Nodes |-> IF h.mem[n].ref THEN << >> ELSE Children(h, n)]
\* An address that is not in use has nothing left of an item.
Blank(h) == \A n \in Nodes \ Live(h) : h.mem[n] = Free

\* The lists that the pointers are linked along are those a loop goes through.
LEMMA KidsAreListed ==
  ASSUME NEW h \in Heaps, Blank(h), NEW L, Linked(h.mem, Live(h), L)
  PROVE  Kids(h) = L
<1>1. Forest(Live(h), L) /\ L \in [Nodes -> Seq(Live(h))] /\ Heads(h.mem, Live(h), L) /\ Nexts(h.mem, L)
  BY DEF Linked, Forest
<1>2. ASSUME NEW n \in Nodes PROVE (IF h.mem[n].ref THEN << >> ELSE Children(h, n)) = L[n]
  <2>1. CASE n \notin Live(h)
    <3>1. h.mem[n].ref = FALSE /\ h.mem[n].child = NULL
      BY <2>1 DEF Blank, Free
    <3>2. << >> \in Seq(Nodes) /\ Once(<< >>) /\ \A i \in 1..Len(<< >>) : h.mem[<< >>[i]].next = After(<< >>, i)
      BY EmptySeq DEF Once
    <3>3. Chain(h, NULL) = << >>
      BY <3>2, ChainIsList
    <3>4. L[n] = << >>
      BY <1>1, <2>1 DEF Forest
    <3>5. QED BY <3>1, <3>3, <3>4 DEF Children
  <2>2. CASE n \in Live(h)
    <3>1. CASE h.mem[n].ref
      BY <1>1, <2>2, <3>1 DEF Heads
    <3>2. CASE ~ h.mem[n].ref
      BY <1>1, <2>2, <3>2, ChildrenAreListed
    <3>3. QED BY <3>1, <3>2
  <2>3. QED BY <2>1, <2>2
<1>3. QED BY <1>1, <1>2 DEF Kids

\* The rest of a sequence from a place on is a suffix of it.
LEMMA RestIsSuffix ==
  ASSUME NEW S, NEW t \in Seq(S), NEW j \in 1..Len(t)
  PROVE  IsSuffix(SubSeq(t, j, Len(t)), t)
<1> DEFINE s == SubSeq(t, j, Len(t))
           M == Len(t) - j + 1
<1>1. Len(t) \in Nat /\ j \in Nat /\ 1 <= j /\ j <= Len(t) /\ M \in Nat /\ M <= Len(t)
  BY LenProperties
<1>2. s \in Seq(S) /\ Len(s) = M /\ \A i \in 1..M : s[i] = t[j + i - 1]
  BY <1>1, SubSeqProperties
<1> HIDE DEF s
<1>3. Reverse(s) \in Seq(S) /\ Len(Reverse(s)) = M /\ \A i \in 1..M : Reverse(s)[i] = s[(M - i) + 1]
  <2>1. Reverse(s) = [i \in 1..M |-> s[(M - i) + 1]]
    BY <1>2 DEF Reverse
  <2>2. \A i \in 1..M : (M - i) + 1 \in 1..M
    BY <1>1
  <2>3. \A i \in 1..M : s[i] \in S
    BY <1>2
  <2>4. QED BY <1>1, <2>1, <2>2, <2>3
<1>4. Reverse(t) \in Seq(S) /\ Len(Reverse(t)) = Len(t) /\ \A i \in 1..Len(t) : Reverse(t)[i] = t[(Len(t) - i) + 1]
  <2>1. Reverse(t) = [i \in 1..Len(t) |-> t[(Len(t) - i) + 1]]
    BY DEF Reverse
  <2>2. \A i \in 1..Len(t) : (Len(t) - i) + 1 \in 1..Len(t)
    BY <1>1
  <2>3. \A i \in 1..Len(t) : t[i] \in S
    OBVIOUS
  <2>4. QED BY <1>1, <2>1, <2>2, <2>3
<1>5. \A i \in 1..M : Reverse(s)[i] = Reverse(t)[i]
  <2>1. SUFFICES ASSUME NEW i \in 1..M PROVE Reverse(s)[i] = Reverse(t)[i]
    OBVIOUS
  <2>2. (M - i) + 1 \in 1..M /\ j + ((M - i) + 1) - 1 = (Len(t) - i) + 1 /\ i \in 1..Len(t)
    BY <1>1
  <2>3. QED BY <1>2, <1>3, <1>4, <2>2
<1> DEFINE u == Reverse(s)
           v == Reverse(t)
<1>6. u \in Seq(S) /\ v \in Seq(S) /\ Len(u) = M /\ Len(v) = Len(t) /\ \A i \in 1..M : u[i] = v[i]
  BY <1>3, <1>4, <1>5
<1> HIDE DEF u, v
<1>7. SubSeq(u, 1, M) = SubSeq(v, 1, M)
  <2>1. SubSeq(u, 1, M) = [i \in 1..M |-> u[i]] /\ SubSeq(v, 1, M) = [i \in 1..M |-> v[i]]
    BY <1>1, <1>6
  <2>2. QED BY <1>6, <2>1
<1>8. IsPrefix(u, v)
  BY <1>1, <1>6, <1>7 DEF IsPrefix
<1>9. QED BY <1>8 DEF IsSuffix, u, v, s

\* A loop from nowhere, or from a child of p, goes through a suffix of p's list.
LEMMA ShowsSuffix ==
  ASSUME NEW h \in Heaps, NEW S, NEW L, Linked(h.mem, S, L), NEW p \in Nodes,
         NEW c \in ToSet(L[p]) \cup {NULL}
  PROVE  IsSuffix(Chain(h, c), L[p])
<1>1. L[p] \in Seq(Nodes) /\ Once(L[p]) /\ Len(L[p]) \in Nat
      /\ \A x : x \in ToSet(L[p]) <=> \E i \in 1..Len(L[p]) : x = L[p][i]
  BY ForestLists DEF Linked
<1>2. \A i \in 1..Len(L[p]) : h.mem[L[p][i]].next = After(L[p], i)
  BY DEF Linked, Nexts
<1>3. /\ \A j \in 1..Len(L[p]) : Chain(h, L[p][j]) = SubSeq(L[p], j, Len(L[p]))
      /\ Chain(h, NULL) = << >>
  BY <1>1, <1>2, ChainIsList
<1>4. CASE c = NULL
  <2>1. Chain(h, c) = << >>
    BY <1>3, <1>4
  <2>2. Reverse(<< >>) = << >>
    BY DEF Reverse
  <2>3. Reverse(L[p]) = [i \in 1..Len(L[p]) |-> L[p][(Len(L[p]) - i) + 1]]
    BY DEF Reverse
  <2>4. Len(Reverse(L[p])) = Len(L[p])
    BY <1>1, <2>3
  <2> DEFINE v == Reverse(L[p])
  <2>5. SubSeq(<< >>, 1, 0) = << >> /\ SubSeq(v, 1, 0) = << >> /\ Len(<< >>) = 0
    OBVIOUS
  <2>6. QED BY <1>1, <2>1, <2>2, <2>4, <2>5 DEF IsSuffix, IsPrefix
<1>5. CASE c # NULL
  <2>1. PICK j \in 1..Len(L[p]) : c = L[p][j]
    BY <1>1, <1>5
  <2>2. QED BY <1>1, <1>3, <2>1, RestIsSuffix
<1>6. QED BY <1>4, <1>5

-----------------------------------------------------------------------------
(* The strings of a set of items.                                          *)

\* Two heaps have the same strings in a set of items that are the same, or
\* differ only in their pointers.
SameTexts(a, b) == a.type = b.type /\ a.ref = b.ref /\ a.const = b.const /\ a.string = b.string /\ a.value = b.value

\* The number of strings of a set of items is an integer.
LEMMA BlocksIsInt ==
  ASSUME NEW h, NEW S \in SUBSET Nodes
  PROVE  Blocks(h, S) \in Int
<1>1. IsFiniteSet({n \in S : OwnsString(h.mem[n])}) /\ IsFiniteSet({n \in S : OwnsValue(h.mem[n])})
  <2>1. {n \in S : OwnsString(h.mem[n])} \in SUBSET Nodes /\ {n \in S : OwnsValue(h.mem[n])} \in SUBSET Nodes
    OBVIOUS
  <2>2. QED BY <2>1, JsonTreeAssumption, FS_Subset
<1>2. QED BY <1>1, FS_CardinalityType DEF Blocks

\* Items that differ in their pointers only have as many strings.
LEMMA BlocksSame ==
  ASSUME NEW h, NEW h2, NEW S, \A x \in S : SameTexts(h2.mem[x], h.mem[x])
  PROVE  Blocks(h2, S) = Blocks(h, S)
<1>1. \A x \in S : (OwnsString(h2.mem[x]) <=> OwnsString(h.mem[x])) /\ (OwnsValue(h2.mem[x]) <=> OwnsValue(h.mem[x]))
  BY DEF SameTexts, OwnsString, OwnsValue
<1>2. {n \in S : OwnsString(h2.mem[n])} = {n \in S : OwnsString(h.mem[n])}
  BY <1>1
<1>3. {n \in S : OwnsValue(h2.mem[n])} = {n \in S : OwnsValue(h.mem[n])}
  BY <1>1
<1>4. QED BY <1>2, <1>3 DEF Blocks

\* Two sets that share no item have the strings of both.
LEMMA BlocksAdd ==
  ASSUME NEW h, NEW S \in SUBSET Nodes, NEW T \in SUBSET Nodes, S \cap T = {}
  PROVE  Blocks(h, S \cup T) = Blocks(h, S) + Blocks(h, T)
<1> DEFINE A(X) == {n \in X : OwnsString(h.mem[n])}
           B(X) == {n \in X : OwnsValue(h.mem[n])}
<1>1. \A X \in SUBSET Nodes : IsFiniteSet(A(X)) /\ IsFiniteSet(B(X))
  <2>1. \A X \in SUBSET Nodes : A(X) \in SUBSET Nodes /\ B(X) \in SUBSET Nodes
    OBVIOUS
  <2>2. QED BY <2>1, JsonTreeAssumption, FS_Subset
<1>2. A(S \cup T) = A(S) \cup A(T) /\ B(S \cup T) = B(S) \cup B(T) /\ A(S) \cap A(T) = {} /\ B(S) \cap B(T) = {}
  OBVIOUS
<1>3. Blocks(h, S) = Cardinality(A(S)) + Cardinality(B(S)) /\ Blocks(h, T) = Cardinality(A(T)) + Cardinality(B(T))
      /\ Blocks(h, S \cup T) = Cardinality(A(S \cup T)) + Cardinality(B(S \cup T))
  BY DEF Blocks
<1> HIDE DEF A, B
<1>4. IsFiniteSet(A(S)) /\ IsFiniteSet(A(T)) /\ IsFiniteSet(B(S)) /\ IsFiniteSet(B(T))
  BY <1>1
<1>5. Cardinality(A(S)) \in Nat /\ Cardinality(A(T)) \in Nat /\ Cardinality(B(S)) \in Nat /\ Cardinality(B(T)) \in Nat
      /\ Cardinality({}) = 0
  BY <1>4, FS_CardinalityType, FS_EmptySet
<1>6. Cardinality(A(S \cup T)) = Cardinality(A(S)) + Cardinality(A(T))
  <2>1. Cardinality(A(S) \cup A(T)) = Cardinality(A(S)) + Cardinality(A(T)) - Cardinality(A(S) \cap A(T))
    BY <1>4, FS_Union
  <2>2. Cardinality(A(S) \cap A(T)) = 0
    BY <1>2, <1>5
  <2>3. \A x, y \in Nat : x + y - 0 = x + y
    OBVIOUS
  <2>4. QED BY <1>2, <1>5, <2>1, <2>2, <2>3
<1>7. Cardinality(B(S \cup T)) = Cardinality(B(S)) + Cardinality(B(T))
  <2>1. Cardinality(B(S) \cup B(T)) = Cardinality(B(S)) + Cardinality(B(T)) - Cardinality(B(S) \cap B(T))
    BY <1>4, FS_Union
  <2>2. Cardinality(B(S) \cap B(T)) = 0
    BY <1>2, <1>5
  <2>3. \A x, y \in Nat : x + y - 0 = x + y
    OBVIOUS
  <2>4. QED BY <1>2, <1>5, <2>1, <2>2, <2>3
<1>8. QED BY <1>3, <1>5, <1>6, <1>7

\* What the strings of one item count for.
One(p) == IF p THEN 1 ELSE 0
\* An item has at most its key and its value.
LEMMA BlocksOfOne ==
  ASSUME NEW h, NEW n
  PROVE  Blocks(h, {n}) = One(OwnsString(h.mem[n])) + One(OwnsValue(h.mem[n]))
<1>1. {x \in {n} : OwnsString(h.mem[x])} = IF OwnsString(h.mem[n]) THEN {n} ELSE {}
  OBVIOUS
<1>2. {x \in {n} : OwnsValue(h.mem[x])} = IF OwnsValue(h.mem[n]) THEN {n} ELSE {}
  OBVIOUS
<1>3. Cardinality({n}) = 1 /\ Cardinality({}) = 0
  BY FS_Singleton, FS_EmptySet
<1>4. QED BY <1>1, <1>2, <1>3 DEF Blocks, One

-----------------------------------------------------------------------------
(* Making items.                                                           *)

Results == [heap : Heaps, ret : Nodes \cup {NULL}]

\* What the fields of an item can be.
LEMMA Fields ==
  ASSUME NEW h \in Heaps, NEW n \in Nodes
  PROVE  LET m == h.mem[n]
         IN /\ m \in cJSON
            /\ m.type \in Kinds \cup {"Array", "free"} /\ m.ref \in BOOLEAN /\ m.const \in BOOLEAN
            /\ m.string \in Keys \cup {NULL} /\ m.value \in Values \cup {NULL}
            /\ m.child \in Nodes \cup {NULL} /\ m.next \in Nodes \cup {NULL} /\ m.prev \in Nodes \cup {NULL}
            /\ m.of \in Nodes \cup {NULL}
BY DEF Heaps, cJSON

\* What is left of a deleted item has the fields of an item.
LEMMA FreeIsItem == Free \in cJSON /\ "free" \notin Kinds
BY JsonTreeAssumption DEF Free, cJSON, Parents

\* An address that is not in use is taken, or nothing changes.
LEMMA NewItem ==
  ASSUME NEW h \in Heaps, NEW type \in Kinds \cup {"Array", "free"}
  PROVE  LET r == cJSON_New_Item(h, type)
         IN /\ r \in Results /\ r.heap.strings = h.strings
            /\ r.ret = NULL \/ r.ret \in Nodes \ Live(h)
            /\ \A x \in Nodes : r.heap.mem[x] = IF x = r.ret THEN [Free EXCEPT !.type = type] ELSE h.mem[x]
<1> DEFINE free == Nodes \ Live(h)
           n == CHOOSE x \in free : TRUE
           r == cJSON_New_Item(h, type)
           h1 == [h EXCEPT !.mem[n] = [Free EXCEPT !.type = type], !.left = @ - 1]
           h0 == [h EXCEPT !.left = 0]
<1>0. NULL \notin Nodes
  BY JsonTreeAssumption
<1>1. h.mem \in [Nodes -> cJSON] /\ h.strings \in Int /\ h.left \in Nat
      /\ h = [mem |-> h.mem, strings |-> h.strings, left |-> h.left]
  BY DEF Heaps
<1>2. CASE h.left = 0 \/ free = {}
  <2>1. r = [heap |-> h0, ret |-> NULL]
    BY <1>2 DEF cJSON_New_Item, Returns
  <2>2. h0 = [mem |-> h.mem, strings |-> h.strings, left |-> 0]
    BY <1>1
  <2>3. h0 \in Heaps
    BY <1>1, <2>2 DEF Heaps
  <2>4. QED BY <1>0, <2>1, <2>2, <2>3 DEF Results
<1>3. CASE ~ (h.left = 0 \/ free = {})
  <2>1. r = [heap |-> h1, ret |-> n]
    BY <1>3 DEF cJSON_New_Item, Returns
  <2>2. n \in free
    BY <1>3
  <2> HIDE DEF n
  <2>3. [Free EXCEPT !.type = type] \in cJSON
    BY FreeIsItem DEF cJSON
  <2> DEFINE v == [Free EXCEPT !.type = type]
             g == [h EXCEPT !.mem[n] = v]
  <2>4. g \in Heaps /\ g.left = h.left /\ g.strings = h.strings /\ \A x \in Nodes : g.mem[x] = IF x = n THEN v ELSE h.mem[x]
    BY <2>2, <2>3 DEF Heaps
  <2>5. h.left - 1 \in Nat
    BY <1>1, <1>3
  <2>6. h1 = [g EXCEPT !.left = @ - 1]
    OBVIOUS
  <2> HIDE DEF g, v, h1
  <2>7. h1 \in Heaps /\ h1.strings = h.strings /\ h1.mem = g.mem
    BY <2>4, <2>5, <2>6 DEF Heaps
  <2>8. QED BY <2>1, <2>2, <2>4, <2>7 DEF Results, v
<1>4. QED BY <1>2, <1>3

-----------------------------------------------------------------------------
(* Trees of items that were not in use.                                    *)

\* The values the types have.
Typed(m) == /\ m.type \in Parents => m.value = NULL
            /\ m.type = "String" => m.value \in Values

\* h2 is h with the items of F, whose addresses were free.
Added(h, h2, F) ==
  /\ h2 \in Heaps /\ F \subseteq Nodes \ Live(h) /\ F \subseteq Live(h2)
  /\ \A x \in Nodes \ F : h2.mem[x] = h.mem[x]
  /\ h2.strings = h.strings + Blocks(h2, F)
\* The items of F are the tree of n.
Tree(m, F, T, n) == Linked(m, F, T) /\ n \in F \ ListedBy(T) /\ FamilyOf(T, n) = F
\* None of them is a reference.
Plain(m, F) == \A x \in F : ~ m[x].ref /\ Typed(m[x])

\* A call returns a new tree, or nothing is left of what it made.
Grown(h, r) ==
  /\ r \in Results
  /\ \/ r.ret = NULL /\ Added(h, r.heap, {})
     \/ /\ r.ret # NULL
        /\ \E F \in SUBSET Nodes, T \in [Nodes -> Seq(Nodes)] :
             Added(h, r.heap, F) /\ Tree(r.heap.mem, F, T, r.ret) /\ Plain(r.heap.mem, F)

\* No item has children.
NoLists == [x \in Nodes |-> << >>]

\* What is in use after items were added.
LEMMA AddedLive ==
  ASSUME NEW h, NEW h2, NEW F, Added(h, h2, F)
  PROVE  /\ Live(h2) = Live(h) \cup F /\ Live(h) \cap F = {} /\ F \subseteq Nodes
         /\ \A x \in Live(h) : h2.mem[x] = h.mem[x]
         /\ Blank(h) => Blank(h2)
<1>1. F \subseteq Nodes \ Live(h) /\ F \subseteq Live(h2) /\ \A x \in Nodes \ F : h2.mem[x] = h.mem[x]
  BY DEF Added
<1>2. Live(h2) = Live(h) \cup F
  BY <1>1 DEF Live
<1>3. Live(h) \subseteq Nodes
  BY DEF Live
<1>4. QED BY <1>1, <1>2, <1>3 DEF Blank

\* No items, no strings.
LEMMA EmptyBlocks == \A h : Blocks(h, {}) = 0
<1>1. SUFFICES ASSUME NEW h PROVE Blocks(h, {}) = 0
  OBVIOUS
<1>2. PICK b \in Int : b = Blocks(h, {})
  BY BlocksIsInt
<1>3. {} \cup {} = {} /\ {} \cap {} = {} /\ {} \subseteq Nodes
  OBVIOUS
<1>4. Blocks(h, {}) = Blocks(h, {}) + Blocks(h, {})
  BY <1>3, BlocksAdd
<1>5. b = b + b
  BY <1>2, <1>4
<1>6. b = 0
  BY <1>5
<1>7. QED BY <1>2, <1>6

\* A tree of one item.
LEMMA OneItemTree ==
  ASSUME NEW m, NEW n \in Nodes, m[n].next = NULL, m[n].prev = NULL, m[n].ref \/ m[n].child = NULL
  PROVE  Tree(m, {n}, NoLists, n)
<1> DEFINE L == NoLists
<1>1. L \in [Nodes -> Seq(Nodes)] /\ L \in [Nodes -> Seq({n})] /\ \A q \in Nodes : L[q] = << >>
  BY EmptySeq DEF NoLists
<1> HIDE DEF L
<1>2. Len(<< >>) = 0 /\ ToSet(<< >>) = {}
  BY EmptySeq DEF ToSet
<1>3. Disjoint(L) /\ Rooted(L)
  BY <1>1, <1>2 DEF Disjoint, Rooted
<1>4. ListedBy(L) = {}
  BY <1>1, <1>2 DEF ListedBy
<1>5. Forest({n}, L)
  BY <1>1, <1>3 DEF Forest
<1>6. Heads(m, {n}, L)
  BY <1>1 DEF Heads, First
<1>7. Nexts(m, L) /\ Prevs(m, L)
  BY <1>1, <1>2 DEF Nexts, Prevs
<1>8. Loose(m, {n}, L)
  BY DEF Loose
<1>9. FamilyOf(L, n) = {n}
  BY <1>1, FamilyOfLeaf
<1>10. QED BY <1>4, <1>5, <1>6, <1>7, <1>8, <1>9 DEF Tree, Linked, L

\* The tree of n as cJSON_Delete sees it: it does not look at prev.
Reaching(m, F, T, n) ==
  /\ Forest(F, T) /\ Heads(m, F, T) /\ Nexts(m, T)
  /\ n \in F /\ m[n].next = NULL /\ FamilyOf(T, n) = F

\* cJSON_Delete sees the whole of a linked tree.
LEMMA TreeIsReaching ==
  ASSUME NEW m, NEW F, NEW T, NEW n, Tree(m, F, T, n)
  PROVE  Reaching(m, F, T, n)
BY DEF Tree, Reaching, Linked, Loose

\* Deleting what was added leaves the heap as it was.
LEMMA DeleteAdded ==
  ASSUME NEW h \in Heaps, Blank(h), NEW h2, NEW F, Added(h, h2, F), NEW T, NEW n,
         Reaching(h2.mem, F, T, n)
  PROVE  Added(h, cJSON_Delete(h2, n), {}) /\ cJSON_Delete(h2, n) \in Heaps
<1> DEFINE h3 == cJSON_Delete(h2, n)
<1>0. NULL \notin Nodes /\ F \subseteq Nodes \ Live(h) /\ n \in Nodes /\ n # NULL /\ n \in F /\ h2 \in Heaps
  BY JsonTreeAssumption DEF Added, Reaching
<1>1. Reached(h2, {n}) = FamilyOf(T, n)
  <2>1. \A p \in Nodes : \A i \in 1..Len(T[p]) : T[p][i] # n => h2.mem[T[p][i]].next = After(T[p], i)
    BY DEF Reaching, Nexts
  <2>2. Forest(F, T) /\ Heads(h2.mem, F, T) /\ h2.mem[n].next = NULL
    BY DEF Reaching
  <2>3. QED BY <1>0, <2>1, <2>2, ReachedIsFamily
<1>2. Reached(h2, {n}) = F
  BY <1>1 DEF Reaching
<1>3. h2.mem \in [Nodes -> cJSON] /\ h2.strings \in Int /\ h2.left \in Nat
      /\ h2 = [mem |-> h2.mem, strings |-> h2.strings, left |-> h2.left]
      /\ h.mem \in [Nodes -> cJSON] /\ h.strings \in Int
  BY <1>0 DEF Heaps
<1>4. Blocks(h2, F) \in Int
  BY <1>0, BlocksIsInt
<1>5. /\ h3 = [h2 EXCEPT !.mem = [x \in Nodes |-> IF x \in F THEN Free ELSE @[x]],
                        !.strings = @ - Blocks(h2, F)]
  BY <1>0, <1>2 DEF cJSON_Delete
<1> DEFINE M == [x \in Nodes |-> IF x \in F THEN Free ELSE h2.mem[x]]
           g == [h2 EXCEPT !.mem = M]
<1>61. M \in [Nodes -> cJSON] /\ \A x \in Nodes : M[x] = IF x \in F THEN Free ELSE h2.mem[x]
  BY <1>3, FreeIsItem
<1>62. h3 = [g EXCEPT !.strings = @ - Blocks(h2, F)]
  BY <1>5
<1> HIDE DEF M
<1>63. g \in Heaps /\ g.mem = M /\ g.strings = h2.strings
  BY <1>0, <1>61 DEF Heaps
<1> HIDE DEF g
<1>64. h3 \in Heaps /\ h3.mem = M /\ h3.strings = h2.strings - Blocks(h2, F)
  <2>1. h2.strings - Blocks(h2, F) \in Int
    BY <1>3, <1>4
  <2>2. QED BY <1>62, <1>63, <2>1 DEF Heaps
<1> HIDE DEF h3
<1>7. \A x \in Nodes : h3.mem[x] = h.mem[x]
  BY <1>0, <1>61, <1>64 DEF Added, Blank
<1>8. h3.strings = h.strings
  <2>1. h2.strings = h.strings + Blocks(h2, F)
    BY DEF Added
  <2>2. QED BY <1>3, <1>4, <1>64, <2>1
<1>9. Blocks(h3, {}) = 0
  BY EmptyBlocks
<1>10. Added(h, h3, {})
  BY <1>3, <1>64, <1>7, <1>8, <1>9 DEF Added
<1>11. QED BY <1>64, <1>10 DEF h3

\* One item more, in no list.
LEMMA OneItemAdded ==
  ASSUME NEW h, NEW h2 \in Heaps, NEW n \in Nodes \ Live(h),
         \A x \in Nodes : x # n => h2.mem[x] = h.mem[x],
         h2.mem[n].type # "free", h2.mem[n].next = NULL, h2.mem[n].prev = NULL,
         h2.mem[n].ref \/ h2.mem[n].child = NULL,
         h2.strings = h.strings + One(OwnsString(h2.mem[n])) + One(OwnsValue(h2.mem[n])), h.strings \in Int
  PROVE  /\ Added(h, h2, {n}) /\ Tree(h2.mem, {n}, NoLists, n)
         /\ NoLists \in [Nodes -> Seq(Nodes)] /\ NoLists[n] = << >>
<1>1. Tree(h2.mem, {n}, NoLists, n)
  BY OneItemTree
<1>2. Blocks(h2, {n}) = One(OwnsString(h2.mem[n])) + One(OwnsValue(h2.mem[n]))
  BY BlocksOfOne
<1>3. h2.strings = h.strings + Blocks(h2, {n})
  <2> DEFINE a == One(OwnsString(h2.mem[n]))
             b == One(OwnsValue(h2.mem[n]))
  <2>1. a \in Int /\ b \in Int
    BY DEF One
  <2> HIDE DEF a, b
  <2>2. QED BY <1>2, <2>1 DEF a, b
<1>4. Added(h, h2, {n})
  BY <1>3 DEF Added, Live
<1>5. NoLists \in [Nodes -> Seq(Nodes)] /\ NoLists[n] = << >>
  BY EmptySeq DEF NoLists
<1>6. QED BY <1>1, <1>4, <1>5

\* Nothing but how many allocations are left has changed.
LEMMA NothingAdded ==
  ASSUME NEW h \in Heaps, NEW h2 \in Heaps, \A x \in Nodes : h2.mem[x] = h.mem[x], h2.strings = h.strings
  PROVE  Added(h, h2, {})
<1>1. Blocks(h2, {}) = 0
  BY EmptyBlocks
<1>2. h.strings \in Int
  BY DEF Heaps
<1>3. QED BY <1>1, <1>2 DEF Added

\* A copied string is one more, and no item changes.
LEMMA CopiedHeap ==
  ASSUME NEW h \in Heaps, MayCopy(h)
  PROVE  Copied(h) \in Heaps /\ Copied(h).mem = h.mem /\ Copied(h).strings = h.strings + 1
<1> DEFINE g == [h EXCEPT !.left = @ - 1]
<1>1. h.left - 1 \in Nat /\ h.strings \in Int
  BY DEF Heaps, MayCopy
<1>2. g \in Heaps /\ g.mem = h.mem /\ g.strings = h.strings
  BY <1>1 DEF Heaps
<1>3. Copied(h) = [g EXCEPT !.strings = @ + 1]
  BY DEF Copied
<1> HIDE DEF g
<1>4. g.strings + 1 \in Int
  BY <1>1, <1>2
<1>5. QED BY <1>2, <1>3, <1>4 DEF Heaps

\* cJSON_Delete leaves a heap, whatever it is given.
LEMMA DeletedHeap ==
  ASSUME NEW h \in Heaps, NEW n \in Nodes \cup {NULL}
  PROVE  cJSON_Delete(h, n) \in Heaps
<1> DEFINE gone == IF n = NULL THEN {} ELSE Reached(h, {n})
           M == [x \in Nodes |-> IF x \in gone THEN Free ELSE h.mem[x]]
           g == [h EXCEPT !.mem = M]
<1>1. gone \in SUBSET Nodes
  <2>1. CASE n = NULL
    BY <2>1
  <2>2. CASE n # NULL
    BY <2>2, ReachedIsLeast DEF IsLeastClosed
  <2>3. QED BY <2>1, <2>2
<1>2. Blocks(h, gone) \in Int /\ h.strings \in Int
  BY <1>1, BlocksIsInt DEF Heaps
<1>3. cJSON_Delete(h, n) = [h EXCEPT !.mem = [x \in Nodes |-> IF x \in gone THEN Free ELSE @[x]], !.strings = @ - Blocks(h, gone)]
  BY DEF cJSON_Delete
<1> HIDE DEF gone
<1>4. M \in [Nodes -> cJSON]
  BY FreeIsItem DEF Heaps
<1>5. cJSON_Delete(h, n) = [g EXCEPT !.strings = @ - Blocks(h, gone)]
  BY <1>3
<1> HIDE DEF M
<1>6. g \in Heaps /\ g.strings = h.strings
  BY <1>4 DEF Heaps
<1> HIDE DEF g
<1>7. g.strings - Blocks(h, gone) \in Int
  BY <1>2, <1>6
<1>8. QED BY <1>5, <1>6, <1>7 DEF Heaps

\* g2 is g with the item u at n.
ItemIs(g2, g, n, u) ==
  /\ g2 \in Heaps /\ g2.strings = g.strings /\ g2.left = g.left
  /\ \A x \in Nodes : g2.mem[x] = IF x = n THEN u ELSE g.mem[x]

\* A value that changes, and nothing else.
LEMMA ValueSet ==
  ASSUME NEW g \in Heaps, NEW n \in Nodes, NEW v \in Values \cup {NULL}
  PROVE  ItemIs([g EXCEPT !.mem[n].value = v], g, n, [g.mem[n] EXCEPT !.value = v])
<1> DEFINE u == [g.mem[n] EXCEPT !.value = v]
           g2 == [g EXCEPT !.mem[n] = u]
<1>1. u \in cJSON
  <2>1. g.mem[n] \in cJSON
    BY DEF Heaps
  <2>2. QED BY <2>1 DEF cJSON
<1> HIDE DEF u
<1>2. g2 \in Heaps /\ g2.strings = g.strings /\ g2.left = g.left
      /\ \A x \in Nodes : g2.mem[x] = IF x = n THEN u ELSE g.mem[x]
  BY <1>1 DEF Heaps
<1>3. [g EXCEPT !.mem[n].value = v] = g2
  BY DEF u
<1> HIDE DEF g2
<1>4. ItemIs(g2, g, n, u)
  BY <1>2 DEF ItemIs
<1>5. QED BY <1>3, <1>4 DEF u

\* A key that changes, and nothing else.
LEMMA StringSet ==
  ASSUME NEW g \in Heaps, NEW n \in Nodes, NEW v \in Keys \cup {NULL}
  PROVE  ItemIs([g EXCEPT !.mem[n].string = v], g, n, [g.mem[n] EXCEPT !.string = v])
<1> DEFINE u == [g.mem[n] EXCEPT !.string = v]
           g2 == [g EXCEPT !.mem[n] = u]
<1>1. u \in cJSON
  <2>1. g.mem[n] \in cJSON
    BY DEF Heaps
  <2>2. QED BY <2>1 DEF cJSON
<1> HIDE DEF u
<1>2. g2 \in Heaps /\ g2.strings = g.strings /\ g2.left = g.left
      /\ \A x \in Nodes : g2.mem[x] = IF x = n THEN u ELSE g.mem[x]
  BY <1>1 DEF Heaps
<1>3. [g EXCEPT !.mem[n].string = v] = g2
  BY DEF u
<1> HIDE DEF g2
<1>4. ItemIs(g2, g, n, u)
  BY <1>2 DEF ItemIs
<1>5. QED BY <1>3, <1>4 DEF u

\* Whether the key is constant changes, and nothing else.
LEMMA ConstSet ==
  ASSUME NEW g \in Heaps, NEW n \in Nodes, NEW v \in BOOLEAN
  PROVE  ItemIs([g EXCEPT !.mem[n].const = v], g, n, [g.mem[n] EXCEPT !.const = v])
<1> DEFINE u == [g.mem[n] EXCEPT !.const = v]
           g2 == [g EXCEPT !.mem[n] = u]
<1>1. u \in cJSON
  <2>1. g.mem[n] \in cJSON
    BY DEF Heaps
  <2>2. QED BY <2>1 DEF cJSON
<1> HIDE DEF u
<1>2. g2 \in Heaps /\ g2.strings = g.strings /\ g2.left = g.left
      /\ \A x \in Nodes : g2.mem[x] = IF x = n THEN u ELSE g.mem[x]
  BY <1>1 DEF Heaps
<1>3. [g EXCEPT !.mem[n].const = v] = g2
  BY DEF u
<1> HIDE DEF g2
<1>4. ItemIs(g2, g, n, u)
  BY <1>2 DEF ItemIs
<1>5. QED BY <1>3, <1>4 DEF u

\* The values that an item of a type is created with.
ValueFits(type, value) == IF type \in {"Number", "String", "Raw"} THEN value \in Values ELSE value = NULL

\* cJSON_CreateString and cJSON_CreateRaw make one item, or delete the item
\* whose value could not be copied.
LEMMA CreatedText ==
  ASSUME NEW h \in Heaps, NEW type \in Kinds, IsText(type), NEW value \in Values
  PROVE  CreateText(h, type, value) \in Results /\ (Blank(h) => Grown(h, CreateText(h, type, value)))
<1> DEFINE new == cJSON_New_Item(h, type)
           n == new.ret
           r == CreateText(h, type, value)
<1>1. /\ new \in Results /\ new.heap.strings = h.strings
      /\ n = NULL \/ n \in Nodes \ Live(h)
      /\ \A x \in Nodes : new.heap.mem[x] = IF x = n THEN [Free EXCEPT !.type = type] ELSE h.mem[x]
  BY NewItem
<1>2. new.heap \in Heaps /\ NULL \notin Nodes \cup Values /\ type # "free" /\ h.strings \in Int /\ value # NULL
  BY <1>1, JsonTreeAssumption, FreeIsItem DEF Results, Heaps
<1>3. CASE n = NULL
  <2>1. r = new
    BY <1>3 DEF CreateText
  <2>2. Added(h, new.heap, {})
    BY <1>1, <1>2, <1>3, NothingAdded
  <2>3. QED BY <1>1, <1>3, <2>1, <2>2 DEF Grown
<1>4. CASE n # NULL
  <2> DEFINE v == [Free EXCEPT !.type = type]
  <2>1. n \in Nodes \ Live(h) /\ new.heap.mem[n] = v
    BY <1>1, <1>4
  <2>2. v.type = type /\ v.ref = FALSE /\ v.const = FALSE /\ v.string = NULL /\ v.value = NULL /\ v.child = NULL
        /\ v.next = NULL /\ v.prev = NULL
    BY DEF Free
  <2> HIDE DEF v, new
  <2>3. CASE ~ MayCopy(new.heap)
    <3>1. r = Returns(cJSON_Delete(new.heap, n), NULL)
      BY <1>4, <2>3 DEF CreateText, new
    <3>2. cJSON_Delete(new.heap, n) \in Heaps
      BY <1>2, <2>1, DeletedHeap
    <3>3. r \in Results /\ r.ret = NULL /\ r.heap = cJSON_Delete(new.heap, n)
      BY <3>1, <3>2 DEF Returns, Results
    <3>4. ~ OwnsString(new.heap.mem[n]) /\ ~ OwnsValue(new.heap.mem[n])
      BY <2>1, <2>2 DEF OwnsString, OwnsValue
    <3>5. Added(h, new.heap, {n}) /\ Tree(new.heap.mem, {n}, NoLists, n)
      <4>1. \A x \in Nodes : x # n => new.heap.mem[x] = h.mem[x]
        BY <1>1
      <4>2. new.heap.strings = h.strings + One(OwnsString(new.heap.mem[n])) + One(OwnsValue(new.heap.mem[n]))
        <5>1. new.heap.strings = h.strings /\ h.strings \in Int
          BY <1>1, <1>2
        <5>2. One(OwnsString(new.heap.mem[n])) = 0 /\ One(OwnsValue(new.heap.mem[n])) = 0
          BY <3>4 DEF One
        <5>3. QED BY <5>1, <5>2
      <4>3. n \in Nodes \ Live(h) /\ new.heap.mem[n].type # "free" /\ h.strings \in Int
        BY <1>2, <2>1, <2>2
      <4>4. new.heap.mem[n].next = NULL /\ new.heap.mem[n].prev = NULL /\ new.heap.mem[n].child = NULL
        BY <2>1, <2>2
      <4>5. QED BY <1>2, <4>1, <4>2, <4>3, <4>4, OneItemAdded, ZenonT(40)
    <3>6. ASSUME Blank(h) PROVE Added(h, cJSON_Delete(new.heap, n), {})
      BY <3>5, <3>6, TreeIsReaching, DeleteAdded
    <3>7. QED BY <3>3, <3>6 DEF Grown
  <2>4. CASE MayCopy(new.heap)
    <3> DEFINE g == Copied(new.heap)
               f == [g EXCEPT !.mem[n].value = value]
    <3>1. r = [heap |-> f, ret |-> n]
      BY <1>4, <2>4 DEF CreateText, new, Returns
    <3>2. g \in Heaps /\ g.mem = new.heap.mem /\ g.strings = h.strings + 1
      BY <1>1, <1>2, <2>4, CopiedHeap
    <3> HIDE DEF g
    <3>3. f \in Heaps /\ f.strings = g.strings /\ \A x \in Nodes : f.mem[x] = IF x = n THEN [v EXCEPT !.value = value] ELSE h.mem[x]
      <4>0. g \in Heaps /\ n \in Nodes
        BY <2>1, <3>2
      <4>1. ItemIs(f, g, n, [g.mem[n] EXCEPT !.value = value])
        BY <4>0, ValueSet
      <4>3. g.mem[n] = v /\ \A x \in Nodes : x # n => g.mem[x] = h.mem[x]
        BY <1>1, <2>1, <3>2
      <4> HIDE DEF f
      <4>4. QED BY <4>1, <4>3 DEF ItemIs
    <3> HIDE DEF f
    <3>4. f.mem[n] = [v EXCEPT !.value = value]
      BY <2>1, <3>3
    <3>5. f.mem[n].type = type /\ f.mem[n].ref = FALSE /\ f.mem[n].const = FALSE /\ f.mem[n].string = NULL
          /\ f.mem[n].value = value /\ f.mem[n].child = NULL /\ f.mem[n].next = NULL /\ f.mem[n].prev = NULL
      BY <3>4 DEF v, Free
    <3>6. ~ OwnsString(f.mem[n]) /\ OwnsValue(f.mem[n])
      BY <1>2, <3>5 DEF OwnsString, OwnsValue
    <3>7. Added(h, f, {n}) /\ Tree(f.mem, {n}, NoLists, n) /\ NoLists \in [Nodes -> Seq(Nodes)]
      <4>1. \A x \in Nodes : x # n => f.mem[x] = h.mem[x]
        BY <3>3
      <4>2. f.strings = h.strings + One(OwnsString(f.mem[n])) + One(OwnsValue(f.mem[n]))
        <5>1. f.strings = h.strings + 1 /\ h.strings \in Int
          BY <1>2, <3>2, <3>3
        <5>2. One(OwnsString(f.mem[n])) = 0 /\ One(OwnsValue(f.mem[n])) = 1
          BY <3>6 DEF One
        <5>3. QED BY <5>1, <5>2
      <4>3. f \in Heaps /\ f.mem[n].type # "free" /\ h.strings \in Int /\ n \in Nodes \ Live(h)
        BY <1>2, <2>1, <3>3, <3>5
      <4>4. f.mem[n].next = NULL /\ f.mem[n].prev = NULL /\ f.mem[n].child = NULL
        BY <3>5
      <4>5. QED BY <4>1, <4>2, <4>3, <4>4, OneItemAdded, ZenonT(40)
    <3>8. Plain(f.mem, {n})
      BY <3>5 DEF Plain, Typed, IsText, Parents
    <3>9. r \in Results /\ r.heap = f /\ r.ret = n
      BY <2>1, <3>1, <3>3 DEF Results
    <3>10. QED BY <1>4, <2>1, <3>7, <3>8, <3>9 DEF Grown
  <2>5. QED BY <2>3, <2>4
<1>5. QED BY <1>3, <1>4

\* cJSON_Create* makes one item, or nothing.
LEMMA CreatedItem ==
  ASSUME NEW h \in Heaps, NEW type \in Kinds, NEW value, ValueFits(type, value)
  PROVE  CreateItem(h, type, value) \in Results /\ (Blank(h) => Grown(h, CreateItem(h, type, value)))
<1> DEFINE new == cJSON_New_Item(h, type)
           n == new.ret
           r == CreateItem(h, type, value)
<1>1. /\ new \in Results /\ new.heap.strings = h.strings
      /\ n = NULL \/ n \in Nodes \ Live(h)
      /\ \A x \in Nodes : new.heap.mem[x] = IF x = n THEN [Free EXCEPT !.type = type] ELSE h.mem[x]
  BY NewItem
<1>2. new.heap \in Heaps /\ NULL \notin Nodes \cup Values /\ type # "free" /\ h.strings \in Int
  BY <1>1, JsonTreeAssumption, FreeIsItem DEF Results, Heaps
<1>3. CASE IsText(type)
  <2>1. r = CreateText(h, type, value) /\ value \in Values
    BY <1>3 DEF CreateItem, ValueFits, IsText
  <2>2. QED BY <1>3, <2>1, CreatedText
<1>4. CASE ~ IsText(type) /\ n = NULL
  <2>1. r = new
    BY <1>4 DEF CreateItem
  <2>2. Added(h, new.heap, {})
    BY <1>1, <1>2, <1>4, NothingAdded
  <2>3. QED BY <1>1, <1>4, <2>1, <2>2 DEF Grown
<1>5. CASE ~ IsText(type) /\ n # NULL
  <2> DEFINE v == [Free EXCEPT !.type = type]
             w == IF type = "Number" THEN value ELSE NULL
  <2>1. n \in Nodes \ Live(h) /\ new.heap.mem[n] = v
    BY <1>1, <1>5
  <2>2. w \in Values \cup {NULL} /\ v.value = NULL
    BY DEF ValueFits, Free
  <2> HIDE DEF v, new
  <2>3. /\ r.heap \in Heaps /\ r.heap.strings = h.strings /\ r.ret = n /\ r = [heap |-> r.heap, ret |-> n]
        /\ \A x \in Nodes : r.heap.mem[x] = IF x = n THEN [v EXCEPT !.value = w] ELSE h.mem[x]
    <3>1. CASE type = "Number"
      <4> DEFINE f == [new.heap EXCEPT !.mem[n].value = value]
      <4>1. r = [new EXCEPT !.heap.mem[n].value = value]
        BY <1>5, <3>1 DEF CreateItem, new
      <4>2. f \in Heaps /\ f.strings = h.strings /\ \A x \in Nodes : f.mem[x] = IF x = n THEN [v EXCEPT !.value = w] ELSE h.mem[x]
        <5>1. f \in Heaps /\ f.strings = new.heap.strings
          BY <1>2, <2>1, <2>2, <3>1 DEF Heaps, cJSON
        <5>2. \A x \in Nodes : f.mem[x] = IF x = n THEN [new.heap.mem[n] EXCEPT !.value = value] ELSE new.heap.mem[x]
          BY <1>2, <2>1 DEF Heaps
        <5>3. new.heap.mem[n] = v /\ \A x \in Nodes : x # n => new.heap.mem[x] = h.mem[x]
          BY <1>1, <2>1
        <5> HIDE DEF f
        <5>4. QED BY <1>1, <3>1, <5>1, <5>2, <5>3
      <4>3. r = [heap |-> f, ret |-> n]
        BY <1>1, <4>1 DEF Results
      <4> HIDE DEF f
      <4>4. QED BY <4>2, <4>3
    <3>2. CASE type # "Number"
      <4>1. r = new
        BY <1>5, <3>2 DEF CreateItem, new
      <4>2. [v EXCEPT !.value = NULL] = v
        BY <2>2 DEF v, Free
      <4>3. new = [heap |-> new.heap, ret |-> n]
        BY <1>1 DEF Results
      <4>4. QED BY <1>1, <1>2, <2>1, <3>2, <4>1, <4>2, <4>3
    <3>3. QED BY <3>1, <3>2
  <2> DEFINE f == r.heap
  <2> HIDE DEF r
  <2>4. f.mem[n] = [v EXCEPT !.value = w]
    BY <2>1, <2>3
  <2>5. f.mem[n].type = type /\ f.mem[n].ref = FALSE /\ f.mem[n].const = FALSE /\ f.mem[n].string = NULL
          /\ f.mem[n].value = w /\ f.mem[n].child = NULL /\ f.mem[n].next = NULL /\ f.mem[n].prev = NULL
    BY <2>4 DEF v, Free
  <2>6. ~ OwnsString(f.mem[n]) /\ ~ OwnsValue(f.mem[n])
    BY <1>5, <2>5 DEF OwnsString, OwnsValue
  <2>7. Added(h, f, {n}) /\ Tree(f.mem, {n}, NoLists, n) /\ NoLists \in [Nodes -> Seq(Nodes)]
    <3>1. \A x \in Nodes : x # n => f.mem[x] = h.mem[x]
      BY <2>3
    <3>2. f.strings = h.strings + One(OwnsString(f.mem[n])) + One(OwnsValue(f.mem[n]))
      BY <1>2, <2>3, <2>6 DEF One
    <3>3. f \in Heaps /\ f.mem[n].type # "free"
      BY <1>2, <2>3, <2>5
    <3> HIDE DEF f
    <3>4. QED BY <1>2, <2>1, <2>5, <3>1, <3>2, <3>3, OneItemAdded
  <2>8. Plain(f.mem, {n})
    BY <1>5, <2>5 DEF Plain, Typed, IsText, Parents
  <2>9. r \in Results
    BY <2>1, <2>3 DEF Results
  <2>10. QED BY <1>5, <2>1, <2>3, <2>7, <2>8, <2>9 DEF Grown, r
<1>6. QED BY <1>3, <1>4, <1>5
-----------------------------------------------------------------------------
(* Lists that are made one item at a time.                                 *)

Accs == [heap : Heaps, ok : BOOLEAN, last : Nodes \cup {NULL}]
\* The heap when n's list ends with the last item so far.
Finished(acc, n) ==
  LET first == acc.heap.mem[n].child
  IN IF first = NULL THEN acc.heap ELSE [acc.heap EXCEPT !.mem[first].prev = acc.last]

\* n's tree, with T its lists, is complete but for the prev of n's first child.
Growing(h, acc, n, F, T) ==
  LET g == Finished(acc, n)
  IN /\ acc \in Accs /\ n \in Nodes
     /\ Added(h, g, F) /\ Tree(g.mem, F, T, n) /\ ~ g.mem[n].ref
     /\ acc.last = IF T[n] = << >> THEN NULL ELSE T[n][Len(T[n])]
     /\ acc.ok => Plain(g.mem, F)
IsGrowing(h, acc, n) == \E F \in SUBSET Nodes, T \in [Nodes -> Seq(Nodes)] : Growing(h, acc, n, F, T)

\* What a loop over a list carries has its fields.
LEMMA AccMeans ==
  ASSUME NEW acc \in Accs
  PROVE  acc.heap \in Heaps /\ acc.ok \in BOOLEAN /\ acc.last \in Nodes \cup {NULL}
         /\ acc = [heap |-> acc.heap, ok |-> acc.ok, last |-> acc.last]
BY DEF Accs

\* Only the prev of the first child is not yet what it will be.
LEMMA FinishedHeap ==
  ASSUME NEW acc \in Accs, NEW n \in Nodes
  PROVE  LET g == Finished(acc, n)
             m == acc.heap.mem
         IN /\ g \in Heaps /\ g.strings = acc.heap.strings /\ Live(g) = Live(acc.heap)
            /\ \A x \in Nodes : /\ SameTexts(g.mem[x], m[x]) /\ g.mem[x].of = m[x].of
                                /\ g.mem[x].child = m[x].child /\ g.mem[x].next = m[x].next
                                /\ g.mem[x].prev = IF x = m[n].child THEN acc.last ELSE m[x].prev
                                /\ x # m[n].child => g.mem[x] = m[x]
<1> DEFINE g == Finished(acc, n)
           m == acc.heap.mem
           first == m[n].child
<1>1. acc.heap \in Heaps /\ acc.last \in Nodes \cup {NULL} /\ first \in Nodes \cup {NULL} /\ NULL \notin Nodes
  BY AccMeans, Fields, JsonTreeAssumption
<1> HIDE DEF first
<1>2. CASE first = NULL
  <2>1. g = acc.heap
    BY <1>2 DEF Finished, first
  <2>2. QED BY <1>1, <1>2, <2>1 DEF SameTexts, first
<1>3. CASE first # NULL
  <2>1. g = [acc.heap EXCEPT !.mem[first].prev = acc.last] /\ first \in Nodes
    BY <1>1, <1>3 DEF Finished, first
  <2> HIDE DEF g
  <2>2. g \in Heaps /\ g.strings = acc.heap.strings
    BY <1>1, <2>1 DEF Heaps, cJSON
  <2>3. \A x \in Nodes : g.mem[x] = IF x = first THEN [m[x] EXCEPT !.prev = acc.last] ELSE m[x]
    BY <1>1, <2>1 DEF Heaps
  <2>4. \A x \in Nodes : /\ SameTexts(g.mem[x], m[x]) /\ g.mem[x].of = m[x].of
                         /\ g.mem[x].child = m[x].child /\ g.mem[x].next = m[x].next
                         /\ g.mem[x].prev = IF x = first THEN acc.last ELSE m[x].prev
                         /\ x # first => g.mem[x] = m[x]
    <3>1. SUFFICES ASSUME NEW x \in Nodes
          PROVE  /\ SameTexts(g.mem[x], m[x]) /\ g.mem[x].of = m[x].of
                 /\ g.mem[x].child = m[x].child /\ g.mem[x].next = m[x].next
                 /\ g.mem[x].prev = IF x = first THEN acc.last ELSE m[x].prev
                 /\ x # first => g.mem[x] = m[x]
      OBVIOUS
    <3>2. m[x] \in cJSON
      BY <1>1, Fields
    <3>3. QED BY <2>3, <3>2 DEF SameTexts, cJSON
  <2>5. Live(g) = Live(acc.heap)
    BY <2>4 DEF Live, SameTexts
  <2>6. QED BY <2>2, <2>4, <2>5 DEF g, first
<1>4. QED BY <1>2, <1>3

\* What was made is returned, or nothing is left of it.
LEMMA CompletedGrown ==
  ASSUME NEW h \in Heaps, Blank(h), NEW acc, NEW n, IsGrowing(h, acc, n)
  PROVE  Grown(h, Completed(acc, n))
<1> DEFINE g == Finished(acc, n)
<1>1. PICK F \in SUBSET Nodes, T \in [Nodes -> Seq(Nodes)] : Growing(h, acc, n, F, T)
  BY DEF IsGrowing
<1>2. acc \in Accs /\ n \in Nodes /\ n # NULL /\ Added(h, g, F) /\ Tree(g.mem, F, T, n) /\ (acc.ok => Plain(g.mem, F))
  BY <1>1, JsonTreeAssumption DEF Growing
<1>3. /\ acc.heap \in Heaps /\ g \in Heaps /\ g.strings = acc.heap.strings /\ Live(g) = Live(acc.heap)
      /\ \A x \in Nodes : /\ SameTexts(g.mem[x], acc.heap.mem[x])
                          /\ g.mem[x].child = acc.heap.mem[x].child /\ g.mem[x].next = acc.heap.mem[x].next
                          /\ x # acc.heap.mem[n].child => g.mem[x] = acc.heap.mem[x]
  BY <1>2, FinishedHeap, AccMeans
<1>4. CASE acc.ok
  <2>1. Completed(acc, n) = [heap |-> g, ret |-> n]
    BY <1>4 DEF Completed, Finished, Returns
  <2> HIDE DEF g
  <2>2. Completed(acc, n) \in Results /\ Completed(acc, n).heap = g /\ Completed(acc, n).ret = n
    BY <1>2, <1>3, <2>1 DEF Results
  <2>3. QED BY <1>2, <1>4, <2>2 DEF Grown
<1>5. CASE ~ acc.ok
  <2> DEFINE d == cJSON_Delete(acc.heap, n)
  <2>1. Completed(acc, n) = [heap |-> d, ret |-> NULL]
    BY <1>5 DEF Completed, Returns
  <2> HIDE DEF g
  <2>2. Reaching(g.mem, F, T, n) /\ F \subseteq Nodes /\ n \in F
    BY <1>2, TreeIsReaching DEF Tree
  <2>3. T \in [Nodes -> Seq(F)] /\ \A q \in Nodes : \A i \in 1..Len(T[q]) : T[q][i] \in F
    BY <2>2 DEF Reaching, Forest
  <2>4. Reaching(acc.heap.mem, F, T, n)
    <3>1. Heads(acc.heap.mem, F, T)
      BY <1>3, <2>2 DEF Reaching, Heads, SameTexts
    <3>2. Nexts(acc.heap.mem, T)
      BY <1>3, <2>2, <2>3 DEF Reaching, Nexts
    <3>3. acc.heap.mem[n].next = NULL
      BY <1>2, <1>3, <2>2 DEF Reaching
    <3>4. QED BY <2>2, <3>1, <3>2, <3>3 DEF Reaching
  <2>5. acc.heap.mem[n].child \in F \cup {NULL}
    <3>1. acc.heap.mem[n].child \in Nodes \cup {NULL} /\ g.mem[n].child = acc.heap.mem[n].child
      BY <1>2, <1>3, Fields
    <3>2. ~ g.mem[n].ref /\ g.mem[n].child = First(T[n])
      BY <1>1, <2>2 DEF Reaching, Heads, Growing, g
    <3>3. T[n] \in Seq(F)
      BY <1>2, <2>3
    <3>4. T[n] # << >> => T[n][1] \in F
      BY <3>3
    <3>5. QED BY <3>1, <3>2, <3>4 DEF First
  <2>6. Added(h, acc.heap, F)
    <3>1. \A x \in Nodes \ F : g.mem[x] = acc.heap.mem[x]
      <4>1. NULL \notin Nodes
        BY JsonTreeAssumption
      <4>2. QED BY <1>3, <2>5, <4>1
    <3>2. \A x \in F : SameTexts(acc.heap.mem[x], g.mem[x])
      BY <1>3, <2>2 DEF SameTexts
    <3>3. Blocks(acc.heap, F) = Blocks(g, F)
      BY <3>2, BlocksSame
    <3>4. QED BY <1>2, <1>3, <3>1, <3>3 DEF Added
  <2>7. Added(h, d, {}) /\ d \in Heaps
    BY <2>4, <2>6, DeleteAdded
  <2> HIDE DEF d
  <2>8. QED BY <2>1, <2>7 DEF Grown, Results
<1>6. QED BY <1>4, <1>5

\* Two sets without a common member; lists with c as one more; lists of the same members.
Apart(F, G) == F \cap G = {}
OneMore(T, T2, F, c) ==
  \A x \in F : ToSet(T[x]) \subseteq ToSet(T2[x]) /\ ToSet(T2[x]) \subseteq ToSet(T[x]) \cup {c}
Alike(U, T2, G) == \A x \in G : ToSet(T2[x]) = ToSet(U[x])

\* What one pointer more does to a family.
LEMMA GrownFamily ==
  ASSUME NEW F, NEW T, Forest(F, T), NEW G, NEW U, Forest(G, U), Apart(F, G),
         NEW n \in F, FamilyOf(T, n) = F, NEW c \in G, FamilyOf(U, c) = G,
         NEW T2 \in [Nodes -> Seq(Nodes)], c \in ToSet(T2[n]),
         OneMore(T, T2, F, c), Alike(U, T2, G)
  PROVE  \A x : x \in FamilyOf(T2, n) <=> x \in F \/ x \in G
<1>1. /\ F \subseteq Nodes /\ G \subseteq Nodes /\ T \in [Nodes -> Seq(Nodes)] /\ U \in [Nodes -> Seq(Nodes)]
      /\ \A q \in Nodes : ToSet(T[q]) \subseteq F /\ ToSet(U[q]) \subseteq G
  <2>1. T \in [Nodes -> Seq(Nodes)] /\ \A q \in Nodes : ToSet(T[q]) \subseteq F
    BY ForestLists
  <2>2. U \in [Nodes -> Seq(Nodes)] /\ \A q \in Nodes : ToSet(U[q]) \subseteq G
    BY ForestLists
  <2>3. QED BY <2>1, <2>2 DEF Forest
<1>0. /\ \A x \in F : ToSet(T[x]) \subseteq ToSet(T2[x]) /\ ToSet(T2[x]) \subseteq ToSet(T[x]) \cup {c}
      /\ \A x \in G : ToSet(T2[x]) = ToSet(U[x])
  BY DEF OneMore, Alike
<1>8. F \cap G = {}
  BY DEF Apart
<1> DEFINE C == FamilyOf(T2, n)
           CF == C \cap F
           CG == C \cap G
<1>2. n \in Nodes /\ c \in Nodes
  BY <1>1
<1>3. /\ C \in SUBSET Nodes /\ n \in C /\ \A y \in C : ToSet(T2[y]) \subseteq C
      /\ \A D \in SUBSET Nodes : n \in D /\ (\A y \in D : ToSet(T2[y]) \subseteq D) => C \subseteq D
  BY <1>2, FamilyIsLeast
<1> HIDE DEF C
<1>4. C \subseteq F \cup G
  <2>1. \A y \in F \cup G : ToSet(T2[y]) \subseteq F \cup G
    BY <1>0, <1>1
  <2>2. F \cup G \in SUBSET Nodes /\ n \in F \cup G
    BY <1>1
  <2>3. QED BY <1>3, <2>1, <2>2
<1>5. FamilyOf(T, n) \subseteq CF
  <2>1. CF \in SUBSET Nodes /\ n \in CF
    BY <1>3
  <2>2. \A y \in CF : ToSet(T[y]) \subseteq CF
    BY <1>0, <1>1, <1>3
  <2> HIDE DEF CF
  <2>3. QED BY <1>1, <1>2, <2>1, <2>2, FamilyIsLeast
<1>6. FamilyOf(U, c) \subseteq CG
  <2>1. CG \in SUBSET Nodes /\ c \in CG
    BY <1>0, <1>3
  <2>2. \A y \in CG : ToSet(U[y]) \subseteq CG
    BY <1>0, <1>1, <1>3
  <2> HIDE DEF CG
  <2>3. QED BY <1>1, <1>2, <2>1, <2>2, FamilyIsLeast
<1>7. QED BY <1>4, <1>5, <1>6 DEF C

Mems == [Nodes -> cJSON]
\* One pointer of one item is set.
NextIs(m2, m, n, v) ==
  /\ m2 \in Mems
  /\ \A x \in Nodes : /\ SameTexts(m2[x], m[x]) /\ m2[x].of = m[x].of
                      /\ m2[x].child = m[x].child /\ m2[x].prev = m[x].prev
                      /\ m2[x].next = IF x = n THEN v ELSE m[x].next
PrevIs(m2, m, n, v) ==
  /\ m2 \in Mems
  /\ \A x \in Nodes : /\ SameTexts(m2[x], m[x]) /\ m2[x].of = m[x].of
                      /\ m2[x].child = m[x].child /\ m2[x].next = m[x].next
                      /\ m2[x].prev = IF x = n THEN v ELSE m[x].prev
ChildIs(m2, m, n, v) ==
  /\ m2 \in Mems
  /\ \A x \in Nodes : /\ SameTexts(m2[x], m[x]) /\ m2[x].of = m[x].of
                      /\ m2[x].next = m[x].next /\ m2[x].prev = m[x].prev
                      /\ m2[x].child = IF x = n THEN v ELSE m[x].child

\* An assignment to one item's next sets that and nothing else.
LEMMA NextSet ==
  ASSUME NEW m \in Mems, NEW n \in Nodes, NEW v \in Nodes \cup {NULL}
  PROVE  NextIs([m EXCEPT ![n].next = v], m, n, v)
<1> DEFINE u == [m[n] EXCEPT !.next = v]
           m2 == [m EXCEPT ![n] = u]
<1>1. u \in cJSON /\ SameTexts(u, m[n]) /\ u.of = m[n].of /\ u.child = m[n].child /\ u.prev = m[n].prev /\ u.next = v
  BY DEF Mems, cJSON, SameTexts
<1>2. m2 = [m EXCEPT ![n].next = v]
  OBVIOUS
<1> HIDE DEF u
<1>3. m2 \in Mems /\ \A x \in Nodes : m2[x] = IF x = n THEN u ELSE m[x]
  BY <1>1 DEF Mems
<1> HIDE DEF m2
<1>4. NextIs(m2, m, n, v)
  BY <1>1, <1>3 DEF NextIs, SameTexts
<1>5. QED BY <1>2, <1>4

\* An assignment to one item's prev sets that and nothing else.
LEMMA PrevSet ==
  ASSUME NEW m \in Mems, NEW n \in Nodes, NEW v \in Nodes \cup {NULL}
  PROVE  PrevIs([m EXCEPT ![n].prev = v], m, n, v)
<1> DEFINE u == [m[n] EXCEPT !.prev = v]
           m2 == [m EXCEPT ![n] = u]
<1>1. u \in cJSON /\ SameTexts(u, m[n]) /\ u.of = m[n].of /\ u.child = m[n].child /\ u.next = m[n].next /\ u.prev = v
  BY DEF Mems, cJSON, SameTexts
<1>2. m2 = [m EXCEPT ![n].prev = v]
  OBVIOUS
<1> HIDE DEF u
<1>3. m2 \in Mems /\ \A x \in Nodes : m2[x] = IF x = n THEN u ELSE m[x]
  BY <1>1 DEF Mems
<1> HIDE DEF m2
<1>4. PrevIs(m2, m, n, v)
  BY <1>1, <1>3 DEF PrevIs, SameTexts
<1>5. QED BY <1>2, <1>4

\* An assignment to one item's child sets that and nothing else.
LEMMA ChildSet ==
  ASSUME NEW m \in Mems, NEW n \in Nodes, NEW v \in Nodes \cup {NULL}
  PROVE  ChildIs([m EXCEPT ![n].child = v], m, n, v)
<1> DEFINE u == [m[n] EXCEPT !.child = v]
           m2 == [m EXCEPT ![n] = u]
<1>1. u \in cJSON /\ SameTexts(u, m[n]) /\ u.of = m[n].of /\ u.next = m[n].next /\ u.prev = m[n].prev /\ u.child = v
  BY DEF Mems, cJSON, SameTexts
<1>2. m2 = [m EXCEPT ![n].child = v]
  OBVIOUS
<1> HIDE DEF u
<1>3. m2 \in Mems /\ \A x \in Nodes : m2[x] = IF x = n THEN u ELSE m[x]
  BY <1>1 DEF Mems
<1> HIDE DEF m2
<1>4. ChildIs(m2, m, n, v)
  BY <1>1, <1>3 DEF ChildIs, SameTexts
<1>5. QED BY <1>2, <1>4

\* Items that differ in their pointers only.
Like(m2, m) == \A x \in Nodes : SameTexts(m2[x], m[x]) /\ m2[x].of = m[x].of
\* The same items in two heaps, but for their pointers.
Unchanged(h2, h) == \A x \in Nodes : SameTexts(h2.mem[x], h.mem[x]) /\ h2.mem[x].of = h.mem[x].of
\* h2 is h but for the pointers of its items.
Rewired(h2, h) == h2 \in Heaps /\ Unchanged(h2, h) /\ h2.strings = h.strings /\ h2.left = h.left

\* A heap with items that differ in their pointers only.
LEMMA MemSet ==
  ASSUME NEW h \in Heaps, NEW M \in Mems, Like(M, h.mem)
  PROVE  LET g == [h EXCEPT !.mem = M] IN Rewired(g, h) /\ g.mem = M
<1> DEFINE g == [h EXCEPT !.mem = M]
<1>1. g \in Heaps /\ g.mem = M /\ g.strings = h.strings /\ g.left = h.left
  BY DEF Heaps, Mems
<1> HIDE DEF g
<1>2. Unchanged(g, h)
  BY <1>1 DEF Unchanged, Like
<1>3. QED BY <1>1, <1>2 DEF Rewired, g

\* A pointer that is set leaves everything but pointers alone.
LEMMA LikeMeans ==
  ASSUME NEW m, NEW m2, NEW n, NEW v, NextIs(m2, m, n, v) \/ PrevIs(m2, m, n, v) \/ ChildIs(m2, m, n, v)
  PROVE  m2 \in Mems /\ Like(m2, m)
BY DEF NextIs, PrevIs, ChildIs, Like

\* Two such changes are one.
LEMMA LikeTwice ==
  ASSUME NEW m, NEW m2, NEW m3, Like(m2, m), Like(m3, m2)
  PROVE  Like(m3, m)
BY DEF Like, SameTexts

\* NextSet, for the items of a heap.
LEMMA NextPut ==
  ASSUME NEW h \in Heaps, NEW n \in Nodes, NEW v \in Nodes \cup {NULL}
  PROVE  LET g == [h EXCEPT !.mem[n].next = v]
         IN g \in Heaps /\ Rewired(g, h) /\ NextIs(g.mem, h.mem, n, v)
<1> DEFINE M == [h.mem EXCEPT ![n].next = v]
           g == [h EXCEPT !.mem = M]
<1>1. h.mem \in Mems
  BY DEF Heaps, Mems
<1>2. NextIs(M, h.mem, n, v)
  BY <1>1, NextSet
<1>3. g = [h EXCEPT !.mem[n].next = v]
  OBVIOUS
<1> HIDE DEF M
<1>4. Rewired(g, h) /\ g.mem = M
  BY <1>2, LikeMeans, MemSet
<1>5. QED BY <1>2, <1>3, <1>4 DEF Rewired

\* PrevSet, for the items of a heap.
LEMMA PrevPut ==
  ASSUME NEW h \in Heaps, NEW n \in Nodes, NEW v \in Nodes \cup {NULL}
  PROVE  LET g == [h EXCEPT !.mem[n].prev = v]
         IN g \in Heaps /\ Rewired(g, h) /\ PrevIs(g.mem, h.mem, n, v)
<1> DEFINE M == [h.mem EXCEPT ![n].prev = v]
           g == [h EXCEPT !.mem = M]
<1>1. h.mem \in Mems
  BY DEF Heaps, Mems
<1>2. PrevIs(M, h.mem, n, v)
  BY <1>1, PrevSet
<1>3. g = [h EXCEPT !.mem[n].prev = v]
  OBVIOUS
<1> HIDE DEF M
<1>4. Rewired(g, h) /\ g.mem = M
  BY <1>2, LikeMeans, MemSet
<1>5. QED BY <1>2, <1>3, <1>4 DEF Rewired

\* ChildSet, for the items of a heap.
LEMMA ChildPut ==
  ASSUME NEW h \in Heaps, NEW n \in Nodes, NEW v \in Nodes \cup {NULL}
  PROVE  LET g == [h EXCEPT !.mem[n].child = v]
         IN g \in Heaps /\ Rewired(g, h) /\ ChildIs(g.mem, h.mem, n, v)
<1> DEFINE M == [h.mem EXCEPT ![n].child = v]
           g == [h EXCEPT !.mem = M]
<1>1. h.mem \in Mems
  BY DEF Heaps, Mems
<1>2. ChildIs(M, h.mem, n, v)
  BY <1>1, ChildSet
<1>3. g = [h EXCEPT !.mem[n].child = v]
  OBVIOUS
<1> HIDE DEF M
<1>4. Rewired(g, h) /\ g.mem = M
  BY <1>2, LikeMeans, MemSet
<1>5. QED BY <1>2, <1>3, <1>4 DEF Rewired

\* A step of the loop that makes a list.
LEMMA AppendedAcc ==
  ASSUME NEW acc \in Accs, NEW n \in Nodes, NEW r \in Results
  PROVE  LET new == Appended(acc, n, r)
             m == r.heap.mem
         IN /\ new \in Accs
            /\ r.ret = NULL => new.heap = r.heap /\ ~ new.ok /\ new.last = acc.last
            /\ r.ret # NULL =>
                 /\ new.ok /\ new.last = r.ret /\ new.heap.strings = r.heap.strings
                 /\ \A x \in Nodes :
                      /\ SameTexts(new.heap.mem[x], m[x]) /\ new.heap.mem[x].of = m[x].of
                      /\ new.heap.mem[x].child = IF acc.last = NULL /\ x = n THEN r.ret ELSE m[x].child
                      /\ new.heap.mem[x].next = IF x = acc.last THEN r.ret ELSE m[x].next
                      /\ new.heap.mem[x].prev = IF acc.last # NULL /\ x = r.ret THEN acc.last ELSE m[x].prev
                      /\ x \notin {n, acc.last, r.ret} => new.heap.mem[x] = m[x]
<1> DEFINE new == Appended(acc, n, r)
           m == r.heap.mem
           c == r.ret
           last == acc.last
<1>1. /\ acc.heap \in Heaps /\ acc.ok \in BOOLEAN /\ last \in Nodes \cup {NULL} /\ NULL \notin Nodes
      /\ acc = [heap |-> acc.heap, ok |-> acc.ok, last |-> last]
      /\ r.heap \in Heaps /\ c \in Nodes \cup {NULL}
  BY AccMeans, JsonTreeAssumption DEF Results
<1>2. CASE c = NULL
  <2>1. new = [acc EXCEPT !.heap = r.heap, !.ok = FALSE]
    BY <1>2 DEF Appended
  <2>2. new = [heap |-> r.heap, ok |-> FALSE, last |-> last]
    BY <1>1, <2>1
  <2>3. QED BY <1>1, <1>2, <2>2 DEF Accs
<1>3. CASE c # NULL
  <2> DEFINE hh == IF last = NULL THEN [r.heap EXCEPT !.mem[n].child = c]
                   ELSE [r.heap EXCEPT !.mem[last].next = c, !.mem[c].prev = last]
  <2>1. new = [heap |-> hh, ok |-> TRUE, last |-> c]
    BY <1>3, Zenon DEF Appended
  <2>2. c \in Nodes
    <3>1. c \in Nodes \cup {NULL}
      BY <1>1, ZenonT(30)
    <3> HIDE DEF c
    <3>2. QED BY <1>3, <3>1
  <2> HIDE DEF new, c, last
  <2>3. /\ hh \in Heaps /\ hh.strings = r.heap.strings
        /\ \A x \in Nodes :
             /\ SameTexts(hh.mem[x], m[x]) /\ hh.mem[x].of = m[x].of
             /\ hh.mem[x].child = IF last = NULL /\ x = n THEN c ELSE m[x].child
             /\ hh.mem[x].next = IF x = last THEN c ELSE m[x].next
             /\ hh.mem[x].prev = IF last # NULL /\ x = c THEN last ELSE m[x].prev
             /\ x \notin {n, last, c} => hh.mem[x] = m[x]
    <3>1. CASE last = NULL
      <4> DEFINE g == [r.heap EXCEPT !.mem[n].child = c]
      <4>1. hh = g
        BY <3>1
      <4>2. g \in Heaps /\ Rewired(g, r.heap) /\ ChildIs(g.mem, m, n, c)
        BY <1>1, <2>2, ChildPut
      <4>3. \A x \in Nodes : x # n => g.mem[x] = m[x]
        BY <1>1 DEF Heaps
      <4> HIDE DEF hh, g
      <4>4. \A x \in Nodes : x # last
        BY <1>1, <3>1
      <4>5. QED BY <3>1, <4>1, <4>2, <4>3, <4>4 DEF Rewired, ChildIs
    <3>2. CASE last # NULL
      <4> DEFINE f == [r.heap EXCEPT !.mem[last].next = c]
                 g == [f EXCEPT !.mem[c].prev = last]
      <4>1. hh = g /\ last \in Nodes
        BY <1>1, <3>2
      <4>2. f \in Heaps /\ Rewired(f, r.heap) /\ NextIs(f.mem, m, last, c)
        BY <1>1, <2>2, <4>1, NextPut
      <4>3. \A x \in Nodes : x # last => f.mem[x] = m[x]
        BY <1>1 DEF Heaps
      <4> HIDE DEF f
      <4>4. g \in Heaps /\ Rewired(g, f) /\ PrevIs(g.mem, f.mem, c, last)
        BY <2>2, <4>1, <4>2, PrevPut
      <4>5. \A x \in Nodes : x # c => g.mem[x] = f.mem[x]
        BY <4>2 DEF Heaps
      <4> HIDE DEF hh, g
      <4>6. g.strings = r.heap.strings
        BY <4>2, <4>4 DEF Rewired
      <4>7. SUFFICES ASSUME NEW x \in Nodes
            PROVE  /\ SameTexts(g.mem[x], m[x]) /\ g.mem[x].of = m[x].of
                   /\ g.mem[x].child = IF last = NULL /\ x = n THEN c ELSE m[x].child
                   /\ g.mem[x].next = IF x = last THEN c ELSE m[x].next
                   /\ g.mem[x].prev = IF last # NULL /\ x = c THEN last ELSE m[x].prev
                   /\ x \notin {n, last, c} => g.mem[x] = m[x]
        BY <4>1, <4>4, <4>6
      <4>8. /\ SameTexts(f.mem[x], m[x]) /\ f.mem[x].of = m[x].of /\ f.mem[x].child = m[x].child
            /\ f.mem[x].next = (IF x = last THEN c ELSE m[x].next) /\ f.mem[x].prev = m[x].prev
        BY <4>2 DEF NextIs
      <4>9. /\ SameTexts(g.mem[x], f.mem[x]) /\ g.mem[x].of = f.mem[x].of /\ g.mem[x].child = f.mem[x].child
            /\ g.mem[x].prev = (IF x = c THEN last ELSE f.mem[x].prev) /\ g.mem[x].next = f.mem[x].next
        BY <4>4 DEF PrevIs
      <4>10. SameTexts(g.mem[x], m[x])
        BY <4>8, <4>9 DEF SameTexts
      <4>11. QED BY <3>2, <4>3, <4>5, <4>8, <4>9, <4>10, Zenon
    <3>3. QED BY <3>1, <3>2
  <2> HIDE DEF hh
  <2>4. /\ new \in Accs /\ new.ok /\ new.last = c /\ new.heap = hh
    BY <2>1, <2>2, <2>3 DEF Accs
  <2>5. QED BY <1>3, <2>3, <2>4 DEF new, c, last
<1>4. QED BY <1>2, <1>3

\* Two heaps with the same items.
LEMMA SameMem ==
  ASSUME NEW h \in Heaps, NEW h2 \in Heaps, \A x \in Nodes : h2.mem[x] = h.mem[x]
  PROVE  h2.mem = h.mem
BY DEF Heaps

\* No item, and no more, was made.
LEMMA StoppedGrows ==
  ASSUME NEW h \in Heaps, NEW acc, NEW n, IsGrowing(h, acc, n), NEW r \in Results, r.ret = NULL,
         Added(acc.heap, r.heap, {})
  PROVE  IsGrowing(h, Appended(acc, n, r), n)
<1> DEFINE g == Finished(acc, n)
           new == Appended(acc, n, r)
           g2 == Finished(new, n)
<1>1. PICK F \in SUBSET Nodes, T \in [Nodes -> Seq(Nodes)] : Growing(h, acc, n, F, T)
  BY DEF IsGrowing
<1>2. acc \in Accs /\ n \in Nodes /\ Added(h, g, F) /\ Tree(g.mem, F, T, n) /\ ~ g.mem[n].ref
      /\ acc.last = IF T[n] = << >> THEN NULL ELSE T[n][Len(T[n])]
  BY <1>1 DEF Growing
<1>3. new \in Accs /\ new.heap = r.heap /\ ~ new.ok /\ new.last = acc.last
  BY <1>2, AppendedAcc
<1>4. acc.heap \in Heaps /\ r.heap \in Heaps
  BY <1>2, AccMeans DEF Results
<1>5. r.heap.mem = acc.heap.mem /\ r.heap.strings = acc.heap.strings
  <2>1. \A x \in Nodes : r.heap.mem[x] = acc.heap.mem[x]
    BY DEF Added
  <2>2. r.heap.strings = acc.heap.strings + 0 /\ acc.heap.strings \in Int
    BY <1>4, EmptyBlocks DEF Added, Heaps
  <2>3. r.heap.mem = acc.heap.mem
    BY <1>4, <2>1, SameMem
  <2>4. QED BY <2>2, <2>3
<1> HIDE DEF new
<1>6. g2 \in Heaps /\ g2.strings = g.strings /\ g2.mem = g.mem
  <2>1. g \in Heaps /\ g2 \in Heaps /\ g.strings = acc.heap.strings /\ g2.strings = new.heap.strings
    BY <1>2, <1>3, FinishedHeap
  <2>2. g2.mem = g.mem
    <3> DEFINE first == acc.heap.mem[n].child
    <3>1. CASE first = NULL
      BY <1>3, <1>5, <3>1 DEF Finished
    <3>2. CASE first # NULL
      <4>1. g = [acc.heap EXCEPT !.mem[first].prev = acc.last] /\ g2 = [r.heap EXCEPT !.mem[first].prev = acc.last]
        BY <1>3, <1>5, <3>2 DEF Finished
      <4> HIDE DEF g, g2, first
      <4>2. g.mem = [acc.heap.mem EXCEPT ![first].prev = acc.last] /\ g2.mem = [r.heap.mem EXCEPT ![first].prev = acc.last]
        BY <1>4, <4>1 DEF Heaps
      <4>3. QED BY <1>5, <4>2
    <3>3. QED BY <3>1, <3>2
  <2>3. QED BY <1>3, <1>5, <2>1, <2>2
<1> HIDE DEF g, g2
<1>7. Added(h, g2, F)
  <2>1. Blocks(g2, F) = Blocks(g, F)
    BY <1>6 DEF Blocks
  <2>2. Live(g2) = Live(g)
    BY <1>6 DEF Live
  <2>3. QED BY <1>2, <1>6, <2>1, <2>2 DEF Added
<1>8. Growing(h, new, n, F, T)
  BY <1>2, <1>3, <1>6, <1>7 DEF Growing, g2
<1>9. QED BY <1>8 DEF IsGrowing, new

\* A list that is not to be completed is as it was.
LEMMA FailedGrows ==
  ASSUME NEW h \in Heaps, NEW acc, NEW n, IsGrowing(h, acc, n)
  PROVE  IsGrowing(h, [acc EXCEPT !.ok = FALSE], n)
<1> DEFINE new == [acc EXCEPT !.ok = FALSE]
<1>1. PICK F \in SUBSET Nodes, T \in [Nodes -> Seq(Nodes)] : Growing(h, acc, n, F, T)
  BY DEF IsGrowing
<1>2. acc \in Accs
  BY <1>1 DEF Growing
<1>4. new \in Accs /\ new.heap = acc.heap /\ ~ new.ok /\ new.last = acc.last
  BY <1>2 DEF Accs
<1> HIDE DEF new
<1>5. Finished(new, n) = Finished(acc, n)
  BY <1>4 DEF Finished
<1>6. Growing(h, new, n, F, T)
  BY <1>1, <1>4, <1>5 DEF Growing
<1>7. QED BY <1>6 DEF IsGrowing, new

\* A sequence with one more member at its end.
LEMMA AppendedSet ==
  ASSUME NEW S, NEW s \in Seq(S), NEW c \in S, NEW k \in 1..(Len(s) + 1), k > Len(s)
  PROVE  LET t == InsertAt(s, k, c)
         IN /\ t \in Seq(S) /\ t # << >> /\ t[Len(t)] = c
            /\ \A x : x \in ToSet(t) <=> x \in ToSet(s) \/ x = c
<1> DEFINE t == InsertAt(s, k, c)
<1>0. IsInserted(t, S, s, k, c)
  BY Inserted
<1>1. Len(s) \in Nat /\ k = Len(s) + 1 /\ k \in Nat
  OBVIOUS
<1>2. /\ t \in Seq(S) /\ Len(t) = Len(s) + 1
      /\ \A i \in 1..(Len(s) + 1) : t[i] = IF i < k THEN s[i] ELSE IF i = k THEN c ELSE s[i - 1]
  BY <1>0 DEF IsInserted
<1> HIDE DEF t
<1>3. t[k] = c
  <2>1. ~ (k < k)
    BY <1>1
  <2>2. QED BY <1>1, <1>2, <2>1
<1>4. \A i \in 1..Len(s) : t[i] = s[i] /\ i \in 1..(Len(s) + 1)
  BY <1>1, <1>2
<1>5. \A x : x \in ToSet(t) <=> x \in ToSet(s) \/ x = c
  <2>1. SUFFICES ASSUME NEW x PROVE x \in ToSet(t) <=> x \in ToSet(s) \/ x = c
    OBVIOUS
  <2>2. x \in ToSet(t) <=> \E i \in 1..Len(t) : x = t[i]
    BY <1>2, Members
  <2>3. x \in ToSet(s) <=> \E i \in 1..Len(s) : x = s[i]
    BY Members
  <2>4. \A i \in 1..Len(t) : i \in 1..Len(s) \/ i = k
    BY <1>1, <1>2
  <2>5. k \in 1..Len(t) /\ \A i \in 1..Len(s) : i \in 1..Len(t)
    BY <1>1, <1>2
  <2>6. QED BY <1>3, <1>4, <2>2, <2>3, <2>4, <2>5
<1>6. t # << >>
  <2>1. Len(t) # 0
    BY <1>1, <1>2
  <2>2. QED BY <2>1, EmptySeq
<1>7. t[Len(t)] = c
  BY <1>1, <1>2, <1>3
<1>8. QED BY <1>2, <1>5, <1>6, <1>7 DEF t

Untouched(h2, h, S) == \A x \in S : h2.mem[x] = h.mem[x]
Reads(h2, h, S) == \A x \in S : SameTexts(h2.mem[x], h.mem[x])

\* The items of F and of G are the items of both.
LEMMA AddedBoth ==
  ASSUME NEW h \in Heaps, NEW g, NEW F, Added(h, g, F), NEW h1, Live(h1) = Live(g), h1.strings = g.strings,
         Untouched(h1, g, Nodes \ F),
         NEW h2, NEW G, Added(h1, h2, G),
         NEW g2 \in Heaps, g2.strings = h2.strings,
         Untouched(g2, h2, Nodes \ (F \cup G)), Reads(g2, g, F), Reads(g2, h2, G)
  PROVE  Added(h, g2, F \cup G) /\ F \cap G = {}
<1>1. /\ F \subseteq Nodes \ Live(h) /\ F \subseteq Live(g) /\ g \in Heaps /\ \A x \in Nodes \ F : g.mem[x] = h.mem[x]
      /\ g.strings = h.strings + Blocks(g, F)
  BY DEF Added
<1>2. /\ G \subseteq Nodes \ Live(h1) /\ G \subseteq Live(h2) /\ \A x \in Nodes \ G : h2.mem[x] = h1.mem[x]
      /\ h2.strings = h1.strings + Blocks(h2, G)
  BY DEF Added
<1>3. F \cap G = {}
  BY <1>1, <1>2
<1>4. Live(g) = Live(h) \cup F
  BY AddedLive
<1>5. F \cup G \subseteq Nodes \ Live(h)
  BY <1>1, <1>2, <1>4
<1>6. F \cup G \subseteq Live(g2)
  <2>1. \A x \in F : g.mem[x].type # "free"
    BY <1>1 DEF Live
  <2>2. \A x \in G : h2.mem[x].type # "free"
    BY <1>2 DEF Live
  <2>3. \A x \in F \cup G : g2.mem[x].type # "free"
    BY <2>1, <2>2 DEF SameTexts, Reads
  <2>4. QED BY <1>5, <2>3 DEF Live
<1>7. \A x \in Nodes \ (F \cup G) : g2.mem[x] = h.mem[x]
  BY <1>1, <1>2 DEF Untouched
<1>8. g2.strings = h.strings + Blocks(g2, F \cup G)
  <2>1. Blocks(g2, F) = Blocks(g, F) /\ Blocks(g2, G) = Blocks(h2, G)
    BY BlocksSame DEF Reads
  <2>2. F \in SUBSET Nodes /\ G \in SUBSET Nodes
    BY <1>1, <1>2
  <2>3. Blocks(g2, F \cup G) = Blocks(g2, F) + Blocks(g2, G)
    BY <1>3, <2>2, BlocksAdd
  <2>4. Blocks(g2, F) \in Int /\ Blocks(g2, G) \in Int /\ h.strings \in Int
    BY <2>2, BlocksIsInt DEF Heaps
  <2>5. g2.strings = (h.strings + Blocks(g2, F)) + Blocks(g2, G)
    BY <1>1, <1>2, <2>1
  <2>6. QED BY <2>3, <2>4, <2>5
<1>9. QED BY <1>3, <1>5, <1>6, <1>7, <1>8 DEF Added

\* A tree that is put at the end of the list makes the list longer by one.
LEMMA LongerGrows ==
  ASSUME NEW h \in Heaps, NEW acc, NEW n, IsGrowing(h, acc, n), acc.ok,
         NEW r, Grown(acc.heap, r), r.ret # NULL
  PROVE  IsGrowing(h, Appended(acc, n, r), n)
<1> DEFINE g == Finished(acc, n)
           new == Appended(acc, n, r)
           g2 == Finished(new, n)
           c == r.ret
           last == acc.last
<1>1. PICK F \in SUBSET Nodes, T \in [Nodes -> Seq(Nodes)] : Growing(h, acc, n, F, T)
  BY DEF IsGrowing
<1>2. PICK G \in SUBSET Nodes, U \in [Nodes -> Seq(Nodes)] :
        Added(acc.heap, r.heap, G) /\ Tree(r.heap.mem, G, U, c) /\ Plain(r.heap.mem, G)
  BY DEF Grown
<1> DEFINE s == T[n]
           J == Joined(T, U, G)
           T2 == Putting(J, n, Len(s) + 1, c)
           M == [x \in Nodes |-> IF x \in F THEN g.mem[x] ELSE r.heap.mem[x]]
<1>3. /\ acc \in Accs /\ r \in Results /\ n \in Nodes /\ c \in Nodes
      /\ acc.heap \in Heaps /\ last \in Nodes \cup {NULL} /\ NULL \notin Nodes /\ r.heap \in Heaps
  BY <1>1, AccMeans, JsonTreeAssumption DEF Growing, Grown, Results
<1>4. /\ Added(h, g, F) /\ Tree(g.mem, F, T, n) /\ ~ g.mem[n].ref
      /\ last = (IF s = << >> THEN NULL ELSE s[Len(s)])
      /\ Plain(g.mem, F)
  BY <1>1 DEF Growing
<1>5. /\ Linked(g.mem, F, T) /\ n \in F /\ n \notin ListedBy(T) /\ FamilyOf(T, n) = F
      /\ Linked(r.heap.mem, G, U) /\ c \in G /\ c \notin ListedBy(U) /\ FamilyOf(U, c) = G
      /\ Forest(F, T) /\ Forest(G, U)
  BY <1>2, <1>4 DEF Tree, Linked
<1>6. /\ g \in Heaps /\ g.strings = acc.heap.strings /\ Live(g) = Live(acc.heap)
      /\ \A x \in Nodes : /\ SameTexts(g.mem[x], acc.heap.mem[x])
                          /\ g.mem[x].child = acc.heap.mem[x].child /\ g.mem[x].next = acc.heap.mem[x].next
                          /\ g.mem[x].prev = IF x = acc.heap.mem[n].child THEN last ELSE acc.heap.mem[x].prev
                          /\ x # acc.heap.mem[n].child => g.mem[x] = acc.heap.mem[x]
  BY <1>3, FinishedHeap
<1>7. /\ new \in Accs /\ new.ok /\ new.last = c /\ new.heap.strings = r.heap.strings
      /\ \A x \in Nodes :
           /\ SameTexts(new.heap.mem[x], r.heap.mem[x])
           /\ new.heap.mem[x].child = IF last = NULL /\ x = n THEN c ELSE r.heap.mem[x].child
           /\ new.heap.mem[x].next = IF x = last THEN c ELSE r.heap.mem[x].next
           /\ new.heap.mem[x].prev = IF last # NULL /\ x = c THEN last ELSE r.heap.mem[x].prev
           /\ x \notin {n, last, c} => new.heap.mem[x] = r.heap.mem[x]
  BY <1>3, AppendedAcc
<1> HIDE DEF new, g
<1>8. /\ g2 \in Heaps /\ g2.strings = new.heap.strings
      /\ \A x \in Nodes : /\ SameTexts(g2.mem[x], new.heap.mem[x])
                          /\ g2.mem[x].child = new.heap.mem[x].child /\ g2.mem[x].next = new.heap.mem[x].next
                          /\ g2.mem[x].prev = IF x = new.heap.mem[n].child THEN c ELSE new.heap.mem[x].prev
                          /\ x # new.heap.mem[n].child => g2.mem[x] = new.heap.mem[x]
  BY <1>3, <1>7, FinishedHeap
<1> HIDE DEF g2, c, last
\* Where the first child and the last are.
<1>9. /\ s \in Seq(F) /\ s \in Seq(Nodes) /\ Len(s) \in Nat
      /\ g.mem[n].child = First(s)
      /\ s # << >> => s[1] \in F /\ s[Len(s)] \in F /\ 1 \in 1..Len(s) /\ Len(s) \in 1..Len(s)
  <2>1. s \in Seq(F) /\ s \in Seq(Nodes) /\ Len(s) \in Nat
    BY <1>3, <1>5, ForestLists DEF Forest
  <2>2. g.mem[n].child = First(s)
    BY <1>4, <1>5 DEF Linked, Heads
  <2>3. s # << >> => 1 \in 1..Len(s) /\ Len(s) \in 1..Len(s)
    BY <2>1, EmptySeq
  <2>4. QED BY <2>1, <2>2, <2>3
<1>10. acc.heap.mem[n].child = First(s)
  BY <1>3, <1>6, <1>9
<1>11. /\ G \subseteq Nodes \ Live(acc.heap) /\ \A x \in Nodes \ G : r.heap.mem[x] = acc.heap.mem[x]
       /\ r.heap.strings = acc.heap.strings + Blocks(r.heap, G)
  BY <1>2 DEF Added
<1>12. F \subseteq Live(acc.heap) /\ F \cap G = {} /\ n \notin G /\ c \notin F
  BY <1>4, <1>5, <1>6, <1>11 DEF Added
<1>13. \A x \in F : r.heap.mem[x] = acc.heap.mem[x]
  BY <1>11, <1>12
<1>14. last \in F \cup {NULL} /\ (last = NULL <=> s = << >>)
  BY <1>3, <1>4, <1>9
<1>15. new.heap.mem[n].child = IF s = << >> THEN c ELSE s[1]
  <2>1. r.heap.mem[n].child = First(s)
    BY <1>5, <1>10, <1>13
  <2>2. new.heap.mem[n].child = IF last = NULL THEN c ELSE r.heap.mem[n].child
    BY <1>3, <1>7
  <2>3. QED BY <1>14, <2>1, <2>2 DEF First
<1> DEFINE W == F \cup G
\* The lists of both trees, and then n's with one more.
<1>16. /\ Linked(M, W, J)
       /\ \A x : x \in ListedBy(J) <=> x \in ListedBy(T) \/ x \in ListedBy(U)
  <2>1. Keeps(M, g.mem, F)
    BY <1>5 DEF SameLinks, Forest, Keeps
  <2>2. Keeps(M, r.heap.mem, G)
    BY <1>5, <1>12 DEF SameLinks, Forest, Keeps
  <2>3. Linked(g.mem, F, T) /\ Linked(r.heap.mem, G, U)
    BY <1>5
  <2>4. F \cap G = {}
    BY <1>12
  <2> HIDE DEF M
  <2>5. Linked(M, F \cup G, Joined(T, U, G))
    BY <2>1, <2>2, <2>3, <2>4, JoinedLinks
  <2>6. \A x : x \in ListedBy(Joined(T, U, G)) <=> x \in ListedBy(T) \/ x \in ListedBy(U)
    BY <2>1, <2>2, <2>3, <2>4, JoinedLinks
  <2>7. QED BY <2>5, <2>6
<1>17. Forest(W, J) /\ J[n] = s /\ \A x \in Nodes : J[x] = IF x \in G THEN U[x] ELSE T[x]
  BY <1>3, <1>12, <1>16 DEF Joined, Linked
<1>18. n \notin FamilyOf(J, c)
  <2>1. J \in [Nodes -> Seq(Nodes)] /\ \A y \in G : ToSet(J[y]) \subseteq G
    <3>1. \A y \in G : ToSet(U[y]) \subseteq G
      BY <1>5, FamilyWithin
    <3>2. J \in [Nodes -> Seq(Nodes)]
      BY <1>17, ForestLists
    <3>3. QED BY <1>5, <1>17, <3>1, <3>2 DEF Forest
  <2> HIDE DEF J
  <2>2. G \in SUBSET Nodes /\ c \in G /\ c \in Nodes
    BY <1>2, <1>3, <1>5
  <2>3. FamilyOf(J, c) \subseteq G
    BY <2>1, <2>2, FamilyIsLeast
  <2>4. QED BY <1>12, <2>3
<1>19. c \notin ListedBy(J)
  <2>1. ListedBy(T) \subseteq F
    BY <1>5, ForestLists
  <2>2. QED BY <1>5, <1>12, <1>16, <2>1
<1>20. M[n].ref = g.mem[n].ref
  BY <1>3, <1>5
<1>21. PutIn(M, g2.mem, n, s, Len(s) + 1, c)
  <2>1. \A x \in F : M[x] = g.mem[x]
    BY <1>5 DEF Forest
  <2>2. \A x \in Nodes \ F : M[x] = r.heap.mem[x]
    OBVIOUS
  <2> HIDE DEF M
  <2>3. SUFFICES ASSUME NEW x \in Nodes
        PROVE  /\ g2.mem[x].ref = M[x].ref
               /\ g2.mem[x].child = IF x = n /\ Len(s) + 1 = 1 THEN c ELSE M[x].child
               /\ g2.mem[x].next = IF x = c THEN (IF Len(s) + 1 <= Len(s) THEN s[Len(s) + 1] ELSE NULL)
                    ELSE IF Len(s) + 1 > 1 /\ x = s[(Len(s) + 1) - 1] THEN c ELSE M[x].next
               /\ g2.mem[x].prev = IF x = c THEN (IF s = << >> THEN c ELSE IF Len(s) + 1 = 1 THEN s[Len(s)] ELSE s[(Len(s) + 1) - 1])
                    ELSE IF Len(s) + 1 <= Len(s) THEN (IF x = s[Len(s) + 1] THEN c ELSE M[x].prev)
                    ELSE IF s # << >> /\ x = s[1] THEN c ELSE M[x].prev
    BY DEF PutIn
  <2>4. (Len(s) + 1 = 1 <=> s = << >>) /\ ~ (Len(s) + 1 <= Len(s)) /\ (Len(s) + 1) - 1 = Len(s) /\ (Len(s) + 1 > 1 <=> s # << >>)
    BY <1>9, EmptySeq
  <2>41. /\ g.mem[x].ref = acc.heap.mem[x].ref
         /\ g.mem[x].child = acc.heap.mem[x].child /\ g.mem[x].next = acc.heap.mem[x].next
    BY <1>6 DEF SameTexts
  <2>42. /\ new.heap.mem[x].ref = r.heap.mem[x].ref
         /\ new.heap.mem[x].child = (IF last = NULL /\ x = n THEN c ELSE r.heap.mem[x].child)
         /\ new.heap.mem[x].next = IF x = last THEN c ELSE r.heap.mem[x].next
    BY <1>7 DEF SameTexts
  <2>43. /\ g2.mem[x].ref = new.heap.mem[x].ref
         /\ g2.mem[x].child = new.heap.mem[x].child /\ g2.mem[x].next = new.heap.mem[x].next
    BY <1>8 DEF SameTexts
  <2>44. M[x].ref = r.heap.mem[x].ref /\ M[x].child = r.heap.mem[x].child /\ M[x].next = r.heap.mem[x].next
    BY <1>13, <2>1, <2>2, <2>41
  <2>5. g2.mem[x].ref = M[x].ref /\ g2.mem[x].child = IF x = n /\ s = << >> THEN c ELSE M[x].child
    BY <1>14, <2>42, <2>43, <2>44
  <2>6. g2.mem[x].next = IF x = c THEN NULL ELSE IF s # << >> /\ x = s[Len(s)] THEN c ELSE M[x].next
    <3>1. r.heap.mem[c].next = NULL
      BY <1>5 DEF Linked, Loose
    <3>2. x = last <=> s # << >> /\ x = s[Len(s)]
      BY <1>3, <1>4
    <3>3. c # last
      BY <1>3, <1>12, <1>14
    <3>4. QED BY <2>42, <2>43, <2>44, <3>1, <3>2, <3>3
  <2>7. g2.mem[x].prev = IF x = c THEN (IF s = << >> THEN c ELSE s[Len(s)]) ELSE IF s # << >> /\ x = s[1] THEN c ELSE M[x].prev
    <3>1. r.heap.mem[c].prev = NULL
      BY <1>5 DEF Linked, Loose
    <3>2. CASE x = c
      BY <1>3, <1>4, <1>7, <1>8, <1>9, <1>12, <1>14, <1>15, <3>2
    <3>3. CASE x # c /\ x \in F
      <4>1. new.heap.mem[x].prev = acc.heap.mem[x].prev
        <5>1. new.heap.mem[x].prev = IF last # NULL /\ x = c THEN last ELSE r.heap.mem[x].prev
          BY <1>7
        <5>2. r.heap.mem[x] = acc.heap.mem[x]
          BY <1>13, <3>3
        <5>3. QED BY <3>3, <5>1, <5>2
      <4>2. g.mem[x].prev = IF x = First(s) THEN last ELSE acc.heap.mem[x].prev
        BY <1>6, <1>10
      <4>3. QED BY <1>3, <1>8, <1>15, <2>1, <3>3, <4>1, <4>2 DEF First
    <3>4. CASE x # c /\ x \notin F
      <4>1. new.heap.mem[x].prev = r.heap.mem[x].prev
        BY <1>7, <3>4
      <4>2. QED BY <1>8, <1>9, <1>15, <2>2, <3>4, <4>1
    <3>5. QED BY <3>2, <3>3, <3>4
  <2>8. QED BY <2>4, <2>5, <2>6, <2>7
<1>22. Len(s) + 1 \in 1..(Len(s) + 1)
  BY <1>9
<1>221. c \in W /\ n \in W /\ W = F \cup G
  BY <1>5
<1> HIDE DEF M, J, s, W
<1>23. Linked(g2.mem, W, T2) /\ Forest(W, T2) /\ (\A x : x \in ListedBy(T2) <=> x \in ListedBy(J) \/ x = c)
  <2>1. Len(s) + 1 \in 1..(Len(J[n]) + 1)
    BY <1>17, <1>22
  <2>2. PutIn(M, g2.mem, n, J[n], Len(s) + 1, c)
    BY <1>17, <1>21
  <2>3. Linked(g2.mem, W, T2)
    BY <1>4, <1>221, <1>16, <1>18, <1>19, <1>20, <2>1, <2>2, InsertedLinks
  <2>4. Forest(W, J) /\ n \in W /\ c \in W
    BY <1>17, <1>221
  <2>5. Forest(W, Putting(J, n, Len(s) + 1, c))
    BY <1>18, <1>19, <2>1, <2>4, InsertedForest
  <2>6. ListedBy(Putting(J, n, Len(s) + 1, c)) = ListedBy(J) \cup {c}
    BY <1>18, <1>19, <2>1, <2>4, InsertedForest
  <2>7. QED BY <2>3, <2>5, <2>6
<1>24. /\ T2[n] = InsertAt(s, Len(s) + 1, c)
       /\ \A x \in Nodes : x # n => T2[x] = J[x]
       /\ T2 \in [Nodes -> Seq(Nodes)]
  BY <1>3, <1>17, <1>23, ForestLists DEF Putting, Forest
<1>25. (\A x : x \in ToSet(T2[n]) <=> x \in ToSet(s) \/ x = c) /\ T2[n] # << >> /\ T2[n][Len(T2[n])] = c
  <2>1. s \in Seq(Nodes) /\ c \in Nodes
    BY <1>3, <1>9
  <2> DEFINE k == Len(s) + 1
             t == InsertAt(s, k, c)
  <2>0. k \in 1..(Len(s) + 1) /\ k > Len(s)
    BY <1>9
  <2> HIDE DEF k
  <2>2. (\A x : x \in ToSet(t) <=> x \in ToSet(s) \/ x = c) /\ t # << >> /\ t[Len(t)] = c
    BY <2>0, <2>1, AppendedSet
  <2>3. T2[n] = t
    BY <1>24 DEF k
  <2> HIDE DEF t
  <2>4. QED BY <2>2, <2>3
<1> HIDE DEF T2
<1>283. F \subseteq Nodes /\ G \subseteq Nodes
  BY <1>1, <1>2
<1>26. FamilyOf(T2, n) = F \cup G
  <2>1. OneMore(T, T2, F, c)
    <3>0. SUFFICES \A x \in F : ToSet(T[x]) \subseteq ToSet(T2[x]) /\ ToSet(T2[x]) \subseteq ToSet(T[x]) \cup {c}
      BY DEF OneMore
    <3>1. SUFFICES ASSUME NEW x \in F
                   PROVE ToSet(T[x]) \subseteq ToSet(T2[x]) /\ ToSet(T2[x]) \subseteq ToSet(T[x]) \cup {c}
      OBVIOUS
    <3>2. CASE x = n
      BY <1>25, <3>2 DEF s
    <3>3. CASE x # n
      <4>1. x \in Nodes /\ x \notin G
        BY <1>12
      <4>2. T2[x] = T[x]
        BY <1>17, <1>24, <3>3, <4>1
      <4>3. QED BY <4>2
    <3>4. QED BY <3>2, <3>3
  <2>2. Alike(U, T2, G)
    BY <1>12, <1>17, <1>24, <1>283 DEF Alike
  <2>3. c \in ToSet(T2[n])
    BY <1>25
  <2>4. /\ Forest(F, T) /\ Forest(G, U) /\ Apart(F, G) /\ n \in F /\ FamilyOf(T, n) = F
        /\ c \in G /\ FamilyOf(U, c) = G /\ T2 \in [Nodes -> Seq(Nodes)]
    <3>1. Apart(F, G)
      BY <1>12 DEF Apart
    <3>2. n \in F /\ FamilyOf(T, n) = F /\ c \in G /\ FamilyOf(U, c) = G
      BY <1>5
    <3>3. Forest(F, T) /\ Forest(G, U)
      BY <1>5, <1>12
    <3>4. QED BY <1>24, <3>1, <3>2, <3>3
  <2>5. \A x : x \in FamilyOf(T2, n) <=> x \in F \/ x \in G
    BY <2>1, <2>2, <2>3, <2>4, GrownFamily, ZenonT(40)
  <2>6. QED BY <2>5
<1>27. n \notin ListedBy(T2)
  <2>1. ListedBy(U) \subseteq G
    BY <1>5, ForestLists
  <2>2. QED BY <1>5, <1>12, <1>16, <1>23, <2>1
<1>281. \A x \in Nodes : SameTexts(g2.mem[x], r.heap.mem[x])
  <2>1. SUFFICES ASSUME NEW x \in Nodes PROVE SameTexts(g2.mem[x], r.heap.mem[x])
    OBVIOUS
  <2>2. SameTexts(g2.mem[x], new.heap.mem[x]) /\ SameTexts(new.heap.mem[x], r.heap.mem[x])
    BY <1>7, <1>8
  <2>3. QED BY <2>2 DEF SameTexts
<1>282. \A x \in F : SameTexts(g2.mem[x], g.mem[x])
  <2>1. SUFFICES ASSUME NEW x \in F PROVE SameTexts(g2.mem[x], g.mem[x])
    OBVIOUS
  <2>2. x \in Nodes
    BY <1>1
  <2>3. SameTexts(g2.mem[x], r.heap.mem[x]) /\ SameTexts(g.mem[x], acc.heap.mem[x]) /\ r.heap.mem[x] = acc.heap.mem[x]
    BY <1>6, <1>13, <1>281, <2>2
  <2>4. QED BY <2>3 DEF SameTexts
<1>28. Added(h, g2, F \cup G)
  <2>1. Untouched(acc.heap, g, Nodes \ F)
    BY <1>3, <1>6, <1>9, <1>10 DEF First, Untouched
  <2>2. Reads(g2, g, F)
    BY <1>282, <1>283 DEF Reads
  <2>3. Reads(g2, r.heap, G)
    BY <1>281, <1>283 DEF Reads
  <2>4. Untouched(g2, r.heap, Nodes \ (F \cup G))
    <3>0. SUFFICES \A x \in Nodes \ (F \cup G) : g2.mem[x] = r.heap.mem[x]
      BY DEF Untouched
    <3>1. SUFFICES ASSUME NEW x \in Nodes \ (F \cup G) PROVE g2.mem[x] = r.heap.mem[x]
      OBVIOUS
    <3>2. x # n /\ x # last /\ x # c /\ x # new.heap.mem[n].child
      BY <1>3, <1>5, <1>9, <1>14, <1>15
    <3>3. QED BY <1>7, <1>8, <3>2
  <2>5. g2.strings = r.heap.strings
    BY <1>7, <1>8
  <2>6. QED BY <1>2, <1>4, <1>6, <1>8, <2>1, <2>2, <2>3, <2>4, <2>5, AddedBoth
<1>29. Plain(g2.mem, F \cup G)
  <2>1. \A x \in F : g2.mem[x].ref = g.mem[x].ref /\ g2.mem[x].type = g.mem[x].type /\ g2.mem[x].value = g.mem[x].value
    BY <1>282 DEF SameTexts
  <2>2. \A x \in G : g2.mem[x].ref = r.heap.mem[x].ref /\ g2.mem[x].type = r.heap.mem[x].type /\ g2.mem[x].value = r.heap.mem[x].value
    BY <1>281, <1>283 DEF SameTexts
  <2>3. QED BY <1>2, <1>4, <2>1, <2>2, ZenonT(40) DEF Plain, Typed
<1>30. ~ g2.mem[n].ref
  BY <1>5, <1>29 DEF Plain
<1>31. Growing(h, new, n, F \cup G, T2)
  BY <1>221, <1>3, <1>5, <1>7, <1>23, <1>25, <1>26, <1>27, <1>28, <1>29, <1>30 DEF Growing, Tree, g2
<1>32. QED BY <1>24, <1>31 DEF IsGrowing, new

\* One more step of the loop: the list is longer, or is not to be completed.
LEMMA StepGrows ==
  ASSUME NEW h \in Heaps, NEW acc, NEW n, IsGrowing(h, acc, n), acc.ok, NEW r, Grown(acc.heap, r)
  PROVE  IsGrowing(h, Appended(acc, n, r), n)
<1>1. CASE r.ret = NULL
  <2>1. r \in Results /\ Added(acc.heap, r.heap, {})
    BY <1>1 DEF Grown
  <2>2. QED BY <1>1, <2>1, StoppedGrows
<1>2. CASE r.ret # NULL
  BY <1>2, LongerGrows
<1>3. QED BY <1>1, <1>2

\* The heap of a list that grows is the heap before with more items.
LEMMA GrowingHeap ==
  ASSUME NEW h \in Heaps, NEW acc, NEW n, IsGrowing(h, acc, n)
  PROVE  /\ acc \in Accs /\ acc.heap \in Heaps /\ n \in Nodes
         /\ Live(h) \subseteq Live(acc.heap) /\ \A x \in Live(h) : acc.heap.mem[x] = h.mem[x]
         /\ Blank(h) => Blank(acc.heap)
<1> DEFINE g == Finished(acc, n)
<1>1. PICK F \in SUBSET Nodes, T \in [Nodes -> Seq(Nodes)] : Growing(h, acc, n, F, T)
  BY DEF IsGrowing
<1>2. acc \in Accs /\ n \in Nodes /\ Added(h, g, F) /\ Tree(g.mem, F, T, n) /\ ~ g.mem[n].ref /\ NULL \notin Nodes
  BY <1>1, JsonTreeAssumption DEF Growing
<1>3. /\ acc.heap \in Heaps /\ Live(g) = Live(acc.heap)
      /\ \A x \in Nodes : /\ g.mem[x].child = acc.heap.mem[x].child
                          /\ x # acc.heap.mem[n].child => g.mem[x] = acc.heap.mem[x]
  BY <1>2, FinishedHeap, AccMeans
<1> HIDE DEF g
<1>4. /\ Live(g) = Live(h) \cup F /\ Live(h) \cap F = {}
      /\ \A x \in Live(h) : g.mem[x] = h.mem[x]
      /\ Blank(h) => Blank(g)
  BY <1>2, AddedLive
<1>5. acc.heap.mem[n].child \in F \cup {NULL}
  <2>1. Forest(F, T) /\ Heads(g.mem, F, T) /\ n \in F
    BY <1>2 DEF Tree, Linked
  <2>2. T[n] \in Seq(F)
    BY <1>2, <2>1 DEF Forest
  <2>3. g.mem[n].child = First(T[n])
    BY <1>2, <2>1 DEF Heads
  <2>4. T[n] # << >> => T[n][1] \in F
    BY <2>2
  <2>5. QED BY <1>2, <1>3, <2>3, <2>4 DEF First
<1>6. \A x \in Nodes \ F : g.mem[x] = acc.heap.mem[x]
  BY <1>2, <1>3, <1>5
<1>7. Live(h) \subseteq Nodes
  BY DEF Live
<1>8. \A x \in Live(h) : acc.heap.mem[x] = h.mem[x]
  BY <1>4, <1>6, <1>7
<1>9. Blank(h) => Blank(acc.heap)
  BY <1>3, <1>4, <1>6 DEF Blank
<1>10. QED BY <1>2, <1>3, <1>4, <1>8, <1>9

\* The first item of a tree, without children yet.
LEMMA StartGrows ==
  ASSUME NEW h \in Heaps, NEW h2 \in Heaps, NEW n \in Nodes \ Live(h),
         \A x \in Nodes : x # n => h2.mem[x] = h.mem[x],
         h2.mem[n].type # "free", h2.mem[n].next = NULL, h2.mem[n].prev = NULL, h2.mem[n].child = NULL,
         ~ h2.mem[n].ref,
         h2.strings = h.strings + One(OwnsString(h2.mem[n])) + One(OwnsValue(h2.mem[n])),
         NEW ok \in BOOLEAN, ok => Typed(h2.mem[n])
  PROVE  IsGrowing(h, [heap |-> h2, ok |-> ok, last |-> NULL], n)
<1> DEFINE acc == [heap |-> h2, ok |-> ok, last |-> NULL]
<1>1. acc \in Accs /\ acc.heap = h2 /\ acc.ok = ok /\ acc.last = NULL
  BY DEF Accs
<1> HIDE DEF acc
<1>2. Finished(acc, n) = h2
  BY <1>1 DEF Finished
<1>3. h.strings \in Int
  BY DEF Heaps
<1>4. /\ Added(h, h2, {n}) /\ Tree(h2.mem, {n}, NoLists, n)
      /\ NoLists \in [Nodes -> Seq(Nodes)] /\ NoLists[n] = << >>
  BY <1>3, OneItemAdded
<1>5. ok => Plain(h2.mem, {n})
  BY DEF Plain
<1>6. Growing(h, acc, n, {n}, NoLists)
  BY <1>1, <1>2, <1>4, <1>5 DEF Growing
<1>7. {n} \in SUBSET Nodes
  OBVIOUS
<1>8. QED BY <1>4, <1>6, <1>7 DEF IsGrowing, acc

\* What holds of a loop's first value, and of the next one whenever it does of one.
LEMMA Loop ==
  ASSUME NEW N \in Nat, NEW Q, NEW made, made[0] \in Q,
         \A i \in 1..N : made[i - 1] \in Q => made[i] \in Q
  PROVE  \A i \in 0..N : made[i] \in Q
<1> DEFINE Bad == {i \in 0..N : made[i] \notin Q}
<1>1. SUFFICES ASSUME Bad # {} PROVE FALSE
  OBVIOUS
<1>2. Bad \in SUBSET Nat
  OBVIOUS
<1>3. PICK i \in Bad : \A j \in Bad : i <= j
  <2> HIDE DEF Bad
  <2>1. QED BY <1>1, <1>2, LeastNatural
<1>4. i # 0
  OBVIOUS
<1>5. i \in 1..N /\ i - 1 \in 0..N /\ ~ (i <= i - 1)
  BY <1>4
<1>6. made[i - 1] \in Q
  BY <1>3, <1>5
<1>7. QED BY <1>5, <1>6

CreatesNext(type, value, n, acc) ==
  IF acc.ok THEN Appended(acc, n, CreateItem(acc.heap, type, value)) ELSE acc

\* cJSON_Create*Array makes a list with its items, or leaves nothing behind.
LEMMA CreatedArray ==
  ASSUME NEW h \in Heaps, Blank(h), NEW type \in Kinds \cap {"Number", "String"}, NEW count \in Nat,
         NEW value \in Values
  PROVE  Grown(h, CreateArrayOf(h, type, count, value))
<1> DEFINE array == cJSON_New_Item(h, "Array")
           n == array.ret
           a == [heap |-> array.heap, ok |-> TRUE, last |-> NULL]
           P(f) == f = [i \in 0..count |->
                     IF i = 0 THEN a
                     ELSE LET before == f[i - 1]
                          IN IF before.ok THEN Appended(before, n, CreateItem(before.heap, type, value)) ELSE before]
           made == CHOOSE f : P(f)
           r == CreateArrayOf(h, type, count, value)
<1>1. /\ array \in Results /\ array.heap.strings = h.strings
      /\ n = NULL \/ n \in Nodes \ Live(h)
      /\ \A x \in Nodes : array.heap.mem[x] = IF x = n THEN [Free EXCEPT !.type = "Array"] ELSE h.mem[x]
  BY NewItem
<1>2. array.heap \in Heaps /\ NULL \notin Nodes /\ ValueFits(type, value)
  BY <1>1, JsonTreeAssumption DEF Results, ValueFits
<1>3. CASE n = NULL
  <2>1. r = array
    BY <1>3 DEF CreateArrayOf
  <2>2. Added(h, array.heap, {})
    BY <1>1, <1>2, <1>3, NothingAdded
  <2>3. QED BY <1>1, <1>3, <2>1, <2>2 DEF Grown
<1>4. CASE n # NULL
  <2>1. n \in Nodes \ Live(h) /\ n \in Nodes
    BY <1>1, <1>4
  <2>2. r = Completed(made[count], n)
    BY <1>4 DEF CreateArrayOf
  <2>3. IsGrowing(h, a, n)
    <3> DEFINE v == [Free EXCEPT !.type = "Array"]
    <3>1. array.heap.mem[n] = v
      BY <1>1, <2>1
    <3>2. v.type = "Array" /\ v.ref = FALSE /\ v.const = FALSE /\ v.string = NULL /\ v.value = NULL /\ v.child = NULL
          /\ v.next = NULL /\ v.prev = NULL
      BY DEF Free
    <3> HIDE DEF v
    <3>3. ~ OwnsString(v) /\ ~ OwnsValue(v) /\ Typed(v)
      BY <3>2 DEF OwnsString, OwnsValue, IsText, Typed
    <3>4. h.strings \in Int
      BY DEF Heaps
    <3>5. array.heap.strings = h.strings + One(OwnsString(array.heap.mem[n])) + One(OwnsValue(array.heap.mem[n]))
      BY <1>1, <3>1, <3>3, <3>4 DEF One
    <3>6. \A x \in Nodes : x # n => array.heap.mem[x] = h.mem[x]
      BY <1>1
    <3> HIDE DEF array
    <3>7. QED BY <1>2, <2>1, <3>1, <3>2, <3>3, <3>5, <3>6, StartGrows
  <2> HIDE DEF a
  <2> DEFINE one == [acc \in Accs |-> CreatesNext(type, value, n, acc)]
             step == [i \in 1..count |-> one]
  <2>4. a \in Accs
    BY <2>3, GrowingHeap
  <2>5. one \in [Accs -> Accs]
    <3>1. SUFFICES ASSUME NEW acc \in Accs PROVE CreatesNext(type, value, n, acc) \in Accs
      OBVIOUS
    <3>2. acc.heap \in Heaps
      BY AccMeans
    <3>3. CreateItem(acc.heap, type, value) \in Results
      BY <1>2, <3>2, CreatedItem
    <3>4. Appended(acc, n, CreateItem(acc.heap, type, value)) \in Accs
      BY <2>1, <3>3, AppendedAcc
    <3>5. QED BY <3>4 DEF CreatesNext
  <2>6. step \in Steps(count, Accs)
    BY <2>5 DEF Steps
  <2>7. PICK f \in [0..count -> Accs] : f[0] = a /\ \A i \in 1..count : f[i] = step[i][f[i - 1]]
    <3> HIDE DEF step, n
    <3>1. \E f : f \in RunsOf(count, Accs, a, step)
      BY <2>4, <2>6, Recursion
    <3>2. QED BY <3>1 DEF RunsOf
  <2>8. P(f)
    <3>1. ASSUME NEW i \in 0..count
          PROVE f[i] = IF i = 0 THEN a
                     ELSE LET before == f[i - 1]
                          IN IF before.ok THEN Appended(before, n, CreateItem(before.heap, type, value)) ELSE before
      <4>1. CASE i = 0
        BY <2>7, <4>1
      <4>2. CASE i # 0
        <5>1. i \in 1..count /\ i - 1 \in 0..count
          BY <4>2
        <5>2. f[i - 1] \in Accs /\ f[i] = step[i][f[i - 1]] /\ step[i] = one
          BY <2>7, <5>1
        <5> HIDE DEF n
        <5>3. f[i] = CreatesNext(type, value, n, f[i - 1])
          BY <5>2
        <5>4. QED BY <4>2, <5>3 DEF CreatesNext
      <4>3. QED BY <4>1, <4>2
    <3>2. f = [i \in 0..count |-> f[i]]
      BY <2>7
    <3> HIDE DEF n
    <3>3. QED BY <3>1, <3>2
  <2>9. P(made)
    <3> HIDE DEF P
    <3>1. QED BY <2>8, Zenon
  <2> HIDE DEF made
  <2>10. made[0] = a /\ \A i \in 1..count : made[i] = CreatesNext(type, value, n, made[i - 1])
    <3>1. \A i \in 0..count : made[i] = IF i = 0 THEN a
                     ELSE LET before == made[i - 1]
                          IN IF before.ok THEN Appended(before, n, CreateItem(before.heap, type, value)) ELSE before
      <4> HIDE DEF n
      <4>1. QED BY <2>9
    <3>2. 0 \in 0..count /\ \A i \in 1..count : i \in 0..count /\ i # 0
      OBVIOUS
    <3> HIDE DEF n
    <3>3. QED BY <3>1, <3>2 DEF CreatesNext
  <2> HIDE DEF P, n
  <2> DEFINE Q == {acc \in Accs : IsGrowing(h, acc, n)}
  <2>11. made[0] \in Q
    BY <2>3, <2>4, <2>10
  <2>12. ASSUME NEW i \in 1..count, made[i - 1] \in Q PROVE made[i] \in Q
    <3> DEFINE acc == made[i - 1]
    <3>1. made[i] = CreatesNext(type, value, n, acc) /\ IsGrowing(h, acc, n)
      BY <2>10, <2>12
    <3> HIDE DEF acc
    <3>2. CASE acc.ok
      <4>1. acc.heap \in Heaps /\ Blank(acc.heap)
        BY <3>1, GrowingHeap
      <4>2. Grown(acc.heap, CreateItem(acc.heap, type, value))
        BY <1>2, <4>1, CreatedItem
      <4>3. IsGrowing(h, Appended(acc, n, CreateItem(acc.heap, type, value)), n)
        BY <3>1, <3>2, <4>2, StepGrows
      <4>4. IsGrowing(h, made[i], n)
        BY <3>1, <3>2, <4>3 DEF CreatesNext
      <4>5. QED BY <4>4, GrowingHeap
    <3>3. CASE ~ acc.ok
      <4>1. IsGrowing(h, made[i], n)
        BY <3>1, <3>3 DEF CreatesNext
      <4>2. QED BY <4>1, GrowingHeap
    <3>4. QED BY <3>2, <3>3
  <2>13. \A i \in 0..count : made[i] \in Q
    <3> HIDE DEF Q
    <3>1. QED BY <2>11, <2>12, Loop
  <2>14. IsGrowing(h, made[count], n)
    BY <2>13
  <2>15. QED BY <2>2, <2>14, CompletedGrown DEF n
<1>5. QED BY <1>3, <1>4
-----------------------------------------------------------------------------
(* Copies.                                                                 *)

\* A copy's strings are its own, as many as the heap counts; the other items
\* are as they were.
LEMMA CopiedStrings ==
  ASSUME NEW h \in Heaps, NEW n \in Nodes, NEW item \in Nodes
  PROVE  LET r == CopyStrings(h, n, item)
             m == h.mem[item]
             old == h.mem[n]
             w == r.heap.mem[n]
         IN /\ r.heap \in Heaps /\ r.ret \in BOOLEAN
            /\ \A x \in Nodes : x # n => r.heap.mem[x] = h.mem[x]
            /\ w.type = old.type /\ w.ref = old.ref /\ w.child = old.child /\ w.next = old.next /\ w.prev = old.prev
            /\ ~ old.ref /\ old.type = m.type /\ old.const = m.const /\ old.string = NULL /\ old.value = NULL =>
                 /\ r.heap.strings = h.strings + One(OwnsString(w)) + One(OwnsValue(w))
                 /\ r.ret /\ Typed(m) => Typed(w)
<1> DEFINE r == CopyStrings(h, n, item)
           m == h.mem[item]
           old == h.mem[n]
           text == IsText(m.type) /\ m.value # NULL
           h0 == IF text THEN Copied(h) ELSE h
           h1 == [h0 EXCEPT !.mem[n].value = m.value]
           h3 == IF m.const THEN h1 ELSE Copied(h1)
           h2 == [h3 EXCEPT !.mem[n].string = m.string]
<1>0. /\ m.value \in Values \cup {NULL} /\ m.string \in Keys \cup {NULL} /\ m.const \in BOOLEAN
      /\ m \in cJSON /\ old \in cJSON /\ h.strings \in Int
  BY Fields DEF Heaps
<1>1. r = IF text /\ ~ MayCopy(h) THEN Returns(h, FALSE)
     ELSE IF m.string = NULL THEN Returns(h1, TRUE)
     ELSE IF ~ m.const /\ ~ MayCopy(h1) THEN Returns(h1, FALSE)
     ELSE Returns(h2, TRUE)
  BY Zenon DEF CopyStrings
<1> HIDE DEF r
<1>2. CASE text /\ ~ MayCopy(h)
  <2>1. r.heap = h /\ r.ret = FALSE
    BY <1>1, <1>2 DEF Returns
  <2>2. ASSUME old.string = NULL, old.value = NULL
        PROVE  One(OwnsString(old)) = 0 /\ One(OwnsValue(old)) = 0
    BY <2>2 DEF One, OwnsString, OwnsValue
  <2>3. ASSUME old.string = NULL, old.value = NULL
        PROVE  h.strings = h.strings + One(OwnsString(old)) + One(OwnsValue(old))
    BY <1>0, <2>2, <2>3
  <2> HIDE DEF m, old
  <2>4. QED BY <2>1, <2>3 DEF r, m, old
<1>3. CASE ~ (text /\ ~ MayCopy(h))
  <2>1. h0 \in Heaps /\ h0.mem = h.mem /\ h0.strings = h.strings + One(text)
    BY <1>0, <1>3, CopiedHeap DEF One
  <2> HIDE DEF h0
  <2>2. /\ h1 \in Heaps /\ h1.strings = h0.strings
        /\ \A x \in Nodes : h1.mem[x] = IF x = n THEN [h0.mem[n] EXCEPT !.value = m.value] ELSE h0.mem[x]
    <3>1. ItemIs(h1, h0, n, [h0.mem[n] EXCEPT !.value = m.value])
      BY <1>0, <2>1, ValueSet
    <3> HIDE DEF h1
    <3>2. QED BY <3>1 DEF ItemIs
  <2>3. h1 \in Heaps /\ h1.mem[n] = [old EXCEPT !.value = m.value] /\ (\A x \in Nodes : x # n => h1.mem[x] = h.mem[x])
        /\ h1.strings = h.strings + One(text)
    BY <2>1, <2>2
  <2> HIDE DEF h1
  <2> DEFINE u == [old EXCEPT !.value = m.value]
  <2>4. /\ u.type = old.type /\ u.ref = old.ref /\ u.child = old.child /\ u.next = old.next /\ u.prev = old.prev
        /\ u.value = m.value /\ u.string = old.string /\ u.const = old.const /\ u \in cJSON
    BY <1>0 DEF cJSON
  <2> HIDE DEF u
  <2>5. CASE m.string = NULL \/ (~ m.const /\ ~ MayCopy(h1))
    <3>1. r.heap = h1 /\ r.ret \in BOOLEAN
      BY <1>1, <1>3, <2>5 DEF Returns
    <3>2. ASSUME ~ old.ref, old.type = m.type, old.const = m.const, old.string = NULL, old.value = NULL
          PROVE  One(OwnsString(u)) = 0 /\ One(OwnsValue(u)) = One(text)
      BY <2>4, <3>2 DEF One, OwnsString, OwnsValue
    <3>3. ASSUME ~ old.ref, old.type = m.type, old.const = m.const, old.string = NULL, old.value = NULL
          PROVE  h1.strings = h.strings + One(OwnsString(u)) + One(OwnsValue(u))
      BY <1>0, <2>3, <3>2, <3>3 DEF One
    <3>4. old.type = m.type /\ Typed(m) => Typed(u)
      BY <2>4 DEF Typed
    <3>5. u = h1.mem[n]
      BY <2>3 DEF u
    <3> HIDE DEF m, old, text
    <3>6. QED BY <2>3, <2>4, <3>1, <3>3, <3>4, <3>5 DEF r, m, old
  <2>6. CASE ~ (m.string = NULL \/ (~ m.const /\ ~ MayCopy(h1)))
    <3>1. r.heap = h2 /\ r.ret = TRUE
      BY <1>1, <1>3, <2>6 DEF Returns
    <3>2. h3 \in Heaps /\ h3.mem = h1.mem /\ h3.strings = h1.strings + One(~ m.const)
      <4>1. h1.strings \in Int
        BY <2>3 DEF Heaps
      <4>2. QED BY <1>0, <2>3, <2>6, <4>1, CopiedHeap DEF One
    <3> HIDE DEF h3
    <3>3. /\ h2 \in Heaps /\ h2.strings = h3.strings
          /\ \A x \in Nodes : h2.mem[x] = IF x = n THEN [h3.mem[n] EXCEPT !.string = m.string] ELSE h3.mem[x]
      <4>1. ItemIs(h2, h3, n, [h3.mem[n] EXCEPT !.string = m.string])
        BY <1>0, <3>2, StringSet
      <4> HIDE DEF h2
      <4>2. QED BY <4>1 DEF ItemIs
    <3> DEFINE w == [u EXCEPT !.string = m.string]
    <3>40. h3.mem[n] = u /\ h3.mem = h1.mem
      BY <2>3, <3>2 DEF u
    <3>4. h2.mem[n] = w /\ (\A x \in Nodes : x # n => h2.mem[x] = h.mem[x])
      <4> HIDE DEF w, h2
      <4>1. h2.mem[n] = w
        BY <3>3, <3>40 DEF w
      <4>2. QED BY <2>3, <3>3, <3>40, <4>1
    <3>5. h2.strings = h.strings + One(text) + One(~ m.const)
      BY <2>3, <3>2, <3>3
    <3>6. /\ w.type = u.type /\ w.ref = u.ref /\ w.child = u.child /\ w.next = u.next /\ w.prev = u.prev
          /\ w.value = u.value /\ w.string = m.string /\ w.const = u.const
      BY <2>4 DEF cJSON
    <3> HIDE DEF w, h2
    <3>7. ASSUME ~ old.ref, old.type = m.type, old.const = m.const, old.string = NULL, old.value = NULL
          PROVE  One(OwnsString(w)) = One(~ m.const) /\ One(OwnsValue(w)) = One(text)
      BY <2>4, <2>6, <3>6, <3>7 DEF One, OwnsString, OwnsValue
    <3>8. ASSUME ~ old.ref, old.type = m.type, old.const = m.const, old.string = NULL, old.value = NULL
          PROVE  h2.strings = h.strings + One(OwnsString(w)) + One(OwnsValue(w))
      BY <1>0, <3>5, <3>7, <3>8 DEF One
    <3>9. old.type = m.type /\ Typed(m) => Typed(w)
      BY <2>4, <3>6 DEF Typed
    <3> HIDE DEF m, old, text
    <3>10. QED BY <2>4, <3>1, <3>3, <3>4, <3>6, <3>8, <3>9 DEF r, m, old
  <2>7. QED BY <2>5, <2>6
<1>4. QED BY <1>2, <1>3

\* What a copy begins with, and what one child more makes of it.
CopyOf(h, item) ==
  LET new == cJSON_New_Item(h, h.mem[item].type)
  IN CopyStrings(CopiedItem(new.heap, new.ret, item), new.ret, item)
CopyStart(h, item) == [heap |-> CopyOf(h, item).heap, ok |-> CopyOf(h, item).ret, last |-> NULL]
CopyNext(n, k, below, child, acc) ==
  IF acc.ok /\ k > 0 THEN Appended(acc, n, below[acc.heap, child]) ELSE [acc EXCEPT !.ok = FALSE]
CopyRoot(h, item) == cJSON_New_Item(h, h.mem[item].type).ret

\* The copy of an item, before its children are copied.
LEMMA CopyBegins ==
  ASSUME NEW h \in Heaps, NEW item \in Nodes
  PROVE  LET n == CopyRoot(h, item)
         IN n # NULL =>
              /\ n \in Nodes /\ CopyStart(h, item) \in Accs
              /\ item \in Live(h) /\ Typed(h.mem[item]) => IsGrowing(h, CopyStart(h, item), n)
<1> DEFINE new == cJSON_New_Item(h, h.mem[item].type)
           n == CopyRoot(h, item)
           g == CopiedItem(new.heap, n, item)
           r == CopyOf(h, item)
           w == r.heap.mem[n]
           m == h.mem[item]
<1>0. SUFFICES ASSUME n # NULL
               PROVE /\ n \in Nodes /\ CopyStart(h, item) \in Accs
                     /\ item \in Live(h) /\ Typed(m) => IsGrowing(h, CopyStart(h, item), n)
  OBVIOUS
<1>1. n = new.ret /\ r = CopyStrings(g, n, item)
  BY DEF CopyRoot, CopyOf
<1>2. m.type \in Kinds \cup {"Array", "free"} /\ m.const \in BOOLEAN
  BY Fields
<1>3. /\ new \in Results /\ new.heap.strings = h.strings /\ n \in Nodes \ Live(h)
      /\ \A x \in Nodes : new.heap.mem[x] = IF x = n THEN [Free EXCEPT !.type = m.type] ELSE h.mem[x]
  BY <1>0, <1>1, <1>2, NewItem
<1>4. new.heap \in Heaps /\ n \in Nodes /\ new.heap.mem[item].const \in BOOLEAN
  BY <1>3, Fields DEF Results
<1> HIDE DEF n, new
<1>5. /\ g \in Heaps /\ g.strings = new.heap.strings
      /\ \A x \in Nodes : g.mem[x] = IF x = n THEN [new.heap.mem[n] EXCEPT !.const = new.heap.mem[item].const]
                                     ELSE new.heap.mem[x]
  <2> DEFINE h0 == new.heap
             c  == h0.mem[item].const
  <2>1. h0 \in Heaps /\ c \in BOOLEAN /\ g = [h0 EXCEPT !.mem[n].const = c]
    BY <1>4 DEF CopiedItem
  <2> HIDE DEF h0, c, g
  <2>2. /\ g \in Heaps /\ g.strings = h0.strings
        /\ \A x \in Nodes : g.mem[x] = IF x = n THEN [h0.mem[n] EXCEPT !.const = c] ELSE h0.mem[x]
    <3>1. ItemIs(g, h0, n, [h0.mem[n] EXCEPT !.const = c])
      BY <1>4, <2>1, ConstSet
    <3>2. QED BY <3>1 DEF ItemIs
  <2>3. QED BY <2>2 DEF h0, c
<1> DEFINE v == [[Free EXCEPT !.type = m.type] EXCEPT !.const = new.heap.mem[item].const]
<1>6. g.mem[n] = v /\ \A x \in Nodes : x # n => g.mem[x] = h.mem[x]
  BY <1>3, <1>4, <1>5
<1>7. /\ v.type = m.type /\ v.ref = FALSE /\ v.const = new.heap.mem[item].const /\ v.string = NULL /\ v.value = NULL
      /\ v.child = NULL /\ v.next = NULL /\ v.prev = NULL
  BY DEF Free
<1> HIDE DEF v, g, r
<1>8. /\ r.heap \in Heaps /\ r.ret \in BOOLEAN
      /\ \A x \in Nodes : x # n => r.heap.mem[x] = g.mem[x]
      /\ w.type = v.type /\ w.ref = v.ref /\ w.child = v.child /\ w.next = v.next /\ w.prev = v.prev
  <2>1. g \in Heaps /\ n \in Nodes /\ r = CopyStrings(g, n, item)
    BY <1>1, <1>4, <1>5
  <2>2. /\ r.heap \in Heaps /\ r.ret \in BOOLEAN
        /\ \A x \in Nodes : x # n => r.heap.mem[x] = g.mem[x]
        /\ LET u == r.heap.mem[n]
               o == g.mem[n]
           IN u.type = o.type /\ u.ref = o.ref /\ u.child = o.child /\ u.next = o.next /\ u.prev = o.prev
    BY <2>1, CopiedStrings
  <2>3. QED BY <1>6, <2>2
<1>9. CopyStart(h, item) \in Accs
  BY <1>8 DEF CopyStart, Accs, r
<1>10. ASSUME item \in Live(h), Typed(m) PROVE IsGrowing(h, CopyStart(h, item), n)
  <2>1. item # n /\ m.type # "free"
    BY <1>3, <1>10 DEF Live
  <2>2. g.mem[item] = m /\ v.const = m.const
    BY <1>3, <1>6, <1>7, <2>1
  <2>3. /\ r.heap.strings = g.strings + One(OwnsString(w)) + One(OwnsValue(w))
        /\ r.ret => Typed(w)
    <3> HIDE DEF w, m
    <3>1. ~ g.mem[n].ref /\ g.mem[n].type = g.mem[item].type /\ g.mem[n].const = g.mem[item].const
          /\ g.mem[n].string = NULL /\ g.mem[n].value = NULL
      BY <1>6, <1>7, <2>2
    <3>2. Typed(g.mem[item])
      BY <1>10, <2>2
    <3>3. g \in Heaps /\ n \in Nodes /\ r = CopyStrings(g, n, item)
      BY <1>1, <1>4, <1>5
    <3>4. LET o == g.mem[n]
              i == g.mem[item]
              u == r.heap.mem[n]
          IN ~ o.ref /\ o.type = i.type /\ o.const = i.const /\ o.string = NULL /\ o.value = NULL =>
               /\ r.heap.strings = g.strings + One(OwnsString(u)) + One(OwnsValue(u))
               /\ r.ret /\ Typed(i) => Typed(u)
      BY <3>3, CopiedStrings
    <3>5. QED BY <3>1, <3>2, <3>4 DEF w
  <2>4. g.strings = h.strings
    BY <1>3, <1>5
  <2>5. \A x \in Nodes : x # n => r.heap.mem[x] = h.mem[x]
    BY <1>6, <1>8
  <2>6. IsGrowing(h, [heap |-> r.heap, ok |-> r.ret, last |-> NULL], n)
    <3> HIDE DEF m
    <3>1. r.heap.strings = h.strings + One(OwnsString(w)) + One(OwnsValue(w))
      BY <2>3, <2>4
    <3>2. /\ w.type # "free" /\ w.next = NULL /\ w.prev = NULL /\ w.child = NULL /\ ~ w.ref
      BY <1>7, <1>8, <2>1
    <3>3. QED BY <1>3, <1>8, <2>3, <2>5, <3>1, <3>2, StartGrows
  <2>7. QED BY <2>6 DEF CopyStart, r
<1>11. QED BY <1>4, <1>9, <1>10

\* A loop that failed carries what it did.
LEMMA SomethingAppended ==
  ASSUME NEW acc \in Accs
  PROVE  [acc EXCEPT !.ok = FALSE] \in Accs /\ [acc EXCEPT !.ok = FALSE].ok = FALSE
BY DEF Accs

\* An item below the first is copied by "below".
CopiesFrom(k, below) == k > 0 => below \in [Heaps \X Nodes -> Results]
CopyRun(h, item, s, k, below, made) ==
  /\ made[0] = CopyStart(h, item) /\ \A i \in 0..Len(s) : made[i] \in Accs
  /\ \A i \in 1..Len(s) : made[i] = CopyNext(CopyRoot(h, item), k, below, s[i], made[i - 1])
  /\ CopyWith(h, item, s, k, below) = Completed(made[Len(s)], CopyRoot(h, item))
\* The copy is made item by item, if there is something to be returned at all.
LEMMA CopyRuns ==
  ASSUME NEW h \in Heaps, NEW item \in Nodes, NEW s \in Seq(Nodes), NEW k \in Nat, NEW below,
         CopiesFrom(k, below), CopyRoot(h, item) # NULL
  PROVE  \E made : CopyRun(h, item, s, k, below, made)
<1> DEFINE n == CopyRoot(h, item)
           a == CopyStart(h, item)
           P(f) == f = [i \in 0..Len(s) |->
                     IF i = 0 THEN a
                     ELSE LET before == f[i - 1]
                          IN IF before.ok /\ k > 0 THEN Appended(before, n, below[before.heap, s[i]])
                             ELSE [before EXCEPT !.ok = FALSE]]
           made == CHOOSE f : P(f)
           one(c) == [acc \in Accs |-> CopyNext(n, k, below, c, acc)]
           step == [i \in 1..Len(s) |-> one(s[i])]
<1>1. n \in Nodes /\ a \in Accs /\ Len(s) \in Nat
  <2>1. CopyRoot(h, item) \in Nodes /\ CopyStart(h, item) \in Accs
    BY CopyBegins, ZenonT(30)
  <2>2. QED BY <2>1
<1>2. CopyWith(h, item, s, k, below) = Completed(made[Len(s)], n)
  BY Zenon DEF CopyWith, CopyRoot, CopyStart, CopyOf
<1> HIDE DEF n, a
<1>3. step \in Steps(Len(s), Accs)
  <2>1. SUFFICES ASSUME NEW i \in 1..Len(s), NEW acc \in Accs PROVE CopyNext(n, k, below, s[i], acc) \in Accs
    BY DEF Steps
  <2>2. s[i] \in Nodes
    OBVIOUS
  <2>3. acc.heap \in Heaps
    BY AccMeans
  <2>4. CASE acc.ok /\ k > 0
    <3>1. below[acc.heap, s[i]] \in Results
      BY <2>2, <2>3, <2>4 DEF CopiesFrom
    <3>2. Appended(acc, n, below[acc.heap, s[i]]) \in Accs
      BY <1>1, <3>1, AppendedAcc
    <3>3. QED BY <2>4, <3>2 DEF CopyNext
  <2>5. CASE ~ (acc.ok /\ k > 0)
    BY <2>5, SomethingAppended DEF CopyNext
  <2>6. QED BY <2>4, <2>5
<1>4. PICK f \in [0..Len(s) -> Accs] : f[0] = a /\ \A i \in 1..Len(s) : f[i] = step[i][f[i - 1]]
  <2> HIDE DEF step
  <2>1. \E f : f \in RunsOf(Len(s), Accs, a, step)
    BY <1>1, <1>3, Recursion
  <2>2. QED BY <2>1 DEF RunsOf
<1>5. \A i \in 1..Len(s) : f[i] = CopyNext(n, k, below, s[i], f[i - 1])
  <2>1. ASSUME NEW i \in 1..Len(s) PROVE f[i] = CopyNext(n, k, below, s[i], f[i - 1])
    <3>1. i - 1 \in 0..Len(s)
      BY <1>1
    <3>2. f[i - 1] \in Accs /\ f[i] = step[i][f[i - 1]] /\ step[i] = one(s[i])
      BY <1>4, <3>1
    <3>3. QED BY <3>2
  <2>2. QED BY <2>1
<1>6. P(f)
  <2>1. ASSUME NEW i \in 0..Len(s)
        PROVE f[i] = IF i = 0 THEN a
                     ELSE LET before == f[i - 1]
                          IN IF before.ok /\ k > 0 THEN Appended(before, n, below[before.heap, s[i]])
                             ELSE [before EXCEPT !.ok = FALSE]
    <3>1. CASE i = 0
      BY <1>4, <3>1
    <3>2. CASE i # 0
      <4>1. i \in 1..Len(s)
        BY <1>1, <3>2
      <4>2. QED BY <1>5, <3>2, <4>1 DEF CopyNext
    <3>3. QED BY <3>1, <3>2
  <2>2. f = [i \in 0..Len(s) |-> f[i]]
    BY <1>4
  <2>3. QED BY <2>1, <2>2
<1>7. P(made)
  <2> HIDE DEF P
  <2>1. QED BY <1>6, Zenon
<1> HIDE DEF made
<1>8. \A i \in 0..Len(s) : made[i] = IF i = 0 THEN a
                     ELSE LET before == made[i - 1]
                          IN IF before.ok /\ k > 0 THEN Appended(before, n, below[before.heap, s[i]])
                             ELSE [before EXCEPT !.ok = FALSE]
  BY <1>7
<1> HIDE DEF P
<1>9. made[0] = a /\ \A i \in 1..Len(s) : made[i] = CopyNext(n, k, below, s[i], made[i - 1])
  <2>1. 0 \in 0..Len(s) /\ \A i \in 1..Len(s) : i \in 0..Len(s) /\ i # 0
    BY <1>1
  <2>2. QED BY <1>8, <2>1 DEF CopyNext
<1>10. \A i \in 0..Len(s) : made[i] \in Accs
  <2>1. ASSUME NEW i \in 1..Len(s), made[i - 1] \in Accs PROVE made[i] \in Accs
    <3>1. step[i] \in [Accs -> Accs] /\ step[i] = one(s[i])
      BY <1>3 DEF Steps
    <3>2. made[i] = CopyNext(n, k, below, s[i], made[i - 1])
      BY <1>9
    <3>3. step[i][made[i - 1]] = CopyNext(n, k, below, s[i], made[i - 1])
      BY <2>1, <3>1
    <3> HIDE DEF step
    <3>4. QED BY <2>1, <3>1, <3>2, <3>3
  <2>2. made[0] \in Accs
    BY <1>1, <1>9
  <2>3. QED BY <1>1, <2>1, <2>2, Loop
<1>11. QED BY <1>2, <1>9, <1>10 DEF n, a, CopyRun

\* A completed list is returned, or NULL.
LEMMA CompletedTyped ==
  ASSUME NEW acc \in Accs, NEW n \in Nodes
  PROVE  Completed(acc, n) \in Results
<1>1. Finished(acc, n) \in Heaps /\ acc.heap \in Heaps /\ acc.ok \in BOOLEAN
  BY FinishedHeap, AccMeans
<1>2. CASE ~ acc.ok
  <2>1. Completed(acc, n) = Returns(cJSON_Delete(acc.heap, n), NULL)
    BY <1>2 DEF Completed
  <2>2. cJSON_Delete(acc.heap, n) \in Heaps
    BY <1>1, DeletedHeap
  <2>3. QED BY <2>1, <2>2 DEF Returns, Results
<1>3. CASE acc.ok
  <2>1. Completed(acc, n) = Returns(Finished(acc, n), n)
    BY <1>3 DEF Completed, Finished
  <2>2. QED BY <1>1, <2>1 DEF Returns, Results
<1>4. QED BY <1>2, <1>3

\* Whatever is copied, and however, the result is a heap and an item, or NULL.
LEMMA CopyTyped ==
  ASSUME NEW h \in Heaps, NEW item \in Nodes, NEW s \in Seq(Nodes), NEW k \in Nat, NEW below,
         CopiesFrom(k, below)
  PROVE  CopyWith(h, item, s, k, below) \in Results
<1> DEFINE n == CopyRoot(h, item)
<1>1. CASE n = NULL
  <2>1. CopyWith(h, item, s, k, below) = cJSON_New_Item(h, h.mem[item].type)
    BY <1>1 DEF CopyWith, CopyRoot
  <2>2. h.mem[item].type \in Kinds \cup {"Array", "free"}
    BY Fields
  <2>3. QED BY <2>1, <2>2, NewItem
<1>2. CASE n # NULL
  <2>1. n \in Nodes /\ Len(s) \in Nat
    BY <1>2, CopyBegins
  <2>2. PICK made : CopyRun(h, item, s, k, below, made)
    BY <1>2, CopyRuns
  <2>3. made[Len(s)] \in Accs /\ CopyWith(h, item, s, k, below) = Completed(made[Len(s)], n)
    BY <2>1, <2>2 DEF CopyRun
  <2> HIDE DEF n
  <2>4. QED BY <2>1, <2>3, CompletedTyped
<1>3. QED BY <1>1, <1>2

-----------------------------------------------------------------------------
(* Copies of a part of a heap: D has the items it leads to.                *)

Copyable(h, D) ==
  /\ D \subseteq Live(h)
  /\ \A x \in D : h.mem[x].next \in D \cup {NULL} /\ h.mem[x].child \in D \cup {NULL} /\ Typed(h.mem[x])
Copies(b, D) ==
  \A g \in Heaps, x \in D : Blank(g) /\ Copyable(g, D) => Grown(g, b[g, x])

\* A copy of an item and of the listed ones is a tree of new items, or
\* nothing is left of it.
LEMMA CopyGrown ==
  ASSUME NEW h \in Heaps, Blank(h), NEW D, Copyable(h, D), NEW item \in Live(h), Typed(h.mem[item]),
         NEW s \in Seq(D), NEW k \in Nat, NEW below,
         CopiesFrom(k, below), k > 0 => Copies(below, D)
  PROVE  Grown(h, CopyWith(h, item, s, k, below))
<1> DEFINE n == CopyRoot(h, item)
           r == CopyWith(h, item, s, k, below)
<1>0. D \subseteq Nodes /\ item \in Nodes /\ D \subseteq Live(h)
  BY DEF Live, Copyable
<1>00. s \in Seq(Nodes) /\ Len(s) \in Nat
  BY <1>0
<1>1. CASE n = NULL
  <2> DEFINE new == cJSON_New_Item(h, h.mem[item].type)
  <2>1. r = new /\ new.ret = NULL
    BY <1>1 DEF CopyWith, CopyRoot
  <2>2. h.mem[item].type \in Kinds \cup {"Array", "free"}
    BY <1>0, Fields
  <2>3. /\ new \in Results /\ new.heap.strings = h.strings
        /\ \A x \in Nodes : new.heap.mem[x] = IF x = new.ret THEN [Free EXCEPT !.type = h.mem[item].type] ELSE h.mem[x]
    BY <2>2, NewItem
  <2> HIDE DEF new
  <2>4. new.heap \in Heaps /\ NULL \notin Nodes
    BY <2>3, JsonTreeAssumption DEF Results
  <2>5. \A x \in Nodes : new.heap.mem[x] = h.mem[x]
    BY <2>1, <2>3, <2>4
  <2>6. Added(h, new.heap, {})
    BY <2>3, <2>4, <2>5, NothingAdded
  <2>7. QED BY <2>1, <2>3, <2>6 DEF Grown
<1>2. CASE n # NULL
  <2>1. n \in Nodes /\ IsGrowing(h, CopyStart(h, item), n)
    BY <1>0, <1>2, CopyBegins
  <2>2. PICK made :
           /\ made[0] = CopyStart(h, item) /\ \A i \in 0..Len(s) : made[i] \in Accs
           /\ \A i \in 1..Len(s) : made[i] = CopyNext(n, k, below, s[i], made[i - 1])
           /\ r = Completed(made[Len(s)], n)
    <3>1. \E made : CopyRun(h, item, s, k, below, made)
      BY <1>0, <1>00, <1>2, CopyRuns
    <3>2. QED BY <3>1, Zenon DEF CopyRun
  <2> HIDE DEF r, n
  <2> DEFINE Q == {acc \in Accs : IsGrowing(h, acc, n)}
  <2>3. made[0] \in Q
    BY <1>00, <2>1, <2>2
  <2>4. ASSUME NEW i \in 1..Len(s), made[i - 1] \in Q PROVE made[i] \in Q
    <3> DEFINE acc == made[i - 1]
               c   == s[i]
    <3>1. made[i] = CopyNext(n, k, below, c, acc) /\ IsGrowing(h, acc, n) /\ made[i] \in Accs /\ c \in D
      <4>1. i \in 0..Len(s)
        OBVIOUS
      <4>2. QED BY <2>2, <2>4, <4>1
    <3> HIDE DEF acc, c
    <3>2. CASE acc.ok /\ k > 0
      <4>1. /\ acc.heap \in Heaps /\ Blank(acc.heap) /\ Live(h) \subseteq Live(acc.heap)
            /\ \A x \in Live(h) : acc.heap.mem[x] = h.mem[x]
        BY <3>1, GrowingHeap
      <4>2. Copyable(acc.heap, D)
        BY <1>0, <4>1 DEF Copyable
      <4>3. Grown(acc.heap, below[acc.heap, c])
        BY <3>1, <3>2, <4>1, <4>2 DEF Copies
      <4>4. IsGrowing(h, Appended(acc, n, below[acc.heap, c]), n)
        BY <3>1, <3>2, <4>3, StepGrows
      <4>5. made[i] = Appended(acc, n, below[acc.heap, c])
        BY <3>1, <3>2 DEF CopyNext
      <4>6. QED BY <3>1, <4>4, <4>5
    <3>3. CASE ~ (acc.ok /\ k > 0)
      <4>1. IsGrowing(h, [acc EXCEPT !.ok = FALSE], n)
        BY <3>1, FailedGrows
      <4>2. made[i] = [acc EXCEPT !.ok = FALSE]
        BY <3>1, <3>3 DEF CopyNext
      <4>3. QED BY <3>1, <4>1, <4>2
    <3>4. QED BY <3>2, <3>3
  <2>5. \A i \in 0..Len(s) : made[i] \in Q
    <3> HIDE DEF Q
    <3>1. QED BY <1>00, <2>3, <2>4, Loop
  <2>6. IsGrowing(h, made[Len(s)], n)
    BY <1>00, <2>5
  <2>7. QED BY <2>2, <2>6, CompletedGrown DEF r
<1>3. QED BY <1>1, <1>2

-----------------------------------------------------------------------------
(* Copies of whole trees.                                                  *)

CopyStep(k, b) ==
  [x \in Heaps \X Nodes |-> CopyWith(x[1], x[2], Children(x[1], x[2]), k, b)]

\* A level of the copying gives a heap and an item, or NULL.
LEMMA CopyStepTyped ==
  ASSUME NEW k \in Nat, NEW b, CopiesFrom(k, b)
  PROVE  CopyStep(k, b) \in [Heaps \X Nodes -> Results]
<1>1. SUFFICES ASSUME NEW x \in Heaps \X Nodes
               PROVE CopyWith(x[1], x[2], Children(x[1], x[2]), k, b) \in Results
  BY DEF CopyStep
<1>2. x[1] \in Heaps /\ x[2] \in Nodes
  OBVIOUS
<1> DEFINE h == x[1]
           n == x[2]
<1>3. h \in Heaps /\ n \in Nodes
  BY <1>2
<1> HIDE DEF h, n
<1>4. h.mem[n].child \in Nodes \cup {NULL} /\ \A y \in Nodes : h.mem[y].next \in Nodes \cup {NULL}
  BY <1>3, Fields
<1>5. Children(h, n) \in Seq(Nodes)
  <2>1. Nodes \in SUBSET Nodes
    OBVIOUS
  <2>2. QED BY <1>3, <1>4, <2>1, ChainStays DEF Children
<1>6. CopyWith(h, n, Children(h, n), k, b) \in Results
  BY <1>3, <1>5, CopyTyped
<1>7. QED BY <1>6 DEF h, n

\* When the level below copies trees, the next one does.
LEMMA CopyStepCopies ==
  ASSUME NEW k \in Nat, NEW b, NEW D, CopiesFrom(k, b), k > 0 => Copies(b, D)
  PROVE  Copies(CopyStep(k, b), D)
<1>1. SUFFICES ASSUME NEW g \in Heaps, NEW x \in D, Blank(g), Copyable(g, D)
               PROVE Grown(g, CopyStep(k, b)[g, x])
  BY DEF Copies
<1>2. x \in Live(g) /\ x \in Nodes /\ D \in SUBSET Nodes /\ Typed(g.mem[x])
  BY <1>1 DEF Copyable, Live
<1>3. g.mem[x].child \in D \cup {NULL} /\ \A y \in D : g.mem[y].next \in D \cup {NULL}
  BY <1>1 DEF Copyable
<1>4. Children(g, x) \in Seq(D)
  BY <1>2, <1>3, ChainStays DEF Children
<1>5. Grown(g, CopyWith(g, x, Children(g, x), k, b))
  BY <1>1, <1>2, <1>4, CopyGrown
<1>6. CopyStep(k, b)[<<g, x>>] = CopyWith(g, x, Children(g, x), k, b)
  <2>1. <<g, x>> \in Heaps \X Nodes /\ <<g, x>>[1] = g /\ <<g, x>>[2] = x
    BY <1>2
  <2>2. QED BY <2>1 DEF CopyStep
<1>7. QED BY <1>5, <1>6

\* What recursion over the levels gives is a copy for every number of them.
LEMMA TreesCopied ==
  ASSUME NEW D
  PROVE  Copies(cJSON_Duplicate_rec, D)
<1> DEFINE N == CircularLimit
           B == [Heaps \X Nodes -> Results]
           P(f) == f = [k \in 0..N |->
                     [x \in Heaps \X Nodes |-> CopyWith(x[1], x[2], Children(x[1], x[2]), k,
                                                        IF k = 0 THEN << >> ELSE f[k - 1])]]
           copy == CHOOSE f : P(f)
           one(k) == [b \in B |-> CopyStep(k, b)]
           step == [k \in 1..N |-> one(k)]
           a == CopyStep(0, << >>)
<1>1. N \in Nat /\ ~ (0 > 0)
  BY JsonTreeAssumption
<1>2. cJSON_Duplicate_rec = copy[N]
  BY DEF cJSON_Duplicate_rec
<1> HIDE DEF N, B
<1>3. a \in B /\ Copies(a, D)
  BY <1>1, CopyStepTyped, CopyStepCopies DEF B, CopiesFrom
<1>4. step \in Steps(N, B)
  <2>1. SUFFICES ASSUME NEW k \in 1..N, NEW b \in B PROVE CopyStep(k, b) \in B
    BY DEF Steps
  <2>2. k \in Nat /\ CopiesFrom(k, b)
    BY <1>1 DEF CopiesFrom, B
  <2>3. QED BY <2>2, CopyStepTyped DEF B
<1>5. PICK f \in [0..N -> B] : f[0] = a /\ \A i \in 1..N : f[i] = step[i][f[i - 1]]
  <2> HIDE DEF step, a
  <2>1. \E f : f \in RunsOf(N, B, a, step)
    BY <1>1, <1>3, <1>4, Recursion
  <2>2. QED BY <2>1 DEF RunsOf
<1>6. \A k \in 1..N : f[k] = CopyStep(k, f[k - 1])
  <2>1. ASSUME NEW k \in 1..N PROVE f[k] = CopyStep(k, f[k - 1])
    <3>1. k - 1 \in 0..N
      BY <1>1
    <3>2. f[k - 1] \in B /\ f[k] = step[k][f[k - 1]] /\ step[k] = one(k)
      BY <1>5, <3>1
    <3>3. QED BY <3>2
  <2>2. QED BY <2>1
<1>7. P(f)
  <2>1. ASSUME NEW k \in 0..N
        PROVE f[k] = [x \in Heaps \X Nodes |-> CopyWith(x[1], x[2], Children(x[1], x[2]), k,
                                                        IF k = 0 THEN << >> ELSE f[k - 1])]
    <3>1. CASE k = 0
      BY <1>5, <3>1, Zenon DEF CopyStep
    <3>2. CASE k # 0
      <4>1. k \in 1..N
        BY <1>1, <3>2
      <4>2. f[k] = CopyStep(k, f[k - 1])
        BY <1>6, <4>1
      <4>3. QED BY <3>2, <4>2, Zenon DEF CopyStep
    <3>3. QED BY <3>1, <3>2
  <2>2. f = [k \in 0..N |-> f[k]]
    BY <1>5
  <2>3. QED BY <2>1, <2>2, Zenon
<1>8. P(copy)
  <2> HIDE DEF P
  <2>1. QED BY <1>7, Zenon
<1> HIDE DEF copy
<1>9. \A k \in 0..N : copy[k] = CopyStep(k, IF k = 0 THEN << >> ELSE copy[k - 1])
  BY <1>8, Zenon DEF CopyStep
<1> HIDE DEF P
<1> DEFINE Q == {b \in B : Copies(b, D)}
<1>10. copy[0] \in Q
  <2>1. 0 \in 0..N
    BY <1>1
  <2>2. copy[0] = a
    BY <1>9, <2>1
  <2> HIDE DEF a
  <2>3. QED BY <1>3, <2>2
<1>11. ASSUME NEW k \in 1..N, copy[k - 1] \in Q PROVE copy[k] \in Q
  <2> DEFINE b == copy[k - 1]
  <2>1. k \in 0..N /\ k \in Nat /\ k # 0
    BY <1>1
  <2>2. copy[k] = CopyStep(k, b)
    BY <1>9, <2>1
  <2>3. b \in B /\ Copies(b, D)
    BY <1>11
  <2> HIDE DEF b
  <2>4. CopiesFrom(k, b)
    BY <2>3 DEF CopiesFrom, B
  <2>5. CopyStep(k, b) \in B /\ Copies(CopyStep(k, b), D)
    BY <2>1, <2>3, <2>4, CopyStepTyped, CopyStepCopies DEF B
  <2>6. QED BY <2>2, <2>5
<1>12. \A k \in 0..N : copy[k] \in Q
  <2> HIDE DEF Q
  <2>1. QED BY <1>1, <1>10, <1>11, Loop
<1>13. QED BY <1>1, <1>2, <1>12

\* cJSON_Duplicate makes a tree of new items, or leaves nothing behind.
LEMMA Duplicated ==
  ASSUME NEW h \in Heaps, Blank(h), Copyable(h, Live(h)), NEW item \in Live(h), NEW recurse \in BOOLEAN
  PROVE  Grown(h, cJSON_Duplicate(h, item, recurse))
<1>1. CASE recurse
  <2>1. Grown(h, cJSON_Duplicate_rec[h, item])
    BY TreesCopied DEF Copies
  <2>2. QED BY <1>1, <2>1 DEF cJSON_Duplicate
<1>2. CASE ~ recurse
  <2>1. Copyable(h, {}) /\ << >> \in Seq({}) /\ Typed(h.mem[item]) /\ CopiesFrom(0, << >>)
    BY EmptySeq DEF Copyable, CopiesFrom
  <2>2. Grown(h, CopyWith(h, item, << >>, 0, << >>))
    <3>1. 0 \in Nat /\ ~ (0 > 0)
      OBVIOUS
    <3>2. QED BY <2>1, <3>1, CopyGrown
  <2>3. QED BY <1>2, <2>2 DEF cJSON_Duplicate
<1>3. QED BY <1>1, <1>2
=============================================================================
