---------------------------- MODULE JsonCompare ----------------------------
(***************************************************************************)
(* cJSON_Compare (src/src/cJSON.c) on two trees that a caller builds with  *)
(* the functions of JsonTree, one item after the other.                    *)
(***************************************************************************)
EXTENDS JsonTree

CONSTANTS Precision,       \* 1 / DBL_EPSILON
          Infinite,        \* the value in Values that stands for an infinite number
          TreeSize         \* bound on the items of a tree

VARIABLE roots             \* the two trees, the second one absent at first

compareVars == <<vars, roots>>

-----------------------------------------------------------------------------
\* Infinite numbers differ by nothing that is a number from themselves, and by
\* no more than DBL_EPSILON times themselves from all others.
compare_double(a, b) ==
  LET distance == IF a < b THEN b - a ELSE a - b
      maxVal   == IF a < b THEN b ELSE a
  IN IF Infinite \in {a, b} THEN a # b ELSE distance * Precision <= maxVal

\* The values of two items of one type that are not lists.
SameValue(ma, mb) ==
  CASE ma.type = "Null"   -> TRUE
    [] ma.type = "Number" -> compare_double(ma.value, mb.value)
    [] IsText(ma.type)    -> ma.value # NULL /\ ma.value = mb.value

\* Mutant: an object equals any object that has its items.
RECURSIVE CompareOneWay(_, _, _, _)
CompareOneWay(h, a, b, caseSensitive) ==
  LET ma == h.mem[a]  mb == h.mem[b]
      as == Children(h, a)  bs == Children(h, b)
  IN /\ ma.type = mb.type
     /\ \/ a = b
        \/ ma.type \notin Parents /\ SameValue(ma, mb)
        \/ ma.type = "Array" /\ Len(as) = Len(bs)
             /\ \A i \in 1..Len(as) : CompareOneWay(h, as[i], bs[i], caseSensitive)
        \/ ma.type = "Object"
             /\ \A x \in ToSet(as) : h.mem[x].string # NULL
                  /\ LET y == get_object_item(h, b, h.mem[x].string, caseSensitive)
                     IN y # NULL /\ CompareOneWay(h, x, y, caseSensitive)

RECURSIVE cJSON_Compare(_, _, _, _)
cJSON_Compare(h, a, b, caseSensitive) ==
  LET ma == h.mem[a]  mb == h.mem[b]
      as == Children(h, a)  bs == Children(h, b)
      \* A search for no name finds nothing.
      inside(items, other) ==
        \A x \in ToSet(items) :
          /\ h.mem[x].string # NULL
          /\ LET y == get_object_item(h, other, h.mem[x].string, caseSensitive)
             IN y # NULL /\ cJSON_Compare(h, x, y, caseSensitive)
  IN /\ ma.type = mb.type
     /\ \/ a = b
        \/ ma.type \notin Parents /\ SameValue(ma, mb)
        \/ ma.type = "Array" /\ Len(as) = Len(bs)
             /\ \A i \in 1..Len(as) : cJSON_Compare(h, as[i], bs[i], caseSensitive)
        \/ ma.type = "Object" /\ inside(as, b) /\ inside(bs, a)

-----------------------------------------------------------------------------
(* Two trees built by a caller, each from its root on in the order of its  *)
(* text.                                                                   *)

CompareInit == Init /\ roots = << >>

\* Items of every kind; cJSON_CreateStringReference(NULL) gives one without its
\* string.
NewItems ==
  {r \in UNION {{CreateItem(Granted(MaxAllocs), type, value) : value \in ValuesFor(type)} : type \in Kinds}
         \cup {CreateStringReference(Granted(MaxAllocs), NULL) : type \in Kinds \cap {"String"}} :
     r.ret # NULL}

Begin ==
  /\ Len(roots) < 2
  /\ \E r \in NewItems : Now(r.heap) /\ roots' = Append(roots, r.ret)
  /\ UNCHANGED <<held, lost>>

\* The last item of a tree, and those it is in.
LastPath(root) ==
  LET path[k \in 0..TreeSize] ==
        [n \in Nodes |-> LET items == Children(heap, n)
                         IN {n} \cup (IF k = 0 \/ items = << >> \/ heap.mem[n].ref THEN {} ELSE path[k - 1][Last(items)])]
  IN path[TreeSize][root]

\* References to the items before those: what they show is complete.
References ==
  {r \in {create_reference(Granted(MaxAllocs), n) : n \in Live(heap) \ LastPath(Last(roots))} : r.ret # NULL}

\* An object's new item gets a name, unless it is added as to an array.
Grow ==
  /\ roots # << >>
  /\ Cardinality(Reached(heap, {Last(roots)})) < TreeSize
  /\ \E p \in LastPath(Last(roots)), r \in NewItems \cup References :
       /\ Parent(p)
       /\ \/ Now(add_item_to_array(r.heap, p, r.ret).heap)
          \/ heap.mem[p].type = "Object"
               /\ \E key \in Keys : Now(add_item_to_object(r.heap, p, key, r.ret, TRUE).heap)
  /\ UNCHANGED <<held, lost, roots>>

CompareNext == Begin \/ Grow

-----------------------------------------------------------------------------
(* Properties.                                                             *)

SameName(h, x, y, caseSensitive) ==
  IF caseSensitive THEN h.mem[x].string = h.mem[y].string
  ELSE Folded(h.mem[x].string) = Folded(h.mem[y].string)

\* One value, however its items lie: objects are equal as sets of named items,
\* of which no name has two values.
RECURSIVE SameTree(_, _, _, _)
SameTree(h, a, b, caseSensitive) ==
  LET ma == h.mem[a]  mb == h.mem[b]
      as == Children(h, a)  bs == Children(h, b)
      all == ToSet(as) \cup ToSet(bs)
      named(x) == {y \in all : SameName(h, x, y, caseSensitive)}
  IN \/ a = b
     \/ /\ ma.type = mb.type
        /\ CASE ma.type = "Array"  -> /\ Len(as) = Len(bs)
                                      /\ \A i \in 1..Len(as) : SameTree(h, as[i], bs[i], caseSensitive)
             [] ma.type = "Object" -> /\ \A x \in all : h.mem[x].string # NULL
                                      /\ \A x \in all : /\ named(x) \cap ToSet(as) # {} /\ named(x) \cap ToSet(bs) # {}
                                                        /\ \A y \in named(x) : SameTree(h, x, y, caseSensitive)
             [] OTHER -> SameValue(ma, mb)

\* The items one sees below n, through references too.
Shown(h, n) ==
  LET upTo[k \in 0..TreeSize] ==
        IF k = 0 THEN {n}
        ELSE LET before == upTo[k - 1] IN before \cup UNION {ToSet(Children(h, x)) : x \in before}
  IN upTo[TreeSize]
\* compare_double tells all numbers in S apart; no name in S is given twice.
Exact(h, S) ==
  \A x, y \in {n \in S : h.mem[n].type = "Number"} :
    compare_double(h.mem[x].value, h.mem[y].value) <=> h.mem[x].value = h.mem[y].value
OneOfEachName(h, S, caseSensitive) ==
  \A p \in {n \in S : h.mem[n].type = "Object"} : \A x, y \in ToSet(Children(h, p)) :
    h.mem[x].string # NULL /\ h.mem[y].string # NULL /\ SameName(h, x, y, caseSensitive) => x = y

\* cJSON_Compare says whether two trees are the same value, whatever the order,
\* the case and the number of an object's names, although it looks each up
\* alone; only where close numbers come under one name may it see one of them.
\* It gives one answer both ways round.
CompareIsEquality ==
  Len(roots) = 2 =>
    LET a == roots[1]  b == roots[2]
        shown == Shown(heap, a) \cup Shown(heap, b)
    IN \A caseSensitive \in BOOLEAN :
         LET equal == cJSON_Compare(heap, a, b, caseSensitive)
         IN /\ equal = cJSON_Compare(heap, b, a, caseSensitive)
            /\ Exact(heap, shown) \/ OneOfEachName(heap, shown, caseSensitive) =>
                 equal = SameTree(heap, a, b, caseSensitive)
=============================================================================
