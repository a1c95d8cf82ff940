------------------------------ MODULE JsonTree ------------------------------
(***************************************************************************)
(* The trees of src/src/cJSON.c: items in a heap, each parent pointing at  *)
(* its first child, siblings linked by next and prev, the first child's    *)
(* prev standing for the last child.  One action per function a caller     *)
(* uses to build, change, copy and delete trees; any allocation may fail.  *)
(*                                                                         *)
(* The caller keeps to what cJSON.h asks of it: it adds items it holds and *)
(* that are in no list, makes no cycles, and neither deletes an item that  *)
(* a reference outside it refers to nor changes the lists it shares, other *)
(* than by adding to them.                                                 *)
(***************************************************************************)
EXTENDS Integers, FiniteSets, SequencesExt

CONSTANTS Nodes,           \* the addresses an item can have
          NULL,
          Letters,         \* keys are words of one letter, ...
          Cases,           \* ... each in upper or lower case
          Values,          \* the value strings, numbers: a string is its length
          Kinds,           \* the item types created
          CircularLimit,   \* CJSON_CIRCULAR_LIMIT
          MaxAllocs,       \* bound on the allocations of one call
          MaxCount         \* bound on cJSON_Create*Array's count

Keys == Letters \X Cases
Folded(key) == key[1]
Parents == {"Array", "Object"}

ASSUME JsonTreeAssumption ==
  /\ IsFiniteSet(Nodes) /\ NULL \notin Nodes \cup Keys \cup Values
  /\ Values \subseteq Nat
  /\ Kinds \subseteq Parents \cup {"Null", "Number", "String", "Raw"}
  /\ CircularLimit \in Nat /\ MaxAllocs \in Nat /\ MaxCount \in Nat

VARIABLES heap,    \* the items, and how many strings are allocated
          held,    \* the items the caller has to delete or to add somewhere
          lost     \* the items nobody can reach any more

vars == <<heap, held, lost>>

\* "of" is a ghost: the item whose child list or value a reference shows.
cJSON == [type : Kinds \cup {"Array", "free"}, ref : BOOLEAN, const : BOOLEAN,
          string : Keys \cup {NULL}, value : Values \cup {NULL},
          child : Nodes \cup {NULL}, next : Nodes \cup {NULL}, prev : Nodes \cup {NULL},
          of : Nodes \cup {NULL}]
Free == [type |-> "free", ref |-> FALSE, const |-> FALSE, string |-> NULL, value |-> NULL,
         child |-> NULL, next |-> NULL, prev |-> NULL, of |-> NULL]

\* "left" is the number of allocations the current call is granted.
Heaps == [mem : [Nodes -> cJSON], strings : Int, left : Nat]

Init == /\ heap = [mem |-> [n \in Nodes |-> Free], strings |-> 0, left |-> 0]
        /\ held = {} /\ lost = {}

-----------------------------------------------------------------------------
(* Reading a heap.                                                         *)

Live(h) == {n \in Nodes : h.mem[n].type # "free"}

\* The items from n on along next.
Chain(h, n) ==
  LET from[k \in 0..Cardinality(Nodes)] ==
        [x \in Nodes \cup {NULL} |-> IF x = NULL \/ k = 0 THEN << >> ELSE <<x>> \o from[k - 1][h.mem[x].next]]
  IN from[Cardinality(Nodes)][n]

Children(h, n) == Chain(h, h.mem[n].child)

\* The items that cJSON_Delete reaches from a set of items.
Reached(h, S) ==
  LET step(n) == {n, h.mem[n].next} \cup (IF h.mem[n].ref THEN {} ELSE {h.mem[n].child})
      after[k \in 0..Cardinality(Nodes)] ==
        IF k = 0 THEN S ELSE (UNION {step(n) : n \in after[k - 1]}) \ {NULL}
  IN after[Cardinality(Nodes)]

OwnsString(m) == m.string # NULL /\ ~ m.const
IsText(type) == type \in {"String", "Raw"}
OwnsValue(m) == IsText(m.type) /\ m.value # NULL /\ ~ m.ref

Owner(h, n) == IF h.mem[n].ref THEN h.mem[n].of ELSE n
Borrowed(h, S) == \E r \in Live(h) \ S : h.mem[r].ref /\ h.mem[r].of \in S

-----------------------------------------------------------------------------
(* Looking items up.                                                       *)

cJSON_GetArraySize(h, array) == Len(Children(h, array))

get_array_item(h, array, index) ==
  LET items == Children(h, array)
  IN IF index < Len(items) THEN items[index + 1] ELSE NULL

\* The exact search stops at the first item without a name, the other one
\* passes it by.
get_object_item(h, object, name, caseSensitive) ==
  LET items == Children(h, object)
      stops(i) == LET string == h.mem[items[i]].string
                  IN IF caseSensitive THEN string = NULL \/ string = name
                     ELSE string # NULL /\ Folded(string) = Folded(name)
      hits == {i \in 1..Len(items) : stops(i)}
      first == CHOOSE i \in hits : \A j \in hits : i <= j
  IN IF hits = {} \/ h.mem[items[first]].string = NULL THEN NULL ELSE items[first]

-----------------------------------------------------------------------------
(* Allocating and deleting.  A function gives the heap after it and what   *)
(* it returns.                                                             *)

Returns(h, ret) == [heap |-> h, ret |-> ret]

\* Which free address is given does not matter: addresses are only compared.
cJSON_New_Item(h, type) ==
  LET free == Nodes \ Live(h)
      n == CHOOSE x \in free : TRUE
  IN IF h.left = 0 \/ free = {} THEN Returns([h EXCEPT !.left = 0], NULL)
     ELSE Returns([h EXCEPT !.mem[n] = [Free EXCEPT !.type = type], !.left = @ - 1], n)

\* cJSON_strdup: the copy is the string itself, in a block of its own.
MayCopy(h) == h.left > 0
Copied(h) == [h EXCEPT !.left = @ - 1, !.strings = @ + 1]

Blocks(h, S) == Cardinality({n \in S : OwnsString(h.mem[n])})
                  + Cardinality({n \in S : OwnsValue(h.mem[n])})

cJSON_Delete(h, item) ==
  LET gone == IF item = NULL THEN {} ELSE Reached(h, {item})
  IN [h EXCEPT !.mem = [n \in Nodes |-> IF n \in gone THEN Free ELSE @[n]],
               !.strings = @ - Blocks(h, gone)]

-----------------------------------------------------------------------------
(* Creating.                                                               *)

\* cJSON_CreateString and cJSON_CreateRaw.
CreateText(h, type, value) ==
  LET new == cJSON_New_Item(h, type)
  IN CASE new.ret = NULL -> new
       [] new.ret # NULL /\ ~ MayCopy(new.heap) -> Returns(cJSON_Delete(new.heap, new.ret), NULL)
       [] OTHER -> Returns([Copied(new.heap) EXCEPT !.mem[new.ret].value = value], new.ret)

\* The other cJSON_Create functions; a number has a value, but no string.
CreateItem(h, type, value) ==
  LET new == cJSON_New_Item(h, type)
  IN CASE IsText(type) -> CreateText(h, type, value)
       [] type = "Number" /\ new.ret # NULL -> [new EXCEPT !.heap.mem[new.ret].value = value]
       [] OTHER -> new

\* A new item takes the place behind the last in the list of n; the first one's
\* prev is not set before the list is complete.
Appended(acc, n, new) ==
  IF new.ret = NULL THEN [acc EXCEPT !.heap = new.heap, !.ok = FALSE]
  ELSE [heap |-> IF acc.last = NULL THEN [new.heap EXCEPT !.mem[n].child = new.ret]
                 ELSE [new.heap EXCEPT !.mem[acc.last].next = new.ret, !.mem[new.ret].prev = acc.last],
        ok |-> TRUE, last |-> new.ret]

\* n is returned with its list, or deleted with what there is of it.
Completed(acc, n) ==
  LET first == acc.heap.mem[n].child
  IN IF ~ acc.ok THEN Returns(cJSON_Delete(acc.heap, n), NULL)
     ELSE IF first = NULL THEN Returns(acc.heap, n)
     ELSE Returns([acc.heap EXCEPT !.mem[first].prev = acc.last], n)

\* cJSON_CreateIntArray, FloatArray, DoubleArray and StringArray.
CreateArrayOf(h, type, count, value) ==
  LET array == cJSON_New_Item(h, "Array")
      made[i \in 0..count] ==
        IF i = 0 THEN [heap |-> array.heap, ok |-> TRUE, last |-> NULL]
        ELSE LET before == made[i - 1]
             IN IF before.ok THEN Appended(before, array.ret, CreateItem(before.heap, type, value)) ELSE before
  IN IF array.ret = NULL THEN array ELSE Completed(made[count], array.ret)

CreateStringReference(h, value) ==
  LET new == cJSON_New_Item(h, "String")
  IN IF new.ret = NULL THEN new
     ELSE [new EXCEPT !.heap.mem[new.ret].ref = TRUE, !.heap.mem[new.ret].value = value]

\* cJSON_CreateObjectReference and ArrayReference, given "from"'s first child.
CreateReference(h, type, from) ==
  LET new == cJSON_New_Item(h, type)
  IN IF new.ret = NULL THEN new
     ELSE [new EXCEPT !.heap.mem[new.ret].ref = TRUE,
                      !.heap.mem[new.ret].child = h.mem[from].child,
                      !.heap.mem[new.ret].of = Owner(h, from)]

\* Mutant: a reference shows its original as its only child.
create_referenceAround(h, item) ==
  LET new == cJSON_New_Item(h, h.mem[item].type)
  IN IF new.ret = NULL THEN new
     ELSE [new EXCEPT !.heap.mem[new.ret] = [h.mem[item] EXCEPT
             !.ref = TRUE, !.string = NULL, !.next = NULL, !.prev = NULL, !.child = item,
             !.of = Owner(h, item)]]

create_reference(h, item) ==
  LET new == cJSON_New_Item(h, h.mem[item].type)
  IN IF new.ret = NULL THEN new
     ELSE [new EXCEPT !.heap.mem[new.ret] = [h.mem[item] EXCEPT
             !.ref = TRUE, !.string = NULL, !.next = NULL, !.prev = NULL, !.of = Owner(h, item)]]

-----------------------------------------------------------------------------
(* Adding, detaching, inserting, replacing.                                *)

add_item_to_array(h, array, item) ==
  LET first == h.mem[array].child
      last  == h.mem[first].prev
  IN IF item = NULL \/ item = array THEN Returns(h, FALSE)
     ELSE Returns(
       CASE first = NULL ->
              [h EXCEPT !.mem[array].child = item, !.mem[item].prev = item, !.mem[item].next = NULL]
         [] first # NULL /\ last # NULL ->
              [h EXCEPT !.mem[last].next = item, !.mem[item].prev = last, !.mem[first].prev = item]
         [] OTHER -> h,
       TRUE)

\* The item's key is freed, unless it is constant, and replaced.
Renamed(h, item, key, const) ==
  [h EXCEPT !.mem[item].string = key, !.mem[item].const = const,
            !.strings = IF OwnsString(h.mem[item]) THEN @ - 1 ELSE @]

\* Mutant: the item is in the list before its key is copied.
add_item_to_objectUnnamed(h, object, string, item, constantKey) ==
  LET added == add_item_to_array(h, object, item)
  IN IF item \in {NULL, object} THEN Returns(h, FALSE)
     ELSE IF constantKey THEN Returns(Renamed(added.heap, item, string, TRUE), TRUE)
     ELSE IF MayCopy(h) THEN Returns(Renamed(Copied(added.heap), item, string, FALSE), TRUE)
     ELSE Returns(added.heap, FALSE)

add_item_to_object(h, object, string, item, constantKey) ==
  CASE item = NULL \/ item = object -> Returns(h, FALSE)
    [] item \notin {NULL, object} /\ constantKey ->
         add_item_to_array(Renamed(h, item, string, TRUE), object, item)
    [] item \notin {NULL, object} /\ ~ constantKey /\ MayCopy(h) ->
         add_item_to_array(Renamed(Copied(h), item, string, FALSE), object, item)
    [] OTHER -> Returns(h, FALSE)

\* cJSON_AddNullToObject and the others: nothing is left of an item that
\* cannot be added.
AddNewToObject(h, object, string, type, value) ==
  LET new   == CreateItem(h, type, value)
      added == add_item_to_object(new.heap, object, string, new.ret, FALSE)
  IN IF added.ret THEN Returns(added.heap, new.ret)
     ELSE Returns(cJSON_Delete(added.heap, new.ret), NULL)

\* Mutant: the first child's prev is not kept at the last child.
DetachKeepingPrev(h, parent, item) ==
  LET m     == h.mem
      first == item = m[parent].child
      m1 == IF first THEN [m EXCEPT ![parent].child = m[item].next]
            ELSE [m EXCEPT ![m[item].prev].next = m[item].next]
      m2 == IF m[item].next = NULL THEN m1 ELSE [m1 EXCEPT ![m[item].next].prev = m[item].prev]
  IN IF ~ first /\ m[item].prev = NULL THEN Returns(h, NULL)
     ELSE Returns([h EXCEPT !.mem = [m2 EXCEPT ![item].prev = NULL, ![item].next = NULL]], item)

cJSON_DetachItemViaPointer(h, parent, item) ==
  LET m     == h.mem
      first == item = m[parent].child
      m1 == IF first THEN m ELSE [m EXCEPT ![m[item].prev].next = m[item].next]
      m2 == IF m[item].next = NULL THEN m1 ELSE [m1 EXCEPT ![m[item].next].prev = m[item].prev]
      m3 == CASE first -> [m2 EXCEPT ![parent].child = m[item].next]
              [] ~ first /\ m[item].next = NULL -> [m2 EXCEPT ![m[parent].child].prev = m[item].prev]
              [] OTHER -> m2
  IN IF item = NULL \/ (~ first /\ m[item].prev = NULL) THEN Returns(h, NULL)
     ELSE Returns([h EXCEPT !.mem = [m3 EXCEPT ![item].prev = NULL, ![item].next = NULL]], item)

cJSON_InsertItemInArray(h, array, which, new) ==
  LET m     == h.mem
      after == get_array_item(h, array, which)
      prev  == m[after].prev
      m1 == [m EXCEPT ![new].next = after, ![new].prev = prev, ![after].prev = new]
      m2 == IF after = m[array].child THEN [m1 EXCEPT ![array].child = new]
            ELSE [m1 EXCEPT ![prev].next = new]
  IN IF after = NULL THEN add_item_to_array(h, array, new)
     ELSE IF after # m[array].child /\ prev = NULL THEN Returns(h, FALSE)
     ELSE Returns([h EXCEPT !.mem = m2], TRUE)

cJSON_ReplaceItemViaPointer(h, parent, item, replacement) ==
  LET m     == h.mem
      first == m[parent].child
      next  == m[item].next
      \* An only child is its own last one.
      prev  == IF first = item /\ m[first].prev = first THEN replacement ELSE m[item].prev
      m1 == [m EXCEPT ![replacement].next = next, ![replacement].prev = prev]
      m2 == IF next = NULL THEN m1 ELSE [m1 EXCEPT ![next].prev = replacement]
      m3 == CASE first = item -> [m2 EXCEPT ![parent].child = replacement]
              [] first # item /\ prev = NULL -> m2
              [] OTHER -> [m2 EXCEPT ![prev].next = replacement]
      m4 == IF first # item /\ next = NULL THEN [m3 EXCEPT ![first].prev = replacement] ELSE m3
  IN IF first = NULL \/ item = NULL THEN Returns(h, FALSE)
     ELSE IF replacement = item THEN Returns(h, TRUE)
     ELSE Returns(cJSON_Delete([h EXCEPT !.mem = [m4 EXCEPT ![item].next = NULL, ![item].prev = NULL]], item),
                  TRUE)

\* The replacement's key is gone even when the new one cannot be copied.
replace_item_in_object(h, object, string, replacement, caseSensitive) ==
  LET unnamed == Renamed(h, replacement, NULL, h.mem[replacement].const)
      named   == Renamed(Copied(unnamed), replacement, string, FALSE)
  IN IF ~ MayCopy(h) THEN Returns(unnamed, FALSE)
     ELSE cJSON_ReplaceItemViaPointer(named, object, get_object_item(named, object, string, caseSensitive),
                                      replacement)

\* A longer string is copied to a new block, another one into the old block.
cJSON_SetValuestring(h, item, value) ==
  LET m == h.mem[item]
  IN IF m.type # "String" \/ m.ref \/ (value > m.value /\ ~ MayCopy(h)) THEN Returns(h, NULL)
     ELSE Returns([h EXCEPT !.mem[item].value = value], value)

-----------------------------------------------------------------------------
(* Copying.                                                                *)

\* The value and the key of a copy; a constant key is shared.
CopyStrings(h, new, item) ==
  LET m  == h.mem[item]
      text == IsText(m.type) /\ m.value # NULL
      h1 == [(IF text THEN Copied(h) ELSE h) EXCEPT !.mem[new].value = m.value]
      h2 == [(IF m.const THEN h1 ELSE Copied(h1)) EXCEPT !.mem[new].string = m.string]
  IN IF text /\ ~ MayCopy(h) THEN Returns(h, FALSE)
     ELSE IF m.string = NULL THEN Returns(h1, TRUE)
     ELSE IF ~ m.const /\ ~ MayCopy(h1) THEN Returns(h1, FALSE)
     ELSE Returns(h2, TRUE)

CopiedItem(h, new, item) == [h EXCEPT !.mem[new].const = h.mem[item].const]

\* The item and, by "below", the children of it that are listed are copied; k
\* levels below it may be.
CopyWith(h, item, children, k, below) ==
  LET new    == cJSON_New_Item(h, h.mem[item].type)
      n      == new.ret
      copied == CopyStrings(CopiedItem(new.heap, n, item), n, item)
      made[i \in 0..Len(children)] ==
        IF i = 0 THEN [heap |-> copied.heap, ok |-> copied.ret, last |-> NULL]
        ELSE LET before == made[i - 1]
             IN IF before.ok /\ k > 0 THEN Appended(before, n, below[before.heap, children[i]])
                ELSE [before EXCEPT !.ok = FALSE]
  IN IF n = NULL THEN new ELSE Completed(made[Len(children)], n)

\* The copies of whole trees, by how many levels below the item there may be.
cJSON_Duplicate_rec ==
  LET copy[k \in 0..CircularLimit] ==
        [x \in Heaps \X Nodes |-> CopyWith(x[1], x[2], Children(x[1], x[2]), k,
                                           IF k = 0 THEN << >> ELSE copy[k - 1])]
  IN copy[CircularLimit]

cJSON_Duplicate(h, item, recurse) ==
  IF recurse THEN cJSON_Duplicate_rec[h, item] ELSE CopyWith(h, item, << >>, 0, << >>)

-----------------------------------------------------------------------------
(* The calls.                                                              *)

\* The heap as a call finds it, when "left" of its allocations will succeed.
Granted(left) == [heap EXCEPT !.left = left]
Now(h) == heap' = [h EXCEPT !.left = 0]

Parent(p) == p \in Live(heap) /\ heap.mem[p].type \in Parents /\ ~ heap.mem[p].ref
\* p may be given n: that makes no cycle.
Fits(p, n) == Parent(p) /\ n \in held /\ p \notin Reached(heap, {n})
\* Nothing outside the tree of n shows a part of it.
Unshared(n) == ~ Borrowed(heap, Reached([heap EXCEPT !.mem[n].next = NULL], {n}))
MayTake(p, n) == Parent(p) /\ ~ Borrowed(heap, {p}) /\ n \in ToSet(Children(heap, p))

\* The caller gets an item, or NULL; it gives one away if the call succeeds.
Gains(r) == Now(r.heap) /\ held' = held \cup ({r.ret} \ {NULL}) /\ UNCHANGED lost
Gives(r, n) == Now(r.heap) /\ held' = (IF r.ret THEN held \ {n} ELSE held) /\ UNCHANGED lost

\* The values an item of a type may be created with, if it has one.
ValuesFor(type) == IF type \in {"Number", "String", "Raw"} THEN Values ELSE {NULL}

Create(left) ==
  \/ \E type \in Kinds : \E value \in ValuesFor(type) : Gains(CreateItem(Granted(left), type, value))
  \/ \E value \in Values : "String" \in Kinds /\ Gains(CreateStringReference(Granted(left), value))
  \/ \E from \in Live(heap) :
       Parent(from) /\ Gains(CreateReference(Granted(left), heap.mem[from].type, from))

CreateArray(left) ==
  \E type \in Kinds \cap {"Number", "String"}, count \in 0..MaxCount, value \in Values :
    Gains(CreateArrayOf(Granted(left), type, count, value))

AddItemToArray(p, n) == Fits(p, n) /\ Gives(add_item_to_array(heap, p, n), n)

AddItemToObject(p, n, left) ==
  /\ Fits(p, n)
  /\ \E key \in Keys, constantKey \in BOOLEAN :
       Gives(add_item_to_object(Granted(left), p, key, n, constantKey), n)

AddReferenceToArray(p, n, left) ==
  /\ Parent(p)
  /\ LET r == create_reference(Granted(left), n)
     IN Now(add_item_to_array(r.heap, p, r.ret).heap)
  /\ UNCHANGED <<held, lost>>

\* Nobody has the reference when the key cannot be copied.
AddReferenceToObject(p, n, left) ==
  /\ Parent(p)
  /\ \E key \in Keys :
       LET r     == create_reference(Granted(left), n)
           added == add_item_to_object(r.heap, p, key, r.ret, FALSE)
       IN /\ Now(added.heap)
          /\ lost' = IF added.ret THEN lost ELSE lost \cup ({r.ret} \ {NULL})
  /\ UNCHANGED held

AddNew(p, left) ==
  /\ Parent(p)
  /\ \E key \in Keys, type \in Kinds : \E value \in ValuesFor(type) :
       Now(AddNewToObject(Granted(left), p, key, type, value).heap)
  /\ UNCHANGED <<held, lost>>

\* cJSON_DetachItemViaPointer, FromArray, FromObject and CaseSensitive: the
\* item is given, or found by its place or its name.
Detach(p, n) == MayTake(p, n) /\ Gains(cJSON_DetachItemViaPointer(heap, p, n))

\* cJSON_DeleteItemFromArray, FromObject and FromObjectCaseSensitive.
DeleteFrom(p, n) ==
  /\ MayTake(p, n) /\ Unshared(n)
  /\ LET r == cJSON_DetachItemViaPointer(heap, p, n) IN Now(cJSON_Delete(r.heap, r.ret))
  /\ UNCHANGED <<held, lost>>

Delete(n) ==
  /\ n \in held /\ Unshared(n)
  /\ Now(cJSON_Delete(heap, n))
  /\ held' = held \ {n} /\ UNCHANGED lost

Insert(p, n, which) == Fits(p, n) /\ Gives(cJSON_InsertItemInArray(heap, p, which, n), n)

\* cJSON_ReplaceItemViaPointer and InArray.
Replace(p, n, item) ==
  /\ Fits(p, n) /\ MayTake(p, item) /\ Unshared(item)
  /\ Gives(cJSON_ReplaceItemViaPointer(heap, p, item, n), n)

ReplaceInObject(p, n, left) ==
  /\ Fits(p, n) /\ ~ Borrowed(heap, {p})
  /\ \E key \in Keys, caseSensitive \in BOOLEAN :
       LET item == get_object_item(heap, p, key, caseSensitive)
       IN /\ item # NULL => Unshared(item)
          /\ Gives(replace_item_in_object(Granted(left), p, key, n, caseSensitive), n)

SetValuestring(n, left) ==
  /\ n \in Live(heap) /\ ~ Borrowed(heap, {n})
  /\ \E value \in Values : Now(cJSON_SetValuestring(Granted(left), n, value).heap)
  /\ UNCHANGED <<held, lost>>

Duplicate(n, left) ==
  \E recurse \in BOOLEAN : Gains(cJSON_Duplicate(Granted(left), n, recurse))

Next ==
  \/ \E left \in 0..MaxAllocs : CreateArray(left) \/ \E n \in Live(heap) : Duplicate(n, left)
  \* The others make few allocations.
  \/ \E left \in 0..2 : Create(left)
  \/ \E left \in 0..3, n \in Live(heap) : AddNew(n, left)
  \/ \E left \in 0..2, p, n \in Live(heap) : AddReferenceToObject(p, n, left)
  \/ \E left \in 0..1, n \in Live(heap) :
       \/ SetValuestring(n, left)
       \/ \E p \in Live(heap) :
            AddItemToObject(p, n, left) \/ ReplaceInObject(p, n, left) \/ AddReferenceToArray(p, n, left)
  \/ \E n \in Live(heap) :
       \/ Delete(n)
       \/ \E p \in Live(heap) :
            \/ AddItemToArray(p, n) \/ Detach(p, n) \/ DeleteFrom(p, n)
            \/ \E which \in 0..Cardinality(Nodes) : Insert(p, n, which)
            \/ \E item \in Live(heap) : Replace(p, n, item)

Spec == Init /\ [][Next]_vars

-----------------------------------------------------------------------------
(* Properties.                                                             *)

\* The items have their types; only a string or raw item has a value string,
\* and only a copy keeps a key while nobody lists it.
TreeTypeOK ==
  /\ DOMAIN heap.mem = Nodes /\ heap.strings \in Nat /\ heap.left = 0
  /\ \A n \in Nodes :
       /\ heap.mem[n].type \in Kinds \cup {"Array", "free"}
       /\ {heap.mem[n].next, heap.mem[n].prev, heap.mem[n].child} \subseteq Nodes \cup {NULL}
       /\ heap.mem[n].string \in Keys \cup {NULL}
       /\ heap.mem[n].type \in Parents => heap.mem[n].value = NULL
  /\ held \subseteq Live(heap) /\ lost \subseteq Live(heap) \ held

\* After any sequence of adds, inserts, detachments and replacements, each
\* list is linked both ways, its first item's prev is its last item, and an
\* item in no list has no neighbours (add_item_to_array appends through prev).
ListsLinked ==
  /\ \A p \in Live(heap) :
       LET items == Children(heap, p)
       IN ~ heap.mem[p].ref /\ items # << >> =>
            /\ heap.mem[items[1]].prev = Last(items) /\ heap.mem[Last(items)].next = NULL
            /\ \A i \in 2..Len(items) : heap.mem[items[i]].prev = items[i - 1]
  /\ \A n \in held : heap.mem[n].next = NULL /\ heap.mem[n].prev = NULL

\* No item in use points at a deleted one, references included.
NothingDangles ==
  \A n \in Live(heap) :
    {heap.mem[n].next, heap.mem[n].prev, heap.mem[n].child} \subseteq Live(heap) \cup {NULL}

\* Every item in use is in exactly one list of its own parent, or the caller
\* has it, and never both; only a reference that AddItemReferenceToObject
\* could not name is lost.
NothingLost ==
  /\ \A n \in Live(heap) :
       LET parents == {p \in Live(heap) : ~ heap.mem[p].ref /\ n \in ToSet(Children(heap, p))}
       IN Cardinality(parents) = IF n \in held \cup lost THEN 0 ELSE 1
  /\ \A n \in lost : heap.mem[n].ref /\ heap.mem[n].string = NULL

\* The strings allocated are those the items own: no key or value is freed
\* twice, forgotten when it is replaced, or freed although it is constant or
\* belongs to the item a reference shows.
StringsAccounted == heap.strings = Blocks(heap, Live(heap))

\* A reference shows the rest of its original's list from the item that was
\* first when it was made.
ReferencesShowOriginals ==
  \A r \in Live(heap) : heap.mem[r].ref /\ heap.mem[r].of # NULL =>
    /\ heap.mem[r].of \in Live(heap)
    /\ IsSuffix(Children(heap, r), Children(heap, heap.mem[r].of))

\* Whatever sequence of calls made the heap, every item in it is somebody's, and
\* what an item points at is there and is what it is to show.
ItemsAccounted == TreeTypeOK /\ NothingDangles /\ NothingLost /\ ReferencesShowOriginals

\* Every item and every string is somebody's, whichever allocation fails: also
\* the reference whose key cannot be copied is only lost, not listed.
AllAccounted == ItemsAccounted /\ StringsAccounted

\* What the pointers do is what JsonLists says of sequences.
Lists == INSTANCE JsonLists WITH
  children <- [n \in Nodes |-> IF heap.mem[n].ref THEN << >> ELSE Children(heap, n)],
  used <- Live(heap)
ListsSpec == Lists!Spec
=============================================================================
