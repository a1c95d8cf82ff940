------------------------------ MODULE JsonLists ------------------------------
(***************************************************************************)
(* What the pointers of JsonTree stand for: every item in use has a        *)
(* sequence of children, and a call changes one sequence in one place, or  *)
(* makes or drops one tree.                                                *)
(***************************************************************************)
EXTENDS Naturals, FiniteSets, SequencesExt

CONSTANTS Nodes

VARIABLES children, used

Init == children = [n \in Nodes |-> << >>] /\ used = {}

Listed == UNION {ToSet(children[p]) : p \in Nodes}

\* n and everything below it.
Family(n) ==
  LET upTo[k \in 0..Cardinality(Nodes)] ==
        IF k = 0 THEN {n} ELSE UNION {{x} \cup ToSet(children[x]) : x \in upTo[k - 1]}
  IN upTo[Cardinality(Nodes)]

\* An item alone: new, or in use and in no list.
Alone(p, n) == n \notin Listed /\ p \notin Family(n) /\ p \in used

\* f without what the items of S have.
Dropping(f, S) == [n \in Nodes |-> IF n \in S THEN << >> ELSE f[n]]

\* One tree is made of items not in use: nobody is in two of its lists.
Build(new) ==
  /\ used \cap new = {}
  /\ used' = used \cup new
  /\ \A n \in Nodes \ new : children'[n] = children[n]
  /\ \E root \in new :
       /\ \A n \in new : LET in == {p \in new : n \in ToSet(children'[p])}
                         IN Cardinality(in) = (IF n = root THEN 0 ELSE 1)
       /\ \A n \in new : IsInjective(children'[n]) /\ ToSet(children'[n]) \subseteq new
       /\ Family(root)' = new

Discard(n) ==
  /\ n \in used \ Listed
  /\ used' = used \ Family(n)
  /\ children' = Dropping(children, Family(n))

Insert(p, k, n) ==
  /\ used' = used \cup {n}
  /\ k \in 1..(Len(children[p]) + 1)
  /\ Alone(p, n)
  /\ children' = [children EXCEPT ![p] = InsertAt(@, k, n)]

Detach(p, k) ==
  /\ k \in DOMAIN children[p]
  /\ children' = [children EXCEPT ![p] = RemoveAt(@, k)]
  /\ UNCHANGED used

DetachAndDiscard(p, k) ==
  /\ k \in DOMAIN children[p]
  /\ LET gone == Family(children[p][k])
     IN /\ children' = Dropping([children EXCEPT ![p] = RemoveAt(@, k)], gone)
        /\ used' = used \ gone

Replace(p, k, n) ==
  /\ k \in DOMAIN children[p]
  /\ Alone(p, n)
  /\ LET gone == Family(children[p][k])
     IN /\ children' = Dropping([children EXCEPT ![p] = ReplaceAt(@, k, n)], gone)
        /\ used' = used \ gone

Change(p) ==
  /\ children'[p] # children[p]
  /\ \E n \in Nodes, k \in 1..(Len(children[p]) + 1) :
       Insert(p, k, n) \/ Detach(p, k) \/ DetachAndDiscard(p, k) \/ Replace(p, k, n)

Next ==
  /\ <<children, used>>' # <<children, used>>
  /\ \/ \E new \in SUBSET (Nodes \ used) : Build(new)
     \/ \E n \in used : Discard(n)
     \/ \E p \in used : Change(p)

Spec == Init /\ [][Next]_<<children, used>>
=============================================================================
