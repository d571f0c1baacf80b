----------------------------- MODULE JsonItems -----------------------------
(***************************************************************************)
(* The items of cJSON (cJSON.c): every value is a structure with a pointer *)
(* to its first child and with prev and next pointers to its siblings; the *)
(* first child has no prev, and a reference item shares the children of    *)
(* the item it was made from.                                              *)
(*                                                                         *)
(* kids is the abstract tree the calls build; the calls themselves are     *)
(* the pointer assignments of the functions.  What a caller must respect   *)
(* is in the guards: an item is put in one place at a time and never below *)
(* itself, and what a reference shares is left alone while it lives.       *)
(* Allocation does not fail, and names are left to JsonText.               *)
(***************************************************************************)
EXTENDS Integers, SequencesExt

CONSTANTS Items     \* the structures malloc can hand out, 1..n

VARIABLES mem, kids, roots

itemVars == <<mem, kids, roots>>

NULL == 0
New  == [live |-> TRUE, next |-> NULL, prev |-> NULL, child |-> NULL, of |-> NULL]
Free == [New EXCEPT !.live = FALSE]
Live == {i \in Items : mem[i].live}
Originals == {mem[i].of : i \in Live} \ {NULL}

\* The items below x in the abstract tree, x included.
RECURSIVE Below(_)
Below(x) == {x} \cup UNION {Below(kids[x][k]) : k \in DOMAIN kids[x]}

\* The same, through the references too.
Seen(x) == IF mem[x].of = NULL THEN kids[x] ELSE kids[mem[x].of]
RECURSIVE Reach(_)
Reach(x) == {x} \cup UNION {Reach(Seen(x)[k]) : k \in DOMAIN Seen(x)}

RECURSIVE Chain(_, _)
Chain(m, i) == IF i = NULL THEN <<>> ELSE <<i>> \o Chain(m, m[i].next)
LastOf(m, i)  == Chain(m, i)[Len(Chain(m, i))]

-----------------------------------------------------------------------------
(***************************************************************************)
(* The functions, on the memory m.                                         *)
(***************************************************************************)
AddItemToArray(m, array, item) ==
    IF m[array].child = NULL THEN [m EXCEPT ![array].child = item]
    ELSE [m EXCEPT ![LastOf(m, m[array].child)].next = item,
                   ![item].prev = LastOf(m, m[array].child)]

\* An assignment through a pointer that may be NULL.
Set(m, i, field, v) ==
    IF i = NULL THEN m
    ELSE CASE field = "next" -> [m EXCEPT ![i].next = v]
           [] field = "prev" -> [m EXCEPT ![i].prev = v]

Detach(m, parent, item) ==
    LET r == m[item]
        a == Set(Set(m, r.prev, "next", r.next), r.next, "prev", r.prev)
        b == IF a[parent].child = item
             THEN [a EXCEPT ![parent].child = r.next] ELSE a
    IN  [b EXCEPT ![item].prev = NULL, ![item].next = NULL]

Insert(m, array, after, item) ==
    IF after = NULL THEN AddItemToArray(m, array, item)
    ELSE LET a == [m EXCEPT ![item].next = after,
                            ![item].prev = m[after].prev,
                            ![after].prev = item]
         IN  IF a[array].child = after THEN [a EXCEPT ![array].child = item]
             ELSE Set(a, a[item].prev, "next", item)

\* cJSON_Delete frees the item, what follows it, and what is below them
\* unless they are references.
RECURSIVE Delete(_, _)
Delete(m, item) ==
    IF item = NULL THEN m
    ELSE LET a == IF m[item].of = NULL THEN Delete(m, m[item].child) ELSE m
         IN  Delete([a EXCEPT ![item] = Free], m[item].next)

Replace(m, parent, item, new) ==
    LET r == m[item]
        a == [m EXCEPT ![new].next = r.next, ![new].prev = r.prev]
        b == Set(Set(a, r.next, "prev", new), r.prev, "next", new)
        c == IF b[parent].child = item
             THEN [b EXCEPT ![parent].child = new] ELSE b
    IN  Delete([c EXCEPT ![item].next = NULL, ![item].prev = NULL], item)

\* cJSON_Duplicate with recurse: a copy of the item, then of each child in
\* turn, wired behind the previous one.  It returns the memory, the copy,
\* and the abstract children of everything it has copied.
Unused(m) == CHOOSE i \in Items : ~m[i].live
                /\ \A j \in Items : ~m[j].live => i <= j
RECURSIVE Duplicate(_, _), Copies(_, _, _)
Duplicate(m, item) ==
    LET new == Unused(m)
        c   == Copies([m EXCEPT ![new] = New], Chain(m, m[item].child), NULL)
    IN  [mem  |-> IF c.first = NULL THEN c.mem
                  ELSE [c.mem EXCEPT ![new].child = c.first],
         item |-> new,
         kids |-> [i \in Items |-> IF i = new THEN c.all ELSE c.kids[i]]]
Copies(m, children, before) ==
    IF children = <<>>
    THEN [mem |-> m, first |-> NULL, all |-> <<>>, kids |-> [i \in Items |-> <<>>]]
    ELSE LET d == Duplicate(m, Head(children))
             a == IF before = NULL THEN d.mem
                  ELSE [d.mem EXCEPT ![before].next = d.item,
                                     ![d.item].prev = before]
             rest == Copies(a, Tail(children), d.item)
         IN  [mem |-> rest.mem, first |-> d.item,
              all |-> <<d.item>> \o rest.all,
              kids |-> [i \in Items |-> d.kids[i] \o rest.kids[i]]]

-----------------------------------------------------------------------------
ItemsInit ==
    /\ mem = [i \in Items |-> Free]
    /\ kids = [i \in Items |-> <<>>] /\ roots = {}

Create ==
    /\ Live # Items
    /\ mem' = [mem EXCEPT ![Unused(mem)] = New]
    /\ roots' = roots \cup {Unused(mem)}
    /\ UNCHANGED kids

\* A parent whose list may change, and an item that may be put in it.
Open(p)   == p \in Live /\ mem[p].of = NULL /\ p \notin Originals
Fits(x, p) == x \in roots /\ p \notin Reach(x)

\* cJSON_InsertItemInArray; past the end it is cJSON_AddItemToArray.
Place(p, which, x) ==
    /\ Open(p) /\ Fits(x, p) /\ which \in 0..Len(kids[p])
    /\ mem' = Insert(mem, p, IF which = Len(kids[p]) THEN NULL
                             ELSE Chain(mem, mem[p].child)[which + 1], x)
    /\ kids' = [kids EXCEPT ![p] = InsertAt(@, which + 1, x)]
    /\ roots' = roots \ {x}

\* cJSON_DetachItemFromArray and FromObject: by index, or by name.
Take(p, which) ==
    /\ Open(p) /\ which \in DOMAIN kids[p]
    /\ LET x == Chain(mem, mem[p].child)[which] IN
       /\ mem' = Detach(mem, p, x)
       /\ kids' = [kids EXCEPT ![p] = RemoveAt(@, which)]
       /\ roots' = roots \cup {x}

Forget(gone, k) == [i \in Items |-> IF i \in gone THEN <<>> ELSE k[i]]

Drop(x) ==
    /\ x \in roots /\ Below(x) \cap Originals = {}
    /\ mem' = Delete(mem, x)
    /\ kids' = Forget(Below(x), kids)
    /\ roots' = roots \ {x}

Swap(p, which, new) ==
    /\ Open(p) /\ Fits(new, p) /\ which \in DOMAIN kids[p]
    /\ LET old == kids[p][which] IN
       /\ Below(old) \cap Originals = {}
       /\ mem' = Replace(mem, p, Chain(mem, mem[p].child)[which], new)
       /\ kids' = Forget(Below(old), [kids EXCEPT ![p][which] = new])
       /\ roots' = roots \ {new}

\* A copy needs an item for each of those it copies.
RECURSIVE Size(_)
Size(x) == LET c == Chain(mem, mem[x].child)
           IN  1 + FoldLeft(LAMBDA n, i : n + Size(i), 0, c)
Copy(x) ==
    /\ x \in Live /\ Size(x) <= Cardinality(Items \ Live)
    /\ LET d == Duplicate(mem, x) IN
       /\ mem' = d.mem
       /\ kids' = [i \in Items |-> kids[i] \o d.kids[i]]
       /\ roots' = roots \cup {d.item}

\* create_reference and cJSON_AddItemReferenceToArray.
Refer(p, x) ==
    /\ Open(p) /\ Live # Items
    /\ x \in Live /\ mem[x].of = NULL /\ p \notin Reach(x)
    /\ LET r == Unused(mem)
           m == [mem EXCEPT ![r] = [New EXCEPT !.child = mem[x].child, !.of = x]]
       IN  /\ mem' = AddItemToArray(m, p, r)
           /\ kids' = [kids EXCEPT ![p] = Append(@, r)]
    /\ UNCHANGED roots

ItemsNext ==
    \/ Create
    \/ \E p, x \in Items : Refer(p, x)
    \/ \E x \in Items : Drop(x) \/ Copy(x)
    \/ \E p, x \in Items, which \in 0..Cardinality(Items) :
          Place(p, which, x) \/ Swap(p, which, x)
    \/ \E p \in Items, which \in 1..Cardinality(Items) : Take(p, which)

ItemsSpec == ItemsInit /\ [][ItemsNext]_itemVars

-----------------------------------------------------------------------------
\* The pointers are the tree the calls built: the children of every live item
\* are those of the tree, in order, with prev the mirror of next; a reference
\* sees the children of its original; every live item is in one place, and
\* nothing else is still allocated (cJSON_AddItemToArray, cJSON_Delete,
\* cJSON_InsertItemInArray, cJSON_ReplaceItemViaPointer, cJSON_Duplicate).
ItemsAreTheTree ==
    /\ Live = UNION {Below(x) : x \in roots}
    /\ \A x \in roots : mem[x].next = NULL /\ mem[x].prev = NULL
    /\ \A x \in Live :
          /\ mem[x].child \in Live \cup {NULL}
          /\ mem[x].next \in Live \cup {NULL}
          /\ LET c == Chain(mem, mem[x].child) IN
             /\ c = Seen(x)
             /\ \A k \in DOMAIN c :
                   mem[c[k]].prev = IF k = 1 THEN NULL ELSE c[k - 1]
=============================================================================
