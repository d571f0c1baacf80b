-------------------------------- MODULE Tree --------------------------------
(***************************************************************************)
(* Tree.c: the red-black tree in which the client library records what it  *)
(* has allocated.  A tree is a value: its root, and its nodes with their   *)
(* parents, children and colours, as the C code links them; an operation   *)
(* is an operator from tree to tree.  Only what the tree tells apart of a  *)
(* content is kept, a number that compare() orders.                        *)
(*                                                                         *)
(* The library's only tree has one index and refuses no duplicates.  No    *)
(* caller keeps a pointer to a node over an operation, so a node's address *)
(* tells nothing apart: between two operations a node goes by its content. *)
(***************************************************************************)
EXTENDS Integers, Sequences

LEFT == "left"
RIGHT == "right"
Opposite(d) == IF d = LEFT THEN RIGHT ELSE LEFT

NULL == 0
TEMP == -1            \* the node on the stack of TreeRemoveNodeIndex

\* TreeInitializeNoMalloc.
EmptyTree == [root |-> NULL, nodes |-> <<>>]

Contents(t) == {t.nodes[n].content : n \in DOMAIN t.nodes}

isRed(t, n) == n # NULL /\ t.nodes[n].red
isBlack(t, n) == ~isRed(t, n)
Parent(t, n) == t.nodes[n].parent

\* An assignment through a pointer that the code has tested for NULL.
Put(t, n, field, value) ==
    IF n = NULL THEN t ELSE [t EXCEPT !.nodes[n] = [@ EXCEPT ![field] = value]]

\* Whichever of the parent's links led to n, or the root, now leads to m.
Relink(t, n, m) ==
    LET up == Parent(t, n)
        side == IF t.nodes[up][LEFT] = n THEN LEFT ELSE RIGHT
    IN  IF up = NULL THEN [t EXCEPT !.root = m] ELSE Put(t, up, side, m)

TreeRotate(t, n, d) ==
    LET other == t.nodes[n][Opposite(d)]
        inner == t.nodes[other][d]
        moved == Put(Put(t, n, Opposite(d), inner), inner, "parent", n)
        raised == Relink(Put(moved, other, "parent", Parent(t, n)), n, other)
    IN  Put(Put(raised, other, d, n), n, "parent", other)

-----------------------------------------------------------------------------
(* Adding *)

\* One round: the tree, and the node to go on from.
TreeBAASub(t, n, which) ==
    LET p == Parent(t, n)
        g == Parent(t, p)
        uncle == t.nodes[g][which]
        inside == n = t.nodes[p][which]
        low == IF inside THEN p ELSE n
        t1 == IF inside THEN TreeRotate(t, p, Opposite(which)) ELSE t
        t2 == Put(Put(t1, Parent(t1, low), "red", FALSE), g, "red", TRUE)
    IN  IF isRed(t, uncle)
        THEN <<Put(Put(Put(t, p, "red", FALSE), uncle, "red", FALSE), g, "red", TRUE), g>>
        ELSE <<TreeRotate(t2, g, which), low>>

RECURSIVE TreeBalanceAfterAdd(_, _)
TreeBalanceAfterAdd(t, n) ==
    IF isRed(t, Parent(t, n)) /\ Parent(t, Parent(t, n)) # NULL
    THEN LET p == Parent(t, n)
             round == TreeBAASub(t, n, IF p = t.nodes[Parent(t, p)][LEFT] THEN RIGHT ELSE LEFT)
         IN  TreeBalanceAfterAdd(round[1], round[2])
    ELSE Put(t, t.root, "red", FALSE)

\* The node that holds c, or the one below which c belongs.
RECURSIVE Descend(_, _, _)
Descend(t, n, c) ==
    LET next == t.nodes[n][IF t.nodes[n].content < c THEN RIGHT ELSE LEFT]
    IN  IF t.nodes[n].content = c \/ next = NULL THEN n ELSE Descend(t, next, c)

TreeFind(t, c) ==
    IF t.root = NULL THEN NULL
    ELSE LET n == Descend(t, t.root, c)
         IN  IF t.nodes[n].content = c THEN n ELSE NULL

\* TreeAddByIndex of something that is not in the tree yet.
TreeAdd(t, c) ==
    LET new == c
        at == IF t.root = NULL THEN NULL ELSE Descend(t, t.root, c)
        node == [parent |-> at, left |-> NULL, right |-> NULL, content |-> c, red |-> TRUE]
        grown == [t EXCEPT !.nodes = [n \in DOMAIN @ \cup {new} |-> IF n = new THEN node ELSE @[n]],
                           !.root = IF at = NULL THEN new ELSE @]
    IN  TreeBalanceAfterAdd(
            IF at = NULL THEN grown
            ELSE Put(grown, at, IF t.nodes[at].content < c THEN RIGHT ELSE LEFT, new), new)

-----------------------------------------------------------------------------
(* Walking *)

RECURSIVE TreeMinimum(_, _), Ascend(_, _)
TreeMinimum(t, n) ==
    IF n = NULL \/ t.nodes[n][LEFT] = NULL THEN n ELSE TreeMinimum(t, t.nodes[n][LEFT])

\* Up to the first ancestor of which n is not in the right subtree.
Ascend(t, n) ==
    IF Parent(t, n) # NULL /\ t.nodes[Parent(t, n)][RIGHT] = n
    THEN Ascend(t, Parent(t, n)) ELSE Parent(t, n)

TreeSuccessor(t, n) ==
    IF t.nodes[n][RIGHT] # NULL THEN TreeMinimum(t, t.nodes[n][RIGHT]) ELSE Ascend(t, n)

TreeNextElement(t, n) == IF n = NULL THEN TreeMinimum(t, t.root) ELSE TreeSuccessor(t, n)

\* What the loops of HeapScan and HeapDump visit after n.
RECURSIVE Walk(_, _)
Walk(t, n) ==
    LET next == TreeNextElement(t, n)
    IN  IF next = NULL THEN <<>> ELSE <<t.nodes[next].content>> \o Walk(t, next)

-----------------------------------------------------------------------------
(* Removing *)

\* The sibling's outer child is red: the last rotation, after which all is well.
TreeBARLast(t, p, which) ==
    LET s == t.nodes[p][which]
        coloured == Put(Put(Put(t, s, "red", t.nodes[p].red), p, "red", FALSE),
                        t.nodes[s][which], "red", FALSE)
        rotated == TreeRotate(coloured, p, Opposite(which))
    IN  <<rotated, rotated.root>>

\* The sibling is black: the red moves up, or its outer child is made the red one.
TreeBARBlack(t, p, which) ==
    LET s == t.nodes[p][which]
        inner == t.nodes[s][Opposite(which)]
    IN  IF s = NULL THEN <<t, p>>
        ELSE IF isBlack(t, t.nodes[s][LEFT]) /\ isBlack(t, t.nodes[s][RIGHT])
             THEN <<Put(t, s, "red", TRUE), p>>
             ELSE TreeBARLast(
                    IF isBlack(t, t.nodes[s][which])
                    THEN TreeRotate(Put(Put(t, inner, "red", FALSE), s, "red", TRUE), s, which)
                    ELSE t, p, which)

\* One round: the tree, and the node to go on from.  A red sibling is rotated
\* above the parent first.
TreeBARSub(t, n, which) ==
    LET p == Parent(t, n)
        s == t.nodes[p][which]
    IN  TreeBARBlack(
            IF isRed(t, s)
            THEN TreeRotate(Put(Put(t, s, "red", FALSE), p, "red", TRUE), p, Opposite(which))
            ELSE t, p, which)

RECURSIVE TreeBalanceAfterRemove(_, _)
TreeBalanceAfterRemove(t, n) ==
    IF n # t.root /\ isBlack(t, n)
    THEN LET linked == IF n = TEMP THEN NULL ELSE n
             round == TreeBARSub(t, n, IF linked = t.nodes[Parent(t, n)][LEFT] THEN RIGHT ELSE LEFT)
         IN  TreeBalanceAfterRemove(round[1], round[2])
    ELSE Put(t, n, "red", FALSE)

Keep(t, ns) == [t EXCEPT !.nodes = [n \in ns |-> @[n]]]

\* Node n goes by the name c from here on.
Renamed(t, n, c) ==
    LET To(m) == IF m = n THEN c ELSE m
        Links(node) == [node EXCEPT !.parent = To(@), !.left = To(@), !.right = To(@)]
    IN  [root |-> To(t.root),
         nodes |-> [m \in {To(x) : x \in DOMAIN t.nodes} |->
                        Links(t.nodes[IF m = c THEN n ELSE m])]]

\* Fault: a removal that does not rebalance after taking a black node out.
TreeRemoveNodeUnbalanced(t, n) ==
    LET redundant == IF t.nodes[n][LEFT] # NULL /\ t.nodes[n][RIGHT] # NULL
                     THEN TreeSuccessor(t, n) ELSE n
        child == t.nodes[redundant][IF t.nodes[redundant][LEFT] # NULL THEN LEFT ELSE RIGHT]
        t1 == Relink(Put(t, child, "parent", Parent(t, redundant)), redundant, child)
        t2 == Put(t1, n, "content", t.nodes[redundant].content)
        left == Keep(t2, (DOMAIN t.nodes) \ {redundant})
    IN  IF redundant = n THEN left ELSE Renamed(left, n, left.nodes[n].content)

\* A node with two children is not unlinked itself: its successor is, and
\* leaves it its content.  A child that is not there is balanced from as a
\* node on the stack.
TreeRemoveNode(t, n) ==
    LET redundant == IF t.nodes[n][LEFT] # NULL /\ t.nodes[n][RIGHT] # NULL
                     THEN TreeSuccessor(t, n) ELSE n
        child == t.nodes[redundant][IF t.nodes[redundant][LEFT] # NULL THEN LEFT ELSE RIGHT]
        up == Parent(t, redundant)
        t1 == Relink(Put(t, child, "parent", up), redundant, child)
        t2 == Put(t1, n, "content", t.nodes[redundant].content)
        temp == [parent |-> up, left |-> NULL, right |-> NULL, content |-> NULL, red |-> FALSE]
        t3 == [t2 EXCEPT !.nodes = [m \in DOMAIN @ \cup {TEMP} |-> IF m = TEMP THEN temp ELSE @[m]]]
        balanced == IF isRed(t, redundant) \/ (child = NULL /\ up = NULL) THEN t2
                    ELSE IF child = NULL THEN TreeBalanceAfterRemove(t3, TEMP)
                    ELSE TreeBalanceAfterRemove(t2, child)
        left == Keep(balanced, (DOMAIN t.nodes) \ {redundant})
    IN  IF redundant = n THEN left ELSE Renamed(left, n, left.nodes[n].content)

TreeRemoveKey(t, c) == TreeRemoveNode(t, TreeFind(t, c))

-----------------------------------------------------------------------------
(* What makes a tree a red-black tree *)

\* The number of black nodes on the way to a leaf below n: -1 when it differs
\* from leaf to leaf, or when a red node has a red child.
RECURSIVE Blacks(_, _)
Blacks(t, n) ==
    IF n = NULL THEN 0
    ELSE LET l == Blacks(t, t.nodes[n][LEFT])
             r == Blacks(t, t.nodes[n][RIGHT])
             redPair == isRed(t, n) /\ (isRed(t, t.nodes[n][LEFT]) \/ isRed(t, t.nodes[n][RIGHT]))
         IN  IF l # r \/ l = -1 \/ redPair THEN -1 ELSE IF t.nodes[n].red THEN l ELSE l + 1

RedBlack(t) ==
    /\ isBlack(t, t.root)
    /\ Blacks(t, t.root) # -1
    /\ \A n \in DOMAIN t.nodes : \A d \in {LEFT, RIGHT} :
            t.nodes[n][d] # NULL => Parent(t, t.nodes[n][d]) = n
=============================================================================
