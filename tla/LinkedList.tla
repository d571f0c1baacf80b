----------------------------- MODULE LinkedList -----------------------------
(***************************************************************************)
(* LinkedList.c: the doubly linked list the client library keeps its       *)
(* messages, sockets, queues and commands in.  A list remembers the        *)
(* element it found last (current): the next search looks there first, and *)
(* a removal goes through it.                                              *)
(*                                                                         *)
(* A content is a number, which no list holds twice.  What a search wants  *)
(* is a set of contents: one of them, or, with a callback, those with the  *)
(* key it compares, which several may share.  The size a list adds up is   *)
(* left out: nothing reads it.                                             *)
(***************************************************************************)
EXTENDS Integers, SequencesExt, FiniteSets

CONSTANTS Contents, Key(_)

VARIABLES
    elements,    \* the allocated elements, an address to content, next, prev
    list,        \* first, last, current, count
    items        \* ghost: the contents in order

listVars == <<elements, list, items>>

NULL == 0

LInit ==
    /\ elements = <<>>
    /\ list = [first |-> NULL, last |-> NULL, current |-> NULL, count |-> 0]
    /\ items = <<>>

NewElement == CHOOSE e \in 1..(Cardinality(DOMAIN elements) + 1) : e \notin DOMAIN elements
Unlisted == Contents \ {elements[e].content : e \in DOMAIN elements}

\* elements with new linked in between p and n, either of which may be NULL.
Linked(new, c, p, n) ==
    [e \in DOMAIN elements \cup {new} |->
        CASE e = new -> [content |-> c, prev |-> p, next |-> n]
          [] e = p /\ e # new -> [elements[e] EXCEPT !.next = new]
          [] e = n /\ e # new -> [elements[e] EXCEPT !.prev = new]
          [] OTHER -> elements[e]]

ListAppend(c) ==
    LET new == NewElement
    IN  /\ elements' = Linked(new, c, list.last, NULL)
        /\ list' = [list EXCEPT !.first = IF @ = NULL THEN new ELSE @, !.last = new, !.count = @ + 1]
        /\ items' = Append(items, c)

\* In front of the element index.
ListInsert(c, index) ==
    LET new == NewElement
        prev == elements[index].prev
    IN  /\ elements' = Linked(new, c, prev, index)
        /\ list' = [list EXCEPT !.first = IF prev = NULL THEN new ELSE @, !.count = @ + 1]
        /\ items' = InsertAt(items, CHOOSE i \in DOMAIN items : items[i] = elements[index].content, c)

\* From element e on: the elements that ListNextElement visits.
RECURSIVE Forward(_), Backward(_)
Forward(e) == IF e = NULL THEN <<>> ELSE <<e>> \o Forward(elements[e].next)
Backward(e) == IF e = NULL THEN <<>> ELSE <<e>> \o Backward(elements[e].prev)

\* The element ListFindItem returns: the current one if it matches, or else the
\* first that does.
Found(wanted) ==
    LET there == Forward(list.first)
        first == {i \in DOMAIN there : /\ elements[there[i]].content \in wanted
                                       /\ \A j \in 1..(i - 1) : elements[there[j]].content \notin wanted}
    IN  IF list.current # NULL /\ elements[list.current].content \in wanted THEN list.current
        ELSE IF first = {} THEN NULL ELSE there[CHOOSE i \in first : TRUE]

ListFindItem(wanted) ==
    /\ Found(wanted) # NULL
    /\ list' = [list EXCEPT !.current = Found(wanted)]
    /\ UNCHANGED <<elements, items>>

\* elements without e, its neighbours linked to each other.
Without(e) ==
    LET p == elements[e].prev
        n == elements[e].next
    IN  [x \in DOMAIN elements \ {e} |->
            IF x = p THEN [elements[x] EXCEPT !.next = n]
            ELSE IF x = n THEN [elements[x] EXCEPT !.prev = p] ELSE elements[x]]

\* The list with e gone and current on then.
Unlinked(e, then) ==
    [first |-> IF list.first = e THEN elements[e].next ELSE list.first,
     last |-> IF list.last = e THEN elements[e].prev ELSE list.last,
     current |-> then,
     count |-> list.count - 1]

\* Fault: a ListUnlink that leaves current where its own search put it.
ListUnlinkDangling(wanted) ==
    LET e == Found(wanted)
    IN  /\ e # NULL
        /\ elements' = Without(e)
        /\ list' = Unlinked(e, e)
        /\ items' = SelectSeq(items, LAMBDA c : c # elements[e].content)

\* ListUnlink: current goes back to where it was before the search, or to the
\* next element when it was on the removed one.
ListUnlink(wanted) ==
    LET e == Found(wanted)
    IN  /\ e # NULL
        /\ elements' = Without(e)
        /\ list' = Unlinked(e, IF list.current = e THEN elements[e].next ELSE list.current)
        /\ items' = SelectSeq(items, LAMBDA c : c # elements[e].content)

ListDetachHead ==
    LET e == list.first
    IN  /\ list.count > 0
        /\ elements' = Without(e)
        /\ list' = Unlinked(e, IF list.current = e THEN elements[e].next ELSE list.current)
        /\ items' = Tail(items)

ListPopTail ==
    LET e == list.last
    IN  /\ list.count > 0
        /\ elements' = Without(e)
        /\ list' = Unlinked(e, IF list.current = e THEN elements[e].prev ELSE list.current)
        /\ items' = Front(items)

ListEmpty ==
    /\ elements' = <<>>
    /\ list' = [first |-> NULL, last |-> NULL, current |-> NULL, count |-> 0]
    /\ items' = <<>>

Searches ==
    {{c} : c \in Contents} \cup {{c \in Contents : Key(c) = Key(d)} : d \in Contents}

LNext ==
    \/ \E c \in Unlisted : ListAppend(c)
    \/ \E c \in Unlisted, e \in DOMAIN elements : ListInsert(c, e)
    \/ \E wanted \in Searches : ListFindItem(wanted) \/ ListUnlink(wanted)
    \/ ListDetachHead
    \/ ListPopTail
    \/ ListEmpty

LSpec == LInit /\ [][LNext]_listVars

-----------------------------------------------------------------------------
(* Properties *)

\* Walked from the front the list is the sequence of what was put in and not
\* taken out, walked from the back it is the same sequence reversed, it counts
\* them, and current is NULL or an element of it: after whichever searches and
\* removals, none of which goes through a freed element (ListFindItem,
\* ListUnlink and ListDetachHead move current each in a way of its own).
ListIsTheSequence ==
    LET there == Forward(list.first)
        ContentsOf(s) == [i \in DOMAIN s |-> elements[s[i]].content]
    IN  /\ ContentsOf(there) = items
        /\ Backward(list.last) = Reverse(there)
        /\ list.count = Len(items)
        /\ list.current \in {NULL} \cup ToSet(there)
=============================================================================
