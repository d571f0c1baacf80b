-------------------------------- MODULE Heap --------------------------------
(***************************************************************************)
(* Heap.c: malloc, realloc and free of the client library, which record    *)
(* every block in a tree (module Tree) under heap_mutex.                   *)
(*                                                                         *)
(* A call holds the mutex from its first step to its last, so a call is a  *)
(* step; what another thread sees in between is only that the mutex is     *)
(* taken.  A call that runs out of memory returns with the mutex held and  *)
(* no thread gets past Thread_lock_mutex again.                            *)
(*                                                                         *)
(* Blocks stand for the addresses the C library can hand out (memory runs   *)
(* out when all are in use), Requests for the sizes the callers ask for.   *)
(***************************************************************************)
EXTENDS Tree, Integers, FiniteSetsExt, SequencesExt

CONSTANTS Blocks, Requests

VARIABLES
    heap,           \* the tree of allocation records, ordered by address
    size,           \* a record's size, 0 for a block without a record
    current_size,   \* state.current_size
    heap_mutex,     \* "free", or "left": held by a call that has returned
    live            \* ghost: what the callers hold, a block to what they asked for

heapVars == <<heap, size, current_size, heap_mutex, live>>

HeapInit ==
    /\ heap = EmptyTree
    /\ size = [b \in Blocks |-> 0]
    /\ current_size = 0
    /\ heap_mutex = "free"
    /\ live = [b \in {} |-> 0]

Multiple == 16        \* four ints
Heap_roundup(n) == IF n % Multiple = 0 THEN n ELSE n + Multiple - (n % Multiple)

Unused == {b \in Blocks : size[b] = 0}

mymalloc ==
    \E b \in Unused, n \in Requests :
        /\ heap_mutex = "free"
        /\ heap' = TreeAdd(heap, b)
        /\ size' = [size EXCEPT ![b] = Heap_roundup(n)]
        /\ current_size' = current_size + size'[b]
        /\ live' = [x \in DOMAIN live \cup {b} |-> IF x = b THEN n ELSE live[x]]
        /\ UNCHANGED heap_mutex

\* Any of the three allocations inside fails: nothing is recorded, and the
\* function returns without unlocking.
mymallocFails ==
    /\ Unused = {}
    /\ heap_mutex = "free"
    /\ heap_mutex' = "left"
    /\ UNCHANGED <<heap, size, current_size, live>>

\* myfree and Heap_unlink of a block the tree has: the node's content is taken
\* out by TreeRemoveNodeIndex.
myfree ==
    \E b \in DOMAIN live :
        /\ heap_mutex = "free"
        /\ TreeFind(heap, b) # NULL
        /\ heap' = TreeRemoveNode(heap, TreeFind(heap, b))
        /\ size' = [size EXCEPT ![b] = 0]
        /\ current_size' = current_size - size[b]
        /\ live' = [x \in DOMAIN live \ {b} |-> live[x]]
        /\ UNCHANGED heap_mutex

\* realloc may move the block.  The record leaves the tree first, because the
\* tree is ordered by address.
myrealloc ==
    \E b \in DOMAIN live, to \in Blocks, n \in Requests :
        LET without == TreeRemoveKey(heap, b)
            rounded == Heap_roundup(n)
        IN  /\ heap_mutex = "free"
            /\ to \in Unused \cup {b}
            /\ heap' = TreeAdd(without, to)
            /\ size' = [size EXCEPT ![b] = 0, ![to] = rounded]
            /\ current_size' = current_size + (rounded - size[b])
            /\ live' = [x \in (DOMAIN live \ {b}) \cup {to} |-> IF x = to THEN n ELSE live[x]]
            /\ UNCHANGED heap_mutex

\* realloc fails: the record is out of the tree, the total already changed,
\* the caller keeps a block nobody knows, and the mutex stays locked.
myreallocFails ==
    \E b \in DOMAIN live, n \in Requests :
        /\ Unused = {}
        /\ heap_mutex = "free"
        /\ heap' = TreeRemoveKey(heap, b)
        /\ current_size' = current_size + (Heap_roundup(n) - size[b])
        /\ heap_mutex' = "left"
        /\ UNCHANGED <<size, live>>

HeapNext ==
    \/ mymalloc \/ mymallocFails
    \/ myfree
    \/ myrealloc \/ myreallocFails

HeapSpec == HeapInit /\ [][HeapNext]_heapVars

-----------------------------------------------------------------------------
(* Properties *)

\* Whoever gets the mutex finds the records of exactly the blocks the callers
\* hold, in the order of their addresses, and a total that is the sum of their
\* sizes: Heap_terminate's verdict about leaks and HeapScan's listing stand on
\* both.  The tree under it is a red-black tree whose links agree, whatever was
\* added and taken out in whichever order (Tree.c rebalances after each).
RecordsAreTheHeap ==
    heap_mutex = "free" =>
        /\ LET visited == Walk(heap, NULL)
           IN  /\ ToSet(visited) = DOMAIN live
               /\ \A i \in 1 .. Len(visited) - 1 : visited[i] < visited[i + 1]
        /\ current_size = FoldSet(LAMBDA b, sum : sum + Heap_roundup(live[b]), 0, DOMAIN live)
        /\ RedBlack(heap)
=============================================================================
