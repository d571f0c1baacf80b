------------------------------- MODULE Socket -------------------------------
(***************************************************************************)
(* Socket.c: the sockets of the client library, the loop over select that  *)
(* says which one is ready, and writes the kernel takes only part of.  A   *)
(* write that was cut is kept (SocketBuffer_pendingWrite) and continued    *)
(* when select finds the socket writable; until then the socket counts as  *)
(* not ready and takes no other write.                                     *)
(*                                                                         *)
(* One thread loops over Socket_getReadySocket; it holds socket_mutex but  *)
(* for the first select, during which other threads write, close and open. *)
(* A packet is a list of buffers; a byte of it is a number that names the  *)
(* packet, the buffer and the position.                                    *)
(***************************************************************************)
EXTENDS Integers, SequencesExt, FiniteSets

CONSTANTS
    Sockets,
    Packets,         \* the lengths of a packet's buffers
    MaxWrites,       \* packets written in all
    MaxOpens         \* connections opened in all

VARIABLES
    clientsds, cur_clientsds,    \* the open sockets, and the one to look at next
    rset, wset,                  \* what the last selects found
    connect_pending,             \* sockets whose connect has not completed
    write_pending,               \* sockets with a cut write: a list, and its current element
    pending_wset,                \* sockets select watches for being writable
    writes,                      \* SocketBuffer's cut writes, by socket
    pwset,                       \* what getReadySocket waits for, while it does
    waiting,                     \* whether it is in its first select
    broken,                      \* sockets on which writing fails
    put, out,                    \* ghost: the bytes handed over, and those the kernel took
    opens, puts                  \* ghost: how often, for the bounds

sockVars == <<clientsds, cur_clientsds, rset, wset, connect_pending, write_pending, pending_wset,
              writes, pwset, waiting, broken, put, out, opens, puts>>

NULL == 0

SInit ==
    /\ clientsds = <<>> /\ cur_clientsds = NULL
    /\ rset = {} /\ wset = {}
    /\ connect_pending = {}
    /\ write_pending = [items |-> <<>>, current |-> NULL]
    /\ pending_wset = {}
    /\ writes = <<>>
    /\ pwset = {} /\ waiting = FALSE
    /\ broken = {}
    /\ put = [s \in Sockets |-> <<>>] /\ out = [s \in Sockets |-> <<>>]
    /\ opens = 0 /\ puts = 0

-----------------------------------------------------------------------------
(* Lists, as LinkedList.c treats them *)

NextOf(seq, x) ==
    LET after == {i \in DOMAIN seq : i > 1 /\ seq[i - 1] = x}
    IN  IF after = {} THEN NULL ELSE seq[CHOOSE i \in after : TRUE]

Finding(list, x) == [list EXCEPT !.current = IF Contains(list.items, x) THEN x ELSE @]

Removing(list, x) ==
    [items |-> Remove(list.items, x),
     current |-> IF list.current = x THEN NextOf(list.items, x) ELSE list.current]

-----------------------------------------------------------------------------
(* Writing *)

BytesOf(n, lens) == FlattenSeq([i \in DOMAIN lens |-> [j \in 1..lens[i] |-> 100 * n + 10 * i + j]])

\* Socket_putdatas: the kernel takes the first k bytes.
Putdatas(s) ==
    /\ Contains(clientsds, s)
    /\ ~Contains(write_pending.items, s)
    /\ s \notin connect_pending \cup broken
    /\ puts < MaxWrites
    /\ puts' = puts + 1
    /\ \E lens \in Packets :
        LET bytes == BytesOf(puts', lens)
        IN  \E k \in 0..Len(bytes) :
                /\ put' = [put EXCEPT ![s] = @ \o bytes]
                /\ out' = [out EXCEPT ![s] = @ \o SubSeq(bytes, 1, k)]
                /\ \/ /\ k = Len(bytes)
                      /\ UNCHANGED <<writes, write_pending, pending_wset>>
                   \/ /\ k < Len(bytes)
                      /\ writes' = [x \in DOMAIN writes \cup {s} |->
                                    IF x = s THEN [n |-> puts', lens |-> lens, bytes |-> k] ELSE writes[x]]
                      /\ write_pending' = [write_pending EXCEPT !.items = Append(@, s)]
                      /\ pending_wset' = pending_wset \cup {s}
    /\ UNCHANGED <<clientsds, cur_clientsds, rset, wset, connect_pending, pwset, waiting, broken, opens>>

\* The buffers Socket_continueWrite hands to writev: from the first not wholly
\* written on; when that one is written in part, its rest alone.
Iovecs(w) ==
    LET before(i) == FoldLeft(+, 0, SubSeq(w.lens, 1, i - 1))
        buffer(i) == [j \in 1..w.lens[i] |-> 100 * w.n + 10 * i + j]
        cut == {i \in DOMAIN w.lens : before(i) < w.bytes /\ w.bytes < before(i) + w.lens[i]}
        whole == SelectSeq([i \in DOMAIN w.lens |-> i], LAMBDA i : w.bytes <= before(i))
    IN  IF cut # {}
        THEN LET i == CHOOSE i \in cut : TRUE
             IN  SubSeq(buffer(i), w.bytes - before(i) + 1, w.lens[i])
        ELSE FlattenSeq([i \in DOMAIN whole |-> buffer(whole[i])])

\* The state of the writes, for the loops that go through several of them.
Writing == [writes |-> writes, list |-> write_pending, wset |-> pending_wset, out |-> out, broken |-> broken]

Ended(st, s) ==
    [st EXCEPT !.writes = [x \in DOMAIN @ \ {s} |-> @[x]], !.wset = @ \ {s}, !.list = Removing(@, s)]

\* Socket_continueWrite and what Socket_continueWrites makes of its result: the
\* kernel takes k more bytes, or the write fails (k = -1).
ContinueWrite(st, s, k) ==
    LET w == st.writes[s]
        bytes == Iovecs(w)
        taken == [st EXCEPT !.out[s] = @ \o SubSeq(bytes, 1, k), !.writes[s].bytes = @ + k]
    IN  IF k = -1 THEN [Ended(st, s) EXCEPT !.broken = @ \cup {s}]
        ELSE IF w.bytes + k = FoldLeft(+, 0, w.lens) THEN Ended(taken, s) ELSE taken

Progress(st, s) == {-1} \cup 0..Len(Iovecs(st.writes[s]))

\* Socket_continueWrites from element s of the list on.  After a removal it goes
\* on from the list's current element, which is the next one only if the last
\* search had ended on s.
RECURSIVE ContinueWrites(_, _, _)
ContinueWrites(st, s, ready) ==
    IF s = NULL THEN {st}
    ELSE IF s \notin ready THEN ContinueWrites(st, NextOf(st.list.items, s), ready)
    ELSE UNION {LET st2 == ContinueWrite(st, s, k)
                    next == IF s \in DOMAIN st2.writes THEN NextOf(st.list.items, s) ELSE st2.list.current
                IN  ContinueWrites(st2, next, ready) : k \in Progress(st, s)}

-----------------------------------------------------------------------------
(* Finding a ready socket *)

\* What isReady answers.
Ready(s, rs, ws, connecting, list) ==
    \/ s \in connecting /\ s \in ws
    \/ s \in rs /\ s \in ws /\ ~Contains(list.items, s)

\* The first ready socket from s on, and the list isReady has searched.
RECURSIVE Search(_, _, _, _, _)
Search(s, rs, ws, connecting, list) ==
    IF s = NULL \/ Ready(s, rs, ws, connecting, list)
    THEN [socket |-> s, list |-> list]
    ELSE Search(NextOf(clientsds, s), rs, ws, connecting,
                IF s \in rs /\ s \in ws THEN Finding(list, s) ELSE list)

\* The socket found is returned, and the next search starts behind it.
Return(found) ==
    /\ cur_clientsds' = IF found.socket = NULL THEN NULL ELSE NextOf(clientsds, found.socket)
    /\ connect_pending' = connect_pending \ (IF found.socket \in wset' THEN {found.socket} ELSE {})
    /\ UNCHANGED <<clientsds, put, opens, puts>>

\* One of those the last selects found is left.
ReturnNext ==
    LET found == Search(cur_clientsds, rset, wset, connect_pending, write_pending)
    IN  /\ ~waiting
        /\ found.socket # NULL
        /\ write_pending' = found.list
        /\ UNCHANGED <<rset, wset, pending_wset, writes, pwset, waiting, broken, out>>
        /\ Return(found)

\* None is: the first select begins, outside the mutex.  What it will find is
\* decided here, of the sockets that were handed to it.
Select ==
    LET found == Search(cur_clientsds, rset, wset, connect_pending, write_pending)
    IN  /\ ~waiting
        /\ clientsds # <<>>
        /\ found.socket = NULL
        /\ waiting' = TRUE
        /\ cur_clientsds' = NULL
        /\ write_pending' = found.list
        /\ rset' \in SUBSET ToSet(clientsds)
        /\ pwset' \in SUBSET pending_wset
        /\ UNCHANGED <<clientsds, wset, connect_pending, pending_wset, writes, broken, put, out, opens, puts>>

\* Back under the mutex: the cut writes are continued, and a second select, which
\* does not wait, finds the sockets that are writable.
SelectReturns ==
    /\ waiting
    /\ waiting' = FALSE
    /\ pwset' = {}
    /\ rset' = rset
    /\ wset' \in SUBSET ToSet(clientsds)
    /\ \E st \in ContinueWrites(Writing, IF write_pending.items = <<>> THEN NULL ELSE Head(write_pending.items), pwset) :
        LET first == IF clientsds = <<>> \/ (rset = {} /\ wset' = {}) THEN NULL ELSE Head(clientsds)
            found == Search(first, rset, wset', connect_pending, st.list)
        IN  /\ writes' = st.writes /\ pending_wset' = st.wset /\ out' = st.out /\ broken' = st.broken
            /\ write_pending' = found.list
            /\ Return(found)

-----------------------------------------------------------------------------
(* Opening and closing *)

\* Socket_new with a connect that does not complete at once, and Socket_addSocket.
Open(s) ==
    /\ ~Contains(clientsds, s)
    /\ opens < MaxOpens
    /\ opens' = opens + 1
    /\ clientsds' = Append(clientsds, s)
    /\ connect_pending' = connect_pending \cup {s}
    /\ put' = [put EXCEPT ![s] = <<>>]
    /\ out' = [out EXCEPT ![s] = <<>>]
    /\ UNCHANGED <<puts, cur_clientsds, rset, wset, write_pending, pending_wset, writes, pwset, waiting, broken>>

\* Fault: a Socket_close that leaves the cut write behind.
CloseKeepingWrite(s) ==
    /\ Contains(clientsds, s)
    /\ clientsds' = Remove(clientsds, s)
    /\ cur_clientsds' = IF cur_clientsds = s THEN NextOf(clientsds, s) ELSE cur_clientsds
    /\ connect_pending' = connect_pending \ {s}
    /\ broken' = broken \ {s}
    /\ UNCHANGED <<pending_wset, writes, write_pending, rset, wset, pwset, waiting, put, out, opens, puts>>

\* Socket_close, also while the looping thread is in select: what the selects
\* found of the socket stays.
Close(s) ==
    /\ Contains(clientsds, s)
    /\ clientsds' = Remove(clientsds, s)
    /\ cur_clientsds' = IF cur_clientsds = s THEN NextOf(clientsds, s) ELSE cur_clientsds
    /\ connect_pending' = connect_pending \ {s}
    /\ pending_wset' = pending_wset \ {s}
    /\ writes' = [x \in DOMAIN writes \ {s} |-> writes[x]]
    /\ write_pending' = Removing(write_pending, s)
    /\ broken' = broken \ {s}
    /\ UNCHANGED <<rset, wset, pwset, waiting, put, out, opens, puts>>

SNext ==
    \/ ReturnNext \/ Select \/ SelectReturns
    \/ \E s \in Sockets : Putdatas(s) \/ Open(s) \/ Close(s)

SSpec == SInit /\ [][SNext]_sockVars

-----------------------------------------------------------------------------
(* Properties *)

\* What the kernel took on a connection is a beginning of what was written on
\* it, byte for byte, and all of it unless the rest is kept as the one cut write
\* of that socket, which select watches, or the connection is broken: however
\* the buffers of a packet were cut, and whatever was closed and opened under
\* the same number while the loop sat in select (Socket_continueWrite works out
\* where it was from a byte count alone).
WritesAreWhole ==
    /\ \A s \in ToSet(clientsds) :
        /\ IsPrefix(out[s], put[s])
        /\ out[s] = put[s] \/ s \in broken \/ (s \in DOMAIN writes /\ s \in pending_wset)
    /\ ToSet(write_pending.items) = DOMAIN writes
    /\ write_pending.current \in {NULL} \cup DOMAIN writes
=============================================================================
