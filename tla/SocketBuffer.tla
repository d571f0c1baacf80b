---------------------------- MODULE SocketBuffer ----------------------------
(***************************************************************************)
(* Reading packets from non-blocking sockets: SocketBuffer.c, the reads of *)
(* Socket.c and MQTTPacket_Factory.  A packet may arrive in any pieces; a  *)
(* read that runs out of bytes leaves what it has in a queue of its socket *)
(* and the next one for that socket starts again from there.  The queue a  *)
(* packet is read into by default (def_queue) is shared by all sockets and *)
(* changes places with theirs.                                             *)
(*                                                                         *)
(* The header byte of a packet and the bytes of its body are numbers that  *)
(* name the connection, the packet and the position; the bytes of its      *)
(* length are what MQTTPacket_encode makes of it.  Digit is the base of    *)
(* that code, 128 in the program.  A call runs under mqttclient_mutex from *)
(* its first read to its last, so that it is one step; how many bytes the  *)
(* kernel has for it is open.  A call is only made for a socket with bytes *)
(* to read, which is what select found.                                    *)
(***************************************************************************)
EXTENDS Integers, SequencesExt

CONSTANTS
    Sockets,
    Digit,           \* the base of the length code
    Streams,         \* what is sent on a connection: the remaining lengths of packets
    MaxConnections   \* connections of all sockets together

VARIABLES
    def_queue,       \* the default queue
    queues,          \* the queues of the sockets that wait for more, by socket
    wire,            \* per socket the bytes sent to it and not read
    sent,            \* ghost: the lengths of the packets of this connection
    packets,         \* per socket the packets read from this connection
    connections      \* ghost: the connections the socket had

bufVars == <<def_queue, queues, wire, sent, packets, connections>>

JUNK == -1           \* a byte nobody has written

\* SocketBuffer_newDefQ sets neither headerlen nor the header; buflen is 0
\* although there are 1000 bytes.
NewDefQ == [socket |-> 0, index |-> 0, headerlen |-> 5, fixed_header |-> [i \in 1..5 |-> JUNK],
            datalen |-> 0, buf |-> <<>>]

BInit ==
    /\ def_queue = NewDefQ
    /\ queues = <<>>
    /\ wire = [s \in Sockets |-> <<>>]
    /\ sent = [s \in Sockets |-> <<>>]
    /\ packets = [s \in Sockets |-> <<>>]
    /\ connections = [s \in Sockets |-> 0]

-----------------------------------------------------------------------------
(* Packets and their bytes *)

MQTTPacket_encode[length \in Nat] ==
    IF length < Digit THEN <<length>>
    ELSE <<(length % Digit) + Digit>> \o MQTTPacket_encode[length \div Digit]

HeaderByte(c, n) == 1000 * c + 100 * n
Body(c, n, len) == [i \in 1..len |-> HeaderByte(c, n) + i]
Bytes(c, n, len) == <<HeaderByte(c, n)>> \o MQTTPacket_encode[len] \o Body(c, n, len)

\* The bytes of the packets from number n on.
RECURSIVE BytesFrom(_, _, _)
BytesFrom(c, lens, n) ==
    IF n > Len(lens) THEN <<>> ELSE Bytes(c, n, lens[n]) \o BytesFrom(c, lens, n + 1)

-----------------------------------------------------------------------------
(* The queues.  r is the state of a read: the queues, the bytes that arrive *)
(* in time for it, what it has got and how it stands.                       *)

HasQueue(r, s) == s \in DOMAIN r.queues
With(f, s, v) == [x \in DOMAIN f \cup {s} |-> IF x = s THEN v ELSE f[x]]
Dropped(f, s) == [x \in DOMAIN f \ {s} |-> f[x]]

Cleared(q) == [q EXCEPT !.socket = 0, !.index = 0, !.headerlen = 0, !.datalen = 0]

\* SocketBuffer_queueChar, into the default queue unless the socket has one.
Store(q, c) == [q EXCEPT !.fixed_header[q.index + 1] = c, !.index = @ + 1, !.headerlen = q.index + 1]

QueueChar(r, s, c) ==
    IF HasQueue(r, s) THEN [r EXCEPT !.queues[s] = Store(@, c)]
    ELSE IF r.def.socket = 0
    THEN [r EXCEPT !.def = Store([@ EXCEPT !.socket = s, !.index = 0, !.datalen = 0], c)]
    ELSE IF r.def.socket = s THEN [r EXCEPT !.def = Store(@, c)]
    ELSE r        \* "attempt to reuse socket queue"

\* Fault: an interruption after which the header is not read again.
InterruptedInPlace(r, s, len) ==
    IF HasQueue(r, s) THEN [r EXCEPT !.queues[s] = [@ EXCEPT !.datalen = len]]
    ELSE [r EXCEPT !.queues = With(@, s, [r.def EXCEPT !.socket = s, !.datalen = len]),
                   !.def = NewDefQ]

\* SocketBuffer_interrupted: the header is read again from its first byte.
Interrupted(r, s, len) ==
    IF HasQueue(r, s) THEN [r EXCEPT !.queues[s] = [@ EXCEPT !.index = 0, !.datalen = len]]
    ELSE [r EXCEPT !.queues = With(@, s, [r.def EXCEPT !.socket = s, !.index = 0, !.datalen = len]),
                   !.def = NewDefQ]

\* SocketBuffer_complete: the queue of the socket becomes the default one.
Complete(r, s) ==
    IF HasQueue(r, s)
    THEN [r EXCEPT !.def = Cleared(r.queues[s]), !.queues = Dropped(@, s)]
    ELSE [r EXCEPT !.def = Cleared(@)]

\* SocketBuffer_cleanup.
Cleanup(r, s) ==
    [r EXCEPT !.queues = Dropped(@, s), !.def = IF @.socket = s THEN Cleared(@) ELSE @]

-----------------------------------------------------------------------------
(* One call of MQTTPacket_Factory *)

\* Socket_getch.
Getch(r, s) ==
    LET q == r.queues[s]
    IN  IF HasQueue(r, s) /\ q.index < q.headerlen
        THEN [r EXCEPT !.queues[s].index = @ + 1, !.c = q.fixed_header[q.index + 1]]
        ELSE IF HasQueue(r, s) /\ q.index > 4 THEN [r EXCEPT !.rc = "error"]
        ELSE IF r.bytes = <<>> THEN [r EXCEPT !.rc = "interrupted"]
        ELSE [QueueChar(r, s, Head(r.bytes)) EXCEPT !.c = Head(r.bytes), !.bytes = Tail(@)]

\* MQTTPacket_decode: the digits from the len-th on.
RECURSIVE MQTTPacket_decode(_, _, _, _)
MQTTPacket_decode(r, s, len, multiplier) ==
    LET got == Getch(r, s)
        sum == [got EXCEPT !.value = @ + (got.c % Digit) * multiplier]
    IN  IF len > 4 THEN [r EXCEPT !.rc = "error"]
        ELSE IF got.rc # "complete" THEN got
        ELSE IF got.c >= Digit THEN MQTTPacket_decode(sum, s, len + 1, multiplier * Digit) ELSE sum

\* Socket_getdata: appends to what the socket's queue has of the body, in a
\* buffer that is made large enough first.
Getdata(r, s) ==
    LET q == IF HasQueue(r, s) THEN r.queues[s] ELSE r.def
        actual == IF HasQueue(r, s) THEN q.datalen ELSE 0
        n == IF Len(r.bytes) < r.value - actual THEN Len(r.bytes) ELSE r.value - actual
        grown == IF Len(q.buf) >= r.value THEN q.buf
                 ELSE [i \in 1..r.value |-> IF i <= q.datalen THEN q.buf[i] ELSE JUNK]
        filled == [i \in DOMAIN grown |->
                    IF i > actual /\ i <= actual + n THEN r.bytes[i - actual] ELSE grown[i]]
        stored == IF HasQueue(r, s) THEN [r EXCEPT !.queues[s].buf = filled]
                  ELSE [r EXCEPT !.def.buf = filled]
    IN  [stored EXCEPT !.bytes = SubSeq(@, n + 1, Len(@)), !.data = SubSeq(filled, 1, r.value),
                       !.actual = actual + n,
                       !.rc = IF actual + n = r.value THEN "complete" ELSE "interrupted"]

\* The call as far as the bytes go.
Attempt(s, bytes) ==
    LET start == [def |-> def_queue, queues |-> queues, bytes |-> bytes, c |-> JUNK, rc |-> "complete",
                  value |-> 0, data |-> <<>>, actual |-> 0, header |-> JUNK]
        first == Getch(start, s)
        length == MQTTPacket_decode([first EXCEPT !.header = first.c], s, 1, 1)
        rest == Getdata(length, s)
    IN  IF first.rc # "complete" THEN first
        ELSE IF length.rc # "complete" THEN length
        ELSE IF length.value = 0 THEN length
        ELSE rest

\* n of the bytes on their way have arrived.
Factory(s) ==
    \E n \in 1..Len(wire[s]) :
        LET r == Attempt(s, SubSeq(wire[s], 1, n))
            after == IF r.rc = "complete" THEN Complete(r, s) ELSE Interrupted(r, s, r.actual)
        IN  /\ r.rc # "error"
            /\ def_queue' = after.def
            /\ queues' = after.queues
            /\ wire' = [wire EXCEPT ![s] = SubSeq(@, n - Len(r.bytes) + 1, Len(@))]
            /\ packets' = [packets EXCEPT ![s] =
                    IF r.rc = "complete" THEN Append(@, [header |-> r.header, data |-> r.data]) ELSE @]
            /\ UNCHANGED <<sent, connections>>

\* The connection ends, seen by a read that has used up n more bytes: the call
\* returns SOCKET_ERROR and the session is closed, which ends in Socket_close.
Close(s) ==
    /\ connections[s] > 0
    /\ \E n \in 0..Len(wire[s]) :
            LET r == Attempt(s, SubSeq(wire[s], 1, n))
                after == Cleanup(r, s)
            IN  /\ r.rc # "complete"
                /\ def_queue' = after.def
                /\ queues' = after.queues
    /\ wire' = [wire EXCEPT ![s] = <<>>]
    /\ sent' = [sent EXCEPT ![s] = <<>>]
    /\ packets' = [packets EXCEPT ![s] = <<>>]
    /\ UNCHANGED connections

\* A new connection gets the number of the closed socket, and the broker's
\* packets are on their way.
Open(s) ==
    /\ FoldFunction(+, 0, connections) < MaxConnections
    /\ sent[s] = <<>>
    /\ connections' = [connections EXCEPT ![s] = @ + 1]
    /\ \E lens \in Streams :
            /\ sent' = [sent EXCEPT ![s] = lens]
            /\ wire' = [wire EXCEPT ![s] = BytesFrom(connections'[s], lens, 1)]
    /\ UNCHANGED <<def_queue, queues, packets>>

BNext == \E s \in Sockets : Factory(s) \/ Close(s) \/ Open(s)

BSpec == BInit /\ [][BNext]_bufVars

-----------------------------------------------------------------------------
(* Properties *)

\* What a queue has of the packet being read.
Queued(s) ==
    IF s \notin DOMAIN queues THEN <<>>
    ELSE SubSeq(queues[s].fixed_header, 1, queues[s].headerlen) \o SubSeq(queues[s].buf, 1, queues[s].datalen)

\* The packets read from a connection are the ones sent on it, whole and in
\* order, and what is queued for it together with what is on its way is the rest,
\* byte for byte: wherever reads were cut, whichever other sockets were read in
\* between, and whatever an earlier connection of the same number left behind
\* (SocketBuffer_interrupted and _complete swap the queues, Socket_close empties
\* them).
NoByteLost ==
    \A s \in Sockets :
        LET c == connections[s]
            done == Len(packets[s])
        IN  /\ done <= Len(sent[s])
            /\ \A n \in 1..done : packets[s][n] = [header |-> HeaderByte(c, n), data |-> Body(c, n, sent[s][n])]
            /\ Queued(s) \o wire[s] = BytesFrom(c, sent[s], done + 1)
=============================================================================
