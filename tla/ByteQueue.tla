------------------------------ MODULE ByteQueue ------------------------------
(***************************************************************************)
(* What the ring buffer of the Zigbee reader promises: a bounded queue of  *)
(* bytes from whose head complete, valid frames are taken in order, and    *)
(* from whose head a byte is skipped only when no such frame begins there. *)
(***************************************************************************)
EXTENDS Naturals, Sequences

CONSTANTS
    Byte,           \* values of a byte
    Token,          \* the byte a frame begins with (REPORT_FLAG)
    Capacity,       \* most bytes the queue holds
    BufSize,        \* most bytes put at once
    CheckCrc(_)     \* the checksum of a frame, given as a sequence, is right

VARIABLES
    q,              \* bytes received and not consumed, oldest first
    frame           \* the last frame taken

\* Second byte of a frame: the number of bytes after the first two, so that a
\* frame with no checksum byte of its own is two bytes long.
FrameLen(s) == s[2] + 2

\* The frame at the head is there in full.  A queue of two bytes never is: the
\* search asks for a byte more than token and length.
Complete(s) == Len(s) > 2 /\ s[1] = Token /\ FrameLen(s) <= Len(s)

Valid(s) == Complete(s) /\ CheckCrc(SubSeq(s, 1, FrameLen(s)))

Init == q = <<>> /\ frame = <<>>

Put(chunk) ==
    /\ Len(q) + Len(chunk) <= Capacity
    /\ q' = q \o chunk
    /\ UNCHANGED frame

Take ==
    /\ Valid(q)
    /\ frame' = SubSeq(q, 1, FrameLen(q))
    /\ q' = SubSeq(q, FrameLen(q) + 1, Len(q))

Skip ==
    /\ Len(q) > 1
    /\ q[1] = Token => Complete(q) /\ ~Valid(q)
    /\ q' = Tail(q)
    /\ UNCHANGED frame

\* The reader's process ends and starts with an empty queue.
Reset == q' = <<>> /\ frame' = <<>>

Chunks == UNION {[1 .. n -> Byte] : n \in 1 .. BufSize}

Next == (\E chunk \in Chunks : Put(chunk)) \/ Take \/ Skip \/ Reset

Spec == Init /\ [][Next]_<<q, frame>>
=============================================================================
