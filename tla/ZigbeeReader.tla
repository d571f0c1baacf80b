---------------------------- MODULE ZigbeeReader ----------------------------
(***************************************************************************)
(* The main loop of zigbee/test_zigbee.c: read a chunk from the serial     *)
(* line into the ring buffer, search the buffer for frames                 *)
(* (sbuf_search_with_out_count, one action per round of its loop), and     *)
(* hand every status report to mosquitto_pub, trying twice.                *)
(***************************************************************************)
EXTENDS Sbuf

CONSTANTS
    Token,          \* REPORT_FLAG
    BufSize,        \* BUF_SIZE, the most read() returns
    RxpSize,        \* BUF_SIZE again, as the size of rxp_buf
    CheckCrc(_),    \* check_crc8 on a frame
    IsReport(_)     \* the frame is a status report (length and attribute ids)

ASSUME TokenAssumption == Token \in Byte
\* A chunk, and a frame of two bytes that waits for a third, leave room in the
\* ring (64 and 256).
ASSUME BufSizeAssumption ==
    BufSize \in Nat \ {0} /\ BufSize + 2 < Length /\ RxpSize \in Nat

VARIABLES
    pc,             \* "read", "search", "send", "resend" or "dead"
    sb,             \* the ring buffer
    j,              \* rounds of the search so far
    count,          \* sbuf_get_count when the search began
    frame,          \* rxp_buf
    refused         \* sbuf_in refused the last chunk: its bytes are gone

vars == <<pc, sb, j, count, frame, refused>>

TypeOK ==
    /\ pc \in {"read", "search", "send", "resend", "dead"}
    /\ sb \in Sbufs
    /\ j \in Nat /\ count \in 0 .. Length - 1
    /\ frame \in Seq(Byte)
    /\ refused \in BOOLEAN

Chunks == UNION {[1 .. n -> Byte] : n \in 1 .. BufSize}

Fresh(garbage) == /\ pc = "read" /\ sb = SbufInit(garbage)
                  /\ j = 0 /\ count = 0 /\ frame = <<>> /\ refused = FALSE

Init == \E b \in Byte : Fresh([i \in Index |-> b])

-----------------------------------------------------------------------------
\* while(sbuf_search_with_out_count(...)): enter the search anew.
StartSearch(buf) == pc' = "search" /\ j' = 0 /\ count' = Count(buf)

\* read() returned a chunk: all of it goes into the buffer, or none.
Read(chunk) ==
    /\ pc = "read"
    /\ refused' = IsOverflow(sb, Len(chunk))
    /\ sb' = IF refused' THEN sb ELSE In(sb, chunk)
    /\ StartSearch(sb')
    /\ UNCHANGED frame

\* read() failed or the line is closed: 0 is refused by sbuf_in; -1 is a length
\* of Wrap - 1, refused if the buffer is empty and a copy far too long if not.
ReadFails ==
    /\ pc = "read"
    /\ \/ StartSearch(sb)
       \/ IsOverflow(sb, Wrap - 1) /\ StartSearch(sb)
       \/ ~IsOverflow(sb, Wrap - 1) /\ pc' = "dead" /\ UNCHANGED <<j, count>>
    /\ UNCHANGED <<sb, frame, refused>>

\* systemd starts the reader again.
Restart ==
    /\ pc = "dead"
    /\ \E b \in Byte : sb' = SbufInit([i \in Index |-> b])
    /\ pc' = "read" /\ j' = 0 /\ count' = 0 /\ frame' = <<>> /\ refused' = FALSE

-----------------------------------------------------------------------------
(* sbuf_search_with_out_count with a token of one byte *)

InLoop   == pc = "search" /\ j <= count - 2
AtToken  == ByteAt(sb, 0) = Token
OutLen   == ByteAt(sb, 1) + 2
HasFrame == Count(sb) > 2 /\ Count(sb) >= OutLen

\* No token here: on to the next byte.
NoToken ==
    /\ InLoop /\ ~AtToken
    /\ sb' = ChangeCursor(sb, 1) /\ j' = j + 1
    /\ UNCHANGED <<pc, count, frame, refused>>

\* A token whose frame is not complete: return 0 and wait for more bytes.
Incomplete ==
    /\ InLoop /\ AtToken /\ ~HasFrame
    /\ pc' = "read"
    /\ UNCHANGED <<sb, j, count, frame, refused>>

\* Fault: a rejected frame is dropped as a whole.
BadFrameDropped ==
    /\ InLoop /\ AtToken /\ HasFrame /\ ~CheckCrc(FirstBytes(sb, OutLen))
    /\ sb' = Out(sb, OutLen)
    /\ j' = j + 1
    /\ UNCHANGED <<pc, count, frame, refused>>

\* The frame is copied out, fails the check, and the cursor is moved back by
\* adding 0 - out_len and then past the token.
BadFrame ==
    /\ InLoop /\ AtToken /\ HasFrame /\ ~CheckCrc(FirstBytes(sb, OutLen))
    /\ sb' = ChangeCursor(ChangeCursor(Out(sb, OutLen), Wrap - OutLen), 1)
    /\ j' = j + 1
    /\ UNCHANGED <<pc, count, frame, refused>>

\* A frame.  One longer than rxp_buf has no defined outcome: the reader goes
\* on or dies.
GoodFrame ==
    /\ InLoop /\ AtToken /\ HasFrame /\ CheckCrc(FirstBytes(sb, OutLen))
    /\ frame' = FirstBytes(sb, OutLen) /\ sb' = Out(sb, OutLen)
    /\ \/ IsReport(frame') /\ pc' = "send" /\ UNCHANGED <<j, count>>
       \/ ~IsReport(frame') /\ StartSearch(sb')
       \/ OutLen > RxpSize /\ pc' = "dead" /\ UNCHANGED <<j, count>>
    /\ UNCHANGED refused

\* The loop ran out of positions: return 0.
SearchEnds ==
    /\ pc = "search" /\ ~InLoop
    /\ pc' = "read"
    /\ UNCHANGED <<sb, j, count, frame, refused>>

-----------------------------------------------------------------------------
\* system(mosquitto_pub ...): once, and once more if that failed.
Send ==
    /\ pc \in {"send", "resend"}
    /\ \/ StartSearch(sb)
       \/ pc = "send" /\ pc' = "resend" /\ UNCHANGED <<j, count>>
    /\ UNCHANGED <<sb, frame, refused>>

-----------------------------------------------------------------------------
Search == NoToken \/ Incomplete \/ BadFrame \/ GoodFrame \/ SearchEnds
Step   == Search \/ Send \/ Restart

Next == (\E chunk \in Chunks : Read(chunk)) \/ ReadFails \/ Step

Spec == Init /\ [][Next]_vars

\* The device need not send; what the reader does by itself it does at last.
FairSpec == Spec /\ WF_vars(Step)

-----------------------------------------------------------------------------
(* Properties *)

\* The ring behaves as a queue that loses, repeats and reorders nothing, takes
\* exactly the valid frames at its head and skips a byte only where none is.
Queue == INSTANCE ByteQueue WITH q <- Contents(sb), Capacity <- Length - 1
QueueSpec == Queue!Spec

\* When the reader waits for the line, no valid frame lies at the head of the
\* buffer: a byte or nothing is left, or a token whose frame is not complete.
Drained ==
    pc = "read" => Count(sb) <= 1 \/ (AtToken /\ ~HasFrame)

\* sbuf_in refuses a chunk, and loses its bytes, only while the frame announced
\* at the head is too long to leave room for a chunk beside it.
NoChunkRefused ==
    [][refused' /\ ~refused => AtToken /\ OutLen + BufSize > Length]_vars

\* A token that announces more bytes than the ring can hold is never passed:
\* from then on nothing is taken from the ring until the process ends.
Jammed == Count(sb) > 2 /\ AtToken /\ OutLen > Length - 1
JamIsPermanent == [][Jammed => Jammed' \/ pc = "dead"]_vars

\* The search loop ends: the reader gets back to the line.
ReadsAgain == (pc # "read") ~> (pc = "read")

\* The ring with its search is the abstract queue, and the search comes to an
\* end each time (sbuf_search_with_out_count).
LiveQueueSpec == QueueSpec /\ ReadsAgain

\* Bytes wait in the ring, and chunks are refused, only because of a frame that
\* is not complete; one the ring cannot hold stays until the process ends
\* (sbuf_search_with_out_count, sbuf_in).
OnlyAJamRefuses == []Drained /\ NoChunkRefused /\ JamIsPermanent
=============================================================================
