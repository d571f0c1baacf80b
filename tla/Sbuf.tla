-------------------------------- MODULE Sbuf --------------------------------
(***************************************************************************)
(* The ring buffer of zigbee/sbuf.c as operators on a record               *)
(* [buffer, rcursor, wcursor].  The cursors are unsigned ints, taken modulo *)
(* Wrap, and run from 0 to Length: a copy that ends exactly at the end of  *)
(* the array leaves its cursor at Length, not at 0.                        *)
(***************************************************************************)
EXTENDS Integers, Sequences

CONSTANTS
    Byte,           \* values of a byte
    Length,         \* size of the array (RING_BUF_SIZE)
    Wrap            \* 2^32 for the code's unsigned int

ASSUME LengthAssumption ==
    /\ Length \in Nat \ {0, 1}
    /\ Wrap \in Nat /\ Wrap > 3 * Length
ASSUME ByteAssumption == Byte \subseteq Nat /\ Byte # {}

Index  == 0 .. Length - 1
Cursor == 0 .. Length
Sbufs  == [buffer : [Index -> Byte], rcursor : Cursor, wcursor : Cursor]

\* sbuf_init does not clear the array.
SbufInit(garbage) == [buffer |-> garbage, rcursor |-> 0, wcursor |-> 0]

Count(sb) == (sb.wcursor + Length - sb.rcursor) % Length

\* Fault: the byte kept free is counted twice.
IsOverflowEarly(sb, len) == (Count(sb) + len) % Wrap >= Length - 1

\* int + unsigned: a length of -1 arrives as Wrap - 1.
IsOverflow(sb, len) == (Count(sb) + len) % Wrap > Length - 1

\* Where a cursor stands after n bytes were copied from it on.
Advance(c, n) == IF n <= Length - c THEN c + n ELSE n - (Length - c)

\* sbuf_in of a chunk that fits.
In(sb, data) ==
    [sb EXCEPT
        !.buffer = [p \in Index |->
                       LET i == (p + Length - sb.wcursor) % Length
                       IN  IF i < Len(data) THEN data[i + 1] ELSE sb.buffer[p]],
        !.wcursor = Advance(@, Len(data))]

\* The byte off places after the read cursor (sbuf_get_position, sbuf_out_byte).
ByteAt(sb, off) == sb.buffer[((sb.rcursor + off + Length) % Wrap) % Length]

\* The first n bytes, as sbuf_out copies them.
FirstBytes(sb, n) == [i \in 1 .. n |-> sb.buffer[(sb.rcursor + i - 1) % Length]]

\* sbuf_out of n <= Count(sb) bytes.
Out(sb, n) == [sb EXCEPT !.rcursor = Advance(@, n)]

\* sbuf_change_cursor(sb, 'r', off): the sum is an unsigned int.
ChangeCursor(sb, off) == [sb EXCEPT !.rcursor = ((@ + off + Length) % Wrap) % Length]

\* What the buffer holds, oldest byte first.
Contents(sb) == FirstBytes(sb, Count(sb))
=============================================================================
