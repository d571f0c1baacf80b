------------------------------ MODULE WebSocket ------------------------------
(***************************************************************************)
(* What the Paho client sends when the broker is reached over WebSockets:  *)
(* the key of the handshake (Base64.c) and the frames that carry the MQTT  *)
(* packets (WebSocket.c, and MQTTPacket.c, which leaves room for the       *)
(* header).                                                                *)
(*                                                                         *)
(* A byte is [b, masks]: its value, and the bytes of keys it has been      *)
(* xor-ed with; <<k, j>> is byte j of the key of frame k, and that byte    *)
(* itself is 0 so masked.  Keys differ and have no byte 0.  b = -1 is a    *)
(* byte nobody has written.  A packet has a head, allocated for one        *)
(* transmission, and a body, kept by the client for the next one.          *)
(* Receiving is not modelled.                                              *)
(***************************************************************************)
EXTENDS Integers, SequencesExt

CONSTANTS
    Long,           \* length from which a frame has the longest header: 65536
    Packets,        \* [head |-> lengths, body |-> ...]: their contents
    MaxFrames,      \* bound: transmissions of a packet
    Keys,           \* random bytes for the key of the handshake
    Sizes           \* sizes of the buffer for its text

VARIABLES
    packet,         \* the packet being sent: what it is, and its body in memory
    frames,         \* transmissions so far
    sent,           \* bytes of the last one
    key             \* the handshake's: random bytes, size, text, result

webVars == <<packet, frames, sent, key>>

BINARY == 2
CLOSE  == 8

Plain(s) == [i \in DOMAIN s |-> [b |-> s[i], masks |-> {}]]
KeyByte(k, j) == [b |-> 0, masks |-> {<<k, j>>}]
Xor(x, k, j) ==
    [x EXCEPT !.masks = IF <<k, j>> \in @ THEN @ \ {<<k, j>>} ELSE @ \cup {<<k, j>>}]
BigEndian(n, width) == [i \in 1 .. width |-> (n \div (256 ^ (width - i))) % 256]
BodyLen(body) == FoldLeft(LAMBDA a, s : a + Len(s), 0, body)

-----------------------------------------------------------------------------
(* Frames.  64-bit lengths are cut at 4 bytes.                             *)
CalculateFrameHeaderSize(mask, n) ==
    (CASE n < 126 -> 2 [] n \in 126 .. Long - 1 -> 4 [] OTHER -> 10) + (IF mask THEN 4 ELSE 0)

FrameHeader(op, mask, k, n) ==
    Plain(<<128 + op, (IF mask THEN 128 ELSE 0)
            + CASE n < 126 -> n [] n \in 126 .. Long - 1 -> 126 [] OTHER -> 127>>
          \o (CASE n < 126 -> <<>> [] n \in 126 .. Long - 1 -> BigEndian(n, 2)
                [] OTHER -> <<0, 0, 0, 0>> \o BigEndian(n, 4)))
    \o (IF mask THEN [j \in 1 .. 4 |-> KeyByte(k, j - 1)] ELSE <<>>)

(* WebSocket_buildFrame masks head and body where they are, with one index *)
(* that runs through both.                                                 *)
MaskedFrom(s, k, idx) == [i \in DOMAIN s |-> Xor(s[i], k, (idx + i - 1) % 4)]

\* Fault: every buffer of the body begins with the mask's first byte.
MaskedBodyFromZero(body, k, idx) == [n \in DOMAIN body |-> MaskedFrom(body[n], k, 0)]

MaskedBody(body, k, idx) ==
    [n \in DOMAIN body |-> MaskedFrom(body[n], k, idx + BodyLen(SubSeq(body, 1, n - 1)))]

(* WebSocket_putdatas: it steps back from the head by the size of a header *)
(* for four more bytes; the header is written just before the head.        *)
Putdatas(head, body, k) ==
    LET n == Len(head) + BodyLen(body)
        written == FrameHeader(BINARY, TRUE, k, n)
        gap == CalculateFrameHeaderSize(TRUE, n + 4) - Len(written)
    IN  [i \in 1 .. gap |-> [b |-> -1, masks |-> {}]]
        \o written \o MaskedFrom(head, k, 0) \o FlattenSeq(MaskedBody(body, k, Len(head)))

(* WebSocket_close: no mask; a status out of range is sent as 1001.        *)
CloseStatus(status) == IF status \in 1000 .. 1015 THEN status ELSE 1001
CloseFrame(status) ==
    FrameHeader(CLOSE, FALSE, 0, 2) \o Plain(BigEndian(CloseStatus(status), 2))

-----------------------------------------------------------------------------

(* Base64.c.  A text is a sequence of the numbers of its characters, 64 is *)
(* the padding.                                                            *)
Quad(g) ==
    <<g[1] \div 4,
      (g[1] % 4) * 16 + (IF Len(g) > 1 THEN g[2] \div 16 ELSE 0),
      IF Len(g) = 1 THEN 64 ELSE (g[2] % 16) * 4 + (IF Len(g) > 2 THEN g[3] \div 64 ELSE 0),
      IF Len(g) < 3 THEN 64 ELSE g[3] % 64>>

LeastOf(a, b) == IF a < b THEN a ELSE b

(* Four characters are written together or not at all.                     *)
RECURSIVE EncodeFrom(_, _, _)
EncodeFrom(in, size, out) ==
    IF in = <<>> \/ out.count >= size THEN out
    ELSE LET n == LeastOf(3, Len(in))
             count == out.count + 4
         IN  EncodeFrom(SubSeq(in, n + 1, Len(in)), size,
                 [count |-> count,
                  text |-> IF count <= size THEN out.text \o Quad(SubSeq(in, 1, n)) ELSE out.text])
Base64_encode(in, size) ==
    LET out == EncodeFrom(in, size, [text |-> <<>>, count |-> 0])
    IN  [text |-> out.text, ret |-> IF out.count <= size THEN out.count ELSE 0]

RECURSIVE Base64_decode(_, _)
Base64_decode(text, size) ==
    IF Len(text) <= 3 \/ size <= 0 THEN <<>>
    ELSE LET first == <<((text[1] * 4) % 256) + (text[2] \div 16)>>
             second == <<(text[2] % 16) * 16 + text[3] \div 4>>
             third == <<(text[3] % 4) * 64 + text[4]>>
             next(n) == Base64_decode(SubSeq(text, 5, Len(text)), size - n)
         IN  CASE size = 1 -> first
               [] size > 1 /\ text[3] >= 64 -> first
               [] size = 2 /\ text[3] < 64 -> first \o second
               [] size > 2 /\ text[3] < 64 /\ text[4] >= 64 -> first \o second
               [] OTHER -> first \o second \o third \o next(3)

Base64_decodeLength(text) ==
    LET n == Len(text)
        pad == (IF n > 1 /\ text[n - 1] = 64 THEN 1 ELSE 0) + (IF n > 0 /\ text[n] = 64 THEN 1 ELSE 0)
    IN  (n \div 4) * 3 - pad
Base64_encodeLength(n) == (((4 * n) \div 3 + 3) \div 4) * 4

-----------------------------------------------------------------------------
NoPacket == [is |-> [head |-> <<>>, body |-> <<>>], body |-> <<>>]
NoKey == [bytes |-> <<>>, size |-> 0, text |-> <<>>, ret |-> 0]
WebInit == packet = NoPacket /\ frames = 0 /\ sent = <<>> /\ key = NoKey

(* MQTTPacket_send, MQTTPacket_sends: the head is made for every           *)
(* transmission, the body is what is in memory.                            *)
Transmit(body, is) ==
    /\ frames < MaxFrames
    /\ frames' = frames + 1
    /\ sent' = Putdatas(Plain(is.head), body, frames + 1)
    /\ packet' = [is |-> is, body |-> MaskedBody(body, frames + 1, Len(is.head))]
    /\ UNCHANGED key

SendFirst == frames = 0 /\ key = NoKey /\ \E p \in Packets : Transmit([n \in DOMAIN p.body |-> Plain(p.body[n])], p)
SendAgain == frames > 0 /\ packet # NoPacket /\ Transmit(packet.body, packet.is)

(* WebSocket_connect and WebSocket_upgrade.                                *)
EncodeKey ==
    /\ frames = 0 /\ key = NoKey
    /\ \E bytes \in Keys, size \in Sizes :
           LET e == Base64_encode(bytes, size)
           IN  key' = [bytes |-> bytes, size |-> size, text |-> e.text, ret |-> e.ret]
    /\ UNCHANGED <<packet, frames, sent>>

Close ==
    /\ frames = 0 /\ key = NoKey
    /\ \E status \in {999, 1000, 1015, 1016} :
           packet' = [NoPacket EXCEPT !.is.head = <<CloseStatus(status)>>] /\ sent' = CloseFrame(status)
    /\ UNCHANGED <<frames, key>>

WebNext == SendFirst \/ SendAgain \/ EncodeKey \/ Close

WebSpec == WebInit /\ [][WebNext]_webVars

-----------------------------------------------------------------------------
(* The frame the standard gives a packet (RFC 6455): header, then every    *)
(* byte under the key of this frame.                                       *)
Content(p) == Plain(p.head \o FlattenSeq(p.body))
FrameOf(p, k) ==
    LET n == Len(Content(p))
        len == CASE n <= 125 -> <<128 + n>>
                 [] n \in 126 .. Long - 1 -> <<254, n \div 256, n % 256>>
                 [] OTHER -> <<255, 0, 0, 0, 0, 0, n \div 65536, (n \div 256) % 256, n % 256>>
    IN  Plain(<<130>> \o len) \o [j \in 1 .. 4 |-> KeyByte(k, j - 1)]
        \o [i \in 1 .. n |-> Xor(Content(p)[i], k, (i - 1) % 4)]

(* Just below the lengths at which the header grows.                       *)
EdgeLengths == (122 .. 125) \cup (Long - 4 .. Long - 1)

(* WebSocket.c:266: "calculates the amount of data required for the        *)
(* websocket header": every transmission of a packet is one frame that     *)
(* carries it.                                                             *)
FramesAreWhole == frames > 0 => sent = FrameOf(packet.is, frames)

(* The first transmission of a packet is one frame that carries it, unless *)
(* its length is at an edge; and the random key of the handshake can be    *)
(* read back from its text whenever that has room, and the text never      *)
(* leaves its buffer (WebSocket.c, Base64.c).  A buffer of fewer quads is  *)
(* filled and reported as a success.                                       *)
FirstFramesAreWhole ==
    frames = 1 /\ Len(Content(packet.is)) \notin EdgeLengths => FramesAreWhole

KeyComesBack ==
    LET n == Len(key.bytes) need == Base64_encodeLength(n)
    IN  /\ Len(key.text) <= key.size
        /\ key.size >= need => /\ key.ret = need /\ Len(key.text) = need
                               /\ Base64_decodeLength(key.text) = n
                               /\ \A room \in 0 .. n + 1 :
                                      Base64_decode(key.text, room) = SubSeq(key.bytes, 1, LeastOf(room, n))
=============================================================================
