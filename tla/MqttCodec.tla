------------------------------ MODULE MqttCodec ------------------------------
(***************************************************************************)
(* The packets of the Paho client as bytes: what MQTTPacket.c,             *)
(* MQTTPacketOut.c and MQTTProperties.c write for the broker, what they    *)
(* read from it, and the check of the strings in them (utf-8.c).           *)
(*                                                                         *)
(* A string is the sequence of its bytes.  A list of properties is a       *)
(* sequence of [id, val]; val is a number, a string, or two strings.  A    *)
(* packet is a record: type, version v, and its fields.  The code writes   *)
(* each body into a buffer whose length it has computed beforehand, and    *)
(* announces that length.  Packets the standard does not allow are not     *)
(* modelled.                                                               *)
(***************************************************************************)
EXTENDS Integers, SequencesExt

CONSTANTS
    Sent,           \* packets the application has sent
    Received,       \* packets the broker sends
    Strings         \* strings given as client identifier, user name or topic

VARIABLES
    job,            \* what has been written, read or checked
    wire,           \* its bytes
    heard           \* the packet read

codecVars == <<job, wire, heard>>

CONNECT     == 1
CONNACK     == 2
PUBLISH     == 3
PUBREL      == 6
SUBSCRIBE   == 8
SUBACK      == 9
UNSUBSCRIBE == 10
UNSUBACK    == 11
PINGREQ     == 12
DISCONNECT  == 14
Acks        == 4 .. 7

Join(parts) == FoldLeft(LAMBDA a, b : a \o b, <<>>, parts)
Bit(b, weight) == IF b THEN weight ELSE 0

-----------------------------------------------------------------------------
(* Writing.  The operands of / and % are signed: C rounds to zero.         *)
Quot(a, b) == IF a >= 0 THEN a \div b ELSE -((-a) \div b)
Rem(a, b) == a - b * Quot(a, b)
Char(n) == n % 256

WriteInt(n) == <<Char(Quot(n, 256)), Char(Rem(n, 256))>>
WriteInt4(n) ==
    LET low3 == Rem(n, 16777216) low2 == Rem(low3, 65536)
    IN  <<Char(Quot(n, 16777216)), Char(Quot(low3, 65536))>> \o WriteInt(low2)
WriteUTF(s) == WriteInt(Len(s)) \o s

RECURSIVE MQTTPacket_encode(_)
MQTTPacket_encode(n) ==
    IF n < 128 THEN <<n>> ELSE <<128 + (n % 128)>> \o MQTTPacket_encode(n \div 128)

VBIlen(n) == CASE n < 128 -> 1 [] n \in 128 .. 16383 -> 2 [] n \in 16384 .. 2097151 -> 3 [] OTHER -> 4

(* The types of the properties.                                            *)
PropType(id) ==
    CASE id \in {1, 23, 25, 36, 37, 40, 41, 42} -> "byte"
      [] id \in {19, 33, 34, 35} -> "two"
      [] id \in {2, 17, 24, 39} -> "four"
      [] id = 11 -> "variable"
      [] id \in {3, 8, 18, 21, 26, 28, 31, 9, 22} -> "string"
      [] id = 38 -> "pair"

(* MQTTProperties_add keeps the length of the list as it will be written.  *)
MQTTProperties_add(props, p) ==
    LET len == CASE PropType(p.id) = "byte" -> 1
                 [] PropType(p.id) = "two" -> 2
                 [] PropType(p.id) = "four" -> 4
                 [] PropType(p.id) = "variable" -> VBIlen(p.val)
                 [] PropType(p.id) = "string" -> 2 + Len(p.val)
                 [] PropType(p.id) = "pair" -> 4 + Len(p.val[1]) + Len(p.val[2])
    IN  [array |-> Append(props.array, p), length |-> props.length + len + 1]
MQTTProperties(list) == FoldLeft(MQTTProperties_add, [array |-> <<>>, length |-> 0], list)

MQTTProperties_len(props) == props.length + VBIlen(props.length)

MQTTProperty_write(p) ==
    <<p.id>> \o CASE PropType(p.id) = "byte" -> <<p.val>>
                  [] PropType(p.id) = "two" -> WriteInt(p.val)
                  [] PropType(p.id) = "four" -> WriteInt4(p.val)
                  [] PropType(p.id) = "variable" -> MQTTPacket_encode(p.val)
                  [] PropType(p.id) = "string" -> WriteUTF(p.val)
                  [] PropType(p.id) = "pair" -> WriteUTF(p.val[1]) \o WriteUTF(p.val[2])
MQTTProperties_write(props) ==
    MQTTPacket_encode(props.length) \o Join([i \in DOMAIN props.array |-> MQTTProperty_write(props.array[i])])

(* Those of a packet: only version 5 has them.                             *)
PropsLen(p) == IF p.v >= 5 THEN MQTTProperties_len(MQTTProperties(p.props)) ELSE 0
WriteProps(p) == IF p.v >= 5 THEN MQTTProperties_write(MQTTProperties(p.props)) ELSE <<>>

(* MQTTPacket_send, MQTTPacket_sends: header, length, and as much of the   *)
(* buffer.                                                                 *)
Header(type, dup, qos, retain) == 16 * type + Bit(dup, 8) + 2 * qos + Bit(retain, 1)
MQTTPacket_send(first, len, body) == <<first>> \o MQTTPacket_encode(len) \o SubSeq(body, 1, len)

OptLen(o) == IF o = <<>> THEN 0 ELSE 2 + Len(o[1])
Opt(o) == IF o = <<>> THEN <<>> ELSE WriteUTF(o[1])

(* A will is a packet of its own in the model: topic, payload, qos,        *)
(* retained, and properties.                                               *)
SendConnect(p) ==
    LET willLen == IF p.will = <<>> THEN 0
                   ELSE Len(p.will[1].topic) + 2 + Len(p.will[1].payload) + 2 + PropsLen(p.will[1])
        will == IF p.will = <<>> THEN <<>>
                ELSE WriteProps(p.will[1]) \o WriteUTF(p.will[1].topic) \o WriteUTF(p.will[1].payload)
        len == (IF p.v = 3 THEN 12 ELSE 10) + Len(p.clientID) + 2 + willLen
               + OptLen(p.username) + OptLen(p.password) + PropsLen(p)
        flags == Bit(p.clean, 2) + Bit(p.username # <<>>, 128) + Bit(p.password # <<>>, 64)
                 + (IF p.will = <<>> THEN 0 ELSE 4 + 8 * p.will[1].qos + Bit(p.will[1].retained, 32))
        name == IF p.v = 3 THEN <<77, 81, 73, 115, 100, 112>> ELSE <<77, 81, 84, 84>>
    IN  MQTTPacket_send(Header(CONNECT, FALSE, 0, FALSE), len,
            WriteUTF(name) \o <<p.v, flags>> \o WriteInt(p.keepalive) \o WriteProps(p)
            \o WriteUTF(p.clientID) \o will \o Opt(p.username) \o Opt(p.password))

SubOpts(p, t) ==
    t.qos + IF p.v < 5 THEN 0 ELSE Bit(t.noLocal, 4) + Bit(t.asPublished, 8) + 16 * t.handling

SendSubscribe(p) ==
    LET n == Len(p.topics)
        len == FoldLeft(LAMBDA a, t : a + Len(t.name), 2 + 3 * n, p.topics) + PropsLen(p)
    IN  MQTTPacket_send(Header(SUBSCRIBE, FALSE, 1, FALSE), len,
            WriteInt(p.msgid) \o WriteProps(p)
            \o Join([i \in 1 .. n |-> WriteUTF(p.topics[i].name) \o <<SubOpts(p, p.topics[i])>>]))

SendUnsubscribe(p) ==
    LET n == Len(p.topics)
        len == FoldLeft(LAMBDA a, t : a + Len(t.name), 2 + 2 * n, p.topics) + PropsLen(p)
    IN  MQTTPacket_send(Header(UNSUBSCRIBE, FALSE, 1, FALSE), len,
            WriteInt(p.msgid) \o WriteProps(p) \o Join([i \in 1 .. n |-> WriteUTF(p.topics[i].name)]))

SendPublish(p) ==
    LET middle == (IF p.qos > 0 THEN WriteInt(p.msgid) ELSE <<>>) \o WriteProps(p)
        buflen == (IF p.qos > 0 THEN 2 ELSE 0) + PropsLen(p)
        len == 2 + Len(p.topic) + buflen + Len(p.payload)
    IN  MQTTPacket_send(Header(PUBLISH, p.dup, p.qos, p.retain), len,
            WriteInt(Len(p.topic)) \o p.topic \o SubSeq(middle, 1, buflen) \o p.payload)

\* Fault: a PUBREL is sent with the QoS of the other acknowledgements.
SendAckWithoutQos(p) == MQTTPacket_send(Header(p.type, p.dup, 0, FALSE), 2, WriteInt(p.msgid))

(* MQTTPacket_send_ack, with the QoS a PUBREL must have.                   *)
SendAck(p) ==
    MQTTPacket_send(Header(p.type, p.dup, IF p.type = PUBREL THEN 1 ELSE 0, FALSE), 2, WriteInt(p.msgid))

(* Of version 5, without a reason and properties nothing is sent.          *)
SendDisconnect(p) ==
    IF p.v < 5 THEN MQTTPacket_send(Header(DISCONNECT, FALSE, 0, FALSE), 0, <<>>)
    ELSE IF p.rc = 0 /\ p.props = <<>> THEN <<>>
    ELSE MQTTPacket_send(Header(DISCONNECT, FALSE, 0, FALSE),
             1 + (IF p.props = <<>> THEN 0 ELSE PropsLen(p)),
             <<p.rc>> \o (IF p.props = <<>> THEN <<>> ELSE WriteProps(p)))

Written(p) ==
    CASE p.type = CONNECT -> SendConnect(p)
      [] p.type = PUBLISH -> SendPublish(p)
      [] p.type \in Acks -> SendAck(p)
      [] p.type = SUBSCRIBE -> SendSubscribe(p)
      [] p.type = UNSUBSCRIBE -> SendUnsubscribe(p)
      [] p.type = PINGREQ -> MQTTPacket_send(Header(PINGREQ, FALSE, 0, FALSE), 0, <<>>)
      [] p.type = DISCONNECT -> SendDisconnect(p)

-----------------------------------------------------------------------------
(* Reading.  d is the body of the packet, i the place of the cursor.       *)
readInt(d, i) == 256 * d[i] + d[i + 1]
Signed(n, top) == IF n < top THEN n ELSE n - 2 * top
readInt4(d, i) == 16777216 * Signed(d[i], 128) + 65536 * d[i + 1] + readInt(d, i + 2)
readUTF(d, i) == SubSeq(d, i + 2, i + 1 + readInt(d, i))

RECURSIVE VBIdecode(_, _, _)
VBIdecode(d, i, multiplier) ==
    IF d[i] < 128 THEN [val |-> d[i] * multiplier, len |-> 1]
    ELSE LET rest == VBIdecode(d, i + 1, multiplier * 128)
         IN  [val |-> (d[i] - 128) * multiplier + rest.val, len |-> 1 + rest.len]

(* A property and its length without the identifier.  A two-byte integer   *)
(* is kept in a short.                                                     *)
MQTTProperty_read(d, i) ==
    LET at == i + 1
        str == readUTF(d, at)
    IN  CASE PropType(d[i]) = "byte" -> <<d[at], 1>>
          [] PropType(d[i]) = "two" -> <<Signed(readInt(d, at), 32768), 2>>
          [] PropType(d[i]) = "four" -> <<readInt4(d, at), 4>>
          [] PropType(d[i]) = "variable" -> <<VBIdecode(d, at, 1).val, VBIdecode(d, at, 1).len>>
          [] PropType(d[i]) = "string" -> <<str, 2 + Len(str)>>
          [] PropType(d[i]) = "pair" ->
                 LET second == readUTF(d, at + 2 + Len(str))
                 IN  <<<<str, second>>, 4 + Len(str) + Len(second)>>

RECURSIVE PropsFrom(_, _, _)
PropsFrom(d, i, remlength) ==
    IF remlength <= 0 THEN [ok |-> remlength = 0, props |-> <<>>, at |-> i]
    ELSE LET r == MQTTProperty_read(d, i)
             rest == PropsFrom(d, i + 1 + r[2], remlength - 1 - r[2])
         IN  [rest EXCEPT !.props = <<[id |-> d[i], val |-> r[1]]>> \o @]

MQTTProperties_read(d, i) ==
    IF i > Len(d) THEN [ok |-> FALSE, props |-> <<>>, at |-> i]
    ELSE LET n == VBIdecode(d, i, 1) IN PropsFrom(d, i + n.len, n.val)

Refused == [type |-> 0]
NoProps(i) == [ok |-> TRUE, props |-> <<>>, at |-> i]

ReadConnack(v, d) ==
    LET r == IF v >= 5 /\ Len(d) > 2 THEN MQTTProperties_read(d, 3) ELSE NoProps(3)
    IN  IF ~r.ok \/ (v < 5 /\ Len(d) # 2) THEN Refused
        ELSE [type |-> CONNACK, v |-> v, present |-> d[1] % 2 = 1, rc |-> d[2], props |-> r.props]

(* The codes of a SUBACK, and of an UNSUBACK of version 5.                 *)
ReadSuback(v, type, d) ==
    LET r == IF v >= 5 THEN MQTTProperties_read(d, 3) ELSE NoProps(3)
    IN  IF ~r.ok THEN Refused
        ELSE [type |-> type, v |-> v, msgid |-> readInt(d, 1), props |-> r.props,
              codes |-> IF type = UNSUBACK /\ v < 5 THEN <<>> ELSE SubSeq(d, r.at, Len(d))]

ReadPublish(v, first, d) ==
    LET topic == readUTF(d, 1)
        qos == (first \div 2) % 4
        at == 3 + Len(topic) + IF qos > 0 THEN 2 ELSE 0
        r == IF v >= 5 THEN MQTTProperties_read(d, at) ELSE NoProps(at)
    IN  IF ~r.ok THEN Refused
        ELSE [type |-> PUBLISH, v |-> v, dup |-> (first \div 8) % 2 = 1, qos |-> qos,
              retain |-> first % 2 = 1, topic |-> topic,
              msgid |-> IF qos > 0 THEN readInt(d, at - 2) ELSE 0,
              props |-> r.props, payload |-> SubSeq(d, r.at, Len(d))]

(* A DISCONNECT has no identifier, but its code is looked for under the    *)
(* same conditions.                                                        *)
ReadAck(v, first, d) ==
    LET type == first \div 16
        at == IF type = DISCONNECT THEN 1 ELSE 3
        rc == IF v >= 5 /\ Len(d) > 2 THEN d[at] ELSE 0
        r == IF v >= 5 /\ Len(d) > 3 THEN MQTTProperties_read(d, at + 1) ELSE NoProps(at)
    IN  IF ~r.ok THEN Refused
        ELSE [type |-> type, v |-> v, dup |-> (first \div 8) % 2 = 1,
              msgid |-> IF type = DISCONNECT THEN 0 ELSE readInt(d, 1), rc |-> rc, props |-> r.props]

MQTTPacket_Factory(v, w) ==
    LET n == VBIdecode(w, 2, 1)
        d == SubSeq(w, 2 + n.len, 1 + n.len + n.val)
        type == w[1] \div 16
    IN  CASE v < 5 /\ type >= DISCONNECT -> Refused
          [] type = CONNACK -> ReadConnack(v, d)
          [] type \in {SUBACK, UNSUBACK} -> ReadSuback(v, type, d)
          [] type = PUBLISH -> ReadPublish(v, w[1], d)
          [] type \in Acks \/ (v >= 5 /\ type = DISCONNECT) -> ReadAck(v, w[1], d)

-----------------------------------------------------------------------------
(* utf-8.c: a character has one of the rows of valid ranges.               *)
Tail80 == 128 .. 191
ValidRanges ==
    {<<0 .. 127>>, <<194 .. 223, Tail80>>,
     <<{224}, 160 .. 191, Tail80>>, <<225 .. 236, Tail80, Tail80>>,
     <<{237}, 128 .. 159, Tail80>>, <<238 .. 239, Tail80, Tail80>>,
     <<{240}, 144 .. 191, Tail80, Tail80>>, <<241 .. 243, Tail80, Tail80, Tail80>>,
     <<{244}, 128 .. 143, Tail80, Tail80>>}

CharLen(b) == CASE b < 128 -> 1 [] b >= 240 -> 4 [] b \in 224 .. 239 -> 3 [] OTHER -> 2

CharValid(s) ==
    LET n == CharLen(s[1])
    IN  n <= Len(s) /\ \E row \in ValidRanges : Len(row) = n /\ \A j \in 1 .. n : s[j] \in row[j]

RECURSIVE UTF8_validate(_)
UTF8_validate(s) ==
    s = <<>> \/ (CharValid(s) /\ UTF8_validate(SubSeq(s, CharLen(s[1]) + 1, Len(s))))

-----------------------------------------------------------------------------
(* What the standard says the packets are.  A packet of version 5 may      *)
(* leave out a code of 0, or an empty list of properties at its end.       *)
Two(n) == <<(n \div 256) % 256, n % 256>>
Four(n) == Two((n \div 65536) % 65536) \o Two(n % 65536)
Str(s) == Two(Len(s)) \o s
Vbi(n) == CASE n < 128 -> <<n>>
            [] n \in 128 .. 16383 -> <<128 + (n % 128), n \div 128>>
            [] n \in 16384 .. 2097151 -> <<128 + (n % 128), 128 + ((n \div 128) % 128), n \div 16384>>
            [] OTHER -> <<128 + (n % 128), 128 + ((n \div 128) % 128), 128 + ((n \div 16384) % 128), n \div 2097152>>

PropBytes(p) ==
    <<p.id>> \o CASE PropType(p.id) = "byte" -> <<p.val>>
                  [] PropType(p.id) = "two" -> Two(p.val)
                  [] PropType(p.id) = "four" -> Four(p.val)
                  [] PropType(p.id) = "variable" -> Vbi(p.val)
                  [] PropType(p.id) = "string" -> Str(p.val)
                  [] PropType(p.id) = "pair" -> Str(p.val[1]) \o Str(p.val[2])
Props(p) ==
    LET all == Join([i \in DOMAIN p.props |-> PropBytes(p.props[i])])
    IN  IF p.v < 5 THEN <<>> ELSE Vbi(Len(all)) \o all

Framed(first, body) == <<first>> \o Vbi(Len(body)) \o body
Coded(p) ==
    {<<p.rc>> \o Props(p)} \cup (IF p.props = <<>> THEN {<<p.rc>>} ELSE {})
    \cup (IF p.props = <<>> /\ p.rc = 0 THEN {<<>>} ELSE {})

WillBytes(w) == Props(w) \o Str(w.topic) \o Str(w.payload)
ConnectFlags(p) ==
    Bit(p.username # <<>>, 128) + Bit(p.password # <<>>, 64) + Bit(p.clean, 2)
    + (IF p.will = <<>> THEN 0 ELSE Bit(p.will[1].retained, 32) + 8 * p.will[1].qos + 4)

Bodies(p) ==
    CASE p.type = CONNECT ->
             {Str(IF p.v = 3 THEN <<77, 81, 73, 115, 100, 112>> ELSE <<77, 81, 84, 84>>)
              \o <<p.v, ConnectFlags(p)>> \o Two(p.keepalive) \o Props(p) \o Str(p.clientID)
              \o Join([i \in DOMAIN p.will |-> WillBytes(p.will[i])])
              \o Join([i \in DOMAIN p.username |-> Str(p.username[i])])
              \o Join([i \in DOMAIN p.password |-> Str(p.password[i])])}
      [] p.type = CONNACK -> {<<Bit(p.present, 1), p.rc>> \o Props(p)}
      [] p.type = PUBLISH ->
             {Str(p.topic) \o (IF p.qos = 0 THEN <<>> ELSE Two(p.msgid)) \o Props(p) \o p.payload}
      [] p.type \in Acks ->
             IF p.v < 5 THEN {Two(p.msgid)} ELSE {Two(p.msgid) \o c : c \in Coded(p)}
      [] p.type = SUBSCRIBE ->
             {Two(p.msgid) \o Props(p) \o Join([i \in DOMAIN p.topics |->
                 LET t == p.topics[i]
                 IN Str(t.name) \o <<IF p.v < 5 THEN t.qos
                        ELSE t.qos + Bit(t.noLocal, 4) + Bit(t.asPublished, 8) + 16 * t.handling>>])}
      [] p.type = UNSUBSCRIBE ->
             {Two(p.msgid) \o Props(p) \o Join([i \in DOMAIN p.topics |-> Str(p.topics[i].name)])}
      [] p.type \in {SUBACK, UNSUBACK} -> {Two(p.msgid) \o Props(p) \o p.codes}
      [] p.type = PINGREQ -> {<<>>}
      [] p.type = DISCONNECT -> IF p.v < 5 THEN {<<>>} ELSE Coded(p)

FirstOf(p) ==
    16 * p.type + CASE p.type = PUBLISH -> Bit(p.dup, 8) + 2 * p.qos + Bit(p.retain, 1)
                    [] p.type \in Acks -> Bit(p.dup, 8) + Bit(p.type = PUBREL, 2)
                    [] p.type \in {SUBSCRIBE, UNSUBSCRIBE} -> 2
                    [] OTHER -> 0
Meant(p) == {Framed(FirstOf(p), b) : b \in Bodies(p)}

-----------------------------------------------------------------------------
NoJob == [kind |-> "none", p |-> Refused]
CodecInit == job = NoJob /\ wire = <<>> /\ heard = Refused

Send ==
    \E p \in Sent : /\ job' = [kind |-> "sent", p |-> p]
                   /\ wire' = Written(p)
                   /\ heard' = Refused
Receive ==
    \E p \in Received : /\ job' = [kind |-> "received", p |-> p]
                       /\ wire' \in Meant(p)
                       /\ heard' = MQTTPacket_Factory(p.v, wire')
Validate ==
    \E s \in Strings : /\ job' = [kind |-> IF UTF8_validate(s) THEN "accepted" ELSE "rejected", p |-> Refused]
                       /\ wire' = s
                       /\ heard' = Refused

CodecNext == job = NoJob /\ (Send \/ Receive \/ Validate)

CodecSpec == CodecInit /\ [][CodecNext]_codecVars

(* Whatever version is spoken, the broker is sent exactly the bytes the    *)
(* standard gives the packet, and the client reads from the broker's bytes *)
(* the packet that was meant.  Two limits of the code are left out: an     *)
(* integer property in the upper half of its range, which is written as    *)
(* another number (MQTTProperties.h:106: "holds the value"), and a         *)
(* DISCONNECT of version 5 whose body has fewer than three bytes, which is *)
(* not sent, or read as a success (MQTTPacket.c, MQTTPacketOut.c,          *)
(* MQTTProperties.c).                                                      *)
Integers2And4 == {"two", "four"}
AllProps(p) == p.props \o (IF p.type = CONNECT /\ p.will # <<>> THEN p.will[1].props ELSE <<>>)
HighInteger(p) ==
    \E i \in DOMAIN AllProps(p) :
        PropType(AllProps(p)[i].id) \in Integers2And4 /\ AllProps(p)[i].val < 0
ShortDisconnect(p) == p.type = DISCONNECT /\ p.v >= 5 /\ p.props = <<>>

PacketsAreUnderstood ==
    /\ job.kind = "sent" /\ ~HighInteger(job.p) /\ ~(ShortDisconnect(job.p) /\ job.p.rc = 0)
           => wire \in Meant(job.p)
    /\ job.kind = "received" /\ ~ShortDisconnect(job.p) => heard = job.p

(* A string is accepted exactly when it is a sequence of characters in     *)
(* their shortest form, without surrogates (UTF8_validateString).          *)
Encoded(c) ==
    CASE c < 128 -> <<c>>
      [] c \in 128 .. 2047 -> <<192 + c \div 64, 128 + (c % 64)>>
      [] c \in 2048 .. 65535 -> <<224 + c \div 4096, 128 + ((c \div 64) % 64), 128 + (c % 64)>>
      [] OTHER -> <<240 + c \div 262144, 128 + ((c \div 4096) % 64), 128 + ((c \div 64) % 64), 128 + (c % 64)>>
CodeOf(b) ==
    CASE Len(b) = 1 -> b[1]
      [] Len(b) = 2 -> (b[1] % 32) * 64 + (b[2] % 64)
      [] Len(b) = 3 -> (b[1] % 16) * 4096 + (b[2] % 64) * 64 + (b[3] % 64)
      [] Len(b) = 4 -> (b[1] % 8) * 262144 + (b[2] % 64) * 4096 + (b[3] % 64) * 64 + (b[4] % 64)
IsCharacter(b) ==
    LET c == CodeOf(b) IN Encoded(c) = b /\ c \notin 55296 .. 57343 /\ c <= 1114111

RECURSIVE WellFormed(_)
WellFormed(s) ==
    s = <<>> \/ \E n \in 1 .. 4 : n <= Len(s) /\ IsCharacter(SubSeq(s, 1, n)) /\ WellFormed(SubSeq(s, n + 1, Len(s)))

StringsAreChecked ==
    job.kind \in {"accepted", "rejected"} => (job.kind = "accepted" <=> WellFormed(wire))
=============================================================================
