------------------------------ MODULE MCLibrary ------------------------------
(***************************************************************************)
(* The parts of the vendored Paho library and of cJSON below the MQTT      *)
(* session, one at a time: memory records, lists, the byte streams of the  *)
(* sockets, the packet formats, and the list of client handles.  part says *)
(* which of them this behaviour is about; the others stay as they start.   *)
(***************************************************************************)
EXTENDS Integers, Sequences, MqttHandles

CONSTANT Parts      \* those of the parts that a run is about

VARIABLES part,
    heap, size, current_size, heap_mutex, live,              \* Heap
    elements, list, items,                                   \* LinkedList
    def_queue, queues, arriving, arrived, packets, connections, \* SocketBuffer
    clientsds, cur_clientsds, rset, wset, connect_pending, write_pending, pending_wset,
    writes, pwset, waiting, broken, put, out, opens, puts,   \* Socket
    printing, text,                                          \* JsonText
    mem, kids, roots,                                        \* JsonItems
    job, wire, heard,                                        \* MqttCodec
    packet, frames, sent, key                                \* WebSocket

-----------------------------------------------------------------------------
Memory == INSTANCE Heap WITH Blocks <- 1 .. 10, Requests <- {12}

(* Two contents have the same key.                                         *)
KeyOf(c) == c % 2
List == INSTANCE LinkedList WITH Contents <- 1 .. 4, Key <- KeyOf

(* Remaining lengths of one digit and of two.                              *)
Input == INSTANCE SocketBuffer WITH
    Sockets <- {1, 2}, Digit <- 2, Streams <- {<<3, 0>>, <<2>>}, MaxConnections <- 3,
    wire <- arriving, sent <- arrived

Output == INSTANCE Socket WITH
    Sockets <- {1, 2}, Packets <- {<<1, 2, 1>>}, MaxWrites <- 2, MaxOpens <- 2

(* Values nested up to one level beyond the limit, strings with characters *)
(* that are escaped, and buffers that fit, almost fit and do not.          *)
Leaves ==
    {<<"null">>, <<"true">>, <<"false">>, <<"num", -12>>, <<"num", 0>>, <<"str", <<>>>>,
     <<"str", <<97, 34, 92>>>>, <<"str", <<1, 9, 32, 200>>>>}
Name1 == <<97>>
Name2 == <<66, 10>>
Flat ==
    {<<"arr", <<>>>>, <<"obj", <<>>>>}
    \cup {<<"arr", <<a>>>> : a \in Leaves} \cup {<<"arr", <<a, b>>>> : a, b \in Leaves}
    \cup {<<"obj", <<<<Name1, a>>>>>> : a \in Leaves}
    \cup {<<"obj", <<<<Name1, a>>, <<Name2, b>>>>>> : a, b \in Leaves}
JsonValues ==
    Leaves \cup Flat
    \cup {<<"arr", <<a, <<"num", 7>>>>>> : a \in Flat}
    \cup {<<"obj", <<<<Name2, a>>>>>> : a \in Flat}
    \cup {<<"arr", <<<<"obj", <<<<Name1, a>>>>>>>>>> : a \in {<<"arr", <<>>>>, <<"obj", <<>>>>}}
Text == INSTANCE JsonText WITH
    Values <- JsonValues, Lengths <- {0, 1, 8, 12, 40}, NestingLimit <- 2,
    Codes <- {1, 65, 127, 128, 2047, 2048, 55295, 57344, 65535, 65536, 66000, 1114111},
    job <- printing

Tree == INSTANCE JsonItems WITH Items <- 1 .. 4

-----------------------------------------------------------------------------
(* Packets of every type and version, with properties of every type and    *)
(* lengths on both sides of 128.                                           *)
A == <<97>>
B130 == [i \in 1 .. 130 |-> 98]
Prop(id, val) == [id |-> id, val |-> val]
Props ==
    {<<>>, <<Prop(1, 1), Prop(33, 20)>>, <<Prop(2, 2147483647)>>, <<Prop(11, 16384), Prop(11, 2097152)>>,
     <<Prop(3, A), Prop(38, <<A, <<>>>>), Prop(38, <<<<>>, B130>>)>>, <<Prop(17, -1)>>, <<Prop(33, -1)>>}
Versions == {3, 4, 5}
Fit(S) == {p \in S : p.v < 5 => p.props = <<>>}
Wills ==
    {<<>>} \cup {<<w>> : w \in Fit([topic : {A}, payload : {<<>>, B130}, qos : {2}, retained : BOOLEAN,
                                    props : Props, v : Versions])}
Connects ==
    {p \in Fit([type : {1}, v : Versions, clean : BOOLEAN, will : Wills, username : {<<>>, <<A>>},
                password : {<<>>, <<A>>}, keepalive : {300}, clientID : {A}, props : Props]) :
        p.will # <<>> => p.will[1].v = p.v /\ Len(p.props) # 1}
Topic(name, q, local, h) ==
    [name |-> name, qos |-> q, noLocal |-> local, asPublished |-> ~local, handling |-> h]
Subscribes ==
    Fit([type : {8, 10}, v : Versions, msgid : {1, 65535}, props : Props,
         topics : {<<Topic(A, 0, TRUE, 2)>>, <<Topic(A, 1, FALSE, 0), Topic(B130, 2, TRUE, 1)>>}])
Publishes ==
    {p \in Fit([type : {3}, v : Versions, dup : BOOLEAN, qos : {0, 1, 2}, retain : BOOLEAN, topic : {A, B130},
                msgid : {0, 256}, payload : {<<>>, B130}, props : Props]) : p.qos = 0 <=> p.msgid = 0}
Acks == Fit([type : 4 .. 7, v : Versions, dup : {FALSE}, msgid : {258}, rc : {0}, props : {<<>>}])
Disconnects == Fit([type : {14}, v : Versions, dup : {FALSE}, msgid : {0}, rc : {0, 142}, props : Props])
SentPackets ==
    Connects \cup Subscribes \cup Publishes \cup Acks \cup {p \in Disconnects : p.v < 5 => p.rc = 0}
    \cup [type : {12}, v : Versions, props : {<<>>}]
ReceivedPackets ==
    Publishes \cup Acks \cup {p \in Disconnects : p.v = 5}
    \cup Fit([type : 4 .. 7, v : {5}, dup : {FALSE}, msgid : {258}, rc : {0, 16}, props : Props])
    \cup Fit([type : {2}, v : Versions, present : BOOLEAN, rc : {0, 5}, props : Props])
    \cup Fit([type : {9}, v : Versions, msgid : {513}, codes : {<<1>>, <<128, 2>>}, props : Props])
    \cup Fit([type : {11}, v : {5}, msgid : {513}, codes : {<<0>>, <<17, 0>>}, props : Props])
    \cup Fit([type : {11}, v : {4}, msgid : {513}, codes : {<<>>}, props : Props])

(* Bytes at the edges of the ranges of UTF-8.                              *)
Edges == {97, 127, 128, 143, 144, 159, 160, 191, 193, 194, 224, 237, 239, 240, 244, 245}
EdgeStrings ==
    UNION {[1 .. n -> Edges] : n \in 0 .. 3}
    \cup [1 .. 4 -> {97, 128, 144, 191, 240, 244}]
Codec == INSTANCE MqttCodec WITH
    Sent <- SentPackets, Received <- ReceivedPackets, Strings <- EdgeStrings

(* Contents on both sides of the lengths at which the header grows; 140    *)
(* stands for 65536.                                                       *)
Bytes(n) == [i \in 1 .. n |-> (i * 37) % 256]
Contents ==
    {[head |-> Bytes(2), body |-> b] : b \in {<<>>, <<Bytes(3)>>, <<Bytes(2), <<>>, Bytes(5)>>}}
    \cup {[head |-> Bytes(3), body |-> <<Bytes(2), Bytes(n)>>] : n \in 115 .. 140}
RandomKeys == UNION {[1 .. n -> {0, 77, 129, 255}] : n \in 0 .. 4} \cup {Bytes(16), Bytes(20)}
Web == INSTANCE WebSocket WITH
    Long <- 140, Packets <- Contents, MaxFrames <- 2, Keys <- RandomKeys, Sizes <- {0, 1, 3, 4, 5, 7, 8, 25, 62}

-----------------------------------------------------------------------------
heapVars   == <<heap, size, current_size, heap_mutex, live>>
listVars   == <<elements, list, items>>
inVars     == <<def_queue, queues, arriving, arrived, packets, connections>>
outVars    == <<clientsds, cur_clientsds, rset, wset, connect_pending, write_pending, pending_wset,
                writes, pwset, waiting, broken, put, out, opens, puts>>
jsonVars   == <<printing, text, mem, kids, roots>>
codecVars  == <<job, wire, heard>>
webVars    == <<packet, frames, sent, key>>
socketVars == <<inVars, outVars>>

LibraryInit ==
    /\ part \in Parts
    /\ Memory!HeapInit /\ List!LInit /\ Input!BInit /\ Output!SInit /\ Text!TextInit
    /\ Tree!ItemsInit /\ Codec!CodecInit /\ Web!WebInit /\ HandlesInit

LibraryNext ==
    /\ UNCHANGED part
    /\ \/ /\ part = "heap" /\ Memory!HeapNext
          /\ UNCHANGED <<listVars, socketVars, jsonVars, codecVars, webVars, handleVars>>
       \/ /\ part = "list" /\ List!LNext
          /\ UNCHANGED <<heapVars, socketVars, jsonVars, codecVars, webVars, handleVars>>
       \/ /\ part = "input" /\ Input!BNext
          /\ UNCHANGED <<heapVars, listVars, outVars, jsonVars, codecVars, webVars, handleVars>>
       \/ /\ part = "output" /\ Output!SNext
          /\ UNCHANGED <<heapVars, listVars, inVars, jsonVars, codecVars, webVars, handleVars>>
       \/ /\ part = "text" /\ Text!TextNext
          /\ UNCHANGED <<heapVars, listVars, socketVars, mem, kids, roots, codecVars, webVars, handleVars>>
       \/ /\ part = "tree" /\ Tree!ItemsNext
          /\ UNCHANGED <<heapVars, listVars, socketVars, printing, text, codecVars, webVars, handleVars>>
       \/ /\ part = "codec" /\ Codec!CodecNext
          /\ UNCHANGED <<heapVars, listVars, socketVars, jsonVars, webVars, handleVars>>
       \/ /\ part = "web" /\ Web!WebNext
          /\ UNCHANGED <<heapVars, listVars, socketVars, jsonVars, codecVars, handleVars>>
       \/ /\ part = "handles" /\ HandlesNext
          /\ UNCHANGED <<heapVars, listVars, socketVars, jsonVars, codecVars, webVars>>

LibrarySpec ==
    LibraryInit /\ [][LibraryNext]_<<part, heapVars, listVars, socketVars, jsonVars, codecVars, webVars, handleVars>>

-----------------------------------------------------------------------------
(* The tree of the allocation records is ordered and balanced, and holds   *)
(* the live blocks with their sizes (Heap.c, Tree.c).                      *)
RecordsAreTheHeap == part = "heap" => Memory!RecordsAreTheHeap

(* The links of Paho's lists and of cJSON's items, in both directions,     *)
(* hold the elements in the order in which they were put there             *)
(* (LinkedList.c, cJSON.c).                                                *)
LinksAreTheLists ==
    /\ part = "list" => List!ListIsTheSequence
    /\ part = "tree" => Tree!ItemsAreTheTree

(* What was read from the sockets, what is queued of a packet cut short    *)
(* and what is on its way add up to what was sent (SocketBuffer.c).        *)
NoByteLost == part = "input" => Input!NoByteLost

(* The kernel gets the packets of a socket whole and in order, however the *)
(* writes are cut (Socket.c).                                              *)
WritesAreWhole == part = "output" => Output!WritesAreWhole

(* A value printed is read back as it was, no buffer, given or growing, is *)
(* written past its end, and literals become their characters (cJSON.c).   *)
TextIsFaithful == part = "text" => Text!ComesBack /\ Text!StaysInTheBuffer /\ Text!LiteralsDecode

(* The bytes written and the packets read are those the standard means,    *)
(* and only well-formed UTF-8 is accepted (MQTTPacket.c, MQTTPacketOut.c,  *)
(* MQTTProperties.c, utf-8.c).                                             *)
PacketsAreUnderstood == part = "codec" => Codec!PacketsAreUnderstood /\ Codec!StringsAreChecked

(* The first transmission of a packet is one frame that carries it, except *)
(* at the edges, and the key of the handshake can be decoded (WebSocket.c, *)
(* Base64.c).                                                              *)
FirstFramesAreWhole == part = "web" => Web!FirstFramesAreWhole /\ Web!KeyComesBack

(* WebSocket.c:266, "calculates the amount of data required for the        *)
(* websocket header": every transmission is one frame with its packet.     *)
FramesAreWhole == part = "web" => Web!FramesAreWhole
=============================================================================
