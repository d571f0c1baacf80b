-------------------------- MODULE MqttSessionProofs --------------------------
(***************************************************************************)
(* TypeOK, KeptUntilReceived, DeliveryKept, ArrivesOnce and                *)
(* SessionIsOnDisk of MqttSession, for every number of messages, ids and   *)
(* faults.                                                                 *)
(*   The invariant of the publishing half (IInv) looks at a persistent     *)
(* session's files and at a clean session's list alike: each gives the     *)
(* flows of a View, pairs of an id and a message.  Store says that list    *)
(* and files agree up to the removals a handler has still to do; Sound     *)
(* that one packet of a flow travels at a time, that what travels fits the *)
(* state the flow is in at both ends, and that what the broker lacks has a *)
(* flow.  It needs no order of the packets: a retry is sent only where     *)
(* nothing else of the flow travels, since the connection before took all  *)
(* of that away.                                                           *)
(*   To a message sent to the client the broker is the publisher, and the  *)
(* client's lists are what the broker's were: in the receiving half        *)
(* (Receiving) the flows are the broker's entries, the ids held those of   *)
(* the inbound list, and a message is got when it is in that list, in the  *)
(* queue, or was handed over.  The same Sound holds of this second view,   *)
(* Inward; Once adds that a message is in one of the three places only.    *)
(* All of that half holds until the process is killed.                     *)
(*   What a killed process leaves (Filing): the queue, the inbound list    *)
(* and their files agree up to what the handler has still to write and to  *)
(* remove.  MQTTClient_create sorts the files it finds by number and turns *)
(* the publications at the largest gap of their ids; a list whose ids lie  *)
(* within half of the circle is the only one that gives (OneOrder,         *)
(* WindowComesBack).                                                       *)
(***************************************************************************)
EXTENDS MqttSessionLemmas

-----------------------------------------------------------------------------
(* What leaves the flows alone. *)

\* The parts of the view, now
LEMMA ViewFields ==
    /\ View.flows = Flows /\ View.rel = Rels /\ View.end = Ends /\ View.held = broker.in
    /\ View.wire = toBroker \o held /\ View.back = toClient
    /\ View.pub = app.published /\ View.got = ToSet(app.received)
    /\ View.stage = IF Persistent THEN "kept" ELSE IF up THEN "lasts" ELSE "past"
    /\ Live(View) <=> Persistent \/ up
BY DEF View, Live

\* and after a step.
LEMMA ViewFieldsNext ==
    /\ View'.flows = Flows' /\ View'.rel = Rels' /\ View'.end = Ends' /\ View'.held = broker'.in
    /\ View'.wire = toBroker' \o held' /\ View'.back = toClient'
    /\ View'.pub = app'.published /\ View'.got = ToSet(app'.received)
    /\ View'.stage = IF Persistent' THEN "kept" ELSE IF up' THEN "lasts" ELSE "past"
BY DEF View

\* Packets have their places in the two directions, now
LEMMA Places ==
    ASSUME Shapes
    PROVE  /\ DOMAIN (toBroker \o held) \subseteq Nat \ {0}
           /\ DOMAIN toClient \subseteq Nat
           /\ DOMAIN (toBroker \o held) \subseteq Nat
<1>1. DOMAIN (toBroker \o held) \subseteq Nat \ {0}
  BY WireCut DEF Shapes
<1>2. DOMAIN toClient \subseteq Nat
  BY LenProperties DEF Shapes
<1> QED BY <1>1, <1>2

\* and after a step.
LEMMA PlacesNext ==
    ASSUME Shapes'
    PROVE  /\ DOMAIN (toBroker' \o held') \subseteq Nat \ {0}
           /\ DOMAIN toClient' \subseteq Nat
           /\ DOMAIN (toBroker' \o held') \subseteq Nat
<1>1. DOMAIN (toBroker' \o held') \subseteq Nat \ {0}
  BY WireCut DEF Shapes
<1>2. DOMAIN toClient' \subseteq Nat
  BY LenProperties DEF Shapes
<1> QED BY <1>1, <1>2

\* A step that leaves the lists and files of the publications alone.
LEMMA StoreFrame ==
    ASSUME Store, mode' = mode, alive' = alive,
           client'.out = client.out, client'.msgID = client.msgID,
           Sent' = Sent, Rest' = Rest, Ends' = Ends, TodoInv', KeyInv',
           app'.published = app.published
    PROVE  Store' /\ Flows' = Flows /\ Rels' = Rels
<1>1. OutInv'
  BY DEF Store, OutInv, Published
<1>2. FilesInv'
  BY DEF Store, FilesInv, Published
<1>3. MirrorInv'
  BY DEF Store, MirrorInv, Persistent
<1>4. Flows' = Flows /\ Rels' = Rels
  BY DEF Flows, Rels, Awaited, Persistent
<1> QED BY <1>1, <1>2, <1>3, <1>4 DEF Store

\* Pending operations that stay as they are.
LEMMA TodoSame ==
    ASSUME TodoInv, todo' = todo, Sent' = Sent
    PROVE  TodoInv' /\ Ends' = Ends
BY DEF TodoInv, Ends, Removals, Rm, File

\* Pending operations on the files of received messages only.
LEMMA TodoQuiet ==
    ASSUME todo = <<>>, \A i \in DOMAIN todo' : todo'[i].file.kind \in {"q", "r"}
    PROVE  TodoInv' /\ Ends' = {} /\ Ends = {}
<1>1. DOMAIN todo = {}
  BY EmptySeq, LenProperties
<1> QED BY <1>1 DEF TodoInv, Ends, Removals

\* Files that stay as they are.
LEMMA DiskSame ==
    ASSUME disk' = disk
    PROVE  Sent' = Sent /\ Rest' = Rest /\ (KeyInv => KeyInv')
BY DEF Sent, Rest, FilesOf, KeyInv

\* The view after a step that shows nothing to the publisher's flows.
LEMMA ViewFrame ==
    ASSUME Shapes', Sound(View), NEW d \in Nat, NEW e \in Nat,
           Flows' = Flows, Rels' \subseteq Rels,
           \A f \in Flows : f[1] \in Rels => f[1] \in Rels',
           Ends' \subseteq Ends, mode' = mode,
           broker'.in = broker.in, app'.published = app.published, app'.received = app.received,
           Persistent \/ up' = up,
           ForthFrom(toBroker' \o held', toBroker \o held, d),
           BackFrom(toClient', toClient, e)
    PROVE  Sound(View)'
<1>1. /\ View'.flows = View.flows /\ View'.rel \subseteq View.rel
      /\ \A f \in View.flows : f[1] \in View.rel => f[1] \in View'.rel
      /\ View'.end \subseteq View.end /\ View'.held = View.held
      /\ View'.pub = View.pub /\ View'.got = View.got
      /\ ForthFrom(View'.wire, View.wire, d) /\ BackFrom(View'.back, View.back, e)
  BY ViewFields, ViewFieldsNext
<1>2. View'.stage = View.stage
  BY ViewFields, ViewFieldsNext DEF Persistent
<1>3. DOMAIN View'.wire \subseteq Nat /\ DOMAIN View'.back \subseteq Nat
  BY PlacesNext, ViewFieldsNext
<1> HIDE DEF View
<1>4. Sound(View')
  BY <1>1, <1>2, <1>3, Unseen
<1> QED BY <1>4

\* A clean session without its list has no flows.
LEMMA CleanStore ==
    ASSUME Store, mode = "clean", mode' = mode,
           client'.out = <<>>, client'.msgID \in 0..MaxId, todo' = <<>>, disk' = {}
    PROVE  Store' /\ ~Persistent' /\ Flows' = {} /\ Rels' = {} /\ Ends' = {}
<1>1. DOMAIN (<<>>) = {} /\ Len(<<>>) = 0
  BY EmptySeq, LenProperties
<1>2. OutInv'
  <2>1. DOMAIN client'.out = {} /\ Len(client'.out) <= MaxInflight
    BY <1>1, IdAssumption
  <2> QED BY <2>1 DEF OutInv
<1>3. Sent' = {} /\ Rest' = {} /\ KeyInv'
  BY DEF Sent, Rest, FilesOf, KeyInv
<1>4. FilesInv'
  <2>1. Cardinality(Sent') <= MaxInflight
    BY <1>3, FS_EmptySet, IdAssumption
  <2> QED BY <1>3, <2>1 DEF FilesInv
<1>5. TodoInv' /\ MirrorInv' /\ ~Persistent'
  BY <1>1 DEF TodoInv, MirrorInv, Persistent
<1>6. Flows' = {} /\ Rels' = {} /\ Ends' = {}
  <2>1. client'.out = <<>> /\ DOMAIN client'.out = {}
    BY <1>1
  <2>2. Awaited' = {} /\ Removals' = {}
    BY <1>1, <2>1 DEF Awaited, Removals
  <2> QED BY <1>5, <2>1, <2>2 DEF Flows, Rels, Ends
<1> QED BY <1>2, <1>3, <1>4, <1>5, <1>6 DEF Store

\* A clean session is closed: nothing is left.
LEMMA CleanEnd ==
    ASSUME Shapes', Shapes, Sound(View), Store, mode = "clean", mode' = mode,
           client'.out = <<>>, client'.msgID \in 0..MaxId,
           toClient' = <<>>, held' = <<>>, toBroker' = toBroker,
           todo' = <<>>, disk' = {}, up' = FALSE,
           broker'.in = broker.in, app'.published = app.published, app'.received = app.received
    PROVE  Store' /\ Sound(View)'
<1>1. DOMAIN (<<>>) = {}
  BY EmptySeq, LenProperties
<1>2. Store' /\ ~Persistent' /\ Flows' = {} /\ Rels' = {} /\ Ends' = {}
  BY CleanStore
<1>3. /\ View'.flows = {} /\ View'.rel = {} /\ View'.end = {} /\ View'.pub = View.pub
      /\ View'.got = View.got /\ View'.stage = "past" /\ View'.held = View.held
      /\ View'.back = <<>> /\ DOMAIN View'.back = {}
  BY <1>1, <1>2, ViewFields, ViewFieldsNext
<1>4. ForthFrom(View'.wire, View.wire, 0)
  BY WireCut, ViewFields, ViewFieldsNext DEF Shapes
<1>5. DOMAIN View'.wire \subseteq Nat
  BY PlacesNext, ViewFieldsNext
<1> HIDE DEF View
<1>6. Sound(View')
  BY <1>3, <1>4, <1>5, Reset
<1> QED BY <1>2, <1>6

\* How the two directions can change without a packet of a flow: not at all,
LEMMA SameWire ==
    ASSUME Shapes, toBroker' = toBroker, held' = held
    PROVE  ForthFrom(toBroker' \o held', toBroker \o held, 0)
<1>1. \A i \in DOMAIN (toBroker \o held) : i + 0 = i
  BY Places
<1> QED BY <1>1 DEF ForthFrom

\* in either of them,
LEMMA SameBack ==
    ASSUME Shapes, toClient' = toClient
    PROVE  BackFrom(toClient', toClient, 0)
<1>1. \A i \in DOMAIN toClient : i + 0 = i
  BY Places
<1> QED BY <1>1 DEF BackFrom

\* by losing all that comes back,
LEMMA NothingBack ==
    ASSUME toClient' = <<>>
    PROVE  BackFrom(toClient', toClient, 0)
<1>1. DOMAIN (<<>>) = {}
  BY EmptySeq, LenProperties
<1> QED BY <1>1 DEF BackFrom

\* by reading the first packet that comes back,
LEMMA OneBack ==
    ASSUME Shapes, toClient # <<>>, toClient' = Tail(toClient)
    PROVE  BackFrom(toClient', toClient, 1)
BY TailFacts DEF BackFrom, Shapes

\* by losing the packet that was partly written.
LEMMA CutWire ==
    ASSUME Shapes, toBroker' = toBroker, held' = <<>>
    PROVE  ForthFrom(toBroker' \o held', toBroker \o held, 0)
BY WireCut DEF Shapes

\* An added packet that is none of the flows'.
LEMMA PlusOtherWire ==
    ASSUME Shapes, NEW p \in Packets, ~Forth(p), held = <<>>,
           \/ toBroker' = Append(toBroker, p) /\ held' = <<>>
           \/ toBroker' = toBroker /\ held' = <<p>>
    PROVE  ForthFrom(toBroker' \o held', toBroker \o held, 0)
<1>1. Added(toBroker' \o held', toBroker \o <<>>, Len(toBroker) + 1, p)
  BY WirePlusOne DEF Shapes
<1>2. \A i \in DOMAIN (toBroker \o held) : i + 0 = i
  BY Places
<1> QED BY <1>1, <1>2 DEF Added, ForthFrom

\* The client answers, or not, and its publications stay as they are.
LEMMA QuietHandler ==
    ASSUME Shapes, Nothing, Store, Sound(View), Shapes',
           NEW c \in Clients, NEW p \in Packets, ~Forth(p),
           toClient # <<>>, todo = <<>>, alive, up, Answer(p, c) \/ Silent(c),
           c.out = client.out, c.msgID = client.msgID,
           mode' = mode, alive' = alive, broker' = broker, app' = app,
           Sent' = Sent, Rest' = Rest, KeyInv',
           \A i \in DOMAIN todo' : todo'[i].file.kind \in {"q", "r"},
           mode = "clean" => todo' = <<>> /\ disk' = {}
    PROVE  Nothing' /\ Store' /\ Sound(View)'
<1>1. TodoInv' /\ Ends' = Ends
  BY TodoQuiet
<1>2. CASE Silent(c) \/ (Transmit(p, c) /\ toClient' = Tail(toClient))
  <2>1. /\ client' = c /\ up' = up /\ toClient' = Tail(toClient)
        /\ run' = IF c.queue # <<>> THEN "deliver" ELSE "cycle"
    BY <1>2 DEF Silent, Transmit, Stay
  <2>2. Nothing'
    BY <2>1 DEF Nothing
  <2>3. Store' /\ Flows' = Flows /\ Rels' = Rels
    BY <1>1, <2>1, StoreFrame
  <2>4. ForthFrom(toBroker' \o held', toBroker \o held, 0)
    <3>1. CASE Silent(c)
      BY <3>1, SameWire DEF Silent
    <3>2. CASE Transmit(p, c)
      BY <3>2, PlusOtherWire DEF Transmit
    <3> QED BY <1>2, <3>1, <3>2
  <2>5. BackFrom(toClient', toClient, 1)
    BY <2>1, OneBack
  <2>6. Sound(View)'
    <3>1. 0 \in Nat /\ 1 \in Nat
      OBVIOUS
    <3> QED BY <1>1, <2>1, <2>3, <2>4, <2>5, <3>1, ViewFrame
  <2> QED BY <2>2, <2>3, <2>6
<1>3. CASE held # <<>> /\ Close(c) /\ UNCHANGED <<toBroker, faults>>
  <2>1. /\ up' = FALSE /\ held' = <<>> /\ toClient' = <<>> /\ run' = "cycle"
        /\ client' = Closed(c) /\ toBroker' = toBroker
    BY <1>3 DEF Close
  <2>2. CASE mode = "clean"
    <3>1. client'.out = <<>> /\ client'.msgID = 0
      BY <2>1, <2>2, ClosedIsAClient
    <3>2. 0 \in 0..MaxId
      BY IdAssumption
    <3>3. Store' /\ Sound(View)'
      BY <2>1, <2>2, <3>1, <3>2, CleanEnd
    <3>4. Nothing'
      BY <2>1, <2>2, <3>1 DEF Nothing
    <3> QED BY <3>3, <3>4
  <2>3. CASE mode # "clean"
    <3>1. client' = c
      BY <2>1, <2>3, ClosedIsAClient
    <3>2. Persistent
      BY <2>3, ModesAssumption DEF Shapes, Persistent
    <3>3. Store' /\ Flows' = Flows /\ Rels' = Rels
      BY <1>1, <3>1, StoreFrame
    <3>4. Sound(View)'
      <4>1. ForthFrom(toBroker' \o held', toBroker \o held, 0) /\ BackFrom(toClient', toClient, 0)
        BY <2>1, CutWire, NothingBack
      <4>2. 0 \in Nat
        OBVIOUS
      <4> QED BY <1>1, <3>2, <3>3, <4>1, <4>2, ViewFrame
    <3>5. Nothing'
      BY <2>1, <2>3 DEF Nothing
    <3> QED BY <3>3, <3>4, <3>5
  <2> QED BY <2>2, <2>3
<1> QED BY <1>2, <1>3 DEF Answer

\* Any other step that changes no list, no file of the publications, and
\* removes nothing they still travel with.
LEMMA QuietStep ==
    ASSUME Shapes, Nothing, Store, Sound(View), Shapes',
           client'.out = client.out, client'.msgID = client.msgID,
           mode' = mode, alive' = alive, Persistent \/ up' = up,
           broker'.in = broker.in, app'.published = app.published, app'.received = app.received,
           Sent' = Sent, Rest' = Rest, KeyInv', TodoInv', Ends' = Ends,
           NEW d \in Nat, NEW e \in Nat,
           ForthFrom(toBroker' \o held', toBroker \o held, d),
           BackFrom(toClient', toClient, e)
    PROVE  Store' /\ Sound(View)'
<1>1. Store' /\ Flows' = Flows /\ Rels' = Rels
  BY StoreFrame
<1>2. Sound(View)'
  BY <1>1, ViewFrame
<1> QED BY <1>1, <1>2

\* A step that touches no publication and nothing on its way.
LEMMA IdleStep ==
    ASSUME Shapes, Nothing, Store, Sound(View), Shapes',
           client'.out = client.out, client'.msgID = client.msgID,
           mode' = mode, alive' = alive, up' = up, broker'.in = broker.in,
           app'.published = app.published, app'.received = app.received,
           Sent' = Sent, Rest' = Rest, KeyInv', TodoInv', Ends' = Ends,
           toBroker' = toBroker, held' = held, toClient' = toClient
    PROVE  Store' /\ Sound(View)'
<1>1. ForthFrom(toBroker' \o held', toBroker \o held, 0) /\ BackFrom(toClient', toClient, 0)
  BY SameWire, SameBack
<1>2. 0 \in Nat
  OBVIOUS
<1> QED BY <1>1, <1>2, QuietStep

-----------------------------------------------------------------------------
(* The receiving side. *)

\* A file operation keeps names apart and touches one kind of file.
LEMMA AfterFacts ==
    ASSUME NEW d, NEW o, \A f, g \in d : SameKey(f, g) => f = g
    PROVE  /\ \A f, g \in After(d, o) : SameKey(f, g) => f = g
           /\ \A k : o.file.kind # k => FilesOf(After(d, o), k) = FilesOf(d, k)
<1>1. \A f, g \in After(d, o) : SameKey(f, g) => f = g
  BY DEF After, SameKey
<1>2. \A k : o.file.kind # k => FilesOf(After(d, o), k) = FilesOf(d, k)
  BY DEF After, FilesOf, SameKey
<1> QED BY <1>1, <1>2

\* Operations on files of received messages.
LEMMA OtherFile ==
    ASSUME KeyInv, NEW o, o.file.kind \in {"q", "r"}, disk' = After(disk, o)
    PROVE  KeyInv' /\ Sent' = Sent /\ Rest' = Rest
<1>1. o.file.kind # "s" /\ o.file.kind # "sc"
  OBVIOUS
<1>2. \A f, g \in disk : SameKey(f, g) => f = g
  BY DEF KeyInv
<1> QED BY <1>1, <1>2, AfterFacts DEF KeyInv, Sent, Rest

\* The client's acknowledgements belong to the other side's flows.
LEMMA AcksAreNotForth ==
    ASSUME NEW n \in Nat, NEW t \in {"PUBACK", "PUBREC", "PUBCOMP"}
    PROVE  Ack(t, n) \in Packets /\ ~Forth(Ack(t, n)) /\ Back(Ack(t, n))
<1>1. t \in Types
  BY DEF Types
<1>2. Ack(t, n) \in Packets /\ Ack(t, n).type = t
  BY <1>1, AckIsAPacket
<1> QED BY <1>2 DEF Forth, Back

\* The kinds of files the receiving handlers work on.
LEMMA QuietOps ==
    ASSUME NEW m, NEW n
    PROVE  /\ QueueFile(m).file.kind = "q" /\ QueueFile(m).op = "put"
           /\ Rm("r", n).file.kind = "r" /\ Rm("r", n).op = "rm"
           /\ Rm("q", n).file.kind = "q"
BY DEF QueueFile, Put, Rm, File

\* An empty sequence has no places.
LEMMA NoOps == \A i \in DOMAIN (<<>>) : FALSE
<1>1. DOMAIN (<<>>) = {}
  BY EmptySeq, LenProperties
<1> QED BY <1>1

\* Finishing a packet keeps the invariant.
LEMMA ContinueWriteKeeps ==
    ASSUME IInv, Shapes', ContinueWrite
    PROVE  Nothing' /\ Store' /\ Sound(View)'
<1> USE DEF IInv
<1>1. toBroker' \o held' = toBroker \o held
  <2>1. toBroker \o held \in Seq(Packets)
    BY CatFacts DEF Shapes
  <2>2. toBroker' = toBroker \o held /\ held' = <<>>
    BY DEF ContinueWrite
  <2> QED BY <2>1, <2>2, ConcatEmptySeq
<1>2. ForthFrom(toBroker' \o held', toBroker \o held, 0)
  <2>1. \A i \in DOMAIN (toBroker \o held) : i + 0 = i
    BY Places
  <2> QED BY <1>1, <2>1 DEF ForthFrom
<1>3. /\ Sent' = Sent /\ Rest' = Rest /\ KeyInv'
      /\ TodoInv' /\ Ends' = Ends /\ BackFrom(toClient', toClient, 0)
  BY DiskSame, TodoSame, SameBack DEF ContinueWrite, Store
<1>4. Store' /\ Sound(View)'
  <2>1. 0 \in Nat
    OBVIOUS
  <2> QED BY <1>2, <1>3, <2>1, QuietStep DEF ContinueWrite
<1>5. Nothing'
  BY DEF ContinueWrite, Nothing
<1> QED BY <1>4, <1>5

\* So do the steps of the thread between two packets,
LEMMA IdleActionsKeep ==
    ASSUME IInv, Shapes', FindReady \/ HandlePingresps
    PROVE  Nothing' /\ Store' /\ Sound(View)'
<1> USE DEF IInv
<1>1. /\ Sent' = Sent /\ Rest' = Rest /\ KeyInv' /\ TodoInv' /\ Ends' = Ends
  BY DiskSame, TodoSame DEF FindReady, HandlePingresps, Store
<1>2. Store' /\ Sound(View)'
  BY <1>1, IdleStep DEF FindReady, HandlePingresps
<1>3. Nothing'
  BY DEF FindReady, HandlePingresps, Nothing
<1> QED BY <1>2, <1>3

\* a message handed to messageArrived,
LEMMA DeliverKeeps ==
    ASSUME IInv, Shapes', Deliver
    PROVE  Nothing' /\ Store' /\ Sound(View)'
<1> USE DEF IInv
<1>1. Sent' = Sent /\ Rest' = Rest /\ KeyInv'
  BY DiskSame DEF Deliver, Store
<1>2. /\ client'.out = client.out /\ client'.msgID = client.msgID
      /\ app'.published = app.published /\ app'.received = app.received
      /\ \A i \in DOMAIN todo' : todo'[i].file.kind \in {"q", "r"}
      /\ mode = "clean" => todo' = <<>>
  <2>1. CASE UNCHANGED <<client, todo, app>>
    BY <2>1, NoOps DEF Deliver
  <2>2. CASE /\ app' = [app EXCEPT !.arrived = Append(@, Head(client.queue).msg)]
             /\ client' = [client EXCEPT !.queue = Tail(@)]
             /\ todo' = Filed(<<Rm("q", Head(client.queue).seq)>>)
    <3>1. /\ client'.out = client.out /\ client'.msgID = client.msgID
          /\ app'.published = app.published /\ app'.received = app.received
      BY <2>2 DEF Shapes, Clients, Apps
    <3>2. todo' = <<>> \/ todo' = <<Rm("q", Head(client.queue).seq)>>
      BY <2>2 DEF Filed
    <3>3. \A i \in DOMAIN todo' : todo'[i].file.kind \in {"q", "r"}
      BY <3>2, NoOps, QuietOps
    <3>4. mode = "clean" => todo' = <<>>
      BY <2>2 DEF Filed
    <3> QED BY <3>1, <3>3, <3>4
  <2> QED BY <2>1, <2>2 DEF Deliver
<1>3. TodoInv' /\ Ends' = Ends
  BY <1>2, TodoQuiet DEF Deliver
<1>4. Store' /\ Sound(View)'
  BY <1>1, <1>2, <1>3, IdleStep DEF Deliver
<1>5. Nothing'
  BY <1>2 DEF Deliver, Nothing
<1> QED BY <1>4, <1>5

\* a PUBLISH to the client,
LEMMA HandlePublishesKeeps ==
    ASSUME IInv, Shapes', HandlePublishes
    PROVE  Nothing' /\ Store' /\ Sound(View)'
<1> USE DEF IInv
<1>1. PICK p : Reads("PUBLISH", p) /\ (HandlePublish1(p) \/ HandlePublish2(p))
  BY DEF HandlePublishes
<1>2. p \in Packets /\ p.id \in Nat /\ p.msg \in Nat /\ toClient # <<>> /\ todo = <<>> /\ alive /\ up
  BY <1>1, ReadsFacts
<1>3. /\ Ack("PUBACK", p.id) \in Packets /\ ~Forth(Ack("PUBACK", p.id))
      /\ Ack("PUBREC", p.id) \in Packets /\ ~Forth(Ack("PUBREC", p.id))
  BY <1>2, AcksAreNotForth
<1>4. client \in Clients
  BY DEF Shapes
<1>5. mode' = mode /\ alive' = alive /\ broker' = broker /\ app' = app
  BY DEF HandlePublishes
<1>6. CASE HandlePublish1(p)
  <2>1. /\ Queued(client, p.msg) \in Clients /\ Queued(client, p.msg).out = client.out
        /\ Queued(client, p.msg).msgID = client.msgID
    BY <1>2, <1>4, QueuedIsAClient
  <2>2. Sent' = Sent /\ Rest' = Rest /\ KeyInv' /\ disk' = disk
    BY <1>6, DiskSame DEF HandlePublish1, Store
  <2>3. \E c \in {client, Queued(client, p.msg)} : Answer(Ack("PUBACK", p.id), c)
    BY <1>6 DEF HandlePublish1
  <2>4. todo' = <<>> \/ (todo' = <<QueueFile(p.msg)>> /\ mode # "clean")
    BY <1>6 DEF HandlePublish1, Filed
  <2>5. \A i \in DOMAIN todo' : todo'[i].file.kind \in {"q", "r"}
    BY <2>4, NoOps, QuietOps
  <2>6. mode = "clean" => todo' = <<>> /\ disk' = {}
    BY <2>2, <2>4 DEF Nothing
  <2> QED BY <1>2, <1>3, <1>4, <1>5, <2>1, <2>2, <2>3, <2>5, <2>6, QuietHandler
<1>7. CASE HandlePublish2(p)
  <2> DEFINE kept == {x \in client.inb : x.id # p.id} \cup {[id |-> p.id, msg |-> p.msg]}
             c == [client EXCEPT !.inb = kept]
  <2>1. c \in Clients /\ c.out = client.out /\ c.msgID = client.msgID
    <3>1. [id |-> p.id, msg |-> p.msg] \in [id : Nat, msg : Nat] /\ client.inb \in SUBSET [id : Nat, msg : Nat]
      BY <1>2, <1>4 DEF Clients
    <3>2. kept \in SUBSET [id : Nat, msg : Nat]
      BY <3>1
    <3> HIDE DEF kept
    <3> QED BY <1>4, <3>2 DEF Clients
  <2>2. Answer(Ack("PUBREC", p.id), client) \/ Answer(Ack("PUBREC", p.id), c)
    BY <1>7 DEF HandlePublish2
  <2> HIDE DEF c
  <2>3. Sent' = Sent /\ Rest' = Rest /\ KeyInv'
    <3>1. CASE disk' = disk
      BY <3>1, DiskSame DEF Store
    <3>2. CASE disk' = After(disk, Put(File("r", p.id, p.msg, 2)))
      <4>1. Put(File("r", p.id, p.msg, 2)).file.kind = "r"
        BY DEF Put, File
      <4> QED BY <3>2, <4>1, OtherFile DEF Store
    <3> QED BY <1>7, <3>1, <3>2 DEF HandlePublish2
  <2>4. todo' = <<>> /\ (mode = "clean" => disk' = {})
    BY <1>7 DEF HandlePublish2, Nothing
  <2>5. \A i \in DOMAIN todo' : todo'[i].file.kind \in {"q", "r"}
    BY <2>4, NoOps
  <2> QED BY <1>2, <1>3, <1>4, <1>5, <2>1, <2>2, <2>3, <2>4, <2>5, QuietHandler
<1> QED BY <1>1, <1>6, <1>7

\* and a PUBREL to the client.
LEMMA HandlePubrelsKeeps ==
    ASSUME IInv, Shapes', HandlePubrels
    PROVE  Nothing' /\ Store' /\ Sound(View)'
<1> USE DEF IInv
<1>1. PICK p : /\ Reads("PUBREL", p)
               /\ \/ \E e \in Inbound(p.id) :
                       LET c == [client EXCEPT !.inb = @ \ {e}]
                       IN  \/ Answer(Ack("PUBCOMP", p.id), client) /\ UNCHANGED todo
                           \/ /\ Answer(Ack("PUBCOMP", p.id), Queued(c, e.msg))
                              /\ todo' = Filed(<<QueueFile(e.msg), Rm("r", p.id)>>)
                  \/ Answer(Ack("PUBCOMP", p.id), client) /\ UNCHANGED todo
                  \/ Silent(client) /\ UNCHANGED todo
  BY DEF HandlePubrels
<1>2. p \in Packets /\ p.id \in Nat /\ toClient # <<>> /\ todo = <<>> /\ alive /\ up
  BY <1>1, ReadsFacts
<1>3. Ack("PUBCOMP", p.id) \in Packets /\ ~Forth(Ack("PUBCOMP", p.id))
  BY <1>2, AcksAreNotForth
<1>4. client \in Clients
  BY DEF Shapes
<1>5. mode' = mode /\ alive' = alive /\ broker' = broker /\ app' = app /\ disk' = disk
  BY DEF HandlePubrels
<1>6. Sent' = Sent /\ Rest' = Rest /\ KeyInv' /\ (mode = "clean" => disk' = {})
  BY <1>5, DiskSame DEF Store, Nothing
<1>7. CASE (Answer(Ack("PUBCOMP", p.id), client) \/ Silent(client)) /\ UNCHANGED todo
  <2>1. \A i \in DOMAIN todo' : todo'[i].file.kind \in {"q", "r"}
    BY <1>2, <1>7, NoOps
  <2> QED BY <1>2, <1>3, <1>4, <1>5, <1>6, <1>7, <2>1, QuietHandler
<1>8. ASSUME NEW e \in Inbound(p.id),
             Answer(Ack("PUBCOMP", p.id), Queued([client EXCEPT !.inb = @ \ {e}], e.msg)),
             todo' = Filed(<<QueueFile(e.msg), Rm("r", p.id)>>)
      PROVE  Nothing' /\ Store' /\ Sound(View)'
  <2> DEFINE c == [client EXCEPT !.inb = @ \ {e}]
             q == Queued(c, e.msg)
  <2>1. c \in Clients /\ c.out = client.out /\ c.msgID = client.msgID /\ e.msg \in Nat
    BY <1>4 DEF Inbound, Clients
  <2>2. q \in Clients /\ q.out = client.out /\ q.msgID = client.msgID /\ Answer(Ack("PUBCOMP", p.id), q)
    <3> HIDE DEF c
    <3>1. q \in Clients /\ q.out = c.out /\ q.msgID = c.msgID
      BY <2>1, QueuedIsAClient
    <3> QED BY <1>8, <2>1, <3>1 DEF c
  <2> HIDE DEF q
  <2>3. todo' = <<>> \/ (todo' = <<QueueFile(e.msg), Rm("r", p.id)>> /\ mode # "clean")
    BY <1>8 DEF Filed
  <2>4. \A i \in DOMAIN todo' : todo'[i].file.kind \in {"q", "r"}
    BY <2>3, NoOps, QuietOps
  <2>5. mode = "clean" => todo' = <<>>
    BY <2>3
  <2> QED BY <1>2, <1>3, <1>5, <1>6, <2>2, <2>4, <2>5, QuietHandler
<1> QED BY <1>1, <1>7, <1>8

-----------------------------------------------------------------------------
(* Connections and processes. *)

\* The connection is lost: a persistent session goes on, a clean one is past.
LEMMA DropKeeps ==
    ASSUME IInv, Shapes', Drop
    PROVE  Nothing' /\ Store' /\ Sound(View)'
<1> USE DEF IInv
<1>1. /\ up' = FALSE /\ held' = <<>> /\ toClient' = <<>> /\ run' = "cycle"
      /\ client' = Closed(client) /\ toBroker' = toBroker
      /\ mode' = mode /\ alive' = alive /\ broker' = broker /\ app' = app
      /\ disk' = disk /\ todo' = todo /\ todo = <<>> /\ alive
  BY DEF Drop, Close
<1>2. client \in Clients
  BY DEF Shapes
<1>3. CASE mode = "clean"
  <2>1. client'.out = <<>> /\ client'.msgID = 0
    BY <1>1, <1>2, <1>3, ClosedIsAClient
  <2>2. 0 \in 0..MaxId
    BY IdAssumption
  <2>3. disk' = {}
    BY <1>1, <1>3 DEF Nothing
  <2>4. Store' /\ Sound(View)'
    BY <1>1, <1>3, <2>1, <2>2, <2>3, CleanEnd
  <2>5. Nothing'
    BY <1>1, <1>3, <2>1, <2>3 DEF Nothing
  <2> QED BY <2>4, <2>5
<1>4. CASE mode # "clean"
  <2>1. client' = client
    BY <1>1, <1>2, <1>4, ClosedIsAClient
  <2>2. Persistent
    BY <1>4, ModesAssumption DEF Shapes, Persistent
  <2>3. Sent' = Sent /\ Rest' = Rest /\ KeyInv' /\ TodoInv' /\ Ends' = Ends
    BY <1>1, DiskSame, TodoSame DEF Store
  <2>4. ForthFrom(toBroker' \o held', toBroker \o held, 0) /\ BackFrom(toClient', toClient, 0)
    BY <1>1, CutWire, NothingBack
  <2>5. 0 \in Nat
    OBVIOUS
  <2>6. Store' /\ Sound(View)'
    BY <1>1, <2>1, <2>2, <2>3, <2>4, <2>5, QuietStep
  <2>7. Nothing'
    BY <1>1, <1>4, <2>1 DEF Nothing
  <2> QED BY <2>6, <2>7
<1> QED BY <1>3, <1>4

\* The broker sends something that is no answer.
LEMMA OtherReply ==
    ASSUME Shapes, NEW p \in Packets, ~Back(p), Reply(p)
    PROVE  BackFrom(toClient', toClient, 0)
<1>1. CASE toClient' = toClient
  BY <1>1, SameBack
<1>2. CASE toClient' = Append(toClient, p)
  <2>1. Added(toClient', toClient, Len(toClient) + 1, p)
    BY <1>2, AppendFacts DEF Shapes
  <2>2. \A i \in DOMAIN toClient : i + 0 = i
    BY Places
  <2> QED BY <2>1, <2>2 DEF Added, BackFrom
<1> QED BY <1>1, <1>2 DEF Reply

\* The broker's packets get lost when there is no connection.
LEMMA ReplyNeedsConnection ==
    ASSUME Nothing, NEW p, Reply(p)
    PROVE  toClient' # <<>> => up
<1>1. CASE up
  BY <1>1
<1>2. CASE ~up
  BY <1>2 DEF Reply, Nothing
<1> QED BY <1>1, <1>2

\* A message sent to the client does not touch what it publishes.
LEMMA BrokerPublishesKeeps ==
    ASSUME IInv, Shapes', NEW q \in Qos, BrokerPublishes(q)
    PROVE  Nothing' /\ Store' /\ Sound(View)'
<1> USE DEF IInv
<1>1. PICK n \in Nat :
              LET e == Entry(n, q, Len(app.offered) + 1)
                  p == Packet("PUBLISH", n, q, Len(app.offered) + 1, FALSE)
              IN  /\ e \in Entries /\ p \in Packets
                  /\ broker' = [broker EXCEPT !.out = Append(@, e)]
                  /\ Reply(p)
  BY BrokerPublishesFacts
<1> DEFINE p == Packet("PUBLISH", n, q, Len(app.offered) + 1, FALSE)
<1>2. p \in Packets /\ ~Back(p) /\ Reply(p)
  <2>1. p.type = "PUBLISH"
    BY DEF Packet
  <2> QED BY <1>1, <2>1 DEF Back
<1> HIDE DEF p
<1>3. BackFrom(toClient', toClient, 0) /\ (toClient' # <<>> => up)
  BY <1>2, OtherReply, ReplyNeedsConnection
<1>4. broker'.in = broker.in
  BY <1>1 DEF Shapes
<1>5. app'.published = app.published /\ app'.received = app.received
  BY DEF BrokerPublishes, Shapes, Apps
<1>6. Sent' = Sent /\ Rest' = Rest /\ KeyInv' /\ TodoInv' /\ Ends' = Ends
      /\ ForthFrom(toBroker' \o held', toBroker \o held, 0)
  BY DiskSame, TodoSame, SameWire DEF Store, BrokerPublishes
<1>7. Store' /\ Sound(View)'
  <2>1. 0 \in Nat
    OBVIOUS
  <2> QED BY <1>3, <1>4, <1>5, <1>6, <2>1, QuietStep DEF BrokerPublishes
<1>8. Nothing'
  BY <1>3 DEF BrokerPublishes, Nothing
<1> QED BY <1>7, <1>8

\* The process is killed: the files keep the flows.
LEMMA CrashKeeps ==
    ASSUME IInv, Shapes', Crash
    PROVE  Nothing' /\ Store' /\ Sound(View)'
<1> USE DEF IInv
<1>1. /\ alive' = FALSE /\ up' = FALSE /\ client' = NoLists
      /\ held' = <<>> /\ todo' = <<>> /\ toClient' = <<>> /\ run' = "cycle"
      /\ mode' = mode /\ disk' = disk /\ toBroker' = toBroker /\ broker' = broker
  BY DEF Crash
<1>2. client'.out = <<>> /\ client'.msgID = 0 /\ 0 \in 0..MaxId
  BY <1>1, IdAssumption DEF NoLists
<1>3. app'.published = app.published /\ app'.received = app.received
  BY DEF Crash, Shapes, Apps
<1>4. Nothing'
  BY <1>1, <1>2 DEF Nothing
<1>5. CASE mode = "clean"
  <2>1. disk' = {}
    BY <1>1, <1>5 DEF Nothing
  <2> QED BY <1>1, <1>2, <1>3, <1>4, <1>5, <2>1, CleanEnd
<1>6. CASE mode # "clean"
  <2>1. Persistent /\ Persistent'
    BY <1>1, <1>6, ModesAssumption DEF Shapes, Persistent
  <2>2. Sent' = Sent /\ Rest' = Rest /\ KeyInv'
    BY <1>1, DiskSame DEF Store
  <2>3. Flows' = Flows /\ Rels' = Rels
    BY <2>1, <2>2 DEF Flows, Rels
  <2>4. TodoInv' /\ Ends' = {}
    BY <1>1, NoOps DEF TodoInv, Ends, Removals
  <2>5. OutInv'
    <3>1. DOMAIN client'.out = {} /\ Len(client'.out) <= MaxInflight
      <4>1. DOMAIN (<<>>) = {} /\ Len(<<>>) = 0
        BY EmptySeq, LenProperties
      <4> QED BY <1>2, <4>1, IdAssumption
    <3> QED BY <1>2, <3>1 DEF OutInv
  <2>6. FilesInv' /\ MirrorInv'
    BY <1>1, <1>3, <2>2 DEF Store, FilesInv, Published, MirrorInv
  <2>7. ForthFrom(toBroker' \o held', toBroker \o held, 0) /\ BackFrom(toClient', toClient, 0)
    BY <1>1, CutWire, NothingBack
  <2>8. Sound(View)'
    <3>1. 0 \in Nat
      OBVIOUS
    <3> QED BY <1>1, <1>3, <2>1, <2>3, <2>4, <2>7, <3>1, ViewFrame
  <2> QED BY <1>4, <2>2, <2>4, <2>5, <2>6, <2>8 DEF Store
<1> QED BY <1>5, <1>6

\* The files read back give the list that was lost.
LEMMA CreateKeeps ==
    ASSUME IInv, Shapes', Create
    PROVE  Nothing' /\ Store' /\ Sound(View)'
<1> USE DEF IInv
<1>1. /\ ~alive /\ ~up /\ alive' = TRUE /\ client' = Restored(disk)
      /\ disk' = WithoutOrphans(disk) /\ mode' = mode
      /\ up' = up /\ held' = held /\ todo' = todo /\ run' = run
      /\ toBroker' = toBroker /\ toClient' = toClient /\ broker' = broker /\ app' = app
      /\ todo = <<>>
  BY DEF Create, Nothing
<1>2. disk \in SUBSET Files /\ IsFiniteSet(disk) /\ \A f, g \in disk : SameKey(f, g) => f = g
  BY DEF Shapes, Store, KeyInv
<1> DEFINE o == Restored(disk).out
<1>3. /\ Restored(disk).msgID = 0
      /\ Len(o) = Cardinality(Sent)
      /\ \A i \in DOMAIN o : \E f \in Sent :
            /\ o[i].id = f.n /\ o[i].qos = f.qos /\ o[i].msg = f.msg
            /\ o[i].next = IF \E g \in Rest : g.n = f.n THEN "PUBCOMP"
                           ELSE IF f.qos = 2 THEN "PUBREC" ELSE "PUBACK"
      /\ \A f \in Sent : \E i \in DOMAIN o : o[i].id = f.n
      /\ \A i, j \in DOMAIN o : o[i].id = o[j].id => i = j
  BY <1>2, RestoredFacts DEF Sent, Rest
<1> HIDE DEF o
<1>4. /\ Sent' = Sent /\ KeyInv'
      /\ \A f : f \in Rest' <=> f \in Rest /\ \E g \in Sent : g.n = f.n
  <2>1. Sent' = Sent
    BY <1>1 DEF WithoutOrphans, Sent, FilesOf
  <2>2. KeyInv'
    BY <1>1, <1>2 DEF WithoutOrphans, KeyInv
  <2>3. \A f : f \in Rest' <=> f \in Rest /\ \E g \in Sent : g.n = f.n
    BY <1>1 DEF WithoutOrphans, Sent, Rest, FilesOf
  <2> QED BY <2>1, <2>2, <2>3
<1>5. TodoInv' /\ Ends' = {} /\ Ends = {}
  BY <1>1, NoOps DEF TodoInv, Ends, Removals
<1>6. FilesInv /\ \A f \in Sent : f.qos = 1 \/ f.qos = 2
  <2>1. FilesInv
    BY DEF Store
  <2>2. \A f \in Sent : f.qos \in Qos
    <3>1. \A f \in Sent : f.msg \in Published /\ f.qos = app.published[f.msg]
      BY <2>1 DEF FilesInv
    <3>2. \A x \in Published : app.published[x] \in Qos
      BY ElementOfSeq DEF Published, Shapes, Apps
    <3> QED BY <3>1, <3>2
  <2> QED BY <2>1, <2>2, QosAreSmall
<1>7. FilesInv'
  <2>1. Cardinality(Sent') <= MaxInflight
    BY <1>4, <1>6 DEF FilesInv
  <2>2. Published' = Published /\ app' = app
    BY <1>1 DEF Published
  <2> QED BY <1>4, <1>6, <2>1, <2>2 DEF FilesInv
<1>8. OutInv'
  <2>1. client'.out = o /\ client'.msgID \in 0..MaxId /\ Published' = Published /\ app' = app
    BY <1>1, <1>3, IdAssumption DEF o, Published
  <2>2. Len(client'.out) <= MaxInflight
    BY <1>3, <1>6, <2>1 DEF FilesInv
  <2>3. ASSUME NEW i \in DOMAIN o
        PROVE  /\ o[i].id \in 1..MaxId /\ o[i].msg \in Published
               /\ o[i].qos = app.published[o[i].msg]
               /\ o[i].next = "PUBACK" <=> o[i].qos = 1
    <3>1. PICK f \in Sent :
            /\ o[i].id = f.n /\ o[i].qos = f.qos /\ o[i].msg = f.msg
            /\ o[i].next = IF \E g \in Rest : g.n = f.n THEN "PUBCOMP"
                           ELSE IF f.qos = 2 THEN "PUBREC" ELSE "PUBACK"
      BY <1>3
    <3>2. f.n \in 1..MaxId /\ f.msg \in Published /\ f.qos = app.published[f.msg]
      BY <1>6 DEF FilesInv
    <3>3. (\E g \in Rest : g.n = f.n) => f.qos = 2
      BY <1>6 DEF FilesInv
    <3>4. f.qos = 1 \/ f.qos = 2
      BY <1>6
    <3> QED BY <3>1, <3>2, <3>3, <3>4
  <2> QED BY <1>3, <2>1, <2>2, <2>3 DEF OutInv
<1>9. MirrorInv'
  <2>1. client'.out = o
    BY <1>1 DEF o
  <2>2. ASSUME NEW i \in DOMAIN o
        PROVE  /\ \E f \in Sent' : f.n = o[i].id /\ f.msg = o[i].msg
               /\ o[i].next = "PUBCOMP" <=> \E f \in Rest' : f.n = o[i].id
    <3>1. PICK f \in Sent :
            /\ o[i].id = f.n /\ o[i].msg = f.msg
            /\ o[i].next = IF \E g \in Rest : g.n = f.n THEN "PUBCOMP"
                           ELSE IF f.qos = 2 THEN "PUBREC" ELSE "PUBACK"
      BY <1>3
    <3>2. (\E g \in Rest' : g.n = f.n) <=> (\E g \in Rest : g.n = f.n)
      BY <1>4
    <3> QED BY <1>4, <3>1, <3>2
  <2>3. \A f \in Sent' \cup Rest' : \E i \in DOMAIN o : o[i].id = f.n
    BY <1>3, <1>4
  <2> QED BY <1>5, <2>1, <2>2, <2>3 DEF MirrorInv
<1>10. Persistent \/ disk = {}
  BY ModesAssumption DEF Nothing, Shapes, Persistent
<1>11. Flows' = Flows /\ Rels' \subseteq Rels /\ \A f \in Flows : f[1] \in Rels => f[1] \in Rels'
  <2>1. CASE Persistent
    <3>1. Persistent'
      BY <1>1, <2>1 DEF Persistent
    <3>2. Flows' = Flows
      BY <1>4, <2>1, <3>1 DEF Flows
    <3>3. Rels' \subseteq Rels
      BY <1>4, <2>1, <3>1 DEF Rels
    <3>4. \A f \in Flows : f[1] \in Rels => f[1] \in Rels'
      <4>1. \A f \in Flows : \E g \in Sent : g.n = f[1]
        BY <2>1 DEF Flows
      <4> QED BY <1>4, <2>1, <3>1, <4>1 DEF Rels
    <3> QED BY <3>2, <3>3, <3>4
  <2>2. CASE ~Persistent
    <3>1. ~Persistent'
      BY <1>1, <2>2 DEF Persistent
    <3>2. Sent = {}
      BY <1>10, <2>2 DEF Sent, FilesOf
    <3>3. DOMAIN client'.out = {}
      BY <1>1, <1>3, <3>2 DEF o
    <3>4. Flows' = {} /\ Rels' = {}
      BY <3>1, <3>3 DEF Flows, Rels, Awaited
    <3>5. client.out = <<>>
      BY <1>1 DEF Nothing
    <3>6. Flows = {} /\ Rels = {}
      BY <2>2, <3>5, NoOps DEF Flows, Rels, Awaited
    <3> QED BY <3>4, <3>6
  <2> QED BY <2>1, <2>2
<1>12. ForthFrom(toBroker' \o held', toBroker \o held, 0) /\ BackFrom(toClient', toClient, 0)
  BY <1>1, SameWire, SameBack
<1>13. Sound(View)'
  <2>1. 0 \in Nat
    OBVIOUS
  <2> QED BY <1>1, <1>5, <1>11, <1>12, <2>1, ViewFrame
<1>14. Nothing'
  <2>1. mode = "clean" => disk' = {} /\ client'.out = <<>>
    <3> SUFFICES ASSUME mode = "clean" PROVE disk' = {} /\ client'.out = <<>>
      OBVIOUS
    <3>1. disk = {}
      BY DEF Nothing
    <3>2. disk' = {} /\ Sent = {}
      BY <1>1, <3>1 DEF WithoutOrphans, Sent, FilesOf
    <3>3. Len(client'.out) = 0
      BY <1>1, <1>3, <3>2, FS_EmptySet DEF o
    <3>4. client'.out \in Seq(Entries)
      BY DEF Shapes, Clients
    <3> QED BY <3>2, <3>3, <3>4, EmptySeq
  <2> QED BY <1>1, <2>1 DEF Nothing
<1> QED BY <1>4, <1>5, <1>7, <1>8, <1>9, <1>13, <1>14 DEF Store

-----------------------------------------------------------------------------
(* The broker. *)

\* Published messages have QoS 1 or 2.
LEMMA PublishedQos ==
    ASSUME Shapes
    PROVE  /\ DOMAIN app.published = Published
           /\ \A m \in Published : app.published[m] \in {1, 2}
<1>1. app.published \in Seq(Qos)
  BY DEF Shapes, Apps
<1>2. DOMAIN app.published = Published /\ \A m \in Published : app.published[m] \in Qos
  BY <1>1, ElementOfSeq, LenProperties DEF Published
<1> QED BY <1>2, QosAreSmall

\* An id whose PUBREL is due is a QoS 2 message's.
LEMMA ReleasedAreQos2 ==
    ASSUME Shapes, Store
    PROVE  \A f \in Flows : f[1] \in Rels => app.published[f[2]] = 2
<1>1. CASE Persistent
  <2>1. \A g \in Sent : (\E f \in Rest : f.n = g.n) => app.published[g.msg] = 2
    BY DEF Store, FilesInv
  <2> QED BY <1>1, <2>1 DEF Flows, Rels
<1>2. CASE ~Persistent
  <2>1. ASSUME NEW i \in DOMAIN client.out, client.out[i].id \in Rels
        PROVE  app.published[client.out[i].msg] = 2
    <3>1. PICK j \in DOMAIN client.out : client.out[j].next = "PUBCOMP" /\ client.out[j].id = client.out[i].id
      BY <1>2, <2>1 DEF Rels, Awaited
    <3>2. client.out[i].next = "PUBCOMP"
      BY <3>1 DEF Store, OutInv
    <3>3. client.out[i].qos # 1 /\ client.out[i].msg \in Published
          /\ client.out[i].qos = app.published[client.out[i].msg]
      BY <3>2 DEF Store, OutInv
    <3> QED BY <3>3, PublishedQos
  <2> QED BY <1>2, <2>1 DEF Flows
<1> QED BY <1>1, <1>2

\* A reply is added to what comes back, if there is a connection.
LEMMA ReplyAnswers ==
    ASSUME Shapes, NEW q \in Packets, Reply(q)
    PROVE  \/ BackFrom(toClient', toClient, 0)
           \/ up /\ \E k, p : Added(toClient', toClient, k, p) /\ p.type = q.type /\ p.id = q.id
<1>1. CASE ~up
  BY <1>1, SameBack DEF Reply
<1>2. CASE up
  <2>1. Added(toClient', toClient, Len(toClient) + 1, q)
    BY <1>2, AppendFacts DEF Reply, Shapes
  <2> QED BY <1>2, <2>1
<1> QED BY <1>1, <1>2

\* A message received joins the set of them.
LEMMA OneMoreReceived ==
    ASSUME NEW s \in Seq(Nat), NEW m \in Nat
    PROVE  ToSet(Append(s, m)) = ToSet(s) \cup {m}
<1>1. Added(Append(s, m), s, Len(s) + 1, m)
  BY AppendFacts
<1> HIDE DEF Added
<1>2. /\ DOMAIN Append(s, m) = DOMAIN s \cup {Len(s) + 1} /\ Append(s, m)[Len(s) + 1] = m
      /\ \A i \in DOMAIN s : Append(s, m)[i] = s[i]
  BY <1>1 DEF Added
<1> QED BY <1>2 DEF ToSet

\* ReceivedNow for a message of each kind.
LEMMA Received1 ==
    ASSUME NEW s, NEW t, Sound(s), 1 \in DOMAIN s.wire,
           NEW n, NEW m, s.wire[1].type = "PUBLISH", s.wire[1].id = n, s.wire[1].msg = m,
           s.pub[m] = 1, DOMAIN t.wire \subseteq Nat \ {0}, DOMAIN t.back \subseteq Nat,
           ForthFrom(t.wire, s.wire, 1), Answered(s, t, n, "PUBACK"),
           t.held = s.held, t.got = s.got \cup {m},
           t.flows = s.flows, t.rel = s.rel, t.end = s.end, t.pub = s.pub, t.stage = s.stage
    PROVE  Sound(t)
<1>1. s.pub[m] \in {1, 2}
  OBVIOUS
<1> QED BY <1>1, ReceivedNow

\* The second case of a PUBLISH, of QoS 2.
LEMMA Received2 ==
    ASSUME NEW s, NEW t, Sound(s), 1 \in DOMAIN s.wire,
           NEW n, NEW m, s.wire[1].type = "PUBLISH", s.wire[1].id = n, s.wire[1].msg = m,
           s.pub[m] = 2, DOMAIN t.wire \subseteq Nat \ {0}, DOMAIN t.back \subseteq Nat,
           ForthFrom(t.wire, s.wire, 1), Answered(s, t, n, "PUBREC"),
           t.held = s.held \cup {n}, t.got = IF n \in s.held THEN s.got ELSE s.got \cup {m},
           t.flows = s.flows, t.rel = s.rel, t.end = s.end, t.pub = s.pub, t.stage = s.stage
    PROVE  Sound(t)
<1>1. s.pub[m] \in {1, 2}
  OBVIOUS
<1> QED BY <1>1, ReceivedNow

\* What the broker reads first.
LEMMA FirstOnTheWire ==
    ASSUME Shapes, toBroker # <<>>, toBroker' = Tail(toBroker), held' = held
    PROVE  /\ 1 \in DOMAIN View.wire /\ View.wire[1] = Head(toBroker)
           /\ ForthFrom(toBroker' \o held', toBroker \o held, 1)
           /\ DOMAIN (toBroker' \o held') \subseteq Nat \ {0}
<1>1. /\ ForthFrom(Tail(toBroker) \o held, toBroker \o held, 1)
      /\ 1 \in DOMAIN (toBroker \o held) /\ (toBroker \o held)[1] = Head(toBroker)
      /\ DOMAIN (Tail(toBroker) \o held) \subseteq Nat \ {0}
  BY WireMinusOne DEF Shapes
<1> QED BY <1>1, ViewFields

\* A PUBLISH on its way is of a published message.
LEMMA FirstIsPublished ==
    ASSUME Shapes, Sound(View), toBroker # <<>>, Head(toBroker).type = "PUBLISH"
    PROVE  /\ Head(toBroker).msg \in Published
           /\ Head(toBroker).qos = app.published[Head(toBroker).msg]
           /\ Head(toBroker).qos \in {1, 2}
<1>1. 1 \in DOMAIN View.wire /\ View.wire[1] = Head(toBroker)
  <2>1. 1 \in DOMAIN (toBroker \o held) /\ (toBroker \o held)[1] = Head(toBroker)
    BY WireMinusOne DEF Shapes
  <2> QED BY <2>1, ViewFields
<1>2. View.pub = app.published
  BY ViewFields
<1> HIDE DEF View
<1>3. PublishOK(View, Head(toBroker))
  BY <1>1 DEF Sound, WireOK
<1>4. Head(toBroker).msg \in DOMAIN app.published /\ Head(toBroker).qos = app.published[Head(toBroker).msg]
  BY <1>2, <1>3 DEF PublishOK
<1> QED BY <1>4, PublishedQos

\* The broker reads a packet.
LEMMA BrokerReadsKeeps ==
    ASSUME IInv, Shapes', BrokerReads
    PROVE  Nothing' /\ Store' /\ Sound(View)'
<1> USE DEF IInv
<1> DEFINE p == Head(toBroker)
<1>1. /\ mode' = mode /\ alive' = alive /\ up' = up /\ client' = client /\ held' = held
      /\ todo' = todo /\ disk' = disk /\ run' = run /\ toBroker # <<>> /\ toBroker' = Tail(toBroker)
  BY DEF BrokerReads
<1>2. /\ p.type = "PUBLISH" =>
           p.msg \in Published /\ p.qos = app.published[p.msg] /\ p.qos \in {1, 2}
      /\ p \in Packets
      /\ ReadPublish1(p) \/ ReadPublish2(p) \/ ReadPubrel(p) \/ ReadAck(p)
  BY <1>1, FirstIsPublished, BrokerReadsFacts
<1>3. /\ 1 \in DOMAIN View.wire /\ View.wire[1] = p
      /\ ForthFrom(toBroker' \o held', toBroker \o held, 1)
      /\ DOMAIN (toBroker' \o held') \subseteq Nat \ {0}
  BY <1>1, FirstOnTheWire
<1>4. p.id \in Nat /\ p.msg \in Nat
  BY <1>2 DEF Packets
<1>5. \A t \in {"PUBACK", "PUBREC", "PUBCOMP", "PUBREL"} :
         Ack(t, p.id) \in Packets /\ Ack(t, p.id).type = t /\ Ack(t, p.id).id = p.id
  BY <1>4, AckIsAPacket DEF Types
<1> HIDE DEF p
<1>6. toClient' # <<>> => up
  <2>1. toClient' = toClient \/ \E q : Reply(q)
    BY <1>2 DEF ReadPublish1, ReadPublish2, ReadPubrel, ReadAck
  <2> QED BY <2>1, ReplyNeedsConnection DEF Nothing
<1>7. Nothing'
  BY <1>1, <1>6 DEF Nothing
<1>8. app'.published = app.published /\ DOMAIN toClient' \subseteq Nat
  <2>1. app'.published = app.published
    BY <1>2 DEF ReadPublish1, ReadPublish2, ReadPubrel, ReadAck, Shapes, Apps
  <2> QED BY <2>1, PlacesNext
<1>9. Sent' = Sent /\ Rest' = Rest /\ KeyInv' /\ TodoInv' /\ Ends' = Ends
  BY <1>1, DiskSame, TodoSame DEF Store
<1>10. Store' /\ Flows' = Flows /\ Rels' = Rels
  BY <1>1, <1>8, <1>9, StoreFrame
<1>11. /\ View'.flows = View.flows /\ View'.rel = View.rel /\ View'.end = View.end
       /\ View'.pub = View.pub /\ View'.stage = View.stage
       /\ ForthFrom(View'.wire, View.wire, 1)
       /\ DOMAIN View'.wire \subseteq Nat \ {0} /\ DOMAIN View'.back \subseteq Nat
  BY <1>1, <1>3, <1>8, <1>9, <1>10, ViewFields, ViewFieldsNext DEF Persistent
<1>12. ASSUME NEW t \in {"PUBACK", "PUBREC", "PUBCOMP", "PUBREL"}, Reply(Ack(t, p.id))
       PROVE  Answered(View, View', p.id, t)
  <2>1. \/ BackFrom(toClient', toClient, 0)
        \/ up /\ \E k, x : Added(toClient', toClient, k, x) /\ x.type = t /\ x.id = p.id
    BY <1>5, <1>12, ReplyAnswers
  <2>2. up => Live(View)
    BY ViewFields
  <2> QED BY <2>1, <2>2, ViewFields, ViewFieldsNext DEF Answered
<1>13. View.got = ToSet(app.received) /\ View'.got = ToSet(app'.received)
       /\ View.held = broker.in /\ View'.held = broker'.in /\ View.pub = app.published
  BY ViewFields, ViewFieldsNext
<1>14. /\ app.received \in Seq(Nat) /\ app \in Apps
       /\ ToSet(Append(app.received, p.msg)) = ToSet(app.received) \cup {p.msg}
  BY <1>4, OneMoreReceived DEF Shapes, Apps
<1>15. CASE ReadPublish1(p)
  <2>1. app'.received = Append(app.received, p.msg) /\ broker' = broker
    BY <1>14, <1>15 DEF ReadPublish1, Apps
  <2>2. View'.got = View.got \cup {p.msg} /\ View'.held = View.held
    BY <1>13, <1>14, <2>1
  <2>3. View.wire[1].type = "PUBLISH" /\ View.wire[1].id = p.id /\ View.wire[1].msg = p.msg
        /\ View.pub[p.msg] = 1
    BY <1>2, <1>3, <1>13, <1>15 DEF ReadPublish1
  <2>4. Answered(View, View', p.id, "PUBACK")
    BY <1>12, <1>15 DEF ReadPublish1
  <2> HIDE DEF View
  <2>5. Sound(View')
    BY <1>3, <1>11, <2>2, <2>3, <2>4, Received1
  <2> QED BY <1>7, <1>10, <2>5
<1>16. CASE ReadPublish2(p)
  <2>1. /\ app'.received = IF p.id \in broker.in THEN app.received ELSE Append(app.received, p.msg)
        /\ broker'.in = broker.in \cup {p.id}
    <3>1. broker'.in = broker.in \cup {p.id}
      BY <1>16 DEF ReadPublish2, Shapes
    <3>2. app'.received = IF p.id \in broker.in THEN app.received ELSE Append(app.received, p.msg)
      BY <1>14, <1>16 DEF ReadPublish2, Apps
    <3> QED BY <3>1, <3>2
  <2>2. /\ View'.got = IF p.id \in View.held THEN View.got ELSE View.got \cup {p.msg}
        /\ View'.held = View.held \cup {p.id}
    BY <1>13, <1>14, <2>1
  <2>3. View.wire[1].type = "PUBLISH" /\ View.wire[1].id = p.id /\ View.wire[1].msg = p.msg
        /\ View.pub[p.msg] = 2
    BY <1>2, <1>3, <1>13, <1>16 DEF ReadPublish2
  <2>4. Answered(View, View', p.id, "PUBREC")
    BY <1>12, <1>16 DEF ReadPublish2
  <2> HIDE DEF View
  <2>5. Sound(View')
    BY <1>3, <1>11, <2>2, <2>3, <2>4, Received2
  <2> QED BY <1>7, <1>10, <2>5
<1>17. CASE ReadPubrel(p)
  <2>1. app'.received = app.received /\ broker'.in = broker.in \ {p.id}
    BY <1>17 DEF ReadPubrel, Shapes
  <2>2. View'.got = View.got /\ View'.held = View.held \ {p.id}
    BY <1>13, <2>1
  <2>3. View.wire[1].type = "PUBREL" /\ View.wire[1].id = p.id
    BY <1>3, <1>17 DEF ReadPubrel
  <2>4. Answered(View, View', p.id, "PUBCOMP")
    BY <1>12, <1>17 DEF ReadPubrel
  <2>5. \A m \in DOMAIN View.pub : View.pub[m] \in {1, 2}
    BY <1>13, PublishedQos
  <2>6. View.flows = Flows /\ View.rel = Rels
    BY ViewFields
  <2>7. Live(View) => \A f \in View.flows : f[1] = p.id => View.pub[f[2]] = 2
    <3>1. Live(View) => p.id \in View.rel
      <4> HIDE DEF View
      <4>1. PubrelOK(View, p)
        BY <1>3, <2>3 DEF Sound, WireOK
      <4> QED BY <4>1 DEF PubrelOK
    <3> QED BY <1>13, <2>6, <3>1, ReleasedAreQos2
  <2> HIDE DEF View
  <2>8. Sound(View')
    BY <1>3, <1>11, <2>2, <2>3, <2>4, <2>5, <2>7, PubrelRead
  <2> QED BY <1>7, <1>10, <2>8
<1>18. CASE ReadAck(p)
  <2>1. broker'.in = broker.in /\ app'.received = app.received
    BY <1>18 DEF ReadAck
  <2>2. BackFrom(toClient', toClient, 0)
    <3>1. CASE Reply(Ack("PUBREL", p.id))
      <4>1. ~Back(Ack("PUBREL", p.id))
        BY <1>5 DEF Back
      <4> QED BY <1>5, <3>1, <4>1, OtherReply
    <3> QED BY <1>18, <3>1, SameBack DEF ReadAck
  <2>3. 0 \in Nat /\ 1 \in Nat
    OBVIOUS
  <2>4. Sound(View)'
    BY <1>1, <1>3, <1>8, <1>9, <2>1, <2>2, <2>3, QuietStep
  <2> QED BY <1>7, <1>10, <2>4
<1> QED BY <1>2, <1>15, <1>16, <1>17, <1>18

-----------------------------------------------------------------------------
(* Acknowledgements. *)

\* What the client reads about a flow, and that nothing else of it travels.
LEMMA AnswerRead ==
    ASSUME Shapes, Sound(View), NEW type \in {"PUBACK", "PUBREC", "PUBCOMP"},
           NEW p, Reads(type, p)
    PROVE  /\ AnswerOK(View, p) /\ p.type = type
           /\ \A i \in DOMAIN (toBroker \o held) :
                 Forth((toBroker \o held)[i]) => (toBroker \o held)[i].id # p.id
           /\ BackFrom(Tail(toClient), toClient, 1)
           /\ \A j \in DOMAIN Tail(toClient) : Back(Tail(toClient)[j]) => Tail(toClient)[j].id # p.id
<1>1. p = toClient[1] /\ 1 \in DOMAIN toClient /\ p.type = type /\ toClient # <<>>
  BY ReadsFacts
<1>2. Back(p)
  BY <1>1 DEF Back
<1>3. View.back = toClient /\ View.wire = toBroker \o held
  BY ViewFields
<1>4. AnswerOK(View, p)
  <2> HIDE DEF View
  <2> QED BY <1>1, <1>2, <1>3 DEF Sound, BackOK
<1>5. \A i \in DOMAIN (toBroker \o held) :
        Forth((toBroker \o held)[i]) => (toBroker \o held)[i].id # p.id
  <2> HIDE DEF View
  <2> QED BY <1>1, <1>2, <1>3 DEF Sound, AloneOK
<1>6. \A j \in DOMAIN Tail(toClient) :
         j \in Nat \ {0} /\ j + 1 \in DOMAIN toClient /\ Tail(toClient)[j] = toClient[j + 1]
  BY <1>1, TailFacts DEF Shapes
<1>7. \A j \in DOMAIN Tail(toClient) : Back(Tail(toClient)[j]) => Tail(toClient)[j].id # p.id
  <2>1. \A j \in Nat \ {0} : j + 1 # 1
    OBVIOUS
  <2>2. \A i, j \in DOMAIN toClient :
           Back(toClient[i]) /\ Back(toClient[j]) /\ toClient[i].id = toClient[j].id => i = j
    <3> HIDE DEF View
    <3> QED BY <1>3 DEF Sound, AloneOK
  <2> QED BY <1>1, <1>2, <1>6, <2>1, <2>2
<1> QED BY <1>1, <1>4, <1>5, <1>6, <1>7 DEF BackFrom

\* An acknowledgement that ends a flow is about a message the broker has and
\* an id it does not hold.
LEMMA EndsItsFlow ==
    ASSUME NEW s, NEW p, Sound(s), AnswerOK(s, p), p.type \in {"PUBACK", "PUBCOMP"}
    PROVE  /\ p.id \notin s.held
           /\ \A f \in s.flows : f[1] = p.id =>
                 f[2] \in s.got /\ (s.pub[f[2]] = 2 => p.id \in s.rel)
<1> USE DEF Sound
<1>1. Live(s)
  BY DEF AnswerOK
<1>2. PICK m \in s.got : <<p.id, m>> \in s.flows /\ (p.type = "PUBACK" <=> s.pub[m] = 1)
  BY DEF AnswerOK
<1>3. \A f \in s.flows : f[1] = p.id => f = <<p.id, m>>
  BY <1>2 DEF FlowsOK
<1>4. \A f \in s.flows : f[1] = p.id => f[2] = m
  BY <1>3
<1>5. p.type = "PUBCOMP" => p.id \notin s.held /\ p.id \in s.rel
  BY DEF AnswerOK
<1>6. CASE p.type = "PUBACK"
  <2>1. s.pub[m] = 1
    BY <1>2, <1>6
  <2>2. p.id \notin s.held
    <3>1. \A n \in s.held : \E x \in s.got : <<n, x>> \in s.flows /\ s.pub[x] = 2
      BY <1>1 DEF BrokerOK
    <3>2. ASSUME NEW x, <<p.id, x>> \in s.flows, s.pub[x] = 2
          PROVE  FALSE
      <4>1. <<p.id, x>>[1] = p.id /\ <<p.id, x>>[2] = x
        OBVIOUS
      <4>2. x = m
        BY <1>4, <3>2, <4>1
      <4> QED BY <2>1, <3>2, <4>2
    <3> QED BY <3>1, <3>2
  <2> QED BY <1>4, <2>1, <2>2
<1>7. CASE p.type = "PUBCOMP"
  BY <1>4, <1>5, <1>7
<1> QED BY <1>6, <1>7

\* An acknowledgement that is ignored keeps the invariant.
LEMMA IgnoredKeeps ==
    ASSUME IInv, Shapes', Ignored, toClient # <<>>, todo = <<>>, alive, up,
           mode' = mode, alive' = alive, broker' = broker, app' = app, disk' = disk
    PROVE  Nothing' /\ Store' /\ Sound(View)'
<1> USE DEF IInv
<1>1. Silent(client) /\ todo' = <<>> /\ client \in Clients
  BY DEF Ignored, Shapes
<1>2. 0 \in Nat /\ Ack("PUBACK", 0) \in Packets /\ ~Forth(Ack("PUBACK", 0))
  BY AcksAreNotForth
<1>3. Sent' = Sent /\ Rest' = Rest /\ KeyInv'
  BY DiskSame DEF Store
<1>4. \A i \in DOMAIN todo' : todo'[i].file.kind \in {"q", "r"}
  BY <1>1, NoOps
<1>5. mode = "clean" => todo' = <<>> /\ disk' = {}
  BY <1>1 DEF Nothing
<1> QED BY <1>1, <1>2, <1>3, <1>4, <1>5, QuietHandler

EndsIn(t) == {t[i].file.n : i \in {j \in DOMAIN t : t[j].file.kind \in {"s", "sc"}}}

\* The ids whose files the pending operations remove.
LEMMA RemovalsOf ==
    ASSUME NEW n, NEW t
    PROVE  /\ t = <<Rm("s", n), Rm("sc", n)>> => EndsIn(t) = {n}
           /\ t = <<Rm("sc", n)>> => EndsIn(t) = {n}
           /\ t = <<>> => EndsIn(t) = {}
<1>1. \A k : Rm(k, n).file.kind = k /\ Rm(k, n).file.n = n
  BY DEF Rm, File
<1>2. ASSUME t = <<Rm("s", n), Rm("sc", n)>> PROVE EndsIn(t) = {n}
  <2>1. DOMAIN t = {1, 2} /\ t[1] = Rm("s", n) /\ t[2] = Rm("sc", n)
    BY <1>2
  <2>2. \A i \in DOMAIN t : t[i].file.kind \in {"s", "sc"} /\ t[i].file.n = n
    BY <1>1, <2>1
  <2> QED BY <2>1, <2>2 DEF EndsIn
<1>3. ASSUME t = <<Rm("sc", n)>> PROVE EndsIn(t) = {n}
  <2>1. DOMAIN t = {1} /\ t[1] = Rm("sc", n)
    BY <1>3
  <2>2. \A i \in DOMAIN t : t[i].file.kind \in {"s", "sc"} /\ t[i].file.n = n
    BY <1>1, <2>1
  <2> QED BY <2>1, <2>2 DEF EndsIn
<1>4. t = <<>> => EndsIn(t) = {}
  BY NoOps DEF EndsIn
<1> QED BY <1>2, <1>3, <1>4

\* The same of todo, now and after a step.
LEMMA EndsAre ==
    ASSUME NEW n
    PROVE  /\ todo = <<Rm("s", n), Rm("sc", n)>> => Ends = {n}
           /\ todo = <<Rm("sc", n)>> => Ends = {n}
           /\ todo = <<>> => Ends = {}
           /\ todo' = <<Rm("s", n), Rm("sc", n)>> => Ends' = {n}
           /\ todo' = <<Rm("sc", n)>> => Ends' = {n}
           /\ todo' = <<>> => Ends' = {}
<1>1. Ends = EndsIn(todo)
  BY DEF Ends, Removals, EndsIn
<1>2. Ends' = EndsIn(todo')
  BY DEF Ends, Removals, EndsIn
<1>3. /\ todo = <<Rm("s", n), Rm("sc", n)>> => Ends = {n}
      /\ todo = <<Rm("sc", n)>> => Ends = {n}
      /\ todo = <<>> => Ends = {}
  BY <1>1, RemovalsOf
<1>4. /\ todo' = <<Rm("s", n), Rm("sc", n)>> => Ends' = {n}
      /\ todo' = <<Rm("sc", n)>> => Ends' = {n}
      /\ todo' = <<>> => Ends' = {}
  BY <1>2, RemovalsOf
<1> QED BY <1>3, <1>4

\* The entry of a flow that is over is taken out of the list.
LEMMA ListLosesOne ==
    ASSUME Shapes, Store, NEW i \in DOMAIN client.out,
           client'.out = RemoveAt(client.out, i), client'.msgID = client.msgID,
           app'.published = app.published
    PROVE  /\ OutInv'
           /\ \A j \in DOMAIN client'.out : \E k \in DOMAIN client.out :
                 k # i /\ client'.out[j] = client.out[k] /\ client'.out[j].id # client.out[i].id
           /\ \A k \in DOMAIN client.out : client.out[k].id # client.out[i].id =>
                 \E j \in DOMAIN client'.out : client'.out[j] = client.out[k]
<1> DEFINE o == client.out
           r == RemoveAt(o, i)
<1>1. o \in Seq(Entries) /\ Len(o) \in Nat
  BY LenProperties DEF Shapes, Clients
<1> HIDE DEF o
<1>2. /\ Len(r) = Len(o) - 1
      /\ \A j \in DOMAIN r :
            \E k \in DOMAIN o : k # i /\ r[j] = o[k] /\ k = IF j < i THEN j ELSE j + 1
      /\ \A k \in DOMAIN o : k # i => \E j \in DOMAIN r : r[j] = o[k]
      /\ r \in Seq(Entries)
  BY <1>1, RemoveFacts DEF o
<1>3. DOMAIN r \subseteq Nat /\ i \in Nat
  BY <1>1, <1>2, LenProperties DEF o
<1> HIDE DEF r
<1>4. client'.out = r /\ client.out = o /\ Published' = Published
  BY DEF r, o, Published
<1>5. \A j, k \in DOMAIN o : o[j].id = o[k].id => j = k
  BY <1>4 DEF Store, OutInv
<1>6. \A j, k \in DOMAIN r : r[j].id = r[k].id => j = k
  <2> SUFFICES ASSUME NEW j \in DOMAIN r, NEW k \in DOMAIN r, r[j].id = r[k].id
               PROVE  j = k
    OBVIOUS
  <2>1. PICK a \in DOMAIN o : r[j] = o[a] /\ a = IF j < i THEN j ELSE j + 1
    BY <1>2
  <2>2. PICK b \in DOMAIN o : r[k] = o[b] /\ b = IF k < i THEN k ELSE k + 1
    BY <1>2
  <2>3. a = b
    BY <1>5, <2>1, <2>2
  <2>4. j \in Nat /\ k \in Nat
    BY <1>3
  <2> QED BY <1>3, <2>1, <2>2, <2>3, <2>4
<1>7. Len(r) <= MaxInflight
  <2>1. Len(o) <= MaxInflight
    BY <1>4 DEF Store, OutInv
  <2> QED BY <1>1, <1>2, <2>1, IdAssumption
<1>8. OutInv'
  <2>1. \A k \in DOMAIN o :
          /\ o[k].id \in 1..MaxId /\ o[k].msg \in Published
          /\ o[k].qos = app.published[o[k].msg]
          /\ o[k].next = "PUBACK" <=> o[k].qos = 1
    BY <1>4 DEF Store, OutInv
  <2>2. \A j \in DOMAIN r :
          /\ r[j].id \in 1..MaxId /\ r[j].msg \in Published
          /\ r[j].qos = app.published[r[j].msg]
          /\ r[j].next = "PUBACK" <=> r[j].qos = 1
    BY <1>2, <2>1
  <2>3. client'.msgID \in 0..MaxId
    BY DEF Store, OutInv
  <2> QED BY <1>4, <1>6, <1>7, <2>2, <2>3 DEF OutInv
<1>9. i \in DOMAIN o
  BY <1>4
<1>10. \A j \in DOMAIN r : \E k \in DOMAIN o : k # i /\ r[j] = o[k] /\ r[j].id # o[i].id
  BY <1>2, <1>5, <1>9
<1>11. \A k \in DOMAIN o : o[k].id # o[i].id => \E j \in DOMAIN r : r[j] = o[k]
  BY <1>2
<1> QED BY <1>4, <1>8, <1>10, <1>11

\* A flow is over: the entry leaves the list, its files are to be removed.
LEMMA OverKeeps ==
    ASSUME IInv, Shapes', NEW type \in {"PUBACK", "PUBCOMP"}, NEW p, Reads(type, p),
           NEW i \in Outbound(p.id), Over(i),
           mode' = mode, alive' = alive, broker' = broker, app' = app, disk' = disk
    PROVE  Nothing' /\ Store' /\ Sound(View)'
<1> USE DEF IInv
<1> DEFINE n == p.id
<1>1. /\ AnswerOK(View, p) /\ p.type = type
      /\ \A k \in DOMAIN (toBroker \o held) :
            Forth((toBroker \o held)[k]) => (toBroker \o held)[k].id # n
      /\ BackFrom(Tail(toClient), toClient, 1)
      /\ \A j \in DOMAIN Tail(toClient) : Back(Tail(toClient)[j]) => Tail(toClient)[j].id # n
  BY AnswerRead
<1>2. toClient # <<>> /\ todo = <<>> /\ alive /\ up
  BY ReadsFacts
<1>3. i \in DOMAIN client.out /\ client.out[i].id = n /\ n \in 1..MaxId
  BY DEF Outbound, Store, OutInv
<1>4. /\ client'.out = RemoveAt(client.out, i) /\ client'.msgID = client.msgID
      /\ client'.queue = client.queue
      /\ toClient' = Tail(toClient) /\ held' = held /\ toBroker' = toBroker /\ up' = up
      /\ run' = IF client.queue # <<>> THEN "deliver" ELSE "cycle"
      /\ todo' = IF mode = "persistent" THEN <<Rm("s", n), Rm("sc", n)>> ELSE <<>>
  <2> DEFINE c == [client EXCEPT !.out = RemoveAt(@, i)]
  <2>1. Silent(c) /\ todo' = Filed(<<Rm("s", n), Rm("sc", n)>>)
    BY <1>3 DEF Over
  <2>2. c.out = RemoveAt(client.out, i) /\ c.msgID = client.msgID /\ c.queue = client.queue
    BY DEF Shapes, Clients
  <2> HIDE DEF c
  <2> QED BY <2>1, <2>2 DEF Silent, Stay, Filed
<1>5. n \notin View.held /\ \A f \in View.flows : f[1] = n =>
                 f[2] \in View.got /\ (View.pub[f[2]] = 2 => n \in View.rel)
  <2> HIDE DEF View
  <2> QED BY <1>1, EndsItsFlow
<1> HIDE DEF n
<1>6. /\ OutInv'
      /\ \A j \in DOMAIN client'.out : \E k \in DOMAIN client.out :
            k # i /\ client'.out[j] = client.out[k] /\ client'.out[j].id # n
      /\ \A k \in DOMAIN client.out : client.out[k].id # n =>
            \E j \in DOMAIN client'.out : client'.out[j] = client.out[k]
  BY <1>3, <1>4, ListLosesOne
<1>7. Sent' = Sent /\ Rest' = Rest /\ KeyInv'
  BY DiskSame DEF Store
<1>8. FilesInv'
  BY <1>7 DEF Store, FilesInv, Published
<1>9. TodoInv' /\ Ends' \subseteq {n} /\ (Persistent => Ends' = {n}) /\ Ends = {}
  <2>1. CASE Persistent
    <3>1. todo' = <<Rm("s", n), Rm("sc", n)>>
      BY <1>4, <2>1 DEF Persistent
    <3>2. Ends' = {n} /\ Ends = {}
      BY <1>2, <3>1, EndsAre
    <3> QED BY <1>3, <3>1, <3>2 DEF TodoInv
  <2>2. CASE ~Persistent
    <3>1. todo' = <<>>
      BY <1>4, <2>2 DEF Persistent
    <3>2. Ends' = {} /\ Ends = {}
      BY <1>2, <3>1, EndsAre
    <3> QED BY <2>2, <3>1, <3>2, NoOps DEF TodoInv
  <2> QED BY <2>1, <2>2
<1>10. MirrorInv'
  <2> SUFFICES ASSUME Persistent, alive PROVE MirrorInv'
    BY <1>2 DEF MirrorInv, Persistent
  <2>1. /\ \A k \in DOMAIN client.out :
             /\ \E f \in Sent : f.n = client.out[k].id /\ f.msg = client.out[k].msg
             /\ client.out[k].next = "PUBCOMP" <=> \E f \in Rest : f.n = client.out[k].id
        /\ \A f \in Sent \cup Rest : \E k \in DOMAIN client.out : client.out[k].id = f.n
    BY <1>9 DEF Store, MirrorInv
  <2>2. \A j \in DOMAIN client'.out :
           /\ \E f \in Sent' : f.n = client'.out[j].id /\ f.msg = client'.out[j].msg
           /\ client'.out[j].next = "PUBCOMP" <=> \E f \in Rest' : f.n = client'.out[j].id
           /\ client'.out[j].id \notin Ends'
    BY <1>6, <1>7, <1>9, <2>1
  <2>3. \A f \in Sent' \cup Rest' :
           f.n \in Ends' \/ \E j \in DOMAIN client'.out : client'.out[j].id = f.n
    BY <1>6, <1>7, <1>9, <2>1
  <2> QED BY <2>2, <2>3 DEF MirrorInv
<1>11. Nothing'
  BY <1>2, <1>4 DEF Nothing
<1>12. /\ Flows' \subseteq Flows /\ \A f \in Flows : f[1] # n => f \in Flows'
       /\ Rels' \subseteq Rels /\ \A x \in Rels : x # n => x \in Rels'
       /\ \A f \in Flows' : f[1] = n => Persistent
       /\ Persistent => Rels' = Rels
  <2>1. CASE Persistent
    BY <1>7, <2>1 DEF Flows, Rels, Persistent
  <2>2. CASE ~Persistent
    <3>1. ~Persistent'
      BY <2>2 DEF Persistent
    <3>2. Flows' \subseteq Flows
      BY <1>6, <2>2, <3>1 DEF Flows
    <3>3. \A f \in Flows' : f[1] # n
      BY <1>6, <3>1 DEF Flows
    <3>4. \A f \in Flows : f[1] # n => f \in Flows'
      BY <1>6, <2>2, <3>1 DEF Flows
    <3>5. Rels' \subseteq Rels
      BY <1>6, <2>2, <3>1 DEF Rels, Awaited
    <3>6. \A x \in Rels : x # n => x \in Rels'
      BY <1>6, <2>2, <3>1 DEF Rels, Awaited
    <3> QED BY <2>2, <3>2, <3>3, <3>4, <3>5, <3>6
  <2> QED BY <2>1, <2>2
<1>13. /\ View'.flows \subseteq View.flows /\ \A f \in View.flows : f[1] # n => f \in View'.flows
       /\ View'.rel \subseteq View.rel /\ \A x \in View.rel : x # n => x \in View'.rel
       /\ \A x \in View'.end : x # n => x \in View.end
       /\ View'.pub = View.pub /\ View'.held = View.held /\ View'.got = View.got
       /\ View'.stage = View.stage
       /\ \A f \in View'.flows : f[1] = n => View'.rel = View.rel
       /\ \A k \in DOMAIN View'.wire : Forth(View'.wire[k]) => View'.wire[k].id # n
       /\ \A j \in DOMAIN View'.back : Back(View'.back[j]) => View'.back[j].id # n
       /\ DOMAIN View'.wire \subseteq Nat /\ DOMAIN View'.back \subseteq Nat
  BY <1>1, <1>4, <1>9, <1>12, PlacesNext, ViewFields, ViewFieldsNext DEF n, Persistent
<1>14. ForthFrom(View'.wire, View.wire, 0) /\ BackFrom(View'.back, View.back, 1)
  <2>1. ForthFrom(toBroker' \o held', toBroker \o held, 0)
    BY <1>4, SameWire
  <2> QED BY <1>1, <1>4, <2>1, ViewFields, ViewFieldsNext
<1> HIDE DEF View
<1>15. Sound(View')
  <2>1. \A f \in View'.flows : f[1] = n => (View.pub[f[2]] = 2 => n \in View'.rel)
    BY <1>5, <1>13
  <2>2. \A f \in View.flows : f[1] = n => f[2] \in View.got
    BY <1>5
  <2>3. 0 \in Nat /\ 1 \in Nat
    OBVIOUS
  <2> QED BY <1>5, <1>13, <1>14, <2>1, <2>2, <2>3, Forgotten
<1> QED BY <1>6, <1>7, <1>8, <1>9, <1>10, <1>11, <1>15 DEF Store

\* PUBACK and PUBCOMP keep the invariant.
LEMMA HandleAcksKeep ==
    ASSUME IInv, Shapes', HandlePubacks \/ HandlePubcomps
    PROVE  Nothing' /\ Store' /\ Sound(View)'
<1>0. \E type \in {"PUBACK", "PUBCOMP"} : \E p \in {toClient[j] : j \in DOMAIN toClient} :
         Reads(type, p) /\ (Ignored \/ \E i \in Outbound(p.id) : Over(i))
  BY DEF HandlePubacks, HandlePubcomps
<1>10. PICK type \in {"PUBACK", "PUBCOMP"} : \E p \in {toClient[j] : j \in DOMAIN toClient} :
         Reads(type, p) /\ (Ignored \/ \E i \in Outbound(p.id) : Over(i))
  BY <1>0
<1>1. PICK p \in {toClient[j] : j \in DOMAIN toClient} :
         Reads(type, p) /\ (Ignored \/ \E i \in Outbound(p.id) : Over(i))
  BY <1>10
<1>2. toClient # <<>> /\ todo = <<>> /\ alive /\ up
  BY <1>1, ReadsFacts DEF IInv
<1>3. mode' = mode /\ alive' = alive /\ broker' = broker /\ app' = app /\ disk' = disk
  BY DEF HandlePubacks, HandlePubcomps
<1>4. CASE Ignored
  BY <1>2, <1>3, <1>4, IgnoredKeeps
<1>5. CASE \E i \in Outbound(p.id) : Over(i)
  BY <1>1, <1>3, <1>5, OverKeeps
<1> QED BY <1>1, <1>4, <1>5

-----------------------------------------------------------------------------
(* File operations. *)

\* The files of an id are removed one after the other.
LEMMA RemovalKeeps ==
    ASSUME IInv, Shapes', NEW n \in 1..MaxId,
           mode' = mode, alive' = alive, up' = up, client' = client, held' = held,
           toBroker' = toBroker, toClient' = toClient, broker' = broker, app' = app,
           todo # <<>>, Ends = {n}, KeyInv', TodoInv', Ends' \subseteq {n},
           \/ /\ Ends' = {n} /\ Rest' = Rest
              /\ \A f : f \in Sent' <=> f \in Sent /\ f.n # n
           \/ /\ Sent' = Sent /\ \A f \in Sent : f.n # n
              /\ \A f : f \in Rest' <=> f \in Rest /\ f.n # n
    PROVE  Store' /\ Sound(View)'
<1> USE DEF IInv
<1>1. Persistent /\ Persistent' /\ Live(View)
  <2>1. Persistent
    BY ModesAssumption DEF Nothing, Shapes, Persistent
  <2> QED BY <2>1, ViewFields DEF Persistent
<1>2. Sent' \subseteq Sent /\ Rest' \subseteq Rest /\ \A f \in Sent' : f.n # n
  OBVIOUS
<1>3. OutInv'
  BY DEF Store, OutInv, Published
<1>4. FilesInv'
  <2>1. IsFiniteSet(Sent)
    <3>1. Sent \subseteq disk /\ IsFiniteSet(disk)
      BY DEF Sent, FilesOf, Shapes
    <3> QED BY <3>1, FS_Subset
  <2>2. Cardinality(Sent') <= Cardinality(Sent) /\ IsFiniteSet(Sent')
    BY <1>2, <2>1, FS_Subset
  <2>3. Cardinality(Sent) \in Nat /\ Cardinality(Sent') \in Nat
    BY <2>1, <2>2, FS_CardinalityType
  <2>4. Cardinality(Sent') <= MaxInflight
    <3>1. Cardinality(Sent) <= MaxInflight
      BY DEF Store, FilesInv
    <3> HIDE DEF Sent
    <3> QED BY <2>2, <2>3, <3>1, IdAssumption
  <2>5. Published' = Published
    BY DEF Published
  <2> QED BY <1>2, <2>4, <2>5 DEF Store, FilesInv
<1>5. MirrorInv'
  <2> SUFFICES ASSUME alive PROVE MirrorInv'
    BY DEF MirrorInv
  <2>1. /\ \A k \in DOMAIN client.out :
             /\ \E f \in Sent : f.n = client.out[k].id /\ f.msg = client.out[k].msg
             /\ client.out[k].next = "PUBCOMP" <=> \E f \in Rest : f.n = client.out[k].id
             /\ client.out[k].id # n
        /\ \A f \in Sent \cup Rest : f.n = n \/ \E k \in DOMAIN client.out : client.out[k].id = f.n
    BY <1>1 DEF Store, MirrorInv
  <2>2. \A k \in DOMAIN client.out :
             /\ \E f \in Sent' : f.n = client.out[k].id /\ f.msg = client.out[k].msg
             /\ client.out[k].next = "PUBCOMP" <=> \E f \in Rest' : f.n = client.out[k].id
             /\ client.out[k].id \notin Ends'
    BY <2>1
  <2>3. \A f \in Sent' \cup Rest' :
             f.n \in Ends' \/ \E k \in DOMAIN client.out : client.out[k].id = f.n
    BY <1>2, <2>1
  <2> QED BY <2>2, <2>3 DEF MirrorInv
<1>6. /\ View'.flows \subseteq View.flows /\ \A f \in View.flows : f[1] # n => f \in View'.flows
      /\ \A f \in View'.flows : f[1] # n
      /\ View'.rel \subseteq View.rel /\ \A x \in View.rel : x # n => x \in View'.rel
  <2>1. Flows' \subseteq Flows /\ \A f \in Flows : f[1] # n => f \in Flows'
    BY <1>1, <1>2 DEF Flows
  <2>2. \A f \in Flows' : f[1] # n
    BY <1>1, <1>2 DEF Flows
  <2>3. Rels' \subseteq Rels /\ \A x \in Rels : x # n => x \in Rels'
    BY <1>1, <1>2 DEF Rels
  <2> QED BY <2>1, <2>2, <2>3, ViewFields, ViewFieldsNext
<1>7. /\ View.end = {n} /\ \A x \in View'.end : x # n => x \in View.end
      /\ View'.pub = View.pub /\ View'.held = View.held /\ View'.got = View.got
      /\ View'.stage = View.stage /\ View'.wire = View.wire /\ View'.back = View.back
      /\ DOMAIN View'.wire \subseteq Nat /\ DOMAIN View'.back \subseteq Nat
  BY PlacesNext, ViewFields, ViewFieldsNext DEF Persistent
<1>8. ForthFrom(View'.wire, View.wire, 0) /\ BackFrom(View'.back, View.back, 0)
  BY SameWire, SameBack, ViewFields, ViewFieldsNext
<1> HIDE DEF View
<1>9. /\ n \notin View.held
      /\ \A f \in View.flows : f[1] = n => f[2] \in View.got
  BY <1>1, <1>7 DEF Sound, BrokerOK
<1>10. /\ \A k \in DOMAIN View'.wire : Forth(View'.wire[k]) => View'.wire[k].id # n
       /\ \A j \in DOMAIN View'.back : Back(View'.back[j]) => View'.back[j].id # n
  BY <1>7 DEF Sound, WireOK, BackOK, AnswerOK
<1>11. Sound(View')
  <2>1. 0 \in Nat
    OBVIOUS
  <2> QED BY <1>6, <1>7, <1>8, <1>9, <1>10, <2>1, Forgotten
<1> QED BY <1>3, <1>4, <1>5, <1>11 DEF Store

\* What the removal of a file leaves.
LEMMA RemovedFile ==
    ASSUME KeyInv, NEW k, NEW n, disk' = After(disk, Rm(k, n))
    PROVE  /\ KeyInv'
           /\ \A f : f \in disk' <=> f \in disk /\ ~(f.kind = k /\ f.n = n)
<1>1. disk' = {f \in disk : ~SameKey(f, File(k, n, 0, 0))}
  BY DEF After, Rm
<1>2. \A f : SameKey(f, File(k, n, 0, 0)) <=> f.kind = k /\ f.n = n
  BY DEF SameKey, File
<1>3. \A f : f \in disk' <=> f \in disk /\ ~(f.kind = k /\ f.n = n)
  BY <1>1, <1>2
<1> QED BY <1>3 DEF KeyInv

\* Each file operation keeps the invariant: a kill may come between any two.
LEMMA DiskStepKeeps ==
    ASSUME IInv, Shapes', DiskStep
    PROVE  Nothing' /\ Store' /\ Sound(View)'
<1> USE DEF IInv
<1>1. /\ mode' = mode /\ alive' = alive /\ up' = up /\ client' = client /\ held' = held
      /\ toBroker' = toBroker /\ toClient' = toClient /\ broker' = broker /\ app' = app
      /\ run' = run /\ todo # <<>> /\ disk' = After(disk, Head(todo)) /\ todo' = Tail(todo)
  BY DEF DiskStep
<1>2. Nothing'
  BY <1>1 DEF Nothing
<1>3. CASE \A i \in DOMAIN todo : todo[i].file.kind \in {"q", "r"}
  <2>1. \A i \in DOMAIN todo' : i + 1 \in DOMAIN todo /\ todo'[i] = todo[i + 1]
    BY <1>1, TailFacts DEF Shapes
  <2>2. Head(todo) = todo[1] /\ 1 \in DOMAIN todo
    BY <1>1, TailFacts DEF Shapes
  <2>3. Head(todo).file.kind \in {"q", "r"}
    BY <1>3, <2>2
  <2>4. KeyInv' /\ Sent' = Sent /\ Rest' = Rest
    BY <1>1, <2>3, OtherFile DEF Store
  <2>5. \A i \in DOMAIN todo' : todo'[i].file.kind \in {"q", "r"}
    BY <1>3, <2>1
  <2>6. TodoInv' /\ Ends' = Ends
    BY <1>3, <2>5 DEF TodoInv, Ends, Removals
  <2>7. Store' /\ Sound(View)'
    BY <1>1, <2>4, <2>6, IdleStep
  <2> QED BY <1>2, <2>7
<1>4. ASSUME NEW n \in 1..MaxId, todo = <<Rm("s", n), Rm("sc", n)>>
      PROVE  Nothing' /\ Store' /\ Sound(View)'
  <2>1. Head(todo) = Rm("s", n) /\ todo' = <<Rm("sc", n)>>
    BY <1>1, <1>4
  <2>2. KeyInv' /\ \A f : f \in disk' <=> f \in disk /\ ~(f.kind = "s" /\ f.n = n)
    BY <1>1, <2>1, RemovedFile DEF Store
  <2>3. Rest' = Rest /\ \A f : f \in Sent' <=> f \in Sent /\ f.n # n
    BY <2>2 DEF Sent, Rest, FilesOf
  <2>4. Ends = {n} /\ Ends' = {n}
    BY <1>4, <2>1, EndsAre
  <2>5. TodoInv'
    BY <2>1, <2>3 DEF TodoInv
  <2> QED BY <1>1, <1>2, <2>2, <2>3, <2>4, <2>5, RemovalKeeps
<1>5. ASSUME NEW n \in 1..MaxId, todo = <<Rm("sc", n)>>, \A f \in Sent : f.n # n
      PROVE  Nothing' /\ Store' /\ Sound(View)'
  <2>1. Head(todo) = Rm("sc", n) /\ todo' = <<>>
    BY <1>1, <1>5
  <2>2. KeyInv' /\ \A f : f \in disk' <=> f \in disk /\ ~(f.kind = "sc" /\ f.n = n)
    BY <1>1, <2>1, RemovedFile DEF Store
  <2>3. Sent' = Sent /\ \A f : f \in Rest' <=> f \in Rest /\ f.n # n
    BY <2>2 DEF Sent, Rest, FilesOf
  <2>4. Ends = {n} /\ Ends' = {}
    BY <1>5, <2>1, EndsAre
  <2>5. TodoInv'
    BY <2>1, NoOps DEF TodoInv
  <2> QED BY <1>1, <1>2, <1>5, <2>2, <2>3, <2>4, <2>5, RemovalKeeps
<1> QED BY <1>3, <1>4, <1>5 DEF Store, TodoInv

-----------------------------------------------------------------------------
(* Release. *)

\* The entry of p awaits the PUBREC it is: the PUBREL is filed and awaited.
LEMMA ReleaseKeepsStore ==
    ASSUME IInv, NEW n, NEW i \in DOMAIN client.out,
           client.out[i].id = n, client.out[i].next = "PUBREC",
           mode' = mode, app' = app, alive' = alive, alive, todo = <<>>, todo' = todo,
           disk' = disk \cup (IF mode = "persistent" THEN {File("sc", n, 0, 0)} ELSE {}),
           client'.msgID = client.msgID, Len(client'.out) = Len(client.out),
           DOMAIN client'.out = DOMAIN client.out,
           \A j \in DOMAIN client.out :
              client'.out[j] = IF j = i THEN [client.out[i] EXCEPT !.next = "PUBCOMP"] ELSE client.out[j]
    PROVE  /\ Store' /\ Ends' = Ends /\ Ends = {}
           /\ Flows' = Flows /\ Rels' = Rels \cup {n}
<1> USE DEF IInv
<1>1. \A j \in DOMAIN client.out : client.out[j] \in Entries
  BY ElementOfSeq, LenProperties DEF Shapes, Clients
<1>2. \A e \in Entries :
         /\ [e EXCEPT !.next = "PUBCOMP"].id = e.id /\ [e EXCEPT !.next = "PUBCOMP"].msg = e.msg
         /\ [e EXCEPT !.next = "PUBCOMP"].qos = e.qos /\ [e EXCEPT !.next = "PUBCOMP"].next = "PUBCOMP"
  BY DEF Entries
<1>3. \A j \in DOMAIN client.out :
         /\ client'.out[j].id = client.out[j].id /\ client'.out[j].msg = client.out[j].msg
         /\ client'.out[j].qos = client.out[j].qos
         /\ client'.out[j].next = IF j = i THEN "PUBCOMP" ELSE client.out[j].next
  <2> SUFFICES ASSUME NEW j \in DOMAIN client.out
               PROVE  /\ client'.out[j].id = client.out[j].id /\ client'.out[j].msg = client.out[j].msg
                      /\ client'.out[j].qos = client.out[j].qos
                      /\ client'.out[j].next = IF j = i THEN "PUBCOMP" ELSE client.out[j].next
    OBVIOUS
  <2>1. CASE j = i
    <3>1. client'.out[j] = [client.out[i] EXCEPT !.next = "PUBCOMP"]
      BY <2>1
    <3>2. client.out[i] \in Entries
      BY <1>1
    <3> QED BY <1>2, <2>1, <3>1, <3>2
  <2>2. CASE j # i
    BY <2>2
  <2> QED BY <2>1, <2>2
<1>4. client.out[i].qos # 1 /\ \A j \in DOMAIN client.out : client.out[j].id = n => j = i
  BY DEF Store, OutInv
<1>5. OutInv'
  <2>1. \A j \in DOMAIN client'.out :
          /\ client'.out[j].id \in 1..MaxId
          /\ client'.out[j].msg \in Published
          /\ client'.out[j].qos = app.published[client'.out[j].msg]
          /\ client'.out[j].next = "PUBACK" <=> client'.out[j].qos = 1
    BY <1>3, <1>4 DEF Store, OutInv
  <2>2. \A j, k \in DOMAIN client'.out : client'.out[j].id = client'.out[k].id => j = k
    BY <1>3 DEF Store, OutInv
  <2>3. Len(client'.out) <= MaxInflight /\ client'.msgID \in 0..MaxId /\ Published' = Published
    BY DEF Store, OutInv, Published
  <2> QED BY <2>1, <2>2, <2>3 DEF OutInv
<1>6. Ends' = {} /\ Ends = {} /\ TodoInv'
  <2>1. Ends' = {} /\ Ends = {}
    BY EndsAre
  <2> QED BY <2>1, NoOps DEF TodoInv
<1>7. CASE ~Persistent
  <2>1. ~Persistent' /\ disk' = disk
    BY <1>7 DEF Persistent
  <2>2. Sent' = Sent /\ Rest' = Rest /\ KeyInv'
    BY <2>1, DiskSame DEF Store
  <2>3. FilesInv' /\ MirrorInv'
    BY <2>1, <2>2 DEF Store, FilesInv, MirrorInv, Published
  <2>4. Flows' = Flows
    BY <1>3, <1>7, <2>1 DEF Flows
  <2>5. Rels' = Rels \cup {n}
    <3>1. Awaited' = Awaited \cup {i}
      BY <1>3 DEF Awaited
    <3>2. Rels' = {client'.out[j].id : j \in Awaited'} /\ Rels = {client.out[j].id : j \in Awaited}
      BY <1>7, <2>1 DEF Rels
    <3>3. Awaited \cup {i} \subseteq DOMAIN client.out
      BY DEF Awaited
    <3> HIDE DEF Awaited
    <3> QED BY <1>3, <3>1, <3>2, <3>3
  <2> QED BY <1>5, <1>6, <2>2, <2>3, <2>4, <2>5 DEF Store
<1>8. CASE Persistent
  <2> DEFINE f0 == File("sc", n, 0, 0)
  <2>1. f0.kind = "sc" /\ f0.n = n /\ f0.msg = 0 /\ f0.qos = 0
    BY DEF File
  <2>2. disk' = disk \cup {f0} /\ Persistent'
    BY <1>8 DEF Persistent
  <2> HIDE DEF f0
  <2>3. Sent' = Sent /\ Rest' = Rest \cup {f0}
    BY <2>1, <2>2 DEF Sent, Rest, FilesOf
  <2>4. /\ \A j \in DOMAIN client.out :
             /\ \E f \in Sent : f.n = client.out[j].id /\ f.msg = client.out[j].msg
             /\ client.out[j].next = "PUBCOMP" <=> \E f \in Rest : f.n = client.out[j].id
        /\ \A f \in Sent \cup Rest : \E j \in DOMAIN client.out : client.out[j].id = f.n
    BY <1>6, <1>8 DEF Store, MirrorInv
  <2>5. \A f \in Rest : f.n # n
    BY <2>4
  <2>6. KeyInv'
    <3>1. \A f \in disk : ~SameKey(f, f0) /\ ~SameKey(f0, f)
      BY <2>1, <2>5 DEF SameKey, Rest, FilesOf
    <3> QED BY <2>2, <3>1 DEF Store, KeyInv
  <2>7. FilesInv'
    <3>1. \A g \in Sent : g.n = n => g.qos = 2
      <4> SUFFICES ASSUME NEW g \in Sent, g.n = n PROVE g.qos = 2
        OBVIOUS
      <4>1. PICK f \in Sent : f.n = n /\ f.msg = client.out[i].msg
        BY <2>4
      <4>2. f = g
        BY <4>1 DEF Store, KeyInv, SameKey, Sent, FilesOf
      <4>3. g.qos = app.published[client.out[i].msg] /\ g.msg \in Published
        BY <4>1, <4>2 DEF Store, FilesInv
      <4>4. g.qos = client.out[i].qos
        BY <4>3 DEF Store, OutInv
      <4>5. app.published[g.msg] \in {1, 2} /\ g.qos = app.published[g.msg]
        BY <4>3, PublishedQos DEF Store, FilesInv
      <4> QED BY <1>4, <4>4, <4>5
    <3>2. Published' = Published /\ Cardinality(Sent') = Cardinality(Sent)
      BY <2>3 DEF Published
    <3> QED BY <2>1, <2>3, <3>1, <3>2 DEF Store, FilesInv
  <2>8. MirrorInv'
    <3>1. \A j \in DOMAIN client'.out :
             /\ \E f \in Sent' : f.n = client'.out[j].id /\ f.msg = client'.out[j].msg
             /\ client'.out[j].next = "PUBCOMP" <=> \E f \in Rest' : f.n = client'.out[j].id
             /\ client'.out[j].id \notin Ends'
      <4> SUFFICES ASSUME NEW j \in DOMAIN client.out
                   PROVE  /\ \E f \in Sent' : f.n = client'.out[j].id /\ f.msg = client'.out[j].msg
                          /\ client'.out[j].next = "PUBCOMP" <=> \E f \in Rest' : f.n = client'.out[j].id
        BY <1>6
      <4>1. \E f \in Sent' : f.n = client'.out[j].id /\ f.msg = client'.out[j].msg
        BY <1>3, <2>3, <2>4
      <4>2. CASE j = i
        BY <1>3, <2>1, <2>3, <4>1, <4>2
      <4>3. CASE j # i
        <5>1. client.out[j].id # n
          BY <1>4, <4>3
        <5>2. (\E f \in Rest' : f.n = client.out[j].id) <=> (\E f \in Rest : f.n = client.out[j].id)
          BY <2>1, <2>3, <5>1
        <5>3. client'.out[j].next = client.out[j].next /\ client'.out[j].id = client.out[j].id
          BY <1>3, <4>3
        <5>4. client.out[j].next = "PUBCOMP" <=> \E f \in Rest : f.n = client.out[j].id
          BY <2>4
        <5> HIDE DEF Sent, Rest
        <5> QED BY <4>1, <5>2, <5>3, <5>4
      <4> QED BY <4>2, <4>3
    <3>2. \A f \in Sent' \cup Rest' : \E j \in DOMAIN client'.out : client'.out[j].id = f.n
      BY <1>3, <2>1, <2>3, <2>4
    <3> QED BY <3>1, <3>2 DEF MirrorInv
  <2>9. Flows' = Flows /\ Rels' = Rels \cup {n}
    BY <1>8, <2>1, <2>2, <2>3 DEF Flows, Rels
  <2> QED BY <1>5, <1>6, <2>6, <2>7, <2>8, <2>9 DEF Store
<1> QED BY <1>7, <1>8

\* The view after a PUBREL was filed: written or not.
LEMMA ReleaseKeepsView ==
    ASSUME IInv, Shapes', NEW p, Reads("PUBREC", p), NEW d \in Nat,
           mode' = mode, Persistent \/ up' = up, broker' = broker, app' = app,
           Flows' = Flows, Rels' = Rels \cup {p.id}, Ends' = Ends,
           BackFrom(toClient', toClient, d),
           \A j \in DOMAIN toClient' : Back(toClient'[j]) => toClient'[j].id # p.id,
           \/ ForthFrom(toBroker' \o held', toBroker \o held, 0)
           \/ \E k, q : Added(toBroker' \o held', toBroker \o held, k, q)
                        /\ q.type = "PUBREL" /\ q.id = p.id
    PROVE  Sound(View)'
<1> USE DEF IInv
<1>1. /\ AnswerOK(View, p) /\ p.type = "PUBREC"
      /\ \A k \in DOMAIN (toBroker \o held) :
            Forth((toBroker \o held)[k]) => (toBroker \o held)[k].id # p.id
  BY AnswerRead
<1>2. /\ View'.flows = View.flows /\ View'.rel = View.rel \cup {p.id} /\ View'.end = View.end
      /\ View'.pub = View.pub /\ View'.held = View.held /\ View'.got = View.got
      /\ View'.stage = View.stage
      /\ BackFrom(View'.back, View.back, d)
      /\ \A j \in DOMAIN View'.back : Back(View'.back[j]) => View'.back[j].id # p.id
      /\ DOMAIN View'.wire \subseteq Nat /\ DOMAIN View'.back \subseteq Nat
      /\ \A k \in DOMAIN View.wire : Forth(View.wire[k]) => View.wire[k].id # p.id
  BY <1>1, PlacesNext, ViewFields, ViewFieldsNext DEF Persistent
<1>3. \/ ForthFrom(View'.wire, View.wire, 0)
      \/ \E k, q : Added(View'.wire, View.wire, k, q) /\ q.type = "PUBREL" /\ q.id = p.id
  BY ViewFields, ViewFieldsNext
<1> HIDE DEF View
<1>4. Live(View) /\ p.id \in View.held
  BY <1>1 DEF AnswerOK
<1>5. PICK m \in View.got : <<p.id, m>> \in View.flows
  BY <1>1 DEF AnswerOK
<1>6. Sound(View')
  BY <1>2, <1>3, <1>4, <1>5, Released
<1> QED BY <1>6

\* PUBREC keeps the invariant, whether or not the PUBREL can be sent.
LEMMA HandlePubrecsKeeps ==
    ASSUME IInv, Shapes', HandlePubrecs
    PROVE  Nothing' /\ Store' /\ Sound(View)'
<1> USE DEF IInv
<1>1. PICK p : /\ Reads("PUBREC", p)
               /\ \/ \E i \in Outbound(p.id) :
                       /\ client.out[i].next = "PUBREC"
                       /\ Answer(Ack("PUBREL", p.id), [client EXCEPT !.out[i].next = "PUBCOMP"])
                       /\ disk' = disk \cup (IF mode = "persistent"
                                             THEN {File("sc", p.id, 0, 0)} ELSE {})
                  \/ Silent(client) /\ UNCHANGED disk
  BY DEF HandlePubrecs
<1>2. /\ mode' = mode /\ alive' = alive /\ broker' = broker /\ app' = app /\ todo' = todo
      /\ toClient # <<>> /\ todo = <<>> /\ alive /\ up /\ p.id \in Nat
  BY <1>1, ReadsFacts DEF HandlePubrecs
<1>3. CASE Silent(client) /\ UNCHANGED disk
  <2>1. Ignored
    BY <1>2, <1>3 DEF Ignored
  <2> QED BY <1>2, <1>3, <2>1, IgnoredKeeps
<1>4. ASSUME NEW i \in Outbound(p.id), client.out[i].next = "PUBREC",
             Answer(Ack("PUBREL", p.id), [client EXCEPT !.out[i].next = "PUBCOMP"]),
             disk' = disk \cup (IF mode = "persistent" THEN {File("sc", p.id, 0, 0)} ELSE {})
      PROVE  Nothing' /\ Store' /\ Sound(View)'
  <2> DEFINE c == [client EXCEPT !.out[i].next = "PUBCOMP"]
  <2>1. i \in DOMAIN client.out /\ client.out[i].id = p.id /\ client \in Clients
    BY DEF Outbound, Shapes
  <2>2. /\ c \in Clients /\ c.msgID = client.msgID
        /\ Len(c.out) = Len(client.out) /\ DOMAIN c.out = DOMAIN client.out
        /\ \A j \in DOMAIN client.out :
              c.out[j] = IF j = i THEN [client.out[i] EXCEPT !.next = "PUBCOMP"] ELSE client.out[j]
    BY <2>1, NextShapes
  <2>3. c.queue = client.queue
    BY <2>1 DEF Clients
  <2>4. "PUBREL" \in Types /\ Ack("PUBREL", p.id) \in Packets
        /\ Ack("PUBREL", p.id).type = "PUBREL" /\ Ack("PUBREL", p.id).id = p.id
    BY <1>2, AckIsAPacket DEF Types
  <2>5. Answer(Ack("PUBREL", p.id), c)
    BY <1>4
  <2> HIDE DEF c
  <2>6. /\ BackFrom(Tail(toClient), toClient, 1)
        /\ \A j \in DOMAIN Tail(toClient) : Back(Tail(toClient)[j]) => Tail(toClient)[j].id # p.id
    BY <1>1, AnswerRead
  <2>7. client' = c => /\ Store' /\ Ends' = Ends /\ Flows' = Flows /\ Rels' = Rels \cup {p.id}
    BY <1>2, <1>4, <2>1, <2>2, ReleaseKeepsStore
  <2>8. mode = "clean" => disk' = {}
    BY <1>4 DEF Nothing
  <2>9. CASE Transmit(Ack("PUBREL", p.id), c) /\ toClient' = Tail(toClient)
    <3>1. /\ client' = c /\ up' = up /\ held = <<>>
          /\ run' = IF c.queue # <<>> THEN "deliver" ELSE "cycle"
          /\ \/ toBroker' = Append(toBroker, Ack("PUBREL", p.id)) /\ held' = <<>>
             \/ toBroker' = toBroker /\ held' = <<Ack("PUBREL", p.id)>>
      BY <2>9 DEF Transmit, Stay
    <3>2. Added(toBroker' \o held', toBroker \o held, Len(toBroker) + 1, Ack("PUBREL", p.id))
      BY <2>4, <3>1, WirePlusOne DEF Shapes
    <3>3. Nothing'
      BY <1>2, <2>3, <2>8, <3>1 DEF Nothing
    <3>4. Sound(View)'
      <4>1. 1 \in Nat
        OBVIOUS
      <4>2. \E k, q : Added(toBroker' \o held', toBroker \o held, k, q)
                        /\ q.type = "PUBREL" /\ q.id = p.id
        BY <2>4, <3>2
      <4> QED BY <1>1, <1>2, <2>6, <2>7, <2>9, <3>1, <4>1, <4>2, ReleaseKeepsView
    <3> QED BY <2>7, <3>1, <3>3, <3>4
  <2>10. CASE held # <<>> /\ Close(c) /\ UNCHANGED <<toBroker, faults>>
    <3>1. /\ up' = FALSE /\ held' = <<>> /\ toClient' = <<>> /\ run' = "cycle"
          /\ client' = Closed(c) /\ toBroker' = toBroker
      BY <2>10 DEF Close
    <3>2. CASE mode = "clean"
      <4>1. client'.out = <<>> /\ client'.msgID = 0
        BY <2>2, <3>1, <3>2, ClosedIsAClient
      <4>2. 0 \in 0..MaxId
        BY IdAssumption
      <4>3. Store' /\ Sound(View)'
        BY <1>2, <2>8, <3>1, <3>2, <4>1, <4>2, CleanEnd
      <4>4. Nothing'
        BY <1>2, <2>8, <3>1, <3>2, <4>1 DEF Nothing
      <4> QED BY <4>3, <4>4
    <3>3. CASE mode # "clean"
      <4>1. client' = c
        BY <2>2, <3>1, <3>3, ClosedIsAClient
      <4>2. Persistent
        BY <3>3, ModesAssumption DEF Shapes, Persistent
      <4>3. /\ ForthFrom(toBroker' \o held', toBroker \o held, 0)
            /\ BackFrom(toClient', toClient, 0) /\ 0 \in Nat
            /\ \A j \in DOMAIN toClient' : Back(toClient'[j]) => toClient'[j].id # p.id
        BY <3>1, CutWire, NothingBack, NoOps
      <4>4. Sound(View)'
        BY <1>1, <1>2, <2>7, <4>1, <4>2, <4>3, ReleaseKeepsView
      <4>5. Nothing'
        BY <1>2, <3>1, <3>3 DEF Nothing
      <4> QED BY <2>7, <4>1, <4>4, <4>5
    <3> QED BY <3>2, <3>3
  <2> QED BY <2>5, <2>9, <2>10 DEF Answer
<1> QED BY <1>1, <1>3, <1>4

-----------------------------------------------------------------------------
(* Publication. *)

\* With nothing being removed, the list has an entry for every message filed.
LEMMA SentFitsTheList ==
    ASSUME Shapes, Store, Persistent, alive, Ends = {}
    PROVE  /\ Cardinality(Sent) <= Len(client.out) /\ Len(client.out) \in Nat
           /\ IsFiniteSet(Sent) /\ Cardinality(Sent) \in Nat
           /\ \A f \in Sent \cup Rest : \E i \in DOMAIN client.out : client.out[i].id = f.n
<1>1. \A f \in Sent \cup Rest : \E i \in DOMAIN client.out : client.out[i].id = f.n
  BY DEF Store, MirrorInv
<1>2. \A i \in DOMAIN client.out : \E f \in Sent : f.n = client.out[i].id
  BY DEF Store, MirrorInv
<1>3. \A f, g \in Sent : f.n = g.n => f = g
  BY DEF Store, KeyInv, SameKey, Sent, FilesOf
<1> DEFINE D == DOMAIN client.out
           F == Sent
           at == [i \in D |-> CHOOSE f \in F : f.n = client.out[i].id]
<1>4. D = 1..Len(client.out) /\ Len(client.out) \in Nat
  BY LenProperties DEF Shapes, Clients
<1>5. IsFiniteSet(D) /\ Cardinality(D) = Len(client.out)
  <2>1. 1 \in Int /\ Len(client.out) \in Int
    BY <1>4
  <2>2. IsFiniteSet(1..Len(client.out))
        /\ Cardinality(1..Len(client.out)) = IF 1 > Len(client.out) THEN 0 ELSE Len(client.out) - 1 + 1
    BY <2>1, FS_Interval
  <2>3. Cardinality(1..Len(client.out)) = Len(client.out)
    BY <1>4, <2>2
  <2> QED BY <1>4, <2>2, <2>3
<1> HIDE DEF D, F
<1>6. at \in Surjection(D, F)
  <2>1. \A i \in D : at[i] \in F /\ at[i].n = client.out[i].id
    BY <1>2 DEF D, F
  <2>2. at \in [D -> F]
    BY <2>1
  <2>3. \A f \in F : \E i \in D : at[i] = f
    <3> HIDE DEF at
    <3>1. \A f \in F : \E i \in D : client.out[i].id = f.n
      BY <1>1 DEF D, F
    <3>2. \A f, g \in F : f.n = g.n => f = g
      BY <1>3 DEF F
    <3> QED BY <2>1, <3>1, <3>2
  <2> QED BY <2>2, <2>3 DEF Surjection
<1> HIDE DEF at
<1>7. IsFiniteSet(F) /\ Cardinality(F) <= Cardinality(D)
  BY <1>5, <1>6, FS_Surjection
<1>8. Cardinality(F) \in Nat
  BY <1>7, FS_CardinalityType
<1> QED BY <1>1, <1>4, <1>5, <1>7, <1>8 DEF F

\* A publication adds an entry to the list and, if persistent, its file.
LEMMA PublishKeepsStore ==
    ASSUME Shapes, Nothing, Store, NEW q \in Qos, NEW n \in 1..MaxId, NEW m, NEW e,
           e = Entry(n, q, m), m \notin Published, Published' = Published \cup {m},
           app'.published[m] = q, \A x \in Published : app'.published[x] = app.published[x],
           \A i \in DOMAIN client.out : client.out[i].id # n,
           Added(client'.out, client.out, Len(client.out) + 1, e),
           Len(client'.out) = Len(client.out) + 1, Len(client.out) < MaxInflight,
           client'.msgID = n, alive, up, alive' = alive, mode' = mode, todo = <<>>, todo' = todo,
           disk' = disk \cup (IF mode = "persistent" THEN {File("s", n, m, q)} ELSE {})
    PROVE  /\ Store' /\ Ends' = {} /\ Ends = {}
           /\ Flows' = Flows \cup {<<n, m>>} /\ Rels' = Rels
           /\ n \notin Rels /\ \A f \in Flows : f[1] # n
<1>1. e.id = n /\ e.qos = q /\ e.msg = m /\ e.next = IF q = 2 THEN "PUBREC" ELSE "PUBACK"
  BY DEF Entry
<1>2. q \in {1, 2}
  BY QosAreSmall
<1>3. Len(client.out) \in Nat
  BY LenProperties DEF Shapes, Clients
<1>4. Ends' = {} /\ Ends = {} /\ TodoInv'
  <2>1. Ends' = {} /\ Ends = {}
    BY EndsAre
  <2> QED BY <2>1, NoOps DEF TodoInv
<1>5. OutInv'
  <2>1. \A i \in DOMAIN client'.out :
          /\ client'.out[i].id \in 1..MaxId
          /\ client'.out[i].msg \in Published'
          /\ client'.out[i].qos = app'.published[client'.out[i].msg]
          /\ client'.out[i].next = "PUBACK" <=> client'.out[i].qos = 1
    <3> SUFFICES ASSUME NEW i \in DOMAIN client'.out
                 PROVE  /\ client'.out[i].id \in 1..MaxId
                        /\ client'.out[i].msg \in Published'
                        /\ client'.out[i].qos = app'.published[client'.out[i].msg]
                        /\ client'.out[i].next = "PUBACK" <=> client'.out[i].qos = 1
      OBVIOUS
    <3>1. CASE i \in DOMAIN client.out
      <4>1. client'.out[i] = client.out[i]
        BY <3>1 DEF Added
      <4>2. /\ client.out[i].id \in 1..MaxId /\ client.out[i].msg \in Published
            /\ client.out[i].qos = app.published[client.out[i].msg]
            /\ client.out[i].next = "PUBACK" <=> client.out[i].qos = 1
        BY <3>1 DEF Store, OutInv
      <4>3. app'.published[client.out[i].msg] = app.published[client.out[i].msg]
        BY <4>2
      <4> QED BY <4>1, <4>2, <4>3
    <3>2. CASE i \notin DOMAIN client.out
      <4>1. client'.out[i] = e
        BY <3>2 DEF Added
      <4> QED BY <1>1, <1>2, <4>1
    <3> QED BY <3>1, <3>2
  <2>2. \A i, j \in DOMAIN client'.out : client'.out[i].id = client'.out[j].id => i = j
    BY <1>1 DEF Store, OutInv, Added
  <2>3. Len(client'.out) <= MaxInflight
    BY <1>3, IdAssumption
  <2>4. client'.msgID \in 0..MaxId
    BY IdAssumption
  <2> QED BY <2>1, <2>2, <2>3, <2>4 DEF OutInv
<1>6. CASE ~Persistent
  <2>1. ~Persistent' /\ disk' = disk
    BY <1>6 DEF Persistent
  <2>2. Sent' = Sent /\ Rest' = Rest /\ KeyInv'
    BY <2>1, DiskSame DEF Store
  <2>3. FilesInv' /\ MirrorInv'
    BY <2>1, <2>2 DEF Store, FilesInv, MirrorInv
  <2>4. Flows' = Flows \cup {<<n, m>>}
    BY <1>1, <1>6, <2>1 DEF Flows, Added
  <2>5. Rels' = Rels
    <3>1. e.next # "PUBCOMP"
      BY <1>1
    <3>2. Awaited' = Awaited
      BY <3>1 DEF Awaited, Added
    <3>3. \A i \in Awaited : client'.out[i].id = client.out[i].id
      BY DEF Awaited, Added
    <3> QED BY <1>6, <2>1, <3>2, <3>3 DEF Rels
  <2>6. n \notin Rels /\ \A f \in Flows : f[1] # n
    BY <1>6 DEF Rels, Flows, Awaited
  <2> QED BY <1>4, <1>5, <2>2, <2>3, <2>4, <2>5, <2>6 DEF Store
<1>7. CASE Persistent
  <2> DEFINE f0 == File("s", n, m, q)
  <2>1. f0.kind = "s" /\ f0.n = n /\ f0.msg = m /\ f0.qos = q
    BY DEF File
  <2>2. disk' = disk \cup {f0} /\ Persistent'
    BY <1>7 DEF Persistent
  <2> HIDE DEF f0
  <2>3. Rest' = Rest /\ Sent' = Sent \cup {f0}
    BY <2>1, <2>2 DEF Sent, Rest, FilesOf
  <2>4. /\ Cardinality(Sent) <= Len(client.out) /\ IsFiniteSet(Sent) /\ Cardinality(Sent) \in Nat
        /\ \A f \in Sent \cup Rest : \E i \in DOMAIN client.out : client.out[i].id = f.n
    BY <1>4, <1>7, SentFitsTheList
  <2>5. \A f \in Sent \cup Rest : f.n # n
    BY <2>4
  <2>6. KeyInv'
    <3>1. \A f \in disk : ~SameKey(f, f0) /\ ~SameKey(f0, f)
      BY <2>1, <2>5 DEF SameKey, Sent, FilesOf
    <3> QED BY <2>2, <3>1 DEF Store, KeyInv
  <2>7. FilesInv'
    <3>1. Cardinality(Sent') <= MaxInflight
      <4> HIDE DEF Sent
      <4>1. Cardinality(Sent') = Cardinality(Sent) \/ Cardinality(Sent') = Cardinality(Sent) + 1
        BY <2>3, <2>4, FS_AddElement
      <4> QED BY <1>3, <2>4, <4>1, IdAssumption
    <3>2. \A f \in Sent' : f.n \in 1..MaxId /\ f.msg \in Published' /\ f.qos = app'.published[f.msg]
      BY <2>1, <2>3 DEF Store, FilesInv
    <3>3. \A f \in Rest' : f.msg = 0 /\ f.qos = 0
      BY <2>3 DEF Store, FilesInv
    <3>4. \A f \in Rest', g \in Sent' : f.n = g.n => g.qos = 2
      BY <2>1, <2>3, <2>5 DEF Store, FilesInv
    <3> QED BY <3>1, <3>2, <3>3, <3>4 DEF FilesInv
  <2>8. MirrorInv'
    <3>1. \A i \in DOMAIN client.out :
             /\ \E f \in Sent : f.n = client.out[i].id /\ f.msg = client.out[i].msg
             /\ client.out[i].next = "PUBCOMP" <=> \E f \in Rest : f.n = client.out[i].id
      BY <1>7 DEF Store, MirrorInv
    <3>2. \A i \in DOMAIN client'.out :
             /\ \E f \in Sent' : f.n = client'.out[i].id /\ f.msg = client'.out[i].msg
             /\ client'.out[i].next = "PUBCOMP" <=> \E f \in Rest' : f.n = client'.out[i].id
      <4> SUFFICES ASSUME NEW i \in DOMAIN client'.out
                   PROVE  /\ \E f \in Sent' : f.n = client'.out[i].id /\ f.msg = client'.out[i].msg
                          /\ client'.out[i].next = "PUBCOMP" <=> \E f \in Rest' : f.n = client'.out[i].id
        OBVIOUS
      <4>1. CASE i \in DOMAIN client.out
        <5>1. client'.out[i] = client.out[i]
          BY <4>1 DEF Added
        <5> HIDE DEF Sent, Rest
        <5> QED BY <2>3, <3>1, <4>1, <5>1
      <4>2. CASE i \notin DOMAIN client.out
        <5>1. client'.out[i] = e
          BY <4>2 DEF Added
        <5>2. e.next # "PUBCOMP"
          BY <1>1
        <5> QED BY <1>1, <2>1, <2>3, <2>5, <5>1, <5>2
      <4> QED BY <4>1, <4>2
    <3>3. \A f \in Sent' \cup Rest' : \E i \in DOMAIN client'.out : client'.out[i].id = f.n
      BY <1>1, <2>1, <2>3, <2>4 DEF Added
    <3> QED BY <1>4, <3>2, <3>3 DEF MirrorInv
  <2>9. Flows' = Flows \cup {<<n, m>>} /\ Rels' = Rels
    BY <1>7, <2>1, <2>2, <2>3 DEF Flows, Rels
  <2>10. n \notin Rels /\ \A f \in Flows : f[1] # n
    BY <1>7, <2>5 DEF Rels, Flows
  <2> QED BY <1>4, <1>5, <2>6, <2>7, <2>8, <2>9, <2>10 DEF Store
<1> QED BY <1>6, <1>7

\* The id a publication is given belongs to no other flow.
LEMMA FreeIdIsFree ==
    ASSUME Shapes, Nothing, Store, NEW n \in 1..MaxId,
           \A i \in DOMAIN client.out : client.out[i].id # n, alive, todo = <<>>
    PROVE  Ends = {} /\ n \notin Rels /\ \A f \in Flows : f[1] # n
<1>1. Ends = {}
  BY EndsAre
<1>2. CASE Persistent
  <2>1. \A f \in Sent \cup Rest : f.n # n
    BY <1>1, <1>2, SentFitsTheList
  <2> QED BY <1>1, <1>2, <2>1 DEF Rels, Flows
<1>3. CASE ~Persistent
  BY <1>1, <1>3 DEF Rels, Flows, Awaited
<1> QED BY <1>2, <1>3

\* The view when a publication cannot be sent and the connection is closed.
LEMMA UnsentIsSound ==
    ASSUME Shapes', Sound(View), Live(View), NEW n \in Nat, NEW m, NEW q, NEW p,
           \A f \in Flows : f[1] # n, n \notin Rels, n \notin Ends, m \notin Published,
           DOMAIN app.published = Published, DOMAIN app'.published = Published \cup {m},
           app'.published[m] = q, \A x \in Published : app'.published[x] = app.published[x],
           app'.received = app.received, broker' = broker,
           p.type = "PUBLISH", p.id = n, p.msg = m, p.qos = q,
           \E k : Added(Append(toBroker, p) \o <<>>, toBroker \o held, k, p),
           toBroker' \o held' = toBroker \o held, toClient' = <<>>,
           \/ /\ View'.flows = View.flows \cup {<<n, m>>} /\ View'.rel = View.rel
              /\ View'.end = View.end /\ View'.stage = View.stage
           \/ /\ View'.flows = {} /\ View'.rel = {} /\ View'.end = {} /\ View'.stage = "past"
    PROVE  Sound(View)'
<1>1. DOMAIN (<<>>) = {}
  BY NoOps
<1>2. DOMAIN View'.wire \subseteq Nat
  BY PlacesNext, ViewFieldsNext
<1>3. /\ \A f \in View.flows : f[1] # n
      /\ n \notin View.rel /\ n \notin View.end /\ m \notin DOMAIN View.pub
      /\ DOMAIN View'.pub = DOMAIN View.pub \cup {m}
      /\ \A x \in DOMAIN View.pub : View'.pub[x] = View.pub[x]
      /\ p.qos = View'.pub[m]
      /\ View'.held = View.held /\ View'.got = View.got /\ View'.wire = View.wire
      /\ View'.back = <<>> /\ DOMAIN View'.back = {}
  BY <1>1, ViewFields, ViewFieldsNext
<1>4. PICK k : Added(Append(toBroker, p) \o <<>>, View.wire, k, p)
  BY ViewFields
<1> HIDE DEF View
<1>5. PICK v : Added(v, View.wire, k, p)
  BY <1>4
<1>6. Sound(View')
  BY <1>2, <1>3, <1>5, AcceptedUnsent
<1> QED BY <1>6

\* MQTTClient_publish keeps the invariant.
LEMMA PublishKeeps ==
    ASSUME IInv, Shapes', NEW q \in Qos, PublishWritten(q)
    PROVE  Nothing' /\ Store' /\ Sound(View)'
<1> USE DEF IInv
<1> DEFINE m == Len(app.published) + 1
<1>1. OutInv
  BY DEF Store
<1>2. PICK n \in 1..MaxId :
         \E p \in Packets :
              /\ p = Packet("PUBLISH", n, q, m, FALSE)
              /\ \A i \in DOMAIN client.out : client.out[i].id # n
              /\ client' = [client EXCEPT !.out = Append(@, Entry(n, q, m)), !.msgID = n]
              /\ disk' = disk \cup (IF mode = "persistent" THEN {File("s", n, m, q)} ELSE {})
              /\ \/ toBroker' = Append(toBroker, p) /\ held' = <<>>
                 \/ toBroker' = toBroker /\ held' = <<p>>
  BY <1>1, PublishFacts
<1> DEFINE p == Packet("PUBLISH", n, q, m, FALSE)
           e == Entry(n, q, m)
<1>3. /\ p \in Packets /\ \A i \in DOMAIN client.out : client.out[i].id # n
      /\ client' = [client EXCEPT !.out = Append(@, e), !.msgID = n]
      /\ disk' = disk \cup (IF mode = "persistent" THEN {File("s", n, m, q)} ELSE {})
      /\ \/ toBroker' = Append(toBroker, p) /\ held' = <<>>
         \/ toBroker' = toBroker /\ held' = <<p>>
  BY <1>2
<1>4. p.type = "PUBLISH" /\ p.id = n /\ p.qos = q /\ p.msg = m
  BY DEF Packet
<1>5. app.published \in Seq(Qos) /\ Len(app.published) \in Nat /\ m \in Nat
  BY LenProperties DEF Shapes, Apps
<1>6. /\ app'.published = Append(app.published, q) /\ app'.received = app.received
      /\ Len(client.out) < MaxInflight /\ alive /\ up /\ todo = <<>> /\ held = <<>>
      /\ mode' = mode /\ alive' = alive /\ up' = up /\ todo' = todo /\ run' = run
      /\ toClient' = toClient /\ broker' = broker
  BY DEF PublishWritten, Shapes, Apps
<1>7. /\ DOMAIN app.published = Published
      /\ DOMAIN app'.published = Published \cup {m} /\ m \notin Published
      /\ Published' = Published \cup {m} /\ app'.published[m] = q
      /\ \A x \in Published : app'.published[x] = app.published[x]
  <2>1. Added(app'.published, app.published, m, q)
    BY <1>5, <1>6, AppendFacts
  <2>2. DOMAIN app'.published = Published'
    <3>1. app'.published \in Seq(Qos)
      BY DEF Shapes, Apps
    <3> QED BY <3>1, LenProperties DEF Published
  <2>3. DOMAIN app.published = Published
    BY PublishedQos
  <2> QED BY <2>1, <2>2, <2>3 DEF Added
<1> HIDE DEF m
<1>8. e \in Entries
  <2>1. n \in Nat
    OBVIOUS
  <2> QED BY <1>5, <2>1, EntryShapes
<1> HIDE DEF e, p
<1>9. /\ Added(client'.out, client.out, Len(client.out) + 1, e)
      /\ Len(client'.out) = Len(client.out) + 1
      /\ client'.msgID = n /\ client'.queue = client.queue
  <2>1. client.out \in Seq(Entries)
    BY DEF Shapes, Clients
  <2>2. client'.out = Append(client.out, e) /\ client'.msgID = n /\ client'.queue = client.queue
    BY <1>3 DEF Shapes, Clients
  <2>3. Added(client'.out, client.out, Len(client.out) + 1, e)
    BY <1>8, <2>1, <2>2, AppendFacts
  <2>4. Len(client'.out) = Len(client.out) + 1
    BY <1>8, <2>1, <2>2, AppendProperties
  <2> QED BY <2>2, <2>3, <2>4
<1>10. /\ Store' /\ Ends' = {} /\ Ends = {}
       /\ Flows' = Flows \cup {<<n, m>>} /\ Rels' = Rels
       /\ n \notin Rels /\ \A f \in Flows : f[1] # n
  BY <1>3, <1>6, <1>7, <1>9, PublishKeepsStore DEF e
<1>11. Nothing'
  BY <1>3, <1>6, <1>9 DEF Nothing
<1>12. Added(toBroker' \o held', toBroker \o held, Len(toBroker) + 1, p)
  BY <1>3, <1>6, WirePlusOne DEF Shapes
<1>13. /\ View'.flows = View.flows \cup {<<n, m>>} /\ View'.rel = View.rel /\ View'.end = View.end
       /\ n \notin View.rel /\ n \notin View.end /\ \A f \in View.flows : f[1] # n
       /\ DOMAIN View'.pub = DOMAIN View.pub \cup {m} /\ m \notin DOMAIN View.pub
       /\ \A x \in DOMAIN View.pub : View'.pub[x] = View.pub[x]
       /\ View'.pub[m] = q
       /\ View'.held = View.held /\ View'.got = View.got /\ View'.back = View.back
       /\ View'.stage = View.stage /\ Live(View)
  BY <1>6, <1>7, <1>10, ViewFields, ViewFieldsNext DEF Persistent
<1>14. PICK k : Added(View'.wire, View.wire, k, p)
  BY <1>12, ViewFields, ViewFieldsNext
<1> HIDE DEF View
<1>15. Sound(View')
  <2>1. p.qos = View'.pub[m]
    BY <1>4, <1>13
  <2> QED BY <1>4, <1>13, <1>14, <2>1, Accepted
<1> QED BY <1>10, <1>11, <1>15

\* Nor does one whose packet cannot be written break it: the entry and its file
\* are there, or the session is past.
LEMMA PublishFailsKeeps ==
    ASSUME IInv, Shapes', NEW q \in Qos, PublishFails(q)
    PROVE  Nothing' /\ Store' /\ Sound(View)'
<1> USE DEF IInv
<1> DEFINE m == Len(app.published) + 1
<1>1. OutInv
  BY DEF Store
<1>2. PICK n \in 1..MaxId, c \in Clients :
              /\ Packet("PUBLISH", n, q, m, FALSE) \in Packets
              /\ \A i \in DOMAIN client.out : client.out[i].id # n
              /\ c.out = Append(client.out, Entry(n, q, m)) /\ c.msgID = n
              /\ c.queue = client.queue /\ c.inb = client.inb /\ c.seqno = client.seqno
              /\ disk' = disk \cup (IF mode = "persistent" THEN {File("s", n, m, q)} ELSE {})
              /\ Close(c)
  BY <1>1, PublishFailsFacts
<1> DEFINE p == Packet("PUBLISH", n, q, m, FALSE)
           e == Entry(n, q, m)
<1>3. p \in Packets /\ p.type = "PUBLISH" /\ p.id = n /\ p.qos = q /\ p.msg = m
  BY <1>2 DEF Packet
<1>4. app.published \in Seq(Qos) /\ Len(app.published) \in Nat /\ m \in Nat
  BY LenProperties DEF Shapes, Apps
<1>5. /\ app'.published = Append(app.published, q) /\ app'.received = app.received
      /\ Len(client.out) < MaxInflight /\ alive /\ up /\ todo = <<>> /\ held = <<>>
      /\ mode' = mode /\ alive' = alive /\ todo' = todo /\ toBroker' = toBroker /\ broker' = broker
  BY DEF PublishFails, Shapes, Apps
<1>6. /\ up' = FALSE /\ held' = <<>> /\ toClient' = <<>> /\ run' = "cycle" /\ client' = Closed(c)
  BY <1>2 DEF Close
<1>7. /\ DOMAIN app'.published = Published \cup {m} /\ m \notin Published
      /\ Published' = Published \cup {m} /\ app'.published[m] = q
      /\ \A x \in Published : app'.published[x] = app.published[x]
      /\ DOMAIN app.published = Published
  <2>1. Added(app'.published, app.published, m, q)
    BY <1>4, <1>5, AppendFacts
  <2>2. DOMAIN app'.published = Published'
    <3>1. app'.published \in Seq(Qos)
      BY DEF Shapes, Apps
    <3> QED BY <3>1, LenProperties DEF Published
  <2>3. DOMAIN app.published = Published
    BY PublishedQos
  <2> QED BY <2>1, <2>2, <2>3 DEF Added
<1> HIDE DEF m
<1>8. e \in Entries /\ n \in Nat
  <2>1. n \in Nat
    OBVIOUS
  <2> QED BY <1>4, <2>1, EntryShapes
<1> HIDE DEF e, p
<1>9. Ends = {} /\ n \notin Rels /\ \A f \in Flows : f[1] # n
  BY <1>2, <1>5, FreeIdIsFree
<1>10. \E k : Added(Append(toBroker, p) \o <<>>, toBroker \o held, k, p)
  BY <1>3, <1>5, WirePlusOne DEF Shapes
<1>11. toBroker' \o held' = toBroker \o held
  BY <1>5, <1>6
<1>12. DOMAIN (<<>>) = {}
  BY NoOps
<1>13. CASE mode # "clean"
  <2>1. client' = c /\ Persistent
    BY <1>6, <1>13, ClosedIsAClient, ModesAssumption DEF Shapes, Persistent
  <2>2. /\ Added(client'.out, client.out, Len(client.out) + 1, e)
        /\ Len(client'.out) = Len(client.out) + 1 /\ client'.msgID = n /\ client'.queue = client.queue
    <3>1. client.out \in Seq(Entries) /\ client'.out = Append(client.out, e)
      BY <1>2, <2>1 DEF Shapes, Clients, e
    <3>2. Added(client'.out, client.out, Len(client.out) + 1, e)
      BY <1>8, <3>1, AppendFacts
    <3>3. Len(client'.out) = Len(client.out) + 1
      BY <1>8, <3>1, AppendProperties
    <3> QED BY <1>2, <2>1, <3>2, <3>3
  <2>3. Store' /\ Ends' = {} /\ Flows' = Flows \cup {<<n, m>>} /\ Rels' = Rels
    BY <1>2, <1>5, <1>7, <2>2, PublishKeepsStore DEF e
  <2>4. Nothing'
    BY <1>5, <1>6, <1>13 DEF Nothing
  <2>5. Sound(View)'
    <3>1. /\ View'.flows = View.flows \cup {<<n, m>>} /\ View'.rel = View.rel /\ View'.end = View.end
          /\ View'.stage = View.stage /\ Live(View)
      BY <1>5, <1>9, <2>1, <2>3, ViewFields, ViewFieldsNext DEF Persistent
    <3> QED BY <1>3, <1>5, <1>6, <1>7, <1>8, <1>9, <1>10, <1>11, <1>12, <3>1, UnsentIsSound
  <2> QED BY <2>3, <2>4, <2>5
<1>14. CASE mode = "clean"
  <2>1. client'.out = <<>> /\ client'.msgID = 0 /\ 0 \in 0..MaxId
    BY <1>6, <1>14, ClosedIsAClient, IdAssumption
  <2>2. disk' = {}
    <3>1. mode # "persistent" /\ disk = {}
      BY <1>14 DEF Nothing
    <3> QED BY <1>2, <3>1
  <2>3. Store' /\ ~Persistent' /\ Flows' = {} /\ Rels' = {} /\ Ends' = {}
    BY <1>5, <1>14, <2>1, <2>2, CleanStore
  <2>4. Nothing'
    BY <1>5, <1>6, <1>14, <2>1, <2>2 DEF Nothing
  <2>5. Sound(View)'
    <3>1. /\ View'.flows = {} /\ View'.rel = {} /\ View'.end = {}
          /\ View'.stage = "past" /\ Live(View)
      BY <1>5, <1>6, <2>3, ViewFields, ViewFieldsNext
    <3> QED BY <1>3, <1>5, <1>6, <1>7, <1>8, <1>9, <1>10, <1>11, <1>12, <3>1, UnsentIsSound
  <2> QED BY <2>3, <2>4, <2>5
<1> QED BY <1>13, <1>14

-----------------------------------------------------------------------------
(* Connection. *)

\* The packets of a reconnection: what is repeated for the entries of the list.
LEMMA Repeated ==
    ASSUME Shapes, Shapes', Nothing, Connect
    PROVE  /\ \A j \in DOMAIN toClient' : ~Back(toClient'[j])
           /\ \A i \in DOMAIN (toBroker' \o held') :
                 i \in DOMAIN Closed(client).out
                 /\ (toBroker' \o held')[i] = Retry(Closed(client).out[i])
<1> DEFINE out == Closed(client).out
           repeated == [i \in DOMAIN out |-> Retry(out[i])]
           answers == [i \in DOMAIN broker'.out |-> BrokerRetry(broker'.out[i])]
<1>1. out \in Seq(Entries) /\ DOMAIN out = 1..Len(out) /\ Len(out) \in Nat
  <2>1. out \in Seq(Entries)
    BY ClosedIsAClient DEF Shapes, Clients
  <2> QED BY <2>1, LenProperties
<1>2. broker'.out \in Seq(Entries) /\ relDup \in BOOLEAN
  BY DEF Shapes
<1>3. /\ repeated \in Seq(Packets) /\ Len(repeated) = Len(out) /\ DOMAIN repeated = DOMAIN out
      /\ \A i \in DOMAIN out : repeated[i] = Retry(out[i])
  BY <1>1, <1>2, RetryShapes
<1>4. DOMAIN answers = DOMAIN broker'.out /\ \A j \in DOMAIN answers : ~Back(answers[j])
  <2>1. \A j \in DOMAIN broker'.out : ~Back(BrokerRetry(broker'.out[j]))
    BY <1>2, RetryShapes
  <2> QED BY <2>1
<1>5. held = <<>>
  BY DEF Connect, Nothing
<1> HIDE DEF out, repeated, answers
<1>6. CASE /\ up' = TRUE
           /\ client' = Closed(client)
           /\ toBroker' = repeated
           /\ toClient' = answers
           /\ UNCHANGED held
  <2>1. toBroker' \o held' = repeated
    BY <1>3, <1>5, <1>6, ConcatEmptySeq
  <2> QED BY <1>3, <1>4, <1>6, <2>1 DEF out
<1>7. ASSUME NEW k \in DOMAIN out,
             toBroker' = SubSeq(repeated, 1, k - 1),
             IF repeated[k].type = "PUBREL" THEN Close(client)
             ELSE held' = <<repeated[k]>> /\ toClient' = answers
      PROVE  /\ \A j \in DOMAIN toClient' : ~Back(toClient'[j])
             /\ \A i \in DOMAIN (toBroker' \o held') :
                   i \in DOMAIN out /\ (toBroker' \o held')[i] = repeated[i]
  <2>1. k \in Nat \ {0} /\ k - 1 \in Nat /\ k - 1 <= Len(repeated) /\ repeated[k] \in Packets
    <3>1. k \in 1..Len(repeated) /\ Len(repeated) \in Nat
      BY <1>1, <1>3
    <3>2. repeated[k] \in Packets
      BY <1>3, <3>1, ElementOfSeq
    <3> QED BY <3>1, <3>2
  <2>2. /\ toBroker' \in Seq(Packets) /\ Len(toBroker') = k - 1
        /\ \A i \in DOMAIN toBroker' : i \in DOMAIN repeated /\ toBroker'[i] = repeated[i]
    BY <1>3, <1>7, <2>1, SliceFacts
  <2>3. CASE held' = <<>> /\ toClient' = <<>>
    <3>1. toBroker' \o held' = toBroker'
      BY <2>2, <2>3, ConcatEmptySeq
    <3> QED BY <1>3, <2>2, <2>3, <3>1, NoOps
  <2>4. CASE held' = <<repeated[k]>> /\ toClient' = answers
    <3>1. <<repeated[k]>> \in Seq(Packets) /\ Len(<<repeated[k]>>) = 1
      BY <2>1
    <3>2. /\ DOMAIN (toBroker' \o held') = 1..(k - 1 + 1)
          /\ \A i \in 1..(k - 1 + 1) : (toBroker' \o held')[i] =
                IF i <= k - 1 THEN toBroker'[i] ELSE held'[i - (k - 1)]
      BY <2>2, <2>4, <3>1, CatFacts
    <3>3. ASSUME NEW i \in 1..(k - 1 + 1)
          PROVE  i \in DOMAIN out /\ (toBroker' \o held')[i] = repeated[i]
      <4>1. CASE i <= k - 1
        <5>1. i \in DOMAIN toBroker'
          BY <2>1, <2>2, <4>1, LenProperties
        <5> QED BY <1>3, <2>2, <3>2, <4>1, <5>1
      <4>2. CASE ~(i <= k - 1)
        <5>1. i = k /\ i - (k - 1) = 1
          BY <2>1, <4>2
        <5>2. held'[1] = repeated[k]
          BY <2>4
        <5> QED BY <1>3, <3>2, <4>2, <5>1, <5>2
      <4> QED BY <4>1, <4>2
    <3> QED BY <1>4, <2>4, <3>2, <3>3
  <2> QED BY <1>7, <2>3, <2>4 DEF Close
<1> QED BY <1>3, <1>6, <1>7 DEF Connect, out, repeated, answers

\* What is repeated belongs to a flow, in the state it is in.
LEMMA RepeatedIsSound ==
    ASSUME Shapes, Store, Persistent, alive, Ends = {}, NEW i \in DOMAIN client.out
    PROVE  LET p == Retry(client.out[i])
           IN  /\ p.id = client.out[i].id
               /\ \/ /\ p.type = "PUBLISH" /\ <<p.id, p.msg>> \in Flows
                     /\ p.id \notin Rels /\ p.qos = app.published[p.msg]
                  \/ /\ p.type = "PUBREL" /\ p.id \in Rels
                     /\ \E f \in Flows : f[1] = p.id
<1> DEFINE e == client.out[i]
           p == Retry(e)
<1>1. /\ \E f \in Sent : f.n = e.id /\ f.msg = e.msg
      /\ e.next = "PUBCOMP" <=> \E f \in Rest : f.n = e.id
  BY DEF Store, MirrorInv
<1>2. /\ <<e.id, e.msg>> \in Flows
      /\ e.next = "PUBCOMP" <=> e.id \in Rels
  BY <1>1 DEF Flows, Rels
<1>3. e.qos = app.published[e.msg]
  BY DEF Store, OutInv
<1> HIDE DEF e
<1>4. CASE e.next = "PUBCOMP"
  <2>1. p.type = "PUBREL" /\ p.id = e.id
    BY <1>4 DEF Retry, Ack, Packet
  <2>2. \E f \in Flows : f[1] = e.id
    BY <1>2
  <2> QED BY <1>2, <1>4, <2>1, <2>2 DEF e
<1>5. CASE e.next # "PUBCOMP"
  <2>1. p.type = "PUBLISH" /\ p.id = e.id /\ p.msg = e.msg /\ p.qos = e.qos
    BY <1>5 DEF Retry, Packet
  <2> QED BY <1>2, <1>3, <1>5, <2>1 DEF e
<1> QED BY <1>4, <1>5

\* MQTTClient_connect, with its retries whole or cut short, keeps the invariant.
LEMMA ConnectKeeps ==
    ASSUME IInv, Shapes', Connect
    PROVE  Nothing' /\ Store' /\ Sound(View)'
<1> USE DEF IInv
<1>1. /\ alive /\ ~up /\ todo = <<>> /\ held = <<>> /\ run = "cycle"
      /\ mode' = mode /\ alive' = alive /\ todo' = todo /\ disk' = disk /\ app' = app
      /\ broker' = IF mode = "clean" THEN NoSession ELSE broker
  BY DEF Connect, Nothing
<1>2. /\ \A j \in DOMAIN toClient' : ~Back(toClient'[j])
      /\ \A i \in DOMAIN (toBroker' \o held') :
            i \in DOMAIN Closed(client).out
            /\ (toBroker' \o held')[i] = Retry(Closed(client).out[i])
  BY Repeated
<1>3. client \in Clients
  BY DEF Shapes
<1>4. CASE mode = "clean"
  <2>1. Closed(client).out = <<>> /\ Closed(client).msgID = 0 /\ DOMAIN Closed(client).out = {}
    BY <1>3, <1>4, ClosedIsAClient, NoOps
  <2>2. client' = Closed(client) /\ up' = TRUE /\ run' = run /\ disk' = {}
    BY <1>1, <1>4, <2>1 DEF Connect, Nothing
  <2>3. 0 \in 0..MaxId
    BY IdAssumption
  <2>4. Store' /\ ~Persistent' /\ Flows' = {} /\ Rels' = {} /\ Ends' = {}
    BY <1>1, <1>4, <2>1, <2>2, <2>3, CleanStore
  <2>5. Nothing'
    BY <1>1, <1>4, <2>1, <2>2 DEF Nothing
  <2>6. broker'.in = {} /\ DOMAIN (toBroker' \o held') = {}
    <3>1. NoSession.in = {}
      BY DEF NoSession
    <3>2. broker' = NoSession
      BY <1>1, <1>4
    <3> QED BY <1>2, <2>1, <3>1, <3>2
  <2>7. /\ View'.flows = {} /\ View'.rel = {} /\ View'.end = {} /\ View'.pub = View.pub
        /\ View'.got = View.got /\ View'.stage # "kept" /\ View'.held = {}
        /\ DOMAIN View'.wire = {} /\ \A j \in DOMAIN View'.back : ~Back(View'.back[j])
        /\ DOMAIN View'.back \subseteq Nat
    BY <1>1, <1>2, <2>2, <2>4, <2>6, PlacesNext, ViewFields, ViewFieldsNext
  <2> HIDE DEF View
  <2>8. Sound(View')
    BY <2>7, Reset
  <2> QED BY <2>4, <2>5, <2>8
<1>5. CASE mode # "clean"
  <2>1. Closed(client) = client /\ broker' = broker
    BY <1>1, <1>3, <1>5, ClosedIsAClient
  <2>2. Persistent /\ Persistent'
    BY <1>1, <1>5, ModesAssumption DEF Shapes, Persistent
  <2>3. /\ client' = client /\ run' \in {run, "cycle"}
        /\ up' = TRUE \/ (up' = FALSE /\ held' = <<>> /\ toClient' = <<>> /\ run' = "cycle")
    BY <1>1, <2>1 DEF Connect, Close
  <2>4. Nothing'
    BY <1>1, <1>5, <2>3 DEF Nothing
  <2>5. Sent' = Sent /\ Rest' = Rest /\ KeyInv' /\ TodoInv' /\ Ends' = Ends /\ Ends = {}
    BY <1>1, DiskSame, TodoSame, EndsAre DEF Store
  <2>6. Store' /\ Flows' = Flows /\ Rels' = Rels
    BY <1>1, <2>3, <2>5, StoreFrame
  <2>7. /\ View'.flows = View.flows /\ View'.rel = View.rel /\ View'.end = View.end /\ View.end = {}
        /\ View'.held = View.held /\ View'.pub = View.pub /\ View'.got = View.got
        /\ View'.stage = View.stage /\ Live(View)
        /\ \A j \in DOMAIN View'.back : ~Back(View'.back[j])
    BY <1>1, <1>2, <2>1, <2>2, <2>5, <2>6, ViewFields, ViewFieldsNext
  <2>8. /\ View'.wire = toBroker' \o held' /\ View.flows = Flows /\ View.rel = Rels
        /\ View.pub = app.published
    BY ViewFields, ViewFieldsNext
  <2> HIDE DEF View
  <2>9. \A i \in DOMAIN View'.wire :
          /\ View'.wire[i].id = client.out[i].id /\ i \in DOMAIN client.out
          /\ \/ /\ View'.wire[i].type = "PUBLISH" /\ <<View'.wire[i].id, View'.wire[i].msg>> \in View.flows
                /\ View'.wire[i].id \notin View.rel /\ View'.wire[i].qos = View.pub[View'.wire[i].msg]
             \/ /\ View'.wire[i].type = "PUBREL" /\ View'.wire[i].id \in View.rel
                /\ \E f \in View.flows : f[1] = View'.wire[i].id
    <3> SUFFICES ASSUME NEW i \in DOMAIN View'.wire
                 PROVE  LET p == View'.wire[i]
                        IN  /\ p.id = client.out[i].id /\ i \in DOMAIN client.out
                            /\ \/ /\ p.type = "PUBLISH" /\ <<p.id, p.msg>> \in View.flows
                                  /\ p.id \notin View.rel /\ p.qos = View.pub[p.msg]
                               \/ /\ p.type = "PUBREL" /\ p.id \in View.rel
                                  /\ \E f \in View.flows : f[1] = p.id
      OBVIOUS
    <3>1. i \in DOMAIN client.out /\ View'.wire[i] = Retry(client.out[i])
      BY <1>2, <2>1, <2>8
    <3> QED BY <1>1, <2>2, <2>5, <2>8, <3>1, RepeatedIsSound
  <2>10. \A i, j \in DOMAIN View'.wire : View'.wire[i].id = View'.wire[j].id => i = j
    BY <2>9 DEF Store, OutInv
  <2>11. Sound(View')
    BY <2>7, <2>9, <2>10, Resent
  <2> QED BY <2>4, <2>6, <2>11
<1> QED BY <1>4, <1>5

-----------------------------------------------------------------------------
(* What was received, and what was sent to the client. *)

\* What the broker received stays as it is
LEMMA ReceivedSame ==
    ASSUME ReceivedInv, app'.published = app.published, app'.received = app.received
    PROVE  ReceivedInv'
BY DEF ReceivedInv, Published

\* when another message is published,
LEMMA ReceivedPublish ==
    ASSUME Shapes, Shapes', ReceivedInv, NEW q \in Qos, Publish(q)
    PROVE  ReceivedInv'
<1>1. app.published \in Seq(Qos) /\ Len(app.published) \in Nat
  BY LenProperties DEF Shapes, Apps
<1>2. app'.published = Append(app.published, q) /\ app'.received = app.received
  BY DEF Publish, Shapes, Apps
<1>3. Added(app'.published, app.published, Len(app.published) + 1, q)
  BY <1>1, <1>2, AppendFacts
<1>4. DOMAIN app.published = Published /\ DOMAIN app'.published = Published'
  BY PublishedQos, LenProperties DEF Shapes, Apps, Published
<1>5. Published \subseteq Published' /\ \A x \in Published : app'.published[x] = app.published[x]
  BY <1>3, <1>4 DEF Added
<1> HIDE DEF Published
<1>6. \A i \in DOMAIN app.received : app.received[i] \in Published
  BY DEF ReceivedInv
<1>7. \A i \in DOMAIN app'.received :
         /\ app'.received[i] \in Published'
         /\ app'.received[i] = app.received[i]
         /\ app'.published[app'.received[i]] = app.published[app.received[i]]
  BY <1>2, <1>5, <1>6
<1>8. \A i, j \in DOMAIN app.received :
          app.received[i] = app.received[j] /\ app.published[app.received[i]] = 2 => i = j
  BY DEF ReceivedInv
<1>9. DOMAIN app'.received = DOMAIN app.received
  BY <1>2
<1> QED BY <1>7, <1>8, <1>9 DEF ReceivedInv

\* A message more that the broker received: of QoS 1, or for the first time.
LEMMA ReceivedMore ==
    ASSUME Shapes, ReceivedInv, NEW m \in Published, app'.published = app.published,
           app'.received = Append(app.received, m),
           app.published[m] = 2 => m \notin ToSet(app.received)
    PROVE  ReceivedInv'
<1>1. app.received \in Seq(Nat) /\ m \in Nat
  BY DEF Shapes, Apps, Published
<1>2. Added(app'.received, app.received, Len(app.received) + 1, m)
  BY <1>1, AppendFacts
<1>3. app.published[m] = 2 => \A i \in DOMAIN app.received : app.received[i] # m
  BY DEF ToSet
<1>4. Published' = Published
  BY DEF Published
<1>5. \A i \in DOMAIN app'.received : app'.received[i] \in Published
  BY <1>2 DEF ReceivedInv, Added
<1>6. ASSUME NEW i \in DOMAIN app'.received, NEW j \in DOMAIN app'.received,
             app'.received[i] = app'.received[j], app.published[app'.received[i]] = 2
      PROVE  i = j
  <2>1. \A k \in DOMAIN app'.received :
           \/ k \in DOMAIN app.received /\ app'.received[k] = app.received[k]
           \/ k = Len(app.received) + 1 /\ app'.received[k] = m
    BY <1>2 DEF Added
  <2>2. CASE app'.received[i] = m
    BY <1>3, <1>6, <2>1, <2>2
  <2>3. CASE app'.received[i] # m
    BY <1>6, <2>1, <2>3 DEF ReceivedInv
  <2> QED BY <2>2, <2>3
<1> QED BY <1>4, <1>5, <1>6 DEF ReceivedInv

\* and grows by a message it may receive.
LEMMA ReceivedRead ==
    ASSUME IInv, BrokerReads
    PROVE  ReceivedInv'
<1> USE DEF IInv
<1> DEFINE p == Head(toBroker)
<1>1. toBroker # <<>>
  BY DEF BrokerReads
<1>2. /\ p.type = "PUBLISH" =>
           p.msg \in Published /\ p.qos = app.published[p.msg] /\ p.qos \in {1, 2}
      /\ ReadPublish1(p) \/ ReadPublish2(p) \/ ReadPubrel(p) \/ ReadAck(p)
  BY <1>1, FirstIsPublished, BrokerReadsFacts
<1>3. p.type = "PUBLISH" => PublishOK(View, p)
  <2>1. 1 \in DOMAIN (toBroker \o held) /\ (toBroker \o held)[1] = Head(toBroker)
    BY <1>1, WireMinusOne DEF Shapes
  <2>2. 1 \in DOMAIN View.wire /\ View.wire[1] = p
    BY <2>1, ViewFields
  <2> HIDE DEF View, p
  <2> QED BY <2>2 DEF Sound, WireOK
<1>4. View.got = ToSet(app.received) /\ View.held = broker.in
  BY ViewFields
<1> HIDE DEF p, View
<1>5. app \in Apps
  BY DEF Shapes
<1>6. CASE ReadPublish1(p)
  <2>1. app'.received = Append(app.received, p.msg) /\ app'.published = app.published
    BY <1>5, <1>6 DEF ReadPublish1, Apps
  <2> QED BY <1>2, <1>6, <2>1, ReceivedMore DEF ReadPublish1
<1>7. CASE ReadPublish2(p) /\ p.id \notin broker.in
  <2>1. app'.received = Append(app.received, p.msg) /\ app'.published = app.published
    BY <1>5, <1>7 DEF ReadPublish2, Apps
  <2>2. p.msg \notin ToSet(app.received) /\ p.msg \in Published
    BY <1>2, <1>3, <1>4, <1>7 DEF ReadPublish2, PublishOK
  <2> QED BY <2>1, <2>2, ReceivedMore
<1>8. CASE app' = app
  BY <1>8, ReceivedSame
<1> QED BY <1>2, <1>6, <1>7, <1>8 DEF ReadPublish2, ReadPubrel, ReadAck

\* Messages to the client, wherever they are, are of those sent to it.
LEMMA OfferedFrame ==
    ASSUME OfferedInv, Offered \subseteq Offered',
           \A e \in client'.inb : e \in client.inb \/ e.msg \in Offered,
           \A f \in disk' : f.kind = "r" => f \in disk \/ f.msg \in Offered,
           \A i \in DOMAIN toClient' :
              toClient'[i].type = "PUBLISH" => toClient'[i].msg \in Offered',
           \A i \in DOMAIN broker'.out : broker'.out[i].msg \in Offered',
           \A i \in DOMAIN todo' : todo'[i].file.kind = "r" => todo'[i].op = "rm"
    PROVE  OfferedInv'
<1> HIDE DEF Offered
<1>1. \A e \in client'.inb : e.msg \in Offered'
  BY DEF OfferedInv
<1>2. \A f \in FilesOf(disk', "r") : f.msg \in Offered'
  BY DEF OfferedInv, FilesOf
<1> QED BY <1>1, <1>2 DEF OfferedInv

\* What is left on the way to the client.
LEMMA OfferedBack ==
    ASSUME Shapes, OfferedInv, toClient # <<>>
    PROVE  \A i \in DOMAIN Tail(toClient) :
              Tail(toClient)[i].type = "PUBLISH" => Tail(toClient)[i].msg \in Offered
BY TailFacts DEF Shapes, OfferedInv

\* A handler that keeps or moves messages sent to the client.
LEMMA OfferedHandler ==
    ASSUME Shapes, OfferedInv, toClient # <<>>, NEW c \in Clients, NEW p, Answer(p, c) \/ Silent(c),
           app' = app, broker' = broker,
           \A e \in c.inb : e \in client.inb \/ e.msg \in Offered,
           \A f \in disk' : f.kind = "r" => f \in disk \/ f.msg \in Offered,
           \A i \in DOMAIN todo' : todo'[i].file.kind = "r" => todo'[i].op = "rm"
    PROVE  OfferedInv'
<1>1. Offered' = Offered
  BY DEF Offered
<1>2. /\ client' = c \/ client' = Closed(c)
      /\ toClient' = Tail(toClient) \/ toClient' = <<>>
  BY DEF Answer, Silent, Transmit, Stay, Close
<1>3. Closed(c).inb \subseteq c.inb
  BY ClosedIsAClient
<1>4. \A e \in client'.inb : e \in client.inb \/ e.msg \in Offered
  BY <1>2, <1>3
<1>5. \A i \in DOMAIN toClient' :
         toClient'[i].type = "PUBLISH" => toClient'[i].msg \in Offered
  BY <1>2, OfferedBack, NoOps
<1>6. \A i \in DOMAIN broker'.out : broker'.out[i].msg \in Offered
  BY DEF OfferedInv
<1> HIDE DEF Offered
<1> QED BY <1>1, <1>4, <1>5, <1>6, OfferedFrame

\* Acknowledgements of published messages bring no message,
LEMMA OfferedAcks ==
    ASSUME IInv, HandlePubacks \/ HandlePubcomps \/ HandlePubrecs
    PROVE  OfferedInv'
<1> USE DEF IInv
<1>1. PICK type, p : Reads(type, p) /\
         \/ Ignored /\ disk' = disk
         \/ (\E i \in Outbound(p.id) : Over(i)) /\ disk' = disk
         \/ /\ todo' = todo
            /\ \E i \in Outbound(p.id) :
                  /\ Answer(Ack("PUBREL", p.id), [client EXCEPT !.out[i].next = "PUBCOMP"])
                  /\ disk' = disk \cup (IF mode = "persistent" THEN {File("sc", p.id, 0, 0)} ELSE {})
         \/ todo' = todo /\ Silent(client) /\ disk' = disk
  BY DEF HandlePubacks, HandlePubcomps, HandlePubrecs
<1>2. toClient # <<>> /\ todo = <<>> /\ app' = app /\ broker' = broker /\ client \in Clients
  BY <1>1, ReadsFacts DEF HandlePubacks, HandlePubcomps, HandlePubrecs, Shapes
<1>3. \A i \in DOMAIN (<<>>) : (<<>>)[i].file.kind = "r" => (<<>>)[i].op = "rm"
  BY NoOps
<1>4. CASE Silent(client) /\ todo' = todo /\ disk' = disk
  BY <1>2, <1>3, <1>4, OfferedHandler
<1>5. ASSUME NEW i \in Outbound(p.id), Over(i), disk' = disk
      PROVE  OfferedInv'
  <2>1. i \in DOMAIN client.out
    BY DEF Outbound
  <2> DEFINE c == [client EXCEPT !.out = RemoveAt(@, i)]
  <2>2. c \in Clients /\ c.inb = client.inb
    BY <1>2, <2>1, MinusOneShapes DEF Clients
  <2>3. Silent(c) /\ todo' = Filed(<<Rm("s", client.out[i].id), Rm("sc", client.out[i].id)>>)
    BY <1>5 DEF Over
  <2> HIDE DEF c
  <2>4. \A j \in DOMAIN todo' : todo'[j].file.kind = "r" => todo'[j].op = "rm"
    <3>1. \A k, n : Rm(k, n).op = "rm"
      BY DEF Rm
    <3>2. todo' = <<>> \/ todo' = <<Rm("s", client.out[i].id), Rm("sc", client.out[i].id)>>
      BY <2>3 DEF Filed
    <3> QED BY <1>3, <3>1, <3>2
  <2> QED BY <1>2, <1>5, <2>2, <2>3, <2>4, OfferedHandler
<1>6. ASSUME NEW i \in Outbound(p.id), todo' = todo,
             Answer(Ack("PUBREL", p.id), [client EXCEPT !.out[i].next = "PUBCOMP"]),
             disk' = disk \cup (IF mode = "persistent" THEN {File("sc", p.id, 0, 0)} ELSE {})
      PROVE  OfferedInv'
  <2>1. i \in DOMAIN client.out
    BY DEF Outbound
  <2> DEFINE c == [client EXCEPT !.out[i].next = "PUBCOMP"]
  <2>2. c \in Clients /\ c.inb = client.inb
    BY <1>2, <2>1, NextShapes DEF Clients
  <2>3. File("sc", p.id, 0, 0).kind # "r"
    BY DEF File
  <2>4. Answer(Ack("PUBREL", p.id), c)
    BY <1>6
  <2> HIDE DEF c
  <2> QED BY <1>2, <1>3, <1>6, <2>2, <2>3, <2>4, OfferedHandler
<1> QED BY <1>1, <1>4, <1>5, <1>6 DEF Ignored

\* a PUBLISH to the client one that was sent to it,
LEMMA OfferedPublishes ==
    ASSUME IInv, HandlePublishes
    PROVE  OfferedInv'
<1> USE DEF IInv
<1>1. PICK p : Reads("PUBLISH", p) /\ (HandlePublish1(p) \/ HandlePublish2(p))
  BY DEF HandlePublishes
<1>2. /\ toClient # <<>> /\ app' = app /\ broker' = broker /\ client \in Clients
      /\ p.msg \in Nat /\ p.id \in Nat /\ p.msg \in Offered
  BY <1>1, ReadsFacts DEF HandlePublishes, Shapes, OfferedInv
<1>3. \A i \in DOMAIN (<<>>) : (<<>>)[i].file.kind = "r" => (<<>>)[i].op = "rm"
  BY NoOps
<1> HIDE DEF Offered
<1>4. CASE HandlePublish1(p)
  <2>1. Queued(client, p.msg) \in Clients /\ Queued(client, p.msg).inb = client.inb
    BY <1>2, QueuedIsAClient
  <2>2. disk' = disk /\ \E c \in {client, Queued(client, p.msg)} : Answer(Ack("PUBACK", p.id), c)
    BY <1>4 DEF HandlePublish1
  <2>3. todo' = <<>> \/ todo' = <<QueueFile(p.msg)>>
    BY <1>4 DEF HandlePublish1, Filed
  <2>4. \A i \in DOMAIN todo' : todo'[i].file.kind = "r" => todo'[i].op = "rm"
    BY <1>3, <2>3, QuietOps
  <2> QED BY <1>2, <2>1, <2>2, <2>4, OfferedHandler
<1>5. CASE HandlePublish2(p)
  <2> DEFINE x == [id |-> p.id, msg |-> p.msg]
             kept == {y \in client.inb : y.id # p.id} \cup {x}
             c == [client EXCEPT !.inb = kept]
             o == Put(File("r", p.id, p.msg, 2))
  <2>1. c \in Clients /\ c.inb = kept
    <3>1. x \in [id : Nat, msg : Nat] /\ client.inb \in SUBSET [id : Nat, msg : Nat]
      BY <1>2 DEF Clients
    <3>2. kept \in SUBSET [id : Nat, msg : Nat]
      BY <3>1
    <3> HIDE DEF kept
    <3> QED BY <1>2, <3>2 DEF Clients
  <2>2. \A e \in c.inb : e \in client.inb \/ e.msg \in Offered
    BY <1>2, <2>1
  <2>3. Answer(Ack("PUBREC", p.id), client) \/ Answer(Ack("PUBREC", p.id), c)
    BY <1>5 DEF HandlePublish2
  <2>4. o.file.msg = p.msg
    BY DEF Put, File
  <2>5. disk' = disk \/ disk' = After(disk, o)
    BY <1>5 DEF HandlePublish2
  <2> HIDE DEF c, o
  <2>6. \A f \in disk' : f \in disk \/ f.msg \in Offered
    BY <1>2, <2>4, <2>5 DEF After
  <2>7. todo' = <<>>
    BY <1>5 DEF HandlePublish2
  <2> QED BY <1>2, <1>3, <2>1, <2>2, <2>3, <2>6, <2>7, OfferedHandler
<1> QED BY <1>1, <1>4, <1>5

\* a PUBREL moves one to the queue;
LEMMA OfferedPubrels ==
    ASSUME IInv, HandlePubrels
    PROVE  OfferedInv'
<1> USE DEF IInv
<1>1. PICK p : /\ Reads("PUBREL", p)
               /\ \/ \E e \in Inbound(p.id) :
                        LET c == [client EXCEPT !.inb = @ \ {e}]
                        IN  /\ Answer(Ack("PUBCOMP", p.id), Queued(c, e.msg))
                            /\ todo' = Filed(<<QueueFile(e.msg), Rm("r", p.id)>>)
                  \/ /\ Answer(Ack("PUBCOMP", p.id), client) \/ Silent(client)
                     /\ UNCHANGED todo
  BY DEF HandlePubrels
<1>2. /\ toClient # <<>> /\ todo = <<>> /\ app' = app /\ broker' = broker /\ disk' = disk
      /\ client \in Clients
  BY <1>1, ReadsFacts DEF HandlePubrels, Shapes
<1>3. \A i \in DOMAIN (<<>>) : (<<>>)[i].file.kind = "r" => (<<>>)[i].op = "rm"
  BY NoOps
<1>4. CASE (Answer(Ack("PUBCOMP", p.id), client) \/ Silent(client)) /\ UNCHANGED todo
  BY <1>2, <1>3, <1>4, OfferedHandler
<1>5. ASSUME NEW e \in Inbound(p.id),
             Answer(Ack("PUBCOMP", p.id), Queued([client EXCEPT !.inb = @ \ {e}], e.msg)),
             todo' = Filed(<<QueueFile(e.msg), Rm("r", p.id)>>)
      PROVE  OfferedInv'
  <2> DEFINE c == [client EXCEPT !.inb = @ \ {e}]
             q == Queued(c, e.msg)
  <2>1. c \in Clients /\ c.inb = client.inb \ {e} /\ e.msg \in Nat
    BY <1>2 DEF Inbound, Clients
  <2>2. q \in Clients /\ q.inb \subseteq client.inb /\ Answer(Ack("PUBCOMP", p.id), q)
    <3>1. Answer(Ack("PUBCOMP", p.id), q)
      BY <1>5
    <3> HIDE DEF c
    <3> QED BY <2>1, <3>1, QueuedIsAClient
  <2> HIDE DEF q
  <2>3. \A i \in DOMAIN todo' : todo'[i].file.kind = "r" => todo'[i].op = "rm"
    <3>1. todo' = <<>> \/ todo' = <<QueueFile(e.msg), Rm("r", p.id)>>
      BY <1>5 DEF Filed
    <3> QED BY <1>3, <3>1, QuietOps
  <2> QED BY <1>2, <2>2, <2>3, OfferedHandler
<1> QED BY <1>1, <1>4, <1>5

\* The steps of the client that send and read nothing.
LEMMA OfferedIdle ==
    ASSUME IInv,
           \/ DiskStep \/ ContinueWrite \/ FindReady \/ HandlePingresps \/ Deliver
           \/ \E q \in Qos : PublishWritten(q)
    PROVE  OfferedInv'
<1> USE DEF IInv
<1>1. Offered' = Offered
  BY DEF Offered, DiskStep, ContinueWrite, FindReady, HandlePingresps, Deliver, PublishWritten, Shapes, Apps
<1>2. /\ client'.inb = client.inb /\ toClient' = toClient /\ broker' = broker
  BY DEF DiskStep, ContinueWrite, FindReady, HandlePingresps, Deliver, PublishWritten, Shapes, Clients
<1>3. \A f \in disk' : f.kind = "r" => f \in disk
  <2>1. CASE DiskStep
    <3>1. Head(todo) = todo[1] /\ 1 \in DOMAIN todo /\ Head(todo) \in Ops
      BY <2>1, TailFacts DEF DiskStep, Shapes
    <3>2. Head(todo).op = "put" => Head(todo).file.kind # "r"
      BY <3>1 DEF OfferedInv
    <3> QED BY <2>1, <3>2 DEF DiskStep, After
  <2>2. CASE \E q \in Qos : PublishWritten(q)
    <3>1. \A n, m, q : File("s", n, m, q).kind # "r"
      BY DEF File
    <3>2. \E n, m, q : disk' \subseteq disk \cup {File("s", n, m, q)}
      BY <2>2 DEF PublishWritten
    <3> QED BY <3>1, <3>2
  <2>3. CASE ContinueWrite \/ FindReady \/ HandlePingresps \/ Deliver
    BY <2>3 DEF ContinueWrite, FindReady, HandlePingresps, Deliver
  <2> QED BY <2>1, <2>2, <2>3
<1>4. \A i \in DOMAIN todo' : todo'[i].file.kind = "r" => todo'[i].op = "rm"
  <2>1. CASE todo' = todo
    BY <2>1 DEF OfferedInv
  <2>2. CASE DiskStep
    <3>1. \A i \in DOMAIN todo' : i + 1 \in DOMAIN todo /\ todo'[i] = todo[i + 1]
      BY <2>2, TailFacts DEF DiskStep, Shapes
    <3> QED BY <3>1 DEF OfferedInv
  <2>3. CASE Deliver
    <3>1. todo' = todo \/ todo' = <<>> \/ todo' = <<Rm("q", Head(client.queue).seq)>>
      BY <2>3 DEF Deliver, Filed
    <3> QED BY <2>1, <3>1, NoOps, QuietOps
  <2> QED BY <2>1, <2>2, <2>3 DEF ContinueWrite, FindReady, HandlePingresps, PublishWritten
<1>5. /\ \A i \in DOMAIN toClient' : toClient'[i].type = "PUBLISH" => toClient'[i].msg \in Offered
      /\ \A i \in DOMAIN broker'.out : broker'.out[i].msg \in Offered
  BY <1>2 DEF OfferedInv
<1> HIDE DEF Offered
<1> QED BY <1>1, <1>2, <1>3, <1>4, <1>5, OfferedFrame

\* The connection or the process ends, another process starts.
LEMMA OfferedRestart ==
    ASSUME IInv, Drop \/ Crash \/ Create
    PROVE  OfferedInv'
<1> USE DEF IInv
<1>1. Offered' = Offered
  BY DEF Offered, Drop, Crash, Create, Shapes, Apps
<1>2. /\ broker' = broker /\ todo' \in {todo, <<>>} /\ toClient' \in {toClient, <<>>}
  BY DEF Drop, Crash, Create, Close
<1>3. \A f \in disk' : f \in disk
  BY DEF Drop, Crash, Create, WithoutOrphans
<1>4. \A e \in client'.inb : e \in client.inb \/ e.msg \in Offered
  <2>1. CASE Drop
    BY <2>1, ClosedIsAClient DEF Drop, Close, Shapes
  <2>2. CASE Crash
    BY <2>2 DEF Crash, NoLists
  <2>3. CASE Create
    <3>1. disk \in SUBSET Files /\ IsFiniteSet(disk) /\ \A f, g \in disk : SameKey(f, g) => f = g
      BY DEF Shapes, Store, KeyInv
    <3>2. \A e \in Restored(disk).inb : \E f \in FilesOf(disk, "r") : e.msg = f.msg
      BY <3>1, RestoredFacts
    <3> QED BY <2>3, <3>2 DEF Create, OfferedInv
  <2> QED BY <2>1, <2>2, <2>3
<1>5. /\ \A i \in DOMAIN toClient' : toClient'[i].type = "PUBLISH" => toClient'[i].msg \in Offered
      /\ \A i \in DOMAIN broker'.out : broker'.out[i].msg \in Offered
      /\ \A i \in DOMAIN todo' : todo'[i].file.kind = "r" => todo'[i].op = "rm"
  BY <1>2, NoOps DEF OfferedInv
<1> HIDE DEF Offered
<1> QED BY <1>1, <1>3, <1>4, <1>5, OfferedFrame

\* A publication that cannot be written closes the connection as well.
LEMMA OfferedPublishFails ==
    ASSUME IInv, NEW q \in Qos, PublishFails(q)
    PROVE  OfferedInv'
<1> USE DEF IInv
<1>1. OutInv
  BY DEF Store
<1> DEFINE m == Len(app.published) + 1
<1>2. PICK n \in 1..MaxId, c \in Clients :
              /\ c.inb = client.inb
              /\ disk' = disk \cup (IF mode = "persistent" THEN {File("s", n, m, q)} ELSE {})
              /\ Close(c)
  BY <1>1, PublishFailsFacts
<1> HIDE DEF m
<1>3. Offered' = Offered
  BY DEF Offered, PublishFails, Shapes, Apps
<1>4. broker' = broker /\ todo' = todo
  BY DEF PublishFails
<1>5. toClient' = <<>> /\ client' = Closed(c)
  BY <1>2 DEF Close
<1>6. \A f \in disk' : f.kind = "r" => f \in disk
  <2>1. File("s", n, m, q).kind # "r"
    BY DEF File
  <2> QED BY <1>2, <2>1
<1>7. \A e \in client'.inb : e \in client.inb
  BY <1>2, <1>5, ClosedIsAClient
<1>8. /\ \A i \in DOMAIN toClient' : toClient'[i].type = "PUBLISH" => toClient'[i].msg \in Offered
      /\ \A i \in DOMAIN broker'.out : broker'.out[i].msg \in Offered
      /\ \A i \in DOMAIN todo' : todo'[i].file.kind = "r" => todo'[i].op = "rm"
  BY <1>4, <1>5, NoOps DEF OfferedInv
<1> HIDE DEF Offered
<1> QED BY <1>3, <1>6, <1>7, <1>8, OfferedFrame

\* the broker repeats what it sent,
LEMMA OfferedConnect ==
    ASSUME IInv, Shapes', Connect
    PROVE  OfferedInv'
<1> USE DEF IInv
<1>1. Offered' = Offered /\ todo' = todo /\ disk' = disk
  BY DEF Offered, Connect
<1>2. client' = Closed(client) \/ client' = client
  BY DEF Connect, Close
<1>3. \A e \in client'.inb : e \in client.inb
  BY <1>2, ClosedIsAClient DEF Shapes
<1>4. broker'.out \in Seq(Entries) /\ \A i \in DOMAIN broker'.out : broker'.out[i].msg \in Offered
  <2>1. \A i \in DOMAIN NoSession.out : FALSE
    BY NoOps DEF NoSession
  <2>2. broker' = NoSession \/ broker' = broker
    BY DEF Connect
  <2> QED BY <2>1, <2>2 DEF OfferedInv, Shapes
<1>5. \A i \in DOMAIN toClient' : toClient'[i].type = "PUBLISH" => toClient'[i].msg \in Offered
  <2> DEFINE answers == [i \in DOMAIN broker'.out |-> BrokerRetry(broker'.out[i])]
  <2>1. toClient' = answers \/ toClient' = <<>>
    BY DEF Connect, Close
  <2>2. \A e \in Entries : BrokerRetry(e).type = "PUBLISH" => BrokerRetry(e).msg = e.msg
    <3>1. ASSUME NEW e \in Entries
          PROVE  BrokerRetry(e).type = "PUBLISH" => BrokerRetry(e).msg = e.msg
      <4>1. CASE e.next = "PUBCOMP"
        <5>1. BrokerRetry(e).type = "PUBREL"
          BY <4>1 DEF BrokerRetry, Ack, Packet
        <5> QED BY <5>1
      <4>2. CASE e.next # "PUBCOMP"
        BY <4>2 DEF BrokerRetry, Packet
      <4> QED BY <4>1, <4>2
    <3> QED BY <3>1
  <2>3. \A i \in DOMAIN broker'.out : broker'.out[i] \in Entries
    BY <1>4, LenProperties, ElementOfSeq
  <2>4. \A i \in DOMAIN answers : answers[i].type = "PUBLISH" => answers[i].msg \in Offered
    BY <1>4, <2>2, <2>3
  <2> HIDE DEF answers
  <2> QED BY <2>1, <2>4, NoOps
<1>6. \A i \in DOMAIN todo' : todo'[i].file.kind = "r" => todo'[i].op = "rm"
  BY <1>1 DEF OfferedInv
<1> HIDE DEF Offered
<1> QED BY <1>1, <1>3, <1>4, <1>5, <1>6, OfferedFrame

\* and numbers what it sends anew.
LEMMA OfferedBroker ==
    ASSUME IInv, Shapes', BrokerReads \/ \E q \in Qos : BrokerPublishes(q)
    PROVE  OfferedInv'
<1> USE DEF IInv
<1>1. client' = client /\ todo' = todo /\ disk' = disk
  BY DEF BrokerReads, BrokerPublishes
<1>2. \A i \in DOMAIN todo' : todo'[i].file.kind = "r" => todo'[i].op = "rm"
  BY <1>1 DEF OfferedInv
<1>3. toClient \in Seq(Packets) /\ broker.out \in Seq(Entries) /\ app.offered \in Seq(Qos)
      /\ Len(app.offered) \in Nat
  BY LenProperties DEF Shapes, Apps
<1>4. ASSUME NEW x, Reply(x), x \in Packets, x.type = "PUBLISH" => x.msg \in Offered',
             Offered \subseteq Offered'
      PROVE  \A i \in DOMAIN toClient' : toClient'[i].type = "PUBLISH" => toClient'[i].msg \in Offered'
  <2> HIDE DEF Offered
  <2>1. toClient' = toClient \/ Added(toClient', toClient, Len(toClient) + 1, x)
    BY <1>3, <1>4, AppendFacts DEF Reply
  <2> QED BY <1>4, <2>1 DEF OfferedInv, Added
<1>5. CASE BrokerReads
  <2> DEFINE p == Head(toBroker)
  <2>1. toBroker # <<>>
    BY <1>5 DEF BrokerReads
  <2>2. /\ ReadPublish1(p) \/ ReadPublish2(p) \/ ReadPubrel(p) \/ ReadAck(p)
        /\ p \in Packets
    BY <1>5, <2>1, FirstIsPublished, BrokerReadsFacts
  <2>3. p.id \in Nat
    BY <2>2 DEF Packets
  <2> HIDE DEF p
  <2>4. Offered' = Offered
    BY <2>2 DEF Offered, ReadPublish1, ReadPublish2, ReadPubrel, ReadAck, Shapes, Apps
  <2>5. \A i \in DOMAIN broker'.out : broker'.out[i].msg \in Offered
    <3>1. CASE ReadAck(p)
      BY <3>1 DEF ReadAck, OfferedInv
    <3>2. CASE broker'.out = broker.out
      BY <3>2 DEF OfferedInv
    <3> QED BY <2>2, <3>1, <3>2 DEF ReadPublish1, ReadPublish2, ReadPubrel, Shapes
  <2>6. \A i \in DOMAIN toClient' : toClient'[i].type = "PUBLISH" => toClient'[i].msg \in Offered'
    <3>1. toClient' = toClient \/ \E t \in {"PUBACK", "PUBREC", "PUBCOMP", "PUBREL"} : Reply(Ack(t, p.id))
      BY <2>2 DEF ReadPublish1, ReadPublish2, ReadPubrel, ReadAck
    <3>2. \A t \in {"PUBACK", "PUBREC", "PUBCOMP", "PUBREL"} :
             Ack(t, p.id) \in Packets /\ Ack(t, p.id).type # "PUBLISH"
      BY <2>3, AckIsAPacket DEF Types
    <3>3. CASE toClient' = toClient
      BY <2>4, <3>3 DEF OfferedInv
    <3> HIDE DEF Offered
    <3>4. ASSUME NEW t \in {"PUBACK", "PUBREC", "PUBCOMP", "PUBREL"}, Reply(Ack(t, p.id))
          PROVE  \A i \in DOMAIN toClient' : toClient'[i].type = "PUBLISH" => toClient'[i].msg \in Offered'
      BY <1>4, <2>4, <3>2, <3>4
    <3> QED BY <3>1, <3>3, <3>4
  <2> HIDE DEF Offered
  <2> QED BY <1>1, <1>2, <2>4, <2>5, <2>6, OfferedFrame
<1>6. ASSUME NEW q \in Qos, BrokerPublishes(q)
      PROVE  OfferedInv'
  <2> DEFINE m == Len(app.offered) + 1
  <2>1. PICK n \in Nat :
              LET e == Entry(n, q, m)
                  p == Packet("PUBLISH", n, q, m, FALSE)
              IN  /\ e \in Entries /\ p \in Packets
                  /\ broker' = [broker EXCEPT !.out = Append(@, e)]
                  /\ Reply(p)
    BY <1>6, BrokerPublishesFacts
  <2> DEFINE e == Entry(n, q, m)
             p == Packet("PUBLISH", n, q, m, FALSE)
  <2>2. e \in Entries /\ p \in Packets /\ Reply(p) /\ broker'.out = Append(broker.out, e)
    BY <2>1 DEF Shapes
  <2>3. e.msg = m /\ p.msg = m
    BY DEF Entry, Packet
  <2>4. Offered \subseteq Offered' /\ m \in Offered'
    <3>1. app'.offered = Append(app.offered, q)
      BY <1>6 DEF BrokerPublishes, Shapes, Apps
    <3>2. Len(app'.offered) = m
      BY <1>3, <3>1, AppendProperties
    <3> QED BY <1>3, <3>2 DEF Offered
  <2> HIDE DEF m, e, p, Offered
  <2>5. \A i \in DOMAIN broker'.out : broker'.out[i].msg \in Offered'
    <3>1. Added(broker'.out, broker.out, Len(broker.out) + 1, e)
      BY <1>3, <2>2, AppendFacts
    <3> QED BY <2>3, <2>4, <3>1 DEF Added, OfferedInv
  <2>6. \A i \in DOMAIN toClient' : toClient'[i].type = "PUBLISH" => toClient'[i].msg \in Offered'
    BY <1>4, <2>2, <2>3, <2>4
  <2> QED BY <1>1, <1>2, <2>4, <2>5, <2>6, OfferedFrame
<1> QED BY <1>5, <1>6

-----------------------------------------------------------------------------
(* The invariant. *)

\* The invariant holds at the start.
LEMMA InitIsSound == Init => IInv
<1> SUFFICES ASSUME Init PROVE IInv
  OBVIOUS
<1>1. PICK id \in {0, MaxId - 1} : client = [NoLists EXCEPT !.msgID = id]
  BY DEF Init
<1>2. id \in 0..MaxId /\ id \in Nat
  BY IdAssumption
<1>3. /\ client.out = <<>> /\ client.inb = {} /\ client.queue = <<>> /\ client.msgID = id
      /\ client.seqno = 0
  BY <1>1 DEF NoLists
<1>4. /\ alive = TRUE /\ up = FALSE /\ held = <<>> /\ todo = <<>> /\ disk = {} /\ run = "cycle"
      /\ stalled = FALSE /\ toBroker = <<>> /\ toClient = <<>> /\ faults = 0
      /\ broker.in = {} /\ broker.out = <<>> /\ broker = NoSession
      /\ app.published = <<>> /\ app.received = <<>> /\ app.offered = <<>>
      /\ mode \in Modes /\ relDup \in BOOLEAN
  BY DEF Init, NoSession
<1>5. DOMAIN (<<>>) = {} /\ Len(<<>>) = 0
  BY EmptySeq, LenProperties
<1>6. Shapes
  <2>1. client \in Clients
    <3>1. <<>> \in Seq(Entries) /\ <<>> \in Seq([msg : Nat, seq : Nat])
      BY EmptySeq
    <3> QED BY <1>1, <1>2, <3>1 DEF NoLists, Clients
  <2>2. app \in Apps
    <3>1. <<>> \in Seq(Qos) /\ <<>> \in Seq(Nat)
      BY EmptySeq
    <3> QED BY <3>1 DEF Init, Apps
  <2>3. broker \in [in : SUBSET Nat, out : Seq(Entries)]
    <3>1. <<>> \in Seq(Entries)
      BY EmptySeq
    <3> QED BY <1>4, <3>1 DEF NoSession
  <2>4. <<>> \in Seq(Packets) /\ <<>> \in Seq(Ops) /\ Len(<<>>) <= 1
    BY EmptySeq
  <2>5. disk \in SUBSET Files /\ IsFiniteSet(disk)
    BY <1>4, FS_EmptySet
  <2> QED BY <1>4, <2>1, <2>2, <2>3, <2>4, <2>5 DEF Shapes
<1>7. Nothing
  BY <1>3, <1>4 DEF Nothing
<1>8. Sent = {} /\ Rest = {} /\ KeyInv
  BY <1>4 DEF Sent, Rest, FilesOf, KeyInv
<1>9. Removals = {} /\ Awaited = {} /\ DOMAIN client.out = {}
  BY <1>3, <1>4, <1>5 DEF Removals, Awaited
<1>10. Flows = {} /\ Rels = {} /\ Ends = {}
  BY <1>8, <1>9 DEF Flows, Rels, Ends
<1>11. Store
  <2>1. OutInv
    <3>1. Len(client.out) <= MaxInflight
      BY <1>3, <1>5, IdAssumption
    <3> QED BY <1>2, <1>3, <1>9, <3>1 DEF OutInv
  <2>2. FilesInv
    <3>1. Cardinality(Sent) <= MaxInflight
      BY <1>8, FS_EmptySet, IdAssumption
    <3> QED BY <1>8, <3>1 DEF FilesInv
  <2>3. TodoInv
    BY <1>4, <1>5 DEF TodoInv
  <2>4. MirrorInv
    BY <1>8, <1>9 DEF MirrorInv
  <2> QED BY <1>8, <2>1, <2>2, <2>3, <2>4 DEF Store
<1>12. Sound(View)
  <2>1. toBroker \o held = <<>>
    <3>1. <<>> \o <<>> = <<>>
      BY EmptySeq, ConcatEmptySeq
    <3> QED BY <1>4, <3>1
  <2>2. /\ View.flows = {} /\ View.rel = {} /\ View.end = {} /\ View.held = {}
        /\ DOMAIN View.wire = {} /\ DOMAIN View.back = {}
        /\ DOMAIN View.pub = {} /\ View.got = {}
    <3>1. ToSet(<<>>) = {}
      BY <1>5 DEF ToSet
    <3> QED BY <1>4, <1>5, <1>10, <2>1, <3>1, ViewFields
  <2> HIDE DEF View
  <2>3. FlowsOK(View) /\ WireOK(View) /\ AloneOK(View)
    BY <2>2 DEF FlowsOK, WireOK, AloneOK
  <2>4. BackOK(View) /\ BrokerOK(View) /\ KeptOK(View)
    BY <2>2 DEF BackOK, BrokerOK, KeptOK
  <2> QED BY <2>3, <2>4 DEF Sound
<1>13. ReceivedInv
  BY <1>4, <1>5 DEF ReceivedInv
<1>14. OfferedInv
  BY <1>3, <1>4, <1>5 DEF OfferedInv, FilesOf
<1> QED BY <1>6, <1>7, <1>11, <1>12, <1>13, <1>14 DEF IInv

\* The invariant is inductive: one step per action.
LEMMA StepKeeps == IInv /\ [Next]_vars => IInv'
<1> SUFFICES ASSUME IInv, [Next]_vars PROVE IInv'
  OBVIOUS
<1>1. Shapes /\ Nothing /\ Store /\ OutInv /\ KeyInv /\ ReceivedInv /\ OfferedInv
  BY DEF IInv, Store
<1>2. ASSUME NEW q \in Qos, Publish(q) PROVE IInv'
  <2>1. PublishWritten(q) \/ PublishFails(q)
    BY <1>2, PublishSplits
  <2>2. Shapes'
    BY <1>1, <2>1, PublishShapes, PublishFailsShapes
  <2>3. ReceivedInv'
    BY <1>1, <1>2, <2>2, ReceivedPublish
  <2>4. OfferedInv'
    BY <2>1, OfferedIdle, OfferedPublishFails
  <2>5. Nothing' /\ Store' /\ Sound(View)'
    BY <2>1, <2>2, PublishKeeps, PublishFailsKeeps
  <2> QED BY <2>2, <2>3, <2>4, <2>5 DEF IInv
<1>3. ASSUME NEW q \in Qos, BrokerPublishes(q) PROVE IInv'
  <2>1. Shapes'
    BY <1>1, <1>3, BrokerPublishesShapes
  <2>2. ReceivedInv'
    BY <1>1, <1>3, ReceivedSame DEF BrokerPublishes, Shapes, Apps
  <2>3. OfferedInv'
    BY <1>3, <2>1, OfferedBroker
  <2> QED BY <1>3, <2>1, <2>2, <2>3, BrokerPublishesKeeps DEF IInv
<1>4. ASSUME \/ DiskStep \/ ContinueWrite \/ FindReady \/ HandlePingresps \/ Deliver
      PROVE  IInv'
  <2>1. Shapes'
    BY <1>1, <1>4, QuietShapes
  <2>2. ReceivedInv'
    BY <1>1, <1>4, ReceivedSame
       DEF DiskStep, ContinueWrite, FindReady, HandlePingresps, Deliver, Shapes, Apps
  <2>3. OfferedInv'
    BY <1>4, OfferedIdle
  <2>4. Nothing' /\ Store' /\ Sound(View)'
    BY <1>4, <2>1, DiskStepKeeps, ContinueWriteKeeps, IdleActionsKeep, DeliverKeeps
  <2> QED BY <2>1, <2>2, <2>3, <2>4 DEF IInv
<1>5. ASSUME Drop \/ Crash \/ Create
      PROVE  IInv'
  <2>1. Shapes'
    BY <1>1, <1>5, QuietShapes, CreateShapes
  <2>2. ReceivedInv'
    BY <1>1, <1>5, ReceivedSame DEF Drop, Crash, Create, Shapes, Apps
  <2>3. OfferedInv'
    BY <1>5, OfferedRestart
  <2>4. Nothing' /\ Store' /\ Sound(View)'
    BY <1>5, <2>1, DropKeeps, CrashKeeps, CreateKeeps
  <2> QED BY <2>1, <2>2, <2>3, <2>4 DEF IInv
<1>6. ASSUME HandlePublishes
      PROVE  IInv'
  <2>1. Shapes'
    BY <1>1, <1>6, HandlePublishesShapes
  <2>2. ReceivedInv'
    BY <1>1, <1>6, ReceivedSame DEF HandlePublishes
  <2> QED BY <1>6, <2>1, <2>2, OfferedPublishes, HandlePublishesKeeps DEF IInv
<1>7. ASSUME HandlePubacks \/ HandlePubcomps
      PROVE  IInv'
  <2>1. Shapes'
    BY <1>1, <1>7, HandleAcksShapes
  <2>2. ReceivedInv'
    BY <1>1, <1>7, ReceivedSame DEF HandlePubacks, HandlePubcomps
  <2> QED BY <1>7, <2>1, <2>2, OfferedAcks, HandleAcksKeep DEF IInv
<1>8. ASSUME HandlePubrecs
      PROVE  IInv'
  <2>1. Shapes'
    BY <1>1, <1>8, HandlePubrecsShapes
  <2>2. ReceivedInv'
    BY <1>1, <1>8, ReceivedSame DEF HandlePubrecs
  <2> QED BY <1>8, <2>1, <2>2, OfferedAcks, HandlePubrecsKeeps DEF IInv
<1>9. ASSUME HandlePubrels
      PROVE  IInv'
  <2>1. Shapes'
    BY <1>1, <1>9, HandlePubrelsShapes
  <2>2. ReceivedInv'
    BY <1>1, <1>9, ReceivedSame DEF HandlePubrels
  <2> QED BY <1>9, <2>1, <2>2, OfferedPubrels, HandlePubrelsKeeps DEF IInv
<1>10. ASSUME Connect
       PROVE  IInv'
  <2>1. Shapes'
    BY <1>1, <1>10, ConnectShapes
  <2>2. ReceivedInv'
    BY <1>1, <1>10, ReceivedSame DEF Connect
  <2> QED BY <1>10, <2>1, <2>2, OfferedConnect, ConnectKeeps DEF IInv
<1>11. ASSUME BrokerReads
       PROVE  IInv'
  <2>1. Shapes'
    <3>1. Head(toBroker).type = "PUBLISH" => Head(toBroker).qos \in {1, 2}
      BY <1>1, <1>11, FirstIsPublished DEF BrokerReads, IInv
    <3> QED BY <1>1, <1>11, <3>1, BrokerReadsShapes
  <2> QED BY <1>11, <2>1, ReceivedRead, OfferedBroker, BrokerReadsKeeps DEF IInv
<1>12. CASE UNCHANGED vars
  BY <1>12 DEF vars, IInv, Shapes, Nothing, Store, OutInv, KeyInv, FilesInv, TodoInv, MirrorInv,
               Sent, Rest, FilesOf, Published, Persistent, Ends, Removals, View, Flows, Rels, Awaited,
               ReceivedInv, OfferedInv, Offered
<1> QED BY <1>2, <1>3, <1>4, <1>5, <1>6, <1>7, <1>8, <1>9, <1>10, <1>11, <1>12 DEF Next, Handle

\* The lists, the files and the two directions of the connection agree on every
\* flow the client publishes with, through drops, kills between two file
\* operations, partial writes and restarts (MQTTProtocolClient.c, MQTTPersistence.c).
THEOREM SessionIsSound == Spec => []IInv
<1> QED BY InitIsSound, StepKeeps, PTL DEF Spec

\* The invariant implies the types, the bound of the list and distinct ids.
LEMMA SoundTypes == IInv => TypeOK
<1> SUFFICES ASSUME IInv PROVE TypeOK
  OBVIOUS
<1>1. Shapes /\ Nothing /\ OutInv /\ OfferedInv
  BY DEF IInv, Store
<1>2. \A i \in DOMAIN client.out : client.out[i] \in Entries
  BY <1>1, LenProperties, ElementOfSeq DEF Shapes, Clients
<1>3. \A i \in DOMAIN client.out :
         client.out[i].next \in {"PUBACK", "PUBREC", "PUBCOMP"}
  BY <1>2 DEF Entries
<1>4. \A x \in Published : app.published[x] \in Qos
  BY <1>1, ElementOfSeq DEF Published, Shapes, Apps
<1>5. \A i \in DOMAIN client.out :
          /\ client.out[i].id \in 1..MaxId /\ client.out[i].qos \in Qos
          /\ client.out[i].msg \in Published
          /\ client.out[i].next \in {"PUBACK", "PUBREC", "PUBCOMP"}
          /\ \A j \in DOMAIN client.out : client.out[i].id = client.out[j].id => i = j
  BY <1>1, <1>3, <1>4 DEF OutInv
<1>6. \A e \in client.inb : e.msg \in 1..Len(app.offered)
  BY <1>1 DEF OfferedInv, Offered
<1>7. Len(client.out) <= MaxInflight /\ client.msgID \in 0..MaxId /\ client.seqno \in Nat
  BY <1>1 DEF OutInv, Shapes, Clients
<1> QED BY <1>1, <1>5, <1>6, <1>7 DEF Shapes, Nothing, TypeOK

\* A message the broker has not got has a flow, and a flow has its file and entry.
LEMMA SoundIsKept == IInv => KeptUntilReceived
<1> SUFFICES ASSUME IInv, mode = "persistent",
                    NEW m \in Published, m \notin ToSet(app.received)
             PROVE  OnDisk(m) /\ (alive => InList(m))
  BY DEF KeptUntilReceived
<1>1. Persistent /\ Shapes /\ Store /\ Sound(View)
  BY DEF IInv, Persistent
<1>2. /\ View.stage = "kept" /\ DOMAIN View.pub = Published /\ View.got = ToSet(app.received)
      /\ View.flows = Flows /\ View.end = Ends /\ Live(View)
  BY <1>1, ViewFields, PublishedQos
<1>3. PICK x \in Flows : x[2] = m
  <2> HIDE DEF View
  <2> QED BY <1>1, <1>2 DEF Sound, KeptOK
<1>4. x[1] \notin Ends
  <2> HIDE DEF View
  <2> QED BY <1>1, <1>2, <1>3 DEF Sound, BrokerOK
<1>5. PICK f \in Sent : f.n = x[1] /\ f.msg = m
  BY <1>1, <1>3 DEF Flows
<1>6. OnDisk(m)
  BY <1>5 DEF OnDisk, Sent
<1>7. ASSUME alive PROVE InList(m)
  <2>1. PICK i \in DOMAIN client.out : client.out[i].id = f.n
    BY <1>1, <1>4, <1>5, <1>7 DEF Store, MirrorInv
  <2>2. PICK g \in Sent : g.n = client.out[i].id /\ g.msg = client.out[i].msg
    BY <1>1, <1>7, <2>1 DEF Store, MirrorInv
  <2>3. f = g
    BY <1>1, <1>5, <2>1, <2>2 DEF Store, KeyInv, SameKey, Sent, FilesOf
  <2> QED BY <1>5, <2>1, <2>2, <2>3 DEF InList
<1> QED BY <1>6, <1>7

-----------------------------------------------------------------------------
(* The promise (MqttDelivery). *)

\* What MqttDelivery calls received and over, in the terms of this module.
Receipts == [m \in Published |-> Times(m, app.received)]
Done == {m \in Published : IF mode = "clean" THEN ~InList(m) ELSE ~OnDisk(m)}
PromiseVars == <<mode = "persistent", app.published, Receipts, Done>>

\* How often a message was received: not at all, or more often by one.
LEMMA TimesFacts ==
    ASSUME NEW s \in Seq(Nat), NEW x
    PROVE  /\ Times(x, s) \in Nat
           /\ Times(x, s) = 0 <=> x \notin ToSet(s)
<1> DEFINE T == {i \in DOMAIN s : s[i] = x}
<1>1. DOMAIN s = 1..Len(s) /\ Len(s) \in Nat
  BY LenProperties
<1>2. IsFiniteSet(1..Len(s))
  BY <1>1, FS_Interval
<1>3. T \subseteq 1..Len(s)
  BY <1>1
<1>4. Times(x, s) = Cardinality(T)
  BY DEF Times
<1>5. T = {} <=> x \notin ToSet(s)
  BY DEF ToSet
<1> HIDE DEF T
<1>6. IsFiniteSet(T)
  BY <1>2, <1>3, FS_Subset
<1>7. Cardinality(T) \in Nat
  BY <1>6, FS_CardinalityType
<1>8. Cardinality(T) = 0 <=> T = {}
  BY <1>6, FS_EmptySet
<1> QED BY <1>4, <1>5, <1>7, <1>8

\* One more receipt.
LEMMA TimesPlusOne ==
    ASSUME NEW s \in Seq(Nat), NEW m \in Nat, NEW x
    PROVE  Times(x, Append(s, m)) = IF x = m THEN Times(x, s) + 1 ELSE Times(x, s)
<1> DEFINE T == {i \in DOMAIN s : s[i] = x}
           U == {i \in DOMAIN Append(s, m) : Append(s, m)[i] = x}
           n == Len(s) + 1
<1>1. DOMAIN s = 1..Len(s) /\ Len(s) \in Nat
  BY LenProperties
<1>2. /\ DOMAIN Append(s, m) = 1..n /\ n \notin DOMAIN s /\ Append(s, m)[n] = m
      /\ \A i \in DOMAIN s : Append(s, m)[i] = s[i]
      /\ DOMAIN Append(s, m) = DOMAIN s \cup {n}
  BY AppendFacts DEF Added
<1>3. Times(x, s) = Cardinality(T) /\ Times(x, Append(s, m)) = Cardinality(U)
  BY DEF Times
<1>4. IsFiniteSet(T) /\ n \notin T
  <2>1. IsFiniteSet(1..Len(s))
    BY <1>1, FS_Interval
  <2>2. T \subseteq 1..Len(s)
    BY <1>1
  <2> HIDE DEF T
  <2>3. IsFiniteSet(T)
    BY <2>1, <2>2, FS_Subset
  <2> QED BY <1>1, <1>2, <2>2, <2>3
<1>5. CASE x = m
  <2>1. U = T \cup {n}
    BY <1>2, <1>5
  <2> HIDE DEF T, U, n
  <2>2. Cardinality(T \cup {n}) = Cardinality(T) + 1
    BY <1>4, FS_AddElement
  <2> QED BY <1>3, <1>5, <2>1, <2>2
<1>6. CASE x # m
  <2>1. U = T
    BY <1>2, <1>6
  <2> QED BY <1>3, <1>6, <2>1
<1> QED BY <1>5, <1>6

\* What the three kinds of step mean to the promise.
LEMMA PromiseStutters ==
    ASSUME mode' = mode, app'.published = app.published, app'.received = app.received,
           Done' = Done
    PROVE  PromiseVars' = PromiseVars
<1>1. Published' = Published
  BY DEF Published
<1>2. Receipts' = Receipts
  BY <1>1 DEF Receipts, Times
<1> QED BY <1>2 DEF PromiseVars

\* A step that ends no flow and hands nothing over is none of the promise.
LEMMA PromiseKeeps ==
    ASSUME mode' = mode, app'.published = app.published, app'.received = app.received,
           mode = "clean" => \A m : InList(m)' <=> InList(m),
           mode # "clean" => Sent' = Sent
    PROVE  PromiseVars' = PromiseVars
<1>1. Published' = Published
  BY DEF Published
<1>2. mode # "clean" => \A m : OnDisk(m)' <=> OnDisk(m)
  BY DEF OnDisk, Sent
<1>3. Done' = Done
  BY <1>1, <1>2 DEF Done
<1> QED BY <1>3, PromiseStutters

\* A clean session that is closed gives its messages up.
LEMMA PromiseAbandons ==
    ASSUME mode = "clean", Shapes, mode' = mode, app'.published = app.published, app'.received = app.received,
           client'.out = <<>>
    PROVE  Promise!Abandon
<1>1. Published' = Published /\ DOMAIN app.published = Published
  BY PublishedQos DEF Published
<1>2. Receipts' = Receipts
  BY <1>1 DEF Receipts, Times
<1>3. DOMAIN client'.out = {}
  BY EmptySeq, LenProperties
<1>4. Done' = Published
  BY <1>1, <1>3 DEF Done, InList
<1> QED BY <1>1, <1>2, <1>4 DEF Promise!Abandon, Promise!Messages, Receipts, Done

\* The flow of a received message is over.
LEMMA PromiseCompletes ==
    ASSUME Shapes, mode' = mode, app'.published = app.published, app'.received = app.received,
           NEW m \in Published, m \in ToSet(app.received),
           mode = "clean" => \A x : InList(x)' <=> InList(x) /\ x # m,
           mode # "clean" => \A x : OnDisk(x)' <=> OnDisk(x) /\ x # m
    PROVE  \E x \in Promise!Messages : Promise!Complete(x)
<1>1. Published' = Published /\ DOMAIN app.published = Published
  BY PublishedQos DEF Published
<1>2. Receipts' = Receipts
  BY <1>1 DEF Receipts, Times
<1>3. Done' = Done \cup {m}
  BY <1>1 DEF Done
<1>4. Receipts[m] > 0
  <2>1. app.received \in Seq(Nat)
    BY DEF Shapes, Apps
  <2>2. Times(m, app.received) \in Nat /\ Times(m, app.received) # 0
    BY <2>1, TimesFacts
  <2> QED BY <2>2 DEF Receipts
<1>5. Promise!Complete(m)
  BY <1>1, <1>2, <1>3, <1>4 DEF Promise!Complete, Receipts, Done
<1> QED BY <1>1, <1>5 DEF Promise!Messages

\* A step of the session is one the promise allows, or none.
Allowed == Promise!Next \/ PromiseVars' = PromiseVars

\* A step that leaves the lists and files of the flows alone, or ends the session.
LEMMA AllowedSame ==
    ASSUME Shapes, mode' = mode, app'.published = app.published, app'.received = app.received,
           disk' = disk \/ Sent' = Sent,
           client'.out = client.out \/ (mode = "clean" => client'.out = <<>>)
    PROVE  Allowed
<1>1. Sent' = Sent
  BY DiskSame
<1>2. CASE mode = "clean" /\ client'.out = <<>>
  <2>1. Promise!Abandon
    BY <1>2, PromiseAbandons
  <2> QED BY <2>1 DEF Allowed, Promise!Next
<1>3. CASE client'.out = client.out \/ mode # "clean"
  <2>1. mode = "clean" => \A m : InList(m)' <=> InList(m)
    BY <1>3 DEF InList
  <2> QED BY <1>1, <2>1, PromiseKeeps DEF Allowed
<1> QED BY <1>2, <1>3

\* A handler leaves the list as it is or, when it closes a clean session, empty.
LEMMA AnswerKeepsOrEmpties ==
    ASSUME NEW c \in Clients, NEW p, Answer(p, c) \/ Silent(c)
    PROVE  \/ client' = c
           \/ client'.out = c.out
           \/ (mode = "clean" /\ client'.out = <<>>)
<1>1. client' = c \/ client' = Closed(c)
  BY DEF Answer, Transmit, Silent, Stay, Close
<1>2. Closed(c).out = c.out \/ (mode = "clean" /\ Closed(c).out = <<>>)
  <2>1. CASE mode = "clean"
    BY <2>1, ClosedIsAClient
  <2>2. CASE mode # "clean"
    BY <2>2, ClosedIsAClient
  <2> QED BY <2>1, <2>2
<1> QED BY <1>1, <1>2

\* A publication is an acceptance.
LEMMA PublishAllowed ==
    ASSUME IInv, Shapes', NEW q \in Qos, Publish(q)
    PROVE  Allowed
<1> USE DEF IInv
<1>0. Len(app.published) + 1 \in Nat
  BY LenProperties DEF Shapes, Apps
<1> PICK m \in Nat : m = Len(app.published) + 1
  BY <1>0
<1>1. OutInv
  BY DEF Store
<1>2. PICK n \in 1..MaxId :
              /\ disk' = disk \cup (IF mode = "persistent" THEN {File("s", n, m, q)} ELSE {})
              /\ \/ client'.out = Append(client.out, Entry(n, q, m))
                 \/ mode = "clean" /\ client'.out = <<>>
  <2>1. CASE PublishWritten(q)
    <3>1. PICK n \in 1..MaxId :
              /\ client' = [client EXCEPT !.out = Append(@, Entry(n, q, m)), !.msgID = n]
              /\ disk' = disk \cup (IF mode = "persistent" THEN {File("s", n, m, q)} ELSE {})
      BY <1>1, <2>1, PublishFacts
    <3>2. client'.out = Append(client.out, Entry(n, q, m))
      BY <3>1 DEF Shapes, Clients
    <3> QED BY <3>1, <3>2
  <2>2. CASE PublishFails(q)
    <3>1. PICK n \in 1..MaxId, c \in Clients :
              /\ c.out = Append(client.out, Entry(n, q, m))
              /\ disk' = disk \cup (IF mode = "persistent" THEN {File("s", n, m, q)} ELSE {})
              /\ Close(c)
      BY <1>1, <2>2, PublishFailsFacts
    <3>2. client'.out = c.out \/ (mode = "clean" /\ client'.out = <<>>)
      BY <3>1, ClosedIsAClient DEF Close
    <3> QED BY <3>1, <3>2
  <2> QED BY <2>1, <2>2, PublishSplits
<1>3. /\ mode' = mode /\ app' = [app EXCEPT !.published = Append(@, q)]
  BY DEF Publish
<1>4. /\ app'.published = Append(app.published, q) /\ app'.received = app.received
      /\ app.published \in Seq(Qos) /\ app.received \in Seq(Nat) /\ client \in Clients
  BY <1>3 DEF Shapes, Apps
<1>5. n \in Nat /\ m \in Nat /\ DOMAIN app.published = Published /\ m \notin Published
  BY <1>4, LenProperties, IdAssumption DEF Published
<1>6. Entry(n, q, m) \in Entries /\ Entry(n, q, m).msg = m
  <2>1. n \in Nat
    BY <1>5
  <2>2. Entry(n, q, m).msg = m
    BY DEF Entry
  <2>3. Entry(n, q, m) \in Entries
    BY <2>1, EntryShapes
  <2> QED BY <2>2, <2>3
<1>7. /\ Published' = Published \cup {m} /\ Len(app'.published) = m
  <2>1. Len(app'.published) = Len(app.published) + 1
    BY <1>4, AppendProperties
  <2>2. Len(app.published) \in Nat
    BY <1>4, LenProperties
  <2> QED BY <2>1, <2>2 DEF Published
<1>9. ASSUME client'.out = Append(client.out, Entry(n, q, m))
      PROVE  \A x : InList(x)' <=> InList(x) \/ x = m
  <2>0. Added(client'.out, client.out, Len(client.out) + 1, Entry(n, q, m))
    <3>1. client.out \in Seq(Entries)
      BY <1>4 DEF Clients
    <3> QED BY <1>6, <1>9, <3>1, AppendFacts
  <2>1. \A x : InList(x)' => InList(x) \/ x = m
    BY <1>6, <2>0 DEF InList, Added
  <2>2. \A x : InList(x) => InList(x)'
    BY <2>0 DEF InList, Added
  <2>3. InList(m)'
    BY <1>6, <2>0 DEF InList, Added
  <2> QED BY <2>1, <2>2, <2>3
<1>10. mode # "clean" => \A x : OnDisk(x)' <=> OnDisk(x) \/ x = m
  <2> SUFFICES ASSUME mode # "clean", NEW x PROVE OnDisk(x)' <=> OnDisk(x) \/ x = m
    OBVIOUS
  <2>1. mode = "persistent"
    BY ModesAssumption DEF Shapes
  <2>2. disk' = disk \cup {File("s", n, m, q)}
    BY <1>2, <2>1
  <2>3. File("s", n, m, q).kind = "s" /\ File("s", n, m, q).msg = m
    BY DEF File
  <2> QED BY <2>2, <2>3 DEF OnDisk, FilesOf
<1>11. ASSUME client'.out = Append(client.out, Entry(n, q, m)) \/ mode # "clean"
       PROVE  Done' = Done
  <2>1. CASE mode # "clean"
    BY <1>3, <1>5, <1>7, <1>10, <2>1 DEF Done
  <2>2. CASE mode = "clean" /\ client'.out = Append(client.out, Entry(n, q, m))
    BY <1>3, <1>5, <1>7, <1>9, <2>2 DEF Done
  <2> QED BY <1>11, <2>1, <2>2
<1>12. Receipts' = Append(Receipts, 0)
  <2>1. Times(m, app.received) = 0
    <3>1. m \notin ToSet(app.received)
      BY <1>5 DEF ReceivedInv, ToSet
    <3> QED BY <1>4, <3>1, TimesFacts
  <2>2. Receipts \in Seq(Nat) /\ Len(Receipts) = Len(app.published) /\ Len(Receipts) + 1 = m
    <3>1. Len(app.published) \in Nat
      BY <1>4, LenProperties
    <3>2. \A x \in Published : Times(x, app.received) \in Nat
      BY <1>4, TimesFacts
    <3>3. Receipts \in [1..Len(app.published) -> Nat]
      BY <3>2 DEF Receipts, Published
    <3> HIDE DEF Receipts
    <3>4. Receipts \in Seq(Nat) 
      BY <3>1, <3>3, SeqDef
    <3>5. Len(Receipts) = Len(app.published)
      BY <3>1, <3>3, <3>4, LenProperties
    <3> QED BY <3>4, <3>5
  <2>3. Added(Append(Receipts, 0), Receipts, m, 0) /\ DOMAIN Append(Receipts, 0) = 1..m
        /\ Append(Receipts, 0) \in Seq(Nat)
    BY <2>2, AppendFacts
  <2>4. Receipts' = [x \in Published' |-> Times(x, app.received)]
    BY <1>4 DEF Receipts, Times
  <2>5. DOMAIN Receipts' = DOMAIN Append(Receipts, 0)
    BY <1>7, <2>3, <2>4 DEF Published
  <2>6. \A x \in Published' : Append(Receipts, 0)[x] = Times(x, app.received)
    BY <1>7, <2>1, <2>3 DEF Added, Receipts
  <2>7. DOMAIN Append(Receipts, 0) = Published'
    BY <2>4, <2>5
  <2>8. Append(Receipts, 0) = [x \in DOMAIN Append(Receipts, 0) |-> Append(Receipts, 0)[x]]
    <3> DEFINE A == Append(Receipts, 0)
    <3>1. A \in [1..Len(A) -> Nat]
      BY <2>3, LenProperties, ElementOfSeq
    <3> QED BY <3>1
  <2> QED BY <2>4, <2>6, <2>7, <2>8
<1>13. CASE client'.out = Append(client.out, Entry(n, q, m)) \/ mode # "clean"
  <2>1. Promise!Accept(q)
    BY <1>3, <1>4, <1>11, <1>12, <1>13 DEF Promise!Accept, Receipts, Done
  <2> QED BY <2>1 DEF Allowed, Promise!Next
<1>14. CASE mode = "clean" /\ client'.out = <<>>
  <2>1. Done' = Published'
    BY <1>3, <1>14, NoOps DEF Done, InList
  <2>2. Published' = 1..(Len(app.published) + 1)
    BY <1>7 DEF Published
  <2>3. Promise!AcceptAbandoned(q)
    BY <1>3, <1>4, <1>12, <1>14, <2>1, <2>2 DEF Promise!AcceptAbandoned, Receipts, Done
  <2> QED BY <2>3 DEF Allowed, Promise!Next
<1> QED BY <1>2, <1>13, <1>14

\* The broker takes a message that is not over, and one of QoS 2 once.
LEMMA ReadAllowed ==
    ASSUME IInv, BrokerReads
    PROVE  Allowed
<1> USE DEF IInv
<1> DEFINE p == Head(toBroker)
<1>1. /\ toBroker # <<>> /\ mode' = mode /\ client' = client /\ disk' = disk
      /\ app \in Apps /\ app.received \in Seq(Nat)
  BY DEF BrokerReads, Shapes, Apps
<1>2. /\ p.type = "PUBLISH" =>
           p.msg \in Published /\ p.qos = app.published[p.msg] /\ p.qos \in {1, 2}
      /\ ReadPublish1(p) \/ ReadPublish2(p) \/ ReadPubrel(p) \/ ReadAck(p)
  BY <1>1, FirstIsPublished, BrokerReadsFacts
<1>3. p.type = "PUBLISH" => PublishOK(View, p)
  <2>1. 1 \in DOMAIN View.wire /\ View.wire[1] = p
    <3>1. 1 \in DOMAIN (toBroker \o held) /\ (toBroker \o held)[1] = Head(toBroker)
      BY <1>1, WireMinusOne DEF Shapes
    <3> QED BY <3>1, ViewFields
  <2> HIDE DEF View, p
  <2> QED BY <2>1 DEF Sound, WireOK
<1>4. View.got = ToSet(app.received) /\ View.held = broker.in /\ View.flows = Flows
      /\ (Persistent => Live(View))
  BY ViewFields
<1> HIDE DEF p, View
<1>5. CASE app' = app
  BY <1>1, <1>5, AllowedSame
<1>6. ASSUME p.type = "PUBLISH",
             app'.received = Append(app.received, p.msg), app'.published = app.published,
             app.published[p.msg] = 2 => p.msg \notin ToSet(app.received)
      PROVE  Allowed
  <2> PICK m : m = p.msg
    OBVIOUS
  <2>1. m \in Published /\ m \in Nat /\ Published' = Published /\ DOMAIN app.published = Published
    BY <1>2, <1>6, PublishedQos DEF Published
  <2>2. Done' = Done
    BY <1>1, <2>1 DEF Done, InList, OnDisk
  <2>3. mode # "clean" => m \notin Done
    <3> SUFFICES ASSUME mode # "clean" PROVE m \notin Done
      OBVIOUS
    <3>1. Persistent
      BY ModesAssumption DEF Shapes, Persistent
    <3>2. <<p.id, p.msg>> \in Flows
      BY <1>3, <1>4, <1>6, <3>1 DEF PublishOK
    <3>3. OnDisk(m)
      BY <3>1, <3>2 DEF Flows, OnDisk, Sent
    <3> QED BY <3>3 DEF Done
  <2>4. Receipts' = [Receipts EXCEPT ![m] = @ + 1]
    <3>1. \A x : Times(x, app'.received) = IF x = m THEN Times(x, app.received) + 1
                                           ELSE Times(x, app.received)
      BY <1>1, <1>6, <2>1, TimesPlusOne
    <3>2. Receipts' = [x \in Published |-> Times(x, app'.received)]
      BY <2>1 DEF Receipts, Times
    <3> QED BY <2>1, <3>1, <3>2 DEF Receipts
  <2>5. app.published[m] = 2 => Receipts[m] = 0
    BY <1>1, <1>6, <2>1, TimesFacts DEF Receipts
  <2>6. CASE mode = "clean"
    <3>1. Promise!LateReceive(m)
      BY <1>1, <1>6, <2>2, <2>4, <2>5, <2>6 DEF Promise!LateReceive, Receipts, Done
    <3> QED BY <2>1, <3>1 DEF Allowed, Promise!Next, Promise!Messages
  <2>7. CASE mode # "clean"
    <3>1. Promise!Receive(m)
      BY <1>1, <1>6, <2>2, <2>3, <2>4, <2>5, <2>7 DEF Promise!Receive, Receipts, Done
    <3> QED BY <2>1, <3>1 DEF Allowed, Promise!Next, Promise!Messages
  <2> QED BY <2>6, <2>7
<1>7. CASE ReadPublish1(p)
  <2>1. app'.received = Append(app.received, p.msg) /\ app'.published = app.published
    BY <1>1, <1>7 DEF ReadPublish1, Apps
  <2> QED BY <1>2, <1>6, <1>7, <2>1 DEF ReadPublish1
<1>8. CASE ReadPublish2(p) /\ p.id \notin broker.in
  <2>1. app'.received = Append(app.received, p.msg) /\ app'.published = app.published
    BY <1>1, <1>8 DEF ReadPublish2, Apps
  <2>2. p.msg \notin ToSet(app.received)
    BY <1>2, <1>3, <1>4, <1>8 DEF ReadPublish2, PublishOK
  <2> QED BY <1>6, <1>8, <2>1, <2>2 DEF ReadPublish2
<1> QED BY <1>2, <1>5, <1>7, <1>8 DEF ReadPublish2, ReadPubrel, ReadAck

\* The end of a flow: its file goes, or without files its entry of the list.
LEMMA DiskStepAllowed ==
    ASSUME IInv, DiskStep
    PROVE  Allowed
<1> USE DEF IInv
<1>1. /\ mode' = mode /\ client' = client /\ app' = app
      /\ todo # <<>> /\ disk' = After(disk, Head(todo))
  BY DEF DiskStep
<1>2. Head(todo) = todo[1] /\ 1 \in DOMAIN todo
  BY <1>1, TailFacts DEF Shapes
<1>3. CASE Head(todo).file.kind # "s"
  <2>1. Sent' = Sent
    BY <1>1, <1>3, AfterFacts DEF Store, KeyInv, Sent
  <2> QED BY <1>1, <2>1, AllowedSame
<1>4. CASE \E n \in 1..MaxId : todo = <<Rm("s", n), Rm("sc", n)>>
  <2>1. PICK n \in 1..MaxId : todo = <<Rm("s", n), Rm("sc", n)>>
    BY <1>4
  <2>2. Head(todo) = Rm("s", n) /\ Ends = {n}
    BY <2>1, EndsAre
  <2>3. \A f : f \in disk' <=> f \in disk /\ ~(f.kind = "s" /\ f.n = n)
    BY <1>1, <2>2, RemovedFile DEF Store
  <2>4. \A f : f \in Sent' <=> f \in Sent /\ f.n # n
    BY <2>3 DEF Sent, FilesOf
  <2>5. CASE \A f \in Sent : f.n # n
    <3>1. Sent' = Sent
      BY <2>4, <2>5
    <3> QED BY <1>1, <3>1, AllowedSame
  <2>6. CASE \E g \in Sent : g.n = n
    <3>1. PICK g \in Sent : g.n = n
      BY <2>6
    <3>2. mode = "persistent" /\ Persistent
      BY <1>1, ModesAssumption DEF Shapes, Nothing, Persistent
    <3>3. /\ View.flows = Flows /\ View.end = Ends /\ View.got = ToSet(app.received)
          /\ View.pub = app.published /\ Live(View)
      BY <3>2, ViewFields
    <3>4. <<g.n, g.msg>> \in Flows /\ \A f \in Sent : <<f.n, f.msg>> \in Flows
      BY <3>1, <3>2 DEF Flows
    <3> HIDE DEF View
    <3>5. /\ g.msg \in ToSet(app.received)
          /\ \A f \in Sent : f.msg = g.msg => f.n = n
      BY <2>2, <3>1, <3>3, <3>4 DEF Sound, FlowsOK, BrokerOK
    <3>6. \A f \in Sent : f.n = n => f.msg = g.msg
      BY <3>1, <3>3, <3>4 DEF Sound, FlowsOK
    <3>7. g.msg \in Published
      BY <3>1 DEF Store, FilesInv
    <3>8. \A x : OnDisk(x)' <=> OnDisk(x) /\ x # g.msg
      BY <2>4, <3>5, <3>6 DEF OnDisk, Sent
    <3>9. \E x \in Promise!Messages : Promise!Complete(x)
      BY <1>1, <3>2, <3>5, <3>7, <3>8, PromiseCompletes
    <3> QED BY <3>9 DEF Allowed, Promise!Next
  <2> QED BY <2>5, <2>6
<1>5. CASE \E n \in 1..MaxId : todo = <<Rm("sc", n)>>
  BY <1>2, <1>3, <1>5 DEF Rm, File
<1> QED BY <1>2, <1>3, <1>4, <1>5 DEF Store, TodoInv

\* PUBACK and PUBCOMP end a flow at once in a clean session;
LEMMA OverAllowed ==
    ASSUME IInv, NEW type \in {"PUBACK", "PUBCOMP"}, NEW p, Reads(type, p),
           NEW i \in Outbound(p.id), Over(i),
           mode' = mode, app' = app, disk' = disk
    PROVE  Allowed
<1> USE DEF IInv
<1>1. CASE mode # "clean"
  <2>1. Sent' = Sent /\ app'.published = app.published /\ app'.received = app.received
    BY DiskSame
  <2>2. PromiseVars' = PromiseVars
    BY <1>1, <2>1, PromiseKeeps
  <2> QED BY <2>2 DEF Allowed
<1>2. CASE mode = "clean"
  <2>1. AnswerOK(View, p)
    BY AnswerRead
  <2>2. up /\ i \in DOMAIN client.out /\ client.out[i].id = p.id /\ ~Persistent
    BY <1>2, ReadsFacts DEF Outbound, Persistent
  <2>3. /\ View.flows = Flows /\ View.got = ToSet(app.received) /\ View.pub = app.published
    BY ViewFields
  <2> HIDE DEF View
  <2>4. \A j \in DOMAIN client.out : <<client.out[j].id, client.out[j].msg>> \in Flows
    BY <2>2 DEF Flows
  <2> PICK m : m = client.out[i].msg
    OBVIOUS
  <2>5. m \in ToSet(app.received) /\ m \in Published
    <3>1. <<p.id, m>> \in Flows
      BY <2>2, <2>4
    <3>2. m \in ToSet(app.received)
      BY <2>1, <2>3, <3>1 DEF AnswerOK, Sound, FlowsOK
    <3> QED BY <2>2, <3>2 DEF Store, OutInv
  <2>6. \A j \in DOMAIN client.out : client.out[j].msg = m => client.out[j].id = client.out[i].id
    BY <2>2, <2>3, <2>4 DEF Sound, FlowsOK
  <2>7. client'.out = RemoveAt(client.out, i) /\ client'.msgID = client.msgID
    <3> DEFINE c == [client EXCEPT !.out = RemoveAt(@, i)]
    <3>1. client' = c
      BY DEF Over, Silent, Stay
    <3>2. c.out = RemoveAt(client.out, i) /\ c.msgID = client.msgID
      BY DEF Shapes, Clients
    <3> QED BY <3>1, <3>2
  <2>8. /\ \A j \in DOMAIN client'.out : \E k \in DOMAIN client.out :
              k # i /\ client'.out[j] = client.out[k] /\ client'.out[j].id # client.out[i].id
        /\ \A k \in DOMAIN client.out : client.out[k].id # client.out[i].id =>
              \E j \in DOMAIN client'.out : client'.out[j] = client.out[k]
    BY <2>2, <2>7, ListLosesOne
  <2>9. \A k \in DOMAIN client.out : client.out[k].id = client.out[i].id => k = i
    BY <2>2 DEF Store, OutInv
  <2>10. \A x : InList(x)' <=> InList(x) /\ x # m
    <3>1. \A x : InList(x)' => InList(x) /\ x # m
      BY <2>6, <2>8 DEF InList
    <3>2. \A x : InList(x) /\ x # m => InList(x)'
      BY <2>8, <2>9 DEF InList
    <3> QED BY <3>1, <3>2
  <2>11. \E x \in Promise!Messages : Promise!Complete(x)
    BY <1>2, <2>5, <2>10, PromiseCompletes
  <2> QED BY <2>11 DEF Allowed, Promise!Next
<1> QED BY <1>1, <1>2

\* in a persistent one its files go later.
LEMMA AcksAllowed ==
    ASSUME IInv, HandlePubacks \/ HandlePubcomps
    PROVE  Allowed
<1>1. \E type \in {"PUBACK", "PUBCOMP"} : \E p \in {toClient[j] : j \in DOMAIN toClient} :
         Reads(type, p) /\ (Ignored \/ \E i \in Outbound(p.id) : Over(i))
  BY DEF HandlePubacks, HandlePubcomps
<1>2. PICK type \in {"PUBACK", "PUBCOMP"} : \E p \in {toClient[j] : j \in DOMAIN toClient} :
         Reads(type, p) /\ (Ignored \/ \E i \in Outbound(p.id) : Over(i))
  BY <1>1
<1>3. PICK p \in {toClient[j] : j \in DOMAIN toClient} :
         Reads(type, p) /\ (Ignored \/ \E i \in Outbound(p.id) : Over(i))
  BY <1>2
<1>4. mode' = mode /\ app' = app /\ disk' = disk
  BY DEF HandlePubacks, HandlePubcomps
<1>5. CASE Ignored
  <2>1. client' = client
    BY <1>5 DEF Ignored, Silent, Stay
  <2> QED BY <1>4, <2>1, AllowedSame DEF IInv
<1>6. CASE \E i \in Outbound(p.id) : Over(i)
  BY <1>3, <1>4, <1>6, OverAllowed
<1> QED BY <1>3, <1>5, <1>6

\* The handlers of the other side's flows,
LEMMA PublishesAllowed ==
    ASSUME IInv, HandlePublishes
    PROVE  Allowed
<1> USE DEF IInv
<1>1. PICK p : Reads("PUBLISH", p) /\ (HandlePublish1(p) \/ HandlePublish2(p))
  BY DEF HandlePublishes
<1>2. p.id \in Nat /\ p.msg \in Nat /\ client \in Clients
  BY <1>1, ReadsFacts DEF Shapes
<1>3. mode' = mode /\ app' = app
  BY DEF HandlePublishes
<1>4. CASE HandlePublish1(p)
  <2>1. Queued(client, p.msg) \in Clients /\ Queued(client, p.msg).out = client.out
    BY <1>2, QueuedIsAClient
  <2>2. \E c \in Clients : c.out = client.out /\ Answer(Ack("PUBACK", p.id), c)
    BY <1>2, <1>4, <2>1 DEF HandlePublish1
  <2>3. client'.out = client.out \/ (mode = "clean" /\ client'.out = <<>>)
    BY <2>2, AnswerKeepsOrEmpties
  <2> QED BY <1>3, <1>4, <2>3, AllowedSame DEF HandlePublish1
<1>5. CASE HandlePublish2(p)
  <2> DEFINE kept == {x \in client.inb : x.id # p.id} \cup {[id |-> p.id, msg |-> p.msg]}
             d == [client EXCEPT !.inb = kept]
  <2>1. d \in Clients /\ d.out = client.out
    <3>1. [id |-> p.id, msg |-> p.msg] \in [id : Nat, msg : Nat] /\ client.inb \in SUBSET [id : Nat, msg : Nat]
      BY <1>2 DEF Clients
    <3>2. kept \in SUBSET [id : Nat, msg : Nat]
      BY <3>1
    <3> HIDE DEF kept
    <3> QED BY <1>2, <3>2 DEF Clients
  <2>2. Answer(Ack("PUBREC", p.id), client) \/ Answer(Ack("PUBREC", p.id), d)
    BY <1>5 DEF HandlePublish2
  <2> HIDE DEF d
  <2>3. client'.out = client.out \/ (mode = "clean" /\ client'.out = <<>>)
    BY <1>2, <2>1, <2>2, AnswerKeepsOrEmpties
  <2>4. Sent' = Sent
    <3>1. CASE disk' = disk
      BY <3>1, DiskSame
    <3>2. CASE disk' = After(disk, Put(File("r", p.id, p.msg, 2)))
      <4>1. Put(File("r", p.id, p.msg, 2)).file.kind = "r"
        BY DEF Put, File
      <4> QED BY <3>2, <4>1, OtherFile DEF Store
    <3> QED BY <1>5, <3>1, <3>2 DEF HandlePublish2
  <2> QED BY <1>3, <2>3, <2>4, AllowedSame
<1> QED BY <1>1, <1>4, <1>5

\* of PUBREC
LEMMA PubrecsAllowed ==
    ASSUME IInv, HandlePubrecs
    PROVE  Allowed
<1> USE DEF IInv
<1>1. PICK p : /\ Reads("PUBREC", p)
               /\ \/ \E i \in Outbound(p.id) :
                       /\ Answer(Ack("PUBREL", p.id), [client EXCEPT !.out[i].next = "PUBCOMP"])
                       /\ disk' = disk \cup (IF mode = "persistent"
                                             THEN {File("sc", p.id, 0, 0)} ELSE {})
                  \/ Silent(client) /\ UNCHANGED disk
  BY DEF HandlePubrecs
<1>2. mode' = mode /\ app' = app
  BY DEF HandlePubrecs
<1>3. CASE Silent(client) /\ UNCHANGED disk
  BY <1>2, <1>3, AllowedSame DEF Silent, Stay
<1>4. ASSUME NEW i \in Outbound(p.id),
             Answer(Ack("PUBREL", p.id), [client EXCEPT !.out[i].next = "PUBCOMP"]),
             disk' = disk \cup (IF mode = "persistent" THEN {File("sc", p.id, 0, 0)} ELSE {})
      PROVE  Allowed
  <2> DEFINE c == [client EXCEPT !.out[i].next = "PUBCOMP"]
  <2>1. i \in DOMAIN client.out /\ client \in Clients
    BY DEF Outbound, Shapes
  <2>2. /\ c \in Clients /\ DOMAIN c.out = DOMAIN client.out
        /\ \A j \in DOMAIN client.out :
              c.out[j] = IF j = i THEN [client.out[i] EXCEPT !.next = "PUBCOMP"] ELSE client.out[j]
    BY <2>1, NextShapes
  <2>3. \A j \in DOMAIN client.out : c.out[j].msg = client.out[j].msg
    <3>1. client.out[i] \in Entries
      BY <2>1, ElementOfSeq, LenProperties DEF Clients
    <3>2. [client.out[i] EXCEPT !.next = "PUBCOMP"].msg = client.out[i].msg
      BY <3>1 DEF Entries
    <3> HIDE DEF c
    <3> QED BY <2>2, <3>2
  <2>4. Answer(Ack("PUBREL", p.id), c)
    BY <1>4
  <2> HIDE DEF c
  <2>5. client'.out = c.out \/ (mode = "clean" /\ client'.out = <<>>)
    BY <2>2, <2>4, AnswerKeepsOrEmpties
  <2>6. Sent' = Sent
    <3>1. File("sc", p.id, 0, 0).kind = "sc"
      BY DEF File
    <3> QED BY <1>4, <3>1 DEF Sent, FilesOf
  <2>7. CASE mode = "clean" /\ client'.out = <<>>
    BY <1>2, <2>6, <2>7, AllowedSame
  <2>8. CASE client'.out = c.out
    <3>1. \A m : InList(m)' <=> InList(m)
      BY <2>2, <2>3, <2>8 DEF InList
    <3>2. PromiseVars' = PromiseVars
      BY <1>2, <2>6, <3>1, PromiseKeeps
    <3> QED BY <3>2 DEF Allowed
  <2> QED BY <2>5, <2>7, <2>8
<1> QED BY <1>1, <1>3, <1>4

\* and of PUBREL end none.
LEMMA PubrelsAllowed ==
    ASSUME IInv, HandlePubrels
    PROVE  Allowed
<1> USE DEF IInv
<1>1. PICK p : /\ Reads("PUBREL", p)
               /\ \/ \E e \in Inbound(p.id) :
                       \/ Answer(Ack("PUBCOMP", p.id), client)
                       \/ Answer(Ack("PUBCOMP", p.id), Queued([client EXCEPT !.inb = @ \ {e}], e.msg))
                  \/ Answer(Ack("PUBCOMP", p.id), client)
                  \/ Silent(client)
  BY DEF HandlePubrels
<1>2. mode' = mode /\ app' = app /\ disk' = disk /\ client \in Clients
  BY DEF HandlePubrels, Shapes
<1>3. ASSUME NEW e \in Inbound(p.id)
      PROVE  /\ Queued([client EXCEPT !.inb = @ \ {e}], e.msg) \in Clients
             /\ Queued([client EXCEPT !.inb = @ \ {e}], e.msg).out = client.out
  <2>1. e.msg \in Nat
    BY <1>2 DEF Inbound, Clients
  <2>2. /\ [client EXCEPT !.inb = @ \ {e}] \in Clients
        /\ [client EXCEPT !.inb = @ \ {e}].out = client.out
    BY <1>2 DEF Clients
  <2> QED BY <2>1, <2>2, QueuedIsAClient
<1>4. \E c \in Clients : c.out = client.out /\ (Answer(Ack("PUBCOMP", p.id), c) \/ Silent(c))
  BY <1>1, <1>2, <1>3
<1>5. client'.out = client.out \/ (mode = "clean" /\ client'.out = <<>>)
  BY <1>4, AnswerKeepsOrEmpties
<1> QED BY <1>2, <1>5, AllowedSame

\* Closing, a kill, a restart and a connect keep a persistent session.
LEMMA RestartAllowed ==
    ASSUME IInv, Drop \/ Crash \/ Create \/ Connect
    PROVE  Allowed
<1> USE DEF IInv
<1>1. /\ mode' = mode /\ app'.published = app.published /\ app'.received = app.received
  BY DEF Drop, Crash, Create, Connect, Shapes, Apps
<1>2. client \in Clients
  BY DEF Shapes
<1>3. CASE Drop \/ Connect
  <2>1. client' = client \/ client' = Closed(client)
    BY <1>3 DEF Drop, Connect, Close
  <2>2. Closed(client) = client \/ (mode = "clean" /\ Closed(client).out = <<>>)
    <3>1. CASE mode = "clean"
      BY <1>2, <3>1, ClosedIsAClient
    <3>2. CASE mode # "clean"
      BY <1>2, <3>2, ClosedIsAClient
    <3> QED BY <3>1, <3>2
  <2>3. disk' = disk
    BY <1>3 DEF Drop, Connect
  <2> QED BY <1>1, <2>1, <2>2, <2>3, AllowedSame
<1>4. CASE Crash
  <2>1. client'.out = <<>> /\ disk' = disk
    BY <1>4 DEF Crash, NoLists
  <2>2. CASE mode = "clean"
    <3>1. Promise!Abandon
      BY <1>1, <2>1, <2>2, PromiseAbandons
    <3> QED BY <3>1 DEF Allowed, Promise!Next
  <2>3. CASE mode # "clean"
    <3>1. Sent' = Sent
      BY <2>1, DiskSame
    <3>2. PromiseVars' = PromiseVars
      BY <1>1, <2>3, <3>1, PromiseKeeps
    <3> QED BY <3>2 DEF Allowed
  <2> QED BY <2>2, <2>3
<1>5. CASE Create
  <2>1. Sent' = Sent
    BY <1>5 DEF Create, WithoutOrphans, Sent, FilesOf
  <2>2. CASE mode = "clean"
    <3>1. disk = {} /\ client' = Restored(disk)
      BY <1>5, <2>2 DEF Create, Nothing
    <3>2. FilesOf(disk, "s") = {} /\ Cardinality({}) = 0
      BY <3>1, FS_EmptySet DEF FilesOf
    <3>3. Restored(disk) \in Clients /\ Len(Restored(disk).out) = 0
      <4>1. disk \in SUBSET Files /\ IsFiniteSet(disk) /\ \A f, g \in disk : SameKey(f, g) => f = g
        BY DEF Shapes, Store, KeyInv
      <4>2. Restored(disk) \in Clients /\ Len(Restored(disk).out) = Cardinality(FilesOf(disk, "s"))
        BY <4>1, RestoredFacts
      <4> QED BY <3>2, <4>2
    <3>4. client'.out = <<>>
      BY <3>1, <3>3, EmptySeq DEF Clients
    <3>5. Promise!Abandon
      BY <1>1, <2>2, <3>4, PromiseAbandons
    <3> QED BY <3>5 DEF Allowed, Promise!Next
  <2>3. CASE mode # "clean"
    <3>1. PromiseVars' = PromiseVars
      BY <1>1, <2>1, <2>3, PromiseKeeps
    <3> QED BY <3>1 DEF Allowed
  <2> QED BY <2>2, <2>3
<1> QED BY <1>3, <1>4, <1>5

\* Every step of the session is one the promise allows.
LEMMA StepIsAllowed == IInv /\ IInv' /\ [Next]_vars => [Promise!Next]_PromiseVars
<1> SUFFICES ASSUME IInv, IInv', [Next]_vars PROVE Allowed
  BY DEF Allowed
<1>1. Shapes /\ Shapes'
  BY DEF IInv
<1>2. ASSUME NEW q \in Qos, Publish(q) \/ BrokerPublishes(q)
      PROVE  Allowed
  <2>1. CASE Publish(q)
    BY <1>1, <2>1, PublishAllowed
  <2>2. CASE BrokerPublishes(q)
    <3>1. mode' = mode /\ disk' = disk /\ client' = client
          /\ app'.published = app.published /\ app'.received = app.received
      BY <1>1, <2>2 DEF BrokerPublishes, Shapes, Apps
    <3> QED BY <1>1, <3>1, AllowedSame
  <2> QED BY <1>2, <2>1, <2>2
<1>3. CASE FindReady \/ ContinueWrite \/ HandlePingresps
  <2>1. mode' = mode /\ disk' = disk /\ client' = client /\ app' = app
    BY <1>3 DEF FindReady, ContinueWrite, HandlePingresps
  <2> QED BY <1>1, <2>1, AllowedSame
<1>4. CASE Deliver
  <2>1. /\ mode' = mode /\ disk' = disk /\ client'.out = client.out
        /\ app'.published = app.published /\ app'.received = app.received
    BY <1>1, <1>4 DEF Deliver, Shapes, Apps, Clients
  <2> QED BY <1>1, <2>1, AllowedSame
<1>5. CASE Handle /\ ~HandlePingresps
  BY <1>5, PublishesAllowed, AcksAllowed, PubrecsAllowed, PubrelsAllowed DEF Handle
<1>6. CASE Drop \/ Crash \/ Create \/ Connect
  BY <1>6, RestartAllowed
<1>7. CASE DiskStep
  BY <1>7, DiskStepAllowed
<1>8. CASE BrokerReads
  BY <1>8, ReadAllowed
<1>9. CASE UNCHANGED vars
  BY <1>1, <1>9, AllowedSame DEF vars
<1> QED BY <1>2, <1>3, <1>4, <1>5, <1>6, <1>7, <1>8, <1>9 DEF Next, Handle

\* The initial states are the promise's.
LEMMA PromiseStarts == Init => Promise!Init
<1> SUFFICES ASSUME Init PROVE Promise!Init
  OBVIOUS
<1>1. app.published = <<>> /\ Len(<<>>) = 0
  BY EmptySeq DEF Init
<1>2. Published = {}
  BY <1>1 DEF Published
<1>3. DOMAIN Receipts = {} /\ Done = {}
  BY <1>2 DEF Receipts, Done
<1>4. Receipts = <<>>
  <2>1. Receipts \in Seq(Nat)
    BY <1>2, SeqDef DEF Receipts
  <2> HIDE DEF Receipts
  <2> QED BY <1>3, <2>1, EmptySeq, LenProperties
<1> QED BY <1>1, <1>3, <1>4 DEF Promise!Init, Receipts, Done

\* Types, bounds and distinct ids of the session, always.
THEOREM TypesAreKept == Spec => []TypeOK
<1> QED BY SessionIsSound, SoundTypes, PTL

\* MQTTClient_publish: with persistence, a message it took is on disk, and in the
\* list while the process runs, until the broker has it.
THEOREM NothingIsLost == Spec => []KeptUntilReceived
<1> QED BY SessionIsSound, SoundIsKept, PTL

\* The session implements MqttDelivery: through reused ids, lost connections, partial
\* writes, kills and restarts, what MQTTClient_publish took reaches the broker before
\* its flow is over, a QoS 2 message once, and only a clean session gives any up.
THEOREM DeliveryIsKept == Spec => DeliveryKept
<1>1. Init => Promise!Init
  BY PromiseStarts
<1>2. IInv /\ IInv' /\ [Next]_vars => [Promise!Next]_PromiseVars
  BY StepIsAllowed
<1>3. Spec => []IInv
  BY SessionIsSound
<1>4. Init /\ [][Next]_vars => Promise!Spec
  <2>1. Init /\ [][Next]_vars => []IInv
    BY InitIsSound, StepKeeps, PTL
  <2> QED BY <1>1, <1>2, <2>1, PTL DEF Promise!Spec, PromiseVars, Receipts, Done
<1> QED BY <1>4, PTL DEF Spec, DeliveryKept

-----------------------------------------------------------------------------
(* The view of the flows to the client. *)

Pairs(o) == {<<o[i].id, o[i].msg>> : i \in DOMAIN o}
Freed(o) == {o[i].id : i \in {j \in DOMAIN o : o[j].next = "PUBCOMP"}}
Ids(S)  == {e.id : e \in S}
Msgs(S) == {e.msg : e \in S}
Waiting(q) == {q[i].msg : i \in DOMAIN q}
Got(inb, q, a) == Msgs(inb) \cup Waiting(q) \cup ToSet(a)

Served == Persistent \/ up
Inward == [flows |-> IF Served THEN Pairs(broker.out) ELSE {},
           rel |-> IF Served THEN Freed(broker.out) ELSE {},
           end |-> {}, held |-> Ids(client.inb),
           wire |-> toClient, back |-> IF Served THEN toBroker \o held ELSE <<>>,
           pub |-> app.offered, got |-> Got(client.inb, client.queue, app.arrived),
           stage |-> IF Persistent THEN "kept" ELSE IF up THEN "lasts" ELSE "past"]

\* The broker's entries.
OffersFit(o, pub) ==
    /\ \A i, j \in DOMAIN o : o[i].id = o[j].id => i = j
    /\ \A i \in DOMAIN o :
          /\ o[i].msg \in DOMAIN pub /\ o[i].qos = pub[o[i].msg]
          /\ o[i].next = "PUBCOMP" => o[i].qos = 2

\* No message of QoS 2 twice, and none in two places.
Once(inb, q, a, pub) ==
    /\ \A e \in inb : e.msg \notin Waiting(q) /\ e.msg \notin ToSet(a)
    /\ \A i, j \in DOMAIN q : q[i].msg = q[j].msg /\ pub[q[i].msg] = 2 => i = j
    /\ \A i, j \in DOMAIN a : a[i] = a[j] /\ pub[a[i]] = 2 => i = j
    /\ \A m \in Waiting(q) : pub[m] = 2 => m \notin ToSet(a)

Inbox ==
    IF Served THEN /\ OffersFit(broker.out, app.offered)
                   /\ \A e \in client.inb : <<e.id, e.msg>> \in Pairs(broker.out)
              ELSE client.inb = {} /\ client.queue = <<>>

Receives ==
    /\ alive /\ Inbox
    /\ Once(client.inb, client.queue, app.arrived, app.offered)
    /\ Sound(Inward)
Receiving == app.crashes = 0 => Receives

-----------------------------------------------------------------------------
(* The broker's entries. *)

\* One more.
LEMMA OfferAdded ==
    ASSUME NEW o \in Seq(Entries), NEW e \in Entries, NEW pub, NEW pub2,
           OffersFit(o, pub), \A i \in DOMAIN o : o[i].id # e.id, e.next # "PUBCOMP",
           \A x \in DOMAIN pub : x \in DOMAIN pub2 /\ pub2[x] = pub[x],
           e.msg \in DOMAIN pub2, e.qos = pub2[e.msg]
    PROVE  /\ OffersFit(Append(o, e), pub2)
           /\ Pairs(Append(o, e)) = Pairs(o) \cup {<<e.id, e.msg>>}
           /\ Freed(Append(o, e)) = Freed(o)
<1> DEFINE w == Append(o, e)
           n == Len(o) + 1
<1>1. DOMAIN w = DOMAIN o \cup {n} /\ n \notin DOMAIN o /\ w[n] = e
      /\ \A i \in DOMAIN o : w[i] = o[i]
  BY AppendFacts DEF Added
<1> HIDE DEF w, n
<1>2. OffersFit(w, pub2)
  <2>1. \A i, j \in DOMAIN w : w[i].id = w[j].id => i = j
    BY <1>1 DEF OffersFit
  <2>2. ASSUME NEW i \in DOMAIN w
        PROVE  /\ w[i].msg \in DOMAIN pub2 /\ w[i].qos = pub2[w[i].msg]
               /\ w[i].next = "PUBCOMP" => w[i].qos = 2
    <3>1. CASE i = n
      BY <1>1, <3>1
    <3>2. CASE i \in DOMAIN o
      BY <1>1, <3>2 DEF OffersFit
    <3> QED BY <1>1, <3>1, <3>2
  <2> QED BY <2>1, <2>2 DEF OffersFit
<1>3. Pairs(w) = Pairs(o) \cup {<<e.id, e.msg>>}
  BY <1>1 DEF Pairs
<1>4. Freed(w) = Freed(o)
  BY <1>1 DEF Freed
<1> QED BY <1>2, <1>3, <1>4 DEF w

\* One gone.
LEMMA OfferGone ==
    ASSUME NEW o \in Seq(Entries), NEW k \in DOMAIN o, NEW pub, OffersFit(o, pub)
    PROVE  /\ OffersFit(RemoveAt(o, k), pub)
           /\ Pairs(RemoveAt(o, k)) \subseteq Pairs(o)
           /\ \A f \in Pairs(o) : f[1] # o[k].id => f \in Pairs(RemoveAt(o, k))
           /\ \A f \in Pairs(RemoveAt(o, k)) : f[1] # o[k].id
           /\ Freed(RemoveAt(o, k)) \subseteq Freed(o)
           /\ \A x \in Freed(o) : x # o[k].id => x \in Freed(RemoveAt(o, k))
<1> DEFINE w == RemoveAt(o, k)
<1>1. DOMAIN o = 1..Len(o) /\ Len(o) \in Nat
  BY LenProperties
<1>2. /\ \A i \in DOMAIN w :
            \E j \in DOMAIN o : j # k /\ w[i] = o[j] /\ j = IF i < k THEN i ELSE i + 1
      /\ \A j \in DOMAIN o : j # k => \E i \in DOMAIN w : w[i] = o[j]
      /\ DOMAIN w \subseteq Nat
  <2>1. w \in Seq(Entries)
    BY RemoveFacts
  <2>2. DOMAIN w = 1..Len(w) /\ Len(w) \in Nat
    BY <2>1, LenProperties
  <2>3. DOMAIN w \subseteq Nat
    BY <2>2
  <2> QED BY <2>3, RemoveFacts
<1> HIDE DEF w
<1>3. \A i, j \in DOMAIN w : w[i].id = w[j].id => i = j
  <2> SUFFICES ASSUME NEW i \in DOMAIN w, NEW j \in DOMAIN w, w[i].id = w[j].id PROVE i = j
    OBVIOUS
  <2>1. PICK x \in DOMAIN o : w[i] = o[x] /\ x = IF i < k THEN i ELSE i + 1
    BY <1>2
  <2>2. PICK y \in DOMAIN o : w[j] = o[y] /\ y = IF j < k THEN j ELSE j + 1
    BY <1>2
  <2>3. x = y
    BY <2>1, <2>2 DEF OffersFit
  <2>4. i \in Nat /\ j \in Nat /\ k \in Nat
    BY <1>1, <1>2
  <2>5. (IF i < k THEN i ELSE i + 1) = (IF j < k THEN j ELSE j + 1)
    BY <2>1, <2>2, <2>3
  <2> QED BY <2>4, <2>5
<1>4. \A i \in DOMAIN w : \E j \in DOMAIN o : j # k /\ w[i] = o[j]
  BY <1>2
<1>5. \A j \in DOMAIN o : j # k => o[j].id # o[k].id
  BY DEF OffersFit
<1>6. OffersFit(w, pub)
  BY <1>3, <1>4 DEF OffersFit
<1>7. Pairs(w) \subseteq Pairs(o) /\ Freed(w) \subseteq Freed(o)
  BY <1>4 DEF Pairs, Freed
<1>8. \A f \in Pairs(w) : f[1] # o[k].id
  <2> SUFFICES ASSUME NEW i \in DOMAIN w PROVE <<w[i].id, w[i].msg>>[1] # o[k].id
    BY DEF Pairs
  <2> QED BY <1>4, <1>5
<1>9. \A f \in Pairs(o) : f[1] # o[k].id => f \in Pairs(w)
  <2> SUFFICES ASSUME NEW j \in DOMAIN o, <<o[j].id, o[j].msg>>[1] # o[k].id
               PROVE  <<o[j].id, o[j].msg>> \in Pairs(w)
    BY DEF Pairs
  <2>1. j # k
    OBVIOUS
  <2>2. PICK i \in DOMAIN w : w[i] = o[j]
    BY <1>2, <2>1
  <2> QED BY <2>2 DEF Pairs
<1>10. \A x \in Freed(o) : x # o[k].id => x \in Freed(w)
  <2> SUFFICES ASSUME NEW j \in DOMAIN o, o[j].next = "PUBCOMP", o[j].id # o[k].id
               PROVE  o[j].id \in Freed(w)
    BY DEF Freed
  <2>1. PICK i \in DOMAIN w : w[i] = o[j]
    BY <1>2
  <2> QED BY <2>1 DEF Freed
<1> QED BY <1>6, <1>7, <1>8, <1>9, <1>10 DEF w

\* One whose PUBREL is due.
LEMMA OfferFreed ==
    ASSUME NEW o \in Seq(Entries), NEW n, NEW w, NEW pub, OffersFit(o, pub),
           \A i \in DOMAIN o : o[i].id = n => o[i].qos = 2,
           w = [i \in DOMAIN o |-> IF o[i].id = n THEN [o[i] EXCEPT !.next = "PUBCOMP"] ELSE o[i]]
    PROVE  /\ OffersFit(w, pub) /\ Pairs(w) = Pairs(o)
           /\ (\E i \in DOMAIN o : o[i].id = n) => Freed(w) = Freed(o) \cup {n}
<1>1. \A i \in DOMAIN o : o[i] \in Entries
  BY ElementOfSeq, LenProperties
<1>2. DOMAIN w = DOMAIN o
  OBVIOUS
<1>3. \A i \in DOMAIN o :
         /\ w[i].id = o[i].id /\ w[i].msg = o[i].msg /\ w[i].qos = o[i].qos
         /\ w[i].next = IF o[i].id = n THEN "PUBCOMP" ELSE o[i].next
  BY <1>1 DEF Entries
<1>4. OffersFit(w, pub)
  BY <1>2, <1>3 DEF OffersFit
<1>5. Pairs(w) = Pairs(o)
  BY <1>2, <1>3 DEF Pairs
<1>6. ASSUME NEW k \in DOMAIN o, o[k].id = n
      PROVE  Freed(w) = Freed(o) \cup {n}
  <2>1. \A i \in DOMAIN w : w[i].next = "PUBCOMP" => w[i].id \in Freed(o) \cup {n}
    BY <1>2, <1>3 DEF Freed
  <2>2. \A i \in DOMAIN o : o[i].next = "PUBCOMP" => o[i].id \in Freed(w)
    BY <1>2, <1>3 DEF Freed
  <2>3. n \in Freed(w)
    BY <1>2, <1>3, <1>6 DEF Freed
  <2>4. /\ \A x \in Freed(w) : \E i \in DOMAIN w : x = w[i].id /\ w[i].next = "PUBCOMP"
        /\ \A x \in Freed(o) : \E i \in DOMAIN o : x = o[i].id /\ o[i].next = "PUBCOMP"
    BY DEF Freed
  <2>5. Freed(w) \subseteq Freed(o) \cup {n}
    BY <2>1, <2>4
  <2>6. Freed(o) \subseteq Freed(w)
    BY <2>2, <2>4
  <2> QED BY <2>3, <2>5, <2>6
<1> QED BY <1>4, <1>5, <1>6

-----------------------------------------------------------------------------
(* The three places of a message. *)

\* A message is appended to the queue: it leaves the inbound list, or is new.
LEMMA OnceQueued ==
    ASSUME NEW S, NEW q \in Seq(S), NEW x \in S, NEW inb, NEW rest, NEW a, NEW pub,
           Once(inb, q, a, pub), rest \subseteq inb,
           \A e \in rest : e.msg # x.msg,
           pub[x.msg] = 2 => x.msg \notin Waiting(q) /\ x.msg \notin ToSet(a)
    PROVE  /\ Once(rest, Append(q, x), a, pub)
           /\ Waiting(Append(q, x)) = Waiting(q) \cup {x.msg}
<1> DEFINE w == Append(q, x)
           n == Len(q) + 1
<1>1. DOMAIN w = DOMAIN q \cup {n} /\ n \notin DOMAIN q /\ w[n] = x
      /\ \A i \in DOMAIN q : w[i] = q[i]
  BY AppendFacts DEF Added
<1> HIDE DEF w, n
<1>2. Waiting(w) = Waiting(q) \cup {x.msg}
  BY <1>1 DEF Waiting
<1>3. \A i \in DOMAIN q : q[i].msg \in Waiting(q)
  BY DEF Waiting
<1>4. ASSUME NEW i \in DOMAIN w, NEW j \in DOMAIN w, w[i].msg = w[j].msg, pub[w[i].msg] = 2
      PROVE  i = j
  BY <1>1, <1>3, <1>4 DEF Once
<1>5. Once(rest, w, a, pub)
  BY <1>2, <1>4 DEF Once
<1> QED BY <1>2, <1>5 DEF w

\* The first of the queue is handed over.
LEMMA OnceDelivered ==
    ASSUME NEW S, NEW q \in Seq(S), q # <<>>, NEW inb, NEW a \in Seq(Nat), NEW pub,
           Head(q).msg \in Nat, Once(inb, q, a, pub)
    PROVE  /\ Once(inb, Tail(q), Append(a, Head(q).msg), pub)
           /\ Waiting(Tail(q)) \cup ToSet(Append(a, Head(q).msg)) = Waiting(q) \cup ToSet(a)
<1> DEFINE w == Tail(q)
           m == Head(q).msg
           b == Append(a, m)
           n == Len(a) + 1
<1>1. /\ Head(q) = q[1] /\ 1 \in DOMAIN q
      /\ \A i \in DOMAIN w : i \in Nat \ {0} /\ i + 1 \in DOMAIN q /\ w[i] = q[i + 1]
  BY TailFacts
<1>2. \A j \in DOMAIN q : j = 1 \/ (j - 1 \in DOMAIN w /\ w[j - 1] = q[j])
  <2>1. DOMAIN q = 1..Len(q) /\ Len(q) \in Nat /\ Len(w) = Len(q) - 1 /\ w \in Seq(S)
    BY TailFacts, LenProperties
  <2>2. DOMAIN w = 1..(Len(q) - 1)
    BY <2>1, LenProperties
  <2>3. \A j \in DOMAIN q : j = 1 \/ (j - 1 \in DOMAIN w /\ j - 1 + 1 = j)
    BY <2>1, <2>2
  <2> QED BY <1>1, <2>3
<1>3. DOMAIN b = DOMAIN a \cup {n} /\ n \notin DOMAIN a /\ b[n] = m
      /\ \A i \in DOMAIN a : b[i] = a[i]
  BY AppendFacts DEF Added
<1>4. m = q[1].msg /\ m \in Waiting(q)
  BY <1>1 DEF Waiting
<1> HIDE DEF w, b, n, m
<1>5. ToSet(b) = ToSet(a) \cup {m}
  BY <1>3 DEF ToSet
<1>6. Waiting(w) \subseteq Waiting(q) /\ Waiting(q) \subseteq Waiting(w) \cup {m}
  <2>1. \A x \in Waiting(w) : \E i \in DOMAIN w : x = w[i].msg
    BY DEF Waiting
  <2>2. \A x \in Waiting(q) : \E i \in DOMAIN q : x = q[i].msg
    BY DEF Waiting
  <2>3. \A i \in DOMAIN w : w[i].msg \in Waiting(q)
    BY <1>1 DEF Waiting
  <2>4. \A i \in DOMAIN q : q[i].msg \in Waiting(w) \cup {m}
    <3> SUFFICES ASSUME NEW i \in DOMAIN q PROVE q[i].msg \in Waiting(w) \cup {m}
      OBVIOUS
    <3>1. CASE i = 1
      BY <1>4, <3>1
    <3>2. CASE i # 1
      BY <1>2, <3>2 DEF Waiting
    <3> QED BY <3>1, <3>2
  <2> QED BY <2>1, <2>2, <2>3, <2>4
<1>7. pub[m] = 2 => m \notin Waiting(w) /\ m \notin ToSet(a)
  <2>1. ASSUME pub[m] = 2, NEW i \in DOMAIN w, w[i].msg = m
        PROVE  FALSE
    <3>1. i + 1 = 1
      BY <1>1, <1>4, <2>1 DEF Once
    <3> QED BY <1>1, <3>1
  <2>2. pub[m] = 2 => m \notin ToSet(a)
    BY <1>4 DEF Once
  <2> QED BY <2>1, <2>2 DEF Waiting
<1>8. ASSUME NEW i \in DOMAIN w, NEW j \in DOMAIN w, w[i].msg = w[j].msg, pub[w[i].msg] = 2
      PROVE  i = j
  <2>1. i + 1 = j + 1
    BY <1>1, <1>8 DEF Once
  <2> QED BY <1>1, <2>1
<1>9. \A i, j \in DOMAIN b : b[i] = b[j] /\ pub[b[i]] = 2 => i = j
  <2>1. \A i \in DOMAIN a : a[i] \in ToSet(a)
    BY DEF ToSet
  <2> QED BY <1>3, <1>7, <2>1 DEF Once
<1>10. Once(inb, w, b, pub)
  <2>1. \A e \in inb : e.msg \notin Waiting(w) /\ e.msg \notin ToSet(b)
    BY <1>4, <1>5, <1>6 DEF Once
  <2>2. \A x \in Waiting(w) : pub[x] = 2 => x \notin ToSet(b)
    BY <1>5, <1>6, <1>7 DEF Once
  <2> QED BY <1>8, <1>9, <2>1, <2>2 DEF Once
<1> QED BY <1>4, <1>5, <1>6, <1>10 DEF w, b, m

\* Messages are lost, or others are sent.
LEMMA OnceLess ==
    ASSUME NEW inb, NEW rest, NEW q, NEW w, NEW a, NEW pub, NEW pub2,
           Once(inb, q, a, pub), rest \subseteq inb,
           w = q \/ w = <<>>,
           Got(inb, q, a) \subseteq DOMAIN pub,
           \A x \in DOMAIN pub : pub2[x] = pub[x]
    PROVE  Once(rest, w, a, pub2) /\ Got(rest, w, a) \subseteq Got(inb, q, a)
<1>1. DOMAIN (<<>>) = {}
  BY EmptySeq, LenProperties
<1>2. Waiting(w) \subseteq Waiting(q) /\ DOMAIN w \subseteq DOMAIN q
      /\ \A i \in DOMAIN w : w[i] = q[i]
  BY <1>1 DEF Waiting
<1>3. /\ \A i \in DOMAIN q : q[i].msg \in DOMAIN pub
      /\ \A i \in DOMAIN a : a[i] \in DOMAIN pub
      /\ \A x \in Waiting(q) : x \in DOMAIN pub
  BY DEF Got, Waiting, ToSet
<1>4. Once(rest, w, a, pub2)
  BY <1>2, <1>3 DEF Once
<1>5. Got(rest, w, a) \subseteq Got(inb, q, a)
  BY <1>2 DEF Got, Msgs
<1> QED BY <1>4, <1>5

-----------------------------------------------------------------------------
(* Steps that show nothing to these flows. *)

\* The parts of the view, now
LEMMA InwardFields ==
    /\ Inward.flows = IF Served THEN Pairs(broker.out) ELSE {}
    /\ Inward.rel = IF Served THEN Freed(broker.out) ELSE {}
    /\ Inward.end = {} /\ Inward.held = Ids(client.inb)
    /\ Inward.wire = toClient
    /\ Inward.back = IF Served THEN toBroker \o held ELSE <<>>
    /\ Inward.pub = app.offered
    /\ Inward.got = Got(client.inb, client.queue, app.arrived)
    /\ Inward.stage = IF Persistent THEN "kept" ELSE IF up THEN "lasts" ELSE "past"
    /\ Live(Inward) <=> Served
BY DEF Inward, Live, Served

\* and after a step.
LEMMA InwardFieldsNext ==
    /\ Inward'.flows = IF Served' THEN Pairs(broker'.out) ELSE {}
    /\ Inward'.rel = IF Served' THEN Freed(broker'.out) ELSE {}
    /\ Inward'.end = {} /\ Inward'.held = Ids(client'.inb)
    /\ Inward'.wire = toClient'
    /\ Inward'.back = IF Served' THEN toBroker' \o held' ELSE <<>>
    /\ Inward'.pub = app'.offered
    /\ Inward'.got = Got(client'.inb, client'.queue, app'.arrived)
    /\ Inward'.stage = IF Persistent' THEN "kept" ELSE IF up' THEN "lasts" ELSE "past"
    /\ Served' <=> Persistent' \/ up'
BY DEF Inward, Served

\* Packets have their places in the two directions.
LEMMA InwardPlaces ==
    ASSUME Shapes'
    PROVE  DOMAIN Inward'.wire \subseteq Nat \ {0} /\ DOMAIN Inward'.back \subseteq Nat
<1>1. DOMAIN toClient' \subseteq Nat \ {0}
  BY LenProperties DEF Shapes
<1>2. DOMAIN (<<>>) = {}
  BY EmptySeq, LenProperties
<1>3. DOMAIN Inward'.back \subseteq Nat
  BY <1>2, PlacesNext, InwardFieldsNext
<1> QED BY <1>1, <1>3, InwardFieldsNext

\* A step that leaves the lists alone and takes packets away.
LEMMA InwardFrame ==
    ASSUME Shapes', Sound(Inward), NEW d \in Nat, NEW e \in Nat,
           mode' = mode, Persistent \/ up' = up,
           broker'.out = broker.out, app'.offered = app.offered,
           Ids(client'.inb) = Ids(client.inb),
           Got(client'.inb, client'.queue, app'.arrived) = Got(client.inb, client.queue, app.arrived),
           ForthFrom(toClient', toClient, d),
           BackFrom(toBroker' \o held', toBroker \o held, e)
    PROVE  Sound(Inward)'
<1>1. (Persistent' <=> Persistent) /\ (Served' <=> Served)
  BY DEF Persistent, Served
<1>2. BackFrom(<<>>, <<>>, e)
  BY NoOps DEF BackFrom
<1>3. BackFrom(Inward'.back, Inward.back, e)
  BY <1>1, <1>2, InwardFields, InwardFieldsNext
<1>4. ForthFrom(Inward'.wire, Inward.wire, d)
  BY InwardFields, InwardFieldsNext
<1>5. /\ Inward'.flows = Inward.flows /\ Inward'.rel = Inward.rel /\ Inward'.end = Inward.end
      /\ Inward'.held = Inward.held /\ Inward'.pub = Inward.pub /\ Inward'.got = Inward.got
      /\ Inward'.stage = Inward.stage
  BY <1>1, InwardFields, InwardFieldsNext DEF Persistent
<1>6. DOMAIN Inward'.wire \subseteq Nat /\ DOMAIN Inward'.back \subseteq Nat
  BY InwardPlaces
<1> HIDE DEF Inward
<1>7. Sound(Inward')
  BY <1>3, <1>4, <1>5, <1>6, Unseen
<1> QED BY <1>7

\* The lists as they are.
LEMMA ReceivesFrame ==
    ASSUME Shapes', Receives, NEW d \in Nat, NEW e \in Nat,
           mode' = mode, alive' = alive, Persistent \/ up' = up,
           broker'.out = broker.out, app'.offered = app.offered, app'.arrived = app.arrived,
           client'.inb = client.inb, client'.queue = client.queue,
           ForthFrom(toClient', toClient, d),
           BackFrom(toBroker' \o held', toBroker \o held, e)
    PROVE  Receives'
<1>1. Sound(Inward)'
  BY InwardFrame DEF Receives
<1>2. (Persistent' <=> Persistent) /\ (Served' <=> Served)
  BY DEF Persistent, Served
<1>3. Inbox'
  BY <1>2 DEF Receives, Inbox
<1> QED BY <1>1, <1>3 DEF Receives

\* A view in which nothing travels.
LEMMA NothingTravels ==
    ASSUME NEW s, s.flows = {}, s.rel = {}, s.end = {}, s.held = {}, s.got \subseteq DOMAIN s.pub,
           DOMAIN s.wire = {}, DOMAIN s.back = {}, s.stage = "kept" => DOMAIN s.pub = {}
    PROVE  Sound(s)
<1>1. FlowsOK(s) /\ WireOK(s) /\ AloneOK(s)
  BY DEF FlowsOK, WireOK, AloneOK
<1>2. BackOK(s) /\ BrokerOK(s) /\ KeptOK(s)
  BY DEF BackOK, BrokerOK, KeptOK
<1> QED BY <1>1, <1>2 DEF Sound

\* A clean session ends, or begins again.
LEMMA CleanReceives ==
    ASSUME Shapes', Receives, mode = "clean", mode' = mode, alive' = alive,
           client'.inb = {}, client'.queue = <<>>, toClient' = <<>>,
           app'.offered = app.offered, app'.arrived = app.arrived,
           up' => broker'.out = <<>> /\ toBroker' \o held' = <<>>
    PROVE  Receives'
<1>1. ~Persistent' /\ (Served' <=> up') /\ DOMAIN (<<>>) = {}
  BY NoOps DEF Persistent, Served
<1>2. Got(client.inb, client.queue, app.arrived) \subseteq DOMAIN app.offered
  BY InwardFields DEF Receives, Sound, FlowsOK
<1>3. /\ Once({}, <<>>, app.arrived, app.offered)
      /\ Got({}, <<>>, app.arrived) \subseteq Got(client.inb, client.queue, app.arrived)
  BY <1>2, OnceLess DEF Receives
<1>4. Pairs(<<>>) = {} /\ Freed(<<>>) = {} /\ Ids({}) = {}
  BY <1>1 DEF Pairs, Freed, Ids
<1>5. Inbox'
  BY <1>1 DEF Inbox, OffersFit
<1>6. /\ Inward'.flows = {} /\ Inward'.rel = {} /\ Inward'.end = {} /\ Inward'.held = {}
      /\ DOMAIN Inward'.wire = {} /\ DOMAIN Inward'.back = {} /\ Inward'.stage # "kept"
      /\ Inward'.got \subseteq DOMAIN Inward'.pub
  BY <1>1, <1>2, <1>3, <1>4, InwardFieldsNext
<1> HIDE DEF Inward
<1>7. Sound(Inward')
  BY <1>6, NothingTravels
<1> QED BY <1>3, <1>5, <1>7 DEF Receives

\* The connection is closed.
LEMMA CloseReceives ==
    ASSUME Shapes, Shapes', Receives, NEW c \in Clients, Close(c),
           c.inb = client.inb, c.queue = client.queue,
           mode' = mode, alive' = alive, toBroker' = toBroker, broker' = broker,
           app'.offered = app.offered, app'.arrived = app.arrived
    PROVE  Receives'
<1>1. up' = FALSE /\ held' = <<>> /\ toClient' = <<>> /\ client' = Closed(c)
  BY DEF Close
<1>2. CASE mode = "clean"
  <2>1. client'.inb = {} /\ client'.queue = <<>>
    BY <1>1, <1>2, ClosedIsAClient
  <2> QED BY <1>1, <1>2, <2>1, CleanReceives
<1>3. CASE mode # "clean"
  <2>1. client' = c /\ Persistent
    BY <1>1, <1>3, ClosedIsAClient, ModesAssumption DEF Shapes, Persistent
  <2>2. BackFrom(toBroker' \o held', toBroker \o held, 0)
    BY <1>1, WireCut DEF Shapes
  <2>3. ForthFrom(toClient', toClient, 0) /\ 0 \in Nat
    BY <1>1, NoOps DEF ForthFrom
  <2> QED BY <2>1, <2>2, <2>3, ReceivesFrame
<1> QED BY <1>2, <1>3

-----------------------------------------------------------------------------
(* Packets of the other direction. *)

\* Nothing is sent by the client,
LEMMA SameAnswers ==
    ASSUME Shapes, toBroker' = toBroker, held' = held
    PROVE  BackFrom(toBroker' \o held', toBroker \o held, 0)
<1>1. \A i \in DOMAIN (toBroker \o held) : i + 0 = i
  BY Places
<1> QED BY <1>1 DEF BackFrom

\* or a packet that answers nothing.
LEMMA OtherAnswer ==
    ASSUME Shapes, NEW p \in Packets, ~Back(p), held = <<>>,
           \/ toBroker' = Append(toBroker, p) /\ held' = <<>>
           \/ toBroker' = toBroker /\ held' = <<p>>
    PROVE  BackFrom(toBroker' \o held', toBroker \o held, 0)
<1>1. Added(toBroker' \o held', toBroker \o <<>>, Len(toBroker) + 1, p)
  BY WirePlusOne DEF Shapes
<1>2. \A i \in DOMAIN (toBroker \o held) : i + 0 = i
  BY Places
<1> QED BY <1>1, <1>2 DEF Added, BackFrom

\* Nothing is sent by the broker,
LEMMA SameForth ==
    ASSUME Shapes, toClient' = toClient
    PROVE  ForthFrom(toClient', toClient, 0)
<1>1. \A i \in DOMAIN toClient : i + 0 = i
  BY Places
<1> QED BY <1>1 DEF ForthFrom

\* or a packet that belongs to no flow to the client.
LEMMA OtherForth ==
    ASSUME Shapes, NEW p \in Packets, ~Forth(p), Reply(p)
    PROVE  ForthFrom(toClient', toClient, 0)
<1>1. toClient \in Seq(Packets)
  BY DEF Shapes
<1>2. toClient' = toClient \/ Added(toClient', toClient, Len(toClient) + 1, p)
  BY <1>1, AppendFacts DEF Reply
<1>3. \A i \in DOMAIN toClient : i + 0 = i
  BY Places
<1> QED BY <1>2, <1>3 DEF Added, ForthFrom

\* One packet is read by the client.
LEMMA OneForth ==
    ASSUME Shapes, toClient # <<>>, toClient' = Tail(toClient)
    PROVE  ForthFrom(toClient', toClient, 1)
BY TailFacts DEF ForthFrom, Shapes

\* A handler that takes nothing in and answers no message.
LEMMA OtherHandler ==
    ASSUME Shapes, Shapes', Receives, NEW c \in Clients, NEW p \in Packets, ~Back(p),
           c.inb = client.inb, c.queue = client.queue,
           toClient # <<>>, Answer(p, c) \/ Silent(c),
           mode' = mode, alive' = alive, broker' = broker, app' = app
    PROVE  Receives'
<1>1. CASE Silent(c)
  <2>1. client' = c /\ up' = up /\ toClient' = Tail(toClient) /\ toBroker' = toBroker /\ held' = held
    BY <1>1 DEF Silent, Stay
  <2>2. ForthFrom(toClient', toClient, 1) /\ 1 \in Nat /\ 0 \in Nat
    BY <2>1, OneForth
  <2>3. BackFrom(toBroker' \o held', toBroker \o held, 0)
    BY <2>1, SameAnswers
  <2> QED BY <2>1, <2>2, <2>3, ReceivesFrame
<1>2. CASE Transmit(p, c) /\ toClient' = Tail(toClient)
  <2>1. client' = c /\ up' = up
    BY <1>2 DEF Transmit, Stay
  <2>2. ForthFrom(toClient', toClient, 1) /\ 1 \in Nat /\ 0 \in Nat
    BY <1>2, OneForth
  <2>3. BackFrom(toBroker' \o held', toBroker \o held, 0)
    BY <1>2, OtherAnswer DEF Transmit
  <2> QED BY <2>1, <2>2, <2>3, ReceivesFrame
<1>3. CASE held # <<>> /\ Close(c) /\ UNCHANGED <<toBroker, faults>>
  BY <1>3, CloseReceives
<1> QED BY <1>1, <1>2, <1>3 DEF Answer

-----------------------------------------------------------------------------
(* Actions that leave the flows to the client where they are. *)

\* Nothing is sent.
LEMMA IdleReceives ==
    ASSUME IInv, Receives, Shapes',
           FindReady \/ HandlePingresps \/ DiskStep \/ ContinueWrite
    PROVE  Receives'
<1>1. Shapes /\ 0 \in Nat
  BY DEF IInv
<1>2. BackFrom(toBroker' \o held', toBroker \o held, 0)
  <2>1. CASE FindReady \/ HandlePingresps \/ DiskStep
    BY <1>1, <2>1, SameAnswers DEF FindReady, HandlePingresps, DiskStep
  <2>2. CASE ContinueWrite
    <3>1. toBroker \o held \in Seq(Packets)
      BY <1>1, CatFacts DEF Shapes
    <3>2. toBroker' = toBroker \o held /\ held' = <<>>
      BY <2>2 DEF ContinueWrite
    <3>3. toBroker' \o held' = toBroker \o held
      BY <3>1, <3>2, ConcatEmptySeq
    <3>4. \A i \in DOMAIN (toBroker \o held) : i + 0 = i
      BY <1>1, Places
    <3> QED BY <3>3, <3>4 DEF BackFrom
  <2> QED BY <2>1, <2>2
<1>3. /\ mode' = mode /\ alive' = alive /\ up' = up /\ broker' = broker /\ app' = app
      /\ client' = client /\ toClient' = toClient
  BY DEF FindReady, HandlePingresps, DiskStep, ContinueWrite
<1>4. ForthFrom(toClient', toClient, 0)
  BY <1>1, <1>3, SameForth
<1> QED BY <1>1, <1>2, <1>3, <1>4, ReceivesFrame

\* The client publishes.
LEMMA PublishReceives ==
    ASSUME IInv, Receives, Shapes', NEW q \in Qos, PublishWritten(q)
    PROVE  Receives'
<1> DEFINE m == Len(app.published) + 1
<1>0. Shapes
  BY DEF IInv
<1>1. OutInv
  BY DEF IInv, Store
<1>2. PICK n \in 1..MaxId :
         \E p \in Packets :
              /\ p = Packet("PUBLISH", n, q, m, FALSE)
              /\ client' = [client EXCEPT !.out = Append(@, Entry(n, q, m)), !.msgID = n]
              /\ \/ toBroker' = Append(toBroker, p) /\ held' = <<>>
                 \/ toBroker' = toBroker /\ held' = <<p>>
  BY <1>0, <1>1, PublishFacts
<1> DEFINE p == Packet("PUBLISH", n, q, m, FALSE)
<1>3. p \in Packets /\ ~Back(p)
  BY <1>2 DEF Packet, Back
<1>4. /\ mode' = mode /\ alive' = alive /\ up' = up /\ broker' = broker
      /\ toClient' = toClient /\ held = <<>>
      /\ app' = [app EXCEPT !.published = Append(@, q)]
  BY DEF PublishWritten
<1>5. client'.inb = client.inb /\ client'.queue = client.queue
  BY <1>0, <1>2 DEF Shapes, Clients
<1>6. app'.offered = app.offered /\ app'.arrived = app.arrived
  BY <1>0, <1>4 DEF Shapes, Apps
<1>7. BackFrom(toBroker' \o held', toBroker \o held, 0)
  BY <1>0, <1>2, <1>3, <1>4, OtherAnswer
<1>8. ForthFrom(toClient', toClient, 0)
  BY <1>0, <1>4, SameForth
<1>9. 0 \in Nat
  OBVIOUS
<1> QED BY <1>4, <1>5, <1>9, <1>6, <1>7, <1>8, ReceivesFrame

\* The client takes an acknowledgement of the broker's.
LEMMA AcksReceive ==
    ASSUME IInv, Receives, Shapes', HandlePubacks \/ HandlePubcomps \/ HandlePubrecs
    PROVE  Receives'
<1>1. Shapes /\ client \in Clients
  BY DEF IInv, Shapes
<1>2. mode' = mode /\ alive' = alive /\ broker' = broker /\ app' = app
  BY DEF HandlePubacks, HandlePubcomps, HandlePubrecs
<1>3. /\ Ack("PUBREL", 0) \in Packets /\ ~Back(Ack("PUBREL", 0))
      /\ \A n \in Nat : Ack("PUBREL", n) \in Packets /\ ~Back(Ack("PUBREL", n))
  BY AckIsAPacket DEF Types, Back
<1>4. ASSUME NEW i \in DOMAIN client.out, Over(i), toClient # <<>>
      PROVE  Receives'
  <2> DEFINE c == [client EXCEPT !.out = RemoveAt(@, i)]
  <2>1. c \in Clients /\ c.inb = client.inb /\ c.queue = client.queue
    <3>1. c \in Clients
      BY <1>1, MinusOneShapes
    <3> QED BY <1>1, <3>1 DEF Clients
  <2>2. Silent(c)
    BY <1>4 DEF Over
  <2> HIDE DEF c
  <2> QED BY <1>1, <1>2, <1>3, <1>4, <2>1, <2>2, OtherHandler
<1>5. ASSUME Silent(client), toClient # <<>>
      PROVE  Receives'
  BY <1>1, <1>2, <1>3, <1>5, OtherHandler
<1>6. CASE HandlePubacks \/ HandlePubcomps
  <2>1. PICK type \in {"PUBACK", "PUBCOMP"} : \E p : /\ Reads(type, p)
                /\ ((\E i \in Outbound(p.id) : Over(i)) \/ Ignored)
    BY <1>6 DEF HandlePubacks, HandlePubcomps
  <2>2. toClient # <<>>
    BY <2>1 DEF Reads
  <2> QED BY <1>4, <1>5, <2>1, <2>2 DEF Outbound, Ignored
<1>7. CASE HandlePubrecs
  <2>1. PICK p : /\ Reads("PUBREC", p)
                 /\ \/ \E i \in Outbound(p.id) :
                         Answer(Ack("PUBREL", p.id), [client EXCEPT !.out[i].next = "PUBCOMP"])
                    \/ Silent(client)
    BY <1>7 DEF HandlePubrecs
  <2>2. p.id \in Nat /\ toClient # <<>>
    BY <1>1, <2>1, ReadsFacts
  <2>3. ASSUME NEW i \in DOMAIN client.out,
               Answer(Ack("PUBREL", p.id), [client EXCEPT !.out[i].next = "PUBCOMP"])
        PROVE  Receives'
    <3> DEFINE c == [client EXCEPT !.out[i].next = "PUBCOMP"]
    <3>1. c \in Clients /\ c.inb = client.inb /\ c.queue = client.queue
      <4>1. c \in Clients
        BY <1>1, NextShapes
      <4> QED BY <1>1, <4>1 DEF Clients
    <3>2. Answer(Ack("PUBREL", p.id), c)
      BY <2>3
    <3> HIDE DEF c
    <3> QED BY <1>1, <1>2, <1>3, <2>2, <3>1, <3>2, OtherHandler
  <2> QED BY <1>5, <2>1, <2>2, <2>3 DEF Outbound
<1> QED BY <1>6, <1>7

\* The connection is lost.
LEMMA DropReceives ==
    ASSUME IInv, Receives, Shapes', Drop
    PROVE  Receives'
<1>1. Shapes /\ client \in Clients
  BY DEF IInv, Shapes
<1> QED BY <1>1, CloseReceives DEF Drop

\* A publication cannot be written.
LEMMA PublishFailsReceives ==
    ASSUME IInv, Receives, Shapes', NEW q \in Qos, PublishFails(q)
    PROVE  Receives'
<1>1. Shapes /\ OutInv
  BY DEF IInv, Store
<1>2. PICK c \in Clients : Close(c) /\ c.inb = client.inb /\ c.queue = client.queue
  BY <1>1, PublishFailsFacts
<1>3. /\ mode' = mode /\ alive' = alive /\ toBroker' = toBroker /\ broker' = broker
      /\ app'.offered = app.offered /\ app'.arrived = app.arrived
  BY <1>1 DEF PublishFails, Shapes, Apps
<1> QED BY <1>1, <1>2, <1>3, CloseReceives

-----------------------------------------------------------------------------
(* Messages taken in. *)

\* What a handler that is not stopped shows of the packet it takes.
LEMMA TakenIn ==
    ASSUME Shapes, Shapes', NEW type, NEW p, Reads(type, p),
           NEW t \in {"PUBACK", "PUBREC", "PUBCOMP"}, NEW c \in Clients,
           (Transmit(Ack(t, p.id), c) /\ toClient' = Tail(toClient)) \/ Silent(c),
           mode' = mode, broker' = broker, app' = app
    PROVE  /\ client' = c /\ up' = up /\ Served /\ Served' /\ Live(Inward)
           /\ 1 \in DOMAIN Inward.wire /\ Inward.wire[1] = p
           /\ Inward'.flows = Inward.flows /\ Inward'.rel = Inward.rel /\ Inward'.end = Inward.end
           /\ Inward'.pub = Inward.pub /\ Inward'.stage = Inward.stage
           /\ Inward'.held = Ids(c.inb) /\ Inward'.got = Got(c.inb, c.queue, app.arrived)
           /\ ForthFrom(Inward'.wire, Inward.wire, 1)
           /\ DOMAIN Inward'.wire \subseteq Nat \ {0} /\ DOMAIN Inward'.back \subseteq Nat
           /\ Answered(Inward, Inward', p.id, t)
<1>1. p \in Packets /\ p.id \in Nat /\ toClient # <<>> /\ p = toClient[1] /\ 1 \in DOMAIN toClient /\ up
  BY ReadsFacts
<1>2. client' = c /\ up' = up /\ toClient' = Tail(toClient)
  BY DEF Transmit, Silent, Stay
<1>3. Served /\ Served' /\ (Persistent' <=> Persistent)
  BY <1>1, <1>2 DEF Served, Persistent
<1>4. /\ Inward.wire = toClient /\ Inward'.wire = Tail(toClient) /\ Live(Inward)
      /\ Inward.back = toBroker \o held /\ Inward'.back = toBroker' \o held'
  BY <1>2, <1>3, InwardFields, InwardFieldsNext
<1>5. /\ Inward'.flows = Inward.flows /\ Inward'.rel = Inward.rel /\ Inward'.end = Inward.end
      /\ Inward'.pub = Inward.pub /\ Inward'.stage = Inward.stage
  BY <1>2, <1>3, InwardFields, InwardFieldsNext
<1>6. Inward'.held = Ids(c.inb) /\ Inward'.got = Got(c.inb, c.queue, app.arrived)
  BY <1>2, InwardFieldsNext
<1>7. DOMAIN Inward'.wire \subseteq Nat \ {0} /\ DOMAIN Inward'.back \subseteq Nat
  BY InwardPlaces
<1>8. ForthFrom(Tail(toClient), toClient, 1)
  BY <1>1, <1>2, OneForth
<1>9. Answered(Inward, Inward', p.id, t)
  <2>1. CASE Silent(c)
    <3>1. BackFrom(toBroker' \o held', toBroker \o held, 0)
      BY <2>1, SameAnswers DEF Silent
    <3> QED BY <1>4, <3>1 DEF Answered
  <2>2. CASE Transmit(Ack(t, p.id), c)
    <3>1. /\ held = <<>>
          /\ \/ toBroker' = Append(toBroker, Ack(t, p.id)) /\ held' = <<>>
             \/ toBroker' = toBroker /\ held' = <<Ack(t, p.id)>>
      BY <2>2 DEF Transmit
    <3>2. Ack(t, p.id) \in Packets /\ Ack(t, p.id).type = t /\ Ack(t, p.id).id = p.id
      BY <1>1, AckIsAPacket DEF Types
    <3>3. Added(toBroker' \o held', toBroker \o <<>>, Len(toBroker) + 1, Ack(t, p.id))
      BY <3>1, <3>2, WirePlusOne DEF Shapes
    <3> QED BY <1>4, <3>1, <3>2, <3>3 DEF Answered
  <2> QED BY <2>1, <2>2
<1> QED BY <1>1, <1>2, <1>3, <1>4, <1>5, <1>6, <1>7, <1>8, <1>9

\* What the flows say of the inbound list: an entry is the only one of its id
\* and of its message, and of QoS 2.
LEMMA InboxFacts ==
    ASSUME Receives, Served
    PROVE  /\ \A e \in client.inb : <<e.id, e.msg>> \in Inward.flows /\ app.offered[e.msg] = 2
           /\ \A e \in client.inb, f \in Inward.flows :
                 e.id = f[1] \/ e.msg = f[2] => f = <<e.id, e.msg>>
           /\ Inward.flows = Pairs(broker.out)
<1>1. Inward.flows = Pairs(broker.out) /\ Live(Inward) /\ Inward.held = Ids(client.inb)
      /\ Inward.pub = app.offered
  BY InwardFields
<1>2. \A e \in client.inb : <<e.id, e.msg>> \in Inward.flows
  BY <1>1 DEF Receives, Inbox
<1> HIDE DEF Inward
<1>3. \A f, g \in Inward.flows : f[1] = g[1] \/ f[2] = g[2] => f = g
  BY DEF Receives, Sound, FlowsOK
<1>4. \A n \in Ids(client.inb) : \E m \in Inward.got : <<n, m>> \in Inward.flows /\ app.offered[m] = 2
  BY <1>1 DEF Receives, Sound, BrokerOK
<1>5. ASSUME NEW e \in client.inb, NEW f \in Inward.flows, e.id = f[1] \/ e.msg = f[2]
      PROVE  f = <<e.id, e.msg>>
  <2>1. <<e.id, e.msg>>[1] = e.id /\ <<e.id, e.msg>>[2] = e.msg
    OBVIOUS
  <2> QED BY <1>2, <1>3, <1>5, <2>1
<1>6. ASSUME NEW e \in client.inb
      PROVE  app.offered[e.msg] = 2
  <2>1. e.id \in Ids(client.inb)
    BY DEF Ids
  <2>2. PICK m \in Inward.got : <<e.id, m>> \in Inward.flows /\ app.offered[m] = 2
    BY <1>4, <2>1
  <2>3. <<e.id, m>>[1] = e.id /\ <<e.id, m>>[2] = m /\ <<e.id, e.msg>>[2] = e.msg
    OBVIOUS
  <2>4. m = e.msg
    BY <1>5, <2>2, <2>3
  <2> QED BY <2>2, <2>4
<1> QED BY <1>1, <1>2, <1>5, <1>6

\* A handler is stopped by a packet that is still to be finished.
LEMMA StoppedReceives ==
    ASSUME Shapes, Shapes', Receives, NEW c \in Clients, NEW p,
           held # <<>>, Answer(p, c), c.inb = client.inb, c.queue = client.queue,
           mode' = mode, alive' = alive, broker' = broker, app' = app
    PROVE  Receives'
<1>1. Close(c) /\ toBroker' = toBroker
  BY DEF Answer, Transmit
<1> QED BY <1>1, CloseReceives

\* The PUBLISH read first is of a flow that waits for it.
LEMMA PublishRead ==
    ASSUME Shapes, Receives, Served, NEW p, Reads("PUBLISH", p)
    PROVE  /\ <<p.id, p.msg>> \in Inward.flows /\ p.msg \in DOMAIN app.offered
           /\ p.qos = app.offered[p.msg]
           /\ p.qos = 2 /\ p.id \notin Ids(client.inb) =>
                 p.msg \notin Got(client.inb, client.queue, app.arrived)
<1>1. p = toClient[1] /\ 1 \in DOMAIN toClient /\ p.type = "PUBLISH"
  BY ReadsFacts
<1>2. /\ Inward.wire = toClient /\ Live(Inward) /\ Inward.held = Ids(client.inb)
      /\ Inward.pub = app.offered /\ Inward.got = Got(client.inb, client.queue, app.arrived)
  BY InwardFields
<1> HIDE DEF Inward
<1>3. PublishOK(Inward, p)
  BY <1>1, <1>2 DEF Receives, Sound, WireOK
<1> QED BY <1>2, <1>3 DEF PublishOK

\* A new queue and its messages.
LEMMA QueueGrows ==
    ASSUME Shapes, NEW m \in Nat, NEW rest,
           Once(client.inb, client.queue, app.arrived, app.offered), rest \subseteq client.inb,
           \A e \in rest : e.msg # m,
           app.offered[m] = 2 => m \notin Waiting(client.queue) /\ m \notin ToSet(app.arrived)
    PROVE  \A q : q = Append(client.queue, [msg |-> m, seq |-> client.seqno + 1]) =>
               /\ Once(rest, q, app.arrived, app.offered)
               /\ Waiting(q) = Waiting(client.queue) \cup {m}
<1> DEFINE x == [msg |-> m, seq |-> client.seqno + 1]
           S == [msg : Nat, seq : Nat]
<1>1. client.queue \in Seq(S) /\ client.seqno \in Nat
  BY DEF Shapes, Clients
<1>2. x \in S /\ x.msg = m
  BY <1>1
<1> HIDE DEF x, S
<1>3. /\ Once(rest, Append(client.queue, x), app.arrived, app.offered)
      /\ Waiting(Append(client.queue, x)) = Waiting(client.queue) \cup {x.msg}
  <2>1. /\ \A e \in rest : e.msg # x.msg
        /\ app.offered[x.msg] = 2 => x.msg \notin Waiting(client.queue) /\ x.msg \notin ToSet(app.arrived)
    BY <1>2
  <2> QED BY <1>1, <1>2, <2>1, OnceQueued
<1> QED BY <1>2, <1>3 DEF x

\* A message of QoS 1.
LEMMA Publish1Receives ==
    ASSUME IInv, Receives, Shapes', NEW p, Reads("PUBLISH", p), HandlePublish1(p), held = <<>>,
           mode' = mode, alive' = alive, broker' = broker, app' = app
    PROVE  Receives'
<1> DEFINE c == Queued(client, p.msg)
           q == Append(client.queue, [msg |-> p.msg, seq |-> client.seqno + 1])
<1>1. Shapes /\ client \in Clients
  BY DEF IInv, Shapes
<1>2. p.id \in Nat /\ p.msg \in Nat /\ up /\ Served /\ p.type = "PUBLISH"
  BY <1>1, ReadsFacts DEF Served
<1>3. c \in Clients /\ c.inb = client.inb /\ c.queue = q
  BY <1>1, <1>2, QueuedIsAClient
<1>4. Transmit(Ack("PUBACK", p.id), c) /\ toClient' = Tail(toClient)
  BY DEF HandlePublish1, Answer
<1>5. p.qos = 1 /\ app.offered[p.msg] = 1
  BY <1>1, <1>2, PublishRead DEF HandlePublish1
<1>6. \A e \in client.inb : e.msg # p.msg
  <2>1. \A e \in client.inb : app.offered[e.msg] = 2
    BY <1>2, InboxFacts
  <2> QED BY <1>5, <2>1
<1> HIDE DEF c
<1>7. /\ Once(client.inb, q, app.arrived, app.offered)
      /\ Waiting(q) = Waiting(client.queue) \cup {p.msg}
  <2>1. /\ Once(client.inb, client.queue, app.arrived, app.offered)
        /\ app.offered[p.msg] = 2 =>
              p.msg \notin Waiting(client.queue) /\ p.msg \notin ToSet(app.arrived)
        /\ client.inb \subseteq client.inb
    BY <1>5 DEF Receives
  <2> QED BY <1>1, <1>2, <1>6, <2>1, QueueGrows
<1> HIDE DEF q
<1>8. /\ client' = c /\ up' = up /\ Served'
      /\ 1 \in DOMAIN Inward.wire /\ Inward.wire[1] = p
      /\ Inward'.flows = Inward.flows /\ Inward'.rel = Inward.rel /\ Inward'.end = Inward.end
      /\ Inward'.pub = Inward.pub /\ Inward'.stage = Inward.stage
      /\ Inward'.held = Ids(c.inb) /\ Inward'.got = Got(c.inb, c.queue, app.arrived)
      /\ ForthFrom(Inward'.wire, Inward.wire, 1)
      /\ DOMAIN Inward'.wire \subseteq Nat \ {0} /\ DOMAIN Inward'.back \subseteq Nat
      /\ Answered(Inward, Inward', p.id, "PUBACK")
  BY <1>1, <1>3, <1>4, TakenIn
<1>9. /\ Inward.pub = app.offered /\ Inward'.held = Inward.held
      /\ Inward'.got = Inward.got \cup {p.msg}
  BY <1>3, <1>7, <1>8, InwardFields DEF Got
<1>10. Inbox'
  BY <1>2, <1>3, <1>8 DEF Receives, Inbox
<1>11. Sound(Inward)
  BY DEF Receives
<1> HIDE DEF Inward
<1>12. Sound(Inward')
  BY <1>2, <1>5, <1>8, <1>9, <1>11, Received1
<1> QED BY <1>3, <1>7, <1>8, <1>10, <1>12 DEF Receives

\* A message of QoS 2, which may be here already.
LEMMA Publish2Receives ==
    ASSUME IInv, Receives, Shapes', NEW p, Reads("PUBLISH", p), HandlePublish2(p), held = <<>>,
           mode' = mode, alive' = alive, broker' = broker, app' = app
    PROVE  Receives'
<1> DEFINE x == [id |-> p.id, msg |-> p.msg]
           kept == {e \in client.inb : e.id # p.id} \cup {x}
           c == [client EXCEPT !.inb = kept]
<1>1. Shapes /\ client \in Clients
  BY DEF IInv, Shapes
<1>2. p.id \in Nat /\ p.msg \in Nat /\ up /\ Served /\ p.type = "PUBLISH"
  BY <1>1, ReadsFacts DEF Served
<1>3. x \in [id : Nat, msg : Nat] /\ x.id = p.id /\ x.msg = p.msg
      /\ client.inb \in SUBSET [id : Nat, msg : Nat]
  BY <1>1, <1>2 DEF Clients
<1>4. kept \in SUBSET [id : Nat, msg : Nat]
  BY <1>3
<1>5. Transmit(Ack("PUBREC", p.id), c) /\ toClient' = Tail(toClient)
  BY DEF HandlePublish2, Answer
<1>6. /\ p.qos = 2 /\ app.offered[p.msg] = 2 /\ <<p.id, p.msg>> \in Inward.flows
      /\ p.id \notin Ids(client.inb) => p.msg \notin Got(client.inb, client.queue, app.arrived)
  BY <1>1, <1>2, PublishRead DEF HandlePublish2
<1>7. c \in Clients /\ c.inb = kept /\ c.queue = client.queue
  <2> HIDE DEF kept
  <2> QED BY <1>1, <1>4 DEF Clients
<1> HIDE DEF c
<1>8. p.id \in Ids(client.inb) => kept = client.inb
  <2> SUFFICES ASSUME NEW f \in client.inb, f.id = p.id PROVE kept = client.inb
    BY DEF Ids
  <2>1. <<p.id, p.msg>>[1] = p.id /\ <<p.id, p.msg>>[2] = p.msg
    OBVIOUS
  <2>2. \A e \in client.inb : e.id = p.id => e.msg = p.msg
    <3> SUFFICES ASSUME NEW e \in client.inb, e.id = p.id PROVE e.msg = p.msg
      OBVIOUS
    <3>1. <<p.id, p.msg>> = <<e.id, e.msg>>
      BY <1>2, <1>6, <2>1, InboxFacts
    <3> QED BY <3>1
  <2>3. \A e \in client.inb : e.id = p.id => e = x
    BY <1>3, <2>2
  <2> HIDE DEF x
  <2> QED BY <1>3, <2>3
<1>9. p.id \notin Ids(client.inb) => kept = client.inb \cup {x}
  BY DEF Ids
<1>10. /\ Ids(kept) = Ids(client.inb) \cup {p.id}
       /\ Msgs(kept) = Msgs(client.inb) \cup (IF p.id \in Ids(client.inb) THEN {} ELSE {p.msg})
  <2> HIDE DEF x, kept
  <2>1. CASE p.id \in Ids(client.inb)
    BY <1>8, <2>1
  <2>2. CASE p.id \notin Ids(client.inb)
    BY <1>3, <1>9, <2>2 DEF Ids, Msgs
  <2> QED BY <2>1, <2>2
<1>11. Once(kept, client.queue, app.arrived, app.offered)
  <2> HIDE DEF x, kept
  <2>1. CASE p.id \in Ids(client.inb)
    BY <1>8, <2>1 DEF Receives
  <2>2. CASE p.id \notin Ids(client.inb)
    <3>1. x.msg \notin Waiting(client.queue) /\ x.msg \notin ToSet(app.arrived)
      BY <1>3, <1>6, <2>2 DEF Got
    <3> QED BY <1>9, <2>2, <3>1 DEF Receives, Once
  <2> QED BY <2>1, <2>2
<1>12. \A e \in kept : e = x \/ e \in client.inb
  OBVIOUS
<1> HIDE DEF kept
<1>13. /\ client' = c /\ up' = up /\ Served'
       /\ 1 \in DOMAIN Inward.wire /\ Inward.wire[1] = p
       /\ Inward'.flows = Inward.flows /\ Inward'.rel = Inward.rel /\ Inward'.end = Inward.end
       /\ Inward'.pub = Inward.pub /\ Inward'.stage = Inward.stage
       /\ Inward'.held = Ids(c.inb) /\ Inward'.got = Got(c.inb, c.queue, app.arrived)
       /\ ForthFrom(Inward'.wire, Inward.wire, 1)
       /\ DOMAIN Inward'.wire \subseteq Nat \ {0} /\ DOMAIN Inward'.back \subseteq Nat
       /\ Answered(Inward, Inward', p.id, "PUBREC")
  BY <1>1, <1>5, <1>7, TakenIn
<1>14. /\ Inward.pub = app.offered /\ Inward'.held = Inward.held \cup {p.id}
       /\ Inward'.got = IF p.id \in Inward.held THEN Inward.got ELSE Inward.got \cup {p.msg}
  BY <1>7, <1>10, <1>13, InwardFields DEF Got
<1>15. Inbox'
  <2>1. /\ <<x.id, x.msg>> \in Pairs(broker.out)
        /\ OffersFit(broker.out, app.offered)
        /\ \A e \in client.inb : <<e.id, e.msg>> \in Pairs(broker.out)
    BY <1>2, <1>3, <1>6, InboxFacts DEF Receives, Inbox
  <2> HIDE DEF x
  <2>2. \A e \in kept : <<e.id, e.msg>> \in Pairs(broker.out)
    BY <1>12, <2>1
  <2> QED BY <1>7, <1>13, <2>1, <2>2 DEF Inbox
<1>16. Sound(Inward)
  BY DEF Receives
<1> HIDE DEF Inward
<1>17. Sound(Inward')
  BY <1>2, <1>6, <1>13, <1>14, <1>16, Received2
<1> QED BY <1>7, <1>11, <1>13, <1>15, <1>17 DEF Receives

\* A PUBLISH is taken.
LEMMA PublishesReceive ==
    ASSUME IInv, Receives, Shapes', HandlePublishes
    PROVE  Receives'
<1>1. Shapes /\ client \in Clients
  BY DEF IInv, Shapes
<1>2. PICK p : Reads("PUBLISH", p) /\ (HandlePublish1(p) \/ HandlePublish2(p))
  BY DEF HandlePublishes
<1>3. mode' = mode /\ alive' = alive /\ broker' = broker /\ app' = app
  BY DEF HandlePublishes
<1>4. CASE held # <<>>
  <2>1. PICK t : Answer(Ack(t, p.id), client)
    BY <1>2, <1>4 DEF HandlePublish1, HandlePublish2
  <2> QED BY <1>1, <1>3, <1>4, <2>1, StoppedReceives
<1>5. CASE held = <<>>
  BY <1>2, <1>3, <1>5, Publish1Receives, Publish2Receives
<1> QED BY <1>4, <1>5

\* The flow a PUBREL ends is of QoS 2.
LEMMA PubrelEnds ==
    ASSUME Shapes, Receives, Served, NEW p, Reads("PUBREL", p)
    PROVE  \A f \in Inward.flows : f[1] = p.id => app.offered[f[2]] = 2
<1>1. p = toClient[1] /\ 1 \in DOMAIN toClient /\ p.type = "PUBREL"
  BY ReadsFacts
<1>2. /\ Inward.wire = toClient /\ Live(Inward) /\ Inward.rel = Freed(broker.out)
      /\ Inward.flows = Pairs(broker.out)
  BY InwardFields
<1> HIDE DEF Inward
<1>3. p.id \in Freed(broker.out)
  BY <1>1, <1>2 DEF Receives, Sound, WireOK, PubrelOK
<1>4. OffersFit(broker.out, app.offered)
  BY DEF Receives, Inbox
<1>5. PICK k \in DOMAIN broker.out : broker.out[k].id = p.id /\ broker.out[k].next = "PUBCOMP"
  BY <1>3 DEF Freed
<1>6. app.offered[broker.out[k].msg] = 2
  BY <1>4, <1>5 DEF OffersFit
<1>7. \A i \in DOMAIN broker.out : broker.out[i].id = p.id => i = k
  BY <1>4, <1>5 DEF OffersFit
<1> SUFFICES ASSUME NEW i \in DOMAIN broker.out, <<broker.out[i].id, broker.out[i].msg>>[1] = p.id
             PROVE  app.offered[<<broker.out[i].id, broker.out[i].msg>>[2]] = 2
  BY <1>2 DEF Pairs
<1> QED BY <1>6, <1>7

\* A PUBREL is read, and the lists become those of c.
LEMMA PubrelTaken ==
    ASSUME Shapes, Receives, Shapes', NEW p, Reads("PUBREL", p), NEW c \in Clients,
           (Transmit(Ack("PUBCOMP", p.id), c) /\ toClient' = Tail(toClient)) \/ Silent(c),
           c.inb \subseteq client.inb, Ids(c.inb) = Ids(client.inb) \ {p.id},
           Got(c.inb, c.queue, app.arrived) = Got(client.inb, client.queue, app.arrived),
           Once(c.inb, c.queue, app.arrived, app.offered),
           mode' = mode, alive' = alive, broker' = broker, app' = app
    PROVE  Receives'
<1>1. "PUBCOMP" \in {"PUBACK", "PUBREC", "PUBCOMP"}
  OBVIOUS
<1>2. /\ client' = c /\ up' = up /\ Served /\ Served' /\ Live(Inward)
      /\ 1 \in DOMAIN Inward.wire /\ Inward.wire[1] = p
      /\ Inward'.flows = Inward.flows /\ Inward'.rel = Inward.rel /\ Inward'.end = Inward.end
      /\ Inward'.pub = Inward.pub /\ Inward'.stage = Inward.stage
      /\ Inward'.held = Ids(c.inb) /\ Inward'.got = Got(c.inb, c.queue, app.arrived)
      /\ ForthFrom(Inward'.wire, Inward.wire, 1)
      /\ DOMAIN Inward'.wire \subseteq Nat \ {0} /\ DOMAIN Inward'.back \subseteq Nat
      /\ Answered(Inward, Inward', p.id, "PUBCOMP")
  BY <1>1, TakenIn
<1>3. /\ Inward.pub = app.offered /\ Inward'.held = Inward.held \ {p.id}
      /\ Inward'.got = Inward.got /\ p.type = "PUBREL"
  BY <1>2, ReadsFacts, InwardFields
<1>4. \A f \in Inward.flows : f[1] = p.id => Inward.pub[f[2]] = 2
  BY <1>2, <1>3, PubrelEnds
<1>5. \A m \in DOMAIN Inward.pub : Inward.pub[m] \in {1, 2}
  <2>1. app.offered \in Seq(Qos)
    BY DEF Shapes, Apps
  <2>2. \A m \in DOMAIN app.offered : app.offered[m] \in Qos
    BY <2>1, ElementOfSeq, LenProperties
  <2> QED BY <1>3, <2>2, QosAreSmall
<1>6. Sound(Inward)
  BY DEF Receives
<1>7. Inbox'
  BY <1>2 DEF Receives, Inbox
<1> HIDE DEF Inward
<1>8. Sound(Inward')
  BY <1>2, <1>3, <1>4, <1>5, <1>6, PubrelRead
<1> QED BY <1>2, <1>7, <1>8 DEF Receives

\* A PUBREL is taken: the message goes from the inbound list to the queue.
LEMMA PubrelsReceive ==
    ASSUME IInv, Receives, Shapes', HandlePubrels
    PROVE  Receives'
<1>1. Shapes /\ client \in Clients
  BY DEF IInv, Shapes
<1>2. PICK p : /\ Reads("PUBREL", p)
               /\ \/ \E e \in Inbound(p.id) :
                       IF held # <<>> THEN Answer(Ack("PUBCOMP", p.id), client)
                       ELSE Answer(Ack("PUBCOMP", p.id), Queued([client EXCEPT !.inb = @ \ {e}], e.msg))
                  \/ Inbound(p.id) = {} /\ Answer(Ack("PUBCOMP", p.id), client)
                  \/ Inbound(p.id) = {} /\ Silent(client)
  BY DEF HandlePubrels
<1>3. mode' = mode /\ alive' = alive /\ broker' = broker /\ app' = app
  BY DEF HandlePubrels
<1>4. p.id \in Nat /\ up /\ Served
  BY <1>1, <1>2, ReadsFacts DEF Served
<1>5. CASE held # <<>> /\ Answer(Ack("PUBCOMP", p.id), client)
  BY <1>1, <1>3, <1>5, StoppedReceives
<1>6. CASE Inbound(p.id) = {} /\ ((held = <<>> /\ Answer(Ack("PUBCOMP", p.id), client)) \/ Silent(client))
  <2>1. (Transmit(Ack("PUBCOMP", p.id), client) /\ toClient' = Tail(toClient)) \/ Silent(client)
    BY <1>6 DEF Answer
  <2>2. Ids(client.inb) = Ids(client.inb) \ {p.id}
    BY <1>6 DEF Inbound, Ids
  <2>3. Once(client.inb, client.queue, app.arrived, app.offered) /\ client.inb \subseteq client.inb
    BY DEF Receives
  <2> QED BY <1>1, <1>2, <1>3, <2>1, <2>2, <2>3, PubrelTaken
<1>7. ASSUME NEW e \in Inbound(p.id), held = <<>>,
             Answer(Ack("PUBCOMP", p.id), Queued([client EXCEPT !.inb = @ \ {e}], e.msg))
      PROVE  Receives'
  <2> DEFINE rest == client.inb \ {e}
             d == [client EXCEPT !.inb = rest]
             c == Queued(d, e.msg)
             q == Append(client.queue, [msg |-> e.msg, seq |-> client.seqno + 1])
  <2>1. e \in client.inb /\ e.id = p.id /\ client.inb \in SUBSET [id : Nat, msg : Nat]
    BY <1>1 DEF Inbound, Clients
  <2>2. e.msg \in Nat /\ rest \in SUBSET [id : Nat, msg : Nat]
    BY <2>1
  <2> HIDE DEF rest
  <2>3. d \in Clients /\ d.inb = rest /\ d.queue = client.queue /\ d.seqno = client.seqno
    BY <1>1, <2>2 DEF Clients
  <2>4. Transmit(Ack("PUBCOMP", p.id), c) /\ toClient' = Tail(toClient)
    BY <1>7 DEF Answer, rest
  <2> HIDE DEF d
  <2>5. c \in Clients /\ c.inb = rest /\ c.queue = q
    BY <2>2, <2>3, QueuedIsAClient
  <2> HIDE DEF c
  <2>6. \A x \in rest : x \in client.inb /\ x.id # p.id /\ x.msg # e.msg
    <3> SUFFICES ASSUME NEW x \in rest, x.id = p.id \/ x.msg = e.msg PROVE FALSE
      BY DEF rest
    <3>1. x \in client.inb /\ x # e
      BY DEF rest
    <3>2. <<x.id, x.msg>> \in Inward.flows /\ <<x.id, x.msg>>[1] = x.id /\ <<x.id, x.msg>>[2] = x.msg
      BY <1>4, <3>1, InboxFacts
    <3>3. <<x.id, x.msg>> = <<e.id, e.msg>>
      BY <1>4, <2>1, <3>2, InboxFacts
    <3>4. x.id = e.id /\ x.msg = e.msg
      BY <3>3
    <3> QED BY <2>1, <3>1, <3>4
  <2>7. rest \subseteq client.inb /\ (\A x \in client.inb : x \in rest \/ x = e)
    BY DEF rest
  <2>8. /\ Once(rest, q, app.arrived, app.offered)
        /\ Waiting(q) = Waiting(client.queue) \cup {e.msg}
    <3>1. /\ Once(client.inb, client.queue, app.arrived, app.offered)
          /\ app.offered[e.msg] = 2 =>
              e.msg \notin Waiting(client.queue) /\ e.msg \notin ToSet(app.arrived)
          /\ \A x \in rest : x.msg # e.msg
      BY <2>1, <2>6 DEF Receives, Once
    <3> QED BY <1>1, <2>2, <2>7, <3>1, QueueGrows
  <2> HIDE DEF q
  <2>9. Ids(rest) = Ids(client.inb) \ {p.id}
    BY <2>1, <2>6, <2>7 DEF Ids
  <2>10. Got(rest, q, app.arrived) = Got(client.inb, client.queue, app.arrived)
    <3>1. Msgs(client.inb) = Msgs(rest) \cup {e.msg}
      BY <2>1, <2>7 DEF Msgs
    <3> QED BY <2>8, <3>1 DEF Got
  <2> HIDE DEF rest
  <2> QED BY <1>1, <1>2, <1>3, <2>4, <2>5, <2>7, <2>8, <2>9, <2>10, PubrelTaken
<1> QED BY <1>2, <1>5, <1>6, <1>7

\* MQTTClient_run hands a message over, or the application refuses it.
LEMMA DeliverReceives ==
    ASSUME IInv, Receives, Shapes', Deliver
    PROVE  Receives'
<1>1. Shapes /\ client \in Clients /\ app \in Apps /\ client.queue # <<>> /\ 0 \in Nat
  BY DEF IInv, Shapes, Nothing, Deliver
<1>2. /\ mode' = mode /\ alive' = alive /\ up' = up /\ broker' = broker
      /\ held' = held /\ toBroker' = toBroker /\ toClient' = toClient
  BY DEF Deliver
<1>3. /\ BackFrom(toBroker' \o held', toBroker \o held, 0)
      /\ ForthFrom(toClient', toClient, 0)
  BY <1>1, <1>2, SameAnswers, SameForth
<1>4. CASE UNCHANGED <<client, todo, app>>
  BY <1>1, <1>2, <1>3, <1>4, ReceivesFrame
<1>5. CASE /\ app' = [app EXCEPT !.arrived = Append(@, Head(client.queue).msg)]
           /\ client' = [client EXCEPT !.queue = Tail(@)]
  <2> DEFINE S == [msg : Nat, seq : Nat]
  <2>1. /\ app'.offered = app.offered /\ app'.arrived = Append(app.arrived, Head(client.queue).msg)
        /\ client'.inb = client.inb /\ client'.queue = Tail(client.queue)
    BY <1>1, <1>5 DEF Clients, Apps
  <2>2. client.queue \in Seq(S) /\ app.arrived \in Seq(Nat)
    BY <1>1 DEF Clients, Apps
  <2>3. Head(client.queue) \in S
    BY <1>1, <2>2, TailFacts
  <2>4. Head(client.queue).msg \in Nat
    BY <2>3
  <2> HIDE DEF S
  <2>5. Once(client.inb, client.queue, app.arrived, app.offered)
    BY DEF Receives
  <2>6. /\ Once(client.inb, Tail(client.queue), Append(app.arrived, Head(client.queue).msg), app.offered)
        /\ Waiting(Tail(client.queue)) \cup ToSet(Append(app.arrived, Head(client.queue).msg))
              = Waiting(client.queue) \cup ToSet(app.arrived)
    BY <1>1, <2>2, <2>4, <2>5, OnceDelivered
  <2>7. Once(client'.inb, client'.queue, app'.arrived, app'.offered)
    BY <2>1, <2>6
  <2>8. Got(client'.inb, client'.queue, app'.arrived) = Got(client.inb, client.queue, app.arrived)
    BY <2>1, <2>6 DEF Got
  <2>9. Sound(Inward)'
    BY <1>1, <1>2, <1>3, <2>1, <2>8, InwardFrame DEF Receives
  <2>10. Inbox'
    <3>1. Served' <=> Served
      BY <1>2 DEF Served, Persistent
    <3>2. Served
      BY <1>1 DEF Receives, Inbox
    <3> QED BY <1>2, <2>1, <3>1, <3>2 DEF Receives, Inbox
  <2> QED BY <1>2, <2>7, <2>9, <2>10 DEF Receives
<1> QED BY <1>4, <1>5 DEF Deliver

-----------------------------------------------------------------------------
(* The connection is made again. *)

\* A sequence without places.
LEMMA NoPlaces ==
    ASSUME NEW S, NEW s \in Seq(S), DOMAIN s = {}
    PROVE  s = <<>>
<1>1. Len(s) \in Nat /\ DOMAIN s = 1..Len(s)
  BY LenProperties
<1>2. Len(s) = 0
  BY <1>1
<1> QED BY <1>2, EmptySeq

\* What the broker repeats fits its entry.
LEMMA BrokerRepeats ==
    ASSUME NEW o \in Seq(Entries), NEW pub, OffersFit(o, pub), NEW i \in DOMAIN o, NEW p,
           p = BrokerRetry(o[i]), relDup \in BOOLEAN
    PROVE  /\ p.id = o[i].id
           /\ \/ /\ p.type = "PUBLISH" /\ <<p.id, p.msg>> \in Pairs(o)
                 /\ p.id \notin Freed(o) /\ p.qos = pub[p.msg]
              \/ /\ p.type = "PUBREL" /\ p.id \in Freed(o)
                 /\ \E f \in Pairs(o) : f[1] = p.id
<1>1. CASE o[i].next = "PUBCOMP"
  <2>1. p = [Ack("PUBREL", o[i].id) EXCEPT !.dup = relDup]
    BY <1>1 DEF BrokerRetry
  <2>2. p.id = o[i].id /\ p.type = "PUBREL"
    BY <2>1 DEF Ack, Packet
  <2>3. o[i].id \in Freed(o)
    BY <1>1 DEF Freed
  <2>4. <<o[i].id, o[i].msg>> \in Pairs(o) /\ <<o[i].id, o[i].msg>>[1] = o[i].id
    BY DEF Pairs
  <2>5. \E f \in Pairs(o) : f[1] = p.id
    BY <2>2, <2>4
  <2> QED BY <2>2, <2>3, <2>5
<1>2. CASE o[i].next # "PUBCOMP"
  <2>1. p = Packet("PUBLISH", o[i].id, o[i].qos, o[i].msg, TRUE)
    BY <1>2 DEF BrokerRetry
  <2>2. p.id = o[i].id /\ p.type = "PUBLISH" /\ p.msg = o[i].msg /\ p.qos = o[i].qos
    BY <2>1 DEF Packet
  <2>3. <<p.id, p.msg>> \in Pairs(o)
    BY <2>2 DEF Pairs
  <2>4. p.id \notin Freed(o) /\ p.qos = pub[p.msg]
    BY <1>2, <2>2 DEF OffersFit, Freed
  <2> QED BY <2>2, <2>3, <2>4
<1> QED BY <1>1, <1>2

\* The client connects.
LEMMA ConnectReceives ==
    ASSUME IInv, Receives, Shapes', Connect
    PROVE  Receives'
<1>1. Shapes /\ Nothing /\ client \in Clients /\ broker.out \in Seq(Entries) /\ relDup \in BOOLEAN
  BY DEF IInv, Shapes
<1>2. /\ alive /\ ~up /\ held = <<>> /\ mode' = mode /\ alive' = alive /\ app' = app
      /\ broker' = IF mode = "clean" THEN NoSession ELSE broker
  BY <1>1 DEF Connect, Nothing
<1>3. /\ \A i \in DOMAIN (toBroker' \o held') :
            i \in DOMAIN Closed(client).out
            /\ (toBroker' \o held')[i] = Retry(Closed(client).out[i])
  BY <1>1, Repeated
<1>4. \A i \in DOMAIN toClient' : i \in DOMAIN broker'.out /\ toClient'[i] = BrokerRetry(broker'.out[i])
  BY NoOps DEF Connect, Close
<1>5. toClient' \in Seq(Packets) /\ toBroker' \in Seq(Packets) /\ held' \in Seq(Packets)
  BY DEF Shapes
<1>6. CASE mode = "clean"
  <2>1. Closed(client).out = <<>> /\ Closed(client).inb = {} /\ Closed(client).queue = <<>>
        /\ DOMAIN Closed(client).out = {}
    BY <1>1, <1>6, ClosedIsAClient, NoOps
  <2>2. client' = Closed(client)
    BY <1>6, <2>1 DEF Connect
  <2>3. broker'.out = <<>>
    BY <1>2, <1>6 DEF NoSession
  <2>4. DOMAIN toClient' = {} /\ DOMAIN (toBroker' \o held') = {}
    BY <1>3, <1>4, <2>1, <2>3, NoOps
  <2>5. toClient' = <<>>
    BY <1>5, <2>4, NoPlaces
  <2>6. toBroker' \o held' \in Seq(Packets)
    BY <1>5, CatFacts
  <2>7. toBroker' \o held' = <<>>
    BY <2>4, <2>6, NoPlaces
  <2> QED BY <1>2, <1>6, <2>1, <2>2, <2>3, <2>5, <2>7, CleanReceives
<1>7. CASE mode # "clean"
  <2>1. Closed(client) = client /\ broker' = broker /\ Persistent /\ Persistent' /\ Served /\ Served'
    BY <1>1, <1>2, <1>7, ClosedIsAClient, ModesAssumption DEF Shapes, Persistent, Served
  <2>2. client' = client
    BY <2>1 DEF Connect, Close
  <2>3. \A i \in DOMAIN (toBroker' \o held') : ~Back((toBroker' \o held')[i])
    <3>1. \A e : Retry(e).type \in {"PUBREL", "PUBLISH"}
      BY DEF Retry, Ack, Packet
    <3> QED BY <1>3, <3>1 DEF Back
  <2>4. /\ Inward'.flows = Inward.flows /\ Inward'.rel = Inward.rel /\ Inward'.end = Inward.end
        /\ Inward.end = {} /\ Inward'.held = Inward.held /\ Inward'.pub = Inward.pub
        /\ Inward'.got = Inward.got /\ Inward'.stage = Inward.stage /\ Live(Inward)
        /\ Inward'.back = toBroker' \o held' /\ Inward'.wire = toClient'
        /\ Inward.flows = Pairs(broker.out) /\ Inward.rel = Freed(broker.out)
        /\ Inward.pub = app.offered
    BY <1>2, <2>1, <2>2, InwardFields, InwardFieldsNext
  <2>5. OffersFit(broker.out, app.offered) /\ Sound(Inward)
    BY <2>1 DEF Receives, Inbox
  <2>6. Inbox'
    BY <1>2, <2>1, <2>2 DEF Receives, Inbox
  <2> HIDE DEF Inward
  <2>7. \A i \in DOMAIN Inward'.wire :
           /\ i \in DOMAIN broker.out /\ Inward'.wire[i].id = broker.out[i].id
           /\ \/ /\ Inward'.wire[i].type = "PUBLISH"
                 /\ <<Inward'.wire[i].id, Inward'.wire[i].msg>> \in Inward.flows
                 /\ Inward'.wire[i].id \notin Inward.rel
                 /\ Inward'.wire[i].qos = Inward.pub[Inward'.wire[i].msg]
              \/ /\ Inward'.wire[i].type = "PUBREL" /\ Inward'.wire[i].id \in Inward.rel
                 /\ \E f \in Inward.flows : f[1] = Inward'.wire[i].id
    BY <1>1, <1>4, <2>1, <2>4, <2>5, BrokerRepeats
  <2>8. \A i, j \in DOMAIN Inward'.wire : Inward'.wire[i].id = Inward'.wire[j].id => i = j
    BY <2>5, <2>7 DEF OffersFit
  <2>9. \A j \in DOMAIN Inward'.back : ~Back(Inward'.back[j])
    BY <2>3, <2>4
  <2>10. Sound(Inward')
    BY <2>4, <2>5, <2>7, <2>8, <2>9, Resent
  <2> QED BY <1>2, <2>2, <2>6, <2>10 DEF Receives
<1> QED BY <1>6, <1>7

-----------------------------------------------------------------------------
(* The broker's steps. *)

\* Accepted, the PUBLISH being sent or not.
LEMMA AcceptedPerhaps ==
    ASSUME NEW s, NEW t, Sound(s), Live(s),
           NEW n \in Nat, NEW m, NEW k \in Nat, NEW p, k \notin DOMAIN s.wire,
           DOMAIN t.wire \subseteq Nat, DOMAIN t.back \subseteq Nat,
           \A f \in s.flows : f[1] # n, n \notin s.rel, n \notin s.end, m \notin DOMAIN s.pub,
           DOMAIN t.pub = DOMAIN s.pub \cup {m}, \A x \in DOMAIN s.pub : t.pub[x] = s.pub[x],
           t.flows = s.flows \cup {<<n, m>>},
           Added(t.wire, s.wire, k, p) \/ ForthFrom(t.wire, s.wire, 0),
           p.type = "PUBLISH", p.id = n, p.msg = m, p.qos = t.pub[m],
           t.back = s.back, t.rel = s.rel, t.end = s.end, t.held = s.held,
           t.got = s.got, t.stage = s.stage
    PROVE  Sound(t)
<1>1. CASE Added(t.wire, s.wire, k, p)
  BY <1>1, Accepted
<1>2. CASE ForthFrom(t.wire, s.wire, 0)
  <2> DEFINE w == [i \in DOMAIN s.wire \cup {k} |-> IF i = k THEN p ELSE s.wire[i]]
             u == [flows |-> t.flows, rel |-> t.rel, end |-> t.end, held |-> t.held,
                   wire |-> w, back |-> t.back, pub |-> t.pub, got |-> t.got, stage |-> t.stage]
  <2>1. Added(w, s.wire, k, p)
    BY DEF Added
  <2>2. ForthFrom(t.wire, w, 0)
    <3> SUFFICES ASSUME NEW i \in DOMAIN t.wire, Forth(t.wire[i])
                 PROVE  i + 0 \in DOMAIN w /\ t.wire[i] = w[i + 0]
      BY DEF ForthFrom
    <3>1. i + 0 \in DOMAIN s.wire /\ t.wire[i] = s.wire[i + 0]
      BY <1>2 DEF ForthFrom
    <3> QED BY <3>1
  <2> HIDE DEF w
  <2>3. /\ u.flows = t.flows /\ u.rel = t.rel /\ u.end = t.end /\ u.held = t.held
        /\ u.wire = w /\ u.back = t.back /\ u.pub = t.pub /\ u.got = t.got /\ u.stage = t.stage
    OBVIOUS
  <2> HIDE DEF u
  <2>4. Sound(u)
    BY <2>1, <2>3, Accepted
  <2>5. BackFrom(t.back, u.back, 0)
    <3>1. \A i \in DOMAIN t.back : i + 0 = i
      OBVIOUS
    <3> QED BY <2>3, <3>1 DEF BackFrom
  <2>6. 0 \in Nat /\ ForthFrom(t.wire, u.wire, 0)
    BY <2>2, <2>3
  <2> QED BY <2>3, <2>4, <2>5, <2>6, Unseen
<1> QED BY <1>1, <1>2

\* A message is published to the client.
LEMMA BrokerPublishesReceives ==
    ASSUME IInv, Receives, Shapes', NEW q \in Qos, BrokerPublishes(q)
    PROVE  Receives'
<1> DEFINE m == Len(app.offered) + 1
<1>1. Shapes
  BY DEF IInv
<1>2. PICK n \in Nat :
              LET e == Entry(n, q, m)
                  p == Packet("PUBLISH", n, q, m, FALSE)
              IN  /\ \A i \in DOMAIN broker.out : broker.out[i].id # n
                  /\ e \in Entries /\ p \in Packets
                  /\ broker' = [broker EXCEPT !.out = Append(@, e)]
                  /\ Reply(p)
  BY <1>1, BrokerPublishesFacts
<1> DEFINE e == Entry(n, q, m)
           p == Packet("PUBLISH", n, q, m, FALSE)
<1>3. /\ \A i \in DOMAIN broker.out : broker.out[i].id # n
      /\ e \in Entries /\ p \in Packets /\ Reply(p)
      /\ broker' = [broker EXCEPT !.out = Append(@, e)]
  BY <1>2
<1>4. p.type = "PUBLISH" /\ p.id = n /\ p.qos = q /\ p.msg = m
  BY DEF Packet
<1>5. app.offered \in Seq(Qos) /\ m \in Nat /\ broker.out \in Seq(Entries) /\ toClient \in Seq(Packets)
  BY <1>1, LenProperties DEF Shapes, Apps
<1>6. e.id = n /\ e.qos = q /\ e.msg = m /\ e.next # "PUBCOMP"
  <2> HIDE DEF m
  <2>1. Entry(n, q, m).next = IF q = 2 THEN "PUBREC" ELSE "PUBACK"
    BY DEF Entry
  <2> QED BY <2>1 DEF Entry
<1>7. /\ mode' = mode /\ alive' = alive /\ up' = up /\ client' = client /\ held' = held
      /\ toBroker' = toBroker /\ (up \/ Persistent)
      /\ app' = [app EXCEPT !.offered = Append(@, q)]
  BY DEF BrokerPublishes, Persistent
<1>8. app'.offered = Append(app.offered, q) /\ app'.arrived = app.arrived
      /\ broker'.out = Append(broker.out, e)
  <2> HIDE DEF e
  <2> QED BY <1>1, <1>3, <1>7 DEF Shapes, Apps
<1>9. /\ DOMAIN app'.offered = DOMAIN app.offered \cup {m} /\ m \notin DOMAIN app.offered
      /\ app'.offered[m] = q /\ \A x \in DOMAIN app.offered : app'.offered[x] = app.offered[x]
  BY <1>5, <1>8, AppendFacts DEF Added
<1> HIDE DEF e, p, m
<1>10. Served /\ Served' /\ (Persistent' <=> Persistent)
  BY <1>7 DEF Served, Persistent
<1>11. OffersFit(broker.out, app.offered) /\ Sound(Inward)
       /\ Once(client.inb, client.queue, app.arrived, app.offered)
       /\ \A x \in client.inb : <<x.id, x.msg>> \in Pairs(broker.out)
  BY <1>10 DEF Receives, Inbox
<1>12. /\ OffersFit(broker'.out, app'.offered)
       /\ Pairs(broker'.out) = Pairs(broker.out) \cup {<<n, m>>}
       /\ Freed(broker'.out) = Freed(broker.out)
  <2>1. /\ \A i \in DOMAIN broker.out : broker.out[i].id # e.id
        /\ \A x \in DOMAIN app.offered : x \in DOMAIN app'.offered /\ app'.offered[x] = app.offered[x]
        /\ e.msg \in DOMAIN app'.offered /\ e.qos = app'.offered[e.msg]
    BY <1>3, <1>6, <1>9
  <2> QED BY <1>3, <1>5, <1>6, <1>8, <1>11, <2>1, OfferAdded
<1>13. Inbox'
  BY <1>7, <1>10, <1>11, <1>12 DEF Inbox
<1>14. /\ Inward.flows = Pairs(broker.out) /\ Inward.rel = Freed(broker.out) /\ Inward.end = {}
       /\ Inward.pub = app.offered /\ Inward.wire = toClient /\ Live(Inward)
       /\ Inward.got = Got(client.inb, client.queue, app.arrived)
       /\ Inward'.flows = Pairs(broker'.out) /\ Inward'.rel = Inward.rel /\ Inward'.end = Inward.end
       /\ Inward'.held = Inward.held /\ Inward'.pub = app'.offered /\ Inward'.wire = toClient'
       /\ Inward'.back = Inward.back /\ Inward'.got = Inward.got /\ Inward'.stage = Inward.stage
  <2>1. /\ Inward'.flows = Pairs(broker'.out) /\ Inward'.rel = Freed(broker.out)
        /\ Inward'.end = {} /\ Inward'.pub = app'.offered /\ Inward'.wire = toClient'
    BY <1>10, <1>12, InwardFieldsNext
  <2>2. /\ Inward'.held = Ids(client.inb) /\ Inward'.back = toBroker \o held
        /\ Inward'.got = Got(client.inb, client.queue, app.arrived)
        /\ Inward'.stage = IF Persistent THEN "kept" ELSE IF up THEN "lasts" ELSE "past"
    BY <1>7, <1>8, <1>10, InwardFieldsNext
  <2> QED BY <1>10, <2>1, <2>2, InwardFields
<1>15. Once(client'.inb, client'.queue, app'.arrived, app'.offered)
  <2>1. Got(client.inb, client.queue, app.arrived) \subseteq DOMAIN app.offered
    <3> HIDE DEF Inward
    <3> QED BY <1>11, <1>14 DEF Sound, FlowsOK
  <2>2. Once(client.inb, client.queue, app.arrived, app'.offered)
    BY <1>9, <1>11, <2>1, OnceLess
  <2> QED BY <1>7, <1>8, <2>2
<1>16. /\ \A f \in Inward.flows : f[1] # n
       /\ n \notin Inward.rel
  <2>1. \A i \in DOMAIN broker.out : <<broker.out[i].id, broker.out[i].msg>>[1] # n
    BY <1>3
  <2>2. \A f \in Pairs(broker.out) : f[1] # n
    BY <2>1 DEF Pairs
  <2>3. n \notin Freed(broker.out)
    BY <1>3 DEF Freed
  <2> QED BY <1>14, <2>2, <2>3
<1>17. /\ Added(toClient', toClient, Len(toClient) + 1, p) \/ ForthFrom(toClient', toClient, 0)
       /\ Len(toClient) + 1 \in Nat /\ Len(toClient) + 1 \notin DOMAIN toClient
  <2>1. Added(Append(toClient, p), toClient, Len(toClient) + 1, p) /\ Len(toClient) \in Nat
    BY <1>3, <1>5, AppendFacts, LenProperties
  <2>2. toClient' = toClient => ForthFrom(toClient', toClient, 0)
    BY <1>1, SameForth
  <2>3. toClient' = toClient \/ toClient' = Append(toClient, p)
    BY <1>3 DEF Reply
  <2>4. Len(toClient) + 1 \in Nat /\ Len(toClient) + 1 \notin DOMAIN toClient
    BY <2>1 DEF Added
  <2> QED BY <2>1, <2>2, <2>3, <2>4
<1>18. DOMAIN Inward'.wire \subseteq Nat /\ DOMAIN Inward'.back \subseteq Nat
  BY InwardPlaces
<1> DEFINE k == Len(toClient) + 1
<1> HIDE DEF Inward, k
<1>19. k \in Nat /\ k \notin DOMAIN Inward.wire
       /\ (Added(Inward'.wire, Inward.wire, k, p) \/ ForthFrom(Inward'.wire, Inward.wire, 0))
  BY <1>14, <1>17 DEF k
<1>20. /\ m \notin DOMAIN Inward.pub /\ DOMAIN Inward'.pub = DOMAIN Inward.pub \cup {m}
       /\ \A x \in DOMAIN Inward.pub : Inward'.pub[x] = Inward.pub[x]
       /\ Inward'.flows = Inward.flows \cup {<<n, m>>} /\ n \notin Inward.end
       /\ p.qos = Inward'.pub[m]
  BY <1>4, <1>9, <1>12, <1>14
<1>21. Sound(Inward')
  BY <1>4, <1>11, <1>14, <1>16, <1>18, <1>19, <1>20, AcceptedPerhaps
<1> QED BY <1>7, <1>13, <1>15, <1>21 DEF Receives

\* The answer the broker reads: nothing else of its flow travels.
LEMMA FirstAnswer ==
    ASSUME NEW s, Sound(s), 1 \in DOMAIN s.back, NEW p, p = s.back[1], Back(p),
           NEW back, DOMAIN back \subseteq Nat \ {0}, BackFrom(back, s.back, 1)
    PROVE  /\ AnswerOK(s, p)
           /\ \A i \in DOMAIN s.wire : Forth(s.wire[i]) => s.wire[i].id # p.id
           /\ \A j \in DOMAIN back : Back(back[j]) => back[j].id # p.id
<1>1. AnswerOK(s, p)
  BY DEF Sound, BackOK
<1>2. \A i \in DOMAIN s.wire : Forth(s.wire[i]) => s.wire[i].id # p.id
  BY DEF Sound, AloneOK
<1>3. ASSUME NEW j \in DOMAIN back, Back(back[j]), back[j].id = p.id
      PROVE  FALSE
  <2>1. j \in Nat \ {0} /\ j + 1 \in DOMAIN s.back /\ back[j] = s.back[j + 1]
    BY <1>3 DEF BackFrom
  <2>2. j + 1 = 1
    BY <1>3, <2>1 DEF Sound, AloneOK
  <2> QED BY <2>1, <2>2
<1> QED BY <1>1, <1>2, <1>3

\* A packet of the client's own flows.
LEMMA OtherReadReceives ==
    ASSUME IInv, Receives, Shapes', BrokerReads, Head(toBroker).type \in {"PUBLISH", "PUBREL"}
    PROVE  Receives'
<1> DEFINE p == Head(toBroker)
<1>1. Shapes /\ Sound(View) /\ 0 \in Nat /\ 1 \in Nat
  BY DEF IInv
<1>2. /\ mode' = mode /\ alive' = alive /\ up' = up /\ client' = client /\ held' = held
      /\ toBroker # <<>> /\ toBroker' = Tail(toBroker)
  BY DEF BrokerReads
<1>3. p \in Packets /\ p.id \in Nat /\ (ReadPublish1(p) \/ ReadPublish2(p) \/ ReadPubrel(p))
  <2>1. p.type = "PUBLISH" => p.qos \in {1, 2}
    BY <1>1, <1>2, FirstIsPublished
  <2>2. p \in Packets /\ (ReadPublish1(p) \/ ReadPublish2(p) \/ ReadPubrel(p) \/ ReadAck(p))
    BY <1>1, <2>1, BrokerReadsFacts
  <2>3. p.id \in Nat
    BY <2>2 DEF Packets
  <2> QED BY <2>2, <2>3 DEF ReadAck
<1> HIDE DEF p
<1>4. broker'.out = broker.out /\ app'.offered = app.offered /\ app'.arrived = app.arrived
  BY <1>1, <1>3 DEF ReadPublish1, ReadPublish2, ReadPubrel, Shapes, Apps
<1>5. PICK t \in {"PUBACK", "PUBREC", "PUBCOMP"} : Reply(Ack(t, p.id))
  BY <1>3 DEF ReadPublish1, ReadPublish2, ReadPubrel
<1>6. Ack(t, p.id) \in Packets /\ ~Forth(Ack(t, p.id))
  BY <1>3, AcksAreNotForth
<1>7. ForthFrom(toClient', toClient, 0)
  BY <1>1, <1>5, <1>6, OtherForth
<1>8. BackFrom(toBroker' \o held', toBroker \o held, 1)
  BY <1>1, <1>2, WireMinusOne DEF Shapes
<1> QED BY <1>1, <1>2, <1>4, <1>7, <1>8, ReceivesFrame

\* A PUBREC: the PUBREL is due.
LEMMA PubrecReadReceives ==
    ASSUME Shapes, Receives, Shapes', Served, NEW n,
           mode' = mode, alive' = alive, up' = up, client' = client,
           app' = app, AnswerOK(Inward, Ack("PUBREC", n)), Ack("PUBREC", n) \in Packets,
           \A i \in DOMAIN toClient : Forth(toClient[i]) => toClient[i].id # n,
           BackFrom(toBroker' \o held', toBroker \o held, 1),
           \A j \in DOMAIN (toBroker' \o held') :
              Back((toBroker' \o held')[j]) => (toBroker' \o held')[j].id # n,
           broker'.out = [i \in DOMAIN broker.out |->
                 IF broker.out[i].id = n THEN [broker.out[i] EXCEPT !.next = "PUBCOMP"] ELSE broker.out[i]],
           Reply(Ack("PUBREL", n))
    PROVE  Receives'
<1>1. Ack("PUBREC", n).id = n /\ Ack("PUBREC", n).type = "PUBREC" /\ n \in Nat
  BY DEF Ack, Packet, Packets
<1>2. Ack("PUBREL", n) \in Packets /\ Ack("PUBREL", n).id = n /\ Ack("PUBREL", n).type = "PUBREL"
  BY <1>1, AckIsAPacket DEF Types
<1>3. Served' /\ (Persistent' <=> Persistent) /\ broker.out \in Seq(Entries) /\ toClient \in Seq(Packets)
  BY DEF Served, Persistent, Shapes
<1>4. /\ Inward.flows = Pairs(broker.out) /\ Inward.rel = Freed(broker.out) /\ Inward.end = {}
      /\ Inward.pub = app.offered /\ Inward.wire = toClient /\ Live(Inward)
      /\ Inward.back = toBroker \o held
      /\ Inward'.wire = toClient' /\ Inward'.back = toBroker' \o held'
      /\ Inward'.end = {} /\ Inward'.held = Inward.held /\ Inward'.pub = Inward.pub
      /\ Inward'.got = Inward.got /\ Inward'.stage = Inward.stage
      /\ Inward'.flows = Pairs(broker'.out) /\ Inward'.rel = Freed(broker'.out)
  BY <1>3, InwardFields, InwardFieldsNext
<1>5. OffersFit(broker.out, app.offered) /\ Sound(Inward)
  BY DEF Receives, Inbox
<1>6. DOMAIN Inward'.wire \subseteq Nat /\ DOMAIN Inward'.back \subseteq Nat
  BY InwardPlaces
<1>7. \/ ForthFrom(toClient', toClient, 0)
      \/ \E k, q : Added(toClient', toClient, k, q) /\ q.type = "PUBREL" /\ q.id = n
  <2>1. CASE up
    <3>1. Added(toClient', toClient, Len(toClient) + 1, Ack("PUBREL", n))
      BY <1>2, <1>3, <2>1, AppendFacts DEF Reply
    <3> QED BY <1>2, <3>1
  <2>2. CASE ~up
    <3>1. toClient' = toClient
      BY <2>2 DEF Reply
    <3> QED BY <3>1, SameForth
  <2> QED BY <2>1, <2>2
<1> HIDE DEF Inward
<1>8. PICK m \in Inward.got : <<n, m>> \in Inward.flows
  BY <1>1 DEF AnswerOK
<1>9. n \in Inward.held
  BY <1>1 DEF AnswerOK
<1>10. PICK m2 \in Inward.got : <<n, m2>> \in Inward.flows /\ app.offered[m2] = 2
  BY <1>4, <1>5, <1>9 DEF Sound, BrokerOK
<1>11. (\E i \in DOMAIN broker.out : broker.out[i].id = n)
       /\ \A i \in DOMAIN broker.out : broker.out[i].id = n => broker.out[i].qos = 2
  <2>1. PICK k \in DOMAIN broker.out : <<n, m2>> = <<broker.out[k].id, broker.out[k].msg>>
    BY <1>4, <1>10 DEF Pairs
  <2>2. broker.out[k].id = n /\ broker.out[k].msg = m2
    BY <2>1
  <2> QED BY <1>5, <1>10, <2>2 DEF OffersFit
<1>12. /\ OffersFit(broker'.out, app.offered) /\ Pairs(broker'.out) = Pairs(broker.out)
       /\ Freed(broker'.out) = Freed(broker.out) \cup {n}
  BY <1>3, <1>5, <1>11, OfferFreed
<1>13. Inbox'
  BY <1>3, <1>12 DEF Receives, Inbox
<1>14. Sound(Inward')
  <2>1. 1 \in Nat
    OBVIOUS
  <2>2. /\ \A i \in DOMAIN Inward.wire : Forth(Inward.wire[i]) => Inward.wire[i].id # n
        /\ \A j \in DOMAIN Inward'.back : Back(Inward'.back[j]) => Inward'.back[j].id # n
        /\ BackFrom(Inward'.back, Inward.back, 1)
    BY <1>4
  <2>3. \/ ForthFrom(Inward'.wire, Inward.wire, 0)
        \/ \E k, q : Added(Inward'.wire, Inward.wire, k, q) /\ q.type = "PUBREL" /\ q.id = n
    BY <1>4, <1>7
  <2>4. Inward'.flows = Inward.flows /\ Inward'.rel = Inward.rel \cup {n}
    BY <1>4, <1>12
  <2> QED BY <1>4, <1>5, <1>6, <1>8, <1>9, <2>1, <2>2, <2>3, <2>4, Released
<1> QED BY <1>13, <1>14 DEF Receives, Inward

\* A PUBACK or a PUBCOMP: the flow is over.
LEMMA EndReadReceives ==
    ASSUME Shapes, Receives, Shapes', Served, NEW p, p.type \in {"PUBACK", "PUBCOMP"},
           mode' = mode, alive' = alive, up' = up, client' = client,
           app' = app, AnswerOK(Inward, p), toClient' = toClient,
           \A i \in DOMAIN toClient : Forth(toClient[i]) => toClient[i].id # p.id,
           BackFrom(toBroker' \o held', toBroker \o held, 1),
           \A j \in DOMAIN (toBroker' \o held') :
              Back((toBroker' \o held')[j]) => (toBroker' \o held')[j].id # p.id,
           \A k \in DOMAIN broker.out :
              {i \in DOMAIN broker.out : broker.out[i].id = p.id} = {k}
                 => broker'.out = RemoveAt(broker.out, k)
    PROVE  Receives'
<1>1. Served' /\ (Persistent' <=> Persistent) /\ broker.out \in Seq(Entries) /\ toClient \in Seq(Packets)
  BY DEF Served, Persistent, Shapes
<1>2. /\ Inward.flows = Pairs(broker.out) /\ Inward.rel = Freed(broker.out) /\ Inward.end = {}
      /\ Inward.pub = app.offered /\ Inward.wire = toClient /\ Live(Inward)
      /\ Inward.back = toBroker \o held /\ Inward.held = Ids(client.inb)
      /\ Inward'.wire = toClient' /\ Inward'.back = toBroker' \o held'
      /\ Inward'.end = {} /\ Inward'.held = Inward.held /\ Inward'.pub = Inward.pub
      /\ Inward'.got = Inward.got /\ Inward'.stage = Inward.stage
      /\ Inward'.flows = Pairs(broker'.out) /\ Inward'.rel = Freed(broker'.out)
  BY <1>1, InwardFields, InwardFieldsNext
<1>3. OffersFit(broker.out, app.offered) /\ Sound(Inward)
      /\ \A e \in client.inb : <<e.id, e.msg>> \in Pairs(broker.out)
  BY DEF Receives, Inbox
<1>4. DOMAIN Inward'.wire \subseteq Nat /\ DOMAIN Inward'.back \subseteq Nat
  BY InwardPlaces
<1>5. ForthFrom(toClient', toClient, 0)
  BY SameForth
<1> HIDE DEF Inward
<1>6. /\ p.id \notin Inward.held
      /\ \A f \in Inward.flows : f[1] = p.id =>
            f[2] \in Inward.got /\ (Inward.pub[f[2]] = 2 => p.id \in Inward.rel)
  BY <1>3, EndsItsFlow
<1>7. PICK m : <<p.id, m>> \in Inward.flows
  BY DEF AnswerOK
<1>8. PICK k \in DOMAIN broker.out : <<p.id, m>> = <<broker.out[k].id, broker.out[k].msg>>
  BY <1>2, <1>7 DEF Pairs
<1>9. broker.out[k].id = p.id
  BY <1>8
<1>10. broker'.out = RemoveAt(broker.out, k)
  <2>1. {i \in DOMAIN broker.out : broker.out[i].id = p.id} = {k}
    BY <1>3, <1>9 DEF OffersFit
  <2> QED BY <2>1
<1>11. /\ OffersFit(broker'.out, app.offered)
       /\ Pairs(broker'.out) \subseteq Pairs(broker.out)
       /\ \A f \in Pairs(broker.out) : f[1] # p.id => f \in Pairs(broker'.out)
       /\ \A f \in Pairs(broker'.out) : f[1] # p.id
       /\ Freed(broker'.out) \subseteq Freed(broker.out)
       /\ \A x \in Freed(broker.out) : x # p.id => x \in Freed(broker'.out)
  <2> DEFINE o == broker.out
  <2>1. /\ OffersFit(RemoveAt(o, k), app.offered)
        /\ Pairs(RemoveAt(o, k)) \subseteq Pairs(o)
        /\ \A f \in Pairs(o) : f[1] # o[k].id => f \in Pairs(RemoveAt(o, k))
        /\ \A f \in Pairs(RemoveAt(o, k)) : f[1] # o[k].id
        /\ Freed(RemoveAt(o, k)) \subseteq Freed(o)
        /\ \A x \in Freed(o) : x # o[k].id => x \in Freed(RemoveAt(o, k))
    BY <1>1, <1>3, OfferGone
  <2> QED BY <1>9, <1>10, <2>1
<1>12. \A e \in client.inb : <<e.id, e.msg>> \in Pairs(broker'.out)
  <2> SUFFICES ASSUME NEW e \in client.inb PROVE <<e.id, e.msg>> \in Pairs(broker'.out)
    OBVIOUS
  <2>1. e.id # p.id /\ <<e.id, e.msg>>[1] = e.id
    BY <1>2, <1>6 DEF Ids
  <2> QED BY <1>3, <1>11, <2>1
<1>13. Inbox'
  BY <1>1, <1>11, <1>12 DEF Receives, Inbox
<1>14. Sound(Inward')
  <2>1. 0 \in Nat /\ 1 \in Nat
    OBVIOUS
  <2>2. /\ \A i \in DOMAIN Inward'.wire : Forth(Inward'.wire[i]) => Inward'.wire[i].id # p.id
        /\ \A j \in DOMAIN Inward'.back : Back(Inward'.back[j]) => Inward'.back[j].id # p.id
        /\ ForthFrom(Inward'.wire, Inward.wire, 0) /\ BackFrom(Inward'.back, Inward.back, 1)
    BY <1>2, <1>5
  <2>3. /\ \A f \in Inward.flows : f[1] = p.id => f[2] \in Inward.got
        /\ Inward'.flows \subseteq Inward.flows
        /\ \A f \in Inward.flows : f[1] # p.id => f \in Inward'.flows
        /\ Inward'.rel \subseteq Inward.rel
        /\ \A x \in Inward.rel : x # p.id => x \in Inward'.rel
        /\ \A f \in Inward'.flows : f[1] = p.id => (Inward.pub[f[2]] = 2 => p.id \in Inward'.rel)
        /\ \A x \in Inward'.end : x # p.id => x \in Inward.end
    BY <1>2, <1>6, <1>11
  <2> QED BY <1>2, <1>3, <1>4, <1>6, <2>1, <2>2, <2>3, Forgotten
<1> QED BY <1>13, <1>14 DEF Receives, Inward

\* The broker reads a packet.
LEMMA BrokerReadsReceives ==
    ASSUME IInv, Receives, Shapes', BrokerReads
    PROVE  Receives'
<1> DEFINE p == Head(toBroker)
           mine == {i \in DOMAIN broker.out : broker.out[i].id = p.id}
<1>1. Shapes /\ Nothing /\ toBroker # <<>> /\ toBroker \in Seq(Packets)
  BY DEF IInv, Shapes, BrokerReads
<1>2. /\ mode' = mode /\ alive' = alive /\ up' = up /\ client' = client /\ held' = held
      /\ toBroker' = Tail(toBroker)
  BY DEF BrokerReads
<1>3. p \in Packets
  BY <1>1, TailFacts
<1>4. p.id \in Nat /\ p.type \in Types
  BY <1>3 DEF Packets
<1>5. CASE p.type \in {"PUBLISH", "PUBREL"}
  BY <1>5, OtherReadReceives
<1>6. CASE p.type \in {"PUBREC", "PUBACK", "PUBCOMP"}
  <2>1. /\ app' = app
        /\ p.type = "PUBREC" =>
              /\ Reply(Ack("PUBREL", p.id))
              /\ broker' = [broker EXCEPT !.out = [i \in DOMAIN @ |->
                   IF i \in mine THEN [@[i] EXCEPT !.next = "PUBCOMP"] ELSE @[i]]]
        /\ p.type # "PUBREC" =>
              /\ toClient' = toClient
              /\ broker' = [broker EXCEPT !.out = IF mine = {} THEN @ ELSE RemoveAt(@, Min(mine))]
    BY <1>6 DEF BrokerReads
  <2>2. /\ p.type = "PUBREC" => broker'.out = [i \in DOMAIN broker.out |->
                 IF broker.out[i].id = p.id THEN [broker.out[i] EXCEPT !.next = "PUBCOMP"]
                 ELSE broker.out[i]]
        /\ p.type # "PUBREC" =>
              broker'.out = IF mine = {} THEN broker.out ELSE RemoveAt(broker.out, Min(mine))
    <3> HIDE DEF p
    <3>1. broker \in [in : SUBSET Nat, out : Seq(Entries)]
      BY <1>1 DEF Shapes
    <3>2. \A i \in DOMAIN broker.out : i \in mine <=> broker.out[i].id = p.id
      OBVIOUS
    <3> HIDE DEF mine
    <3> QED BY <2>1, <3>1, <3>2
  <2>3. CASE Served
    <3>1. /\ BackFrom(toBroker' \o held', toBroker \o held, 1)
          /\ 1 \in DOMAIN (toBroker \o held) /\ (toBroker \o held)[1] = p
          /\ DOMAIN (toBroker' \o held') \subseteq Nat \ {0}
      BY <1>1, <1>2, WireMinusOne DEF Shapes
    <3>2. Inward.back = toBroker \o held /\ Inward.wire = toClient /\ Sound(Inward) /\ Back(p)
      BY <1>6, <2>3, InwardFields DEF Receives, Back
    <3> HIDE DEF p, Inward
    <3>3. /\ AnswerOK(Inward, p)
          /\ \A i \in DOMAIN toClient : Forth(toClient[i]) => toClient[i].id # p.id
          /\ \A j \in DOMAIN (toBroker' \o held') :
              Back((toBroker' \o held')[j]) => (toBroker' \o held')[j].id # p.id
      <4>1. 1 \in DOMAIN Inward.back /\ p = Inward.back[1]
            /\ BackFrom(toBroker' \o held', Inward.back, 1)
        BY <3>1, <3>2
      <4>2. /\ AnswerOK(Inward, p)
            /\ \A i \in DOMAIN Inward.wire : Forth(Inward.wire[i]) => Inward.wire[i].id # p.id
            /\ \A j \in DOMAIN (toBroker' \o held') :
                Back((toBroker' \o held')[j]) => (toBroker' \o held')[j].id # p.id
        BY <3>1, <3>2, <4>1, FirstAnswer
      <4> QED BY <3>2, <4>2
    <3>4. CASE p.type = "PUBREC"
      <4>1. Ack("PUBREC", p.id) \in Packets /\ Ack("PUBREC", p.id).type = "PUBREC"
            /\ Ack("PUBREC", p.id).id = p.id
        BY <1>4, AckIsAPacket DEF Types
      <4>2. AnswerOK(Inward, Ack("PUBREC", p.id))
        BY <3>3, <3>4, <4>1 DEF AnswerOK
      <4> QED BY <1>1, <1>2, <2>1, <2>2, <2>3, <3>1, <3>3, <3>4, <4>1, <4>2, PubrecReadReceives
    <3>5. CASE p.type # "PUBREC"
      <4>1. p.type \in {"PUBACK", "PUBCOMP"}
        BY <1>6, <3>5
      <4>2. ASSUME NEW k \in DOMAIN broker.out, mine = {k}
            PROVE  broker'.out = RemoveAt(broker.out, k)
        <5>1. DOMAIN broker.out \subseteq Nat
          BY <1>1, LenProperties DEF Shapes
        <5>2. {k} \subseteq Nat
          BY <5>1
        <5>3. Min({k}) \in {k}
          BY <5>2, SmallestOf
        <5> QED BY <2>2, <3>5, <4>2, <5>3
      <4> QED BY <1>1, <1>2, <2>1, <2>3, <3>1, <3>3, <3>5, <4>1, <4>2, EndReadReceives
    <3> QED BY <3>4, <3>5
  <2>4. CASE ~Served
    <3>1. mode = "clean" /\ ~up /\ toClient = <<>> /\ client.inb = {} /\ client.queue = <<>>
      BY <1>1, <2>4, ModesAssumption DEF Served, Persistent, Shapes, Nothing, Receives, Inbox
    <3>2. toClient' = <<>>
      BY <1>6, <2>1, <3>1 DEF Reply
    <3> QED BY <1>2, <2>1, <3>1, <3>2, CleanReceives
  <2> QED BY <2>3, <2>4
<1> QED BY <1>4, <1>5, <1>6 DEF Types

-----------------------------------------------------------------------------
(* The invariant. *)

\* Nothing was sent yet.
LEMMA ReceivingStarts == Init => Receiving
<1> SUFFICES ASSUME Init PROVE Receives
  BY DEF Receiving
<1>1. DOMAIN (<<>>) = {}
  BY NoOps
<1>2. /\ alive /\ toClient = <<>> /\ toBroker = <<>> /\ held = <<>> /\ broker.out = <<>>
      /\ app.offered = <<>> /\ app.arrived = <<>>
      /\ client.inb = {} /\ client.queue = <<>>
  <2>1. PICK n \in {0, MaxId - 1} : client = [NoLists EXCEPT !.msgID = n]
    BY DEF Init
  <2>2. client.inb = {} /\ client.queue = <<>>
    BY <2>1 DEF NoLists
  <2> QED BY <2>2 DEF Init, NoSession
<1>3. Pairs(<<>>) = {} /\ Freed(<<>>) = {} /\ Ids({}) = {} /\ Got({}, <<>>, <<>>) = {}
  BY <1>1 DEF Pairs, Freed, Ids, Got, Msgs, Waiting, ToSet
<1>4. DOMAIN (toBroker \o held) = {}
  BY <1>1, <1>2, EmptySeq, ConcatEmptySeq
<1>5. /\ Inward.flows = {} /\ Inward.rel = {} /\ Inward.end = {} /\ Inward.held = {}
      /\ Inward.got \subseteq DOMAIN Inward.pub
      /\ DOMAIN Inward.wire = {} /\ DOMAIN Inward.back = {} /\ DOMAIN Inward.pub = {}
  BY <1>1, <1>2, <1>3, <1>4, InwardFields
<1>6. Inbox
  BY <1>1, <1>2 DEF Inbox, OffersFit
<1>7. Once(client.inb, client.queue, app.arrived, app.offered)
  BY <1>1, <1>2 DEF Once, Waiting, ToSet
<1> HIDE DEF Inward
<1>8. Sound(Inward)
  BY <1>5, NothingTravels
<1> QED BY <1>2, <1>6, <1>7, <1>8 DEF Receives

\* Only a kill is counted.
LEMMA CrashesCounted ==
    ASSUME IInv, [Next]_vars
    PROVE  \/ Crash
           \/ app'.crashes = app.crashes
<1>1. app \in Apps /\ Shapes /\ Sound(View)
  BY DEF Shapes, IInv
<1>2. ASSUME NEW q \in Qos, Publish(q) \/ BrokerPublishes(q)
      PROVE  app'.crashes = app.crashes
  BY <1>1, <1>2 DEF Publish, BrokerPublishes, Apps
<1>3. CASE Handle \/ FindReady \/ DiskStep \/ ContinueWrite
  BY <1>3 DEF Handle, HandlePublishes, HandlePubacks, HandlePubrecs, HandlePubrels, HandlePubcomps,
              HandlePingresps, FindReady, DiskStep, ContinueWrite
<1>4. CASE Drop \/ Create \/ Connect \/ UNCHANGED vars
  BY <1>4 DEF Drop, Create, Connect, vars
<1>5. CASE Deliver
  BY <1>1, <1>5 DEF Deliver, Apps
<1>6. CASE BrokerReads
  <2> DEFINE p == Head(toBroker)
  <2>1. p.type = "PUBLISH" => p.qos \in {1, 2}
    BY <1>1, <1>6, FirstIsPublished DEF BrokerReads
  <2>2. ReadPublish1(p) \/ ReadPublish2(p) \/ ReadPubrel(p) \/ ReadAck(p)
    BY <1>1, <1>6, <2>1, BrokerReadsFacts
  <2> HIDE DEF p
  <2> QED BY <1>1, <2>2 DEF ReadPublish1, ReadPublish2, ReadPubrel, ReadAck, Apps
<1> QED BY <1>2, <1>3, <1>4, <1>5, <1>6 DEF Next

\* Every step keeps it.
LEMMA StepKeepsReceiving == IInv /\ IInv' /\ Receiving /\ [Next]_vars => Receiving'
<1> SUFFICES ASSUME IInv, IInv', Receiving, [Next]_vars, app'.crashes = 0
             PROVE  Receives'
  BY DEF Receiving
<1>1. Shapes /\ Shapes'
  BY DEF IInv
<1>2. app.crashes = 0 /\ ~Crash
  <2>1. app.crashes \in Nat /\ app \in Apps
    BY <1>1 DEF Shapes, Apps
  <2>2. ~Crash
    <3>1. Crash => app'.crashes = app.crashes + 1
      BY <2>1 DEF Crash, Apps
    <3> QED BY <2>1, <3>1
  <2> QED BY <1>1, <2>2, CrashesCounted
<1>3. Receives /\ alive
  BY <1>2 DEF Receiving, Receives
<1>4. ASSUME NEW q \in Qos, Publish(q) \/ BrokerPublishes(q)
      PROVE  Receives'
  BY <1>1, <1>3, <1>4, PublishSplits, PublishReceives, PublishFailsReceives, BrokerPublishesReceives
<1>5. CASE Handle
  BY <1>1, <1>3, <1>5, PublishesReceive, AcksReceive, PubrelsReceive, IdleReceives DEF Handle
<1>6. CASE FindReady \/ DiskStep \/ ContinueWrite
  BY <1>1, <1>3, <1>6, IdleReceives
<1>7. CASE Deliver \/ Drop \/ Connect \/ BrokerReads
  BY <1>1, <1>3, <1>7, DeliverReceives, DropReceives, ConnectReceives, BrokerReadsReceives
<1>8. CASE Create
  BY <1>3, <1>8 DEF Create
<1>9. CASE UNCHANGED vars
  <2>1. 0 \in Nat
    OBVIOUS
  <2>2. ForthFrom(toClient', toClient, 0) /\ BackFrom(toBroker' \o held', toBroker \o held, 0)
    BY <1>1, <1>9, SameForth, SameAnswers DEF vars
  <2> QED BY <1>1, <1>3, <1>9, <2>1, <2>2, ReceivesFrame DEF vars
<1> QED BY <1>2, <1>4, <1>5, <1>6, <1>7, <1>8, <1>9 DEF Next

\* What the invariant says of one message.
LEMMA SoundArrivals == IInv /\ Receiving => ArrivesOnce
<1> SUFFICES ASSUME IInv, Receives, NEW m \in DOMAIN app.offered
             PROVE  /\ app.offered[m] = 2 => Times(m, app.arrived) <= 1
                    /\ mode = "persistent" =>
                          \/ \E i \in DOMAIN broker.out : broker.out[i].msg = m
                          \/ \E i \in DOMAIN client.queue : client.queue[i].msg = m
                          \/ m \in ToSet(app.arrived)
  BY DEF Receiving, ArrivesOnce
<1>1. ASSUME app.offered[m] = 2
      PROVE  Times(m, app.arrived) <= 1
  <2> DEFINE T == {i \in DOMAIN app.arrived : app.arrived[i] = m}
  <2>1. \A i, j \in T : i = j
    BY <1>1 DEF Receives, Once
  <2>2. CASE T = {}
    BY <2>2, FS_EmptySet DEF Times
  <2>3. CASE T # {}
    <3>1. PICK k : k \in T
      BY <2>3
    <3> HIDE DEF T
    <3>2. T = {k}
      BY <2>1, <3>1
    <3>3. Cardinality(T) = 1
      BY <3>2, FS_Singleton
    <3> QED BY <3>3 DEF Times, T
  <2> QED BY <2>2, <2>3
<1>2. ASSUME mode = "persistent"
      PROVE  \/ \E i \in DOMAIN broker.out : broker.out[i].msg = m
             \/ \E i \in DOMAIN client.queue : client.queue[i].msg = m
             \/ m \in ToSet(app.arrived)
  <2>1. Served
    BY <1>2 DEF Served, Persistent
  <2>2. /\ Inward.stage = "kept" /\ Inward.pub = app.offered
        /\ Inward.flows = Pairs(broker.out)
        /\ Inward.got = Got(client.inb, client.queue, app.arrived)
    BY <1>2, <2>1, InwardFields DEF Persistent
  <2>3. Sound(Inward)
    BY DEF Receives
  <2> HIDE DEF Inward
  <2>4. m \in Inward.got \/ \E f \in Inward.flows : f[2] = m
    BY <2>2, <2>3 DEF Sound, KeptOK
  <2>5. ASSUME NEW f \in Pairs(broker.out), f[2] = m
        PROVE  \E i \in DOMAIN broker.out : broker.out[i].msg = m
    <3>1. PICK i \in DOMAIN broker.out : f = <<broker.out[i].id, broker.out[i].msg>>
      BY DEF Pairs
    <3> QED BY <2>5, <3>1
  <2>6. ASSUME NEW e \in client.inb, e.msg = m
        PROVE  \E f \in Pairs(broker.out) : f[2] = m
    <3>1. <<e.id, e.msg>> \in Pairs(broker.out) /\ <<e.id, e.msg>>[2] = e.msg
      BY <2>1 DEF Receives, Inbox
    <3> QED BY <2>6, <3>1
  <2>7. m \in Inward.got =>
           \/ \E e \in client.inb : e.msg = m
           \/ \E i \in DOMAIN client.queue : client.queue[i].msg = m
           \/ m \in ToSet(app.arrived)
    BY <2>2 DEF Got, Msgs, Waiting
  <2> QED BY <2>2, <2>4, <2>5, <2>6, <2>7
<1> QED BY <1>1, <1>2

\* Until the process is killed, a QoS 2 message is handed to messageArrived
\* once at the most, through lost connections and repeated packets; and what
\* the broker no longer keeps for a persistent session is in the queue or was
\* handed over (MQTTProtocolClient.c, MQTTClient.c).
THEOREM ArrivalsAreSingle == Spec => []ArrivesOnce
<1>1. Init => Receiving
  BY ReceivingStarts
<1>2. IInv /\ IInv' /\ Receiving /\ [Next]_vars => Receiving'
  BY StepKeepsReceiving
<1> QED BY <1>1, <1>2, SessionIsSound, SoundArrivals, PTL DEF Spec

-----------------------------------------------------------------------------
(* The files of what was received. *)

\* What a handler has still to write, and the numbers of what it has to remove.
Puts(T) == {T[i].file : i \in {j \in DOMAIN T : T[j].op = "put"}}
Gone(T, k) == {T[i].file.n : i \in {j \in DOMAIN T : T[j].op = "rm" /\ T[j].file.kind = k}}
PutFirst(T) == \A i \in DOMAIN T : T[i].op = "put" => i = 1 /\ T[i].file.kind = "q"

\* The entries of the queue.
Waiters == [msg : Nat, seq : Nat]

\* Queue q, with the counter at n, and files D agree up to what T will do.
QueueFiled(q, n, D, T) ==
    /\ \A i, j \in DOMAIN q : i < j => q[i].seq < q[j].seq
    /\ \A i \in DOMAIN q :
          /\ q[i].seq <= n /\ q[i].seq \notin Gone(T, "q")
          /\ \E f \in FilesOf(D, "q") \cup Puts(T) : f.n = q[i].seq /\ f.msg = q[i].msg
    /\ \A f \in FilesOf(D, "q") \cup Puts(T) :
          /\ f.n <= n
          /\ f.n \in Gone(T, "q") \/ \E i \in DOMAIN q : q[i].seq = f.n
    /\ \A f \in FilesOf(D, "q"), g \in Puts(T) : f.n < g.n

\* Every message of the inbound list has its file, with the same text as long
\* as the process was not killed.
InboxFiled(inb, D, T, c) ==
    /\ \A e, f \in inb : e.id = f.id => e = f
    /\ \A e \in inb :
          /\ e.id \notin Gone(T, "r")
          /\ \E f \in FilesOf(D, "r") : f.n = e.id /\ (c = 0 => f.msg = e.msg)

Filing ==
    Persistent /\ alive =>
        /\ PutFirst(todo)
        /\ QueueFiled(client.queue, client.seqno, disk, todo)
        /\ InboxFiled(client.inb, disk, todo, app.crashes)

-----------------------------------------------------------------------------
(* What is left to do. *)

\* Nothing.
LEMMA NothingToDo ==
    Puts(<<>>) = {} /\ PutFirst(<<>>) /\ \A k : Gone(<<>>, k) = {}
BY DEF Puts, Gone, PutFirst

\* One write, perhaps with a removal behind it.
LEMMA WriteToDo ==
    ASSUME NEW f, f.kind = "q", NEW x, NEW T, T = <<Put(f)>> \/ T = <<Put(f), Rm("r", x)>>
    PROVE  /\ Puts(T) = {f} /\ PutFirst(T) /\ Gone(T, "q") = {}
           /\ Gone(T, "r") \subseteq {x}
<1>1. /\ Put(f).op = "put" /\ Put(f).file = f
      /\ Rm("r", x).op = "rm" /\ Rm("r", x).file.kind = "r" /\ Rm("r", x).file.n = x
  BY DEF Put, Rm, File
<1>2. \A i \in DOMAIN T : i = 1 \/ (i = 2 /\ T[i] = Rm("r", x))
  OBVIOUS
<1>3. 1 \in DOMAIN T /\ T[1] = Put(f)
  OBVIOUS
<1> QED BY <1>1, <1>2, <1>3 DEF Puts, Gone, PutFirst

\* Removals.
LEMMA RemovalToDo ==
    ASSUME NEW k, NEW x, NEW T, T = <<Rm(k, x)>>
    PROVE  /\ Puts(T) = {} /\ PutFirst(T)
           /\ Gone(T, k) = {x} /\ \A l : l # k => Gone(T, l) = {}
<1>1. Rm(k, x).op = "rm" /\ Rm(k, x).file.kind = k /\ Rm(k, x).file.n = x
  BY DEF Rm, File
<1>2. DOMAIN T = {1} /\ T[1] = Rm(k, x)
  OBVIOUS
<1> QED BY <1>1, <1>2 DEF Puts, Gone, PutFirst

\* The end of a publication's flow.
LEMMA EndToDo ==
    ASSUME NEW x, NEW T, T = <<Rm("s", x), Rm("sc", x)>>
    PROVE  Puts(T) = {} /\ PutFirst(T) /\ Gone(T, "q") = {} /\ Gone(T, "r") = {}
<1>1. /\ Rm("s", x).op = "rm" /\ Rm("s", x).file.kind = "s"
      /\ Rm("sc", x).op = "rm" /\ Rm("sc", x).file.kind = "sc"
  BY DEF Rm, File
<1>2. \A i \in DOMAIN T : T[i] = Rm("s", x) \/ T[i] = Rm("sc", x)
  OBVIOUS
<1> QED BY <1>1, <1>2 DEF Puts, Gone, PutFirst

\* The first operation is done.
LEMMA OneLessToDo ==
    ASSUME NEW T \in Seq(Ops), T # <<>>, PutFirst(T)
    PROVE  /\ PutFirst(Tail(T)) /\ Puts(Tail(T)) = {}
           /\ Head(T).op = "put" => Puts(T) = {Head(T).file} /\ Head(T).file.kind = "q"
                                    /\ \A k : Gone(Tail(T), k) = Gone(T, k)
           /\ Head(T).op # "put" =>
                 /\ Puts(T) = {} /\ Head(T).op = "rm"
                 /\ \A k : Gone(Tail(T), k) \subseteq Gone(T, k)
                 /\ \A k : \A x \in Gone(T, k) :
                       x \in Gone(Tail(T), k) \/ (x = Head(T).file.n /\ k = Head(T).file.kind)
                 /\ Head(T).file.n \in Gone(T, Head(T).file.kind)
<1>1. /\ Head(T) = T[1] /\ 1 \in DOMAIN T /\ T[1] \in Ops
      /\ \A i \in DOMAIN Tail(T) : i \in Nat \ {0} /\ i + 1 \in DOMAIN T /\ Tail(T)[i] = T[i + 1]
  BY TailFacts
<1>2. \A i \in DOMAIN T : i = 1 \/ (i - 1 \in DOMAIN Tail(T) /\ Tail(T)[i - 1] = T[i])
  <2> TAKE i \in DOMAIN T
  <2>1. DOMAIN T = 1..Len(T) /\ Len(T) \in Nat /\ DOMAIN Tail(T) = 1..(Len(T) - 1)
    <3>1. Tail(T) \in Seq(Ops) /\ Len(Tail(T)) = Len(T) - 1
      BY TailFacts
    <3> QED BY <3>1, LenProperties
  <2>2. CASE i # 1
    <3>1. i - 1 \in DOMAIN Tail(T) /\ (i - 1) + 1 = i
      BY <2>1, <2>2
    <3> QED BY <1>1, <3>1
  <2> QED BY <2>2
<1>3. \A i \in DOMAIN Tail(T) : Tail(T)[i].op # "put"
  <2> TAKE i \in DOMAIN Tail(T)
  <2>1. i + 1 # 1 /\ i + 1 \in DOMAIN T /\ Tail(T)[i] = T[i + 1]
    BY <1>1
  <2> QED BY <2>1 DEF PutFirst
<1>4. T[1].op \in {"put", "rm"}
  BY <1>1 DEF Ops
<1>5. PutFirst(Tail(T)) /\ Puts(Tail(T)) = {}
  BY <1>3 DEF PutFirst, Puts
<1>6. \A k : Gone(Tail(T), k) \subseteq Gone(T, k)
  <2> SUFFICES ASSUME NEW k, NEW i \in DOMAIN Tail(T), Tail(T)[i].op = "rm", Tail(T)[i].file.kind = k
               PROVE  Tail(T)[i].file.n \in Gone(T, k)
    BY DEF Gone
  <2>1. i + 1 \in DOMAIN T /\ Tail(T)[i] = T[i + 1]
    BY <1>1
  <2> QED BY <2>1 DEF Gone
<1>7. \A k : \A x \in Gone(T, k) :
        x \in Gone(Tail(T), k) \/ (x = T[1].file.n /\ k = T[1].file.kind /\ T[1].op = "rm")
  <2> SUFFICES ASSUME NEW k, NEW i \in DOMAIN T, T[i].op = "rm", T[i].file.kind = k
               PROVE  \/ T[i].file.n \in Gone(Tail(T), k)
                      \/ T[i].file.n = T[1].file.n /\ k = T[1].file.kind /\ T[1].op = "rm"
    BY DEF Gone
  <2>1. CASE i - 1 \in DOMAIN Tail(T) /\ Tail(T)[i - 1] = T[i]
    BY <2>1 DEF Gone
  <2> QED BY <1>2, <2>1
<1>8. CASE T[1].op = "put"
  <2>1. Puts(T) = {T[1].file}
    BY <1>1, <1>8 DEF Puts, PutFirst
  <2>2. T[1].file.kind = "q"
    BY <1>1, <1>8 DEF PutFirst
  <2>3. \A k : Gone(Tail(T), k) = Gone(T, k)
    <3> TAKE k
    <3>1. \A x \in Gone(T, k) : x \in Gone(Tail(T), k)
      BY <1>7, <1>8
    <3>2. Gone(Tail(T), k) \subseteq Gone(T, k)
      BY <1>6
    <3> QED BY <3>1, <3>2
  <2> QED BY <1>1, <1>5, <1>8, <2>1, <2>2, <2>3
<1>9. CASE T[1].op # "put"
  <2>1. Puts(T) = {}
    BY <1>9 DEF Puts, PutFirst
  <2>2. T[1].file.n \in Gone(T, T[1].file.kind)
    BY <1>1, <1>4, <1>9 DEF Gone
  <2> QED BY <1>1, <1>4, <1>5, <1>6, <1>7, <1>9, <2>1, <2>2
<1> QED BY <1>8, <1>9

-----------------------------------------------------------------------------
(* What steps do to the files of what was received. *)

\* Steps that leave these files and lists alone, and add no work on them.
LEMMA FiledSame ==
    ASSUME Filing, Persistent' /\ alive' => Persistent /\ alive,
           client'.queue = client.queue, client'.seqno = client.seqno,
           client'.inb = client.inb, app'.crashes = app.crashes,
           FilesOf(disk', "q") = FilesOf(disk, "q"), FilesOf(disk', "r") = FilesOf(disk, "r"),
           PutFirst(todo'), Puts(todo') = Puts(todo),
           Gone(todo', "q") = Gone(todo, "q"), Gone(todo', "r") = Gone(todo, "r")
    PROVE  Filing'
<1> SUFFICES ASSUME Persistent', alive'
             PROVE  /\ PutFirst(todo')
                    /\ QueueFiled(client'.queue, client'.seqno, disk', todo')
                    /\ InboxFiled(client'.inb, disk', todo', app'.crashes)
  BY DEF Filing
<1>1. /\ QueueFiled(client.queue, client.seqno, disk, todo)
      /\ InboxFiled(client.inb, disk, todo, app.crashes)
  BY DEF Filing
<1>2. QueueFiled(client'.queue, client'.seqno, disk', todo')
  BY <1>1 DEF QueueFiled
<1>3. InboxFiled(client'.inb, disk', todo', app'.crashes)
  BY <1>1 DEF InboxFiled
<1> QED BY <1>2, <1>3

\* A message is queued.
LEMMA QueueFiledMore ==
    ASSUME NEW q \in Seq(Waiters), NEW n \in Nat, NEW D, NEW m \in Nat, NEW T,
           QueueFiled(q, n, D, <<>>), \A f \in FilesOf(D, "q") : f.n \in Nat,
           Puts(T) = {File("q", n + 1, m, 0)}, Gone(T, "q") = {}
    PROVE  QueueFiled(Append(q, [msg |-> m, seq |-> n + 1]), n + 1, D, T)
<1> DEFINE e == [msg |-> m, seq |-> n + 1]
           w == Append(q, e)
           g == File("q", n + 1, m, 0)
           l == Len(q) + 1
           Q == FilesOf(D, "q")
<1>1. /\ DOMAIN w = DOMAIN q \cup {l} /\ l \notin DOMAIN q /\ w[l] = e
      /\ \A i \in DOMAIN q : w[i] = q[i]
  <2>1. e \in Waiters
    BY DEF Waiters
  <2> HIDE DEF e
  <2> QED BY <2>1, AppendFacts DEF Added
<1>2. DOMAIN q = 1..Len(q) /\ Len(q) \in Nat /\ \A i \in DOMAIN q : q[i].seq \in Nat
  <2>1. DOMAIN q = 1..Len(q) /\ Len(q) \in Nat
    BY LenProperties
  <2>2. \A i \in DOMAIN q : q[i] \in Waiters
    BY ElementOfSeq
  <2>3. \A x \in Waiters : x.seq \in Nat
    BY DEF Waiters
  <2> QED BY <2>1, <2>2, <2>3
<1>3. e.seq = n + 1 /\ e.msg = m /\ g.n = n + 1 /\ g.msg = m
  BY DEF File
<1>4. /\ \A i, j \in DOMAIN q : i < j => q[i].seq < q[j].seq
      /\ \A i \in DOMAIN q : q[i].seq <= n /\ \E f \in Q : f.n = q[i].seq /\ f.msg = q[i].msg
      /\ \A f \in Q : f.n <= n /\ \E i \in DOMAIN q : q[i].seq = f.n
  BY NothingToDo DEF QueueFiled
<1> HIDE DEF w, e, g, l
<1>5. \A i, j \in DOMAIN w : i < j => w[i].seq < w[j].seq
  <2> SUFFICES ASSUME NEW i \in DOMAIN w, NEW j \in DOMAIN w, i < j PROVE w[i].seq < w[j].seq
    OBVIOUS
  <2>1. i \in DOMAIN q
    BY <1>1, <1>2 DEF l
  <2>2. CASE j = l
    <3>1. q[i].seq <= n /\ q[i].seq \in Nat
      BY <1>2, <1>4, <2>1
    <3>2. q[i].seq < n + 1
      BY <3>1
    <3>3. w[i].seq = q[i].seq /\ w[j].seq = n + 1
      BY <1>1, <1>3, <2>1, <2>2
    <3> QED BY <3>2, <3>3
  <2>3. CASE j \in DOMAIN q
    BY <1>1, <1>4, <2>1, <2>3
  <2> QED BY <1>1, <2>2, <2>3
<1>6. \A i \in DOMAIN w :
        /\ w[i].seq <= n + 1
        /\ \E f \in Q \cup {g} : f.n = w[i].seq /\ f.msg = w[i].msg
  <2> TAKE i \in DOMAIN w
  <2>1. CASE i = l
    BY <1>1, <1>3, <2>1
  <2>2. CASE i \in DOMAIN q
    <3>1. w[i] = q[i] /\ q[i].seq <= n /\ q[i].seq \in Nat
      BY <1>1, <1>2, <1>4, <2>2
    <3>2. PICK f \in Q : f.n = q[i].seq /\ f.msg = q[i].msg
      BY <1>4, <2>2
    <3>3. w[i].seq <= n + 1
      BY <3>1
    <3> QED BY <3>1, <3>2, <3>3
  <2> QED BY <1>1, <2>1, <2>2
<1>7. \A f \in Q \cup {g} : f.n <= n + 1 /\ \E i \in DOMAIN w : w[i].seq = f.n
  <2> TAKE f \in Q \cup {g}
  <2>1. CASE f = g
    BY <1>1, <1>3, <2>1
  <2>2. CASE f \in Q
    <3>1. PICK i \in DOMAIN q : q[i].seq = f.n
      BY <1>4, <2>2
    <3>2. i \in DOMAIN w /\ w[i].seq = f.n
      BY <1>1, <3>1
    <3>3. f.n <= n /\ f.n \in Nat
      BY <1>4, <2>2
    <3>4. f.n <= n + 1
      BY <3>3
    <3> QED BY <3>2, <3>4
  <2> QED BY <2>1, <2>2
<1>8. \A f \in Q : f.n < g.n
  BY <1>3, <1>4
<1>9. Puts(T) = {g} /\ Gone(T, "q") = {}
  BY DEF g
<1>10. QueueFiled(w, n + 1, D, T)
  <2> HIDE DEF Q
  <2> QED BY <1>5, <1>6, <1>7, <1>8, <1>9 DEF QueueFiled, Q
<1> QED BY <1>10 DEF w, e

\* The first message is handed over.
LEMMA QueueFiledLess ==
    ASSUME NEW q \in Seq(Waiters), NEW n \in Nat, NEW D, NEW T,
           QueueFiled(q, n, D, <<>>), q # <<>>,
           Puts(T) = {}, Gone(T, "q") = {Head(q).seq}
    PROVE  QueueFiled(Tail(q), n, D, T)
<1>1. /\ Head(q) = q[1] /\ 1 \in DOMAIN q /\ Tail(q) \in Seq(Waiters)
      /\ \A i \in DOMAIN Tail(q) : i \in Nat \ {0} /\ i + 1 \in DOMAIN q /\ Tail(q)[i] = q[i + 1]
  BY TailFacts
<1>2. \A i \in DOMAIN q : i = 1 \/ (i - 1 \in DOMAIN Tail(q) /\ Tail(q)[i - 1] = q[i])
  <2> TAKE i \in DOMAIN q
  <2>1. DOMAIN q = 1..Len(q) /\ Len(q) \in Nat /\ DOMAIN Tail(q) = 1..(Len(q) - 1)
    <3>1. Len(Tail(q)) = Len(q) - 1
      BY TailFacts
    <3> QED BY <1>1, <3>1, LenProperties
  <2>2. CASE i # 1
    <3>1. i - 1 \in DOMAIN Tail(q) /\ (i - 1) + 1 = i
      BY <2>1, <2>2
    <3> QED BY <1>1, <3>1
  <2> QED BY <2>2
<1> DEFINE w == Tail(q)
           Q == FilesOf(D, "q")
<1>3. \A i \in DOMAIN q : q[i].seq \in Nat
  <2>1. \A i \in DOMAIN q : q[i] \in Waiters
    BY ElementOfSeq
  <2>2. \A x \in Waiters : x.seq \in Nat
    BY DEF Waiters
  <2> QED BY <2>1, <2>2
<1>4. /\ \A i, j \in DOMAIN q : i < j => q[i].seq < q[j].seq
      /\ \A i \in DOMAIN q : q[i].seq <= n /\ \E f \in Q : f.n = q[i].seq /\ f.msg = q[i].msg
      /\ \A f \in Q : f.n <= n /\ \E i \in DOMAIN q : q[i].seq = f.n
  BY NothingToDo DEF QueueFiled
<1> HIDE DEF w
<1>5. \A i, j \in DOMAIN w : i < j => w[i].seq < w[j].seq
  <2> SUFFICES ASSUME NEW i \in DOMAIN w, NEW j \in DOMAIN w, i < j PROVE w[i].seq < w[j].seq
    OBVIOUS
  <2>1. /\ i + 1 \in DOMAIN q /\ j + 1 \in DOMAIN q /\ i + 1 < j + 1
        /\ w[i] = q[i + 1] /\ w[j] = q[j + 1]
    BY <1>1 DEF w
  <2> QED BY <1>4, <2>1
<1>6. \A i \in DOMAIN w :
        /\ w[i].seq <= n /\ w[i].seq # q[1].seq
        /\ \E f \in Q : f.n = w[i].seq /\ f.msg = w[i].msg
  <2> TAKE i \in DOMAIN w
  <2>1. i + 1 \in DOMAIN q /\ 1 < i + 1 /\ w[i] = q[i + 1]
    BY <1>1 DEF w
  <2>2. q[1].seq < q[i + 1].seq /\ q[1].seq \in Nat /\ q[i + 1].seq \in Nat
    BY <1>1, <1>3, <1>4, <2>1
  <2>3. q[1].seq # q[i + 1].seq
    BY <2>2
  <2>4. PICK f \in Q : f.n = q[i + 1].seq /\ f.msg = q[i + 1].msg
    BY <1>4, <2>1
  <2>5. q[i + 1].seq <= n
    BY <1>4, <2>1
  <2> QED BY <2>1, <2>3, <2>4, <2>5
<1>7. \A f \in Q : f.n <= n /\ (f.n = q[1].seq \/ \E i \in DOMAIN w : w[i].seq = f.n)
  <2> TAKE f \in Q
  <2>1. PICK i \in DOMAIN q : q[i].seq = f.n
    BY <1>4
  <2>2. f.n <= n
    BY <1>4
  <2>3. CASE i = 1
    BY <2>1, <2>2, <2>3
  <2>4. CASE i - 1 \in DOMAIN w /\ w[i - 1] = q[i]
    BY <2>1, <2>2, <2>4
  <2> QED BY <1>2, <2>3, <2>4 DEF w
<1>8. Puts(T) = {} /\ Gone(T, "q") = {q[1].seq}
  BY <1>1
<1>9. QueueFiled(w, n, D, T)
  <2> HIDE DEF Q
  <2> QED BY <1>5, <1>6, <1>7, <1>8 DEF QueueFiled, Q
<1> QED BY <1>9 DEF w

-----------------------------------------------------------------------------
(* The files of what was received, action by action. *)

\* A file of another kind.
LEMMA OtherFiles ==
    ASSUME NEW D, NEW f, NEW S, S = {f} \/ S = {}, f.kind # "q", f.kind # "r"
    PROVE  FilesOf(D \cup S, "q") = FilesOf(D, "q") /\ FilesOf(D \cup S, "r") = FilesOf(D, "r")
BY DEF FilesOf

\* Without a clean session a handler leaves the lists it says, connection or not.
LEMMA HandlerLists ==
    ASSUME Persistent, NEW p, NEW c, Answer(p, c) \/ Silent(c)
    PROVE  client' = c
BY DEF Answer, Silent, Transmit, Stay, Close, Closed, Persistent

\* A handler that changes the publications at most.
LEMMA PublicationsOnly ==
    ASSUME Shapes, Filing, UNCHANGED <<mode, alive, app>>,
           Persistent => /\ client'.queue = client.queue /\ client'.seqno = client.seqno
                         /\ client'.inb = client.inb,
           FilesOf(disk', "q") = FilesOf(disk, "q"), FilesOf(disk', "r") = FilesOf(disk, "r"),
           todo = <<>>, todo' = <<>> \/ \E x : todo' = <<Rm("s", x), Rm("sc", x)>>
    PROVE  Filing'
<1>1. Puts(todo) = {} /\ Gone(todo, "q") = {} /\ Gone(todo, "r") = {}
  BY NothingToDo
<1>2. PutFirst(todo') /\ Puts(todo') = {} /\ Gone(todo', "q") = {} /\ Gone(todo', "r") = {}
  BY NothingToDo, EndToDo
<1>3. CASE Persistent
  BY <1>1, <1>2, <1>3, FiledSame DEF Persistent
<1>4. CASE ~Persistent
  BY <1>4 DEF Filing, Persistent
<1> QED BY <1>3, <1>4

\* MQTTClient_publish.
LEMMA PublishFiles ==
    ASSUME Shapes, Filing, NEW q \in Qos, Publish(q)
    PROVE  Filing'
<1>1. client \in Clients /\ app \in Apps
  BY DEF Shapes
<1>2. Persistent => /\ client'.queue = client.queue /\ client'.seqno = client.seqno
                    /\ client'.inb = client.inb
  BY <1>1 DEF Publish, Close, Closed, Persistent, Clients
<1>3. PICK x, m : disk' = disk \cup (IF mode = "persistent" THEN {File("s", x, m, q)} ELSE {})
  BY DEF Publish
<1>4. File("s", x, m, q).kind = "s"
  BY DEF File
<1>5. FilesOf(disk', "q") = FilesOf(disk, "q") /\ FilesOf(disk', "r") = FilesOf(disk, "r")
  BY <1>3, <1>4, OtherFiles
<1>6. app'.crashes = app.crashes
  BY <1>1 DEF Publish, Apps
<1>7. UNCHANGED <<mode, alive, todo>> /\ todo = <<>>
  BY DEF Publish
<1>8. PutFirst(todo')
  BY <1>7, NothingToDo
<1>9. CASE Persistent
  BY <1>2, <1>5, <1>6, <1>7, <1>8, <1>9, FiledSame DEF Persistent
<1>10. CASE ~Persistent
  BY <1>7, <1>10 DEF Filing, Persistent
<1> QED BY <1>9, <1>10

\* The handlers of PUBACK, PUBCOMP and PUBREC.
LEMMA AcksFile ==
    ASSUME Shapes, Filing, HandlePubacks \/ HandlePubcomps \/ HandlePubrecs
    PROVE  Filing'
<1>1. client \in Clients /\ todo = <<>>
  BY DEF Shapes, HandlePubacks, HandlePubcomps, HandlePubrecs, Reads
<1>2. UNCHANGED <<mode, alive, app>>
  BY DEF HandlePubacks, HandlePubcomps, HandlePubrecs
<1>3. CASE HandlePubacks \/ HandlePubcomps
  <2>1. Ignored \/ \E i \in DOMAIN client.out : Over(i)
    BY <1>3 DEF HandlePubacks, HandlePubcomps, Outbound
  <2>2. UNCHANGED disk
    BY <1>3 DEF HandlePubacks, HandlePubcomps
  <2>3. CASE Ignored
    <3>1. Persistent => client' = client
      BY <2>3, HandlerLists DEF Ignored
    <3> QED BY <1>1, <1>2, <2>2, <2>3, <3>1, PublicationsOnly DEF Ignored
  <2>4. ASSUME NEW i \in DOMAIN client.out, Over(i)
        PROVE  Filing'
    <3> DEFINE c == [client EXCEPT !.out = RemoveAt(@, i)]
    <3>1. Silent(c) /\ todo' = Filed(<<Rm("s", client.out[i].id), Rm("sc", client.out[i].id)>>)
      BY <2>4 DEF Over
    <3>2. c.queue = client.queue /\ c.seqno = client.seqno /\ c.inb = client.inb
      BY <1>1 DEF Clients
    <3> HIDE DEF c
    <3>3. Persistent => client' = c
      BY <3>1, HandlerLists
    <3>4. todo' = <<>> \/ \E x : todo' = <<Rm("s", x), Rm("sc", x)>>
      BY <3>1 DEF Filed
    <3> QED BY <1>1, <1>2, <2>2, <3>2, <3>3, <3>4, PublicationsOnly
  <2> QED BY <2>1, <2>3, <2>4
<1>4. CASE HandlePubrecs
  <2>1. PICK p : \/ \E i \in Outbound(p.id) :
                      /\ Answer(Ack("PUBREL", p.id), [client EXCEPT !.out[i].next = "PUBCOMP"])
                      /\ disk' = disk \cup (IF mode = "persistent"
                                            THEN {File("sc", p.id, 0, 0)} ELSE {})
                 \/ Silent(client) /\ UNCHANGED disk
    BY <1>4 DEF HandlePubrecs
  <2>2. todo' = <<>>
    BY <1>1, <1>4 DEF HandlePubrecs
  <2>3. CASE Silent(client) /\ UNCHANGED disk
    <3>1. Persistent => client' = client
      BY <2>3, HandlerLists
    <3> QED BY <1>1, <1>2, <2>2, <2>3, <3>1, PublicationsOnly
  <2>4. ASSUME NEW i \in Outbound(p.id),
               Answer(Ack("PUBREL", p.id), [client EXCEPT !.out[i].next = "PUBCOMP"]),
               disk' = disk \cup (IF mode = "persistent" THEN {File("sc", p.id, 0, 0)} ELSE {})
        PROVE  Filing'
    <3> DEFINE c == [client EXCEPT !.out[i].next = "PUBCOMP"]
    <3>1. c.queue = client.queue /\ c.seqno = client.seqno /\ c.inb = client.inb
      BY <1>1 DEF Clients
    <3> HIDE DEF c
    <3>2. Persistent => client' = c
      BY <2>4, HandlerLists DEF c
    <3>3. File("sc", p.id, 0, 0).kind = "sc"
      BY DEF File
    <3>4. FilesOf(disk', "q") = FilesOf(disk, "q") /\ FilesOf(disk', "r") = FilesOf(disk, "r")
      BY <2>4, <3>3, OtherFiles
    <3> QED BY <1>1, <1>2, <2>2, <3>1, <3>2, <3>4, PublicationsOnly
  <2> QED BY <2>1, <2>3, <2>4
<1> QED BY <1>3, <1>4

\* A message is queued, and leaves the inbound list perhaps.
LEMMA QueuedFiles ==
    ASSUME Shapes, KeyInv, Filing, Persistent, alive, todo = <<>>, UNCHANGED <<mode, alive, app>>,
           NEW m \in Nat, NEW S, S \subseteq client.inb, NEW x,
           client' = Queued([client EXCEPT !.inb = S], m),
           FilesOf(disk', "q") = FilesOf(disk, "q"), FilesOf(disk', "r") = FilesOf(disk, "r"),
           \/ todo' = <<QueueFile(m)>>
           \/ todo' = <<QueueFile(m), Rm("r", x)>> /\ \A e \in S : e.id # x
    PROVE  Filing'
<1>1. client \in Clients /\ disk \in SUBSET Files
  BY DEF Shapes
<1>2. /\ client'.queue = Append(client.queue, [msg |-> m, seq |-> client.seqno + 1])
      /\ client'.seqno = client.seqno + 1 /\ client'.inb = S
  BY <1>1 DEF Queued, Clients
<1> DEFINE f == File("q", client.seqno + 1, m, 0)
<1>3. f.kind = "q"
  BY DEF File
<1>4. todo' = <<Put(f)>> \/ todo' = <<Put(f), Rm("r", x)>>
  BY DEF QueueFile
<1>a. Rm("r", x).op = "rm"
  BY DEF Rm
<1> HIDE DEF f
<1>5. /\ Puts(todo') = {f} /\ PutFirst(todo') /\ Gone(todo', "q") = {}
      /\ Gone(todo', "r") \subseteq {x}
  BY <1>3, <1>4, WriteToDo
<1>6. \A e \in S : e.id \notin Gone(todo', "r")
  <2>1. CASE todo' = <<QueueFile(m)>>
    <3>1. todo' = <<Put(f)>>
      BY <2>1 DEF QueueFile, f
    <3>2. \A y : Gone(todo', "r") \subseteq {y}
      BY <1>3, <3>1, WriteToDo
    <3>3. Gone(todo', "r") = {}
      <4>1. Gone(todo', "r") \subseteq {1} /\ Gone(todo', "r") \subseteq {2}
        BY <3>2
      <4> QED BY <4>1
    <3> QED BY <3>3
  <2>2. CASE todo' = <<QueueFile(m), Rm("r", x)>> /\ \A e \in S : e.id # x
    BY <1>5, <2>2
  <2> QED BY <2>1, <2>2
<1>7. /\ QueueFiled(client.queue, client.seqno, disk, <<>>)
      /\ InboxFiled(client.inb, disk, <<>>, app.crashes)
  BY DEF Filing
<1>8. QueueFiled(client'.queue, client'.seqno, disk', todo')
  <2>1. client.queue \in Seq(Waiters) /\ client.seqno \in Nat
    BY <1>1 DEF Clients, Waiters
  <2>2. QueueFiled(client.queue, client.seqno, disk', <<>>)
    BY <1>7 DEF QueueFiled
  <2>3. \A g \in FilesOf(disk', "q") : g.n \in Nat
    <3>1. \A g \in disk : g.n \in Nat
      BY <1>1 DEF Files
    <3> QED BY <3>1 DEF FilesOf
  <2>4. Puts(todo') = {File("q", client.seqno + 1, m, 0)} /\ Gone(todo', "q") = {}
    BY <1>5 DEF f
  <2>5. QueueFiled(Append(client.queue, [msg |-> m, seq |-> client.seqno + 1]),
                   client.seqno + 1, disk', todo')
    BY <2>1, <2>2, <2>3, <2>4, QueueFiledMore
  <2> QED BY <1>2, <2>5
<1>9. InboxFiled(client'.inb, disk', todo', app'.crashes)
  BY <1>2, <1>6, <1>7 DEF InboxFiled
<1> QED BY <1>5, <1>8, <1>9 DEF Filing

\* The handler of PUBLISH with QoS 1.
LEMMA Publish1Files ==
    ASSUME Shapes, KeyInv, Filing, NEW p, Reads("PUBLISH", p), HandlePublish1(p),
           UNCHANGED <<mode, alive, app>>
    PROVE  Filing'
<1>1. p.msg \in Nat /\ todo = <<>> /\ alive /\ client \in Clients
  <2>1. p.msg \in Nat /\ todo = <<>> /\ alive
    BY ReadsFacts
  <2> QED BY <2>1 DEF Shapes
<1>2. CASE ~Persistent
  BY <1>2 DEF Filing, Persistent
<1>3. CASE Persistent /\ held # <<>>
  <2>1. Answer(Ack("PUBACK", p.id), client) /\ todo' = <<>> /\ UNCHANGED disk
    BY <1>3 DEF HandlePublish1
  <2>2. client' = client
    BY <1>3, <2>1, HandlerLists
  <2> QED BY <1>1, <2>1, <2>2, PublicationsOnly
<1>4. CASE Persistent /\ held = <<>>
  <2>1. /\ Answer(Ack("PUBACK", p.id), Queued(client, p.msg))
        /\ todo' = <<QueueFile(p.msg)>> /\ UNCHANGED disk
    BY <1>4 DEF HandlePublish1, Filed, Persistent
  <2>2. client' = Queued(client, p.msg)
    BY <1>4, <2>1, HandlerLists
  <2>3. client = [client EXCEPT !.inb = client.inb]
    BY <1>1 DEF Clients
  <2>4. client' = Queued([client EXCEPT !.inb = client.inb], p.msg)
    BY <2>2, <2>3
  <2> DEFINE S == client.inb
  <2>5. S \subseteq client.inb /\ client' = Queued([client EXCEPT !.inb = S], p.msg)
    BY <2>4
  <2> HIDE DEF S
  <2> QED BY <1>1, <1>4, <2>1, <2>5, QueuedFiles
<1> QED BY <1>2, <1>3, <1>4

\* MQTTPacket_Factory has filed a message of QoS 2 before the handler sees it.
LEMMA Publish2Files ==
    ASSUME Shapes, Filing, Receiving, NEW p, Reads("PUBLISH", p), HandlePublish2(p),
           UNCHANGED <<mode, alive, app>>
    PROVE  Filing'
<1>1. todo = <<>> /\ todo' = <<>> /\ alive /\ client \in Clients
  <2>1. todo = <<>> /\ alive
    BY ReadsFacts
  <2> QED BY <2>1 DEF Shapes, HandlePublish2
<1>2. CASE ~Persistent
  BY <1>2 DEF Filing, Persistent
<1>3. CASE Persistent
  <2> DEFINE f == File("r", p.id, p.msg, 2)
             e == [id |-> p.id, msg |-> p.msg]
             kept == {x \in client.inb : x.id # p.id} \cup {e}
             c == [client EXCEPT !.inb = kept]
  <2>1. f.kind = "r" /\ f.n = p.id /\ f.msg = p.msg
    BY DEF File
  <2>2. disk' = {g \in disk : ~SameKey(g, f)} \cup {f}
    BY <1>3 DEF HandlePublish2, After, Put, Persistent
  <2>3. client' = client \/ client' = c
    <3>1. Answer(Ack("PUBREC", p.id), client) \/ Answer(Ack("PUBREC", p.id), c)
      BY DEF HandlePublish2
    <3> HIDE DEF c
    <3> QED BY <1>3, <3>1, HandlerLists
  <2>4. c.queue = client.queue /\ c.seqno = client.seqno /\ c.inb = kept
    BY <1>1 DEF Clients
  <2> HIDE DEF c
  <2>5. FilesOf(disk', "q") = FilesOf(disk, "q")
    BY <2>1, <2>2 DEF FilesOf, SameKey
  <2>6. FilesOf(disk', "r") = {g \in FilesOf(disk, "r") : g.n # p.id} \cup {f}
    BY <2>1, <2>2 DEF FilesOf, SameKey
  <2>7. /\ QueueFiled(client.queue, client.seqno, disk, <<>>)
        /\ InboxFiled(client.inb, disk, <<>>, app.crashes)
    BY <1>1, <1>3 DEF Filing
  <2>8. QueueFiled(client'.queue, client'.seqno, disk', <<>>)
    BY <2>3, <2>4, <2>5, <2>7 DEF QueueFiled
  <2>9. ASSUME app.crashes = 0, NEW x \in client.inb, x.id = p.id
        PROVE  x.msg = p.msg
    <3>1. <<x.id, x.msg>> \in Pairs(broker.out) /\ Served
      <4>1. Served
        BY <1>3 DEF Served
      <4> QED BY <2>9, <4>1 DEF Receiving, Receives, Inbox
    <3>2. Inward.flows = Pairs(broker.out) /\ Inward.wire = toClient /\ Live(Inward)
      BY <1>3, <3>1, InwardFields
    <3>3. Sound(Inward)
      BY <2>9 DEF Receiving, Receives
    <3>4. 1 \in DOMAIN toClient /\ toClient[1] = p /\ p.type = "PUBLISH"
      BY ReadsFacts
    <3> HIDE DEF Inward
    <3>5. <<p.id, p.msg>> \in Inward.flows
      <4>1. 1 \in DOMAIN Inward.wire /\ Inward.wire[1] = p
        BY <3>2, <3>4
      <4>2. PublishOK(Inward, p)
        BY <3>3, <3>4, <4>1 DEF Sound, WireOK
      <4> QED BY <3>2, <4>2 DEF PublishOK
    <3>6. \A h, g \in Inward.flows : h[1] = g[1] => h = g
      BY <3>3 DEF Sound, FlowsOK
    <3>7. <<x.id, x.msg>> = <<p.id, p.msg>>
      <4> DEFINE h == <<x.id, x.msg>>
                 g == <<p.id, p.msg>>
      <4>1. h[1] = g[1] /\ h \in Inward.flows /\ g \in Inward.flows
        BY <2>9, <3>1, <3>2, <3>5
      <4> HIDE DEF h, g
      <4>2. h = g
        BY <3>6, <4>1
      <4> QED BY <4>2 DEF h, g
    <3> QED BY <3>7
  <2>10. \A x, y \in client.inb : x.id = y.id => x = y
    BY <2>7 DEF InboxFiled
  <2>11. \A x \in client.inb :
           \E g \in FilesOf(disk, "r") : g.n = x.id /\ (app.crashes = 0 => g.msg = x.msg)
    BY <2>7 DEF InboxFiled
  <2>12. \A x \in client.inb \cup {e} :
           \E g \in FilesOf(disk', "r") : g.n = x.id /\ (app.crashes = 0 => g.msg = x.msg)
    <3> TAKE x \in client.inb \cup {e}
    <3>1. CASE x = e
      BY <2>1, <2>6, <3>1
    <3>2. CASE x \in client.inb /\ x.id = p.id
      BY <2>1, <2>6, <2>9, <3>2
    <3>3. CASE x \in client.inb /\ x.id # p.id
      <4>1. PICK g \in FilesOf(disk, "r") : g.n = x.id /\ (app.crashes = 0 => g.msg = x.msg)
        BY <2>11, <3>3
      <4>2. g \in FilesOf(disk', "r")
        BY <2>6, <3>3, <4>1
      <4> QED BY <4>1, <4>2
    <3> QED BY <3>1, <3>2, <3>3
  <2>13. client'.inb = client.inb \/ client'.inb = kept
    BY <2>3, <2>4
  <2>14. \A x, y \in kept : x.id = y.id => x = y
    BY <2>10
  <2>15. \A x \in client'.inb : x \in client.inb \cup {e}
    BY <2>13
  <2>16. \A x, y \in client'.inb : x.id = y.id => x = y
    BY <2>10, <2>13, <2>14
  <2>17. InboxFiled(client'.inb, disk', <<>>, app.crashes)
    <3> HIDE DEF e
    <3>1. \A x \in client'.inb :
            \E g \in FilesOf(disk', "r") : g.n = x.id /\ (app.crashes = 0 => g.msg = x.msg)
      BY <2>12, <2>15
    <3> QED BY <2>16, <3>1, NothingToDo DEF InboxFiled
  <2> QED BY <1>1, <2>8, <2>17, NothingToDo DEF Filing
<1> QED BY <1>2, <1>3

\* The handler of PUBREL.
LEMMA PubrelsFile ==
    ASSUME Shapes, KeyInv, Filing, HandlePubrels
    PROVE  Filing'
<1>1. PICK p : /\ Reads("PUBREL", p)
               /\ \/ \E e \in Inbound(p.id) :
                       LET c == [client EXCEPT !.inb = @ \ {e}]
                       IN  \/ Answer(Ack("PUBCOMP", p.id), client) /\ UNCHANGED todo
                           \/ /\ Answer(Ack("PUBCOMP", p.id), Queued(c, e.msg))
                              /\ todo' = Filed(<<QueueFile(e.msg), Rm("r", p.id)>>)
                  \/ Answer(Ack("PUBCOMP", p.id), client) /\ UNCHANGED todo
                  \/ Silent(client) /\ UNCHANGED todo
  BY DEF HandlePubrels
<1>2. todo = <<>> /\ alive /\ client \in Clients
  <2>1. todo = <<>> /\ alive
    BY <1>1, ReadsFacts
  <2> QED BY <2>1 DEF Shapes
<1>3. UNCHANGED <<mode, alive, app, disk>>
  BY DEF HandlePubrels
<1>4. CASE ~Persistent
  BY <1>3, <1>4 DEF Filing, Persistent
<1>5. CASE Persistent /\ UNCHANGED todo /\ (Answer(Ack("PUBCOMP", p.id), client) \/ Silent(client))
  <2>1. client' = client
    BY <1>5, HandlerLists
  <2> QED BY <1>2, <1>3, <1>5, <2>1, PublicationsOnly
<1>6. ASSUME Persistent, NEW e \in Inbound(p.id),
             Answer(Ack("PUBCOMP", p.id), Queued([client EXCEPT !.inb = @ \ {e}], e.msg)),
             todo' = Filed(<<QueueFile(e.msg), Rm("r", p.id)>>)
      PROVE  Filing'
  <2> DEFINE S == client.inb \ {e}
             x == p.id
  <2>1. e \in client.inb /\ e.id = x /\ e.msg \in Nat
    BY <1>2, <1>6 DEF Inbound, Clients
  <2>2. client' = Queued([client EXCEPT !.inb = S], e.msg)
    BY <1>6, HandlerLists
  <2>3. todo' = <<QueueFile(e.msg), Rm("r", x)>>
    BY <1>6 DEF Filed, Persistent
  <2>4. \A y \in S : y.id # x
    <3>1. \A y, z \in client.inb : y.id = z.id => y = z
      BY <1>2, <1>6 DEF Filing, InboxFiled
    <3> QED BY <2>1, <3>1
  <2>5. S \subseteq client.inb
    OBVIOUS
  <2> HIDE DEF S, x
  <2> QED BY <1>2, <1>3, <1>6, <2>1, <2>2, <2>3, <2>4, <2>5, QueuedFiles
<1> QED BY <1>1, <1>4, <1>5, <1>6

\* MQTTClient_run hands the first message over.
LEMMA DeliverFiles ==
    ASSUME Shapes, Nothing, Filing, Deliver
    PROVE  Filing'
<1>1. /\ alive /\ todo = <<>> /\ run = "deliver" /\ UNCHANGED <<mode, alive, disk>>
      /\ client \in Clients /\ app \in Apps /\ client.queue # <<>>
  BY DEF Deliver, Shapes, Nothing
<1>2. app'.crashes = app.crashes
  BY <1>1 DEF Deliver, Apps
<1>3. CASE ~Persistent
  BY <1>1, <1>3 DEF Filing, Persistent
<1>4. CASE UNCHANGED <<client, todo>>
  BY <1>1, <1>2, <1>4, NothingToDo, FiledSame DEF Persistent
<1>5. CASE /\ Persistent
           /\ client' = [client EXCEPT !.queue = Tail(@)]
           /\ todo' = Filed(<<Rm("q", Head(client.queue).seq)>>)
  <2> DEFINE x == Head(client.queue).seq
  <2>1. todo' = <<Rm("q", x)>>
    BY <1>5 DEF Filed, Persistent
  <2>2. /\ client'.queue = Tail(client.queue) /\ client'.seqno = client.seqno
        /\ client'.inb = client.inb
    BY <1>1, <1>5 DEF Clients
  <2> HIDE DEF x
  <2>3. Puts(todo') = {} /\ PutFirst(todo') /\ Gone(todo', "q") = {x} /\ Gone(todo', "r") = {}
    BY <2>1, RemovalToDo
  <2>4. /\ QueueFiled(client.queue, client.seqno, disk, <<>>)
        /\ InboxFiled(client.inb, disk, <<>>, app.crashes)
    BY <1>1, <1>5 DEF Filing
  <2>5. client.queue \in Seq(Waiters) /\ client.seqno \in Nat
    BY <1>1 DEF Clients, Waiters
  <2>6. QueueFiled(Tail(client.queue), client.seqno, disk, todo')
    <3>1. Gone(todo', "q") = {Head(client.queue).seq}
      BY <2>3 DEF x
    <3> QED BY <1>1, <2>3, <2>4, <2>5, <3>1, QueueFiledLess
  <2>7. InboxFiled(client.inb, disk, todo', app.crashes)
    BY <2>3, <2>4 DEF InboxFiled
  <2> QED BY <1>1, <1>2, <2>2, <2>3, <2>6, <2>7 DEF Filing
<1> QED BY <1>3, <1>4, <1>5 DEF Deliver

\* A file operation.
LEMMA DiskStepFiles ==
    ASSUME Shapes, OfferedInv, Filing, DiskStep
    PROVE  Filing'
<1>1. /\ todo # <<>> /\ disk' = After(disk, Head(todo)) /\ todo' = Tail(todo)
      /\ UNCHANGED <<mode, alive, client, app>>
      /\ todo \in Seq(Ops) /\ disk \in SUBSET Files /\ Head(todo) \in Ops
  <2>1. todo \in Seq(Ops) /\ todo # <<>>
    BY DEF Shapes, DiskStep
  <2>2. Head(todo) \in Ops
    BY <2>1, TailFacts
  <2> QED BY <2>1, <2>2 DEF DiskStep, Shapes
<1> SUFFICES ASSUME Persistent, alive PROVE Filing'
  BY <1>1 DEF Filing, Persistent
<1> DEFINE o == Head(todo)
           f == o.file
           T == Tail(todo)
           q == client.queue
           n == client.seqno
           Q == FilesOf(disk, "q")
<1>2. /\ PutFirst(todo) /\ QueueFiled(q, n, disk, todo) /\ InboxFiled(client.inb, disk, todo, app.crashes)
  BY DEF Filing
<1>3. /\ PutFirst(T) /\ Puts(T) = {}
      /\ o.op = "put" => Puts(todo) = {f} /\ f.kind = "q" /\ \A k : Gone(T, k) = Gone(todo, k)
      /\ o.op # "put" =>
            /\ Puts(todo) = {} /\ o.op = "rm"
            /\ \A k : Gone(T, k) \subseteq Gone(todo, k)
            /\ \A k : \A x \in Gone(todo, k) : x \in Gone(T, k) \/ (x = f.n /\ k = f.kind)
            /\ f.n \in Gone(todo, f.kind)
  BY <1>1, <1>2, OneLessToDo
<1>4. disk' = {g \in disk : ~(g.kind = f.kind /\ g.n = f.n)} \cup (IF o.op = "put" THEN {f} ELSE {})
  BY <1>1 DEF After, SameKey
<1> HIDE DEF o, f, T
<1>5. CASE o.op = "put"
  <2>1. FilesOf(disk', "r") = FilesOf(disk, "r")
    BY <1>3, <1>4, <1>5 DEF FilesOf
  <2>2. \A g \in Q : g.n < f.n
    BY <1>2, <1>3, <1>5 DEF QueueFiled
  <2>3. \A g \in Q : g.n # f.n
    <3>1. \A g \in disk : g.n \in Nat
      BY <1>1 DEF Files
    <3> QED BY <2>2, <3>1 DEF FilesOf
  <2>4. FilesOf(disk', "q") = Q \cup {f}
    BY <1>3, <1>4, <1>5, <2>3 DEF FilesOf
  <2> HIDE DEF Q
  <2>5. FilesOf(disk', "q") \cup Puts(T) = Q \cup Puts(todo)
    BY <1>3, <1>5, <2>4
  <2>6. QueueFiled(q, n, disk', T)
    <3>1. Gone(T, "q") = Gone(todo, "q") /\ Puts(T) = {}
      BY <1>3, <1>5
    <3> QED BY <1>2, <2>5, <3>1 DEF QueueFiled, Q
  <2>7. InboxFiled(client.inb, disk', T, app.crashes)
    BY <1>2, <1>3, <1>5, <2>1 DEF InboxFiled
  <2> QED BY <1>1, <1>3, <2>6, <2>7 DEF Filing, T
<1>6. CASE o.op # "put"
  <2>1. /\ FilesOf(disk', "q") = {g \in Q : ~(f.kind = "q" /\ g.n = f.n)}
        /\ FilesOf(disk', "r") = {g \in FilesOf(disk, "r") : ~(f.kind = "r" /\ g.n = f.n)}
    BY <1>4, <1>6 DEF FilesOf
  <2>2. /\ \A i, j \in DOMAIN q : i < j => q[i].seq < q[j].seq
        /\ \A i \in DOMAIN q :
              /\ q[i].seq <= n /\ q[i].seq \notin Gone(todo, "q")
              /\ \E g \in Q : g.n = q[i].seq /\ g.msg = q[i].msg
        /\ \A g \in Q : g.n <= n /\ (g.n \in Gone(todo, "q") \/ \E i \in DOMAIN q : q[i].seq = g.n)
    BY <1>2, <1>3, <1>6 DEF QueueFiled
  <2>3. \A i \in DOMAIN q :
          /\ q[i].seq \notin Gone(T, "q")
          /\ \E g \in FilesOf(disk', "q") : g.n = q[i].seq /\ g.msg = q[i].msg
    <3> TAKE i \in DOMAIN q
    <3>1. PICK g \in Q : g.n = q[i].seq /\ g.msg = q[i].msg
      BY <2>2
    <3>2. q[i].seq \notin Gone(todo, "q")
      BY <2>2
    <3>3. ~(f.kind = "q" /\ g.n = f.n)
      BY <1>3, <1>6, <3>1, <3>2
    <3>4. q[i].seq \notin Gone(T, "q")
      BY <1>3, <1>6, <3>2
    <3> QED BY <2>1, <3>1, <3>3, <3>4
  <2>4. \A g \in FilesOf(disk', "q") :
          g.n <= n /\ (g.n \in Gone(T, "q") \/ \E i \in DOMAIN q : q[i].seq = g.n)
    <3> TAKE g \in FilesOf(disk', "q")
    <3>1. g \in Q /\ ~(f.kind = "q" /\ g.n = f.n)
      BY <2>1
    <3>2. g.n <= n /\ (g.n \in Gone(todo, "q") \/ \E i \in DOMAIN q : q[i].seq = g.n)
      BY <2>2, <3>1
    <3>3. g.n \in Gone(todo, "q") => g.n \in Gone(T, "q")
      BY <1>3, <1>6, <3>1
    <3> QED BY <3>2, <3>3
  <2>5. Puts(T) = {}
    BY <1>3
  <2>6. QueueFiled(q, n, disk', T)
    <3> HIDE DEF Q, q, n
    <3> QED BY <2>2, <2>3, <2>4, <2>5 DEF QueueFiled
  <2>7. InboxFiled(client.inb, disk', T, app.crashes)
    <3>1. /\ \A x, y \in client.inb : x.id = y.id => x = y
          /\ \A x \in client.inb :
                /\ x.id \notin Gone(todo, "r")
                /\ \E g \in FilesOf(disk, "r") : g.n = x.id /\ (app.crashes = 0 => g.msg = x.msg)
      BY <1>2 DEF InboxFiled
    <3>2. ASSUME NEW x \in client.inb
          PROVE  /\ x.id \notin Gone(T, "r")
                 /\ \E g \in FilesOf(disk', "r") : g.n = x.id /\ (app.crashes = 0 => g.msg = x.msg)
      <4>1. PICK g \in FilesOf(disk, "r") : g.n = x.id /\ (app.crashes = 0 => g.msg = x.msg)
        BY <3>1
      <4>2. x.id \notin Gone(todo, "r")
        BY <3>1
      <4>3. ~(f.kind = "r" /\ g.n = f.n)
        BY <1>3, <1>6, <4>1, <4>2
      <4>4. x.id \notin Gone(T, "r")
        BY <1>3, <1>6, <4>2
      <4> QED BY <2>1, <4>1, <4>3, <4>4
    <3> QED BY <3>1, <3>2 DEF InboxFiled
  <2> QED BY <1>1, <1>3, <2>6, <2>7 DEF Filing, T
<1> QED BY <1>5, <1>6

-----------------------------------------------------------------------------
(* What a restart finds. *)

\* The lists MQTTClient_create makes of the files are in the order of their
\* numbers, the publications turned by MQTTPersistence_wrapMsgID.
LEMMA RestoredInOrder ==
    ASSUME NEW d \in SUBSET Files, IsFiniteSet(d),
           \A f, g \in d : SameKey(f, g) => f = g
    PROVE  /\ \E s \in Seq(Entries) : Rising(s, Number) /\ Restored(d).out = WrapMsgID(s)
           /\ \A i, j \in DOMAIN Restored(d).queue :
                 i < j => Restored(d).queue[i].seq < Restored(d).queue[j].seq
           /\ \A i \in DOMAIN Restored(d).queue :
                 /\ Restored(d).queue[i].seq <= Restored(d).seqno
                 /\ \E f \in FilesOf(d, "q") :
                       f.n = Restored(d).queue[i].seq /\ f.msg = Restored(d).queue[i].msg
           /\ \A f \in FilesOf(d, "q") :
                 \E i \in DOMAIN Restored(d).queue : Restored(d).queue[i].seq = f.n
           /\ \A e \in Restored(d).inb : \E f \in FilesOf(d, "r") : f.n = e.id /\ f.msg = e.msg
           /\ \A f \in FilesOf(d, "r") : \E e \in Restored(d).inb : f.n = e.id /\ f.msg = e.msg
           /\ \A e \in Restored(d).inb : e = [id |-> e.id, msg |-> e.msg]
<1> DEFINE S == FilesOf(d, "s")
           Q == FilesOf(d, "q")
           sent == ByNumber(S)
           queued == ByNumber(Q)
           released(id) == \E f \in d : f.kind = "sc" /\ f.n = id
           entry(f) == [id |-> f.n, qos |-> f.qos, msg |-> f.msg,
                        next |-> IF released(f.n) THEN "PUBCOMP"
                                 ELSE IF f.qos = 2 THEN "PUBREC" ELSE "PUBACK"]
           L == [i \in DOMAIN sent |-> entry(sent[i])]
           M == [i \in DOMAIN queued |-> [msg |-> queued[i].msg, seq |-> queued[i].n]]
           I == {[id |-> f.n, msg |-> f.msg] : f \in FilesOf(d, "r")}
           num == IF queued = <<>> THEN 0 ELSE Last(queued).n
           n == Cardinality(S)
           m == Cardinality(Q)
<1>1. Restored(d) = [out |-> WrapMsgID(L), inb |-> I, queue |-> M, msgID |-> 0, seqno |-> num]
  BY DEF Restored
<1>2. \A k \in {"s", "q"} :
        /\ IsFiniteSet(FilesOf(d, k))
        /\ \A f \in FilesOf(d, k) : f \in Files /\ f.n \in Nat /\ f.msg \in Nat /\ f.qos \in 0..2
        /\ \A f, g \in FilesOf(d, k) : f.n = g.n => f = g
  <2> TAKE k \in {"s", "q"}
  <2>1. FilesOf(d, k) \in SUBSET d
    BY DEF FilesOf
  <2>2. IsFiniteSet(FilesOf(d, k))
    BY <2>1, FS_Subset
  <2>3. \A f \in FilesOf(d, k) : f \in Files /\ f.n \in Nat /\ f.msg \in Nat /\ f.qos \in 0..2
    BY <2>1 DEF Files
  <2>4. \A f, g \in FilesOf(d, k) : f.n = g.n => f = g
    BY DEF FilesOf, SameKey
  <2> QED BY <2>2, <2>3, <2>4
<1>3. /\ sent \in [1..n -> S] /\ n \in Nat
      /\ \A i, j \in 1..n : i < j => sent[i].n < sent[j].n
  BY <1>2, ListsInOrder
<1>4. /\ queued \in [1..m -> Q] /\ m \in Nat
      /\ \A i, j \in 1..m : i < j => queued[i].n < queued[j].n
      /\ \A f \in Q : \E i \in 1..m : queued[i] = f
  BY <1>2, ListsInOrder
<1> HIDE DEF sent, queued
<1>5. L \in Seq(Entries) /\ Rising(L, Number)
  <2>1. \A i \in 1..n : entry(sent[i]) \in Entries /\ entry(sent[i]).id = sent[i].n
    <3> TAKE i \in 1..n
    <3>1. sent[i] \in S
      BY <1>3
    <3>2. sent[i].n \in Nat /\ sent[i].msg \in Nat /\ sent[i].qos \in 0..2
      BY <1>2, <3>1
    <3> QED BY <3>2 DEF Entries
  <2>2. DOMAIN sent = 1..n
    BY <1>3
  <2> HIDE DEF entry, n
  <2>3. L \in [1..n -> Entries] /\ \A i \in 1..n : L[i] = entry(sent[i])
    BY <2>1, <2>2
  <2>4. L \in Seq(Entries) /\ DOMAIN L = 1..n
    BY <1>3, <2>3
  <2>5. \A i \in 1..n : Number[L[i]] = sent[i].n
    BY <2>1, <2>3 DEF Number
  <2> HIDE DEF L
  <2> QED BY <1>3, <2>4, <2>5 DEF Rising
<1>6. /\ DOMAIN M = 1..m
      /\ \A i \in 1..m : M[i].seq = queued[i].n /\ M[i].msg = queued[i].msg
  <2>1. DOMAIN queued = 1..m
    BY <1>4
  <2> QED BY <2>1
<1>7. \A i \in 1..m : queued[i] \in Q /\ queued[i].n \in Nat
  <2> TAKE i \in 1..m
  <2>1. queued[i] \in Q
    BY <1>4
  <2> QED BY <1>2, <2>1
<1>8. \A i \in 1..m : queued[i].n <= num
  <2> TAKE i \in 1..m
  <2> HIDE DEF m, Q
  <2>1. queued \in Seq(Q) /\ Len(queued) = m
    BY <1>4
  <2>2. queued # <<>>
    BY <1>4, <2>1
  <2>3. num = queued[m].n
    BY <2>1, <2>2 DEF Last
  <2>4. m \in 1..m /\ (i = m \/ i < m)
    BY <1>4
  <2>5. queued[i].n \in Nat
    BY <1>7
  <2>6. CASE i = m
    BY <2>3, <2>5, <2>6
  <2>7. CASE i < m
    <3>1. queued[i].n < queued[m].n /\ queued[m].n \in Nat
      BY <1>4, <1>7, <2>4, <2>7
    <3> HIDE DEF num
    <3> QED BY <2>3, <2>5, <3>1
  <2> QED BY <2>4, <2>6, <2>7
<1> HIDE DEF L, M, I, num, n, m, S
<1>9. /\ Restored(d).out = WrapMsgID(L) /\ Restored(d).queue = M /\ Restored(d).inb = I
      /\ Restored(d).seqno = num
  BY <1>1
<1>10. /\ \A i, j \in DOMAIN M : i < j => M[i].seq < M[j].seq
       /\ \A i \in DOMAIN M : M[i].seq <= num /\ \E f \in Q : f.n = M[i].seq /\ f.msg = M[i].msg
       /\ \A f \in Q : \E i \in DOMAIN M : M[i].seq = f.n
  <2>1. \A i, j \in DOMAIN M : i < j => M[i].seq < M[j].seq
    BY <1>4, <1>6
  <2>2. \A i \in DOMAIN M : M[i].seq <= num /\ \E f \in Q : f.n = M[i].seq /\ f.msg = M[i].msg
    BY <1>6, <1>7, <1>8
  <2>3. \A f \in Q : \E i \in DOMAIN M : M[i].seq = f.n
    BY <1>4, <1>6
  <2> QED BY <2>1, <2>2, <2>3
<1>11. /\ \A e \in I : \E f \in FilesOf(d, "r") : f.n = e.id /\ f.msg = e.msg
       /\ \A f \in FilesOf(d, "r") : \E e \in I : f.n = e.id /\ f.msg = e.msg
       /\ \A e \in I : e = [id |-> e.id, msg |-> e.msg]
  <2> DEFINE A == FilesOf(d, "r")
  <2>1. \A e \in I : \E f \in A : e = [id |-> f.n, msg |-> f.msg]
    BY DEF I
  <2>2. \A f \in A : [id |-> f.n, msg |-> f.msg] \in I
    BY DEF I
  <2> HIDE DEF A
  <2>3. \A e \in I : \E f \in A : f.n = e.id /\ f.msg = e.msg
    BY <2>1
  <2>4. \A f \in A : \E e \in I : f.n = e.id /\ f.msg = e.msg
    BY <2>2
  <2>5. \A e \in I : e = [id |-> e.id, msg |-> e.msg]
    BY <2>1
  <2> QED BY <2>3, <2>4, <2>5 DEF A
<1>12. \E s \in Seq(Entries) : Rising(s, Number) /\ WrapMsgID(L) = WrapMsgID(s)
  BY <1>5
<1> HIDE DEF Q
<1> QED BY <1>9, <1>10, <1>11, <1>12 DEF Q

\* MQTTClient_create.
LEMMA CreateFiles ==
    ASSUME Shapes, Nothing, KeyInv, Create
    PROVE  Filing'
<1>1. /\ client' = Restored(disk) /\ disk' = WithoutOrphans(disk) /\ todo' = todo /\ todo = <<>>
      /\ disk \in SUBSET Files /\ IsFiniteSet(disk) /\ \A f, g \in disk : SameKey(f, g) => f = g
  BY DEF Create, Nothing, Shapes, KeyInv
<1> DEFINE r == Restored(disk)
           Q == FilesOf(disk, "q")
           R == FilesOf(disk, "r")
<1>2. /\ \A i, j \in DOMAIN r.queue : i < j => r.queue[i].seq < r.queue[j].seq
      /\ \A i \in DOMAIN r.queue :
            r.queue[i].seq <= r.seqno /\ \E f \in Q : f.n = r.queue[i].seq /\ f.msg = r.queue[i].msg
      /\ \A f \in Q : \E i \in DOMAIN r.queue : r.queue[i].seq = f.n
      /\ \A e \in r.inb : \E f \in R : f.n = e.id /\ f.msg = e.msg
      /\ \A e \in r.inb : e = [id |-> e.id, msg |-> e.msg]
  BY <1>1, RestoredInOrder
<1>3. FilesOf(disk', "q") = Q /\ FilesOf(disk', "r") = R
  BY <1>1 DEF WithoutOrphans, FilesOf
<1>4. \A f, g \in R : f.n = g.n => f = g
  BY <1>1 DEF FilesOf, SameKey
<1> HIDE DEF r, Q, R
<1>5. QueueFiled(r.queue, r.seqno, disk', <<>>)
  <2>1. \A f \in Q : f.n <= r.seqno
    <3> TAKE f \in Q
    <3>1. PICK i \in DOMAIN r.queue : r.queue[i].seq = f.n
      BY <1>2
    <3> QED BY <1>2, <3>1
  <2>2. Puts(<<>>) = {} /\ Gone(<<>>, "q") = {}
    BY NothingToDo
  <2> QED BY <1>2, <1>3, <2>1, <2>2 DEF QueueFiled
<1>6. InboxFiled(r.inb, disk', <<>>, app'.crashes)
  <2>1. \A e, x \in r.inb : e.id = x.id => e = x
    <3> SUFFICES ASSUME NEW e \in r.inb, NEW x \in r.inb, e.id = x.id PROVE e = x
      OBVIOUS
    <3>1. PICK f \in R : f.n = e.id /\ f.msg = e.msg
      BY <1>2
    <3>2. PICK g \in R : g.n = x.id /\ g.msg = x.msg
      BY <1>2
    <3>3. f = g
      BY <1>4, <3>1, <3>2
    <3>4. e = [id |-> e.id, msg |-> e.msg] /\ x = [id |-> x.id, msg |-> x.msg]
      BY <1>2
    <3> QED BY <3>1, <3>2, <3>3, <3>4
  <2>2. Gone(<<>>, "r") = {}
    BY NothingToDo
  <2>3. \A e \in r.inb : \E f \in FilesOf(disk', "r") : f.n = e.id /\ f.msg = e.msg
    BY <1>2, <1>3
  <2> QED BY <2>1, <2>2, <2>3 DEF InboxFiled
<1> QED BY <1>1, <1>5, <1>6, NothingToDo DEF Filing, r

\* Steps that concern neither.
LEMMA IdleFiles ==
    ASSUME Filing, app'.crashes = app.crashes,
           \/ FindReady \/ HandlePingresps \/ ContinueWrite \/ BrokerReads \/ UNCHANGED vars
           \/ Drop \/ Connect \/ \E q \in Qos : BrokerPublishes(q)
    PROVE  Filing'
<1>1. UNCHANGED <<mode, alive, todo, disk>>
  BY DEF FindReady, HandlePingresps, ContinueWrite, BrokerReads, vars, Drop, Connect, BrokerPublishes
<1>2. Persistent => client' = client
  <2>1. CASE Drop
    BY <2>1 DEF Drop, Close, Closed, Persistent
  <2>2. CASE Connect
    BY <2>2 DEF Connect, Close, Closed, Persistent
  <2> QED BY <2>1, <2>2 DEF FindReady, HandlePingresps, ContinueWrite, BrokerReads, vars, BrokerPublishes
<1>3. CASE Persistent /\ alive
  BY <1>1, <1>2, <1>3, FiledSame DEF Filing, Persistent
<1>4. CASE ~(Persistent /\ alive)
  BY <1>1, <1>4 DEF Filing, Persistent
<1> QED BY <1>3, <1>4

\* At the start nothing is filed.
LEMMA FilingStarts == Init => Filing
<1> SUFFICES ASSUME Init PROVE Filing
  OBVIOUS
<1>1. /\ client.queue = <<>> /\ client.inb = {} /\ disk = {} /\ todo = <<>>
  BY DEF Init, NoLists
<1>2. FilesOf(disk, "q") = {} /\ FilesOf(disk, "r") = {}
  BY <1>1 DEF FilesOf
<1>3. Puts(todo) = {} /\ PutFirst(todo) /\ Gone(todo, "q") = {} /\ Gone(todo, "r") = {}
  BY <1>1, NothingToDo
<1>4. QueueFiled(client.queue, client.seqno, disk, todo)
  BY <1>1, <1>2, <1>3 DEF QueueFiled
<1>5. InboxFiled(client.inb, disk, todo, app.crashes)
  BY <1>1 DEF InboxFiled
<1> QED BY <1>3, <1>4, <1>5 DEF Filing

\* Every step leaves lists and files in agreement.
LEMMA StepKeepsFiling ==
    IInv /\ Receiving /\ Filing /\ [Next]_vars => Filing'
<1> SUFFICES ASSUME IInv, Receiving, Filing, [Next]_vars PROVE Filing'
  OBVIOUS
<1>1. Crash => Filing'
  BY DEF Crash, Filing
<1> SUFFICES ASSUME ~Crash PROVE Filing'
  BY <1>1
<1>2. /\ Shapes /\ Nothing /\ KeyInv /\ OfferedInv
      /\ app'.crashes = app.crashes
  BY CrashesCounted DEF IInv, Store
<1>3. ASSUME NEW q \in Qos, Publish(q) \/ BrokerPublishes(q)
      PROVE  Filing'
  <2>1. CASE Publish(q)
    BY <1>2, <2>1, PublishFiles
  <2>2. CASE BrokerPublishes(q)
    BY <1>2, <2>2, IdleFiles
  <2> QED BY <1>3, <2>1, <2>2
<1>4. CASE HandlePublishes
  <2>1. PICK p : Reads("PUBLISH", p) /\ (HandlePublish1(p) \/ HandlePublish2(p))
    BY <1>4 DEF HandlePublishes
  <2>2. UNCHANGED <<mode, alive, app>>
    BY <1>4 DEF HandlePublishes
  <2> QED BY <1>2, <2>1, <2>2, Publish1Files, Publish2Files
<1>5. CASE Handle
  BY <1>2, <1>4, <1>5, AcksFile, PubrelsFile, IdleFiles DEF Handle
<1>6. CASE FindReady \/ ContinueWrite \/ Drop \/ Connect \/ BrokerReads \/ UNCHANGED vars
  BY <1>2, <1>6, IdleFiles
<1>7. CASE DiskStep
  BY <1>2, <1>7, DiskStepFiles
<1>8. CASE Deliver
  BY <1>2, <1>8, DeliverFiles
<1>9. CASE Create
  BY <1>2, <1>9, CreateFiles
<1> QED BY <1>3, <1>5, <1>6, <1>7, <1>8, <1>9 DEF Next

-----------------------------------------------------------------------------
(* The files give the lists back. *)

\* The publications, in whatever order.
LEMMA PublicationsComeBack ==
    ASSUME IInv, Persistent, alive, todo = <<>>, NEW o, o = Restored(disk).out
    PROVE  /\ o \in Seq(Entries) /\ client.out \in Seq(Entries)
           /\ Within(o, client.out) /\ Within(client.out, o)
<1>1. /\ Shapes /\ OutInv /\ KeyInv /\ FilesInv /\ MirrorInv
      /\ disk \in SUBSET Files /\ IsFiniteSet(disk) /\ \A f, g \in disk : SameKey(f, g) => f = g
  BY DEF IInv, Store, Shapes, KeyInv
<1>2. client.out \in Seq(Entries)
  BY <1>1 DEF Shapes, Clients
<1>3. /\ Restored(disk) \in Clients
      /\ \A i \in DOMAIN o :
            \E f \in Sent :
               /\ o[i].id = f.n /\ o[i].qos = f.qos /\ o[i].msg = f.msg
               /\ o[i].next = IF \E g \in Rest : g.n = f.n THEN "PUBCOMP"
                              ELSE IF f.qos = 2 THEN "PUBREC" ELSE "PUBACK"
      /\ \A f \in Sent : \E i \in DOMAIN o : o[i].id = f.n
  BY <1>1, RestoredFacts DEF Sent, Rest
<1>4. o \in Seq(Entries)
  BY <1>3 DEF Clients
<1>5. Ends = {}
  BY DEF Ends, Removals
<1>6. /\ \A i \in DOMAIN client.out :
            /\ \E f \in Sent : f.n = client.out[i].id /\ f.msg = client.out[i].msg
            /\ client.out[i].next = "PUBCOMP" <=> \E f \in Rest : f.n = client.out[i].id
      /\ \A f \in Sent : \E i \in DOMAIN client.out : client.out[i].id = f.n
  BY <1>1, <1>5 DEF MirrorInv
<1>7. \A f, g \in Sent : f.n = g.n => f = g
  BY <1>1 DEF Sent, FilesOf, SameKey
<1>8. ASSUME NEW i \in DOMAIN o, NEW j \in DOMAIN client.out, o[i].id = client.out[j].id
      PROVE  o[i] = client.out[j]
  <2> DEFINE x == o[i]
             y == client.out[j]
  <2>1. x \in Entries /\ y \in Entries
    BY <1>2, <1>4, ElementOfSeq
  <2>2. PICK f \in Sent : /\ x.id = f.n /\ x.qos = f.qos /\ x.msg = f.msg
                          /\ x.next = IF \E g \in Rest : g.n = f.n THEN "PUBCOMP"
                                      ELSE IF f.qos = 2 THEN "PUBREC" ELSE "PUBACK"
    BY <1>3
  <2>3. PICK g \in Sent : g.n = y.id /\ g.msg = y.msg
    BY <1>6
  <2>4. x.id = y.id
    BY <1>8
  <2> HIDE DEF x, y
  <2>5. f = g
    BY <1>7, <2>2, <2>3, <2>4
  <2>6. x.msg = y.msg
    BY <2>2, <2>3, <2>5
  <2>7. /\ y.qos = app.published[y.msg] /\ y.msg \in Published
        /\ y.next = "PUBACK" <=> y.qos = 1
        /\ y.next = "PUBCOMP" <=> \E h \in Rest : h.n = y.id
    BY <1>1, <1>6 DEF OutInv, y
  <2>8. x.qos = y.qos
    BY <1>1, <2>2, <2>5, <2>6, <2>7 DEF FilesInv
  <2>9. y.qos \in {1, 2} /\ y.next \in {"PUBACK", "PUBREC", "PUBCOMP"}
    <3>1. y.qos \in Qos
      <4>1. app.published \in Seq(Qos) /\ Published = DOMAIN app.published
        <5>1. app.published \in Seq(Qos)
          BY <1>1 DEF Shapes, Apps
        <5> QED BY <5>1, LenProperties DEF Published
      <4> QED BY <2>7, <4>1, ElementOfSeq
    <3> QED BY <2>1, <3>1, QosAreSmall DEF Entries
  <2>10. x.next = y.next
    <3>1. CASE \E h \in Rest : h.n = f.n
      <4>1. x.next = "PUBCOMP"
        BY <2>2, <3>1
      <4>2. y.next = "PUBCOMP"
        BY <2>3, <2>5, <2>7, <3>1
      <4> QED BY <4>1, <4>2
    <3>2. CASE ~\E h \in Rest : h.n = f.n
      <4>1. x.next = IF f.qos = 2 THEN "PUBREC" ELSE "PUBACK"
        BY <2>2, <3>2
      <4>2. y.next # "PUBCOMP"
        BY <2>3, <2>5, <2>7, <3>2
      <4>3. f.qos = y.qos
        BY <2>2, <2>8
      <4>4. CASE y.qos = 1
        BY <2>7, <4>1, <4>3, <4>4
      <4>5. CASE y.qos = 2
        BY <2>7, <2>9, <4>1, <4>2, <4>3, <4>5
      <4> QED BY <2>9, <4>4, <4>5
    <3> QED BY <3>1, <3>2
  <2>11. x = y
    BY <2>1, <2>4, <2>6, <2>8, <2>10 DEF Entries
  <2> QED BY <2>11 DEF x, y
<1>9. Within(o, client.out)
  <2> SUFFICES ASSUME NEW i \in DOMAIN o PROVE \E j \in DOMAIN client.out : client.out[j] = o[i]
    BY DEF Within
  <2>1. PICK f \in Sent : o[i].id = f.n
    BY <1>3
  <2>2. PICK j \in DOMAIN client.out : client.out[j].id = f.n
    BY <1>6
  <2> QED BY <1>8, <2>1, <2>2
<1>10. Within(client.out, o)
  <2> SUFFICES ASSUME NEW j \in DOMAIN client.out PROVE \E i \in DOMAIN o : o[i] = client.out[j]
    BY DEF Within
  <2>1. PICK f \in Sent : f.n = client.out[j].id
    BY <1>6
  <2>2. PICK i \in DOMAIN o : o[i].id = f.n
    BY <1>3
  <2> QED BY <1>8, <2>1, <2>2
<1> QED BY <1>2, <1>4, <1>9, <1>10

\* And in their order.
LEMMA OrderComesBack ==
    ASSUME IInv, Persistent, alive, todo = <<>>, InWindow(client.out)
    PROVE  Restored(disk).out = client.out
<1> DEFINE o == Restored(disk).out
<1>1. /\ disk \in SUBSET Files /\ IsFiniteSet(disk) /\ \A f, g \in disk : SameKey(f, g) => f = g
      /\ \A i \in DOMAIN client.out : client.out[i].id \in 1..MaxId
  BY DEF IInv, Store, Shapes, KeyInv, OutInv
<1>2. PICK s \in Seq(Entries) : Rising(s, Number) /\ o = WrapMsgID(s)
  BY <1>1, RestoredInOrder
<1> HIDE DEF o
<1>3. o \in Seq(Entries) /\ client.out \in Seq(Entries)
      /\ Within(o, client.out) /\ Within(client.out, o)
  BY PublicationsComeBack DEF o
<1>4. DOMAIN s = 1..Len(s) /\ Len(s) \in Nat /\ \A i \in DOMAIN s : s[i] \in Entries
  BY LenProperties, ElementOfSeq
<1>5. \A i, j \in 1..Len(s) : s[i].id = s[j].id => i = j
  <2> TAKE i, j \in 1..Len(s)
  <2> HAVE s[i].id = s[j].id
  <2>1. Number[s[i]] = Number[s[j]] /\ Number[s[i]] \in Nat
    BY <1>4 DEF Number, Entries
  <2>2. ~(i < j) /\ ~(j < i)
    <3>1. i < j => Number[s[i]] < Number[s[j]]
      BY <1>2, <1>4 DEF Rising
    <3>2. j < i => Number[s[j]] < Number[s[i]]
      BY <1>2, <1>4 DEF Rising
    <3> QED BY <2>1, <3>1, <3>2
  <2>3. i \in Nat /\ j \in Nat
    BY <1>4
  <2> QED BY <2>2, <2>3
<1>6. /\ \A i \in 1..Len(s) : \E j \in 1..Len(s) : o[i] = s[j]
      /\ \A j \in 1..Len(s) : \E i \in 1..Len(s) : o[i] = s[j]
      /\ DOMAIN o = 1..Len(s)
  <2>1. /\ Len(WrapMsgID(s)) = Len(s) /\ WrapMsgID(s) \in Seq(Entries)
        /\ \A i \in 1..Len(s) : \E j \in 1..Len(s) : WrapMsgID(s)[i] = s[j]
        /\ \A j \in 1..Len(s) : \E i \in 1..Len(s) : WrapMsgID(s)[i] = s[j]
    BY <1>5, WrapKeeps
  <2> QED BY <1>2, <2>1, LenProperties
<1>7. Within(s, client.out)
  <2> SUFFICES ASSUME NEW j \in DOMAIN s PROVE \E x \in DOMAIN client.out : client.out[x] = s[j]
    BY DEF Within
  <2>1. PICK i \in DOMAIN o : o[i] = s[j]
    BY <1>4, <1>6
  <2> QED BY <1>3, <2>1 DEF Within
<1>8. Within(client.out, s)
  <2> SUFFICES ASSUME NEW x \in DOMAIN client.out PROVE \E j \in DOMAIN s : s[j] = client.out[x]
    BY DEF Within
  <2>1. PICK i \in DOMAIN o : o[i] = client.out[x]
    BY <1>3 DEF Within
  <2>2. PICK j \in 1..Len(s) : o[i] = s[j]
    BY <1>6, <2>1
  <2> QED BY <1>4, <2>1, <2>2
<1>9. WrapMsgID(s) = client.out
  BY <1>1, <1>2, <1>3, <1>7, <1>8, WindowComesBack
<1> QED BY <1>2, <1>9 DEF o

\* The queue.
LEMMA QueueComesBack ==
    ASSUME Shapes, KeyInv, Filing, Persistent, alive, todo = <<>>
    PROVE  Restored(disk).queue = client.queue
<1>1. /\ disk \in SUBSET Files /\ IsFiniteSet(disk) /\ \A f, g \in disk : SameKey(f, g) => f = g
      /\ client.queue \in Seq(Waiters)
  BY DEF Shapes, KeyInv, Clients, Waiters
<1> DEFINE q == client.queue
           w == Restored(disk).queue
           Q == FilesOf(disk, "q")
           key == [x \in Waiters |-> x.seq]
<1>2. /\ \A i, j \in DOMAIN w : i < j => w[i].seq < w[j].seq
      /\ \A i \in DOMAIN w : \E f \in Q : f.n = w[i].seq /\ f.msg = w[i].msg
      /\ \A f \in Q : \E i \in DOMAIN w : w[i].seq = f.n
  BY <1>1, RestoredInOrder
<1>3. w \in Seq(Waiters)
  <2>1. Restored(disk) \in Clients
    BY <1>1, RestoredFacts
  <2> QED BY <2>1 DEF Clients, Waiters
<1>4. /\ \A i, j \in DOMAIN q : i < j => q[i].seq < q[j].seq
      /\ \A i \in DOMAIN q : \E f \in Q : f.n = q[i].seq /\ f.msg = q[i].msg
      /\ \A f \in Q : \E i \in DOMAIN q : q[i].seq = f.n
  <2>1. QueueFiled(q, client.seqno, disk, <<>>)
    BY DEF Filing
  <2> HIDE DEF q, Q
  <2> QED BY <2>1, NothingToDo DEF QueueFiled, Q
<1>5. \A f, g \in Q : f.n = g.n => f = g
  BY <1>1 DEF FilesOf, SameKey
<1>6. key \in [Waiters -> Nat] /\ \A x \in Waiters : key[x] = x.seq
  BY DEF Waiters
<1>7. q \in Seq(Waiters)
  BY <1>1
<1> HIDE DEF q, w, Q, key
<1>8. (\A i \in DOMAIN q : q[i] \in Waiters) /\ (\A i \in DOMAIN w : w[i] \in Waiters)
  BY <1>3, <1>7, ElementOfSeq
<1>9. ASSUME NEW i \in DOMAIN q, NEW j \in DOMAIN w, q[i].seq = w[j].seq
      PROVE  q[i] = w[j]
  <2>1. PICK f \in Q : f.n = q[i].seq /\ f.msg = q[i].msg
    BY <1>4
  <2>2. PICK g \in Q : g.n = w[j].seq /\ g.msg = w[j].msg
    BY <1>2
  <2>3. f = g
    BY <1>5, <1>9, <2>1, <2>2
  <2>4. q[i].msg = w[j].msg
    BY <2>1, <2>2, <2>3
  <2> QED BY <1>8, <1>9, <2>4 DEF Waiters
<1>10. Within(q, w)
  <2> SUFFICES ASSUME NEW i \in DOMAIN q PROVE \E j \in DOMAIN w : w[j] = q[i]
    BY DEF Within
  <2>1. PICK f \in Q : f.n = q[i].seq
    BY <1>4
  <2>2. PICK j \in DOMAIN w : w[j].seq = f.n
    BY <1>2
  <2> QED BY <1>9, <2>1, <2>2
<1>11. Within(w, q)
  <2> SUFFICES ASSUME NEW j \in DOMAIN w PROVE \E i \in DOMAIN q : q[i] = w[j]
    BY DEF Within
  <2>1. PICK f \in Q : f.n = w[j].seq
    BY <1>2
  <2>2. PICK i \in DOMAIN q : q[i].seq = f.n
    BY <1>4
  <2> QED BY <1>9, <2>1, <2>2
<1>12. Rising(q, key) /\ Rising(w, key)
  BY <1>2, <1>4, <1>6, <1>8 DEF Rising
<1>13. q = w
  BY <1>3, <1>6, <1>7, <1>10, <1>11, <1>12, OneOrder
<1> QED BY <1>13 DEF q, w

\* What the invariants say of a restart.
LEMMA FilesGiveBack == IInv /\ Filing => FilesMirrorLists
<1> SUFFICES ASSUME IInv, Filing, alive, Persistent, todo = <<>>
             PROVE  /\ ToSet(Restored(disk).out) = ToSet(client.out)
                    /\ InWindow(client.out) => Restored(disk).out = client.out
                    /\ Restored(disk).queue = client.queue
                    /\ \A e \in client.inb : \E f \in Restored(disk).inb :
                          f.id = e.id /\ (app.crashes = 0 => f.msg = e.msg)
  BY DEF FilesMirrorLists, Persistent
<1>1. Shapes /\ KeyInv
  BY DEF IInv, Store
<1>2. ToSet(Restored(disk).out) = ToSet(client.out)
  <2> DEFINE o == Restored(disk).out
  <2>1. Within(o, client.out) /\ Within(client.out, o)
    BY PublicationsComeBack
  <2> HIDE DEF o
  <2>2. ToSet(o) = ToSet(client.out)
    BY <2>1 DEF Within, ToSet
  <2> QED BY <2>2 DEF o
<1>3. \A e \in client.inb : \E f \in Restored(disk).inb :
        f.id = e.id /\ (app.crashes = 0 => f.msg = e.msg)
  <2> TAKE e \in client.inb
  <2>1. PICK f \in FilesOf(disk, "r") : f.n = e.id /\ (app.crashes = 0 => f.msg = e.msg)
    BY DEF Filing, InboxFiled
  <2>2. disk \in SUBSET Files /\ IsFiniteSet(disk) /\ \A g, h \in disk : SameKey(g, h) => g = h
    BY <1>1 DEF Shapes, KeyInv
  <2>3. PICK x \in Restored(disk).inb : f.n = x.id /\ f.msg = x.msg
    BY <2>1, <2>2, RestoredInOrder
  <2> QED BY <2>1, <2>3
<1> QED BY <1>1, <1>2, <1>3, OrderComesBack, QueueComesBack

\* With a session that is kept, a process killed between two handlers finds in
\* its files the lists it had: each publication in its state and, while its
\* ids lie within half of the circle, in its place, the queue whole and in
\* order, and the inbound messages; and what the library took is on disk until
\* the broker has it (MQTTPersistence.c, MQTTProtocolClient.c, MQTTClient.c).
THEOREM DiskIsEnough == Spec => []SessionIsOnDisk
<1>1. Init => Receiving /\ Filing
  BY ReceivingStarts, FilingStarts
<1>2. IInv /\ IInv' /\ Receiving /\ Filing /\ [Next]_vars => Receiving' /\ Filing'
  BY StepKeepsReceiving, StepKeepsFiling
<1>3. IInv /\ Filing => SessionIsOnDisk
  BY SoundTypes, SoundIsKept, FilesGiveBack DEF SessionIsOnDisk
<1> QED BY <1>1, <1>2, <1>3, SessionIsSound, PTL DEF Spec
=============================================================================
