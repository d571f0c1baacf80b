----------------------------- MODULE MqttSession -----------------------------
(***************************************************************************)
(* The session layer of the Paho client the gateway's daemons are linked   *)
(* with: QoS 1 and QoS 2 flows in both directions over a connection that   *)
(* breaks, a process that is killed, and the files that persist the flows. *)
(* The client's mutex makes a handler atomic; a kill can still fall        *)
(* between two of its file operations, so those are steps (todo).          *)
(***************************************************************************)
EXTENDS Integers, Sequences, FiniteSets, SequencesExt

CONSTANTS Modes,        \* kinds of session: see mode
          Qos,          \* qualities of service in use, of 1 and 2
          MaxMsgs,      \* bound: messages published, both directions together
          MaxFaults,    \* bound: drops, kills, partial writes and refusals together
          MaxInflight,  \* maxInflightMessages of the connect options
          MaxId         \* MAX_MSG_ID

ASSUME ModesAssumption == Modes \subseteq {"persistent", "clean"}
ASSUME QosAssumption == Qos \subseteq 1..2
ASSUME BoundsAssumption == MaxMsgs \in Nat /\ MaxFaults \in Nat
ASSUME IdAssumption == MaxInflight \in Nat \ {0} /\ MaxId \in Nat /\ MaxInflight < MaxId

VARIABLES
    mode,      \* "persistent": files and a session that is kept; "clean": neither
    relDup,    \* whether the broker marks a PUBREL it repeats as a duplicate
    alive,     \* the process runs
    up,        \* client->connected
    client,    \* the lists and counters of struct Clients
    held,      \* the packet of which only a part is written, if any
    todo,      \* file operations the running handler has still to do
    disk,      \* the files of the persistence directory
    run,       \* MQTTClient_run: to "cycle", found the socket "ready", to "deliver"
    stalled,   \* the retry loop of this connection stopped at a partial write
    toBroker, toClient,   \* the two directions of the connection
    broker,    \* the broker's side of the session
    app,       \* history: what the application and the broker's clients saw
    faults     \* faults so far

vars == <<mode, relDup, alive, up, client, held, todo, disk, run, stalled,
          toBroker, toClient, broker, app, faults>>

Packet(t, id, q, m, d) == [type |-> t, id |-> id, qos |-> q, msg |-> m, dup |-> d]
Ack(t, id) == Packet(t, id, 0, 0, FALSE)
File(k, n, m, q) == [kind |-> k, n |-> n, msg |-> m, qos |-> q]
Put(f) == [op |-> "put", file |-> f]
Rm(k, n) == [op |-> "rm", file |-> File(k, n, 0, 0)]
SameKey(f, g) == f.kind = g.kind /\ f.n = g.n

NoLists == [out |-> <<>>, inb |-> {}, queue |-> <<>>, msgID |-> 0, seqno |-> 0]
NoSession == [in |-> {}, out |-> <<>>]

\* ListFindItem(outboundMsgs, &msgid, messageIDCompare)
Outbound(id) == {i \in DOMAIN client.out : client.out[i].id = id}
Inbound(id) == {e \in client.inb : e.id = id}

\* The first free id after the last one given out: with fewer messages in
\* flight than ids there is one.
AssignMsgId(c) ==
    LET used == {c.out[i].id : i \in DOMAIN c.out}
        id(n) == ((c.msgID + n) % MaxId) + 1
    IN id(Min({n \in 0..(MaxId - 1) : id(n) \notin used}))

\* What closing the session leaves in memory: a clean session forgets all.
Closed(c) == IF mode = "clean" THEN [NoLists EXCEPT !.seqno = c.seqno] ELSE c

Fault == faults < MaxFaults /\ faults' = faults + 1

-----------------------------------------------------------------------------
\* Files.  Without persistence the operations are not there.
Filed(ops) == IF mode = "persistent" THEN ops ELSE <<>>

After(d, o) == {f \in d : ~SameKey(f, o.file)} \cup
               (IF o.op = "put" THEN {o.file} ELSE {})

DiskStep ==
    /\ todo # <<>>
    /\ disk' = After(disk, Head(todo))
    /\ todo' = Tail(todo)
    /\ UNCHANGED <<mode, relDup, alive, up, client, held, run, stalled,
                   toBroker, toClient, broker, app, faults>>

FilesOf(d, kind) == {f \in d : f.kind = kind}

\* Fault: PUBRELs whose PUBLISH is gone stay on disk.
WithOrphans(d) == d

\* A PUBREL without its PUBLISH is removed when the files are read back.
WithoutOrphans(d) ==
    {f \in d : f.kind = "sc" => \E g \in d : g.kind = "s" /\ g.n = f.n}

\* Each file is put into its list by the number in its name (insertInOrder).
ByNumber(S) ==
    CHOOSE s \in [1..Cardinality(S) -> S] :
        \A i, j \in DOMAIN s : i < j => s[i].n < s[j].n

\* Fault: the restored list is left in the order of the ids.
WrapMsgIDNot(s) == s

\* MQTTPersistence_wrapMsgID: the list starts after its largest gap.
WrapMsgID(s) ==
    LET n == Len(s)
        gap(i) == s[i].id - s[i - 1].id
        wide == {i \in 2..n : /\ gap(i) > (MaxId - s[n].id) + s[1].id
                              /\ \A j \in 2..n : gap(j) <= gap(i)}
        first == Min(wide)
    IN IF wide = {} THEN s ELSE SubSeq(s, first, n) \o SubSeq(s, 1, first - 1)

Restored(d) ==
    LET sent == ByNumber(FilesOf(d, "s"))
        queued == ByNumber(FilesOf(d, "q"))
        released(id) == \E f \in d : f.kind = "sc" /\ f.n = id
        entry(f) == [id |-> f.n, qos |-> f.qos, msg |-> f.msg,
                     next |-> IF released(f.n) THEN "PUBCOMP"
                              ELSE IF f.qos = 2 THEN "PUBREC" ELSE "PUBACK"]
    IN [out   |-> WrapMsgID([i \in DOMAIN sent |-> entry(sent[i])]),
        inb   |-> {[id |-> f.n, msg |-> f.msg] : f \in FilesOf(d, "r")},
        queue |-> [i \in DOMAIN queued |-> [msg |-> queued[i].msg, seq |-> queued[i].n]],
        msgID |-> 0,
        seqno |-> IF queued = <<>> THEN 0 ELSE Last(queued).n]

-----------------------------------------------------------------------------
\* The connection.  Transmit(p, c): a handler that leaves the lists as c sends
\* p.  A socket that still has a packet to finish refuses, and that closes the
\* session; else the packet is written, or only a part of it.
Close(c) ==
    /\ up' = FALSE
    /\ held' = <<>>
    /\ toClient' = <<>>
    /\ run' = "cycle"
    /\ client' = Closed(c)

Stay(c) ==
    /\ client' = c
    /\ run' = IF c.queue # <<>> THEN "deliver" ELSE "cycle"
    /\ up' = up

Transmit(p, c) ==
    \/ /\ held = <<>>
       /\ toBroker' = Append(toBroker, p)
       /\ Stay(c)
       /\ UNCHANGED <<held, faults>>
    \/ /\ held = <<>>
       /\ Fault
       /\ held' = <<p>>
       /\ Stay(c)
       /\ UNCHANGED toBroker

\* A write that was cut short is finished when the socket takes more.
ContinueWrite ==
    /\ up /\ held # <<>>
    /\ toBroker' = toBroker \o held
    /\ held' = <<>>
    /\ UNCHANGED <<mode, relDup, alive, up, client, todo, disk, run, stalled,
                   toClient, broker, app, faults>>

-----------------------------------------------------------------------------
\* MQTTClient_publish, by any thread, with QoS q: the packet is written, or only
\* a part of it, or the write fails, and then the session is closed and the call
\* succeeds all the same.  A delivery the thread is at comes before the close.
Entry(id, q, m) == [id |-> id, qos |-> q, msg |-> m,
                    next |-> IF q = 2 THEN "PUBREC" ELSE "PUBACK"]

Publish(q) ==
    /\ alive /\ up /\ todo = <<>> /\ held = <<>>
    /\ Len(client.out) < MaxInflight
    /\ Len(app.published) + Len(app.offered) < MaxMsgs
    /\ LET id == AssignMsgId(client)
           m == Len(app.published) + 1
           c == [client EXCEPT !.out = Append(@, Entry(id, q, m)), !.msgID = id]
           p == Packet("PUBLISH", id, q, m, FALSE)
       IN /\ app' = [app EXCEPT !.published = Append(@, q)]
          /\ disk' = disk \cup (IF mode = "persistent" THEN {File("s", id, m, q)} ELSE {})
          /\ \/ /\ client' = c
                /\ \/ toBroker' = Append(toBroker, p) /\ UNCHANGED <<held, faults>>
                   \/ Fault /\ held' = <<p>> /\ UNCHANGED toBroker
                /\ UNCHANGED <<up, run, toClient>>
             \/ Fault /\ run # "deliver" /\ Close(c) /\ UNCHANGED toBroker
    /\ UNCHANGED <<mode, relDup, alive, todo, stalled, broker>>

\* Socket_getReadySocket: a socket with a packet to finish is not ready, but
\* another thread may write between this and the mutex of MQTTClient_cycle.
FindReady ==
    /\ alive /\ up /\ todo = <<>> /\ run = "cycle"
    /\ toClient # <<>> /\ held = <<>>
    /\ run' = "ready"
    /\ UNCHANGED <<mode, relDup, alive, up, client, held, todo, disk, stalled,
                   toBroker, toClient, broker, app, faults>>

\* MQTTClient_cycle takes packet p from the socket.
Reads(type, p) ==
    /\ alive /\ up /\ todo = <<>> /\ run = "ready"
    /\ toClient # <<>>
    /\ p = Head(toClient)
    /\ p.type = type

\* A handler that answers nothing.
Silent(c) ==
    /\ Stay(c)
    /\ toClient' = Tail(toClient)
    /\ UNCHANGED <<held, toBroker, faults>>

Answer(p, c) ==
    \/ Transmit(p, c) /\ toClient' = Tail(toClient)
    \/ held # <<>> /\ Close(c) /\ UNCHANGED <<toBroker, faults>>

Queued(c, m) == [c EXCEPT !.queue = Append(@, [msg |-> m, seq |-> c.seqno + 1]),
                          !.seqno = @ + 1]
\* Fault: the file is named after the counter before it is advanced.
QueueFileEarly(m) == Put(File("q", client.seqno, m, 0))

QueueFile(m) == Put(File("q", client.seqno + 1, m, 0))

HandlePublish1(p) ==
    /\ p.qos = 1
    /\ IF held # <<>>
       THEN Answer(Ack("PUBACK", p.id), client) /\ todo' = <<>>
       ELSE /\ Answer(Ack("PUBACK", p.id), Queued(client, p.msg))
            /\ todo' = Filed(<<QueueFile(p.msg)>>)
    /\ UNCHANGED disk

\* MQTTPacket_Factory has filed the message before the handler looks at it.
HandlePublish2(p) ==
    LET kept == {e \in client.inb : e.id # p.id} \cup {[id |-> p.id, msg |-> p.msg]}
    IN /\ p.qos = 2
       /\ disk' = IF mode = "persistent"
                  THEN After(disk, Put(File("r", p.id, p.msg, 2))) ELSE disk
       /\ IF held # <<>> THEN Answer(Ack("PUBREC", p.id), client)
          ELSE Answer(Ack("PUBREC", p.id), [client EXCEPT !.inb = kept])
       /\ todo' = <<>>

HandlePublishes ==
    /\ \E p \in {toClient[i] : i \in DOMAIN toClient} :
          Reads("PUBLISH", p) /\ (HandlePublish1(p) \/ HandlePublish2(p))
    /\ UNCHANGED <<mode, relDup, alive, stalled, broker, app>>

Over(i) ==
    LET e == client.out[i]
    IN /\ Silent([client EXCEPT !.out = RemoveAt(@, i)])
       /\ todo' = Filed(<<Rm("s", e.id), Rm("sc", e.id)>>)

Ignored == Silent(client) /\ UNCHANGED todo

HandlePubacks ==
    /\ \E p \in {toClient[i] : i \in DOMAIN toClient} :
          /\ Reads("PUBACK", p)
          /\ \/ \E i \in Outbound(p.id) : client.out[i].qos = 1 /\ Over(i)
             \/ (\A i \in Outbound(p.id) : client.out[i].qos # 1) /\ Ignored
    /\ UNCHANGED <<mode, relDup, alive, disk, stalled, broker, app>>

HandlePubcomps ==
    /\ \E p \in {toClient[i] : i \in DOMAIN toClient} :
          /\ Reads("PUBCOMP", p)
          /\ \/ \E i \in Outbound(p.id) : client.out[i].next = "PUBCOMP" /\ Over(i)
             \/ (\A i \in Outbound(p.id) : client.out[i].next # "PUBCOMP") /\ Ignored
    /\ UNCHANGED <<mode, relDup, alive, disk, stalled, broker, app>>

\* The PUBREL is filed, sent and awaited, whether or not it could be written.
HandlePubrecs ==
    /\ \E p \in {toClient[i] : i \in DOMAIN toClient} :
          /\ Reads("PUBREC", p)
          /\ \/ \E i \in Outbound(p.id) :
                  /\ client.out[i].next = "PUBREC"
                  /\ Answer(Ack("PUBREL", p.id), [client EXCEPT !.out[i].next = "PUBCOMP"])
                  /\ disk' = disk \cup (IF mode = "persistent"
                                        THEN {File("sc", p.id, 0, 0)} ELSE {})
             \/ /\ \A i \in Outbound(p.id) : client.out[i].next # "PUBREC"
                /\ Silent(client) /\ UNCHANGED disk
    /\ UNCHANGED <<mode, relDup, alive, todo, stalled, broker, app>>

\* Fault: a released message stays in the inbound list.
HandlePubrelsKeeping ==
    /\ \E p \in {toClient[i] : i \in DOMAIN toClient} :
          /\ Reads("PUBREL", p) /\ held = <<>>
          /\ \E e \in Inbound(p.id) :
                /\ Answer(Ack("PUBCOMP", p.id), Queued(client, e.msg))
                /\ todo' = Filed(<<QueueFile(e.msg), Rm("r", p.id)>>)
    /\ UNCHANGED <<mode, relDup, alive, disk, stalled, broker, app>>

HandlePubrels ==
    /\ \E p \in {toClient[i] : i \in DOMAIN toClient} :
          /\ Reads("PUBREL", p)
          /\ \/ \E e \in Inbound(p.id) :
                  LET c == [client EXCEPT !.inb = @ \ {e}]
                  IN IF held # <<>>
                     THEN Answer(Ack("PUBCOMP", p.id), client) /\ UNCHANGED todo
                     ELSE /\ Answer(Ack("PUBCOMP", p.id), Queued(c, e.msg))
                          /\ todo' = Filed(<<QueueFile(e.msg), Rm("r", p.id)>>)
             \/ Inbound(p.id) = {} /\ p.dup /\ Answer(Ack("PUBCOMP", p.id), client) /\ UNCHANGED todo
             \/ Inbound(p.id) = {} /\ ~p.dup /\ Silent(client) /\ UNCHANGED todo
    /\ UNCHANGED <<mode, relDup, alive, disk, stalled, broker, app>>

\* Fault: a PINGRESP does not make the thread look at the queue.
HandlePingrespsOnly == FALSE /\ UNCHANGED vars

\* A PINGRESP, which the keep-alive makes arrive again and again.
HandlePingresps ==
    /\ alive /\ up /\ todo = <<>> /\ run = "cycle" /\ toClient = <<>>
    /\ client.queue # <<>>
    /\ run' = "deliver"
    /\ UNCHANGED <<mode, relDup, alive, up, client, held, todo, disk, stalled,
                   toBroker, toClient, broker, app, faults>>

\* MQTTClient_run calls messageArrived for the first entry of the queue.
Deliver ==
    /\ alive /\ todo = <<>> /\ run = "deliver"
    /\ run' = "cycle"
    /\ \/ /\ app' = [app EXCEPT !.arrived = Append(@, Head(client.queue).msg)]
          /\ client' = [client EXCEPT !.queue = Tail(@)]
          /\ todo' = Filed(<<Rm("q", Head(client.queue).seq)>>)
          /\ UNCHANGED faults
       \/ Fault /\ UNCHANGED <<client, todo, app>>
    /\ UNCHANGED <<mode, relDup, alive, up, held, disk, stalled, toBroker, toClient, broker>>

-----------------------------------------------------------------------------
\* The connection is lost: the client notices, the broker may still read what
\* it was sent.
Drop ==
    /\ alive /\ up /\ todo = <<>> /\ run # "deliver" /\ Fault
    /\ Close(client)
    /\ UNCHANGED <<mode, relDup, alive, todo, disk, stalled, toBroker, broker, app>>

\* The process is killed, in the middle of a handler perhaps.
Crash ==
    /\ alive /\ Fault
    /\ alive' = FALSE /\ up' = FALSE
    /\ client' = NoLists
    /\ held' = <<>> /\ todo' = <<>> /\ toClient' = <<>> /\ run' = "cycle"
    /\ app' = [app EXCEPT !.crashes = @ + 1]
    /\ UNCHANGED <<mode, relDup, disk, stalled, toBroker, broker>>

\* MQTTClient_create in the process that takes over.
Create ==
    /\ ~alive /\ alive' = TRUE
    /\ client' = Restored(disk)
    /\ disk' = WithoutOrphans(disk)
    /\ UNCHANGED <<mode, relDup, up, held, todo, run, stalled, toBroker, toClient,
                   broker, app, faults>>

\* Fault: the PUBLISH is repeated even when the PUBREL is what is missing.
RetryPublish(e) == Packet("PUBLISH", e.id, e.qos, e.msg, TRUE)

\* What MQTTProtocol_retries sends for an entry of the outbound list.
Retry(e) == IF e.next = "PUBCOMP" THEN Ack("PUBREL", e.id)
            ELSE Packet("PUBLISH", e.id, e.qos, e.msg, TRUE)

\* What the broker repeats for an entry of its own.
BrokerRetry(e) == IF e.next = "PUBCOMP" THEN [Ack("PUBREL", e.id) EXCEPT !.dup = relDup]
                  ELSE Packet("PUBLISH", e.id, e.qos, e.msg, TRUE)

\* MQTTClient_connect up to the retries: a clean session is emptied on both
\* sides; in the other the list is sent again in its order, up to the first
\* packet that is only partly written.  A PUBREL partly written counts as an
\* error and closes the session again.
Connect ==
    /\ alive /\ ~up /\ todo = <<>>
    /\ broker' = IF mode = "clean" THEN NoSession ELSE broker
    /\ LET out == Closed(client).out
           repeated == [i \in DOMAIN out |-> Retry(out[i])]
           answers == [i \in DOMAIN broker'.out |-> BrokerRetry(broker'.out[i])]
       IN \/ /\ up' = TRUE
             /\ client' = Closed(client)
             /\ toBroker' = repeated
             /\ toClient' = answers
             /\ stalled' = FALSE
             /\ UNCHANGED <<held, run, faults>>
          \/ \E k \in DOMAIN out :
                /\ Fault
                /\ toBroker' = SubSeq(repeated, 1, k - 1)
                /\ stalled' = (k < Len(out))
                /\ IF repeated[k].type = "PUBREL" THEN Close(client)
                   ELSE /\ up' = TRUE
                        /\ held' = <<repeated[k]>>
                        /\ client' = client
                        /\ toClient' = answers
                        /\ run' = run
    /\ UNCHANGED <<mode, relDup, alive, todo, disk, app>>

-----------------------------------------------------------------------------
\* The broker: a session like the client's, that loses nothing.
Reply(p) == IF up THEN toClient' = Append(toClient, p) ELSE UNCHANGED toClient

BrokerReads ==
    /\ toBroker # <<>>
    /\ toBroker' = Tail(toBroker)
    /\ LET p == Head(toBroker)
           mine == {i \in DOMAIN broker.out : broker.out[i].id = p.id}
           accept == app' = [app EXCEPT !.received = Append(@, p.msg)]
       IN CASE p.type = "PUBLISH" /\ p.qos = 1 ->
                 accept /\ Reply(Ack("PUBACK", p.id)) /\ UNCHANGED broker
            [] p.type = "PUBLISH" /\ p.qos = 2 ->
                 /\ IF p.id \in broker.in THEN UNCHANGED app ELSE accept
                 /\ broker' = [broker EXCEPT !.in = @ \cup {p.id}]
                 /\ Reply(Ack("PUBREC", p.id))
            [] p.type = "PUBREL" ->
                 /\ broker' = [broker EXCEPT !.in = @ \ {p.id}]
                 /\ Reply(Ack("PUBCOMP", p.id)) /\ UNCHANGED app
            [] p.type = "PUBREC" ->
                 /\ broker' = [broker EXCEPT !.out = [i \in DOMAIN @ |->
                        IF i \in mine THEN [@[i] EXCEPT !.next = "PUBCOMP"] ELSE @[i]]]
                 /\ Reply(Ack("PUBREL", p.id)) /\ UNCHANGED app
            [] p.type \in {"PUBACK", "PUBCOMP"} ->
                 /\ broker' = [broker EXCEPT !.out =
                        IF mine = {} THEN @ ELSE RemoveAt(@, Min(mine))]
                 /\ UNCHANGED <<toClient, app>>
    /\ UNCHANGED <<mode, relDup, alive, up, client, held, todo, disk, run, stalled, faults>>

\* Somebody publishes a message the client is subscribed to.
BrokerPublishes(q) ==
    /\ Len(app.published) + Len(app.offered) < MaxMsgs
    /\ up \/ mode = "persistent"
    /\ LET used == {broker.out[i].id : i \in DOMAIN broker.out}
           id == Min((1..(Len(broker.out) + 1)) \ used)
           m == Len(app.offered) + 1
       IN /\ broker' = [broker EXCEPT !.out = Append(@, Entry(id, q, m))]
          /\ Reply(Packet("PUBLISH", id, q, m, FALSE))
          /\ app' = [app EXCEPT !.offered = Append(@, q)]
    /\ UNCHANGED <<mode, relDup, alive, up, client, held, todo, disk, run, stalled,
                   toBroker, faults>>

-----------------------------------------------------------------------------
\* A client may be created long after its counter was last at 0.
Init ==
    /\ mode \in Modes /\ relDup \in BOOLEAN
    /\ alive = TRUE /\ up = FALSE
    /\ \E id \in {0, MaxId - 1} : client = [NoLists EXCEPT !.msgID = id]
    /\ held = <<>> /\ todo = <<>> /\ disk = {} /\ run = "cycle" /\ stalled = FALSE
    /\ toBroker = <<>> /\ toClient = <<>> /\ broker = NoSession
    /\ app = [published |-> <<>>, received |-> <<>>,
              offered |-> <<>>, arrived |-> <<>>, crashes |-> 0]
    /\ faults = 0

Handle == \/ HandlePublishes \/ HandlePubacks \/ HandlePubrecs
          \/ HandlePubrels \/ HandlePubcomps \/ HandlePingresps

Next ==
    \/ \E q \in Qos : Publish(q) \/ BrokerPublishes(q)
    \/ FindReady \/ Handle \/ Deliver \/ DiskStep \/ ContinueWrite
    \/ Drop \/ Crash \/ Create \/ Connect \/ BrokerReads

\* The thread of MQTTClient_run never stops cycling, sockets become writable,
\* systemd restarts the process, the application reconnects, the broker reads.
Fairness ==
    /\ WF_vars(FindReady) /\ WF_vars(Handle) /\ WF_vars(Deliver) /\ WF_vars(DiskStep)
    /\ WF_vars(ContinueWrite) /\ WF_vars(BrokerReads)
    /\ WF_vars(Create) /\ WF_vars(Connect)

Spec == Init /\ [][Next]_vars /\ Fairness
-----------------------------------------------------------------------------
Published == 1..Len(app.published)
Times(m, s) == Cardinality({i \in DOMAIN s : s[i] = m})
InList(m) == \E i \in DOMAIN client.out : client.out[i].msg = m
OnDisk(m) == \E f \in FilesOf(disk, "s") : f.msg = m

\* The variables hold what the program can hold, ids are distinct, and a
\* process that does not run has no connection.
TypeOK ==
    /\ mode \in Modes /\ {relDup, alive, up, stalled} \subseteq BOOLEAN
    /\ \A i \in DOMAIN client.out :
          /\ client.out[i].id \in 1..MaxId /\ client.out[i].qos \in Qos
          /\ client.out[i].msg \in Published
          /\ client.out[i].next \in {"PUBACK", "PUBREC", "PUBCOMP"}
          /\ \A j \in DOMAIN client.out : client.out[i].id = client.out[j].id => i = j
    /\ \A e \in client.inb : e.msg \in 1..Len(app.offered)
    /\ Len(client.out) <= MaxInflight
    /\ client.msgID \in 0..MaxId /\ client.seqno \in Nat
    /\ run \in {"cycle", "ready", "deliver"} /\ Len(held) <= 1
    /\ up => alive
    /\ held # <<>> => up

\* The promise to the application that publishes, for both kinds of session:
\* accepted messages reach the broker before their flow is over, those of
\* QoS 2 once only, across lost connections, kills and reused ids.
Promise == INSTANCE MqttDelivery WITH
    keeps <- mode = "persistent",
    accepted <- app.published,
    received <- [m \in Published |-> Times(m, app.received)],
    over <- {m \in Published : IF mode = "clean" THEN ~InList(m) ELSE ~OnDisk(m)}
DeliveryKept == Promise!Spec

\* A message the library accepted is on disk, and in memory while the process
\* runs, until the broker has it.
KeptUntilReceived ==
    mode = "persistent" =>
        \A m \in Published \ ToSet(app.received) : OnDisk(m) /\ (alive => InList(m))

\* Ids that follow each other round the circle and take up less than half of it.
InWindow(s) ==
    LET way(i) == IF s[i].id >= s[1].id THEN s[i].id - s[1].id
                  ELSE MaxId - s[1].id + s[i].id
    IN /\ \A i, j \in DOMAIN s : i < j => way(i) < way(j)
       /\ \A i \in DOMAIN s : 2 * way(i) < MaxId

\* Were the process killed between two handlers, the files would give back
\* the lists it has: every flow in its state and, as long as the ids have not
\* gone half way round while one waited, in its order; nothing queued is lost.
FilesMirrorLists ==
    (alive /\ mode = "persistent" /\ todo = <<>>) =>
        LET r == Restored(disk)
        IN /\ ToSet(r.out) = ToSet(client.out)
           /\ InWindow(client.out) => r.out = client.out
           /\ r.queue = client.queue
           /\ \A e \in client.inb : \E f \in r.inb :
                 f.id = e.id /\ (app.crashes = 0 => f.msg = e.msg)

\* The state of the session is sound, and the files alone would give it back:
\* what a restart finds is what MQTTClient_publish and the handlers promised.
SessionIsOnDisk == TypeOK /\ KeptUntilReceived /\ FilesMirrorLists

\* Without a kill, a QoS 2 message reaches messageArrived once at the most,
\* and a message the broker may forget is in the queue or was handed over.
ArrivesOnce ==
    app.crashes = 0 =>
        \A m \in DOMAIN app.offered :
            /\ app.offered[m] = 2 => Times(m, app.arrived) <= 1
            /\ mode = "persistent" =>
                  \/ \E i \in DOMAIN broker.out : broker.out[i].msg = m
                  \/ \E i \in DOMAIN client.queue : client.queue[i].msg = m
                  \/ m \in ToSet(app.arrived)

\* The broker first receives messages in the order they were published in,
\* unless a retry loop stopped half way or the ids were dealt out again by two
\* restarts.
NoOvertaking ==
    [][\A m \in Published :
          (/\ mode = "persistent" /\ ~stalled /\ app.crashes <= 1
           /\ Times(m, app.received) = 0 /\ app'.received = Append(app.received, m))
          => \A k \in 1..(m - 1) : k \in ToSet(app.received)]_vars

\* With the session kept, every published message's flow ends, whatever was
\* lost on the way, unless the retries of the last connection stopped half
\* way: nothing takes them up again.
PublicationsEnd ==
    \/ <>[]stalled
    \/ \A m \in 1..MaxMsgs :
          (mode = "persistent" /\ m \in Published) ~> ~OnDisk(m)

\* With the session kept and no kill, every message sent to the client is
\* handed to messageArrived; and the broker's flows end if it marks the
\* PUBRELs it repeats, the only ones an unknown id is answered for.
OffersArrive ==
    \A m \in 1..MaxMsgs :
        /\ (mode = "persistent" /\ m \in DOMAIN app.offered)
              ~> (m \in ToSet(app.arrived) \/ app.crashes > 0)
        /\ (mode = "persistent" /\ relDup /\ m \in DOMAIN app.offered)
              ~> (\A i \in DOMAIN broker.out : broker.out[i].msg # m)

\* MQTTClient.c:2172 says of a publish that fails to be written "Return success
\* for qos > 0 as the send will be retried automatically": what the broker has
\* not received is still in the list.
PublishedIsKept ==
    app.crashes = 0 =>
        \A m \in Published : m \in ToSet(app.received) \/ InList(m)
=============================================================================
