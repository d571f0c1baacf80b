----------------------------- MODULE MqttThreads -----------------------------
(***************************************************************************)
(* The threads of the Paho client: application threads that call connect,  *)
(* subscribe, unsubscribe and disconnect, and the background thread of     *)
(* MQTTClient_run that reads the socket for them.  A call releases the     *)
(* client's mutex while it waits for a semaphore that the background       *)
(* thread posts; the packet itself travels through the one field m->pack.  *)
(* Steps are critical sections of mqttclient_mutex; the mutexes that keep  *)
(* two connects, two subscribes and two unsubscribes apart are guards.     *)
(* The background thread starts within the 100 ms MQTTClient_connect gives *)
(* it; one client handle, protocol 3.1 and 3.1.1, plain TCP.               *)
(***************************************************************************)
EXTENDS Integers, Sequences

CONSTANTS Threads,     \* application threads
          MaxCalls,    \* bound: calls of the API
          MaxFaults,   \* bound: refusals, closures and lost keep-alives together
          Messages,    \* bound: messages the broker publishes, each once
          MaxPosts     \* bound: what a semaphore can count

ASSUME BoundsAssumption ==
    /\ MaxCalls \in Nat /\ MaxFaults \in Nat
    /\ MaxPosts \in Nat \ {0}

VARIABLES
    c,        \* struct Clients: state (connect_state), connected, open (net.socket), queue
    m,        \* struct MQTTClients: rc, pack and the four semaphores
    running, tostop,   \* the static variables
    run,      \* the background thread
    app,      \* the application threads
    net,      \* the connection of the open socket, as the broker sees it
    hist      \* history: calls, faults, messages published, whether a wait was given
              \* up, and whether a packet came late: when nobody waited for it any more

vars == <<c, m, running, tostop, run, app, net, hist>>

Acks == {"CONNACK", "SUBACK", "UNSUBACK"}
Sem == [CONNACK |-> "connack", SUBACK |-> "suback", UNSUBACK |-> "unsuback"]
None == "none"

ASSUME MessagesAssumption == Messages \cap (Acks \cup {None}) = {}

Gone == [tcp |-> "none", pending |-> FALSE, error |-> FALSE, eof |-> FALSE,
         asked |-> <<>>, inbox |-> <<>>]
AtRest == [pc |-> "idle", version |-> 4, got |-> None, ok |-> TRUE]
NoRun == [pc |-> "none", rc |-> "error", pack |-> None, msg |-> None]

Post(s) == [m EXCEPT ![s] = IF @ < MaxPosts THEN @ + 1 ELSE @]
Fault == hist.faults < MaxFaults /\ hist' = [hist EXCEPT !.faults = @ + 1]
GivesUp == hist' = [hist EXCEPT !.gaveUp = TRUE]

\* connect holds the mutex while the background thread gets going.
Held == \E t \in Threads : app[t].pc = "launch"
Free == ~Held

-----------------------------------------------------------------------------
\* closeSession, for a clean session as the daemons have; it says nothing to
\* those who wait, and leaves what they would take in m.
Closed == [c EXCEPT !.state = "off", !.connected = FALSE, !.open = FALSE, !.queue = <<>>]

CloseSession == c' = Closed /\ net' = Gone

\* MQTTClient_stop: the only handle is closed, so the background thread is told
\* to end; a thread that is not that one waits for it.
Stops(t, ok) ==
    IF running /\ ~tostop
    THEN /\ tostop' = TRUE
         /\ app' = [app EXCEPT ![t] = [@ EXCEPT !.pc = "stopping", !.got = None, !.ok = ok]]
    ELSE /\ UNCHANGED tostop
         /\ app' = [app EXCEPT ![t] = [AtRest EXCEPT !.ok = ok]]

Returns(t, ok) ==
    /\ app' = [app EXCEPT ![t] = [AtRest EXCEPT !.ok = ok]]
    /\ UNCHANGED tostop

\* It ends, or it is in a callback for longer than the ten seconds.
StopWaits(t) ==
    /\ app[t].pc = "stopping" /\ Free
    /\ \/ ~running /\ UNCHANGED hist
       \/ run.pc = "calling" /\ UNCHANGED hist
    /\ app' = [app EXCEPT ![t] = [AtRest EXCEPT !.ok = app[t].ok]]
    /\ UNCHANGED <<c, m, running, tostop, run, net>>
-----------------------------------------------------------------------------
\* MQTTClient_connect by a thread that knows itself disconnected.
Call == hist.calls < MaxCalls

Connect(t) ==
    /\ app[t].pc = "idle" /\ Free /\ Call
    /\ ~c.connected /\ c.state = "off"
    /\ \A u \in Threads : app[u].pc \notin {"connect", "connack", "accept"}
    /\ app' = [app EXCEPT ![t] = [AtRest EXCEPT !.pc = "launch"]]
    /\ run' = IF running THEN run ELSE [NoRun EXCEPT !.pc = "starting"]
    /\ hist' = [hist EXCEPT !.calls = @ + 1]
    /\ UNCHANGED <<c, m, running, tostop, net>>

\* A version that failed: 3.1.1 is followed by 3.1, which is followed by stop.
AttemptFails(t) ==
    IF app[t].version = 4
    THEN /\ app' = [app EXCEPT ![t] = [AtRest EXCEPT !.pc = "launch", !.version = 3]]
         /\ run' = IF running THEN run ELSE [NoRun EXCEPT !.pc = "starting"]
         /\ UNCHANGED tostop
    ELSE Stops(t, FALSE) /\ UNCHANGED run

\* MQTTProtocol_connect: the TCP connection is there at once, under way, or
\* impossible.
Launch(t) ==
    /\ app[t].pc = "launch" /\ running
    /\ \/ /\ c' = [c EXCEPT !.state = "tcp", !.open = TRUE]
          /\ net' = [Gone EXCEPT !.tcp = "pending", !.pending = TRUE]
          /\ app' = [app EXCEPT ![t].pc = "connect"]
          /\ UNCHANGED <<hist, run, tostop>>
       \/ /\ c' = [c EXCEPT !.state = "connack", !.open = TRUE]
          /\ net' = [Gone EXCEPT !.tcp = "up", !.asked = <<"CONNACK">>]
          /\ app' = [app EXCEPT ![t].pc = "connack"]
          /\ UNCHANGED <<hist, run, tostop>>
       \/ Fault /\ AttemptFails(t) /\ UNCHANGED <<c, net>>
    /\ UNCHANGED <<m, running>>

\* The wait for the TCP connection: a post, or the end of patience.
AwaitTcp(t) ==
    /\ app[t].pc = "connect" /\ Free
    /\ \/ /\ m.connect > 0 /\ m.rc = "ok" /\ net.tcp # "refused"
          /\ m' = [m EXCEPT !.connect = @ - 1]
          /\ c' = [c EXCEPT !.state = "connack"]
          /\ net' = [net EXCEPT !.asked = Append(@, "CONNACK")]
          /\ app' = [app EXCEPT ![t].pc = "connack"]
          /\ UNCHANGED <<hist, run, tostop>>
       \/ /\ m.connect > 0 /\ (m.rc = "error" \/ net.eof)
          /\ m' = [m EXCEPT !.connect = @ - 1]
          /\ CloseSession /\ AttemptFails(t) /\ UNCHANGED hist
       \/ GivesUp /\ CloseSession /\ AttemptFails(t) /\ UNCHANGED m
    /\ UNCHANGED running

\* MQTTClient_waitfor has no mutex when it takes m->pack, after the post or
\* after the timeout; the thread goes on when it has the mutex again.
Take(t, from, to, sem) ==
    /\ app[t].pc = from
    /\ \/ /\ m[sem] > 0
          /\ m' = [m EXCEPT ![sem] = @ - 1]
          /\ UNCHANGED hist
       \/ GivesUp /\ UNCHANGED m
    /\ app' = [app EXCEPT ![t].pc = to, ![t].got = m.pack]
    /\ UNCHANGED <<c, running, tostop, run, net>>

AwaitConnack(t) == Take(t, "connack", "accept", "connack")
AwaitSuback(t) == Take(t, "suback", "subscribed", "suback")
AwaitUnsuback(t) == Take(t, "unsuback", "unsubscribed", "unsuback")

\* The packet is read as a Connack whatever it is; of another kind of packet
\* the code at that place may be anything.
Accepts(t) ==
    /\ app[t].pc = "accept" /\ Free
    /\ IF app[t].got = None
       THEN CloseSession /\ AttemptFails(t) /\ UNCHANGED m
       ELSE /\ m' = [m EXCEPT !.pack = None]
            /\ \/ /\ c' = [c EXCEPT !.state = "off", !.connected = TRUE, !.queue = <<>>]
                  /\ Returns(t, TRUE)
                  /\ UNCHANGED <<net, run>>
               \/ /\ app[t].got # "CONNACK"
                  /\ CloseSession /\ AttemptFails(t)
    /\ UNCHANGED <<running, hist>>
-----------------------------------------------------------------------------
\* MQTTClient_subscribe and MQTTClient_unsubscribe.
Ask(t, ack, pc, others) ==
    /\ app[t].pc = "idle" /\ Free /\ Call /\ c.connected
    /\ \A u \in Threads : app[u].pc \notin others
    /\ hist' = [hist EXCEPT !.calls = @ + 1]
    /\ \/ /\ c.open
          /\ net' = [net EXCEPT !.asked = Append(@, ack)]
          /\ app' = [app EXCEPT ![t] = [AtRest EXCEPT !.pc = pc]]
          /\ UNCHANGED <<c, tostop>>
       \/ /\ ~c.open \/ net.eof
          /\ CloseSession /\ Stops(t, FALSE)
    /\ UNCHANGED <<m, running, run>>

Subscribe(t) == Ask(t, "SUBACK", "suback", {"suback", "subscribed"})
Unsubscribe(t) == Ask(t, "UNSUBACK", "unsuback", {"unsuback", "unsubscribed"})

\* Fault: the packet taken stays in m->pack.
AnsweredKeepsPack(t, pc) ==
    /\ app[t].pc = pc /\ Free
    /\ IF app[t].got = None
       THEN CloseSession /\ Stops(t, FALSE)
       ELSE Returns(t, TRUE) /\ UNCHANGED <<c, net>>
    /\ UNCHANGED <<m, running, run, hist>>

\* Without a packet the call gives the connection up, and reports it lost.
Answered(t, pc) ==
    /\ app[t].pc = pc /\ Free
    /\ IF app[t].got = None
       THEN CloseSession /\ Stops(t, FALSE) /\ UNCHANGED m
       ELSE /\ m' = [m EXCEPT !.pack = None]
            /\ Returns(t, TRUE)
            /\ UNCHANGED <<c, net>>
    /\ UNCHANGED <<running, run, hist>>

Subscribed(t) == Answered(t, "subscribed")
Unsubscribed(t) == Answered(t, "unsubscribed")

\* MQTTClient_disconnect: while the flows in flight finish, the background
\* thread may lose the connection itself.
Disconnect(t) ==
    /\ app[t].pc = "idle" /\ Free /\ Call
    /\ IF c.connected
       THEN /\ c' = [c EXCEPT !.state = "closing"]
            /\ app' = [app EXCEPT ![t] = [AtRest EXCEPT !.pc = "draining"]]
            /\ UNCHANGED <<net, tostop>>
       ELSE CloseSession /\ Stops(t, TRUE)
    /\ hist' = [hist EXCEPT !.calls = @ + 1]
    /\ UNCHANGED <<m, running, run>>

Drained(t) ==
    /\ app[t].pc = "draining" /\ Free
    /\ CloseSession /\ Stops(t, TRUE)
    /\ UNCHANGED <<m, running, run, hist>>
-----------------------------------------------------------------------------
\* The background thread.
RunStarts ==
    /\ run.pc = "starting"
    /\ running' = TRUE
    /\ run' = [run EXCEPT !.pc = "loop"]
    /\ UNCHANGED <<c, m, tostop, app, net, hist>>

Exits == /\ run' = NoRun
         /\ running' = FALSE /\ tostop' = FALSE

\* Nothing to read for a while, and then nothing more to do.
RunStops ==
    /\ run.pc = "loop" /\ tostop /\ Free
    /\ Exits
    /\ UNCHANGED <<c, m, app, net, hist>>

\* Fault: the end of the stream is not readable.
ReadyToRead == c.open /\ (net.pending \/ net.inbox # <<>>) /\ net.tcp # "pending"

\* isReady: a connection under way is ready once, when it is there or refused;
\* then whenever there is something to read.
Ready == /\ c.open
         /\ \/ net.pending /\ net.tcp # "pending"
            \/ ~net.pending /\ (net.tcp = "refused" \/ net.inbox # <<>> \/ net.eof)

RunFinds ==
    /\ run.pc = "loop" /\ Ready
    /\ run' = [run EXCEPT !.pc = "found"]
    /\ net' = [net EXCEPT !.pending = FALSE]
    /\ UNCHANGED <<c, m, running, tostop, app, hist>>

\* MQTTClient_cycle: the socket found may have been closed meanwhile, and
\* opened again under the same number.
RunReads ==
    /\ run.pc = "found" /\ Free
    /\ \/ /\ ~c.open \/ (c.state # "tcp" /\ net.inbox = <<>> /\ net.eof)
          /\ run' = [run EXCEPT !.pc = "read", !.rc = "error", !.pack = None]
          /\ UNCHANGED <<c, net>>
       \/ /\ c.open /\ (c.state = "tcp" \/ (net.inbox = <<>> /\ ~net.eof))
          /\ run' = [run EXCEPT !.pc = "read", !.rc = "ok", !.pack = None]
          /\ UNCHANGED <<c, net>>
       \/ /\ c.open /\ c.state # "tcp" /\ net.inbox # <<>>
          /\ LET p == Head(net.inbox)
             IN /\ run' = [run EXCEPT !.pc = "read", !.rc = "ok",
                                      !.pack = IF p \in Acks THEN p ELSE None]
                /\ c' = IF p \in Acks THEN c ELSE [c EXCEPT !.queue = Append(@, p)]
          /\ net' = [net EXCEPT !.inbox = Tail(@)]
    /\ UNCHANGED <<m, running, tostop, app, hist>>

\* No PINGRESP came back: MQTTProtocol_keepalive closes the session.
KeepAliveFails ==
    /\ run.pc = "loop" /\ Free /\ c.connected
    /\ Fault
    /\ CloseSession
    /\ tostop' = TRUE
    /\ UNCHANGED <<m, running, run, app>>

\* What the packet read is good for; with none, a TCP connection's end is told.
\* SO_ERROR is cleared when it is read.
Told(p) ==
    IF p # None
    THEN /\ m' = [Post(Sem[p]) EXCEPT !.pack = p]
         /\ hist' = [hist EXCEPT !.late = @ \/ \A t \in Threads : app[t].pc # Sem[p]]
         /\ UNCHANGED net
    ELSE /\ UNCHANGED hist
         /\ IF c.state = "tcp"
            THEN /\ m' = [Post("connect") EXCEPT !.rc = IF net.error THEN "error" ELSE "ok"]
                 /\ net' = [net EXCEPT !.error = FALSE]
            ELSE UNCHANGED <<m, net>>

\* Fault: the thread ends with a connect under way, too.
ReadFailedEnds ==
    /\ m' = IF ~c.connected /\ c.state = "connack" THEN Post("connack") ELSE m
    /\ Exits
    /\ IF c.connected THEN CloseSession ELSE UNCHANGED <<c, net>>

\* The thread ends with a connection that was made; a connect under way is told,
\* and told again as long as it has not closed the socket.
ReadFailed ==
    \/ c.connected /\ CloseSession /\ Exits /\ UNCHANGED m
    \/ /\ ~c.connected
       /\ m' = IF c.state = "connack" THEN Post("connack") ELSE m
       /\ run' = [NoRun EXCEPT !.pc = "loop"]
       /\ UNCHANGED <<c, net, running, tostop>>

RunHandles ==
    /\ run.pc = "read" /\ Free
    /\ CASE tostop -> Exits /\ UNCHANGED <<c, m, net, hist>>
         [] ~tostop /\ ~c.open ->
               run' = [NoRun EXCEPT !.pc = "loop"]
               /\ UNCHANGED <<c, m, net, hist, running, tostop>>
         [] ~tostop /\ c.open /\ run.rc = "error" ->
               ReadFailed /\ UNCHANGED hist
         [] ~tostop /\ c.open /\ run.rc = "ok" /\ c.queue # <<>> ->
               run' = [run EXCEPT !.pc = "calling", !.msg = Head(c.queue)]
               /\ UNCHANGED <<c, m, net, hist, running, tostop>>
         [] ~tostop /\ c.open /\ run.rc = "ok" /\ c.queue = <<>> ->
               /\ Told(run.pack)
               /\ run' = [NoRun EXCEPT !.pc = "loop"]
               /\ UNCHANGED <<c, running, tostop>>
    /\ UNCHANGED app

\* messageArrived returns: its entry, the first one, leaves the queue if it is
\* still there, and the packet read before the callback is handed on.
Called ==
    /\ run.pc = "calling" /\ Free
    /\ c' = [c EXCEPT !.queue = IF @ # <<>> /\ Head(@) = run.msg THEN Tail(@) ELSE @]
    /\ Told(run.pack)
    /\ IF tostop THEN Exits
       ELSE run' = [NoRun EXCEPT !.pc = "loop"] /\ UNCHANGED <<running, tostop>>
    /\ UNCHANGED app
-----------------------------------------------------------------------------
\* The broker and the network.
TcpEnds ==
    /\ net.tcp = "pending"
    /\ \/ net' = [net EXCEPT !.tcp = "up"] /\ UNCHANGED hist
       \/ Fault /\ net' = [net EXCEPT !.tcp = "refused", !.error = TRUE, !.eof = TRUE]
    /\ UNCHANGED <<c, m, running, tostop, run, app>>

BrokerAnswers ==
    /\ net.tcp = "up" /\ ~net.eof /\ net.asked # <<>>
    /\ net' = [net EXCEPT !.asked = Tail(@), !.inbox = Append(@, Head(net.asked))]
    /\ UNCHANGED <<c, m, running, tostop, run, app, hist>>

BrokerPublishes ==
    /\ net.tcp = "up" /\ ~net.eof /\ c.connected
    /\ \E p \in Messages \ hist.published :
           /\ hist' = [hist EXCEPT !.published = @ \cup {p}]
           /\ net' = [net EXCEPT !.inbox = Append(@, p)]
    /\ UNCHANGED <<c, m, running, tostop, run, app>>

BrokerCloses ==
    /\ net.tcp = "up" /\ ~net.eof /\ Fault
    /\ net' = [net EXCEPT !.eof = TRUE, !.asked = <<>>]
    /\ UNCHANGED <<c, m, running, tostop, run, app>>
-----------------------------------------------------------------------------
Init ==
    /\ c = [state |-> "off", connected |-> FALSE, open |-> FALSE, queue |-> <<>>]
    /\ m = [rc |-> "ok", pack |-> None, connect |-> 0, connack |-> 0,
            suback |-> 0, unsuback |-> 0]
    /\ running = FALSE /\ tostop = FALSE /\ run = NoRun
    /\ app = [t \in Threads |-> AtRest]
    /\ net = Gone
    /\ hist = [calls |-> 0, faults |-> 0, published |-> {},
               gaveUp |-> FALSE, late |-> FALSE]

AppStep(t) ==
    \/ Launch(t) \/ AwaitTcp(t) \/ AwaitConnack(t) \/ Accepts(t)
    \/ AwaitSuback(t) \/ Subscribed(t) \/ AwaitUnsuback(t) \/ Unsubscribed(t)
    \/ Drained(t) \/ StopWaits(t)

RunStep == RunStarts \/ RunStops \/ RunFinds \/ RunReads \/ RunHandles \/ Called

Next ==
    \/ \E t \in Threads : Connect(t) \/ Subscribe(t) \/ Unsubscribe(t) \/ Disconnect(t)
    \/ \E t \in Threads : AppStep(t)
    \/ RunStep \/ KeepAliveFails
    \/ TcpEnds \/ BrokerAnswers \/ BrokerPublishes \/ BrokerCloses

\* Threads are scheduled, a wait ends with its timeout, the operating system
\* ends a connection attempt; the broker need not answer.
Fairness ==
    /\ \A t \in Threads : WF_vars(AppStep(t))
    /\ WF_vars(RunStep) /\ WF_vars(TcpEnds)

Spec == Init /\ [][Next]_vars /\ Fairness
-----------------------------------------------------------------------------
(* Properties *)

Client     == [state : {"off", "tcp", "connack", "closing"}, connected : BOOLEAN,
               open : BOOLEAN, queue : Seq(Messages)]
Shared     == [rc : {"ok", "error"}, pack : Acks \cup {None}, connect : 0 .. MaxPosts,
               connack : 0 .. MaxPosts, suback : 0 .. MaxPosts, unsuback : 0 .. MaxPosts]
Reader     == [pc : {"none", "starting", "loop", "found", "read", "calling"},
               rc : {"ok", "error"}, pack : Acks \cup {None}, msg : Messages \cup {None}]
Caller     == [pc : {"idle", "launch", "connect", "connack", "accept", "suback",
                     "subscribed", "unsuback", "unsubscribed", "draining", "stopping"},
               version : {3, 4}, got : Acks \cup {None}, ok : BOOLEAN]
Connection == [tcp : {"none", "pending", "up", "refused"}, pending : BOOLEAN,
               error : BOOLEAN, eof : BOOLEAN, asked : Seq(Acks),
               inbox : Seq(Acks \cup Messages)]
History    == [calls : 0 .. MaxCalls, faults : 0 .. MaxFaults, published : SUBSET Messages,
               gaveUp : BOOLEAN, late : BOOLEAN]

TypeOK ==
    /\ c \in Client /\ m \in Shared /\ run \in Reader /\ app \in [Threads -> Caller]
    /\ net \in Connection /\ hist \in History
    /\ running \in BOOLEAN /\ tostop \in BOOLEAN
    /\ running <=> run.pc \notin {"none", "starting"}
    /\ tostop => running

\* The kind of packet a thread waits for.
Due(pc) == CASE pc = "accept" -> "CONNACK" [] pc = "subscribed" -> "SUBACK"
             [] pc = "unsubscribed" -> "UNSUBACK" [] OTHER -> None

\* A thread never takes another call's packet from m->pack, whatever broke, as
\* long as no packet came late.
TakesItsAnswer ==
    ~hist.late => \A t \in Threads : app[t].got \in {Due(app[t].pc), None}

\* Posts that nobody consumed are the remains of a broken connection or of a
\* wait given up: before the first of these every call succeeds.
HealthyCallsSucceed ==
    (hist.faults = 0 /\ ~hist.gaveUp) => \A t \in Threads : app[t].ok

\* Each call gets the answer it waits for, and that in time (MQTTClient_waitfor,
\* MQTTClient_run).
CallsAreAnswered == TypeOK /\ TakesItsAnswer /\ HealthyCallsSucceed

\* While the client counts as connected, a background thread reads for it and
\* has not been told to end, also when an earlier stop did not wait for its end;
\* a packet that came late can make a call believe in a connection.
ConnectedIsServed ==
    ~hist.late /\ c.connected => running /\ ~tostop

\* Every call returns.
CallsReturn == \A t \in Threads : app[t].pc # "idle" ~> app[t].pc = "idle"

\* A connection the broker closed does not count as connected for ever.
ClosureIsNoticed == (c.connected /\ net.eof) ~> (~c.connected \/ hist.late)

\* Neither a call nor the service of a closed connection goes on for ever.
NothingHangs == CallsReturn /\ ClosureIsNoticed
=============================================================================
