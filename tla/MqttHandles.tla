---------------------------- MODULE MqttHandles -----------------------------
(***************************************************************************)
(* Several Paho clients in one program without callbacks: one thread       *)
(* creates and destroys them, publishes and waits for completion, and      *)
(* receives (src/gcs_cpd_src/MQTTClient.c).  Whichever call runs, each     *)
(* MQTTClient_cycle serves whatever socket is ready, of any client, and    *)
(* its rc keeps the last error until another packet is read.  Sessions are *)
(* clean and QoS is 1; how a connection is made is left to MqttThreads,    *)
(* what packets do to the lists to MqttSession.                            *)
(***************************************************************************)
EXTENDS Naturals, Sequences

CONSTANTS Clients,
          MaxSent,       \* bound: messages to a client in one connection
          MaxTokens,     \* bound: publications of a client in one connection
          MaxConnects,   \* bound: connections altogether
          MaxLost        \* bound: connections broken, or given up by keep-alive

ASSUME ClientsAssumption == Clients # {}

VARIABLES lib,           \* library_initialized
          handles,       \* the clients in the list: nothing depends on its order
          cl,            \* struct Clients: connected, closing (DISCONNECTING), queue,
                         \* and the tokens in outboundMsgs, whose order nothing depends on
          streams,          \* the socket: what the broker sent, whether it closed
          call,          \* the call under way: [op, of, rc, yields], and its token
          result,        \* of the last wait: [of, token] that it called complete
          hist           \* history: per client messages sent and taken and tokens
                         \* given and acknowledged in this connection, and the
                         \* connections made and lost and wrongly closed

handleVars == <<lib, handles, cl, streams, call, result, hist>>

Fresh  == [connected |-> FALSE, closing |-> FALSE, queue |-> <<>>, out |-> {}]
Silent == [inbox |-> <<>>, eof |-> FALSE]
NoCall == [op |-> "none", of |-> CHOOSE x \in Clients : TRUE, rc |-> "ok", token |-> 0, yields |-> FALSE]
Nothing == [of |-> NoCall.of, token |-> 0]
Clean(h, x) == [h EXCEPT !.sent[x] = 0, !.got[x] = <<>>, !.given[x] = 0, !.acked[x] = {}]

HandlesInit ==
    /\ lib = FALSE /\ handles = {}
    /\ cl = [x \in Clients |-> Fresh] /\ streams = [x \in Clients |-> Silent]
    /\ call = NoCall /\ result = Nothing
    /\ hist = [sent |-> [x \in Clients |-> 0], got |-> [x \in Clients |-> <<>>],
               given |-> [x \in Clients |-> 0], acked |-> [x \in Clients |-> {}],
               connects |-> 0, lost |-> 0, wronged |-> FALSE]

----------------------------------------------------------------------------
\* The first client initialises the library.
Create(x) ==
    /\ call.op = "none" /\ x \notin handles
    /\ lib' = TRUE /\ handles' = handles \cup {x}
    /\ cl' = [cl EXCEPT ![x] = Fresh] /\ streams' = [streams EXCEPT ![x] = Silent]
    /\ UNCHANGED <<call, result, hist>>

\* MQTTClient_terminate, with the last client.
Terminate(rest) == lib' = (rest # {})

\* The socket of a client that is connected stays open, and is nobody's.
Destroy(x) ==
    /\ call.op = "none" /\ x \in handles
    /\ handles' = handles \ {x}
    /\ Terminate(handles')
    /\ cl' = [cl EXCEPT ![x] = Fresh] /\ streams' = [streams EXCEPT ![x] = Silent]
    /\ result' = Nothing /\ hist' = Clean(hist, x)
    /\ UNCHANGED call

\* MQTTClient_connect, when it succeeds.
Connect(x) ==
    /\ call.op = "none" /\ x \in handles /\ ~cl[x].connected /\ hist.connects < MaxConnects
    /\ cl' = [cl EXCEPT ![x].connected = TRUE] /\ streams' = [streams EXCEPT ![x] = Silent]
    /\ result' = Nothing
    /\ hist' = [Clean(hist, x) EXCEPT !.connects = @ + 1]
    /\ UNCHANGED <<lib, handles, call>>

Publish(x) ==
    /\ call.op = "none" /\ cl[x].connected /\ hist.given[x] < MaxTokens
    /\ hist' = [hist EXCEPT !.given[x] = @ + 1]
    /\ cl' = [cl EXCEPT ![x].out = @ \cup {hist.given[x] + 1}]
    /\ UNCHANGED <<lib, handles, streams, call, result>>

\* MQTTClient_getPendingDeliveryTokens.
PendingTokens(x) == cl[x].out

----------------------------------------------------------------------------
\* closeSession and cleanSession.
EmptyMessageQueue(s) == [s EXCEPT !.queue = <<>>]
Closed(s) == [EmptyMessageQueue(s) EXCEPT !.connected = FALSE, !.closing = FALSE, !.out = {}]

\* MQTTClient_cycle: no socket is ready, or that of y is; s, the new cl, and rc.
Ready(y) == cl[y].connected /\ (streams[y].inbox # <<>> \/ streams[y].eof)

Reads(y) ==
    IF streams[y].inbox = <<>> THEN [rc |-> "error", s |-> cl[y]]
    ELSE LET p == Head(streams[y].inbox)
         IN  [rc |-> "ok",
              s |-> IF p.kind = "message" THEN [cl[y] EXCEPT !.queue = Append(@, p.n)]
                                          ELSE [cl[y] EXCEPT !.out = @ \ {p.n}]]

Consumed(w, y) == [w EXCEPT ![y].inbox = IF @ = <<>> THEN <<>> ELSE Tail(@)]

\* The keep-alive in it may close the session of any client.
KeepAlive(s, y) ==
    /\ s[y].connected /\ hist.lost < MaxLost
    /\ cl' = [s EXCEPT ![y] = Closed(@)]

----------------------------------------------------------------------------
\* MQTTClient_receive of x.
Receive(x) ==
    /\ call.op = "none" /\ cl[x].connected
    /\ call' = [NoCall EXCEPT !.op = "receive", !.of = x]
    /\ UNCHANGED <<lib, handles, cl, streams, result, hist>>

DeliverMessage(x, s, h) ==
    /\ cl' = [s EXCEPT ![x].queue = Tail(@)]
    /\ hist' = [h EXCEPT !.got[x] = Append(@, Head(s[x].queue))]

\* It returns the first message there is, and then, if rc is an error, closes
\* the session, so that the messages behind it are dropped.
ReceiveReturns(x, s, rc) ==
    LET h == [hist EXCEPT !.wronged = @ \/ (rc = "error" /\ s[x].connected /\ ~streams[x].eof)]
    IN  /\ call' = NoCall
        /\ \/ /\ s[x].queue # <<>> /\ rc = "ok"
              /\ DeliverMessage(x, s, h)
           \/ /\ s[x].queue # <<>> /\ rc = "error"
              /\ cl' = [s EXCEPT ![x] = Closed(@)]
              /\ hist' = [h EXCEPT !.got[x] = Append(@, Head(s[x].queue))]
           \/ /\ s[x].queue = <<>>
              /\ cl' = IF rc = "error" THEN [s EXCEPT ![x] = Closed(@)] ELSE s
              /\ hist' = h

\* The loop goes on until a message is there, the socket of x has an error, or
\* the time is up.
Loops(x, s, rc, failed) ==
    \/ ReceiveReturns(x, s, rc)
    \/ s[x].queue = <<>> /\ ~failed /\ call' = [call EXCEPT !.rc = rc] /\ cl' = s /\ UNCHANGED hist

ReceiveReads ==
    /\ call.op = "receive"
    /\ \E y \in handles :
          /\ Ready(y)
          /\ streams' = Consumed(streams, y)
          /\ LET r == Reads(y) IN Loops(call.of, [cl EXCEPT ![y] = r.s], r.rc, y = call.of /\ r.rc = "error")
    /\ UNCHANGED <<lib, handles, result>>

\* Nothing is ready: rc keeps what an earlier cycle left.
ReceiveWaits ==
    /\ call.op = "receive"
    /\ \/ ReceiveReturns(call.of, cl, call.rc)
       \/ /\ \E y \in handles : KeepAlive(cl, y)
          /\ hist' = [hist EXCEPT !.lost = @ + 1] /\ UNCHANGED call
    /\ UNCHANGED <<lib, handles, streams, result>>

----------------------------------------------------------------------------
\* The calls that wait by MQTTClient_yield; in them a client whose socket has an
\* error is closed at once, unless it is being disconnected.
WaitForCompletion(x, t) ==
    /\ call.op = "none" /\ x \in handles /\ t \in 1 .. hist.given[x]
    /\ call' = [NoCall EXCEPT !.op = "wait", !.of = x, !.token = t]
    /\ UNCHANGED <<lib, handles, cl, streams, result, hist>>

Disconnect(x) ==
    /\ call.op = "none" /\ cl[x].connected
    /\ cl' = [cl EXCEPT ![x].closing = TRUE]
    /\ call' = [NoCall EXCEPT !.op = "disconnect", !.of = x]
    /\ UNCHANGED <<lib, handles, streams, result, hist>>

Yield ==
    /\ call.op = "none"
    /\ call' = [NoCall EXCEPT !.op = "yield", !.yields = TRUE]
    /\ UNCHANGED <<lib, handles, cl, streams, result, hist>>

YieldReads ==
    /\ call.yields
    /\ \E y \in handles :
          /\ Ready(y)
          /\ streams' = Consumed(streams, y)
          /\ LET r == Reads(y)
             IN  cl' = [cl EXCEPT ![y] = IF r.rc = "error" /\ ~@.closing THEN Closed(@) ELSE r.s]
    /\ IF call.op = "yield" THEN call' \in {call, NoCall} ELSE call' \in {call, [call EXCEPT !.yields = FALSE]}
    /\ UNCHANGED <<lib, handles, result, hist>>

YieldWaits ==
    /\ call.yields
    /\ \/ UNCHANGED <<cl, hist>>
       \/ (\E y \in handles : KeepAlive(cl, y)) /\ hist' = [hist EXCEPT !.lost = @ + 1]
    /\ call' = IF call.op = "yield" THEN NoCall ELSE [call EXCEPT !.yields = FALSE]
    /\ UNCHANGED <<lib, handles, streams, result>>

Yields == call' = [call EXCEPT !.yields = TRUE] /\ UNCHANGED <<cl, result>>

\* Fault: looks for the token before it looks at the connection.
CompletesFirst ==
    LET x == call.of
    IN  IF call.token \notin PendingTokens(x)
        THEN call' = NoCall /\ result' = [of |-> x, token |-> call.token] /\ UNCHANGED cl
        ELSE (call' = NoCall /\ UNCHANGED <<cl, result>>) \/ (cl[x].connected /\ Yields)

\* One round of waitForCompletion: disconnected; not found, that is complete; out
\* of time; or another yield.
Completes ==
    LET x == call.of
    IN  \/ call' = NoCall /\ UNCHANGED <<cl, result>>
        \/ /\ cl[x].connected /\ call.token \notin PendingTokens(x)
           /\ call' = NoCall /\ result' = [of |-> x, token |-> call.token] /\ UNCHANGED cl
        \/ cl[x].connected /\ call.token \in PendingTokens(x) /\ Yields

WaitChecks ==
    /\ call.op = "wait" /\ ~call.yields
    /\ Completes
    /\ UNCHANGED <<lib, handles, streams, hist>>

\* MQTTClient_disconnect1 waits for the flows under way, as long as it was told.
DisconnectChecks ==
    /\ call.op = "disconnect" /\ ~call.yields
    /\ \/ PendingTokens(call.of) # {} /\ Yields
       \/ call' = NoCall /\ cl' = [cl EXCEPT ![call.of] = Closed(@)] /\ UNCHANGED result
    /\ UNCHANGED <<lib, handles, streams, hist>>

----------------------------------------------------------------------------
\* The broker.
BrokerSends(x) ==
    /\ cl[x].connected /\ ~streams[x].eof
    /\ \/ /\ hist.sent[x] < MaxSent
          /\ hist' = [hist EXCEPT !.sent[x] = @ + 1]
          /\ streams' = [streams EXCEPT ![x].inbox = Append(@, [kind |-> "message", n |-> hist'.sent[x]])]
       \/ \E t \in PendingTokens(x) \ hist.acked[x] :
             /\ hist' = [hist EXCEPT !.acked[x] = @ \cup {t}]
             /\ streams' = [streams EXCEPT ![x].inbox = Append(@, [kind |-> "ack", n |-> t])]
    /\ UNCHANGED <<lib, handles, cl, call, result>>

BrokerCloses(x) ==
    /\ cl[x].connected /\ ~streams[x].eof /\ hist.lost < MaxLost
    /\ streams' = [streams EXCEPT ![x].eof = TRUE] /\ hist' = [hist EXCEPT !.lost = @ + 1]
    /\ UNCHANGED <<lib, handles, cl, call, result>>

HandlesNext ==
    \/ \E x \in Clients :
          \/ Create(x) \/ Destroy(x) \/ Connect(x) \/ Publish(x) \/ Receive(x) \/ Disconnect(x)
          \/ \E t \in 1 .. MaxTokens : WaitForCompletion(x, t)
          \/ BrokerSends(x) \/ BrokerCloses(x)
    \/ Yield \/ ReceiveReads \/ ReceiveWaits \/ YieldReads \/ YieldWaits \/ WaitChecks \/ DisconnectChecks

HandlesSpec == HandlesInit /\ [][HandlesNext]_handleVars

----------------------------------------------------------------------------
(* What waitForCompletion calls complete the broker has acknowledged: not  *)
(* found never means dropped with the session, whichever client's socket   *)
(* the yield in it happened to serve, and lost, meanwhile.                 *)
CompletionMeansAcknowledged == result.token # 0 => result.token \in hist.acked[result.of]

(* A connected client has every message of its connection, in order: taken *)
(* by receive, in its queue, or on its streams, also when another client's    *)
(* receive, wait or disconnect read them.                                  *)
Here(x) == hist.got[x] \o cl[x].queue
Messages(x) == {i \in DOMAIN streams[x].inbox : streams[x].inbox[i].kind = "message"}
MessagesInOrder ==
    \A x \in handles : cl[x].connected =>
        /\ Len(Here(x)) <= hist.sent[x] /\ \A i \in DOMAIN Here(x) : Here(x)[i] = i
        /\ {streams[x].inbox[i].n : i \in Messages(x)} = Len(Here(x)) + 1 .. hist.sent[x]
        /\ \A i, j \in Messages(x) : i < j => streams[x].inbox[i].n < streams[x].inbox[j].n

(* Together: what one client's calls do to another client's connection is  *)
(* no loss to it (MQTTClient_cycle).                                       *)
HandlesAreApart == CompletionMeansAcknowledged /\ MessagesInOrder

(* MQTTClient.c:2503, "there was an error on the socket we are interested  *)
(* in": receive gives up the session of a client only for its own socket.  *)
OnlyItsOwnError == ~hist.wronged
=============================================================================
