-------------------------- MODULE MqttThreadsProofs --------------------------
(***************************************************************************)
(* Proofs about MqttThreads: types for any number of threads, and, for one *)
(* application thread, that calls get their own answers and that a         *)
(* connection is served.                                                   *)
(*                                                                         *)
(* With two application threads neither holds: m->pack is one field, and a *)
(* subscribe may take what an unsubscribe waits for.  The page about       *)
(* asynchronous use says as much (MQTTClient.h, "This API is not thread    *)
(* safe however"), and the gateway's programs call the client from one     *)
(* thread, so OneThread is what the callers provide.                       *)
(*                                                                         *)
(* The invariant says where the one answer that is due can be: asked of    *)
(* the broker, on its way, read by the background thread, or handed on in  *)
(* m->pack with its post (OneAnswer, Posted); that the queue of messages   *)
(* holds at most the one in its callback, so that no callback keeps a      *)
(* packet back (Queue); and that the answer to a connect is handed on only *)
(* by a background thread that goes on (Serve).                            *)
(***************************************************************************)
EXTENDS MqttThreads, SequenceTheorems, TLAPS

\* The semaphore of each kind of packet.
LEMMA AcksAreNames ==
    /\ None \notin Acks
    /\ Sem["CONNACK"] = "connack" /\ Sem["SUBACK"] = "suback" /\ Sem["UNSUBACK"] = "unsuback"
    /\ \A a \in Acks : Sem[a] \in {"connack", "suback", "unsuback"}
BY DEF Acks, None, Sem

\* A post keeps within what a semaphore counts.
LEMMA PostType ==
    ASSUME m \in Shared, NEW s \in {"connect", "connack", "suback", "unsuback"}
    PROVE  Post(s) \in Shared
<1>1. (IF m[s] < MaxPosts THEN m[s] + 1 ELSE m[s]) \in 0 .. MaxPosts
  BY BoundsAssumption DEF Shared
<1> QED BY <1>1 DEF Post, Shared

\* The records of a closed connection, an ended and a resting thread.
LEMMA SmallTypes ==
    /\ Gone \in Connection /\ NoRun \in Reader /\ AtRest \in Caller
    /\ c \in Client => Closed \in Client
<1>1. <<>> \in Seq(Acks) /\ <<>> \in Seq(Acks \cup Messages) /\ <<>> \in Seq(Messages)
  OBVIOUS
<1>2. Gone \in Connection BY <1>1 DEF Gone, Connection
<1>3. NoRun \in Reader BY DEF NoRun, Reader
<1>4. AtRest \in Caller BY DEF AtRest, Caller
<1>5. c \in Client => Closed \in Client BY <1>1 DEF Closed, Client
<1> QED BY <1>2, <1>3, <1>4, <1>5

\* One field of the history changes.
LEMMA HistoryType ==
    ASSUME hist \in History
    PROVE  /\ \A n \in 0 .. MaxCalls : [hist EXCEPT !.calls = n] \in History
           /\ \A n \in 0 .. MaxFaults : [hist EXCEPT !.faults = n] \in History
           /\ \A P \in SUBSET Messages : [hist EXCEPT !.published = P] \in History
           /\ \A b \in BOOLEAN : [hist EXCEPT !.gaveUp = b] \in History
           /\ \A b \in BOOLEAN : [hist EXCEPT !.late = b] \in History
BY DEF History

\* A call is counted while there are calls left.
LEMMA CallType ==
    ASSUME hist \in History, Call
    PROVE  [hist EXCEPT !.calls = @ + 1] \in History
<1>1. hist.calls + 1 \in 0 .. MaxCalls
  BY BoundsAssumption DEF History, Call
<1> QED BY <1>1, HistoryType

\* So are faults; giving up is only noted.
LEMMA FaultType ==
    ASSUME hist \in History, Fault \/ GivesUp
    PROVE  hist' \in History
<1>1. CASE Fault
  <2>1. hist.faults + 1 \in 0 .. MaxFaults
    BY <1>1, BoundsAssumption DEF History, Fault
  <2> QED BY <1>1, <2>1, HistoryType DEF Fault
<1>2. CASE GivesUp
  BY <1>2, HistoryType DEF GivesUp
<1> QED BY <1>1, <1>2

\* What a call leaves in its thread's record.
LEMMA CallerType ==
    ASSUME TypeOK, NEW t \in Threads
    PROVE  /\ app[t] \in Caller
           /\ \A r \in Caller : [app EXCEPT ![t] = r] \in [Threads -> Caller]
           /\ \A pc \in {"launch", "connect", "connack", "suback", "unsuback", "draining"} :
                  /\ [AtRest EXCEPT !.pc = pc] \in Caller
                  /\ [app EXCEPT ![t].pc = pc] \in [Threads -> Caller]
           /\ [AtRest EXCEPT !.pc = "launch", !.version = 3] \in Caller
           /\ \A ok \in BOOLEAN :
                  /\ [AtRest EXCEPT !.ok = ok] \in Caller
                  /\ [app[t] EXCEPT !.pc = "stopping", !.got = None, !.ok = ok] \in Caller
           /\ \A pc \in {"accept", "subscribed", "unsubscribed"}, p \in Acks \cup {None} :
                  [app EXCEPT ![t].pc = pc, ![t].got = p] \in [Threads -> Caller]
<1> DEFINE PCs == {"launch", "connect", "connack", "suback", "unsuback", "draining"}
<1>1. app[t] \in Caller /\ app \in [Threads -> Caller] BY DEF TypeOK
<1>2. \A r \in Caller : [app EXCEPT ![t] = r] \in [Threads -> Caller] BY <1>1
<1>3. \A pc \in PCs : [AtRest EXCEPT !.pc = pc] \in Caller /\ [app[t] EXCEPT !.pc = pc] \in Caller
  BY <1>1, SmallTypes DEF Caller
<1>4. \A pc \in PCs : [app EXCEPT ![t].pc = pc] \in [Threads -> Caller]
  <2> SUFFICES ASSUME NEW pc \in PCs PROVE [app EXCEPT ![t].pc = pc] \in [Threads -> Caller]
    OBVIOUS
  <2>1. [app EXCEPT ![t].pc = pc] = [app EXCEPT ![t] = [app[t] EXCEPT !.pc = pc]]
    BY <1>1
  <2> QED BY <1>2, <1>3, <2>1
<1>5. [AtRest EXCEPT !.pc = "launch", !.version = 3] \in Caller
  BY SmallTypes DEF Caller
<1>6. \A ok \in BOOLEAN : /\ [AtRest EXCEPT !.ok = ok] \in Caller
                          /\ [app[t] EXCEPT !.pc = "stopping", !.got = None, !.ok = ok] \in Caller
  BY <1>1, SmallTypes DEF Caller
<1>7. ASSUME NEW pc \in {"accept", "subscribed", "unsubscribed"}, NEW p \in Acks \cup {None}
      PROVE  [app EXCEPT ![t].pc = pc, ![t].got = p] \in [Threads -> Caller]
  <2>1. [app[t] EXCEPT !.pc = pc, !.got = p] \in Caller
    BY <1>1 DEF Caller
  <2>2. [app EXCEPT ![t].pc = pc, ![t].got = p] = [app EXCEPT ![t] = [app[t] EXCEPT !.pc = pc, !.got = p]]
    BY <1>1
  <2> QED BY <1>2, <2>1, <2>2
<1> QED BY <1>1, <1>2, <1>3, <1>4, <1>5, <1>6, <1>7

\* MQTTClient_stop tells only a running thread to end.
LEMMA StopType ==
    ASSUME TypeOK, NEW t \in Threads, NEW ok \in BOOLEAN,
           Stops(t, ok) \/ Returns(t, ok)
    PROVE  /\ app' \in [Threads -> Caller] /\ tostop' \in BOOLEAN
           /\ tostop' => tostop \/ running
<1>1. CASE tostop' = TRUE /\ running /\ app' = [app EXCEPT ![t] = [@ EXCEPT !.pc = "stopping", !.got = None, !.ok = ok]]
  <2>1. app' = [app EXCEPT ![t] = [app[t] EXCEPT !.pc = "stopping", !.got = None, !.ok = ok]]
    BY <1>1 DEF TypeOK
  <2>2. app' \in [Threads -> Caller]
    BY <2>1, CallerType
  <2> QED BY <1>1, <2>2
<1>2. CASE UNCHANGED tostop /\ app' = [app EXCEPT ![t] = [AtRest EXCEPT !.ok = ok]]
  BY <1>2, CallerType DEF TypeOK
<1> QED BY <1>1, <1>2 DEF Stops, Returns

\* A version that failed is followed by the other or by the stop.
LEMMA AttemptType ==
    ASSUME TypeOK, NEW t \in Threads, AttemptFails(t)
    PROVE  /\ app' \in [Threads -> Caller] /\ tostop' \in BOOLEAN /\ run' \in Reader
           /\ run'.pc = run.pc \/ (~running /\ run'.pc = "starting")
           /\ tostop' => tostop \/ running
<1>1. CASE app[t].version = 4
  <2>1. [NoRun EXCEPT !.pc = "starting"] \in Reader BY SmallTypes DEF Reader
  <2>2. app' = [app EXCEPT ![t] = [AtRest EXCEPT !.pc = "launch", !.version = 3]]
        /\ run' = (IF running THEN run ELSE [NoRun EXCEPT !.pc = "starting"]) /\ UNCHANGED tostop
    BY <1>1 DEF AttemptFails
  <2>3. app' \in [Threads -> Caller]
    BY <2>2, CallerType
  <2>4. run' \in Reader /\ (run'.pc = run.pc \/ (~running /\ run'.pc = "starting"))
    BY <2>1, <2>2 DEF TypeOK, NoRun
  <2> QED BY <2>2, <2>3, <2>4 DEF TypeOK
<1>2. CASE app[t].version # 4
  BY <1>2, StopType DEF TypeOK, AttemptFails
<1> QED BY <1>1, <1>2

\* A closed session.
LEMMA CloseType == ASSUME TypeOK, CloseSession PROVE c' \in Client /\ net' \in Connection
BY SmallTypes DEF TypeOK, CloseSession

\* MQTTClient_connect begins.
LEMMA ConnectType == ASSUME TypeOK, NEW t \in Threads, Connect(t) PROVE TypeOK'
<1>1. hist' \in History
  BY CallType DEF TypeOK, Connect
<1>2. run' \in Reader /\ run'.pc = (IF running THEN run.pc ELSE "starting")
  BY SmallTypes DEF TypeOK, Reader, Connect, NoRun
<1>3. app' \in [Threads -> Caller]
  BY CallerType DEF Connect, TypeOK
<1> QED BY <1>1, <1>2, <1>3 DEF TypeOK, Connect

\* MQTTProtocol_connect.
LEMMA LaunchType == ASSUME TypeOK, NEW t \in Threads, Launch(t) PROVE TypeOK'
<1>1. CASE /\ \E pc \in {"connect", "connack"} : app' = [app EXCEPT ![t].pc = pc]
           /\ UNCHANGED <<hist, run, tostop>>
           /\ \/ /\ c' = [c EXCEPT !.state = "tcp", !.open = TRUE]
                 /\ net' = [Gone EXCEPT !.tcp = "pending", !.pending = TRUE]
              \/ /\ c' = [c EXCEPT !.state = "connack", !.open = TRUE]
                 /\ net' = [Gone EXCEPT !.tcp = "up", !.asked = <<"CONNACK">>]
  <2>1. c' \in Client
    BY <1>1 DEF TypeOK, Client
  <2>2. <<"CONNACK">> \in Seq(Acks) BY DEF Acks
  <2>3. net' \in Connection
    BY <1>1, <2>2, SmallTypes DEF Connection
  <2>4. app' \in [Threads -> Caller]
    <3>1. PICK pc \in {"connect", "connack"} : app' = [app EXCEPT ![t].pc = pc]
      BY <1>1
    <3> QED BY <3>1, CallerType
  <2> QED BY <1>1, <2>1, <2>3, <2>4 DEF TypeOK, Launch
<1>2. CASE Fault /\ AttemptFails(t) /\ UNCHANGED <<c, net>>
  BY <1>2, FaultType, AttemptType DEF TypeOK, Launch
<1> QED BY <1>1, <1>2 DEF Launch

\* A wait takes one post.
LEMMA TakeType ==
    ASSUME m \in Shared, NEW s \in {"connect", "connack", "suback", "unsuback"}, m[s] > 0
    PROVE  [m EXCEPT ![s] = @ - 1] \in Shared
<1>1. m[s] \in 0 .. MaxPosts BY DEF Shared
<1>2. m[s] - 1 \in 0 .. MaxPosts BY <1>1, BoundsAssumption
<1> QED BY <1>2 DEF Shared

\* The wait for the TCP connection.
LEMMA AwaitTcpType == ASSUME TypeOK, NEW t \in Threads, AwaitTcp(t) PROVE TypeOK'
<1>1. m' \in Shared
  BY TakeType DEF AwaitTcp, TypeOK
<1>2. CASE /\ c' = [c EXCEPT !.state = "connack"] /\ net' = [net EXCEPT !.asked = Append(@, "CONNACK")]
           /\ app' = [app EXCEPT ![t].pc = "connack"] /\ UNCHANGED <<hist, run, tostop>>
  <2>1. c' \in Client /\ app' \in [Threads -> Caller]
    BY <1>2, CallerType DEF TypeOK, Client
  <2>2. Append(net.asked, "CONNACK") \in Seq(Acks)
    BY DEF TypeOK, Connection, Acks
  <2>3. net' \in Connection
    BY <1>2, <2>2 DEF TypeOK, Connection
  <2> QED BY <1>1, <1>2, <2>1, <2>3 DEF TypeOK, AwaitTcp
<1>3. CASE CloseSession /\ AttemptFails(t) /\ (GivesUp \/ UNCHANGED hist)
  BY <1>1, <1>3, CloseType, AttemptType, FaultType DEF TypeOK, AwaitTcp
<1> QED BY <1>2, <1>3 DEF AwaitTcp

\* MQTTClient_waitfor for a packet.
LEMMA AwaitType ==
    ASSUME TypeOK, NEW t \in Threads, AwaitConnack(t) \/ AwaitSuback(t) \/ AwaitUnsuback(t)
    PROVE  TypeOK'
<1>1. ASSUME NEW from, NEW to \in {"accept", "subscribed", "unsubscribed"},
             NEW s \in {"connack", "suback", "unsuback"}, Take(t, from, to, s)
      PROVE  TypeOK'
  <2>1. m' \in Shared BY <1>1, TakeType DEF Take, TypeOK
  <2>2. hist' \in History BY <1>1, FaultType DEF Take, TypeOK
  <2>3. app' \in [Threads -> Caller] BY <1>1, CallerType DEF Take, TypeOK, Shared
  <2> QED BY <1>1, <2>1, <2>2, <2>3 DEF Take, TypeOK
<1> QED BY <1>1 DEF AwaitConnack, AwaitSuback, AwaitUnsuback

\* The end of a connect.
LEMMA AcceptsType == ASSUME TypeOK, NEW t \in Threads, Accepts(t) PROVE TypeOK'
<1>1. m' \in Shared
  BY DEF Accepts, TypeOK, Shared
<1>2. CASE CloseSession /\ AttemptFails(t)
  BY <1>1, <1>2, CloseType, AttemptType DEF TypeOK, Accepts
<1>3. CASE /\ c' = [c EXCEPT !.state = "off", !.connected = TRUE, !.queue = <<>>]
           /\ Returns(t, TRUE) /\ UNCHANGED <<net, run>>
  <2>1. <<>> \in Seq(Messages) OBVIOUS
  <2>2. c' \in Client BY <1>3, <2>1 DEF TypeOK, Client
  <2>3. app' \in [Threads -> Caller] /\ UNCHANGED tostop
    BY <1>3, CallerType DEF Returns
  <2> QED BY <1>1, <1>3, <2>2, <2>3 DEF TypeOK, Accepts
<1> QED BY <1>2, <1>3 DEF Accepts

\* MQTTClient_subscribe and MQTTClient_unsubscribe begin.
LEMMA AskType ==
    ASSUME TypeOK, NEW t \in Threads, Subscribe(t) \/ Unsubscribe(t)
    PROVE  TypeOK'
<1>1. ASSUME NEW ack \in Acks, NEW pc \in {"suback", "unsuback"}, NEW others, Ask(t, ack, pc, others)
      PROVE  TypeOK'
  <2>1. hist' \in History
    BY <1>1, CallType DEF TypeOK, Ask
  <2>2. CASE /\ net' = [net EXCEPT !.asked = Append(@, ack)]
             /\ app' = [app EXCEPT ![t] = [AtRest EXCEPT !.pc = pc]] /\ UNCHANGED <<c, tostop>>
    <3>1. Append(net.asked, ack) \in Seq(Acks)
      BY DEF TypeOK, Connection
    <3>2. net' \in Connection
      BY <2>2, <3>1 DEF TypeOK, Connection
    <3>3. app' \in [Threads -> Caller]
      BY <2>2, CallerType
    <3> QED BY <1>1, <2>1, <2>2, <3>2, <3>3 DEF TypeOK, Ask
  <2>3. CASE CloseSession /\ Stops(t, FALSE)
    BY <1>1, <2>1, <2>3, CloseType, StopType DEF TypeOK, Ask
  <2> QED BY <1>1, <2>2, <2>3 DEF Ask
<1> QED BY <1>1 DEF Subscribe, Unsubscribe, Acks

\* They end.
LEMMA AnsweredType ==
    ASSUME TypeOK, NEW t \in Threads, Subscribed(t) \/ Unsubscribed(t)
    PROVE  TypeOK'
<1>1. ASSUME NEW pc, Answered(t, pc) PROVE TypeOK'
  <2>1. CASE CloseSession /\ Stops(t, FALSE) /\ UNCHANGED m
    BY <1>1, <2>1, CloseType, StopType DEF TypeOK, Answered
  <2>2. CASE m' = [m EXCEPT !.pack = None] /\ Returns(t, TRUE) /\ UNCHANGED <<c, net>>
    <3>1. m' \in Shared BY <2>2 DEF TypeOK, Shared
    <3>2. app' \in [Threads -> Caller] /\ UNCHANGED tostop
      BY <2>2, CallerType DEF Returns
    <3> QED BY <1>1, <2>2, <3>1, <3>2 DEF TypeOK, Answered
  <2> QED BY <1>1, <2>1, <2>2 DEF Answered
<1> QED BY <1>1 DEF Subscribed, Unsubscribed

\* MQTTClient_disconnect.
LEMMA DisconnectType ==
    ASSUME TypeOK, NEW t \in Threads, Disconnect(t) \/ Drained(t) \/ StopWaits(t)
    PROVE  TypeOK'
<1>1. CASE Disconnect(t)
  <2>1. hist' \in History
    BY <1>1, CallType DEF TypeOK, Disconnect
  <2>2. CASE c.connected
    <3>1. c' \in Client BY <1>1, <2>2 DEF TypeOK, Client, Disconnect
    <3>2. app' = [app EXCEPT ![t] = [AtRest EXCEPT !.pc = "draining"]] BY <1>1, <2>2 DEF Disconnect
    <3>3. app' \in [Threads -> Caller] BY <3>2, CallerType
    <3> QED BY <1>1, <2>1, <2>2, <3>1, <3>3 DEF TypeOK, Disconnect
  <2>3. CASE ~c.connected
    BY <1>1, <2>1, <2>3, CloseType, StopType DEF TypeOK, Disconnect
  <2> QED BY <2>2, <2>3
<1>2. CASE Drained(t)
  BY <1>2, CloseType, StopType DEF TypeOK, Drained
<1>3. CASE StopWaits(t)
  <2>1. app[t].ok \in BOOLEAN BY DEF TypeOK, Caller
  <2>2. app' \in [Threads -> Caller]
    BY <1>3, <2>1, CallerType DEF StopWaits
  <2> QED BY <1>3, <2>2 DEF TypeOK, StopWaits
<1> QED BY <1>1, <1>2, <1>3

\* The background thread's steps; what it hands on in Told.
LEMMA ExitsType == Exits => run' \in Reader /\ run'.pc = "none" /\ running' = FALSE /\ tostop' = FALSE
BY SmallTypes DEF Exits, NoRun

\* It goes on.
LEMMA LoopType == [NoRun EXCEPT !.pc = "loop"] \in Reader /\ [NoRun EXCEPT !.pc = "loop"].pc = "loop"
BY SmallTypes DEF Reader, NoRun

\* It hands on what it read.
LEMMA ToldType ==
    ASSUME TypeOK, NEW p \in Acks \cup {None}, Told(p)
    PROVE  m' \in Shared /\ net' \in Connection /\ hist' \in History
<1>1. CASE p # None
  <2>1. Post(Sem[p]) \in Shared
    BY <1>1, AcksAreNames, PostType DEF TypeOK
  <2>2. m' \in Shared
    BY <1>1, <2>1 DEF Told, Shared
  <2>3. (hist.late \/ \A t \in Threads : app[t].pc # Sem[p]) \in BOOLEAN
    BY DEF TypeOK, History
  <2>4. hist' \in History
    BY <1>1, <2>3, HistoryType DEF Told, TypeOK
  <2> QED BY <1>1, <2>2, <2>4 DEF Told, TypeOK
<1>2. CASE p = None /\ c.state = "tcp"
  <2>1. Post("connect") \in Shared
    BY PostType DEF TypeOK
  <2>2. m' \in Shared
    BY <1>2, <2>1 DEF Told, Shared
  <2>3. net' \in Connection
    BY <1>2 DEF Told, TypeOK, Connection
  <2> QED BY <1>2, <2>2, <2>3 DEF Told, TypeOK
<1>3. CASE p = None /\ c.state # "tcp"
  BY <1>3 DEF Told, TypeOK
<1> QED BY <1>1, <1>2, <1>3

\* It starts, ends, or finds a socket ready.
LEMMA RunMovesType ==
    ASSUME TypeOK, RunStarts \/ RunStops \/ RunFinds
    PROVE  TypeOK'
<1>1. CASE RunStarts
  <2>1. run' \in Reader /\ run'.pc = "loop" BY <1>1 DEF RunStarts, TypeOK, Reader
  <2> QED BY <1>1, <2>1 DEF RunStarts, TypeOK
<1>2. CASE RunStops
  BY <1>2, ExitsType DEF RunStops, TypeOK
<1>3. CASE RunFinds
  <2>1. run' \in Reader /\ run'.pc = "found" BY <1>3 DEF RunFinds, TypeOK, Reader
  <2>2. net' \in Connection BY <1>3 DEF RunFinds, TypeOK, Connection
  <2>3. run.pc = "loop" BY <1>3 DEF RunFinds
  <2> QED BY <1>3, <2>1, <2>2, <2>3 DEF RunFinds, TypeOK
<1> QED BY <1>1, <1>2, <1>3

\* It reads a packet.
LEMMA ReadsType == ASSUME TypeOK, RunReads PROVE TypeOK'
<1>1. CASE UNCHANGED <<c, net>> /\ \E rc \in {"ok", "error"} :
               run' = [run EXCEPT !.pc = "read", !.rc = rc, !.pack = None]
  <2>1. run' \in Reader /\ run'.pc = "read" BY <1>1 DEF TypeOK, Reader
  <2> QED BY <1>1, <2>1 DEF RunReads, TypeOK
<1>2. CASE /\ net.inbox # <<>>
           /\ LET p == Head(net.inbox)
              IN /\ run' = [run EXCEPT !.pc = "read", !.rc = "ok",
                                       !.pack = IF p \in Acks THEN p ELSE None]
                 /\ c' = IF p \in Acks THEN c ELSE [c EXCEPT !.queue = Append(@, p)]
           /\ net' = [net EXCEPT !.inbox = Tail(@)]
  <2> DEFINE p == Head(net.inbox)
  <2>1. net.inbox \in Seq(Acks \cup Messages) BY DEF TypeOK, Connection
  <2>2. p \in Acks \cup Messages /\ Tail(net.inbox) \in Seq(Acks \cup Messages)
    BY <1>2, <2>1
  <2>3. run' \in Reader /\ run'.pc = "read" BY <1>2 DEF TypeOK, Reader
  <2>4. net' \in Connection BY <1>2, <2>2 DEF TypeOK, Connection
  <2>5. c' \in Client
    <3>1. CASE p \in Acks BY <1>2, <3>1 DEF TypeOK
    <3>2. CASE p \in Messages /\ p \notin Acks
      <4>1. Append(c.queue, p) \in Seq(Messages) BY <3>2 DEF TypeOK, Client
      <4> QED BY <1>2, <3>2, <4>1 DEF TypeOK, Client
    <3> QED BY <2>2, <3>1, <3>2
  <2> QED BY <1>2, <2>3, <2>4, <2>5 DEF RunReads, TypeOK
<1> QED BY <1>1, <1>2 DEF RunReads

\* It decides what the packet is good for.
LEMMA HandlesType == ASSUME TypeOK, RunHandles PROVE TypeOK'
<1> USE DEF RunHandles
<1>1. CASE tostop
  <2>1. Exits /\ UNCHANGED <<c, m, net, hist, app>> BY <1>1
  <2> QED BY <2>1, ExitsType DEF TypeOK
<1>2. CASE ~tostop /\ ~c.open
  <2>1. run' = [NoRun EXCEPT !.pc = "loop"] /\ UNCHANGED <<c, m, net, hist, running, tostop, app>>
    BY <1>2
  <2> QED BY <1>2, <2>1, LoopType DEF TypeOK
<1>3. CASE ~tostop /\ c.open /\ run.rc = "error"
  <2>1. ReadFailed /\ UNCHANGED <<hist, app>> BY <1>3
  <2>2. CASE CloseSession /\ Exits /\ UNCHANGED m
    BY <2>1, <2>2, CloseType, ExitsType DEF TypeOK
  <2>3. CASE /\ m' = IF c.state = "connack" THEN Post("connack") ELSE m
             /\ run' = [NoRun EXCEPT !.pc = "loop"] /\ UNCHANGED <<c, net, running, tostop>>
    <3>1. m' \in Shared BY <2>3, PostType DEF TypeOK
    <3> QED BY <1>3, <2>1, <2>3, <3>1, LoopType DEF TypeOK
  <2> QED BY <2>1, <2>2, <2>3 DEF ReadFailed
<1>4. CASE ~tostop /\ c.open /\ run.rc = "ok" /\ c.queue # <<>>
  <2>1. run' = [run EXCEPT !.pc = "calling", !.msg = Head(c.queue)]
        /\ UNCHANGED <<c, m, net, hist, running, tostop, app>>
    BY <1>4
  <2>2. Head(c.queue) \in Messages BY <1>4 DEF TypeOK, Client
  <2>3. run' \in Reader /\ run'.pc = "calling" BY <2>1, <2>2 DEF TypeOK, Reader
  <2> QED BY <2>1, <2>3 DEF TypeOK
<1>5. CASE ~tostop /\ c.open /\ run.rc = "ok" /\ c.queue = <<>>
  <2>1. Told(run.pack) /\ run' = [NoRun EXCEPT !.pc = "loop"] /\ UNCHANGED <<c, running, tostop, app>>
    BY <1>5
  <2>2. run.pack \in Acks \cup {None} BY DEF TypeOK, Reader
  <2> QED BY <1>5, <2>1, <2>2, ToldType, LoopType DEF TypeOK
<1> QED BY <1>1, <1>2, <1>3, <1>4, <1>5 DEF TypeOK, Reader

\* messageArrived returns.
LEMMA CalledType == ASSUME TypeOK, Called PROVE TypeOK'
<1>1. m' \in Shared /\ net' \in Connection /\ hist' \in History
  <2>1. run.pack \in Acks \cup {None} BY DEF TypeOK, Reader
  <2> QED BY <2>1, ToldType DEF Called
<1>2. c' \in Client
  <2>1. c.queue # <<>> => Tail(c.queue) \in Seq(Messages) BY DEF TypeOK, Client
  <2> QED BY <2>1 DEF Called, TypeOK, Client
<1>3. CASE tostop
  BY <1>1, <1>2, <1>3, ExitsType DEF Called, TypeOK
<1>4. CASE ~tostop
  BY <1>1, <1>2, <1>4, LoopType DEF Called, TypeOK
<1> QED BY <1>3, <1>4

\* No PINGRESP came back.
LEMMA KeepAliveType == ASSUME TypeOK, KeepAliveFails PROVE TypeOK'
BY CloseType, FaultType DEF KeepAliveFails, TypeOK

\* The broker and the network.
LEMMA NetworkType ==
    ASSUME TypeOK, TcpEnds \/ BrokerAnswers \/ BrokerPublishes \/ BrokerCloses
    PROVE  TypeOK'
<1>1. CASE TcpEnds
  <2>1. net' \in Connection BY <1>1 DEF TcpEnds, TypeOK, Connection
  <2>2. hist' \in History BY <1>1, FaultType DEF TcpEnds, TypeOK
  <2> QED BY <1>1, <2>1, <2>2 DEF TcpEnds, TypeOK
<1>2. CASE BrokerAnswers
  <2>1. net.asked \in Seq(Acks) /\ net.asked # <<>> /\ net.inbox \in Seq(Acks \cup Messages)
    BY <1>2 DEF BrokerAnswers, TypeOK, Connection
  <2>2. Tail(net.asked) \in Seq(Acks) /\ Head(net.asked) \in Acks \cup Messages
    BY <2>1
  <2>3. Append(net.inbox, Head(net.asked)) \in Seq(Acks \cup Messages)
    BY <2>1, <2>2
  <2>4. net' \in Connection BY <1>2, <2>2, <2>3 DEF BrokerAnswers, TypeOK, Connection
  <2> QED BY <1>2, <2>4 DEF BrokerAnswers, TypeOK
<1>3. CASE BrokerPublishes
  <2>1. PICK p \in Messages \ hist.published :
            /\ hist' = [hist EXCEPT !.published = @ \cup {p}]
            /\ net' = [net EXCEPT !.inbox = Append(@, p)]
    BY <1>3 DEF BrokerPublishes
  <2>2. hist.published \cup {p} \in SUBSET Messages BY DEF TypeOK, History
  <2>3. hist' \in History BY <2>1, <2>2, HistoryType DEF TypeOK
  <2>4. Append(net.inbox, p) \in Seq(Acks \cup Messages) BY DEF TypeOK, Connection
  <2>5. net' \in Connection BY <2>1, <2>4 DEF TypeOK, Connection
  <2> QED BY <1>3, <2>3, <2>5 DEF BrokerPublishes, TypeOK
<1>4. CASE BrokerCloses
  <2>1. <<>> \in Seq(Acks) OBVIOUS
  <2>2. net' \in Connection BY <1>4, <2>1 DEF BrokerCloses, TypeOK, Connection
  <2>3. hist' \in History BY <1>4, FaultType DEF BrokerCloses, TypeOK
  <2> QED BY <1>4, <2>2, <2>3 DEF BrokerCloses, TypeOK
<1> QED BY <1>1, <1>2, <1>3, <1>4

\* The library before its first call.
LEMMA InitType == Init => TypeOK
<1> SUFFICES ASSUME Init PROVE TypeOK OBVIOUS
<1>1. c \in Client /\ net \in Connection /\ run \in Reader /\ app \in [Threads -> Caller]
  BY SmallTypes DEF Init, Client
<1>2. m \in Shared BY BoundsAssumption DEF Init, Shared
<1>3. hist \in History BY BoundsAssumption DEF Init, History
<1> QED BY <1>1, <1>2, <1>3 DEF Init, TypeOK, NoRun

\* Every step keeps the types, whatever the number of threads.
LEMMA StepType == TypeOK /\ [Next]_vars => TypeOK'
<1> SUFFICES ASSUME TypeOK, [Next]_vars PROVE TypeOK' OBVIOUS
<1>1. CASE UNCHANGED vars BY <1>1 DEF vars, TypeOK
<1>2. CASE \E t \in Threads : Connect(t) \/ Subscribe(t) \/ Unsubscribe(t) \/ Disconnect(t)
  BY <1>2, ConnectType, AskType, DisconnectType
<1>3. CASE \E t \in Threads : AppStep(t)
  BY <1>3, LaunchType, AwaitTcpType, AwaitType, AcceptsType, AnsweredType, DisconnectType DEF AppStep
<1>4. CASE RunStep
  BY <1>4, RunMovesType, ReadsType, HandlesType, CalledType DEF RunStep
<1>5. CASE KeepAliveFails BY <1>5, KeepAliveType
<1>6. CASE TcpEnds \/ BrokerAnswers \/ BrokerPublishes \/ BrokerCloses BY <1>6, NetworkType
<1> QED BY <1>1, <1>2, <1>3, <1>4, <1>5, <1>6 DEF Next

\* Whatever the threads do, the shared fields stay within their types and only a
\* running background thread is told to end.
THEOREM ThreadTypeCorrect == Spec => []TypeOK
<1>1. Spec => Init /\ [][Next]_vars BY DEF Spec
<1> QED BY <1>1, InitType, StepType, PTL
-----------------------------------------------------------------------------
(* One application thread.                                                     *)

OneThread == \E t \in Threads : Threads = {t}

\* The packet that is due to a thread at pc: asked for and not yet used.
Awaited(pc) == CASE pc \in {"connack", "accept"} -> "CONNACK"
                 [] pc \in {"suback", "subscribed"} -> "SUBACK"
                 [] pc \in {"unsuback", "unsubscribed"} -> "UNSUBACK"
                 [] OTHER -> None

\* When the session is open and connected; messages come over a connection only.
Phase(t) ==
    /\ app[t].pc \in {"launch", "connect", "connack", "accept", "stopping"} => ~c.connected
    /\ app[t].pc \in {"connect", "connack", "accept"} => c.open
    /\ app[t].pc \notin {"connect", "connack", "accept"} /\ c.open => c.connected
    /\ c.connected => c.open
    /\ c.queue # <<>> => c.connected
    /\ \A i \in DOMAIN net.inbox : net.inbox[i] \notin Acks => c.connected

\* m->pack holds nothing but the packet that is due.
Hand(t) == ~hist.late =>
    /\ app[t].got \in {None, Due(app[t].pc)}
    /\ m.pack \in {None, Awaited(app[t].pc)}
    /\ app[t].pc \in {"accept", "subscribed", "unsubscribed"} => m.pack = app[t].got

\* The queue holds the message just read, or the one in its callback.
Queue == ~hist.late =>
    /\ c.queue # <<>> =>
           \/ run.pc = "read" /\ run.rc = "ok" /\ run.pack = None /\ Tail(c.queue) = <<>>
           \/ run.pc = "calling" /\ c.queue = <<run.msg>>
    /\ run.pc = "calling" => run.pack = None

\* Who serves a connection that is there or has just been confirmed goes on.
Serve == ~hist.late =>
    /\ c.connected => running /\ ~tostop
    /\ m.pack = "CONNACK" => running /\ ~tostop

\* No fault yet and no wait given up; what holds then about the network, the
\* calls, the background thread's end, the answer that is due and its post.
Healthy == hist.faults = 0 /\ ~hist.gaveUp

NetSound == ~net.eof /\ ~net.error /\ net.tcp # "refused" /\ m.rc = "ok" /\ ~hist.late

CallSound(t) ==
    app[t].ok /\ (app[t].pc \in {"accept", "subscribed", "unsubscribed"} => app[t].got # None)

StopSound(t) ==
    /\ tostop => run.pc = "calling" \/ app[t].pc = "stopping"
    /\ run.pc \in {"found", "read", "calling"} /\ ~c.open => tostop
    /\ run.pc = "read" /\ run.rc = "error" => tostop

Acked == \E i \in DOMAIN net.inbox : net.inbox[i] \in Acks

OneAnswer(t) ==
    /\ net.asked # <<>> => net.asked = <<Awaited(app[t].pc)>>
    /\ \A i \in DOMAIN net.inbox : net.inbox[i] \in Acks => net.inbox[i] = Awaited(app[t].pc)
    /\ \A i, j \in DOMAIN net.inbox : net.inbox[i] \in Acks /\ net.inbox[j] \in Acks => i = j
    /\ run.pack \in {None, Awaited(app[t].pc)}
    /\ run.pack # None => run.pc = "read"
    /\ net.asked # <<>> => ~Acked /\ run.pack = None /\ m.pack = None
    /\ Acked => run.pack = None /\ m.pack = None
    /\ run.pack # None => m.pack = None

Posted(t) == \A a \in Acks : m[Sem[a]] = IF app[t].pc = Sem[a] /\ m.pack # None THEN 1 ELSE 0

Sound(t) == Healthy => NetSound /\ CallSound(t) /\ StopSound(t) /\ OneAnswer(t) /\ Posted(t)

\* The inductive invariant.
Rest(t) == Phase(t) /\ Hand(t) /\ Queue /\ Serve /\ Sound(t)

ThreadInv(t) == TypeOK /\ Rest(t)

IInv == \A t \in Threads : ThreadInv(t)

\* What is in a sequence after Append and after Tail.
LEMMA Elements ==
    ASSUME NEW S, NEW q \in Seq(S), NEW e
    PROVE  /\ \A i \in DOMAIN Append(q, e) :
                  \/ i \in DOMAIN q /\ Append(q, e)[i] = q[i]
                  \/ i = Len(q) + 1 /\ Append(q, e)[i] = e
           /\ q # <<>> => /\ 1 \in DOMAIN q /\ Head(q) = q[1]
                          /\ \A i \in DOMAIN Tail(q) :
                                 i + 1 \in DOMAIN q /\ i # 0 /\ i \in Nat /\ Tail(q)[i] = q[i + 1]
<1>1. ASSUME NEW i \in DOMAIN Append(q, e)
      PROVE  \/ i \in DOMAIN q /\ Append(q, e)[i] = q[i]
             \/ i = Len(q) + 1 /\ Append(q, e)[i] = e
  OBVIOUS
<1>2. ASSUME q # <<>> PROVE 1 \in DOMAIN q /\ Head(q) = q[1]
  BY <1>2
<1>3. ASSUME q # <<>>, NEW i \in DOMAIN Tail(q)
      PROVE  i + 1 \in DOMAIN q /\ i # 0 /\ i \in Nat /\ Tail(q)[i] = q[i + 1]
  BY <1>3
<1> QED BY <1>1, <1>2, <1>3

\* After a fault or a wait given up nothing more is promised.
LEMMA HealthLost == ASSUME TypeOK, Fault \/ GivesUp PROVE ~Healthy' /\ hist'.late = hist.late
<1>1. CASE Fault
  <2>1. hist.faults \in Nat BY BoundsAssumption DEF TypeOK, History
  <2>2. hist'.faults = hist.faults + 1 /\ hist'.late = hist.late
    BY <1>1 DEF TypeOK, History, Fault
  <2>3. hist'.faults # 0 BY <2>1, <2>2
  <2> QED BY <2>2, <2>3 DEF Healthy
<1>2. CASE GivesUp
  BY <1>2 DEF TypeOK, History, GivesUp, Healthy
<1> QED BY <1>1, <1>2

\* The other changes of the history leave the promise.
LEMMA HealthKept ==
    ASSUME TypeOK, NEW n, \/ hist' = hist
                          \/ hist' = [hist EXCEPT !.calls = n]
                          \/ hist' = [hist EXCEPT !.published = n]
    PROVE  (Healthy' <=> Healthy) /\ hist'.late = hist.late
BY DEF TypeOK, History, Healthy

\* What closing the session leaves.
LEMMA Closes ==
    ASSUME TypeOK, CloseSession
    PROVE  /\ ~c'.connected /\ ~c'.open /\ c'.queue = <<>>
           /\ net'.asked = <<>> /\ net'.inbox = <<>> /\ ~net'.eof /\ ~net'.error /\ net'.tcp = "none"
BY DEF TypeOK, Client, CloseSession, Closed, Gone

\* Where MQTTClient_stop leaves the thread and the background thread.
LEMMA StopEnd ==
    ASSUME TypeOK, NEW t \in Threads, NEW ok \in BOOLEAN, Stops(t, ok)
    PROVE  /\ app'[t].pc \in {"idle", "stopping"} /\ app'[t].got = None /\ app'[t].ok = ok
           /\ tostop' = running /\ (running /\ ~tostop => app'[t].pc = "stopping")
<1>1. CASE running /\ ~tostop
  <2>1. app'[t] = [app[t] EXCEPT !.pc = "stopping", !.got = None, !.ok = ok] /\ tostop' = TRUE
    BY <1>1 DEF TypeOK, Stops
  <2> QED BY <1>1, <2>1 DEF TypeOK, Caller
<1>2. CASE ~(running /\ ~tostop)
  <2>1. app'[t] = [AtRest EXCEPT !.ok = ok] /\ tostop' = tostop
    BY <1>2 DEF TypeOK, Stops
  <2> QED BY <1>2, <2>1 DEF TypeOK, AtRest
<1> QED BY <1>1, <1>2

\* Where a failed attempt leaves them.
LEMMA AttemptEnd ==
    ASSUME TypeOK, NEW t \in Threads, AttemptFails(t)
    PROVE  /\ app'[t].pc \in {"launch", "idle", "stopping"} /\ app'[t].got = None
           /\ run' = run \/ (run'.pc = "starting" /\ run'.pack = None)
<1>1. CASE app[t].version = 4
  <2>1. /\ app'[t] = [AtRest EXCEPT !.pc = "launch", !.version = 3]
        /\ run' = IF running THEN run ELSE [NoRun EXCEPT !.pc = "starting"]
    BY <1>1 DEF TypeOK, AttemptFails
  <2> QED BY <2>1 DEF AtRest, NoRun
<1>2. CASE app[t].version # 4
  BY <1>2, StopEnd DEF AttemptFails
<1> QED BY <1>1, <1>2

\* A session that is closed by the thread that has just been refused.
LEMMA GivenUp ==
    ASSUME NEW t \in Threads, ThreadInv(t), CloseSession,
           app'[t].pc \in {"launch", "idle", "stopping"}, app'[t].got = None,
           ~hist.late => m'.pack = None, hist'.late = hist.late,
           run' = run \/ (run'.pc = "starting" /\ run'.pack = None)
    PROVE  Phase(t)' /\ Hand(t)' /\ Queue' /\ Serve'
<1>1. TypeOK BY DEF ThreadInv
<1>2. Phase(t)'
  BY <1>1, Closes DEF Phase
<1>3. Hand(t)'
  BY DEF Hand
<1>4. Queue'
  BY <1>1, Closes DEF ThreadInv, Rest, Queue
<1>5. Serve'
  BY <1>1, Closes, AcksAreNames DEF Serve, Acks
<1> QED BY <1>2, <1>3, <1>4, <1>5

\* MQTTClient_disconnect, or the end of one.
LEMMA Disconnected ==
    ASSUME NEW t \in Threads, ThreadInv(t), app[t].pc \in {"idle", "draining"},
           CloseSession, Stops(t, TRUE), UNCHANGED <<m, running, run>>,
           Healthy' <=> Healthy, hist'.late = hist.late
    PROVE  Rest(t)'
<1>1. TypeOK BY DEF ThreadInv
<1>2. ~hist.late => m'.pack = None
  BY DEF ThreadInv, Rest, Hand, Awaited
<1>3. Phase(t)' /\ Hand(t)' /\ Queue' /\ Serve'
  BY <1>1, <1>2, StopEnd, GivenUp
<1>4. ASSUME Healthy PROVE NetSound' /\ CallSound(t)' /\ StopSound(t)' /\ OneAnswer(t)' /\ Posted(t)'
  <2>1. NetSound /\ StopSound(t) /\ OneAnswer(t) /\ Posted(t)
    BY <1>4 DEF ThreadInv, Rest, Sound
  <2>2. NetSound' /\ CallSound(t)'
    BY <1>1, <2>1, Closes, StopEnd DEF NetSound, CallSound
  <2>3. StopSound(t)'
    BY <1>1, <2>1, StopEnd DEF StopSound, TypeOK
  <2>4. OneAnswer(t)'
    <3>1. net'.asked = <<>> /\ net'.inbox = <<>> BY <1>1, Closes
    <3>2. run.pack = None BY <2>1 DEF OneAnswer, Awaited
    <3> QED BY <3>1, <3>2 DEF OneAnswer, Acked
  <2>5. Posted(t)'
    BY <1>1, <2>1, StopEnd, AcksAreNames DEF Posted
  <2> QED BY <2>2, <2>3, <2>4, <2>5
<1> QED BY <1>3, <1>4 DEF Rest, Sound

\* Connecting, the thread expects no packet yet.
LEMMA ConnectInv == ASSUME NEW t \in Threads, ThreadInv(t), Connect(t) PROVE Rest(t)'
<1>1. TypeOK BY DEF ThreadInv
<1>2. /\ app'[t] = [AtRest EXCEPT !.pc = "launch"] /\ app[t].pc = "idle" /\ ~c.connected
      /\ run' = IF running THEN run ELSE [NoRun EXCEPT !.pc = "starting"]
      /\ UNCHANGED <<c, m, running, tostop, net>>
  BY <1>1 DEF Connect, TypeOK
<1>3. app'[t].pc = "launch" /\ app'[t].got = None /\ app'[t].ok = TRUE
  BY <1>2 DEF AtRest
<1>4. (Healthy' <=> Healthy) /\ hist'.late = hist.late
  BY <1>1, HealthKept DEF Connect
<1>5. run' = run \/ (~running /\ run'.pc = "starting" /\ run'.pack = None)
  BY <1>2 DEF NoRun
<1>6. Phase(t)' BY <1>2, <1>3 DEF ThreadInv, Rest, Phase
<1>7. Hand(t)' BY <1>2, <1>3, <1>4 DEF ThreadInv, Rest, Hand, Awaited
<1>8. Queue' BY <1>2, <1>4, <1>5 DEF ThreadInv, Rest, Queue, Phase
<1>9. Serve' BY <1>2, <1>4 DEF ThreadInv, Rest, Serve
<1>10. ASSUME Healthy PROVE NetSound' /\ CallSound(t)' /\ StopSound(t)' /\ OneAnswer(t)' /\ Posted(t)'
  <2>1. NetSound /\ CallSound(t) /\ StopSound(t) /\ OneAnswer(t) /\ Posted(t)
    BY <1>10 DEF ThreadInv, Rest, Sound
  <2>2. NetSound' /\ CallSound(t)'
    BY <1>2, <1>3, <1>4, <2>1 DEF NetSound, CallSound
  <2>3. StopSound(t)'
    BY <1>1, <1>2, <1>3, <1>5, <2>1 DEF StopSound, TypeOK
  <2>4. OneAnswer(t)'
    BY <1>2, <1>3, <1>5, <2>1 DEF OneAnswer, Acked, Awaited
  <2>5. Posted(t)'
    BY <1>2, <1>3, <2>1, AcksAreNames DEF Posted
  <2> QED BY <2>2, <2>3, <2>4, <2>5
<1> QED BY <1>4, <1>6, <1>7, <1>8, <1>9, <1>10 DEF Rest, Sound

\* The broker is asked for a CONNACK at once, later, or not at all.
LEMMA LaunchInv == ASSUME NEW t \in Threads, ThreadInv(t), Launch(t) PROVE Rest(t)'
<1>1. TypeOK /\ app[t].pc = "launch" /\ ~c.connected /\ UNCHANGED <<m, running>>
  BY DEF ThreadInv, Rest, Phase, Launch
<1>2. CASE /\ UNCHANGED <<hist, run, tostop>>
           /\ \/ /\ c' = [c EXCEPT !.state = "tcp", !.open = TRUE]
                 /\ net' = [Gone EXCEPT !.tcp = "pending", !.pending = TRUE]
                 /\ app' = [app EXCEPT ![t].pc = "connect"]
              \/ /\ c' = [c EXCEPT !.state = "connack", !.open = TRUE]
                 /\ net' = [Gone EXCEPT !.tcp = "up", !.asked = <<"CONNACK">>]
                 /\ app' = [app EXCEPT ![t].pc = "connack"]
  <2>1. /\ c'.open /\ c'.connected = c.connected /\ c'.queue = c.queue
        /\ net'.inbox = <<>> /\ ~net'.eof /\ ~net'.error /\ net'.tcp # "refused"
    BY <1>1, <1>2 DEF TypeOK, Client, Gone
  <2>2. \/ app'[t].pc = "connect" /\ net'.asked = <<>>
        \/ app'[t].pc = "connack" /\ net'.asked = <<"CONNACK">>
    <3>1. CASE /\ net' = [Gone EXCEPT !.tcp = "pending", !.pending = TRUE]
               /\ app' = [app EXCEPT ![t].pc = "connect"]
      BY <1>1, <3>1 DEF TypeOK, Caller, Gone
    <3>2. CASE /\ net' = [Gone EXCEPT !.tcp = "up", !.asked = <<"CONNACK">>]
               /\ app' = [app EXCEPT ![t].pc = "connack"]
      <4>1. net'.asked = <<"CONNACK">> BY <3>2 DEF Gone
      <4>2. app'[t].pc = "connack" BY <1>1, <3>2 DEF TypeOK, Caller
      <4> QED BY <4>1, <4>2
    <3> QED BY <1>2, <3>1, <3>2
  <2>3. app'[t].got = app[t].got /\ app'[t].ok = app[t].ok
    BY <1>1, <1>2 DEF TypeOK, Caller
  <2>4. Phase(t)' BY <1>1, <2>1, <2>2 DEF ThreadInv, Rest, Phase
  <2>5. Hand(t)' BY <1>1, <1>2, <2>2, <2>3 DEF ThreadInv, Rest, Hand, Awaited, Due
  <2>6. Queue' BY <1>2, <2>1 DEF ThreadInv, Rest, Queue
  <2>7. Serve' BY <1>1, <1>2, <2>1 DEF ThreadInv, Rest, Serve
  <2>8. ASSUME Healthy PROVE NetSound' /\ CallSound(t)' /\ StopSound(t)' /\ OneAnswer(t)' /\ Posted(t)'
    <3>1. NetSound /\ CallSound(t) /\ StopSound(t) /\ OneAnswer(t) /\ Posted(t)
      BY <2>8 DEF ThreadInv, Rest, Sound
    <3>2. NetSound' /\ CallSound(t)'
      BY <1>1, <1>2, <2>1, <2>2, <2>3, <3>1 DEF NetSound, CallSound
    <3>3. StopSound(t)'
      BY <1>1, <1>2, <2>1, <3>1 DEF StopSound
    <3>4. m.pack = None
      BY <1>1, <3>1 DEF ThreadInv, Rest, Hand, NetSound, Awaited
    <3>5. OneAnswer(t)'
      <4>1. run.pack = None BY <1>1, <3>1 DEF OneAnswer, Awaited
      <4>2. net'.asked # <<>> => net'.asked = <<Awaited(app'[t].pc)>>
        BY <2>2 DEF Awaited
      <4> QED BY <1>1, <1>2, <2>1, <3>4, <4>1, <4>2 DEF OneAnswer, Acked
    <3>6. Posted(t)'
      BY <1>1, <3>1, <3>4, AcksAreNames DEF Posted
    <3> QED BY <3>2, <3>3, <3>5, <3>6
  <2>9. (Healthy' <=> Healthy) /\ hist'.late = hist.late
    BY <1>2 DEF Healthy
  <2> QED BY <2>4, <2>5, <2>6, <2>7, <2>8, <2>9 DEF Rest, Sound
<1>3. CASE Fault /\ AttemptFails(t) /\ UNCHANGED <<c, net>>
  <2>1. ~Healthy' /\ hist'.late = hist.late BY <1>1, <1>3, HealthLost
  <2>2. /\ app'[t].pc \in {"launch", "idle", "stopping"} /\ app'[t].got = None
        /\ run' = run \/ (run'.pc = "starting" /\ run'.pack = None)
    BY <1>1, <1>3, AttemptEnd
  <2>3. ~c.open /\ c.queue = <<>>
    BY <1>1 DEF ThreadInv, Rest, Phase
  <2>4. Phase(t)' BY <1>1, <1>3, <2>2, <2>3 DEF ThreadInv, Rest, Phase
  <2>5. ~hist.late => m.pack = None
    BY <1>1 DEF ThreadInv, Rest, Hand, Awaited
  <2>6. Hand(t)' BY <1>1, <2>1, <2>2, <2>5 DEF Hand
  <2>7. Queue' BY <1>3, <2>1, <2>2, <2>3 DEF ThreadInv, Rest, Queue
  <2>8. Serve' BY <1>1, <1>3, <2>1, <2>5, AcksAreNames DEF Serve, Acks
  <2> QED BY <2>1, <2>4, <2>6, <2>7, <2>8 DEF Rest, Sound
<1> QED BY <1>2, <1>3 DEF Launch

\* While a thread waits for no packet none is on its way.
LEMMA NothingAwaited ==
    ASSUME NEW t \in Threads, TypeOK, OneAnswer(t), app[t].pc \in {"idle", "connect"}
    PROVE  /\ \A i \in DOMAIN net.inbox : net.inbox[i] \notin Acks
           /\ net.asked = <<>> /\ run.pack = None
<1>1. Awaited(app[t].pc) = None BY DEF Awaited
<1>2. ASSUME net.asked # <<>> PROVE FALSE
  <2>1. net.asked[1] \in Acks BY <1>2 DEF TypeOK, Connection
  <2>2. net.asked = <<None>> BY <1>1, <1>2 DEF OneAnswer
  <2> QED BY <2>1, <2>2, AcksAreNames
<1> QED BY <1>1, <1>2, AcksAreNames DEF OneAnswer

\* A connection that came about makes the broker owe a CONNACK.
LEMMA AwaitTcpInv == ASSUME NEW t \in Threads, ThreadInv(t), AwaitTcp(t) PROVE Rest(t)'
<1>1. /\ TypeOK /\ app[t].pc = "connect" /\ ~c.connected /\ c.open
      /\ m'.pack = m.pack /\ m'.rc = m.rc /\ \A a \in Acks : m'[Sem[a]] = m[Sem[a]]
  <2>1. TypeOK /\ app[t].pc = "connect" /\ ~c.connected /\ c.open
    BY DEF ThreadInv, Rest, Phase, AwaitTcp
  <2>2. m' = m \/ m' = [m EXCEPT !.connect = @ - 1] BY DEF AwaitTcp
  <2>3. m'.pack = m.pack /\ m'.rc = m.rc /\ \A s \in {"connack", "suback", "unsuback"} : m'[s] = m[s]
    BY <2>1, <2>2 DEF TypeOK, Shared
  <2> QED BY <2>1, <2>3, AcksAreNames
<1>2. ~hist.late => m.pack = None
  BY <1>1 DEF ThreadInv, Rest, Hand, Awaited
<1>3. CASE /\ c' = [c EXCEPT !.state = "connack"] /\ net' = [net EXCEPT !.asked = Append(@, "CONNACK")]
           /\ app' = [app EXCEPT ![t].pc = "connack"] /\ UNCHANGED <<hist, run, tostop>> /\ UNCHANGED running
  <2>1. /\ app'[t].pc = "connack" /\ app'[t].got = app[t].got /\ app'[t].ok = app[t].ok
        /\ c'.open = c.open /\ c'.connected = c.connected /\ c'.queue = c.queue
    BY <1>1, <1>3 DEF TypeOK, Caller, Client
  <2>2. /\ net'.asked = Append(net.asked, "CONNACK") /\ net'.inbox = net.inbox
        /\ net'.eof = net.eof /\ net'.error = net.error /\ net'.tcp = net.tcp
    BY <1>1, <1>3 DEF TypeOK, Connection
  <2>3. Phase(t)' BY <1>1, <2>1, <2>2 DEF ThreadInv, Rest, Phase
  <2>4. Hand(t)' BY <1>1, <1>2, <1>3, <2>1 DEF ThreadInv, Rest, Hand, Due
  <2>5. Queue' BY <1>3, <2>1 DEF ThreadInv, Rest, Queue
  <2>6. Serve' BY <1>1, <1>3, <2>1 DEF ThreadInv, Rest, Serve
  <2>7. ASSUME Healthy PROVE NetSound' /\ CallSound(t)' /\ StopSound(t)' /\ OneAnswer(t)' /\ Posted(t)'
    <3>1. NetSound /\ CallSound(t) /\ StopSound(t) /\ OneAnswer(t) /\ Posted(t)
      BY <2>7 DEF ThreadInv, Rest, Sound
    <3>2. NetSound' /\ CallSound(t)'
      BY <1>1, <1>3, <2>1, <2>2, <3>1 DEF NetSound, CallSound
    <3>3. StopSound(t)'
      BY <1>1, <1>3, <2>1, <3>1 DEF StopSound
    <3>4. m.pack = None
      BY <1>2, <3>1 DEF NetSound
    <3>5. /\ \A i \in DOMAIN net.inbox : net.inbox[i] \notin Acks
          /\ net.asked = <<>> /\ run.pack = None
      BY <1>1, <3>1, NothingAwaited
    <3>6. OneAnswer(t)'
      <4>1. net'.asked = <<"CONNACK">> BY <2>2, <3>5
      <4>2. Awaited(app'[t].pc) = "CONNACK" BY <2>1 DEF Awaited
      <4> QED BY <1>1, <1>3, <2>2, <3>4, <3>5, <4>1, <4>2 DEF OneAnswer, Acked
    <3>7. Posted(t)'
      <4>1. m'.pack = None /\ \A a \in Acks : m[Sem[a]] = 0
        BY <1>1, <3>1, <3>4 DEF Posted
      <4> QED BY <1>1, <4>1 DEF Posted
    <3> QED BY <3>2, <3>3, <3>6, <3>7
  <2>8. (Healthy' <=> Healthy) /\ hist'.late = hist.late
    BY <1>3 DEF Healthy
  <2> QED BY <2>3, <2>4, <2>5, <2>6, <2>7, <2>8 DEF Rest, Sound
<1>4. CASE CloseSession /\ AttemptFails(t) /\ (GivesUp \/ (UNCHANGED hist /\ (m.rc = "error" \/ net.eof)))
  <2>1. ~Healthy' /\ hist'.late = hist.late
    <3>1. CASE GivesUp BY <1>1, <3>1, HealthLost
    <3>2. CASE UNCHANGED hist /\ (m.rc = "error" \/ net.eof)
      BY <3>2 DEF ThreadInv, Rest, Sound, NetSound, Healthy
    <3> QED BY <1>4, <3>1, <3>2
  <2>2. Phase(t)' /\ Hand(t)' /\ Queue' /\ Serve'
    BY <1>1, <1>2, <1>4, <2>1, AttemptEnd, GivenUp
  <2> QED BY <2>1, <2>2 DEF Rest, Sound
<1> QED BY <1>3, <1>4 DEF AwaitTcp

\* What MQTTClient_waitfor takes is what m->pack holds, whoever posted.
LEMMA TakeInv ==
    ASSUME NEW t \in Threads, ThreadInv(t), NEW a \in Acks, NEW to,
           Take(t, Sem[a], to, Sem[a]),
           \/ a = "CONNACK" /\ to = "accept"
           \/ a = "SUBACK" /\ to = "subscribed"
           \/ a = "UNSUBACK" /\ to = "unsubscribed"
    PROVE  Rest(t)'
<1>1. TypeOK /\ app[t].pc = Sem[a] /\ UNCHANGED <<c, running, tostop, run, net>>
  BY DEF ThreadInv, Take
<1>2. app'[t].pc = to /\ app'[t].got = m.pack /\ app'[t].ok = app[t].ok
  BY <1>1 DEF TypeOK, Caller, Take
<1>3. m'.pack = m.pack /\ m'.rc = m.rc
  <2>1. Sem[a] \in {"connack", "suback", "unsuback"} BY AcksAreNames
  <2>2. m' = m \/ m' = [m EXCEPT ![Sem[a]] = @ - 1] BY DEF Take
  <2> QED BY <1>1, <2>1, <2>2 DEF TypeOK, Shared
<1>4. Awaited(Sem[a]) = a /\ Awaited(to) = a /\ Due(to) = a
  BY AcksAreNames DEF Awaited, Due
<1>5. hist'.late = hist.late
  BY <1>1, HealthLost DEF Take
<1>6. Phase(t)'
  BY <1>1, <1>2, AcksAreNames DEF ThreadInv, Rest, Phase
<1>7. Hand(t)'
  BY <1>1, <1>2, <1>3, <1>4, <1>5 DEF ThreadInv, Rest, Hand
<1>8. Queue' /\ Serve'
  BY <1>1, <1>3, <1>5 DEF ThreadInv, Rest, Queue, Serve
<1>9. ASSUME Healthy' PROVE NetSound' /\ CallSound(t)' /\ StopSound(t)' /\ OneAnswer(t)' /\ Posted(t)'
  <2>1. m[Sem[a]] > 0 /\ m' = [m EXCEPT ![Sem[a]] = @ - 1] /\ hist' = hist
    BY <1>1, <1>9, HealthLost DEF Take
  <2>2. NetSound /\ CallSound(t) /\ StopSound(t) /\ OneAnswer(t) /\ Posted(t)
    BY <1>9, <2>1 DEF ThreadInv, Rest, Sound, Healthy
  <2>3. m.pack # None /\ m[Sem[a]] = 1
    BY <2>1, <2>2 DEF Posted
  <2>4. NetSound' /\ CallSound(t)'
    BY <1>1, <1>2, <1>3, <2>1, <2>2, <2>3 DEF NetSound, CallSound
  <2>5. StopSound(t)'
    BY <1>1, <1>2, <2>2, AcksAreNames DEF StopSound
  <2>6. OneAnswer(t)'
    BY <1>1, <1>2, <1>3, <1>4, <2>2 DEF OneAnswer, Acked
  <2>7. Posted(t)'
    <3>1. \A b \in Acks : b # a => Sem[b] # Sem[a] /\ m'[Sem[b]] = m[Sem[b]]
      BY <1>1, <2>1, AcksAreNames DEF TypeOK, Shared, Acks
    <3>2. m'[Sem[a]] = 0
      BY <1>1, <2>1, <2>3, AcksAreNames DEF TypeOK, Shared
    <3>3. \A b \in Acks : b # a => m[Sem[b]] = 0
      BY <1>1, <2>2, <3>1 DEF Posted
    <3>4. \A b \in Acks : Sem[b] # to
      BY AcksAreNames
    <3> QED BY <1>2, <3>1, <3>2, <3>3, <3>4 DEF Posted
  <2> QED BY <2>4, <2>5, <2>6, <2>7
<1> QED BY <1>6, <1>7, <1>8, <1>9 DEF Rest, Sound

\* What counts as connected was told so by a thread that goes on.
LEMMA AcceptsInv == ASSUME NEW t \in Threads, ThreadInv(t), Accepts(t) PROVE Rest(t)'
<1>1. TypeOK /\ app[t].pc = "accept" /\ UNCHANGED <<running, hist>> /\ ~c.connected /\ c.open
  BY DEF ThreadInv, Rest, Phase, Accepts
<1>2. Awaited(app[t].pc) = "CONNACK" /\ Due(app[t].pc) = "CONNACK" /\ None # "CONNACK"
  BY <1>1 DEF Awaited, Due, None
<1>3. ~hist.late => m.pack = app[t].got /\ app[t].got \in {None, "CONNACK"}
  BY <1>1, <1>2 DEF ThreadInv, Rest, Hand
<1>4. Healthy => ~hist.late /\ app[t].got = "CONNACK"
  BY <1>1, <1>3 DEF ThreadInv, Rest, Sound, NetSound, CallSound
<1>5. (Healthy' <=> Healthy) /\ hist'.late = hist.late
  BY <1>1 DEF Healthy
<1>6. /\ m' = m \/ m' = [m EXCEPT !.pack = None]
      /\ m'.pack \in {m.pack, None} /\ (app[t].got # None => m'.pack = None)
  BY <1>1 DEF Accepts, TypeOK, Shared
<1>7. CASE CloseSession /\ AttemptFails(t) /\ app[t].got # "CONNACK"
  <2>1. ~hist.late => m'.pack = None
    BY <1>3, <1>6
  <2>2. Phase(t)' /\ Hand(t)' /\ Queue' /\ Serve'
    BY <1>1, <1>5, <1>7, <2>1, AttemptEnd, GivenUp
  <2> QED BY <1>4, <1>5, <1>7, <2>2 DEF Rest, Sound
<1>8. CASE /\ c' = [c EXCEPT !.state = "off", !.connected = TRUE, !.queue = <<>>]
           /\ Returns(t, TRUE) /\ UNCHANGED <<net, run>> /\ app[t].got # None
  <2>1. /\ c'.connected /\ c'.open /\ c'.queue = <<>>
    BY <1>1, <1>8 DEF TypeOK, Client
  <2>2. app'[t] = [AtRest EXCEPT !.ok = TRUE] /\ UNCHANGED tostop
    BY <1>1, <1>8 DEF Returns, TypeOK
  <2>3. app'[t].pc = "idle" /\ app'[t].got = None /\ app'[t].ok
    BY <2>2 DEF AtRest
  <2>4. m'.pack = None BY <1>6, <1>8
  <2>5. Phase(t)' BY <2>1, <2>3 DEF Phase
  <2>6. Hand(t)' BY <2>3, <2>4 DEF Hand
  <2>7. Queue' BY <1>5, <1>8, <2>1 DEF ThreadInv, Rest, Queue
  <2>8. Serve'
    <3>1. ~hist.late => running /\ ~tostop
      BY <1>3, <1>8 DEF ThreadInv, Rest, Serve
    <3> QED BY <1>1, <1>2, <1>5, <2>2, <2>4, <3>1 DEF Serve
  <2>9. ASSUME Healthy PROVE NetSound' /\ CallSound(t)' /\ StopSound(t)' /\ OneAnswer(t)' /\ Posted(t)'
    <3>1. NetSound /\ CallSound(t) /\ StopSound(t) /\ OneAnswer(t) /\ Posted(t)
      BY <2>9 DEF ThreadInv, Rest, Sound
    <3>2. m'.rc = m.rc /\ \A s \in {"connack", "suback", "unsuback"} : m'[s] = m[s]
      BY <1>1, <1>6 DEF TypeOK, Shared
    <3>3. NetSound' /\ CallSound(t)'
      BY <1>1, <1>8, <2>3, <3>1, <3>2 DEF NetSound, CallSound
    <3>4. StopSound(t)'
      BY <1>1, <1>8, <2>1, <2>2, <3>1 DEF StopSound
    <3>5. m.pack # None BY <1>2, <1>3, <1>4, <2>9
    <3>6. OneAnswer(t)'
      <4>1. net.asked = <<>> /\ ~Acked /\ run.pack = None
        BY <3>1, <3>5 DEF OneAnswer
      <4> QED BY <1>8, <4>1 DEF OneAnswer, Acked
    <3>7. Posted(t)'
      <4>1. \A a \in Acks : m[Sem[a]] = 0
        BY <1>1, <3>1, AcksAreNames DEF Posted
      <4>2. \A a \in Acks : m'[Sem[a]] = 0
        BY <3>2, <4>1, AcksAreNames
      <4> QED BY <2>4, <4>2 DEF Posted
    <3> QED BY <3>3, <3>4, <3>6, <3>7
  <2> QED BY <1>5, <2>5, <2>6, <2>7, <2>8, <2>9 DEF Rest, Sound
<1>9. \/ CloseSession /\ AttemptFails(t) /\ app[t].got # "CONNACK"
      \/ /\ c' = [c EXCEPT !.state = "off", !.connected = TRUE, !.queue = <<>>]
         /\ Returns(t, TRUE) /\ UNCHANGED <<net, run>> /\ app[t].got # None
  BY <1>2 DEF Accepts
<1> QED BY <1>7, <1>8, <1>9

\* A connection that counts is open, and one answer is asked for.
LEMMA AskInv ==
    ASSUME NEW t \in Threads, ThreadInv(t), NEW a \in {"SUBACK", "UNSUBACK"}, NEW others,
           Ask(t, a, Sem[a], others)
    PROVE  Rest(t)'
<1>1. /\ TypeOK /\ app[t].pc = "idle" /\ c.connected /\ c.open /\ a \in Acks
      /\ UNCHANGED <<m, running, run>>
  BY DEF ThreadInv, Rest, Phase, Ask, Acks
<1>2. (Healthy' <=> Healthy) /\ hist'.late = hist.late
  BY <1>1, HealthKept DEF Ask
<1>3. ~hist.late => m.pack = None
  BY <1>1 DEF ThreadInv, Rest, Hand, Awaited
<1>4. CASE /\ net' = [net EXCEPT !.asked = Append(@, a)]
           /\ app' = [app EXCEPT ![t] = [AtRest EXCEPT !.pc = Sem[a]]]
           /\ UNCHANGED <<c, tostop>>
  <2>1. app'[t].pc = Sem[a] /\ app'[t].got = None /\ app'[t].ok
    BY <1>1, <1>4 DEF TypeOK, AtRest
  <2>2. /\ net'.asked = Append(net.asked, a) /\ net'.inbox = net.inbox
        /\ net'.eof = net.eof /\ net'.error = net.error /\ net'.tcp = net.tcp
    BY <1>1, <1>4 DEF TypeOK, Connection
  <2>3. Sem[a] \in {"suback", "unsuback"} /\ Awaited(Sem[a]) = a
    BY AcksAreNames DEF Awaited
  <2>4. Phase(t)' BY <1>1, <1>4, <2>1, <2>2, <2>3 DEF ThreadInv, Rest, Phase
  <2>5. Hand(t)' BY <1>1, <1>2, <1>3, <2>1, <2>3 DEF Hand
  <2>6. Queue' /\ Serve' BY <1>1, <1>2, <1>4 DEF ThreadInv, Rest, Queue, Serve
  <2>7. ASSUME Healthy PROVE NetSound' /\ CallSound(t)' /\ StopSound(t)' /\ OneAnswer(t)' /\ Posted(t)'
    <3>1. NetSound /\ CallSound(t) /\ StopSound(t) /\ OneAnswer(t) /\ Posted(t)
      BY <2>7 DEF ThreadInv, Rest, Sound
    <3>2. NetSound' /\ CallSound(t)'
      BY <1>1, <1>2, <2>1, <2>2, <2>3, <3>1 DEF NetSound, CallSound
    <3>3. StopSound(t)'
      BY <1>1, <1>4, <3>1 DEF StopSound
    <3>4. m.pack = None
      BY <1>3, <3>1 DEF NetSound
    <3>5. /\ \A i \in DOMAIN net.inbox : net.inbox[i] \notin Acks
          /\ net.asked = <<>> /\ run.pack = None
      BY <1>1, <3>1, NothingAwaited
    <3>6. OneAnswer(t)'
      <4>1. net'.asked = <<a>> BY <2>2, <3>5
      <4>2. Awaited(app'[t].pc) = a BY <2>1, <2>3
      <4> QED BY <1>1, <2>2, <3>4, <3>5, <4>1, <4>2 DEF OneAnswer, Acked
    <3>7. Posted(t)'
      <4>1. \A b \in Acks : m[Sem[b]] = 0
        BY <1>1, <3>1, <3>4 DEF Posted
      <4> QED BY <1>1, <3>4, <4>1 DEF Posted
    <3> QED BY <3>2, <3>3, <3>6, <3>7
  <2> QED BY <1>2, <2>4, <2>5, <2>6, <2>7 DEF Rest, Sound
<1>5. CASE CloseSession /\ Stops(t, FALSE) /\ net.eof
  <2>1. ~Healthy BY <1>5 DEF ThreadInv, Rest, Sound, NetSound
  <2>2. Phase(t)' /\ Hand(t)' /\ Queue' /\ Serve'
    BY <1>1, <1>2, <1>3, <1>5, StopEnd, GivenUp
  <2> QED BY <1>2, <2>1, <2>2 DEF Rest, Sound
<1> QED BY <1>1, <1>4, <1>5 DEF Ask

\* Without faults the answer is there.
LEMMA AnsweredInv ==
    ASSUME NEW t \in Threads, ThreadInv(t), NEW pc \in {"subscribed", "unsubscribed"},
           Answered(t, pc)
    PROVE  Rest(t)'
<1>1. TypeOK /\ app[t].pc = pc /\ UNCHANGED <<running, run, hist>>
  BY DEF ThreadInv, Answered
<1>2. ~hist.late => m.pack = app[t].got
  BY <1>1 DEF ThreadInv, Rest, Hand
<1>3. (Healthy' <=> Healthy) /\ hist'.late = hist.late
  BY <1>1 DEF Healthy
<1>4. Healthy => ~hist.late /\ app[t].got # None
  BY <1>1 DEF ThreadInv, Rest, Sound, NetSound, CallSound
<1>5. CASE app[t].got = None
  <2>1. CloseSession /\ Stops(t, FALSE) /\ UNCHANGED m BY <1>5 DEF Answered
  <2>2. Phase(t)' /\ Hand(t)' /\ Queue' /\ Serve'
    BY <1>1, <1>2, <1>3, <1>5, <2>1, StopEnd, GivenUp
  <2> QED BY <1>3, <1>4, <1>5, <2>2 DEF Rest, Sound
<1>6. CASE app[t].got # None
  <2>1. m' = [m EXCEPT !.pack = None] /\ Returns(t, TRUE) /\ UNCHANGED <<c, net>>
    BY <1>6 DEF Answered
  <2>2. app'[t] = [AtRest EXCEPT !.ok = TRUE] /\ UNCHANGED tostop
    BY <1>1, <2>1 DEF Returns, TypeOK
  <2>3. app'[t].pc = "idle" /\ app'[t].got = None /\ app'[t].ok
    BY <2>2 DEF AtRest
  <2>4. /\ m'.pack = None /\ m'.rc = m.rc
        /\ \A s \in {"connack", "suback", "unsuback"} : m'[s] = m[s]
    BY <1>1, <2>1 DEF TypeOK, Shared
  <2>5. Phase(t)' BY <1>1, <2>1, <2>3 DEF ThreadInv, Rest, Phase
  <2>6. Hand(t)' BY <2>3, <2>4 DEF Hand
  <2>7. Queue' BY <1>1, <1>3, <2>1 DEF ThreadInv, Rest, Queue
  <2>8. Serve' BY <1>1, <1>3, <2>1, <2>2, <2>4, AcksAreNames DEF ThreadInv, Rest, Serve, Acks
  <2>9. ASSUME Healthy PROVE NetSound' /\ CallSound(t)' /\ StopSound(t)' /\ OneAnswer(t)' /\ Posted(t)'
    <3>1. NetSound /\ CallSound(t) /\ StopSound(t) /\ OneAnswer(t) /\ Posted(t)
      BY <2>9 DEF ThreadInv, Rest, Sound
    <3>2. NetSound' /\ CallSound(t)'
      BY <1>1, <2>1, <2>3, <2>4, <3>1 DEF NetSound, CallSound
    <3>3. StopSound(t)'
      BY <1>1, <2>1, <2>2, <3>1 DEF StopSound
    <3>4. OneAnswer(t)'
      <4>1. net.asked = <<>> /\ ~Acked /\ run.pack = None
        BY <1>2, <1>4, <1>6, <2>9, <3>1 DEF OneAnswer
      <4> QED BY <1>1, <2>1, <4>1 DEF OneAnswer, Acked
    <3>5. Posted(t)'
      <4>1. \A a \in Acks : m[Sem[a]] = 0
        BY <1>1, <3>1, AcksAreNames DEF Posted
      <4>2. \A a \in Acks : m'[Sem[a]] = 0
        BY <2>4, <4>1, AcksAreNames
      <4> QED BY <2>4, <4>2 DEF Posted
    <3> QED BY <3>2, <3>3, <3>4, <3>5
  <2> QED BY <1>3, <2>5, <2>6, <2>7, <2>8, <2>9 DEF Rest, Sound
<1> QED BY <1>5, <1>6

\* No answer is due when the session is closed.
LEMMA DisconnectInv == ASSUME NEW t \in Threads, ThreadInv(t), Disconnect(t) PROVE Rest(t)'
<1>1. TypeOK /\ app[t].pc = "idle" /\ UNCHANGED <<m, running, run>>
  BY DEF ThreadInv, Disconnect
<1>2. (Healthy' <=> Healthy) /\ hist'.late = hist.late
  BY <1>1, HealthKept DEF Disconnect
<1>3. CASE c.connected
  <2>1. /\ c' = [c EXCEPT !.state = "closing"] /\ UNCHANGED <<net, tostop>>
        /\ app' = [app EXCEPT ![t] = [AtRest EXCEPT !.pc = "draining"]]
    BY <1>3 DEF Disconnect
  <2>2. c'.connected = c.connected /\ c'.open = c.open /\ c'.queue = c.queue
    BY <1>1, <2>1 DEF TypeOK, Client
  <2>3. app'[t].pc = "draining" /\ app'[t].got = None /\ app'[t].ok = TRUE
    BY <1>1, <2>1 DEF TypeOK, AtRest
  <2>4. Phase(t)' BY <1>1, <2>1, <2>2, <2>3 DEF ThreadInv, Rest, Phase
  <2>5. Hand(t)' BY <1>1, <1>2, <2>3 DEF ThreadInv, Rest, Hand, Awaited
  <2>6. Queue' /\ Serve' BY <1>1, <1>2, <2>1, <2>2 DEF ThreadInv, Rest, Queue, Serve
  <2>7. ASSUME Healthy PROVE NetSound' /\ CallSound(t)' /\ StopSound(t)' /\ OneAnswer(t)' /\ Posted(t)'
    <3>1. NetSound /\ CallSound(t) /\ StopSound(t) /\ OneAnswer(t) /\ Posted(t)
      BY <2>7 DEF ThreadInv, Rest, Sound
    <3>2. NetSound' /\ CallSound(t)'
      BY <1>1, <1>2, <2>1, <2>3, <3>1 DEF NetSound, CallSound
    <3>3. StopSound(t)'
      BY <1>1, <2>1, <2>2, <3>1 DEF StopSound
    <3>4. OneAnswer(t)'
      BY <1>1, <2>1, <2>3, <3>1 DEF OneAnswer, Acked, Awaited
    <3>5. Posted(t)'
      BY <1>1, <2>3, <3>1, AcksAreNames DEF Posted
    <3> QED BY <3>2, <3>3, <3>4, <3>5
  <2> QED BY <1>2, <2>4, <2>5, <2>6, <2>7 DEF Rest, Sound
<1>4. CASE ~c.connected
  BY <1>1, <1>2, <1>4, Disconnected DEF Disconnect
<1> QED BY <1>3, <1>4

\* As for a disconnect without a connection.
LEMMA DrainedInv == ASSUME NEW t \in Threads, ThreadInv(t), Drained(t) PROVE Rest(t)'
BY Disconnected DEF Drained, Healthy

\* A stop is over when the thread has ended, or is in its callback.
LEMMA StopWaitsInv == ASSUME NEW t \in Threads, ThreadInv(t), StopWaits(t) PROVE Rest(t)'
<1>1. /\ TypeOK /\ app[t].pc = "stopping" /\ (~running \/ run.pc = "calling")
      /\ UNCHANGED <<c, m, running, tostop, run, net>> /\ hist' = hist
  BY DEF ThreadInv, StopWaits
<1>2. app'[t] = [AtRest EXCEPT !.ok = app[t].ok]
  BY <1>1 DEF StopWaits, TypeOK
<1>3. app'[t].pc = "idle" /\ app'[t].got = None /\ app'[t].ok = app[t].ok
  BY <1>2 DEF AtRest
<1>4. Phase(t)' BY <1>1, <1>3 DEF ThreadInv, Rest, Phase
<1>5. Hand(t)' BY <1>1, <1>3 DEF ThreadInv, Rest, Hand, Awaited
<1>6. Queue' /\ Serve' BY <1>1 DEF ThreadInv, Rest, Queue, Serve
<1>7. ASSUME Healthy PROVE NetSound' /\ CallSound(t)' /\ StopSound(t)' /\ OneAnswer(t)' /\ Posted(t)'
  <2>1. NetSound /\ CallSound(t) /\ StopSound(t) /\ OneAnswer(t) /\ Posted(t)
    BY <1>7 DEF ThreadInv, Rest, Sound
  <2>2. NetSound' /\ CallSound(t)'
    BY <1>1, <1>3, <2>1 DEF NetSound, CallSound
  <2>3. StopSound(t)'
    BY <1>1, <2>1 DEF StopSound, TypeOK
  <2>4. OneAnswer(t)'
    BY <1>1, <1>3, <2>1 DEF OneAnswer, Acked, Awaited
  <2>5. Posted(t)'
    BY <1>1, <1>3, <2>1, AcksAreNames DEF Posted
  <2> QED BY <2>2, <2>3, <2>4, <2>5
<1> QED BY <1>1, <1>4, <1>5, <1>6, <1>7 DEF Rest, Sound, Healthy

\* The background thread ends only when it was told to.
LEMMA RunMovesInv ==
    ASSUME NEW t \in Threads, ThreadInv(t), RunStarts \/ RunStops
    PROVE  Rest(t)'
<1>1. /\ TypeOK /\ UNCHANGED <<c, m, app, net>> /\ hist' = hist
      /\ run.pc \in {"starting", "loop"} /\ (run.pc = "starting" => ~running /\ ~tostop)
  BY DEF ThreadInv, TypeOK, RunStarts, RunStops
<1>2. \/ run.pc = "starting" /\ run'.pc = "loop" /\ running' = TRUE /\ tostop' = tostop
         /\ run'.pack = run.pack
      \/ run.pc = "loop" /\ run'.pc = "none" /\ running' = FALSE /\ tostop /\ tostop' = FALSE
         /\ run'.pack = None
  BY <1>1 DEF RunStarts, RunStops, Exits, NoRun, TypeOK, Reader
<1>3. Phase(t)' BY <1>1 DEF ThreadInv, Rest, Phase
<1>4. Hand(t)' BY <1>1 DEF ThreadInv, Rest, Hand
<1>5. Queue' BY <1>1, <1>2 DEF ThreadInv, Rest, Queue
<1>6. Serve' BY <1>1, <1>2 DEF ThreadInv, Rest, Serve
<1>7. ASSUME Healthy PROVE NetSound' /\ CallSound(t)' /\ StopSound(t)' /\ OneAnswer(t)' /\ Posted(t)'
  <2>1. NetSound /\ CallSound(t) /\ StopSound(t) /\ OneAnswer(t) /\ Posted(t)
    BY <1>7 DEF ThreadInv, Rest, Sound
  <2>2. NetSound' /\ CallSound(t)'
    BY <1>1, <2>1 DEF NetSound, CallSound
  <2>3. StopSound(t)'
    BY <1>1, <1>2, <2>1 DEF StopSound
  <2>4. OneAnswer(t)'
    BY <1>1, <1>2, <2>1 DEF OneAnswer, Acked
  <2>5. Posted(t)'
    BY <1>1, <2>1 DEF Posted
  <2> QED BY <2>2, <2>3, <2>4, <2>5
<1> QED BY <1>1, <1>3, <1>4, <1>5, <1>6, <1>7 DEF Rest, Sound, Healthy

\* Finding the socket ready moves no packet.
LEMMA FindsInv == ASSUME NEW t \in Threads, ThreadInv(t), RunFinds PROVE Rest(t)'
<1>1. /\ TypeOK /\ UNCHANGED <<c, m, running, tostop, app>> /\ hist' = hist
      /\ run.pc = "loop" /\ c.open
  BY DEF ThreadInv, RunFinds, Ready
<1>2. run'.pc = "found" /\ run'.pack = run.pack
  BY <1>1 DEF RunFinds, TypeOK, Reader
<1>3. /\ net'.asked = net.asked /\ net'.inbox = net.inbox
      /\ net'.eof = net.eof /\ net'.error = net.error /\ net'.tcp = net.tcp
  BY <1>1 DEF RunFinds, TypeOK, Connection
<1>4. Phase(t)' BY <1>1, <1>3 DEF ThreadInv, Rest, Phase
<1>5. Hand(t)' BY <1>1 DEF ThreadInv, Rest, Hand
<1>6. Queue' BY <1>1, <1>2 DEF ThreadInv, Rest, Queue
<1>7. Serve' BY <1>1 DEF ThreadInv, Rest, Serve
<1>8. ASSUME Healthy PROVE NetSound' /\ CallSound(t)' /\ StopSound(t)' /\ OneAnswer(t)' /\ Posted(t)'
  <2>1. NetSound /\ CallSound(t) /\ StopSound(t) /\ OneAnswer(t) /\ Posted(t)
    BY <1>8 DEF ThreadInv, Rest, Sound
  <2>2. NetSound' /\ CallSound(t)'
    BY <1>1, <1>3, <2>1 DEF NetSound, CallSound
  <2>3. StopSound(t)'
    BY <1>1, <1>2, <2>1 DEF StopSound
  <2>4. OneAnswer(t)'
    BY <1>1, <1>2, <1>3, <2>1 DEF OneAnswer, Acked
  <2>5. Posted(t)'
    BY <1>1, <2>1 DEF Posted
  <2> QED BY <2>2, <2>3, <2>4, <2>5
<1> QED BY <1>1, <1>4, <1>5, <1>6, <1>7, <1>8 DEF Rest, Sound, Healthy

\* The one answer on its way, or a message, is read.
LEMMA ReadsInv == ASSUME NEW t \in Threads, ThreadInv(t), RunReads PROVE Rest(t)'
<1>1. /\ TypeOK /\ UNCHANGED <<m, running, tostop, app>> /\ hist' = hist
      /\ run.pc = "found" /\ run'.pc = "read"
  BY DEF ThreadInv, RunReads, TypeOK, Reader
<1>2. (~hist.late => c.queue = <<>>) /\ (Healthy => run.pack = None)
  BY <1>1 DEF ThreadInv, Rest, Queue, Sound, OneAnswer
<1>3. CASE /\ UNCHANGED <<c, net>>
           /\ \/ ~c.open \/ net.eof
              \/ c.open /\ run'.rc = "ok"
           /\ run'.pack = None
  <2>1. Phase(t)' BY <1>1, <1>3 DEF ThreadInv, Rest, Phase
  <2>2. Hand(t)' BY <1>1 DEF ThreadInv, Rest, Hand
  <2>3. Queue' BY <1>1, <1>2, <1>3 DEF Queue
  <2>4. Serve' BY <1>1, <1>3 DEF ThreadInv, Rest, Serve
  <2>5. ASSUME Healthy PROVE NetSound' /\ CallSound(t)' /\ StopSound(t)' /\ OneAnswer(t)' /\ Posted(t)'
    <3>1. NetSound /\ CallSound(t) /\ StopSound(t) /\ OneAnswer(t) /\ Posted(t)
      BY <2>5 DEF ThreadInv, Rest, Sound
    <3>2. NetSound' /\ CallSound(t)'
      BY <1>1, <1>3, <3>1 DEF NetSound, CallSound
    <3>3. StopSound(t)'
      <4>1. run'.rc = "ok" \/ ~c.open BY <1>3, <3>1 DEF NetSound
      <4> QED BY <1>1, <1>3, <3>1, <4>1 DEF StopSound
    <3>4. OneAnswer(t)'
      BY <1>1, <1>3, <3>1 DEF OneAnswer, Acked
    <3>5. Posted(t)'
      BY <1>1, <3>1 DEF Posted
    <3> QED BY <3>2, <3>3, <3>4, <3>5
  <2> QED BY <1>1, <2>1, <2>2, <2>3, <2>4, <2>5 DEF Rest, Sound, Healthy
<1>4. CASE /\ c.open /\ net.inbox # <<>>
           /\ LET p == Head(net.inbox)
              IN /\ run' = [run EXCEPT !.pc = "read", !.rc = "ok",
                                       !.pack = IF p \in Acks THEN p ELSE None]
                 /\ c' = IF p \in Acks THEN c ELSE [c EXCEPT !.queue = Append(@, p)]
           /\ net' = [net EXCEPT !.inbox = Tail(@)]
  <2> DEFINE p == Head(net.inbox)
  <2>1. net.inbox \in Seq(Acks \cup Messages) BY <1>1 DEF TypeOK, Connection
  <2>2. /\ 1 \in DOMAIN net.inbox /\ p = net.inbox[1]
        /\ \A i \in DOMAIN Tail(net.inbox) :
               i + 1 \in DOMAIN net.inbox /\ i # 0 /\ i \in Nat /\ Tail(net.inbox)[i] = net.inbox[i + 1]
    BY <1>4, <2>1, Elements
  <2>3. /\ net'.inbox = Tail(net.inbox) /\ net'.asked = net.asked
        /\ net'.eof = net.eof /\ net'.error = net.error /\ net'.tcp = net.tcp
    BY <1>1, <1>4 DEF TypeOK, Connection
  <2>4. run'.rc = "ok" /\ run'.pack = IF p \in Acks THEN p ELSE None
    BY <1>1, <1>4 DEF TypeOK, Reader
  <2>5. /\ c'.open = c.open /\ c'.connected = c.connected
        /\ c'.queue = IF p \in Acks THEN c.queue ELSE Append(c.queue, p)
    BY <1>1, <1>4 DEF TypeOK, Client
  <2> HIDE DEF p
  <2>6. p \notin Acks => c.connected
    BY <2>2 DEF ThreadInv, Rest, Phase
  <2>7. Phase(t)'
    <3>1. \A i \in DOMAIN net'.inbox : net'.inbox[i] \notin Acks => c.connected
      BY <2>2, <2>3 DEF ThreadInv, Rest, Phase
    <3>2. c'.queue # <<>> => c.connected
      BY <2>5, <2>6 DEF ThreadInv, Rest, Phase
    <3> QED BY <1>1, <2>5, <3>1, <3>2 DEF ThreadInv, Rest, Phase
  <2>8. Hand(t)' BY <1>1 DEF ThreadInv, Rest, Hand
  <2>9. Queue'
    <3>1. CASE p \in Acks
      BY <1>1, <1>2, <2>5, <3>1 DEF Queue
    <3>2. CASE p \notin Acks /\ ~hist.late
      <4>1. c'.queue = Append(<<>>, p) BY <1>2, <2>5, <3>2
      <4>2. Tail(c'.queue) = <<>> BY <4>1
      <4> QED BY <1>1, <2>4, <3>2, <4>2 DEF Queue
    <3> QED BY <1>1, <3>1, <3>2 DEF Queue
  <2>10. Serve' BY <1>1, <2>5 DEF ThreadInv, Rest, Serve
  <2>11. ASSUME Healthy PROVE NetSound' /\ CallSound(t)' /\ StopSound(t)' /\ OneAnswer(t)' /\ Posted(t)'
    <3>1. NetSound /\ CallSound(t) /\ StopSound(t) /\ OneAnswer(t) /\ Posted(t)
      BY <2>11 DEF ThreadInv, Rest, Sound
    <3>2. NetSound' /\ CallSound(t)'
      BY <1>1, <2>3, <3>1 DEF NetSound, CallSound
    <3>3. StopSound(t)'
      BY <1>1, <2>4, <2>5, <3>1 DEF StopSound
    <3>4. OneAnswer(t)'
      <4>1. /\ \A i \in DOMAIN net'.inbox : net'.inbox[i] \in Acks =>
                   net'.inbox[i] = Awaited(app[t].pc) /\ Acked
            /\ \A i, j \in DOMAIN net'.inbox :
                   net'.inbox[i] \in Acks /\ net'.inbox[j] \in Acks => i = j
        <5>1. ASSUME NEW i \in DOMAIN net'.inbox, net'.inbox[i] \in Acks
              PROVE  net'.inbox[i] = Awaited(app[t].pc) /\ Acked /\ i + 1 \in DOMAIN net.inbox
                     /\ net.inbox[i + 1] \in Acks /\ i \in Nat
          BY <2>2, <2>3, <3>1, <5>1 DEF OneAnswer, Acked
        <5>2. ASSUME NEW i \in DOMAIN net'.inbox, NEW j \in DOMAIN net'.inbox,
                     net'.inbox[i] \in Acks, net'.inbox[j] \in Acks
              PROVE  i = j
          <6>1. i + 1 = j + 1 BY <3>1, <5>1, <5>2 DEF OneAnswer
          <6> QED BY <5>1, <5>2, <6>1
        <5> QED BY <5>1, <5>2
      <4>2. p \in Acks => /\ p = Awaited(app[t].pc) /\ Acked
                          /\ \A i \in DOMAIN net'.inbox : net'.inbox[i] \notin Acks
        <5>1. ASSUME p \in Acks, NEW i \in DOMAIN net'.inbox, net'.inbox[i] \in Acks
              PROVE  FALSE
          <6>1. i + 1 \in DOMAIN net.inbox /\ net.inbox[i + 1] \in Acks /\ i \in Nat /\ i # 0
            BY <2>2, <2>3, <5>1
          <6>2. i + 1 = 1 BY <2>2, <3>1, <5>1, <6>1 DEF OneAnswer
          <6> QED BY <6>1, <6>2
        <5>2. p \in Acks => p = Awaited(app[t].pc) /\ Acked
          BY <2>2, <3>1 DEF OneAnswer, Acked
        <5> QED BY <5>1, <5>2
      <4>3. CASE p \in Acks
        BY <1>1, <2>3, <2>4, <3>1, <4>1, <4>2, <4>3 DEF OneAnswer, Acked
      <4>4. CASE p \notin Acks
        BY <1>1, <1>2, <2>3, <2>4, <2>11, <3>1, <4>1, <4>4 DEF OneAnswer, Acked
      <4> QED BY <4>3, <4>4
    <3>5. Posted(t)'
      BY <1>1, <3>1 DEF Posted
    <3> QED BY <3>2, <3>3, <3>4, <3>5
  <2> QED BY <1>1, <2>7, <2>8, <2>9, <2>10, <2>11 DEF Rest, Sound, Healthy
<1>5. CASE /\ ~c.open \/ net.eof
           /\ run' = [run EXCEPT !.pc = "read", !.rc = "error", !.pack = None] /\ UNCHANGED <<c, net>>
  <2>1. run'.pack = None BY <1>1, <1>5 DEF TypeOK, Reader
  <2> QED BY <1>3, <1>5, <2>1
<1>6. CASE /\ c.open
           /\ run' = [run EXCEPT !.pc = "read", !.rc = "ok", !.pack = None] /\ UNCHANGED <<c, net>>
  <2>1. run'.pack = None /\ run'.rc = "ok" BY <1>1, <1>6 DEF TypeOK, Reader
  <2> QED BY <1>3, <1>6, <2>1
<1> QED BY <1>4, <1>5, <1>6 DEF RunReads

\* What Told leaves alone, and that it posts for the one who waits.
LEMMA ToldEnd ==
    ASSUME TypeOK, NEW p \in Acks \cup {None}, Told(p)
    PROVE  /\ net'.asked = net.asked /\ net'.inbox = net.inbox
           /\ net'.eof = net.eof /\ net'.tcp = net.tcp /\ (net'.error => net.error)
           /\ (Healthy' <=> Healthy) /\ (hist.late => hist'.late)
           /\ m'.pack = IF p = None THEN m.pack ELSE p
           /\ ~net.error /\ m.rc = "ok" => m'.rc = "ok"
           /\ hist'.late = (hist.late \/ (p # None /\ \A t \in Threads : app[t].pc # Sem[p]))
           /\ \A a \in Acks : a # p => m'[Sem[a]] = m[Sem[a]]
           /\ p # None /\ m[Sem[p]] = 0 => m'[Sem[p]] = 1
<1>1. CASE p # None
  <2>1. /\ m' = [Post(Sem[p]) EXCEPT !.pack = p] /\ net' = net /\ p \in Acks
        /\ hist' = [hist EXCEPT !.late = @ \/ \A t \in Threads : app[t].pc # Sem[p]]
    BY <1>1 DEF Told
  <2>2. (Healthy' <=> Healthy) /\ hist'.late = (hist.late \/ \A t \in Threads : app[t].pc # Sem[p])
    BY <2>1 DEF TypeOK, History, Healthy
  <2>3. Sem[p] \in {"connack", "suback", "unsuback"} BY <2>1, AcksAreNames
  <2>4. m'.pack = p /\ m'.rc = m.rc
    BY <2>1, <2>3 DEF Post, TypeOK, Shared
  <2>5. \A a \in Acks : a # p => m'[Sem[a]] = m[Sem[a]]
    <3>1. \A a \in Acks : a # p => Sem[a] # Sem[p] /\ Sem[a] \in {"connack", "suback", "unsuback"}
      BY <2>1, AcksAreNames DEF Acks
    <3> QED BY <2>1, <2>3, <3>1 DEF Post, TypeOK, Shared
  <2>6. m[Sem[p]] = 0 => m'[Sem[p]] = 1
    <3>1. 0 < MaxPosts /\ 0 + 1 = 1 BY BoundsAssumption
    <3>2. m[Sem[p]] = 0 => Post(Sem[p]) = [m EXCEPT ![Sem[p]] = 1]
      BY <3>1 DEF Post
    <3> QED BY <2>1, <2>3, <3>2 DEF TypeOK, Shared
  <2>7. hist.late => hist'.late BY <2>2
  <2> QED BY <1>1, <2>1, <2>2, <2>4, <2>5, <2>6, <2>7
<1>2. CASE p = None
  <2>1. UNCHANGED hist BY <1>2 DEF Told
  <2>2. /\ net'.asked = net.asked /\ net'.inbox = net.inbox
        /\ net'.eof = net.eof /\ net'.tcp = net.tcp /\ (net'.error => net.error)
    BY <1>2 DEF Told, TypeOK, Connection
  <2>3. m' = m \/ m' = [Post("connect") EXCEPT !.rc = IF net.error THEN "error" ELSE "ok"]
    BY <1>2 DEF Told
  <2>4. /\ m'.pack = m.pack /\ (~net.error /\ m.rc = "ok" => m'.rc = "ok")
        /\ \A s \in {"connack", "suback", "unsuback"} : m'[s] = m[s]
    BY <2>3 DEF Post, TypeOK, Shared
  <2>5. (Healthy' <=> Healthy) /\ hist'.late = hist.late BY <2>1 DEF Healthy
  <2>6. \A a \in Acks : m'[Sem[a]] = m[Sem[a]] BY <2>4, AcksAreNames
  <2>7. hist'.late = (hist.late \/ (p # None /\ \A t \in Threads : app[t].pc # Sem[p]))
    BY <1>2, <2>5 DEF TypeOK, History
  <2> QED BY <1>2, <2>2, <2>4, <2>5, <2>6, <2>7
<1> QED BY <1>1, <1>2

\* Handing a packet on, with the thread going on or ending.
LEMMA HandedOn ==
    ASSUME NEW t \in Threads, Threads = {t}, ThreadInv(t), Told(run.pack), UNCHANGED app,
           c'.connected = c.connected, c'.open = c.open,
           c'.queue # <<>> => c.queue # <<>>,
           ~hist.late => c'.queue = <<>> /\ (tostop => run.pack = None),
           run.pc \in {"read", "calling"}, run'.pack = None,
           \/ ~tostop /\ UNCHANGED <<running, tostop>> /\ run'.pc = "loop"
           \/ tostop /\ tostop' = FALSE /\ run'.pc = "none"
    PROVE  Rest(t)'
<1>1. TypeOK /\ run.pack \in Acks \cup {None} /\ running
  BY DEF ThreadInv, TypeOK, Reader
<1>2. Phase(t)' BY <1>1, ToldEnd DEF ThreadInv, Rest, Phase
<1>3. hist.late => hist'.late BY <1>1, ToldEnd
<1>4. ASSUME ~hist'.late, run.pack # None
      PROVE  /\ app[t].pc = Sem[run.pack] /\ m'.pack = run.pack /\ run.pack \in Acks
             /\ Awaited(app[t].pc) = run.pack
             /\ app[t].pc \notin {"accept", "subscribed", "unsubscribed"}
  <2>1. app[t].pc = Sem[run.pack] /\ m'.pack = run.pack /\ run.pack \in Acks
    BY <1>1, <1>4, ToldEnd
  <2> QED BY <2>1, AcksAreNames DEF Awaited, Acks
<1>5. Hand(t)'
  <2>1. CASE run.pack = None
    BY <1>1, <1>3, <2>1, ToldEnd DEF ThreadInv, Rest, Hand
  <2>2. CASE run.pack # None
    BY <1>3, <1>4, <2>2 DEF ThreadInv, Rest, Hand
  <2> QED BY <2>1, <2>2
<1>6. Queue' BY <1>3 DEF Queue
<1>7. Serve'
  <2>1. ASSUME ~hist'.late, c.connected \/ m'.pack = "CONNACK" PROVE running' /\ ~tostop'
    <3>1. CASE run.pack # None \/ ~tostop
      <4>1. ~tostop BY <1>3, <2>1, <3>1
      <4>2. running' = running /\ tostop' = tostop BY <4>1
      <4> QED BY <1>1, <4>1, <4>2
    <3>2. CASE run.pack = None /\ tostop
      BY <1>1, <1>3, <2>1, <3>2, ToldEnd DEF ThreadInv, Rest, Serve
    <3> QED BY <3>1, <3>2
  <2> QED BY <2>1 DEF Serve
<1>8. ASSUME Healthy PROVE NetSound' /\ CallSound(t)' /\ StopSound(t)' /\ OneAnswer(t)' /\ Posted(t)'
  <2>1. NetSound /\ CallSound(t) /\ StopSound(t) /\ OneAnswer(t) /\ Posted(t)
    BY <1>8 DEF ThreadInv, Rest, Sound
  <2>2. run.pack # None => m.pack = None /\ net.asked = <<>> /\ ~Acked
                           /\ run.pack = Awaited(app[t].pc)
    BY <2>1 DEF OneAnswer
  <2>3. run.pack # None => app[t].pc = Sem[run.pack] /\ run.pack \in Acks
    <3>1. ASSUME run.pack # None PROVE app[t].pc = Sem[run.pack] /\ run.pack \in Acks
      <4>1. app[t].pc \notin {"accept", "subscribed", "unsubscribed"}
        BY <2>1, <2>2, <3>1 DEF ThreadInv, Rest, Hand, NetSound, CallSound
      <4> QED BY <1>1, <2>2, <3>1, <4>1, AcksAreNames DEF Awaited
    <3> QED BY <3>1
  <2>4. ~hist'.late
    BY <1>1, <2>1, <2>3, ToldEnd DEF NetSound
  <2>5. NetSound' /\ CallSound(t)'
    BY <1>1, <2>1, <2>4, ToldEnd DEF NetSound, CallSound
  <2>6. StopSound(t)'
    BY <2>1 DEF StopSound
  <2>7. OneAnswer(t)'
    <3>1. net'.asked = net.asked /\ net'.inbox = net.inbox /\ (run.pack = None => m'.pack = m.pack)
      BY <1>1, ToldEnd
    <3>2. CASE run.pack = None
      BY <2>1, <3>1, <3>2 DEF OneAnswer, Acked
    <3>3. CASE run.pack # None
      BY <2>1, <2>2, <3>1, <3>3 DEF OneAnswer, Acked
    <3> QED BY <3>2, <3>3
  <2>8. Posted(t)'
    <3>1. CASE run.pack = None
      <4>1. m'.pack = m.pack /\ \A a \in Acks : m'[Sem[a]] = m[Sem[a]]
        BY <1>1, <3>1, ToldEnd, AcksAreNames
      <4> QED BY <2>1, <4>1 DEF Posted
    <3>2. CASE run.pack # None
      <4>1. \A a \in Acks : m[Sem[a]] = 0 BY <2>1, <2>2, <3>2 DEF Posted
      <4>2. m'[Sem[run.pack]] = 1 /\ m'.pack # None
            /\ \A a \in Acks : a # run.pack => m'[Sem[a]] = 0
        BY <1>1, <2>3, <3>2, <4>1, ToldEnd
      <4>3. \A a \in Acks : a # run.pack => app[t].pc # Sem[a]
        BY <2>3, <3>2, AcksAreNames DEF Acks
      <4> QED BY <2>3, <3>2, <4>2, <4>3 DEF Posted
    <3> QED BY <3>1, <3>2
  <2> QED BY <2>5, <2>6, <2>7, <2>8
<1>9. Healthy' <=> Healthy BY <1>1, ToldEnd
<1> QED BY <1>2, <1>5, <1>6, <1>7, <1>8, <1>9 DEF Rest, Sound

\* The packet is handed on, kept for after a callback, or lost with the
\* connection.
LEMMA HandlesInv == ASSUME NEW t \in Threads, Threads = {t}, ThreadInv(t), RunHandles PROVE Rest(t)'
<1>1. TypeOK /\ run.pc = "read" /\ running /\ UNCHANGED app
  BY DEF ThreadInv, TypeOK, RunHandles
<1>2. CASE tostop
  <2>1. Exits /\ UNCHANGED <<c, m, net>> /\ hist' = hist BY <1>2 DEF RunHandles
  <2>2. run'.pc = "none" /\ run'.pack = None /\ running' = FALSE /\ tostop' = FALSE
    BY <2>1 DEF Exits, NoRun
  <2>3. Phase(t)' /\ Hand(t)' BY <1>1, <2>1 DEF ThreadInv, Rest, Phase, Hand
  <2>4. ~hist.late => ~c.connected /\ m.pack # "CONNACK" /\ c.queue = <<>>
    BY <1>2 DEF ThreadInv, Rest, Serve, Phase
  <2>5. Queue' /\ Serve' BY <2>1, <2>2, <2>4 DEF Queue, Serve
  <2>6. ASSUME Healthy PROVE NetSound' /\ CallSound(t)' /\ StopSound(t)' /\ OneAnswer(t)' /\ Posted(t)'
    <3>1. NetSound /\ CallSound(t) /\ StopSound(t) /\ OneAnswer(t) /\ Posted(t)
      BY <2>6 DEF ThreadInv, Rest, Sound
    <3>2. NetSound' /\ CallSound(t)' BY <1>1, <2>1, <3>1 DEF NetSound, CallSound
    <3>3. StopSound(t)' BY <2>2 DEF StopSound
    <3>4. OneAnswer(t)' BY <1>1, <2>1, <2>2, <3>1 DEF OneAnswer, Acked
    <3>5. Posted(t)' BY <1>1, <2>1, <3>1 DEF Posted
    <3> QED BY <3>2, <3>3, <3>4, <3>5
  <2> QED BY <2>1, <2>3, <2>5, <2>6 DEF Rest, Sound, Healthy
<1>3. CASE ~tostop /\ ~c.open
  <2>1. /\ run' = [NoRun EXCEPT !.pc = "loop"] /\ UNCHANGED <<c, m, net, running, tostop>>
        /\ hist' = hist
    BY <1>3 DEF RunHandles
  <2>2. run'.pc = "loop" /\ run'.pack = None BY <2>1 DEF NoRun
  <2>3. Phase(t)' /\ Hand(t)' BY <1>1, <2>1 DEF ThreadInv, Rest, Phase, Hand
  <2>4. c.queue = <<>> BY <1>3 DEF ThreadInv, Rest, Phase
  <2>5. Queue' /\ Serve' BY <2>1, <2>2, <2>4 DEF ThreadInv, Rest, Queue, Serve
  <2>6. ~Healthy BY <1>1, <1>3 DEF ThreadInv, Rest, Sound, StopSound
  <2> QED BY <2>1, <2>3, <2>5, <2>6 DEF Rest, Sound, Healthy
<1>4. CASE ~tostop /\ c.open /\ run.rc = "error"
  <2>1. ReadFailed /\ hist' = hist BY <1>4 DEF RunHandles
  <2>2. ~Healthy BY <1>1, <1>4 DEF ThreadInv, Rest, Sound, StopSound
  <2>3. CASE c.connected /\ CloseSession /\ Exits /\ UNCHANGED m
    <3>1. run'.pc = "none" BY <2>3 DEF Exits, NoRun
    <3>2. app[t].pc \notin {"connect", "connack", "accept"}
      BY <2>3 DEF ThreadInv, Rest, Phase
    <3>3. Phase(t)' BY <1>1, <2>3, <3>2, Closes DEF Phase
    <3>4. Hand(t)' BY <1>1, <2>1, <2>3 DEF ThreadInv, Rest, Hand
    <3>5. Queue' BY <1>1, <2>3, <3>1, Closes DEF Queue
    <3>6. ~hist.late => m.pack # "CONNACK"
      BY <3>2, AcksAreNames DEF ThreadInv, Rest, Hand, Awaited, Acks
    <3>7. Serve' BY <1>1, <2>1, <2>3, <3>6, Closes DEF Serve
    <3> QED BY <2>1, <2>2, <3>3, <3>4, <3>5, <3>7 DEF Rest, Sound, Healthy
  <2>4. CASE /\ ~c.connected
             /\ m' = IF c.state = "connack" THEN Post("connack") ELSE m
             /\ run' = [NoRun EXCEPT !.pc = "loop"]
             /\ UNCHANGED <<c, net, running, tostop>>
    <3>1. run'.pc = "loop" BY <2>4 DEF NoRun
    <3>2. m'.pack = m.pack BY <1>1, <2>4 DEF Post, TypeOK, Shared
    <3>3. c.queue = <<>> BY <2>4 DEF ThreadInv, Rest, Phase
    <3>4. Phase(t)' BY <1>1, <2>4 DEF ThreadInv, Rest, Phase
    <3>5. Hand(t)' BY <1>1, <2>1, <3>2 DEF ThreadInv, Rest, Hand
    <3>6. Queue' /\ Serve' BY <2>1, <2>4, <3>1, <3>2, <3>3 DEF ThreadInv, Rest, Queue, Serve
    <3> QED BY <2>1, <2>2, <3>4, <3>5, <3>6 DEF Rest, Sound, Healthy
  <2> QED BY <2>1, <2>3, <2>4 DEF ReadFailed
<1>5. CASE ~tostop /\ c.open /\ run.rc = "ok" /\ c.queue # <<>>
  <2>1. /\ run' = [run EXCEPT !.pc = "calling", !.msg = Head(c.queue)]
        /\ UNCHANGED <<c, m, net, running, tostop>> /\ hist' = hist
    BY <1>5 DEF RunHandles
  <2>2. run'.pc = "calling" /\ run'.msg = Head(c.queue) /\ run'.pack = run.pack
    BY <1>1, <2>1 DEF TypeOK, Reader
  <2>3. Phase(t)' /\ Hand(t)' BY <1>1, <2>1 DEF ThreadInv, Rest, Phase, Hand
  <2>4. ~hist.late => Tail(c.queue) = <<>> /\ run.pack = None
    BY <1>1, <1>5 DEF ThreadInv, Rest, Queue
  <2>5. Tail(c.queue) = <<>> => c.queue = <<Head(c.queue)>>
    <3>1. c.queue \in Seq(Messages) BY <1>1 DEF TypeOK, Client
    <3>2. ASSUME NEW q \in Seq(Messages), q # <<>>, Tail(q) = <<>>
          PROVE  Len(q) = 1 /\ Head(q) = q[1]
      <4>1. Len(Tail(q)) = Len(q) - 1 /\ Len(q) \in Nat /\ Head(q) = q[1]
        BY <3>2
      <4>2. \A e : e = <<>> => Len(e) = 0 OBVIOUS
      <4>3. Len(Tail(q)) = 0 BY <3>2, <4>2
      <4> QED BY <4>1, <4>3
    <3>3. \A q \in Seq(Messages) : Len(q) = 1 => q = <<q[1]>>
      OBVIOUS
    <3> QED BY <1>5, <3>1, <3>2, <3>3
  <2>6. Queue' BY <2>1, <2>2, <2>4, <2>5 DEF Queue
  <2>7. Serve' BY <2>1 DEF ThreadInv, Rest, Serve
  <2>8. ASSUME Healthy PROVE NetSound' /\ CallSound(t)' /\ StopSound(t)' /\ OneAnswer(t)' /\ Posted(t)'
    <3>1. NetSound /\ CallSound(t) /\ StopSound(t) /\ OneAnswer(t) /\ Posted(t)
      BY <2>8 DEF ThreadInv, Rest, Sound
    <3>2. NetSound' /\ CallSound(t)' BY <1>1, <2>1, <3>1 DEF NetSound, CallSound
    <3>3. StopSound(t)' BY <1>5, <2>1, <2>2, <3>1 DEF StopSound
    <3>4. run.pack = None BY <2>4, <3>1 DEF NetSound
    <3>5. OneAnswer(t)' BY <1>1, <2>1, <2>2, <3>1, <3>4 DEF OneAnswer, Acked
    <3>6. Posted(t)' BY <1>1, <2>1, <3>1 DEF Posted
    <3> QED BY <3>2, <3>3, <3>5, <3>6
  <2> QED BY <2>1, <2>3, <2>6, <2>7, <2>8 DEF Rest, Sound, Healthy
<1>6. CASE ~tostop /\ c.open /\ run.rc = "ok" /\ c.queue = <<>>
  <2>1. Told(run.pack) /\ run' = [NoRun EXCEPT !.pc = "loop"] /\ UNCHANGED <<c, running, tostop>>
    BY <1>6 DEF RunHandles
  <2>2. run'.pc = "loop" /\ run'.pack = None BY <2>1 DEF NoRun
  <2> QED BY <1>1, <1>6, <2>1, <2>2, HandedOn
<1>7. run.rc \in {"ok", "error"} BY <1>1 DEF TypeOK, Reader
<1> QED BY <1>2, <1>3, <1>4, <1>5, <1>6, <1>7

\* After the callback the queue is empty and nothing was kept back.
LEMMA CalledInv == ASSUME NEW t \in Threads, Threads = {t}, ThreadInv(t), Called PROVE Rest(t)'
<1>1. TypeOK /\ run.pc = "calling" /\ running /\ Told(run.pack) /\ UNCHANGED app
  BY DEF ThreadInv, TypeOK, Called
<1>2. /\ c'.connected = c.connected /\ c'.open = c.open
      /\ c'.queue = IF c.queue # <<>> /\ Head(c.queue) = run.msg THEN Tail(c.queue) ELSE c.queue
  BY <1>1 DEF Called, TypeOK, Client
<1>3. c'.queue # <<>> => c.queue # <<>>
  BY <1>2
<1>4. ASSUME ~hist.late PROVE c'.queue = <<>> /\ run.pack = None
  <2>1. run.pack = None /\ (c.queue # <<>> => c.queue = <<run.msg>>)
    BY <1>1, <1>4 DEF ThreadInv, Rest, Queue
  <2>2. c.queue = <<run.msg>> => Head(c.queue) = run.msg /\ Tail(c.queue) = <<>>
    OBVIOUS
  <2> QED BY <1>2, <2>1, <2>2
<1>5. CASE tostop
  <2>1. run'.pc = "none" /\ run'.pack = None /\ tostop' = FALSE
    BY <1>5 DEF Called, Exits, NoRun
  <2> QED BY <1>1, <1>2, <1>3, <1>4, <1>5, <2>1, HandedOn
<1>6. CASE ~tostop
  <2>1. run'.pc = "loop" /\ run'.pack = None /\ UNCHANGED <<running, tostop>>
    BY <1>6 DEF Called, NoRun
  <2> QED BY <1>1, <1>2, <1>3, <1>4, <1>6, <2>1, HandedOn
<1> QED BY <1>5, <1>6

\* A connection given up by the keep-alive is a fault.
LEMMA KeepAliveInv == ASSUME NEW t \in Threads, ThreadInv(t), KeepAliveFails PROVE Rest(t)'
<1>1. /\ TypeOK /\ run.pc = "loop" /\ c.connected /\ Fault /\ CloseSession
      /\ UNCHANGED <<m, running, run, app>>
  BY DEF ThreadInv, KeepAliveFails
<1>2. ~Healthy' /\ hist'.late = hist.late BY <1>1, HealthLost
<1>3. app[t].pc \notin {"connect", "connack", "accept"}
  BY <1>1 DEF ThreadInv, Rest, Phase
<1>4. Phase(t)' BY <1>1, <1>3, Closes DEF Phase
<1>5. Hand(t)' BY <1>1, <1>2 DEF ThreadInv, Rest, Hand
<1>6. Queue' BY <1>1, <1>2, Closes DEF Queue
<1>7. ~hist.late => m.pack # "CONNACK"
  BY <1>3, AcksAreNames DEF ThreadInv, Rest, Hand, Awaited, Acks
<1>8. Serve' BY <1>1, <1>2, <1>7, Closes DEF Serve
<1> QED BY <1>2, <1>4, <1>5, <1>6, <1>8 DEF Rest, Sound

\* The broker and the kernel touch the connection only.
LEMMA NetworkInv ==
    ASSUME NEW t \in Threads, ThreadInv(t),
           TcpEnds \/ BrokerAnswers \/ BrokerPublishes \/ BrokerCloses
    PROVE  Rest(t)'
<1>1. TypeOK /\ UNCHANGED <<c, m, running, tostop, run, app>>
  BY DEF ThreadInv, TcpEnds, BrokerAnswers, BrokerPublishes, BrokerCloses
<1>2. hist'.late = hist.late /\ (Healthy' => Healthy)
  <2>1. CASE Fault BY <1>1, <2>1, HealthLost
  <2>2. CASE hist' = hist BY <2>2 DEF Healthy
  <2>3. CASE \E p : hist' = [hist EXCEPT !.published = @ \cup {p}]
    BY <1>1, <2>3, HealthKept
  <2> QED BY <2>1, <2>2, <2>3 DEF TcpEnds, BrokerAnswers, BrokerPublishes, BrokerCloses
<1>3. Hand(t)' /\ Queue' /\ Serve'
  BY <1>1, <1>2 DEF ThreadInv, Rest, Hand, Queue, Serve
<1>4. net.inbox \in Seq(Acks \cup Messages) /\ net.asked \in Seq(Acks)
  BY <1>1 DEF TypeOK, Connection
<1>5. CASE BrokerAnswers
  <2> DEFINE p == Head(net.asked)
  <2>1. /\ net'.asked = Tail(net.asked) /\ net'.inbox = Append(net.inbox, p)
        /\ net'.eof = net.eof /\ net'.error = net.error /\ net'.tcp = net.tcp
        /\ net.asked # <<>>
    BY <1>1, <1>5 DEF BrokerAnswers, TypeOK, Connection
  <2>2. p \in Acks BY <1>4, <2>1
  <2>3. \A i \in DOMAIN net'.inbox :
            \/ i \in DOMAIN net.inbox /\ net'.inbox[i] = net.inbox[i]
            \/ i = Len(net.inbox) + 1 /\ net'.inbox[i] = p
    BY <1>4, <2>1, Elements
  <2>4. Phase(t)'
    <3>1. \A i \in DOMAIN net'.inbox : net'.inbox[i] \notin Acks => c.connected
      BY <2>2, <2>3 DEF ThreadInv, Rest, Phase
    <3> QED BY <1>1, <3>1 DEF ThreadInv, Rest, Phase
  <2>5. ASSUME Healthy PROVE NetSound' /\ CallSound(t)' /\ StopSound(t)' /\ OneAnswer(t)' /\ Posted(t)'
    <3>1. NetSound /\ CallSound(t) /\ StopSound(t) /\ OneAnswer(t) /\ Posted(t)
      BY <2>5 DEF ThreadInv, Rest, Sound
    <3>2. NetSound' /\ CallSound(t)' BY <1>1, <1>2, <2>1, <3>1 DEF NetSound, CallSound
    <3>3. StopSound(t)' BY <1>1, <3>1 DEF StopSound
    <3>4. /\ \A i \in DOMAIN net.inbox : net.inbox[i] \notin Acks
          /\ run.pack = None /\ m.pack = None /\ net.asked = <<Awaited(app[t].pc)>>
      BY <2>1, <3>1 DEF OneAnswer, Acked
    <3>5. p = Awaited(app[t].pc) /\ net'.asked = <<>>
      BY <2>1, <3>4
    <3>6. OneAnswer(t)'
      <4>1. \A i \in DOMAIN net'.inbox : net'.inbox[i] \in Acks =>
                i = Len(net.inbox) + 1 /\ net'.inbox[i] = Awaited(app[t].pc)
        BY <2>3, <3>4, <3>5
      <4> QED BY <1>1, <3>4, <3>5, <4>1 DEF OneAnswer
    <3>7. Posted(t)' BY <1>1, <3>1 DEF Posted
    <3> QED BY <3>2, <3>3, <3>6, <3>7
  <2> QED BY <1>2, <1>3, <2>4, <2>5 DEF Rest, Sound
<1>6. CASE BrokerPublishes
  <2>1. PICK p \in Messages : net' = [net EXCEPT !.inbox = Append(@, p)]
    BY <1>6 DEF BrokerPublishes
  <2>2. /\ net'.asked = net.asked /\ net'.inbox = Append(net.inbox, p)
        /\ net'.eof = net.eof /\ net'.error = net.error /\ net'.tcp = net.tcp
    BY <1>1, <2>1 DEF TypeOK, Connection
  <2>3. p \notin Acks BY MessagesAssumption
  <2>4. \A i \in DOMAIN net'.inbox :
            \/ i \in DOMAIN net.inbox /\ net'.inbox[i] = net.inbox[i]
            \/ i = Len(net.inbox) + 1 /\ net'.inbox[i] = p
    BY <1>4, <2>2, Elements
  <2>5. Phase(t)'
    <3>1. c.connected BY <1>6 DEF BrokerPublishes
    <3> QED BY <1>1, <3>1 DEF ThreadInv, Rest, Phase
  <2>6. ASSUME Healthy PROVE NetSound' /\ CallSound(t)' /\ StopSound(t)' /\ OneAnswer(t)' /\ Posted(t)'
    <3>1. NetSound /\ CallSound(t) /\ StopSound(t) /\ OneAnswer(t) /\ Posted(t)
      BY <2>6 DEF ThreadInv, Rest, Sound
    <3>2. NetSound' /\ CallSound(t)' BY <1>1, <1>2, <2>2, <3>1 DEF NetSound, CallSound
    <3>3. StopSound(t)' BY <1>1, <3>1 DEF StopSound
    <3>4. OneAnswer(t)'
      <4>1. \A i \in DOMAIN net'.inbox : net'.inbox[i] \in Acks =>
                i \in DOMAIN net.inbox /\ net'.inbox[i] = net.inbox[i]
        BY <2>3, <2>4
      <4>2. Acked' => Acked BY <4>1 DEF Acked
      <4> QED BY <1>1, <2>2, <3>1, <4>1, <4>2 DEF OneAnswer
    <3>5. Posted(t)' BY <1>1, <3>1 DEF Posted
    <3> QED BY <3>2, <3>3, <3>4, <3>5
  <2> QED BY <1>2, <1>3, <2>5, <2>6 DEF Rest, Sound
<1>7. CASE Fault /\ net'.inbox = net.inbox
  <2>1. Phase(t)' BY <1>1, <1>7 DEF ThreadInv, Rest, Phase
  <2>2. ~Healthy' BY <1>1, <1>7, HealthLost
  <2> QED BY <1>3, <2>1, <2>2 DEF Rest, Sound
<1>8. CASE net' = [net EXCEPT !.tcp = "up"]
  <2>1. /\ net'.asked = net.asked /\ net'.inbox = net.inbox
        /\ net'.eof = net.eof /\ net'.error = net.error /\ net'.tcp = "up"
    BY <1>1, <1>8 DEF TypeOK, Connection
  <2>2. Phase(t)' BY <1>1, <2>1 DEF ThreadInv, Rest, Phase
  <2>3. ASSUME Healthy PROVE NetSound' /\ CallSound(t)' /\ StopSound(t)' /\ OneAnswer(t)' /\ Posted(t)'
    <3>1. NetSound /\ CallSound(t) /\ StopSound(t) /\ OneAnswer(t) /\ Posted(t)
      BY <2>3 DEF ThreadInv, Rest, Sound
    <3>2. NetSound' /\ CallSound(t)' BY <1>1, <1>2, <2>1, <3>1 DEF NetSound, CallSound
    <3>3. StopSound(t)' BY <1>1, <3>1 DEF StopSound
    <3>4. OneAnswer(t)' BY <1>1, <2>1, <3>1 DEF OneAnswer, Acked
    <3>5. Posted(t)' BY <1>1, <3>1 DEF Posted
    <3> QED BY <3>2, <3>3, <3>4, <3>5
  <2> QED BY <1>2, <1>3, <2>2, <2>3 DEF Rest, Sound
<1>9. \/ BrokerAnswers \/ BrokerPublishes \/ net' = [net EXCEPT !.tcp = "up"]
      \/ Fault /\ net'.inbox = net.inbox
  BY <1>1 DEF TcpEnds, BrokerCloses, TypeOK, Connection
<1> QED BY <1>5, <1>6, <1>7, <1>8, <1>9

\* At first nothing is due and nothing posted.
LEMMA InitInv == Init => IInv
<1> SUFFICES ASSUME Init, NEW t \in Threads PROVE ThreadInv(t)
  BY DEF IInv
<1>1. TypeOK BY InitType
<1>2. /\ app[t].pc = "idle" /\ app[t].got = None /\ app[t].ok = TRUE
      /\ ~c.connected /\ ~c.open /\ c.queue = <<>>
      /\ m.pack = None /\ m.rc = "ok"
      /\ net.asked = <<>> /\ net.inbox = <<>> /\ ~net.eof /\ ~net.error /\ net.tcp = "none"
      /\ run.pc = "none" /\ run.pack = None /\ ~tostop /\ ~hist.late
  BY DEF Init, AtRest, Gone, NoRun
<1>3. Phase(t) BY <1>2 DEF Phase
<1>4. Hand(t) /\ Queue BY <1>2 DEF Hand, Queue
<1>5. Serve BY <1>2, AcksAreNames DEF Serve, Acks
<1>6. NetSound /\ CallSound(t) /\ StopSound(t)
  BY <1>2 DEF NetSound, CallSound, StopSound
<1>7. OneAnswer(t)
  BY <1>2 DEF OneAnswer, Acked
<1>8. Posted(t)
  <2>1. \A s \in {"connack", "suback", "unsuback"} : m[s] = 0 BY DEF Init
  <2> QED BY <1>2, <2>1, AcksAreNames DEF Posted
<1> QED BY <1>1, <1>3, <1>4, <1>5, <1>6, <1>7, <1>8 DEF ThreadInv, Rest, Sound

\* The invariant is inductive for one application thread.
LEMMA StepInv == OneThread /\ IInv /\ [Next]_vars => IInv'
<1> SUFFICES ASSUME OneThread, IInv, [Next]_vars PROVE IInv' OBVIOUS
<1>1. PICK t \in Threads : Threads = {t} BY DEF OneThread
<1>2. ThreadInv(t) BY DEF IInv
<1>3. TypeOK /\ TypeOK' BY <1>2, StepType DEF ThreadInv
<1>4. Rest(t)'
  <2>1. CASE UNCHANGED vars
    BY <1>2, <2>1 DEF vars, ThreadInv, Rest, Phase, Hand, Queue, Serve, Sound, Healthy, NetSound,
                      CallSound, StopSound, OneAnswer, Acked, Posted
  <2>2. CASE Connect(t) \/ Subscribe(t) \/ Unsubscribe(t) \/ Disconnect(t)
    BY <1>2, <2>2, ConnectInv, AskInv, DisconnectInv, AcksAreNames DEF Subscribe, Unsubscribe
  <2>3. CASE AppStep(t)
    <3>1. CASE AwaitConnack(t) \/ AwaitSuback(t) \/ AwaitUnsuback(t)
      <4>1. "CONNACK" \in Acks /\ "SUBACK" \in Acks /\ "UNSUBACK" \in Acks BY DEF Acks
      <4> QED BY <1>2, <3>1, <4>1, TakeInv, AcksAreNames DEF AwaitConnack, AwaitSuback, AwaitUnsuback
    <3>2. CASE Subscribed(t) \/ Unsubscribed(t)
      BY <1>2, <3>2, AnsweredInv DEF Subscribed, Unsubscribed
    <3> QED BY <1>2, <2>3, <3>1, <3>2, LaunchInv, AwaitTcpInv, AcceptsInv, DrainedInv, StopWaitsInv
            DEF AppStep
  <2>4. CASE RunStep
    BY <1>1, <1>2, <2>4, RunMovesInv, FindsInv, ReadsInv, HandlesInv, CalledInv DEF RunStep
  <2>5. CASE KeepAliveFails BY <1>2, <2>5, KeepAliveInv
  <2>6. CASE TcpEnds \/ BrokerAnswers \/ BrokerPublishes \/ BrokerCloses
    BY <1>2, <2>6, NetworkInv
  <2> QED BY <1>1, <2>1, <2>2, <2>3, <2>4, <2>5, <2>6 DEF Next
<1>5. ThreadInv(t)' BY <1>3, <1>4 DEF ThreadInv
<1> QED BY <1>1, <1>5 DEF IInv

\* So it holds throughout.
LEMMA IInvHolds == ASSUME OneThread PROVE Spec => []IInv
<1>1. Spec => Init /\ [][Next]_vars BY DEF Spec
<1>2. IInv /\ [Next]_vars => IInv' BY StepInv
<1> QED BY <1>1, <1>2, InitInv, PTL

\* A thread never takes the packet of another call from m->pack as long as no
\* packet came late, and before the first fault or wait given up no call fails
\* (MQTTClient_waitfor, MQTTClient_run).
THEOREM CallsGetTheirAnswer == ASSUME OneThread PROVE Spec => []CallsAreAnswered
<1>1. IInv => CallsAreAnswered
  <2> SUFFICES ASSUME IInv PROVE CallsAreAnswered OBVIOUS
  <2>1. TypeOK BY DEF OneThread, IInv, ThreadInv
  <2>2. TakesItsAnswer BY DEF IInv, ThreadInv, Rest, Hand, TakesItsAnswer
  <2>3. HealthyCallsSucceed
    BY DEF IInv, ThreadInv, Rest, Sound, Healthy, CallSound, HealthyCallsSucceed
  <2> QED BY <2>1, <2>2, <2>3 DEF CallsAreAnswered
<1> QED BY <1>1, IInvHolds, PTL

\* A connection that counts has a background thread that was not told to end,
\* though a stop may leave one behind that was (MQTTClient_stop).
THEOREM ConnectionIsServed == ASSUME OneThread PROVE Spec => []ConnectedIsServed
<1>1. IInv => ConnectedIsServed
  BY DEF OneThread, IInv, ThreadInv, Rest, Serve, ConnectedIsServed
<1> QED BY <1>1, IInvHolds, PTL
=============================================================================
