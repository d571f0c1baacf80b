------------------------------ MODULE ConfDaemon ------------------------------
(***************************************************************************)
(* One configuration daemon of the gateway                                 *)
(* (MQTTClient_net_subscribe.c; the bluetooth and common daemons differ    *)
(* from it in client ids, keep-alive and the size of p_map only).          *)
(*                                                                         *)
(* Two processes share the anonymous mapping p_map: the parent, whose      *)
(* callback thread runs msgarrvd for every command and writes the response *)
(* into p_map, and the child gcs_sends_data_feedback, which stops itself   *)
(* with SIGSTOP, is woken by SIGCONT, copies p_map and publishes the copy. *)
(* Neither process locks the mapping.  The broker, the client that sends   *)
(* commands and systemd are the environment.                               *)
(***************************************************************************)
EXTENDS Naturals, Sequences, FiniteSets

CONSTANTS
    MaxCommands,    \* bound: commands the client sends
    MaxDrops,       \* bound: times the broker goes away or drops the session
    Cells,          \* p_map and PAYLOAD are 1..Cells, one cell per memcpy step
    Kinds,          \* outcomes of gcs_sends_data_unpack the client can provoke
    Clients         \* kinds of client: when one sends its next command, see MaySend

ASSUME BoundsAssumption ==
    /\ MaxCommands \in Nat
    /\ MaxDrops \in Nat
    /\ Cells \in Nat \ {0}

\* "answered": a response is written to p_map, then the result is not 1;
\* "mute": the result is not 1 and p_map is left alone (payload that is no
\*         JSON, a static set-up or a status file that could not be written);
\* "unknown": the result is 1, the message carries no known payload_info.
ASSUME KindsAssumption == Kinds \subseteq {"answered", "mute", "unknown"}

\* "eager": sends at any time.  "patient": waits for the publication that
\* follows its last command.  "spaced": waits until the child is parked, too.
ASSUME ClientAssumption == Clients \subseteq {"eager", "patient", "spaced"}

VARIABLES
    client,         \* the kind of client, which never changes
    broker,         \* the local mosquitto accepts connections
    session,        \* the parent's connection to it is open
    drops,          \* how often the environment closed it
    inbox,          \* commands in the client library's messageQueue
    nextId,         \* number of the next command
    awaiting,       \* the command the client waits for, 0 for none
    parent,         \* where main() is
    disconnect_tag, \* set by connlost
    handler,        \* where msgarrvd is
    cmd,            \* the command it handles or handled last
    filled,         \* cells written by the memcpy into p_map
    p_map,          \* the shared mapping: which response each cell is from
    child,          \* where gcs_sends_data_feedback is
    count,          \* strlen(p_map) as the child saw it
    copied,         \* cells copied so far
    PAYLOAD,        \* the child's copy
    acked,          \* the publication under way was acknowledged
    reported,       \* "delivered" was printed for it
    signals,        \* history: SIGCONTs sent
    published       \* history: payloads the broker accepted, in order

envVars    == <<client, broker, session, drops, nextId, awaiting>>
parentVars == <<parent, disconnect_tag>>
cbVars     == <<inbox, handler, cmd, filled, p_map, signals>>
childVars  == <<child, count, copied, PAYLOAD, acked, reported, published>>
vars       == <<envVars, parentVars, cbVars, childVars>>

Ids   == 0 .. MaxCommands
Cell  == 1 .. Cells
Blank == [i \in Cell |-> 0]

Commands == [id : Ids, kind : {"answered", "mute", "unknown"}, len : 1 .. Cells]
NoCommand == [id |-> 0, kind |-> "unknown", len |-> 1]

\* strlen: the cells before the first one that holds a zero byte.
StrLen(m) == Cardinality({n \in Cell : \A i \in 1 .. n : m[i] # 0})

\* What a C string in m reads as.
Text(m) == [i \in 1 .. StrLen(m) |-> m[i]]

\* The whole response to command c.
Response(c) == [i \in 1 .. c.len |-> c.id]

TypeOK ==
    /\ client \in Clients
    /\ broker \in BOOLEAN /\ session \in BOOLEAN
    /\ drops \in 0 .. MaxDrops
    /\ inbox \in Seq(Commands)
    /\ nextId \in 1 .. MaxCommands + 1
    /\ awaiting \in Ids
    /\ parent \in {"init", "connected", "looping", "exiting"}
    /\ disconnect_tag \in BOOLEAN
    /\ handler \in {"idle", "clear", "fill", "signal"}
    /\ cmd \in Commands
    /\ filled \in 0 .. Cells
    /\ p_map \in [Cell -> Ids]
    /\ child \in {"running", "stopped", "awake", "copying", "publishing",
                  "waiting", "closing", "dead"}
    /\ count \in 0 .. Cells
    /\ copied \in 0 .. Cells
    /\ PAYLOAD \in [Cell -> Ids]
    /\ acked \in BOOLEAN /\ reported \in BOOLEAN
    /\ signals \in Nat
    /\ published \in Seq(Seq(Ids))

-----------------------------------------------------------------------------
\* main() up to the fork: a zeroed mapping and a child about to stop itself.
FreshProcess ==
    /\ parent' = "init" /\ disconnect_tag' = FALSE
    /\ inbox' = <<>> /\ handler' = "idle" /\ cmd' = NoCommand /\ filled' = 0
    /\ p_map' = Blank
    /\ child' = "running" /\ count' = 0 /\ copied' = 0 /\ PAYLOAD' = Blank
    /\ acked' = FALSE /\ reported' = FALSE

Init ==
    /\ client \in Clients
    /\ broker \in BOOLEAN /\ session = FALSE /\ drops = 0
    /\ nextId = 1 /\ awaiting = 0
    /\ parent = "init" /\ disconnect_tag = FALSE
    /\ inbox = <<>> /\ handler = "idle" /\ cmd = NoCommand /\ filled = 0
    /\ p_map = Blank
    /\ child = "running" /\ count = 0 /\ copied = 0 /\ PAYLOAD = Blank
    /\ acked = FALSE /\ reported = FALSE
    /\ signals = 0 /\ published = <<>>

-----------------------------------------------------------------------------
(* The broker and the client that sends commands. *)

\* The broker stops; every connection to it is closed.
BrokerDown ==
    /\ broker /\ drops < MaxDrops
    /\ broker' = FALSE /\ session' = FALSE /\ drops' = drops + 1
    /\ UNCHANGED <<client, nextId, awaiting, parentVars, cbVars, childVars>>

BrokerUp ==
    /\ ~broker
    /\ broker' = TRUE
    /\ UNCHANGED <<client, session, drops, nextId, awaiting, parentVars, cbVars, childVars>>

\* msgarrvd runs on the thread that answers keep-alives: while it works the
\* broker may give the session up.
KeepAliveExpires ==
    /\ session /\ handler # "idle" /\ drops < MaxDrops
    /\ session' = FALSE /\ drops' = drops + 1
    /\ UNCHANGED <<client, broker, nextId, awaiting, parentVars, cbVars, childVars>>

MaySend ==
    CASE client = "eager"   -> TRUE
      [] client = "patient" -> awaiting = 0
      [] client = "spaced"  -> /\ awaiting = 0 /\ child = "stopped"
                               /\ handler = "idle" /\ inbox = <<>>

Request(kind, len) ==
    /\ session /\ parent = "looping" /\ nextId <= MaxCommands /\ MaySend
    /\ inbox' = Append(inbox, [id |-> nextId, kind |-> kind, len |-> len])
    /\ nextId' = nextId + 1
    /\ awaiting' = IF kind = "unknown" THEN awaiting ELSE nextId
    /\ UNCHANGED <<client, broker, session, drops, parentVars, handler, cmd, filled,
                   p_map, signals, childVars>>

-----------------------------------------------------------------------------
(* The parent: main() and the library thread that calls connlost. *)

Connect ==
    /\ parent = "init" /\ broker
    /\ parent' = "connected" /\ session' = TRUE
    /\ UNCHANGED <<client, broker, drops, nextId, awaiting, disconnect_tag, cbVars, childVars>>

ConnectFails ==
    /\ parent = "init" /\ ~broker
    /\ parent' = "exiting" /\ child' = "dead"
    /\ UNCHANGED <<envVars, disconnect_tag, cbVars, count, copied, PAYLOAD,
                   acked, reported, published>>

\* The result of MQTTClient_subscribe is not looked at.
Subscribe ==
    /\ parent = "connected"
    /\ parent' = "looping"
    /\ UNCHANGED <<envVars, disconnect_tag, cbVars, childVars>>

\* Fault: connlost forgets to raise disconnect_tag.
ConnLostUntagged ==
    /\ parent \in {"connected", "looping"} /\ ~session /\ ~disconnect_tag
    /\ handler = "idle" /\ inbox # <<>>
    /\ inbox' = <<>>
    /\ UNCHANGED <<envVars, parentVars, handler, cmd, filled, p_map, signals, childVars>>

\* The library closes the session (cleansession: its queue is emptied) and
\* calls connlost.  Its thread notices between two callbacks only.
ConnLost ==
    /\ parent \in {"connected", "looping"} /\ ~session /\ ~disconnect_tag
    /\ handler = "idle"
    /\ disconnect_tag' = TRUE /\ inbox' = <<>>
    /\ UNCHANGED <<envVars, parent, handler, cmd, filled, p_map, signals, childVars>>

\* The loop that sleeps three seconds sees disconnect_tag.
LeaveLoop ==
    /\ parent = "looping" /\ disconnect_tag
    /\ parent' = "exiting" /\ child' = "dead"
    /\ UNCHANGED <<envVars, disconnect_tag, cbVars, count, copied, PAYLOAD,
                   acked, reported, published>>

\* The process is gone and systemd starts it again (Restart=always).
Restart ==
    /\ parent = "exiting"
    /\ FreshProcess
    /\ session' = FALSE /\ awaiting' = 0
    /\ UNCHANGED <<client, broker, drops, nextId, signals, published>>

-----------------------------------------------------------------------------
(* msgarrvd, on the library's thread in the parent. *)

\* Fault: only a result of 0 wakes the child.
MsgArrivedSilentFailure ==
    /\ parent \in {"connected", "looping"} /\ ~disconnect_tag
    /\ handler = "idle" /\ inbox # <<>>
    /\ cmd' = Head(inbox) /\ inbox' = Tail(inbox)
    /\ handler' = IF Head(inbox).kind = "answered" THEN "clear" ELSE "idle"
    /\ UNCHANGED <<envVars, parentVars, filled, p_map, signals, childVars>>

MsgArrived ==
    /\ parent \in {"connected", "looping"} /\ ~disconnect_tag
    /\ handler = "idle" /\ inbox # <<>>
    /\ cmd' = Head(inbox) /\ inbox' = Tail(inbox)
    /\ handler' = CASE Head(inbox).kind = "answered" -> "clear"
                    [] Head(inbox).kind = "mute"     -> "signal"
                    [] Head(inbox).kind = "unknown"  -> "idle"
    /\ UNCHANGED <<envVars, parentVars, filled, p_map, signals, childVars>>

\* Fault: p_map is overwritten without the memset.
ClearMapSkipped ==
    /\ handler = "clear"
    /\ filled' = 0 /\ handler' = "fill"
    /\ UNCHANGED <<envVars, parentVars, inbox, cmd, p_map, signals, childVars>>

\* gw_response_str: memset, then memcpy, with no lock.
ClearMap ==
    /\ handler = "clear"
    /\ p_map' = Blank /\ filled' = 0 /\ handler' = "fill"
    /\ UNCHANGED <<envVars, parentVars, inbox, cmd, signals, childVars>>

FillMap ==
    /\ handler = "fill"
    /\ filled' = filled + 1
    /\ p_map' = [p_map EXCEPT ![filled + 1] = cmd.id]
    /\ handler' = IF filled + 1 = cmd.len THEN "signal" ELSE "fill"
    /\ UNCHANGED <<envVars, parentVars, inbox, cmd, signals, childVars>>

\* kill(fpid, SIGCONT): continues a stopped child; is ignored by one that runs
\* and succeeds on one that exited and was not waited for.
Signal ==
    /\ handler = "signal"
    /\ handler' = "idle" /\ signals' = signals + 1
    /\ child' = IF child = "stopped" THEN "awake" ELSE child
    /\ UNCHANGED <<envVars, parentVars, inbox, cmd, filled, p_map, count, copied,
                   PAYLOAD, acked, reported, published>>

-----------------------------------------------------------------------------
(* gcs_sends_data_feedback, the child. *)

Stop ==
    /\ child = "running"
    /\ child' = "stopped"
    /\ UNCHANGED <<envVars, parentVars, cbVars, count, copied, PAYLOAD, acked,
                   reported, published>>

\* Fault: PAYLOAD keeps what the last publication left in it.
MeasureDirty ==
    /\ child = "awake"
    /\ child' = "copying"
    /\ count' = StrLen(p_map) /\ copied' = 0
    /\ UNCHANGED <<envVars, parentVars, cbVars, PAYLOAD, acked, reported, published>>

\* After sleep(1): clear PAYLOAD and measure p_map.
Measure ==
    /\ child = "awake"
    /\ child' = "copying"
    /\ count' = StrLen(p_map) /\ copied' = 0 /\ PAYLOAD' = Blank
    /\ UNCHANGED <<envVars, parentVars, cbVars, acked, reported, published>>

Copy ==
    /\ child = "copying" /\ copied < count
    /\ copied' = copied + 1
    /\ PAYLOAD' = [PAYLOAD EXCEPT ![copied + 1] = p_map[copied + 1]]
    /\ UNCHANGED <<envVars, parentVars, cbVars, child, count, acked, reported, published>>

\* MQTTClient_connect of the child; a failure ends the child for good.
ChildConnect ==
    /\ child = "copying" /\ copied = count
    /\ child' = IF broker THEN "publishing" ELSE "dead"
    /\ UNCHANGED <<envVars, parentVars, cbVars, count, copied, PAYLOAD, acked,
                   reported, published>>

\* publishMessage with QoS 1: the broker may be gone, and the acknowledgement
\* of a message it took may not arrive.  The result is not looked at.
Publish ==
    /\ child = "publishing"
    /\ child' = "waiting"
    /\ \/ /\ broker /\ acked' \in BOOLEAN
          /\ published' = Append(published, Text(PAYLOAD))
          /\ awaiting' = 0
       \/ /\ ~broker /\ acked' = FALSE
          /\ UNCHANGED <<published, awaiting>>
    /\ UNCHANGED <<client, broker, session, drops, nextId, parentVars, cbVars, count,
                   copied, PAYLOAD, reported>>

\* waitForCompletion returns, with or without an acknowledgement, and the line
\* "Message with delivery token %d delivered" is printed.
WaitForCompletion ==
    /\ child = "waiting"
    /\ child' = "closing" /\ reported' = TRUE
    /\ UNCHANGED <<envVars, parentVars, cbVars, count, copied, PAYLOAD, acked, published>>

\* Fault: the child stops itself once, before its loop.
DisconnectUnparked ==
    /\ child = "closing"
    /\ child' = "awake" /\ reported' = FALSE
    /\ UNCHANGED <<envVars, parentVars, cbVars, count, copied, PAYLOAD, acked, published>>

Disconnect ==
    /\ child = "closing"
    /\ child' = "running" /\ reported' = FALSE
    /\ UNCHANGED <<envVars, parentVars, cbVars, count, copied, PAYLOAD, acked, published>>

-----------------------------------------------------------------------------
Environment == BrokerDown \/ BrokerUp \/ KeepAliveExpires
               \/ \E kind \in Kinds, len \in 1 .. Cells : Request(kind, len)
Main     == Connect \/ ConnectFails \/ Subscribe \/ LeaveLoop \/ Restart
Library  == ConnLost \/ MsgArrived \/ ClearMap \/ FillMap \/ Signal
Feedback == Stop \/ Measure \/ Copy \/ ChildConnect \/ Publish
            \/ WaitForCompletion \/ Disconnect

Next == Environment \/ Main \/ Library \/ Feedback

Spec == Init /\ [][Next]_vars

\* Each process and the library thread run on, systemd restarts what exits and
\* mosquitto is itself restarted; the client is free to send or not.
Fairness == /\ WF_vars(BrokerUp)
            /\ WF_vars(Main)
            /\ WF_vars(Library)
            /\ WF_vars(Feedback)

FairSpec == Spec /\ Fairness

-----------------------------------------------------------------------------
(* Properties *)

\* A wake-up is good for one publication: the child publishes at most once per
\* SIGCONT the handler sent, however wake-ups and publications interleave.
OnePublicationPerSignal == Len(published) <= signals

\* Responses leave in the order of the commands.  A publication may repeat an
\* older response (a mute command) or be torn between two (p_map is rewritten
\* under the copying child), but a later publication never holds a cell older
\* than one already published.
NeverBackInTime ==
    \A i, j \in DOMAIN published :
        i < j => \A m \in DOMAIN published[i], n \in DOMAIN published[j] :
                     published[i][m] <= published[j][n]

\* A client that waits for each answer gets, whole and untorn, the response to
\* the command it waits for; after a mute command it gets p_map as it stands.
AnswersTheAsker ==
    [][(client # "eager" /\ Len(published') > Len(published)) =>
           /\ cmd.id = awaiting
           /\ Text(PAYLOAD) = Text(p_map)
           /\ cmd.kind = "answered" => Text(PAYLOAD) = Response(cmd)]_vars

\* A child that died because the broker was away is replaced: the broker's
\* outage also ends the parent's session, and connlost makes the daemon restart.
DeadChildIsReplaced == (child = "dead") ~> (child # "dead")

\* A client that also leaves the child time to park gets an answer to each
\* command, unless the daemon restarts (which resets awaiting).
EveryCommandIsSettled ==
    \A id \in 1 .. MaxCommands :
        (client = "spaced" /\ awaiting = id) ~> (awaiting = 0)

=============================================================================
