---------------------------- MODULE MqttDelivery ----------------------------
(***************************************************************************)
(* What MQTT promises the application that publishes: a message that was   *)
(* accepted is handed to the broker, a QoS 2 message at most once, before  *)
(* its flow is over, and is never abandoned as long as the session lasts.  *)
(***************************************************************************)
EXTENDS Naturals, Sequences

CONSTANT Qos          \* the qualities of service messages are sent with, of 1 and 2

VARIABLES keeps,      \* whether the session outlives its connection
          accepted,   \* QoS of every message the library took, by number
          received,   \* how often the broker passed message m on
          over        \* messages whose flow is over, or that were abandoned

Messages == DOMAIN accepted

Init == keeps \in BOOLEAN /\ accepted = <<>> /\ received = <<>> /\ over = {}

Accept(q) ==
    /\ accepted' = Append(accepted, q)
    /\ received' = Append(received, 0)
    /\ UNCHANGED <<keeps, over>>

\* A message may be given up as soon as it is taken.
AcceptAbandoned(q) ==
    /\ ~keeps
    /\ accepted' = Append(accepted, q)
    /\ received' = Append(received, 0)
    /\ over' = 1..(Len(accepted) + 1)
    /\ UNCHANGED keeps

Receive(m) ==
    /\ m \notin over
    /\ accepted[m] = 2 => received[m] = 0
    /\ received' = [received EXCEPT ![m] = @ + 1]
    /\ UNCHANGED <<keeps, accepted, over>>

Complete(m) ==
    /\ received[m] > 0
    /\ over' = over \cup {m}
    /\ UNCHANGED <<keeps, accepted, received>>

\* The broker may still read what was sent before a message is given up.
Abandon ==
    /\ ~keeps
    /\ over' = Messages
    /\ UNCHANGED <<keeps, accepted, received>>

LateReceive(m) ==
    /\ ~keeps
    /\ accepted[m] = 2 => received[m] = 0
    /\ received' = [received EXCEPT ![m] = @ + 1]
    /\ UNCHANGED <<keeps, accepted, over>>

Next ==
    \/ \E q \in Qos : Accept(q) \/ AcceptAbandoned(q)
    \/ \E m \in Messages : Receive(m) \/ Complete(m) \/ LateReceive(m)
    \/ Abandon

Spec == Init /\ [][Next]_<<keeps, accepted, received, over>>
=============================================================================
