---------------------------- MODULE LoraGateway -----------------------------
(***************************************************************************)
(* The LoRa gateway: the program that fetches packets from the             *)
(* concentrator and publishes those of the temperature sensors with        *)
(* mosquitto_pub (src/lora/libloragw/tst/test_loragw_mqtt.c), over         *)
(* lgw_receive, lgw_send and lgw_status of loragw_hal.c, run by systemd    *)
(* (src/deployment/lib/systemd/system/lora.service).                       *)
(*                                                                         *)
(* The program is one thread; what runs beside it is the radio (packets    *)
(* arrive in a FIFO of the chip, a packet handed over is emitted), the     *)
(* mosquitto_pub process, and the signals that ask the program to end.     *)
(* While system() waits for mosquitto_pub, SIGINT is ignored, as POSIX     *)
(* says; a signal that comes during lgw_start may cut one of its waits.    *)
(***************************************************************************)
EXTENDS Integers, Sequences, FiniteSets, SequencesExt

CONSTANTS Kinds,         \* what a received packet is: kind of each packet, in order
          FifoSize,      \* LGW_PKT_FIFO_SIZE (16)
          MaxPkt,        \* the array of received packets (4)
          SendEvery,     \* loops between two transmissions (16)
          MaxFaults,     \* failed transfers over SPI
          MaxSignals

VARIABLES main,          \* where the program is
          exit_sig, quit_sig,
          radio,         \* off, on, or half: started but not set up
          arrived, fifo, \* number of packets received; those in the chip
          rxpkt, nb,     \* packets fetched; how many are handled
          stale,         \* first byte of the read buffer: zero, low or high
          loops, tx,
          published,     \* what mosquitto_pub delivered, in order
          given,         \* packets given up: both calls of mosquitto_pub failed
          spoilt,        \* packets lost or repeated by a failed transfer
          faults, signals, args

gwVars == <<main, exit_sig, quit_sig, radio, arrived, fifo, rxpkt, nb, stale, loops, tx,
            published, given, spoilt, faults, signals, args>>

air    == <<arrived, fifo>>
reader == <<rxpkt, nb, stale>>
sender == <<loops, tx>>
fate   == <<published, given, spoilt>>
env    == <<faults, signals, args>>
sigs   == <<exit_sig, quit_sig>>

GInit ==
    /\ main = "starting" /\ exit_sig = FALSE /\ quit_sig = FALSE /\ radio = "off"
    /\ arrived = 0 /\ fifo = <<>> /\ rxpkt = <<>> /\ nb = 0 /\ stale = "zero"
    /\ loops = 0 /\ tx = "free"
    /\ published = <<>> /\ given = {} /\ spoilt = {}
    /\ faults = 0 /\ signals = 0
    /\ args \in [rx_disable : BOOLEAN, ft : BOOLEAN]

Sensor(p)  == p # 0 /\ Kinds[p] = "sensor"
FirstByte(p) == IF p # 0 /\ Kinds[p] = "low" THEN "low" ELSE "high"
Fault == faults < MaxFaults /\ faults' = faults + 1

----------------------------------------------------------------------------
(* lgw_start succeeds or fails; main then ends with an error.              *)
Started ==
    /\ main = "starting"
    /\ main' = "loop" /\ radio' = "on"
    /\ UNCHANGED <<sigs, air, reader, sender, fate, env>>

StartFails ==
    /\ main = "starting"
    /\ \/ Fault
       \/ (exit_sig \/ quit_sig) /\ UNCHANGED faults
    /\ main' = "failed" /\ radio' = "half"
    /\ UNCHANGED <<sigs, air, reader, sender, fate, signals, args>>

(* systemd: Restart=on-failure, after RestartSec.                          *)
BridgeRestart ==
    /\ main = "failed"
    /\ main' = "starting" /\ exit_sig' = FALSE /\ quit_sig' = FALSE
    /\ radio' = "off" /\ fifo' = <<>> /\ tx' = "free"
    /\ loops' = 0
    /\ UNCHANGED <<arrived, reader, fate, env>>

(* The handler: SIGQUIT sets quit_sig, SIGTERM and SIGINT set exit_sig.    *)
Alive == main \notin {"failed", "ended"}

Terminate ==
    /\ Alive /\ signals < MaxSignals
    /\ signals' = signals + 1
    /\ exit_sig' = TRUE
    /\ UNCHANGED <<main, quit_sig, radio, air, reader, sender, fate, faults, args>>

Interrupt ==
    /\ Alive /\ signals < MaxSignals
    /\ signals' = signals + 1
    /\ exit_sig' = (exit_sig \/ main \notin {"publishing", "again"})
    /\ UNCHANGED <<main, quit_sig, radio, air, reader, sender, fate, faults, args>>

Quit ==
    /\ Alive /\ signals < MaxSignals
    /\ signals' = signals + 1
    /\ quit_sig' = (quit_sig \/ main \notin {"publishing", "again"})
    /\ UNCHANGED <<main, exit_sig, radio, air, reader, sender, fate, faults, args>>

----------------------------------------------------------------------------
(* A packet arrives; a full FIFO loses it.                                 *)
Arrives ==
    /\ radio = "on" /\ Alive /\ arrived < Len(Kinds)
    /\ arrived' = arrived + 1
    /\ IF Len(fifo) < FifoSize THEN fifo' = Append(fifo, arrived + 1) /\ UNCHANGED spoilt
                               ELSE spoilt' = spoilt \cup {arrived + 1} /\ UNCHANGED fifo
    /\ UNCHANGED <<main, sigs, radio, reader, sender, published, given, env>>

(* The top of the loop: end, or count the round and fetch.                 *)
Round ==
    /\ main = "loop" /\ ~exit_sig /\ ~quit_sig
    /\ loops' = (loops + 1) % SendEvery
    /\ rxpkt' = <<>> /\ nb' = 0 /\ stale' = "zero"
    /\ main' = IF args.rx_disable THEN "turn" ELSE "fetch"
    /\ UNCHANGED <<sigs, radio, air, tx, fate, env>>

\* Fault: the concentrator is not stopped.
LeaveKeepingRadio ==
    /\ main = "loop" /\ (exit_sig \/ quit_sig)
    /\ main' = "ended" /\ UNCHANGED radio
    /\ UNCHANGED <<sigs, air, reader, sender, fate, env>>

(* Out of the loop; lgw_stop only after exit_sig.                          *)
Leave ==
    /\ main = "loop" /\ (exit_sig \/ quit_sig)
    /\ main' = "ended"
    /\ radio' = IF exit_sig THEN "off" ELSE radio
    /\ UNCHANGED <<sigs, air, reader, sender, fate, env>>

(* lgw_receive fetches at most MaxPkt packets: number of packets, data,    *)
(* and a write that advances the FIFO.  The results of the transfers are   *)
(* not looked at.                                                          *)
Fetches == main = "fetch" /\ Len(rxpkt) < MaxPkt

FetchNone ==
    /\ main = "fetch" /\ (Len(rxpkt) = MaxPkt \/ fifo = <<>>)
    /\ main' = IF rxpkt = <<>> THEN "turn" ELSE "handle"
    /\ UNCHANGED <<sigs, radio, air, reader, sender, fate, env>>

Fetch ==
    /\ Fetches /\ fifo # <<>>
    /\ rxpkt' = Append(rxpkt, Head(fifo)) /\ fifo' = Tail(fifo) /\ stale' = FirstByte(Head(fifo))
    /\ UNCHANGED <<main, sigs, radio, arrived, nb, sender, fate, env>>

(* The advance is lost: the packet will be fetched again.                  *)
AdvanceFails ==
    /\ Fetches /\ fifo # <<>> /\ Fault
    /\ rxpkt' = Append(rxpkt, Head(fifo)) /\ stale' = FirstByte(Head(fifo))
    /\ spoilt' = spoilt \cup {Head(fifo)}
    /\ UNCHANGED <<main, sigs, radio, air, nb, sender, published, given, signals, args>>

(* Without new data the buffer holds what was read before.  The number of  *)
(* packets is then the first byte of the last payload: none or too many    *)
(* end the fetch; a small number is believed, and what stands in the FIFO  *)
(* is read as a packet of a wrong size.                                    *)
Garbage == 
    /\ rxpkt' = Append(rxpkt, 0) /\ stale' = "low"
    /\ spoilt' = spoilt \cup {fifo[i] : i \in DOMAIN fifo \cap {1}}
    /\ fifo' = IF fifo = <<>> THEN <<>> ELSE Tail(fifo)

Breaks == main' = (IF rxpkt = <<>> THEN "turn" ELSE "handle") /\ UNCHANGED <<rxpkt, stale, spoilt, fifo>>

NumberFails ==
    /\ Fetches /\ Fault
    /\ IF stale = "low" THEN Garbage /\ UNCHANGED main ELSE Breaks
    /\ UNCHANGED <<sigs, radio, arrived, nb, sender, published, given, signals, args>>

(* The data is then the number of packets and older bytes: no packet of a  *)
(* sensor.  Its interface number may be out of range, which ends the fetch *)
(* with the packet still in the FIFO.                                      *)
DataFails ==
    /\ Fetches /\ fifo # <<>> /\ Fault
    /\ (Garbage /\ UNCHANGED main) \/ Breaks
    /\ UNCHANGED <<sigs, radio, arrived, nb, sender, published, given, signals, args>>

----------------------------------------------------------------------------
\* Fault: one packet of each fetch is handled.
HandledOne(ps, n) == n >= 1

(* The packets are handled in turn: get_lora_temp_humi picks those of the  *)
(* sensors with a good CRC, and mosquitto_pub is run, once more if it      *)
(* failed.                                                                 *)
Handled(ps, n) == n = Len(ps)

Skip ==
    /\ main = "handle" /\ ~Handled(rxpkt, nb) /\ ~Sensor(rxpkt[nb + 1])
    /\ nb' = nb + 1
    /\ UNCHANGED <<main, sigs, radio, air, rxpkt, stale, sender, fate, env>>

Publish ==
    /\ main = "handle" /\ ~Handled(rxpkt, nb) /\ Sensor(rxpkt[nb + 1])
    /\ main' = "publishing"
    /\ UNCHANGED <<sigs, radio, air, reader, sender, fate, env>>

(* mosquitto_pub ends with 0 having delivered the message; else it has not.*)
PublishEnds ==
    /\ main \in {"publishing", "again"}
    /\ \/ /\ published' = Append(published, rxpkt[nb + 1]) 
          /\ main' = "handle" /\ nb' = nb + 1 /\ UNCHANGED given
       \/ /\ UNCHANGED published
          /\ IF main = "publishing" THEN main' = "again" /\ UNCHANGED <<nb, given>>
             ELSE main' = "handle" /\ nb' = nb + 1 /\ given' = given \cup {rxpkt[nb + 1]}
    /\ UNCHANGED <<sigs, radio, air, rxpkt, stale, sender, spoilt, env>>

AllHandled ==
    /\ main = "handle" /\ Handled(rxpkt, nb)
    /\ main' = "turn"
    /\ UNCHANGED <<sigs, radio, air, reader, sender, fate, env>>

----------------------------------------------------------------------------
(* Every SendEvery rounds a packet is sent, if a frequency was given:      *)
(* lgw_send clears the triggers, writes the packet and sets the trigger.   *)
NoTurn ==
    /\ main = "turn" /\ ~(args.ft /\ loops = 0)
    /\ main' = "loop"
    /\ UNCHANGED <<sigs, radio, air, reader, sender, fate, env>>

SendTurn ==
    /\ main = "turn" /\ args.ft /\ loops = 0
    /\ main' = "poll" /\ tx' = "scheduled"
    /\ UNCHANGED <<sigs, radio, air, reader, loops, fate, env>>

(* The chip emits it.                                                      *)
Emit ==
    /\ tx # "free" /\ Alive
    /\ tx' = IF tx = "scheduled" THEN "emitting" ELSE "free"
    /\ UNCHANGED <<main, sigs, radio, air, reader, loops, fate, env>>

(* lgw_status is polled until the transmitter is free (the program gives   *)
(* up after 10 s, which no emission takes); if the read fails its answer   *)
(* is an uninitialised variable.                                           *)
StopsPolling == tx = "free"

Poll ==
    /\ main = "poll"
    /\ \/ StopsPolling /\ UNCHANGED faults
       \/ Fault
    /\ main' = "loop"
    /\ UNCHANGED <<sigs, radio, air, reader, sender, fate, signals, args>>

GNext ==
    \/ Started \/ StartFails \/ BridgeRestart \/ Terminate \/ Interrupt \/ Quit \/ Arrives
    \/ Round \/ Leave \/ FetchNone \/ Fetch \/ AdvanceFails \/ NumberFails \/ DataFails
    \/ Skip \/ Publish \/ PublishEnds \/ AllHandled \/ NoTurn \/ SendTurn \/ Emit \/ Poll

Program == \/ Started \/ Round \/ Leave \/ FetchNone \/ Fetch \/ Skip \/ Publish
           \/ AllHandled \/ NoTurn \/ SendTurn \/ Poll

(* The program runs, mosquitto_pub ends and the chip emits.                *)
GSpec == GInit /\ [][GNext]_gwVars /\ WF_gwVars(Program) /\ WF_gwVars(PublishEnds) /\ WF_gwVars(Emit)

----------------------------------------------------------------------------
(* Every packet of a sensor the radio received is on its way or accounted  *)
(* for: it stands in the FIFO or among the fetched packets not handled     *)
(* yet, was published, was given up after two failures of mosquitto_pub,   *)
(* or was lost by a full FIFO, a failed transfer or the end of the         *)
(* program.                                                                *)
NoneForgotten ==
    \A p \in 1 .. arrived : Sensor(p) =>
        \/ p \in ToSet(fifo) \/ p \in ToSet(published) \/ p \in given \/ p \in spoilt
        \/ \E i \in nb + 1 .. Len(rxpkt) : rxpkt[i] = p
        \/ radio # "on"

(* Readings are published in the order they were received, each once,      *)
(* unless a failed transfer repeated a packet.                             *)
PublishedInOrder ==
    \A i, j \in 1 .. Len(published) :
        i < j => published[i] <= published[j] /\ (published[i] = published[j] => published[i] \in spoilt)

(* A reading is neither lost on its way through the program nor published *)
(* twice or out of order (lgw_receive, main).                              *)
EveryReadingOnce == NoneForgotten /\ PublishedInOrder

(* A request to terminate ends the program, and if its loop was reached    *)
(* the concentrator is off then, also when the request came while packets  *)
(* were being published or sent.                                           *)
TerminationIsHeeded == exit_sig ~> (main \in {"ended", "failed"} /\ (main = "ended" => radio = "off"))
=============================================================================
