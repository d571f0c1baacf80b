------------------------------ MODULE MCDevices ------------------------------
(***************************************************************************)
(* The programs and the driver between the gateway and its radios, one at  *)
(* a time: the Zigbee reader, the LoRa bridge, and the parts of Semtech's  *)
(* HAL it is built on.  They share no state; part says which of them this  *)
(* behaviour is about, and the others stay as they start.                  *)
(***************************************************************************)
EXTENDS ZigbeeReader, LoraHal, LoraSend, LoraLbt, LoraRegs, LoraGateway, Bitwise

VARIABLE part

-----------------------------------------------------------------------------
(* crc8: the exclusive or of the bytes between the token and the last one. *)
MCCheckCrc(s) ==
    FoldSeq(LAMBDA byte, crc : byte ^^ crc, 0, SubSeq(s, 2, Len(s) - 1)) = s[Len(s)]

(* The one frame length that is reported, as REPORT_STATUS_LEN is.         *)
MCIsReport(s) == Len(s) = 4

(* LoraHal: gain tables that differ in length and content.                 *)
MCGains == {Gain(12, 1, 10), Gain(0, 0, 5)}

(* LoraLbt: two channels of both scan times; a period of 32 ticks, passed  *)
(* once.                                                                   *)
MCChannels == <<[freq |-> 8631, scan |-> 128], [freq |-> 8633, scan |-> 5000]>>
MCLongest     == [s \in {128, 5000} |-> IF s = 128 THEN 16 ELSE 24]
MCPairLongest == [s \in {128, 5000} |-> IF s = 128 THEN 12 ELSE 24]

(* LoraGateway: readings, and a packet whose first byte passes for a       *)
(* number of packets.                                                      *)
MCKinds == <<"sensor", "low", "sensor", "sensor">>

(* Registers of each kind: on the FPGA, alone in a byte, two in one byte,  *)
(* and a signed one that takes two bytes; ByteBits is 2.                   *)
Field(p, a, o, l, s) == [page |-> p, addr |-> a, offs |-> o, leng |-> l, sign |-> s]
MCRegisters ==
    [mode |-> Field(-2, 3, 0, 1, FALSE), freq |-> Field(0, 2, 0, 3, TRUE),
     rst |-> Field(1, 1, 1, 1, FALSE), gain |-> Field(1, 1, 0, 1, FALSE)]

(* Packets of both modulations at the edges of each field.                 *)
Lora(c, bw, sf, cr, pre, length, pow, f, crc, hdr, pol, mode, time) ==
    [modulation |-> "LORA", rf_chain |-> c, bandwidth |-> bw, datarate |-> sf, coderate |-> cr,
     preamble |-> pre, size |-> length, rf_power |-> pow, freq |-> f, no_crc |-> crc,
     no_header |-> hdr, invert_pol |-> pol, tx_mode |-> mode, count_us |-> time, f_dev |-> 0]
MCPackets ==
    {Lora(0, bw, sf, 1, 0, 12, 14, f, FALSE, FALSE, TRUE, "IMMEDIATE", <<0, 0>>) :
        bw \in {0, 125, 250, 500}, sf \in {7, 11, 12}, f \in {868100000, 475100000}}
    \cup {Lora(c, 125, 9, cr, pre, 255, pow, 475299999, crc, TRUE, FALSE, "TIMESTAMPED", time) :
        c \in {0, 1}, cr \in {4, 5}, pre \in {3, 300}, pow \in {0, 14, 20, 30},
        crc \in BOOLEAN, time \in {<<0, 5>>, <<3, 40000>>}}
    \cup {[Lora(0, 125, dr, 1, pre, 20, 27, 868300000, FALSE, FALSE, FALSE, mode, <<0, 65535>>)
              EXCEPT !.modulation = "FSK", !.f_dev = dev] :
        dr \in {500, 250000}, pre \in {0, 2}, mode \in {"TIMESTAMPED", "ON_GPS", "OTHER"}, dev \in {0, 200}}
MCPowers == <<-6, 14, 20, 27>>

-----------------------------------------------------------------------------
DevicesInit ==
    /\ part \in {"zigbee", "regs", "hal", "send", "lbt", "gateway"}
    /\ Init /\ (part # "zigbee" => \A i \in Index : sb.buffer[i] = Token)
    /\ RInit /\ HInit /\ LbtInit
    /\ SendInit /\ (part # "send" => sendStarted /\ lbtOn)
    /\ GInit /\ (part # "gateway" => args.ft /\ args.rx_disable)

DevicesNext ==
    /\ UNCHANGED part
    /\ \/ /\ part = "zigbee" /\ Next
          /\ UNCHANGED <<regVars, halVars, sendVars, lbtVars, gwVars>>
       \/ /\ part = "regs" /\ RNext
          /\ UNCHANGED <<vars, halVars, sendVars, lbtVars, gwVars>>
       \/ /\ part = "hal" /\ HNext
          /\ UNCHANGED <<vars, regVars, sendVars, lbtVars, gwVars>>
       \/ /\ part = "send" /\ SendNext
          /\ UNCHANGED <<vars, regVars, halVars, lbtVars, gwVars>>
       \/ /\ part = "lbt" /\ LbtNext
          /\ UNCHANGED <<vars, regVars, halVars, sendVars, gwVars>>
       \/ /\ part = "gateway" /\ GNext
          /\ UNCHANGED <<vars, regVars, halVars, sendVars, lbtVars>>

(* The fairness of ZigbeeReader and of LoraGateway, for the part at work.  *)
DevicesSpec ==
    /\ DevicesInit
    /\ [][DevicesNext]_<<part, vars, regVars, halVars, sendVars, lbtVars, gwVars>>
    /\ WF_vars(part = "zigbee" /\ Step)
    /\ WF_gwVars(part = "gateway" /\ Program)
    /\ WF_gwVars(part = "gateway" /\ PublishEnds)
    /\ WF_gwVars(part = "gateway" /\ Emit)

=============================================================================
