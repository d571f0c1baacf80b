------------------------------ MODULE LoraSend ------------------------------
(***************************************************************************)
(* lgw_send (loragw_hal.c): the hand-over of one packet to the SX1301.     *)
(* The packet is checked, laid out as sixteen bytes of metadata in front   *)
(* of its payload, written to the TX data buffer and triggered.  The       *)
(* metadata is all the modem and its AGC firmware learn about the packet;  *)
(* Read below is how they read it back (the "metadata" comments of the     *)
(* function).  Bytes are numbers and bit masks are div and mod.            *)
(*                                                                         *)
(* count_us is 32 bits wide and is a pair <<high, low>> of 16-bit halves.  *)
(* The writes to the registers are those of LoraRegs; lgw_send ignores     *)
(* what they return.  The verdict of the channel check (LoraLbt) is a      *)
(* choice here.                                                            *)
(***************************************************************************)
EXTENDS Integers, Sequences, FiniteSetsExt

CONSTANTS
    Packets,    \* the packets the application may ask for
    Powers,     \* txgain_lut: rf_power of each entry, in order
    Radio,      \* rf_radio_type[0]: "SX1255" or "SX1257"
    TxChains,   \* the chains whose rf_enable and rf_tx_enable are set
    NotchUs     \* lgw_fpga_get_tx_notch_delay in microseconds, rounded up

\* The fields of struct lgw_pkt_tx_s have the ranges of their types
\* (loragw_hal.h).
ASSUME PacketsAssumption ==
    \A p \in Packets :
        /\ {p.freq, p.datarate, p.bandwidth, p.f_dev, p.preamble, p.size} \subseteq Nat
        /\ p.preamble < 65536 /\ p.rf_power \in Int
        /\ p.count_us \in Nat \X Nat /\ p.count_us[1] < 65536 /\ p.count_us[2] < 65536
ASSUME FlagsAssumption ==
    \A p \in Packets : {p.no_crc, p.no_header, p.invert_pol} \subseteq BOOLEAN

\* TX_GAIN_LUT_SIZE_MAX and LGW_RF_CHAIN_NB, and the delay for the greatest
\* tx_notch_offset (loragw_fpga.c).
ASSUME PowersAssumption == Powers \in Seq(Int) /\ Len(Powers) \in 1..16
ASSUME BoardAssumption  == TxChains \subseteq {0, 1} /\ NotchUs \in 0..5

VARIABLES
    sendStarted, \* lgw_is_started
    lbtOn,      \* lbt_enable
    buffer,     \* the TX data buffer: metadata bytes 0..15
    payload,    \* the size of the payload that lies in the buffer
    startDelay, \* TX_START_DELAY
    trigger,    \* the TX_TRIG register written last
    asked,      \* the packet that lies in the buffer
    result      \* what the call returned

sendVars == <<sendStarted, lbtOn, buffer, payload, startDelay, trigger, asked,
              result>>

NoPacket == [modulation |-> "none"]
Frac     == 15625                 \* SX125x_32MHz_FRAC
LGW_XTAL_FREQU == 32000000
IsLora(p) == p.modulation = "LORA"

\* What the PLL counts in: 32 MHz / 2^(16+bits) per unit of the fraction.
Scale == IF Radio = "SX1255" THEN 7 ELSE 8
Unit  == Frac * 2^Scale
PartInt(f)  == f \div Unit
PartFrac(f) == ((f % Unit) * 2^(16 - Scale)) \div Frac

(***************************************************************************)
(* The checks, in the order of the function.                               *)
(***************************************************************************)
Acceptable(p) ==
    /\ p.rf_chain \in TxChains
    /\ p.tx_mode \in {"IMMEDIATE", "TIMESTAMPED", "ON_GPS"}
    /\ \/ /\ IsLora(p)
          /\ p.bandwidth \in {125, 250, 500}
          /\ p.datarate \in 7..12
          /\ p.coderate \in 1..4
       \/ /\ p.modulation = "FSK"
          /\ p.f_dev \in 1..200
          /\ 500 <= p.datarate /\ p.datarate <= 250000
    /\ p.size <= 255

NotchEnabled(p) == IsLora(p) /\ p.bandwidth = 125

\* lgw_get_tx_start_delay: 1497 less the delays, truncated.
StartDelay(p) ==
    1497 - (IF NotchEnabled(p) THEN NotchUs ELSE 0)
         - (IF p.bandwidth = 125 THEN 2 ELSE 0)

\* The loop runs down from the strongest entry and stops at entry 0.
PowIndex(p) ==
    LET fits == {i \in 1..Len(Powers) - 1 : Powers[i + 1] <= p.rf_power}
    IN  IF fits = {} THEN 0 ELSE Max(fits)

Preamble(p) ==
    LET standard == IF IsLora(p) THEN 8 ELSE 5
        minimum  == IF IsLora(p) THEN 6 ELSE 3
    IN  IF p.preamble = 0 THEN standard
        ELSE Max({p.preamble, minimum})

\* SET_PPM_ON
PpmOn(p) == \/ p.bandwidth = 125 /\ p.datarate \in {11, 12}
            \/ p.bandwidth = 250 /\ p.datarate = 12

Minus(c, d) ==
    IF c[2] >= d THEN <<c[1], c[2] - d>>
    ELSE <<(c[1] + 65535) % 65536, c[2] + 65536 - d>>

Flag(b, weight) == IF b THEN weight ELSE 0
HighByte(n) == (n \div 256) % 256
LowByte(n)  == n % 256

(***************************************************************************)
(* The metadata.  Bytes 3 to 6 are not written unless the packet is        *)
(* TIMESTAMPED: junk stands for what the stack held.                       *)
(***************************************************************************)
\* Fault: the high bits of the frequency are left under the filters.
FilterBitsKept(p) ==
    IF ~IsLora(p) THEN PartInt(p.freq) % 128
    ELSE (PartInt(p.freq) % 256) + Flag(NotchEnabled(p), 64)

\* The two high bits of the frequency carry the filters of the radio.
FilterBits(p) ==
    IF ~IsLora(p) THEN PartInt(p.freq) % 128
    ELSE (PartInt(p.freq) % 64) + Flag(p.bandwidth = 500, 128)
                                + Flag(NotchEnabled(p), 64)

Metadata(p, junk) ==
    LET frac == PartFrac(p.freq)
        at   == Minus(p.count_us, StartDelay(p))
        pre  == Preamble(p)
        baud == (LGW_XTAL_FREQU \div p.datarate) % 65536
    IN  [i \in 0..15 |->
           CASE i = 0 -> FilterBits(p)
             [] i = 1 -> HighByte(frac)
             [] i = 2 -> LowByte(frac)
             [] i \in 3..6 /\ p.tx_mode # "TIMESTAMPED" -> junk
             [] i = 3 -> HighByte(at[1])
             [] i = 4 -> LowByte(at[1])
             [] i = 5 -> HighByte(at[2])
             [] i = 6 -> LowByte(at[2])
             [] i = 7 -> 32 * p.rf_chain + Flag(~IsLora(p), 16) + PowIndex(p)
             [] i = 8 -> 0
             [] i = 9 -> IF ~IsLora(p) THEN p.f_dev
                         ELSE p.datarate + 16 * p.coderate
                                         + Flag(~p.no_crc, 128)
             [] i = 10 -> p.size
             [] i = 11 -> IF ~IsLora(p) THEN 1 + Flag(~p.no_crc, 2) + 8
                          ELSE (CASE p.bandwidth = 125 -> 0
                                  [] p.bandwidth = 250 -> 1
                                  [] OTHER -> 2)
                               + Flag(p.no_header, 4) + Flag(PpmOn(p), 8)
                               + Flag(p.invert_pol, 16)
             [] i = 12 -> HighByte(pre)
             [] i = 13 -> LowByte(pre)
             [] i = 14 -> IF IsLora(p) THEN 0 ELSE HighByte(baud)
             [] OTHER  -> IF IsLora(p) THEN 0 ELSE LowByte(baud)]

-----------------------------------------------------------------------------
SendInit ==
    /\ sendStarted \in BOOLEAN /\ lbtOn \in BOOLEAN
    /\ buffer = [i \in 0..15 |-> 0] /\ payload = 0
    /\ startDelay = 1497 /\ trigger = "none"
    /\ asked = NoPacket /\ result = "none"

Refuse(p) ==
    /\ ~sendStarted \/ ~Acceptable(p)
    /\ result' = "LGW_HAL_ERROR"
    /\ UNCHANGED <<sendStarted, lbtOn, buffer, payload, startDelay, trigger, asked>>

\* lgw_abort_tx clears the triggers before the buffer is rewritten; the
\* channel is checked after that.
Verdicts(p) ==
    CASE ~lbtOn                    -> {"free"}
      [] ~IsLora(p)                -> {"busy"}
      [] p.tx_mode = "IMMEDIATE"   -> {"error"}
      [] OTHER                     -> {"free", "busy"}

SendPacket(p) ==
    /\ sendStarted /\ Acceptable(p)
    /\ asked' = p
    /\ \E junk \in {0, 255} : buffer' = Metadata(p, junk)
    /\ payload' = p.size
    /\ startDelay' = StartDelay(p)
    /\ \E verdict \in Verdicts(p) :
          \/ /\ verdict = "free"
             /\ trigger' = p.tx_mode /\ result' = "LGW_HAL_SUCCESS"
          \/ /\ verdict = "busy"
             /\ trigger' = "none" /\ result' = "LGW_LBT_ISSUE"
          \/ /\ verdict = "error"
             /\ trigger' = "none" /\ result' = "LGW_HAL_ERROR"
    /\ UNCHANGED <<sendStarted, lbtOn>>

SendNext == \E p \in Packets : Refuse(p) \/ SendPacket(p)

SendSpec == SendInit /\ [][SendNext]_sendVars

-----------------------------------------------------------------------------
(***************************************************************************)
(* What the modem reads in the metadata.                                   *)
(***************************************************************************)
Bit(byte, weight) == (byte \div weight) % 2 = 1

ReadsAsked(m, p) ==
    /\ (m[7] \div 32) % 2 = p.rf_chain
    /\ Bit(m[7], 16) <=> ~IsLora(p)
    /\ m[10] = p.size
    /\ 256 * m[12] + m[13] = Preamble(p)
    /\ IF IsLora(p)
       THEN /\ m[9] % 16 = p.datarate /\ (m[9] \div 16) % 8 = p.coderate
            /\ Bit(m[9], 128) <=> ~p.no_crc
            /\ <<125, 250, 500>>[(m[11] % 4) + 1] = p.bandwidth
            /\ Bit(m[11], 4) <=> p.no_header
            /\ Bit(m[11], 16) <=> p.invert_pol
            \* The symbol lasts 16 ms or more: 2^SF / bandwidth.
            /\ Bit(m[11], 8) <=> 2^p.datarate >= 16 * p.bandwidth
            /\ Bit(m[0], 128) <=> p.bandwidth = 500
            /\ Bit(m[0], 64) <=> p.bandwidth = 125
       ELSE /\ m[9] = p.f_dev
            /\ Bit(m[11], 2) <=> ~p.no_crc
            /\ ~Bit(m[0], 128)
            \* 32 MHz over the divider is the rate, to one step of it.
            /\ LET div == 256 * m[14] + m[15]
               IN  div * p.datarate <= LGW_XTAL_FREQU
                   /\ LGW_XTAL_FREQU < (div + 1) * p.datarate

\* The low six bits of the integer part, and the fraction to one step.
ReadsFrequency(m, p) ==
    LET frac == 256 * m[1] + m[2] IN
    /\ m[0] % 64 = PartInt(p.freq) % 64
    /\ frac * Frac <= (p.freq % Unit) * 2^(16 - Scale)
    /\ (p.freq % Unit) * 2^(16 - Scale) < (frac + 1) * Frac

\* No entry of the table that respects the limit stands behind it, or, in a table
\* that goes from the weakest to the strongest, is stronger: nothing checks that it
\* does (lgw_txgain_setconf).
Ascending == \A i, j \in 1..Len(Powers) : i <= j => Powers[i] <= Powers[j]
ReadsPower(m, p) ==
    LET i == m[7] % 16 IN
    /\ i \in 0..Len(Powers) - 1
    /\ Powers[i + 1] <= p.rf_power \/ i = 0
    /\ \A j \in 1..Len(Powers) :
          Powers[j] <= p.rf_power =>
              /\ j <= i + 1
              /\ Ascending => Powers[j] <= Powers[i + 1]

\* The count at which the state machine starts, plus the delay it is given,
\* is the count the application asked for.
ReadsInstant(m, p) ==
    p.tx_mode = "TIMESTAMPED" =>
        LET hi == 256 * m[3] + m[4]
            lo == 256 * m[5] + m[6] + startDelay
        IN  <<(hi + lo \div 65536) % 65536, lo % 65536>> = p.count_us

\* Whatever is triggered is the packet asked for: the modem reads in the
\* metadata the parameters, the frequency, the instant and the strongest
\* power of the table within the limit, whatever sequence of sends and
\* refusals came before (lgw_send).
TriggeredIsAsked ==
    trigger # "none" =>
        /\ trigger = asked.tx_mode
        /\ ReadsAsked(buffer, asked) /\ ReadsFrequency(buffer, asked)
        /\ ReadsPower(buffer, asked) /\ ReadsInstant(buffer, asked)
=============================================================================
