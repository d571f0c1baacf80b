------------------------------ MODULE LoraHal -------------------------------
(***************************************************************************)
(* Configuring and starting the LoRa concentrator                          *)
(* (src/lora/libloragw/src/loragw_hal.c).  A client sets the configuration *)
(* and the table of transmission gains, starts and stops the concentrator. *)
(* lgw_start resets the chip, sets up radios and modems, loads the         *)
(* firmware of its two controllers and then hands the gain table, the      *)
(* frequency bits, the channel option and the radio selection to the AGC   *)
(* controller through one register: the host writes AGC_CMD_WAIT, waits,   *)
(* writes the value, waits, and reads the status the controller answers.   *)
(*                                                                         *)
(* wait_ms returns early when a signal interrupts it, so a wait that is    *)
(* cut may end before the controller saw the register: at most MaxCuts     *)
(* waits are.  A transfer over SPI does not fail here (see LoraRegs).      *)
(***************************************************************************)
EXTENDS Integers, Sequences

CONSTANTS Gains,         \* entries a client may put into a gain table
          LutMax,        \* TX_GAIN_LUT_SIZE_MAX (16)
          PllAttempts,   \* PLL_LOCK_MAX_ATTEMPTS (5)
          Mappings,      \* values of radio_select the channel settings give
          MaxCuts

(* A table of four entries as the longest would have two answers in common *)
(* with the values that follow it, 48 + 3 and 51; the code's has 16.       *)
ASSUME HalAssumption ==
    /\ LutMax \in Nat \ {0, 1, 4}
    /\ Mappings \subseteq Int
    /\ \A g \in Gains : g.mix \in Int /\ g.dac \in Int /\ g.pa \in Nat

VARIABLES started,       \* lgw_is_started
          conf,          \* the host's settings: [freq, map, tx]
          size, lut,     \* txgain_lut
          at,            \* where lgw_start is, idle outside it
          k,             \* the transaction of the handshake, or the attempts to
                         \* lock a radio
          chip,          \* what the modems were set up with
          agc,           \* the AGC controller
          same,          \* lut is the table the last successful start loaded
          cuts

halVars == <<started, conf, size, lut, at, k, chip, agc, same, cuts>>

AGC_CMD_WAIT  == 16
AGC_CMD_ABORT == 17

Gain(mix, pa, power) == [mix |-> mix, pa |-> pa, dac |-> IF mix = 0 THEN 0 ELSE 3, power |-> power]
Unset == Gain(0, 0, 0)
Confs == [freq : {0, 1}, map : Mappings]

Off == [stage |-> "off", armed |-> FALSE, select |-> 0, status |-> 0,
        table |-> <<>>, msb |-> 0, map |-> 0]

HInit ==
    /\ started = FALSE /\ conf = [freq |-> 0, map |-> 0]
    /\ size = 2
    /\ lut = [i \in 1 .. LutMax |-> IF i = 1 THEN Gain(10, 2, 14)
                                    ELSE IF i = 2 THEN Gain(14, 3, 27) ELSE Unset]
    /\ at = "idle" /\ k = 1 /\ chip = [freq |-> 0, map |-> 0] /\ agc = Off
    /\ same = FALSE /\ cuts = 0

----------------------------------------------------------------------------
\* Fault: accepted while the concentrator runs.
SetsAnyTime(c) == at = "idle" /\ conf' = c

(* lgw_board_setconf, lgw_rxrf_setconf and lgw_rxif_setconf: refused while *)
(* the concentrator runs.                                                  *)
Sets(c) == at = "idle" /\ ~started /\ conf' = c

SetConf ==
    /\ \E c \in Confs : Sets(c)
    /\ UNCHANGED <<started, size, lut, at, k, chip, agc, same, cuts>>

Verified(g) == g.dac = 3 /\ g.mix \in 8 .. 15

(* lgw_txgain_setconf: accepted at any time.  The size is set first; the   *)
(* entries are verified and copied one by one up to the first that is      *)
(* refused.                                                                *)
TxgainSetconf ==
    /\ at = "idle"
    /\ \E new \in UNION {[1 .. n -> Gains] : n \in 1 .. LutMax} :
          LET copied == {i \in DOMAIN new : \A j \in 1 .. i : Verified(new[j])}
          IN  /\ size' = Len(new)
              /\ lut' = [i \in 1 .. LutMax |-> IF i \in copied THEN new[i] ELSE lut[i]]
    /\ same' = FALSE
    /\ UNCHANGED <<started, conf, at, k, chip, agc, cuts>>

(* What a table entry is loaded as.                                        *)
Loaded(g) == g.mix + 16 * g.dac + 64 * g.pa

(* The values handed to the controller, each with the status it must       *)
(* answer.                                                                 *)
Script ==
    [i \in 1 .. size |-> <<Loaded(lut[i]), 48 + i - 1>>]
    \o (IF size < LutMax THEN << <<AGC_CMD_ABORT, 48>> >> ELSE <<>>)
    \o << <<3, 51>>, <<0, 48>>, <<conf.map, 64>> >>

----------------------------------------------------------------------------
(* The AGC controller, as the host uses it: it takes a value from the      *)
(* register when it has seen AGC_CMD_WAIT there before.                    *)
Sees == IF agc.armed THEN agc.select # AGC_CMD_WAIT ELSE agc.select = AGC_CMD_WAIT

Takes(v) ==
    CASE agc.stage = "table" /\ v = AGC_CMD_ABORT ->
             [agc EXCEPT !.armed = FALSE, !.stage = "msb", !.status = 48]
      [] agc.stage = "table" /\ v # AGC_CMD_ABORT ->
             [agc EXCEPT !.armed = FALSE, !.table = Append(@, v), !.status = 48 + Len(agc.table),
                         !.stage = IF Len(agc.table) + 1 = LutMax THEN "msb" ELSE "table"]
      [] agc.stage = "msb"  -> [agc EXCEPT !.armed = FALSE, !.stage = "chan", !.msb = v, !.status = 48 + v]
      [] agc.stage = "chan" -> [agc EXCEPT !.armed = FALSE, !.stage = "end", !.status = 48 + v]
      [] agc.stage = "end"  -> [agc EXCEPT !.armed = FALSE, !.stage = "run", !.map = v, !.status = 64]

Agc ==
    /\ agc.stage \notin {"off", "boot", "run"}
    /\ Sees
    /\ agc' = IF agc.armed THEN Takes(agc.select) ELSE [agc EXCEPT !.armed = TRUE]
    /\ UNCHANGED <<started, conf, size, lut, at, k, chip, same, cuts>>

Boots ==
    /\ agc.stage = "boot"
    /\ agc' = [agc EXCEPT !.stage = "table", !.status = 16]
    /\ UNCHANGED <<started, conf, size, lut, at, k, chip, same, cuts>>

Settled == agc.stage \in {"off", "run"} \/ (agc.stage # "boot" /\ ~Sees)

(* wait_ms: the pause is long enough for the controller, unless a signal   *)
(* cuts it.                                                                *)
Waited ==
    \/ Settled /\ UNCHANGED cuts
    \/ ~Settled /\ cuts < MaxCuts /\ cuts' = cuts + 1

----------------------------------------------------------------------------
(* lgw_start: connection and reset.                                        *)
Start ==
    /\ at = "idle"
    /\ at' = "locking" /\ k' = 0 /\ agc' = Off /\ chip' = [freq |-> 0, map |-> 0]
    /\ same' = FALSE
    /\ UNCHANGED <<started, conf, size, lut, cuts>>

(* It returns LGW_HAL_ERROR; lgw_is_started keeps its value.               *)
Fails == at' = "idle" /\ UNCHANGED <<started, k, same>>

HalStartFails ==
    /\ at \in {"locking", "calibrating", "loading"}
    /\ Fails /\ UNCHANGED <<conf, size, lut, chip, agc, cuts>>

(* lgw_setup_sx125x: the radio is programmed and its PLL started; if it    *)
(* has not locked after a millisecond it is started again.  Two radios are *)
(* set up one after the other; one stands for both.                        *)
Lock ==
    /\ at = "locking"
    /\ \/ k < PllAttempts /\ k' = k + 1 /\ at' \in {"locking", "calibrating"} /\ UNCHANGED <<started, same>>
       \/ k = PllAttempts /\ Fails
    /\ UNCHANGED <<conf, size, lut, chip, agc, cuts>>

(* The wait for the calibration, its status, and the check of the          *)
(* frequency; then the modems are set up.                                  *)
Calibrated ==
    /\ at = "calibrating"
    /\ IF conf.freq = 0 THEN Fails /\ UNCHANGED chip
       ELSE at' = "loading" /\ chip' = conf /\ UNCHANGED <<started, k, same>>
    /\ UNCHANGED <<conf, size, lut, agc, cuts>>

(* A cut wait finds the calibration unfinished.                            *)
CalibrationCut ==
    /\ at = "calibrating" /\ cuts < MaxCuts
    /\ cuts' = cuts + 1 /\ Fails
    /\ UNCHANGED <<conf, size, lut, chip, agc>>

(* The firmware is loaded and the controllers leave reset.                 *)
LoadFirmware ==
    /\ at = "loading"
    /\ at' = "booting" /\ k' = 1
    /\ agc' = [Off EXCEPT !.stage = "boot"]
    /\ UNCHANGED <<started, conf, size, lut, chip, same, cuts>>

Booted ==
    /\ at = "booting" /\ Waited
    /\ IF agc.status = 16 THEN at' = "announce" /\ UNCHANGED <<started, k, same>> ELSE Fails
    /\ UNCHANGED <<conf, size, lut, chip, agc>>

(* One transaction.                                                        *)
Announce ==
    /\ at = "announce" /\ at' = "announced"
    /\ agc' = [agc EXCEPT !.select = AGC_CMD_WAIT]
    /\ UNCHANGED <<started, conf, size, lut, k, chip, same, cuts>>

Hand ==
    /\ at = "announced" /\ Waited
    /\ at' = "handed"
    /\ agc' = [agc EXCEPT !.select = Script[k][1]]
    /\ UNCHANGED <<started, conf, size, lut, k, chip, same>>

(* The status must be the expected one.  After the last transaction the    *)
(* start has succeeded.                                                    *)
Check ==
    /\ at = "handed" /\ Waited
    /\ \/ agc.status # Script[k][2] /\ Fails
       \/ /\ agc.status = Script[k][2] /\ k < Len(Script)
          /\ at' = "announce" /\ k' = k + 1 /\ UNCHANGED <<started, same>>
       \/ /\ agc.status = Script[k][2] /\ k = Len(Script)
          /\ at' = "idle" /\ started' = TRUE /\ same' = TRUE /\ UNCHANGED k
    /\ UNCHANGED <<conf, size, lut, chip, agc>>

(* lgw_stop.                                                               *)
Stop ==
    /\ at = "idle"
    /\ started' = FALSE /\ agc' = Off /\ chip' = [freq |-> 0, map |-> 0] /\ same' = FALSE
    /\ UNCHANGED <<conf, size, lut, at, k, cuts>>

HNext ==
    \/ SetConf \/ TxgainSetconf \/ Start \/ Lock \/ HalStartFails \/ Calibrated \/ CalibrationCut
    \/ LoadFirmware \/ Booted \/ Announce \/ Hand \/ Check \/ Stop \/ Agc \/ Boots

HSpec == HInit /\ [][HNext]_halVars

----------------------------------------------------------------------------
(* A start that reports success has left the concentrator with the host's  *)
(* settings: modems, frequency bits, radio selection, and the whole gain   *)
(* table, so that the index lgw_send gives the controller means to it what *)
(* it means to the host.  No wait that a signal cut short may hide that a  *)
(* value was missed.                                                       *)
SuccessIsConfigured ==
    started /\ same /\ at = "idle" =>
        /\ chip = conf /\ agc.stage = "run" /\ agc.msb = 3 /\ agc.map = conf.map
        /\ agc.table = [i \in 1 .. size |-> Loaded(lut[i])]

(* Without a cut wait no check of the handshake finds another status, for  *)
(* tables of every size, unless the radio selection happens to be the      *)
(* value AGC_CMD_WAIT.                                                     *)
UncutStartSucceeds ==
    at = "handed" /\ Settled /\ cuts = 0 /\ conf.map # AGC_CMD_WAIT => agc.status = Script[k][2]

(* What a caller may conclude from a start that succeeded, and what keeps  *)
(* one from succeeding (lgw_start).                                        *)
StartedAsConfigured == SuccessIsConfigured /\ UncutStartSucceeds
=============================================================================
