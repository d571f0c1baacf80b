------------------------------- MODULE LoraLbt -------------------------------
(***************************************************************************)
(* Listen before talk (loragw_lbt.c): the FPGA scans the configured        *)
(* channels and keeps the time at which each was last found free;          *)
(* lbt_is_channel_free lets a packet go when it will have been emitted     *)
(* soon enough after that.  Both sides count in a 23-bit microsecond       *)
(* counter, and the host keeps the 11 high bits of the packet's times      *)
(* (LBT_TIMESTAMP_MASK).                                                   *)
(*                                                                         *)
(* Time is scaled: a tick is the resolution of the FPGA's stamps (256 us), *)
(* Granule ticks are one step of the mask (4096 us) and the counter wraps  *)
(* after Period ticks (2^23 us).  now and lastFree are true times, which   *)
(* the code never sees.  The scan finds each channel free at least once    *)
(* every MaxBusy ticks: a stamp older than the period is outside what the  *)
(* counter can tell.                                                       *)
(***************************************************************************)
EXTENDS Integers, Sequences, FiniteSetsExt

CONSTANTS
    Channels,   \* lbt_channel_cfg: a sequence of [freq, scan], in 100 kHz
    StartFreq,  \* lbt_start_freq
    Granule, Period,
    Longest,    \* [scan |-> ticks]: tx_max_time of a channel
    PairLongest,\* the same for a packet over two channels
    Second, Delay, \* the PPS and tx_start_delay, in ticks
    Durations,  \* what lgw_time_on_air may return, in ticks
    MaxBusy, Horizon, MaxNow

\* The mask drops the low bits of a counter that wraps at a multiple of the
\* granule.
ASSUME CounterAssumption == Granule \in Nat \ {0} /\ Period \in Nat \ {0} /\ Period % Granule = 0

\* A packet that is asked for now cannot end later than a period after its
\* channels were last found free.
ASSUME TimeAssumption ==
    /\ Second \in Nat \ {0} /\ Delay \in Nat /\ Durations \subseteq Nat
    /\ MaxBusy \in Nat /\ Horizon \in Nat
    /\ \A d \in Durations : MaxBusy + Horizon + Delay + d <= Period

\* The channels, and the longest packet for each scan time that lbt_setup takes.
ASSUME TableAssumption ==
    /\ Channels \in Seq([freq : Nat, scan : Nat])
    /\ \A s \in {128, 5000} : Longest[s] \in Nat /\ PairLongest[s] \in Nat

VARIABLES
    stage,      \* "configured", "running", or "failed" (lbt_setup)
    now,        \* the true time
    lastFree,   \* for each channel, when it was last found free
    granted     \* the packet allowed last: its channels, limit and true end

lbtVars == <<stage, now, lastFree, granted>>

NoGrant == [chans |-> {}, limit |-> 0, end |-> 0]
Active  == 1..Len(Channels)
Mask    == Period - Granule            \* LBT_TIMESTAMP_MASK
Margin  == Granule \div 2              \* 2048

Masked(t)     == ((t % Period) \div Granule) * Granule
Stamp(c)      == lastFree[c] % Period  \* LGW_FPGA_LBT_TIMESTAMP_CH

-----------------------------------------------------------------------------
LbtInit ==
    /\ stage = "configured" /\ now = 0
    /\ lastFree = [c \in Active |-> 0] /\ granted = NoGrant

\* lbt_setup and lbt_start: the features, the start frequency and the
\* channels are checked while they are written; any read or write may fail.
Setup ==
    /\ stage = "configured"
    /\ \/ /\ \A c \in Active : /\ Channels[c].freq >= StartFreq
                               /\ Channels[c].scan \in {128, 5000}
          /\ stage' = "running"
       \/ stage' = "failed"
    /\ UNCHANGED <<now, lastFree, granted>>

\* The FPGA's scan: some channels are found free, the others are busy.
Scan ==
    /\ stage = "running" /\ now < MaxNow
    /\ now' = now + 1
    /\ \E free \in SUBSET Active :
          /\ \A c \in Active \ free : now' - lastFree[c] <= MaxBusy
          /\ lastFree' = [c \in Active |->
                             IF c \in free THEN now' ELSE lastFree[c]]
    /\ granted' = NoGrant
    /\ UNCHANGED stage

-----------------------------------------------------------------------------
\* The start the host computes with: count_us, or the next PPS plus the
\* delay that it has already been given.
StartSeen(mode, start) ==
    IF mode = "TIMESTAMPED" THEN start
    ELSE (now \div Second) * Second + Delay + Second

\* lbt_time: of two channels, the smaller stamp.
Oldest(chans) == Min({Stamp(c) : c \in chans})

\* Fault: the wrap of the counter is forgotten.
DeltaUnwrapped(free, end) == IF free < end THEN end - free ELSE end

\* What the counter advanced, over its wrap or not.
Delta(free, end) == IF free < end THEN end - free
                    ELSE (Mask - free) + end

Allowed(chans, limit, seen, duration) ==
    LET free == Oldest(chans)
        end  == Masked(Masked(seen) + duration)
    IN  /\ Delta(free, end) < limit - Margin
        /\ free # 0

\* lbt_is_channel_free for a packet of one channel (125 kHz) or of two
\* neighbours 200 kHz apart (250 kHz).  A packet of another frequency,
\* bandwidth or modulation is refused: it has no channel, and lbt_time 0.
Selected(chans) ==
    \/ \E c \in Active : chans = {c}
    \/ \E c \in Active : /\ c + 1 \in Active /\ chans = {c, c + 1}
                         /\ Channels[c + 1].freq - Channels[c].freq = 2
Limit(chans) ==
    LET scan == Channels[Min(chans)].scan
    IN  IF \E c \in Active : chans = {c} THEN Longest[scan]
        ELSE PairLongest[scan]

Ask(chans, mode, start, duration) ==
    /\ stage = "running"
    /\ Selected(chans)
    /\ mode = "ON_GPS" => start = (now \div Second) * Second + Second
    /\ Allowed(chans, Limit(chans), StartSeen(mode, start), duration)
    /\ granted' = [chans |-> chans, limit |-> Limit(chans),
                   end |-> start + duration]
    /\ UNCHANGED <<stage, now, lastFree>>

LbtNext ==
    \/ Setup \/ Scan
    \/ \E chans \in SUBSET Active, mode \in {"TIMESTAMPED", "ON_GPS"},
          start \in now..now + Horizon, duration \in Durations :
          Ask(chans, mode, start, duration)

LbtSpec == LbtInit /\ [][LbtNext]_lbtVars

-----------------------------------------------------------------------------
\* A packet of one channel that is let go ends before the limit counted from
\* the true time at which its channel was last found free, to the precision
\* of the masks: two granules lost by rounding the start and the end down,
\* and one more when the counter has wrapped, less the margin
\* (lbt_is_channel_free).
AllowedMeansRecentlyFree ==
    \A c \in Active :
        granted.chans = {c} =>
            granted.end - lastFree[c] < granted.limit + 3 * Granule - Margin
=============================================================================
