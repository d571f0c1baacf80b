---------------------------- MODULE DevicesProofs ----------------------------
(***************************************************************************)
(* Proofs about the programs and the driver between the gateway and its    *)
(* radios: the LoRa bridge (LoraGateway), the listen-before-talk check     *)
(* (LoraLbt), the start (LoraHal), the transmission (LoraSend) and the     *)
(* registers (LoraRegs) of the HAL, and the Zigbee reader (ZigbeeReader)   *)
(* with its ring buffer (Sbuf): for every FIFO, sequence of packets, table *)
(* of channels, of gains, of powers and of registers, every size of the    *)
(* arrays, of the chunks and of the unsigned cursors, and however many     *)
(* waits a signal cuts short.                                              *)
(***************************************************************************)
EXTENDS LoraGateway, LoraLbt, LoraHal, LoraSend, LoraRegs, ZigbeeReader,
        SequenceTheorems, WellFoundedInduction, TLAPS

-----------------------------------------------------------------------------
(* The bridge: what a packet goes through.                                 *)

\* A packet is a number, 0 for what is read when a transfer fails.
BridgeShapes ==
    /\ main \in {"starting", "failed", "loop", "fetch", "handle", "publishing", "again",
                 "turn", "poll", "ended"}
    /\ arrived \in Nat
    /\ fifo \in Seq(Nat) /\ rxpkt \in Seq(Nat) /\ published \in Seq(Nat)
    /\ nb \in 0 .. Len(rxpkt)

\* Nothing arrives before the start; between two fetches all is handled.
BridgeStages ==
    /\ main \in {"starting", "failed"} => arrived = 0 /\ radio # "on"
    /\ main \in {"starting", "failed", "loop", "turn", "poll", "ended"} => nb = Len(rxpkt)
    /\ main \in {"publishing", "again"} => nb < Len(rxpkt) /\ Sensor(rxpkt[nb + 1])

\* Every sensor's packet is somewhere.
NoneLost ==
    \A p \in 1 .. arrived : Sensor(p) =>
        \/ \E i \in 1 .. Len(fifo) : fifo[i] = p
        \/ \E i \in 1 .. Len(published) : published[i] = p
        \/ p \in given \/ p \in spoilt
        \/ \E i \in nb + 1 .. Len(rxpkt) : rxpkt[i] = p
        \/ radio # "on"

\* p was received before q, or is the same packet, fetched twice.
Before(p, q) == p <= q /\ (p = q => p \in spoilt)

\* Published, fetched and in the chip: the packets stand in one order.
InLine ==
    /\ \A i \in 1 .. Len(fifo) : fifo[i] \in 1 .. arrived
    /\ \A i \in 1 .. Len(rxpkt) : rxpkt[i] \in 0 .. arrived
    /\ \A i \in 1 .. Len(published) : published[i] \in 1 .. arrived
    /\ \A i, jj \in 1 .. Len(fifo) : i < jj => fifo[i] < fifo[jj]
    /\ \A i, jj \in 1 .. Len(rxpkt) :
           i < jj /\ rxpkt[i] # 0 /\ rxpkt[jj] # 0 => Before(rxpkt[i], rxpkt[jj])
    /\ \A i \in 1 .. Len(rxpkt), jj \in 1 .. Len(fifo) :
           rxpkt[i] # 0 => Before(rxpkt[i], fifo[jj])
    /\ \A i, jj \in 1 .. Len(published) : i < jj => Before(published[i], published[jj])
    /\ \A i \in 1 .. Len(published), jj \in nb + 1 .. Len(rxpkt) :
           rxpkt[jj] # 0 => Before(published[i], rxpkt[jj])
    /\ \A i \in 1 .. Len(published), jj \in 1 .. Len(fifo) : Before(published[i], fifo[jj])

BridgeInv == BridgeShapes /\ BridgeStages /\ NoneLost /\ InLine

-----------------------------------------------------------------------------
(* Lemmas about sequences.                                                 *)

LEMMA AppendedAt ==
    ASSUME NEW s \in Seq(Nat), NEW e \in Nat
    PROVE  /\ Append(s, e) \in Seq(Nat) /\ Len(s) \in Nat /\ Len(Append(s, e)) = Len(s) + 1
           /\ \A i \in 1 .. Len(s) : Append(s, e)[i] = s[i]
           /\ Append(s, e)[Len(s) + 1] = e
  OBVIOUS

LEMMA TakenAt ==
    ASSUME NEW s \in Seq(Nat), s # <<>>
    PROVE  /\ Len(s) \in Nat \ {0} /\ Head(s) \in Nat /\ Head(s) = s[1]
           /\ Tail(s) \in Seq(Nat) /\ Len(Tail(s)) = Len(s) - 1
           /\ \A i \in 1 .. Len(s) - 1 : Tail(s)[i] = s[i + 1]
  OBVIOUS

-----------------------------------------------------------------------------
(* Each step of the bridge keeps the invariant.                            *)

LEMMA BridgeStarts == GInit => BridgeInv
  <1> SUFFICES ASSUME GInit PROVE BridgeInv
    OBVIOUS
  <1>1. /\ fifo = <<>> /\ rxpkt = <<>> /\ published = <<>> /\ nb = 0 /\ arrived = 0
        /\ main = "starting"
        /\ radio = "off"
    BY DEF GInit
  <1>2. \A e : e = <<>> => Len(e) = 0
    OBVIOUS
  <1>3. BridgeShapes
    BY <1>1, <1>2 DEF BridgeShapes
  <1> QED BY <1>1, <1>2, <1>3 DEF BridgeInv, BridgeStages, NoneLost, InLine

\* Steps that move no packet: a step changes pc, or the radio, at most.
LEMMA NothingMoves ==
    ASSUME BridgeInv, UNCHANGED <<arrived, fifo, rxpkt, nb, published, given, spoilt>>,
           BridgeShapes', BridgeStages', radio' = "on" => radio = "on" \/ arrived = 0
    PROVE  BridgeInv'
  <1>1. NoneLost'
    <2>1. CASE arrived = 0
      BY <2>1 DEF NoneLost
    <2>2. CASE radio' = "on" => radio = "on"
      BY <2>2 DEF BridgeInv, NoneLost, Sensor
    <2> QED BY <2>1, <2>2
  <1>2. InLine'
    BY DEF BridgeInv, InLine, Before
  <1> QED BY <1>1, <1>2 DEF BridgeInv

\* A packet arrives behind all others, or is lost.
LEMMA ArrivesKeeps == ASSUME BridgeInv, Arrives PROVE BridgeInv'
  <1>1. /\ arrived' = arrived + 1 /\ arrived \in Nat /\ main' = main /\ radio' = radio
        /\ UNCHANGED <<rxpkt, nb, published, given>>
        /\ spoilt \subseteq spoilt' /\ main \notin {"starting", "failed"}
    BY DEF BridgeInv, BridgeShapes, BridgeStages, Arrives, Alive, reader, env, sigs, sender
  <1>2. fifo \in Seq(Nat) /\ Len(fifo) \in Nat
    BY DEF BridgeInv, BridgeShapes
  <1>3. /\ fifo' \in Seq(Nat) /\ Len(fifo') \in {Len(fifo), Len(fifo) + 1}
        /\ \A i \in 1 .. Len(fifo) : fifo'[i] = fifo[i]
        /\ Len(fifo') = Len(fifo) + 1 => fifo'[Len(fifo) + 1] = arrived + 1
        /\ Len(fifo') = Len(fifo) => arrived + 1 \in spoilt'
    <2>1. CASE fifo' = Append(fifo, arrived + 1)
      <3>1. arrived + 1 \in Nat
        BY <1>1
      <3> QED BY <1>2, <2>1, <3>1, AppendedAt
    <2>2. CASE fifo' = fifo /\ spoilt' = spoilt \cup {arrived + 1}
      BY <1>2, <2>2
    <2> QED BY <2>1, <2>2 DEF Arrives
  <1>4. BridgeShapes' /\ BridgeStages'
    BY <1>1, <1>3 DEF BridgeInv, BridgeShapes, BridgeStages, Sensor
  <1>5. NoneLost'
    <2> SUFFICES ASSUME NEW p \in 1 .. arrived + 1, Sensor(p)
                 PROVE  \/ \E i \in 1 .. Len(fifo') : fifo'[i] = p
                        \/ \E i \in 1 .. Len(published) : published[i] = p
                        \/ p \in given \/ p \in spoilt'
                        \/ \E i \in nb + 1 .. Len(rxpkt) : rxpkt[i] = p
                        \/ radio # "on"
      BY <1>1 DEF NoneLost, Sensor
    <2>1. CASE p = arrived + 1
      BY <1>2, <1>3, <2>1
    <2>2. CASE p # arrived + 1
      <3>1. p \in 1 .. arrived
        BY <1>1, <2>2
      <3>2. \A i \in 1 .. Len(fifo) : i \in 1 .. Len(fifo') /\ fifo'[i] = fifo[i]
        BY <1>2, <1>3
      <3> QED BY <1>1, <3>1, <3>2 DEF BridgeInv, NoneLost
    <2> QED BY <2>1, <2>2
  <1>6. InLine'
    <2>1. \A i \in 1 .. Len(fifo') :
             \/ i \in 1 .. Len(fifo) /\ fifo'[i] = fifo[i]
             \/ i = Len(fifo) + 1 /\ fifo'[i] = arrived + 1
      BY <1>2, <1>3
    <2>2. /\ \A i \in 1 .. Len(fifo') : fifo'[i] \in 1 .. arrived'
          /\ \A i \in 1 .. Len(rxpkt) : rxpkt[i] \in 0 .. arrived'
          /\ \A i \in 1 .. Len(published) : published[i] \in 1 .. arrived'
      BY <1>1, <2>1 DEF BridgeInv, InLine
    <2>3. \A i, jj \in 1 .. Len(fifo') : i < jj => fifo'[i] < fifo'[jj]
      <3> SUFFICES ASSUME NEW i \in 1 .. Len(fifo'), NEW jj \in 1 .. Len(fifo'), i < jj
                   PROVE  fifo'[i] < fifo'[jj]
        OBVIOUS
      <3>1. i \in 1 .. Len(fifo) /\ fifo'[i] = fifo[i] /\ fifo[i] \in 1 .. arrived
        BY <1>2, <1>3, <2>1 DEF BridgeInv, InLine
      <3>2. CASE jj \in 1 .. Len(fifo) /\ fifo'[jj] = fifo[jj]
        BY <3>1, <3>2 DEF BridgeInv, InLine
      <3>3. CASE fifo'[jj] = arrived + 1
        BY <1>1, <3>1, <3>3
      <3> QED BY <2>1, <3>2, <3>3
    <2>4. \A e \in 1 .. arrived, jj \in 1 .. Len(fifo') :
             (\A kk \in 1 .. Len(fifo) : Before(e, fifo[kk]))
                 => e <= fifo'[jj] /\ (e = fifo'[jj] => e \in spoilt')
      <3> SUFFICES ASSUME NEW e \in 1 .. arrived, NEW jj \in 1 .. Len(fifo'),
                          \A kk \in 1 .. Len(fifo) : Before(e, fifo[kk])
                   PROVE  e <= fifo'[jj] /\ (e = fifo'[jj] => e \in spoilt')
        OBVIOUS
      <3>1. CASE jj \in 1 .. Len(fifo) /\ fifo'[jj] = fifo[jj]
        BY <1>1, <3>1 DEF Before
      <3>2. CASE fifo'[jj] = arrived + 1
        BY <1>1, <3>2
      <3> QED BY <2>1, <3>1, <3>2
    <2>5. /\ \A i \in 1 .. Len(rxpkt'), jj \in 1 .. Len(fifo') :
                 rxpkt'[i] # 0 => Before(rxpkt[i], fifo[jj])'
          /\ \A i \in 1 .. Len(published'), jj \in 1 .. Len(fifo') :
                 Before(published[i], fifo[jj])'
      <3>1. /\ \A i \in 1 .. Len(rxpkt) : rxpkt[i] # 0 =>
                   rxpkt[i] \in 1 .. arrived /\ \A kk \in 1 .. Len(fifo) : Before(rxpkt[i], fifo[kk])
            /\ \A i \in 1 .. Len(published) :
                   published[i] \in 1 .. arrived /\ \A kk \in 1 .. Len(fifo) : Before(published[i], fifo[kk])
        BY <1>1 DEF BridgeInv, InLine
      <3> QED BY <1>1, <2>4, <3>1 DEF Before
    <2>6. /\ \A i, jj \in 1 .. Len(rxpkt') :
                 i < jj /\ rxpkt'[i] # 0 /\ rxpkt'[jj] # 0 => Before(rxpkt[i], rxpkt[jj])'
          /\ \A i, jj \in 1 .. Len(published') : i < jj => Before(published[i], published[jj])'
          /\ \A i \in 1 .. Len(published'), jj \in nb' + 1 .. Len(rxpkt') :
                 rxpkt'[jj] # 0 => Before(published[i], rxpkt[jj])'
      BY <1>1 DEF BridgeInv, InLine, Before
    <2> QED BY <1>1, <2>2, <2>3, <2>5, <2>6 DEF InLine
  <1> QED BY <1>4, <1>5, <1>6 DEF BridgeInv

\* Packet x is fetched, or 0 for what cannot be one; the head of the FIFO goes,
\* unless the advance fails.
LEMMA FetchingKeeps ==
    ASSUME BridgeInv, main = "fetch", UNCHANGED <<main, arrived, nb, published, given, radio>>,
           NEW x \in Nat, rxpkt' = Append(rxpkt, x), spoilt \subseteq spoilt',
           x # 0 => fifo # <<>> /\ x = fifo[1],
           \/ fifo' = fifo /\ (x # 0 => x \in spoilt')
           \/ fifo # <<>> /\ fifo' = Tail(fifo) /\ (x = 0 => fifo[1] \in spoilt')
    PROVE  BridgeInv'
  <1>1. /\ rxpkt \in Seq(Nat) /\ fifo \in Seq(Nat) /\ Len(rxpkt) \in Nat /\ Len(fifo) \in Nat
        /\ arrived \in Nat /\ nb \in 0 .. Len(rxpkt)
    BY DEF BridgeInv, BridgeShapes
  <1>2. /\ rxpkt' \in Seq(Nat) /\ Len(rxpkt') = Len(rxpkt) + 1 /\ rxpkt'[Len(rxpkt) + 1] = x
        /\ \A i \in 1 .. Len(rxpkt) : rxpkt'[i] = rxpkt[i]
    BY <1>1, AppendedAt
  <1>3. \E d \in {0, 1} : /\ fifo' \in Seq(Nat) /\ Len(fifo') = Len(fifo) - d
                          /\ \A i \in 1 .. Len(fifo') : i + d \in 1 .. Len(fifo) /\ fifo'[i] = fifo[i + d]
                          /\ d = 0 => (x # 0 => x \in spoilt')
                          /\ d = 1 => Len(fifo) > 0 /\ (x = 0 => fifo[1] \in spoilt')
    <2>1. CASE fifo' = fifo /\ (x # 0 => x \in spoilt')
      <3>1. /\ Len(fifo') = Len(fifo) - 0
            /\ \A i \in 1 .. Len(fifo') : i + 0 \in 1 .. Len(fifo) /\ fifo'[i] = fifo[i + 0]
        BY <1>1, <2>1
      <3>2. fifo' \in Seq(Nat) /\ 0 # 1 /\ 0 \in {0, 1} /\ (x # 0 => x \in spoilt')
        BY <1>1, <2>1
      <3> QED BY <3>1, <3>2, Zenon
    <2>2. CASE fifo # <<>> /\ fifo' = Tail(fifo) /\ (x = 0 => fifo[1] \in spoilt')
      <3>1. /\ fifo' \in Seq(Nat) /\ Len(fifo') = Len(fifo) - 1 /\ Len(fifo) > 0
            /\ \A i \in 1 .. Len(fifo') : i + 1 \in 1 .. Len(fifo) /\ fifo'[i] = fifo[i + 1]
        BY <1>1, <2>2, TakenAt
      <3>2. 1 # 0 /\ 1 \in {0, 1} /\ (x = 0 => fifo[1] \in spoilt')
        BY <2>2
      <3> QED BY <3>1, <3>2, Zenon
    <2> QED BY <2>1, <2>2
  <1>4. PICK d \in {0, 1} :
            /\ fifo' \in Seq(Nat) /\ Len(fifo') = Len(fifo) - d
            /\ \A i \in 1 .. Len(fifo') : i + d \in 1 .. Len(fifo) /\ fifo'[i] = fifo[i + d]
            /\ d = 0 => (x # 0 => x \in spoilt')
            /\ d = 1 => Len(fifo) > 0 /\ (x = 0 => fifo[1] \in spoilt')
    BY <1>3
  <1>5. x # 0 => Len(fifo) > 0 /\ x = fifo[1] /\ x \in 1 .. arrived
    <2>1. fifo # <<>> => Len(fifo) > 0
      BY <1>1
    <2>2. Len(fifo) > 0 => fifo[1] \in 1 .. arrived
      BY <1>1 DEF BridgeInv, InLine
    <2> QED BY <2>1, <2>2
  <1>6. BridgeShapes' /\ BridgeStages'
    BY <1>1, <1>2, <1>4 DEF BridgeInv, BridgeShapes, BridgeStages
  <1>7. NoneLost'
    <2> SUFFICES ASSUME NEW p \in 1 .. arrived, Sensor(p), radio = "on"
                 PROVE  \/ \E i \in 1 .. Len(fifo') : fifo'[i] = p
                        \/ \E i \in 1 .. Len(published) : published[i] = p
                        \/ p \in given \/ p \in spoilt'
                        \/ \E i \in nb + 1 .. Len(rxpkt') : rxpkt'[i] = p
      BY DEF NoneLost, Sensor
    <2>1. CASE \E i \in nb + 1 .. Len(rxpkt) : rxpkt[i] = p
      BY <1>1, <1>2, <2>1
    <2>2. CASE \E i \in 1 .. Len(fifo) : fifo[i] = p
      <3>1. PICK i \in 1 .. Len(fifo) : fifo[i] = p
        BY <2>2
      <3>2. CASE d = 0
        <4>1. i \in 1 .. Len(fifo') /\ i + 0 = i
          BY <1>1, <1>4, <3>2
        <4>2. fifo'[i] = fifo[i]
          BY <1>4, <3>2, <4>1
        <4> QED BY <3>1, <4>1, <4>2
      <3>3. CASE d = 1 /\ i # 1
        <4>1. i - 1 \in 1 .. Len(fifo') /\ fifo'[i - 1] = fifo[i]
          BY <1>1, <1>4, <3>3
        <4> QED BY <3>1, <4>1
      <3>4. CASE d = 1 /\ i = 1 /\ x = 0
        BY <1>4, <3>1, <3>4
      <3>5. CASE i = 1 /\ x # 0
        <4>1. Len(rxpkt) + 1 \in nb + 1 .. Len(rxpkt') /\ rxpkt'[Len(rxpkt) + 1] = p
          BY <1>1, <1>2, <1>5, <3>1, <3>5
        <4> QED BY <4>1
      <3> QED BY <3>2, <3>3, <3>4, <3>5
    <2> QED BY <2>1, <2>2 DEF BridgeInv, NoneLost
  <1>8. InLine'
    <2>1. \A i \in 1 .. Len(rxpkt') :
             \/ i \in 1 .. Len(rxpkt) /\ rxpkt'[i] = rxpkt[i]
             \/ i = Len(rxpkt) + 1 /\ rxpkt'[i] = x
      BY <1>1, <1>2
    <2>2. \A i \in 1 .. Len(fifo') : fifo'[i] \in 1 .. arrived
      BY <1>4 DEF BridgeInv, InLine
    <2>3. \A i, jj \in 1 .. Len(fifo') : i < jj => fifo'[i] < fifo'[jj]
      <3>1. \A i, jj \in 1 .. Len(fifo') : i < jj => i + d < jj + d
        OBVIOUS
      <3> QED BY <1>4, <3>1 DEF BridgeInv, InLine
    <2>4. /\ \A i \in 1 .. Len(rxpkt') : rxpkt'[i] \in 0 .. arrived'
          /\ \A i \in 1 .. Len(published') : published'[i] \in 1 .. arrived'
      BY <1>1, <1>5, <2>1 DEF BridgeInv, InLine
    \* The new packet comes behind all that were before the head of the FIFO.
    <2>5. \A e \in Nat : (\A kk \in 1 .. Len(fifo) : Before(e, fifo[kk]))
             => /\ x # 0 => e <= x /\ (e = x => e \in spoilt')
                /\ \A jj \in 1 .. Len(fifo') : e <= fifo'[jj] /\ (e = fifo'[jj] => e \in spoilt')
      <3> SUFFICES ASSUME NEW e \in Nat, \A kk \in 1 .. Len(fifo) : Before(e, fifo[kk])
                   PROVE  /\ x # 0 => e <= x /\ (e = x => e \in spoilt')
                          /\ \A jj \in 1 .. Len(fifo') :
                                e <= fifo'[jj] /\ (e = fifo'[jj] => e \in spoilt')
        OBVIOUS
      <3>1. \A kk \in 1 .. Len(fifo) : e <= fifo[kk] /\ (e = fifo[kk] => e \in spoilt')
        BY DEF Before
      <3>2. x # 0 => 1 \in 1 .. Len(fifo) /\ x = fifo[1]
        BY <1>1, <1>5
      <3> QED BY <1>4, <3>1, <3>2
    <2>6. x # 0 => \A jj \in 1 .. Len(fifo') : x <= fifo'[jj] /\ (x = fifo'[jj] => x \in spoilt')
      <3> SUFFICES ASSUME x # 0, NEW jj \in 1 .. Len(fifo')
                   PROVE  x <= fifo'[jj] /\ (x = fifo'[jj] => x \in spoilt')
        OBVIOUS
      <3>1. jj + d \in 1 .. Len(fifo) /\ fifo'[jj] = fifo[jj + d] /\ 1 \in 1 .. Len(fifo) /\ x = fifo[1]
            /\ fifo[jj + d] \in Nat /\ x \in 1 .. arrived
        <4>1. jj + d \in 1 .. Len(fifo) /\ fifo'[jj] = fifo[jj + d]
          BY <1>4
        <4>2. 1 \in 1 .. Len(fifo) /\ x = fifo[1] /\ x \in 1 .. arrived
          BY <1>1, <1>5
        <4> QED BY <1>1, <4>1, <4>2
      <3>2. CASE jj + d = 1
        BY <1>4, <3>1, <3>2
      <3>3. CASE 1 < jj + d
        BY <3>1, <3>3 DEF BridgeInv, InLine
      <3> QED BY <1>1, <3>1, <3>2, <3>3
    <2>7. \A i, jj \in 1 .. Len(rxpkt') :
             i < jj /\ rxpkt'[i] # 0 /\ rxpkt'[jj] # 0 => Before(rxpkt[i], rxpkt[jj])'
      <3> SUFFICES ASSUME NEW i \in 1 .. Len(rxpkt'), NEW jj \in 1 .. Len(rxpkt'),
                          i < jj, rxpkt'[i] # 0, rxpkt'[jj] # 0
                   PROVE  rxpkt'[i] <= rxpkt'[jj] /\ (rxpkt'[i] = rxpkt'[jj] => rxpkt'[i] \in spoilt')
        BY DEF Before
      <3>1. i \in 1 .. Len(rxpkt) /\ rxpkt'[i] = rxpkt[i] /\ rxpkt[i] \in Nat
        BY <1>1, <1>2, <2>1
      <3>2. CASE jj \in 1 .. Len(rxpkt) /\ rxpkt'[jj] = rxpkt[jj]
        BY <3>1, <3>2 DEF BridgeInv, InLine, Before
      <3>3. CASE rxpkt'[jj] = x
        <4>1. \A kk \in 1 .. Len(fifo) : Before(rxpkt[i], fifo[kk])
          BY <3>1 DEF BridgeInv, InLine
        <4> QED BY <2>5, <3>1, <3>3, <4>1
      <3> QED BY <2>1, <3>2, <3>3
    <2>8. \A i \in 1 .. Len(rxpkt'), jj \in 1 .. Len(fifo') :
             rxpkt'[i] # 0 => Before(rxpkt[i], fifo[jj])'
      <3> SUFFICES ASSUME NEW i \in 1 .. Len(rxpkt'), NEW jj \in 1 .. Len(fifo'), rxpkt'[i] # 0
                   PROVE  rxpkt'[i] <= fifo'[jj] /\ (rxpkt'[i] = fifo'[jj] => rxpkt'[i] \in spoilt')
        BY DEF Before
      <3>1. CASE i \in 1 .. Len(rxpkt) /\ rxpkt'[i] = rxpkt[i]
        <4>1. rxpkt[i] \in Nat /\ \A kk \in 1 .. Len(fifo) : Before(rxpkt[i], fifo[kk])
          BY <1>1, <3>1 DEF BridgeInv, InLine
        <4> QED BY <2>5, <3>1, <4>1
      <3>2. CASE rxpkt'[i] = x
        BY <2>6, <3>2
      <3> QED BY <2>1, <3>1, <3>2
    <2>9. /\ \A i, jj \in 1 .. Len(published') : i < jj => Before(published[i], published[jj])'
          /\ \A i \in 1 .. Len(published'), jj \in nb' + 1 .. Len(rxpkt') :
                 rxpkt'[jj] # 0 => Before(published[i], rxpkt[jj])'
          /\ \A i \in 1 .. Len(published'), jj \in 1 .. Len(fifo') : Before(published[i], fifo[jj])'
      <3>1. \A i \in 1 .. Len(published) :
               published[i] \in Nat /\ \A kk \in 1 .. Len(fifo) : Before(published[i], fifo[kk])
        BY DEF BridgeInv, InLine
      <3>2. \A i \in 1 .. Len(published), jj \in nb + 1 .. Len(rxpkt') :
               rxpkt'[jj] # 0 => Before(published[i], rxpkt[jj])'
        <4> SUFFICES ASSUME NEW i \in 1 .. Len(published), NEW jj \in nb + 1 .. Len(rxpkt'), rxpkt'[jj] # 0
                     PROVE  /\ published[i] <= rxpkt'[jj]
                            /\ published[i] = rxpkt'[jj] => published[i] \in spoilt'
          BY DEF Before
        <4>1. jj \in 1 .. Len(rxpkt')
          BY <1>1, <1>2
        <4>2. CASE jj \in 1 .. Len(rxpkt) /\ rxpkt'[jj] = rxpkt[jj]
          BY <1>1, <4>2 DEF BridgeInv, InLine, Before
        <4>3. CASE rxpkt'[jj] = x
          BY <2>5, <3>1, <4>3
        <4> QED BY <2>1, <4>1, <4>2, <4>3
      <3> QED BY <2>5, <3>1, <3>2 DEF BridgeInv, InLine, Before
    <2> QED BY <2>2, <2>3, <2>4, <2>7, <2>8, <2>9 DEF InLine
  <1> QED BY <1>6, <1>7, <1>8 DEF BridgeInv

\* The packet at hand is published: it comes behind all published before it and
\* before all that wait.
LEMMA PublishedKeeps ==
    ASSUME BridgeInv, main \in {"publishing", "again"}, main' = "handle", nb' = nb + 1,
           published' = Append(published, rxpkt[nb + 1]),
           UNCHANGED <<arrived, fifo, rxpkt, given, spoilt, radio>>
    PROVE  BridgeInv'
  <1> DEFINE x == rxpkt[nb + 1]
  <1>1. /\ rxpkt \in Seq(Nat) /\ fifo \in Seq(Nat) /\ published \in Seq(Nat)
        /\ Len(rxpkt) \in Nat /\ Len(fifo) \in Nat /\ Len(published) \in Nat
        /\ nb \in Nat /\ nb < Len(rxpkt) /\ arrived \in Nat
    BY DEF BridgeInv, BridgeShapes, BridgeStages
  <1>2. nb + 1 \in 1 .. Len(rxpkt) /\ x \in Nat /\ x # 0 /\ x \in 1 .. arrived
    BY <1>1 DEF BridgeInv, BridgeStages, InLine, Sensor
  <1>3. /\ published' \in Seq(Nat) /\ Len(published') = Len(published) + 1
        /\ published'[Len(published) + 1] = x
        /\ \A i \in 1 .. Len(published) : published'[i] = published[i]
    BY <1>1, <1>2, AppendedAt
  <1>4. BridgeShapes' /\ BridgeStages'
    BY <1>1, <1>3 DEF BridgeInv, BridgeShapes, BridgeStages
  <1>5. NoneLost'
    <2> SUFFICES ASSUME NEW p \in 1 .. arrived, Sensor(p), radio = "on"
                 PROVE  \/ \E i \in 1 .. Len(fifo) : fifo[i] = p
                        \/ \E i \in 1 .. Len(published') : published'[i] = p
                        \/ p \in given \/ p \in spoilt
                        \/ \E i \in nb' + 1 .. Len(rxpkt) : rxpkt[i] = p
      BY DEF NoneLost, Sensor
    <2>1. CASE \E i \in nb + 1 .. Len(rxpkt) : rxpkt[i] = p
      <3>1. PICK i \in nb + 1 .. Len(rxpkt) : rxpkt[i] = p
        BY <2>1
      <3>2. CASE i = nb + 1
        BY <1>1, <1>3, <3>1, <3>2
      <3>3. CASE i # nb + 1
        BY <1>1, <3>1, <3>3
      <3> QED BY <3>2, <3>3
    <2>2. CASE \E i \in 1 .. Len(published) : published[i] = p
      BY <1>1, <1>3, <2>2
    <2> QED BY <2>1, <2>2 DEF BridgeInv, NoneLost
  <1>6. InLine'
    <2>1. \A i \in 1 .. Len(published') :
             \/ i \in 1 .. Len(published) /\ published'[i] = published[i]
             \/ i = Len(published) + 1 /\ published'[i] = x
      <3> HIDE DEF x
      <3>1. \A i \in 1 .. Len(published) + 1 : i \in 1 .. Len(published) \/ i = Len(published) + 1
        <4>1. Len(published) \in Nat
          BY <1>1
        <4> QED BY <4>1
      <3>2. Len(published') = Len(published) + 1
        BY <1>3
      <3> QED BY <1>3, <3>1, <3>2
    <2>2. /\ \A i \in 1 .. Len(fifo') : fifo'[i] \in 1 .. arrived'
          /\ \A i \in 1 .. Len(rxpkt') : rxpkt'[i] \in 0 .. arrived'
          /\ \A i \in 1 .. Len(published') : published'[i] \in 1 .. arrived'
          /\ \A i, jj \in 1 .. Len(fifo') : i < jj => fifo'[i] < fifo'[jj]
      BY <1>2, <2>1 DEF BridgeInv, InLine
    <2>3. /\ \A jj \in 1 .. Len(fifo) : Before(x, fifo[jj])
          /\ \A jj \in nb + 2 .. Len(rxpkt) : rxpkt[jj] # 0 => Before(x, rxpkt[jj])
          /\ \A i \in 1 .. Len(published) : Before(published[i], x)
      <3>1. \A jj \in nb + 2 .. Len(rxpkt) : jj \in 1 .. Len(rxpkt) /\ nb + 1 < jj
        BY <1>1
      <3>2. nb + 1 \in nb + 1 .. Len(rxpkt)
        BY <1>1
      <3> QED BY <1>2, <3>1, <3>2 DEF BridgeInv, InLine
    <2>4. /\ \A i, jj \in 1 .. Len(rxpkt') :
                 i < jj /\ rxpkt'[i] # 0 /\ rxpkt'[jj] # 0 => Before(rxpkt[i], rxpkt[jj])'
          /\ \A i \in 1 .. Len(rxpkt'), jj \in 1 .. Len(fifo') :
                 rxpkt'[i] # 0 => Before(rxpkt[i], fifo[jj])'
      BY DEF BridgeInv, InLine, Before
    <2>5. \A i, jj \in 1 .. Len(published') : i < jj => Before(published[i], published[jj])'
      <3> SUFFICES ASSUME NEW i \in 1 .. Len(published'), NEW jj \in 1 .. Len(published'), i < jj
                   PROVE  /\ published'[i] <= published'[jj]
                          /\ published'[i] = published'[jj] => published'[i] \in spoilt
        BY DEF Before
      <3>1. i \in 1 .. Len(published) /\ published'[i] = published[i]
        BY <1>1, <1>3
      <3>2. CASE jj \in 1 .. Len(published) /\ published'[jj] = published[jj]
        BY <3>1, <3>2 DEF BridgeInv, InLine, Before
      <3>3. CASE published'[jj] = x
        BY <2>3, <3>1, <3>3 DEF Before
      <3> QED BY <2>1, <3>2, <3>3
    <2>6. \A i \in 1 .. Len(published'), jj \in nb' + 1 .. Len(rxpkt') :
             rxpkt'[jj] # 0 => Before(published[i], rxpkt[jj])'
      <3> SUFFICES ASSUME NEW i \in 1 .. Len(published'), NEW jj \in nb + 2 .. Len(rxpkt), rxpkt[jj] # 0
                   PROVE  /\ published'[i] <= rxpkt[jj]
                          /\ published'[i] = rxpkt[jj] => published'[i] \in spoilt
        BY <1>1 DEF Before
      <3>1. jj \in nb + 1 .. Len(rxpkt)
        BY <1>1
      <3> QED BY <2>1, <2>3, <3>1 DEF BridgeInv, InLine, Before
    <2>7. \A i \in 1 .. Len(published'), jj \in 1 .. Len(fifo') : Before(published[i], fifo[jj])'
      BY <2>1, <2>3 DEF BridgeInv, InLine, Before
    <2> QED BY <2>2, <2>4, <2>5, <2>6, <2>7 DEF InLine
  <1> QED BY <1>4, <1>5, <1>6 DEF BridgeInv

\* The packet at hand is none of a sensor, or it is given up.
LEMMA PassedKeeps ==
    ASSUME BridgeInv, nb < Len(rxpkt), main' = "handle", nb' = nb + 1, given \subseteq given',
           Sensor(rxpkt[nb + 1]) => rxpkt[nb + 1] \in given',
           UNCHANGED <<arrived, fifo, rxpkt, published, spoilt, radio>>
    PROVE  BridgeInv'
  <1>1. /\ rxpkt \in Seq(Nat) /\ Len(rxpkt) \in Nat /\ nb \in Nat
        /\ \A jj \in nb + 2 .. Len(rxpkt) : jj \in nb + 1 .. Len(rxpkt)
    BY DEF BridgeInv, BridgeShapes
  <1>2. BridgeShapes' /\ BridgeStages'
    BY <1>1 DEF BridgeInv, BridgeShapes, BridgeStages
  <1>3. NoneLost'
    <2> SUFFICES ASSUME NEW p \in 1 .. arrived, Sensor(p), radio = "on",
                        \E i \in nb + 1 .. Len(rxpkt) : rxpkt[i] = p
                 PROVE  p \in given' \/ \E i \in nb' + 1 .. Len(rxpkt) : rxpkt[i] = p
      BY DEF BridgeInv, NoneLost, Sensor
    <2>1. PICK i \in nb + 1 .. Len(rxpkt) : rxpkt[i] = p
      OBVIOUS
    <2>2. CASE i = nb + 1
      BY <2>1, <2>2
    <2>3. CASE i # nb + 1
      BY <1>1, <2>1, <2>3
    <2> QED BY <2>2, <2>3
  <1>4. InLine'
    <2>1. \A jj \in nb' + 1 .. Len(rxpkt) : jj \in nb + 1 .. Len(rxpkt)
      BY <1>1
    <2> QED BY <2>1 DEF BridgeInv, InLine, Before
  <1> QED BY <1>2, <1>3, <1>4 DEF BridgeInv

LEMMA RoundKeeps == ASSUME BridgeInv, Round PROVE BridgeInv'
  <1>1. /\ rxpkt' = <<>> /\ nb' = 0 /\ main' \in {"turn", "fetch"} /\ nb = Len(rxpkt)
        /\ UNCHANGED <<arrived, fifo, published, given, spoilt, radio>>
        /\ rxpkt \in Seq(Nat) /\ Len(rxpkt) \in Nat
    BY DEF BridgeInv, BridgeShapes, BridgeStages, Round, air, fate
  <1>2. \A e : e = <<>> => Len(e) = 0
    OBVIOUS
  <1>3. Len(rxpkt') = 0 /\ rxpkt' \in Seq(Nat) /\ nb' \in 0 .. Len(rxpkt')
    BY <1>1, <1>2
  <1>4. BridgeShapes' /\ BridgeStages'
    BY <1>1, <1>3 DEF BridgeInv, BridgeShapes, BridgeStages
  <1>5. NoneLost'
    <2>1. ~\E i \in nb + 1 .. Len(rxpkt) : TRUE
      BY <1>1
    <2> QED BY <1>1, <2>1 DEF BridgeInv, NoneLost, Sensor
  <1>6. InLine'
    BY <1>1, <1>3 DEF BridgeInv, InLine, Before
  <1> QED BY <1>4, <1>5, <1>6 DEF BridgeInv

\* The end of a start that failed: nothing has arrived yet.
LEMMA RestartKeeps == ASSUME BridgeInv, BridgeRestart PROVE BridgeInv'
  <1>1. /\ main = "failed" /\ main' = "starting" /\ radio' = "off" /\ fifo' = <<>>
        /\ UNCHANGED <<arrived, rxpkt, nb, published, given, spoilt>>
        /\ arrived = 0 /\ nb = Len(rxpkt)
    BY DEF BridgeInv, BridgeStages, BridgeRestart, reader, fate
  <1>2. \A e : e = <<>> => Len(e) = 0
    OBVIOUS
  <1>3. BridgeShapes' /\ BridgeStages'
    BY <1>1 DEF BridgeInv, BridgeShapes, BridgeStages
  <1>4. NoneLost'
    BY <1>1 DEF NoneLost
  <1>5. InLine'
    BY <1>1, <1>2 DEF BridgeInv, InLine, Before
  <1> QED BY <1>3, <1>4, <1>5 DEF BridgeInv

LEMMA BridgeStepKeeps == ASSUME BridgeInv, GNext PROVE BridgeInv'
  <1> USE DEF sigs, air, reader, sender, fate, env
  <1> DEFINE still == UNCHANGED <<arrived, fifo, rxpkt, nb, published, given, spoilt>>
  <1>1. CASE Started
    <2>1. still /\ BridgeShapes' /\ BridgeStages' /\ arrived = 0
      BY <1>1 DEF Started, BridgeInv, BridgeShapes, BridgeStages
    <2> QED BY <2>1, NothingMoves
  <1>2. CASE StartFails
    <2>1. still /\ BridgeShapes' /\ BridgeStages' /\ arrived = 0
      BY <1>2 DEF StartFails, BridgeInv, BridgeShapes, BridgeStages
    <2> QED BY <2>1, NothingMoves
  <1>3. CASE Terminate \/ Interrupt \/ Quit \/ Emit
    <2>1. still /\ UNCHANGED <<main, radio>>
      BY <1>3 DEF Terminate, Interrupt, Quit, Emit
    <2>2. BridgeShapes' /\ BridgeStages'
      BY <2>1 DEF BridgeInv, BridgeShapes, BridgeStages, Sensor
    <2> QED BY <2>1, <2>2, NothingMoves
  <1>4. CASE Leave
    <2>1. still /\ BridgeShapes' /\ BridgeStages' /\ (radio' = "on" => radio = "on")
      BY <1>4 DEF Leave, BridgeInv, BridgeShapes, BridgeStages
    <2> QED BY <2>1, NothingMoves
  <1>5. CASE NoTurn \/ SendTurn \/ Poll
    <2>1. still /\ radio' = radio /\ main \in {"turn", "poll"} /\ main' \in {"loop", "poll"}
      BY <1>5 DEF NoTurn, SendTurn, Poll
    <2>2. BridgeShapes' /\ BridgeStages'
      BY <2>1 DEF BridgeInv, BridgeShapes, BridgeStages
    <2> QED BY <2>1, <2>2, NothingMoves
  <1>6. CASE FetchNone
    <2>1. still /\ radio' = radio /\ main' = (IF rxpkt = <<>> THEN "turn" ELSE "handle")
      BY <1>6 DEF FetchNone
    <2>2. rxpkt = <<>> => Len(rxpkt) = 0
      OBVIOUS
    <2>3. BridgeShapes' /\ BridgeStages'
      BY <2>1, <2>2 DEF BridgeInv, BridgeShapes, BridgeStages
    <2> QED BY <2>1, <2>3, NothingMoves
  <1>7. CASE Publish
    <2>1. /\ still /\ radio' = radio /\ main' = "publishing" /\ nb # Len(rxpkt)
          /\ Sensor(rxpkt[nb + 1])
      BY <1>7 DEF Publish, Handled
    <2>2. BridgeShapes' /\ BridgeStages'
      BY <2>1 DEF BridgeInv, BridgeShapes, BridgeStages, Sensor
    <2> QED BY <2>1, <2>2, NothingMoves
  <1>8. CASE AllHandled
    <2>1. still /\ radio' = radio /\ main' = "turn" /\ nb = Len(rxpkt)
      BY <1>8 DEF AllHandled, Handled
    <2>2. BridgeShapes' /\ BridgeStages'
      BY <2>1 DEF BridgeInv, BridgeShapes, BridgeStages
    <2> QED BY <2>1, <2>2, NothingMoves
  <1>9. CASE Skip
    <2>1. /\ nb < Len(rxpkt) /\ main' = "handle" /\ nb' = nb + 1 /\ ~Sensor(rxpkt[nb + 1])
          /\ UNCHANGED <<arrived, fifo, rxpkt, published, spoilt, radio, given>>
      BY <1>9 DEF Skip, Handled, BridgeInv, BridgeShapes
    <2> QED BY <2>1, PassedKeeps
  <1>10. CASE PublishEnds
    <2>1. /\ main \in {"publishing", "again"} /\ nb < Len(rxpkt)
          /\ UNCHANGED <<arrived, fifo, rxpkt, spoilt, radio>>
      BY <1>10 DEF PublishEnds, BridgeInv, BridgeStages
    <2>2. CASE /\ published' = Append(published, rxpkt[nb + 1])
               /\ main' = "handle" /\ nb' = nb + 1 /\ UNCHANGED given
      BY <2>1, <2>2, PublishedKeeps
    <2>3. CASE UNCHANGED <<published, nb, given>> /\ main' = "again"
      <3>1. BridgeShapes' /\ BridgeStages'
        BY <2>1, <2>3 DEF BridgeInv, BridgeShapes, BridgeStages, Sensor
      <3> QED BY <2>1, <2>3, <3>1, NothingMoves
    <2>4. CASE /\ UNCHANGED published /\ main' = "handle" /\ nb' = nb + 1
               /\ given' = given \cup {rxpkt[nb + 1]}
      BY <2>1, <2>4, PassedKeeps
    <2> QED BY <1>10, <2>2, <2>3, <2>4 DEF PublishEnds
  <1>11. CASE Fetch \/ AdvanceFails
    <2>1. /\ fifo # <<>> /\ fifo \in Seq(Nat) /\ Head(fifo) = fifo[1] /\ fifo[1] \in Nat
          /\ main = "fetch" /\ rxpkt' = Append(rxpkt, fifo[1])
          /\ UNCHANGED <<main, arrived, nb, published, given, radio>>
      BY <1>11, TakenAt DEF Fetch, AdvanceFails, Fetches, BridgeInv, BridgeShapes
    <2>2. fifo[1] # 0
      <3>1. 1 \in 1 .. Len(fifo)
        BY <2>1, TakenAt
      <3> QED BY <3>1 DEF BridgeInv, InLine
    <2>3. \/ fifo' = Tail(fifo) /\ spoilt' = spoilt
          \/ fifo' = fifo /\ spoilt' = spoilt \cup {fifo[1]}
      BY <1>11, <2>1 DEF Fetch, AdvanceFails
    <2>4. spoilt \subseteq spoilt'
      BY <2>3
    <2> QED BY <2>1, <2>2, <2>3, <2>4, FetchingKeeps
  <1>12. CASE NumberFails \/ DataFails
    <2>1. main = "fetch" /\ UNCHANGED <<arrived, nb, published, given, radio>>
      BY <1>12 DEF NumberFails, DataFails, Fetches
    <2>2. CASE Garbage /\ UNCHANGED main
      <3>1. fifo \in Seq(Nat) /\ 0 \in Nat
        BY DEF BridgeInv, BridgeShapes
      <3>2. rxpkt' = Append(rxpkt, 0) /\ spoilt \subseteq spoilt'
        BY <2>2 DEF Garbage
      <3>3. CASE fifo = <<>>
        BY <2>1, <2>2, <3>1, <3>2, <3>3, FetchingKeeps DEF Garbage
      <3>4. CASE fifo # <<>>
        <4>1. fifo' = Tail(fifo) /\ fifo[1] \in spoilt'
          <5>1. 1 \in DOMAIN fifo \cap {1}
            BY <3>1, <3>4
          <5> QED BY <2>2, <3>4, <5>1 DEF Garbage
        <4> QED BY <2>1, <2>2, <3>1, <3>2, <3>4, <4>1, FetchingKeeps
      <3> QED BY <3>3, <3>4
    <2>3. CASE Breaks
      <3>1. still /\ radio' = radio /\ main' = (IF rxpkt = <<>> THEN "turn" ELSE "handle")
        BY <2>1, <2>3 DEF Breaks
      <3>2. rxpkt = <<>> => Len(rxpkt) = 0
        OBVIOUS
      <3>3. BridgeShapes' /\ BridgeStages'
        BY <3>1, <3>2 DEF BridgeInv, BridgeShapes, BridgeStages
      <3> QED BY <3>1, <3>3, NothingMoves
    <2> QED BY <1>12, <2>2, <2>3 DEF NumberFails, DataFails
  <1>13. CASE Arrives \/ Round \/ BridgeRestart
    BY <1>13, ArrivesKeeps, RoundKeeps, RestartKeeps
  <1> QED BY <1>1, <1>2, <1>3, <1>4, <1>5, <1>6, <1>7, <1>8, <1>9, <1>10, <1>11, <1>12, <1>13
          DEF GNext

\* Every reading is on its way, published once and in order, given up after two
\* failures of mosquitto_pub, or one that a full FIFO or a failed transfer is to
\* blame for: with a FIFO and a packet array of any size, for any packets, and
\* however many faults, signals and failed starts (lgw_receive, main).
THEOREM EveryReadingArrives == GSpec => []EveryReadingOnce
  <1>1. BridgeInv /\ UNCHANGED gwVars => BridgeInv'
    BY DEF gwVars, BridgeInv, BridgeShapes, BridgeStages, NoneLost, InLine, Sensor, Before
  <1>2. BridgeInv => EveryReadingOnce
    <2> SUFFICES ASSUME BridgeInv PROVE EveryReadingOnce
      OBVIOUS
    <2>1. NoneForgotten
      <3>1. /\ \A i \in 1 .. Len(fifo) : fifo[i] \in ToSet(fifo)
            /\ \A i \in 1 .. Len(published) : published[i] \in ToSet(published)
        BY DEF ToSet, BridgeInv, BridgeShapes
      <3> QED BY <3>1 DEF BridgeInv, NoneLost, NoneForgotten
    <2>2. PublishedInOrder
      BY DEF BridgeInv, InLine, Before, PublishedInOrder
    <2> QED BY <2>1, <2>2 DEF EveryReadingOnce
  <1> QED BY <1>1, <1>2, BridgeStarts, BridgeStepKeeps, PTL DEF GSpec

-----------------------------------------------------------------------------
(* Listen before talk.                                                     *)

LEMMA DivisionTheorem ==
    ASSUME NEW a \in Nat, NEW n \in Nat \ {0}
    PROVE  a \div n \in Nat /\ a % n \in 0 .. n - 1 /\ a = n * (a \div n) + (a % n)
  <1>1. a \div n \in Nat
    OBVIOUS
  <1>2. a % n \in 0 .. n - 1
    OBVIOUS
  <1>3. a = n * (a \div n) + (a % n)
    OBVIOUS
  <1> QED BY <1>1, <1>2, <1>3

\* A multiple of p by something that is not positive, positive, more than one.
LEMMA Multiples ==
    ASSUME NEW n \in Int, NEW p \in Nat
    PROVE  /\ n * p \in Int
           /\ n <= 0 => n * p <= 0
           /\ n >= 1 => n * p >= p
           /\ n >= 2 => n * p >= 2 * p
  OBVIOUS

\* Masking takes less than a granule off a time, and the periods it has run.
LEMMA MaskedTime ==
    ASSUME NEW t \in Nat
    PROVE  /\ Period \in Nat \ {0} /\ Granule \in Nat \ {0} /\ Granule <= Period
           /\ Masked(t) \in 0 .. Period - Granule
           /\ \E r \in 0 .. Granule - 1, q \in Nat : Masked(t) = t - r - q * Period
  <1>1. PICK kk \in Nat \ {0} : Period = kk * Granule /\ Granule \in Nat \ {0}
    <2>1. LET kk == Period \div Granule IN kk \in Nat /\ Period = Granule * kk + 0
      BY CounterAssumption, DivisionTheorem
    <2> DEFINE kk == Period \div Granule
    <2>2. kk \in Nat /\ Period = Granule * kk + 0
      BY <2>1
    <2> HIDE DEF kk
    <2>3. Granule \in Nat \ {0} /\ Period \in Nat \ {0}
      BY CounterAssumption
    <2>4. kk * Granule = Granule * kk
      BY <2>2, <2>3
    <2>5. Period = kk * Granule
      BY <2>2, <2>3, <2>4
    <2>6. kk # 0
      <3>1. ASSUME kk = 0 PROVE FALSE
        <4>1. Period = 0
          BY <2>3, <2>5, <3>1
        <4> QED BY <2>3, <4>1
      <3> QED BY <3>1
    <2> QED BY <2>2, <2>3, <2>5, <2>6
  <1>2. Period \in Nat \ {0} /\ Granule <= Period
    BY <1>1
  <1> DEFINE m == t % Period
             jj == m \div Granule
             r == m % Granule
             q == t \div Period
  <1>3. m \in 0 .. Period - 1 /\ q \in Nat /\ t = Period * q + m
    BY <1>2, DivisionTheorem
  <1>4. jj \in Nat /\ r \in 0 .. Granule - 1 /\ m = Granule * jj + r
    <2>1. m \in Nat
      BY <1>2, <1>3
    <2> HIDE DEF m
    <2> QED BY <1>1, <2>1, DivisionTheorem
  <1>5. Masked(t) = jj * Granule
    BY DEF Masked
  <1> HIDE DEF m, jj, r, q
  <1>6. jj * Granule = t - r - q * Period
    BY <1>1, <1>2, <1>3, <1>4
  <1>7. jj * Granule <= kk * Granule - Granule
    <2>1. jj * Granule < kk * Granule
      BY <1>1, <1>2, <1>3, <1>4
    <2>2. jj < kk
      BY <1>1, <1>4, <2>1
    <2> QED BY <1>1, <1>4, <2>2
  <1>8. jj * Granule \in 0 .. Period - Granule
    BY <1>1, <1>4, <1>7
  <1> QED BY <1>1, <1>2, <1>3, <1>4, <1>5, <1>6, <1>8

\* The difference that is compared with the limit is at most three granules short
\* of the true one, over the wrap of the counter or not.
LEMMA DeltaIsNear ==
    ASSUME NEW f \in Nat, NEW t \in Nat, NEW d \in Nat,
           f <= t, t + d - f <= Period
    PROVE  LET delta == Delta(f % Period, Masked(Masked(t) + d))
           IN  delta \in Int /\ t + d - f <= delta + 3 * Granule - 1
  <1>1. /\ Period \in Nat \ {0} /\ Granule \in Nat \ {0} /\ Granule <= Period
        /\ Masked(t) \in 0 .. Period - Granule
    BY MaskedTime
  <1>2. PICK r1 \in 0 .. Granule - 1, q1 \in Nat : Masked(t) = t - r1 - q1 * Period
    BY MaskedTime
  <1>3. Masked(t) + d \in Nat
    BY <1>1
  <1>4. /\ Masked(Masked(t) + d) \in 0 .. Period - Granule
        /\ \E r \in 0 .. Granule - 1, q \in Nat :
              Masked(Masked(t) + d) = (Masked(t) + d) - r - q * Period
    <2>1. \A u \in Nat : /\ Masked(u) \in 0 .. Period - Granule
                        /\ \E r \in 0 .. Granule - 1, q \in Nat : Masked(u) = u - r - q * Period
      BY MaskedTime
    <2> QED BY <1>3, <2>1
  <1>5. PICK r2 \in 0 .. Granule - 1, q2 \in Nat :
           Masked(Masked(t) + d) = (Masked(t) + d) - r2 - q2 * Period
    BY <1>4
  <1> DEFINE end  == Masked(Masked(t) + d)
             free == f % Period
             q3   == f \div Period
  <1>6. free \in 0 .. Period - 1 /\ q3 \in Nat /\ f = Period * q3 + free
    BY <1>1, DivisionTheorem
  <1> DEFINE n == q1 + q2 - q3
             x == t + d - r1 - r2 - f
             delta == Delta(free, end)
  <1>7. delta = IF free < end THEN end - free ELSE (Period - Granule - free) + end
    BY DEF Delta, Mask
  <1> HIDE DEF end, free, q3, delta
  <1> DEFINE w == n * Period
  <1>8. n \in Int /\ x \in Int /\ w \in Int /\ end - free = x - w /\ x <= Period
    <2> DEFINE w1 == q1 * Period
               w2 == q2 * Period
               w3 == q3 * Period
    <2>1. w1 \in Int /\ w2 \in Int /\ w3 \in Int /\ w = w1 + w2 - w3 /\ Period * q3 = w3
      BY <1>1, <1>2, <1>5, <1>6
    <2>2. Masked(t) = t - r1 - w1 /\ end = Masked(t) + d - r2 - w2 /\ f = w3 + free
      BY <1>2, <1>5, <1>6, <2>1 DEF end
    <2> HIDE DEF w, w1, w2, w3
    <2> QED BY <1>1, <1>2, <1>4, <1>5, <1>6, <2>1, <2>2
  <1>9. t + d - f <= x + 2 * Granule - 2
    BY <1>1, <1>2, <1>5
  <1>10. /\ n <= 0 => w <= 0
         /\ n >= 1 => w >= Period
         /\ n >= 2 => w >= 2 * Period
         /\ n = 1 => w = Period
    <2> HIDE DEF n
    <2> QED BY <1>1, <1>8, Multiples
  <1> HIDE DEF n, x, w
  <1>11. end \in 0 .. Period - Granule
    BY <1>4 DEF end
  <1>12. CASE free < end
    <2>1. n <= 0
      BY <1>1, <1>6, <1>8, <1>10, <1>11, <1>12
    <2>2. delta = end - free
      BY <1>7, <1>12
    <2> QED BY <1>1, <1>6, <1>8, <1>9, <1>10, <1>11, <2>1, <2>2 DEF delta, end, free
  <1>13. CASE ~(free < end)
    <2>1. delta = (Period - Granule - free) + end
      BY <1>7, <1>13
    <2>2. n <= 1
      BY <1>1, <1>6, <1>8, <1>10, <1>11, <1>13
    <2>3. n <= 0 \/ n = 1
      BY <1>8, <2>2
    <2>4. x <= delta + Granule
      BY <1>1, <1>6, <1>8, <1>10, <1>11, <2>1, <2>3
    <2> QED BY <1>1, <1>6, <1>8, <1>9, <1>11, <2>1, <2>4 DEF delta, end, free
  <1> QED BY <1>12, <1>13

\* The stamps are those of the last busy stretch, and a grant keeps what is to be
\* shown of it.
LbtInv ==
    /\ now \in Nat /\ lastFree \in [Active -> Nat]
    /\ \A c \in Active : lastFree[c] <= now /\ now - lastFree[c] <= MaxBusy
    /\ stage = "running" => \A c \in Active : Channels[c].scan \in {128, 5000}
    /\ AllowedMeansRecentlyFree

LEMMA OfOne == ASSUME NEW e \in Int PROVE Min({e}) = e
  BY DEF Min

\* A packet of one channel that is allowed.
LEMMA GrantIsRecent ==
    ASSUME LbtInv, NEW c \in Active, NEW d \in Durations,
           NEW mode \in {"TIMESTAMPED", "ON_GPS"}, NEW start \in now .. now + Horizon,
           Ask({c}, mode, start, d)
    PROVE  start + d - lastFree[c] < Limit({c}) + 3 * Granule - Margin
  <1> DEFINE f    == lastFree[c]
             seen == StartSeen(mode, start)
             delta == Delta(f % Period, Masked(Masked(seen) + d))
  <1>1. /\ f \in Nat /\ now \in Nat /\ f <= now /\ now - f <= MaxBusy
        /\ stage = "running"
    BY DEF LbtInv, Ask
  <1>2. /\ d \in Nat /\ Delay \in Nat /\ Horizon \in Nat /\ MaxBusy \in Nat /\ Second \in Nat \ {0}
        /\ MaxBusy + Horizon + Delay + d <= Period
    BY TimeAssumption
  <1>3. Granule \in Nat \ {0} /\ Period \in Nat \ {0} /\ Margin \in Int
    <2>1. Granule \in Nat \ {0} /\ Period \in Nat \ {0}
      BY CounterAssumption
    <2> QED BY <2>1 DEF Margin
  <1>4. seen \in Nat /\ start <= seen /\ seen <= start + Delay
    <2>1. CASE mode = "TIMESTAMPED"
      BY <1>1, <1>2, <2>1 DEF StartSeen
    <2>2. CASE mode = "ON_GPS"
      <3>1. (now \div Second) * Second \in Nat
        <4>1. now \div Second \in Nat
          BY <1>1, <1>2, DivisionTheorem
        <4> QED BY <1>2, <4>1
      <3>2. start = (now \div Second) * Second + Second
        BY <2>2 DEF Ask
      <3>3. seen = (now \div Second) * Second + Delay + Second
        BY <2>2 DEF StartSeen
      <3> HIDE DEF seen
      <3> QED BY <1>1, <1>2, <3>1, <3>2, <3>3
    <2> QED BY <2>1, <2>2
  <1>5. Limit({c}) \in Nat
    <2>1. Min({c}) = c
      BY OfOne DEF Active
    <2>2. Channels[c].scan \in {128, 5000}
      BY <1>1 DEF LbtInv
    <2>3. Limit({c}) = Longest[Channels[c].scan]
      BY <2>1 DEF Limit
    <2>4. \A s \in {128, 5000} : Longest[s] \in Nat
      BY TableAssumption
    <2> QED BY <2>2, <2>3, <2>4
  <1>6. delta < Limit({c}) - Margin
    <2>1. {Stamp(e) : e \in {c}} = {Stamp(c)} /\ Stamp(c) = f % Period /\ Stamp(c) \in Int
      BY <1>1, <1>3 DEF Stamp
    <2>2. Oldest({c}) = f % Period
      BY <2>1, OfOne DEF Oldest
    <2>3. Allowed({c}, Limit({c}), seen, d)
      BY DEF Ask
    <2> HIDE DEF f, seen
    <2> QED BY <2>2, <2>3 DEF Allowed
  <1>7. delta \in Int /\ seen + d - f <= delta + 3 * Granule - 1
    <2>1. f <= seen /\ seen + d - f <= Period
      BY <1>1, <1>2, <1>3, <1>4
    <2> HIDE DEF f, seen
    <2> QED BY <1>1, <1>2, <1>4, <2>1, DeltaIsNear
  <1> HIDE DEF delta, seen
  <1> QED BY <1>1, <1>2, <1>3, <1>4, <1>5, <1>6, <1>7

LEMMA LbtStepKeeps == ASSUME LbtInv, LbtNext PROVE LbtInv'
  <1>1. CASE Setup
    BY <1>1 DEF Setup, LbtInv, AllowedMeansRecentlyFree
  <1>2. CASE Scan
    <2>1. now \in Nat /\ now' = now + 1 /\ stage' = stage /\ granted' = NoGrant /\ MaxBusy \in Nat
      BY <1>2, TimeAssumption DEF Scan, LbtInv
    <2>2. PICK free \in SUBSET Active :
             /\ \A c \in Active \ free : now' - lastFree[c] <= MaxBusy
             /\ lastFree' = [c \in Active |-> IF c \in free THEN now' ELSE lastFree[c]]
      BY <1>2 DEF Scan
    <2>3. /\ lastFree' \in [Active -> Nat]
          /\ \A c \in Active : lastFree'[c] <= now' /\ now' - lastFree'[c] <= MaxBusy
      BY <2>1, <2>2 DEF LbtInv
    <2>4. AllowedMeansRecentlyFree'
      BY <2>1 DEF AllowedMeansRecentlyFree, NoGrant
    <2> QED BY <2>1, <2>3, <2>4 DEF LbtInv
  <1>3. ASSUME NEW chans \in SUBSET Active, NEW mode \in {"TIMESTAMPED", "ON_GPS"},
               NEW start \in now .. now + Horizon, NEW d \in Durations,
               Ask(chans, mode, start, d)
        PROVE  LbtInv'
    <2>1. /\ UNCHANGED <<stage, now, lastFree>>
          /\ granted' = [chans |-> chans, limit |-> Limit(chans), end |-> start + d]
      BY <1>3 DEF Ask
    <2>2. AllowedMeansRecentlyFree'
      <3>1. /\ granted'.chans = chans /\ granted'.limit = Limit(chans)
            /\ granted'.end = start + d /\ lastFree' = lastFree
        BY <2>1
      <3>2. ASSUME NEW c \in Active, granted'.chans = {c}
            PROVE  granted'.end - lastFree'[c] < granted'.limit + 3 * Granule - Margin
        <4>1. chans = {c}
          BY <3>1, <3>2
        <4>2. Ask({c}, mode, start, d)
          BY <1>3, <4>1, Zenon
        <4>3. start + d - lastFree[c] < Limit({c}) + 3 * Granule - Margin
          BY <4>2, GrantIsRecent
        <4>4. granted'.limit = Limit({c})
          BY <3>1, <4>1, Zenon
        <4>5. granted'.end - lastFree'[c] = start + d - lastFree[c]
          <5>1. start \in Int /\ d \in Nat /\ lastFree[c] \in Nat
            BY TimeAssumption DEF LbtInv
          <5> QED BY <3>1, <5>1
        <4> QED BY <4>3, <4>4, <4>5
      <3> QED BY <3>2 DEF AllowedMeansRecentlyFree
    <2> QED BY <2>1, <2>2 DEF LbtInv
  <1> QED BY <1>1, <1>2, <1>3 DEF LbtNext

\* A packet of one channel that lbt_is_channel_free lets go ends before the limit
\* counted from when its channel was last found free, to the precision of the
\* masks: for any table of channels, granule and period of the counter, however
\* often the counter has wrapped, as long as what is asked for lies within one
\* period of the last scan.
THEOREM GrantsAreRecent == LbtSpec => []AllowedMeansRecentlyFree
  <1>1. LbtInit => LbtInv
    <2> SUFFICES ASSUME LbtInit PROVE LbtInv
      OBVIOUS
    <2>1. AllowedMeansRecentlyFree
      BY DEF LbtInit, AllowedMeansRecentlyFree, NoGrant
    <2> QED BY <2>1, TimeAssumption DEF LbtInit, LbtInv
  <1>2. LbtInv /\ UNCHANGED lbtVars => LbtInv'
    BY DEF lbtVars, LbtInv, AllowedMeansRecentlyFree
  <1>3. LbtInv => AllowedMeansRecentlyFree
    BY DEF LbtInv
  <1> QED BY <1>1, <1>2, <1>3, LbtStepKeeps, PTL DEF LbtSpec

-----------------------------------------------------------------------------
(* StartedAsConfigured of LoraHal.  The handshake has no sequence numbers: *)
(* the host knows only the status.  The invariant says how far the         *)
(* controller is behind the host.  It is at most one value behind, and a   *)
(* check finds that out from the status, except after a table of one       *)
(* entry: the status of its entry is also the one of the value that ends   *)
(* the table (48).  The next check does.                                   *)

\* The transactions that hand over the table.
Entries == IF size < LutMax THEN size + 1 ELSE size

\* What transaction jj hands over, and the status it must find.
Handed(jj) ==
    CASE jj <= size                 -> Loaded(lut[jj])
      [] jj > size /\ jj <= Entries  -> AGC_CMD_ABORT
      [] jj = Entries + 1           -> 3
      [] jj = Entries + 2           -> 0
      [] jj = Entries + 3           -> conf.map

Answer(jj) ==
    CASE jj = 0                     -> 16
      [] jj > 0 /\ jj <= size        -> 47 + jj
      [] jj > size /\ jj <= Entries  -> 48
      [] jj = Entries + 1           -> 51
      [] jj = Entries + 2           -> 48
      [] jj = Entries + 3           -> 64

\* The controller has taken the values of the first jj transactions.
Taken(jj) ==
    /\ agc.status = Answer(jj)
    /\ jj < Entries  => agc.stage = "table" /\ Len(agc.table) = jj
    /\ jj >= Entries => Len(agc.table) = size
    /\ \A i \in 1 .. Len(agc.table) : agc.table[i] = Loaded(lut[i])
    /\ jj = Entries     => agc.stage = "msb"
    /\ jj = Entries + 1 => agc.stage = "chan"
    /\ jj = Entries + 2 => agc.stage = "end"
    /\ jj = Entries + 3 => agc.stage = "run" /\ agc.map = conf.map
    /\ jj > Entries     => agc.msb = 3

\* It may have missed the value that ends a table of one entry.
Missed == size = 1 /\ k = 3 /\ Taken(1) /\ cuts > 0

-----------------------------------------------------------------------------
HostTypes ==
    /\ started \in BOOLEAN /\ same \in BOOLEAN
    /\ conf \in [freq : {0, 1}, map : Int]
    /\ size \in 1 .. LutMax
    /\ DOMAIN lut = 1 .. LutMax
    /\ \A i \in 1 .. LutMax :
          Loaded(lut[i]) \in Int /\ Loaded(lut[i]) \notin {AGC_CMD_WAIT, AGC_CMD_ABORT}
    /\ cuts \in Nat

AgcRecords ==
    [stage : {"off", "boot", "table", "msb", "chan", "end", "run"},
     armed : BOOLEAN,
     select : Int, status : Int, table : Seq(Int), msb : Int, map : Int]

AgcTypes == agc \in AgcRecords

InHandshake == at \in {"announce", "announced", "handed"}

HostStages ==
    /\ at \in {"idle", "locking", "calibrating", "loading", "booting", "announce", "announced", "handed"}
    /\ at # "idle" => ~same
    /\ at = "booting" \/ InHandshake => chip = conf
    /\ at = "loading" => chip = conf
    /\ at = "booting" => k = 1
    /\ InHandshake => k \in 1 .. Entries + 3

Booting ==
    at = "booting" =>
        /\ agc.stage \in {"boot", "table"} /\ ~agc.armed /\ agc.select = 0
        /\ agc.table = <<>> /\ agc.status = IF agc.stage = "boot" THEN 0 ELSE 16

Announcing ==
    at = "announce" =>
        \/ Taken(k - 1) /\ ~agc.armed /\ agc.select # AGC_CMD_WAIT
        \/ Missed /\ agc.select = AGC_CMD_ABORT

Announced ==
    at = "announced" => agc.select = AGC_CMD_WAIT /\ (Taken(k - 1) \/ Missed)

HandedOver ==
    at = "handed" =>
        /\ agc.select = Handed(k)
        /\ \/ Taken(k - 1) /\ (cuts = 0 => agc.armed)
           \/ Taken(k) /\ ~agc.armed
           \/ Missed
           \/ size = 1 /\ k = 3 /\ cuts > 0 /\ agc.status = 49 /\ ~agc.armed
              /\ agc.stage \in {"table", "msb"}

Configured ==
    started /\ same /\ at = "idle" =>
        /\ chip = conf /\ agc.stage = "run" /\ agc.msb = 3 /\ agc.map = conf.map
        /\ agc.table = [i \in 1 .. size |-> Loaded(lut[i])]

HalInv ==
    /\ HostTypes /\ AgcTypes /\ HostStages
    /\ Booting /\ Announcing /\ Announced /\ HandedOver /\ Configured

-----------------------------------------------------------------------------
(* The script. *)

LEMMA ScriptIs ==
    ASSUME HostTypes
    PROVE  /\ Len(Script) = Entries + 3
           /\ \A jj \in 1 .. Entries + 3 : Script[jj][1] = Handed(jj) /\ Script[jj][2] = Answer(jj)
<1> DEFINE table == [i \in 1 .. size |-> <<Loaded(lut[i]), 48 + i - 1>>]
           stop  == IF size < LutMax THEN << <<AGC_CMD_ABORT, 48>> >> ELSE <<>>
           rest  == << <<3, 51>>, <<0, 48>>, <<conf.map, 64>> >>
           all   == Int \X Int
<1>0. /\ size \in Nat /\ size >= 1 /\ size <= LutMax /\ LutMax \in Nat
      /\ \A i \in 1 .. LutMax : Loaded(lut[i]) \in Int
      /\ conf.map \in Int
  BY HalAssumption DEF HostTypes
<1>1. table \in Seq(all) /\ Len(table) = size
  <2>1. \A i \in 1 .. size : <<Loaded(lut[i]), 48 + i - 1>> \in all
    BY <1>0
  <2>2. table \in [1 .. size -> all]
    BY <2>1
  <2> HIDE DEF table, all
  <2>3. QED
    BY <2>2, <1>0, LenProperties
<1>2. stop \in Seq(all) /\ Len(stop) = Entries - size /\ (size < LutMax => stop[1] = <<AGC_CMD_ABORT, 48>>)
  <2>1. CASE size < LutMax
    BY <2>1, <1>0 DEF Entries, AGC_CMD_ABORT
  <2>2. CASE ~(size < LutMax)
    BY <2>2, <1>0 DEF Entries
  <2>3. QED
    BY <2>1, <2>2
<1>3. rest \in Seq(all) /\ Len(rest) = 3 /\ rest[1] = <<3, 51>> /\ rest[2] = <<0, 48>> /\ rest[3] = <<conf.map, 64>>
  BY <1>0
<1>4. \A i \in 1 .. size : table[i] = <<Loaded(lut[i]), 48 + i - 1>>
  OBVIOUS
<1>5. Script = table \o stop \o rest
  BY DEF Script
<1>6. Entries \in Nat /\ (Entries = size \/ Entries = size + 1) /\ (Entries > size <=> size < LutMax)
  BY <1>0 DEF Entries
<1> HIDE DEF table, stop, rest, all
<1>7. /\ table \o stop \in Seq(all) /\ Len(table \o stop) = Entries
      /\ \A i \in 1 .. Entries : (table \o stop)[i] = IF i <= size THEN table[i] ELSE stop[i - size]
  BY <1>1, <1>2, <1>6, ConcatProperties
<1> DEFINE front == table \o stop
<1> HIDE DEF front
<1>7a. /\ front \in Seq(all) /\ Len(front) = Entries /\ Script = front \o rest
      /\ \A i \in 1 .. Entries : front[i] = IF i <= size THEN table[i] ELSE stop[i - size]
  BY <1>5, <1>7 DEF front
<1>8. /\ Len(Script) = Entries + 3
      /\ \A i \in 1 .. Entries + 3 :
            Script[i] = IF i <= Entries THEN front[i] ELSE rest[i - Entries]
  <2>1. Len(Script) = Len(front) + Len(rest)
    BY <1>3, <1>7a, ConcatProperties
  <2>2. \A i \in 1 .. Len(front) + Len(rest) :
            Script[i] = IF i <= Len(front) THEN front[i] ELSE rest[i - Len(front)]
    BY <1>3, <1>7a, ConcatProperties
  <2>3. QED
    BY <2>1, <2>2, <1>3, <1>7a
<1>9. ASSUME NEW jj \in 1 .. Entries + 3
      PROVE  Script[jj] = <<Handed(jj), Answer(jj)>>
  <2>1. CASE jj <= size
    <3>1. Script[jj] = <<Loaded(lut[jj]), 48 + jj - 1>>
      <4>1. jj \in 1 .. Entries /\ jj \in 1 .. Entries + 3 /\ jj \in 1 .. size /\ jj <= Entries
        BY <2>1, <1>0, <1>6
      <4>2. Script[jj] = front[jj] /\ front[jj] = table[jj]
        BY <4>1, <2>1, <1>7a, <1>8
      <4>3. QED
        BY <4>1, <4>2, <1>4
    <3>2. QED
      BY <3>1, <2>1, <1>0, <1>6 DEF Handed, Answer
  <2>2. CASE jj > size /\ jj <= Entries
    <3>1. jj = size + 1 /\ jj - size = 1 /\ size < LutMax /\ jj \in 1 .. Entries /\ ~(jj <= size)
      BY <2>2, <1>0, <1>6
    <3>2. front[jj] = stop[1]
      BY <3>1, <1>7a
    <3>3. Script[jj] = stop[1] /\ size < LutMax
      BY <3>1, <3>2, <1>6, <1>8
    <3>4. Handed(jj) = AGC_CMD_ABORT /\ Answer(jj) = 48
      BY <3>1, <1>6, <1>0 DEF Handed, Answer
    <3>5. QED
      BY <3>3, <3>4, <1>2
  <2>3. CASE jj > Entries
    <3>1. Script[jj] = rest[jj - Entries] /\ jj - Entries \in {1, 2, 3}
      BY <2>3, <1>6, <1>8
    <3>2. CASE jj = Entries + 1
      <4>1. Handed(jj) = 3 /\ Answer(jj) = 51
        BY <3>2, <1>0, <1>6 DEF Handed, Answer
      <4>2. Script[jj] = rest[1]
        BY <3>1, <3>2, <1>6
      <4>3. QED
        BY <4>1, <4>2, <1>3
    <3>3. CASE jj = Entries + 2
      BY <3>1, <3>3, <1>3, <1>0, <1>6 DEF Handed, Answer
    <3>4. CASE jj = Entries + 3
      BY <3>1, <3>4, <1>3, <1>0, <1>6 DEF Handed, Answer
    <3>5. QED
      BY <3>2, <3>3, <3>4, <2>3, <1>6
  <2>4. QED
    BY <2>1, <2>2, <2>3, <1>0, <1>6
<1>10. QED
  BY <1>8, <1>9

\* Only the last value can be the one that announces the next.
LEMMA NeverAWait ==
    ASSUME HostTypes, NEW jj \in 1 .. Entries + 2
    PROVE  Handed(jj) # AGC_CMD_WAIT
<1>1. /\ size \in Nat /\ size >= 1 /\ size <= LutMax /\ LutMax \in Nat
      /\ \A i \in 1 .. LutMax : Loaded(lut[i]) \in Int /\ Loaded(lut[i]) # AGC_CMD_WAIT
  BY HalAssumption DEF HostTypes
<1>2. QED
  BY <1>1 DEF Handed, Entries, AGC_CMD_WAIT, AGC_CMD_ABORT

LEMMA EntryIsNoCommand ==
    ASSUME HostTypes, NEW jj \in 1 .. size
    PROVE  /\ Handed(jj) = Loaded(lut[jj]) /\ Handed(jj) \in Int
           /\ Handed(jj) # AGC_CMD_WAIT /\ Handed(jj) # AGC_CMD_ABORT
<1>1. /\ size \in Nat /\ size >= 1 /\ size <= LutMax /\ LutMax \in Nat
      /\ \A i \in 1 .. LutMax :
            Loaded(lut[i]) \in Int /\ Loaded(lut[i]) # AGC_CMD_WAIT /\ Loaded(lut[i]) # AGC_CMD_ABORT
  BY HalAssumption DEF HostTypes
<1>2. jj \in 1 .. LutMax /\ jj <= size
  BY <1>1
<1>3. Handed(jj) = Loaded(lut[jj])
  BY <1>1, <1>2 DEF Handed, Entries
<1>4. QED
  BY <1>1, <1>2, <1>3

\* Consecutive answers differ, so a status tells whether a value was taken;
\* not so after a table of one entry.
LEMMA AnswersDiffer ==
    ASSUME HostTypes, NEW jj \in 1 .. Entries + 3, Answer(jj - 1) = Answer(jj)
    PROVE  size = 1 /\ jj = 2 /\ Entries = 2
<1>1. size \in Nat /\ size >= 1 /\ size <= LutMax /\ LutMax \in Nat /\ LutMax # 4 /\ LutMax > 1
  BY HalAssumption DEF HostTypes
<1>2. QED
  BY <1>1 DEF Answer, Entries

-----------------------------------------------------------------------------
(* The controller. *)

LEMMA TakenStays ==
    ASSUME NEW jj, Taken(jj), UNCHANGED <<size, lut, conf>>,
           agc'.stage = agc.stage, agc'.status = agc.status, agc'.table = agc.table,
           agc'.msb = agc.msb, agc'.map = agc.map
    PROVE  Taken(jj)'
<1>1. Entries' = Entries
  BY DEF Entries
<1>2. Answer(jj)' = Answer(jj)
  BY <1>1 DEF Answer
<1>3. QED
  BY <1>1, <1>2 DEF Taken

LEMMA TakesType ==
    ASSUME AgcTypes, NEW v \in Int, agc.stage \notin {"off", "boot", "run"}, LutMax \in Nat
    PROVE  /\ Takes(v) \in AgcRecords
           /\ Takes(v).armed = FALSE /\ Takes(v).select = agc.select
           /\ Takes(v).stage \in {"table", "msb", "chan", "end", "run"}
<1>1. agc.table \in Seq(Int) /\ agc.stage \in {"table", "msb", "chan", "end"} /\ Len(agc.table) \in Nat
  BY DEF AgcTypes, AgcRecords
<1>2. Append(agc.table, v) \in Seq(Int)
  BY <1>1
<1>3. CASE agc.stage = "table" /\ v = AGC_CMD_ABORT
  <2> DEFINE n == 48
  <2>1. Takes(v) = [agc EXCEPT !.armed = FALSE, !.stage = "msb", !.status = n]
    BY <1>3 DEF Takes
  <2>0. n \in Int
    OBVIOUS
  <2> HIDE DEF n
  <2>2. Takes(v) \in AgcRecords
    BY <1>1, <2>0, <2>1 DEF AgcTypes, AgcRecords
  <2>3. Takes(v).armed = FALSE
    BY <2>1 DEF AgcTypes, AgcRecords
  <2>4. Takes(v).select = agc.select
    BY <2>1 DEF AgcTypes, AgcRecords
  <2>5. Takes(v).stage \in {"table", "msb", "chan", "end", "run"}
    BY <2>1 DEF AgcTypes, AgcRecords
  <2>6. QED
    BY <2>2, <2>3, <2>4, <2>5
<1>4. CASE agc.stage = "table" /\ v # AGC_CMD_ABORT
  <2>1. Takes(v) = [agc EXCEPT !.armed = FALSE, !.table = Append(@, v), !.status = 48 + Len(agc.table),
                         !.stage = IF Len(agc.table) + 1 = LutMax THEN "msb" ELSE "table"]
    BY <1>4 DEF Takes
  <2>2. 48 + Len(agc.table) \in Int
    BY <1>1
  <2>3. QED
    BY <1>1, <1>2, <2>1, <2>2 DEF AgcTypes, AgcRecords
<1>5. CASE agc.stage = "msb"
  <2> DEFINE n == 48 + v
  <2>1. Takes(v) = [agc EXCEPT !.armed = FALSE, !.stage = "chan", !.msb = v, !.status = n]
    BY <1>5 DEF Takes
  <2>0. n \in Int
    OBVIOUS
  <2> HIDE DEF n
  <2>2. Takes(v) \in AgcRecords
    BY <1>1, <2>0, <2>1 DEF AgcTypes, AgcRecords
  <2>3. Takes(v).armed = FALSE
    BY <2>1 DEF AgcTypes, AgcRecords
  <2>4. Takes(v).select = agc.select
    BY <2>1 DEF AgcTypes, AgcRecords
  <2>5. Takes(v).stage \in {"table", "msb", "chan", "end", "run"}
    BY <2>1 DEF AgcTypes, AgcRecords
  <2>6. QED
    BY <2>2, <2>3, <2>4, <2>5
<1>6. CASE agc.stage = "chan"
  <2> DEFINE n == 48 + v
  <2>1. Takes(v) = [agc EXCEPT !.armed = FALSE, !.stage = "end", !.status = n]
    BY <1>6 DEF Takes
  <2>0. n \in Int
    OBVIOUS
  <2> HIDE DEF n
  <2>2. Takes(v) \in AgcRecords
    BY <1>1, <2>0, <2>1 DEF AgcTypes, AgcRecords
  <2>3. Takes(v).armed = FALSE
    BY <2>1 DEF AgcTypes, AgcRecords
  <2>4. Takes(v).select = agc.select
    BY <2>1 DEF AgcTypes, AgcRecords
  <2>5. Takes(v).stage \in {"table", "msb", "chan", "end", "run"}
    BY <2>1 DEF AgcTypes, AgcRecords
  <2>6. QED
    BY <2>2, <2>3, <2>4, <2>5
<1>7. CASE agc.stage = "end"
  <2> DEFINE n == 64
  <2>1. Takes(v) = [agc EXCEPT !.armed = FALSE, !.stage = "run", !.map = v, !.status = n]
    BY <1>7 DEF Takes
  <2>0. n \in Int
    OBVIOUS
  <2> HIDE DEF n
  <2>2. Takes(v) \in AgcRecords
    BY <1>1, <2>0, <2>1 DEF AgcTypes, AgcRecords
  <2>3. Takes(v).armed = FALSE
    BY <2>1 DEF AgcTypes, AgcRecords
  <2>4. Takes(v).select = agc.select
    BY <2>1 DEF AgcTypes, AgcRecords
  <2>5. Takes(v).stage \in {"table", "msb", "chan", "end", "run"}
    BY <2>1 DEF AgcTypes, AgcRecords
  <2>6. QED
    BY <2>2, <2>3, <2>4, <2>5
<1>8. QED
  BY <1>1, <1>3, <1>4, <1>5, <1>6, <1>7

LEMMA ControllerTakes ==
    ASSUME HostTypes, AgcTypes, NEW jj \in 1 .. Entries + 3, Taken(jj - 1),
           agc.select = Handed(jj), UNCHANGED <<size, lut, conf>>, agc' = Takes(agc.select)
    PROVE  Taken(jj)' /\ ~agc'.armed /\ agc'.select = agc.select
<1>1. /\ size \in Nat /\ size >= 1 /\ size <= LutMax /\ LutMax \in Nat
      /\ agc.table \in Seq(Int) /\ Len(agc.table) \in Nat /\ agc.status \in Int
      /\ agc.select \in Int
  BY HalAssumption DEF HostTypes, AgcTypes, AgcRecords
<1>2. Entries \in Nat /\ (Entries = size \/ Entries = size + 1) /\ (Entries > size <=> size < LutMax)
  BY <1>1 DEF Entries
<1>3. Entries' = Entries /\ Answer(jj)' = Answer(jj)
  BY DEF Entries, Answer
<1>4. /\ jj - 1 < Entries => agc.stage = "table" /\ Len(agc.table) = jj - 1
      /\ jj - 1 >= Entries => Len(agc.table) = size
      /\ \A i \in 1 .. Len(agc.table) : agc.table[i] = Loaded(lut[i])
      /\ jj - 1 = Entries     => agc.stage = "msb"
      /\ jj - 1 = Entries + 1 => agc.stage = "chan"
      /\ jj - 1 = Entries + 2 => agc.stage = "end"
      /\ jj - 1 > Entries     => agc.msb = 3
  BY <1>1, <1>2 DEF Taken
<1>5. CASE jj <= size
  <2>1. agc.stage = "table" /\ Len(agc.table) = jj - 1
    BY <1>2, <1>4, <1>5, <1>1
  <2>2. agc.select = Loaded(lut[jj]) /\ agc.select # AGC_CMD_ABORT
    BY <1>5, EntryIsNoCommand, <1>1
  <2>3. agc' = [agc EXCEPT !.armed = FALSE, !.table = Append(@, agc.select), !.status = 48 + Len(agc.table),
                         !.stage = IF Len(agc.table) + 1 = LutMax THEN "msb" ELSE "table"]
    BY <2>1, <2>2 DEF Takes
  <2>4. /\ agc'.armed = FALSE /\ agc'.table = Append(agc.table, agc.select)
        /\ agc'.status = 48 + Len(agc.table) /\ agc'.select = agc.select
        /\ agc'.stage = IF Len(agc.table) + 1 = LutMax THEN "msb" ELSE "table"
    BY <2>3 DEF AgcTypes, AgcRecords
  <2>5. /\ Len(agc'.table) = jj
        /\ \A i \in 1 .. jj : agc'.table[i] = IF i = jj THEN agc.select ELSE agc.table[i]
    BY <2>1, <2>4, <1>1
  <2>6. \A i \in 1 .. Len(agc'.table) : agc'.table[i] = Loaded(lut[i])
    <3>1. \A i \in 1 .. jj - 1 : agc.table[i] = Loaded(lut[i])
      BY <2>1, <1>4
    <3>2. \A i \in 1 .. jj : i = jj \/ i \in 1 .. jj - 1
      OBVIOUS
    <3>3. QED
      BY <3>1, <3>2, <2>2, <2>5
  <2>7. agc'.status = Answer(jj)
    <3>1. jj # 0 /\ jj > 0 /\ jj \in Int
      BY <1>1, <1>2
    <3>2. Answer(jj) = 47 + jj
      BY <3>1, <1>1, <1>2, <1>5 DEF Answer
    <3>3. QED
      BY <3>1, <3>2, <2>1, <2>4
  <2>8. /\ jj < Entries => agc'.stage = "table"
        /\ jj >= Entries => size = jj /\ jj = Entries /\ agc'.stage = "msb"
    BY <2>1, <2>4, <1>5, <1>1, <1>2
  <2>9. QED
    BY <2>4, <2>5, <2>6, <2>7, <2>8, <1>1, <1>2, <1>3, <1>5 DEF Taken
<1>6. CASE jj > size /\ jj = Entries
  <2>1. agc.stage = "table" /\ Len(agc.table) = jj - 1
    BY <1>2, <1>4, <1>6, <1>1
  <2>2. agc.select = AGC_CMD_ABORT
    BY <1>6, <1>1 DEF Handed
  <2>3. agc' = [agc EXCEPT !.armed = FALSE, !.stage = "msb", !.status = 48]
    BY <2>1, <2>2 DEF Takes
  <2>4. /\ agc'.armed = FALSE /\ agc'.table = agc.table /\ agc'.status = 48
        /\ agc'.select = agc.select /\ agc'.stage = "msb"
    <3>1. agc'.armed = FALSE
      BY <2>3 DEF AgcTypes, AgcRecords
    <3>2. agc'.status = 48
      BY <2>3 DEF AgcTypes, AgcRecords
    <3>3. agc'.table = agc.table /\ agc'.select = agc.select /\ agc'.stage = "msb"
      BY <2>3 DEF AgcTypes, AgcRecords
    <3>4. QED
      BY <3>1, <3>2, <3>3
  <2>5. Answer(jj) = 48 /\ jj = size + 1
    BY <1>6, <1>1, <1>2 DEF Answer
  <2>6. QED
    <3>1. Len(agc'.table) = size /\ jj = Entries /\ ~(jj < Entries) /\ ~(jj > Entries)
          /\ jj # Entries + 1 /\ jj # Entries + 2 /\ jj # Entries + 3
      BY <2>1, <2>4, <2>5, <1>1, <1>2, <1>6
    <3>2. agc'.status = Answer(jj)'
      BY <2>4, <2>5, <1>3
    <3>3. \A i \in 1 .. Len(agc'.table) : agc'.table[i] = Loaded(lut[i])'
      BY <2>4, <1>4
    <3>4. QED
      BY <3>1, <3>2, <3>3, <2>4, <1>3 DEF Taken
<1>7. CASE jj = Entries + 1
  <2>1. agc.stage = "msb" /\ agc.select = 3 /\ Answer(jj) = 51
    BY <1>2, <1>4, <1>7, <1>1 DEF Handed, Answer
  <2>2. agc' = [agc EXCEPT !.armed = FALSE, !.stage = "chan", !.msb = 3, !.status = 48 + 3]
    BY <2>1 DEF Takes
  <2>3. /\ agc'.armed = FALSE /\ agc'.table = agc.table /\ agc'.status = 51
        /\ agc'.select = agc.select /\ agc'.stage = "chan" /\ agc'.msb = 3
    <3>1. agc'.armed = FALSE
      BY <2>2 DEF AgcTypes, AgcRecords
    <3>2. agc'.status = 48 + 3
      BY <2>2 DEF AgcTypes, AgcRecords
    <3>3. agc'.table = agc.table /\ agc'.select = agc.select /\ agc'.stage = "chan"
      BY <2>2 DEF AgcTypes, AgcRecords
    <3>4. agc'.msb = 3
      BY <2>2 DEF AgcTypes, AgcRecords
    <3>5. QED
      BY <3>1, <3>2, <3>3, <3>4
  <2>4. QED
    BY <2>1, <2>3, <1>1, <1>2, <1>3, <1>4, <1>7 DEF Taken
<1>8. CASE jj = Entries + 2
  <2>1. agc.stage = "chan" /\ agc.select = 0 /\ Answer(jj) = 48 /\ agc.msb = 3
    BY <1>2, <1>4, <1>8, <1>1 DEF Handed, Answer
  <2>2. agc' = [agc EXCEPT !.armed = FALSE, !.stage = "end", !.status = 48 + 0]
    BY <2>1 DEF Takes
  <2>3. /\ agc'.armed = FALSE /\ agc'.table = agc.table /\ agc'.status = 48
        /\ agc'.select = agc.select /\ agc'.stage = "end" /\ agc'.msb = 3
    <3>1. agc'.armed = FALSE
      BY <2>2 DEF AgcTypes, AgcRecords
    <3>2. agc'.status = 48 + 0
      BY <2>2 DEF AgcTypes, AgcRecords
    <3>3. /\ agc'.table = agc.table /\ agc'.select = agc.select /\ agc'.stage = "end"
          /\ agc'.msb = agc.msb
      BY <2>2 DEF AgcTypes, AgcRecords
    <3>4. QED
      BY <2>1, <3>1, <3>2, <3>3
  <2>4. QED
    BY <2>1, <2>3, <1>1, <1>2, <1>3, <1>4, <1>8 DEF Taken
<1>9. CASE jj = Entries + 3
  <2>1. agc.stage = "end" /\ agc.select = conf.map /\ Answer(jj) = 64 /\ agc.msb = 3
    BY <1>2, <1>4, <1>9, <1>1 DEF Handed, Answer
  <2>2. agc' = [agc EXCEPT !.armed = FALSE, !.stage = "run", !.map = conf.map, !.status = 64]
    BY <2>1 DEF Takes
  <2>3. /\ agc'.armed = FALSE /\ agc'.table = agc.table /\ agc'.status = 64
        /\ agc'.select = agc.select /\ agc'.stage = "run" /\ agc'.msb = 3
        /\ agc'.map = conf.map
    <3>1. agc'.map = conf.map /\ agc'.stage = "run"
      BY <2>2 DEF AgcTypes, AgcRecords
    <3>3. agc'.armed = FALSE
      BY <2>2 DEF AgcTypes, AgcRecords
    <3>4. agc'.status = 64
      BY <2>2 DEF AgcTypes, AgcRecords
    <3>2. agc'.table = agc.table /\ agc'.select = agc.select /\ agc'.msb = agc.msb
      BY <2>2 DEF AgcTypes, AgcRecords
    <3>5. QED
      BY <2>1, <3>1, <3>2, <3>3, <3>4
  <2>5. /\ ~(jj < Entries) /\ jj >= Entries /\ jj > Entries
        /\ jj # Entries /\ jj # Entries + 1 /\ jj # Entries + 2 /\ jj = Entries + 3
    BY <1>2, <1>9
  <2>6. Len(agc'.table) = size /\ \A i \in 1 .. Len(agc'.table) : agc'.table[i] = Loaded(lut[i])
    <3>1. jj - 1 >= Entries
      BY <1>2, <1>9
    <3>2. QED
      BY <3>1, <2>3, <1>4
  <2>7. Taken(jj)'
    BY <2>1, <2>3, <2>5, <2>6, <1>3 DEF Taken
  <2>4. QED
    BY <2>3, <2>7
<1>10. QED
  BY <1>1, <1>2, <1>5, <1>6, <1>7, <1>8, <1>9

\* What a missed end of the table is followed by.
LEMMA MissedMeans ==
    ASSUME HostTypes, Missed
    PROVE  /\ Entries = 2 /\ 1 \in 1 .. Entries + 3 /\ 2 \in 1 .. Entries + 3 /\ 3 \in 1 .. Entries + 3
           /\ Handed(2) = AGC_CMD_ABORT /\ Handed(3) = 3 /\ Answer(1) = 48 /\ Answer(3) = 51
           /\ agc.status = 48 /\ agc.stage = "table" /\ Len(agc.table) = 1
<1>1. size = 1 /\ LutMax \in Nat /\ LutMax > 1
  BY HalAssumption DEF HostTypes, Missed
<1>2. Entries = 2
  BY <1>1 DEF Entries
<1>3. Handed(2) = AGC_CMD_ABORT /\ Handed(3) = 3 /\ Answer(1) = 48 /\ Answer(3) = 51
  BY <1>1, <1>2 DEF Handed, Answer
<1>4. QED
  BY <1>1, <1>2, <1>3 DEF Missed, Taken

LEMMA AgcKeeps == ASSUME HalInv, Agc PROVE HalInv'
<1>1. /\ agc.stage \notin {"off", "boot", "run"} /\ Sees
      /\ agc' = IF agc.armed THEN Takes(agc.select) ELSE [agc EXCEPT !.armed = TRUE]
      /\ UNCHANGED <<started, conf, size, lut, at, k, chip, same, cuts>>
      /\ UNCHANGED <<conf, size, lut>> /\ UNCHANGED <<size, lut, conf>>
  BY DEF Agc
<1>2. HostTypes /\ AgcTypes /\ HostStages
  BY DEF HalInv
<1>3. agc.select \in Int /\ agc.armed \in BOOLEAN /\ LutMax \in Nat
  BY <1>2, HalAssumption DEF AgcTypes, AgcRecords
<1>4. HostTypes' /\ HostStages'
  <2>1. Entries' = Entries /\ InHandshake' = InHandshake
    BY <1>1 DEF Entries, InHandshake
  <2>2. QED
    BY <1>1, <1>2, <2>1 DEF HostTypes, HostStages
<1>5. ASSUME ~agc.armed
      PROVE  /\ agc.select = AGC_CMD_WAIT /\ agc'.armed = TRUE /\ agc' \in AgcRecords
             /\ agc'.select = agc.select /\ agc'.stage = agc.stage /\ agc'.status = agc.status
             /\ agc'.table = agc.table /\ agc'.msb = agc.msb /\ agc'.map = agc.map
  <2>1. agc' = [agc EXCEPT !.armed = TRUE]
    BY <1>1, <1>5
  <2>2. agc.select = AGC_CMD_WAIT
    BY <1>1, <1>5 DEF Sees
  <2>3. agc' \in AgcRecords
    BY <1>2, <2>1 DEF AgcTypes, AgcRecords
  <2>4. agc'.armed = TRUE
    BY <1>2, <2>1 DEF AgcTypes, AgcRecords
  <2>5. /\ agc'.select = agc.select /\ agc'.stage = agc.stage /\ agc'.status = agc.status
        /\ agc'.table = agc.table /\ agc'.msb = agc.msb /\ agc'.map = agc.map
    BY <1>2, <2>1 DEF AgcTypes, AgcRecords
  <2>6. QED
    BY <2>2, <2>3, <2>4, <2>5
<1>6. ASSUME agc.armed
      PROVE  agc.select # AGC_CMD_WAIT /\ agc' = Takes(agc.select) /\ agc' \in AgcRecords
             /\ agc'.armed = FALSE /\ agc'.select = agc.select
  <2>1. agc.select # AGC_CMD_WAIT /\ agc' = Takes(agc.select)
    BY <1>1, <1>6 DEF Sees
  <2>2. QED
    BY <2>1, <1>1, <1>2, <1>3, TakesType
<1>7. AgcTypes'
  BY <1>5, <1>6 DEF AgcTypes
<1>8. Booting'
  <2>1. at # "booting"
    <3>1. SUFFICES ASSUME at = "booting" PROVE FALSE
      OBVIOUS
    <3>2. ~agc.armed /\ agc.select = 0
      BY <3>1 DEF HalInv, Booting
    <3>3. QED
      BY <3>2, <1>5 DEF AGC_CMD_WAIT
  <2>2. QED
    BY <2>1, <1>1 DEF Booting
<1>9. Announcing'
  <2>1. SUFFICES ASSUME at = "announce" PROVE Announcing'
    BY <1>1 DEF Announcing
  <2>2. ~(~agc.armed /\ agc.select # AGC_CMD_WAIT)
    BY <1>5
  <2>3. Missed /\ agc.select = AGC_CMD_ABORT
    BY <2>1, <2>2 DEF HalInv, Announcing
  <2>4. agc.armed
    BY <2>3, <1>5 DEF AGC_CMD_ABORT, AGC_CMD_WAIT
  <2>5. Taken(2)' /\ ~agc'.armed /\ agc'.select = agc.select
    <3>1. 2 \in 1 .. Entries + 3 /\ agc.select = Handed(2)
      BY <1>2, <2>3, MissedMeans
    <3>2. Taken(2 - 1)
      BY <2>3 DEF Missed
    <3>3. QED
      BY <1>1, <1>2, <1>6, <2>4, <3>1, <3>2, ControllerTakes
  <2>6. k' - 1 = 2
    BY <1>1, <2>3 DEF Missed
  <2>7. Taken(k - 1)'
    BY <2>5, <2>6
  <2>8. agc'.select # AGC_CMD_WAIT
    BY <2>3, <2>5 DEF AGC_CMD_ABORT, AGC_CMD_WAIT
  <2>9. QED
    BY <2>5, <2>7, <2>8 DEF Announcing
<1>10. Announced'
  <2>1. SUFFICES ASSUME at = "announced" PROVE Announced'
    BY <1>1 DEF Announced
  <2>2. agc.select = AGC_CMD_WAIT /\ (Taken(k - 1) \/ Missed)
    BY <2>1 DEF HalInv, Announced
  <2>3. ~agc.armed
    BY <2>2, <1>6
  <2>4. \A jj : Taken(jj) => Taken(jj)'
    BY <2>3, <1>5, <1>1, TakenStays
  <2>5. Taken(k - 1) => Taken(k - 1)'
    BY <2>4, <1>1
  <2>6. Missed => Missed'
    BY <2>4, <1>1 DEF Missed
  <2>7. QED
    BY <2>2, <2>3, <2>5, <2>6, <1>5 DEF Announced
<1>11. HandedOver'
  <2>1. SUFFICES ASSUME at = "handed" PROVE HandedOver'
    BY <1>1 DEF HandedOver
  <2>2. agc.select = Handed(k) /\ k \in 1 .. Entries + 3
    BY <2>1, <1>2 DEF HalInv, HandedOver, HostStages, InHandshake
  <2>3. Handed(k)' = Handed(k) /\ Entries' = Entries /\ agc'.select = agc.select
    <3>1. Entries' = Entries
      BY <1>1 DEF Entries
    <3>2. Handed(k)' = Handed(k)
      BY <3>1, <1>1 DEF Handed
    <3>3. QED
      BY <3>1, <3>2, <1>5, <1>6
  <2>4. CASE Taken(k - 1) /\ agc.armed
    <3>1. Taken(k)' /\ ~agc'.armed
      BY <2>2, <2>4, <1>1, <1>2, <1>6, ControllerTakes
    <3>2. QED
      BY <3>1, <2>2, <2>3 DEF HandedOver
  <2>5. CASE Taken(k - 1) /\ ~agc.armed
    <3>1. \A jj : Taken(jj) => Taken(jj)'
      BY <2>5, <1>5, <1>1, TakenStays
    <3>2. Taken(k - 1)'
      BY <3>1, <2>5, <1>1
    <3>3. QED
      BY <3>2, <2>2, <2>3, <2>5, <1>5 DEF HandedOver
  <2>6. CASE Taken(k) /\ ~agc.armed
    <3>1. Handed(k) = AGC_CMD_WAIT
      BY <2>2, <2>6, <1>5
    <3>2. k = Entries + 3
      <4>1. Entries \in Int
        BY <1>2, <1>3 DEF Entries, HostTypes
      <4>2. k \notin 1 .. Entries + 2
        BY <3>1, <1>2, NeverAWait
      <4>3. QED
        BY <2>2, <4>1, <4>2
    <3>3. agc.stage = "run"
      BY <3>2, <2>6 DEF Taken
    <3>4. QED
      BY <3>3, <1>1
  <2>7. CASE Missed
    <3>1. /\ agc.select = 3 /\ agc.status = 48 /\ agc.stage = "table" /\ Len(agc.table) = 1
          /\ size = 1 /\ k = 3 /\ cuts > 0
      BY <2>2, <2>7, <1>2, MissedMeans DEF Missed
    <3>2. agc.armed
      BY <3>1, <1>5 DEF AGC_CMD_WAIT
    <3>3. agc' = [agc EXCEPT !.armed = FALSE, !.table = Append(@, 3), !.status = 48 + Len(agc.table),
                         !.stage = IF Len(agc.table) + 1 = LutMax THEN "msb" ELSE "table"]
      BY <3>1, <3>2, <1>6 DEF Takes, AGC_CMD_ABORT
    <3>4. agc'.status = 48 + Len(agc.table)
      BY <3>3, <1>2 DEF AgcTypes, AgcRecords
    <3>5. agc'.stage \in {"table", "msb"}
      BY <3>3, <1>2 DEF AgcTypes, AgcRecords
    <3>6. agc'.status = 49
      BY <3>1, <3>4
    <3>7. QED
      BY <3>1, <3>2, <3>5, <3>6, <2>2, <2>3, <1>1, <1>6 DEF HandedOver
  <2>8. CASE size = 1 /\ k = 3 /\ cuts > 0 /\ agc.status = 49 /\ ~agc.armed
    <3>1. agc.select = 3
      <4>1. size = 1 /\ k = 3 /\ LutMax > 1 /\ LutMax \in Nat
        BY <2>8, HalAssumption
      <4>2. Handed(3) = 3
        BY <4>1 DEF Handed, Entries
      <4>3. QED
        BY <2>2, <4>1, <4>2
    <3>2. QED
      BY <3>1, <2>8, <1>5 DEF AGC_CMD_WAIT
  <2>9. QED
    BY <2>1, <2>4, <2>5, <2>6, <2>7, <2>8 DEF HalInv, HandedOver
<1>12. Configured'
  <2>1. ~(started /\ same /\ at = "idle")
    BY <1>1 DEF HalInv, Configured
  <2>2. QED
    BY <2>1, <1>1 DEF Configured
<1>13. QED
  BY <1>4, <1>7, <1>8, <1>9, <1>10, <1>11, <1>12 DEF HalInv

-----------------------------------------------------------------------------
(* The host, outside the handshake. *)

LEMMA InitHolds == ASSUME HInit PROVE HalInv
<1>1. /\ started = FALSE /\ conf = [freq |-> 0, map |-> 0] /\ size = 2
      /\ lut = [i \in 1 .. LutMax |-> IF i = 1 THEN Gain(10, 2, 14)
                                      ELSE IF i = 2 THEN Gain(14, 3, 27) ELSE Unset]
      /\ at = "idle" /\ agc = Off /\ same = FALSE /\ cuts = 0
  BY DEF HInit
<1>2. LutMax \in Nat /\ LutMax > 1
  BY HalAssumption
<1>3. /\ Gain(10, 2, 14) = [mix |-> 10, pa |-> 2, dac |-> 3, power |-> 14]
      /\ Gain(14, 3, 27) = [mix |-> 14, pa |-> 3, dac |-> 3, power |-> 27]
      /\ Unset = [mix |-> 0, pa |-> 0, dac |-> 0, power |-> 0]
  BY DEF Gain, Unset
<1>4. Loaded(Gain(10, 2, 14)) = 186 /\ Loaded(Gain(14, 3, 27)) = 254 /\ Loaded(Unset) = 0
  BY <1>3 DEF Loaded
<1>5. \A i \in 1 .. LutMax : Loaded(lut[i]) \in {186, 254, 0}
  BY <1>1, <1>4
<1>6. HostTypes
  <2>1. conf \in [freq : {0, 1}, map : Int]
    BY <1>1
  <2>2. DOMAIN lut = 1 .. LutMax /\ size \in 1 .. LutMax
    BY <1>1, <1>2
  <2>3. \A i \in 1 .. LutMax :
          Loaded(lut[i]) \in Int /\ Loaded(lut[i]) \notin {AGC_CMD_WAIT, AGC_CMD_ABORT}
    BY <1>5 DEF AGC_CMD_WAIT, AGC_CMD_ABORT
  <2>4. QED
    BY <1>1, <2>1, <2>2, <2>3 DEF HostTypes
<1>7. AgcTypes
  BY <1>1 DEF AgcTypes, AgcRecords, Off
<1>8. QED
  BY <1>1, <1>6, <1>7 DEF HalInv, HostStages, InHandshake, Booting, Announcing, Announced,
        HandedOver, Configured

\* What is left to show of a step that ends outside the handshake.
LEMMA Outside ==
    ASSUME HostTypes', AgcTypes', at' \in {"idle", "locking", "calibrating", "loading"},
           at' # "idle" => ~same', at' = "loading" => chip' = conf', Configured'
    PROVE  HalInv'
BY DEF HalInv, HostStages, InHandshake, Booting, Announcing, Announced, HandedOver

LEMMA OffIsTyped == Off \in AgcRecords
BY DEF Off, AgcRecords

\* The value loaded of a verified gain is no command.
LEMMA LoadedIsGreat ==
    ASSUME NEW x \in 8 .. 15, NEW y \in Nat
    PROVE  x + 16 * 3 + 64 * y \in Int /\ x + 16 * 3 + 64 * y > 17
  OBVIOUS

LEMMA SetConfKeeps == ASSUME HalInv, SetConf PROVE HalInv'
<1>1. /\ at = "idle" /\ ~started
      /\ UNCHANGED <<started, size, lut, at, k, chip, agc, same, cuts>>
  BY DEF SetConf, Sets
<1>2. conf' \in [freq : {0, 1}, map : Int]
  BY HalAssumption DEF SetConf, Sets, Confs
<1>3. HostTypes'
  BY <1>1, <1>2 DEF HalInv, HostTypes
<1>4. QED
  BY <1>1, <1>3, Outside DEF HalInv, AgcTypes, Configured

LEMMA TxgainKeeps == ASSUME HalInv, TxgainSetconf PROVE HalInv'
<1>1. PICK new \in UNION {[1 .. n -> Gains] : n \in 1 .. LutMax} :
         LET copied == {i \in DOMAIN new : \A jj \in 1 .. i : Verified(new[jj])}
         IN  /\ size' = Len(new)
             /\ lut' = [i \in 1 .. LutMax |-> IF i \in copied THEN new[i] ELSE lut[i]]
  BY DEF TxgainSetconf
<1>1a. PICK n \in 1 .. LutMax : new \in [1 .. n -> Gains]
  OBVIOUS
<1>2. /\ at = "idle" /\ same' = FALSE
      /\ UNCHANGED <<started, conf, at, k, chip, agc, cuts>>
  BY DEF TxgainSetconf
<1>3. LutMax \in Nat /\ n \in Nat /\ n >= 1 /\ n <= LutMax
  BY HalAssumption
<1>4. size' = n
  <2>1. new \in Seq(Gains) /\ Len(new) = n
    BY <1>1a, <1>3, LenProperties
  <2>2. QED
    BY <1>1, <2>1
<1>5. ASSUME NEW i \in 1 .. LutMax
      PROVE  Loaded(lut'[i]) \in Int /\ Loaded(lut'[i]) \notin {AGC_CMD_WAIT, AGC_CMD_ABORT}
  <2>1. CASE lut'[i] = lut[i]
    BY <2>1 DEF HalInv, HostTypes
  <2>2. CASE i \in DOMAIN new /\ (\A jj \in 1 .. i : Verified(new[jj])) /\ lut'[i] = new[i]
    <3>1. Verified(new[i]) /\ new[i] \in Gains
      BY <2>2, <1>3
    <3>2. new[i].dac = 3 /\ new[i].mix \in 8 .. 15 /\ new[i].pa \in Nat
      BY <3>1, HalAssumption DEF Verified
    <3> DEFINE mix == new[i].mix
               pa == new[i].pa
    <3>3. Loaded(new[i]) = mix + 16 * 3 + 64 * pa /\ mix \in 8 .. 15 /\ pa \in Nat
      BY <3>2 DEF Loaded
    <3> HIDE DEF mix, pa
    <3>4. Loaded(new[i]) \in Int /\ Loaded(new[i]) > 17
      BY <3>3, LoadedIsGreat
    <3>5. QED
      BY <2>2, <3>4 DEF AGC_CMD_WAIT, AGC_CMD_ABORT
  <2>3. QED
    BY <1>1, <2>1, <2>2
<1>6. HostTypes'
  <2>1. DOMAIN lut' = 1 .. LutMax
    BY <1>1
  <2>2. QED
    BY <1>2, <1>3, <1>4, <1>5, <2>1 DEF HalInv, HostTypes
<1>7. QED
  BY <1>2, <1>6, Outside DEF HalInv, AgcTypes, Configured

LEMMA PreparingKeeps ==
    ASSUME HalInv,
           Start \/ HalStartFails \/ Lock \/ Calibrated \/ CalibrationCut \/ Stop
    PROVE  HalInv'
<1>1. /\ UNCHANGED <<conf, size, lut>>
      /\ started' \in BOOLEAN /\ same' \in BOOLEAN /\ cuts' \in Nat
  <2>1. UNCHANGED <<conf, size, lut>>
    BY DEF Start, HalStartFails, Lock, Calibrated, CalibrationCut, Stop
  <2>2. started' \in {started, FALSE} /\ same' \in {same, FALSE}
    BY DEF Start, HalStartFails, Lock, Calibrated, CalibrationCut, Stop, Fails
  <2>3. cuts' = cuts \/ cuts' = cuts + 1
    BY DEF Start, HalStartFails, Lock, Calibrated, CalibrationCut, Stop
  <2>4. started \in BOOLEAN /\ same \in BOOLEAN /\ cuts \in Nat
    BY DEF HalInv, HostTypes
  <2>5. started' \in BOOLEAN /\ same' \in BOOLEAN
    BY <2>2, <2>4
  <2>6. cuts' \in Nat
    BY <2>3, <2>4
  <2>7. QED
    BY <2>1, <2>5, <2>6
<1>2. HostTypes'
  BY <1>1 DEF HalInv, HostTypes
<1>3. AgcTypes'
  BY OffIsTyped DEF Start, HalStartFails, Lock, Calibrated, CalibrationCut, Stop, HalInv, AgcTypes
<1>4. /\ at' \in {"idle", "locking", "calibrating", "loading"} /\ ~same'
      /\ at' = "loading" => chip' = conf'
  BY DEF Start, HalStartFails, Lock, Calibrated, CalibrationCut, Stop, Fails, HalInv, HostStages
<1>5. QED
  BY <1>2, <1>3, <1>4, Outside DEF Configured

LEMMA LoadFirmwareKeeps == ASSUME HalInv, LoadFirmware PROVE HalInv'
<1>1. /\ at = "loading" /\ at' = "booting" /\ k' = 1 /\ agc' = [Off EXCEPT !.stage = "boot"]
      /\ UNCHANGED <<started, conf, size, lut, chip, same, cuts>>
  BY DEF LoadFirmware
<1>2. HostTypes'
  BY <1>1 DEF HalInv, HostTypes
<1>3. agc' = [stage |-> "boot", armed |-> FALSE, select |-> 0, status |-> 0,
              table |-> <<>>, msb |-> 0, map |-> 0]
  BY <1>1 DEF Off
<1>4. AgcTypes'
  BY <1>3 DEF AgcTypes, AgcRecords
<1>5. QED
  BY <1>1, <1>2, <1>3, <1>4 DEF HalInv, HostStages, InHandshake, Booting, Announcing, Announced,
        HandedOver, Configured

-----------------------------------------------------------------------------
(* The handshake. *)

LEMMA StageOfTaken ==
    ASSUME HostTypes, NEW jj \in 0 .. Entries + 3, Taken(jj)
    PROVE  agc.stage \notin {"off", "boot"} /\ (agc.stage = "run" => jj = Entries + 3)
<1>1. Entries \in Nat
  BY HalAssumption DEF HostTypes, Entries
<1>2. QED
  BY <1>1 DEF Taken

LEMMA BootsKeeps == ASSUME HalInv, Boots PROVE HalInv'
<1>1. /\ agc.stage = "boot" /\ agc' = [agc EXCEPT !.stage = "table", !.status = 16]
      /\ UNCHANGED <<started, conf, size, lut, at, k, chip, same, cuts>>
  BY DEF Boots
<1>2. HostTypes /\ AgcTypes /\ HostStages
  BY DEF HalInv
<1>3. /\ agc'.stage = "table" /\ agc'.armed = agc.armed /\ agc'.select = agc.select
      /\ agc'.table = agc.table
  BY <1>1, <1>2 DEF AgcTypes, AgcRecords
<1>4. agc'.status = 16
  BY <1>1, <1>2 DEF AgcTypes, AgcRecords
<1>5. AgcTypes'
  <2> DEFINE n == 16
  <2>1. n \in Int /\ agc' = [agc EXCEPT !.stage = "table", !.status = n]
    BY <1>1
  <2> HIDE DEF n
  <2>2. QED
    BY <1>2, <2>1 DEF AgcTypes, AgcRecords
<1>6. HostTypes' /\ HostStages'
  <2>1. Entries' = Entries /\ InHandshake' = InHandshake
    BY <1>1 DEF Entries, InHandshake
  <2>2. QED
    BY <1>1, <1>2, <2>1 DEF HostTypes, HostStages
<1>7. ~InHandshake
  <2>1. SUFFICES ASSUME InHandshake PROVE FALSE
    OBVIOUS
  <2>2. k \in 1 .. Entries + 3 /\ Entries \in Nat
    BY <1>2, <2>1, HalAssumption DEF HostStages, HostTypes, Entries
  <2>3. k - 1 \in 0 .. Entries + 3 /\ k \in 0 .. Entries + 3
    BY <2>2
  <2>4. ~Taken(k - 1) /\ ~Taken(k)
    BY <1>1, <1>2, <2>3, StageOfTaken
  <2>5. ~Missed
    BY <1>1, <1>2, MissedMeans
  <2>6. QED
    BY <1>1, <2>1, <2>4, <2>5 DEF HalInv, InHandshake, Announcing, Announced, HandedOver
<1>8. Booting'
  BY <1>1, <1>3, <1>4 DEF HalInv, Booting
<1>9. Configured'
  BY <1>1 DEF HalInv, Configured
<1>10. QED
  BY <1>1, <1>5, <1>6, <1>7, <1>8, <1>9 DEF HalInv, InHandshake, Announcing, Announced, HandedOver

LEMMA CutsGrow ==
    ASSUME HostTypes, Waited
    PROVE  cuts' \in Nat /\ cuts' >= cuts /\ (cuts' = 0 => Settled)
BY DEF HostTypes, Waited

\* A step that fails.
LEMMA FailureKeeps ==
    ASSUME HalInv, at # "idle", Fails, UNCHANGED <<conf, size, lut, chip, agc>>, Waited
    PROVE  HalInv'
<1>1. HostTypes'
  BY CutsGrow DEF HalInv, HostTypes, Fails
<1>2. AgcTypes'
  BY DEF HalInv, AgcTypes
<1>3. at' = "idle" /\ ~same'
  BY DEF HalInv, HostStages, Fails
<1>4. QED
  BY <1>1, <1>2, <1>3, Outside DEF Configured

LEMMA BootedKeeps == ASSUME HalInv, Booted PROVE HalInv'
<1>1. at = "booting" /\ Waited /\ UNCHANGED <<conf, size, lut, chip, agc>>
  BY DEF Booted
<1>2. CASE agc.status = 16
  <2>1. at' = "announce" /\ UNCHANGED <<started, k, same>>
    BY <1>2 DEF Booted
  <2>2. HostTypes'
    BY <1>1, <2>1, CutsGrow DEF HalInv, HostTypes
  <2>3. Entries \in Nat /\ Entries >= 1 /\ Entries' = Entries /\ k = 1
    BY <1>1, HalAssumption DEF HalInv, HostTypes, Entries, HostStages
  <2>4. agc.stage = "table" /\ ~agc.armed /\ agc.select = 0 /\ agc.table = <<>>
    BY <1>1, <1>2 DEF HalInv, Booting
  <2>5. Taken(0)
    <3>1. Answer(0) = 16
      <4>1. size \in Nat /\ size >= 1
        BY HalAssumption DEF HalInv, HostTypes
      <4>2. QED
        BY <4>1, <2>3 DEF Answer
    <3>2. Len(agc.table) = 0
      BY <2>4
    <3>3. QED
      BY <1>2, <2>3, <2>4, <3>1, <3>2 DEF Taken
  <2>6. Taken(0)'
    BY <2>5, <1>1, TakenStays
  <2>7. Taken(k - 1)'
    <3>1. k' - 1 = 0
      BY <2>1, <2>3
    <3>2. QED
      BY <2>6, <3>1
  <2>8. agc'.select # AGC_CMD_WAIT /\ ~agc'.armed
    BY <1>1, <2>4 DEF AGC_CMD_WAIT
  <2>9. HostStages'
    BY <1>1, <2>1, <2>3 DEF HalInv, HostStages, InHandshake
  <2>10. QED
    BY <1>1, <2>1, <2>2, <2>7, <2>8, <2>9 DEF HalInv, AgcTypes, Booting, Announcing, Announced,
          HandedOver, Configured
<1>3. CASE agc.status # 16
  BY <1>1, <1>3, FailureKeeps DEF Booted
<1>4. QED
  BY <1>2, <1>3

LEMMA AnnounceKeeps == ASSUME HalInv, Announce PROVE HalInv'
<1>1. /\ at = "announce" /\ at' = "announced" /\ agc' = [agc EXCEPT !.select = AGC_CMD_WAIT]
      /\ UNCHANGED <<started, conf, size, lut, k, chip, same, cuts>>
  BY DEF Announce
<1>2. HostTypes'
  BY <1>1 DEF HalInv, HostTypes
<1>3. AGC_CMD_WAIT \in Int
  BY DEF AGC_CMD_WAIT
<1>4. AgcTypes'
  BY <1>1, <1>3 DEF HalInv, AgcTypes, AgcRecords
<1>5. /\ agc'.select = AGC_CMD_WAIT /\ agc'.stage = agc.stage /\ agc'.status = agc.status
      /\ agc'.table = agc.table /\ agc'.msb = agc.msb /\ agc'.map = agc.map
  BY <1>1 DEF HalInv, AgcTypes, AgcRecords
<1>6. \A jj : Taken(jj) => Taken(jj)'
  BY <1>1, <1>5, TakenStays
<1>7. Taken(k - 1) \/ Missed
  BY <1>1 DEF HalInv, Announcing
<1>8. Taken(k - 1) => Taken(k - 1)'
  BY <1>1, <1>6
<1>9. Missed => Missed'
  BY <1>1, <1>6 DEF Missed
<1>10. HostStages'
  <2>1. Entries' = Entries
    BY <1>1 DEF Entries
  <2>2. QED
    BY <1>1, <2>1 DEF HalInv, HostStages, InHandshake
<1>11. QED
  BY <1>1, <1>2, <1>4, <1>5, <1>7, <1>8, <1>9, <1>10
     DEF HalInv, Booting, Announcing, Announced, HandedOver, Configured

LEMMA HandKeeps == ASSUME HalInv, Hand PROVE HalInv'
<1>1. /\ at = "announced" /\ Waited /\ at' = "handed"
      /\ agc' = [agc EXCEPT !.select = Script[k][1]]
      /\ UNCHANGED <<started, conf, size, lut, k, chip, same>>
  BY DEF Hand
<1>2. HostTypes /\ AgcTypes /\ HostStages
  BY DEF HalInv
<1>3. k \in 1 .. Entries + 3 /\ Entries \in Nat
  BY <1>1, <1>2, HalAssumption DEF HostStages, InHandshake, HostTypes, Entries
<1>4. Script[k][1] = Handed(k)
  BY <1>2, <1>3, ScriptIs
<1>5. Handed(k) \in Int
  <2>1. /\ size \in Nat /\ size >= 1 /\ size <= LutMax /\ LutMax \in Nat
        /\ \A i \in 1 .. LutMax : Loaded(lut[i]) \in Int
        /\ conf.map \in Int
    BY <1>2, HalAssumption DEF HostTypes
  <2>2. CASE k <= size
    BY <2>1, <2>2, <1>2, <1>3, EntryIsNoCommand
  <2>3. CASE ~(k <= size)
    BY <2>1, <2>3, <1>3 DEF Handed, Entries, AGC_CMD_ABORT
  <2>4. QED
    BY <2>2, <2>3
<1>6. /\ agc'.select = Handed(k) /\ agc'.stage = agc.stage /\ agc'.status = agc.status
      /\ agc'.table = agc.table /\ agc'.msb = agc.msb /\ agc'.map = agc.map
  BY <1>1, <1>2, <1>4 DEF AgcTypes, AgcRecords
<1>7. agc'.armed = agc.armed
  BY <1>1, <1>2 DEF AgcTypes, AgcRecords
<1>8. AgcTypes'
  BY <1>1, <1>2, <1>4, <1>5 DEF AgcTypes, AgcRecords
<1>9. HostTypes' /\ cuts' >= cuts /\ cuts \in Nat /\ cuts' \in Nat /\ (cuts' = 0 => Settled)
  BY <1>1, <1>2, CutsGrow DEF HostTypes
<1>10. \A jj : Taken(jj) => Taken(jj)'
  BY <1>1, <1>6, TakenStays
<1>11. Taken(k - 1) => Taken(k - 1)'
  BY <1>1, <1>10
<1>12. Missed => Missed'
  BY <1>1, <1>9, <1>10 DEF Missed
<1>13. agc.select = AGC_CMD_WAIT /\ (Taken(k - 1) \/ Missed)
  BY <1>1 DEF HalInv, Announced
<1>14. ASSUME Taken(k - 1), cuts' = 0 PROVE agc'.armed
  <2>1. k - 1 \in 0 .. Entries + 3 /\ k - 1 # Entries + 3
    BY <1>3
  <2>2. agc.stage \notin {"off", "boot", "run"}
    BY <1>2, <1>14, <2>1, StageOfTaken
  <2>3. ~Sees
    BY <1>9, <1>14, <2>2 DEF Settled
  <2>4. QED
    BY <2>3, <1>7, <1>13 DEF Sees
<1>15. Entries' = Entries /\ Handed(k)' = Handed(k)
  <2>1. Entries' = Entries
    BY <1>1 DEF Entries
  <2>2. QED
    BY <1>1, <2>1 DEF Handed
<1>16. HostStages'
  BY <1>1, <1>2, <1>3, <1>15 DEF HostStages, InHandshake
<1>17. HandedOver'
  BY <1>6, <1>11, <1>12, <1>13, <1>14, <1>15 DEF HandedOver
<1>18. QED
  BY <1>1, <1>8, <1>9, <1>16, <1>17 DEF HalInv, Booting, Announcing, Announced, Configured

LEMMA CheckKeeps == ASSUME HalInv, Check PROVE HalInv'
<1>1. at = "handed" /\ Waited /\ UNCHANGED <<conf, size, lut, chip, agc>>
  BY DEF Check
<1>2. HostTypes /\ AgcTypes /\ HostStages
  BY DEF HalInv
<1>3. k \in 1 .. Entries + 3 /\ Entries \in Nat /\ Entries >= 1
  BY <1>1, <1>2, HalAssumption DEF HostStages, InHandshake, HostTypes, Entries
<1>4. Len(Script) = Entries + 3 /\ Script[k][2] = Answer(k)
  BY <1>2, <1>3, ScriptIs
<1>5. /\ agc.select = Handed(k)
      /\ \/ Taken(k - 1) /\ (cuts = 0 => agc.armed)
         \/ Taken(k) /\ ~agc.armed
         \/ Missed
         \/ size = 1 /\ k = 3 /\ agc.status = 49
  BY <1>1 DEF HalInv, HandedOver
<1>6. /\ cuts' >= cuts /\ cuts \in Nat /\ cuts' \in Nat /\ (cuts' = 0 => Settled)
  BY <1>1, <1>2, CutsGrow DEF HostTypes
<1>7. \A jj : Taken(jj) => Taken(jj)'
  BY <1>1, TakenStays
<1>8. Entries' = Entries
  BY <1>1 DEF Entries
<1>9. AgcTypes'
  BY <1>1, <1>2 DEF AgcTypes
<1>10. CASE agc.status # Script[k][2] /\ Fails
  BY <1>1, <1>10, FailureKeeps
<1>11. ASSUME agc.status = Script[k][2]
       PROVE  \/ Taken(k) /\ ~agc.armed
              \/ size = 1 /\ k = 2 /\ Entries = 2 /\ Taken(1) /\ cuts' > 0
  <2>1. CASE Taken(k - 1) /\ (cuts = 0 => agc.armed)
    <3>1. Answer(k - 1) = Answer(k)
      BY <1>4, <1>11, <2>1 DEF Taken
    <3>2. size = 1 /\ k = 2 /\ Entries = 2
      BY <3>1, <1>2, <1>3, AnswersDiffer
    <3>3. Taken(1)
      BY <2>1, <3>2
    <3>4. ASSUME cuts' = 0 PROVE FALSE
      <4>1. agc.armed /\ Settled
        BY <3>4, <1>6, <2>1
      <4>2. agc.stage = "table"
        BY <3>2, <3>3 DEF Taken
      <4>3. agc.select = AGC_CMD_WAIT
        BY <4>1, <4>2 DEF Settled, Sees
      <4>4. 2 \in 1 .. Entries + 2
        BY <3>2
      <4>5. Handed(2) # AGC_CMD_WAIT
        BY <4>4, <1>2, NeverAWait
      <4>6. QED
        BY <4>3, <4>5, <3>2, <1>5
    <3>5. QED
      BY <3>2, <3>3, <3>4, <1>6
  <2>2. CASE Taken(k) /\ ~agc.armed
    BY <2>2
  <2>3. CASE Missed
    <3>1. agc.status = 48 /\ Answer(3) = 51 /\ k = 3
      BY <2>3, <1>2, MissedMeans DEF Missed
    <3>2. QED
      BY <3>1, <1>4, <1>11
  <2>4. CASE size = 1 /\ k = 3 /\ agc.status = 49
    <3>1. LutMax > 1 /\ LutMax \in Nat
      BY HalAssumption
    <3>2. Answer(3) = 51
      BY <2>4, <3>1 DEF Answer, Entries
    <3>3. QED
      BY <3>2, <2>4, <1>4, <1>11
  <2>5. QED
    BY <1>5, <2>1, <2>2, <2>3, <2>4
<1>12. CASE /\ agc.status = Script[k][2] /\ k < Len(Script)
            /\ at' = "announce" /\ k' = k + 1 /\ UNCHANGED <<started, same>>
  <2>1. HostTypes'
    BY <1>1, <1>2, <1>6, <1>12 DEF HostTypes
  <2>2. HostStages'
    <3>1. k' \in 1 .. Entries' + 3
      BY <1>3, <1>4, <1>8, <1>12
    <3>2. QED
      BY <3>1, <1>1, <1>2, <1>12 DEF HostStages, InHandshake
  <2>3. Announcing'
    <3>1. CASE Taken(k) /\ ~agc.armed
      <4>1. k' - 1 = k
        BY <1>3, <1>12
      <4>2. Taken(k - 1)'
        BY <3>1, <4>1, <1>7
      <4>3. k \in 1 .. Entries + 2
        BY <1>3, <1>4, <1>12
      <4>4. agc.select # AGC_CMD_WAIT
        BY <4>3, <1>2, <1>5, NeverAWait
      <4>5. QED
        BY <3>1, <4>2, <4>4, <1>1 DEF Announcing
    <3>2. CASE size = 1 /\ k = 2 /\ Entries = 2 /\ Taken(1) /\ cuts' > 0
      <4>1. Missed'
        BY <3>2, <1>1, <1>7, <1>12 DEF Missed
      <4>2. agc.select = AGC_CMD_ABORT
        BY <3>2, <1>5 DEF Handed
      <4>3. QED
        BY <4>1, <4>2, <1>1 DEF Announcing
    <3>3. QED
      BY <3>1, <3>2, <1>11, <1>12
  <2>4. QED
    BY <2>1, <2>2, <2>3, <1>9, <1>12 DEF HalInv, Booting, Announced, HandedOver, Configured
<1>13. CASE /\ agc.status = Script[k][2] /\ k = Len(Script)
            /\ at' = "idle" /\ started' = TRUE /\ same' = TRUE /\ UNCHANGED k
  <2>1. HostTypes'
    BY <1>1, <1>2, <1>6, <1>13 DEF HostTypes
  <2>2. Taken(Entries + 3)
    BY <1>3, <1>4, <1>11, <1>13
  <2>3. /\ agc.stage = "run" /\ agc.map = conf.map /\ agc.msb = 3 /\ Len(agc.table) = size
        /\ \A i \in 1 .. size : agc.table[i] = Loaded(lut[i])
    BY <2>2, <1>3 DEF Taken
  <2>4. agc.table = [i \in 1 .. size |-> Loaded(lut[i])]
    <3>1. agc.table \in Seq(Int)
      BY <1>2 DEF AgcTypes, AgcRecords
    <3>2. agc.table = [i \in 1 .. size |-> agc.table[i]]
      BY <3>1, <2>3
    <3>3. QED
      BY <3>2, <2>3
  <2>5. chip = conf
    BY <1>1, <1>2 DEF HostStages, InHandshake
  <2>6. Configured'
    BY <2>3, <2>4, <2>5, <1>1, <1>13 DEF Configured
  <2>7. QED
    BY <2>1, <2>6, <1>9, <1>13, Outside
<1>14. QED
  BY <1>10, <1>12, <1>13 DEF Check

-----------------------------------------------------------------------------
(* The theorems. *)

LEMMA StepKeeps == ASSUME HalInv, [HNext]_halVars PROVE HalInv'
<1>1. CASE HNext
  BY <1>1, SetConfKeeps, TxgainKeeps, PreparingKeeps, LoadFirmwareKeeps, BootedKeeps,
     AnnounceKeeps, HandKeeps, CheckKeeps, AgcKeeps, BootsKeeps DEF HNext
<1>2. CASE UNCHANGED halVars
  <2>1. UNCHANGED <<started, conf, size, lut, at, k, chip, agc, same, cuts>>
    BY <1>2 DEF halVars
  <2>2. Entries' = Entries /\ Handed(k)' = Handed(k) /\ InHandshake' = InHandshake
    BY <2>1 DEF Entries, Handed, InHandshake
  <2>3. \A jj : Taken(jj) => Taken(jj)'
    BY <2>1, TakenStays
  <2>4. (Taken(k - 1) => Taken(k - 1)') /\ (Taken(k) => Taken(k)')
    BY <2>1, <2>3
  <2>5. Missed => Missed'
    BY <2>1, <2>3 DEF Missed
  <2>6. HostTypes' /\ AgcTypes' /\ HostStages' /\ Booting'
    BY <2>1, <2>2 DEF HalInv, HostTypes, AgcTypes, HostStages, Booting
  <2>7. Announcing' /\ Announced'
    BY <2>1, <2>4, <2>5 DEF HalInv, Announcing, Announced
  <2>8. HandedOver'
    BY <2>1, <2>2, <2>4, <2>5 DEF HalInv, HandedOver
  <2>9. Configured'
    BY <2>1 DEF HalInv, Configured
  <2>10. QED
    BY <2>6, <2>7, <2>8, <2>9 DEF HalInv
<1>3. QED
  BY <1>1, <1>2

LEMMA HalInvariance == HSpec => []HalInv
BY InitHolds, StepKeeps, PTL DEF HSpec

(* A start that reports success has left the modems, the frequency bits,   *)
(* the radio selection and the whole gain table in the chip, whichever     *)
(* waits of lgw_start a signal cut short; and without a cut wait no check  *)
(* of the handshake finds another status than the one it expects.          *)
THEOREM StartConfigures == HSpec => []StartedAsConfigured
<1>1. ASSUME HalInv PROVE UncutStartSucceeds
  <2>1. SUFFICES ASSUME at = "handed", Settled, cuts = 0, conf.map # AGC_CMD_WAIT
                 PROVE  agc.status = Script[k][2]
    BY DEF UncutStartSucceeds
  <2>2. HostTypes /\ HostStages
    BY <1>1 DEF HalInv
  <2>3. k \in 1 .. Entries + 3 /\ Entries \in Nat
    BY <2>1, <2>2, HalAssumption DEF HostStages, InHandshake, HostTypes, Entries
  <2>4. agc.select = Handed(k) /\ ((Taken(k - 1) /\ agc.armed) \/ Taken(k))
    BY <1>1, <2>1 DEF HalInv, HandedOver, Missed
  <2>5. Handed(k) # AGC_CMD_WAIT
    <3>1. CASE k = Entries + 3
      <4>1. size \in Nat /\ LutMax \in Nat
        BY <2>2, HalAssumption DEF HostTypes
      <4>2. Handed(k) = conf.map
        BY <3>1, <4>1 DEF Handed, Entries
      <4>3. QED
        BY <4>2, <2>1
    <3>2. CASE k # Entries + 3
      <4>1. k \in 1 .. Entries + 2
        BY <3>2, <2>3
      <4>2. QED
        BY <4>1, <2>2, NeverAWait
    <3>3. QED
      BY <3>1, <3>2
  <2>6. Taken(k)
    <3>1. SUFFICES ASSUME Taken(k - 1), agc.armed PROVE FALSE
      BY <2>4
    <3>2. k - 1 \in 0 .. Entries + 3 /\ k - 1 # Entries + 3
      BY <2>3
    <3>3. agc.stage \notin {"off", "run"}
      BY <2>2, <3>1, <3>2, StageOfTaken
    <3>4. QED
      BY <2>1, <2>4, <2>5, <3>1, <3>3 DEF Settled, Sees
  <2>7. QED
    BY <2>2, <2>3, <2>6, ScriptIs DEF Taken
<1>2. HalInv => SuccessIsConfigured
  BY DEF HalInv, Configured, SuccessIsConfigured
<1>3. QED
  BY <1>1, <1>2, HalInvariance, PTL DEF StartedAsConfigured

-----------------------------------------------------------------------------
(* Remainders. *)

LEMMA Division ==
    ASSUME NEW a \in Nat, NEW n \in Nat \ {0}
    PROVE  a \div n \in Nat /\ a % n \in 0 .. n - 1 /\ a = n * (a \div n) + (a % n)
<1>1. a \div n \in Nat OBVIOUS
<1>2. a % n \in 0 .. n - 1 OBVIOUS
<1>3. a = n * (a \div n) + (a % n) OBVIOUS
<1> QED BY <1>1, <1>2, <1>3

LEMMA MultiplesOf ==
    ASSUME NEW n \in Nat \ {0}, NEW d \in Int
    PROVE  (d <= -1 => n * d <= -n) /\ (d = 0 => n * d = 0) /\ (d >= 1 => n * d >= n)
OBVIOUS

\* What is left of a once its multiple of n is taken off.
LEMMA Remainder ==
    ASSUME NEW n \in Nat \ {0}, NEW x \in 0 .. n - 1, NEW a \in Nat,
           a = x \/ a = x + n \/ a = x + 2 * n \/ a = x + 3 * n
    PROVE  a % n = x
<1> DEFINE m == a % n
           d == a \div n
<1>1. d \in Nat /\ m \in 0 .. n - 1 /\ a = n * d + m
  BY Division
<1> HIDE DEF m, d
<1>2. PICK e \in {0, 1, 2, 3} : a = x + n * e
  OBVIOUS
<1>3. n * (d - e) = x - m
  BY <1>1, <1>2
<1>4. d - e = 0
  BY <1>1, <1>3, MultiplesOf
<1>5. m = x
  BY <1>1, <1>3, <1>4
<1> QED BY <1>5 DEF m

-----------------------------------------------------------------------------
(* Cursors. *)

LEMMA SbufShape ==
    ASSUME NEW b \in Sbufs
    PROVE  /\ b.rcursor \in 0 .. Length /\ b.wcursor \in 0 .. Length
           /\ b.buffer \in [Index -> Byte]
           /\ b = [buffer |-> b.buffer, rcursor |-> b.rcursor, wcursor |-> b.wcursor]
BY DEF Sbufs, Cursor

\* The number of bytes is how far the cursors are apart, on the circle.
LEMMA CountIs ==
    ASSUME NEW b \in Sbufs
    PROVE  /\ Count(b) \in 0 .. Length - 1
           /\ \/ b.wcursor - b.rcursor = Count(b)
              \/ b.wcursor - b.rcursor = Count(b) + Length
              \/ b.wcursor - b.rcursor = Count(b) - Length
<1> DEFINE r == b.rcursor
           w == b.wcursor
<1>1. r \in 0 .. Length /\ w \in 0 .. Length /\ Length \in Nat \ {0}
  BY SbufShape, LengthAssumption
<1>2. Count(b) = (w + Length - r) % Length
  BY DEF Count
<1> HIDE DEF r, w
<1>3. CASE w < r
  <2>1. (w + Length - r) % Length = w + Length - r
    BY <1>1, <1>3, Remainder
  <2> QED BY <1>1, <1>2, <1>3, <2>1 DEF r, w
<1>4. CASE w >= r /\ w - r < Length
  <2>1. (w + Length - r) % Length = w - r
    BY <1>1, <1>4, Remainder
  <2> QED BY <1>1, <1>2, <1>4, <2>1 DEF r, w
<1>5. CASE w - r = Length
  <2>1. (w + Length - r) % Length = 0
    BY <1>1, <1>5, Remainder
  <2>2. Count(b) = 0 /\ b.wcursor - b.rcursor = Length
    BY <1>2, <1>5, <2>1 DEF r, w
  <2> QED BY <1>1, <2>2
<1> QED BY <1>1, <1>3, <1>4, <1>5

\* The converse: what is so far apart is that many bytes.
LEMMA CountBy ==
    ASSUME NEW b \in Sbufs, NEW n \in 0 .. Length - 1,
           \/ b.wcursor - b.rcursor = n
           \/ b.wcursor - b.rcursor = n + Length
           \/ b.wcursor - b.rcursor = n - Length
    PROVE  Count(b) = n
<1> DEFINE r == b.rcursor
           w == b.wcursor
<1>1. r \in 0 .. Length /\ w \in 0 .. Length /\ Length \in Nat \ {0}
  BY SbufShape, LengthAssumption
<1>2. Count(b) = (w + Length - r) % Length
  BY DEF Count
<1>3. w - r = n \/ w - r = n + Length \/ w - r = n - Length
  OBVIOUS
<1> HIDE DEF r, w
<1> QED BY <1>1, <1>2, <1>3, Remainder

\* Where the i-th byte after a cursor lies.
Cell(c, i) == (c + i - 1) % Length

LEMMA CellIs ==
    ASSUME NEW c \in 0 .. Length, NEW i \in 1 .. Length
    PROVE  /\ Cell(c, i) \in Index
           /\ Cell(c, i) = c + i - 1 \/ Cell(c, i) = c + i - 1 - Length
<1>1. Length \in Nat \ {0}
  BY LengthAssumption
<1>2. CASE c + i - 1 < Length
  <2>1. (c + i - 1) % Length = c + i - 1
    BY <1>1, <1>2, Remainder
  <2> QED BY <1>1, <1>2, <2>1 DEF Cell, Index
<1>3. CASE c + i - 1 >= Length
  <2>1. (c + i - 1) % Length = c + i - 1 - Length
    BY <1>1, <1>3, Remainder
  <2> QED BY <1>1, <1>3, <2>1 DEF Cell, Index
<1> QED BY <1>1, <1>2, <1>3

LEMMA CellBy ==
    ASSUME NEW c \in 0 .. Length, NEW i \in 1 .. Length, NEW p \in Index,
           p = c + i - 1 \/ p = c + i - 1 - Length
    PROVE  Cell(c, i) = p
<1>1. Length \in Nat \ {0} /\ p \in 0 .. Length - 1
  BY LengthAssumption DEF Index
<1>2. (c + i - 1) % Length = p
  BY <1>1, Remainder
<1> QED BY <1>2 DEF Cell

\* The contents, byte by byte.
LEMMA ContentsAre ==
    ASSUME NEW b \in Sbufs
    PROVE  /\ Contents(b) \in Seq(Byte) /\ Len(Contents(b)) = Count(b)
           /\ \A i \in 1 .. Count(b) : Contents(b)[i] = b.buffer[Cell(b.rcursor, i)]
<1>1. Contents(b) = [i \in 1 .. Count(b) |-> b.buffer[Cell(b.rcursor, i)]]
  BY DEF Contents, FirstBytes, Cell
<1>2. Count(b) \in Nat /\ Count(b) <= Length /\ Length \in Nat
  BY CountIs, LengthAssumption
<1>3. \A i \in 1 .. Count(b) : b.buffer[Cell(b.rcursor, i)] \in Byte
  BY <1>2, SbufShape, CellIs
<1> QED BY <1>1, <1>2, <1>3

\* n bytes fewer.
LEMMA Shrinks ==
    ASSUME NEW b \in Sbufs, NEW n \in 0 .. Count(b), NEW r \in 0 .. Length,
           r = b.rcursor + n \/ r = b.rcursor + n - Length
    PROVE  LET rest == [b EXCEPT !.rcursor = r]
           IN  /\ rest \in Sbufs /\ Count(rest) = Count(b) - n
               /\ Contents(rest) = SubSeq(Contents(b), n + 1, Count(b))
<1> DEFINE rest == [b EXCEPT !.rcursor = r]
<1>1. /\ rest \in Sbufs /\ rest.rcursor = r /\ rest.wcursor = b.wcursor /\ rest.buffer = b.buffer
  BY SbufShape DEF Sbufs, Cursor
<1>2. /\ Length \in Nat \ {0} /\ Count(b) \in 0 .. Length - 1 /\ n \in Nat
      /\ b.rcursor \in 0 .. Length /\ b.wcursor \in 0 .. Length
  BY LengthAssumption, CountIs, SbufShape
<1> HIDE DEF rest
<1>3. Count(rest) = Count(b) - n
  <2>1. Count(b) - n \in 0 .. Length - 1
    BY <1>2
  <2>2. \/ b.wcursor - r = Count(b) - n
        \/ b.wcursor - r = Count(b) - n + Length
        \/ b.wcursor - r = Count(b) - n - Length
    <3>1. \/ b.wcursor - b.rcursor = Count(b)
          \/ b.wcursor - b.rcursor = Count(b) + Length
          \/ b.wcursor - b.rcursor = Count(b) - Length
      BY CountIs
    <3> QED BY <1>2, <3>1
  <2> QED BY <1>1, <2>1, <2>2, CountBy
<1>4. /\ Contents(b) \in Seq(Byte) /\ Len(Contents(b)) = Count(b)
      /\ Contents(rest) \in Seq(Byte) /\ Len(Contents(rest)) = Count(b) - n
  BY <1>1, <1>3, ContentsAre
<1>5. ASSUME NEW i \in 1 .. Count(b) - n
      PROVE  Contents(rest)[i] = Contents(b)[n + i]
  <2>1. i \in 1 .. Length /\ n + i \in 1 .. Length /\ n + i \in 1 .. Count(b)
    BY <1>2
  <2>2. Cell(r, i) = Cell(b.rcursor, n + i)
    <3>1. /\ Cell(r, i) \in Index
          /\ Cell(r, i) = r + i - 1 \/ Cell(r, i) = r + i - 1 - Length
      BY <2>1, CellIs
    <3>2. /\ Cell(r, i) \in 0 .. Length - 1
          /\ \/ Cell(r, i) = b.rcursor + (n + i) - 1
             \/ Cell(r, i) = b.rcursor + (n + i) - 1 - Length
             \/ Cell(r, i) = b.rcursor + (n + i) - 1 - 2 * Length
      BY <1>2, <2>1, <3>1 DEF Index
    <3>3. \/ Cell(r, i) = b.rcursor + (n + i) - 1
          \/ Cell(r, i) = b.rcursor + (n + i) - 1 - Length
      <4>1. Cell(r, i) # b.rcursor + (n + i) - 1 - 2 * Length
        BY <1>2, <2>1, <3>2
      <4> QED BY <3>2, <4>1
    <3> QED BY <1>2, <2>1, <3>1, <3>3, CellBy
  <2>3. Contents(rest)[i] = b.buffer[Cell(r, i)]
    BY <1>1, <1>3, ContentsAre
  <2>4. Contents(b)[n + i] = b.buffer[Cell(b.rcursor, n + i)]
    BY <2>1, ContentsAre
  <2> QED BY <2>2, <2>3, <2>4
<1>6. Contents(rest) = SubSeq(Contents(b), n + 1, Count(b))
  <2> DEFINE s == Contents(b)
             t == Contents(rest)
  <2>1. /\ s \in Seq(Byte) /\ Len(s) = Count(b) /\ t \in Seq(Byte) /\ Len(t) = Count(b) - n
        /\ \A i \in 1 .. Count(b) - n : t[i] = s[n + i]
    BY <1>4, <1>5
  <2> HIDE DEF s, t
  <2>2. /\ SubSeq(s, n + 1, Count(b)) \in Seq(Byte)
        /\ Len(SubSeq(s, n + 1, Count(b))) = Count(b) - n
        /\ \A i \in 1 .. Count(b) - n : SubSeq(s, n + 1, Count(b))[i] = s[n + i]
    BY <1>2, <2>1
  <2>3. t = SubSeq(s, n + 1, Count(b))
    BY <2>1, <2>2, SeqEqual
  <2> QED BY <2>3 DEF s, t
<1> QED BY <1>1, <1>3, <1>6 DEF rest

\* A chunk that fits goes behind what is there.
LEMMA Grows ==
    ASSUME NEW b \in Sbufs, NEW n \in Nat, NEW chunk \in [1 .. n -> Byte],
           Count(b) + n <= Length - 1
    PROVE  /\ In(b, chunk) \in Sbufs /\ Count(In(b, chunk)) = Count(b) + n
           /\ Contents(In(b, chunk)) = Contents(b) \o chunk
<1> DEFINE full == In(b, chunk)
           r == b.rcursor
           w == b.wcursor
           last == Advance(w, n)
<1>0. Len(chunk) = n /\ chunk \in Seq(Byte)
  OBVIOUS
<1>1. /\ Length \in Nat \ {0} /\ Count(b) \in 0 .. Length - 1
      /\ n \in Nat /\ n <= Length - 1 /\ Count(b) + n <= Length - 1
      /\ r \in 0 .. Length /\ w \in 0 .. Length
  BY LengthAssumption, CountIs, SbufShape
<1>2. last \in 0 .. Length /\ (last = w + n \/ last = w + n - Length)
  <2> HIDE DEF w
  <2>1. CASE n <= Length - w
    BY <1>1, <2>1 DEF Advance
  <2>2. CASE n > Length - w
    BY <1>1, <2>2 DEF Advance
  <2> QED BY <1>1, <2>1, <2>2
<1>3. ASSUME NEW p \in Index
      PROVE  (p + Length - w) % Length \in 0 .. Length - 1
  <2>1. p + Length - w \in Nat
    BY <1>1 DEF Index
  <2> QED BY <1>1, <2>1, Division
<1> DEFINE off(p) == (p + Length - w) % Length
<1>4. full.buffer = [p \in Index |-> IF off(p) < n THEN chunk[off(p) + 1] ELSE b.buffer[p]]
  BY <1>1, SbufShape DEF In
<1>5. full.rcursor = r /\ full.wcursor = last
  BY <1>1, SbufShape DEF In
<1>6. full \in Sbufs
  <2>2. ASSUME NEW p \in Index
        PROVE  (IF off(p) < n THEN chunk[off(p) + 1] ELSE b.buffer[p]) \in Byte
    <3>1. off(p) \in 0 .. Length - 1
      BY <1>3
    <3>2. b.buffer[p] \in Byte
      BY SbufShape
    <3> HIDE DEF off
    <3>3. CASE off(p) < n
      BY <1>1, <3>1, <3>3
    <3> QED BY <3>2, <3>3
  <2>3. full.buffer \in [Index -> Byte]
    BY <1>4, <2>2
  <2> DEFINE cells == [p \in Index |->
                        LET i == (p + Length - b.wcursor) % Length
                        IN  IF i < Len(chunk) THEN chunk[i + 1] ELSE b.buffer[p]]
  <2>4. full = [b EXCEPT !.buffer = cells, !.wcursor = last]
    BY <1>0 DEF In
  <2>5. cells \in [Index -> Byte]
    BY <1>0, <2>2
  <2> HIDE DEF full, cells, last
  <2> QED BY <1>2, <2>4, <2>5, SbufShape DEF Sbufs, Cursor
<1> HIDE DEF full
<1>7. /\ \/ w - r = Count(b)
         \/ w - r = Count(b) + Length
         \/ w - r = Count(b) - Length
  BY CountIs
<1>8. Count(full) = Count(b) + n
  <2>1. \/ last - r = Count(b) + n
        \/ last - r = Count(b) + n + Length
        \/ last - r = Count(b) + n - Length
    <3> HIDE DEF last, r, w
    <3>1. CASE last = w + n
      BY <1>1, <1>2, <1>7, <3>1
    <3>2. CASE last = w + n - Length
      BY <1>1, <1>2, <1>7, <3>2
    <3> QED BY <1>2, <3>1, <3>2
  <2>2. Count(b) + n \in 0 .. Length - 1
    BY <1>1
  <2> DEFINE c == Count(b) + n
  <2>3. \/ full.wcursor - full.rcursor = c
        \/ full.wcursor - full.rcursor = c + Length
        \/ full.wcursor - full.rcursor = c - Length
    <3> HIDE DEF last, r
    <3> QED BY <1>1, <1>2, <1>5, <2>1, <2>2
  <2>4. c \in 0 .. Length - 1
    BY <2>2
  <2> HIDE DEF c
  <2>5. Count(full) = c
    BY <1>6, <2>3, <2>4, CountBy
  <2> QED BY <2>5 DEF c
\* A cell that held a byte keeps it; the next n cells have the chunk.
<1>9. ASSUME NEW i \in 1 .. Count(b) + n
      PROVE  /\ i <= Count(b) => off(Cell(r, i)) >= n
             /\ i > Count(b)  => off(Cell(r, i)) = i - Count(b) - 1
  <2> DEFINE p == Cell(r, i)
             a == p + Length - w
  <2>0. i \in 1 .. Length /\ i \in Nat
    BY <1>1
  <2>1. p \in 0 .. Length - 1 /\ (p = r + i - 1 \/ p = r + i - 1 - Length)
    BY <1>1, <2>0, CellIs DEF Index
  <2>2. a \in Nat /\ off(p) = a % Length
    BY <1>1, <2>1
  <2> HIDE DEF p, w, r
  <2>3. CASE i <= Count(b)
    <3> DEFINE x == Length - Count(b) + i - 1
    <3>1. x \in 0 .. Length - 1 /\ x >= n
      BY <1>1, <2>3
    <3>2. a = x \/ a = x + Length \/ a = x + 2 * Length
      <4>1. \/ a = x - Length \/ a = x \/ a = x + Length \/ a = x + 2 * Length
        <5>1. CASE p = r + i - 1
          BY <1>1, <1>7, <2>0, <2>1, <5>1, SMTT(30)
        <5>2. CASE p = r + i - 1 - Length
          BY <1>1, <1>7, <2>0, <2>1, <5>2, SMTT(30)
        <5> QED BY <2>1, <5>1, <5>2
      <4> QED BY <1>1, <2>2, <3>1, <4>1
    <3> HIDE DEF a, x
    <3>3. a % Length = x
      BY <1>1, <2>2, <3>1, <3>2, Remainder
    <3> QED BY <1>1, <2>2, <2>3, <3>1, <3>3 DEF p
  <2>4. CASE i > Count(b)
    <3> DEFINE x == i - Count(b) - 1
    <3>1. x \in 0 .. Length - 1
      BY <1>1, <2>4
    <3>2. a = x \/ a = x + Length \/ a = x + 2 * Length
      <4>1. \/ a = x - Length \/ a = x \/ a = x + Length \/ a = x + 2 * Length
        <5>1. CASE p = r + i - 1
          BY <1>1, <1>7, <2>0, <2>1, <5>1, SMTT(30)
        <5>2. CASE p = r + i - 1 - Length
          BY <1>1, <1>7, <2>0, <2>1, <5>2
        <5> QED BY <2>1, <5>1, <5>2
      <4> QED BY <1>1, <2>2, <3>1, <4>1
    <3>3. a % Length = x
      <4> HIDE DEF a, x
      <4> QED BY <1>1, <2>2, <3>1, <3>2, Remainder
    <3> QED BY <1>1, <2>2, <2>4, <3>1, <3>3 DEF p
  <2> QED BY <1>1, <2>3, <2>4
<1>10. ASSUME NEW i \in 1 .. Count(b) + n
       PROVE  Contents(full)[i] = IF i <= Count(b) THEN Contents(b)[i] ELSE chunk[i - Count(b)]
  <2>1. Contents(full)[i] = full.buffer[Cell(r, i)] /\ Cell(r, i) \in Index
    BY <1>1, <1>5, <1>6, <1>8, ContentsAre, CellIs
  <2>2. CASE i <= Count(b)
    <3>1. Contents(b)[i] = b.buffer[Cell(r, i)]
      BY <1>1, <2>2, ContentsAre
    <3>2. off(Cell(r, i)) \in Nat /\ off(Cell(r, i)) >= n
      BY <1>1, <1>3, <1>9, <2>1, <2>2
    <3> HIDE DEF off
    <3> QED BY <1>1, <1>4, <2>1, <2>2, <3>1, <3>2
  <2>3. CASE i > Count(b)
    <3>1. off(Cell(r, i)) = i - Count(b) - 1
      BY <1>9, <2>3
    <3>2. i - Count(b) - 1 < n /\ i - Count(b) - 1 + 1 = i - Count(b)
      BY <1>1, <2>3
    <3> HIDE DEF off
    <3> QED BY <1>1, <1>4, <2>1, <2>3, <3>1, <3>2
  <2> QED BY <1>1, <2>2, <2>3
<1>11. Contents(full) = Contents(b) \o chunk
  <2> DEFINE s == Contents(b)
             t == Contents(full)
  <2>1. s \in Seq(Byte) /\ t \in Seq(Byte) /\ Len(s) = Count(b) /\ Len(t) = Count(b) + n
    BY <1>6, <1>8, ContentsAre
  <2>2. \A i \in 1 .. Count(b) + n : t[i] = IF i <= Count(b) THEN s[i] ELSE chunk[i - Count(b)]
    BY <1>10
  <2> HIDE DEF s, t
  <2>3. /\ s \o chunk \in Seq(Byte) /\ Len(s \o chunk) = Count(b) + n
        /\ \A i \in 1 .. Count(b) + n :
              (s \o chunk)[i] = IF i <= Count(b) THEN s[i] ELSE chunk[i - Count(b)]
    <3>1. /\ s \o chunk \in Seq(Byte) /\ Len(s \o chunk) = Len(s) + Len(chunk)
          /\ \A i \in 1 .. Len(s) + Len(chunk) :
                (s \o chunk)[i] = IF i <= Len(s) THEN s[i] ELSE chunk[i - Len(s)]
      BY <1>0, <2>1, ConcatProperties
    <3> QED BY <1>0, <2>1, <3>1
  <2>4. t = s \o chunk
    BY <2>1, <2>2, <2>3, SeqEqual
  <2> QED BY <2>4 DEF s, t
<1> QED BY <1>6, <1>8, <1>11 DEF full

\* The sum of the code's unsigned cursors, for places less than Length away.
LEMMA AddLength ==
    ASSUME NEW a \in 0 .. 2 * Length - 1
    PROVE  ((a + Length) % Wrap) % Length = a % Length
<1> DEFINE x == a % Length
           y == a + Length
<1>1. /\ Length \in Nat \ {0} /\ Wrap \in Nat \ {0} /\ a \in Nat
      /\ y \in 0 .. Wrap - 1 /\ y \in Nat
  BY LengthAssumption
<1>2. y % Wrap = y
  <2> HIDE DEF y
  <2> QED BY <1>1, Remainder
<1>3. x \in 0 .. Length - 1 /\ (a = x \/ a = x + Length)
  <2>1. CASE a < Length
    <3>1. a % Length = a
      BY <1>1, <2>1, Remainder
    <3> QED BY <1>1, <2>1, <3>1
  <2>2. CASE a >= Length
    <3>1. a % Length = a - Length
      BY <1>1, <2>2, Remainder
    <3> QED BY <1>1, <2>2, <3>1
  <2> QED BY <1>1, <2>1, <2>2
<1>4. y % Length = x
  <2>1. y = x + Length \/ y = x + 2 * Length
    <3> HIDE DEF x
    <3> QED BY <1>1, <1>3
  <2> HIDE DEF x, y
  <2> QED BY <1>1, <1>3, <2>1, Remainder
<1> QED BY <1>2, <1>4

\* The bytes at the head, as sbuf_get_position finds them.
LEMMA ByteAtIs ==
    ASSUME NEW b \in Sbufs, NEW off \in 0 .. Length - 1
    PROVE  /\ ByteAt(b, off) \in Byte
           /\ off < Count(b) => ByteAt(b, off) = Contents(b)[off + 1]
<1> DEFINE r == b.rcursor
<1>1. Length \in Nat \ {0} /\ r \in 0 .. Length /\ off \in Nat
  BY LengthAssumption, SbufShape
<1> HIDE DEF r
<1>2. r + off \in 0 .. 2 * Length - 1 /\ off + 1 \in 1 .. Length
  BY <1>1
<1>3. ((r + off + Length) % Wrap) % Length = (r + off) % Length
  BY <1>2, AddLength
<1>4. (r + off) % Length = Cell(r, off + 1)
  <2>1. r + (off + 1) - 1 = r + off
    BY <1>1
  <2> QED BY <2>1 DEF Cell
<1>5. ByteAt(b, off) = b.buffer[Cell(r, off + 1)]
  BY <1>3, <1>4 DEF ByteAt, r
<1>6. Cell(r, off + 1) \in Index
  BY <1>1, <1>2, CellIs
<1>7. ByteAt(b, off) \in Byte
  BY <1>5, <1>6, SbufShape
<1>8. ASSUME off < Count(b)
      PROVE  ByteAt(b, off) = Contents(b)[off + 1]
  <2>1. off + 1 \in 1 .. Count(b)
    BY <1>1, <1>8, CountIs
  <2> QED BY <1>5, <2>1, ContentsAre DEF r
<1> QED BY <1>7, <1>8

\* sbuf_out of n bytes.
LEMMA TakeIs ==
    ASSUME NEW b \in Sbufs, NEW n \in 0 .. Count(b)
    PROVE  /\ Out(b, n) \in Sbufs /\ Count(Out(b, n)) = Count(b) - n
           /\ Contents(Out(b, n)) = SubSeq(Contents(b), n + 1, Count(b))
           /\ FirstBytes(b, n) = SubSeq(Contents(b), 1, n)
           /\ FirstBytes(b, n) \in Seq(Byte)
<1> DEFINE r == Advance(b.rcursor, n)
<1>1. /\ Length \in Nat \ {0} /\ Count(b) \in 0 .. Length - 1 /\ n \in Nat /\ n <= Count(b)
      /\ b.rcursor \in 0 .. Length
  BY LengthAssumption, CountIs, SbufShape
<1>2. r \in 0 .. Length /\ (r = b.rcursor + n \/ r = b.rcursor + n - Length)
  <2>1. CASE n <= Length - b.rcursor
    BY <1>1, <2>1 DEF Advance
  <2>2. CASE n > Length - b.rcursor
    BY <1>1, <2>2 DEF Advance
  <2> QED BY <1>1, <2>1, <2>2
<1>3. Out(b, n) = [b EXCEPT !.rcursor = r]
  BY DEF Out
<1> HIDE DEF r
<1>4. /\ Out(b, n) \in Sbufs /\ Count(Out(b, n)) = Count(b) - n
      /\ Contents(Out(b, n)) = SubSeq(Contents(b), n + 1, Count(b))
  BY <1>2, <1>3, Shrinks
<1>5. FirstBytes(b, n) = [i \in 1 .. n |-> Contents(b)[i]]
  <2>1. \A i \in 1 .. n : i \in 1 .. Count(b)
    BY <1>1
  <2>2. FirstBytes(b, n) = [i \in 1 .. n |-> b.buffer[Cell(b.rcursor, i)]]
    BY DEF FirstBytes, Cell
  <2> QED BY <2>1, <2>2, ContentsAre
<1>6. FirstBytes(b, n) = SubSeq(Contents(b), 1, n) /\ FirstBytes(b, n) \in Seq(Byte)
  <2> DEFINE s == Contents(b)
             t == FirstBytes(b, n)
  <2>1. s \in Seq(Byte) /\ Len(s) = Count(b) /\ t = [i \in 1 .. n |-> s[i]]
    BY <1>5, ContentsAre
  <2> HIDE DEF s, t
  <2>2. t \in Seq(Byte) /\ Len(t) = n /\ \A i \in 1 .. n : t[i] = s[i]
    BY <1>1, <2>1
  <2>3. /\ SubSeq(s, 1, n) \in Seq(Byte) /\ Len(SubSeq(s, 1, n)) = n
        /\ \A i \in 1 .. n : SubSeq(s, 1, n)[i] = s[i]
    BY <1>1, <2>1
  <2>4. t = SubSeq(s, 1, n)
    BY <2>2, <2>3, SeqEqual
  <2> QED BY <2>2, <2>4 DEF s, t
<1> QED BY <1>4, <1>6

\* One byte fewer: the cursor on the next place, wherever the sum of the
\* code's unsigned ints comes from.
LEMMA SkipIs ==
    ASSUME NEW b \in Sbufs, Count(b) > 0
    PROVE  /\ ChangeCursor(b, 1) \in Sbufs /\ Count(ChangeCursor(b, 1)) = Count(b) - 1
           /\ Contents(ChangeCursor(b, 1)) = SubSeq(Contents(b), 2, Count(b))
<1> DEFINE r == b.rcursor
           next == ((r + 1 + Length) % Wrap) % Length
<1>1. /\ Length \in Nat \ {0, 1} /\ r \in 0 .. Length
      /\ Count(b) \in 0 .. Length - 1 /\ 1 \in 0 .. Count(b)
  BY LengthAssumption, SbufShape, CountIs
<1>2. next = (r + 1) % Length
  <2> HIDE DEF r
  <2>1. r + 1 \in 0 .. 2 * Length - 1
    BY <1>1
  <2> QED BY <2>1, AddLength
<1>3. next \in 0 .. Length /\ (next = r + 1 \/ next = r + 1 - Length)
  <2> HIDE DEF r
  <2>1. CASE r + 1 < Length
    <3>1. Length \in Nat \ {0} /\ r + 1 \in 0 .. Length - 1 /\ r + 1 \in Nat
      BY <1>1, <2>1
    <3>2. (r + 1) % Length = r + 1
      BY <3>1, Remainder
    <3> QED BY <1>1, <1>2, <2>1, <3>2
  <2>2. CASE r + 1 >= Length
    <3> DEFINE x == r + 1 - Length
    <3>1. /\ Length \in Nat \ {0} /\ x \in 0 .. Length - 1 /\ r + 1 \in Nat
          /\ r + 1 = x + Length
      BY <1>1, <2>2
    <3> HIDE DEF x
    <3>2. (r + 1) % Length = x
      BY <3>1, Remainder
    <3> QED BY <1>1, <1>2, <2>2, <3>2 DEF x
  <2> QED BY <1>1, <2>1, <2>2
<1>4. ChangeCursor(b, 1) = [b EXCEPT !.rcursor = next]
  BY DEF ChangeCursor
<1> HIDE DEF next
<1>5. 1 + 1 = 2
  OBVIOUS
<1> QED BY <1>1, <1>3, <1>4, <1>5, Shrinks

\* A rejected frame: taken off, put back by adding 0 - n, and its first byte
\* skipped, which is as much as to skip that byte.
LEMMA PutBackIs ==
    ASSUME NEW b \in Sbufs, NEW n \in 1 .. Count(b)
    PROVE  LET back == ChangeCursor(ChangeCursor(Out(b, n), Wrap - n), 1)
           IN  /\ back \in Sbufs /\ Count(back) = Count(b) - 1
               /\ Contents(back) = SubSeq(Contents(b), 2, Count(b))
<1> DEFINE r  == b.rcursor
           r1 == Advance(r, n)
           r2 == ((r1 + (Wrap - n) + Length) % Wrap) % Length
           r3 == ((r2 + 1 + Length) % Wrap) % Length
<1>1. /\ Length \in Nat \ {0, 1} /\ Length \in Nat \ {0} /\ Wrap \in Nat \ {0}
      /\ Wrap > 3 * Length /\ r \in 0 .. Length /\ n \in Nat /\ n >= 1 /\ n <= Length - 1
  BY LengthAssumption, SbufShape, CountIs
<1>2. r1 = r + n \/ r1 = r + n - Length
  <2>1. r1 = r + n \/ r1 = n - (Length - r)
    BY DEF Advance
  <2> HIDE DEF r, r1
  <2> QED BY <1>1, <2>1
<1>3. ChangeCursor(ChangeCursor(Out(b, n), Wrap - n), 1) = [b EXCEPT !.rcursor = r3]
  BY SbufShape DEF ChangeCursor, Out
<1> DEFINE home == IF r = Length THEN 0 ELSE r
<1>4. r2 = home
  <2> DEFINE y == r1 + (Wrap - n) + Length
  <2>1. y = r + Length + Wrap \/ y = r + Wrap
    <3> HIDE DEF r1, r
    <3> QED BY <1>1, <1>2
  <2>2. y % Wrap \in {r, r + Length}
    <3>1. CASE y = r + Length + Wrap
      <4> DEFINE x == r + Length
      <4>1. x \in 0 .. Wrap - 1 /\ y \in Nat /\ y = x + Wrap
        <5> HIDE DEF r, y
        <5> QED BY <1>1, <3>1
      <4> HIDE DEF x, y
      <4>2. y % Wrap = x
        BY <1>1, <4>1, Remainder
      <4> QED BY <4>2 DEF x
    <3>2. CASE y = r + Wrap
      <4>1. r \in 0 .. Wrap - 1 /\ y \in Nat
        <5> HIDE DEF r, y
        <5> QED BY <1>1, <3>2
      <4> HIDE DEF r, y
      <4>2. y % Wrap = r
        BY <1>1, <3>2, <4>1, Remainder
      <4> QED BY <4>2
    <3> QED BY <2>1, <3>1, <3>2
  <2> DEFINE z == y % Wrap
  <2>3. /\ z \in Nat /\ home \in 0 .. Length - 1
        /\ z = home \/ z = home + Length \/ z = home + 2 * Length
    <3>1. z \in {r, r + Length}
      BY <2>2
    <3> HIDE DEF z, r
    <3>2. CASE r = Length
      BY <1>1, <3>1, <3>2
    <3>3. CASE r # Length
      BY <1>1, <3>1, <3>3
    <3> QED BY <3>2, <3>3
  <2>4. r2 = z % Length
    OBVIOUS
  <2> HIDE DEF z, home, r2
  <2> QED BY <1>1, <2>3, <2>4, Remainder
<1>5. r3 \in 0 .. Length /\ (r3 = r + 1 \/ r3 = r + 1 - Length)
  <2>1. home \in 0 .. Length - 1 /\ (home = r \/ (home = 0 /\ r = Length))
    <3> HIDE DEF r
    <3> QED BY <1>1
  <2> HIDE DEF home, r
  <2>2. r3 = ((home + 1 + Length) % Wrap) % Length
    <3> HIDE DEF r2
    <3> QED BY <1>4
  <2> HIDE DEF r3
  <2>3. home + 1 \in 0 .. 2 * Length - 1 /\ home + 1 \in Nat
    BY <1>1, <2>1
  <2>4. r3 = (home + 1) % Length
    BY <2>2, <2>3, AddLength
  <2>5. CASE home + 1 < Length
    <3>1. home + 1 \in 0 .. Length - 1
      BY <2>3, <2>5, <1>1
    <3>2. r3 = home + 1
      BY <1>1, <2>3, <2>4, <3>1, Remainder
    <3> QED BY <1>1, <2>1, <3>1, <3>2
  <2>6. CASE home + 1 = Length
    <3>1. 0 \in 0 .. Length - 1 /\ home + 1 = 0 + Length
      BY <1>1, <2>6
    <3>2. r3 = 0
      BY <1>1, <2>3, <2>4, <3>1, Remainder
    <3> QED BY <1>1, <2>1, <2>6, <3>2
  <2> QED BY <1>1, <2>1, <2>5, <2>6
<1>6. 1 \in 0 .. Count(b) /\ 1 + 1 = 2
  BY CountIs
<1> HIDE DEF r3
<1> QED BY <1>3, <1>5, <1>6, Shrinks

\* The fresh buffer is empty.
LEMMA FreshIs ==
    ASSUME NEW x \in Byte
    PROVE  LET b == SbufInit([i \in Index |-> x])
           IN  b \in Sbufs /\ Count(b) = 0 /\ Contents(b) = <<>>
<1> DEFINE b == SbufInit([i \in Index |-> x])
<1>1. Length \in Nat \ {0}
  BY LengthAssumption
<1>2. b \in Sbufs
  BY <1>1 DEF SbufInit, Sbufs, Cursor
<1>3. b.wcursor - b.rcursor = 0 /\ 0 \in 0 .. Length - 1
  BY <1>1 DEF SbufInit
<1> HIDE DEF b
<1>4. Count(b) = 0
  BY <1>2, <1>3, CountBy
<1>5. Contents(b) \in Seq(Byte) /\ Len(Contents(b)) = 0
  BY <1>2, <1>4, ContentsAre
<1>6. Contents(b) = <<>>
  BY <1>5, EmptySeq
<1> QED BY <1>2, <1>4, <1>6 DEF b

-----------------------------------------------------------------------------
(* The invariant, and what each operation does to the queue. *)

\* While the search runs, rounds done and bytes left are the count it began
\* with: that is why a search that ends has left one byte at most.
RoundsAreBytes == pc = "search" => j + Count(sb) = count

ZInv == TypeOK /\ RoundsAreBytes /\ Drained

\* What the two bytes at the head say of the frame there.
LEMMA HeadIs ==
    ASSUME TypeOK, Count(sb) > 1
    PROVE  LET s == Contents(sb)
           IN  /\ AtToken <=> s[1] = Token
               /\ OutLen = Queue!FrameLen(s) /\ OutLen \in Nat /\ OutLen >= 2
               /\ (AtToken /\ HasFrame) <=> Queue!Complete(s)
<1> DEFINE s == Contents(sb)
<1>1. /\ sb \in Sbufs /\ Length \in Nat \ {0, 1} /\ Count(sb) \in 0 .. Length - 1
      /\ 0 \in 0 .. Length - 1 /\ 1 \in 0 .. Length - 1 /\ 0 + 1 = 1 /\ 1 + 1 = 2
  BY CountIs, LengthAssumption DEF TypeOK
<1>2. ByteAt(sb, 0) = s[1]
  <2>1. 0 < Count(sb)
    BY <1>1
  <2> QED BY <1>1, <2>1, ByteAtIs
<1>3. ByteAt(sb, 1) = s[2] /\ ByteAt(sb, 1) \in Nat
  <2>1. 1 < Count(sb)
    BY <1>1
  <2> QED BY <1>1, <2>1, ByteAtIs, ByteAssumption
<1>4. Len(s) = Count(sb)
  BY <1>1, ContentsAre
<1> HIDE DEF s
<1>5. AtToken <=> s[1] = Token
  BY <1>2 DEF AtToken
<1>6. OutLen = Queue!FrameLen(s) /\ OutLen \in Nat /\ OutLen >= 2
  BY <1>3 DEF OutLen, Queue!FrameLen
<1>7. (AtToken /\ HasFrame) <=> Queue!Complete(s)
  <2>1. Queue!Complete(s) <=> Count(sb) > 2 /\ s[1] = Token /\ OutLen <= Count(sb)
    BY <1>4, <1>6 DEF Queue!Complete
  <2>2. HasFrame <=> Count(sb) > 2 /\ OutLen <= Count(sb)
    BY <1>1, <1>6 DEF HasFrame
  <2> QED BY <1>5, <2>1, <2>2
<1> QED BY <1>5, <1>6, <1>7 DEF s

\* A complete frame, and its check.
LEMMA FrameIs ==
    ASSUME TypeOK, AtToken, HasFrame
    PROVE  /\ Count(sb) > 1 /\ Count(sb) \in Nat /\ OutLen \in 1 .. Count(sb) /\ OutLen >= 2
           /\ Queue!Complete(Contents(sb))
           /\ Queue!Valid(Contents(sb)) <=> CheckCrc(FirstBytes(sb, OutLen))
<1> DEFINE s == Contents(sb)
<1>1. sb \in Sbufs /\ Count(sb) \in Nat /\ Count(sb) > 1
  BY CountIs, LengthAssumption DEF TypeOK, HasFrame
<1>2. /\ OutLen = Queue!FrameLen(s) /\ OutLen \in Nat /\ OutLen >= 2 /\ Queue!Complete(s)
  BY <1>1, HeadIs
<1>3. OutLen <= Count(sb)
  <2> HIDE DEF s
  <2> QED BY <1>1, <1>2 DEF HasFrame
<1>4. OutLen \in 1 .. Count(sb) /\ OutLen \in 0 .. Count(sb)
  BY <1>1, <1>2, <1>3
<1>5. FirstBytes(sb, OutLen) = SubSeq(s, 1, OutLen)
  BY <1>1, <1>4, TakeIs
<1>6. Queue!Valid(s) <=> CheckCrc(FirstBytes(sb, OutLen))
  <2> HIDE DEF s
  <2> QED BY <1>2, <1>5 DEF Queue!Valid
<1> QED BY <1>1, <1>2, <1>4, <1>6

\* A chunk is appended, or refused because it does not fit.
LEMMA ReadIs ==
    ASSUME TypeOK, NEW chunk \in Chunks, Read(chunk)
    PROVE  /\ Len(chunk) \in 1 .. BufSize /\ chunk \in Seq(Byte)
           /\ refused' \in BOOLEAN /\ sb' \in Sbufs
           /\ refused'  => sb' = sb /\ Count(sb) + Len(chunk) > Length - 1
           /\ ~refused' => /\ Count(sb) + Len(chunk) <= Length - 1
                           /\ Count(sb') = Count(sb) + Len(chunk)
                           /\ Contents(sb') = Contents(sb) \o chunk
<1>1. PICK n \in 1 .. BufSize : chunk \in [1 .. n -> Byte]
  BY DEF Chunks
<1>2. Len(chunk) = n /\ chunk \in Seq(Byte)
  BY <1>1, BufSizeAssumption
<1>3. /\ Length \in Nat /\ n \in Nat /\ n <= BufSize /\ BufSize \in Nat /\ n >= 1
      /\ BufSize + 2 < Length /\ sb \in Sbufs
  BY <1>1, BufSizeAssumption, LengthAssumption DEF TypeOK
<1>4. Count(sb) \in 0 .. Length - 1
  BY <1>3, CountIs
<1> DEFINE x == Count(sb) + n
<1>5. x \in 0 .. Wrap - 1 /\ x \in Nat /\ Wrap \in Nat \ {0}
  BY <1>3, <1>4, LengthAssumption
<1>6. x % Wrap = x
  <2> HIDE DEF x
  <2> QED BY <1>5, Remainder
<1>7. IsOverflow(sb, Len(chunk)) <=> x > Length - 1
  BY <1>2, <1>6 DEF IsOverflow
<1>8. refused' = IsOverflow(sb, Len(chunk)) /\ sb' = IF refused' THEN sb ELSE In(sb, chunk)
  BY DEF Read
<1>9. refused' \in BOOLEAN
  BY <1>8 DEF IsOverflow
<1>10. CASE refused'
  BY <1>2, <1>3, <1>7, <1>8, <1>10
<1>11. CASE ~refused'
  <2>1. Count(sb) + n <= Length - 1 /\ sb' = In(sb, chunk)
    BY <1>3, <1>4, <1>7, <1>8, <1>11
  <2>2. /\ In(sb, chunk) \in Sbufs /\ Count(In(sb, chunk)) = Count(sb) + n
        /\ Contents(In(sb, chunk)) = Contents(sb) \o chunk
    BY <1>1, <1>3, <2>1, Grows
  <2> QED BY <1>2, <1>3, <1>9, <1>11, <2>1, <2>2
<1> QED BY <1>9, <1>10, <1>11

LEMMA InitInv == Init => ZInv
<1> SUFFICES ASSUME Init PROVE ZInv
  OBVIOUS
<1>1. PICK b \in Byte : Fresh([i \in Index |-> b])
  BY DEF Init
<1>2. /\ pc = "read" /\ sb = SbufInit([i \in Index |-> b])
      /\ j = 0 /\ count = 0 /\ frame = <<>> /\ refused = FALSE
  BY <1>1 DEF Fresh
<1>3. sb \in Sbufs /\ Count(sb) = 0
  BY <1>2, FreshIs
<1>4. TypeOK
  <2>1. count \in 0 .. Length - 1 /\ j \in Nat /\ frame \in Seq(Byte)
    BY <1>2, LengthAssumption
  <2> QED BY <1>2, <1>3, <2>1 DEF TypeOK
<1>5. RoundsAreBytes
  BY <1>2 DEF RoundsAreBytes
<1>6. Drained
  BY <1>3 DEF Drained
<1> QED BY <1>4, <1>5, <1>6 DEF ZInv

\* A search begun anew on what the buffer holds.
LEMMA SearchBegins ==
    ASSUME sb' \in Sbufs, frame' \in Seq(Byte), refused' \in BOOLEAN, StartSearch(sb')
    PROVE  ZInv'
<1>1. pc' = "search" /\ j' = 0 /\ count' = Count(sb')
  BY DEF StartSearch
<1>2. Count(sb') \in 0 .. Length - 1 /\ Length \in Nat
  BY CountIs, LengthAssumption
<1>3. TypeOK'
  BY <1>1, <1>2 DEF TypeOK
<1>4. RoundsAreBytes'
  BY <1>1, <1>2 DEF RoundsAreBytes
<1>5. Drained'
  BY <1>1 DEF Drained
<1> QED BY <1>3, <1>4, <1>5 DEF ZInv

\* A round of the search that takes one byte.
LEMMA RoundPasses ==
    ASSUME ZInv, InLoop, j' = j + 1, UNCHANGED <<pc, count, frame, refused>>,
           sb' \in Sbufs, Count(sb') = Count(sb) - 1
    PROVE  ZInv'
<1>1. TypeOK /\ pc' = "search" /\ j + Count(sb) = count
  BY DEF ZInv, RoundsAreBytes, InLoop
<1>2. j \in Nat /\ Count(sb) \in 0 .. Length - 1 /\ Length \in Nat
  BY <1>1, CountIs, LengthAssumption DEF TypeOK
<1>3. TypeOK'
  BY <1>1, <1>2 DEF TypeOK
<1>4. j' + Count(sb') = count'
  BY <1>1, <1>2
<1>5. RoundsAreBytes' /\ Drained'
  BY <1>1, <1>4 DEF RoundsAreBytes, Drained
<1> QED BY <1>3, <1>5 DEF ZInv

\* While the loop runs, two bytes are left.
LEMMA LoopHasBytes ==
    ASSUME ZInv, InLoop
    PROVE  Count(sb) > 1 /\ Count(sb) \in Nat /\ sb \in Sbufs
<1>1. j + Count(sb) = count /\ j <= count - 2 /\ j \in Nat /\ sb \in Sbufs /\ count \in 0 .. Length - 1
  BY DEF ZInv, RoundsAreBytes, InLoop, TypeOK
<1>2. Count(sb) \in 0 .. Length - 1 /\ Length \in Nat
  BY <1>1, CountIs, LengthAssumption
<1> QED BY <1>1, <1>2

LEMMA StepInv == ZInv /\ [Next]_vars => ZInv'
<1> SUFFICES ASSUME ZInv, [Next]_vars PROVE ZInv'
  OBVIOUS
<1>0. /\ TypeOK /\ sb \in Sbufs /\ frame \in Seq(Byte) /\ refused \in BOOLEAN
      /\ j \in Nat /\ count \in 0 .. Length - 1 /\ Drained
  BY DEF ZInv, TypeOK
<1>1. ASSUME NEW chunk \in Chunks, Read(chunk)
      PROVE  ZInv'
  <2>1. sb' \in Sbufs /\ refused' \in BOOLEAN
    BY <1>0, <1>1, ReadIs
  <2>2. StartSearch(sb') /\ frame' = frame
    BY <1>1 DEF Read
  <2> QED BY <1>0, <2>1, <2>2, SearchBegins
<1>2. CASE ReadFails
  <2>1. sb' = sb /\ frame' = frame /\ refused' = refused
    BY <1>2 DEF ReadFails
  <2>2. CASE StartSearch(sb)
    BY <1>0, <2>1, <2>2, SearchBegins
  <2>3. CASE pc' = "dead" /\ UNCHANGED <<j, count>>
    BY <1>0, <2>1, <2>3 DEF ZInv, TypeOK, RoundsAreBytes, Drained
  <2> QED BY <1>2, <2>2, <2>3 DEF ReadFails
<1>3. CASE Restart
  <2>1. PICK b \in Byte : sb' = SbufInit([i \in Index |-> b])
    BY <1>3 DEF Restart
  <2>2. sb' \in Sbufs /\ Count(sb') = 0
    BY <2>1, FreshIs
  <2>3. pc' = "read" /\ j' = 0 /\ count' = 0 /\ frame' = <<>> /\ refused' = FALSE
    BY <1>3 DEF Restart
  <2>4. TypeOK'
    <3>1. count' \in 0 .. Length - 1 /\ j' \in Nat /\ frame' \in Seq(Byte)
      BY <2>3, LengthAssumption
    <3> QED BY <2>2, <2>3, <3>1 DEF TypeOK
  <2> QED BY <2>2, <2>3, <2>4 DEF ZInv, RoundsAreBytes, Drained
<1>4. CASE NoToken
  <2>1. Count(sb) > 0
    BY <1>4, LoopHasBytes DEF NoToken
  <2>2. sb' = ChangeCursor(sb, 1) /\ InLoop /\ j' = j + 1 /\ UNCHANGED <<pc, count, frame, refused>>
    BY <1>4 DEF NoToken
  <2>3. sb' \in Sbufs /\ Count(sb') = Count(sb) - 1
    BY <1>0, <2>1, <2>2, SkipIs
  <2> QED BY <2>2, <2>3, RoundPasses
<1>5. CASE Incomplete
  <2>1. pc' = "read" /\ UNCHANGED <<sb, j, count, frame, refused>> /\ AtToken /\ ~HasFrame
    BY <1>5 DEF Incomplete
  <2>2. TypeOK'
    BY <1>0, <2>1 DEF TypeOK
  <2>3. AtToken' /\ ~HasFrame'
    BY <2>1 DEF AtToken, HasFrame, OutLen
  <2> QED BY <2>1, <2>2, <2>3 DEF ZInv, RoundsAreBytes, Drained
<1>6. CASE BadFrame
  <2>1. /\ InLoop /\ AtToken /\ HasFrame /\ j' = j + 1
        /\ UNCHANGED <<pc, count, frame, refused>>
        /\ sb' = ChangeCursor(ChangeCursor(Out(sb, OutLen), Wrap - OutLen), 1)
    BY <1>6 DEF BadFrame
  <2>2. OutLen \in 1 .. Count(sb)
    BY <1>0, <2>1, FrameIs
  <2> HIDE DEF OutLen
  <2>3. sb' \in Sbufs /\ Count(sb') = Count(sb) - 1
    BY <1>0, <2>1, <2>2, PutBackIs
  <2> QED BY <2>1, <2>3, RoundPasses
<1>7. CASE GoodFrame
  <2>1. /\ AtToken /\ HasFrame /\ refused' = refused
        /\ frame' = FirstBytes(sb, OutLen) /\ sb' = Out(sb, OutLen)
    BY <1>7 DEF GoodFrame
  <2>2. OutLen \in 1 .. Count(sb) /\ OutLen \in 0 .. Count(sb)
    BY <1>0, <2>1, FrameIs
  <2>3. frame' \in Seq(Byte) /\ sb' \in Sbufs
    BY <1>0, <2>1, <2>2, TakeIs
  <2>4. CASE StartSearch(sb')
    BY <1>0, <2>1, <2>3, <2>4, SearchBegins
  <2>5. CASE pc' \in {"send", "dead"} /\ UNCHANGED <<j, count>>
    <3>1. TypeOK'
      BY <1>0, <2>1, <2>3, <2>5 DEF TypeOK
    <3> QED BY <2>5, <3>1 DEF ZInv, RoundsAreBytes, Drained
  <2> QED BY <1>7, <2>4, <2>5 DEF GoodFrame
<1>8. CASE SearchEnds
  <2>1. pc = "search" /\ pc' = "read" /\ UNCHANGED <<sb, j, count, frame, refused>> /\ ~(j <= count - 2)
    BY <1>8 DEF SearchEnds, InLoop
  <2>2. Count(sb) <= 1
    <3>1. j + Count(sb) = count /\ Count(sb) \in 0 .. Length - 1 /\ Length \in Nat
      BY <1>0, <2>1, CountIs, LengthAssumption DEF ZInv, RoundsAreBytes
    <3> QED BY <1>0, <2>1, <3>1
  <2>3. TypeOK'
    BY <1>0, <2>1 DEF TypeOK
  <2> QED BY <2>1, <2>2, <2>3 DEF ZInv, RoundsAreBytes, Drained
<1>9. CASE Send
  <2>1. UNCHANGED <<sb, frame, refused>>
    BY <1>9 DEF Send
  <2>2. CASE StartSearch(sb)
    BY <1>0, <2>1, <2>2, SearchBegins
  <2>3. CASE pc' = "resend" /\ UNCHANGED <<j, count>>
    BY <1>0, <2>1, <2>3 DEF ZInv, TypeOK, RoundsAreBytes, Drained
  <2> QED BY <1>9, <2>2, <2>3 DEF Send
<1>10. CASE UNCHANGED vars
  BY <1>10 DEF vars, ZInv, TypeOK, RoundsAreBytes, Drained, AtToken, HasFrame, OutLen
<1> QED
  BY <1>1, <1>2, <1>3, <1>4, <1>5, <1>6, <1>7, <1>8, <1>9, <1>10 DEF Next, Step, Search

LEMMA AlwaysInv == Spec => []ZInv
<1>1. ZInv /\ [Next]_vars => ZInv'
  BY StepInv
<1> QED BY InitInv, <1>1, PTL DEF Spec

\* In every state of the reader the ring's cursors lie in the array or just
\* behind it, its cells hold bytes, and a frame is a sequence of bytes.
THEOREM TypesHold == Spec => []TypeOK
<1>1. ZInv => TypeOK
  BY DEF ZInv
<1> QED BY AlwaysInv, <1>1, PTL

-----------------------------------------------------------------------------
(* The ring is a queue. *)

LEMMA StepIsAQueueStep ==
    ZInv /\ [Next]_vars => [Queue!Next]_<<Contents(sb), frame>>
<1> SUFFICES ASSUME ZInv, [Next]_vars
             PROVE  Queue!Next \/ (Contents(sb') = Contents(sb) /\ frame' = frame)
  OBVIOUS
<1> DEFINE s == Contents(sb)
           t == Contents(sb')
<1>0. TypeOK /\ sb \in Sbufs /\ s \in Seq(Byte) /\ Len(s) = Count(sb) /\ Count(sb) \in Nat
  BY ContentsAre, CountIs, LengthAssumption DEF ZInv, TypeOK
<1>a. ASSUME sb' = sb, frame' = frame
      PROVE  t = s /\ frame' = frame
  BY <1>a
<1>b. ASSUME t = SubSeq(s, 2, Count(sb)), frame' = frame, Count(sb) > 1,
             s[1] = Token => Queue!Complete(s) /\ ~Queue!Valid(s)
      PROVE  Queue!Next
  <2>1. t = Tail(s)
    <3> HIDE DEF s, t
    <3>1. Tail(s) = SubSeq(s, 2, Len(s))
      BY <1>0, <1>b, HeadTailProperties
    <3> QED BY <1>0, <1>b, <3>1
  <2> HIDE DEF s, t
  <2>2. Len(s) > 1
    BY <1>0, <1>b
  <2>3. Queue!Skip
    BY <1>b, <2>1, <2>2 DEF Queue!Skip, s, t
  <2> QED BY <2>3 DEF Queue!Next
<1>1. ASSUME NEW chunk \in Chunks, Read(chunk)
      PROVE  Queue!Next \/ (t = s /\ frame' = frame)
  <2>1. frame' = frame
    BY <1>1 DEF Read
  <2>2. CASE refused'
    BY <1>0, <1>1, <2>1, <2>2, ReadIs
  <2>3. CASE ~refused'
    <3>1. t = s \o chunk /\ Count(sb) + Len(chunk) <= Length - 1
      BY <1>0, <1>1, <2>3, ReadIs
    <3>2. Len(s) + Len(chunk) <= Length - 1
      BY <1>0, <3>1
    <3>3. Queue!Put(chunk) /\ chunk \in Queue!Chunks
      BY <1>1, <2>1, <3>1, <3>2 DEF Queue!Put, Queue!Chunks, Chunks
    <3> QED BY <3>3 DEF Queue!Next
  <2> QED BY <2>2, <2>3
<1>2. CASE ReadFails
  BY <1>2, <1>a DEF ReadFails
<1>3. CASE Restart
  <2>1. t = <<>> /\ frame' = <<>>
    BY <1>3, FreshIs DEF Restart
  <2> QED BY <2>1 DEF Queue!Next, Queue!Reset
<1>4. CASE NoToken
  <2>1. InLoop /\ ~AtToken /\ sb' = ChangeCursor(sb, 1) /\ frame' = frame
    BY <1>4 DEF NoToken
  <2>2. Count(sb) > 1 /\ Count(sb) > 0
    BY <1>0, <2>1, LoopHasBytes
  <2>3. t = SubSeq(s, 2, Count(sb))
    BY <1>0, <2>1, <2>2, SkipIs
  <2>4. ~(s[1] = Token)
    BY <1>0, <2>1, <2>2, HeadIs
  <2> QED BY <1>b, <2>1, <2>2, <2>3, <2>4
<1>5. CASE Incomplete
  BY <1>5, <1>a DEF Incomplete
<1>6. CASE BadFrame
  <2>1. /\ AtToken /\ HasFrame /\ ~CheckCrc(FirstBytes(sb, OutLen)) /\ frame' = frame
        /\ sb' = ChangeCursor(ChangeCursor(Out(sb, OutLen), Wrap - OutLen), 1)
    BY <1>6 DEF BadFrame
  <2>2. /\ Count(sb) > 1 /\ OutLen \in 1 .. Count(sb)
        /\ Queue!Complete(s) /\ ~Queue!Valid(s)
    BY <1>0, <2>1, FrameIs
  <2>3. t = SubSeq(s, 2, Count(sb))
    <3> HIDE DEF OutLen
    <3> QED BY <1>0, <2>1, <2>2, PutBackIs
  <2> QED BY <1>b, <2>1, <2>2, <2>3
<1>7. CASE GoodFrame
  <2>1. /\ AtToken /\ HasFrame /\ CheckCrc(FirstBytes(sb, OutLen))
        /\ frame' = FirstBytes(sb, OutLen) /\ sb' = Out(sb, OutLen)
    BY <1>7 DEF GoodFrame
  <2>2. Count(sb) > 1 /\ OutLen \in 1 .. Count(sb) /\ OutLen \in 0 .. Count(sb) /\ Queue!Valid(s)
    BY <1>0, <2>1, FrameIs
  <2>3. OutLen = Queue!FrameLen(s)
    BY <1>0, <2>2, HeadIs
  <2>4. t = SubSeq(s, OutLen + 1, Count(sb)) /\ frame' = SubSeq(s, 1, OutLen)
    BY <1>0, <2>1, <2>2, TakeIs
  <2> HIDE DEF s, t
  <2>5. Queue!Take
    BY <1>0, <2>2, <2>3, <2>4 DEF Queue!Take, s, t
  <2> QED BY <2>5 DEF Queue!Next
<1>8. CASE SearchEnds
  BY <1>8, <1>a DEF SearchEnds
<1>9. CASE Send
  BY <1>9, <1>a DEF Send
<1>10. CASE UNCHANGED vars
  BY <1>10, <1>a DEF vars
<1> QED
  BY <1>1, <1>2, <1>3, <1>4, <1>5, <1>6, <1>7, <1>8, <1>9, <1>10 DEF Next, Step, Search

\* The ring buffer with its search implements the bounded queue: nothing is
\* lost, repeated or reordered, exactly the valid frames at the head are taken,
\* and a byte is skipped only where none begins (sbuf_in, sbuf_out,
\* sbuf_change_cursor, sbuf_search_with_out_count).
THEOREM RingIsAQueue == Spec => QueueSpec
<1>1. Init => Queue!Init
  <2> SUFFICES ASSUME Init PROVE Contents(sb) = <<>> /\ frame = <<>>
    BY DEF Queue!Init
  <2>1. PICK b \in Byte : Fresh([i \in Index |-> b])
    BY DEF Init
  <2> QED BY <2>1, FreshIs DEF Fresh
<1>2. ZInv /\ [Next]_vars => [Queue!Next]_<<Contents(sb), frame>>
  BY StepIsAQueueStep
<1> QED BY <1>1, <1>2, AlwaysInv, PTL DEF Spec, QueueSpec, Queue!Spec

-----------------------------------------------------------------------------
(* Why bytes wait. *)

\* A chunk is refused only beside a frame too long to leave room for it.
LEMMA RefusalIsAJam ==
    ZInv /\ [Next]_vars => [refused' /\ ~refused => AtToken /\ OutLen + BufSize > Length]_vars
<1> SUFFICES ASSUME ZInv, Next, refused', ~refused
             PROVE  AtToken /\ OutLen + BufSize > Length
  OBVIOUS
<1>0. /\ TypeOK /\ sb \in Sbufs /\ Count(sb) \in 0 .. Length - 1 /\ Length \in Nat /\ Drained
      /\ BufSize \in Nat /\ BufSize + 2 < Length
  BY CountIs, LengthAssumption, BufSizeAssumption DEF ZInv, TypeOK
<1>1. PICK chunk \in Chunks : Read(chunk)
  BY DEF Next, Step, Search, ReadFails, Restart, NoToken, Incomplete, BadFrame, GoodFrame,
         SearchEnds, Send
<1>2. Len(chunk) \in 1 .. BufSize /\ Count(sb) + Len(chunk) > Length - 1
  BY <1>0, <1>1, ReadIs
<1>3. Count(sb) > 2 /\ Count(sb) + BufSize > Length - 1
  BY <1>0, <1>2
<1>4. AtToken /\ ~HasFrame
  <2>1. pc = "read"
    BY <1>1 DEF Read
  <2> QED BY <1>0, <1>3, <2>1 DEF Drained
<1>5. OutLen \in Nat
  BY <1>0, <1>3, HeadIs
<1>6. Count(sb) < OutLen
  BY <1>0, <1>3, <1>4, <1>5 DEF HasFrame
<1> QED BY <1>0, <1>3, <1>4, <1>5, <1>6

\* A token that announces more than the ring can hold stays at the head.
LEMMA JamStays == ZInv /\ [Next]_vars => [Jammed => Jammed' \/ pc = "dead"]_vars
<1> SUFFICES ASSUME ZInv, Next, Jammed, pc # "dead"
             PROVE  Jammed'
  OBVIOUS
<1> DEFINE s == Contents(sb)
<1>0. /\ TypeOK /\ sb \in Sbufs /\ Count(sb) \in 0 .. Length - 1 /\ Length \in Nat /\ BufSize \in Nat
      /\ Count(sb) > 2 /\ AtToken /\ OutLen > Length - 1
  BY CountIs, LengthAssumption, BufSizeAssumption DEF ZInv, TypeOK, Jammed
<1>1. ~HasFrame
  <2>1. OutLen \in Nat
    BY <1>0, HeadIs
  <2> QED BY <1>0, <2>1 DEF HasFrame
<1>2. CASE sb' = sb
  BY <1>0, <1>2 DEF Jammed, AtToken, OutLen
<1>3. ASSUME NEW chunk \in Chunks, Read(chunk), sb' # sb
      PROVE  Jammed'
  <2>1. /\ sb' \in Sbufs /\ Count(sb') = Count(sb) + Len(chunk) /\ Len(chunk) \in 1 .. BufSize
        /\ Contents(sb') = s \o chunk /\ chunk \in Seq(Byte)
    BY <1>0, <1>3, ReadIs
  <2>2. Count(sb') > 2
    BY <1>0, <2>1
  <2>3. ByteAt(sb', 0) = ByteAt(sb, 0) /\ ByteAt(sb', 1) = ByteAt(sb, 1)
    <3>1. ASSUME NEW off \in {0, 1}
          PROVE  ByteAt(sb', off) = ByteAt(sb, off)
      <4>1. /\ off \in 0 .. Length - 1 /\ off < Count(sb) /\ off < Count(sb')
            /\ off + 1 \in 1 .. Count(sb) /\ off + 1 \in 1 .. Count(sb) + Len(chunk)
        BY <1>0, <2>1, <2>2
      <4>2. ByteAt(sb, off) = s[off + 1] /\ ByteAt(sb', off) = (s \o chunk)[off + 1]
        BY <1>0, <2>1, <4>1, ByteAtIs
      <4>3. s \in Seq(Byte) /\ Len(s) = Count(sb)
        BY <1>0, ContentsAre
      <4> HIDE DEF s
      <4>4. (s \o chunk)[off + 1] = s[off + 1]
        BY <1>0, <2>1, <4>1, <4>3, ConcatProperties
      <4> QED BY <4>2, <4>4
    <3> QED BY <3>1
  <2> QED BY <1>0, <2>2, <2>3 DEF Jammed, AtToken, OutLen
<1>4. CASE ReadFails \/ Incomplete \/ SearchEnds \/ Send
  BY <1>2, <1>4 DEF ReadFails, Incomplete, SearchEnds, Send
<1>5. CASE Restart \/ NoToken \/ BadFrame \/ GoodFrame
  BY <1>0, <1>1, <1>5 DEF Restart, NoToken, BadFrame, GoodFrame
<1> QED BY <1>2, <1>3, <1>4, <1>5 DEF Next, Step, Search

\* Bytes wait in the ring only for the rest of a frame, a chunk is refused only
\* beside one too long to leave it room, and one the ring can never hold stays
\* at its head until the process ends (sbuf_search_with_out_count, sbuf_in).
THEOREM WhyBytesWait == Spec => OnlyAJamRefuses
<1>1. ZInv => Drained
  BY DEF ZInv
<1>2. Spec => []Drained
  BY <1>1, AlwaysInv, PTL
<1>3. Spec => NoChunkRefused
  BY RefusalIsAJam, AlwaysInv, PTL DEF Spec, NoChunkRefused
<1>4. Spec => JamIsPermanent
  BY JamStays, AlwaysInv, PTL DEF Spec, JamIsPermanent
<1> QED BY <1>2, <1>3, <1>4 DEF OnlyAJamRefuses

-----------------------------------------------------------------------------
(* TriggeredIsAsked of LoraSend.  A trigger always belongs to the metadata *)
(* of the packet asked for last, so that what is left to show is what the  *)
(* modem reads in sixteen bytes: that is arithmetic, byte by byte.         *)

\* The numbers are well-founded, as a set of pairs.
Below == {ss \in Nat \X Nat : ss[1] < ss[2]}
LEMMA BelowWellFounded == IsWellFoundedOn(Below, Nat)
<1>1. Below = OpToRel(<, Nat)
  BY DEF Below, OpToRel
<1> QED BY <1>1, NatLessThanWellFounded

\* A set of numbers up to n has a greatest element.
LEMMA GreatestOf ==
    ASSUME NEW n \in Nat, NEW T, T \subseteq 1 .. n, T # {}
    PROVE  Max(T) \in T /\ \A y \in T : y <= Max(T)
<1> DEFINE Left == {m \in Nat : n - m \in T}
<1>2. Left \subseteq Nat /\ Left # {}
  <2>1. PICK y \in T : TRUE OBVIOUS
  <2>2. n - y \in Nat /\ n - (n - y) = y BY <2>1
  <2>3. n - y \in Left BY <2>1, <2>2
  <2> QED BY <2>3
<1> HIDE DEF Left
<1>3. PICK l \in Left : \A y \in Left : ~(<<y, l>> \in Below)
  BY <1>2, BelowWellFounded, WFMin
<1>4. \A y \in Left : l <= y
  <2> TAKE y \in Left
  <2>1. <<y, l>> \in Nat \X Nat /\ ~(<<y, l>> \in Below)
    BY <1>2, <1>3
  <2> QED BY <2>1 DEF Below
<1>5. n - l \in T /\ l \in Nat
  BY <1>2 DEF Left
<1>6. \A y \in T : y <= n - l
  <2> TAKE y \in T
  <2>1. y \in 1 .. n /\ n - y \in Nat /\ n - (n - y) = y OBVIOUS
  <2>2. n - y \in Left BY <2>1 DEF Left
  <2>3. l <= n - y BY <2>2, <1>4
  <2> QED BY <2>1, <2>3, <1>5
<1>7. \E x \in T : \A y \in T : x >= y
  BY <1>5, <1>6
<1>8. PICK x : x = CHOOSE z \in T : \A y \in T : z >= y
  OBVIOUS
<1>9. x \in T /\ \A y \in T : x >= y
  BY <1>7, <1>8
<1>10. Max(T) = x
  BY <1>8 DEF Max
<1> QED BY <1>9, <1>10

\* The bytes of a number of 16 bits.
LEMMA TwoBytes ==
    ASSUME NEW n \in Nat, n < 65536
    PROVE  256 * HighByte(n) + LowByte(n) = n
<1>1. (n % 256) = n - 256 * (n \div 256)
  BY SMT
<1>2. (n \div 256) % 256 = n \div 256
  BY SMT
<1> QED BY SMT, <1>1, <1>2 DEF HighByte, LowByte

\* Byte 0, of a LoRa packet and of an FSK one.
LEMMA ByteZero ==
    ASSUME NEW n \in Nat, NEW w \in {0, 128}, NEW f \in {0, 64}
    PROVE  /\ ((n % 64) + w + f) % 64 = n % 64
           /\ (((n % 64) + w + f) \div 128) % 2 = 1 <=> w = 128
           /\ (((n % 64) + w + f) \div 64) % 2 = 1 <=> f = 64
           /\ (n % 128) % 64 = n % 64 /\ ((n % 128) \div 128) % 2 = 0
<1>1. n % 64 \in 0 .. 63
  OBVIOUS
<1>2. \A kk \in 0 .. 63 :
          /\ (kk + w + f) % 64 = kk
          /\ ((kk + w + f) \div 128) % 2 = 1 <=> w = 128
          /\ ((kk + w + f) \div 64) % 2 = 1 <=> f = 64
  OBVIOUS
<1>3. (n % 128) % 64 = n % 64 /\ ((n % 128) \div 128) % 2 = 0
  OBVIOUS
<1> QED BY <1>1, <1>2, <1>3

\* Byte 7.
LEMMA ByteSeven ==
    ASSUME NEW c \in {0, 1}, NEW f \in {0, 16}, NEW i \in 0 .. 15
    PROVE  /\ ((32 * c + f + i) \div 32) % 2 = c
           /\ ((32 * c + f + i) \div 16) % 2 = 1 <=> f = 16
           /\ (32 * c + f + i) % 16 = i
  OBVIOUS

\* Byte 9 of a LoRa packet.
LEMMA ByteNine ==
    ASSUME NEW sf \in 7 .. 12, NEW cr \in 1 .. 4, NEW crc \in {0, 128}
    PROVE  /\ (sf + 16 * cr + crc) % 16 = sf
           /\ ((sf + 16 * cr + crc) \div 16) % 8 = cr
           /\ ((sf + 16 * cr + crc) \div 128) % 2 = 1 <=> crc = 128
  OBVIOUS

\* Byte 11 of a LoRa packet, and of an FSK one.
LEMMA ByteEleven ==
    ASSUME NEW bw \in {0, 1, 2}, NEW h \in {0, 4}, NEW ppm \in {0, 8}, NEW pol \in {0, 16}, NEW crc \in {0, 2}
    PROVE  /\ (bw + h + ppm + pol) % 4 = bw
           /\ ((bw + h + ppm + pol) \div 4) % 2 = 1 <=> h = 4
           /\ ((bw + h + ppm + pol) \div 8) % 2 = 1 <=> ppm = 8
           /\ ((bw + h + ppm + pol) \div 16) % 2 = 1 <=> pol = 16
           /\ ((1 + crc + 8) \div 2) % 2 = 1 <=> crc = 2
  OBVIOUS

\* The divider of an FSK rate fits its two bytes, and is the rate to one step.
Half == 65536
IsDivider(q, d) ==
    /\ q = LGW_XTAL_FREQU \div d /\ q < Half /\ q = q % Half
    /\ q * d <= LGW_XTAL_FREQU /\ LGW_XTAL_FREQU < (q + 1) * d
LEMMA Divider ==
    ASSUME NEW d \in Nat, d >= 500
    PROVE  \E q \in Nat : IsDivider(q, d)
<1>1. PICK n \in Nat : n = LGW_XTAL_FREQU /\ n = 32000000
  BY SMT DEF LGW_XTAL_FREQU
<1>2. PICK q \in Nat : q = n \div d
  BY SMT
<1>3. q * d <= n /\ n < (q + 1) * d
  BY SMT, <1>2
<1>4. q <= 64000
  BY SMT, <1>1, <1>3
<1>5. q = q % Half /\ q < Half
  BY SMT, <1>4 DEF Half
<1>6. n = LGW_XTAL_FREQU
  BY SMT, <1>1
<1>7. IsDivider(q, d)
  BY SMT, <1>2, <1>3, <1>5, <1>6 DEF IsDivider
<1> QED BY Zenon, <1>7

\* A flag is its weight or nothing.
LEMMA FlagIs ==
    ASSUME NEW b \in BOOLEAN, NEW w \in Nat \ {0}
    PROVE  Flag(b, w) \in {0, w} /\ (Flag(b, w) = w <=> b)
  BY DEF Flag

\* The delay that is taken off the count is put back by the state machine.
LEMMA DelayedBack ==
    ASSUME NEW h \in Nat, h < 65536, NEW l \in Nat, l < 65536, NEW d \in Nat, d < 65536,
           NEW m1, NEW m2, Minus(<<h, l>>, d) = <<m1, m2>>
    PROVE  /\ m1 \in Nat /\ m1 < 65536 /\ m2 \in Nat /\ m2 < 65536
           /\ (m1 + ((m2 + d) \div 65536)) % 65536 = h /\ (m2 + d) % 65536 = l
<1>1. CASE l >= d
  <2>1. m1 = h /\ m2 = l - d BY <1>1 DEF Minus
  <2>2. m2 \in Nat /\ m2 < 65536 /\ m2 + d = l BY SMT, <2>1, <1>1
  <2>3. l \div 65536 = 0 /\ l % 65536 = l /\ (h + 0) % 65536 = h BY SMT
  <2> QED BY <2>1, <2>2, <2>3
<1>2. CASE l < d
  <2>1. m1 = (h + 65535) % 65536 /\ m2 = l + 65536 - d
    <3>1. ~(l >= d) BY SMT, <1>2
    <3> QED BY <3>1 DEF Minus
  <2>2. m2 \in Nat /\ m2 < 65536 /\ m2 + d = l + 65536 BY SMT, <2>1, <1>2
  <2>3. (l + 65536) \div 65536 = 1 /\ (l + 65536) % 65536 = l BY SMT
  <2>4. m1 \in Nat /\ m1 < 65536 /\ (m1 + 1) % 65536 = h BY SMT, <2>1
  <2> QED BY <2>1, <2>2, <2>3, <2>4
<1>3. l >= d \/ l < d
  BY SMT
<1> QED BY <1>1, <1>2, <1>3

\* The symbols that last 16 ms or more are those of SET_PPM_ON.
LEMMA LongSymbols ==
    ASSUME NEW p, p.datarate \in 7 .. 12, p.bandwidth \in {125, 250, 500}
    PROVE  PpmOn(p) <=> 2^p.datarate >= 16 * p.bandwidth
<1>0. PICK sf \in 7 .. 12, bw \in {125, 250, 500} : sf = p.datarate /\ bw = p.bandwidth
  OBVIOUS
<1>1. 2^7 = 128 /\ 2^8 = 256 /\ 2^9 = 512 /\ 2^10 = 1024 /\ 2^11 = 2048 /\ 2^12 = 4096
  OBVIOUS
<1>2. PICK s : s = 2^sf
  OBVIOUS
<1>3. <<sf, s>> \in {<<7, 128>>, <<8, 256>>, <<9, 512>>, <<10, 1024>>, <<11, 2048>>, <<12, 4096>>}
  <2>1. CASE sf = 7
    <3>1. s = 2^7 BY Zenon, <1>2, <2>1
    <3> QED BY <1>1, <2>1, <3>1
  <2>2. CASE sf = 8
    <3>1. s = 2^8 BY Zenon, <1>2, <2>2
    <3> QED BY <1>1, <2>2, <3>1
  <2>3. CASE sf = 9
    <3>1. s = 2^9 BY Zenon, <1>2, <2>3
    <3> QED BY <1>1, <2>3, <3>1
  <2>4. CASE sf = 10
    <3>1. s = 2^10 BY Zenon, <1>2, <2>4
    <3> QED BY <1>1, <2>4, <3>1
  <2>5. CASE sf = 11
    <3>1. s = 2^11 BY Zenon, <1>2, <2>5
    <3> QED BY <1>1, <2>5, <3>1
  <2>6. CASE sf = 12
    <3>1. s = 2^12 BY Zenon, <1>2, <2>6
    <3> QED BY <1>1, <2>6, <3>1
  <2>7. sf = 7 \/ sf = 8 \/ sf = 9 \/ sf = 10 \/ sf = 11 \/ sf = 12
    OBVIOUS
  <2> QED BY <2>1, <2>2, <2>3, <2>4, <2>5, <2>6, <2>7
<1>4. s >= 16 * bw <=> (bw = 125 /\ sf \in {11, 12}) \/ (bw = 250 /\ sf = 12)
  BY <1>3
<1>5. s = 2^p.datarate
  BY Zenon, <1>0, <1>2
<1> QED BY <1>0, <1>4, <1>5 DEF PpmOn

-----------------------------------------------------------------------------
(* What lgw_send works out of a packet.                                    *)

\* The fields of a packet.
LEMMA PacketFields ==
    ASSUME NEW p \in Packets
    PROVE  /\ p.freq \in Nat /\ p.datarate \in Nat /\ p.bandwidth \in Nat /\ p.rf_power \in Int
           /\ p.f_dev \in Nat /\ p.preamble \in Nat /\ p.preamble < 65536 /\ p.size \in Nat
           /\ p.no_crc \in BOOLEAN /\ p.no_header \in BOOLEAN /\ p.invert_pol \in BOOLEAN
<1>1. {p.freq, p.datarate, p.bandwidth, p.f_dev, p.preamble, p.size} \subseteq Nat
      /\ p.preamble < 65536 /\ p.rf_power \in Int
  BY PacketsAssumption
<1>2. {p.no_crc, p.no_header, p.invert_pol} \subseteq BOOLEAN
  BY Zenon, FlagsAssumption
<1>3. p.no_crc \in BOOLEAN /\ p.no_header \in BOOLEAN /\ p.invert_pol \in BOOLEAN
  BY Zenon, <1>2
<1> QED BY <1>1, <1>3

\* The search from the strongest entry ends at the last one within the limit.
LEMMA PowerFits ==
    ASSUME NEW p \in Packets, NEW i, i = PowIndex(p)
    PROVE  /\ i \in 0 .. Len(Powers) - 1 /\ i \in 0 .. 15
           /\ Powers[i + 1] <= p.rf_power \/ i = 0
           /\ \A jj \in 1 .. Len(Powers) :
                 Powers[jj] <= p.rf_power => jj <= i + 1 /\ (Ascending => Powers[jj] <= Powers[i + 1])
<1> DEFINE n == Len(Powers)
           fits == {m \in 1 .. n - 1 : Powers[m + 1] <= p.rf_power}
<1>0. n \in 1 .. 16
  BY PowersAssumption
<1>2. i = IF fits = {} THEN 0 ELSE Max(fits)
  BY DEF PowIndex
<1> HIDE DEF n
<1>1. n \in 1 .. 16 /\ n - 1 \in Nat
  BY <1>0
<1>3. \A jj \in 1 .. n : Powers[jj] <= p.rf_power => jj = 1 \/ jj - 1 \in fits
  <2> SUFFICES ASSUME NEW jj \in 1 .. n, Powers[jj] <= p.rf_power, jj # 1 PROVE jj - 1 \in fits
    OBVIOUS
  <2>1. jj - 1 \in 1 .. n - 1 /\ (jj - 1) + 1 = jj BY <1>1
  <2>2. Powers[(jj - 1) + 1] <= p.rf_power BY <2>1
  <2> QED BY <2>1, <2>2
<1>4. fits \subseteq 1 .. n - 1 /\ \A m \in fits : Powers[m + 1] <= p.rf_power
  OBVIOUS
<1> HIDE DEF fits
<1>5. i \in 0 .. n - 1 /\ (Powers[i + 1] <= p.rf_power \/ i = 0) /\ \A jj \in 1 .. n : Powers[jj] <= p.rf_power => jj <= i + 1
  <2>1. CASE fits = {}
    <3>1. i = 0 BY <2>1, <1>2
    <3> QED BY <3>1, <2>1, <1>1, <1>3
  <2>2. CASE fits # {}
    <3>1. i \in fits /\ \A m \in fits : m <= i BY <2>2, <1>1, <1>2, <1>4, GreatestOf
    <3>2. i \in 1 .. n - 1 /\ Powers[i + 1] <= p.rf_power BY <3>1, <1>4
    <3>3. ASSUME NEW jj \in 1 .. n, Powers[jj] <= p.rf_power PROVE jj <= i + 1
      <4>1. CASE jj = 1 BY <4>1, <3>2, <1>1
      <4>2. CASE jj - 1 \in fits
        <5>1. jj - 1 <= i BY <4>2, <3>1
        <5> QED BY <5>1, <3>2, <1>1
      <4> QED BY <4>1, <4>2, <1>3, <3>3
    <3> QED BY <3>2, <3>3, <1>1
  <2> QED BY <2>1, <2>2
<1>6. i \in 0 .. 15 /\ i + 1 \in 1 .. n
  BY <1>1, <1>5
<1>7. ASSUME NEW jj \in 1 .. n, Powers[jj] <= p.rf_power, Ascending PROVE Powers[jj] <= Powers[i + 1]
  BY <1>5, <1>6, <1>7 DEF Ascending, n
<1> QED BY <1>5, <1>6, <1>7 DEF n

\* The preamble fits its two bytes.
LEMMA PreambleFits ==
    ASSUME NEW p \in Packets
    PROVE  Preamble(p) \in Nat /\ Preamble(p) < 65536
<1>1. p.preamble \in Nat /\ p.preamble < 65536
  BY PacketFields
<1> DEFINE standard == IF IsLora(p) THEN 8 ELSE 5
           minimum  == IF IsLora(p) THEN 6 ELSE 3
<1>2. standard \in {5, 8} /\ minimum \in {3, 6}
  OBVIOUS
<1>3. Preamble(p) = IF p.preamble = 0 THEN standard ELSE Max({p.preamble, minimum})
  BY DEF Preamble
<1> HIDE DEF standard, minimum
<1>4. CASE p.preamble = 0
  BY <1>2, <1>3, <1>4
<1>5. CASE p.preamble # 0
  <2>1. PICK a \in Nat : a = p.preamble BY <1>1
  <2>2. PICK b \in Nat : b = minimum BY <1>2
  <2>3. PICK x : x = CHOOSE z \in {a, b} : \A y \in {a, b} : z >= y OBVIOUS
  <2>4. \E z \in {a, b} : \A y \in {a, b} : z >= y
    <3>1. CASE a >= b BY <3>1
    <3>2. CASE b >= a BY <3>2
    <3> QED BY <3>1, <3>2
  <2>5. x \in {a, b} BY <2>3, <2>4
  <2>6. Preamble(p) = x BY <1>3, <1>5, <2>1, <2>2, <2>3 DEF Max
  <2>7. a < 65536 /\ b < 65536 BY <1>1, <1>2, <2>1, <2>2
  <2> QED BY <2>5, <2>6, <2>7
<1> QED BY <1>4, <1>5

\* The fraction of the frequency fits its two bytes, and is it to one step.
LEMMA FractionFits ==
    ASSUME NEW p \in Packets
    PROVE  /\ PartInt(p.freq) \in Nat /\ PartFrac(p.freq) \in Nat /\ PartFrac(p.freq) < 65536
           /\ PartFrac(p.freq) * Frac <= (p.freq % Unit) * 2^(16 - Scale)
           /\ (p.freq % Unit) * 2^(16 - Scale) < (PartFrac(p.freq) + 1) * Frac
<1>1. PICK f \in Nat : f = p.freq
  BY PacketFields
<1>2. 2^7 = 128 /\ 2^8 = 256 /\ 2^(16 - 7) = 512 /\ 2^(16 - 8) = 256
  OBVIOUS
<1>3. <<Unit, 2^(16 - Scale)>> \in {<<2000000, 512>>, <<4000000, 256>>}
  <2>1. CASE Radio = "SX1255"
    <3>1. Scale = 7 BY <2>1 DEF Scale
    <3>2. Unit = Frac * 2^7 /\ 2^(16 - Scale) = 2^(16 - 7) BY <3>1 DEF Unit
    <3> QED BY <3>2, <1>2 DEF Frac
  <2>2. CASE Radio # "SX1255"
    <3>1. Scale = 8 BY <2>2 DEF Scale
    <3>2. Unit = Frac * 2^8 /\ 2^(16 - Scale) = 2^(16 - 8) BY <3>1 DEF Unit
    <3> QED BY <3>2, <1>2 DEF Frac
  <2> QED BY <2>1, <2>2
<1>4. PICK u, w : u = Unit /\ w = 2^(16 - Scale)
  OBVIOUS
<1>5. (u = 2000000 /\ w = 512) \/ (u = 4000000 /\ w = 256)
  BY <1>3, <1>4
<1>6. PICK r : r = (f % u)
  OBVIOUS
<1>7. r \in Nat /\ r * w < 65536 * 15625 /\ f \div u \in Nat
  BY SMT, <1>5, <1>6
<1>8. PICK x \in Nat : x = r * w
  BY SMT, <1>5, <1>7
<1>9. /\ x \div 15625 \in Nat /\ x \div 15625 < 65536
      /\ (x \div 15625) * 15625 <= x /\ x < (x \div 15625 + 1) * 15625
  BY SMT, <1>7, <1>8
<1>10. PartInt(p.freq) = f \div u
  BY <1>1, <1>4 DEF PartInt
<1>11. (p.freq % Unit) * 2^(16 - Scale) = x
  BY <1>1, <1>4, <1>6, <1>8
<1>12. PartFrac(p.freq) = x \div 15625
  BY <1>11 DEF PartFrac, Frac
<1> QED BY <1>7, <1>9, <1>10, <1>11, <1>12 DEF Frac

-----------------------------------------------------------------------------
(* The metadata, and what the modem reads in it.                           *)

\* The bytes, one by one.
LEMMA MetadataBytes ==
    ASSUME NEW p, NEW junk, NEW m, m = Metadata(p, junk)
    PROVE  /\ m[0] = FilterBits(p)
           /\ m[1] = HighByte(PartFrac(p.freq)) /\ m[2] = LowByte(PartFrac(p.freq))
           /\ p.tx_mode = "TIMESTAMPED" =>
                 LET time == Minus(p.count_us, StartDelay(p))
                 IN  m[3] = HighByte(time[1]) /\ m[4] = LowByte(time[1]) /\ m[5] = HighByte(time[2]) /\ m[6] = LowByte(time[2])
           /\ m[7] = 32 * p.rf_chain + Flag(~IsLora(p), 16) + PowIndex(p)
           /\ m[9] = IF ~IsLora(p) THEN p.f_dev ELSE p.datarate + 16 * p.coderate + Flag(~p.no_crc, 128)
           /\ m[10] = p.size
           /\ m[11] = IF ~IsLora(p) THEN 1 + Flag(~p.no_crc, 2) + 8
                      ELSE (CASE p.bandwidth = 125 -> 0
                              [] p.bandwidth = 250 -> 1
                              [] OTHER -> 2)
                           + Flag(p.no_header, 4) + Flag(PpmOn(p), 8) + Flag(p.invert_pol, 16)
           /\ m[12] = HighByte(Preamble(p)) /\ m[13] = LowByte(Preamble(p))
           /\ m[14] = (IF IsLora(p) THEN 0 ELSE HighByte((LGW_XTAL_FREQU \div p.datarate) % 65536))
           /\ m[15] = (IF IsLora(p) THEN 0 ELSE LowByte((LGW_XTAL_FREQU \div p.datarate) % 65536))
<1>1. m[0] = FilterBits(p)
  BY DEF Metadata
<1>2. m[1] = HighByte(PartFrac(p.freq)) /\ m[2] = LowByte(PartFrac(p.freq))
  BY DEF Metadata
<1>3. p.tx_mode = "TIMESTAMPED" =>
         LET time == Minus(p.count_us, StartDelay(p))
         IN  m[3] = HighByte(time[1]) /\ m[4] = LowByte(time[1]) /\ m[5] = HighByte(time[2]) /\ m[6] = LowByte(time[2])
  BY DEF Metadata
<1>4. m[7] = 32 * p.rf_chain + Flag(~IsLora(p), 16) + PowIndex(p)
  BY DEF Metadata
<1>5. m[9] = IF ~IsLora(p) THEN p.f_dev ELSE p.datarate + 16 * p.coderate + Flag(~p.no_crc, 128)
  BY DEF Metadata
<1>6. m[10] = p.size
  BY DEF Metadata
<1>7. m[11] = IF ~IsLora(p) THEN 1 + Flag(~p.no_crc, 2) + 8
              ELSE (CASE p.bandwidth = 125 -> 0
                      [] p.bandwidth = 250 -> 1
                      [] OTHER -> 2)
                   + Flag(p.no_header, 4) + Flag(PpmOn(p), 8) + Flag(p.invert_pol, 16)
  BY DEF Metadata
<1>8. m[12] = HighByte(Preamble(p)) /\ m[13] = LowByte(Preamble(p))
  BY DEF Metadata
<1>9. m[14] = (IF IsLora(p) THEN 0 ELSE HighByte((LGW_XTAL_FREQU \div p.datarate) % 65536))
  BY DEF Metadata
<1>10. m[15] = (IF IsLora(p) THEN 0 ELSE LowByte((LGW_XTAL_FREQU \div p.datarate) % 65536))
  BY DEF Metadata
<1> QED BY <1>1, <1>2, <1>3, <1>4, <1>5, <1>6, <1>7, <1>8, <1>9, <1>10

\* The parameters of a packet, as the modem reads them.
LEMMA AskedIsRead ==
    ASSUME NEW p \in Packets, Acceptable(p), NEW junk, NEW m, m = Metadata(p, junk)
    PROVE  ReadsAsked(m, p)
<1>1. /\ p.datarate \in Nat /\ p.bandwidth \in Nat /\ p.f_dev \in Nat /\ p.size \in Nat
      /\ p.no_crc \in BOOLEAN /\ p.no_header \in BOOLEAN /\ p.invert_pol \in BOOLEAN
  BY PacketFields
<1>2. p.rf_chain \in {0, 1}
  <2>1. p.rf_chain \in TxChains BY SMT DEF Acceptable
  <2>2. TxChains \subseteq {0, 1} BY SMT, BoardAssumption
  <2> QED BY Zenon, <2>1, <2>2
<1>3. PICK i \in 0 .. 15 : i = PowIndex(p)
  BY PowerFits
<1>4. IsLora(p) \in BOOLEAN
  BY DEF IsLora
<1>5. PICK fsk \in {0, 16} : fsk = Flag(~IsLora(p), 16) /\ (fsk = 16 <=> ~IsLora(p))
  <2>1. Flag(~IsLora(p), 16) \in {0, 16} BY Zenon DEF Flag
  <2>2. Flag(~IsLora(p), 16) = 16 <=> ~IsLora(p) BY DEF Flag
  <2> QED BY Zenon, <2>1, <2>2
<1>6. m[7] = 32 * p.rf_chain + fsk + i
  BY <1>3, <1>5, MetadataBytes
<1>7. (m[7] \div 32) % 2 = p.rf_chain /\ (Bit(m[7], 16) <=> ~IsLora(p))
  <2>1. PICK c \in {0, 1} : c = p.rf_chain BY <1>2
  <2>2. ((32 * c + fsk + i) \div 32) % 2 = c /\ (((32 * c + fsk + i) \div 16) % 2 = 1 <=> fsk = 16)
    BY ByteSeven
  <2> QED BY <2>1, <2>2, <1>5, <1>6 DEF Bit
<1>8. m[10] = p.size
  BY MetadataBytes
<1>9. 256 * m[12] + m[13] = Preamble(p)
  <2>1. m[12] = HighByte(Preamble(p)) /\ m[13] = LowByte(Preamble(p)) BY MetadataBytes
  <2> QED BY <2>1, PreambleFits, TwoBytes
<1>10. PICK n \in Nat : n = PartInt(p.freq)
  BY FractionFits
<1>11. CASE IsLora(p)
  <2>1. p.bandwidth \in {125, 250, 500} /\ p.datarate \in 7..12 /\ p.coderate \in 1..4
    BY <1>11 DEF Acceptable, IsLora
  <2>2. (~p.no_crc) \in BOOLEAN /\ PpmOn(p) \in BOOLEAN /\ NotchEnabled(p) \in BOOLEAN
        /\ (p.bandwidth = 500) \in BOOLEAN
    BY Zenon, <1>1 DEF PpmOn, NotchEnabled
  <2>3. PICK crc \in {0, 128} : crc = Flag(~p.no_crc, 128) /\ (crc = 128 <=> ~p.no_crc)
    <3>1. Flag(~p.no_crc, 128) \in {0, 128} BY Zenon DEF Flag
    <3>2. Flag(~p.no_crc, 128) = 128 <=> ~p.no_crc BY DEF Flag
    <3> QED BY Zenon, <3>1, <3>2
  <2>4. PICK h \in {0, 4} : h = Flag(p.no_header, 4) /\ (h = 4 <=> p.no_header)
    BY <1>1, FlagIs
  <2>5. PICK ppm \in {0, 8} : ppm = Flag(PpmOn(p), 8) /\ (ppm = 8 <=> PpmOn(p))
    BY <2>2, FlagIs
  <2>6. PICK pol \in {0, 16} : pol = Flag(p.invert_pol, 16) /\ (pol = 16 <=> p.invert_pol)
    BY <1>1, FlagIs
  <2>19. PICK w : w = Flag(p.bandwidth = 500, 128)
    OBVIOUS
  <2>7. w \in {0, 128} /\ (w = 128 <=> p.bandwidth = 500)
    <3>1. CASE p.bandwidth = 500 BY <2>19, <3>1 DEF Flag
    <3>2. CASE ~(p.bandwidth = 500) BY <2>19, <3>2 DEF Flag
    <3> QED BY <3>1, <3>2
  <2>8. PICK f \in {0, 64} : f = Flag(NotchEnabled(p), 64) /\ (f = 64 <=> NotchEnabled(p))
    BY <2>2, FlagIs
  <2>9. PICK sf \in 7..12, cr \in 1..4 : sf = p.datarate /\ cr = p.coderate
    BY <2>1
  <2>10. m[9] = sf + 16 * cr + crc
    BY <1>11, <2>3, <2>9, MetadataBytes
  <2>11. m[9] % 16 = p.datarate /\ (m[9] \div 16) % 8 = p.coderate /\ (Bit(m[9], 128) <=> ~p.no_crc)
    <3>1. (sf + 16 * cr + crc) % 16 = sf /\ ((sf + 16 * cr + crc) \div 16) % 8 = cr
          /\ (((sf + 16 * cr + crc) \div 128) % 2 = 1 <=> crc = 128)
      BY ByteNine
    <3> QED BY <3>1, <2>3, <2>9, <2>10 DEF Bit
  <2>12. PICK bw \in {0, 1, 2} : /\ bw = CASE p.bandwidth = 125 -> 0 [] p.bandwidth = 250 -> 1 [] OTHER -> 2
                                /\ <<125, 250, 500>>[bw + 1] = p.bandwidth
    BY <2>1
  <2>13. m[11] = bw + h + ppm + pol
    BY <1>11, <2>4, <2>5, <2>6, <2>12, MetadataBytes
  <2>14. m[11] % 4 = bw /\ (Bit(m[11], 4) <=> p.no_header) /\ (Bit(m[11], 8) <=> PpmOn(p))
         /\ (Bit(m[11], 16) <=> p.invert_pol)
    <3>1. /\ (bw + h + ppm + pol) % 4 = bw /\ (((bw + h + ppm + pol) \div 4) % 2 = 1 <=> h = 4)
          /\ (((bw + h + ppm + pol) \div 8) % 2 = 1 <=> ppm = 8)
          /\ (((bw + h + ppm + pol) \div 16) % 2 = 1 <=> pol = 16)
      <4>1. PICK z \in {0, 2} : TRUE OBVIOUS
      <4> QED BY <4>1, ByteEleven
    <3> QED BY <3>1, <2>4, <2>5, <2>6, <2>13 DEF Bit
  <2>15. PpmOn(p) <=> 2^p.datarate >= 16 * p.bandwidth
    BY Zenon, <2>1, LongSymbols
  <2>16. m[0] = (n % 64) + w + f
    BY <1>10, <1>11, <2>19, <2>8, MetadataBytes DEF FilterBits
  <2>17. (Bit(m[0], 128) <=> p.bandwidth = 500) /\ (Bit(m[0], 64) <=> p.bandwidth = 125)
    <3>1. ((((n % 64) + w + f) \div 128) % 2 = 1 <=> w = 128) /\ ((((n % 64) + w + f) \div 64) % 2 = 1 <=> f = 64)
      BY <2>7, ByteZero
    <3> QED BY <3>1, <2>7, <2>8, <2>16, <1>11 DEF Bit, NotchEnabled
  <2>18. <<125, 250, 500>>[(m[11] % 4) + 1] = p.bandwidth
    BY <2>12, <2>14
  <2> QED BY Zenon, <1>7, <1>8, <1>9, <1>11, <2>11, <2>14, <2>15, <2>17, <2>18 DEF ReadsAsked
<1>12. CASE ~IsLora(p)
  <2>1. 500 <= p.datarate
    BY <1>12 DEF Acceptable
  <2>2. PICK d \in Nat : d = p.datarate /\ d >= 500
    BY <1>1, <2>1
  <2>3. PICK q \in Nat : IsDivider(q, d)
    BY Zenon, <2>2, Divider
  <2>4. q = LGW_XTAL_FREQU \div d /\ q = q % Half /\ q * d <= LGW_XTAL_FREQU /\ LGW_XTAL_FREQU < (q + 1) * d
    BY Zenon, <2>3 DEF IsDivider
  <2>5. q < 65536
    BY SMT, <2>3 DEF IsDivider, Half
  <2>6. m[14] = HighByte(q) /\ m[15] = LowByte(q)
    <3>1. m[14] = HighByte((LGW_XTAL_FREQU \div d) % Half) /\ m[15] = LowByte((LGW_XTAL_FREQU \div d) % Half)
      BY SMT, <1>12, <2>2, MetadataBytes DEF Half
    <3> QED BY Zenon, <3>1, <2>4
  <2>7. 256 * m[14] + m[15] = q
    BY SMT, <2>5, <2>6, TwoBytes
  <2>8. m[9] = p.f_dev
    BY <1>12, MetadataBytes
  <2>9. (~p.no_crc) \in BOOLEAN
    BY Zenon, <1>1
  <2>10. PICK crc \in {0, 2} : crc = Flag(~p.no_crc, 2) /\ (crc = 2 <=> ~p.no_crc)
    <3>1. Flag(~p.no_crc, 2) \in {0, 2} BY Zenon DEF Flag
    <3>2. Flag(~p.no_crc, 2) = 2 <=> ~p.no_crc BY DEF Flag
    <3> QED BY Zenon, <3>1, <3>2
  <2>11. Bit(m[11], 2) <=> ~p.no_crc
    <3>1. m[11] = 1 + crc + 8 BY <1>12, <2>10, MetadataBytes
    <3>2. ((1 + crc + 8) \div 2) % 2 = 1 <=> crc = 2 BY SMT
    <3> QED BY <3>1, <3>2, <2>10 DEF Bit
  <2>12. ~Bit(m[0], 128)
    <3>1. m[0] = (n % 128) BY <1>10, <1>12, MetadataBytes DEF FilterBits
    <3>2. ((n % 128) \div 128) % 2 = 0 BY SMT
    <3> QED BY <3>1, <3>2 DEF Bit
  <2>13. LET div == 256 * m[14] + m[15]
         IN  div * p.datarate <= LGW_XTAL_FREQU /\ LGW_XTAL_FREQU < (div + 1) * p.datarate
    <3>1. d = p.datarate BY <2>2
    <3> QED BY Zenon, <3>1, <2>4, <2>7
  <2> QED BY Zenon, <1>7, <1>8, <1>9, <1>12, <2>8, <2>11, <2>12, <2>13 DEF ReadsAsked
<1> QED BY <1>11, <1>12

\* The frequency, as the modem reads it.
LEMMA FrequencyIsRead ==
    ASSUME NEW p \in Packets, NEW junk, NEW m, m = Metadata(p, junk)
    PROVE  ReadsFrequency(m, p)
<1>1. PICK x \in Nat : x = PartFrac(p.freq) /\ x < 65536
  BY SMT, FractionFits
<1>2. m[1] = HighByte(x) /\ m[2] = LowByte(x)
  BY SMT, <1>1, MetadataBytes
<1>3. 256 * m[1] + m[2] = PartFrac(p.freq)
  <2>1. 256 * HighByte(x) + LowByte(x) = x BY SMT, <1>1, TwoBytes
  <2> QED BY SMT, <1>1, <1>2, <2>1
<1>4. PICK n \in Nat : n = PartInt(p.freq)
  BY SMT, FractionFits
<1>5. m[0] % 64 = n % 64
  <2>1. m[0] = FilterBits(p) BY SMT, MetadataBytes
  <2>2. CASE IsLora(p)
    <3>1. Flag(p.bandwidth = 500, 128) \in {0, 128} /\ Flag(NotchEnabled(p), 64) \in {0, 64}
      BY Zenon DEF Flag
    <3>2. PICK w \in {0, 128}, f \in {0, 64} : w = Flag(p.bandwidth = 500, 128) /\ f = Flag(NotchEnabled(p), 64)
      BY Zenon, <3>1
    <3>3. FilterBits(p) = (n % 64) + w + f BY SMT, <1>4, <2>2, <3>2 DEF FilterBits
    <3>4. ((n % 64) + w + f) % 64 = n % 64 BY SMT, ByteZero
    <3> QED BY Zenon, <2>1, <3>3, <3>4
  <2>3. CASE ~IsLora(p)
    <3>1. FilterBits(p) = n % 128 BY SMT, <1>4, <2>3 DEF FilterBits
    <3>2. (n % 128) % 64 = n % 64 BY SMT
    <3> QED BY Zenon, <2>1, <3>1, <3>2
  <2> QED BY <2>2, <2>3
<1>6. /\ PartFrac(p.freq) * Frac <= (p.freq % Unit) * 2^(16 - Scale)
      /\ (p.freq % Unit) * 2^(16 - Scale) < (PartFrac(p.freq) + 1) * Frac
  BY FractionFits
<1>7. LET frac == 256 * m[1] + m[2] IN
      /\ frac * Frac <= (p.freq % Unit) * 2^(16 - Scale)
      /\ (p.freq % Unit) * 2^(16 - Scale) < (frac + 1) * Frac
  BY Zenon, <1>3, <1>6
<1>8. m[0] % 64 = PartInt(p.freq) % 64
  BY Zenon, <1>4, <1>5
<1> QED BY Zenon, <1>7, <1>8 DEF ReadsFrequency

\* The power, as the AGC firmware reads it.
LEMMA PowerIsRead ==
    ASSUME NEW p \in Packets, Acceptable(p), NEW junk, NEW m, m = Metadata(p, junk)
    PROVE  ReadsPower(m, p)
<1>1. p.rf_chain \in {0, 1}
  <2>1. p.rf_chain \in TxChains BY SMT DEF Acceptable
  <2>2. TxChains \subseteq {0, 1} BY SMT, BoardAssumption
  <2> QED BY Zenon, <2>1, <2>2
<1>2. PICK i : i = PowIndex(p)
  OBVIOUS
<1>3. /\ i \in 0 .. Len(Powers) - 1 /\ i \in 0 .. 15
      /\ Powers[i + 1] <= p.rf_power \/ i = 0
      /\ \A jj \in 1 .. Len(Powers) :
            Powers[jj] <= p.rf_power => jj <= i + 1 /\ (Ascending => Powers[jj] <= Powers[i + 1])
  BY SMT, <1>2, PowerFits
<1>4. Flag(~IsLora(p), 16) \in {0, 16}
  BY Zenon DEF Flag
<1>5. PICK c \in {0, 1}, f \in {0, 16} : c = p.rf_chain /\ f = Flag(~IsLora(p), 16)
  BY Zenon, <1>1, <1>4
<1>6. m[7] = 32 * c + f + i
  BY SMT, <1>2, <1>5, MetadataBytes
<1>7. (32 * c + f + i) % 16 = i
  BY SMT, <1>3, ByteSeven
<1>8. m[7] % 16 = i
  BY Zenon, <1>6, <1>7
<1> QED BY Zenon, <1>3, <1>8 DEF ReadsPower

\* The start delay fits its register.
LEMMA DelayFits ==
    ASSUME NEW p
    PROVE  StartDelay(p) \in Nat /\ StartDelay(p) < 65536
<1>1. PICK u \in 0 .. 5 : u = NotchUs
  BY SMT, BoardAssumption
<1>2. PICK a, b : a = (IF NotchEnabled(p) THEN NotchUs ELSE 0) /\ b = (IF p.bandwidth = 125 THEN 2 ELSE 0)
  OBVIOUS
<1>3. a \in 0 .. 5 /\ b \in 0 .. 2
  BY SMT, <1>1, <1>2
<1>4. StartDelay(p) = 1497 - a - b
  BY SMT, <1>2 DEF StartDelay
<1> QED BY SMT, <1>3, <1>4

\* The instant, as the state machine starts and the delay is added.
LEMMA InstantIsRead ==
    ASSUME NEW p \in Packets, NEW junk, NEW m, m = Metadata(p, junk), startDelay = StartDelay(p)
    PROVE  ReadsInstant(m, p)
<1> SUFFICES ASSUME p.tx_mode = "TIMESTAMPED"
             PROVE  LET hi == 256 * m[3] + m[4]
                        lo == 256 * m[5] + m[6] + startDelay
                    IN  <<(hi + lo \div 65536) % 65536, lo % 65536>> = p.count_us
  BY SMT DEF ReadsInstant
<1>8. PICK d : d = startDelay /\ d = StartDelay(p)
  OBVIOUS
<1>1. p.count_us \in Nat \X Nat /\ p.count_us[1] < 65536 /\ p.count_us[2] < 65536
  BY PacketsAssumption
<1>2. PICK h \in Nat, l \in Nat : p.count_us = <<h, l>>
  BY SMT, <1>1
<1>9. h < 65536 /\ l < 65536
  BY SMT, <1>1, <1>2
<1>3. d \in Nat /\ d < 65536
  BY SMT, <1>8, DelayFits
<1>4. PICK m1, m2 : Minus(<<h, l>>, d) = <<m1, m2>>
  BY SMT DEF Minus
<1>5. /\ m1 \in Nat /\ m1 < 65536 /\ m2 \in Nat /\ m2 < 65536
      /\ (m1 + ((m2 + d) \div 65536)) % 65536 = h /\ (m2 + d) % 65536 = l
  BY SMT, <1>9, <1>3, <1>4, DelayedBack
<1>6. m[3] = HighByte(m1) /\ m[4] = LowByte(m1) /\ m[5] = HighByte(m2) /\ m[6] = LowByte(m2)
  <2>1. LET time == Minus(p.count_us, StartDelay(p))
        IN  m[3] = HighByte(time[1]) /\ m[4] = LowByte(time[1]) /\ m[5] = HighByte(time[2]) /\ m[6] = LowByte(time[2])
    BY MetadataBytes
  <2>2. Minus(p.count_us, StartDelay(p)) = <<m1, m2>> BY Zenon, <1>2, <1>4, <1>8
  <2> QED BY <2>1, <2>2
<1>7. 256 * m[3] + m[4] = m1 /\ 256 * m[5] + m[6] = m2
  <2>1. 256 * HighByte(m1) + LowByte(m1) = m1 BY SMT, <1>5, TwoBytes
  <2>2. 256 * HighByte(m2) + LowByte(m2) = m2 BY SMT, <1>5, TwoBytes
  <2> QED BY <1>6, <2>1, <2>2
<1>10. 256 * m[5] + m[6] + startDelay = m2 + d
  BY SMT, <1>7, <1>8
<1> QED BY SMT, <1>2, <1>5, <1>7, <1>10

-----------------------------------------------------------------------------
(* The invariant: a trigger belongs to the packet that lies in the buffer. *)

TriggerInv ==
    trigger # "none" =>
        /\ asked \in Packets /\ Acceptable(asked) /\ trigger = asked.tx_mode
        /\ startDelay = StartDelay(asked)
        /\ \E junk \in {0, 255} : buffer = Metadata(asked, junk)

\* Every call keeps it.
LEMMA TriggerInvStep == TriggerInv /\ [SendNext]_sendVars => TriggerInv'
<1> SUFFICES ASSUME TriggerInv, [SendNext]_sendVars PROVE TriggerInv'
  OBVIOUS
<1>1. CASE UNCHANGED sendVars
  BY Zenon, <1>1 DEF TriggerInv, sendVars
<1>2. ASSUME NEW p \in Packets, Refuse(p) PROVE TriggerInv'
  BY Zenon, <1>2 DEF TriggerInv, Refuse
<1>3. ASSUME NEW p \in Packets, SendPacket(p) PROVE TriggerInv'
  <2>1. asked' = p /\ Acceptable(p) /\ startDelay' = StartDelay(p)
    BY Zenon, <1>3 DEF SendPacket
  <2>2. trigger' = "none" \/ trigger' = p.tx_mode
    BY Zenon, <1>3 DEF SendPacket
  <2>3. \E junk \in {0, 255} : buffer' = Metadata(p, junk)
    BY Zenon, <1>3 DEF SendPacket
  <2> QED BY Zenon, <2>1, <2>2, <2>3 DEF TriggerInv
<1> QED BY Zenon, <1>1, <1>2, <1>3 DEF SendNext

\* Whatever is triggered is the packet asked for (lgw_send).
THEOREM SendsAsAsked == SendSpec => []TriggeredIsAsked
<1>1. SendInit => TriggerInv
  BY SMT DEF SendInit, TriggerInv
<1>2. TriggerInv => TriggeredIsAsked
  <2> SUFFICES ASSUME TriggerInv, trigger # "none"
               PROVE  /\ trigger = asked.tx_mode
                      /\ ReadsAsked(buffer, asked) /\ ReadsFrequency(buffer, asked)
                      /\ ReadsPower(buffer, asked) /\ ReadsInstant(buffer, asked)
    BY Zenon DEF TriggeredIsAsked
  <2>1. asked \in Packets /\ Acceptable(asked) /\ trigger = asked.tx_mode /\ startDelay = StartDelay(asked)
    BY Zenon DEF TriggerInv
  <2>2. PICK junk : buffer = Metadata(asked, junk)
    BY Zenon DEF TriggerInv
  <2>3. ReadsAsked(buffer, asked)
    BY Zenon, <2>1, <2>2, AskedIsRead
  <2>4. ReadsFrequency(buffer, asked)
    BY Zenon, <2>1, <2>2, FrequencyIsRead
  <2>5. ReadsPower(buffer, asked)
    BY Zenon, <2>1, <2>2, PowerIsRead
  <2>6. ReadsInstant(buffer, asked)
    BY Zenon, <2>1, <2>2, InstantIsRead
  <2> QED BY Zenon, <2>1, <2>3, <2>4, <2>5, <2>6
<1> QED BY <1>1, <1>2, TriggerInvStep, PTL DEF SendSpec

-----------------------------------------------------------------------------
(* The registers: powers of two, division and bits.                        *)

\* Quotient and remainder are the only ones there are.
LEMMA DivisionIs ==
    ASSUME NEW d \in Nat \ {0}, NEW q \in Int, NEW r \in Int, 0 <= r, r < d
    PROVE  (q * d + r) \div d = q /\ (q * d + r) % d = r
<1> DEFINE x == q * d + r
           Q == x \div d
           R == x % d
<1>1. x \in Int /\ Q \in Int /\ R \in Int /\ 0 <= R /\ R < d /\ x = Q * d + R
  OBVIOUS
<1>2. (q - Q) * d = R - r
  <2> HIDE DEF Q, R
  <2>1. q * d + r = Q * d + R
    BY <1>1
  <2>2. (q - Q) * d = q * d - Q * d
    BY <1>1
  <2>3. q * d \in Int /\ Q * d \in Int
    BY <1>1
  <2> QED BY <1>1, <2>1, <2>2, <2>3
<1>3. ~(q - Q >= 1) /\ ~(q - Q <= -1)
  <2> HIDE DEF Q, R, x
  <2> DEFINE kk == q - Q
  <2>1. kk \in Int /\ kk * d = R - r
    BY <1>1, <1>2
  <2> HIDE DEF kk
  <2>2. kk >= 1 => kk * d >= d
    BY <2>1
  <2>3. kk <= -1 => kk * d <= -d
    BY <2>1
  <2>4. ~(kk >= 1) /\ ~(kk <= -1)
    BY <1>1, <2>1, <2>2, <2>3
  <2> QED BY <2>4 DEF kk
<1> HIDE DEF Q, R
<1>4. q = Q
  BY <1>1, <1>3
<1>5. R = r
  BY <1>1, <1>2, <1>4
<1> QED BY <1>4, <1>5 DEF Q, R

\* Dividing by a positive number, rounding down.
LEMMA Divided ==
    ASSUME NEW d \in Nat \ {0}, NEW x \in Int
    PROVE  /\ x \div d \in Int /\ x % d \in Int /\ 0 <= x % d /\ x % d < d
           /\ x = (x \div d) * d + (x % d)
OBVIOUS

\* The provers find an instance of a lemma by its operators, not by its sums and
\* products, which have names for that.
IsProduct(p, a, b) == p = a * b

\* Dividing x by a product p of a and b is dividing twice.
Twice(x, p, a, b) ==
    /\ p \in Nat \ {0}
    /\ x \div p = (x \div a) \div b
    /\ x % p = a * ((x \div a) % b) + (x % a)
    /\ (x % p) \div a = (x \div a) % b
    /\ (x % p) % a = x % a

\* Dividing in two steps is dividing by the product.
LEMMA DividedTwice ==
    ASSUME NEW a \in Nat \ {0}, NEW b \in Nat \ {0}, NEW x \in Int,
           NEW p, IsProduct(p, a, b)
    PROVE  Twice(x, p, a, b)
<1>0. p = a * b
  BY DEF IsProduct
<1> DEFINE q == x \div a
           r == x % a
           Q == q \div b
           R == q % b
           low == a * R + r
<1>1. q \in Int /\ r \in Int /\ 0 <= r /\ r < a /\ x = q * a + r
  BY Divided
<1> HIDE DEF q, r
<1>2. Q \in Int /\ R \in Int /\ 0 <= R /\ R < b /\ q = Q * b + R
  BY <1>1, Divided
<1> HIDE DEF Q, R
<1>3. x = Q * p + low
  <2>1. q * a = (Q * b) * a + R * a
    BY <1>1, <1>2
  <2>2. (Q * b) * a = Q * p /\ R * a = a * R
    BY <1>0, <1>2
  <2> DEFINE u == q * a
             v == Q * p
             w == a * R
  <2>3. u \in Int /\ v \in Int /\ w \in Int
    BY <1>0, <1>1, <1>2
  <2>4. u = v + w
    BY <2>1, <2>2
  <2> HIDE DEF u, v, w
  <2>5. u + r = v + (w + r)
    BY <1>1, <2>3, <2>4
  <2> QED BY <1>1, <2>5 DEF u, v, w
<1>4. p \in Nat \ {0} /\ low \in Int /\ 0 <= low /\ low < p
  <2>1. a * R >= 0 /\ a * (R + 1) <= p
    BY <1>0, <1>2
  <2>2. a * (R + 1) = a * R + a
    BY <1>2
  <2> DEFINE w == a * R
  <2>3. w \in Int /\ p \in Int /\ w >= 0 /\ w + a <= p
    BY <1>0, <1>2, <2>1, <2>2
  <2> HIDE DEF w
  <2>4. p \in Nat \ {0} /\ w + r \in Int /\ 0 <= w + r /\ w + r < p
    BY <1>1, <2>3
  <2> QED BY <2>4 DEF w
<1>5. x \div p = Q /\ x % p = low
  <2> HIDE DEF low
  <2> QED BY <1>2, <1>3, <1>4, DivisionIs
<1>6. low \div a = R /\ low % a = r
  <2>1. R * a = a * R /\ a * R \in Int
    BY <1>2
  <2>2. low = R * a + r
    BY <2>1
  <2> HIDE DEF low
  <2> QED BY <1>1, <1>2, <2>2, DivisionIs
<1> QED BY <1>4, <1>5, <1>6 DEF q, r, Q, R, Twice

\* The powers of two double.
LEMMA Doubles ==
    ASSUME NEW n \in 0 .. 31
    PROVE  2^n \in Nat \ {0} /\ 2^(n + 1) \in Nat \ {0} /\ 2^(n + 1) = 2 * 2^n
<1>0. CASE n = 0 BY <1>0
<1>1. CASE n = 1 BY <1>1
<1>2. CASE n = 2 BY <1>2
<1>3. CASE n = 3 BY <1>3
<1>4. CASE n = 4 BY <1>4
<1>5. CASE n = 5 BY <1>5
<1>6. CASE n = 6 BY <1>6
<1>7. CASE n = 7 BY <1>7
<1>8. CASE n = 8 BY <1>8
<1>9. CASE n = 9 BY <1>9
<1>10. CASE n = 10 BY <1>10
<1>11. CASE n = 11 BY <1>11
<1>12. CASE n = 12 BY <1>12
<1>13. CASE n = 13 BY <1>13
<1>14. CASE n = 14 BY <1>14
<1>15. CASE n = 15 BY <1>15
<1>16. CASE n = 16 BY <1>16
<1>17. CASE n = 17 BY <1>17
<1>18. CASE n = 18 BY <1>18
<1>19. CASE n = 19 BY <1>19
<1>20. CASE n = 20 BY <1>20
<1>21. CASE n = 21 BY <1>21
<1>22. CASE n = 22 BY <1>22
<1>23. CASE n = 23 BY <1>23
<1>24. CASE n = 24 BY <1>24
<1>25. CASE n = 25 BY <1>25
<1>26. CASE n = 26 BY <1>26
<1>27. CASE n = 27 BY <1>27
<1>28. CASE n = 28 BY <1>28
<1>29. CASE n = 29 BY <1>29
<1>30. CASE n = 30 BY <1>30
<1>31. CASE n = 31 BY <1>31
<1> QED BY <1>0, <1>1, <1>2, <1>3, <1>4, <1>5, <1>6, <1>7, <1>8, <1>9, <1>10, <1>11,
       <1>12, <1>13, <1>14, <1>15, <1>16, <1>17, <1>18, <1>19, <1>20, <1>21, <1>22, <1>23,
       <1>24, <1>25, <1>26, <1>27, <1>28, <1>29, <1>30, <1>31

\* The law of exponents, as far as registers go.
LEMMA Products ==
    ASSUME NEW i \in Nat, NEW jj \in Nat, i + jj <= 32
    PROVE  /\ 2^i \in Nat \ {0} /\ 2^jj \in Nat \ {0} /\ 2^(i + jj) \in Nat \ {0}
           /\ 2^(i + jj) = 2^i * 2^jj
<1>1. \A kk \in 0 .. 32 : 2^kk \in Nat \ {0}
  <2> TAKE kk \in 0 .. 32
  <2>1. CASE kk = 32
    <3>1. 2^(31 + 1) \in Nat \ {0}
      BY Doubles
    <3> QED BY <2>1, <3>1
  <2>2. CASE kk < 32
    <3>1. kk \in 0 .. 31
      BY <2>2
    <3> QED BY <3>1, Doubles
  <2> QED BY <2>1, <2>2
<1> DEFINE Wrong == {kk \in 0 .. (32 - i) : 2^(i + kk) # 2^i * 2^kk}
<1>2. Wrong = {}
  <2> SUFFICES ASSUME Wrong # {} PROVE FALSE
    OBVIOUS
  <2>1. Wrong \subseteq Nat
    OBVIOUS
  <2> HIDE DEF Wrong
  <2>2. PICK kk \in Wrong : \A y \in Wrong : ~(<<y, kk>> \in Below)
    BY <2>1, BelowWellFounded, WFMin
  <2>3. kk \in 0 .. (32 - i) /\ 2^(i + kk) # 2^i * 2^kk
    BY <2>2 DEF Wrong
  <2>4. CASE kk = 0
    <3>1. 2^0 = 1 /\ 2^i \in Int
      BY <1>1
    <3>2. i + 0 = i
      OBVIOUS
    <3>3. 2^i * 2^0 = 2^i
      BY <3>1
    <3> QED BY <2>3, <2>4, <3>2, <3>3
  <2>5. CASE kk # 0
    <3> DEFINE m == kk - 1
    <3>1. m \in 0 .. 31 /\ i + m \in 0 .. 31 /\ m + 1 = kk /\ (i + m) + 1 = i + kk
      BY <2>3, <2>5
    <3>2. m \notin Wrong
      <4>1. <<m, kk>> \in Below
        BY <2>3, <3>1 DEF Below
      <4> QED BY <2>2, <4>1
    <3>3. 2^(i + m) = 2^i * 2^m
      BY <2>3, <3>1, <3>2 DEF Wrong
    <3>4. 2^kk = 2 * 2^m /\ 2^(i + kk) = 2 * 2^(i + m)
      <4> HIDE DEF m
      <4>1. 2^(m + 1) = 2 * 2^m
        BY <3>1, Doubles
      <4>2. 2^((i + m) + 1) = 2 * 2^(i + m)
        BY <3>1, Doubles
      <4> QED BY <3>1, <4>1, <4>2
    <3>5. 2^i \in Int /\ 2^m \in Int
      BY <1>1, <3>1
    <3> HIDE DEF m
    <3>6. PICK x, y : x = 2^i /\ y = 2^m
      OBVIOUS
    <3>7. 2 * (x * y) = x * (2 * y)
      BY <3>5, <3>6
    <3> QED BY <2>3, <3>3, <3>4, <3>6, <3>7
  <2> QED BY <2>4, <2>5
<1>3. jj \in 0 .. (32 - i) /\ i \in 0 .. 32 /\ jj \in 0 .. 32 /\ i + jj \in 0 .. 32
  OBVIOUS
<1>4. 2^(i + jj) = 2^i * 2^jj
  BY <1>2, <1>3
<1> QED BY <1>1, <1>3, <1>4

\* A number in its range is what its lowest n bits say.
LEMMA LowBits ==
    ASSUME NEW n \in Nat \ {0}, n <= 32, NEW v \in Int
    PROVE  /\ v \in 0 .. 2^n - 1 => v % 2^n = v
           /\ v \in -(2^(n - 1)) .. 2^(n - 1) - 1 => Signed(v % 2^n, n) = v
<1>1. PICK h, w : h = 2^(n - 1) /\ w = 2^n
  OBVIOUS
<1>2. h \in Nat \ {0} /\ w = 2 * h
  <2> DEFINE m == n - 1
  <2>1. m \in 0 .. 31 /\ m + 1 = n
    OBVIOUS
  <2> HIDE DEF m
  <2>2. 2^m \in Nat \ {0} /\ 2^(m + 1) = 2 * 2^m
    BY <2>1, Doubles
  <2> QED BY <1>1, <2>1, <2>2 DEF m
<1>3. v \in 0 .. w - 1 => v % w = v
  <2> HAVE v \in 0 .. w - 1
  <2>1. (0 * w + v) % w = v
    BY <1>2, DivisionIs
  <2> QED BY <1>2, <2>1
<1>4. v \in -h .. h - 1 => v % w = IF v < 0 THEN v + w ELSE v
  <2> HAVE v \in -h .. h - 1
  <2>1. CASE v < 0
    <3>1. ((-1) * w + (v + w)) % w = v + w
      BY <1>2, <2>1, DivisionIs
    <3> QED BY <1>2, <2>1, <3>1
  <2>2. CASE ~(v < 0)
    <3>1. (0 * w + v) % w = v
      BY <1>2, <2>2, DivisionIs
    <3> QED BY <1>2, <2>2, <3>1
  <2> QED BY <2>1, <2>2
<1>5. v \in -h .. h - 1 => (IF v % w >= h THEN (v % w) - w ELSE v % w) = v
  BY <1>2, <1>4
<1> QED BY <1>1, <1>3, <1>5 DEF Signed

\* The lowest l bits of v in place of those above the o lowest of a: the new
\* ones are there, and those below and above are as they were.
Replaced(a, v, o, l, p) == (a \div p) * p + (v % l) * o + (a % o)

\* The field reads v, the bits below and above it are left.
LEMMA BitsReplaced ==
    ASSUME NEW o \in Nat \ {0}, NEW l \in Nat \ {0}, NEW a \in Int, NEW v \in Int,
           NEW p, IsProduct(p, o, l), NEW x, x = Replaced(a, v, o, l, p)
    PROVE  /\ x \in Int
           /\ (x \div o) % l = v % l
           /\ x % o = a % o
           /\ x \div p = a \div p
<1>0. p = o * l /\ x = (a \div p) * p + (v % l) * o + (a % o)
  BY DEF IsProduct, Replaced
<1> DEFINE e == a \div p
           w == v % l
           r == a % o
           y == e * l + w
<1>1. p \in Nat \ {0} /\ e \in Int
  <2>1. Twice(a, p, o, l)
    BY DividedTwice
  <2>2. p \in Nat \ {0}
    BY <2>1 DEF Twice
  <2> QED BY <2>2, Divided
<1>2. w \in Int /\ 0 <= w /\ w < l /\ r \in Int /\ 0 <= r /\ r < o
  BY Divided
<1> HIDE DEF e, w, r
<1>3. x = y * o + r
  <2>1. y * o = (e * l) * o + w * o
    BY <1>1, <1>2
  <2>2. (e * l) * o = e * p
    BY <1>0, <1>1
  <2>3. x = e * p + w * o + r
    BY <1>0 DEF e, w, r
  <2> QED BY <2>1, <2>2, <2>3
<1>4. y \in Int /\ y \div l = e /\ y % l = w
  <2>1. (e * l + w) \div l = e /\ (e * l + w) % l = w
    BY <1>1, <1>2, DivisionIs
  <2> QED BY <1>1, <1>2, <2>1
<1> HIDE DEF y
<1>5. x \in Int
  BY <1>2, <1>3, <1>4
<1>6. x \div o = y /\ x % o = r
  BY <1>2, <1>3, <1>4, DivisionIs
<1>7. x \div p = e
  <2>1. Twice(x, p, o, l)
    BY <1>5, DividedTwice
  <2> QED BY <1>4, <1>6, <2>1 DEF Twice
<1> QED BY <1>4, <1>5, <1>6, <1>7 DEF e, w, r

\* A byte moved to the left and back.
Aligned32(x, g, byte, s) == ((x * g) % byte) \div s

\* Shifted left in a byte and back, the field is alone.
LEMMA LeftAndBack ==
    ASSUME NEW o \in Nat \ {0}, NEW l \in Nat \ {0}, NEW g \in Nat \ {0}, NEW x \in Int,
           NEW p, IsProduct(p, o, l), NEW byte, IsProduct(byte, g, p),
           NEW s, IsProduct(s, g, o)
    PROVE  Aligned32(x, g, byte, s) = (x \div o) % l
<1> DEFINE z == x * g
<1>1. p \in Nat \ {0} /\ byte \in Nat \ {0} /\ s \in Nat \ {0}
  <2>1. Twice(x, p, o, l)
    BY DividedTwice
  <2>2. p \in Nat \ {0}
    BY <2>1 DEF Twice
  <2>3. Twice(x, byte, g, p) /\ Twice(x, s, g, o)
    BY <2>2, DividedTwice
  <2> QED BY <2>2, <2>3 DEF Twice
<1>2. z = x * g + 0 /\ z \in Int
  OBVIOUS
<1>3. z \div g = x
  <2> HIDE DEF z
  <2> QED BY <1>2, DivisionIs
<1> HIDE DEF z
<1>4. (z % byte) \div g = (z \div g) % p /\ z % byte \in Int
  <2>1. Twice(z, byte, g, p)
    BY <1>1, <1>2, DividedTwice
  <2> QED BY <1>1, <1>2, <2>1, Divided DEF Twice
<1> DEFINE y == z % byte
<1> HIDE DEF y
<1>5. y \div s = (y \div g) \div o
  <2>1. Twice(y, s, g, o)
    BY <1>4, DividedTwice DEF y
  <2> QED BY <2>1 DEF Twice
<1>6. (x % p) \div o = (x \div o) % l
  <2>1. Twice(x, p, o, l)
    BY DividedTwice
  <2> QED BY <2>1 DEF Twice
<1>7. Aligned32(x, g, byte, s) = y \div s
  BY DEF Aligned32, z, y
<1> QED BY <1>3, <1>4, <1>5, <1>6, <1>7 DEF y

-----------------------------------------------------------------------------
(* What is written to a field is read from it.                             *)

\* The field of r in byte a, and byte a with v in that field.
Bits(r, a) == (a \div 2^Registers[r].offs) % 2^Registers[r].leng
Mixed(r, v, a) ==
    (a \div 2^(Registers[r].offs + Registers[r].leng)) * 2^(Registers[r].offs + Registers[r].leng)
    + (v % 2^Registers[r].leng) * 2^Registers[r].offs + (a % 2^Registers[r].offs)

\* The numbers of a register's field.
LEMMA FieldNumbers ==
    ASSUME RegisterTable, NEW r \in Names
    PROVE  /\ ByteBits \in 1 .. 8
           /\ Registers[r].offs \in Nat /\ Registers[r].leng \in Nat \ {0} /\ Registers[r].leng <= 32
           /\ Registers[r].sign \in BOOLEAN /\ Registers[r].addr \in Nat
           /\ Registers[r].page \in Nat \cup {-1, -2}
           /\ OneByte(r) => Registers[r].offs + Registers[r].leng <= ByteBits
           /\ ~OneByte(r) => /\ Registers[r].offs = 0 /\ Registers[r].leng > ByteBits
                             /\ Registers[r].leng <= 4 * ByteBits
<1>1. FieldOK(Registers[r]) /\ ByteBits \in 1 .. 8
  BY DEF RegisterTable
<1>2. /\ Registers[r].offs \in Nat /\ Registers[r].leng \in Nat \ {0} /\ Registers[r].addr \in Nat
      /\ Registers[r].sign \in BOOLEAN /\ Registers[r].page \in Nat \cup {-1, -2}
  BY <1>1 DEF FieldOK, FPGA
<1>3. PICK o, l : o = Registers[r].offs /\ l = Registers[r].leng
  OBVIOUS
<1>4. o + l <= ByteBits \/ (o = 0 /\ l <= 4 * ByteBits)
  BY <1>1, <1>3 DEF FieldOK, Word32
<1>5. OneByte(r) <=> o + l <= ByteBits
  BY <1>3 DEF OneByte
<1>6. /\ l <= 32
      /\ OneByte(r) => o + l <= ByteBits
      /\ ~OneByte(r) => o = 0 /\ l > ByteBits /\ l <= 4 * ByteBits
  <2>1. o \in Nat /\ l \in Nat
    BY <1>2, <1>3
  <2> QED BY <1>1, <1>4, <1>5, <2>1
<1> QED BY <1>1, <1>2, <1>3, <1>6

\* The powers of a field in one byte.
LEMMA FieldPowers ==
    ASSUME RegisterTable, NEW r \in Names, OneByte(r),
           NEW o, o = 2^Registers[r].offs, NEW l, l = 2^Registers[r].leng,
           NEW p, p = 2^(Registers[r].offs + Registers[r].leng), NEW byte, byte = 2^ByteBits
    PROVE  /\ o \in Nat \ {0} /\ l \in Nat \ {0} /\ p \in Nat \ {0} /\ IsProduct(p, o, l)
           /\ \E g \in Nat \ {0} : /\ g = 2^(ByteBits - Registers[r].leng - Registers[r].offs)
                                   /\ IsProduct(byte, g, p)
                                   /\ IsProduct(2^(ByteBits - Registers[r].leng), g, o)
<1>1. PICK i, n : i = Registers[r].offs /\ n = Registers[r].leng
  OBVIOUS
<1>2. i \in Nat /\ n \in Nat /\ i + n <= ByteBits /\ ByteBits \in 1 .. 8
  BY <1>1, FieldNumbers
<1>3. PICK kk : kk = ByteBits - n - i
  OBVIOUS
<1>4. kk \in Nat /\ kk + (i + n) = ByteBits /\ kk + i = ByteBits - n /\ i + n \in Nat
  BY <1>2, <1>3
<1>5. o \in Nat \ {0} /\ l \in Nat \ {0} /\ p \in Nat \ {0} /\ p = o * l
  <2>1. /\ 2^i \in Nat \ {0} /\ 2^n \in Nat \ {0} /\ 2^(i + n) \in Nat \ {0}
        /\ 2^(i + n) = 2^i * 2^n
    <3>1. i + n <= 32
      BY <1>2
    <3> QED BY <1>2, <3>1, Products
  <2> QED BY <1>1, <2>1
<1>6. 2^kk \in Nat \ {0} /\ 2^(kk + (i + n)) = 2^kk * 2^(i + n)
  <2>1. kk + (i + n) <= 32
    BY <1>2, <1>4
  <2> QED BY <1>4, <2>1, Products
<1>7. 2^(kk + i) = 2^kk * 2^i
  <2>1. kk + i <= 32
    BY <1>2, <1>4
  <2> QED BY <1>2, <1>4, <2>1, Products
<1>8. 2^kk \in Nat \ {0} /\ byte = 2^kk * p /\ 2^(ByteBits - n) = 2^kk * o
  BY <1>1, <1>4, <1>6, <1>7
<1> QED BY <1>1, <1>3, <1>5, <1>8 DEF IsProduct

\* reg_r_align32 of a field in one byte.
LEMMA ByteIsRead ==
    ASSUME RegisterTable, NEW r \in Names, OneByte(r), NEW loc, loc[1] \in Int
    PROVE  Fetched(r, loc) = IF Registers[r].sign THEN Signed(Bits(r, loc[1]), Registers[r].leng)
                            ELSE Bits(r, loc[1])
<1>1. PICK o, l, p, byte : /\ o = 2^Registers[r].offs /\ l = 2^Registers[r].leng
                           /\ p = 2^(Registers[r].offs + Registers[r].leng) /\ byte = 2^ByteBits
  OBVIOUS
<1>2. /\ o \in Nat \ {0} /\ l \in Nat \ {0} /\ IsProduct(p, o, l)
      /\ \E g \in Nat \ {0} : /\ g = 2^(ByteBits - Registers[r].leng - Registers[r].offs)
                              /\ IsProduct(byte, g, p)
                              /\ IsProduct(2^(ByteBits - Registers[r].leng), g, o)
  BY <1>1, FieldPowers
<1>3. PICK g \in Nat \ {0} : /\ g = 2^(ByteBits - Registers[r].leng - Registers[r].offs)
                             /\ IsProduct(byte, g, p)
                             /\ IsProduct(2^(ByteBits - Registers[r].leng), g, o)
  BY <1>2
<1>4. PICK a : a = loc[1]
  OBVIOUS
<1>5. \A s : IsProduct(s, g, o) => Aligned32(a, g, byte, s) = (a \div o) % l
  BY <1>2, <1>3, <1>4, LeftAndBack
<1>6. PICK x : x = ((loc[1] * 2^(ByteBits - Registers[r].leng - Registers[r].offs)) % 2^ByteBits)
                   \div 2^(ByteBits - Registers[r].leng)
  OBVIOUS
<1>7. x = Bits(r, loc[1])
  BY <1>1, <1>3, <1>4, <1>5, <1>6, Zenon DEF Bits, Aligned32
<1>8. Fetched(r, loc) = IF Registers[r].sign THEN Signed(x, Registers[r].leng) ELSE x
  BY <1>6, Zenon DEF Fetched
<1> QED BY <1>7, <1>8

\* reg_w_align32 of a field in one byte: its bits are those of v, the bits of
\* the other fields are left, and a byte it is.
LEMMA ByteIsMixed ==
    ASSUME RegisterTable, NEW r \in Names, OneByte(r), NEW v \in Int,
           NEW a \in 0 .. 2^ByteBits - 1
    PROVE  /\ Mixed(r, v, a) \in 0 .. 2^ByteBits - 1
           /\ Bits(r, Mixed(r, v, a)) = v % 2^Registers[r].leng
           /\ \A q \in Names :
                 /\ OneByte(q)
                 /\ Beside(Registers[q], Registers[r]) \/ Beside(Registers[r], Registers[q])
                 => Bits(q, Mixed(r, v, a)) = Bits(q, a)
<1>1. PICK o, l, p, byte : /\ o = 2^Registers[r].offs /\ l = 2^Registers[r].leng
                           /\ p = 2^(Registers[r].offs + Registers[r].leng) /\ byte = 2^ByteBits
  OBVIOUS
<1>2. /\ o \in Nat \ {0} /\ l \in Nat \ {0} /\ p \in Nat \ {0} /\ IsProduct(p, o, l)
      /\ \E g \in Nat \ {0} : IsProduct(byte, g, p)
  BY <1>1, FieldPowers
<1>3. PICK g \in Nat \ {0} : IsProduct(byte, g, p)
  BY <1>2
<1>4. PICK x : x = Mixed(r, v, a)
  OBVIOUS
<1>5. x = Replaced(a, v, o, l, p) /\ a \in 0 .. byte - 1
  BY <1>1, <1>4 DEF Mixed, Replaced
<1>a. byte = g * p
  BY <1>3 DEF IsProduct
<1>6. a \in Int /\ byte \in Nat \ {0}
  <2>1. Twice(0, byte, g, p)
    BY <1>2, <1>3, DividedTwice
  <2> QED BY <1>5, <2>1 DEF Twice
<1>7. x \in Int /\ (x \div o) % l = v % l /\ x % o = a % o /\ x \div p = a \div p
  BY <1>2, <1>5, <1>6, BitsReplaced
<1>8. x \in 0 .. byte - 1
  <2> DEFINE e == x \div p
             s == x % p
             t == a % p
  <2>1. /\ e \in Int /\ s \in Int /\ 0 <= s /\ s < p /\ x = e * p + s
        /\ t \in Int /\ 0 <= t /\ t < p /\ a = e * p + t
    BY <1>2, <1>6, <1>7, Divided
  <2> HIDE DEF e, s, t
  <2>2. 0 <= e /\ e < g
    <3>1. e <= -1 => e * p <= -p
      BY <1>2, <2>1
    <3>2. e >= g => e * p >= g * p
      BY <1>2, <2>1
    <3>3. PICK y : y = e * p
      OBVIOUS
    <3>4. y \in Int
      BY <1>2, <2>1, <3>3
    <3> QED BY <1>2, <1>a, <1>5, <1>6, <2>1, <3>1, <3>2, <3>3, <3>4
  <2>3. e * p >= 0 /\ (e + 1) * p <= g * p
    BY <1>2, <1>a, <2>1, <2>2
  <2>4. (e + 1) * p = e * p + p
    BY <1>2, <2>1
  <2>5. PICK y : y = e * p
    OBVIOUS
  <2>6. y \in Int /\ y >= 0 /\ y + p <= byte /\ x = y + s
    BY <1>2, <1>a, <2>1, <2>3, <2>4, <2>5
  <2> QED BY <1>2, <1>6, <2>1, <2>6
<1>9. ASSUME NEW q \in Names, OneByte(q), Beside(Registers[r], Registers[q])
      PROVE  Bits(q, x) = Bits(q, a)
  <2>1. PICK i, n, kk : i = Registers[r].offs /\ n = Registers[r].leng /\ kk = Registers[q].offs
    OBVIOUS
  <2>2. i \in Nat /\ n \in Nat /\ kk \in Nat /\ i + n <= kk /\ kk <= 32
    <3>1. i \in Nat /\ n \in Nat /\ kk \in Nat /\ i + n <= kk
      BY <1>9, <2>1, FieldNumbers DEF Beside
    <3>2. Registers[q].leng \in Nat /\ kk + Registers[q].leng <= ByteBits /\ ByteBits \in 1 .. 8
      BY <1>9, <2>1, FieldNumbers
    <3> QED BY <3>1, <3>2
  <2>3. PICK d : d = kk - (i + n)
    OBVIOUS
  <2>4. d \in Nat /\ i + n \in Nat /\ (i + n) + d = kk
    BY <2>2, <2>3
  <2>5. 2^d \in Nat \ {0} /\ 2^((i + n) + d) = 2^(i + n) * 2^d
    BY <2>2, <2>3, <2>4, Products
  <2>6. PICK c, z : c = 2^d /\ z = 2^kk
    OBVIOUS
  <2>7. c \in Nat \ {0} /\ IsProduct(z, p, c)
    BY <1>1, <2>1, <2>4, <2>5, <2>6 DEF IsProduct
  <2>8. Twice(x, z, p, c) /\ Twice(a, z, p, c)
    BY <1>2, <1>6, <1>7, <2>7, DividedTwice
  <2>9. x \div z = a \div z
    BY <1>7, <2>8 DEF Twice
  <2> QED BY <2>1, <2>6, <2>9 DEF Bits
<1>10. ASSUME NEW q \in Names, OneByte(q), Beside(Registers[q], Registers[r])
       PROVE  Bits(q, x) = Bits(q, a)
  <2>1. PICK i, kk, n : i = Registers[r].offs /\ kk = Registers[q].offs /\ n = Registers[q].leng
    OBVIOUS
  <2>2. i \in Nat /\ kk \in Nat /\ n \in Nat /\ kk + n <= i /\ i <= 32
    <3>1. i \in Nat /\ n \in Nat /\ kk \in Nat /\ kk + n <= i
      BY <1>10, <2>1, FieldNumbers DEF Beside
    <3>2. Registers[r].leng \in Nat /\ i + Registers[r].leng <= ByteBits /\ ByteBits \in 1 .. 8
      BY <2>1, FieldNumbers
    <3> QED BY <3>1, <3>2
  <2>3. PICK d : d = i - (kk + n)
    OBVIOUS
  <2>4. d \in Nat /\ (kk + n) + d = i /\ kk + n \in Nat /\ kk + n <= 32
    BY <2>2, <2>3
  <2>5. /\ 2^d \in Nat \ {0} /\ 2^(kk + n) \in Nat \ {0}
        /\ 2^((kk + n) + d) = 2^(kk + n) * 2^d
    BY <2>2, <2>4, Products
  <2>6. 2^kk \in Nat \ {0} /\ 2^n \in Nat \ {0} /\ 2^(kk + n) = 2^kk * 2^n
    BY <2>2, <2>4, Products
  <2>7. PICK c, m, y, z : c = 2^d /\ m = 2^(kk + n) /\ y = 2^kk /\ z = 2^n
    OBVIOUS
  <2>8. /\ c \in Nat \ {0} /\ m \in Nat \ {0} /\ y \in Nat \ {0} /\ z \in Nat \ {0}
        /\ IsProduct(o, m, c) /\ IsProduct(m, y, z)
    BY <1>1, <2>1, <2>4, <2>5, <2>6, <2>7 DEF IsProduct
  <2>9. /\ Twice(x, o, m, c) /\ Twice(a, o, m, c)
        /\ Twice(x, m, y, z) /\ Twice(a, m, y, z)
    BY <1>6, <1>7, <2>8, DividedTwice
  <2>10. x % m = a % m
    BY <1>7, <2>9 DEF Twice
  <2>11. (x \div y) % z = (a \div y) % z
    BY <2>9, <2>10 DEF Twice
  <2> QED BY <2>1, <2>7, <2>11 DEF Bits
<1>11. Bits(r, x) = v % 2^Registers[r].leng
  BY <1>1, <1>7 DEF Bits
<1> QED BY <1>1, <1>4, <1>8, <1>9, <1>10, <1>11

-----------------------------------------------------------------------------
(* Registers of several bytes.                                             *)

\* Byte i of n, none beyond.
NthByte(n, loc, i) == IF i <= n THEN loc[i] ELSE 0

\* The loop of reg_r_align32, unrolled.
LEMMA WordIs ==
    ASSUME NEW n \in 2 .. 4, NEW loc, \A i \in 1 .. n : loc[i] \in Int,
           NEW d \in Nat \ {0}, d = 2^ByteBits
    PROVE  Word(n, loc) = loc[1] + d * (loc[2] + d * (NthByte(n, loc, 3) + d * NthByte(n, loc, 4)))
<1> DEFINE B(i) == NthByte(n, loc, i)
           x(i) == B(i) + d * (B(i + 1) + d * (B(i + 2) + d * B(i + 3)))
           g == [i \in 1 .. n |-> x(i)]
<1>1. \A i \in Nat \ {0} : B(i) \in Int /\ (i <= n => B(i) = loc[i]) /\ (i > n => B(i) = 0)
  <2> TAKE i \in Nat \ {0}
  <2>1. CASE i <= n
    <3>1. i \in 1 .. n
      BY <2>1
    <3> QED BY <2>1, <3>1 DEF NthByte
  <2>2. CASE i > n
    BY <2>2 DEF NthByte
  <2> QED BY <2>1, <2>2
<1> HIDE DEF B
<1>2. \A i \in 1 .. n : x(i) = IF i = n THEN loc[i] ELSE loc[i] + d * x(i + 1)
  <2> TAKE i \in 1 .. n
  <2>1. /\ B(i) = loc[i] /\ loc[i] \in Int /\ B(i + 1) \in Int /\ B(i + 2) \in Int
        /\ B(i + 3) \in Int /\ B(i + 4) = 0
    BY <1>1
  <2>2. CASE i = n
    <3>1. B(i + 1) = 0 /\ B(i + 2) = 0 /\ B(i + 3) = 0
      BY <1>1, <2>2
    <3>2. d * 0 = 0 /\ 0 + 0 = 0 /\ loc[i] + 0 = loc[i]
      BY <2>1
    <3>3. x(i) = loc[i]
      BY <2>1, <3>1, <3>2
    <3> QED BY <2>2, <3>3
  <2>3. CASE i # n
    <3>1. (i + 1) + 1 = i + 2 /\ (i + 1) + 2 = i + 3 /\ (i + 1) + 3 = i + 4
      OBVIOUS
    <3>2. x(i + 1) = B(i + 1) + d * (B(i + 2) + d * (B(i + 3) + d * B(i + 4)))
      BY <3>1
    <3>3. B(i + 3) + d * B(i + 4) = B(i + 3)
      BY <2>1
    <3>4. x(i + 1) = B(i + 1) + d * (B(i + 2) + d * B(i + 3))
      BY <3>2, <3>3
    <3>5. x(i) = loc[i] + d * x(i + 1)
      BY <2>1, <3>4
    <3> QED BY <2>3, <3>5
  <2> QED BY <2>2, <2>3
<1>3. g = [i \in 1 .. n |-> IF i = n THEN loc[i] ELSE loc[i] + d * g[i + 1]]
  <2>1. \A i \in 1 .. n : i # n => i + 1 \in 1 .. n
    OBVIOUS
  <2> HIDE DEF x
  <2>2. \A i \in 1 .. n : g[i] = IF i = n THEN loc[i] ELSE loc[i] + d * g[i + 1]
    BY <1>2, <2>1
  <2> QED BY <2>2
<1> HIDE DEF g, x
<1>4. PICK w :
          w = CHOOSE word : word = [i \in 1 .. n |-> IF i = n THEN loc[i] ELSE loc[i] + d * word[i + 1]]
  OBVIOUS
<1>5. w = [i \in 1 .. n |-> IF i = n THEN loc[i] ELSE loc[i] + d * w[i + 1]]
  BY <1>3, <1>4
<1>6. Word(n, loc) = w[1]
  BY <1>4 DEF Word
<1>7. \A i \in 1 .. n : w[i] = IF i = n THEN loc[i] ELSE loc[i] + d * w[i + 1]
  <2>1. PICK u : u = w
    OBVIOUS
  <2>2. w = [i \in 1 .. n |-> IF i = n THEN loc[i] ELSE loc[i] + d * u[i + 1]]
    BY <1>5, <2>1
  <2> QED BY <2>1, <2>2
<1>8. w[1] = x(1)
  <2>1. \A i \in 1 .. n : i # n => w[i] = loc[i] + d * w[i + 1] /\ x(i) = loc[i] + d * x(i + 1)
    BY <1>2, <1>7
  <2>2. w[n] = x(n)
    BY <1>2, <1>7
  <2>3. n \in {2, 3, 4} /\ n \in 1 .. n
    OBVIOUS
  <2>4. CASE n = 2
    BY <2>1, <2>2, <2>4
  <2>5. CASE n = 3
    <3>1. w[2] = x(2)
      BY <2>1, <2>2, <2>5
    <3> QED BY <2>1, <2>5, <3>1
  <2>6. CASE n = 4
    <3>1. w[3] = x(3)
      BY <2>1, <2>2, <2>6
    <3>2. w[2] = x(2)
      BY <2>1, <2>6, <3>1
    <3> QED BY <2>1, <2>6, <3>2
  <2> QED BY <2>3, <2>4, <2>5, <2>6
<1>9. x(1) = loc[1] + d * (loc[2] + d * (B(3) + d * B(4)))
  <2>1. B(1) = loc[1] /\ B(2) = loc[2]
    BY <1>1
  <2> QED BY <2>1 DEF x
<1> QED BY <1>6, <1>8, <1>9 DEF B

\* The bytes of v, put together.
LEMMA WordIsBack ==
    ASSUME NEW n \in 2 .. 4, NEW v \in Int, ByteBits \in 1 .. 8, NEW loc,
           \A i \in 1 .. n : loc[i] = (v \div 2^(ByteBits * (i - 1))) % 2^ByteBits
    PROVE  Word(n, loc) = v % 2^(ByteBits * n)
<1>1. PICK d : d = 2^ByteBits
  OBVIOUS
<1> DEFINE b == ByteBits
<1>2. /\ b * (1 - 1) = 0 /\ b * (2 - 1) = b /\ b * (3 - 1) = b + b /\ b * (4 - 1) = (b + b) + b
      /\ b * 2 = b + b /\ b * 3 = (b + b) + b /\ b * 4 = ((b + b) + b) + b
  OBVIOUS
<1>3. 2^0 = 1
  OBVIOUS
<1> DEFINE d2 == 2^(b + b)
           d3 == 2^((b + b) + b)
           d4 == 2^(((b + b) + b) + b)
<1>4. /\ d \in Nat \ {0} /\ d2 \in Nat \ {0} /\ d3 \in Nat \ {0} /\ d4 \in Nat \ {0}
      /\ IsProduct(d2, d, d) /\ IsProduct(d3, d, d2) /\ IsProduct(d4, d, d3)
      /\ IsProduct(d3, d2, d)
  <2>1. b + b \in Nat /\ (b + b) + b \in Nat /\ b \in Nat /\ ((b + b) + b) + b <= 32
    OBVIOUS
  <2>2. d2 = d * d /\ d \in Nat \ {0} /\ d2 \in Nat \ {0}
    <3>1. PICK c : c = b
      OBVIOUS
    <3>2. c \in Nat /\ c + b <= 32
      BY <2>1, <3>1
    <3>3. 2^(c + b) = 2^c * 2^b /\ 2^(c + b) \in Nat \ {0} /\ 2^b \in Nat \ {0}
      BY <2>1, <3>2, Products
    <3> QED BY <1>1, <3>1, <3>3
  <2>3. d3 = d2 * d /\ d3 \in Nat \ {0}
    <3>1. PICK c : c = b + b
      OBVIOUS
    <3>2. c \in Nat /\ c + b <= 32
      BY <2>1, <3>1
    <3>3. 2^(c + b) = 2^c * 2^b /\ 2^(c + b) \in Nat \ {0}
      BY <2>1, <3>2, Products
    <3> QED BY <1>1, <3>1, <3>3
  <2>4. d4 = d3 * d /\ d4 \in Nat \ {0}
    <3>1. PICK c : c = (b + b) + b
      OBVIOUS
    <3>2. c \in Nat /\ c + b <= 32
      BY <2>1, <3>1
    <3>3. 2^(c + b) = 2^c * 2^b /\ 2^(c + b) \in Nat \ {0}
      BY <2>1, <3>2, Products
    <3> QED BY <1>1, <3>1, <3>3
  <2> HIDE DEF d2, d3, d4
  <2>5. d2 * d = d * d2 /\ d3 * d = d * d3
    BY <2>2, <2>3
  <2> QED BY <2>2, <2>3, <2>4, <2>5 DEF IsProduct
<1> DEFINE v2 == v \div d
           v3 == v \div d2
           v4 == v \div d3
<1>5. /\ loc[1] = v % d /\ loc[2] = v2 % d
      /\ n >= 3 => loc[3] = v3 % d
      /\ n = 4 => loc[4] = v4 % d
  <2>1. 1 \in 1 .. n /\ 2 \in 1 .. n /\ (n >= 3 => 3 \in 1 .. n) /\ (n = 4 => 4 \in 1 .. n)
    OBVIOUS
  <2>2. v \div 1 = v
    OBVIOUS
  <2> DEFINE part(i) == (v \div 2^(b * (i - 1))) % 2^b
  <2>3. /\ part(1) = (v \div 1) % d /\ part(2) = v2 % d /\ part(3) = v3 % d /\ part(4) = v4 % d
    BY <1>1, <1>2, <1>3, Zenon
  <2>4. \A i \in 1 .. n : loc[i] = part(i)
    OBVIOUS
  <2> HIDE DEF part
  <2> QED BY <2>1, <2>2, <2>3, <2>4
<1> HIDE DEF d2, d3, d4
<1>6. /\ v2 \in Int /\ v3 \in Int /\ v4 \in Int
      /\ v % d \in Int /\ v2 % d \in Int /\ v3 % d \in Int /\ v4 % d \in Int
  <2>1. v2 \in Int /\ v3 \in Int /\ v4 \in Int
    BY <1>4, Divided
  <2> HIDE DEF v2, v3, v4
  <2> QED BY <1>4, <2>1, Divided
<1>7. /\ Twice(v, d2, d, d) /\ Twice(v, d3, d, d2) /\ Twice(v, d4, d, d3) /\ Twice(v, d3, d2, d)
  BY <1>4, DividedTwice
<1>8. v3 = v2 \div d /\ v4 = v3 \div d
  BY <1>7 DEF Twice
<1>9. v % d2 = d * (v2 % d) + (v % d)
  BY <1>7 DEF Twice
<1> HIDE DEF v2, v3, v4
<1>10. v % d3 = d * (d * (v3 % d) + (v2 % d)) + (v % d)
  <2>1. Twice(v2, d2, d, d)
    BY <1>4, <1>6, DividedTwice
  <2>2. v2 % d2 = d * (v3 % d) + (v2 % d)
    BY <1>8, <2>1 DEF Twice
  <2>3. v % d3 = d * (v2 % d2) + (v % d)
    BY <1>7 DEF Twice, v2
  <2> QED BY <2>2, <2>3
<1>11. v % d4 = d * (d * (d * (v4 % d) + (v3 % d)) + (v2 % d)) + (v % d)
  <2>1. Twice(v2, d3, d, d2) /\ Twice(v3, d2, d, d)
    BY <1>4, <1>6, DividedTwice
  <2>2. v3 % d2 = d * (v4 % d) + (v3 % d)
    BY <1>8, <2>1 DEF Twice
  <2>3. v2 % d3 = d * (v3 % d2) + (v2 % d)
    BY <1>8, <2>1 DEF Twice
  <2>4. v % d4 = d * (v2 % d3) + (v % d)
    BY <1>7 DEF Twice, v2
  <2> QED BY <2>2, <2>3, <2>4
<1>12. \A i \in 1 .. n : loc[i] \in Int
  <2> TAKE i \in 1 .. n
  <2>1. i = 1 \/ i = 2 \/ (i = 3 /\ n >= 3) \/ (i = 4 /\ n = 4)
    OBVIOUS
  <2> QED BY <1>5, <1>6, <2>1
<1>13. Word(n, loc) = loc[1] + d * (loc[2] + d * (NthByte(n, loc, 3) + d * NthByte(n, loc, 4)))
  BY <1>1, <1>4, <1>12, WordIs
<1>14. PICK a1, a2, a3, a4 : a1 = v % d /\ a2 = v2 % d /\ a3 = v3 % d /\ a4 = v4 % d
  OBVIOUS
<1>15. a1 \in Int /\ a2 \in Int /\ a3 \in Int /\ a4 \in Int
  BY <1>6, <1>14
<1>16. CASE n = 2
  <2>1. NthByte(n, loc, 3) = 0 /\ NthByte(n, loc, 4) = 0
    BY <1>16 DEF NthByte
  <2>2. Word(n, loc) = a1 + d * (a2 + d * (0 + d * 0))
    BY <1>5, <1>13, <1>14, <2>1
  <2>3. Word(n, loc) = d * a2 + a1
    BY <1>4, <1>15, <2>2
  <2>4. 2^(b * n) = d2
    BY <1>2, <1>16, Zenon DEF d2
  <2> QED BY <1>9, <1>14, <2>3, <2>4
<1>17. CASE n = 3
  <2>1. NthByte(n, loc, 3) = a3 /\ NthByte(n, loc, 4) = 0
    BY <1>5, <1>14, <1>17 DEF NthByte
  <2>2. Word(n, loc) = a1 + d * (a2 + d * (a3 + d * 0))
    BY <1>5, <1>13, <1>14, <2>1
  <2>3. Word(n, loc) = d * (d * a3 + a2) + a1
    BY <1>4, <1>15, <2>2
  <2>4. 2^(b * n) = d3
    BY <1>2, <1>17, Zenon DEF d3
  <2> QED BY <1>10, <1>14, <2>3, <2>4
<1>18. CASE n = 4
  <2>1. NthByte(n, loc, 3) = a3 /\ NthByte(n, loc, 4) = a4
    BY <1>5, <1>14, <1>18 DEF NthByte
  <2>2. Word(n, loc) = a1 + d * (a2 + d * (a3 + d * a4))
    BY <1>5, <1>13, <1>14, <2>1
  <2>3. Word(n, loc) = d * (d * (d * a4 + a3) + a2) + a1
    BY <1>4, <1>15, <2>2
  <2>4. 2^(b * n) = d4
    BY <1>2, <1>18, Zenon DEF d4
  <2> QED BY <1>11, <1>14, <2>3, <2>4
<1> QED BY <1>16, <1>17, <1>18

\* The bytes of a register: one, or two to four.
LEMMA Sizes ==
    ASSUME RegisterTable, NEW r \in Names
    PROVE  /\ OneByte(r) => Size(r) = 1
           /\ ~OneByte(r) => Size(r) \in 2 .. 4
           /\ ~OneByte(r) => /\ Registers[r].leng <= ByteBits * Size(r)
                             /\ Registers[r].leng > ByteBits * (Size(r) - 1)
           /\ Size(r) \in 1 .. 4
<1>1. PICK l, b, n : l = Registers[r].leng /\ b = ByteBits /\ n = Size(r)
  OBVIOUS
<1>2. /\ b \in 1 .. 8 /\ l \in Nat \ {0}
      /\ OneByte(r) => l <= b
      /\ ~OneByte(r) => l > b /\ l <= 4 * b
  <2>1. OneByte(r) => Registers[r].offs + l <= b
    BY <1>1, FieldNumbers
  <2>2. Registers[r].offs \in Nat /\ l \in Nat \ {0} /\ b \in 1 .. 8
    BY <1>1, FieldNumbers
  <2>3. ~OneByte(r) => l > b /\ l <= 4 * b
    BY <1>1, FieldNumbers
  <2> QED BY <2>1, <2>2, <2>3
<1>3. n = (l + b - 1) \div b
  BY <1>1 DEF Size
<1>4. PICK x, s : x = l + b - 1 /\ s = x % b
  OBVIOUS
<1>5. n \in Int /\ s \in Int /\ 0 <= s /\ s < b /\ x = n * b + s
  <2>1. x \in Int /\ b \in Nat \ {0} /\ n = x \div b
    BY <1>2, <1>3, <1>4
  <2> QED BY <1>4, <2>1, Divided
<1>6. l <= n * b /\ l > (n - 1) * b
  <2>1. (n - 1) * b = n * b - b
    BY <1>2, <1>5
  <2>2. PICK y : y = n * b
    OBVIOUS
  <2>3. y \in Int
    BY <1>2, <1>5, <2>2
  <2> QED BY <1>2, <1>4, <1>5, <2>1, <2>2, <2>3
<1>7. n >= 1
  <2>1. n <= 0 => n * b <= 0
    BY <1>2, <1>5
  <2> QED BY <1>2, <1>5, <1>6, <2>1
<1>8. OneByte(r) => n = 1
  <2>1. n >= 2 => (n - 1) * b >= b
    BY <1>2, <1>5
  <2> QED BY <1>2, <1>5, <1>6, <1>7, <2>1
<1>9. ~OneByte(r) => n \in 2 .. 4
  <2>1. n >= 5 => (n - 1) * b >= 4 * b
    BY <1>2, <1>5
  <2>2. n = 1 => n * b = b
    BY <1>2
  <2> QED BY <1>2, <1>5, <1>6, <1>7, <2>1, <2>2
<1>10. n * b = b * n /\ (n - 1) * b = b * (n - 1)
  BY <1>2, <1>5
<1>11. n \in 1 .. 4
  BY <1>5, <1>7, <1>8, <1>9
<1> QED BY <1>1, <1>6, <1>8, <1>9, <1>10, <1>11

\* Sooner or later in the powers.
LEMMA PowersRise ==
    ASSUME NEW i \in Nat, NEW jj \in Nat, i <= jj, jj <= 32
    PROVE  2^i \in Nat \ {0} /\ 2^i <= 2^jj
<1>1. PICK kk : kk = jj - i
  OBVIOUS
<1>2. kk \in Nat /\ i + kk = jj
  BY <1>1
<1>3. 2^i \in Nat \ {0} /\ 2^kk \in Nat \ {0} /\ 2^(i + kk) = 2^i * 2^kk
  BY <1>2, Products
<1>4. PICK x, y : x = 2^i /\ y = 2^kk
  OBVIOUS
<1>5. x <= x * y
  BY <1>3, <1>4
<1> QED BY <1>2, <1>3, <1>4, <1>5

\* Written and read, a register has the value it was given: whatever loc is
\* beyond it, and whatever old was.
LEMMA WrittenIsBack ==
    ASSUME RegisterTable, NEW r \in Names, NEW v \in Values(r), NEW old, NEW loc,
           old[1] \in 0 .. 2^ByteBits - 1,
           \A i \in 1 .. Size(r) : loc[i] = Aligned(r, v, old)[i]
    PROVE  /\ Fetched(r, loc) = v
           /\ \A i \in 1 .. Size(r) : loc[i] \in 0 .. 2^ByteBits - 1
           /\ OneByte(r) => loc[1] = Mixed(r, v, old[1])
<1>1. PICK l, b, n : l = Registers[r].leng /\ b = ByteBits /\ n = Size(r)
  OBVIOUS
<1>2. /\ b \in 1 .. 8 /\ l \in Nat \ {0} /\ l <= 32 /\ n \in 1 .. 4
      /\ Registers[r].sign \in BOOLEAN
      /\ OneByte(r) => n = 1 /\ l <= b
      /\ ~OneByte(r) => n \in 2 .. 4 /\ l <= b * n /\ l > b * (n - 1) /\ l <= 4 * b
  <2>1. OneByte(r) => Registers[r].offs + l <= b
    BY <1>1, FieldNumbers
  <2>2. Registers[r].offs \in Nat /\ l \in Nat \ {0} /\ b \in 1 .. 8 /\ l <= 32
    BY <1>1, FieldNumbers
  <2>3. OneByte(r) => l <= b
    BY <2>1, <2>2
  <2> QED BY <1>1, <2>2, <2>3, FieldNumbers, Sizes
<1>3. Word32 = 4 * b
  BY <1>1 DEF Word32
<1>4. /\ v \in Int
      /\ Registers[r].sign \/ l = 4 * b => v \in -(2^(l - 1)) .. 2^(l - 1) - 1
      /\ ~(Registers[r].sign \/ l = 4 * b) => v \in 0 .. 2^l - 1
  <2>1. Registers[r].sign \/ l = 4 * b => v \in -(2^(l - 1)) .. 2^(l - 1) - 1
    BY <1>1, <1>3 DEF Values
  <2>2. ~(Registers[r].sign \/ l = 4 * b) => v \in 0 .. 2^l - 1
    BY <1>1, <1>3 DEF Values
  <2>3. 2^l \in Int /\ 2^(l - 1) \in Int
    <3>1. l - 1 \in Nat /\ l \in Nat /\ l - 1 <= 32
      BY <1>2
    <3> QED BY <1>2, <3>1, PowersRise
  <2>4. v \in Int
    BY <2>1, <2>2, <2>3
  <2> QED BY <2>1, <2>2, <2>4
<1>5. /\ v \in 0 .. 2^l - 1 => v % 2^l = v
      /\ v \in -(2^(l - 1)) .. 2^(l - 1) - 1 => Signed(v % 2^l, l) = v
  BY <1>2, <1>4, LowBits
<1>6. CASE OneByte(r)
  <2>1. Aligned(r, v, old) = <<Mixed(r, v, old[1])>>
    BY <1>6 DEF Aligned, Mixed
  <2>2. loc[1] = Mixed(r, v, old[1])
    BY <1>1, <1>2, <1>6, <2>1
  <2>3. /\ loc[1] \in 0 .. 2^ByteBits - 1
        /\ Bits(r, loc[1]) = v % 2^Registers[r].leng
    BY <1>4, <1>6, <2>2, ByteIsMixed
  <2>4. loc[1] \in Int
    <3>1. 2^b \in Int
      BY <1>2, PowersRise
    <3> QED BY <1>1, <2>3, <3>1
  <2>5. Fetched(r, loc) = IF Registers[r].sign THEN Signed(v % 2^l, l) ELSE v % 2^l
    BY <1>1, <1>6, <2>3, <2>4, ByteIsRead
  <2>6. l # 4 * b
    BY <1>2, <1>6
  <2>7. Fetched(r, loc) = v
    BY <1>2, <1>4, <1>5, <2>5, <2>6
  <2> QED BY <1>1, <1>2, <1>6, <2>2, <2>3, <2>7
<1>7. CASE ~OneByte(r)
  <2>1. Aligned(r, v, old) = [i \in 1 .. n |-> (v \div 2^(b * (i - 1))) % 2^b]
    BY <1>1, <1>7 DEF Aligned
  <2>2. \A i \in 1 .. n : loc[i] = (v \div 2^(b * (i - 1))) % 2^b
    BY <1>1, <2>1
  <2>3. Word(n, loc) = v % 2^(b * n)
    BY <1>1, <1>2, <1>4, <1>7, <2>2, WordIsBack
  <2>4. PICK kk : kk = b * n
    OBVIOUS
  <2>5. kk \in Nat \ {0} /\ l <= kk /\ kk <= 32
    <3>1. n = 2 \/ n = 3 \/ n = 4
      BY <1>2, <1>7
    <3>2. kk = 2 * b \/ kk = 3 * b \/ kk = 4 * b
      BY <1>2, <2>4, <3>1
    <3>3. l <= kk
      BY <1>2, <1>7, <2>4
    <3>4. kk \in Nat /\ kk <= 32 /\ kk >= 2
      BY <1>2, <3>2
    <3> QED BY <3>3, <3>4
  <2>6. \A i \in 1 .. Size(r) : loc[i] \in 0 .. 2^ByteBits - 1
    <3> TAKE i \in 1 .. Size(r)
    <3>1. PICK m : m = b * (i - 1)
      OBVIOUS
    <3>2. m \in Nat /\ m <= 32
      <4>1. i \in {1, 2, 3, 4}
        BY <1>1, <1>2
      <4> QED BY <1>2, <3>1, <4>1
    <3>3. 2^m \in Nat \ {0} /\ 2^b \in Nat \ {0}
      BY <1>2, <3>2, PowersRise
    <3>4. PICK x, y, z : x = 2^m /\ y = 2^b /\ z = v \div x
      OBVIOUS
    <3>5. z \in Int
      BY <1>4, <3>3, <3>4, Divided
    <3>6. z % y \in 0 .. y - 1
      BY <3>3, <3>4, <3>5, Divided
    <3> QED BY <1>1, <2>2, <3>1, <3>4, <3>6
  <2>7. /\ Registers[r].sign => Fetched(r, loc) = Signed(Word(n, loc) % 2^l, l)
        /\ ~Registers[r].sign => Fetched(r, loc) = Signed(Word(n, loc), 4 * b)
    BY <1>1, <1>3, <1>7, Zenon DEF Fetched
  <2>8. CASE Registers[r].sign
    <3>1. PICK jj : jj = kk - l
      OBVIOUS
    <3>2. jj \in Nat /\ l + jj = kk
      BY <1>2, <2>5, <3>1
    <3>3. 2^l \in Nat \ {0} /\ 2^jj \in Nat \ {0} /\ 2^(l + jj) = 2^l * 2^jj
      BY <1>2, <2>5, <3>2, Products
    <3>4. PICK x, y, z : x = 2^l /\ y = 2^jj /\ z = 2^kk
      OBVIOUS
    <3>5. IsProduct(z, x, y)
      BY <3>2, <3>3, <3>4 DEF IsProduct
    <3>6. Twice(v, z, x, y)
      BY <1>4, <3>3, <3>4, <3>5, DividedTwice
    <3>7. (v % z) % x = v % x
      BY <3>6 DEF Twice
    <3>8. Word(n, loc) % 2^l = v % 2^l
      BY <2>3, <2>4, <3>4, <3>7
    <3> QED BY <1>4, <1>5, <2>6, <2>7, <2>8, <3>8, <1>7
  <2>9. CASE ~Registers[r].sign /\ l = 4 * b
    <3>1. kk = l
      <4>1. n \in {2, 3, 4}
        BY <1>2, <1>7
      <4> QED BY <1>2, <2>4, <2>5, <2>9, <4>1
    <3>2. Fetched(r, loc) = Signed(v % 2^l, l)
      BY <2>3, <2>4, <2>7, <2>9, <3>1
    <3> QED BY <1>4, <1>5, <1>7, <2>6, <2>9, <3>2
  <2>10. CASE ~Registers[r].sign /\ l # 4 * b
    <3>1. v \in 0 .. 2^l - 1
      BY <1>4, <2>10
    <3>2. PICK m : m = 4 * b - 1
      OBVIOUS
    <3>3. m \in Nat /\ l <= m /\ m <= 32
      BY <1>2, <1>7, <2>10, <3>2
    <3>4. 2^l <= 2^kk /\ 2^l <= 2^m /\ 2^kk \in Nat \ {0} /\ 2^m \in Nat \ {0} /\ 2^l \in Nat \ {0}
      BY <1>2, <2>5, <3>3, PowersRise
    <3>5. v \in 0 .. 2^kk - 1
      BY <3>1, <3>4
    <3>6. v % 2^kk = v
      BY <1>4, <2>5, <3>5, LowBits
    <3>7. Fetched(r, loc) = Signed(v, 4 * b)
      BY <2>3, <2>4, <2>7, <2>10, <3>6
    <3>8. ~(v >= 2^m)
      BY <1>4, <3>1, <3>4
    <3>9. Signed(v, 4 * b) = v
      BY <3>2, <3>8 DEF Signed
    <3> QED BY <1>7, <2>6, <3>7, <3>9
  <2> QED BY <1>2, <2>8, <2>9, <2>10
<1> QED BY <1>6, <1>7

\* Nothing written, nothing read.
LEMMA NothingIsZero ==
    ASSUME RegisterTable, NEW r \in Names, NEW loc, \A i \in 1 .. Size(r) : loc[i] = 0
    PROVE  Fetched(r, loc) = 0
<1>1. \A d \in Nat \ {0} : 0 \div d = 0 /\ 0 % d = 0
  <2> TAKE d \in Nat \ {0}
  <2>1. (0 * d + 0) \div d = 0 /\ (0 * d + 0) % d = 0
    BY DivisionIs
  <2> QED BY <2>1
<1>2. /\ ByteBits \in 1 .. 8 /\ Registers[r].offs \in Nat /\ Registers[r].leng \in Nat \ {0}
      /\ Registers[r].leng <= 32 /\ Size(r) \in 1 .. 4
      /\ ~OneByte(r) => Registers[r].leng <= 4 * ByteBits
  BY FieldNumbers, Sizes
<1>3. PICK b, l, n : b = ByteBits /\ l = Registers[r].leng /\ n = Size(r)
  OBVIOUS
<1>4. 2^b \in Nat \ {0} /\ 2^l \in Nat \ {0} /\ 2^(l - 1) \in Nat \ {0} /\ 2^(4 * b - 1) \in Nat \ {0}
  <2>1. b \in Nat /\ l \in Nat /\ l - 1 \in Nat /\ 4 * b - 1 \in Nat /\ b <= 32 /\ l <= 32
        /\ l - 1 <= 32 /\ 4 * b - 1 <= 32
    BY <1>2, <1>3
  <2> QED BY <2>1, PowersRise
<1>5. \A i \in {l, 4 * b} : Signed(0, i) = 0
  BY <1>4 DEF Signed
<1>6. CASE OneByte(r)
  <2>1. loc[1] = 0
    BY <1>2, <1>6
  <2>2. PICK o, m : o = 2^Registers[r].offs /\ m = 2^Registers[r].leng
    OBVIOUS
  <2>3. o \in Nat \ {0} /\ m \in Nat \ {0}
    <3>1. Registers[r].offs + l <= b
      BY <1>3, <1>6, FieldNumbers
    <3>2. Registers[r].offs <= 32
      BY <1>2, <1>3, <3>1
    <3> QED BY <1>2, <1>3, <1>4, <2>2, <3>2, PowersRise
  <2>4. Bits(r, loc[1]) = 0
    BY <1>1, <2>1, <2>2, <2>3 DEF Bits
  <2> QED BY <1>3, <1>5, <1>6, <2>1, <2>4, ByteIsRead
<1>7. CASE ~OneByte(r)
  <2>1. n \in 2 .. 4 /\ \A i \in 1 .. n : loc[i] \in Int
    BY <1>3, <1>7, Sizes
  <2>2. PICK d : d = 2^b
    OBVIOUS
  <2>3. Word(n, loc) = loc[1] + d * (loc[2] + d * (NthByte(n, loc, 3) + d * NthByte(n, loc, 4)))
    BY <1>3, <1>4, <2>1, <2>2, WordIs
  <2>4. loc[1] = 0 /\ loc[2] = 0 /\ NthByte(n, loc, 3) = 0 /\ NthByte(n, loc, 4) = 0
    BY <1>3, <2>1 DEF NthByte
  <2>5. Word(n, loc) = 0 + d * (0 + d * (0 + d * 0))
    BY <2>3, <2>4
  <2>6. Word(n, loc) = 0
    BY <1>4, <2>2, <2>5
  <2>7. 0 % 2^l = 0
    BY <1>1, <1>4
  <2>8. Fetched(r, loc) = IF Registers[r].sign THEN Signed(Word(n, loc) % 2^l, l)
                         ELSE Signed(Word(n, loc), 4 * b)
    BY <1>3, <1>7, Zenon DEF Fetched, Word32
  <2> QED BY <1>5, <2>6, <2>7, <2>8
<1> QED BY <1>6, <1>7

-----------------------------------------------------------------------------
(* The chip: its bytes are what the registers were told, those in doubt    *)
(* apart; and the page it has selected is the cached one, or all that have *)
(* a page are in doubt.                                                    *)

\* The bytes of r.
Content(r) == [i \in 1 .. Size(r) |-> bytes[Own(r)[i]]]

RegShapes ==
    /\ cached \in Nat \cup {-1} /\ page \in Nat /\ doubt \subseteq Names
    /\ bytes \in [AllCells -> 0 .. 2^ByteBits - 1]
    /\ value = [r \in Names |-> value[r]]

InStep == cached \in {-1, page} \/ \A r \in Names : Paged(r) => r \in doubt
Told   == \A r \in Names \ doubt : Fetched(r, Content(r)) = value[r]

RegsInv == RegShapes /\ InStep /\ Told

\* Where the bytes of a register are.
LEMMA CellsOf ==
    ASSUME RegisterTable, NEW r \in Names
    PROVE  /\ \A i \in 1 .. Size(r) :
                 /\ Own(r)[i] = <<Registers[r].page, Registers[r].addr + i - 1>>
                 /\ Own(r)[i] \in AllCells
                 /\ \A kk \in 1 .. Size(r) : Own(r)[i] = Own(r)[kk] => i = kk
           /\ 1 \in 1 .. Size(r)
<1>1. Size(r) \in 1 .. 4 /\ Registers[r].addr \in Nat
  BY Sizes, FieldNumbers
<1>2. \A i \in 1 .. Size(r) : Own(r)[i] = <<Registers[r].page, Registers[r].addr + i - 1>>
  BY DEF Own, Cells
<1>3. \A i \in 1 .. Size(r) : Own(r)[i] \in AllCells
  BY DEF AllCells, Own
<1>4. ASSUME NEW i \in 1 .. Size(r), NEW kk \in 1 .. Size(r), Own(r)[i] = Own(r)[kk]
      PROVE  i = kk
  <2>1. Registers[r].addr + i - 1 = Registers[r].addr + kk - 1
    BY <1>2, <1>4
  <2> QED BY <1>1, <2>1
<1> QED BY <1>1, <1>2, <1>3, <1>4

\* The bytes a register reads are bytes.
LEMMA ContentIs ==
    ASSUME RegisterTable, RegShapes, NEW r \in Names
    PROVE  /\ \A i \in 1 .. Size(r) : Content(r)[i] = bytes[Own(r)[i]]
           /\ Content(r)[1] = bytes[Own(r)[1]]
           /\ Content(r)[1] \in 0 .. 2^ByteBits - 1 /\ Content(r)[1] \in Int
<1>1. \A i \in 1 .. Size(r) : Content(r)[i] = bytes[Own(r)[i]]
  BY DEF Content
<1>2. bytes[Own(r)[1]] \in 0 .. 2^ByteBits - 1
  BY CellsOf DEF RegShapes
<1>3. 2^ByteBits \in Int
  <2>1. ByteBits \in Nat /\ ByteBits <= 32
    BY DEF RegisterTable
  <2> QED BY <2>1, PowersRise
<1>4. 1 \in 1 .. Size(r)
  BY CellsOf
<1> QED BY <1>1, <1>2, <1>3, <1>4

\* A register whose bytes are left reads as before.
LEMMA LeftAlone ==
    ASSUME Told, NEW r \in Names \ doubt,
           \A i \in 1 .. Size(r) : bytes'[Own(r)[i]] = bytes[Own(r)[i]],
           value'[r] = value[r]
    PROVE  Fetched(r, Content(r)') = value'[r]
<1>1. Content(r)' = Content(r)
  BY DEF Content
<1> QED BY <1>1 DEF Told

-----------------------------------------------------------------------------
(* Each step keeps it.                                                     *)

\* The chips before the first connection.
LEMMA RegsStart == RegisterTable /\ RInit => RegsInv
<1> SUFFICES ASSUME RegisterTable, RInit PROVE RegsInv
  OBVIOUS
<1>1. 2^ByteBits \in Nat \ {0}
  <2>1. ByteBits \in Nat /\ ByteBits <= 32
    BY DEF RegisterTable
  <2> QED BY <2>1, PowersRise
<1>2. RegShapes /\ InStep
  BY <1>1 DEF RInit, RegShapes, InStep
<1>3. ASSUME NEW r \in Names
      PROVE  Fetched(r, Content(r)) = value[r]
  <2>1. \A i \in 1 .. Size(r) : Content(r)[i] = 0
    BY CellsOf DEF RInit, Content
  <2>2. Fetched(r, Content(r)) = 0
    BY <2>1, NothingIsZero
  <2> QED BY <2>2 DEF RInit
<1> QED BY <1>2, <1>3 DEF RegsInv, Told

\* A reset clears the chips it is of.
LEMMA ResetTells ==
    ASSUME RegisterTable, RegShapes, Told, NEW regs, NEW d, Reset(regs, d), d \subseteq Names,
           regs = Names \/ (regs = OnChip /\ d = doubt \ OnChip)
    PROVE  RegShapes' <=> cached' \in Nat \cup {-1}
<1>1. 2^ByteBits \in Nat \ {0}
  <2>1. ByteBits \in Nat /\ ByteBits <= 32
    BY DEF RegisterTable
  <2> QED BY <2>1, PowersRise
<1> QED BY <1>1 DEF RegShapes, Reset, Vouch
\* And what is cleared reads zero, as told.
LEMMA ResetIsTold ==
    ASSUME RegisterTable, RegShapes, Told, NEW regs, NEW d, Reset(regs, d), d \subseteq Names,
           regs = Names \/ (regs = OnChip /\ d = doubt \ OnChip)
    PROVE  Told'
<1> SUFFICES ASSUME NEW r \in Names \ doubt' PROVE Fetched(r, Content(r)') = value'[r]
  BY DEF Told
<1>1. /\ doubt' = d /\ value'[r] = IF r \in regs THEN 0 ELSE value[r]
      /\ \A c \in AllCells : bytes'[c] = IF c[1] = FPGA /\ regs # Names THEN bytes[c] ELSE 0
  BY DEF Reset, Vouch
<1>2. \A i \in 1 .. Size(r) : Own(r)[i] \in AllCells /\ Own(r)[i][1] = Registers[r].page
  BY CellsOf
<1>3. CASE r \in regs
  <2>1. \A i \in 1 .. Size(r) : bytes'[Own(r)[i]] = 0
    BY <1>1, <1>2, <1>3 DEF OnChip
  <2>2. \A i \in 1 .. Size(r) : Content(r)'[i] = 0
    BY <2>1 DEF Content
  <2>3. Fetched(r, Content(r)') = 0
    BY <2>2, NothingIsZero
  <2> QED BY <1>1, <1>3, <2>3
<1>4. CASE r \notin regs
  <2>1. regs = OnChip /\ d = doubt \ OnChip /\ regs # Names /\ Registers[r].page = FPGA
    BY <1>4 DEF OnChip
  <2>2. \A i \in 1 .. Size(r) : bytes'[Own(r)[i]] = bytes[Own(r)[i]]
    BY <1>1, <1>2, <2>1
  <2>3. r \in Names \ doubt
    BY <1>1, <1>4, <2>1
  <2> QED BY <1>1, <1>4, <2>2, <2>3, LeftAlone
<1> QED BY <1>3, <1>4

\* Nothing of the chip changes, and no register leaves the doubt.
LEMMA StillTold ==
    ASSUME Told, NEW d, doubt \subseteq d, Vouch(value, d), bytes' = bytes
    PROVE  Told'
<1> SUFFICES ASSUME NEW r \in Names \ doubt' PROVE Fetched(r, Content(r)') = value'[r]
  BY DEF Told
<1>1. r \in Names \ doubt /\ value'[r] = value[r]
  BY DEF Vouch
<1> QED BY <1>1, LeftAlone

\* page_switch, where an access needs one.
LEMMA PageSelected ==
    ASSUME RegisterTable, RegShapes, NEW r \in Names, NEW reached \in BOOLEAN, Select(r, reached)
    PROVE  /\ cached' \in Nat \cup {-1} /\ page' \in Nat
           /\ Paged(r) => Registers[r].page \in Nat /\ cached' = Registers[r].page
           /\ ~Paged(r) => UNCHANGED <<cached, page>> /\ Registers[r].page \in {-1, -2}
           /\ reached => cached' = page' \/ UNCHANGED <<cached, page>>
           /\ OutOfStep => Paged(r) \/ UNCHANGED <<cached, page>>
<1>1. Registers[r].page \in Nat \cup {-1, -2}
  BY FieldNumbers
<1>2. Paged(r) <=> Registers[r].page \in Nat
  BY <1>1 DEF Paged
<1>3. CASE Paged(r) /\ Registers[r].page # cached
  <2>1. cached' = Registers[r].page /\ page' = IF reached THEN Registers[r].page ELSE page
    BY <1>3 DEF Select, PageSwitch
  <2> QED BY <1>2, <1>3, <2>1 DEF RegShapes
<1>4. CASE ~(Paged(r) /\ Registers[r].page # cached)
  <2>1. UNCHANGED <<cached, page>>
    BY <1>4 DEF Select
  <2> QED BY <1>1, <1>2, <1>4, <2>1 DEF RegShapes
<1> QED BY <1>3, <1>4

\* Where r is written.
LEMMA CellsThere ==
    ASSUME RegisterTable, NEW r \in Names, NEW p
    PROVE  /\ \A i \in 1 .. Size(r) :
                 /\ Cells(r, p)[i][1] = IF Paged(r) THEN p ELSE Registers[r].page
                 /\ Cells(r, p)[i] = <<IF Paged(r) THEN p ELSE Registers[r].page,
                                       Registers[r].addr + i - 1>>
           /\ ~Paged(r) \/ p = Registers[r].page => Cells(r, p) = Own(r)
BY DEF Cells, Own

\* lgw_reg_w: what the bytes are.
LEMMA WrittenBytes ==
    ASSUME RegisterTable, RegShapes, NEW r \in Names, NEW v \in Values(r), NEW loc,
           bytes' = Stored(r, loc, Aligned(r, v, Held(r, loc)))
    PROVE  /\ bytes' \in [AllCells -> 0 .. 2^ByteBits - 1]
           /\ Held(r, loc)[1] \in 0 .. 2^ByteBits - 1
<1>1. 2^ByteBits \in Nat \ {0} /\ 1 \in 1 .. Size(r)
  <2>1. ByteBits \in Nat /\ ByteBits <= 32
    BY DEF RegisterTable
  <2> QED BY <2>1, PowersRise, CellsOf
<1>2. Held(r, loc)[1] \in 0 .. 2^ByteBits - 1
  BY <1>1 DEF RegShapes, Held
<1>3. PICK new : new = Aligned(r, v, Held(r, loc))
  OBVIOUS
<1>4. \A i \in 1 .. Size(r) : new[i] \in 0 .. 2^ByteBits - 1
  BY <1>2, <1>3, WrittenIsBack
<1>5. ASSUME NEW c \in AllCells
      PROVE  (IF \E i \in 1 .. Size(r) : loc[i] = c
              THEN new[CHOOSE i \in 1 .. Size(r) : loc[i] = c] ELSE bytes[c]) \in 0 .. 2^ByteBits - 1
  <2>1. CASE \E i \in 1 .. Size(r) : loc[i] = c
    <3>1. (CHOOSE i \in 1 .. Size(r) : loc[i] = c) \in 1 .. Size(r)
      BY <2>1
    <3> QED BY <1>4, <2>1, <3>1
  <2>2. CASE ~\E i \in 1 .. Size(r) : loc[i] = c
    BY <2>2 DEF RegShapes
  <2> QED BY <2>1, <2>2
<1>6. bytes' \in [AllCells -> 0 .. 2^ByteBits - 1]
  BY <1>3, <1>5 DEF Stored
<1> QED BY <1>2, <1>6

\* The values of a register are numbers.
LEMMA ValuesAreNumbers ==
    ASSUME RegisterTable, NEW r \in Names, NEW v \in Values(r)
    PROVE  v \in Int
<1>1. PICK n : n = Registers[r].leng
  OBVIOUS
<1>2. n \in Nat /\ n - 1 \in Nat /\ n <= 32 /\ n - 1 <= 32
  BY <1>1, FieldNumbers
<1>3. 2^n \in Int /\ 2^(n - 1) \in Int
  BY <1>2, PowersRise
<1>4. v \in -(2^(n - 1)) .. 2^(n - 1) - 1 \/ v \in 0 .. 2^n - 1
  BY <1>1 DEF Values
<1> QED BY <1>3, <1>4

\* Two registers in one byte.
LEMMA Neighbours ==
    ASSUME RegisterTable, NEW q \in Names, NEW r \in Names, q # r,
           NEW i \in 1 .. Size(q), NEW kk \in 1 .. Size(r), Own(q)[i] = Own(r)[kk]
    PROVE  /\ OneByte(q) /\ OneByte(r) /\ i = 1 /\ kk = 1
           /\ Beside(Registers[q], Registers[r]) \/ Beside(Registers[r], Registers[q])
           /\ Registers[q].page = Registers[r].page /\ Registers[q].addr = Registers[r].addr
<1>1. Separate(q, r)
  BY DEF RegisterTable
<1>2. /\ OneByte(q) /\ OneByte(r)
      /\ Beside(Registers[q], Registers[r]) \/ Beside(Registers[r], Registers[q])
  BY <1>1 DEF Separate
<1>3. i = 1 /\ kk = 1
  BY <1>2, Sizes
<1>4. /\ Own(q)[1] = <<Registers[q].page, Registers[q].addr + 1 - 1>>
      /\ Own(r)[1] = <<Registers[r].page, Registers[r].addr + 1 - 1>>
  BY CellsOf
<1>5. Registers[q].page = Registers[r].page /\ Registers[q].addr + 1 - 1 = Registers[r].addr + 1 - 1
  BY <1>3, <1>4
<1>6. Registers[q].addr \in Nat /\ Registers[r].addr \in Nat
  BY FieldNumbers
<1> QED BY <1>2, <1>3, <1>5, <1>6

\* The cells of r once it is written where it belongs.
LEMMA OwnIsStored ==
    ASSUME RegisterTable, RegShapes, NEW r \in Names, NEW v \in Values(r),
           bytes' = Stored(r, Own(r), Aligned(r, v, Held(r, Own(r))))
    PROVE  /\ Held(r, Own(r))[1] = bytes[Own(r)[1]]
           /\ Held(r, Own(r))[1] \in 0 .. 2^ByteBits - 1
           /\ \A i \in 1 .. Size(r) : Content(r)'[i] = Aligned(r, v, Held(r, Own(r)))[i]
<1>1. PICK old, loc : old = Held(r, Own(r)) /\ loc = Own(r)
  OBVIOUS
<1>2. Held(r, loc)[1] \in 0 .. 2^ByteBits - 1
  BY <1>1, WrittenBytes
<1>3. /\ 1 \in 1 .. Size(r)
      /\ \A i \in 1 .. Size(r) :
            loc[i] \in AllCells /\ \A kk \in 1 .. Size(r) : loc[i] = loc[kk] => i = kk
  BY <1>1, CellsOf
<1>4. old[1] = bytes[loc[1]]
  BY <1>1, <1>3 DEF Held
<1>5. PICK new : new = Aligned(r, v, old)
  OBVIOUS
<1>6. bytes' = [c \in AllCells |-> IF \E i \in 1 .. Size(r) : loc[i] = c
                                   THEN new[CHOOSE i \in 1 .. Size(r) : loc[i] = c] ELSE bytes[c]]
  BY <1>1, <1>5 DEF Stored
<1>7. ASSUME NEW i \in 1 .. Size(r)
      PROVE  bytes'[loc[i]] = new[i]
  <2>1. PICK c : c = loc[i]
    OBVIOUS
  <2>2. c \in AllCells /\ \A kk \in 1 .. Size(r) : loc[kk] = c => kk = i
    BY <1>3, <2>1
  <2>3. (CHOOSE kk \in 1 .. Size(r) : loc[kk] = c) = i
    BY <2>1, <2>2
  <2>4. bytes'[c] = new[CHOOSE kk \in 1 .. Size(r) : loc[kk] = c]
    BY <1>6, <2>1, <2>2
  <2> QED BY <2>1, <2>3, <2>4
<1>8. \A i \in 1 .. Size(r) : Content(r)'[i] = bytes'[Own(r)[i]]
  <2>1. Content(r)' = [i \in 1 .. Size(r) |-> bytes'[Own(r)[i]]]
    BY DEF Content
  <2> QED BY <2>1
<1> QED BY <1>1, <1>2, <1>4, <1>5, <1>7, <1>8

\* Written where it belongs, a register reads as told and leaves the others.
LEMMA WriteIsTold ==
    ASSUME RegisterTable, RegShapes, Told, NEW r \in Names, NEW v \in Values(r),
           NEW d, doubt \ {r} \subseteq d, Vouch([value EXCEPT ![r] = v], d),
           bytes' = Stored(r, Own(r), Aligned(r, v, Held(r, Own(r))))
    PROVE  Told'
<1> SUFFICES ASSUME NEW q \in Names \ doubt' PROVE Fetched(q, Content(q)') = value'[q]
  BY DEF Told
<1>1. value'[q] = IF q = r THEN v ELSE value[q]
  BY DEF Vouch, RegShapes
<1>2. PICK old, loc : old = Held(r, Own(r)) /\ loc = Content(r)'
  OBVIOUS
<1>3. /\ old[1] = bytes[Own(r)[1]] /\ old[1] \in 0 .. 2^ByteBits - 1
      /\ \A i \in 1 .. Size(r) : loc[i] = Aligned(r, v, old)[i]
  BY <1>2, OwnIsStored
<1>4. Fetched(r, loc) = v /\ (OneByte(r) => loc[1] = Mixed(r, v, old[1]))
  <2>1. old[1] \in 0 .. 2^ByteBits - 1
    BY <1>3
  <2>2. \A i \in 1 .. Size(r) : loc[i] = Aligned(r, v, old)[i]
    BY <1>3
  <2> QED BY <2>1, <2>2, WrittenIsBack
<1>5. CASE q = r
  BY <1>1, <1>2, <1>4, <1>5
<1>6. CASE q # r
  <2>1. q \in Names \ doubt /\ value'[q] = value[q]
    BY <1>1, <1>6 DEF Vouch
  <2>2. CASE \A i \in 1 .. Size(q), kk \in 1 .. Size(r) : Own(q)[i] # Own(r)[kk]
    <3>1. \A i \in 1 .. Size(q) : bytes'[Own(q)[i]] = bytes[Own(q)[i]]
      BY <2>2, CellsOf DEF Stored
    <3> QED BY <2>1, <3>1, LeftAlone
  <2>3. CASE ~\A i \in 1 .. Size(q), kk \in 1 .. Size(r) : Own(q)[i] # Own(r)[kk]
    <3>1. PICK i \in 1 .. Size(q), kk \in 1 .. Size(r) : Own(q)[i] = Own(r)[kk]
      BY <2>3
    <3>2. /\ OneByte(q) /\ OneByte(r) /\ i = 1 /\ kk = 1
          /\ Beside(Registers[q], Registers[r]) \/ Beside(Registers[r], Registers[q])
      BY <1>6, <3>1, Neighbours
    <3>3. Own(q)[1] = Own(r)[1] /\ 1 \in 1 .. Size(q) /\ 1 \in 1 .. Size(r)
      BY <3>1, <3>2
    <3>4. v \in Int
      BY ValuesAreNumbers
    <3>5. PICK mixed : mixed = Mixed(r, v, old[1])
      OBVIOUS
    <3>6. mixed \in 0 .. 2^ByteBits - 1 /\ Bits(q, mixed) = Bits(q, old[1])
      BY <1>3, <3>2, <3>4, <3>5, ByteIsMixed
    <3>7. PICK x, y : x = Content(q)' /\ y = Content(q)
      OBVIOUS
    <3>8. y[1] = old[1]
      BY <1>3, <3>3, <3>7 DEF Content
    <3>9. x[1] = mixed
      <4>1. x[1] = bytes'[Own(q)[1]] /\ loc[1] = bytes'[Own(r)[1]]
        BY <1>2, <3>3, <3>7 DEF Content
      <4> QED BY <1>4, <3>2, <3>3, <3>5, <4>1
    <3>10. 2^ByteBits \in Int
      <4>1. ByteBits \in Nat /\ ByteBits <= 32
        BY DEF RegisterTable
      <4> QED BY <4>1, PowersRise
    <3>11. x[1] \in Int /\ y[1] \in Int
      BY <1>3, <3>6, <3>8, <3>9, <3>10
    <3>12. Fetched(q, x) = Fetched(q, y)
      BY <3>2, <3>6, <3>8, <3>9, <3>11, ByteIsRead
    <3> QED BY <2>1, <3>7, <3>12 DEF Told
  <2> QED BY <2>2, <2>3
<1> QED BY <1>5, <1>6

-----------------------------------------------------------------------------
(* The steps.                                                              *)

\* Vouching keeps the shapes; what is left to see is the bytes.
LEMMA ShapesKept ==
    ASSUME NEW v, NEW d, Vouch(v, d), d \subseteq Names, cached' \in Nat \cup {-1}, page' \in Nat,
           bytes' \in [AllCells -> 0 .. 2^ByteBits - 1]
    PROVE  RegShapes'
BY DEF Vouch, RegShapes

\* In step or in doubt: where the page and the cached one differ, all that
\* have a page are in doubt.
LEMMA DoubtIsEnough ==
    ASSUME NEW v, NEW d, Vouch(v, d), OutOfStep => OnChip \subseteq d
    PROVE  InStep'
<1>1. doubt' = d
  BY DEF Vouch
<1>2. \A r \in Names : Paged(r) => r \in OnChip
  <2>1. \A r \in Names : Paged(r) => Registers[r].page # FPGA
    <3> TAKE r \in Names
    <3>1. ~(-2 >= 0)
      OBVIOUS
    <3> QED BY <3>1 DEF Paged, FPGA
  <2> QED BY <2>1 DEF OnChip
<1> QED BY <1>1, <1>2 DEF InStep, OutOfStep

\* lgw_connect.
LEMMA ConnectTells == ASSUME RegisterTable, RegsInv, Connect PROVE RegsInv'
<1>1. RegShapes /\ InStep /\ Told
  BY DEF RegsInv
<1>2. CASE OpenFails
  BY <1>1, <1>2 DEF OpenFails, RegsInv, RegShapes, InStep, Told, Content
<1>3. CASE OpensOnly
  <2>1. PICK d : /\ d = IF cached \in {-1, 0} THEN {} ELSE OnChip
                 /\ Reset(Names, d) /\ cached' = cached
    BY <1>3 DEF OpensOnly
  <2>2. d \subseteq Names
    BY <2>1 DEF OnChip
  <2>3. RegShapes' /\ Told'
    BY <1>1, <2>1, <2>2, ResetTells, ResetIsTold DEF RegShapes
  <2>4. InStep'
    <3>1. page' = 0 /\ \E v : Vouch(v, d)
      BY <2>1 DEF Reset
    <3>2. CASE cached \in {-1, 0}
      BY <2>1, <3>1, <3>2 DEF InStep
    <3>3. CASE cached \notin {-1, 0}
      BY <2>1, <3>1, <3>3, DoubtIsEnough
    <3> QED BY <3>2, <3>3
  <2> QED BY <2>3, <2>4 DEF RegsInv
<1>4. CASE Opens
  <2>1. Reset(Names, {}) /\ cached' = 0
    BY <1>4 DEF Opens
  <2>2. RegShapes' /\ Told'
    BY <1>1, <2>1, ResetTells, ResetIsTold
  <2>3. InStep'
    BY <2>1 DEF InStep, Reset
  <2> QED BY <2>2, <2>3 DEF RegsInv
<1> QED BY <1>2, <1>3, <1>4 DEF Connect

\* lgw_disconnect.
LEMMA DisconnectTells == ASSUME RegsInv, Disconnect PROVE RegsInv'
BY DEF Disconnect, RegsInv, RegShapes, InStep, Told, Content

\* lgw_soft_reset, whether it reaches the chip or not.
LEMMA SoftResetTells == ASSUME RegisterTable, RegsInv, SoftReset PROVE RegsInv'
<1>1. RegShapes /\ InStep /\ Told
  BY DEF RegsInv
<1>2. CASE cached' = 0 /\ Reset(OnChip, doubt \ OnChip)
  <2>1. doubt \ OnChip \subseteq Names
    BY <1>1 DEF RegShapes
  <2>2. RegShapes' /\ Told'
    BY <1>1, <1>2, <2>1, ResetTells, ResetIsTold
  <2>3. InStep'
    BY <1>2 DEF InStep, Reset
  <2> QED BY <2>2, <2>3 DEF RegsInv
<1>3. CASE /\ cached' = 0 /\ UNCHANGED <<page, bytes>>
           /\ Vouch(value, IF page = 0 THEN doubt ELSE doubt \cup OnChip)
  <2>1. PICK d : d = IF page = 0 THEN doubt ELSE doubt \cup OnChip
    OBVIOUS
  <2>2. Vouch(value, d) /\ doubt \subseteq d /\ d \subseteq Names
    BY <1>1, <1>3, <2>1 DEF RegShapes, OnChip
  <2>3. Told'
    BY <1>1, <1>3, <2>2, StillTold
  <2>4. RegShapes'
    BY <1>1, <1>3, <2>2, ShapesKept DEF RegShapes
  <2>5. OutOfStep => OnChip \subseteq d
    BY <1>3, <2>1 DEF OutOfStep
  <2> QED BY <2>2, <2>3, <2>4, <2>5, DoubtIsEnough DEF RegsInv
<1> QED BY <1>2, <1>3 DEF SoftReset

\* The page register written by name.
LEMMA WritePageRegTells ==
    ASSUME RegisterTable, RegsInv, NEW p \in Pages, WritePageReg(p) PROVE RegsInv'
<1>1. RegShapes /\ InStep /\ Told
  BY DEF RegsInv
<1>2. PICK d : /\ d = IF OutOfStep THEN doubt \cup OnChip ELSE doubt
               /\ Vouch(value, d)
  BY DEF WritePageReg
<1>3. doubt \subseteq d /\ d \subseteq Names
  BY <1>1, <1>2 DEF RegShapes, OnChip
<1>4. p \in Nat
  BY FieldNumbers DEF Pages, Paged
<1>5. cached' \in Nat /\ page' \in Nat /\ bytes' = bytes
  BY <1>1, <1>4 DEF WritePageReg, PageSwitch, RegShapes
<1>6. Told'
  BY <1>1, <1>2, <1>3, <1>5, StillTold
<1>7. RegShapes'
  BY <1>1, <1>2, <1>3, <1>5, ShapesKept DEF RegShapes
<1>8. InStep'
  BY <1>2, DoubtIsEnough
<1> QED BY <1>6, <1>7, <1>8 DEF RegsInv

\* lgw_reg_r, lgw_reg_rb and lgw_reg_wb of a data port.
LEMMA RegRTells ==
    ASSUME RegisterTable, RegsInv, NEW r \in Names, RegR(r) PROVE RegsInv'
<1>1. RegShapes /\ InStep /\ Told
  BY DEF RegsInv
<1>2. PICK reached \in BOOLEAN :
          Select(r, reached) /\ Vouch(value, IF OutOfStep THEN doubt \cup OnChip ELSE doubt)
  BY DEF RegR
<1>3. PICK d : d = IF OutOfStep THEN doubt \cup OnChip ELSE doubt
  OBVIOUS
<1>4. doubt \subseteq d /\ d \subseteq Names /\ Vouch(value, d)
  BY <1>1, <1>2, <1>3 DEF RegShapes, OnChip
<1>5. cached' \in Nat \cup {-1} /\ page' \in Nat /\ bytes' = bytes
  <2>1. bytes' = bytes
    BY DEF RegR
  <2> QED BY <1>1, <1>2, <2>1, PageSelected
<1>6. Told'
  BY <1>1, <1>4, <1>5, StillTold
<1>7. RegShapes'
  BY <1>1, <1>4, <1>5, ShapesKept DEF RegShapes
<1>8. InStep'
  BY <1>3, <1>4, DoubtIsEnough
<1> QED BY <1>6, <1>7, <1>8 DEF RegsInv

\* A register of the chip or of the FPGA without a page has no cell in one.
LEMMA NoPage ==
    ASSUME RegisterTable, NEW r \in Names, Paged(r), NEW p \in Nat,
           NEW q \in Names, ~Paged(q), NEW i \in 1 .. Size(q), NEW kk \in 1 .. Size(r)
    PROVE  Own(q)[i] # Cells(r, p)[kk]
<1>1. Own(q)[i] = <<Registers[q].page, Registers[q].addr + i - 1>>
  BY CellsOf
<1>2. Cells(r, p)[kk] = <<p, Registers[r].addr + kk - 1>>
  BY CellsThere
<1>3. Registers[q].page # p
  <2>1. ~(Registers[q].page >= 0) /\ p >= 0
    BY DEF Paged
  <2> QED BY <2>1
<1>4. PICK a, b, c : /\ a = Registers[q].page /\ b = Registers[q].addr + i - 1
                     /\ c = Registers[r].addr + kk - 1
  OBVIOUS
<1>5. <<a, b>> # <<p, c>>
  BY <1>3, <1>4
<1> QED BY <1>1, <1>2, <1>4, <1>5

\* lgw_reg_w.
LEMMA RegWTells ==
    ASSUME RegisterTable, RegsInv, NEW r \in Names, NEW v \in Values(r), RegW(r, v) PROVE RegsInv'
<1>1. RegShapes /\ InStep /\ Told
  BY DEF RegsInv
<1>2. PICK reached \in BOOLEAN :
          /\ Select(r, reached)
          /\ bytes' = Stored(r, Cells(r, page'), Aligned(r, v, Held(r, Cells(r, page'))))
          /\ Vouch([value EXCEPT ![r] = v],
                   IF Paged(r) /\ OutOfStep THEN doubt \cup OnChip ELSE doubt \ {r})
  BY DEF RegW
<1>3. PICK d : d = IF Paged(r) /\ OutOfStep THEN doubt \cup OnChip ELSE doubt \ {r}
  OBVIOUS
<1>4. d \subseteq Names /\ Vouch([value EXCEPT ![r] = v], d) /\ doubt \ {r} \subseteq d
  BY <1>1, <1>2, <1>3 DEF RegShapes, OnChip
<1>5. /\ cached' \in Nat \cup {-1} /\ page' \in Nat
      /\ Paged(r) => cached' = Registers[r].page
      /\ ~Paged(r) => UNCHANGED <<cached, page>>
  BY <1>1, <1>2, PageSelected
<1>6. RegShapes'
  <2>1. PICK loc : loc = Cells(r, page')
    OBVIOUS
  <2>2. bytes' \in [AllCells -> 0 .. 2^ByteBits - 1]
    BY <1>1, <1>2, <2>1, WrittenBytes
  <2> QED BY <1>4, <1>5, <2>2, ShapesKept
<1>7. CASE Paged(r) /\ OutOfStep
  <2>1. InStep'
    BY <1>3, <1>4, <1>7, DoubtIsEnough
  <2>2. ASSUME NEW q \in Names \ doubt'
        PROVE  Fetched(q, Content(q)') = value'[q]
    <3>1. q \notin OnChip /\ q \notin doubt
      BY <1>3, <1>4, <1>7 DEF Vouch
    <3>2. Registers[q].page = -2
      BY <3>1 DEF OnChip, FPGA
    <3>3. ~Paged(q)
      BY <3>2 DEF Paged
    <3>4. q # r
      BY <1>7, <3>3
    <3>5. value'[q] = value[q]
      BY <1>1, <1>4, <3>4 DEF Vouch, RegShapes
    <3>6. ASSUME NEW i \in 1 .. Size(q)
          PROVE  bytes'[Own(q)[i]] = bytes[Own(q)[i]]
      <4>1. Own(q)[i] \in AllCells
        BY CellsOf
      <4>2. PICK loc : loc = Cells(r, page')
        OBVIOUS
      <4>3. \A kk \in 1 .. Size(r) : loc[kk] # Own(q)[i]
        BY <1>5, <1>7, <3>3, <4>2, NoPage
      <4> QED BY <1>2, <4>1, <4>2, <4>3 DEF Stored
    <3> QED BY <1>1, <3>1, <3>5, <3>6, LeftAlone
  <2>3. Told'
    BY <2>2 DEF Told
  <2> QED BY <1>6, <2>1, <2>3 DEF RegsInv
<1>8. CASE ~(Paged(r) /\ OutOfStep)
  <2>1. Paged(r) => page' = cached' /\ page' = Registers[r].page
    BY <1>5, <1>8 DEF OutOfStep
  <2>2. Cells(r, page') = Own(r)
    BY <2>1 DEF Cells, Own
  <2>3. Told'
    BY <1>1, <1>2, <1>4, <2>2, WriteIsTold
  <2>4. InStep'
    <3>1. CASE Paged(r)
      BY <2>1, <3>1 DEF InStep
    <3>2. CASE ~Paged(r)
      BY <1>1, <1>3, <1>4, <1>5, <3>2 DEF InStep, Vouch
    <3> QED BY <3>1, <3>2
  <2> QED BY <1>6, <2>3, <2>4 DEF RegsInv
<1> QED BY <1>7, <1>8

\* lgw_reg_w of which a data transfer fails.
LEMMA RegWFailsTells ==
    ASSUME RegisterTable, RegsInv, NEW r \in Names, NEW v \in Values(r), RegWFails(r, v)
    PROVE  RegsInv'
<1>1. RegShapes /\ InStep /\ Told
  BY DEF RegsInv
<1>2. PICK d : d = doubt \cup {q \in Names : /\ Registers[q].page = Registers[r].page
                                             /\ Registers[q].addr = Registers[r].addr}
  OBVIOUS
<1>3. d \subseteq Names /\ doubt \subseteq d /\ r \in d /\ Vouch(value, d) /\ Select(r, TRUE)
  BY <1>1, <1>2 DEF RegShapes, RegWFails
<1>4. /\ cached' \in Nat \cup {-1} /\ page' \in Nat
      /\ Paged(r) => Registers[r].page \in Nat /\ cached' = Registers[r].page
      /\ cached' = page' \/ UNCHANGED <<cached, page>>
  BY <1>1, <1>3, PageSelected
<1>5. PICK loc : loc = Cells(r, page')
  OBVIOUS
<1>6. \/ bytes' = bytes
      \/ loc[1] \in AllCells /\ bytes' = [bytes EXCEPT ![loc[1]] = Aligned(r, v, <<0>>)[1]]
  BY <1>5 DEF RegWFails
<1>7. InStep'
  BY <1>1, <1>3, <1>4 DEF InStep, Vouch
<1>8. RegShapes'
  <2>1. Aligned(r, v, <<0>>)[1] \in 0 .. 2^ByteBits - 1
    <3>1. PICK old, new : old = <<0>> /\ new = Aligned(r, v, old)
      OBVIOUS
    <3>2. old[1] \in 0 .. 2^ByteBits - 1
      <4>1. ByteBits \in Nat /\ ByteBits <= 32
        BY DEF RegisterTable
      <4>2. 2^ByteBits \in Nat \ {0}
        BY <4>1, PowersRise
      <4> QED BY <3>1, <4>2
    <3>3. \A i \in 1 .. Size(r) : new[i] = Aligned(r, v, old)[i]
      BY <3>1
    <3>4. \A i \in 1 .. Size(r) : new[i] \in 0 .. 2^ByteBits - 1
      BY <3>2, <3>3, WrittenIsBack
    <3>5. 1 \in 1 .. Size(r)
      BY CellsOf
    <3> QED BY <3>1, <3>4, <3>5
  <2>2. bytes' \in [AllCells -> 0 .. 2^ByteBits - 1]
    BY <1>1, <1>6, <2>1 DEF RegShapes
  <2> QED BY <1>3, <1>4, <2>2, ShapesKept
<1>9. Told'
  <2>1. CASE bytes' = bytes
    BY <1>1, <1>3, <2>1, StillTold
  <2>2. CASE loc[1] \in AllCells /\ bytes' = [bytes EXCEPT ![loc[1]] = Aligned(r, v, <<0>>)[1]]
    <3>1. SUFFICES ASSUME NEW q \in Names \ doubt' PROVE Fetched(q, Content(q)') = value'[q]
      BY DEF Told
    <3>2. q \in Names \ doubt /\ value'[q] = value[q] /\ q # r
      BY <1>3 DEF Vouch
    <3>3. 1 \in 1 .. Size(r)
      BY CellsOf
    <3>4. ASSUME NEW i \in 1 .. Size(q)
          PROVE  Own(q)[i] # loc[1]
      <4>1. CASE ~Paged(r) \/ page' = Registers[r].page
        <5>1. loc = Own(r)
          BY <1>5, <4>1, CellsThere
        <5>2. q \notin d
          BY <1>3 DEF Vouch
        <5>3. ~(Registers[q].page = Registers[r].page /\ Registers[q].addr = Registers[r].addr)
          BY <1>2, <5>2
        <5> QED BY <3>2, <3>3, <5>1, <5>3, Neighbours
      <4>2. CASE Paged(r) /\ page' # Registers[r].page
        <5>1. page' # cached' /\ cached' # -1
          BY <1>4, <4>2
        <5>2. \A s \in Names : Paged(s) => s \in doubt'
          BY <1>7, <5>1 DEF InStep
        <5>3. ~Paged(q)
          BY <5>2
        <5> QED BY <1>4, <1>5, <3>3, <4>2, <5>3, NoPage
      <4> QED BY <4>1, <4>2
    <3>5. \A i \in 1 .. Size(q) : bytes'[Own(q)[i]] = bytes[Own(q)[i]]
      BY <1>1, <2>2, <3>4, CellsOf DEF RegShapes
    <3> QED BY <1>1, <3>2, <3>5, LeftAlone
  <2> QED BY <1>6, <2>1, <2>2
<1> QED BY <1>7, <1>8, <1>9 DEF RegsInv

\* What a register that can be reached holds, its access fetches.
LEMMA ToldIsRead == RegisterTable /\ RegsInv => WrittenIsRead
<1> SUFFICES ASSUME RegisterTable, RegShapes, InStep, Told, NEW r \in Names \ doubt, Reachable(r),
                    NEW loc, loc = Cells(r, IF Paged(r) /\ Registers[r].page # cached
                                          THEN Registers[r].page ELSE page)
             PROVE  Fetched(r, [i \in 1 .. Size(r) |-> bytes[loc[i]]]) = value[r]
  BY DEF RegsInv, WrittenIsRead
<1>1. loc = Own(r)
  <2>1. CASE Paged(r) /\ Registers[r].page = cached
    <3>1. Registers[r].page >= 0
      BY <2>1 DEF Paged
    <3>2. cached # -1
      <4>1. ~(-1 >= 0)
        OBVIOUS
      <4> QED BY <2>1, <3>1, <4>1
    <3>3. cached = page
      BY <2>1, <3>2 DEF InStep
    <3> QED BY <2>1, <3>3, CellsThere
  <2>2. CASE ~(Paged(r) /\ Registers[r].page = cached)
    BY <2>2, CellsThere
  <2> QED BY <2>1, <2>2
<1> QED BY <1>1 DEF Told, Content

\* Reading a register gives what it was last told to hold, whatever was read,
\* written or reset since, as long as no transfer of its byte failed and no
\* page switch was lost: for every table of registers whose fields fit their
\* bytes and do not overlap.
THEOREM WhatIsWrittenIsRead == RSpec => []WrittenIsRead
<1> USE RegistersAssumption
<1>1. RInit => RegsInv
  BY RegsStart
<1>2. RegsInv /\ [RNext]_regVars => RegsInv'
  <2> SUFFICES ASSUME RegsInv, [RNext]_regVars PROVE RegsInv'
    OBVIOUS
  <2>1. CASE Connect
    BY <2>1, ConnectTells
  <2>2. CASE Disconnect
    BY <2>2, DisconnectTells
  <2>3. CASE SoftReset
    BY <2>3, SoftResetTells
  <2>4. ASSUME NEW p \in Pages, WritePageReg(p) PROVE RegsInv'
    BY <2>4, WritePageRegTells
  <2>5. ASSUME NEW r \in Names, RegR(r) PROVE RegsInv'
    BY <2>5, RegRTells
  <2>6. ASSUME NEW r \in Names, NEW v \in Values(r), RegW(r, v) PROVE RegsInv'
    BY <2>6, RegWTells
  <2>7. ASSUME NEW r \in Names, NEW v \in Values(r), RegWFails(r, v) PROVE RegsInv'
    BY <2>7, RegWFailsTells
  <2>8. CASE UNCHANGED regVars
    BY <2>8 DEF regVars, RegsInv, RegShapes, InStep, Told, Content
  <2> QED BY <2>1, <2>2, <2>3, <2>4, <2>5, <2>6, <2>7, <2>8 DEF RNext
<1>3. RegsInv => WrittenIsRead
  BY ToldIsRead
<1> QED BY <1>1, <1>2, <1>3, PTL DEF RSpec
==============================================================================
