-------------------------- MODULE ConfDaemonProofs --------------------------
(***************************************************************************)
(* TypeOK, OnePublicationPerSignal, NeverBackInTime and AnswersTheAsker of *)
(* ConfDaemon, for every number of commands, cells and connection losses   *)
(* and every kind of client.                                               *)
(***************************************************************************)
EXTENDS ConfDaemon, FiniteSetTheorems, SequenceTheorems, TLAPS

-----------------------------------------------------------------------------
(* The operators on p_map and PAYLOAD. *)

\* strlen stops within the mapping.
LEMMA StrLenRange ==
    ASSUME NEW m \in [Cell -> Ids]
    PROVE  StrLen(m) \in 0 .. Cells
<1> DEFINE S == {n \in Cell : \A i \in 1 .. n : m[i] # 0}
<1>1. Cells \in Nat BY BoundsAssumption
<1>2. IsFiniteSet(Cell) /\ Cardinality(Cell) = Cells
  BY <1>1, FS_Interval DEF Cell
<1>3. S \in SUBSET Cell OBVIOUS
<1>4. IsFiniteSet(S) /\ Cardinality(S) <= Cells
  BY <1>2, <1>3, FS_Subset
<1>5. Cardinality(S) \in Nat BY <1>4, FS_CardinalityType
<1> QED BY <1>1, <1>4, <1>5 DEF StrLen

\* What the child publishes is a sequence of cells.
LEMMA TextType ==
    ASSUME NEW m \in [Cell -> Ids]
    PROVE  Text(m) \in Seq(Ids)
<1>1. StrLen(m) \in 0 .. Cells BY StrLenRange
<1>2. \A i \in 1 .. StrLen(m) : m[i] \in Ids
  BY <1>1, BoundsAssumption DEF Cell
<1>3. StrLen(m) \in Nat BY <1>1, BoundsAssumption
<1> QED BY <1>2, <1>3 DEF Text

\* What the child publishes are the cells before the first zero byte.
LEMMA TextCells ==
    ASSUME NEW m \in [Cell -> Ids], NEW i \in DOMAIN Text(m)
    PROVE  i \in Cell /\ Text(m)[i] = m[i] /\ m[i] # 0
<1> DEFINE S == {n \in Cell : \A k \in 1 .. n : m[k] # 0}
<1>1. StrLen(m) \in 0 .. Cells BY StrLenRange
<1>2. i \in 1 .. StrLen(m) /\ i \in Cell /\ Text(m)[i] = m[i]
  BY <1>1, BoundsAssumption DEF Text, Cell
<1>3. ASSUME m[i] = 0 PROVE FALSE
  <2>1. S \in SUBSET (1 .. i - 1)
    BY <1>2, <1>3, BoundsAssumption DEF Cell
  <2>2. IsFiniteSet(1 .. i - 1) /\ Cardinality(1 .. i - 1) = i - 1
    BY <1>2, BoundsAssumption, FS_Interval DEF Cell
  <2>3. Cardinality(S) <= i - 1
    BY <2>1, <2>2, FS_Subset
  <2> QED BY <1>1, <1>2, <2>3, BoundsAssumption DEF StrLen, Cell
<1> QED BY <1>2, <1>3

LEMMA BlankType == Blank \in [Cell -> Ids]
BY BoundsAssumption DEF Blank, Ids

-----------------------------------------------------------------------------
(* The inductive invariant: the memcpy into p_map stays within the response, *)
(* and a child that is awake holds a wake-up it has not published for yet.   *)

Awake == {"awake", "copying", "publishing"}

Owed == IF child \in Awake THEN 1 ELSE 0

FillInv   == handler = "fill" => filled < cmd.len
SignalInv == Len(published) + Owed <= signals

IInv == TypeOK /\ FillInv /\ SignalInv

\* The initial states satisfy the invariant.
LEMMA InitInv == Init => IInv
<1> SUFFICES ASSUME Init PROVE IInv OBVIOUS
<1>1. NoCommand \in Commands
  BY BoundsAssumption DEF NoCommand, Commands, Ids
<1>2. inbox \in Seq(Commands) /\ published \in Seq(Seq(Ids))
  BY DEF Init
<1>3. drops \in 0 .. MaxDrops /\ nextId \in 1 .. MaxCommands + 1 /\ awaiting \in Ids
      /\ filled \in 0 .. Cells /\ count \in 0 .. Cells /\ copied \in 0 .. Cells
      /\ signals \in Nat
  BY BoundsAssumption DEF Init, Ids
<1>4. broker \in BOOLEAN /\ session \in BOOLEAN /\ disconnect_tag \in BOOLEAN
      /\ acked \in BOOLEAN /\ reported \in BOOLEAN
  BY DEF Init
<1>5. TypeOK
  BY <1>1, <1>2, <1>3, <1>4, BlankType DEF Init, TypeOK
<1>6. FillInv /\ SignalInv
  BY DEF Init, FillInv, SignalInv, Owed, Awake
<1> QED BY <1>5, <1>6 DEF IInv

\* Restart brings the variables of both processes back into their types.
LEMMA FreshType ==
    ASSUME FreshProcess
    PROVE  /\ parent' = "init" /\ disconnect_tag' = FALSE /\ inbox' \in Seq(Commands)
           /\ handler' = "idle" /\ cmd' \in Commands /\ filled' = 0
           /\ p_map' \in [Cell -> Ids] /\ child' = "running" /\ count' = 0
           /\ copied' = 0 /\ PAYLOAD' \in [Cell -> Ids]
           /\ acked' = FALSE /\ reported' = FALSE
<1>1. NoCommand \in Commands
  BY BoundsAssumption DEF NoCommand, Commands, Ids
<1> QED BY <1>1, BlankType DEF FreshProcess

\* No step of the environment breaks the invariant.
LEMMA EnvironmentInv == IInv /\ Environment => IInv'
<1> SUFFICES ASSUME IInv, Environment PROVE IInv' OBVIOUS
<1> USE DEF vars, envVars, parentVars, cbVars, childVars
<1>1. CASE BrokerDown
  <2>1. drops' \in 0 .. MaxDrops
    BY <1>1, BoundsAssumption DEF BrokerDown, IInv, TypeOK
  <2>2. broker' \in BOOLEAN /\ session' \in BOOLEAN
    BY <1>1 DEF BrokerDown, IInv, TypeOK
  <2>3. TypeOK'
    BY <1>1, <2>1, <2>2 DEF BrokerDown, IInv, TypeOK
  <2>4. FillInv' /\ SignalInv'
    BY <1>1 DEF BrokerDown, IInv, FillInv, SignalInv, Owed, Awake
  <2> QED BY <2>3, <2>4 DEF IInv
<1>2. CASE BrokerUp
  BY <1>2 DEF BrokerUp, IInv, TypeOK, FillInv, SignalInv, Owed, Awake
<1>3. CASE KeepAliveExpires
  <2>1. drops' \in 0 .. MaxDrops
    BY <1>3, BoundsAssumption DEF KeepAliveExpires, IInv, TypeOK
  <2>2. broker' \in BOOLEAN /\ session' \in BOOLEAN
    BY <1>3 DEF KeepAliveExpires, IInv, TypeOK
  <2>3. TypeOK'
    BY <1>3, <2>1, <2>2 DEF KeepAliveExpires, IInv, TypeOK
  <2>4. FillInv' /\ SignalInv'
    BY <1>3 DEF KeepAliveExpires, IInv, FillInv, SignalInv, Owed, Awake
  <2> QED BY <2>3, <2>4 DEF IInv
<1>4. ASSUME NEW kind \in Kinds, NEW len \in 1 .. Cells, Request(kind, len)
      PROVE  IInv'
  <2> DEFINE c == [id |-> nextId, kind |-> kind, len |-> len]
  <2>1. nextId \in Ids
    BY <1>4, BoundsAssumption DEF IInv, TypeOK, Request, Ids
  <2>2. c \in Commands
    BY <2>1, KindsAssumption DEF Commands
  <2>3. inbox' \in Seq(Commands)
    BY <1>4, <2>2 DEF Request, IInv, TypeOK
  <2>4. nextId' \in 1 .. MaxCommands + 1 /\ awaiting' \in Ids
    BY <1>4, <2>1, BoundsAssumption DEF Request, IInv, TypeOK
  <2>5. TypeOK'
    BY <1>4, <2>3, <2>4 DEF Request, IInv, TypeOK
  <2>6. FillInv' /\ SignalInv'
    BY <1>4 DEF Request, IInv, FillInv, SignalInv, Owed, Awake
  <2> QED BY <2>5, <2>6 DEF IInv
<1> QED BY <1>1, <1>2, <1>3, <1>4 DEF Environment

\* No step of main(), nor a restart, breaks the invariant.
LEMMA MainInv == IInv /\ Main => IInv'
<1> SUFFICES ASSUME IInv, Main PROVE IInv' OBVIOUS
<1> USE DEF vars, envVars, parentVars, cbVars, childVars, IInv, TypeOK, FillInv,
            SignalInv, Owed, Awake
<1>1. CASE Connect BY <1>1 DEF Connect
<1>2. CASE ConnectFails BY <1>2 DEF ConnectFails
<1>3. CASE Subscribe BY <1>3 DEF Subscribe
<1>4. CASE LeaveLoop BY <1>4 DEF LeaveLoop
<1>5. CASE Restart
  <2>0. FreshProcess BY <1>5 DEF Restart
  <2>1. 0 \in 0 .. Cells /\ 0 \in Ids
    BY BoundsAssumption DEF Ids
  <2>2. session' = FALSE /\ awaiting' = 0
        /\ UNCHANGED <<client, broker, drops, nextId, signals, published>>
    BY <1>5 DEF Restart
  <2>3. TypeOK' /\ FillInv'
    BY <2>0, <2>1, <2>2, FreshType
  <2>4. SignalInv'
    BY <2>0, <2>2, FreshType
  <2> QED BY <2>3, <2>4
<1> QED BY <1>1, <1>2, <1>3, <1>4, <1>5 DEF Main

\* No step of the callback thread breaks the invariant: a signal pays for the
\* publication of the child it wakes.
LEMMA LibraryInv == IInv /\ Library => IInv'
<1> SUFFICES ASSUME IInv, Library PROVE IInv' OBVIOUS
<1> USE DEF vars, envVars, parentVars, cbVars, childVars
<1>1. CASE ConnLost
  BY <1>1 DEF ConnLost, IInv, TypeOK, FillInv, SignalInv, Owed, Awake
<1>2. CASE MsgArrived
  <2>1. Head(inbox) \in Commands /\ Tail(inbox) \in Seq(Commands)
    BY <1>2 DEF MsgArrived, IInv, TypeOK
  <2>2. handler' \in {"idle", "clear", "signal"}
    BY <1>2, <2>1 DEF MsgArrived, Commands
  <2>3. TypeOK'
    BY <1>2, <2>1, <2>2 DEF MsgArrived, IInv, TypeOK
  <2>4. FillInv' /\ SignalInv'
    BY <1>2, <2>2 DEF MsgArrived, IInv, FillInv, SignalInv, Owed, Awake
  <2> QED BY <2>3, <2>4 DEF IInv
<1>3. CASE ClearMap
  <2>1. TypeOK'
    BY <1>3, BlankType, BoundsAssumption DEF ClearMap, IInv, TypeOK
  <2>2. FillInv'
    BY <1>3 DEF ClearMap, IInv, TypeOK, Commands, FillInv
  <2>3. SignalInv'
    BY <1>3 DEF ClearMap, IInv, SignalInv, Owed, Awake
  <2> QED BY <2>1, <2>2, <2>3 DEF IInv
<1>4. CASE FillMap
  <2>1. filled + 1 \in Cell /\ filled + 1 <= cmd.len
    BY <1>4, BoundsAssumption DEF FillMap, IInv, TypeOK, FillInv, Commands, Cell
  <2>2. cmd.id \in Ids
    BY DEF IInv, TypeOK, Commands
  <2>3. TypeOK'
    BY <1>4, <2>1, <2>2, BoundsAssumption DEF FillMap, IInv, TypeOK, Cell
  <2>4. FillInv'
    BY <1>4, <2>1, BoundsAssumption DEF FillMap, IInv, TypeOK, FillInv, Commands, Cell
  <2>5. SignalInv'
    BY <1>4 DEF FillMap, IInv, SignalInv, Owed, Awake
  <2> QED BY <2>3, <2>4, <2>5 DEF IInv
<1>5. CASE Signal
  BY <1>5 DEF Signal, IInv, TypeOK, FillInv, SignalInv, Owed, Awake
<1> QED BY <1>1, <1>2, <1>3, <1>4, <1>5 DEF Library

\* No step of the child breaks the invariant: publishing uses the wake-up up.
LEMMA FeedbackInv == IInv /\ Feedback => IInv'
<1> SUFFICES ASSUME IInv, Feedback PROVE IInv' OBVIOUS
<1> USE DEF vars, envVars, parentVars, cbVars, childVars
<1>1. CASE Stop
  BY <1>1 DEF Stop, IInv, TypeOK, FillInv, SignalInv, Owed, Awake
<1>2. CASE Measure
  <2>1. StrLen(p_map) \in 0 .. Cells
    BY StrLenRange DEF IInv, TypeOK
  <2> QED
    BY <1>2, <2>1, BlankType, BoundsAssumption
    DEF Measure, IInv, TypeOK, FillInv, SignalInv, Owed, Awake
<1>3. CASE Copy
  <2>1. copied + 1 \in Cell
    BY <1>3, BoundsAssumption DEF Copy, IInv, TypeOK, Cell
  <2>2. TypeOK'
    BY <1>3, <2>1, BoundsAssumption DEF Copy, IInv, TypeOK, Cell
  <2>3. FillInv' /\ SignalInv'
    BY <1>3 DEF Copy, IInv, FillInv, SignalInv, Owed, Awake
  <2> QED BY <2>2, <2>3 DEF IInv
<1>4. CASE ChildConnect
  BY <1>4 DEF ChildConnect, IInv, TypeOK, FillInv, SignalInv, Owed, Awake
<1>5. CASE Publish
  <2>1. Text(PAYLOAD) \in Seq(Ids)
    BY TextType DEF IInv, TypeOK
  <2>2. published' \in Seq(Seq(Ids)) /\ Len(published') <= Len(published) + 1
    <3> DEFINE text == Text(PAYLOAD)
    <3>1. published \in Seq(Seq(Ids)) /\ text \in Seq(Ids)
      BY <2>1 DEF IInv, TypeOK
    <3>2. published' = published \/ published' = Append(published, text)
      BY <1>5 DEF Publish
    <3> HIDE DEF text
    <3> QED BY <3>1, <3>2
  <2>3. awaiting' \in Ids /\ acked' \in BOOLEAN
    <3>1. awaiting' = awaiting \/ awaiting' = 0
      BY <1>5 DEF Publish
    <3>2. awaiting' \in Ids
      BY <3>1, BoundsAssumption DEF IInv, TypeOK, Ids
    <3>3. acked' \in BOOLEAN
      BY <1>5 DEF Publish
    <3> QED BY <3>2, <3>3
  <2>4. TypeOK'
    BY <1>5, <2>2, <2>3 DEF Publish, IInv, TypeOK
  <2>5. FillInv'
    BY <1>5 DEF Publish, IInv, FillInv
  <2>6. SignalInv'
    BY <1>5, <2>2, LenProperties DEF Publish, IInv, TypeOK, SignalInv, Owed, Awake
  <2> QED BY <2>4, <2>5, <2>6 DEF IInv
<1>6. CASE WaitForCompletion
  BY <1>6 DEF WaitForCompletion, IInv, TypeOK, FillInv, SignalInv, Owed, Awake
<1>7. CASE Disconnect
  BY <1>7 DEF Disconnect, IInv, TypeOK, FillInv, SignalInv, Owed, Awake
<1> QED BY <1>1, <1>2, <1>3, <1>4, <1>5, <1>6, <1>7 DEF Feedback

\* The invariant is inductive.
LEMMA StepInv == IInv /\ [Next]_vars => IInv'
<1> SUFFICES ASSUME IInv, [Next]_vars PROVE IInv' OBVIOUS
<1>1. CASE Next
  BY <1>1, EnvironmentInv, MainInv, LibraryInv, FeedbackInv DEF Next
<1>2. CASE UNCHANGED vars
  BY <1>2 DEF vars, envVars, parentVars, cbVars, childVars, IInv, TypeOK,
              FillInv, SignalInv, Owed, Awake
<1> QED BY <1>1, <1>2

-----------------------------------------------------------------------------
\* Every reachable state is typed: in particular neither copy of a response,
\* into p_map or out of it, leaves the mapping.
THEOREM TypeCorrect == Spec => []TypeOK
<1>1. IInv => TypeOK BY DEF IInv
<1> QED BY InitInv, StepInv, <1>1, PTL DEF Spec

\* The child never publishes more often than msgarrvd sent SIGCONT, whatever
\* the interleaving of the two processes, the broker and the restarts.
THEOREM PublicationsAreSignalled == Spec => []OnePublicationPerSignal
<1>1. IInv => OnePublicationPerSignal
  BY LenProperties DEF IInv, TypeOK, SignalInv, Owed, OnePublicationPerSignal
<1> QED BY InitInv, StepInv, <1>1, PTL DEF Spec

-----------------------------------------------------------------------------
(* Responses leave in order.  What the broker already has, and the copy the   *)
(* child may be publishing, are no newer than any response in p_map; p_map    *)
(* and both copies are no newer than a command that still waits; and p_map    *)
(* never mixes two responses, whatever the child reads from it mixes.         *)

\* No published cell is newer than response x.
PubUpTo(x) == \A k \in DOMAIN published : \A m \in DOMAIN published[k] : published[k][m] <= x

\* Nor is a cell the child holds.
NotAbove(x) == PubUpTo(x) /\ \A i \in Cell : PAYLOAD[i] <= x

\* Nor is a cell of p_map.
Fresh(x) == NotAbove(x) /\ \A j \in Cell : p_map[j] <= x

Pending(x) == Fresh(x) /\ x < nextId

MapInv ==
    \A j \in Cell : p_map[j] # 0 => /\ NotAbove(p_map[j])
                                    /\ \A i \in Cell : p_map[i] \in {0, p_map[j]}

CmdInv == handler \in {"clear", "fill"} =>
    /\ Pending(cmd.id)
    /\ \A k \in DOMAIN inbox : cmd.id <= inbox[k].id
    /\ handler = "fill" => \A j \in Cell : p_map[j] \in {0, cmd.id}

InboxInv == \A k \in DOMAIN inbox :
    /\ Pending(inbox[k].id)
    /\ \A l \in DOMAIN inbox : k < l => inbox[k].id <= inbox[l].id

NextInv == Fresh(nextId)

CopyInv == child \in {"copying", "publishing"} =>
    \A i \in Cell : PAYLOAD[i] # 0 => PubUpTo(PAYLOAD[i])

OrderInv == MapInv /\ CmdInv /\ InboxInv /\ NextInv /\ CopyInv /\ NeverBackInTime

\* In the initial states nothing is published and nothing waits.
LEMMA InitOrder == Init => OrderInv
BY BoundsAssumption
DEF Init, OrderInv, MapInv, CmdInv, InboxInv, NextInv, CopyInv, NeverBackInTime,
    Pending, Fresh, NotAbove, PubUpTo, Blank

\* A step that leaves the responses, the commands and the two places alone.
LEMMA OrderSame ==
    ASSUME OrderInv, UNCHANGED <<nextId, inbox, handler, cmd, p_map, PAYLOAD, published>>,
           child' \in {"copying", "publishing"} => child \in {"copying", "publishing"}
    PROVE  OrderInv'
BY DEF OrderInv, MapInv, CmdInv, InboxInv, NextInv, CopyInv, NeverBackInTime,
       Pending, Fresh, NotAbove, PubUpTo

\* Commands that wait carry numbers.
LEMMA InboxIds ==
    ASSUME IInv
    PROVE  /\ cmd.id \in Nat /\ nextId \in Nat
           /\ \A k \in DOMAIN inbox : k \in Nat /\ k <= Len(inbox) /\ inbox[k].id \in Nat
<1>1. inbox \in Seq(Commands) /\ nextId \in Nat /\ cmd \in Commands
  BY BoundsAssumption DEF IInv, TypeOK
<1>2. \A c \in Commands : c.id \in Nat
  BY BoundsAssumption DEF Commands, Ids
<1> HIDE DEF Commands
<1>3. \A k \in DOMAIN inbox : k \in Nat /\ k <= Len(inbox) /\ inbox[k] \in Commands
  BY <1>1
<1> QED BY <1>1, <1>2, <1>3

\* A command that arrives is newer than everything before it.
LEMMA RequestOrder ==
    ASSUME IInv, OrderInv, NEW kind \in Kinds, NEW len \in 1 .. Cells, Request(kind, len)
    PROVE  OrderInv'
<1> DEFINE c == [id |-> nextId, kind |-> kind, len |-> len]
<1>1. inbox \in Seq(Commands) /\ nextId \in Nat /\ cmd.id \in Nat
  BY BoundsAssumption DEF IInv, TypeOK, Commands, Ids
<1>2. c \in Commands
  BY KindsAssumption, BoundsAssumption DEF Commands, Request, Ids, IInv, TypeOK
<1>3. inbox' = Append(inbox, c) /\ nextId' = nextId + 1 /\ c.id = nextId
  BY DEF Request
<1>4. UNCHANGED <<handler, cmd, p_map, PAYLOAD, published, child>>
  BY DEF Request, childVars
<1> HIDE DEF c
<1>5. \A k \in DOMAIN inbox' : \/ k \in DOMAIN inbox /\ inbox'[k] = inbox[k]
                               \/ k = Len(inbox) + 1 /\ inbox'[k] = c
  BY <1>1, <1>2, <1>3
<1>6. \A k \in DOMAIN inbox : k \in Nat /\ k <= Len(inbox) /\ inbox[k].id \in Nat
  BY InboxIds
<1>7. MapInv' /\ CopyInv' /\ NeverBackInTime'
  BY <1>4 DEF OrderInv, MapInv, CopyInv, NeverBackInTime, NotAbove, PubUpTo
<1>8. NextInv'
  <2>1. \A i \in Cell : PAYLOAD[i] \in Nat /\ p_map[i] \in Nat
    BY BoundsAssumption DEF IInv, TypeOK, Ids
  <2>2. \A k \in DOMAIN published : \A m \in DOMAIN published[k] : published[k][m] \in Nat
    BY BoundsAssumption DEF IInv, TypeOK, Ids
  <2> QED BY <1>1, <1>3, <1>4, <2>1, <2>2 DEF OrderInv, NextInv, Fresh, NotAbove, PubUpTo
<1>9. CmdInv'
  BY <1>1, <1>3, <1>4, <1>5, <1>6
  DEF OrderInv, CmdInv, Pending, Fresh, NotAbove, PubUpTo
<1>10. \A k \in DOMAIN inbox' : inbox'[k].id <= nextId /\ Fresh(inbox'[k].id)
  BY <1>1, <1>3, <1>5, <1>6 DEF OrderInv, InboxInv, NextInv, Pending
<1>11. InboxInv'
  <2>1. \A k \in DOMAIN inbox' : Pending(inbox[k].id)'
    BY <1>1, <1>3, <1>4, <1>5, <1>6, <1>10 DEF Pending, Fresh, NotAbove, PubUpTo
  <2>2. \A k, l \in DOMAIN inbox' : k < l => inbox'[k].id <= inbox'[l].id
    BY <1>1, <1>3, <1>5, <1>6, <1>10 DEF OrderInv, InboxInv
  <2> QED BY <2>1, <2>2 DEF InboxInv
<1> QED BY <1>7, <1>8, <1>9, <1>11 DEF OrderInv

\* Taking the oldest command keeps the others no older than it.
LEMMA MsgArrivedOrder ==
    ASSUME IInv, OrderInv, MsgArrived
    PROVE  OrderInv'
<1>1. inbox \in Seq(Commands) /\ inbox # <<>>
  BY DEF IInv, TypeOK, MsgArrived
<1>2. inbox' = Tail(inbox) /\ cmd' = inbox[1]
  BY <1>1 DEF MsgArrived
<1>3. handler' # "fill"
  <2>1. Head(inbox) \in Commands BY <1>1
  <2> QED BY <2>1 DEF MsgArrived, Commands
<1>4. UNCHANGED <<nextId, p_map, PAYLOAD, published, child>>
  BY DEF MsgArrived, envVars, childVars
<1>5. 1 \in DOMAIN inbox /\ \A k \in DOMAIN inbox' :
         k \in Nat /\ k + 1 \in DOMAIN inbox /\ 1 < k + 1 /\ inbox'[k] = inbox[k + 1]
  BY <1>1, <1>2
<1>6. MapInv' /\ CopyInv' /\ NeverBackInTime' /\ NextInv'
  BY <1>4 DEF OrderInv, MapInv, CopyInv, NeverBackInTime, NextInv, Fresh, NotAbove, PubUpTo
<1>7. CmdInv'
  BY <1>2, <1>3, <1>4, <1>5
  DEF OrderInv, InboxInv, CmdInv, Pending, Fresh, NotAbove, PubUpTo
<1>8. InboxInv'
  BY <1>4, <1>5 DEF OrderInv, InboxInv, Pending, Fresh, NotAbove, PubUpTo
<1> QED BY <1>6, <1>7, <1>8 DEF OrderInv

\* The memset leaves no response in p_map.
LEMMA ClearMapOrder ==
    ASSUME IInv, OrderInv, ClearMap
    PROVE  OrderInv'
<1>1. p_map' = [i \in Cell |-> 0] /\ handler = "clear" /\ handler' = "fill"
      /\ UNCHANGED <<nextId, inbox, cmd, PAYLOAD, published, child>>
  BY DEF ClearMap, Blank, envVars, childVars
<1>2. \A i \in Cell : PAYLOAD[i] \in Nat
  BY BoundsAssumption DEF IInv, TypeOK, Ids
<1>3. cmd.id \in Nat /\ nextId \in Nat /\ \A k \in DOMAIN inbox : inbox[k].id \in Nat
  BY InboxIds
<1> QED
  BY <1>1, <1>2, <1>3
  DEF OrderInv, MapInv, CmdInv, InboxInv, NextInv, CopyInv, NeverBackInTime,
      Pending, Fresh, NotAbove, PubUpTo

\* The memcpy writes a response no older than any that waits nowhere any more.
LEMMA FillMapOrder ==
    ASSUME IInv, OrderInv, FillMap
    PROVE  OrderInv'
<1>1. filled + 1 \in Cell /\ p_map \in [Cell -> Ids] /\ cmd.id \in Nat
  BY BoundsAssumption DEF FillMap, IInv, TypeOK, FillInv, Commands, Cell, Ids
<1>2. p_map' = [p_map EXCEPT ![filled + 1] = cmd.id] /\ handler = "fill"
      /\ UNCHANGED <<nextId, inbox, cmd, PAYLOAD, published, child>>
  BY DEF FillMap, envVars, childVars
<1>3. \A j \in Cell : p_map'[j] = p_map[j] \/ p_map'[j] = cmd.id
  BY <1>1, <1>2
<1>4. \A j \in Cell : p_map'[j] \in {0, cmd.id}
  BY <1>2, <1>3 DEF OrderInv, CmdInv
<1>5. NotAbove(cmd.id) /\ Pending(cmd.id) /\ \A k \in DOMAIN inbox : cmd.id <= inbox[k].id
  BY <1>2 DEF OrderInv, CmdInv, Pending, Fresh
<1>6. MapInv'
  BY <1>2, <1>4, <1>5 DEF MapInv, NotAbove, PubUpTo
<1>7. CmdInv'
  BY <1>1, <1>2, <1>4, <1>5 DEF CmdInv, Pending, Fresh, NotAbove, PubUpTo
<1>8. InboxInv'
  BY <1>1, <1>2, <1>3, <1>5 DEF OrderInv, InboxInv, Pending, Fresh, NotAbove, PubUpTo
<1>9. NextInv'
  <2>1. cmd.id <= nextId
    BY <1>1, <1>5, BoundsAssumption DEF Pending, IInv, TypeOK
  <2> QED BY <1>2, <1>3, <2>1 DEF OrderInv, NextInv, Fresh, NotAbove, PubUpTo
<1>10. CopyInv' /\ NeverBackInTime'
  BY <1>2 DEF OrderInv, CopyInv, NeverBackInTime, PubUpTo
<1> QED BY <1>6, <1>7, <1>8, <1>9, <1>10 DEF OrderInv

\* A cell the child copies is from no older response than what was published,
\* even if the memcpy under way wrote it a moment ago.
LEMMA CopyOrder ==
    ASSUME IInv, OrderInv, Copy
    PROVE  OrderInv'
<1>1. copied + 1 \in Cell /\ PAYLOAD \in [Cell -> Ids] /\ p_map \in [Cell -> Ids]
  BY BoundsAssumption DEF Copy, IInv, TypeOK, Cell
<1>2. PAYLOAD' = [PAYLOAD EXCEPT ![copied + 1] = p_map[copied + 1]] /\ child = "copying"
      /\ UNCHANGED <<nextId, inbox, handler, cmd, p_map, published, child>>
  BY DEF Copy, envVars, cbVars
<1>3. \A i \in Cell : PAYLOAD'[i] = PAYLOAD[i] \/ PAYLOAD'[i] = p_map[copied + 1]
  BY <1>1, <1>2
<1>4. p_map[copied + 1] \in Nat /\ \A j \in Cell : p_map[j] \in Nat
  BY <1>1, BoundsAssumption DEF Ids
<1>5. \A x : Fresh(x) => Fresh(x)'
  BY <1>1, <1>2, <1>3 DEF Fresh, NotAbove, PubUpTo
<1>6. MapInv'
  <2>1. \A j \in Cell : p_map[j] # 0 => p_map[copied + 1] <= p_map[j]
    BY <1>1, <1>4 DEF OrderInv, MapInv
  <2> QED BY <1>2, <1>3, <2>1 DEF OrderInv, MapInv, NotAbove, PubUpTo
<1>7. CmdInv' /\ InboxInv' /\ NextInv'
  BY <1>2, <1>5 DEF OrderInv, CmdInv, InboxInv, NextInv, Pending, Fresh, NotAbove, PubUpTo
<1>8. CopyInv'
  BY <1>1, <1>2, <1>3 DEF OrderInv, MapInv, CopyInv, NotAbove, PubUpTo
<1>9. NeverBackInTime'
  BY <1>2 DEF OrderInv, NeverBackInTime
<1> QED BY <1>6, <1>7, <1>8, <1>9 DEF OrderInv

\* The child starts from an empty copy.
LEMMA MeasureOrder ==
    ASSUME IInv, OrderInv, Measure
    PROVE  OrderInv'
<1>1. PAYLOAD' = [i \in Cell |-> 0]
      /\ UNCHANGED <<nextId, inbox, handler, cmd, p_map, published>>
  BY DEF Measure, Blank, envVars, cbVars
<1>2. \A j \in Cell : p_map[j] \in Nat
  BY BoundsAssumption DEF IInv, TypeOK, Ids
<1>3. cmd.id \in Nat /\ nextId \in Nat /\ \A k \in DOMAIN inbox : inbox[k].id \in Nat
  BY InboxIds
<1> QED
  BY <1>1, <1>2, <1>3
  DEF OrderInv, MapInv, CmdInv, InboxInv, NextInv, CopyInv, NeverBackInTime,
      Pending, Fresh, NotAbove, PubUpTo

\* A publication holds cells of the copy, none older than what was published.
LEMMA PublishOrder ==
    ASSUME IInv, OrderInv, Publish
    PROVE  OrderInv'
<1>1. UNCHANGED <<nextId, inbox, handler, cmd, p_map, PAYLOAD>>
      /\ child = "publishing" /\ child' = "waiting"
  BY DEF Publish, cbVars
<1>2. CASE published' = published
  BY <1>1, <1>2, OrderSame
<1>3. CASE published' = Append(published, Text(PAYLOAD))
  <2> DEFINE text == Text(PAYLOAD)
  <2>1. PAYLOAD \in [Cell -> Ids] /\ published \in Seq(Seq(Ids))
    BY DEF IInv, TypeOK
  <2>2. text \in Seq(Ids) /\ \A i \in DOMAIN text : i \in Cell /\ text[i] = PAYLOAD[i]
                                                   /\ PAYLOAD[i] # 0
    BY <2>1, TextType, TextCells
  <2> HIDE DEF text
  <2>3. published' = Append(published, text)
    BY <1>3 DEF text
  <2>4. \A k \in DOMAIN published' :
           \/ k \in DOMAIN published /\ published'[k] = published[k]
           \/ k = Len(published) + 1 /\ published'[k] = text
    BY <2>1, <2>2, <2>3
  <2>5. \A x : NotAbove(x) => NotAbove(x)'
    BY <1>1, <2>2, <2>4 DEF NotAbove, PubUpTo
  <2>6. MapInv' /\ CmdInv' /\ InboxInv' /\ NextInv'
    BY <1>1, <2>5
    DEF OrderInv, MapInv, CmdInv, InboxInv, NextInv, Pending, Fresh, NotAbove, PubUpTo
  <2>7. CopyInv'
    BY <1>1 DEF CopyInv
  <2>8. \A i \in DOMAIN text : PubUpTo(text[i])
    BY <1>1, <2>2 DEF OrderInv, CopyInv
  <2>9. NeverBackInTime'
    BY <2>1, <2>4, <2>8 DEF OrderInv, NeverBackInTime, PubUpTo
  <2> QED BY <2>6, <2>7, <2>9 DEF OrderInv
<1> QED BY <1>2, <1>3 DEF Publish

\* A restart loses the responses and the commands, not what was published.
LEMMA RestartOrder ==
    ASSUME IInv, OrderInv, Restart
    PROVE  OrderInv'
<1>1. inbox' = <<>> /\ handler' = "idle" /\ child' = "running"
      /\ p_map' = [i \in Cell |-> 0] /\ PAYLOAD' = [i \in Cell |-> 0]
      /\ UNCHANGED <<nextId, published>>
  BY DEF Restart, FreshProcess, Blank
<1>2. nextId \in Nat
  BY BoundsAssumption DEF IInv, TypeOK
<1> QED
  BY <1>1, <1>2
  DEF OrderInv, MapInv, CmdInv, InboxInv, NextInv, CopyInv, NeverBackInTime,
      Pending, Fresh, NotAbove, PubUpTo

\* Every step keeps the order.
LEMMA StepOrder == IInv /\ OrderInv /\ [Next]_vars => OrderInv'
<1> SUFFICES ASSUME IInv, OrderInv, [Next]_vars PROVE OrderInv' OBVIOUS
<1> USE DEF vars, envVars, parentVars, cbVars, childVars
<1>1. CASE Environment
  <2>1. CASE BrokerDown BY <2>1, OrderSame DEF BrokerDown
  <2>2. CASE BrokerUp BY <2>2, OrderSame DEF BrokerUp
  <2>3. CASE KeepAliveExpires BY <2>3, OrderSame DEF KeepAliveExpires
  <2> QED BY <1>1, <2>1, <2>2, <2>3, RequestOrder DEF Environment
<1>2. CASE Main
  <2>1. CASE Connect BY <2>1, OrderSame DEF Connect
  <2>2. CASE ConnectFails BY <2>2, OrderSame DEF ConnectFails
  <2>3. CASE Subscribe BY <2>3, OrderSame DEF Subscribe
  <2>4. CASE LeaveLoop BY <2>4, OrderSame DEF LeaveLoop
  <2> QED BY <1>2, <2>1, <2>2, <2>3, <2>4, RestartOrder DEF Main
<1>3. CASE Library
  <2>1. CASE ConnLost
    BY <2>1
    DEF ConnLost, OrderInv, MapInv, CmdInv, InboxInv, NextInv, CopyInv, NeverBackInTime,
        Pending, Fresh, NotAbove, PubUpTo
  <2>2. CASE Signal
    BY <2>2
    DEF Signal, OrderInv, MapInv, CmdInv, InboxInv, NextInv, CopyInv, NeverBackInTime,
        Pending, Fresh, NotAbove, PubUpTo
  <2> QED BY <1>3, <2>1, <2>2, MsgArrivedOrder, ClearMapOrder, FillMapOrder DEF Library
<1>4. CASE Feedback
  <2>1. CASE Stop BY <2>1, OrderSame DEF Stop
  <2>2. CASE ChildConnect BY <2>2, OrderSame DEF ChildConnect
  <2>3. CASE WaitForCompletion BY <2>3, OrderSame DEF WaitForCompletion
  <2>4. CASE Disconnect BY <2>4, OrderSame DEF Disconnect
  <2> QED BY <1>4, <2>1, <2>2, <2>3, <2>4, MeasureOrder, CopyOrder, PublishOrder DEF Feedback
<1>5. CASE UNCHANGED vars
  BY <1>5, OrderSame
<1> QED BY <1>1, <1>2, <1>3, <1>4, <1>5 DEF Next

\* Responses leave in the order of the commands, though p_map is rewritten
\* under the copying child and both processes may be restarted at any moment.
THEOREM ResponsesStayInOrder == Spec => []NeverBackInTime
<1>1. Init => IInv /\ OrderInv
  BY InitInv, InitOrder
<1>2. IInv /\ OrderInv /\ [Next]_vars => IInv' /\ OrderInv'
  BY StepInv, StepOrder
<1>3. OrderInv => NeverBackInTime
  BY DEF OrderInv
<1> QED BY <1>1, <1>2, <1>3, PTL DEF Spec
-----------------------------------------------------------------------------
(* A client that waits for each answer.  While it waits, the command it waits *)
(* for is the last in the queue, or the handler has it, or the child is awake *)
(* for it; nothing rewrites p_map before that child has published.            *)

\* The command waited for left the queue, and nothing came after it.
Asked == awaiting # 0 /\ cmd.id = awaiting /\ inbox = <<>>

\* p_map holds the first n cells of the response to cmd and nothing else.
Holds(n) == \A i \in Cell : p_map[i] = IF i <= n THEN cmd.id ELSE 0

HandlerInv == handler # "idle" => Asked /\ child \notin Awake

AwakeInv == child \in Awake => Asked

QueueInv == \A k \in DOMAIN inbox :
    inbox[k].kind # "unknown" => awaiting # 0 /\ inbox[k].id = awaiting /\ k = Len(inbox)

WrittenInv ==
    /\ handler = "fill" => Holds(filled)
    /\ (handler = "signal" \/ child \in Awake) /\ cmd.kind = "answered" => Holds(cmd.len)

CopiedInv == child \in {"copying", "publishing"} =>
    /\ count = StrLen(p_map) /\ copied <= count
    /\ child = "publishing" => copied = count
    /\ \A i \in Cell : PAYLOAD[i] = IF i <= copied THEN p_map[i] ELSE 0

AskInv ==
    client = "eager" \/ (HandlerInv /\ AwakeInv /\ QueueInv /\ WrittenInv /\ CopiedInv)

\* strlen sees a copy of the text, padded with zero bytes, as the text.
LEMMA TextOfCopy ==
    ASSUME NEW m \in [Cell -> Ids], NEW c \in [Cell -> Ids],
           \A i \in Cell : c[i] = IF i <= StrLen(m) THEN m[i] ELSE 0
    PROVE  Text(c) = Text(m)
<1> DEFINE S(f) == {n \in Cell : \A i \in 1 .. n : f[i] # 0}
<1>1. StrLen(m) \in 0 .. Cells BY StrLenRange
<1>2. ASSUME NEW n \in S(m) PROVE n <= StrLen(m)
  <2>1. n \in Nat /\ 1 .. n \subseteq S(m) BY BoundsAssumption DEF Cell
  <2>2. IsFiniteSet(S(m))
    <3>1. IsFiniteSet(Cell) BY BoundsAssumption, FS_Interval DEF Cell
    <3>2. S(m) \in SUBSET Cell OBVIOUS
    <3> QED BY <3>1, <3>2, FS_Subset
  <2>3. Cardinality(1 .. n) <= Cardinality(S(m)) BY <2>1, <2>2, FS_Subset
  <2>4. Cardinality(1 .. n) = n BY <2>1, FS_Interval
  <2> QED BY <2>3, <2>4 DEF StrLen
<1>3. S(m) \subseteq S(c)
  <2> SUFFICES ASSUME NEW n \in S(m), NEW i \in 1 .. n PROVE c[i] # 0
    OBVIOUS
  <2> QED BY <1>1, <1>2, BoundsAssumption DEF Cell
<1>4. S(c) \subseteq S(m)
  BY <1>1, BoundsAssumption DEF Cell
<1>5. StrLen(c) = StrLen(m)
  BY <1>3, <1>4, S(c) = S(m) DEF StrLen
<1>6. \A i \in 1 .. StrLen(m) : c[i] = m[i]
  BY <1>1, BoundsAssumption DEF Cell
<1> QED BY <1>5, <1>6 DEF Text

\* A mapping that holds the response and zero bytes after it reads as it.
LEMMA TextOfResponse ==
    ASSUME NEW m \in [Cell -> Ids], NEW c \in Commands, c.id # 0,
           \A i \in Cell : m[i] = IF i <= c.len THEN c.id ELSE 0
    PROVE  Text(m) = Response(c)
<1>1. c.len \in 1 .. Cells BY DEF Commands
<1>2. {n \in Cell : \A i \in 1 .. n : m[i] # 0} = 1 .. c.len
  BY <1>1, BoundsAssumption DEF Cell
<1>3. StrLen(m) = c.len
  <2>1. Cardinality(1 .. c.len) = c.len BY <1>1, BoundsAssumption, FS_Interval
  <2> QED BY <1>2, <2>1 DEF StrLen
<1>4. \A i \in 1 .. c.len : m[i] = c.id
  BY <1>1, BoundsAssumption DEF Cell
<1> QED BY <1>3, <1>4 DEF Text, Response

\* A step that leaves the conversation alone and wakes nobody.
LEMMA AskSame ==
    ASSUME AskInv, child' = child \/ child' \notin Awake,
           UNCHANGED <<client, awaiting, inbox, handler, cmd, filled, p_map, count, copied, PAYLOAD>>
    PROVE  AskInv'
BY DEF AskInv, HandlerInv, AwakeInv, QueueInv, WrittenInv, CopiedInv, Asked, Holds, Awake, StrLen

\* It sends only when it waits for nothing, so nothing is on its way.
LEMMA RequestAsk ==
    ASSUME IInv, AskInv, NEW kind \in Kinds, NEW len \in 1 .. Cells, Request(kind, len)
    PROVE  AskInv'
<1> SUFFICES ASSUME client # "eager" PROVE AskInv'
  BY DEF Request, AskInv
<1> DEFINE c == [id |-> nextId, kind |-> kind, len |-> len]
<1>1. awaiting = 0
  BY ClientAssumption DEF Request, MaySend, IInv, TypeOK
<1>2. handler = "idle" /\ child \notin Awake /\ \A k \in DOMAIN inbox : inbox[k].kind = "unknown"
  BY <1>1 DEF AskInv, HandlerInv, AwakeInv, QueueInv, Asked
<1>3. inbox \in Seq(Commands) /\ nextId # 0 /\ c \in Commands
  BY KindsAssumption, BoundsAssumption DEF IInv, TypeOK, Request, Commands, Ids
<1>4. inbox' = Append(inbox, c) /\ awaiting' = IF kind = "unknown" THEN awaiting ELSE nextId
  BY DEF Request
<1>5. c.kind = kind /\ c.id = nextId
  OBVIOUS
<1>6. UNCHANGED <<handler, child>>
  BY DEF Request, childVars
<1> HIDE DEF c
<1>7. \A k \in DOMAIN inbox' : \/ k \in DOMAIN inbox /\ inbox'[k] = inbox[k]
                               \/ k = Len(inbox') /\ inbox'[k] = c
  BY <1>3, <1>4
<1>8. QueueInv'
  BY <1>2, <1>3, <1>4, <1>5, <1>7 DEF QueueInv
<1>9. HandlerInv' /\ AwakeInv' /\ WrittenInv' /\ CopiedInv'
  BY <1>2, <1>6 DEF HandlerInv, AwakeInv, WrittenInv, CopiedInv, Awake
<1> QED BY <1>8, <1>9 DEF AskInv

\* The handler takes the awaited command only when it is the last.
LEMMA MsgArrivedAsk ==
    ASSUME IInv, AskInv, MsgArrived
    PROVE  AskInv'
<1> SUFFICES ASSUME client # "eager" PROVE AskInv'
  BY DEF MsgArrived, AskInv, envVars
<1>1. inbox \in Seq(Commands) /\ inbox # <<>>
  BY DEF IInv, TypeOK, MsgArrived
<1>2. inbox' = Tail(inbox) /\ cmd' = inbox[1] /\ Head(inbox) = inbox[1] /\ inbox[1] \in Commands
      /\ 1 \in DOMAIN inbox
  BY <1>1 DEF MsgArrived
<1>3. child \notin Awake /\ UNCHANGED <<child, awaiting>>
  BY <1>1 DEF MsgArrived, AskInv, AwakeInv, Asked, childVars, envVars
<1>4. handler' = IF inbox[1].kind = "answered" THEN "clear"
                 ELSE IF inbox[1].kind = "mute" THEN "signal" ELSE "idle"
  BY <1>2 DEF MsgArrived, Commands
<1>5. handler' # "idle" => inbox[1].kind # "unknown"
  BY <1>2, <1>4 DEF Commands
<1>6. inbox[1].kind # "unknown" => awaiting # 0 /\ inbox[1].id = awaiting /\ inbox' = <<>>
  BY <1>1, <1>2 DEF AskInv, QueueInv
<1>7. HandlerInv' /\ AwakeInv'
  BY <1>2, <1>3, <1>5, <1>6 DEF HandlerInv, AwakeInv, Asked
<1>8. QueueInv'
  <2>1. \A k \in DOMAIN inbox' : k \in Nat /\ k + 1 \in DOMAIN inbox /\ inbox'[k] = inbox[k + 1]
                                 /\ Len(inbox) = Len(inbox') + 1
    BY <1>1, <1>2
  <2>2. Len(inbox') \in Nat BY <1>1, <1>2
  <2> QED BY <1>3, <2>1, <2>2 DEF AskInv, QueueInv
<1>9. WrittenInv' /\ CopiedInv'
  BY <1>2, <1>3, <1>4 DEF WrittenInv, CopiedInv, Awake
<1> QED BY <1>7, <1>8, <1>9 DEF AskInv

\* The response is written cell by cell into a mapping of zero bytes.
LEMMA WriteAsk ==
    ASSUME IInv, AskInv, ClearMap \/ FillMap
    PROVE  AskInv'
<1> SUFFICES ASSUME client # "eager" PROVE AskInv'
  BY DEF ClearMap, FillMap, AskInv, envVars
<1>1. handler # "idle" /\ UNCHANGED <<inbox, cmd, awaiting, child>>
  BY DEF ClearMap, FillMap, envVars, childVars
<1>2. Asked /\ child \notin Awake
  BY <1>1 DEF AskInv, HandlerInv
<1>3. HandlerInv' /\ AwakeInv' /\ QueueInv' /\ CopiedInv'
  BY <1>1, <1>2 DEF HandlerInv, AwakeInv, QueueInv, CopiedInv, Asked, Awake
<1>4. WrittenInv'
  <2>1. CASE ClearMap
    <3>1. p_map' = [i \in Cell |-> 0] /\ filled' = 0 /\ handler' = "fill"
      BY <2>1 DEF ClearMap, Blank
    <3> QED BY <1>1, <1>2, <3>1 DEF WrittenInv, Holds, Cell
  <2>2. CASE FillMap
    <3>1. filled \in Nat /\ filled + 1 \in Cell /\ p_map \in [Cell -> Ids] /\ cmd.len \in Nat
      BY <2>2, BoundsAssumption DEF FillMap, IInv, TypeOK, FillInv, Commands, Cell
    <3>2. filled' = filled + 1 /\ p_map' = [p_map EXCEPT ![filled + 1] = cmd.id]
          /\ handler' = IF filled + 1 = cmd.len THEN "signal" ELSE "fill"
      BY <2>2 DEF FillMap
    <3>3. Holds(filled)
      BY <2>2 DEF FillMap, AskInv, WrittenInv
    <3>4. \A i \in Cell : p_map'[i] = IF i <= filled + 1 THEN cmd.id ELSE 0
      BY <3>1, <3>2, <3>3, BoundsAssumption DEF Holds, Cell
    <3> QED BY <1>1, <1>2, <3>1, <3>2, <3>4 DEF WrittenInv, Holds
  <2> QED BY <2>1, <2>2
<1> QED BY <1>3, <1>4 DEF AskInv

\* A child that is woken finds the whole response.
LEMMA SignalAsk ==
    ASSUME IInv, AskInv, Signal
    PROVE  AskInv'
<1>1. handler = "signal" /\ handler' = "idle" /\ (child' = child \/ child' = "awake")
      /\ UNCHANGED <<client, awaiting, inbox, cmd, filled, p_map, count, copied, PAYLOAD>>
  BY DEF Signal, envVars
<1> QED
  BY <1>1
  DEF AskInv, HandlerInv, AwakeInv, QueueInv, WrittenInv, CopiedInv, Asked, Holds, Awake, StrLen

\* While the child works p_map stands still.
LEMMA ChildAsk ==
    ASSUME IInv, AskInv, Measure \/ Copy \/ ChildConnect
    PROVE  AskInv'
<1> SUFFICES ASSUME client # "eager" PROVE AskInv'
  BY DEF Measure, Copy, ChildConnect, AskInv, envVars
<1>1. UNCHANGED <<awaiting, inbox, handler, cmd, filled, p_map>> /\ child \in Awake
  BY DEF Measure, Copy, ChildConnect, envVars, cbVars, Awake
<1>2. HandlerInv' /\ AwakeInv' /\ QueueInv'
  BY <1>1 DEF AskInv, HandlerInv, AwakeInv, QueueInv, Asked, Awake
<1>3. WrittenInv'
  BY <1>1 DEF AskInv, WrittenInv, Holds, Awake
<1>4. CopiedInv'
  <2>1. StrLen(p_map) \in 0 .. Cells /\ p_map \in [Cell -> Ids] /\ PAYLOAD \in [Cell -> Ids]
        /\ copied \in Nat
    BY StrLenRange, BoundsAssumption DEF IInv, TypeOK
  <2>2. StrLen(p_map)' = StrLen(p_map)
    BY <1>1 DEF StrLen
  <2>3. CASE Measure
    <3>1. count' = StrLen(p_map) /\ copied' = 0 /\ PAYLOAD' = [i \in Cell |-> 0] /\ child' = "copying"
      BY <2>3 DEF Measure, Blank
    <3> HIDE DEF StrLen
    <3> QED BY <1>1, <2>1, <2>2, <3>1, BoundsAssumption DEF CopiedInv, Cell
  <2>4. CASE Copy
    <3>1. copied < count /\ copied' = copied + 1 /\ child = "copying" /\ child' = "copying"
          /\ PAYLOAD' = [PAYLOAD EXCEPT ![copied + 1] = p_map[copied + 1]] /\ count' = count
      BY <2>4 DEF Copy
    <3>2. count = StrLen(p_map) /\ \A i \in Cell : PAYLOAD[i] = IF i <= copied THEN p_map[i] ELSE 0
      BY <3>1 DEF AskInv, CopiedInv
    <3>3. copied + 1 \in Cell
      BY <2>1, <3>1, <3>2, BoundsAssumption DEF Cell
    <3>4. \A i \in Cell : PAYLOAD'[i] = IF i <= copied + 1 THEN p_map[i] ELSE 0
      BY <2>1, <3>1, <3>2, <3>3, BoundsAssumption DEF Cell
    <3> QED BY <1>1, <2>1, <2>2, <3>1, <3>2, <3>4, BoundsAssumption DEF CopiedInv
  <2>5. CASE ChildConnect
    BY <1>1, <2>2, <2>5 DEF ChildConnect, AskInv, CopiedInv
  <2> QED BY <2>3, <2>4, <2>5
<1> QED BY <1>2, <1>3, <1>4 DEF AskInv

\* A publication that the broker takes ends the wait, with nothing on its way.
LEMMA PublishAsk ==
    ASSUME IInv, AskInv, Publish
    PROVE  AskInv'
<1> SUFFICES ASSUME client # "eager" PROVE AskInv'
  BY DEF Publish, AskInv
<1>1. child = "publishing" /\ child' = "waiting" /\ UNCHANGED <<inbox, handler, cmd>>
  BY DEF Publish, cbVars
<1>2. inbox = <<>> /\ handler = "idle"
  BY <1>1 DEF AskInv, AwakeInv, HandlerInv, Asked, Awake
<1> QED
  BY <1>1, <1>2 DEF AskInv, HandlerInv, AwakeInv, QueueInv, WrittenInv, CopiedInv, Awake

\* Every step keeps the conversation in step.
LEMMA StepAsk == IInv /\ AskInv /\ [Next]_vars => AskInv'
<1> SUFFICES ASSUME IInv, AskInv, [Next]_vars PROVE AskInv' OBVIOUS
<1> USE DEF vars, envVars, parentVars, cbVars, childVars
<1>1. CASE Environment
  <2>1. CASE BrokerDown BY <2>1, AskSame DEF BrokerDown
  <2>2. CASE BrokerUp BY <2>2, AskSame DEF BrokerUp
  <2>3. CASE KeepAliveExpires BY <2>3, AskSame DEF KeepAliveExpires
  <2> QED BY <1>1, <2>1, <2>2, <2>3, RequestAsk DEF Environment
<1>2. CASE Main
  <2>1. CASE Connect BY <2>1, AskSame DEF Connect
  <2>2. CASE ConnectFails BY <2>2, AskSame DEF ConnectFails, Awake
  <2>3. CASE Subscribe BY <2>3, AskSame DEF Subscribe
  <2>4. CASE LeaveLoop BY <2>4, AskSame DEF LeaveLoop, Awake
  <2>5. CASE Restart
    <3>1. inbox' = <<>> /\ handler' = "idle" /\ child' = "running"
      BY <2>5 DEF Restart, FreshProcess
    <3> QED BY <3>1 DEF AskInv, HandlerInv, AwakeInv, QueueInv, WrittenInv, CopiedInv, Awake
  <2> QED BY <1>2, <2>1, <2>2, <2>3, <2>4, <2>5 DEF Main
<1>3. CASE Library
  <2>1. CASE ConnLost
    BY <2>1 DEF ConnLost, AskInv, HandlerInv, AwakeInv, QueueInv, WrittenInv, CopiedInv,
                Asked, Holds, StrLen
  <2> QED BY <1>3, <2>1, MsgArrivedAsk, WriteAsk, SignalAsk DEF Library
<1>4. CASE Feedback
  <2>1. CASE Stop BY <2>1, AskSame DEF Stop, Awake
  <2>2. CASE WaitForCompletion BY <2>2, AskSame DEF WaitForCompletion, Awake
  <2>3. CASE Disconnect BY <2>3, AskSame DEF Disconnect, Awake
  <2> QED BY <1>4, <2>1, <2>2, <2>3, ChildAsk, PublishAsk DEF Feedback
<1>5. CASE UNCHANGED vars
  BY <1>5, AskSame
<1> QED BY <1>1, <1>2, <1>3, <1>4, <1>5 DEF Next

\* A client that waits for each answer gets it: the publication that ends its
\* wait is, whole and untorn, the response to the command it waits for.
THEOREM AnswersReachTheAsker == Spec => AnswersTheAsker
<1>1. Init => IInv /\ AskInv
  BY InitInv DEF Init, AskInv, HandlerInv, AwakeInv, QueueInv, WrittenInv, CopiedInv, Awake
<1>2. IInv /\ AskInv /\ [Next]_vars => IInv' /\ AskInv'
  BY StepInv, StepAsk
<1> DEFINE Answer == (client # "eager" /\ Len(published') > Len(published)) =>
                         /\ cmd.id = awaiting
                         /\ Text(PAYLOAD) = Text(p_map)
                         /\ cmd.kind = "answered" => Text(PAYLOAD) = Response(cmd)
<1>3. IInv /\ AskInv /\ [Next]_vars => [Answer]_vars
  <2> SUFFICES ASSUME IInv, AskInv, Next, client # "eager", Len(published') > Len(published)
               PROVE  /\ cmd.id = awaiting
                      /\ Text(PAYLOAD) = Text(p_map)
                      /\ cmd.kind = "answered" => Text(PAYLOAD) = Response(cmd)
    OBVIOUS
  <2>1. published' # published
    <3>1. Len(published) \in Nat BY DEF IInv, TypeOK
    <3> QED BY <3>1
  <2>2. Publish
    <3> USE DEF vars, envVars, parentVars, cbVars, childVars
    <3>1. ~Environment
      BY <2>1 DEF Environment, BrokerDown, BrokerUp, KeepAliveExpires, Request
    <3>2. ~Main
      BY <2>1 DEF Main, Connect, ConnectFails, Subscribe, LeaveLoop, Restart
    <3>3. ~Library
      BY <2>1 DEF Library, ConnLost, MsgArrived, ClearMap, FillMap, Signal
    <3>4. Feedback => Publish
      BY <2>1 DEF Feedback, Stop, Measure, Copy, ChildConnect, WaitForCompletion, Disconnect
    <3> QED BY <3>1, <3>2, <3>3, <3>4 DEF Next
  <2>3. child = "publishing" /\ Asked
    BY <2>2 DEF Publish, AskInv, AwakeInv, Awake
  <2>4. p_map \in [Cell -> Ids] /\ PAYLOAD \in [Cell -> Ids] /\ cmd \in Commands
    BY DEF IInv, TypeOK
  <2>5. Text(PAYLOAD) = Text(p_map)
    <3>1. \A i \in Cell : PAYLOAD[i] = IF i <= StrLen(p_map) THEN p_map[i] ELSE 0
      BY <2>3 DEF AskInv, CopiedInv
    <3> QED BY <2>4, <3>1, TextOfCopy
  <2>6. ASSUME cmd.kind = "answered" PROVE Text(p_map) = Response(cmd)
    <3>1. Holds(cmd.len) /\ cmd.id # 0
      BY <2>3, <2>6 DEF AskInv, WrittenInv, Awake, Asked
    <3> QED BY <2>4, <3>1, TextOfResponse DEF Holds
  <2> QED BY <2>3, <2>5, <2>6 DEF Asked
<1> QED BY <1>1, <1>2, <1>3, PTL DEF Spec, AnswersTheAsker
=============================================================================
