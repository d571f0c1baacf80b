---------------------------- MODULE NetConfProofs ----------------------------
(***************************************************************************)
(* The safety properties of NetConf for every number of commands, kills,   *)
(* checks and keys: TypeOK, RefusedKeepsProfile, PersistedOnlyAfterLink,   *)
(* YesMeansDone and UplinkIsThePersistedOne.                               *)
(***************************************************************************)
EXTENDS NetConf, TLAPS

-----------------------------------------------------------------------------
(* The inductive invariant *)

\* What the first n entries of Script(c.way) have brought about.
Applied(c, n) ==
    /\ c.way \in {"static", "dhcp"} => /\ n >= 1 => os.netFile = c
                                       /\ n >= 2 => os.ppp = Down
                                       /\ n >= 4 => os.eth = c
    /\ c.way = "wifi"               => /\ n >= 1 => os.wpaFile = c
                                       /\ n >= 2 => os.ppp = Down
                                       /\ n >= 4 => os.wifi = c
    /\ c.way = "pppoe"              => /\ n >= 1 => os.pppFile = c
                                       /\ n >= 4 => os.ppp = c

ForwardStates == {"persist", "keys", "status", "accept"}
AppliedStates == {"precheck", "check"} \cup ForwardStates

\* set_wan_* applies what was asked for or, rolling back, what is persisted.
TargetInv == /\ ~rolling => target = cmd
             /\ rolling /\ pc # "idle" => target = Persisted

\* The counters: where step and count stand.
CounterInv == /\ pc = "apply" => step \in 1 .. 6
              /\ pc = "keys" => step \in Keys /\ cmd.way # "dhcp"
              /\ pc = "precheck" => count = 1

\* Only a command that is not rolled back and whose link was seen gets as far
\* as being persisted, and an answer ends the handler.
PersistInv == /\ pc \in ForwardStates => ~rolling /\ (linkUp \/ cmd.way = "static")
              /\ pc # "idle" => answer = "none"

\* Before that nothing persistent has changed.
BeforeInv == pc \notin {"idle", "keys", "status", "accept"} \/ answer = "no"
                 => <<wanWay, prof>> = before

\* What is in effect, unless a file was not written or a roll-back not done.
EffectInv ==
    /\ pc = "apply" /\ ~lost => Applied(target, step - 1)
    /\ pc \in AppliedStates /\ ~lost => InEffect(target)
    /\ pc = "refuse" /\ ~lost /\ ~unrestored => InEffect(Persisted)
    /\ UplinkIsThePersistedOne

\* How far the persisting got.
KeysInv ==
    /\ pc = "keys" /\ ~lost => /\ wanWay = cmd.way
                               /\ \A k \in 1 .. step - 1 : prof[cmd.way][k] = cmd.params[k]
    /\ pc \in {"status", "accept"} /\ ~lost => Persisted = cmd
    /\ pc = "accept" /\ ~lost => status = cmd
    /\ YesMeansDone

IInv == /\ TypeOK /\ TargetInv /\ CounterInv /\ PersistInv /\ BeforeInv
        /\ EffectInv /\ KeysInv

-----------------------------------------------------------------------------
(* Configurations, scripts and their effects *)

Entries == {"netFile", "wpaFile", "pppFile", "pppoeStop", "ethUp", "ethDown",
            "networkd", "wifiDown", "wpaStart", "pppoeStart", "route"}

\* A configuration is its way and its keys.
LEMMA ConfigParts ==
    ASSUME NEW c \in Configs
    PROVE  /\ c.way \in Ways
           /\ c.way = "dhcp" => c.params = <<>>
           /\ c.way # "dhcp" => c.way \in Keyed /\ c.params \in Params
           /\ c = [way |-> c.way, params |-> c.params]
BY DEF Configs, Keyed, Ways

\* What is persisted for a way is a configuration of that way.
LEMMA ProfileType ==
    ASSUME TypeOK, NEW w \in Ways
    PROVE  Profile(w) \in Configs
<1>1. CASE w = "dhcp" BY <1>1 DEF Profile, Configs
<1>2. CASE w # "dhcp"
  <2>1. w \in Keyed BY <1>2 DEF Keyed
  <2>2. prof[w] \in Params BY <2>1 DEF TypeOK
  <2> QED BY <1>2, <2>1, <2>2 DEF Profile, Configs
<1> QED BY <1>1, <1>2

\* Every script has five entries.
LEMMA ScriptEntries ==
    ASSUME NEW w \in Ways
    PROVE  /\ Len(Script(w)) = 5
           /\ \A i \in 1 .. 5 : Script(w)[i] \in Entries
<1>1. CASE w \in {"static", "dhcp"} BY <1>1 DEF Script, Entries
<1>2. CASE w = "pppoe" BY <1>2 DEF Script, Entries
<1>3. CASE w = "wifi" BY <1>3 DEF Script, Entries
<1> QED BY <1>1, <1>2, <1>3 DEF Ways

\* No command takes files, interfaces and services out of their type.
LEMMA EffectType ==
    ASSUME TypeOK, NEW s \in Entries
    PROVE  Effect(s) \in OsStates /\ FailedEffect(s) \in OsStates
<1>1. os \in OsStates /\ target \in Configs BY DEF TypeOK
<1>2. Down \in Interface /\ Bare \in Interface /\ Configs \subseteq Interface
  BY DEF Interface
<1>3. Effect(s) \in OsStates
  BY <1>1, <1>2 DEF Effect, OsStates, Entries
<1>4. FailedEffect(s) \in OsStates
  BY <1>1, <1>2 DEF FailedEffect, OsStates, Entries
<1> QED BY <1>3, <1>4

\* What is persisted depends on wan_way and the profiles alone.
LEMMA PersistedSame ==
    ASSUME UNCHANGED <<wanWay, prof>>
    PROVE  Persisted' = Persisted
BY DEF Persisted, Profile

\* Being in effect depends on the interfaces alone.
LEMMA InEffectSame ==
    ASSUME UNCHANGED os, NEW c
    PROVE  (InEffect(c))' <=> InEffect(c')
BY DEF InEffect

\* All five entries carried out, the configuration is in effect.
LEMMA AppliedInEffect ==
    ASSUME NEW c \in Configs, Applied(c, 5)
    PROVE  InEffect(c)
BY DEF Applied, InEffect

\* What each entry does, one by one.
LEMMA EffectOf ==
    /\ Effect("netFile")    = [os EXCEPT !.netFile = target]
    /\ Effect("wpaFile")    = [os EXCEPT !.wpaFile = target]
    /\ Effect("pppFile")    = [os EXCEPT !.pppFile = target]
    /\ Effect("networkd")   = [os EXCEPT !.eth = os.netFile]
    /\ Effect("ethUp")      = [os EXCEPT !.eth = IF @ = Down THEN Bare ELSE @]
    /\ Effect("ethDown")    = [os EXCEPT !.eth = Down]
    /\ Effect("route")      = [os EXCEPT !.eth = Bare]
    /\ Effect("wifiDown")   = [os EXCEPT !.wifi = Down]
    /\ Effect("wpaStart")   = [os EXCEPT !.wifi = os.wpaFile]
    /\ Effect("pppoeStart") = [os EXCEPT !.ppp = os.pppFile]
    /\ Effect("pppoeStop")  = [os EXCEPT !.ppp = Down]
BY Zenon DEF Effect

\* The same by the fields of the outcome.
LEMMA EffectFields ==
    ASSUME os \in OsStates, NEW s \in Entries, NEW o, o = Effect(s)
    PROVE  /\ o.netFile = IF s = "netFile" THEN target ELSE os.netFile
           /\ o.wpaFile = IF s = "wpaFile" THEN target ELSE os.wpaFile
           /\ o.pppFile = IF s = "pppFile" THEN target ELSE os.pppFile
           /\ s = "networkd" => o.eth = os.netFile
           /\ s \notin {"networkd", "ethUp", "ethDown", "route"} => o.eth = os.eth
           /\ s = "wpaStart" => o.wifi = os.wpaFile
           /\ s \notin {"wpaStart", "wifiDown"} => o.wifi = os.wifi
           /\ s = "pppoeStart" => o.ppp = os.pppFile
           /\ s = "pppoeStop" => o.ppp = Down
           /\ s \notin {"pppoeStart", "pppoeStop"} => o.ppp = os.ppp
<1> USE DEF OsStates
<1>1. CASE s = "netFile" BY <1>1, EffectOf
<1>2. CASE s = "wpaFile" BY <1>2, EffectOf
<1>3. CASE s = "pppFile" BY <1>3, EffectOf
<1>4. CASE s = "networkd" BY <1>4, EffectOf
<1>5. CASE s = "ethUp" BY <1>5, EffectOf
<1>6. CASE s = "ethDown" BY <1>6, EffectOf
<1>7. CASE s = "route" BY <1>7, EffectOf
<1>8. CASE s = "wifiDown" BY <1>8, EffectOf
<1>9. CASE s = "wpaStart" BY <1>9, EffectOf
<1>10. CASE s = "pppoeStart" BY <1>10, EffectOf
<1>11. CASE s = "pppoeStop" BY <1>11, EffectOf
<1> QED
  BY <1>1, <1>2, <1>3, <1>4, <1>5, <1>6, <1>7, <1>8, <1>9, <1>10, <1>11 DEF Entries

\* A failure that goes unnoticed changes nothing.
LEMMA FailedEffectOf ==
    ASSUME NEW s \in Entries \ Must
    PROVE  FailedEffect(s) = os
BY Zenon DEF FailedEffect, Must, Entries

\* Each entry adds its part, carried out or, if nothing depends on it, failed.
LEMMA AppliedStep ==
    ASSUME TypeOK, step \in 1 .. 5, Applied(target, step - 1), UNCHANGED target,
           step' = step + 1, NEW s, s = Script(target.way)[step],
           \/ os' = Effect(s)
           \/ os' = os /\ s \notin Must \cup {"netFile", "wpaFile", "pppFile"}
    PROVE  Applied(target, step - 1)'
<1>1. target.way \in Ways /\ os \in OsStates
  BY ConfigParts DEF TypeOK
<1>2. s \in Entries BY <1>1, ScriptEntries
<1>3. CASE target.way \in {"static", "dhcp"}
  <2>1. Script(target.way) = <<"netFile", "pppoeStop", "ethUp", "networkd", "wifiDown">>
    BY <1>3, Zenon DEF Script
  <2>2. /\ step = 1 <=> s = "netFile"
        /\ step = 2 <=> s = "pppoeStop"
        /\ step = 3 <=> s = "ethUp"
        /\ step = 4 <=> s = "networkd"
        /\ s \notin {"ethDown", "route", "pppoeStart"}
    BY <2>1
  <2> QED BY <1>1, <1>2, <1>3, <2>2, EffectFields DEF Applied, Must
<1>4. CASE target.way = "wifi"
  <2>1. Script(target.way) = <<"wpaFile", "pppoeStop", "networkd", "wpaStart", "ethDown">>
    BY <1>4, Zenon DEF Script
  <2>2. /\ step = 1 <=> s = "wpaFile"
        /\ step = 2 <=> s = "pppoeStop"
        /\ step = 4 <=> s = "wpaStart"
        /\ s \notin {"wifiDown", "pppoeStart"}
    BY <2>1
  <2> QED BY <1>1, <1>2, <1>4, <2>2, EffectFields DEF Applied, Must
<1>5. CASE target.way = "pppoe"
  <2>1. Script(target.way) = <<"pppFile", "networkd", "wifiDown", "pppoeStart", "route">>
    BY <1>5, Zenon DEF Script
  <2>2. /\ step = 1 <=> s = "pppFile"
        /\ step = 4 <=> s = "pppoeStart"
        /\ s # "pppoeStop"
    BY <2>1
  <2> QED BY <1>1, <1>2, <1>5, <2>2, EffectFields DEF Applied, Must
<1> QED BY <1>1, <1>3, <1>4, <1>5 DEF Ways

-----------------------------------------------------------------------------
(* The invariant is inductive: one lemma per action *)

\* The gateway starts on its persisted configuration.
LEMMA InitInv == Init => IInv
<1> SUFFICES ASSUME Init PROVE IInv OBVIOUS
<1>1. wanWay \in Ways /\ prof \in [Keyed -> Params]
  BY DEF Init, Params
<1>2. \A w \in Ways : Profile(w) \in Configs
  BY <1>1, Zenon DEF Profile, Configs, Keyed
<1>3. InitialOs(Persisted) \in OsStates
  BY <1>1, <1>2, Zenon DEF InitialOs, OsStates, Interface, Persisted, Profile, Configs, Ways, Keyed
<1>4. TypeOK
  <2>1. before \in Ways \X [Keyed -> Params]
    BY <1>1 DEF Init
  <2>2. step \in 1 .. 6 \cup Keys /\ count \in Nat
        /\ commands \in 0 .. MaxCommands /\ crashes \in 0 .. MaxCrashes
    BY NumbersAssumption DEF Init
  <2>3. rolling \in BOOLEAN /\ linkUp \in BOOLEAN /\ lost \in BOOLEAN
        /\ unrestored \in BOOLEAN /\ answer \in {"none", "yes", "no"}
    BY DEF Init
  <2>4. cmd \in Configs /\ target \in Configs /\ status \in Configs /\ os \in OsStates
    BY <1>1, <1>2, <1>3 DEF Init, Persisted
  <2>5. pc = "idle" BY DEF Init
  <2> QED BY <1>1, <2>1, <2>2, <2>3, <2>4, <2>5 DEF TypeOK
<1>5. TargetInv /\ CounterInv /\ PersistInv /\ BeforeInv
  BY DEF Init, TargetInv, CounterInv, PersistInv, BeforeInv, ForwardStates
<1>6. EffectInv /\ KeysInv
  BY NumbersAssumption
  DEF Init, EffectInv, KeysInv, AppliedStates, ForwardStates, UplinkIsThePersistedOne,
      YesMeansDone
<1> QED BY <1>4, <1>5, <1>6 DEF IInv

\* A new command starts from cleared counters and history.
LEMMA ReceiveInv ==
    ASSUME IInv, NEW c \in Requests, NEW valid \in BOOLEAN, Receive(c, valid)
    PROVE  IInv'
<1>1. c \in Configs BY DEF Requests
<1>2. commands' \in 0 .. MaxCommands
  BY NumbersAssumption DEF Receive, IInv, TypeOK
<1>3. pc' \in {"apply", "rollback"} /\ commands' > 0
  BY DEF Receive, IInv, TypeOK
<1>4. TypeOK'
  <2>1. before' \in Ways \X [Keyed -> Params]
    BY DEF Receive, IInv, TypeOK
  <2>2. step' \in 1 .. 6 \cup Keys /\ count' \in Nat
    BY DEF Receive
  <2>3. rolling' \in BOOLEAN /\ linkUp' \in BOOLEAN /\ lost' \in BOOLEAN
        /\ unrestored' \in BOOLEAN /\ answer' \in {"none", "yes", "no"}
    BY DEF Receive
  <2> QED BY <1>1, <1>2, <1>3, <2>1, <2>2, <2>3 DEF Receive, IInv, TypeOK, disk
<1>5. TargetInv' /\ CounterInv' /\ PersistInv' /\ BeforeInv'
  BY <1>3 DEF Receive, TargetInv, CounterInv, PersistInv, BeforeInv, ForwardStates, disk
<1>6. EffectInv' /\ KeysInv'
  BY <1>3 
  DEF Receive, EffectInv, KeysInv, Applied, AppliedStates, ForwardStates,
      UplinkIsThePersistedOne, YesMeansDone
<1> QED BY <1>4, <1>5, <1>6 DEF IInv

\* Entries carried out before this one stay in effect.
LEMMA ApplyStepInv == IInv /\ ApplyStep => IInv'
<1> SUFFICES ASSUME IInv, ApplyStep PROVE IInv' OBVIOUS
<1> DEFINE s == Script(target.way)[step]
<1>1. target \in Configs /\ target.way \in Ways /\ os \in OsStates
  BY ConfigParts DEF IInv, TypeOK
<1>2. step \in 1 .. 5 /\ s \in Entries
  <2>1. step \in 1 .. 6 BY DEF ApplyStep, IInv, CounterInv
  <2>2. step <= 5 BY <1>1, ScriptEntries DEF ApplyStep
  <2>3. step \in 1 .. 5 BY <2>1, <2>2
  <2> QED BY <1>1, <2>3, ScriptEntries
<1>3. \/ os' = Effect(s) /\ UNCHANGED lost
      \/ /\ s \notin Must /\ os' = os
         /\ lost' = (lost \/ s \in {"netFile", "wpaFile", "pppFile"})
  BY <1>2, FailedEffectOf DEF ApplyStep
<1> HIDE DEF s
<1>4. os' \in OsStates /\ lost' \in BOOLEAN
  BY <1>2, <1>3, EffectType DEF IInv, TypeOK
<1>5. pc = "apply" /\ step' = step + 1
      /\ UNCHANGED <<pc, cmd, target, rolling, count, linkUp, disk, answer,
                     commands, crashes, unrestored, before>>
  BY DEF ApplyStep
<1>6. TypeOK'
  BY <1>2, <1>4, <1>5 DEF IInv, TypeOK, disk
<1>7. TargetInv' /\ CounterInv' /\ PersistInv' /\ BeforeInv'
  BY <1>2, <1>5, PersistedSame
  DEF IInv, TargetInv, CounterInv, PersistInv, BeforeInv, ForwardStates, disk
<1>8. lost' = FALSE => Applied(target, step - 1)'
  <2> SUFFICES ASSUME lost' = FALSE PROVE Applied(target, step - 1)' OBVIOUS
  <2>1. lost = FALSE BY <1>3 DEF IInv, TypeOK
  <2>2. Applied(target, step - 1) BY <1>5, <2>1 DEF IInv, EffectInv
  <2> QED BY <1>2, <1>3, <1>5, <2>2, AppliedStep DEF IInv, s
<1>9. EffectInv' /\ KeysInv'
  BY <1>5, <1>8
  DEF EffectInv, KeysInv, AppliedStates, ForwardStates, UplinkIsThePersistedOne, YesMeansDone
<1> QED BY <1>6, <1>7, <1>9 DEF IInv

\* A failure that counts leaves the set-up to be rolled back, or is recorded.
LEMMA ApplyFailsInv == IInv /\ ApplyFails => IInv'
<1> SUFFICES ASSUME IInv, ApplyFails PROVE IInv' OBVIOUS
<1> DEFINE s == Script(target.way)[step]
<1>1. target \in Configs /\ target.way \in Ways
  BY ConfigParts DEF IInv, TypeOK
<1>2. step \in 1 .. 5 /\ s \in Entries
  <2>1. step \in 1 .. 6 BY DEF ApplyFails, IInv, CounterInv
  <2>2. step <= 5 BY <1>1, ScriptEntries DEF ApplyFails
  <2>3. step \in 1 .. 5 BY <2>1, <2>2
  <2> QED BY <1>1, <2>3, ScriptEntries
<1>3. os' \in OsStates
  BY <1>2, EffectType DEF ApplyFails, IInv
<1>4. /\ pc = "apply"
      /\ UNCHANGED <<cmd, target, rolling, step, count, linkUp, disk, answer,
                     commands, crashes, lost, before>>
      /\ unrestored' = (rolling \/ cmd.way = "static")
  BY DEF ApplyFails
<1>5. \/ pc' = "refuse" /\ rolling
      \/ pc' = "idle" /\ cmd.way = "static"
      \/ pc' = "rollback"
  BY Zenon DEF ApplyFails, IInv, TypeOK
<1>6. TypeOK'
  BY <1>3, <1>4, <1>5 DEF IInv, TypeOK, disk
<1>7. TargetInv' /\ CounterInv' /\ PersistInv' /\ BeforeInv'
  BY <1>4, <1>5, PersistedSame
  DEF IInv, TargetInv, CounterInv, PersistInv, BeforeInv, ForwardStates, disk
<1>8. EffectInv' /\ KeysInv'
  BY <1>4, <1>5
  DEF IInv, PersistInv, EffectInv, KeysInv, AppliedStates, ForwardStates,
      UplinkIsThePersistedOne, YesMeansDone
<1> QED BY <1>6, <1>7, <1>8 DEF IInv

\* All five entries passed: the target is in effect.
LEMMA ApplyDoneInv == IInv /\ ApplyDone => IInv'
<1> SUFFICES ASSUME IInv, ApplyDone PROVE IInv' OBVIOUS
<1>1. target \in Configs /\ target.way \in Ways
  BY ConfigParts DEF IInv, TypeOK
<1>2. step = 6
  <2>1. step \in 1 .. 6 BY DEF ApplyDone, IInv, CounterInv
  <2>2. step > 5 BY <1>1, ScriptEntries DEF ApplyDone
  <2> QED BY <2>1, <2>2
<1>3. \/ target.way = "static" /\ pc' = "refuse" /\ rolling
      \/ target.way = "static" /\ pc' = "persist" /\ ~rolling
      \/ target.way = "wifi" /\ pc' = "precheck"
      \/ target.way \in {"dhcp", "pppoe"} /\ pc' = "check"
  BY <1>1, Zenon DEF ApplyDone, Ways
<1>4. /\ pc = "apply" /\ count' = 1 /\ linkUp' = FALSE
      /\ UNCHANGED <<cmd, target, rolling, step, os, disk, answer, history>>
  BY DEF ApplyDone
<1>5. TypeOK'
  <2>1. count' \in Nat /\ count' <= CheckLimit'
    BY <1>4, NumbersAssumption DEF CheckLimit
  <2>2. linkUp' \in BOOLEAN BY <1>4
  <2> QED BY <1>3, <1>4, <2>1, <2>2 DEF IInv, TypeOK, disk, history
<1>6. TargetInv' /\ CounterInv' /\ PersistInv' /\ BeforeInv'
  BY <1>3, <1>4, PersistedSame
  DEF IInv, TargetInv, CounterInv, PersistInv, BeforeInv, ForwardStates, disk, history
<1>7. ~lost => InEffect(target)
  BY <1>1, <1>2, <1>4, AppliedInEffect DEF IInv, EffectInv
<1>8. lost' = lost /\ (InEffect(target))' = InEffect(target)
  BY <1>4 DEF history, InEffect
<1>9. pc' = "refuse" => target = Persisted /\ Persisted' = Persisted
  BY <1>3, <1>4, PersistedSame DEF IInv, TargetInv, disk
<1>10. (pc' = "refuse" /\ ~lost) => (InEffect(Persisted))'
  BY <1>4, <1>7, <1>9, InEffectSame
<1>11. EffectInv' /\ KeysInv'
  BY <1>3, <1>4, <1>7, <1>8, <1>10
  DEF EffectInv, KeysInv, AppliedStates, ForwardStates, UplinkIsThePersistedOne, YesMeansDone
<1> QED BY <1>5, <1>6, <1>11 DEF IInv

\* The steps between the set-up and the outcome leave everything but the
\* handler's own counters alone.
LEMMA CheckingKeepsEffect ==
    ASSUME IInv, pc \in {"precheck", "check"},
           UNCHANGED <<cmd, target, rolling, os, disk, answer, history>>,
           \/ pc' \in {"check", "notConnected", "rollback"}
           \/ pc' = "persist" /\ ~rolling
           \/ pc' = "refuse" /\ rolling
    PROVE  EffectInv' /\ KeysInv'
<1>1. ~lost => InEffect(target)
  BY DEF IInv, EffectInv, AppliedStates
<1>2. lost' = lost /\ (InEffect(target))' = InEffect(target)
  BY DEF history, InEffect
<1>3. pc' = "refuse" => target = Persisted /\ Persisted' = Persisted
  BY PersistedSame DEF IInv, TargetInv, disk
<1>4. (pc' = "refuse" /\ ~lost) => (InEffect(Persisted))'
  BY <1>1, <1>3, InEffectSame
<1> QED
  BY <1>1, <1>2, <1>4
  DEF EffectInv, KeysInv, AppliedStates, ForwardStates, UplinkIsThePersistedOne, YesMeansDone

\* An inactive supplicant refuses or rolls back.
LEMMA PreCheckInv == IInv /\ PreCheck => IInv'
<1> SUFFICES ASSUME IInv, PreCheck PROVE IInv' OBVIOUS
<1>1. \/ pc' = "check"
      \/ pc' = "refuse" /\ rolling
      \/ pc' = "rollback" /\ ~rolling
  BY DEF PreCheck
<1>2. /\ pc = "precheck"
      /\ UNCHANGED <<cmd, target, rolling, step, count, linkUp, os, disk, answer, history>>
  BY DEF PreCheck
<1>3. TypeOK'
  <2>1. count = 1 /\ CheckLimit' = CheckLimit /\ CheckLimit \in Nat /\ CheckLimit > 1
    BY <1>2, NumbersAssumption DEF IInv, CounterInv, CheckLimit
  <2> QED BY <1>1, <1>2, <2>1 DEF IInv, TypeOK, disk, history
<1>4. TargetInv' /\ CounterInv' /\ PersistInv' /\ BeforeInv'
  BY <1>1, <1>2, PersistedSame
  DEF IInv, TargetInv, CounterInv, PersistInv, BeforeInv, ForwardStates, disk, history
<1>5. EffectInv' /\ KeysInv'
  BY <1>1, <1>2, CheckingKeepsEffect
<1> QED BY <1>3, <1>4, <1>5 DEF IInv

\* One more look at the link, below the limit.
LEMMA CheckInv == IInv /\ Check => IInv'
<1> SUFFICES ASSUME IInv, Check PROVE IInv' OBVIOUS
<1>1. /\ pc = "check" /\ pc' = "check" /\ count < CheckLimit /\ count' = count + 1
      /\ linkUp' \in BOOLEAN
      /\ UNCHANGED <<cmd, target, rolling, step, os, disk, answer, history>>
  BY DEF Check
<1>2. TypeOK'
  <2>1. CheckLimit' = CheckLimit BY <1>1 DEF CheckLimit
  <2>4. CheckLimit \in Nat BY NumbersAssumption DEF CheckLimit
  <2>3. count \in Nat BY DEF IInv, TypeOK
  <2>2. count' \in Nat /\ count' <= CheckLimit'
    BY <1>1, <2>1, <2>3, <2>4
  <2> QED BY <1>1, <2>2 DEF IInv, TypeOK, disk, history
<1>3. TargetInv' /\ CounterInv' /\ PersistInv' /\ BeforeInv'
  BY <1>1, PersistedSame
  DEF IInv, TargetInv, CounterInv, PersistInv, BeforeInv, ForwardStates, disk, history
<1>4. EffectInv' /\ KeysInv'
  BY <1>1, CheckingKeepsEffect
<1> QED BY <1>2, <1>3, <1>4 DEF IInv

\* The loop is left below its limit only with the link up.
LEMMA CheckDoneInv == IInv /\ CheckDone => IInv'
<1> SUFFICES ASSUME IInv, CheckDone PROVE IInv' OBVIOUS
<1>1. \/ pc' = "refuse" /\ rolling
      \/ pc' = "notConnected" /\ ~rolling
      \/ pc' = "persist" /\ ~rolling /\ linkUp
  BY Zenon DEF CheckDone, IInv, TypeOK
<1>2. /\ pc = "check"
      /\ UNCHANGED <<cmd, target, rolling, step, count, linkUp, os, disk, answer, history>>
  BY DEF CheckDone
<1>3. TypeOK'
  BY <1>1, <1>2 DEF IInv, TypeOK, disk, history
<1>4. TargetInv' /\ CounterInv' /\ PersistInv' /\ BeforeInv'
  BY <1>1, <1>2, PersistedSame
  DEF IInv, TargetInv, CounterInv, PersistInv, BeforeInv, ForwardStates, disk, history
<1>5. EffectInv' /\ KeysInv'
  BY <1>1, <1>2, CheckingKeepsEffect
<1> QED BY <1>3, <1>4, <1>5 DEF IInv

\* A link that did not come up leads to the roll-back.
LEMMA NotConnectedInv == IInv /\ NotConnected => IInv'
<1> SUFFICES ASSUME IInv, NotConnected PROVE IInv' OBVIOUS
<1>1. /\ pc = "notConnected" /\ pc' = "rollback"
      /\ UNCHANGED <<cmd, target, rolling, step, count, linkUp, os, disk, answer, history>>
  BY DEF NotConnected
<1>2. TypeOK'
  BY <1>1 DEF IInv, TypeOK, disk, history
<1>3. TargetInv' /\ CounterInv' /\ PersistInv' /\ BeforeInv'
  BY <1>1, PersistedSame
  DEF IInv, TargetInv, CounterInv, PersistInv, BeforeInv, ForwardStates, disk, history
<1>4. EffectInv' /\ KeysInv'
  BY <1>1
  DEF EffectInv, KeysInv, AppliedStates, ForwardStates, UplinkIsThePersistedOne, YesMeansDone
<1> QED BY <1>2, <1>3, <1>4 DEF IInv

\* The roll-back takes the persisted configuration as its target, or gives up.
LEMMA RollbackInv == IInv /\ Rollback => IInv'
<1> SUFFICES ASSUME IInv, Rollback PROVE IInv' OBVIOUS
<1>1. \/ /\ pc' = "apply" /\ target' = Persisted /\ rolling' = TRUE /\ step' = 1
         /\ UNCHANGED unrestored
      \/ /\ pc' = "refuse" /\ unrestored' = TRUE
         /\ UNCHANGED <<target, rolling, step>>
  BY DEF Rollback
<1>2. /\ pc = "rollback"
      /\ UNCHANGED <<cmd, count, linkUp, os, disk, answer, commands, crashes, lost, before>>
  BY DEF Rollback
<1>3. Persisted \in Configs /\ Persisted' = Persisted
  BY <1>2, ProfileType, PersistedSame DEF IInv, TypeOK, Persisted, disk
<1>4. TypeOK'
  <2>1. pc' \in {"apply", "refuse"} BY <1>1
  <2>2. target' \in Configs /\ step' \in 1 .. 6 \cup Keys
    BY <1>1, <1>3 DEF IInv, TypeOK
  <2>3. rolling' \in BOOLEAN /\ unrestored' \in BOOLEAN
    BY <1>1 DEF IInv, TypeOK
  <2> QED BY <1>2, <2>1, <2>2, <2>3 DEF IInv, TypeOK, disk
<1>5. TargetInv' /\ CounterInv' /\ PersistInv' /\ BeforeInv'
  BY <1>1, <1>2, <1>3
  DEF IInv, TargetInv, CounterInv, PersistInv, BeforeInv, ForwardStates, disk
<1>6. EffectInv' /\ KeysInv'
  <2>1. pc' = "apply" => (Applied(target, step - 1))'
    BY <1>1 DEF Applied
  <2> QED BY <1>1, <1>2, <2>1
    DEF EffectInv, KeysInv, AppliedStates, ForwardStates, UplinkIsThePersistedOne, YesMeansDone
<1> QED BY <1>4, <1>5, <1>6 DEF IInv

\* "no" is written with everything as the handler left it.
LEMMA RefuseInv == IInv /\ Refuse => IInv'
<1> SUFFICES ASSUME IInv, Refuse PROVE IInv' OBVIOUS
<1>1. /\ pc = "refuse" /\ pc' = "idle" /\ answer' = "no"
      /\ UNCHANGED <<cmd, target, rolling, step, count, linkUp, os, disk, history>>
  BY DEF Refuse
<1>2. TypeOK'
  BY <1>1 DEF IInv, TypeOK, disk, history
<1>3. TargetInv' /\ CounterInv' /\ PersistInv' /\ BeforeInv'
  BY <1>1, PersistedSame
  DEF IInv, TargetInv, CounterInv, PersistInv, BeforeInv, ForwardStates, disk, history
<1>4. Persisted' = Persisted BY <1>1, PersistedSame DEF disk
<1>5. (InEffect(Persisted))' <=> InEffect(Persisted)
  BY <1>1, <1>4, InEffectSame
<1>6. EffectInv' /\ KeysInv'
  BY <1>1, <1>5
  DEF IInv, EffectInv, KeysInv, AppliedStates, ForwardStates, UplinkIsThePersistedOne,
      YesMeansDone, history
<1> QED BY <1>2, <1>3, <1>6 DEF IInv

\* wan_way is first: the uplink is already on it.
LEMMA PersistWayInv == IInv /\ PersistWay => IInv'
<1> SUFFICES ASSUME IInv, PersistWay PROVE IInv' OBVIOUS
<1>1. /\ pc = "persist" /\ step' = 1
      /\ \/ pc' = "status" /\ cmd.way = "dhcp"
         \/ pc' = "keys" /\ cmd.way # "dhcp"
      /\ UNCHANGED <<cmd, target, rolling, count, linkUp, os, prof, status, answer,
                     commands, crashes, unrestored, before>>
  BY DEF PersistWay
<1>2. \/ wanWay' = cmd.way /\ UNCHANGED lost
      \/ lost' = TRUE /\ UNCHANGED wanWay
  BY DEF PersistWay
<1>3. ~rolling /\ target = cmd /\ cmd \in Configs /\ answer = "none"
  BY <1>1 DEF IInv, TypeOK, PersistInv, TargetInv, ForwardStates
<1>4. TypeOK'
  <2>1. wanWay' \in Ways BY <1>2, <1>3, ConfigParts DEF IInv, TypeOK
  <2>2. lost' \in BOOLEAN BY <1>2 DEF IInv, TypeOK
  <2>3. pc' \in {"keys", "status"} /\ step' \in 1 .. 6 \cup Keys BY <1>1
  <2> QED BY <1>1, <2>1, <2>2, <2>3 DEF IInv, TypeOK
<1>5. TargetInv' /\ CounterInv' /\ PersistInv' /\ BeforeInv'
  BY <1>1, <1>3, NumbersAssumption
  DEF IInv, TargetInv, CounterInv, PersistInv, BeforeInv, ForwardStates, Keys
<1>6. lost' = FALSE => InEffect(target) /\ wanWay' = cmd.way
  BY <1>1, <1>2 DEF IInv, TypeOK, EffectInv, AppliedStates, ForwardStates
<1>7. (InEffect(target))' <=> InEffect(target)
  BY <1>1 DEF InEffect
<1>8. lost' \in BOOLEAN BY <1>4 DEF TypeOK
<1>9. EffectInv'
  BY <1>1, <1>6, <1>7, <1>8
  DEF EffectInv, AppliedStates, ForwardStates, UplinkIsThePersistedOne
<1>10. KeysInv'
  <2>1. cmd.way = "dhcp" /\ wanWay' = cmd.way => Persisted' = cmd'
    BY <1>1, <1>3, ConfigParts DEF Persisted, Profile
  <2> QED BY <1>1, <1>6, <1>8, <2>1 DEF KeysInv, YesMeansDone
<1> QED BY <1>4, <1>5, <1>9, <1>10 DEF IInv

\* With the last key written, the whole profile is the one asked for.
LEMMA PersistKeyInv == IInv /\ PersistKey => IInv'
<1> SUFFICES ASSUME IInv, PersistKey PROVE IInv' OBVIOUS
<1> DEFINE w == cmd.way
<1>1. /\ pc = "keys"
      /\ UNCHANGED <<cmd, target, rolling, count, linkUp, os, wanWay, status, answer,
                     commands, crashes, unrestored, before>>
  BY DEF PersistKey
<1>2. ~rolling /\ target = cmd /\ cmd \in Configs /\ step \in Keys /\ w \in Keyed
      /\ cmd.params \in Params /\ answer = "none"
  BY <1>1, ConfigParts
  DEF IInv, TypeOK, PersistInv, TargetInv, CounterInv, ForwardStates
<1>3. prof \in [Keyed -> Params] /\ lost \in BOOLEAN BY DEF IInv, TypeOK
<1>4. CASE /\ prof' = [prof EXCEPT ![w][step] = cmd.params[step]]
           /\ pc' = IF step = NKeys THEN "status" ELSE "keys"
           /\ step' = IF step = NKeys THEN step ELSE step + 1
           /\ UNCHANGED lost
  <2>1. prof' \in [Keyed -> Params]
    BY <1>2, <1>3, <1>4 DEF Params
  <2>2. step' \in Keys /\ pc' \in {"keys", "status"}
    BY <1>2, <1>4, NumbersAssumption DEF Keys
  <2>3. TypeOK'
    BY <1>1, <1>3, <1>4, <2>1, <2>2 DEF IInv, TypeOK
  <2>4. TargetInv' /\ CounterInv' /\ PersistInv' /\ BeforeInv'
    BY <1>1, <1>2, <2>2, ConfigParts
    DEF IInv, TargetInv, CounterInv, PersistInv, BeforeInv, ForwardStates, Keyed
  <2>5. (InEffect(target))' <=> InEffect(target)
    BY <1>1 DEF InEffect
  <2>6. EffectInv'
    BY <1>1, <1>4, <2>2, <2>5
    DEF IInv, EffectInv, AppliedStates, ForwardStates, UplinkIsThePersistedOne
  <2>7. ~lost => wanWay = w /\ \A k \in 1 .. step : prof'[w][k] = cmd.params[k]
    <3>1. ~lost => wanWay = w /\ \A k \in 1 .. step - 1 : prof[w][k] = cmd.params[k]
      BY <1>1 DEF IInv, KeysInv
    <3>2. \A k \in Keys : prof'[w][k] = IF k = step THEN cmd.params[step] ELSE prof[w][k]
      BY <1>2, <1>3, <1>4 DEF Params
    <3>3. \A k \in 1 .. step : k \in Keys /\ (k = step \/ k \in 1 .. step - 1)
      BY <1>2, NumbersAssumption DEF Keys
    <3> QED BY <3>1, <3>2, <3>3
  <2>8. pc' = "status" /\ ~lost => Persisted' = cmd
    <3> SUFFICES ASSUME pc' = "status", ~lost PROVE Persisted' = cmd OBVIOUS
    <3>1. step = NKeys BY <1>4
    <3>2. prof'[w] \in Params BY <1>2, <2>1
    <3>3. prof'[w] = cmd.params
      BY <1>2, <2>7, <3>1, <3>2 DEF Params, Keys
    <3>4. Persisted' = [way |-> w, params |-> prof'[w]]
      BY <1>1, <1>2, <2>7 DEF Persisted, Profile, Keyed
    <3> QED BY <1>2, <3>3, <3>4, ConfigParts
  <2>9. pc' = "keys" => step' = step + 1
    BY <1>4
  <2>10. pc' = "keys" /\ ~lost =>
             wanWay' = w /\ \A k \in 1 .. step' - 1 : prof'[w][k] = cmd.params[k]
    <3> SUFFICES ASSUME pc' = "keys", ~lost
                 PROVE  wanWay' = w /\ \A k \in 1 .. step' - 1 : prof'[w][k] = cmd.params[k]
      OBVIOUS
    <3>1. step' - 1 = step BY <1>2, <2>9 DEF Keys
    <3> QED BY <1>1, <2>7, <3>1
  <2>11. KeysInv'
    BY <1>1, <1>4, <2>2, <2>8, <2>10 DEF KeysInv, YesMeansDone
  <2> QED BY <2>3, <2>4, <2>6, <2>11 DEF IInv
<1>5. CASE pc' = "status" /\ lost' = TRUE /\ UNCHANGED <<prof, step>>
  <2>1. TypeOK'
    BY <1>1, <1>5 DEF IInv, TypeOK
  <2>2. TargetInv' /\ CounterInv' /\ PersistInv' /\ BeforeInv'
    BY <1>1, <1>2, <1>5
    DEF IInv, TargetInv, CounterInv, PersistInv, BeforeInv, ForwardStates
  <2>3. EffectInv' /\ KeysInv'
    BY <1>1, <1>5
    DEF EffectInv, KeysInv, AppliedStates, ForwardStates, UplinkIsThePersistedOne, YesMeansDone
  <2> QED BY <2>1, <2>2, <2>3 DEF IInv
<1> QED BY <1>4, <1>5 DEF PersistKey

\* The status file shows what is persisted, or the loss is recorded.
LEMMA WriteStatusInv == IInv /\ WriteStatus => IInv'
<1> SUFFICES ASSUME IInv, WriteStatus PROVE IInv' OBVIOUS
<1>1. \/ pc' = "accept" /\ status' = Persisted /\ UNCHANGED lost
      \/ pc' = "accept" /\ lost' = TRUE /\ UNCHANGED status
      \/ pc' = "idle" /\ UNCHANGED <<status, lost>>
  BY DEF WriteStatus
<1>2. /\ pc = "status"
      /\ UNCHANGED <<cmd, target, rolling, step, count, linkUp, os, wanWay, prof,
                     answer, commands, crashes, unrestored, before>>
  BY DEF WriteStatus
<1>3. ~rolling /\ target = cmd /\ answer = "none" /\ lost \in BOOLEAN
  BY <1>2 DEF IInv, TypeOK, PersistInv, TargetInv, ForwardStates
<1>4. Persisted \in Configs /\ Persisted' = Persisted
  BY <1>2, ProfileType, PersistedSame DEF IInv, TypeOK, Persisted
<1>5. TypeOK'
  BY <1>1, <1>2, <1>4 DEF IInv, TypeOK
<1>6. TargetInv' /\ CounterInv' /\ PersistInv' /\ BeforeInv'
  BY <1>1, <1>2, <1>3
  DEF IInv, TargetInv, CounterInv, PersistInv, BeforeInv, ForwardStates
<1>7. ~lost => InEffect(cmd) /\ Persisted = cmd
  BY <1>2, <1>3 DEF IInv, EffectInv, KeysInv, AppliedStates, ForwardStates
<1>8. ~lost => (InEffect(target))' /\ (InEffect(Persisted))'
  BY <1>2, <1>3, <1>4, <1>7, InEffectSame
<1>9. EffectInv'
  BY <1>1, <1>2, <1>3, <1>8
  DEF EffectInv, AppliedStates, ForwardStates, UplinkIsThePersistedOne
<1>10. KeysInv'
  BY <1>1, <1>2, <1>3, <1>4, <1>7 DEF KeysInv, YesMeansDone
<1> QED BY <1>5, <1>6, <1>9, <1>10 DEF IInv

\* "yes" is written with the command persisted and in effect.
LEMMA AcceptInv == IInv /\ Accept => IInv'
<1> SUFFICES ASSUME IInv, Accept PROVE IInv' OBVIOUS
<1>1. /\ pc = "accept" /\ pc' = "idle" /\ answer' = "yes"
      /\ UNCHANGED <<cmd, target, rolling, step, count, linkUp, os, disk, history>>
  BY DEF Accept
<1>2. TypeOK'
  BY <1>1 DEF IInv, TypeOK, disk, history
<1>3. TargetInv' /\ CounterInv' /\ PersistInv' /\ BeforeInv'
  BY <1>1
  DEF IInv, TargetInv, CounterInv, PersistInv, BeforeInv, ForwardStates, disk, history
<1>4. Persisted' = Persisted BY <1>1, PersistedSame DEF disk
<1>5. ~lost => InEffect(cmd) /\ Persisted = cmd /\ status = cmd
  BY <1>1 DEF IInv, EffectInv, KeysInv, PersistInv, TargetInv, AppliedStates, ForwardStates
<1>6. ~lost => (InEffect(cmd))' /\ (InEffect(Persisted))'
  BY <1>1, <1>4, <1>5, InEffectSame
<1>7. EffectInv' /\ KeysInv'
  BY <1>1, <1>4, <1>5, <1>6
  DEF EffectInv, KeysInv, AppliedStates, ForwardStates, UplinkIsThePersistedOne,
      YesMeansDone, disk, history
<1> QED BY <1>2, <1>3, <1>7 DEF IInv

\* A kill leaves no answer, and is recorded.
LEMMA CrashInv == IInv /\ Crash => IInv'
<1> SUFFICES ASSUME IInv, Crash PROVE IInv' OBVIOUS
<1>1. /\ pc # "idle" /\ pc' = "idle" /\ crashes < MaxCrashes /\ crashes' = crashes + 1
      /\ unrestored' = TRUE
      /\ UNCHANGED <<cmd, target, rolling, step, count, linkUp, os, disk, answer,
                     commands, lost, before>>
  BY DEF Crash
<1>2. answer = "none" BY <1>1 DEF IInv, PersistInv
<1>3. crashes' \in 0 .. MaxCrashes
  BY <1>1, NumbersAssumption DEF IInv, TypeOK
<1>4. TypeOK'
  BY <1>1, <1>3 DEF IInv, TypeOK, disk
<1>5. TargetInv' /\ CounterInv' /\ PersistInv' /\ BeforeInv'
  BY <1>1, <1>2
  DEF IInv, TargetInv, CounterInv, PersistInv, BeforeInv, ForwardStates, disk
<1>6. EffectInv' /\ KeysInv'
  BY <1>1, <1>2
  DEF EffectInv, KeysInv, AppliedStates, ForwardStates, UplinkIsThePersistedOne, YesMeansDone
<1> QED BY <1>4, <1>5, <1>6 DEF IInv

\* A stuttering step changes nothing.
LEMMA StutterInv == IInv /\ UNCHANGED vars => IInv'
<1> SUFFICES ASSUME IInv, UNCHANGED vars PROVE IInv' OBVIOUS
<1>1. TypeOK' /\ TargetInv' /\ CounterInv' /\ PersistInv' /\ BeforeInv'
  BY DEF vars, control, disk, history, IInv, TypeOK, TargetInv, CounterInv, PersistInv,
         BeforeInv, CheckLimit, Persisted, Profile
<1>2. EffectInv' /\ KeysInv'
  BY DEF vars, control, disk, history, IInv, EffectInv, KeysInv, Applied, InEffect,
         UplinkIsThePersistedOne, YesMeansDone, Persisted, Profile
<1> QED BY <1>1, <1>2 DEF IInv

-----------------------------------------------------------------------------
(* The theorems *)

\* Every step keeps the invariant.
LEMMA StepInductive == IInv /\ [Next]_vars => IInv'
<1> SUFFICES ASSUME IInv, [Next]_vars PROVE IInv' OBVIOUS
<1>1. CASE \E c \in Requests, valid \in BOOLEAN : Receive(c, valid)
  BY <1>1, ReceiveInv
<1>2. CASE Handler
  BY <1>2, ApplyStepInv, ApplyFailsInv, ApplyDoneInv, PreCheckInv, CheckInv, CheckDoneInv,
     NotConnectedInv, RollbackInv, RefuseInv, PersistWayInv, PersistKeyInv, WriteStatusInv,
     AcceptInv
  DEF Handler
<1>3. CASE Crash BY <1>3, CrashInv
<1>4. CASE UNCHANGED vars BY <1>4, StutterInv
<1> QED BY <1>1, <1>2, <1>3, <1>4 DEF Next

\* The invariant holds throughout every behaviour.
LEMMA Inductive == Spec => []IInv
BY InitInv, StepInductive, PTL DEF Spec

\* Every variable keeps its type; the checking loop stays within its limit.
THEOREM TypeCorrect == Spec => []TypeOK
<1>1. IInv => TypeOK BY DEF IInv
<1> QED BY <1>1, Inductive, PTL

\* gcs_sends_data_unpack answers "no" only with wan_way and every profile as
\* the command found them.
THEOREM RefusalKeepsProfile == Spec => []RefusedKeepsProfile
<1>1. IInv => RefusedKeepsProfile
  BY DEF IInv, BeforeInv, RefusedKeepsProfile
<1> QED BY <1>1, Inductive, PTL

\* A command that returned leaves the gateway on what is persisted, unless a
\* write was lost or a roll-back did not get through.
THEOREM UplinkMatchesProfile == Spec => []UplinkIsThePersistedOne
<1>1. IInv => UplinkIsThePersistedOne BY DEF IInv, EffectInv
<1> QED BY <1>1, Inductive, PTL

\* "yes" in p_map means: in effect, persisted and shown, unless a write was lost.
THEOREM YesIsTheTruth == Spec => []YesMeansDone
<1>1. IInv => YesMeansDone BY DEF IInv, KeysInv
<1> QED BY <1>1, Inductive, PTL

\* wan_way and the profiles change only in a command that is not rolled back and
\* whose link was seen up (or is static).
THEOREM PersistingNeedsLink == Spec => PersistedOnlyAfterLink
<1> DEFINE A == <<wanWay, prof>>' # <<wanWay, prof>> =>
                    ~rolling /\ (linkUp \/ cmd.way = "static")
<1>1. IInv /\ [Next]_vars => [A]_vars
  <2> SUFFICES ASSUME IInv, Next PROVE A OBVIOUS
  <2>1. CASE PersistWay BY <2>1 DEF PersistWay, IInv, PersistInv, ForwardStates
  <2>2. CASE PersistKey BY <2>2 DEF PersistKey, IInv, PersistInv, ForwardStates
  <2>3. CASE ~PersistWay /\ ~PersistKey
    <3>1. UNCHANGED <<wanWay, prof>>
      BY <2>3, Zenon
      DEF Next, Handler, Receive, ApplyStep, ApplyFails, ApplyDone, PreCheck, Check, CheckDone,
          NotConnected, Rollback, Refuse, WriteStatus, Accept, Crash, disk
    <3> QED BY <3>1
  <2> QED BY <2>1, <2>2, <2>3
<1>2. Spec => [][A]_vars BY <1>1, Inductive, PTL DEF Spec
<1> QED BY <1>2 DEF PersistedOnlyAfterLink
=============================================================================
