------------------------------- MODULE NetConf -------------------------------
(***************************************************************************)
(* The command handler of the network daemon (gcs_sends_data_unpack in     *)
(* conf_network.c): apply a new WAN configuration with a sequence of shell *)
(* commands, check the link, then persist the configuration and answer     *)
(* "yes", or roll back to the persisted one and answer "no".  Any shell    *)
(* command, file write or profile access may fail, the link may or may not *)
(* come up, and the daemon may be killed between two steps.                *)
(*                                                                         *)
(* A configuration is [way, params]; params stands for the keys of that    *)
(* way in gateway_conf_file_sub_client (5 for static, 4 for wifi, 2 for    *)
(* pppoe, none for dhcp), of which NKeys are kept apart here.              *)
(***************************************************************************)
EXTENDS Naturals, Sequences

CONSTANTS
    Values,         \* values of a profile key
    NKeys,          \* keys of a static, wifi or pppoe profile
    MaxCheck,       \* MAX_CHECK_COUNT for dhcp and pppoe (10 in the code)
    MaxCheckWifi,   \* MAX_CHECK_COUNT for wifi (20 in the code)
    MaxCommands,    \* bound: commands handled
    MaxCrashes      \* bound: times the daemon is killed in the middle of one

ASSUME ValuesAssumption == Values # {}
ASSUME NumbersAssumption ==
    /\ NKeys \in Nat \ {0}
    /\ MaxCheck \in Nat \ {0, 1} /\ MaxCheckWifi \in Nat \ {0, 1}
    /\ MaxCommands \in Nat /\ MaxCrashes \in Nat

Ways    == {"static", "dhcp", "wifi", "pppoe"}
Keyed   == Ways \ {"dhcp"}
Keys    == 1 .. NKeys
Params  == [Keys -> Values]
Configs == [way : Keyed, params : Params] \cup [way : {"dhcp"}, params : {<<>>}]

Down == [way |-> "down", params |-> <<>>]   \* interface or service not running
Bare == [way |-> "bare", params |-> <<>>]   \* interface up, without an address
Interface == Configs \cup {Down, Bare}

VARIABLES
    pc,         \* where the handler is
    cmd,        \* the configuration the client asked for
    target,     \* the configuration set_wan_* is applying
    rolling,    \* set_wan_* and the checks run inside rollback_func
    step,       \* next entry of Script(target.way)
    count,      \* the checking loop's counter
    linkUp,     \* what check_wan_link said last
    os,         \* configuration files, interfaces and services
    wanWay,     \* /etc/certusnet_conf/wan_way
    prof,       \* the keys of each way in gateway_conf_file_sub_client
    status,     \* /usr/local/gcs/wan_way_status
    answer,     \* what this command wrote to p_map: "none", "yes" or "no"
    commands,   \* commands received
    crashes,    \* times killed
    lost,       \* history: a write this command made did not reach its file
    unrestored, \* history: rollback_func of this command did not re-apply
    before      \* history: <<wanWay, prof>> when the command arrived

control == <<pc, cmd, target, rolling, step, count, linkUp>>
disk    == <<wanWay, prof, status>>
history == <<commands, crashes, lost, unrestored, before>>
vars    == <<control, os, disk, answer, history>>

Profile(way)  == [way |-> way, params |-> IF way = "dhcp" THEN <<>> ELSE prof[way]]
Persisted     == Profile(wanWay)
CheckLimit    == IF target.way = "wifi" THEN MaxCheckWifi ELSE MaxCheck

\* The packets go out the way c says.
InEffect(c) ==
    /\ c.way \in {"static", "dhcp"} => os.eth = c /\ os.ppp = Down
    /\ c.way = "wifi"               => os.wifi = c /\ os.ppp = Down
    /\ c.way = "pppoe"              => os.ppp = c

OsStates == [netFile : Configs, wpaFile : Configs, pppFile : Configs,
             eth : Interface, wifi : Interface, ppp : Interface]

TypeOK ==
    /\ pc \in {"idle", "apply", "precheck", "check", "notConnected", "rollback",
               "persist", "keys", "status", "accept", "refuse"}
    /\ cmd \in Configs /\ target \in Configs /\ rolling \in BOOLEAN
    /\ step \in 1 .. 6 \cup Keys /\ linkUp \in BOOLEAN
    /\ count \in Nat /\ (pc = "check" => count <= CheckLimit)
    /\ os \in OsStates
    /\ wanWay \in Ways /\ prof \in [Keyed -> Params] /\ status \in Configs
    /\ answer \in {"none", "yes", "no"}
    /\ commands \in 0 .. MaxCommands /\ crashes \in 0 .. MaxCrashes
    /\ lost \in BOOLEAN /\ unrestored \in BOOLEAN
    /\ before \in Ways \X [Keyed -> Params]

-----------------------------------------------------------------------------
\* Fault: set_wan_eth leaves a running pppoe alone.
ScriptKeepingPppoe(way) ==
    CASE way \in {"static", "dhcp"} ->
             <<"netFile", "ethUp", "networkd", "wifiDown">>
      [] way = "pppoe" ->
             <<"pppFile", "networkd", "wifiDown", "pppoeStart", "route">>
      [] way = "wifi" ->
             <<"wpaFile", "pppoeStop", "networkd", "wpaStart", "ethDown">>

\* set_wan_eth, set_wan_pppoe and set_wan_wifi, each as the sequence of what
\* it writes and runs.  The commands about name servers are left out.
Script(way) ==
    CASE way \in {"static", "dhcp"} ->
             <<"netFile", "pppoeStop", "ethUp", "networkd", "wifiDown">>
      [] way = "pppoe" ->
             <<"pppFile", "networkd", "wifiDown", "pppoeStart", "route">>
      [] way = "wifi" ->
             <<"wpaFile", "pppoeStop", "networkd", "wpaStart", "ethDown">>

\* Commands that make set_wan_* return an error when both tries fail.  The
\* others are tried twice and forgotten; a file that cannot be opened is not
\* noticed, because write_file compares the descriptor with 0.
Must == {"pppoeStop", "networkd", "pppoeStart", "route", "wpaStart"}

Effect(s) ==
    CASE s = "netFile"    -> [os EXCEPT !.netFile = target]
      [] s = "wpaFile"    -> [os EXCEPT !.wpaFile = target]
      [] s = "pppFile"    -> [os EXCEPT !.pppFile = target]
      [] s = "networkd"   -> [os EXCEPT !.eth = os.netFile]
      [] s = "ethUp"      -> [os EXCEPT !.eth = IF @ = Down THEN Bare ELSE @]
      [] s = "ethDown"    -> [os EXCEPT !.eth = Down]
      [] s = "route"      -> [os EXCEPT !.eth = Bare]
      [] s = "wifiDown"   -> [os EXCEPT !.wifi = Down]
      [] s = "wpaStart"   -> [os EXCEPT !.wifi = os.wpaFile]
      [] s = "pppoeStart" -> [os EXCEPT !.ppp = os.pppFile]
      [] s = "pppoeStop"  -> [os EXCEPT !.ppp = Down]

\* A service whose restart failed is stopped.
FailedEffect(s) ==
    CASE s = "wpaStart"   -> [os EXCEPT !.wifi = Down]
      [] s = "pppoeStart" -> [os EXCEPT !.ppp = Down]
      [] OTHER            -> os

-----------------------------------------------------------------------------
\* The gateway runs on its persisted configuration when the daemon starts.
InitialOs(c) ==
    LET own(way) == [way |-> way, params |-> prof[way]] IN
    [netFile |-> IF c.way = "static" THEN c ELSE Profile("dhcp"),
     wpaFile |-> own("wifi"),
     pppFile |-> own("pppoe"),
     eth     |-> CASE c.way \in {"static", "dhcp"} -> c
                   [] c.way = "wifi"  -> Down
                   [] c.way = "pppoe" -> Bare,
     wifi    |-> IF c.way = "wifi" THEN c ELSE Down,
     ppp     |-> IF c.way = "pppoe" THEN c ELSE Down]

Init ==
    /\ wanWay \in Ways
    /\ \E v \in Values : prof = [way \in Keyed |-> [k \in Keys |-> v]]
    /\ status = Persisted /\ os = InitialOs(Persisted)
    /\ pc = "idle" /\ cmd = Persisted /\ target = Persisted /\ rolling = FALSE
    /\ step = 1 /\ count = 1 /\ linkUp = FALSE /\ answer = "none"
    /\ commands = 0 /\ crashes = 0 /\ lost = FALSE /\ unrestored = FALSE
    /\ before = <<wanWay, prof>>

-----------------------------------------------------------------------------
\* The beginning of the handler: a static address that check_static_address
\* rejects goes straight to rollback_func.
Receive(c, valid) ==
    /\ pc = "idle" /\ commands < MaxCommands
    /\ ~valid => c.way = "static"
    /\ pc' = IF valid THEN "apply" ELSE "rollback"
    /\ cmd' = c /\ target' = c /\ rolling' = FALSE /\ step' = 1
    /\ count' = 1 /\ linkUp' = FALSE /\ answer' = "none"
    /\ commands' = commands + 1
    /\ lost' = FALSE /\ unrestored' = FALSE /\ before' = <<wanWay, prof>>
    /\ UNCHANGED <<os, disk, crashes>>

\* One command or file of set_wan_*, done, or failed and not noticed.
ApplyStep ==
    /\ pc = "apply" /\ step <= Len(Script(target.way))
    /\ LET s == Script(target.way)[step] IN
       \/ os' = Effect(s) /\ UNCHANGED lost
       \/ /\ s \notin Must
          /\ os' = FailedEffect(s)
          /\ lost' = (lost \/ s \in {"netFile", "wpaFile", "pppFile"})
    /\ step' = step + 1
    /\ UNCHANGED <<pc, cmd, target, rolling, count, linkUp, disk, answer,
                   commands, crashes, unrestored, before>>

\* Fault: a roll-back that fails is rolled back.
ApplyFailsAgain ==
    /\ pc = "apply" /\ step <= Len(Script(target.way))
    /\ Script(target.way)[step] \in Must
    /\ os' = FailedEffect(Script(target.way)[step])
    /\ pc' = IF ~rolling /\ cmd.way = "static" THEN "idle" ELSE "rollback"
    /\ unrestored' = (rolling \/ cmd.way = "static")
    /\ UNCHANGED <<cmd, target, rolling, step, count, linkUp, disk, answer,
                   commands, crashes, lost, before>>

\* A command that counts failed twice.  rollback_func then returns 0 without
\* a check; a dhcp, wifi or pppoe command is rolled back; a static command
\* returns with nothing undone and nothing written to p_map.
ApplyFails ==
    /\ pc = "apply" /\ step <= Len(Script(target.way))
    /\ Script(target.way)[step] \in Must
    /\ os' = FailedEffect(Script(target.way)[step])
    /\ pc' = CASE rolling -> "refuse"
               [] ~rolling /\ cmd.way = "static" -> "idle"
               [] ~rolling /\ cmd.way # "static" -> "rollback"
    /\ unrestored' = (rolling \/ cmd.way = "static")
    /\ UNCHANGED <<cmd, target, rolling, step, count, linkUp, disk, answer,
                   commands, crashes, lost, before>>

\* Fault: wan_way is written before the link is checked.
ApplyDoneEarlyPersist ==
    /\ pc = "apply" /\ step > Len(Script(target.way))
    /\ pc' = CASE target.way = "static" -> IF rolling THEN "refuse" ELSE "persist"
               [] target.way = "wifi"   -> "precheck"
               [] target.way \in {"dhcp", "pppoe"} -> "check"
    /\ count' = 1 /\ linkUp' = FALSE /\ wanWay' = cmd.way
    /\ UNCHANGED <<cmd, target, rolling, step, os, prof, status, answer, history>>

\* set_wan_* returned 0: a static configuration is not checked.
ApplyDone ==
    /\ pc = "apply" /\ step > Len(Script(target.way))
    /\ pc' = CASE target.way = "static" -> IF rolling THEN "refuse" ELSE "persist"
               [] target.way = "wifi"   -> "precheck"
               [] target.way \in {"dhcp", "pppoe"} -> "check"
    /\ count' = 1 /\ linkUp' = FALSE
    /\ UNCHANGED <<cmd, target, rolling, step, os, disk, answer, history>>

\* pre_check_wifi_link: is wpa_supplicant active?
PreCheck ==
    /\ pc = "precheck"
    /\ \/ pc' = "check"
       \/ pc' = IF rolling THEN "refuse" ELSE "rollback"
    /\ UNCHANGED <<cmd, target, rolling, step, count, linkUp, os, disk, answer, history>>

\* for(ret = -1; ret != 0 && count < MAX_CHECK_COUNT; count++)
Check ==
    /\ pc = "check" /\ ~linkUp /\ count < CheckLimit
    /\ linkUp' \in BOOLEAN /\ count' = count + 1
    /\ UNCHANGED <<pc, cmd, target, rolling, step, os, disk, answer, history>>

\* Fault: the end of the loop is taken for success.
CheckDoneUnasked ==
    /\ pc = "check" /\ (linkUp \/ count = CheckLimit)
    /\ pc' = IF rolling THEN "refuse" ELSE "persist"
    /\ UNCHANGED <<cmd, target, rolling, step, count, linkUp, os, disk, answer, history>>

\* The loop is over: count alone decides.
CheckDone ==
    /\ pc = "check" /\ (linkUp \/ count = CheckLimit)
    /\ pc' = CASE rolling -> "refuse"
               [] ~rolling /\ count = CheckLimit -> "notConnected"
               [] ~rolling /\ count # CheckLimit -> "persist"
    /\ UNCHANGED <<cmd, target, rolling, step, count, linkUp, os, disk, answer, history>>

\* "The network is not connected after %d seconds."
NotConnected ==
    /\ pc = "notConnected"
    /\ pc' = "rollback"
    /\ UNCHANGED <<cmd, target, rolling, step, count, linkUp, os, disk, answer, history>>

\* rollback_func reads wan_way and the keys of that way, then re-applies them;
\* it gives up when one cannot be read.
Rollback ==
    /\ pc = "rollback"
    /\ \/ /\ pc' = "apply" /\ target' = Persisted /\ rolling' = TRUE /\ step' = 1
          /\ UNCHANGED unrestored
       \/ /\ pc' = "refuse" /\ unrestored' = TRUE
          /\ UNCHANGED <<target, rolling, step>>
    /\ UNCHANGED <<cmd, count, linkUp, os, disk, answer, commands, crashes, lost, before>>

\* The tail of every refusal: the address for a message, then "no" to p_map.
Refuse ==
    /\ pc = "refuse"
    /\ pc' = "idle" /\ answer' = "no"
    /\ UNCHANGED <<cmd, target, rolling, step, count, linkUp, os, disk, history>>

\* update_*_sec_profile: wan_way first (the result of system() is ignored) ...
PersistWay ==
    /\ pc = "persist"
    /\ pc' = IF cmd.way = "dhcp" THEN "status" ELSE "keys"
    /\ step' = 1
    /\ \/ wanWay' = cmd.way /\ UNCHANGED lost
       \/ lost' = TRUE /\ UNCHANGED wanWay
    /\ UNCHANGED <<cmd, target, rolling, count, linkUp, os, prof, status, answer,
                   commands, crashes, unrestored, before>>

\* Fault: the last key of the profile is not updated.
PersistKeyButLast ==
    /\ pc = "keys"
    /\ IF step = NKeys
       THEN pc' = "status" /\ UNCHANGED <<prof, step>>
       ELSE /\ prof' = [prof EXCEPT ![cmd.way][step] = cmd.params[step]]
            /\ step' = step + 1 /\ UNCHANGED pc
    /\ UNCHANGED <<cmd, target, rolling, count, linkUp, os, wanWay, status, answer,
                   commands, crashes, lost, unrestored, before>>

\* ... then one file_update_value per key; the first failure ends the update,
\* the handler goes on.
PersistKey ==
    /\ pc = "keys"
    /\ \/ /\ prof' = [prof EXCEPT ![cmd.way][step] = cmd.params[step]]
          /\ pc' = IF step = NKeys THEN "status" ELSE "keys"
          /\ step' = IF step = NKeys THEN step ELSE step + 1
          /\ UNCHANGED lost
       \/ /\ pc' = "status" /\ lost' = TRUE
          /\ UNCHANGED <<prof, step>>
    /\ UNCHANGED <<cmd, target, rolling, count, linkUp, os, wanWay, status, answer,
                   commands, crashes, unrestored, before>>

\* set_net_status_file; when it fails the handler returns without an answer.
WriteStatus ==
    /\ pc = "status"
    /\ \/ pc' = "accept" /\ status' = Persisted /\ UNCHANGED lost
       \/ pc' = "accept" /\ lost' = TRUE /\ UNCHANGED status
       \/ pc' = "idle" /\ UNCHANGED <<status, lost>>
    /\ UNCHANGED <<cmd, target, rolling, step, count, linkUp, os, wanWay, prof,
                   answer, commands, crashes, unrestored, before>>

Accept ==
    /\ pc = "accept"
    /\ pc' = "idle" /\ answer' = "yes"
    /\ UNCHANGED <<cmd, target, rolling, step, count, linkUp, os, disk, history>>

\* The daemon is killed and started again; nothing is resumed or undone.
Crash ==
    /\ pc # "idle" /\ crashes < MaxCrashes
    /\ pc' = "idle" /\ crashes' = crashes + 1 /\ unrestored' = TRUE
    /\ UNCHANGED <<cmd, target, rolling, step, count, linkUp, os, disk, answer,
                   commands, lost, before>>

-----------------------------------------------------------------------------
Handler == \/ ApplyStep \/ ApplyFails \/ ApplyDone \/ PreCheck \/ Check
           \/ CheckDone \/ NotConnected \/ Rollback \/ Refuse
           \/ PersistWay \/ PersistKey \/ WriteStatus \/ Accept

\* A client sends whole profiles: here the same value for every key.
Requests == {c \in Configs : \A i, j \in DOMAIN c.params : c.params[i] = c.params[j]}

Next == \/ \E c \in Requests, valid \in BOOLEAN : Receive(c, valid)
        \/ Handler
        \/ Crash

Spec     == Init /\ [][Next]_vars
FairSpec == Spec /\ WF_vars(Handler)

-----------------------------------------------------------------------------
(* Properties *)

\* A command that is refused leaves wan_way and every profile as they were,
\* whatever failed on the way to the refusal.
RefusedKeepsProfile == pc = "idle" /\ answer = "no" => <<wanWay, prof>> = before

\* The uplink and what is persisted part ways only when a write was lost, a
\* rollback did not get through, a static set-up failed or the daemon was
\* killed: otherwise a command that returned, answered or not, leaves the
\* gateway on the configuration wan_way and its keys describe.
UplinkIsThePersistedOne ==
    pc = "idle" /\ ~lost /\ ~unrestored /\ commands > 0 => InEffect(Persisted)

\* "yes" is the whole truth unless a write was lost: the configuration asked
\* for is in effect, persisted, and the one wan_way_status shows.
YesMeansDone ==
    pc = "idle" /\ answer = "yes" /\ ~lost =>
        InEffect(cmd) /\ Persisted = cmd /\ status = cmd

\* wan_way moves only to a way that was seen working during this command;
\* static is taken on trust.
PersistedOnlyAfterLink ==
    [][<<wanWay, prof>>' # <<wanWay, prof>> =>
           ~rolling /\ (linkUp \/ cmd.way = "static")]_vars

\* The handler returns from every command: its loops are bounded and a failed
\* roll-back is not rolled back again.
HandlerReturns == (pc # "idle") ~> (pc = "idle")

\* What the message printed before the roll-back says.
NotConnectedIsTrue == pc = "notConnected" => ~linkUp
=============================================================================
