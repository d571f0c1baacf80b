------------------------------ MODULE WanSwitch ------------------------------
(***************************************************************************)
(* systemd_net_switch: the command line tool that moves the gateway from   *)
(* one uplink to another, and init_networking, which restores the uplink   *)
(* of the profile at boot.                                                 *)
(*                                                                         *)
(* A switch writes configuration files, then runs a list of commands, each *)
(* a second time when the first fails; some of them are fatal, the others  *)
(* are left at that.  At the end it looks for the link once a second.      *)
(* What a command does to the interfaces is external.  write_file takes    *)
(* the descriptor 0 for the error of open, so that a file that cannot be   *)
(* opened is not noticed.                                                  *)
(***************************************************************************)
EXTENDS Integers, Sequences

CONSTANTS MaxChecks,    \* MAX_CHECK_COUNT (10, and 20 for wifi)
          MaxSwitches   \* bound: how many times the tool is run

Ways == {"dhcp", "static", "wifi", "pppoe"}

VARIABLES
    running,    \* is the tool running?
    way,        \* its argv[2], at its last run
    wanStep,    \* how much of the script is done
    count,      \* the loop counter of main
    result,     \* what the last run returned
    netFile,    \* the way 20-eth0.network describes
    eth,        \* eth0: "down", "dhcp", "static", or "bare" (under ppp0)
    wlan, ppp,  \* "up" or "down"
    spared,     \* the commands of this run that failed and were not fatal
    switches

links   == <<netFile, eth, wlan, ppp>>
wanVars == <<running, way, wanStep, count, result, links, spared, switches>>

(***************************************************************************)
(* The scripts, with what main returns when a command fails twice;         *)
(* 0 for a command whose failure is ignored.                               *)
(***************************************************************************)
EthScript == << <<"write", 0>>, <<"pppoe_stop", -2>>, <<"networkd", -2>>,
                <<"wlan_down", 0>>, <<"resolved", 0>>, <<"dns_link", 0>> >>
WifiScript == << <<"pppoe_stop", -2>>, <<"networkd", -2>>, <<"wpa", -2>>,
                 <<"eth_down", 0>>, <<"resolved", 0>>, <<"dns_link", 0>> >>
PppoeScript == << <<"networkd", -2>>, <<"wlan_down", 0>>,
                  <<"pppoe_start", -10>>, <<"route", -10>> >>

\* Fault: the way by wifi leaves pppoe running.
ScriptKeepingPppoe(w) == CASE w \in {"dhcp", "static"} -> EthScript
                           [] w = "wifi"  -> Tail(WifiScript)
                           [] w = "pppoe" -> PppoeScript

\* The commands of a way.
WanScript(w) == CASE w \in {"dhcp", "static"} -> EthScript
                  [] w = "wifi"  -> WifiScript
                  [] w = "pppoe" -> PppoeScript

Checks(w) == IF w = "wifi" THEN 2 * MaxChecks ELSE MaxChecks

-----------------------------------------------------------------------------
(***************************************************************************)
(* External: what a command that succeeds leaves.                          *)
(***************************************************************************)
WanEffect(c) ==
    /\ netFile' = IF c = "write" THEN way ELSE netFile
    /\ eth'  = CASE c = "networkd" -> netFile
                 [] c = "eth_down" -> "down"
                 [] c = "route"    -> "bare"
                 [] OTHER          -> eth
    /\ wlan' = CASE c = "wpa"       -> "up"
                 [] c = "wlan_down" -> "down"
                 [] OTHER           -> wlan
    /\ ppp'  = CASE c = "pppoe_start" -> "up"
                 [] c = "pppoe_stop"  -> "down"
                 [] OTHER             -> ppp

\* What check_wan_link can find: an address on the interface of the way,
\* or, for a static address, an answer of the gateway by any interface.
Reachable(w) == CASE w = "dhcp"   -> eth \in {"dhcp", "static"}
                  [] w = "static" -> eth \in {"dhcp", "static"}
                                     \/ wlan = "up" \/ ppp = "up"
                  [] w = "wifi"   -> wlan = "up"
                  [] w = "pppoe"  -> ppp = "up"

WanInit ==
    /\ running = FALSE /\ way = "dhcp" /\ wanStep = 0 /\ count = 1 /\ result = 1
    /\ netFile \in {"dhcp", "static"} /\ eth = netFile
    /\ wlan = "down" /\ ppp = "down"
    /\ spared = {} /\ switches = 0

WanRun(w) ==
       /\ ~running /\ switches < MaxSwitches
       /\ running' = TRUE /\ way' = w /\ wanStep' = 0 /\ count' = 1 /\ spared' = {}
       /\ switches' = switches + 1
       /\ UNCHANGED <<result, links>>

Return(r) ==
    running' = FALSE /\ result' = r /\ UNCHANGED <<way, count, switches>>

\* One command of the script, at its first or its second attempt.
Command ==
    /\ running /\ wanStep < Len(WanScript(way))
    /\ LET c == WanScript(way)[wanStep + 1] IN
       /\ wanStep' = wanStep + 1
       /\ \/ /\ WanEffect(c[1])
             /\ UNCHANGED <<running, way, count, result, spared, switches>>
          \/ /\ c[2] = 0 /\ spared' = spared \cup {c[1]}
             /\ UNCHANGED <<running, way, count, result, links, switches>>
          \/ /\ c[2] # 0 /\ Return(c[2])
             /\ UNCHANGED <<links, spared>>

\* pre_check_wifi_link: wpa_supplicant may have died since.
WifiDead ==
    /\ running /\ way = "wifi" /\ wanStep = Len(WanScript(way)) /\ count = 1
    /\ wlan' = "down" /\ Return(-5)
    /\ UNCHANGED <<wanStep, netFile, eth, ppp, spared>>

\* The loop stops at the first check that finds the link, or at the bound;
\* the value returned is that of the last check.
Check ==
    /\ running /\ wanStep = Len(WanScript(way))
    /\ \/ Reachable(way) /\ Return(0)
       \/ /\ count + 1 < Checks(way)
          /\ count' = count + 1
          /\ UNCHANGED <<running, way, result, switches>>
       \/ count + 1 >= Checks(way) /\ Return(-4)
    /\ UNCHANGED <<wanStep, links, spared>>

\* A boot: networkd and wpa_supplicant come up with their files and
\* init_networking takes down what the profile does not use.
WanBoot(w) ==
       /\ ~running
       /\ netFile' = netFile
       /\ \/ /\ w \in {"dhcp", "static"}
             /\ eth' = netFile /\ wlan' = "down" /\ ppp' = "down"
          \/ /\ w = "wifi"
             /\ eth' = "down" /\ wlan' = "up" /\ ppp' = "down"
          \/ /\ w = "pppoe"
             /\ eth' = "bare" /\ wlan' = "down" /\ ppp' \in {"up", "down"}
       /\ result' = 1 /\ spared' = {}
       /\ UNCHANGED <<running, way, wanStep, count, switches>>

WanNext == \/ \E w \in Ways : WanRun(w) \/ WanBoot(w)
           \/ Command \/ WifiDead \/ Check

WanSpec == WanInit /\ [][WanNext]_wanVars

-----------------------------------------------------------------------------
\* When the tool returns 0 the uplink it was asked for is in place and every
\* other one is down: only a command whose failure the tool ignores may have
\* left a second one, and never eth0 beside the PPPoE session it carries
\* (set_wan_eth, set_wan_pppoe, set_wan_wifi, main).
Uplinks == (IF eth \in {"dhcp", "static"} THEN {"eth"} ELSE {})
           \cup (IF wlan = "up" THEN {"wlan"} ELSE {})
           \cup (IF ppp = "up" THEN {"ppp"} ELSE {})
Asked == CASE way \in {"dhcp", "static"} -> "eth"
           [] way = "wifi"  -> "wlan"
           [] way = "pppoe" -> "ppp"
OneUplink ==
    ~running /\ result = 0 =>
        /\ Asked \in Uplinks
        /\ Uplinks = {Asked} \/ "wlan_down" \in spared \/ "eth_down" \in spared
        /\ ~({"eth", "ppp"} \subseteq Uplinks)
=============================================================================
