------------------------------ MODULE BlueConf ------------------------------
(***************************************************************************)
(* The command handler of the bluetooth daemon (gcs_sends_data_unpack in   *)
(* conf_bluetooth.c) and the program that sets the module up when the      *)
(* gateway starts (init_blue_net.c): the settings of hci0 and the keys of  *)
(* the profile that keep them, the device connected last, and the answer   *)
(* that lists the connected devices.                                       *)
(*                                                                         *)
(* The search for devices and the test sound change nothing and are left   *)
(* out; so is the pin code, which no command passes on, but for its key.   *)
(***************************************************************************)
EXTENDS Naturals, Sequences, FiniteSets

CONSTANTS
    Names, Factory,     \* names of hci0; the one it has when it is switched on
    Devices,            \* bluetooth devices; one stands for its name, address and type
    NameLen, TypeLen,   \* how long a device's name and type are
    Missing,            \* no such key
    MaxBlueCommands,    \* bound: commands handled
    MaxEvents           \* bound: kills, restarts and links that come and go

ASSUME FactoryAssumption == Factory \in Names
ASSUME DevicesAssumption == IsFiniteSet(Devices)
ASSUME LengthsAssumption == NameLen \in [Devices -> Nat] /\ TypeLen \in [Devices -> Nat]
ASSUME MissingAssumption == Missing \notin Names \cup Devices
ASSUME BlueBoundsAssumption == MaxBlueCommands \in Nat /\ MaxEvents \in Nat

\* What a client may ask for; a switch or visibility may be none of the two.
Settings == [switch : {"on", "off", "other"}, name : Names,
             visible : {"yes", "no", "other"}]

VARIABLES
    bluePc,     \* where the handler is; "script" also belongs to init_blue_net
    booting,    \* it is init_blue_net that runs the script
    want,       \* the settings it applies
    blueStep,   \* the next entry of the script, or key of the profile
    dev,        \* the device to connect
    hci,        \* the module: powered, its name, visible to inquiries
    out, inc,   \* the links that this side, and the other side, set up
    blueProf,   \* conf_blue_interface_switch, _devicename, _visible, _pin_code
    conned,     \* conned_blue_dev_name, _address, _type
    blueAnswer, \* what this command wrote to p_map
    listed,     \* the answer about connected devices
    blueCommands, events,
    settled,    \* history: the last script ran through, nothing else touched hci0
    torn,       \* history: an update of the device ended between its name and its type
    blueOld,    \* history: blueProf when the command arrived
    linked      \* history: the devices that were connected when they were listed

blueVars == <<bluePc, booting, want, blueStep, dev, hci, out, inc, blueProf, conned,
              blueAnswer, listed,
              blueCommands, events, settled, torn, blueOld, linked>>

Keys == 1 .. 4
Contents == {"on", "off", "yes", "no", Missing} \cup Names
NoList == [num |-> 0, addresses |-> {}, name |-> Missing, type |-> Missing, rest |-> Missing]

BlueTypeOK ==
    /\ bluePc \in {"idle", "script", "settings", "connect", "reconnect", "device",
                   "accept", "refuse"}
    /\ booting \in BOOLEAN /\ blueStep \in 1 .. 6
    /\ want \in Settings /\ dev \in Devices
    /\ hci \in [up : BOOLEAN, name : Names, scan : BOOLEAN]
    /\ out \subseteq Devices /\ inc \subseteq Devices
    /\ blueProf \in [Keys -> Contents] /\ blueOld \in [Keys -> Contents]
    /\ conned \in [1 .. 3 -> Devices \cup {Missing}]
    /\ blueAnswer \in {"none", "yes", "no", "list"}
    /\ listed \in [num : 0 .. Cardinality(Devices), addresses : SUBSET Devices,
                   name : Devices \cup {Missing}, type : Devices \cup {Missing},
                   rest : Devices \cup {Missing}]
    /\ blueCommands \in 0 .. MaxBlueCommands /\ events \in 0 .. MaxEvents
    /\ settled \in BOOLEAN /\ torn \in BOOLEAN
    /\ linked \subseteq Devices

-----------------------------------------------------------------------------
\* Fault: the module is left as it is after the restart that makes its name known.
ScriptWithoutUp(c) == IF c.switch = "on" THEN <<"up", "name", "scan", "down">> ELSE <<"down">>

\* The hciconfig commands, the same in conf_blue_mod_interface and in
\* init_blue_mod_interface.
Script(c) == IF c.switch = "on" THEN <<"up", "name", "scan", "down", "up">> ELSE <<"down">>

Effect(s) ==
    CASE s = "up"   -> [hci EXCEPT !.up = TRUE]
      [] s = "name" -> [hci EXCEPT !.name = want.name]
      [] s = "scan" -> [hci EXCEPT !.scan = (want.visible = "yes")]
      [] s = "down" -> [hci EXCEPT !.up = FALSE]

\* The keys update_blue_inter_profile is given; with "off" the switch only.
KeysGiven(c) == IF c.switch = "on" THEN 4 ELSE 1
Setting(c, k) == CASE k = 1 -> c.switch
                   [] k = 2 -> c.name
                   [] k = 3 -> c.visible
                   [] k = 4 -> c.name

BlueInit ==
    /\ bluePc = "idle" /\ booting = FALSE /\ blueStep = 1
    /\ want = [switch |-> "on", name |-> Factory, visible |-> "yes"]
    /\ dev \in Devices
    /\ hci = [up |-> TRUE, name |-> Factory, scan |-> TRUE]
    /\ out = {} /\ inc = {}
    /\ blueProf = [k \in Keys |-> Setting(want, k)] /\ blueOld = blueProf
    /\ conned = [k \in 1 .. 3 |-> dev]
    /\ blueAnswer = "none" /\ listed = NoList
    /\ blueCommands = 0 /\ events = 0 /\ settled = TRUE /\ torn = FALSE
    /\ linked = {}

-----------------------------------------------------------------------------
Arrive == /\ bluePc = "idle"
          /\ blueCommands < MaxBlueCommands /\ blueCommands' = blueCommands + 1
          /\ blueStep' = 1 /\ blueOld' = blueProf

\* bluetooth_interface_conf
ReceiveSettings(c) ==
    /\ Arrive
    /\ want' = c /\ blueAnswer' = "none"
    /\ bluePc' = IF c.switch = "other" THEN "refuse" ELSE "script"
    /\ UNCHANGED <<booting, dev, hci, out, inc, blueProf, conned, listed, events,
                   settled, torn, linked>>

\* One hciconfig; the first that fails ends the script half way, and so does a
\* visibility that is neither "yes" nor "no".
RunScript ==
    /\ bluePc = "script"
    /\ LET s == Script(want)[blueStep]
           done == blueStep = Len(Script(want))
           end(ok) == CASE booting -> "idle"
                        [] ~booting /\ ok  -> "settings"
                        [] ~booting /\ ~ok -> "refuse"
       IN
       \/ /\ ~(s = "scan" /\ want.visible = "other")
          /\ hci' = Effect(s)
          /\ IF done THEN bluePc' = end(TRUE) /\ blueStep' = 1 /\ settled' = booting
             ELSE bluePc' = bluePc /\ blueStep' = blueStep + 1 /\ settled' = FALSE
       \/ /\ bluePc' = end(FALSE) /\ settled' = FALSE /\ UNCHANGED <<hci, blueStep>>
    /\ UNCHANGED <<booting, want, dev, out, inc, blueProf, conned, blueAnswer, listed,
                   blueCommands,
                   events, torn, blueOld, linked>>

\* update_blue_inter_profile, one key per step; its result is not looked at.
SaveSettings ==
    /\ bluePc = "settings"
    /\ \/ /\ blueProf' = [blueProf EXCEPT ![blueStep] = Setting(want, blueStep)]
          /\ blueStep' = blueStep + 1
          /\ IF blueStep = KeysGiven(want) THEN bluePc' = "accept" /\ settled' = TRUE
             ELSE UNCHANGED <<bluePc, settled>>
       \/ bluePc' = "accept" /\ UNCHANGED <<blueProf, blueStep, settled>>
    /\ UNCHANGED <<booting, want, dev, hci, out, inc, conned, blueAnswer, listed,
                   blueCommands, events, torn, blueOld, linked>>

\* bluetooth_dev_connect; it may fail before anything was tried.
ReceiveDevice(d) ==
    /\ Arrive
    /\ dev' = d /\ blueAnswer' = "none"
    /\ bluePc' \in {"connect", "refuse"}
    /\ UNCHANGED <<booting, want, hci, out, inc, blueProf, conned, listed, events,
                   settled, torn, linked>>

\* bluetoothctl, twice at most: it powers the module off and on, which ends
\* every link, and may then set up the one asked for.  hcitool con tells.
Connect ==
    /\ bluePc \in {"connect", "reconnect"}
    /\ \/ hci' = [hci EXCEPT !.up = TRUE] /\ out' \in {{}, {dev}} /\ inc' = {}
       \/ UNCHANGED <<hci, out, inc>>
    /\ bluePc' = CASE dev \in out' \cup inc' -> "device"
                   [] dev \notin out' \cup inc' /\ bluePc = "connect"   -> "reconnect"
                   [] dev \notin out' \cup inc' /\ bluePc = "reconnect" -> "refuse"
    /\ settled' = FALSE
    /\ UNCHANGED <<booting, want, blueStep, dev, blueProf, conned, blueAnswer, listed,
                   blueCommands,
                   events, torn, blueOld, linked>>

\* An update of the device that ends here has written its name, not its type.
Tears == bluePc = "device" /\ blueStep > 1

\* update_con_bludev_profile: name, address, type, up to the first that fails;
\* its result is not looked at.
SaveDevice ==
    /\ bluePc = "device"
    /\ \/ /\ conned' = [conned EXCEPT ![blueStep] = dev] /\ blueStep' = blueStep + 1
          /\ IF blueStep = 3 THEN bluePc' = "accept" /\ torn' = FALSE
             ELSE UNCHANGED <<bluePc, torn>>
       \/ bluePc' = "accept" /\ torn' = (torn \/ Tears) /\ UNCHANGED <<conned, blueStep>>
    /\ UNCHANGED <<booting, want, dev, hci, out, inc, blueProf, blueAnswer, listed,
                   blueCommands, events, settled, blueOld, linked>>

\* What of device n's name is still in connected_blue_device's buffer behind
\* device t's type: file_get_value copies the type and its line's newline over
\* the name and adds no NUL.
Behind(n, t) == IF NameLen[n] > TypeLen[t] + 1 THEN n ELSE Missing

\* bluetooth_dev_connected: the address of the last device hcitool printed, for
\* every device, with the name and the type of the one connected last and what
\* the buffer has behind the type.
List ==
    /\ Arrive
    /\ blueAnswer' = "list" /\ linked' = out \cup inc
    /\ \/ listed' = NoList      \* no outgoing link, or a command or key failed
       \/ /\ out # {} /\ conned[1] # Missing /\ conned[3] # Missing
          /\ \E last \in out \cup inc :
                 listed' = [num |-> Cardinality(out \cup inc), addresses |-> {last},
                            name |-> conned[1], type |-> conned[3],
                            rest |-> Behind(conned[1], conned[3])]
    /\ UNCHANGED <<bluePc, booting, want, dev, hci, out, inc, blueProf, conned, events,
                   settled, torn>>

\* gw_response_str(cmdtype, "yes") and gw_response_str(cmdtype, "no")
BlueRespond ==
    /\ bluePc \in {"accept", "refuse"} /\ bluePc' = "idle"
    /\ blueAnswer' = IF bluePc = "accept" THEN "yes" ELSE "no"
    /\ UNCHANGED <<booting, want, blueStep, dev, hci, out, inc, blueProf, conned, listed,
                   blueCommands, events, settled, torn, blueOld, linked>>

\* A device connects, or any link ends.
LinkChanges(d) ==
    /\ events < MaxEvents /\ events' = events + 1
    /\ \/ hci.up /\ d \notin out \cup inc /\ inc' = inc \cup {d} /\ UNCHANGED out
       \/ d \in out \cup inc /\ out' = out \ {d} /\ inc' = inc \ {d}
    /\ UNCHANGED <<bluePc, booting, want, blueStep, dev, hci, blueProf, conned,
                   blueAnswer, listed,
                   blueCommands, settled, torn, blueOld, linked>>

\* The daemon is killed; an update that has truncated the file leaves it empty.
BlueKill ==
    /\ bluePc # "idle" /\ ~booting /\ events < MaxEvents /\ events' = events + 1
    /\ bluePc' = "idle" /\ blueAnswer' = "none"
    /\ \/ torn' = (torn \/ Tears) /\ UNCHANGED <<blueProf, conned>>
       \/ /\ bluePc \in {"settings", "device"} /\ torn' = FALSE
          /\ blueProf' = [k \in Keys |-> Missing] /\ conned' = [k \in 1 .. 3 |-> Missing]
    /\ UNCHANGED <<booting, want, blueStep, dev, hci, out, inc, listed, blueCommands,
                   settled, blueOld, linked>>

\* The gateway is switched off and on again, and init_blue_net reads the profile
\* and runs the script.
Boot ==
    /\ bluePc = "idle" /\ events < MaxEvents /\ events' = events + 1
    /\ hci' = [up |-> FALSE, name |-> Factory, scan |-> FALSE]
    /\ out' = {} /\ inc' = {} /\ blueStep' = 1 /\ booting' = TRUE /\ settled' = FALSE
    /\ blueAnswer' = "none"
    /\ IF Missing \in {blueProf[1], blueProf[2], blueProf[3]}
       THEN /\ bluePc' = bluePc /\ UNCHANGED want
       ELSE /\ bluePc' = "script"
            /\ want' = [switch |-> blueProf[1], name |-> blueProf[2], visible |-> blueProf[3]]
    /\ UNCHANGED <<dev, blueProf, conned, listed, blueCommands, torn, blueOld, linked>>

\* systemd starts the daemon once init_blue_net has ended.
StartDaemon ==
    /\ bluePc = "idle" /\ booting /\ booting' = FALSE
    /\ UNCHANGED <<bluePc, want, blueStep, dev, hci, out, inc, blueProf, conned,
                   blueAnswer, listed,
                   blueCommands, events, settled, torn, blueOld, linked>>

BlueNext == \/ ~booting /\ \/ \E c \in Settings : ReceiveSettings(c)
                           \/ \E d \in Devices : ReceiveDevice(d)
                           \/ List
                           \/ Boot
            \/ RunScript \/ SaveSettings \/ Connect \/ SaveDevice \/ BlueRespond
            \/ \E d \in Devices : LinkChanges(d)
            \/ BlueKill \/ StartDaemon

BlueSpec == BlueInit /\ [][BlueNext]_blueVars

-----------------------------------------------------------------------------
(* Properties *)

\* A refused command leaves the settings in the profile as they were, though
\* the module may be left half way.
RefusedKeepsSettings == bluePc = "idle" /\ blueAnswer = "no" => blueProf = blueOld

\* The module is set as the profile says after every command and every start
\* that ran through: so a restart brings back what "yes" was said for, whatever
\* was killed, left unwritten or emptied in between, unless a device was
\* connected since, which powers the module on.
ModuleFollowsProfile ==
    bluePc = "idle" /\ settled =>
        /\ hci.up = (blueProf[1] = "on")
        /\ hci.up => hci.name = blueProf[2] /\ hci.scan = (blueProf[3] = "yes")

\* The answer about connected devices does not mix two of them in its name, its
\* type and what is told behind the type, whatever was connected and refused
\* and wherever the daemon was killed before, except in the middle of saving a
\* device.  A device with a name not longer than its type is told as it is.
ListedIsOneDevice ==
    blueAnswer = "list" /\ ~torn =>
        /\ listed.type = listed.name /\ listed.rest \in {listed.name, Missing}
        /\ listed.name # Missing /\ NameLen[listed.name] <= TypeLen[listed.name] =>
                listed.rest = Missing

\* What the settings and the answers about them hold to (bluetooth_interface_conf,
\* bluetooth_dev_connected).
SettingsAreTold == RefusedKeepsSettings /\ ModuleFollowsProfile /\ ListedIsOneDevice

\* The answer about connected devices has the address of each of them.
ConnectedAreListed == blueAnswer = "list" /\ listed.num > 0 => listed.addresses = linked
=============================================================================
