----------------------------- MODULE CommonConf -----------------------------
(***************************************************************************)
(* The command handler of the common daemon (gcs_sends_data_unpack in      *)
(* conf_common.c): the gateway's password, its name and keys, the cloud    *)
(* platform's address, the serial line and the sensors on two USB ports.   *)
(* A command changes a device first, where there is one, and then the keys *)
(* of a profile file, one file_update_value each; the first failure ends   *)
(* it with "no".                                                           *)
(*                                                                         *)
(* A client fills all fields of a command; here with one value, so that    *)
(* what stems from different commands can be told apart.  KvStore is the   *)
(* detailed model of one file_update_value.  Commands that cannot be       *)
(* parsed or are of no known kind change nothing and are left out.         *)
(***************************************************************************)
EXTENDS Naturals

CONSTANTS
    Values,         \* contents of the fields of a command
    Supported,      \* those set_serial has a case for
    Default,        \* what it sets instead of the others
    Absent,         \* no such key
    MaxSensors,     \* sensors on a USB port (10 in the code)
    MaxFd,          \* descriptors the daemon may open (1024 on the gateway)
    MaxCommands,    \* bound: commands handled
    MaxKills        \* bound: times the daemon ends and is started again

ASSUME ValuesAssumption ==
    /\ Supported \subseteq Values /\ Default \in Supported
    /\ Absent \notin Values \cup Nat
ASSUME NumbersAssumption ==
    /\ MaxSensors \in Nat /\ MaxFd \in Nat \ {0}
    /\ MaxCommands \in Nat /\ MaxKills \in Nat

Usb   == {"usb1_interface_conf", "usb2_interface_conf"}
Kinds == {"conf_gateway_passwd", "conf_gateway_info", "conf_platform",
          "uart_interface_conf"} \cup Usb

Commands == [kind : Kinds \ Usb, value : Values, number : {0}]
            \cup [kind : Usb, value : Values, number : 0 .. MaxSensors]

\* Key <<k, i>> is the i-th that a command of kind k writes.  For a port, 1 is
\* the type of the device, 2 the number of sensors and 3s .. 3s + 2 are sensor
\* s.  The key <<"report", 1>> (payload_info) is written by no command.
Size(kind) == CASE kind \in {"conf_gateway_passwd", "report"} -> 1
                [] kind \in {"conf_gateway_info", "conf_platform",
                             "uart_interface_conf"} -> 4
                [] kind \in Usb -> 2 + 3 * MaxSensors
Key == UNION {{<<k, i>> : i \in 1 .. Size(k)} : k \in Kinds \cup {"report"}}

Files == {"info", "sub"}    \* gateway_conf_info, gateway_conf_file_sub_client
FileOf(kind) == IF kind \in {"conf_gateway_info", "conf_platform", "report"}
                THEN "info" ELSE "sub"

VARIABLES
    pc,         \* where the handler is
    cmd,        \* the command
    step,       \* the next key of it to write
    prof,       \* the value of each key in its file
    passwd,     \* the password of the gateway's user
    line,       \* the setting of /dev/ttyS1
    leaked,     \* descriptors opened and never closed
    answer,     \* what this command wrote to p_map: "none", "yes" or "no"
    commands,   \* commands received
    kills,      \* times the daemon ended
    old,        \* history: prof when the command arrived
    outcome,    \* history: how the last command of each kind ended
    cut         \* history: the files emptied by a kill

commonVars == <<pc, cmd, step, prof, passwd, line, leaked, answer, commands, kills,
                old, outcome, cut>>

TypeOK ==
    /\ pc \in {"idle", "passwd", "open", "serial", "update", "accept", "refuse"}
    /\ cmd \in Commands /\ step \in 1 .. 7 + 3 * MaxSensors
    /\ prof \in [Key -> Values \cup 0 .. MaxSensors \cup {Absent}]
    /\ passwd \in Values /\ line \in Supported
    /\ leaked \in 0 .. MaxFd
    /\ answer \in {"none", "yes", "no"}
    /\ commands \in 0 .. MaxCommands /\ kills \in 0 .. MaxKills
    /\ old \in [Key -> Values \cup 0 .. MaxSensors \cup {Absent}]
    /\ outcome \in [Kinds -> {"none", "yes", "no", "killed"}]
    /\ cut \subseteq Files

-----------------------------------------------------------------------------

\* The update_*_profile functions: how many keys they write, and what.
KeysWritten(c) == IF c.kind \in Usb THEN 2 + 3 * c.number ELSE Size(c.kind)
Content(c, i)  == IF c.kind \in Usb /\ i = 2 THEN c.number ELSE c.value

\* p with the first n keys of c written.
Written(p, c, n) ==
    [k \in Key |-> IF k[1] = c.kind /\ k[2] <= n THEN Content(c, k[2]) ELSE p[k]]

\* set_serial: an unknown baud rate is 9600, and nobody is told.
Serial(v) == IF v \in Supported THEN v ELSE Default

\* The profiles the gateway is delivered with: n sensors on each port.
Delivered(v, n) ==
    [k \in Key |-> IF k[1] \in Usb /\ k[2] = 2 THEN n
                   ELSE IF k[1] \in Usb /\ k[2] > 2 + 3 * n THEN Absent ELSE v]

CommonInit ==
    /\ pc = "idle" /\ step = 1 /\ answer = "none"
    /\ \E n \in 0 .. MaxSensors : prof = Delivered(Default, n)
    /\ old = prof
    /\ passwd = Default /\ line = Default /\ leaked = 0
    /\ cmd = [kind |-> "conf_gateway_passwd", value |-> Default, number |-> 0]
    /\ commands = 0 /\ kills = 0
    /\ outcome = [k \in Kinds |-> "none"] /\ cut = {}

-----------------------------------------------------------------------------
\* A command, parsed and dispatched; a parity that is none of three is refused.
Receive(c, parity) ==
    /\ pc = "idle" /\ commands < MaxCommands
    /\ ~parity => c.kind = "uart_interface_conf"
    /\ pc' = CASE c.kind = "conf_gateway_passwd" -> "passwd"
               [] c.kind = "uart_interface_conf" -> IF parity THEN "open" ELSE "refuse"
               [] c.kind \notin {"conf_gateway_passwd", "uart_interface_conf"} -> "update"
    /\ cmd' = c /\ step' = 1 /\ answer' = "none" /\ old' = prof
    /\ commands' = commands + 1
    /\ UNCHANGED <<prof, passwd, line, leaked, kills, outcome, cut>>

\* conf_gw_passwd
SetPasswd ==
    /\ pc = "passwd"
    /\ \/ passwd' = cmd.value /\ pc' = "update"
       \/ pc' = "refuse" /\ UNCHANGED passwd
    /\ UNCHANGED <<cmd, step, prof, line, leaked, answer, commands, kills, old, outcome, cut>>

\* conf_uart_interface opens the line ...
OpenLine ==
    /\ pc = "open"
    /\ \/ pc' = "serial" /\ leaked < MaxFd
       \/ pc' = "refuse"
    /\ UNCHANGED <<cmd, step, prof, passwd, line, leaked, answer, commands, kills,
                   old, outcome, cut>>

\* ... and sets it; when that fails it returns without closing it.
SetSerial ==
    /\ pc = "serial"
    /\ \/ line' = Serial(cmd.value) /\ pc' = "update" /\ UNCHANGED leaked
       \/ leaked' = leaked + 1 /\ pc' = "refuse" /\ UNCHANGED line
    /\ UNCHANGED <<cmd, step, prof, passwd, answer, commands, kills, old, outcome, cut>>

\* Fault: a key that could not be written is skipped.
UpdateKeySkipping ==
    /\ pc = "update"
    /\ prof' \in {prof, [prof EXCEPT ![<<cmd.kind, step>>] = Content(cmd, step)]}
    /\ step' = step + 1
    /\ pc' = IF step = KeysWritten(cmd) THEN "accept" ELSE "update"
    /\ UNCHANGED <<cmd, passwd, line, leaked, answer, commands, kills, old, outcome, cut>>

\* One file_update_value, which needs a descriptor.
UpdateKey ==
    /\ pc = "update"
    /\ \/ /\ leaked < MaxFd
          /\ prof' = [prof EXCEPT ![<<cmd.kind, step>>] = Content(cmd, step)]
          /\ step' = step + 1
          /\ pc' = IF step = KeysWritten(cmd) THEN "accept" ELSE "update"
       \/ pc' = "refuse" /\ UNCHANGED <<prof, step>>
    /\ UNCHANGED <<cmd, passwd, line, leaked, answer, commands, kills, old, outcome, cut>>

\* gw_response_str(cmdtype, "yes") and gw_response_str(cmdtype, "no")
Respond ==
    /\ pc \in {"accept", "refuse"} /\ pc' = "idle"
    /\ answer' = IF pc = "accept" THEN "yes" ELSE "no"
    /\ outcome' = [outcome EXCEPT ![cmd.kind] = answer']
    /\ UNCHANGED <<cmd, step, prof, passwd, line, leaked, commands, kills, old, cut>>

\* The daemon ends, killed in a command or for a lost connection, and is started
\* again.  An update that has truncated its file leaves it empty.
Kill ==
    /\ kills < MaxKills /\ kills' = kills + 1
    /\ pc' = "idle" /\ leaked' = 0
    /\ outcome' = IF pc = "idle" THEN outcome ELSE [outcome EXCEPT ![cmd.kind] = "killed"]
    /\ \/ UNCHANGED <<prof, cut>>
       \/ /\ pc = "update" /\ leaked < MaxFd
          /\ cut' = cut \cup {FileOf(cmd.kind)}
          /\ prof' = [k \in Key |-> IF FileOf(k[1]) = FileOf(cmd.kind) THEN Absent ELSE prof[k]]
    /\ UNCHANGED <<cmd, step, passwd, line, answer, commands, old>>

CommonNext == \/ \E c \in Commands, parity \in BOOLEAN : Receive(c, parity)
              \/ SetPasswd \/ OpenLine \/ SetSerial \/ UpdateKey \/ Respond \/ Kill

CommonSpec == CommonInit /\ [][CommonNext]_commonVars

-----------------------------------------------------------------------------
(* Properties *)

\* An answer says what happened to the profile: after "yes" every key of the
\* command and no other has changed, after "no" a part of them, from the first
\* one on, and never all.
AnswerTellsTheProfile ==
    /\ pc = "idle" /\ answer = "yes" => prof = Written(old, cmd, KeysWritten(cmd))
    /\ pc = "idle" /\ answer = "no" =>
           \E n \in 0 .. KeysWritten(cmd) - 1 : prof = Written(old, cmd, n)

\* The password and the serial line are the ones in the profile as long as the
\* last command about them was not refused or killed and no kill emptied the
\* file: commands about other things in between do not part them.
DeviceFollowsProfile ==
    "sub" \notin cut /\ pc = "idle" =>
        /\ outcome["conf_gateway_passwd"] \in {"none", "yes"} =>
               prof[<<"conf_gateway_passwd", 1>>] = passwd
        /\ outcome["uart_interface_conf"] \in {"none", "yes"} =>
               \A i \in 1 .. 4 : Serial(prof[<<"uart_interface_conf", i>>]) = line

\* A port whose last command was not refused or killed announces no sensor that
\* command did not describe in full, whatever is left of earlier, longer lists.
AnnouncedSensorsAreDescribed ==
    \A p \in Usb : outcome[p] \in {"none", "yes"} /\ pc = "idle" /\ "sub" \notin cut =>
        \A i \in 3 .. 2 + 3 * prof[<<p, 2>>] : prof[<<p, i>>] = prof[<<p, 1>>]

\* Out of descriptors the daemon writes no profile and accepts nothing until it
\* is started again.
OutOfDescriptors ==
    [][leaked = MaxFd /\ kills' = kills => prof' = prof /\ answer' # "yes"]_commonVars

\* What a client may conclude from an answer (gcs_sends_data_unpack).
AnswersAreTrue ==
    [](AnswerTellsTheProfile /\ DeviceFollowsProfile /\ AnnouncedSensorsAreDescribed) /\ OutOfDescriptors
=============================================================================
