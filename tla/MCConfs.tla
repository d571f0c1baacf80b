------------------------------- MODULE MCConfs -------------------------------
(***************************************************************************)
(* The programs that keep the gateway's settings, one at a time: the       *)
(* common daemon with the publisher, the bluetooth handler, the shared     *)
(* key=value file itself, and the tool that switches the uplink.  part     *)
(* says which of them this behaviour is about; the others stay as they     *)
(* start.  The properties are those of the modules.                        *)
(***************************************************************************)
EXTENDS Reporting, BlueConf, KvStore, WanSwitch

CONSTANT Parts      \* those of the parts that a run is about

VARIABLE part

(* The first device's name is two characters longer than its type, the     *)
(* others' one; every type is of the same length.                          *)
FirstDevice == CHOOSE d \in Devices : TRUE
NameLengths == [d \in Devices |-> IF d = FirstDevice THEN 7 ELSE 6]
TypeLengths == [d \in Devices |-> 5]

ConfsInit ==
    /\ part \in Parts
    /\ Init /\ (part # "common" => \A p \in Usb : prof[<<p, 2>>] = 0)
    /\ BlueInit /\ (part # "blue" => dev = FirstDevice)
    /\ FileInit
    /\ part # "file" => file = <<CHOOSE l \in Line : TRUE>>
    /\ WanInit /\ (part # "wan" => netFile = "dhcp")

ConfsNext ==
    /\ UNCHANGED part
    /\ \/ part = "common" /\ Next /\ UNCHANGED <<blueVars, fileVars, wanVars>>
       \/ part = "blue" /\ BlueNext /\ UNCHANGED <<vars, fileVars, wanVars>>
       \/ part = "file" /\ FileNext /\ UNCHANGED <<vars, blueVars, wanVars>>
       \/ part = "wan" /\ WanNext /\ UNCHANGED <<vars, blueVars, fileVars>>

ConfsSpec == ConfsInit /\ [][ConfsNext]_<<part, vars, blueVars, fileVars, wanVars>>
=============================================================================
