------------------------------ MODULE Reporting ------------------------------
(***************************************************************************)
(* The publisher (MQTTClient_publish.c), a program that is run for each    *)
(* status report, next to the common daemon of CommonConf: it reads what   *)
(* the report and its destination need key by key while the daemon may     *)
(* rewrite the same file, collects the system's figures with shell         *)
(* commands, and publishes once.                                           *)
(***************************************************************************)
EXTENDS CommonConf, Sequences

CONSTANT MaxRuns    \* bound: times the publisher is run

ASSUME MaxRunsAssumption == MaxRuns \in Nat

VARIABLES
    stage,      \* of the publisher: "off", "read", "collect" or "send"
    got,        \* the values it has read
    sent,       \* those of the last report it published
    runs,       \* times it was run
    alone,      \* history: no command was under way during this run
    late        \* history: this run began after the info file was emptied

reportVars == <<stage, got, sent, runs, alone, late>>
vars       == <<commonVars, reportVars>>

\* The keys get_gateway_info reads, in its order: payload_info, the two halves
\* of the name, the serial number, and the platform's four keys.
ReportKeys == <<<<"report", 1>>,
                <<"conf_gateway_info", 1>>, <<"conf_gateway_info", 2>>,
                <<"conf_gateway_info", 4>>,
                <<"conf_platform", 1>>, <<"conf_platform", 2>>,
                <<"conf_platform", 3>>, <<"conf_platform", 4>>>>
Platform == 5 .. 8      \* where the platform's keys stand in it

ReportTypeOK ==
    /\ stage \in {"off", "read", "collect", "send"}
    /\ got \in Seq(Values) /\ Len(got) <= Len(ReportKeys)
    /\ sent \in Seq(Values)
    /\ runs \in 0 .. MaxRuns
    /\ alone \in BOOLEAN /\ late \in BOOLEAN

ReportInit ==
    /\ stage = "off" /\ got = <<>> /\ sent = <<>> /\ runs = 0
    /\ alone = TRUE /\ late = FALSE

-----------------------------------------------------------------------------
Run ==
    /\ stage = "off" /\ runs < MaxRuns
    /\ stage' = "read" /\ got' = <<>> /\ runs' = runs + 1
    /\ alone' = (pc = "idle") /\ late' = ("info" \in cut)
    /\ UNCHANGED <<commonVars, sent>>

\* Fault: the result of file_get_value is not looked at.
ReadKeyUnchecked ==
    /\ stage = "read"
    /\ got' = Append(got, prof[ReportKeys[Len(got) + 1]])
    /\ stage' = IF Len(got) + 1 = Len(ReportKeys) THEN "collect" ELSE "read"
    /\ UNCHANGED <<commonVars, sent, runs, alone, late>>

\* One file_get_value.  It fails when the key is not there, which it also is
\* not while the daemon has the file truncated, and main() returns.
ReadKey ==
    /\ stage = "read"
    /\ LET key == ReportKeys[Len(got) + 1] IN
       \/ /\ prof[key] # Absent
          /\ got' = Append(got, prof[key])
          /\ stage' = IF Len(got) + 1 = Len(ReportKeys) THEN "collect" ELSE "read"
       \/ /\ prof[key] = Absent \/ (pc = "update" /\ FileOf(cmd.kind) = "info")
          /\ stage' = "off" /\ UNCHANGED got
    /\ UNCHANGED <<commonVars, sent, runs, alone, late>>

\* wan_way, the address of that interface and the figures; any may fail.
Collect ==
    /\ stage = "collect" /\ stage' \in {"send", "off"}
    /\ UNCHANGED <<commonVars, got, sent, runs, alone, late>>

\* MQTTClient_connect to the platform; what it publishes is not lost.
Publish ==
    /\ stage = "send" /\ stage' = "off"
    /\ sent' \in {got, sent}
    /\ UNCHANGED <<commonVars, got, runs, alone, late>>

DaemonStep == CommonNext /\ alone' = (alone /\ pc' = "idle")
              /\ UNCHANGED <<stage, got, sent, runs, late>>

Init == CommonInit /\ ReportInit
Next == DaemonStep \/ Run \/ ReadKey \/ Collect \/ Publish
Spec == Init /\ [][Next]_vars

-----------------------------------------------------------------------------
(* Properties *)

\* A report goes to a platform some command named, not to a mixture of two,
\* unless the daemon was busy during the run or the last command about the
\* platform was refused or killed half way.
OnePlatform ==
    stage = "send" /\ alone /\ outcome["conf_platform"] \in {"none", "yes"} =>
        \A i, j \in Platform : got[i] = got[j]

\* The kill that empties the file ends reporting for good: payload_info is
\* written by no command, so no run that begins later reaches the platform,
\* however often name and platform are set again.
NoReportAfterCut == late => stage \notin {"collect", "send"}

\* Where a report can go (get_gateway_info).
ReportsGoToOnePlatform == OnePlatform /\ NoReportAfterCut
=============================================================================
