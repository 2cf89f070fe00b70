------------------------- MODULE MCBlueGreenUpdate -------------------------
(* Instances of BlueGreenUpdate for TLC. *)
EXTENDS BlueGreenUpdate

\* Every release has the same dataset schema; release 2 changes it, release 3
\* keeps it.
SameSchema == [r \in Releases |-> 1]
NewSchema  == [r \in Releases |-> IF r = 1 THEN 1 ELSE 2]

Commands == {"kill", "start", "timeout", "stop", "reload", "marker"}

\* Blue-green updates that are killed or fail at any command, up to three
\* times; the same with reboots; undo paths over a schema change; and both
\* modes, with and without Caddy.
UpdateScenarios ==
  { [caddy |-> TRUE, schema |-> SameSchema, modes |-> {"auto", "1"},
     force |-> TRUE, kinds |-> Commands, faults |-> 3],
    [caddy |-> TRUE, schema |-> SameSchema, modes |-> {"auto", "1"},
     force |-> TRUE, kinds |-> Commands \cup {"reboot"}, faults |-> 3] }
  \cup [caddy : {TRUE}, schema : {NewSchema}, modes : {{"auto"}}, force : {TRUE},
        kinds : {Commands \ {"kill"}, Commands \ {"kill", "start"}}, faults : {3}]
  \cup [caddy : BOOLEAN, schema : {NewSchema}, modes : {{"auto", "0"}},
        force : {TRUE}, kinds : {Commands \cup {"reboot", "disk"}}, faults : {2}]

\* Everything that can go wrong, three times.
HostScenarios ==
  [caddy : BOOLEAN, schema : {NewSchema}, modes : {{"auto", "0"}},
   force : {FALSE}, kinds : {AllFaults}, faults : {3}]

AllScenarios == UpdateScenarios \cup HostScenarios

\* One fault of one kind.
OneKill  == {[caddy |-> TRUE, schema |-> SameSchema, modes |-> {"auto"},
              force |-> FALSE, kinds |-> {"kill"}, faults |-> 1]}
OneStart == {[caddy |-> TRUE, schema |-> SameSchema, modes |-> {"auto"},
              force |-> FALSE, kinds |-> {"start"}, faults |-> 1]}
=============================================================================
