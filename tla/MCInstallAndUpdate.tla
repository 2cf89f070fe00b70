------------------------ MODULE MCInstallAndUpdate ------------------------
(* Instances of InstallAndUpdate for TLC. *)
EXTENDS InstallAndUpdate

NewSchema == [r \in Releases |-> IF r = 1 THEN 1 ELSE 2]

FaultyHost == {[caddy |-> TRUE, schema |-> NewSchema, modes |-> {"auto"}, force |-> FALSE,
                kinds |-> {"kill", "timeout", "start", "stop"}, faults |-> 2]}
QuietHost  == {[caddy |-> TRUE, schema |-> NewSchema, modes |-> {"auto"}, force |-> FALSE,
                kinds |-> {}, faults |-> 0]}
=============================================================================
