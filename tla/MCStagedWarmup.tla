--------------------------- MODULE MCStagedWarmup ---------------------------
(* Instances of StagedWarmup for TLC. *)
EXTENDS StagedWarmup

\* What install.sh writes, a host whose operator defers every warmup and
\* whose first process does not release, and one that always blocks.
OperatorSettings ==
  { [defer |-> FALSE, block |-> FALSE, control |-> TRUE],
    [defer |-> TRUE,  block |-> FALSE, control |-> FALSE],
    [defer |-> FALSE, block |-> TRUE,  control |-> TRUE] }

\* Everything but a killed run; everything but a failing process.
MostFaults == {AllFaults \ {"kill"}, AllFaults \ {"die", "warm"},
               AllFaults \ {"die", "kill", "warm"}}

Defaults   == {[defer |-> FALSE, block |-> FALSE, control |-> TRUE]}
OnlyWarmup == {{"warm"}}
=============================================================================
