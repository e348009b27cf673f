---------------------------- MODULE MCRunLifetime ----------------------------
(* Small sets of backends and runs for TLC. *)
EXTENDS RunLifetime

\* ben is a second backend on the machine of ada.
TwoBackends == {"ada", "ben"}
OneMachine  == [b \in TwoBackends |-> "pc"]
OneRun      == {"r1"}
OpensOnce   == [b \in TwoBackends |-> 1]
OneOfAda    == [r \in OneRun |-> "ada"]
OneFlow     == [r \in OneRun |-> "wf"]

\* cyd is on another machine, and ada starts the same workflow twice.
Apart       == {"ada", "cyd"}
TwoMachines == [b \in Apart |-> IF b = "ada" THEN "pc" ELSE "laptop"]
AdaReopens  == [b \in Apart |-> IF b = "ada" THEN 2 ELSE 1]
TwoRuns     == {"r1", "r2"}
AllOfAda    == [r \in TwoRuns |-> "ada"]
SameFlow    == [r \in TwoRuns |-> "wf"]
=============================================================================
