---------------------------- MODULE MCExecution -----------------------------
(***************************************************************************)
(* Instances of Execution for TLC.                                         *)
(***************************************************************************)
EXTENDS Execution

CONSTANTS i1, i2, backup, hello

OneInstance == {i1}
TwoInstances == {i1, i2}
RejectOnly == {backup}
BothActions == {backup, hello}
TwoRuns == 1..2
OneTime == {1}
TwoTimes == {1, 2}
=============================================================================
