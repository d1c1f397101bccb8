----------------------------- MODULE MCStorage ------------------------------
(***************************************************************************)
(* An instance of Storage for TLC: a call of each of two processes at a    *)
(* time, which is every pair of calls that can meet at the write lock.     *)
(***************************************************************************)
EXTENDS Storage

CONSTANTS p1, p2, w1, w2

TwoProcesses == {p1, p2}
TwoWorkers == {w1, w2}
OneEach == [w \in {w1, w2} |-> IF w = w1 THEN p1 ELSE p2]
TwoRuns == 1..2
ThreeTimes == 1..3
OneOutcome == {"succeeded"}
=============================================================================
