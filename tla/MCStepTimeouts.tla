--------------------------- MODULE MCStepTimeouts ---------------------------
(***************************************************************************)
(* An instance of StepTimeouts for TLC: two SELECTs and a DROP.            *)
(***************************************************************************)
EXTENDS StepTimeouts, FiniteSets

\* None, no waiting, and what a call counts down to zero.
MCTimeouts == {-1, 0, 2000}

CONSTANT MaxLapses   \* bound: kinds of lapses in one behaviour
ASSUME LapseBoundAssumption == MaxLapses \in Nat

FewLapses == Cardinality(lapses) <= MaxLapses
=============================================================================
