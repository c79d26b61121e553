------------------------ MODULE MCScopedTransactions ------------------------
(***************************************************************************)
(* An instance of ScopedTransactions for TLC: a stack of three objects.    *)
(***************************************************************************)
EXTENDS ScopedTransactions

CONSTANT MaxLapses   \* bound: kinds of lapses in one behaviour
ASSUME LapseBoundAssumption == MaxLapses \in Nat

FewLapses == Cardinality(lapses) <= MaxLapses
=============================================================================
