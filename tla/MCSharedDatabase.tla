-------------------------- MODULE MCSharedDatabase --------------------------
(***************************************************************************)
(* Instances of SharedDatabase for TLC: two connections, each with a       *)
(* query (rd), a write without rows (wr) and an INSERT ... RETURNING (rt). *)
(***************************************************************************)
EXTENDS SharedDatabase, TLC

CONSTANTS c1, c2, rd, wr, rt

MCKind   == (rd :> "select") @@ (wr :> "write") @@ (rt :> "returning")
MCKindW  == (rd :> "select") @@ (wr :> "write")
MCKindRt == (rd :> "select") @@ (rt :> "returning")

\* The connections are alike; no state or constant tells them apart.
MCSymmetry == Permutations(Conn)
=============================================================================
