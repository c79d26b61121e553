----------------------------- MODULE MCSqlgenRun -----------------------------
(***************************************************************************)
(* Instances of SqlgenRun for TLC.                                         *)
(***************************************************************************)
EXTENDS SqlgenRun

CONSTANTS f1, f2, u1, u2

\* The SQL of f1 has a pair of braces in it, that of f2 a closing brace before
\* an opening one: the most that ContainedSql allows.
MCSqlText == [f \in Func |-> IF f = f1 THEN <<Open, Close>> ELSE <<Close, Open>>]

\* A user's mistakes, two kinds in one behaviour; or files of one kind that fail,
\* sources and backups that cannot be written in one run, and a user who goes on.
MCTogether ==
    {s \in SUBSET (Lapses \ (Failures \cup {"unnoticed"})) : Cardinality(s) <= 2}
    \cup {{l} : l \in Failures \cup {"unnoticed"}} \cup {{"unsaved", "unwritten"}}

ASSUME PlainSql /\ ContainedSql
=============================================================================
