-------------------------- MODULE MCGeneratedAccess --------------------------
(***************************************************************************)
(* Instances of GeneratedAccess for TLC: the functions of sample/Sample.h  *)
(* and shapes of function the sample has none of.  An optional result is   *)
(* read like a struct.                                                     *)
(***************************************************************************)
EXTENDS GeneratedAccess, TLC

CONSTANTS
    getUsers,     \* vector<User>, SELECT without parameters
    getUser,      \* User, SELECT ... WHERE
    addUser,      \* int64_raw, INSERT ... RETURNING
    deleteUser,   \* void, DELETE ... WHERE
    clearUsers,   \* bool, DELETE without parameters
    firstUser,    \* int64_raw, SELECT without parameters
    removeUser,   \* bool, DELETE ... WHERE
    v1, v2

Fn(sql, arity, result) == [sql |-> sql, arity |-> arity, result |-> result]

Shape ==
    (getUsers :> Fn("select", 0, "vector")) @@
    (getUser :> Fn("select", 1, "struct")) @@
    (addUser :> Fn("insert", 2, "raw")) @@
    (deleteUser :> Fn("delete", 1, "void")) @@
    (clearUsers :> Fn("delete", 0, "bool")) @@
    (firstUser :> Fn("select", 0, "raw")) @@
    (removeUser :> Fn("delete", 1, "bool"))

MCSql       == [f \in Func |-> Shape[f].sql]
MCArity     == [f \in Func |-> Shape[f].arity]
MCResult    == [f \in Func |-> Shape[f].result]
MCReturning == {f \in Func : Sql[f] = "select" \/ ReadsRows(f)}

\* No statement tells one value from another.
MCSymmetry == Permutations(Value)
=============================================================================
