---------------------------- MODULE SqlStatements ----------------------------
(***************************************************************************)
(* The functions a class of generated accessors offers, and what one       *)
(* execution of a function's SQL does to a table.  A row is a tuple of     *)
(* Width columns; the i-th "?" of a WHERE clause or of a VALUES list is    *)
(* compared with column i or becomes it.                                   *)
(***************************************************************************)
EXTENDS Naturals, Sequences, FiniteSets

CONSTANTS
    Func,       \* names of the generated functions
    Value,      \* what a column or an argument may hold
    Null,       \* SQL's NULL: a column or parameter without a value
    NoRow,      \* a rowid that no row has
    Width,      \* columns of the table
    MaxId,      \* bound: largest rowid
    Sql,        \* [Func -> {"select", "insert", "delete"}]
    Arity,      \* [Func -> 0..Width], parameters in the SQL
    Returning,  \* the functions whose statement yields rows
    Result      \* [Func -> Results], what the function returns

\* vector<T>; a struct of several columns and "exists"; a bare "_raw"
\* value; std::optional<T>; bool, the result of write(); nothing.
Results == {"vector", "struct", "raw", "optional", "bool", "void"}

ReadsRows(f) == Result[f] \in {"vector", "struct", "raw", "optional"}

ASSUME WidthAssumption == Width \in Nat /\ MaxId \in Nat
ASSUME NoRowAssumption == NoRow \notin [1..Width -> Value \cup {Null}]
ASSUME SqlAssumption ==
    /\ Sql \in [Func -> {"select", "insert", "delete"}]
    /\ Arity \in [Func -> 0..Width]
    /\ Returning \subseteq Func
    /\ Result \in [Func -> Results]

\* What the generator makes compile: a query has a result, and rows are only
\* read from a statement that has some.
ASSUME ResultAssumption ==
    \A f \in Func : /\ ReadsRows(f) => f \in Returning
                    /\ Sql[f] = "select" => ReadsRows(f)

Row      == [1..Width -> Value \cup {Null}]
Table    == [1..MaxId -> Row \cup {NoRow}]
Args(f)  == [1..Arity[f] -> Value]
Bound(f) == [1..Arity[f] -> Value \cup {Null}]

-----------------------------------------------------------------------------
(* One execution with the parameters b on the table r.                     *)

\* NULL equals nothing.
Matches(b, r) ==
    {id \in 1..MaxId : r[id] # NoRow /\ \A i \in DOMAIN b :
                           b[i] # Null /\ r[id][i] = b[i]}

\* SQLite's next rowid is one more than the largest; a full table has none.
NextId(r) ==
    {n \in 1..MaxId : /\ n = 1 \/ r[n - 1] # NoRow
                      /\ \A id \in n..MaxId : r[id] = NoRow}

NewRow(b) == [i \in 1..Width |-> IF i \in DOMAIN b THEN b[i] ELSE Null]

\* Without ORDER BY the rows of S come in any order.
Orders(S) ==
    {s \in [1..Cardinality(S) -> S] : \A id \in S : \E i \in DOMAIN s : s[i] = id}

\* The table after an execution, and the rows the execution yields.
Executions(f, b, r) ==
    CASE Sql[f] = "select" ->
           {[rows |-> r, yield |-> s] : s \in Orders(Matches(b, r))}
      [] Sql[f] = "insert" ->
           {[rows |-> [r EXCEPT ![n] = NewRow(b)],
             yield |-> IF f \in Returning THEN <<n>> ELSE <<>>] : n \in NextId(r)}
      [] Sql[f] = "delete" ->
           {[rows |-> [id \in 1..MaxId |->
                          IF id \in Matches(b, r) THEN NoRow ELSE r[id]],
             yield |-> s] :
                s \in IF f \in Returning THEN Orders(Matches(b, r)) ELSE {<<>>}}

-----------------------------------------------------------------------------
(* How a call went: ids, the rows it returns, and ok, FALSE after an error. *)
(* Only a bool function, which returns what write() answered, tells ok to  *)
(* its caller; after an error the others return the rows they have, an     *)
(* empty value or nothing, and ok says here which answers those are.       *)

Answers == [ok : BOOLEAN, ids : Seq(1..MaxId)]

FirstOf(s) == IF s = <<>> THEN <<>> ELSE <<Head(s)>>

\* The answer made of all the rows of an execution.
Answer(f, s) ==
    [ok |-> TRUE,
     ids |-> CASE Result[f] = "vector"            -> s
               [] Result[f] \in {"bool", "void"}  -> <<>>
               [] OTHER                           -> FirstOf(s)]

NoRows == [ok |-> TRUE, ids |-> <<>>]

Failed(s) == [ok |-> FALSE, ids |-> s]
=============================================================================
