----------------------------- MODULE MCTokenizer -----------------------------
(***************************************************************************)
(* The stages of sqlgen_main for TLC, each on inputs of its own.  For the  *)
(* tokenizer and the parser: every file of up to MaxLen characters without *)
(* annotations, and files of one comment with up to MaxInner characters, a *)
(* block comment also behind the beginning of an annotation.  For the      *)
(* generator: up to MaxFunctions functions that differ in their types, and *)
(* one function with up to MaxColumns columns.                             *)
(***************************************************************************)
EXTENDS Stages

CONSTANTS MaxLen, MaxInner, MaxFunctions, MaxColumns   \* bounds

Upto(n, C) == UNION {[1..k -> C] : k \in 0..n}

MCText ==
    Upto(MaxLen, Char \ {"at", "blank"})
    \cup {<<"slash", "star">> \o begin \o inner \o <<"star", "slash">> :
             begin \in {<<>>, <<"at", "other", "blank">>},
             inner \in Upto(MaxInner, Char \ {"slash"})}
    \cup {<<"slash", "slash">> \o inner : inner \in Upto(MaxInner, Char \ {"cr", "star"})}

Function(result, struct, fields, select, check, prepares) ==
    [result |-> result, struct |-> struct, fields |-> fields, select |-> select,
     check |-> check, prepares |-> prepares]

\* Functions of all types on a simple SELECT, some of which fail.
Typed ==
    {Function(r[1], r[2], f[1], <<"x", "comma", "y", "from">>, TRUE, f[2]) :
        r \in {<<"vector", "User">>, <<"single", "User">>, <<"raw", "User">>,
               <<"vector", "Pet">>, <<"single", "Pet">>,
               <<"optional", "optional<User>">>, <<"none", "void">>},
        f \in {<<<<>>, TRUE>>, <<<<"x">>, TRUE>>, <<<<"x", "y">>, TRUE>>,
               <<<<"x", "y">>, FALSE>>, <<<<"y", "x">>, TRUE>>}}

\* A column: names, calls and subqueries in parentheses, a literal.
Column ==
    {<<"x">>, <<"y">>, <<"x", "as", "y">>, <<"open", "x", "close">>, <<"literal", "as", "x">>,
     <<"open", "x", "comma", "y", "close", "as", "x">>,
     <<"open", "x", "from", "close">>, <<"y", "open", "x", "close", "as", "x">>,
     <<"open", "x", "as", "y", "close", "as", "x">>}

Lists[n \in 1..MaxColumns] ==
    IF n = 1 THEN Column ELSE {l \o <<"comma">> \o x : l \in Lists[n - 1], x \in Column}

Selecting ==
    {Function("vector", "User", f, l \o <<"from">>, b, TRUE) :
        f \in {<<"x">>, <<"y", "x">>}, b \in BOOLEAN,
        l \in {<<"star">>} \cup UNION {Lists[n] : n \in 1..MaxColumns}}

MCFunctions == Upto(MaxFunctions, Typed) \cup Upto(1, Selecting)

ASSUME ListsNamed

\* StagesInit where the file or the list of functions is empty.
MCInit ==
    \/ functions = <<>> /\ TypesInit /\ Init /\ ParserInit
    \/ text = <<>> /\ Init /\ ParserInit /\ TypesInit

MCSpec == MCInit /\ [][StagesNext]_stagesVars
=============================================================================
