--------------------------- MODULE GeneratedTypes ---------------------------
(***************************************************************************)
(* The types of the generated functions: generateSqlFunction takes the     *)
(* annotations of a file one after the other, registers the structures     *)
(* their results need, of which the header declares the last version, and  *)
(* writes bodies that fill them from columns it counts in the SQL.  A text *)
(* of SQL is a sequence of atoms.                                          *)
(***************************************************************************)
EXTENDS Naturals, Sequences, FiniteSets

CONSTANTS
    Functions,  \* bound: the lists of annotated functions in a file
    NoCode      \* the body of a function that is left out

\* In the place of a structure's name: no name in C++ begins with a digit.
NoStruct == "0"

\* A vector, a single row, one whose column is "_raw", an optional one, and "none"
\* for void and bool.
Results == {"vector", "single", "raw", "optional", "none"}

\* What an annotation says of its function: how its rows are returned, the name
\* and the fields of their structure, its SQL, and whether it is checked; and
\* what SQLite says of the SQL.
AnnotatedFunction ==
    [result : Results, struct : STRING \ {NoStruct}, fields : Seq(STRING),
     select : Seq(STRING), check : BOOLEAN, prepares : BOOLEAN]

ASSUME FunctionsAssumption == Functions \subseteq Seq(AnnotatedFunction)

VARIABLES
    functions,   \* annotated_code
    structures,  \* gen_data.structures, from names to fields
    bodies       \* what has been written of each function so far

typeVars == <<functions, structures, bodies>>

TypesInit ==
    /\ functions \in Functions
    /\ structures = <<>>
    /\ bodies = <<>>

\* The members of a sequence.
Members(s) == {s[n] : n \in DOMAIN s}

-----------------------------------------------------------------------------
(* The structures of results with several columns.                         *)

\* Mutant: a structure that is there is never replaced.
MutRegister(S, name, fields, exists) ==
    IF name \in DOMAIN S THEN S
    ELSE [n \in DOMAIN S \cup {name} |->
             IF n = name THEN [exists |-> exists, fields |-> fields] ELSE S[n]]

\* generateStructure: one without "exists" is replaced by one that has it.
Register(S, name, fields, exists) ==
    IF name \in DOMAIN S /\ (~exists \/ S[name].exists) THEN S
    ELSE [n \in DOMAIN S \cup {name} |->
             IF n = name THEN [exists |-> exists, fields |-> fields] ELSE S[n]]

\* A single column that is neither raw nor optional.
Conditional(f) == f.result = "single" /\ Len(f.fields) = 1

\* The structure of a function's rows: none for void, bool and a vector, a raw
\* or an optional of one column, generateConditional's "Cond" for every other
\* single column.  A function without @return that is none of these has one, too.
StructOf(f) ==
    CASE f.result = "vector" /\ Len(f.fields) > 1                            -> f.struct
      [] f.result \in {"single", "raw", "optional"} /\ Len(f.fields) # 1 -> f.struct
      [] Conditional(f)                                                    -> "Cond"
      [] OTHER                                                             -> NoStruct

\* generateConditional keeps a "Cond" that is there.
WithStruct(S, f) ==
    CASE StructOf(f) = NoStruct -> S
      [] Conditional(f)         -> IF "Cond" \in DOMAIN S THEN S
                                   ELSE Register(S, "Cond", <<"value">>, TRUE)
      [] OTHER                  -> Register(S, f.struct, f.fields, f.result # "vector")

-----------------------------------------------------------------------------
(* The columns of a result.                                                *)

\* Mutant: commas are counted in parentheses, too.
MutPieces(s) ==
    LET after[n \in 0..Len(s)] ==
            IF n = 0 THEN [depth |-> 0, str |-> <<>>, ret |-> <<>>]
            ELSE LET x == after[n - 1] IN
                 IF s[n] \in {"comma", "literal"}
                 THEN [x EXCEPT !.str = <<>>, !.ret = Append(@, x.str)]
                 ELSE [x EXCEPT !.str = Append(@, s[n])]
        end == after[Len(s)]
    IN  IF end.str # <<>> THEN Append(end.ret, end.str) ELSE end.ret

\* tokenizeIgnoreParentheses with ",", after each atom; it does not know a
\* "literal" with a comma from a comma.
Scanned(s) ==
    LET after[n \in 0..Len(s)] ==
            IF n = 0 THEN [depth |-> 0, str |-> <<>>, ret |-> <<>>]
            ELSE LET x == after[n - 1] IN
                 CASE s[n] = "open"                 -> [x EXCEPT !.depth = @ + 1]
                   [] s[n] = "close" /\ x.depth > 0 -> [x EXCEPT !.depth = @ - 1]
                   [] s[n] \notin {"open", "close"} /\ x.depth > 0 -> x
                   [] s[n] \in {"comma", "literal"} /\ x.depth = 0 ->
                        [x EXCEPT !.str = <<>>, !.ret = Append(@, x.str)]
                   [] OTHER                         -> [x EXCEPT !.str = Append(@, s[n])]
    IN  after

\* The pieces: the last one is left out when it is empty or in parentheses.
Pieces(s) ==
    LET end == Scanned(s)[Len(s)]
    IN  IF end.depth = 0 /\ end.str # <<>> THEN Append(end.ret, end.str) ELSE end.ret

\* What stands between "select" and the first "from", wherever that is.
SelectVars(f) ==
    LET froms == {n \in DOMAIN f.select : f.select[n] = "from"}
    IN  SubSeq(f.select, 1, (CHOOSE n \in froms : \A m \in froms : n <= m) - 1)

\* The name of a piece: what follows its first "as", or all of it.
PieceName(p) ==
    LET ases == {n \in DOMAIN p : p[n] = "as"}
    IN  IF ases = {} THEN p
        ELSE SubSeq(p, (CHOOSE n \in ases : \A m \in ases : n <= m) + 1, Len(p))

Counted(f) == SelectVars(f) # <<"star">>

\* return_cols: the piece of each name, of two the last.
ReturnCols(f, name) ==
    LET pieces == Pieces(SelectVars(f))
        named  == {n \in DOMAIN pieces : PieceName(pieces[n]) = <<name>>}
    IN  IF Counted(f) THEN {n \in named : \A m \in named : m <= n} ELSE {}

-----------------------------------------------------------------------------
(* generateSqlFunction.                                                    *)

\* The SQL prepares, and every field is among the columns.
Checks(f) ==
    f.check =>
        /\ f.prepares
        /\ Counted(f) => \A n \in Members(f.fields) : ReturnCols(f, n) # {}

\* Mutant: rows of a vector never get their "exists".
MutSetsExists(f, S) ==
    Len(f.fields) > 1 /\ f.result \in {"single", "raw", "optional"}

\* The body of a vector sets "exists" when its structure has one by now.
SetsExists(f, S) ==
    /\ Len(f.fields) > 1
    /\ \/ f.result \in {"single", "raw", "optional"}
       \/ f.result = "vector" /\ S[StructOf(f)].exists

\* What the body reads into each field: a column's number, or it goes by name.
Body(f, S) ==
    [exists  |-> SetsExists(f, S),
     columns |-> [n \in Members(f.fields) |-> ReturnCols(f, n)]]

\* A structure is registered before its function fails.
GenerateFunction ==
    /\ Len(bodies) < Len(functions)
    /\ LET f == functions[Len(bodies) + 1]
           S == WithStruct(structures, f)
       IN  /\ structures' = S
           /\ bodies' = Append(bodies, IF Checks(f) THEN Body(f, S) ELSE NoCode)
    /\ UNCHANGED functions

TypesSpec == TypesInit /\ [][GenerateFunction]_typeVars

-----------------------------------------------------------------------------
(* The columns that SQLite counts: an atom is in parentheses or not, and a *)
(* literal is no comma.                                                    *)

Depth(f, n) ==
    Cardinality({m \in 1..n : f.select[m] = "open"})
      - Cardinality({m \in 1..n - 1 : f.select[m] = "close"})

\* Where the column list ends, and the columns, by their first and last atoms.
ListEnd(f) ==
    CHOOSE n \in DOMAIN f.select :
        /\ f.select[n] = "from" /\ Depth(f, n) = 0
        /\ \A m \in 1..n - 1 : f.select[m] = "from" => Depth(f, m) > 0

Breaks(f) == {n \in 1..ListEnd(f) - 1 : f.select[n] = "comma" /\ Depth(f, n) = 0}

\* A name that stands outside of parentheses is the name of a column: one with
\* parentheses has its name behind an "as" behind them, or nothing outside of them.
ListNamed(f) ==
    /\ \E n \in DOMAIN f.select : f.select[n] = "from" /\ Depth(f, n) = 0
    /\ "as" \notin Members(f.fields)
    /\ \A n \in DOMAIN f.select : f.select[n] = "close" => Depth(f, n) > 0
    /\ \A n \in 1..ListEnd(f) - 1 : Depth(f, n) > 0 =>
           \/ \E m \in n + 1..ListEnd(f) - 1 :
                  f.select[m] = "as" /\ Depth(f, m) = 0 /\ Breaks(f) \cap (n..m) = {}
           \/ \A m \in 1..ListEnd(f) - 1 :
                  Breaks(f) \cap ((n..m) \cup (m..n)) = {} => Depth(f, m) > 0

ListsNamed == \A fs \in Functions : \A n \in DOMAIN fs : ListNamed(fs[n])

\* The columns that are called by a name.
SqlColumns(f, name) ==
    {Cardinality({b \in Breaks(f) : b < e}) + 1 :
        e \in {e \in 1..ListEnd(f) - 1 :
                  /\ f.select[e] = name /\ Depth(f, e) = 0
                  /\ e + 1 \in Breaks(f) \cup {ListEnd(f)}
                  /\ e = 1 \/ e - 1 \in Breaks(f) \/ f.select[e - 1] = "as"}}

-----------------------------------------------------------------------------
(* Correctness.                                                            *)

\* The range of the generator's variables: a structure has "exists" or more than
\* one field.
TypesTypeOK ==
    /\ Len(bodies) <= Len(functions)
    /\ \A n \in DOMAIN structures :
           /\ structures[n].exists \in BOOLEAN
           /\ ~structures[n].exists => Len(structures[n].fields) > 1

\* The functions whose code is in the file, when all have been generated.
Finished == Len(bodies) = Len(functions)
Written  == {n \in DOMAIN bodies : bodies[n] # NoCode}
Struct(n) == StructOf(functions[n])

\* The functions with one structure have the same fields, none reads a single
\* column that is neither raw nor optional, for "Cond" has a value, which no body
\* fills, and none that returns void or bool names columns.
Alike ==
    /\ \A n, m \in DOMAIN functions :
           Struct(n) = Struct(m) /\ Struct(n) # NoStruct =>
               functions[n].fields = functions[m].fields
    /\ \A n \in DOMAIN functions :
           /\ Struct(n) # "Cond"
           /\ functions[n].result = "none" => functions[n].fields = <<>>

\* The functions whose bodies fill the members of a structure.
Filling == {n \in Written : Len(functions[n].fields) > 1}

\* The header declares whatever the bodies fill, in whatever order the functions
\* stand and whichever of them fail: the fields, and the "exists" that is set.
FieldsDeclared ==
    Finished /\ Alike => \A n \in Filling :
        /\ Struct(n) \in DOMAIN structures
        /\ Members(functions[n].fields) \subseteq Members(structures[Struct(n)].fields)
        /\ bodies[n].exists => structures[Struct(n)].exists

\* The rows of exactly these functions never say that they exist, although their
\* type has such a member: the vectors that stand before the first function that
\* is not a vector and has their structure, whether that one fails or not.
ExistsSet ==
    Finished /\ Alike => \A n \in Filling :
        (bodies[n].exists # structures[Struct(n)].exists) <=>
            /\ \A m \in 1..n : Struct(m) = Struct(n) => functions[m].result = "vector"
            /\ \E m \in DOMAIN functions :
                   Struct(m) = Struct(n) /\ functions[m].result # "vector"

\* A body reads each field from the column of this name in the result, in a
\* SELECT whose literals have no comma.
ColumnsMatch ==
    \A n \in Written : LET f == functions[n] IN
        (\A m \in DOMAIN f.select : f.select[m] # "literal") =>
            \A x \in Members(f.fields) :
                \/ bodies[n].columns[x] = {}
                \/ bodies[n].columns[x] = SqlColumns(f, x)
                \/ Cardinality(SqlColumns(f, x)) > 1
=============================================================================
