--------------------------- MODULE GeneratedSource ---------------------------
(***************************************************************************)
(* What sqlgen_main does to the text of a C++ file and of its header.  A   *)
(* file is a sequence of items: comments, braces, and pieces of other      *)
(* text.  Tokenizer's code tokens are the runs of items between comments.  *)
(***************************************************************************)
EXTENDS Integers, Sequences, SequencesExt

CONSTANTS
    Func,     \* the functions annotations ask for
    Piece,    \* the functions the user writes
    SqlText   \* [Func -> Seq(Item)], the items within the SQL of a function

Annotation(f) == <<"access", f>>    \* a comment with @-SQLGenAccess
Comment       == <<"comment">>      \* any other comment
Blank         == <<"blank">>        \* white space
Open          == <<"open">>
Close         == <<"close">>
FunctionHead(f) == <<"head", f>>      \* the generated head of function f
Code(u)       == <<"code", u>>      \* a head the user wrote

Item == {Comment, Blank, Open, Close}
          \cup {Annotation(f) : f \in Func} \cup {FunctionHead(f) : f \in Func}
          \cup {Code(u) : u \in Piece}

ASSUME SqlTextAssumption == SqlText \in [Func -> Seq(Item)]

IsAnnotation(x) == x[1] = "access"
IsComment(x)    == x[1] \in {"access", "comment"}

-----------------------------------------------------------------------------
(* getAnnotatedCode: the code an annotation stands before.                 *)

\* The comment at p has a code token behind it, which ends at CodeEnd.
HasCode(s, p) == p < Len(s) /\ ~IsComment(s[p + 1])

\* Mutant: the function is looked for beyond the next comment.
MutCodeEnd(s, p) == Len(s)

CodeEnd(s, p) == Max({e \in p..Len(s) : \A n \in p + 1..e : ~IsComment(s[n])})

Depth(s, a, e) ==
    Cardinality({n \in a..e : s[n] = Open}) - Cardinality({n \in a..e : s[n] = Close})

\* extractFirstFunction: up to where the braces first are closed again; p if
\* they never are.
FunctionEnd(s, p) ==
    LET ends == {e \in p + 1..CodeEnd(s, p) :
                    /\ Depth(s, p + 1, e) = 0
                    /\ \E n \in p + 1..e : Depth(s, p + 1, n) > 0}
    IN  IF ends = {} THEN p ELSE Min(ends)

\* The annotations of s that code can be generated for.
Annotations(s) == {p \in DOMAIN s : IsAnnotation(s[p]) /\ HasCode(s, p)}

-----------------------------------------------------------------------------
(* generateCode1 and getCode.                                              *)

\* generateSqlFunction writes the function anew, and nothing when the check of
\* its SQL fails.
GeneratedCode(f, bad) ==
    IF f \in bad THEN <<>>
    ELSE <<Blank, FunctionHead(f), Open, Open>> \o SqlText[f] \o <<Close, Close>>

\* Mutant: the function an annotation already has is not taken away.
MutReplaced(s) == {}

\* What the new function takes the place of.
Replaced(s) == UNION {p + 1..FunctionEnd(s, p) : p \in Annotations(s)}

Regenerate(s, bad) ==
    LET out(p) == CASE p \in Replaced(s)    -> <<>>
                    [] p \in Annotations(s) -> <<s[p]>> \o GeneratedCode(s[p][2], bad)
                    [] OTHER                -> <<s[p]>>
    IN  FlattenSeq([p \in DOMAIN s |-> out(p)])

Generated(s, bad) == {s[p][2] : p \in Annotations(s)} \ bad

-----------------------------------------------------------------------------
(* placeData: the text between the markers of the header is replaced.      *)

Headers == [marks : BOOLEAN, decls : SUBSET Func]

PlaceData(h, funcs) == IF h.marks THEN [h EXCEPT !.decls = funcs] ELSE h

-----------------------------------------------------------------------------
(* The SQL that keeps a generated function one function, in the eyes of    *)
(* extractFirstFunction.                                                   *)

\* It has nothing in it that looks like a comment or like a generated head.
PlainSql ==
    \A f \in Func : \A n \in DOMAIN SqlText[f] :
        /\ ~IsComment(SqlText[f][n])
        /\ \A g \in Func : SqlText[f][n] # FunctionHead(g)

\* It opens as many braces as it closes.
EvenSql == \A f \in Func : Depth(SqlText[f], 1, Len(SqlText[f])) = 0

\* And it never closes both of the braces that it stands in.
ContainedSql ==
    /\ EvenSql
    /\ \A f \in Func : \A n \in DOMAIN SqlText[f] : Depth(SqlText[f], 1, n) >= -1
=============================================================================
