------------------------------ MODULE Tokenizer ------------------------------
(***************************************************************************)
(* tokenizeFile: one pass over a source file that splits it into comments  *)
(* and the code between them.  A string (cdata, a token) is the interval   *)
(* of positions of the file its characters come from.                      *)
(***************************************************************************)
EXTENDS Naturals, Sequences, FiniteSets

\* The characters this pass and the parser of annotations tell apart: "/", "*",
\* the two of a line end, "@", a blank, and every other one.
Char == {"slash", "star", "cr", "nl", "at", "blank", "other"}

CONSTANT Text   \* bound: the files tokenized
ASSUME TextAssumption == Text \subseteq Seq(Char)

VARIABLES
    text,    \* cppfile
    i,       \* characters read
    start,   \* cdata is text[start..i]
    state,
    tokens,
    done     \* tokenizeFile has returned

vars == <<text, i, start, state, tokens, done>>

\* The states 0 to 4: code, after a "/" in code, a /* comment, a // comment,
\* after a "*" in a /* comment.
States == {"code", "slash", "block", "line", "star"}

Token(a, b, type) == [from |-> a, to |-> b, type |-> type]

Init ==
    /\ text \in Text
    /\ i = 0 /\ start = 1
    /\ state = "code"
    /\ tokens = <<>>
    /\ done = FALSE

\* The loop reads one character; ch and Size are ch and cdata.size() after it.
ch   == text[i + 1]
Size == i + 2 - start

In(s) == i < Len(text) /\ state = s

Read(s) ==
    /\ i' = i + 1
    /\ state' = s
    /\ UNCHANGED <<text, done>>

Keep == UNCHANGED <<start, tokens>>

ReadCode ==
    /\ In("code")
    /\ Read(IF ch = "slash" THEN "slash" ELSE "code")
    /\ Keep

ReadSlash ==
    /\ In("slash") /\ ch \notin {"star", "slash"}
    /\ Read("code")
    /\ Keep

\* A comment begins with the last two characters; cdata up to them is code.
ReadComment ==
    /\ In("slash") /\ ch \in {"star", "slash"}
    /\ Read(IF ch = "star" THEN "block" ELSE "line")
    /\ tokens' = IF Size > 2 THEN Append(tokens, Token(start, i - 1, "code"))
                             ELSE tokens
    /\ start' = i

ReadBlock ==
    /\ In("block")
    /\ Read(IF ch = "star" THEN "star" ELSE "block")
    /\ Keep

\* Mutant: the "*" of "**/" is forgotten.
MutReadStar ==
    /\ In("star") /\ ch # "slash"
    /\ Read("block")
    /\ Keep

ReadStar ==
    /\ In("star") /\ ch # "slash"
    /\ Read(IF ch = "star" THEN "star" ELSE "block")
    /\ Keep

ReadBlockEnd ==
    /\ In("star") /\ ch = "slash"
    /\ Read("code")
    /\ tokens' = Append(tokens, Token(start, i + 1, "comment"))
    /\ start' = i + 2

ReadLine ==
    /\ In("line") /\ ch # "nl"
    /\ Read("line")
    /\ Keep

\* Where a // comment ends: before the "\r\n" or the "\n".
CommentEnd == IF Size > 2 /\ text[i] = "cr" THEN i - 1 ELSE i

\* cdata goes on with the "\n" alone, whatever was set for "\r\n" before.
ReadLineEnd ==
    /\ In("line") /\ ch = "nl"
    /\ Read("code")
    /\ tokens' = Append(tokens, Token(start, CommentEnd, "comment"))
    /\ start' = i + 1

\* Mutant: code after the last comment is dropped.
MutFinish ==
    /\ i = Len(text) /\ ~done
    /\ done' = TRUE
    /\ UNCHANGED <<text, i, start, state, tokens>>

\* What is left is code, a comment that was not closed, too.
Finish ==
    /\ i = Len(text) /\ ~done
    /\ done' = TRUE
    /\ tokens' = IF start <= i THEN Append(tokens, Token(start, i, "code"))
                               ELSE tokens
    /\ UNCHANGED <<text, i, start, state>>

Next ==
    \/ ReadCode \/ ReadSlash \/ ReadComment
    \/ ReadBlock \/ ReadStar \/ ReadBlockEnd
    \/ ReadLine \/ ReadLineEnd
    \/ Finish

Spec == Init /\ [][Next]_vars

-----------------------------------------------------------------------------
(* tokenizeFileRegex, which tokenizeFile replaces: the leftmost matches of *)
(* "/\*(\S|\s)*?\*/" and "//.*", and what lies between them.               *)

Least(S)    == CHOOSE e \in S : \A f \in S : e <= f
Greatest(S) == CHOOSE e \in S : \A f \in S : e >= f

BlockEnds(t, p) ==
    IF t[p] = "slash" /\ t[p + 1] = "star"
    THEN {e \in p + 3..Len(t) : t[e - 1] = "star" /\ t[e] = "slash"}
    ELSE {}

LineEnds(t, p) ==
    IF t[p] = "slash" /\ t[p + 1] = "slash"
    THEN {e \in p + 1..Len(t) : \A d \in p + 2..e : t[d] \notin {"cr", "nl"}}
    ELSE {}

\* The comments found from each position on.
RegexFrom(t) ==
    LET find[p \in 1..Len(t) + 1] ==
            IF p >= Len(t) THEN {}
            ELSE LET ends == BlockEnds(t, p) \cup LineEnds(t, p)
                     e    == IF BlockEnds(t, p) # {} THEN Least(ends) ELSE Greatest(ends)
                 IN  IF ends = {} THEN find[p + 1]
                     ELSE {Token(p, e, "comment")} \cup find[e + 1]
    IN find

RegexComments(t) == RegexFrom(t)[1]

-----------------------------------------------------------------------------
(* Correctness.                                                            *)

\* The range of every variable.
TypeOK ==
    /\ text \in Seq(Char)
    /\ i \in 0..Len(text)
    /\ start \in 1..i + 1
    /\ state \in States
    /\ tokens \in Seq([from : 1..Len(text), to : 1..Len(text),
                       type : {"code", "comment"}])
    /\ done \in BOOLEAN

\* After the token t the file goes on at position p, or at p with the "\r\n"
\* of a // comment before it, of which the "\r" is dropped.
Follows(t, p) ==
    \/ p = t.to + 1
    \/ /\ t.type = "comment" /\ p = t.to + 2 /\ p <= Len(text)
       /\ text[t.to + 1] = "cr" /\ text[p] = "nl"

\* The tokens, in this order and without an overlap, are the file: nothing is
\* lost but the "\r" of "\r\n" after a // comment.  getCode puts the file
\* together again from them.
TokensAreText ==
    done =>
        /\ text # <<>> => tokens # <<>> /\ tokens[1].from = 1
        /\ \A k \in DOMAIN tokens :
               /\ tokens[k].from <= tokens[k].to
               /\ IF k < Len(tokens) THEN Follows(tokens[k], tokens[k + 1].from)
                                     ELSE tokens[k].to = Len(text)

\* The comments that have been found.
Comments == {tokens[k] : k \in {k \in DOMAIN tokens : tokens[k].type = "comment"}}

\* Every "\r" of the file belongs to the end of a line.
WholeLineEnds ==
    \A p \in DOMAIN text : text[p] = "cr" => p < Len(text) /\ text[p + 1] = "nl"

\* In a file without single "\r" that ends outside of a comment the comments
\* are those the regular expression finds.
RegexAgrees ==
    done /\ state \in {"code", "slash"} /\ WholeLineEnds => Comments = RegexComments(text)
==============================================================================
