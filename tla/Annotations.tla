---------------------------- MODULE Annotations ----------------------------
(***************************************************************************)
(* What getAnnotatedCode reads in the comments that tokenizeFile has       *)
(* found: parseAnnotations goes through a block comment character by       *)
(* character and cleans up what stands behind each @name.  A value is the  *)
(* set of the positions of the file whose characters are kept.  A tab      *)
(* stands in no file: it is a blank, but does not end a name.              *)
(***************************************************************************)
EXTENDS Tokenizer

VARIABLES
    turn,       \* tokens taken: the loop's i
    pos,        \* position of the last character read
    mode,       \* state
    nameAt,     \* name is text[nameAt..contentAt - 1] when content has begun,
    contentAt,  \* and content is text[contentAt..pos]
    found       \* ret: from names to values

parserVars == <<turn, pos, mode, nameAt, contentAt, found>>

\* The states 0 to 3: outside of annotations, in a name, in a content, after a
\* "*" in a content.
Modes == {"none", "name", "content", "star"}

Blanks == {"blank", "cr", "nl"}

ParserInit ==
    /\ turn = 0 /\ pos = 0
    /\ mode = "none"
    /\ nameAt = 1 /\ contentAt = 1
    /\ found = <<>>

Nothing == [name \in {} |-> {}]

\* The token that is being read, and whether it is a // comment.
Now       == tokens[turn]
IsLine(t) == t.type = "comment" /\ text[t.from + 1] = "slash"

ReadAll == IF turn = 0 THEN TRUE ELSE pos = Now.to

-----------------------------------------------------------------------------
(* cleanup_annotation and trim.                                            *)

\* Mutant: the decoration of a line is only looked for right behind its end.
MutCleanup(a, b) ==
    {p \in a..b : text[p] = "nl" \/ ~(p > a /\ text[p - 1] = "nl"
                                        /\ text[p] \in {"blank", "star"})}

\* The state after each character: whether it is in the decoration that begins
\* a line.  A "\n" is always kept, as a blank.
Cleanup(a, b) ==
    LET decor[p \in a - 1..b] ==
            /\ p >= a
            /\ IF decor[p - 1] THEN text[p] \in {"blank", "star", "nl"}
                               ELSE text[p] \in {"cr", "nl"}
    IN  {p \in a..b : text[p] = "nl" \/ ~decor[p]}

Words(K) == {p \in K : text[p] \notin Blanks}

Trim(K) == {p \in K : \E q, r \in Words(K) : q <= p /\ p <= r}

-----------------------------------------------------------------------------
(* parseAnnotationSingle: the content of its regular expression is lazy    *)
(* and nothing follows it, so that every value is empty.                   *)

Run(a, b) == \A p \in a..b : text[p] \notin Blanks

\* The names: from each "@" outside of another one to the next blank.
SingleNames(t) ==
    {e \in [from : t.from + 1..t.to + 1, to : t.from..t.to] :
        /\ e.from <= e.to + 1 /\ Run(e.from, e.to)
        /\ text[e.from - 1] = "at"
        /\ \A p \in t.from..e.from - 2 : text[p] = "at" => ~Run(p, e.from - 1)
        /\ e.to < t.to => text[e.to + 1] \in Blanks}

Single(t) ==
    [name \in {SubSeq(text, e.from, e.to) : e \in SingleNames(t)} |-> {}]

-----------------------------------------------------------------------------
(* The loop of getAnnotatedCode.                                           *)

\* What the next token of the file is.
MayTake == done /\ ReadAll /\ turn < Len(tokens)
Upcoming == tokens[turn + 1]

\* Mutant: the token behind is taken, too, where there may be none.
MutTake ==
    /\ MayTake
    /\ turn' = turn + 2
    /\ mode' = "none"
    /\ UNCHANGED <<nameAt, contentAt>>

Take ==
    /\ MayTake
    /\ turn' = turn + 1
    /\ mode' = "none"
    /\ UNCHANGED <<nameAt, contentAt>>

TakeCode ==
    /\ Take /\ Upcoming.type = "code"
    /\ pos' = Upcoming.to /\ found' = Nothing

\* What parseAnnotations says of a // comment is not used.
TakeLine ==
    /\ Take /\ IsLine(Upcoming)
    /\ pos' = Upcoming.to /\ found' = Single(Upcoming)

TakeBlock ==
    /\ Take /\ Upcoming.type = "comment" /\ ~IsLine(Upcoming)
    /\ pos' = Upcoming.from - 1 /\ found' = Nothing

-----------------------------------------------------------------------------
(* parseAnnotations.                                                       *)

\* The loop reads the next character c.
c == text[pos + 1]

Scan(m) ==
    /\ pos' = pos + 1
    /\ mode' = m
    /\ UNCHANGED turn

Reads(m) == ~ReadAll /\ mode = m

SkipText ==
    /\ Reads("none")
    /\ IF c = "at" THEN Scan("name") /\ nameAt' = pos + 2
                   ELSE Scan("none") /\ UNCHANGED nameAt
    /\ UNCHANGED <<contentAt, found>>

ReadName ==
    /\ Reads("name")
    /\ IF c \in Blanks THEN Scan("content") /\ contentAt' = pos + 1
                       ELSE Scan("name") /\ UNCHANGED contentAt
    /\ UNCHANGED <<nameAt, found>>

Store ==
    LET name == SubSeq(text, nameAt, contentAt - 1)
    IN  found' = [n \in DOMAIN found \cup {name} |->
                     IF n = name THEN Trim(Cleanup(contentAt, pos)) ELSE found[n]]

\* An "@" ends a content, wherever it stands, and begins the next name.
NextName ==
    /\ Reads("content") \/ Reads("star")
    /\ c = "at"
    /\ Scan("name") /\ nameAt' = pos + 2
    /\ Store
    /\ UNCHANGED contentAt

ReadContent ==
    /\ Reads("content") \/ Reads("star")
    /\ c # "at" /\ ~(c = "slash" /\ mode = "star")
    /\ Scan(IF c = "star" THEN "star" ELSE "content")
    /\ UNCHANGED <<nameAt, contentAt, found>>

\* The end of the comment; its "*" has gone to the content.
EndContent ==
    /\ Reads("star") /\ c = "slash"
    /\ Scan("none")
    /\ Store
    /\ UNCHANGED <<nameAt, contentAt>>

Parse ==
    \/ TakeCode \/ TakeLine \/ TakeBlock
    \/ SkipText \/ ReadName \/ NextName \/ ReadContent \/ EndContent

AnnotatedNext ==
    \/ Next /\ UNCHANGED parserVars
    \/ Parse /\ UNCHANGED vars

AnnotatedSpec ==
    Init /\ ParserInit /\ [][AnnotatedNext]_<<vars, parserVars>>

-----------------------------------------------------------------------------
(* The regular expression that parseAnnotations replaces (sqlgen.cpp:314), *)
(* on the comment t: an "@", as many characters that are no blank, blanks, *)
(* and as few characters as there are to the next "@" or "*/".             *)

Stops(t, p) ==
    {q \in p..t.to : \/ text[q] = "at"
                     \/ q < t.to /\ text[q] = "star" /\ text[q + 1] = "slash"}

\* The name takes what it can as long as a stop follows, then the blanks.
NameEnd(t, p) == Greatest({e \in p..t.to : Run(p + 1, e) /\ Stops(t, e + 1) # {}})
ContentStart(t, e) ==
    Greatest({s \in e + 1..t.to : (\A q \in e + 1..s - 1 : text[q] = "blank")
                                      /\ Stops(t, s) # {}})

\* The words of a content: all but the stars that decorate its lines.
WordsBetween(a, b) ==
    {p \in a..b : /\ text[p] \notin Blanks
                  /\ ~\E q \in a..p - 1 : text[q] = "nl"
                         /\ \A r \in q + 1..p : text[r] \in {"blank", "star"}}

Match(t, p) ==
    LET e == NameEnd(t, p)
        s == ContentStart(t, e)
        q == Least(Stops(t, s))
    IN  [name |-> SubSeq(text, p + 1, e), words |-> WordsBetween(s, q - 1), next |-> q]

\* The matches from each position on: of two with one name the last one counts.
RegexFoundFrom(t) ==
    LET from[p \in t.from..t.to + 1] ==
            IF p > t.to THEN Nothing
            ELSE IF text[p] = "at" /\ Stops(t, p + 1) # {}
            THEN LET this  == Match(t, p)
                     later == from[this.next]
                 IN  [n \in DOMAIN later \cup {this.name} |->
                         IF n \in DOMAIN later THEN later[n] ELSE this.words]
            ELSE from[p + 1]
    IN  from

RegexFound(t) == RegexFoundFrom(t)[t.from]

-----------------------------------------------------------------------------
(* Correctness.                                                            *)

\* The range of every variable of the parser.
ParserTypeOK ==
    /\ turn \in 0..Len(tokens)
    /\ pos \in 0..Len(text)
    /\ mode \in Modes
    /\ nameAt \in 1..Len(text) + 1 /\ contentAt \in 1..Len(text) + 1
    /\ \A n \in DOMAIN found : n \in Seq(Char) /\ found[n] \subseteq DOMAIN text

\* A comment as in the documentation: every name is followed by a blank, and
\* the end of the comment stands on a line of its own.
Tidy(t) ==
    /\ \A p \in t.from..t.to : text[p] = "at" =>
           \E q \in p + 1..t.to - 2 : text[q] \in Blanks
    /\ \E q \in t.from..t.to : text[q] = "nl"
           /\ \A r \in q + 1..t.to - 1 : text[r] \in {"blank", "star"}

\* In a tidy comment parseAnnotations finds the names of the regular expression
\* and under each its words, whatever blanks, line ends and decoration stand
\* between: no character of the SQL is lost or added but the stars that begin
\* its lines.
AnnotationsAgree ==
    turn > 0 /\ ReadAll /\ Now.type = "comment" /\ ~IsLine(Now) /\ Tidy(Now) /\ WholeLineEnds
        => [n \in DOMAIN found |-> Words(found[n])] = RegexFound(Now)
=============================================================================
