--------------------------- MODULE TokenizerProofs ---------------------------
(***************************************************************************)
(* For files of any length: the tokens are the file, but for the "\r"      *)
(* before the end of a line with a // comment, the comments are those of   *)
(* the regular expression, and the parser stays within the comment it      *)
(* reads and finds there what its regular expression finds.  For any       *)
(* number of functions: the structures declare what the bodies fill.       *)
(***************************************************************************)
EXTENDS Stages, FiniteSetTheorems, SequenceTheorems,
        WellFoundedInduction, TLAPS

\* What cdata begins with in each state, and what is left after it.
CdataInv ==
    /\ done => i = Len(text)
    /\ state = "slash" => start <= i /\ text[i] = "slash"
    /\ state \in {"block", "star", "line"} =>
           start + 1 <= i /\ text[start] = "slash"
    /\ state = "star" => start + 2 <= i
    /\ state = "line" => text[start + 1] = "slash"

\* The tokens so far are the file up to cdata.
PrefixInv ==
    ~done =>
        /\ tokens = <<>> => start = 1
        /\ tokens # <<>> => /\ tokens[1].from = 1
                            /\ Follows(tokens[Len(tokens)], start)
        /\ \A k \in 1..Len(tokens) :
               /\ tokens[k].from <= tokens[k].to
               /\ k < Len(tokens) => Follows(tokens[k], tokens[k + 1].from)

TokensInv == TypeOK /\ CdataInv /\ PrefixInv /\ TokensAreText

Tokens == [from : 1..Len(text), to : 1..Len(text), type : {"code", "comment"}]

-----------------------------------------------------------------------------
\* One more token that begins where the last one ends.
LEMMA PushToken ==
    ASSUME TypeOK, PrefixInv, ~done, NEW b \in 1..Len(text), start <= b,
           NEW type \in {"code", "comment"},
           tokens' = Append(tokens, Token(start, b, type))
    PROVE  /\ tokens' \in Seq(Tokens) /\ tokens' # <<>>
           /\ tokens'[1].from = 1
           /\ tokens'[Len(tokens')] = Token(start, b, type)
           /\ \A k \in 1..Len(tokens') :
                  /\ tokens'[k].from <= tokens'[k].to
                  /\ k < Len(tokens') => Follows(tokens'[k], tokens'[k + 1].from)
<1>1. /\ tokens \in Seq(Tokens) /\ start \in 1..Len(text) /\ Len(tokens) \in Nat
  <2>1. Len(text) \in Nat
    BY DEF TypeOK
  <2>2. QED
    BY <2>1 DEF TypeOK, Tokens
<1>2. Token(start, b, type) \in Tokens
  BY <1>1 DEF Token, Tokens
<1>3. /\ tokens' \in Seq(Tokens)
      /\ Len(tokens') = Len(tokens) + 1
      /\ tokens'[Len(tokens) + 1] = Token(start, b, type)
      /\ \A k \in 1..Len(tokens) : tokens'[k] = tokens[k]
  BY <1>1, <1>2
<1>4. /\ Token(start, b, type).from = start
      /\ Token(start, b, type).to = b
  BY DEF Token
<1>5. tokens'[1].from = 1
  <2>1. CASE tokens = <<>>
    BY <1>3, <1>4, <2>1 DEF PrefixInv
  <2>2. CASE tokens # <<>>
    <3>1. 1 \in 1..Len(tokens)
      BY <1>1, <2>2
    <3>2. QED
      BY <1>3, <2>2, <3>1 DEF PrefixInv
  <2>3. QED
    BY <2>1, <2>2
<1>6. ASSUME NEW k \in 1..Len(tokens')
      PROVE  /\ tokens'[k].from <= tokens'[k].to
             /\ k < Len(tokens') => Follows(tokens'[k], tokens'[k + 1].from)
  <2>1. CASE k = Len(tokens) + 1
    BY <1>1, <1>3, <1>4, <2>1
  <2>2. CASE k = Len(tokens) /\ tokens # <<>>
    <3>1. k \in 1..Len(tokens)
      BY <1>1, <1>3, <2>2
    <3>2. tokens'[k + 1].from = start /\ tokens'[k] = tokens[k]
      BY <1>3, <1>4, <2>2, <3>1
    <3>3. QED
      BY <2>2, <3>1, <3>2 DEF PrefixInv
  <2>3. CASE k \in 1..Len(tokens) /\ k < Len(tokens)
    <3>1. k + 1 \in 1..Len(tokens)
      BY <1>1, <2>3
    <3>2. tokens'[k] = tokens[k] /\ tokens'[k + 1] = tokens[k + 1]
      BY <1>3, <2>3, <3>1
    <3>3. QED
      BY <2>3, <3>2 DEF PrefixInv
  <2>4. QED
    BY <1>1, <1>3, <1>6, <2>1, <2>2, <2>3
<1>7. QED
  BY <1>1, <1>3, <1>5, <1>6

LEMMA TokensInit ==
    ASSUME Init
    PROVE  TokensInv
<1>1. text \in Seq(Char) /\ Len(text) \in Nat
  BY TextAssumption DEF Init
<1>2. TypeOK
  <2>1. tokens \in Seq(Tokens)
    BY DEF Init
  <2>2. QED
    <3>1. 0 \in 0..Len(text) /\ 1 \in 1..0 + 1
      BY <1>1
    <3>2. QED
      BY <1>1, <2>1, <3>1 DEF Init, TypeOK, States, Tokens
<1>3. CdataInv /\ TokensAreText
  BY DEF Init, CdataInv, TokensAreText
<1>4. PrefixInv
  BY <1>1 DEF Init, PrefixInv
<1>5. QED
  BY <1>2, <1>3, <1>4 DEF TokensInv

\* While characters are read the pass has not returned.
LEMMA Reading ==
    ASSUME TokensInv, i < Len(text)
    PROVE  ~done /\ Len(text) \in Nat /\ i \in Nat /\ start \in Nat
<1>1. Len(text) \in Nat /\ i \in Nat /\ start \in Nat
  BY DEF TokensInv, TypeOK
<1>2. QED
  BY <1>1 DEF TokensInv, CdataInv

\* A character is added to cdata.
LEMMA KeepStep ==
    ASSUME TokensInv, ReadCode \/ ReadSlash \/ ReadBlock \/ ReadStar \/ ReadLine
    PROVE  TokensInv'
<1>1. /\ i < Len(text) /\ i' = i + 1 /\ start' = start /\ tokens' = tokens
      /\ text' = text /\ done' = done
  BY DEF ReadCode, ReadSlash, ReadBlock, ReadStar, ReadLine, In, Read, Keep
<1>2. ~done /\ Len(text) \in Nat /\ i \in Nat /\ start \in Nat
  BY <1>1, Reading
<1>3. state' \in States
  BY DEF ReadCode, ReadSlash, ReadBlock, ReadStar, ReadLine, Read, States
<1>4. TypeOK'
  BY <1>1, <1>2, <1>3 DEF TokensInv, TypeOK
<1>5. CdataInv'
  <2>1. start \in 1..i + 1
    BY DEF TokensInv, TypeOK
  <2>2. CASE ReadCode
    BY <1>1, <1>2, <2>1, <2>2 DEF CdataInv, ReadCode, Read, ch
  <2>3. CASE ReadSlash
    BY <1>1, <1>2, <2>3 DEF CdataInv, ReadSlash, Read
  <2>4. CASE ReadBlock
    BY <1>1, <1>2, <2>4 DEF TokensInv, CdataInv, ReadBlock, Read, In
  <2>5. CASE ReadStar
    BY <1>1, <1>2, <2>5 DEF TokensInv, CdataInv, ReadStar, Read, In
  <2>6. CASE ReadLine
    BY <1>1, <1>2, <2>6 DEF TokensInv, CdataInv, ReadLine, Read, In
  <2>7. QED
    BY <2>2, <2>3, <2>4, <2>5, <2>6
<1>6. PrefixInv' /\ TokensAreText'
  BY <1>1, <1>2 DEF TokensInv, PrefixInv, TokensAreText, Follows
<1>7. QED
  BY <1>4, <1>5, <1>6 DEF TokensInv

\* A token ends at b and cdata begins anew at p.
LEMMA PushStep ==
    ASSUME TokensInv, i < Len(text), i' = i + 1, UNCHANGED <<text, done>>,
           NEW b \in 1..Len(text), start <= b, NEW type \in {"code", "comment"},
           tokens' = Append(tokens, Token(start, b, type)),
           start' \in 1..i' + 1, state' \in States,
           Follows(Token(start, b, type), start')
    PROVE  TypeOK' /\ PrefixInv' /\ TokensAreText'
<1>1. ~done /\ Len(text) \in Nat /\ i \in Nat /\ TypeOK /\ PrefixInv
  BY Reading DEF TokensInv
<1>2. /\ tokens' \in Seq(Tokens) /\ tokens' # <<>>
      /\ tokens'[1].from = 1
      /\ tokens'[Len(tokens')] = Token(start, b, type)
      /\ \A k \in 1..Len(tokens') :
             /\ tokens'[k].from <= tokens'[k].to
             /\ k < Len(tokens') => Follows(tokens'[k], tokens'[k + 1].from)
  BY <1>1, PushToken
<1>3. TypeOK'
  BY <1>1, <1>2 DEF TypeOK, Tokens
<1>4. PrefixInv'
  BY <1>1, <1>2 DEF PrefixInv, Follows
<1>5. TokensAreText'
  BY <1>1 DEF TokensAreText
<1>6. QED
  BY <1>3, <1>4, <1>5

LEMMA CommentStep ==
    ASSUME TokensInv, ReadComment
    PROVE  TokensInv'
<1>1. /\ i < Len(text) /\ i' = i + 1 /\ start' = i /\ text' = text
      /\ done' = done /\ state = "slash" /\ ch \in {"star", "slash"}
      /\ state' = IF ch = "star" THEN "block" ELSE "line"
      /\ tokens' = IF Size > 2 THEN Append(tokens, Token(start, i - 1, "code"))
                               ELSE tokens
  BY DEF ReadComment, In, Read
<1>2. ~done /\ Len(text) \in Nat /\ i \in Nat /\ start \in Nat
  BY <1>1, Reading
<1>3. start \in 1..i /\ text[i] = "slash" /\ TypeOK /\ PrefixInv
  BY <1>1, <1>2 DEF TokensInv, TypeOK, CdataInv
<1>4. state' \in States
  BY <1>1 DEF States
<1>5. CdataInv'
  BY <1>1, <1>2, <1>3 DEF CdataInv, ch
<1>6. CASE Size > 2
  <2>1. i - 1 \in 1..Len(text) /\ start <= i - 1
    BY <1>1, <1>2, <1>3, <1>6 DEF Size
  <2>2. Follows(Token(start, i - 1, "code"), start')
    BY <1>1, <1>2 DEF Follows, Token
  <2>3. QED
    BY <1>1, <1>2, <1>3, <1>4, <1>5, <1>6, <2>1, <2>2, PushStep DEF TokensInv
<1>7. CASE ~(Size > 2)
  <2>1. start = i
    BY <1>2, <1>3, <1>7 DEF Size
  <2>2. start' = start /\ tokens' = tokens
    BY <1>1, <1>7, <2>1
  <2>3. TypeOK'
    BY <1>1, <1>2, <1>3, <1>4, <2>2 DEF TypeOK
  <2>4. PrefixInv' /\ TokensAreText'
    BY <1>1, <1>2, <2>2 DEF TokensInv, PrefixInv, TokensAreText, Follows
  <2>5. QED
    BY <1>5, <2>3, <2>4 DEF TokensInv
<1>8. QED
  BY <1>6, <1>7

LEMMA BlockEndStep ==
    ASSUME TokensInv, ReadBlockEnd
    PROVE  TokensInv'
<1>1. /\ i < Len(text) /\ i' = i + 1 /\ start' = i + 2 /\ text' = text
      /\ done' = done /\ state = "star" /\ state' = "code"
      /\ tokens' = Append(tokens, Token(start, i + 1, "comment"))
  BY DEF ReadBlockEnd, In, Read
<1>2. ~done /\ Len(text) \in Nat /\ i \in Nat /\ start \in Nat
  BY <1>1, Reading
<1>3. i + 1 \in 1..Len(text) /\ start <= i + 1 /\ start' \in 1..i' + 1
  BY <1>1, <1>2 DEF TokensInv, CdataInv
<1>4. Follows(Token(start, i + 1, "comment"), start')
  BY <1>1, <1>2 DEF Follows, Token
<1>5. TypeOK' /\ PrefixInv' /\ TokensAreText'
  BY <1>1, <1>3, <1>4, PushStep DEF States
<1>6. CdataInv'
  BY <1>1, <1>2 DEF CdataInv
<1>7. QED
  BY <1>5, <1>6 DEF TokensInv

LEMMA LineEndStep ==
    ASSUME TokensInv, ReadLineEnd
    PROVE  TokensInv'
<1>1. /\ i < Len(text) /\ i' = i + 1 /\ start' = i + 1 /\ text' = text
      /\ done' = done /\ state = "line" /\ state' = "code"
      /\ text[i + 1] = "nl"
      /\ tokens' = Append(tokens, Token(start, CommentEnd, "comment"))
  BY DEF ReadLineEnd, In, Read, ch
<1>2. ~done /\ Len(text) \in Nat /\ i \in Nat /\ start \in Nat
  BY <1>1, Reading
<1>3. /\ start \in 1..i /\ start + 1 <= i /\ text[start + 1] = "slash"
  BY <1>1, <1>2 DEF TokensInv, TypeOK, CdataInv
<1>4. /\ CommentEnd \in 1..Len(text) /\ start <= CommentEnd
      /\ CommentEnd \in {i - 1, i}
      /\ CommentEnd = i - 1 => text[i] = "cr"
  BY <1>1, <1>2, <1>3 DEF CommentEnd, Size
<1>5. Follows(Token(start, CommentEnd, "comment"), start')
  BY <1>1, <1>2, <1>4 DEF Follows, Token
<1>6. TypeOK' /\ PrefixInv' /\ TokensAreText'
  BY <1>1, <1>2, <1>4, <1>5, PushStep DEF States
<1>7. CdataInv'
  BY <1>1, <1>2 DEF CdataInv
<1>8. QED
  BY <1>6, <1>7 DEF TokensInv

LEMMA FinishStep ==
    ASSUME TokensInv, Finish
    PROVE  TokensInv'
<1>1. /\ i = Len(text) /\ ~done /\ done' = TRUE /\ UNCHANGED <<text, i, start, state>>
      /\ tokens' = IF start <= i THEN Append(tokens, Token(start, i, "code"))
                                 ELSE tokens
  BY DEF Finish
<1>2. /\ Len(text) \in Nat /\ start \in 1..i + 1 /\ TypeOK /\ PrefixInv
  BY DEF TokensInv, TypeOK
<1>3. CdataInv' /\ PrefixInv'
  BY <1>1 DEF TokensInv, CdataInv, PrefixInv
<1>4. CASE start <= i
  <2>1. i \in 1..Len(text)
    BY <1>1, <1>2, <1>4
  <2>2. /\ tokens' \in Seq(Tokens) /\ tokens' # <<>>
        /\ tokens'[1].from = 1
        /\ tokens'[Len(tokens')] = Token(start, i, "code")
        /\ \A k \in 1..Len(tokens') :
               /\ tokens'[k].from <= tokens'[k].to
               /\ k < Len(tokens') => Follows(tokens'[k], tokens'[k + 1].from)
    BY <1>1, <1>2, <1>4, <2>1, PushToken
  <2>3. TypeOK'
    BY <1>1, <1>2, <2>2 DEF TypeOK, Tokens
  <2>4. TokensAreText'
    <3>1. \A k \in DOMAIN tokens' :
              /\ k \in 1..Len(tokens')
              /\ ~(k < Len(tokens')) => tokens'[k].to = Len(text)
      <4>1. Len(tokens') \in Nat /\ DOMAIN tokens' = 1..Len(tokens')
        BY <2>2
      <4>2. Token(start, i, "code").to = Len(text)
        BY <1>1 DEF Token
      <4>3. QED
        BY <2>2, <4>1, <4>2
    <3>2. QED
      BY <1>1, <2>2, <3>1 DEF TokensAreText, Follows
  <2>5. QED
    BY <1>3, <2>3, <2>4 DEF TokensInv
<1>5. CASE ~(start <= i)
  <2>1. tokens' = tokens /\ start = Len(text) + 1
    BY <1>1, <1>2, <1>5
  <2>2. TypeOK'
    BY <1>1, <1>2, <2>1 DEF TypeOK
  <2>3. tokens \in Seq(Tokens)
    BY <1>2 DEF TypeOK, Tokens
  <2>4. text # <<>> => tokens # <<>> /\ tokens[1].from = 1
    <3>1. tokens = <<>> => Len(text) = 0
      BY <1>1, <1>2, <2>1 DEF PrefixInv
    <3>2. Len(text) = 0 => text = <<>>
      BY <1>2 DEF TypeOK
    <3>3. QED
      BY <1>1, <1>2, <3>1, <3>2 DEF PrefixInv
  <2>5. \A k \in 1..Len(tokens) :
           /\ tokens[k].from <= tokens[k].to
           /\ k < Len(tokens) => Follows(tokens[k], tokens[k + 1].from)
    BY <1>1, <1>2 DEF PrefixInv
  <2>6. tokens # <<>> => tokens[Len(tokens)].to = Len(text)
    <3>1. tokens # <<>> => Follows(tokens[Len(tokens)], Len(text) + 1)
      BY <1>1, <1>2, <2>1 DEF PrefixInv
    <3>2. tokens # <<>> => tokens[Len(tokens)] \in Tokens
      <4>1. tokens # <<>> => Len(tokens) \in 1..Len(tokens)
        BY <2>3
      <4>2. QED
        BY <2>3, <4>1
    <3>3. QED
      BY <1>2, <3>1, <3>2 DEF Follows, Tokens
  <2>7. QED
    BY <1>1, <1>3, <2>1, <2>2, <2>3, <2>4, <2>5, <2>6
       DEF TokensInv, TokensAreText, Follows
<1>6. QED
  BY <1>4, <1>5

LEMMA TokensNext ==
    ASSUME TokensInv, [Next]_vars
    PROVE  TokensInv'
<1>1. CASE ReadCode \/ ReadSlash \/ ReadBlock \/ ReadStar \/ ReadLine
  BY <1>1, KeepStep
<1>2. CASE ReadComment
  BY <1>2, CommentStep
<1>3. CASE ReadBlockEnd
  BY <1>3, BlockEndStep
<1>4. CASE ReadLineEnd
  BY <1>4, LineEndStep
<1>5. CASE Finish
  BY <1>5, FinishStep
<1>6. CASE UNCHANGED vars
  BY <1>6 DEF vars, TokensInv, TypeOK, CdataInv, PrefixInv, TokensAreText, Follows
<1>7. QED
  BY <1>1, <1>2, <1>3, <1>4, <1>5, <1>6 DEF Next

\* The pass always reads inside of the file and keeps its tokens in bounds.
THEOREM TokenizerTypeCorrect == Spec => []TypeOK
<1>1. Init => TokensInv
  BY TokensInit
<1>2. TokensInv /\ [Next]_vars => TokensInv'
  BY TokensNext
<1>3. TokensInv => TypeOK
  BY DEF TokensInv
<1>4. QED
  BY <1>1, <1>2, <1>3, PTL DEF Spec

\* The tokens of a file of any length, put together again, are the file: every
\* character is in exactly one of them, in the file's order, but for the "\r"
\* of a "\r\n" that ends a // comment.
THEOREM TokensAreTextHolds == Spec => []TokensAreText
<1>1. Init => TokensInv
  BY TokensInit
<1>2. TokensInv /\ [Next]_vars => TokensInv'
  BY TokensNext
<1>3. TokensInv => TokensAreText
  BY DEF TokensInv
<1>4. QED
  BY <1>1, <1>2, <1>3, PTL DEF Spec

-----------------------------------------------------------------------------
(* The comments of the regular expression.                                 *)

\* A set of natural numbers has a least element.
LEMMA LeastOf ==
    ASSUME NEW T, T \subseteq Nat, T # {}
    PROVE  \E x \in T : \A y \in T : x <= y
<1>1. PICK x \in T : \A y \in T : ~ (<<y, x>> \in OpToRel(<,Nat))
  BY NatLessThanWellFounded, WFMin
<1>2. \A y \in T : ~(y < x)
  BY <1>1 DEF OpToRel
<1>3. QED
  BY <1>2

\* And a greatest one below a bound.
LEMMA GreatestOf ==
    ASSUME NEW b \in Nat, NEW T, T \subseteq 0..b, T # {}
    PROVE  \E x \in T : \A y \in T : x >= y
<1> DEFINE U == {b - x : x \in T}
<1>0. \A x \in T : x \in 0..b /\ b - x \in Nat
  OBVIOUS
<1>1. U \subseteq Nat /\ U # {}
  BY <1>0
<1> HIDE DEF U
<1>2. PICK u \in U : \A v \in U : u <= v
  BY <1>1, LeastOf
<1>3. PICK x \in T : u = b - x
  BY DEF U
<1>4. \A y \in T : b - y \in U
  BY DEF U
<1>5. \A y \in T : x >= y
  BY <1>2, <1>3, <1>4
<1>6. QED
  BY <1>5

\* What holds for 0 and passes on to the next number holds up to b.
LEMMA CountUp ==
    ASSUME NEW b \in Nat, NEW T, 0 \in T,
           \A k \in 0..b : k \in T /\ k < b => k + 1 \in T
    PROVE  b \in T
<1> DEFINE U == {k \in 0..b : k \notin T}
<1>1. SUFFICES ASSUME U # {} PROVE FALSE
  OBVIOUS
<1>2. PICK k \in U : \A m \in U : k <= m
  <2>1. U \subseteq Nat
    OBVIOUS
  <2> HIDE DEF U
  <2>2. QED
    BY <1>1, <2>1, LeastOf
<1>3. k \in 0..b /\ k # 0 /\ k \notin T
  OBVIOUS
<1>4. k - 1 \in 0..b /\ k - 1 < b /\ (k - 1) + 1 = k
  BY <1>3
<1>5. k - 1 \notin U
  <2> HIDE DEF U
  <2>1. ~(k <= k - 1)
    BY <1>3
  <2>2. QED
    BY <1>2, <2>1
<1>6. QED
  BY <1>3, <1>4, <1>5

\* The ends that a match at p can have, and the one it has.
Ends(t, p) == BlockEnds(t, p) \cup LineEnds(t, p)
EndAt(t, p) == IF BlockEnds(t, p) # {} THEN Least(Ends(t, p)) ELSE Greatest(Ends(t, p))

\* What is found from p on, when f is what is found behind it.
FoundFrom(t, f, p) ==
    IF p >= Len(t) THEN {}
    ELSE IF Ends(t, p) = {} THEN f[p + 1]
    ELSE {Token(p, EndAt(t, p), "comment")} \cup f[EndAt(t, p) + 1]

\* The function in the definition of RegexFrom, from k on.
Finds(t, f, k) == f = [p \in k..Len(t) + 1 |-> FoundFrom(t, f, p)]

\* A match ends within the file.
LEMMA EndWithin ==
    ASSUME NEW t \in Seq(Char), NEW p \in 1..Len(t), Ends(t, p) # {}
    PROVE  EndAt(t, p) \in p + 1..Len(t)
<1>1. Len(t) \in Nat /\ p \in Nat
  OBVIOUS
<1>2. Ends(t, p) \subseteq p + 1..Len(t)
  <2>1. BlockEnds(t, p) \subseteq p + 1..Len(t)
    BY <1>1 DEF BlockEnds
  <2>2. LineEnds(t, p) \subseteq p + 1..Len(t)
    BY <1>1 DEF LineEnds
  <2>3. QED
    BY <2>1, <2>2 DEF Ends
<1> DEFINE S == Ends(t, p)
<1>3. S \subseteq Nat /\ S \subseteq 0..Len(t) /\ S # {}
  BY <1>1, <1>2
<1> HIDE DEF S
<1>4. Least(S) \in S
  BY <1>3, LeastOf DEF Least
<1>5. Greatest(S) \in S
  BY <1>1, <1>3, GreatestOf DEF Greatest
<1>6. QED
  BY <1>2, <1>4, <1>5 DEF S, EndAt

\* There is such a function.
LEMMA FindsExists ==
    ASSUME NEW t \in Seq(Char)
    PROVE  \E f : Finds(t, f, 1)
<1>1. PICK n \in Nat : n = Len(t)
  OBVIOUS
<1> DEFINE T == {k \in 0..n : \E f : Finds(t, f, n + 1 - k)}
<1>2. 0 \in T
  <2>1. Finds(t, [p \in n + 1..n + 1 |-> {}], n + 1)
    <3>1. \A f : \A p \in n + 1..n + 1 : FoundFrom(t, f, p) = {}
      BY <1>1 DEF FoundFrom
    <3>2. QED
      BY <1>1, <3>1 DEF Finds
  <2>2. n + 1 - 0 = n + 1 /\ 0 \in 0..n
    BY <1>1
  <2>3. QED
    BY <2>1, <2>2
<1>3. ASSUME NEW j \in 0..n, j \in T, j < n
      PROVE  j + 1 \in T
  <2>1. PICK k, m : k = n + 1 - j /\ m = n + 1 - (j + 1)
    OBVIOUS
  <2>2. /\ m \in 1..n /\ k = m + 1 /\ m \notin k..n + 1 /\ m..n + 1 = {m} \cup (k..n + 1)
        /\ j + 1 \in 0..n
    BY <1>3, <2>1
  <2>3. PICK f : Finds(t, f, k)
    BY <1>3, <2>1
  <2> DEFINE g == [p \in m..n + 1 |-> IF p = m THEN FoundFrom(t, f, m) ELSE f[p]]
  <2>4. \A p \in k..n + 1 : g[p] = f[p]
    BY <2>2
  <2>5. g[m] = FoundFrom(t, f, m)
    BY <2>2
  <2>6. DOMAIN g = m..n + 1 /\ g = [p \in m..n + 1 |-> g[p]]
    OBVIOUS
  <2> HIDE DEF g
  <2>7. ASSUME NEW p \in m..n + 1
        PROVE  FoundFrom(t, g, p) = FoundFrom(t, f, p)
    <3>1. CASE p >= n
      BY <1>1, <3>1 DEF FoundFrom
    <3>2. CASE p < n
      <4>1. p \in 1..Len(t) /\ p + 1 \in k..n + 1
        BY <1>1, <2>2, <3>2
      <4>2. Ends(t, p) # {} => EndAt(t, p) + 1 \in k..n + 1
        <5>1. Ends(t, p) # {} => EndAt(t, p) \in p + 1..n
          BY <1>1, <4>1, EndWithin
        <5>2. QED
          BY <2>2, <4>1, <5>1
      <4>3. QED
        BY <2>4, <4>1, <4>2 DEF FoundFrom
    <3>3. QED
      BY <2>2, <3>1, <3>2
  <2>8. \A p \in m..n + 1 : g[p] = FoundFrom(t, g, p)
    <3>1. \A p \in k..n + 1 : f[p] = FoundFrom(t, f, p)
      BY <1>1, <2>3 DEF Finds
    <3>2. \A p \in m..n + 1 : g[p] = FoundFrom(t, f, p)
      BY <2>2, <2>4, <2>5, <3>1
    <3>3. QED
      BY <2>7, <3>2
  <2>9. Finds(t, g, m)
    BY <1>1, <2>6, <2>8 DEF Finds
  <2>10. QED
    BY <2>1, <2>2, <2>9
<1> HIDE DEF T
<1>4. n \in T
  BY <1>2, <1>3, CountUp
<1>5. QED
  BY <1>4 DEF T

\* What the regular expression finds from p on.
LEMMA RegexStep ==
    ASSUME NEW t \in Seq(Char), NEW p \in 1..Len(t) + 1
    PROVE  RegexFrom(t)[p] = FoundFrom(t, RegexFrom(t), p)
<1>1. RegexFrom(t) = CHOOSE f : Finds(t, f, 1)
  BY DEF RegexFrom, Finds, FoundFrom, Ends, EndAt
<1>2. Finds(t, RegexFrom(t), 1)
  BY <1>1, FindsExists
<1>3. QED
  BY <1>2 DEF Finds

\* Where no match is possible, or the file ends, it looks on behind.
LEMMA RegexSkip ==
    ASSUME NEW t \in Seq(Char), NEW p \in 1..Len(t),
           \/ t[p] # "slash"
           \/ p < Len(t) /\ t[p + 1] \notin {"slash", "star"}
    PROVE  RegexFrom(t)[p] = RegexFrom(t)[p + 1]
<1>1. Ends(t, p) = {}
  BY DEF Ends, BlockEnds, LineEnds
<1>2. p \in 1..Len(t) + 1 /\ p + 1 \in 1..Len(t) + 1
  OBVIOUS
<1>3. CASE p < Len(t)
  <2>1. ~(p >= Len(t))
    BY <1>3
  <2>2. RegexFrom(t)[p] = FoundFrom(t, RegexFrom(t), p)
    BY <1>2, RegexStep
  <2>3. QED
    BY <1>1, <2>1, <2>2 DEF FoundFrom
<1>4. CASE ~(p < Len(t))
  <2>1. p >= Len(t) /\ p + 1 >= Len(t)
    BY <1>4
  <2>2. QED
    BY <1>2, <2>1, RegexStep DEF FoundFrom
<1>5. QED
  BY <1>3, <1>4

\* At the end of the file it finds nothing.
LEMMA RegexLast ==
    ASSUME NEW t \in Seq(Char), NEW p \in 1..Len(t) + 1, p >= Len(t)
    PROVE  RegexFrom(t)[p] = {}
BY RegexStep DEF FoundFrom

\* A match of the first kind ends where a comment is closed for the first time.
LEMMA RegexBlock ==
    ASSUME NEW t \in Seq(Char), NEW p \in 1..Len(t), NEW e \in p + 3..Len(t),
           t[p] = "slash", t[p + 1] = "star", t[e - 1] = "star", t[e] = "slash",
           \A d \in p + 3..e - 1 : ~(t[d - 1] = "star" /\ t[d] = "slash")
    PROVE  RegexFrom(t)[p] = {Token(p, e, "comment")} \cup RegexFrom(t)[e + 1]
<1>1. Len(t) \in Nat /\ p \in Nat /\ e \in Nat /\ p < Len(t) /\ p \in 1..Len(t) + 1
  OBVIOUS
<1> DEFINE S == BlockEnds(t, p)
<1>2. e \in S /\ \A d \in S : e <= d
  <2>1. e \in S
    BY DEF BlockEnds
  <2>2. ASSUME NEW d \in S PROVE e <= d
    <3>1. d \in p + 3..Len(t) /\ t[d - 1] = "star" /\ t[d] = "slash"
      BY DEF BlockEnds
    <3>2. d \notin p + 3..e - 1
      BY <3>1
    <3>3. QED
      BY <1>1, <3>1, <3>2
  <2>3. QED
    BY <2>1, <2>2
<1>3. LineEnds(t, p) = {}
  BY DEF LineEnds
<1>4. S \subseteq Nat
  BY <1>1 DEF BlockEnds
<1>5. Ends(t, p) = S
  BY <1>3 DEF Ends
<1> HIDE DEF S
<1>6. Least(S) = e
  <2>1. Least(S) \in S /\ \A d \in S : Least(S) <= d
    BY <1>2 DEF Least
  <2>2. Least(S) <= e /\ e <= Least(S) /\ Least(S) \in Nat
    BY <1>2, <1>4, <2>1
  <2>3. QED
    BY <1>1, <2>2
<1>7. EndAt(t, p) = e /\ Ends(t, p) # {}
  BY <1>2, <1>5, <1>6 DEF EndAt, S
<1>8. RegexFrom(t)[p] = FoundFrom(t, RegexFrom(t), p)
  BY <1>1, RegexStep
<1>9. ~(p >= Len(t))
  BY <1>1
<1>10. QED
  BY <1>7, <1>8, <1>9 DEF FoundFrom

\* One of the second kind ends before the end of the line.
LEMMA RegexLine ==
    ASSUME NEW t \in Seq(Char), NEW p \in 1..Len(t), NEW e \in p + 1..Len(t),
           t[p] = "slash", t[p + 1] = "slash",
           \A d \in p + 2..e : t[d] \notin {"cr", "nl"},
           e < Len(t), t[e + 1] \in {"cr", "nl"}
    PROVE  RegexFrom(t)[p] = {Token(p, e, "comment")} \cup RegexFrom(t)[e + 1]
<1>1. Len(t) \in Nat /\ p \in Nat /\ e \in Nat /\ p < Len(t) /\ p \in 1..Len(t) + 1
  OBVIOUS
<1> DEFINE S == LineEnds(t, p)
<1>2. e \in S /\ \A d \in S : e >= d
  <2>1. e \in S
    BY DEF LineEnds
  <2>2. ASSUME NEW d \in S PROVE e >= d
    <3>1. d \in p + 1..Len(t) /\ \A c1 \in p + 2..d : t[c1] \notin {"cr", "nl"}
      BY DEF LineEnds
    <3>2. e + 1 \notin p + 2..d
      BY <3>1
    <3>3. QED
      BY <1>1, <3>1, <3>2
  <2>3. QED
    BY <2>1, <2>2
<1>3. BlockEnds(t, p) = {}
  BY DEF BlockEnds
<1>4. S \subseteq Nat
  BY <1>1 DEF LineEnds
<1>5. Ends(t, p) = S
  BY <1>3 DEF Ends
<1> HIDE DEF S
<1>6. Greatest(S) = e
  <2>1. Greatest(S) \in S /\ \A d \in S : Greatest(S) >= d
    BY <1>2 DEF Greatest
  <2>2. Greatest(S) >= e /\ e >= Greatest(S) /\ Greatest(S) \in Nat
    BY <1>2, <1>4, <2>1
  <2>3. QED
    BY <1>1, <2>2
<1>7. EndAt(t, p) = e /\ Ends(t, p) # {}
  BY <1>2, <1>3, <1>5, <1>6 DEF EndAt
<1>8. RegexFrom(t)[p] = FoundFrom(t, RegexFrom(t), p)
  BY <1>1, RegexStep
<1>9. ~(p >= Len(t))
  BY <1>1
<1>10. QED
  BY <1>7, <1>8, <1>9 DEF FoundFrom

\* The comments found so far, and those the regular expression finds from where
\* the pass has begun to look for the next one, are all that it finds.
CommentsInv ==
    WholeLineEnds =>
        LET rest == RegexFrom(text)
        IN  /\ done /\ state \in {"code", "slash"} => Comments = rest[1]
            /\ ~done =>
                  /\ state = "code"  => Comments \cup rest[i + 1] = rest[1]
                  /\ state = "slash" => Comments \cup rest[i] = rest[1]
                  /\ state \in {"block", "star", "line"} =>
                         Comments \cup rest[start] = rest[1]

\* What is known of the comment that is being read.
OpenInv ==
    /\ state \in {"block", "star"} =>
           /\ text[start + 1] = "star"
           /\ \A d \in start + 3..i : ~(text[d - 1] = "star" /\ text[d] = "slash")
    /\ state = "block" /\ i > start + 1 => text[i] # "star"
    /\ state = "star" => text[i] = "star"
    /\ state = "line" => \A d \in start + 2..i : text[d] # "nl"

RegexInv == TokensInv /\ OpenInv /\ CommentsInv

\* One more token.
LEMMA CommentsMore ==
    ASSUME tokens \in Seq(Tokens), NEW x \in Tokens, tokens' = Append(tokens, x)
    PROVE  /\ x.type = "comment" => Comments' = Comments \cup {x}
           /\ x.type = "code"    => Comments' = Comments
<1>1. /\ Len(tokens) \in Nat /\ DOMAIN tokens = 1..Len(tokens)
      /\ DOMAIN tokens' = 1..Len(tokens) + 1 /\ tokens'[Len(tokens) + 1] = x
      /\ \A k \in 1..Len(tokens) : tokens'[k] = tokens[k]
  OBVIOUS
<1> DEFINE K == {k \in DOMAIN tokens : tokens[k].type = "comment"}
           M == {k \in DOMAIN tokens' : tokens'[k].type = "comment"}
<1>2. M = IF x.type = "comment" THEN K \cup {Len(tokens) + 1} ELSE K
  BY <1>1
<1>3. \A k \in K : tokens'[k] = tokens[k]
  BY <1>1
<1>4. Comments = {tokens[k] : k \in K} /\ Comments' = {tokens'[k] : k \in M}
  BY DEF Comments
<1> HIDE DEF K, M
<1>5. CASE x.type = "comment"
  <2>1. {tokens'[k] : k \in M} = {tokens[k] : k \in K} \cup {x}
    BY <1>1, <1>2, <1>3, <1>5
  <2>2. QED
    BY <1>4, <1>5, <2>1
<1>6. CASE x.type = "code"
  <2>1. {tokens'[k] : k \in M} = {tokens[k] : k \in K}
    BY <1>2, <1>3, <1>6
  <2>2. QED
    BY <1>4, <1>6, <2>1
<1>7. QED
  BY <1>5, <1>6

\* Nothing is found before the pass begins.
LEMMA RegexInit ==
    ASSUME Init
    PROVE  RegexInv
<1>1. TokensInv
  BY TokensInit
<1>2. OpenInv
  BY DEF Init, OpenInv
<1>3. Comments = {}
  BY DEF Init, Comments
<1>4. CommentsInv
  BY <1>3 DEF Init, CommentsInv
<1>5. QED
  BY <1>1, <1>2, <1>4 DEF RegexInv

\* What every step of the loop finds.
LEMMA RegexReading ==
    ASSUME RegexInv, i < Len(text)
    PROVE  /\ ~done /\ text \in Seq(Char) /\ Len(text) \in Nat /\ i \in Nat /\ start \in Nat
           /\ start \in 1..i + 1 /\ i + 1 \in 1..Len(text) /\ tokens \in Seq(Tokens)
           /\ i + 1 \in 1..Len(text) + 1 /\ i + 2 \in 1..Len(text) + 1 /\ (i + 1) + 1 = i + 2
<1>1. ~done /\ Len(text) \in Nat /\ i \in Nat /\ start \in Nat
  BY Reading DEF RegexInv
<1>2. text \in Seq(Char) /\ start \in 1..i + 1 /\ tokens \in Seq(Tokens)
  BY DEF RegexInv, TokensInv, TypeOK, Tokens
<1>3. QED
  BY <1>1, <1>2

\* A character outside of comments.
LEMMA RegexCode ==
    ASSUME RegexInv, ReadCode \/ ReadSlash
    PROVE  OpenInv' /\ CommentsInv'
<1>1. /\ i < Len(text) /\ i' = i + 1 /\ UNCHANGED <<text, done, start, tokens>>
  BY DEF ReadCode, ReadSlash, In, Read, Keep
<1>2. /\ ~done /\ text \in Seq(Char) /\ Len(text) \in Nat /\ i \in Nat
      /\ i + 1 \in 1..Len(text) /\ (i + 1) + 1 = i + 2
  BY <1>1, RegexReading
<1>3. Comments' = Comments /\ (WholeLineEnds' <=> WholeLineEnds) /\ state' \in {"code", "slash"}
  BY <1>1 DEF Comments, WholeLineEnds, ReadCode, ReadSlash, Read
<1>4. OpenInv'
  BY <1>3 DEF OpenInv
<1> DEFINE rest == RegexFrom(text)
<1>5. rest' = rest
  BY <1>1
<1>6. WholeLineEnds =>
          /\ state' = "code"  => Comments \cup rest[i + 2] = rest[1]
          /\ state' = "slash" => Comments \cup rest[i + 1] = rest[1]
  <2>1. text[i + 1] # "slash" => rest[i + 1] = rest[i + 2]
    BY <1>2, RegexSkip
  <2>2. CASE ReadCode
    <3>1. /\ WholeLineEnds => Comments \cup rest[i + 1] = rest[1]
          /\ state' = IF text[i + 1] = "slash" THEN "slash" ELSE "code"
      BY <1>2, <2>2 DEF ReadCode, In, Read, ch, RegexInv, CommentsInv
    <3> HIDE DEF rest
    <3>2. QED
      BY <2>1, <3>1
  <2>3. CASE ReadSlash
    <3>1. /\ WholeLineEnds => Comments \cup rest[i] = rest[1]
          /\ state' = "code" /\ text[i + 1] \notin {"star", "slash"} /\ state = "slash"
      BY <1>2, <2>3 DEF ReadSlash, In, Read, ch, RegexInv, CommentsInv
    <3>2. i \in 1..Len(text) /\ i < Len(text)
      BY <1>1, <1>2, <3>1 DEF RegexInv, TokensInv, TypeOK, CdataInv
    <3>3. rest[i] = rest[i + 1]
      BY <1>2, <3>1, <3>2, RegexSkip
    <3> HIDE DEF rest
    <3>4. QED
      BY <2>1, <3>1, <3>3
  <2>4. QED
    BY <2>2, <2>3
<1> HIDE DEF rest
<1>7. CommentsInv'
  <2>1. ~done' /\ i' + 1 = i + 2 /\ rest' = RegexFrom(text)'
    BY <1>1, <1>2 DEF rest
  <2>2. QED
    BY <1>1, <1>3, <1>5, <1>6, <2>1 DEF CommentsInv
<1>8. QED
  BY <1>4, <1>7

\* A comment begins.
LEMMA RegexComment ==
    ASSUME RegexInv, ReadComment
    PROVE  OpenInv' /\ CommentsInv'
<1>1. /\ i < Len(text) /\ i' = i + 1 /\ start' = i /\ text' = text
      /\ done' = done /\ state = "slash" /\ ch \in {"star", "slash"}
      /\ state' = IF ch = "star" THEN "block" ELSE "line"
      /\ tokens' = IF Size > 2 THEN Append(tokens, Token(start, i - 1, "code"))
                               ELSE tokens
  BY DEF ReadComment, In, Read
<1>2. /\ ~done /\ text \in Seq(Char) /\ Len(text) \in Nat /\ i \in Nat /\ start \in Nat
      /\ start \in 1..i + 1 /\ tokens \in Seq(Tokens)
  BY <1>1, RegexReading
<1>3. OpenInv'
  <2>1. /\ text'[start' + 1] = ch /\ start' + 1 = i'
        /\ \A d \in start' + 3..i' : FALSE /\ \A e \in start' + 2..i' : FALSE
    BY <1>1, <1>2 DEF ch
  <2>2. state' \in {"block", "line"} /\ (state' = "block" => ch = "star")
    BY <1>1
  <2>3. ~(i' > start' + 1) /\ \A d : d \notin start' + 3..i' /\ d \notin start' + 2..i'
    BY <1>1, <1>2
  <2>4. QED
    BY <2>1, <2>2, <2>3 DEF OpenInv
<1>4. Comments' = Comments
  <2>1. CASE Size > 2
    <3>1. Token(start, i - 1, "code") \in Tokens
      BY <1>1, <1>2, <2>1 DEF Size, Token, Tokens
    <3>2. Token(start, i - 1, "code").type = "code"
      BY DEF Token
    <3>3. QED
      BY <1>1, <1>2, <2>1, <3>1, <3>2, CommentsMore
  <2>2. CASE ~(Size > 2)
    BY <1>1, <2>2 DEF Comments
  <2>3. QED
    BY <2>1, <2>2
<1>5. CommentsInv'
  <2>1. /\ WholeLineEnds => Comments \cup RegexFrom(text)[i] = RegexFrom(text)[1]
        /\ WholeLineEnds' <=> WholeLineEnds
    BY <1>1, <1>2 DEF RegexInv, CommentsInv, WholeLineEnds
  <2>2. ~done' /\ state' \in {"block", "line"}
    BY <1>1, <1>2
  <2>3. QED
    BY <1>1, <1>4, <2>1, <2>2 DEF CommentsInv
<1>6. QED
  BY <1>3, <1>5

\* A character in a comment.
LEMMA RegexInside ==
    ASSUME RegexInv, ReadBlock \/ ReadStar \/ ReadLine
    PROVE  OpenInv' /\ CommentsInv'
<1>1. /\ i < Len(text) /\ i' = i + 1 /\ UNCHANGED <<text, done, start, tokens>>
  BY DEF ReadBlock, ReadStar, ReadLine, In, Read, Keep
<1>2. /\ ~done /\ text \in Seq(Char) /\ Len(text) \in Nat /\ i \in Nat /\ start \in Nat
  BY <1>1, RegexReading
<1>3. start + 1 <= i
  <2>1. state \in {"block", "star", "line"}
    BY DEF ReadBlock, ReadStar, ReadLine, In
  <2>2. QED
    BY <2>1 DEF RegexInv, TokensInv, CdataInv
<1>4. CASE ReadLine
  <2>1. state = "line" /\ state' = "line" /\ text[i + 1] # "nl"
    BY <1>4 DEF ReadLine, In, Read, ch
  <2>2. \A d \in start + 2..i : text[d] # "nl"
    BY <2>1 DEF RegexInv, OpenInv
  <2>3. \A d \in start + 2..i + 1 : d = i + 1 \/ d \in start + 2..i
    BY <1>2
  <2>4. OpenInv'
    BY <1>1, <2>1, <2>2, <2>3 DEF OpenInv
  <2>5. CommentsInv'
    BY <1>1, <1>2, <2>1 DEF RegexInv, CommentsInv, Comments, WholeLineEnds
  <2>6. QED
    BY <2>4, <2>5
<1>5. CASE ReadBlock \/ ReadStar
  <2>1. /\ state \in {"block", "star"} /\ (state = "star" => text[i + 1] # "slash")
        /\ state' = IF text[i + 1] = "star" THEN "star" ELSE "block"
    BY <1>5 DEF ReadBlock, ReadStar, In, Read, ch
  <2>2. /\ text[start + 1] = "star"
        /\ \A d \in start + 3..i : ~(text[d - 1] = "star" /\ text[d] = "slash")
        /\ state = "block" /\ i > start + 1 => text[i] # "star"
    BY <2>1 DEF RegexInv, OpenInv
  <2>3. \A d \in start + 3..i + 1 : d = i + 1 \/ d \in start + 3..i
    BY <1>2
  <2>4. ASSUME i + 1 \in start + 3..i + 1
        PROVE  ~(text[(i + 1) - 1] = "star" /\ text[i + 1] = "slash")
    <3>1. i > start + 1 /\ (i + 1) - 1 = i
      BY <1>2, <2>4
    <3>2. QED
      BY <2>1, <2>2, <3>1
  <2>5. \A d \in start + 3..i + 1 : ~(text[d - 1] = "star" /\ text[d] = "slash")
    BY <2>2, <2>3, <2>4
  <2>6. OpenInv'
    BY <1>1, <2>1, <2>2, <2>5 DEF OpenInv
  <2>7. CommentsInv'
    BY <1>1, <1>2, <2>1 DEF RegexInv, CommentsInv, Comments, WholeLineEnds
  <2>8. QED
    BY <2>6, <2>7
<1>6. QED
  BY <1>4, <1>5

\* A comment is closed.
LEMMA RegexBlockEnd ==
    ASSUME RegexInv, ReadBlockEnd
    PROVE  OpenInv' /\ CommentsInv'
<1>1. /\ i < Len(text) /\ i' = i + 1 /\ start' = i + 2 /\ text' = text
      /\ done' = done /\ state = "star" /\ state' = "code" /\ text[i + 1] = "slash"
      /\ tokens' = Append(tokens, Token(start, i + 1, "comment"))
  BY DEF ReadBlockEnd, In, Read, ch
<1>2. /\ ~done /\ text \in Seq(Char) /\ Len(text) \in Nat /\ i \in Nat /\ start \in Nat
      /\ start \in 1..i + 1 /\ tokens \in Seq(Tokens) /\ (i + 1) + 1 = i + 2
  BY <1>1, RegexReading
<1>3. /\ start + 2 <= i /\ text[start] = "slash" /\ text[start + 1] = "star" /\ text[i] = "star"
      /\ \A d \in start + 3..i : ~(text[d - 1] = "star" /\ text[d] = "slash")
  BY <1>1 DEF RegexInv, TokensInv, CdataInv, OpenInv
<1> DEFINE rest == RegexFrom(text)
<1>4. rest[start] = {Token(start, i + 1, "comment")} \cup rest[i + 2]
  <2>1. PICK e \in start + 3..Len(text) : e = i + 1 /\ e - 1 = i /\ e + 1 = i + 2
    BY <1>1, <1>2, <1>3
  <2>2. start \in 1..Len(text)
    BY <1>1, <1>2
  <2>3. text[e - 1] = "star" /\ text[e] = "slash"
    BY <1>1, <1>3, <2>1
  <2>4. \A d \in start + 3..e - 1 : ~(text[d - 1] = "star" /\ text[d] = "slash")
    BY <1>3, <2>1
  <2>5. rest[start] = {Token(start, e, "comment")} \cup rest[e + 1]
    BY <1>2, <1>3, <2>2, <2>3, <2>4, RegexBlock
  <2>6. QED
    BY <2>1, <2>5
<1>5. Comments' = Comments \cup {Token(start, i + 1, "comment")}
  <2>1. Token(start, i + 1, "comment") \in Tokens
    BY <1>1, <1>2 DEF Token, Tokens
  <2>2. Token(start, i + 1, "comment").type = "comment"
    BY DEF Token
  <2>3. QED
    BY <1>1, <1>2, <2>1, <2>2, CommentsMore
<1>6. OpenInv'
  BY <1>1 DEF OpenInv
<1>7. WholeLineEnds => Comments \cup rest[start] = rest[1]
  BY <1>1, <1>2 DEF RegexInv, CommentsInv
<1>8. rest' = rest /\ (WholeLineEnds' <=> WholeLineEnds)
  BY <1>1 DEF WholeLineEnds
<1> HIDE DEF rest
<1>9. WholeLineEnds => Comments' \cup rest[i + 2] = rest[1]
  BY <1>4, <1>5, <1>7
<1>10. CommentsInv'
  <2>1. ~done' /\ i' + 1 = i + 2 /\ rest' = RegexFrom(text)'
    BY <1>1, <1>2 DEF rest
  <2>2. QED
    BY <1>1, <1>8, <1>9, <2>1 DEF CommentsInv
<1>11. QED
  BY <1>6, <1>10

\* A line with a comment ends.
LEMMA RegexLineEnd ==
    ASSUME RegexInv, ReadLineEnd
    PROVE  OpenInv' /\ CommentsInv'
<1>1. /\ i < Len(text) /\ i' = i + 1 /\ start' = i + 1 /\ text' = text
      /\ done' = done /\ state = "line" /\ state' = "code" /\ text[i + 1] = "nl"
      /\ tokens' = Append(tokens, Token(start, CommentEnd, "comment"))
  BY DEF ReadLineEnd, In, Read, ch
<1>2. /\ ~done /\ text \in Seq(Char) /\ Len(text) \in Nat /\ i \in Nat /\ start \in Nat
      /\ start \in 1..i + 1 /\ tokens \in Seq(Tokens) /\ i + 1 \in 1..Len(text)
      /\ (i + 1) + 1 = i + 2
  BY <1>1, RegexReading
<1>3. /\ start + 1 <= i /\ text[start] = "slash" /\ text[start + 1] = "slash"
      /\ \A d \in start + 2..i : text[d] # "nl"
  BY <1>1 DEF RegexInv, TokensInv, CdataInv, OpenInv
<1>4. PICK e : e = CommentEnd
  OBVIOUS
<1>5. \/ e = i /\ text[i] # "cr"
      \/ e = i - 1 /\ text[i] = "cr" /\ e >= start + 1
  <2>1. Size > 2
    BY <1>2, <1>3 DEF Size
  <2>2. text[i] = "cr" => i # start + 1
    BY <1>3
  <2>3. text[i] = "cr" => i - 1 >= start + 1
    BY <1>2, <1>3, <2>2
  <2>4. QED
    BY <1>4, <2>1, <2>3 DEF CommentEnd
<1>6. /\ e \in Nat /\ e >= start + 1 /\ e < Len(text) /\ e <= i /\ e \in start + 1..Len(text)
      /\ text[e + 1] \in {"cr", "nl"}
  BY <1>1, <1>2, <1>3, <1>5
<1> DEFINE rest == RegexFrom(text)
<1>7. WholeLineEnds => rest[start] = {Token(start, e, "comment")} \cup rest[e + 1]
  <2>1. SUFFICES ASSUME WholeLineEnds
                 PROVE  rest[start] = {Token(start, e, "comment")} \cup rest[e + 1]
    OBVIOUS
  <2>2. ASSUME NEW d \in start + 2..e PROVE text[d] \notin {"cr", "nl"}
    <3>1. d \in start + 2..i /\ d \in 1..Len(text) /\ d \in Nat /\ d <= e
      BY <1>1, <1>2, <1>6
    <3>2. text[d] # "nl"
      BY <1>3, <3>1
    <3>3. ASSUME text[d] = "cr" PROVE FALSE
      <4>1. text[d + 1] = "nl"
        BY <1>2, <2>1, <3>1, <3>3 DEF WholeLineEnds
      <4>2. d + 1 \notin start + 2..i
        BY <1>3, <4>1
      <4>3. d = i
        BY <1>2, <3>1, <4>2
      <4>4. QED
        BY <1>5, <1>2, <3>1, <3>3, <4>3
    <3>4. QED
      BY <3>2, <3>3
  <2>3. start \in 1..Len(text)
    BY <1>1, <1>2
  <2>4. QED
    BY <1>2, <1>3, <1>6, <2>2, <2>3, RegexLine
<1>8. rest[e + 1] = rest[i + 2]
  <2>1. rest[i + 1] = rest[i + 2]
    BY <1>1, <1>2, RegexSkip
  <2>2. CASE e = i
    BY <2>1, <2>2
  <2>3. CASE e = i - 1 /\ text[i] = "cr"
    <3>1. i \in 1..Len(text) /\ e + 1 = i
      BY <1>1, <1>2, <1>3, <2>3
    <3>2. rest[i] = rest[i + 1]
      BY <1>2, <2>3, <3>1, RegexSkip
    <3>3. QED
      BY <2>1, <3>1, <3>2
  <2>4. QED
    BY <1>5, <2>2, <2>3
<1>9. Comments' = Comments \cup {Token(start, e, "comment")}
  <2>1. Token(start, e, "comment") \in Tokens
    BY <1>1, <1>2, <1>6 DEF Token, Tokens
  <2>2. Token(start, e, "comment").type = "comment"
    BY DEF Token
  <2>3. QED
    BY <1>1, <1>2, <1>4, <2>1, <2>2, CommentsMore
<1>10. OpenInv'
  BY <1>1 DEF OpenInv
<1>11. WholeLineEnds => Comments \cup rest[start] = rest[1]
  BY <1>1, <1>2 DEF RegexInv, CommentsInv
<1>12. rest' = rest /\ (WholeLineEnds' <=> WholeLineEnds)
  BY <1>1 DEF WholeLineEnds
<1> HIDE DEF rest
<1>13. WholeLineEnds => Comments' \cup rest[i + 2] = rest[1]
  BY <1>7, <1>8, <1>9, <1>11
<1>14. CommentsInv'
  <2>1. ~done' /\ i' + 1 = i + 2 /\ rest' = RegexFrom(text)'
    BY <1>1, <1>2 DEF rest
  <2>2. QED
    BY <1>1, <1>12, <1>13, <2>1 DEF CommentsInv
<1>15. QED
  BY <1>10, <1>14

\* The file ends.
LEMMA RegexFinish ==
    ASSUME RegexInv, Finish
    PROVE  OpenInv' /\ CommentsInv'
<1>1. /\ i = Len(text) /\ ~done /\ done' = TRUE /\ UNCHANGED <<text, i, start, state>>
      /\ tokens' = IF start <= i THEN Append(tokens, Token(start, i, "code"))
                                 ELSE tokens
  BY DEF Finish
<1>2. /\ text \in Seq(Char) /\ Len(text) \in Nat /\ i \in Nat /\ start \in 1..i + 1
      /\ tokens \in Seq(Tokens) /\ (state = "slash" => i \in 1..Len(text) + 1)
      /\ i + 1 \in 1..Len(text) + 1
  BY <1>1 DEF RegexInv, TokensInv, TypeOK, CdataInv, Tokens
<1>3. OpenInv'
  BY <1>1 DEF RegexInv, OpenInv
<1>4. Comments' = Comments
  <2>1. CASE start <= i
    <3>1. Token(start, i, "code") \in Tokens
      BY <1>1, <1>2, <2>1 DEF Token, Tokens
    <3>2. Token(start, i, "code").type = "code"
      BY DEF Token
    <3>3. QED
      BY <1>1, <1>2, <2>1, <3>1, <3>2, CommentsMore
  <2>2. CASE ~(start <= i)
    BY <1>1, <2>2 DEF Comments
  <2>3. QED
    BY <2>1, <2>2
<1> DEFINE rest == RegexFrom(text)
<1>5. rest[i + 1] = {} /\ (state = "slash" => rest[i] = {})
  <2>1. i + 1 >= Len(text) /\ i >= Len(text)
    BY <1>1, <1>2
  <2>2. QED
    BY <1>2, <2>1, RegexLast
<1>6. WholeLineEnds /\ state \in {"code", "slash"} => Comments = rest[1]
  <2>1. WholeLineEnds =>
          /\ state = "code"  => Comments \cup rest[i + 1] = rest[1]
          /\ state = "slash" => Comments \cup rest[i] = rest[1]
    BY <1>1 DEF RegexInv, CommentsInv
  <2> HIDE DEF rest
  <2>2. QED
    BY <1>5, <2>1
<1>7. CommentsInv'
  BY <1>1, <1>4, <1>6 DEF CommentsInv, WholeLineEnds
<1>8. QED
  BY <1>3, <1>7

\* Every step keeps the comments found and to be found together.
LEMMA RegexNext ==
    ASSUME RegexInv, [Next]_vars
    PROVE  RegexInv'
<1>1. TokensInv'
  BY TokensNext DEF RegexInv
<1>2. OpenInv' /\ CommentsInv'
  <2>1. CASE ReadCode \/ ReadSlash
    BY <2>1, RegexCode
  <2>2. CASE ReadComment
    BY <2>2, RegexComment
  <2>3. CASE ReadBlock \/ ReadStar \/ ReadLine
    BY <2>3, RegexInside
  <2>4. CASE ReadBlockEnd
    BY <2>4, RegexBlockEnd
  <2>5. CASE ReadLineEnd
    BY <2>5, RegexLineEnd
  <2>6. CASE Finish
    BY <2>6, RegexFinish
  <2>7. CASE UNCHANGED vars
    BY <2>7 DEF vars, RegexInv, OpenInv, CommentsInv, Comments, WholeLineEnds
  <2>8. QED
    BY <2>1, <2>2, <2>3, <2>4, <2>5, <2>6, <2>7 DEF Next
<1>3. QED
  BY <1>1, <1>2 DEF RegexInv

\* For files of any length, whose line ends are whole and whose comments are closed,
\* the pass over the characters finds the comments of the regular expressions it has
\* replaced: the same ones, beginning and ending at the same places.
THEOREM RegexAgreesHolds == Spec => []RegexAgrees
<1>1. Init => RegexInv
  BY RegexInit
<1>2. RegexInv /\ [Next]_vars => RegexInv'
  BY RegexNext
<1>3. RegexInv => RegexAgrees
  BY DEF RegexInv, CommentsInv, RegexAgrees, RegexComments
<1>4. QED
  BY <1>1, <1>2, <1>3, PTL DEF Spec

-----------------------------------------------------------------------------
(* The structures.                                                         *)

\* One of the first k functions has this structure and is not a vector.
SingleUpTo(k, name) ==
    \E m \in 1..k : StructOf(functions[m]) = name /\ functions[m].result # "vector"

BodyType ==
    {NoCode} \cup [exists : BOOLEAN,
                   columns : {[n \in Members(f.fields) |-> ReturnCols(f, n)] :
                                 f \in AnnotatedFunction}]

\* Every structure is that of a function that has been generated.
TypesInv ==
    /\ functions \in Seq(AnnotatedFunction)
    /\ bodies \in Seq(BodyType)
    /\ Len(bodies) <= Len(functions)
    /\ DOMAIN structures
         = {StructOf(functions[n]) : n \in 1..Len(bodies)} \ {NoStruct}
    /\ \A name \in DOMAIN structures :
           /\ structures[name].exists \in BOOLEAN
           /\ ~structures[name].exists => Len(structures[name].fields) > 1

\* Alike functions: a structure has the fields of each of them, and "exists"
\* once one is not a vector; a body sets it when one stood there by then.
AlikeInv ==
    Alike => \A n \in 1..Len(bodies) : Struct(n) # NoStruct =>
        /\ structures[Struct(n)].fields = functions[n].fields
        /\ structures[Struct(n)].exists <=> SingleUpTo(Len(bodies), Struct(n))
        /\ bodies[n] # NoCode /\ Len(functions[n].fields) > 1 =>
             (bodies[n].exists <=> SingleUpTo(n, Struct(n)))

StructuresInv == TypesInv /\ AlikeInv

\* A function's structure is registered when it has one.
LEMMA WithStructResult ==
    ASSUME TypesInv, NEW f \in AnnotatedFunction,
           structures' = WithStruct(structures, f)
    PROVE  /\ DOMAIN structures' = (DOMAIN structures \cup {StructOf(f)})
                                     \ ({NoStruct} \ DOMAIN structures)
           /\ \A n \in DOMAIN structures' :
                  /\ structures'[n].exists \in BOOLEAN
                  /\ ~structures'[n].exists => Len(structures'[n].fields) > 1
           /\ \A n \in DOMAIN structures \ {StructOf(f)} : structures'[n] = structures[n]
           /\ StructOf(f) \notin {NoStruct, "Cond"} =>
                /\ \/ structures'[StructOf(f)].fields = f.fields
                   \/ /\ StructOf(f) \in DOMAIN structures
                      /\ structures'[StructOf(f)].fields = structures[StructOf(f)].fields
                /\ structures'[StructOf(f)].exists <=>
                     \/ f.result # "vector"
                     \/ StructOf(f) \in DOMAIN structures /\ structures[StructOf(f)].exists
<1> DEFINE name == StructOf(f)
           S    == structures
           R    == structures'
<1>0. \A n \in DOMAIN S : S[n].exists \in BOOLEAN /\ (~S[n].exists => Len(S[n].fields) > 1)
  BY DEF TypesInv
<1>1. CASE name = NoStruct
  <2>0. ~Conditional(f)
    BY <1>1 DEF StructOf, Conditional, NoStruct
  <2>1. R = S
    BY <1>1, <2>0 DEF WithStruct
  <2>2. QED
    BY <1>0, <1>1, <2>1
<1>2. ASSUME NEW fields, NEW exists \in BOOLEAN, exists \/ Len(fields) > 1, name # NoStruct,
             R = Register(S, name, fields, exists)
      PROVE  /\ DOMAIN R = (DOMAIN S \cup {name}) \ ({NoStruct} \ DOMAIN S)
             /\ \A n \in DOMAIN R :
                    R[n].exists \in BOOLEAN /\ (~R[n].exists => Len(R[n].fields) > 1)
             /\ \A n \in DOMAIN S \ {name} : R[n] = S[n]
             /\ \/ R[name].fields = fields
                \/ name \in DOMAIN S /\ R[name].fields = S[name].fields
             /\ R[name].exists <=> exists \/ (name \in DOMAIN S /\ S[name].exists)
  <2> HIDE DEF name, R, S
  <2>1. CASE name \in DOMAIN S /\ (~exists \/ S[name].exists)
    BY <1>0, <1>2, <2>1 DEF Register
  <2>2. CASE ~(name \in DOMAIN S /\ (~exists \/ S[name].exists))
    BY <1>0, <1>2, <2>2 DEF Register
  <2>3. QED
    BY <2>1, <2>2
<1>3. CASE name # NoStruct /\ Conditional(f)
  <2>1. name = "Cond"
    BY <1>3 DEF StructOf, Conditional
  <2>2. CASE "Cond" \in DOMAIN S
    <3>1. R = S
      BY <1>3, <2>2 DEF WithStruct
    <3>2. QED
      BY <1>0, <2>1, <2>2, <3>1
  <2>3. CASE "Cond" \notin DOMAIN S
    <3>1. R = Register(S, name, <<"value">>, TRUE)
      BY <1>3, <2>1, <2>3 DEF WithStruct
    <3> HIDE DEF name, R, S
    <3>2. /\ DOMAIN R = (DOMAIN S \cup {name}) \ ({NoStruct} \ DOMAIN S)
          /\ \A n \in DOMAIN R :
                 R[n].exists \in BOOLEAN /\ (~R[n].exists => Len(R[n].fields) > 1)
          /\ \A n \in DOMAIN S \ {name} : R[n] = S[n]
      BY <1>2, <1>3, <3>1
    <3>3. QED
      BY <2>1, <3>2 DEF name, R, S
  <2>4. QED
    BY <2>2, <2>3
<1>4. CASE name # NoStruct /\ ~Conditional(f)
  <2>1. R = Register(S, f.struct, f.fields, f.result # "vector")
    BY <1>4 DEF WithStruct
  <2>2. name = f.struct /\ (f.result # "vector" \/ Len(f.fields) > 1)
    BY <1>4 DEF StructOf
  <2>3. (f.result # "vector") \in BOOLEAN
    OBVIOUS
  <2> HIDE DEF name, R, S
  <2>4. /\ DOMAIN R = (DOMAIN S \cup {name}) \ ({NoStruct} \ DOMAIN S)
        /\ \A n \in DOMAIN R :
               R[n].exists \in BOOLEAN /\ (~R[n].exists => Len(R[n].fields) > 1)
        /\ \A n \in DOMAIN S \ {name} : R[n] = S[n]
        /\ \/ R[name].fields = f.fields
           \/ name \in DOMAIN S /\ R[name].fields = S[name].fields
        /\ R[name].exists
             <=> f.result # "vector" \/ (name \in DOMAIN S /\ S[name].exists)
    BY <1>2, <1>4, <2>1, <2>2, <2>3
  <2>5. QED
    BY <2>4 DEF name, R, S
<1>5. QED
  BY <1>1, <1>3, <1>4

\* A function whose body fills the members of a structure has one, unless it
\* returns void or bool; and whatever has a structure but "Cond" is its own.
LEMMA OwnStruct ==
    ASSUME NEW f \in AnnotatedFunction
    PROVE  /\ StructOf(f) \notin {NoStruct, "Cond"} =>
                StructOf(f) = f.struct /\ f.result # "none"
           /\ Len(f.fields) > 1 /\ f.result # "none" =>
                StructOf(f) = f.struct /\ StructOf(f) # NoStruct
<1>1. f.struct # NoStruct /\ f.result \in {"vector", "single", "raw", "optional", "none"}
  BY DEF AnnotatedFunction, Results
<1>2. Len(f.fields) \in Nat
  BY DEF AnnotatedFunction
<1>3. Len(f.fields) > 1 => Len(f.fields) # 1
  <2>1. \A k \in Nat : k > 1 => k # 1
    OBVIOUS
  <2>2. QED
    BY <1>2, <2>1
<1>4. ASSUME StructOf(f) \notin {NoStruct, "Cond"}
      PROVE  StructOf(f) = f.struct /\ f.result # "none"
  BY <1>4 DEF StructOf, Conditional
<1>5. ASSUME Len(f.fields) > 1, f.result # "none"
      PROVE  StructOf(f) = f.struct /\ StructOf(f) # NoStruct
  <2>1. Len(f.fields) # 1 /\ f.result \in {"vector", "single", "raw", "optional"}
    BY <1>1, <1>3, <1>5
  <2>2. QED
    BY <1>1, <1>5, <2>1 DEF StructOf, Conditional
<1>6. QED
  BY <1>4, <1>5

LEMMA StructuresInit ==
    ASSUME TypesInit
    PROVE  StructuresInv
<1>1. functions \in Seq(AnnotatedFunction) /\ Len(functions) \in Nat
  BY FunctionsAssumption DEF TypesInit
<1>2. /\ bodies \in Seq(BodyType) /\ Len(bodies) = 0
      /\ DOMAIN structures = {}
  BY DEF TypesInit
<1>3. QED
  BY <1>1, <1>2 DEF StructuresInv, TypesInv, AlikeInv

\* The next function is generated.
LEMMA GenerateStep ==
    ASSUME StructuresInv, GenerateFunction
    PROVE  LET k == Len(bodies) + 1
               f == functions[k]
           IN  /\ k \in 1..Len(functions) /\ f \in AnnotatedFunction
               /\ functions' = functions
               /\ structures' = WithStruct(structures, f)
               /\ bodies' \in Seq(BodyType) /\ Len(bodies') = k
               /\ \A n \in 1..Len(bodies) : bodies'[n] = bodies[n]
               /\ bodies'[k] # NoCode => bodies'[k].exists = SetsExists(f, structures')
<1> DEFINE k == Len(bodies) + 1
           f == functions[k]
           b == IF Checks(f) THEN Body(f, structures') ELSE NoCode
<1>1. /\ Len(bodies) < Len(functions) /\ functions' = functions
      /\ structures' = WithStruct(structures, f)
      /\ bodies' = Append(bodies, b)
  BY DEF GenerateFunction
<1>2. /\ functions \in Seq(AnnotatedFunction) /\ bodies \in Seq(BodyType)
      /\ Len(bodies) \in Nat /\ Len(functions) \in Nat
  BY DEF StructuresInv, TypesInv
<1>3. k \in 1..Len(functions) /\ f \in AnnotatedFunction
  BY <1>1, <1>2
<1>4. SetsExists(f, structures') \in BOOLEAN
  BY DEF SetsExists
<1>5. b \in BodyType /\ (b # NoCode => b.exists = SetsExists(f, structures'))
  <2>1. [n \in Members(f.fields) |-> ReturnCols(f, n)]
          \in {[n \in Members(g.fields) |-> ReturnCols(g, n)] : g \in AnnotatedFunction}
    BY <1>3
  <2>2. QED
    BY <1>4, <2>1 DEF BodyType, Body
<1> HIDE DEF b, f
<1>6. /\ bodies' \in Seq(BodyType) /\ Len(bodies') = k /\ bodies'[k] = b
      /\ \A n \in 1..Len(bodies) : bodies'[n] = bodies[n]
  BY <1>1, <1>2, <1>5
<1>7. QED
  BY <1>1, <1>3, <1>5, <1>6 DEF f

LEMMA TypesStep ==
    ASSUME StructuresInv, GenerateFunction
    PROVE  TypesInv'
<1> DEFINE k == Len(bodies) + 1
           f == functions[k]
<1>1. /\ k \in 1..Len(functions) /\ f \in AnnotatedFunction
      /\ functions' = functions
      /\ structures' = WithStruct(structures, f)
      /\ bodies' \in Seq(BodyType) /\ Len(bodies') = k
  BY GenerateStep
<1>2. /\ functions \in Seq(AnnotatedFunction) /\ Len(bodies) \in Nat
      /\ DOMAIN structures = {StructOf(functions[n]) : n \in 1..Len(bodies)} \ {NoStruct}
      /\ TypesInv
  BY DEF StructuresInv, TypesInv
<1>3. /\ DOMAIN structures' = (DOMAIN structures \cup {StructOf(f)})
                                \ ({NoStruct} \ DOMAIN structures)
      /\ \A name \in DOMAIN structures' :
             /\ structures'[name].exists \in BOOLEAN
             /\ ~structures'[name].exists => Len(structures'[name].fields) > 1
  BY <1>1, <1>2, WithStructResult
<1>4. {StructOf(functions'[n]) : n \in 1..Len(bodies')}
        = {StructOf(functions[n]) : n \in 1..Len(bodies)} \cup {StructOf(f)}
  BY <1>1, <1>2
<1>5. DOMAIN structures' = {StructOf(functions'[n]) : n \in 1..Len(bodies')} \ {NoStruct}
  BY <1>2, <1>3, <1>4
<1>6. QED
  BY <1>1, <1>2, <1>3, <1>5 DEF TypesInv

LEMMA AlikeStep ==
    ASSUME StructuresInv, GenerateFunction
    PROVE  AlikeInv'
<1> DEFINE k == Len(bodies) + 1
           f == functions[k]
           S == structures
<1>1. /\ k \in 1..Len(functions) /\ f \in AnnotatedFunction
      /\ functions' = functions
      /\ structures' = WithStruct(S, f)
      /\ Len(bodies') = k
      /\ \A n \in 1..Len(bodies) : bodies'[n] = bodies[n]
      /\ bodies'[k] # NoCode => bodies'[k].exists = SetsExists(f, structures')
  BY GenerateStep
<1>2. /\ functions \in Seq(AnnotatedFunction) /\ Len(bodies) \in Nat /\ Len(functions) \in Nat
      /\ DOMAIN S = {StructOf(functions[n]) : n \in 1..Len(bodies)} \ {NoStruct}
      /\ TypesInv /\ AlikeInv
  BY DEF StructuresInv, TypesInv
<1>3. SUFFICES ASSUME Alike
               PROVE  \A n \in 1..k : StructOf(functions[n]) # NoStruct =>
                        LET name == StructOf(functions[n]) IN
                        /\ structures'[name].fields = functions[n].fields
                        /\ structures'[name].exists <=> SingleUpTo(k, name)
                        /\ bodies'[n] # NoCode /\ Len(functions[n].fields) > 1 =>
                             (bodies'[n].exists <=> SingleUpTo(n, name))
  BY <1>1 DEF AlikeInv, Alike, Struct, SingleUpTo
<1>4. /\ \A n, m \in 1..Len(functions) :
             StructOf(functions[n]) = StructOf(functions[m]) /\ StructOf(functions[n]) # NoStruct
               => functions[n].fields = functions[m].fields
      /\ \A n \in 1..Len(functions) : StructOf(functions[n]) # "Cond"
  BY <1>2, <1>3 DEF Alike, Struct
<1>5. /\ \A name \in DOMAIN S \ {StructOf(f)} : structures'[name] = S[name]
      /\ StructOf(f) # NoStruct =>
           /\ \/ structures'[StructOf(f)].fields = f.fields
              \/ /\ StructOf(f) \in DOMAIN S
                 /\ structures'[StructOf(f)].fields = S[StructOf(f)].fields
           /\ structures'[StructOf(f)].exists <=>
                \/ f.result # "vector"
                \/ StructOf(f) \in DOMAIN S /\ S[StructOf(f)].exists
  BY <1>1, <1>2, <1>4, WithStructResult
<1>6. \A n \in 1..Len(bodies) : StructOf(functions[n]) # NoStruct =>
          /\ S[StructOf(functions[n])].fields = functions[n].fields
          /\ S[StructOf(functions[n])].exists <=> SingleUpTo(Len(bodies), StructOf(functions[n]))
          /\ bodies[n] # NoCode /\ Len(functions[n].fields) > 1 =>
               (bodies[n].exists <=> SingleUpTo(n, StructOf(functions[n])))
  BY <1>2, <1>3 DEF AlikeInv, Struct
<1> HIDE DEF f
<1>7. \A name : SingleUpTo(k, name) <=>
          \/ SingleUpTo(Len(bodies), name)
          \/ StructOf(f) = name /\ f.result # "vector"
  BY <1>1, <1>2 DEF SingleUpTo, f
<1>8. StructOf(f) # NoStruct =>
        /\ structures'[StructOf(f)].fields = f.fields
        /\ structures'[StructOf(f)].exists <=> SingleUpTo(k, StructOf(f))
  <2>1. SUFFICES ASSUME StructOf(f) # NoStruct
                 PROVE  /\ structures'[StructOf(f)].fields = f.fields
                        /\ structures'[StructOf(f)].exists <=> SingleUpTo(k, StructOf(f))
    OBVIOUS
  <2>2. CASE StructOf(f) \in DOMAIN S
    <3>1. PICK n \in 1..Len(bodies) : StructOf(functions[n]) = StructOf(f)
      BY <1>2, <2>2
    <3>2. /\ S[StructOf(f)].fields = functions[n].fields
          /\ S[StructOf(f)].exists <=> SingleUpTo(Len(bodies), StructOf(f))
      BY <1>6, <2>1, <3>1
    <3>3. functions[n].fields = f.fields
      BY <1>1, <1>2, <1>4, <2>1, <3>1 DEF f
    <3>4. QED
      BY <1>5, <1>7, <2>1, <2>2, <3>2, <3>3
  <2>3. CASE StructOf(f) \notin DOMAIN S
    <3>1. ~SingleUpTo(Len(bodies), StructOf(f))
      BY <1>2, <2>1, <2>3 DEF SingleUpTo
    <3>2. QED
      BY <1>5, <1>7, <2>1, <2>3, <3>1
  <2>4. QED
    BY <2>2, <2>3
<1>9. TAKE n \in 1..k
<1>10. HAVE StructOf(functions[n]) # NoStruct
<1>11. CASE n \in 1..Len(bodies)
  <2>1. StructOf(functions[n]) \in DOMAIN S
    BY <1>2, <1>10, <1>11
  <2>2. CASE StructOf(functions[n]) = StructOf(f)
    <3>1. functions[n].fields = f.fields
      BY <1>1, <1>2, <1>4, <1>10, <1>11, <2>2 DEF f
    <3>2. QED
      BY <1>1, <1>6, <1>8, <1>10, <1>11, <2>2, <3>1
  <2>3. CASE StructOf(functions[n]) # StructOf(f)
    BY <1>1, <1>5, <1>6, <1>7, <1>10, <1>11, <2>1, <2>3
  <2>4. QED
    BY <2>2, <2>3
<1>12. CASE n = k
  <2>1. functions[n] = f /\ StructOf(f) # NoStruct
    BY <1>10, <1>12 DEF f
  <2>2. f.result \in {"vector", "single", "raw", "optional"}
    <3>1. f \in AnnotatedFunction /\ StructOf(f) # "Cond"
      BY <1>1, <1>4 DEF f
    <3>2. f.result \in {"vector", "single", "raw", "optional", "none"}
      BY <3>1 DEF AnnotatedFunction, Results
    <3>3. QED
      BY <2>1, <3>1, <3>2, OwnStruct
  <2>3. Len(f.fields) > 1 => (SetsExists(f, structures') <=> SingleUpTo(k, StructOf(f)))
    <3>1. CASE f.result \in {"single", "raw", "optional"}
      BY <1>7, <3>1 DEF SetsExists
    <3>2. CASE f.result = "vector"
      BY <1>8, <2>1, <3>2 DEF SetsExists
    <3>3. QED
      BY <2>2, <3>1, <3>2
  <2>4. QED
    BY <1>1, <1>8, <1>12, <2>1, <2>3 DEF f
<1>13. QED
  BY <1>2, <1>11, <1>12

LEMMA StructuresNext ==
    ASSUME StructuresInv, [GenerateFunction]_typeVars
    PROVE  StructuresInv'
<1>1. CASE GenerateFunction
  BY <1>1, TypesStep, AlikeStep DEF StructuresInv
<1>2. CASE UNCHANGED typeVars
  BY <1>2 DEF typeVars, StructuresInv, TypesInv, AlikeInv, Alike, Struct, SingleUpTo
<1>3. QED
  BY <1>1, <1>2

\* Every structure says whether it has "exists", and one without it has more than
\* one field; one without fields is that of a function without @return.
THEOREM TypesTypeCorrect == TypesSpec => []TypesTypeOK
<1>1. TypesInit => StructuresInv
  BY StructuresInit
<1>2. StructuresInv /\ [GenerateFunction]_typeVars => StructuresInv'
  BY StructuresNext
<1>3. StructuresInv => TypesTypeOK
  BY DEF StructuresInv, TypesInv, TypesTypeOK
<1>4. QED
  BY <1>1, <1>2, <1>3, PTL DEF TypesSpec

\* What the invariant says of a written body with fields, when all are generated.
LEMMA FinishedTypes ==
    ASSUME StructuresInv, Finished, Alike, NEW n \in Filling
    PROVE  /\ n \in 1..Len(functions) /\ functions[n] \in AnnotatedFunction
           /\ Struct(n) \in DOMAIN structures
           /\ structures[Struct(n)].fields = functions[n].fields
           /\ structures[Struct(n)].exists \in BOOLEAN
           /\ structures[Struct(n)].exists <=> SingleUpTo(Len(functions), Struct(n))
           /\ bodies[n].exists \in BOOLEAN
           /\ bodies[n].exists <=> SingleUpTo(n, Struct(n))
<1>1. /\ functions \in Seq(AnnotatedFunction) /\ bodies \in Seq(BodyType)
      /\ Len(bodies) = Len(functions) /\ Len(functions) \in Nat
      /\ n \in 1..Len(bodies) /\ bodies[n] # NoCode /\ Len(functions[n].fields) > 1
  BY DEF StructuresInv, TypesInv, Finished, Written, Filling
<1>2. Struct(n) # NoStruct
  <2>1. functions[n].result # "none"
    <3>1. Len(functions[n].fields) # 0
      BY <1>1
    <3>2. QED
      BY <1>1, <3>1 DEF Alike
  <2>2. QED
    BY <1>1, <2>1, OwnStruct DEF Struct
<1>3. /\ Struct(n) \in DOMAIN structures
      /\ structures[Struct(n)].exists \in BOOLEAN
  BY <1>1, <1>2 DEF StructuresInv, TypesInv, Struct
<1>4. bodies[n].exists \in BOOLEAN
  BY <1>1 DEF BodyType
<1>5. QED
  BY <1>1, <1>2, <1>3, <1>4 DEF StructuresInv, AlikeInv

\* When the functions of each structure have the same fields the header declares
\* what the bodies fill: for any number of functions, in any order, whichever of
\* them fail their check.
THEOREM FieldsDeclaredHolds == TypesSpec => []FieldsDeclared
<1>1. TypesInit => StructuresInv
  BY StructuresInit
<1>2. StructuresInv /\ [GenerateFunction]_typeVars => StructuresInv'
  BY StructuresNext
<1>3. StructuresInv => FieldsDeclared
  <2>1. SUFFICES ASSUME StructuresInv, Finished, Alike, NEW n \in Filling
                 PROVE  /\ Struct(n) \in DOMAIN structures
                        /\ Members(functions[n].fields)
                              \subseteq Members(structures[Struct(n)].fields)
                        /\ bodies[n].exists => structures[Struct(n)].exists
    BY DEF FieldsDeclared
  <2>2. /\ n \in 1..Len(functions) /\ Len(functions) \in Nat
        /\ SingleUpTo(n, Struct(n)) => SingleUpTo(Len(functions), Struct(n))
    BY <2>1, FinishedTypes DEF SingleUpTo, StructuresInv, TypesInv
  <2>3. QED
    BY <2>1, <2>2, FinishedTypes
<1>4. QED
  BY <1>1, <1>2, <1>3, PTL DEF TypesSpec

\* Which rows never say that they exist, although their type can: those of the
\* vectors before the first function with their structure that is not a vector,
\* and no others.
THEOREM ExistsSetHolds == TypesSpec => []ExistsSet
<1>1. TypesInit => StructuresInv
  BY StructuresInit
<1>2. StructuresInv /\ [GenerateFunction]_typeVars => StructuresInv'
  BY StructuresNext
<1>3. StructuresInv => ExistsSet
  <2>1. SUFFICES ASSUME StructuresInv, Finished, Alike, NEW n \in Filling
                 PROVE  (bodies[n].exists # structures[Struct(n)].exists) <=>
                          /\ \A m \in 1..n : Struct(m) = Struct(n)
                                               => functions[m].result = "vector"
                          /\ \E m \in DOMAIN functions :
                                 Struct(m) = Struct(n) /\ functions[m].result # "vector"
    BY DEF ExistsSet
  <2>2. /\ n \in 1..Len(functions) /\ Len(functions) \in Nat
        /\ DOMAIN functions = 1..Len(functions)
    BY <2>1, FinishedTypes DEF StructuresInv, TypesInv
  <2>3. /\ SingleUpTo(n, Struct(n)) <=>
             ~\A m \in 1..n : Struct(m) = Struct(n) => functions[m].result = "vector"
        /\ SingleUpTo(Len(functions), Struct(n)) <=>
             \E m \in DOMAIN functions :
                 Struct(m) = Struct(n) /\ functions[m].result # "vector"
    BY <2>2 DEF SingleUpTo, Struct
  <2>4. SingleUpTo(n, Struct(n)) => SingleUpTo(Len(functions), Struct(n))
    BY <2>2 DEF SingleUpTo
  <2>5. /\ structures[Struct(n)].exists \in BOOLEAN /\ bodies[n].exists \in BOOLEAN
        /\ structures[Struct(n)].exists <=> SingleUpTo(Len(functions), Struct(n))
        /\ bodies[n].exists <=> SingleUpTo(n, Struct(n))
    BY <2>1, FinishedTypes
  <2>6. (bodies[n].exists # structures[Struct(n)].exists) <=>
          ~SingleUpTo(n, Struct(n)) /\ SingleUpTo(Len(functions), Struct(n))
    BY <2>4, <2>5
  <2>7. QED
    BY <2>3, <2>6
<1>4. QED
  BY <1>1, <1>2, <1>3, PTL DEF TypesSpec

-----------------------------------------------------------------------------
(* The columns.                                                            *)

\* How often c is among the first n atoms.
Count(s, a, n) == Cardinality({m \in 1..n : s[m] = a})

\* One atom more.
LEMMA CountStep ==
    ASSUME NEW s, NEW a, NEW n \in Nat
    PROVE  /\ Count(s, a, n) \in Nat /\ Count(s, a, 0) = 0
           /\ Count(s, a, n + 1) = IF s[n + 1] = a THEN Count(s, a, n) + 1 ELSE Count(s, a, n)
<1> DEFINE S(m) == {k \in 1..m : s[k] = a}
<1>1. IsFiniteSet(S(n)) /\ Cardinality(S(n)) \in Nat
  <2>1. IsFiniteSet(1..n)
    BY FS_Interval
  <2>2. S(n) \in SUBSET (1..n)
    OBVIOUS
  <2> HIDE DEF S
  <2>3. QED
    BY <2>1, <2>2, FS_Subset, FS_CardinalityType
<1>2. S(0) = {}
  OBVIOUS
<1>3. S(n + 1) = (IF s[n + 1] = a THEN S(n) \cup {n + 1} ELSE S(n)) /\ n + 1 \notin S(n)
  <2>1. 1..n + 1 = (1..n) \cup {n + 1} /\ n + 1 \notin 1..n
    OBVIOUS
  <2>2. QED
    BY <2>1
<1>4. Count(s, a, n) = Cardinality(S(n)) /\ Count(s, a, n + 1) = Cardinality(S(n + 1))
      /\ Count(s, a, 0) = Cardinality(S(0))
  BY DEF Count
<1> HIDE DEF S
<1>5. Cardinality(S(0)) = 0
  BY <1>2, FS_EmptySet
<1>6. Cardinality(S(n + 1)) = IF s[n + 1] = a THEN Cardinality(S(n)) + 1 ELSE Cardinality(S(n))
  BY <1>1, <1>3, FS_AddElement
<1>7. QED
  BY <1>1, <1>4, <1>5, <1>6

\* The parentheses that are open behind n atoms.
Behind(f, n) == Count(f.select, "open", n) - Count(f.select, "close", n)

\* An atom opens one, closes one, or neither.
LEMMA BehindStep ==
    ASSUME NEW f, NEW n \in Nat
    PROVE  /\ Behind(f, n) \in Int /\ Behind(f, 0) = 0
           /\ Behind(f, n + 1) = CASE f.select[n + 1] = "open"  -> Behind(f, n) + 1
                                   [] f.select[n + 1] = "close" -> Behind(f, n) - 1
                                   [] OTHER                     -> Behind(f, n)
           /\ Depth(f, n + 1) = IF f.select[n + 1] = "open" THEN Behind(f, n) + 1
                                                             ELSE Behind(f, n)
<1> DEFINE s == f.select
<1>1. PICK o, q : o = Count(s, "open", n) /\ q = Count(s, "close", n)
  OBVIOUS
<1>2. /\ o \in Nat /\ q \in Nat /\ Count(s, "open", 0) = 0 /\ Count(s, "close", 0) = 0
      /\ Count(s, "open", n + 1) = IF s[n + 1] = "open" THEN o + 1 ELSE o
      /\ Count(s, "close", n + 1) = IF s[n + 1] = "close" THEN q + 1 ELSE q
  BY <1>1, CountStep
<1>3. Depth(f, n + 1) = Count(s, "open", n + 1) - q
  <2>1. (n + 1) - 1 = n
    OBVIOUS
  <2>2. QED
    BY <1>1, <2>1 DEF Depth, Count
<1>4. Behind(f, n) = o - q /\ Behind(f, 0) = 0 - 0
      /\ Behind(f, n + 1) = Count(s, "open", n + 1) - Count(s, "close", n + 1)
  BY <1>1, <1>2 DEF Behind
<1> HIDE DEF s
<1>5. PICK a : a = s[n + 1]
  OBVIOUS
<1>6. /\ Behind(f, n + 1) = CASE a = "open"  -> Behind(f, n) + 1
                              [] a = "close" -> Behind(f, n) - 1
                              [] OTHER       -> Behind(f, n)
      /\ Depth(f, n + 1) = IF a = "open" THEN Behind(f, n) + 1 ELSE Behind(f, n)
  <2>1. CASE a = "open"
    BY <1>2, <1>3, <1>4, <1>5, <2>1
  <2>2. CASE a = "close"
    BY <1>2, <1>3, <1>4, <1>5, <2>2
  <2>3. CASE a \notin {"open", "close"}
    BY <1>2, <1>3, <1>4, <1>5, <2>3
  <2>4. QED
    BY <2>1, <2>2, <2>3
<1>7. QED
  BY <1>2, <1>4, <1>5, <1>6 DEF s

\* In a list with names no more parentheses are closed than were opened.
LEMMA BehindNat ==
    ASSUME NEW f, f.select \in Seq(STRING), ListNamed(f)
    PROVE  \A n \in 0..Len(f.select) : Behind(f, n) \in Nat
<1>1. Len(f.select) \in Nat
  OBVIOUS
<1>2. SUFFICES ASSUME NEW b \in 0..Len(f.select) PROVE Behind(f, b) \in Nat
  OBVIOUS
<1> DEFINE T == {n \in 0..b : Behind(f, n) \in Nat}
<1>3. 0 \in T
  BY <1>1, BehindStep
<1>4. ASSUME NEW n \in 0..b, n \in T, n < b
      PROVE  n + 1 \in T
  <2>1. n \in Nat /\ n + 1 \in 0..b /\ n + 1 \in 1..Len(f.select) /\ Behind(f, n) \in Nat
    BY <1>1, <1>4
  <2>2. f.select[n + 1] = "close" => Depth(f, n + 1) > 0
    BY <2>1 DEF ListNamed
  <2>3. f.select[n + 1] = "close" => Behind(f, n) > 0
    BY <2>1, <2>2, BehindStep
  <2>4. PICK x, y, d : x = Behind(f, n) /\ y = Behind(f, n + 1) /\ d = f.select[n + 1]
    OBVIOUS
  <2>5. y = CASE d = "open" -> x + 1 [] d = "close" -> x - 1 [] OTHER -> x
    BY <2>1, <2>4, BehindStep
  <2>6. x \in Nat /\ (d = "close" => x > 0)
    BY <2>1, <2>3, <2>4
  <2>7. y \in Nat
    BY <2>5, <2>6
  <2>8. QED
    BY <2>1, <2>4, <2>7
<1> HIDE DEF T
<1>5. b \in T
  BY <1>1, <1>3, <1>4, CountUp
<1>6. QED
  BY <1>5 DEF T

\* The breaks before an atom.
NumberAt(f, n) == Cardinality({b \in Breaks(f) : b < n})

\* An atom is a break or is not.
LEMMA NumberStep ==
    ASSUME NEW f, ListEnd(f) \in Nat, NEW n \in Nat
    PROVE  /\ NumberAt(f, n) \in Nat /\ NumberAt(f, 1) = 0
           /\ NumberAt(f, n + 1) = IF n \in Breaks(f) THEN NumberAt(f, n) + 1
                                                       ELSE NumberAt(f, n)
<1> DEFINE S(m) == {b \in Breaks(f) : b < m}
<1>1. Breaks(f) \subseteq 1..ListEnd(f) - 1 /\ IsFiniteSet(1..ListEnd(f) - 1)
  BY FS_Interval DEF Breaks
<1>2. IsFiniteSet(S(n)) /\ Cardinality(S(n)) \in Nat
  <2>1. S(n) \in SUBSET (1..ListEnd(f) - 1)
    BY <1>1
  <2> HIDE DEF S
  <2>2. QED
    BY <1>1, <2>1, FS_Subset, FS_CardinalityType
<1>3. S(1) = {}
  BY <1>1
<1>4. S(n + 1) = (IF n \in Breaks(f) THEN S(n) \cup {n} ELSE S(n)) /\ n \notin S(n)
  BY <1>1
<1>5. NumberAt(f, n) = Cardinality(S(n)) /\ NumberAt(f, n + 1) = Cardinality(S(n + 1))
      /\ NumberAt(f, 1) = Cardinality(S(1))
  BY DEF NumberAt
<1> HIDE DEF S
<1>6. Cardinality(S(1)) = 0
  BY <1>3, FS_EmptySet
<1>7. Cardinality(S(n + 1)) = IF n \in Breaks(f) THEN Cardinality(S(n)) + 1
                                                ELSE Cardinality(S(n))
  BY <1>2, <1>4, FS_AddElement
<1>8. QED
  BY <1>2, <1>5, <1>6, <1>7

\* p are the atoms outside of parentheses from lo to hi.
Filtered(f, p, lo, hi) ==
    \E at \in [1..Len(p) -> lo..hi] :
        /\ \A j \in 1..Len(p) : p[j] = f.select[at[j]] /\ Depth(f, at[j]) = 0
        /\ \A j, k \in 1..Len(p) : j < k => at[j] < at[k]
        /\ \A e \in lo..hi : Depth(f, e) = 0 => \E j \in 1..Len(p) : at[j] = e

\* Nothing stands between no atoms.
LEMMA FilterNone ==
    ASSUME NEW f, NEW lo, NEW hi, lo \in Nat, hi \in Nat, lo = hi + 1
    PROVE  Filtered(f, <<>>, lo, hi)
<1>1. lo..hi = {} /\ 1..Len(<<>>) = {}
  OBVIOUS
<1>2. [j \in {} |-> 0] \in [1..Len(<<>>) -> lo..hi]
  BY <1>1
<1>3. QED
  BY <1>1, <1>2 DEF Filtered

\* One atom more, in parentheses or not.
LEMMA FilterSkip ==
    ASSUME NEW f, NEW p, NEW lo, NEW hi, NEW d, lo \in Nat, hi \in Nat, d = hi + 1,
           Filtered(f, p, lo, hi), Depth(f, d) # 0
    PROVE  Filtered(f, p, lo, d)
<1>1. PICK at \in [1..Len(p) -> lo..hi] :
          /\ \A j \in 1..Len(p) : p[j] = f.select[at[j]] /\ Depth(f, at[j]) = 0
          /\ \A j, k \in 1..Len(p) : j < k => at[j] < at[k]
          /\ \A e \in lo..hi : Depth(f, e) = 0 => \E j \in 1..Len(p) : at[j] = e
  BY DEF Filtered
<1>2. lo..hi \subseteq lo..d /\ \A e \in lo..d : e = d \/ e \in lo..hi
  OBVIOUS
<1>3. at \in [1..Len(p) -> lo..d]
  BY <1>1, <1>2
<1>4. \A e \in lo..d : Depth(f, e) = 0 => \E j \in 1..Len(p) : at[j] = e
  BY <1>1, <1>2
<1>5. QED
  BY <1>1, <1>3, <1>4 DEF Filtered

\* An atom outside of parentheses is the last of them.
LEMMA FilterMore ==
    ASSUME NEW f, NEW p, NEW lo, NEW hi, NEW d, lo \in Nat, hi \in Nat, d = hi + 1, lo <= d,
           p \in Seq(STRING), f.select[d] \in STRING, Filtered(f, p, lo, hi), Depth(f, d) = 0
    PROVE  Filtered(f, Append(p, f.select[d]), lo, d)
<1>1. PICK at \in [1..Len(p) -> lo..hi] :
          /\ \A j \in 1..Len(p) : p[j] = f.select[at[j]] /\ Depth(f, at[j]) = 0
          /\ \A j, k \in 1..Len(p) : j < k => at[j] < at[k]
          /\ \A e \in lo..hi : Depth(f, e) = 0 => \E j \in 1..Len(p) : at[j] = e
  BY DEF Filtered
<1>2. /\ d \in Nat /\ d \in lo..d /\ d \notin lo..hi /\ lo..hi \subseteq lo..d
      /\ \A e \in lo..d : e = d \/ e \in lo..hi
      /\ \A e \in lo..hi : e < d
  OBVIOUS
<1>3. PICK n \in Nat : n = Len(p)
  OBVIOUS
<1> DEFINE q == Append(p, f.select[d])
           to == [j \in 1..n + 1 |-> IF j = n + 1 THEN d ELSE at[j]]
<1>4. q[n + 1] = f.select[d] /\ \A j \in 1..n : q[j] = p[j]
  BY <1>3
<1>0. Len(q) = n + 1
  BY <1>3
<1>5. n + 1 \in 1..n + 1 /\ \A j \in 1..n + 1 : j = n + 1 \/ j \in 1..n
  BY <1>3
<1>6. to[n + 1] = d /\ \A j \in 1..n : to[j] = at[j] /\ j \in 1..n + 1 /\ j # n + 1
  BY <1>3, <1>5
<1>7. to \in [1..n + 1 -> lo..d]
  BY <1>1, <1>2, <1>3, <1>5
<1> HIDE DEF q, to
<1>8. \A j \in 1..n + 1 : q[j] = f.select[to[j]] /\ Depth(f, to[j]) = 0
  BY <1>1, <1>3, <1>4, <1>5, <1>6
<1>9. ASSUME NEW j \in 1..n + 1, NEW k \in 1..n + 1, j < k PROVE to[j] < to[k]
  <2>1. j \in 1..n
    BY <1>3, <1>9
  <2>2. CASE k = n + 1
    <3>1. to[j] \in lo..hi /\ to[k] = d
      BY <1>1, <1>3, <1>6, <2>1, <2>2
    <3>2. QED
      BY <1>2, <3>1
  <2>3. CASE k \in 1..n
    BY <1>1, <1>3, <1>6, <1>9, <2>1, <2>3
  <2>4. QED
    BY <1>5, <2>2, <2>3
<1>10. \A e \in lo..d : Depth(f, e) = 0 => \E j \in 1..n + 1 : to[j] = e
  BY <1>1, <1>2, <1>3, <1>5, <1>6
<1>11. Filtered(f, q, lo, d)
  <2>1. 1..Len(q) = 1..n + 1
    BY <1>0
  <2>2. /\ to \in [1..Len(q) -> lo..d]
        /\ \A j \in 1..Len(q) : q[j] = f.select[to[j]] /\ Depth(f, to[j]) = 0
    BY <1>7, <1>8, <2>1, Zenon
  <2>3. \A j, k \in 1..Len(q) : j < k => to[j] < to[k]
    BY <1>9, <2>1, Zenon
  <2>4. \A e \in lo..d : Depth(f, e) = 0 => \E j \in 1..Len(q) : to[j] = e
    BY <1>10, <2>1, Zenon
  <2>5. QED
    BY <2>2, <2>3, <2>4, Zenon DEF Filtered
<1>12. QED
  BY <1>11 DEF q

\* x is what tokenizeIgnoreParentheses makes of the atom a after y.
ScanAtom(a, y) ==
    CASE a = "open"                 -> [y EXCEPT !.depth = @ + 1]
      [] a = "close" /\ y.depth > 0 -> [y EXCEPT !.depth = @ - 1]
      [] a \notin {"open", "close"} /\ y.depth > 0 -> y
      [] a \in {"comma", "literal"} /\ y.depth = 0 ->
           [y EXCEPT !.str = <<>>, !.ret = Append(@, y.str)]
      [] OTHER                      -> [y EXCEPT !.str = Append(@, a)]

ScanStart == [depth |-> 0, str |-> <<>>, ret |-> <<>>]

\* g is the function that Scanned chooses, up to b.
Scans(s, g, b) ==
    g = [n \in 0..b |-> IF n = 0 THEN ScanStart ELSE ScanAtom(s[n], g[n - 1])]

\* There is such a function.
LEMMA ScansExists ==
    ASSUME NEW s, NEW b \in Nat
    PROVE  \E g : Scans(s, g, b)
<1> DEFINE T == {n \in 0..b : \E g : Scans(s, g, n)}
<1>1. 0 \in T
  <2>1. Scans(s, [n \in 0..0 |-> ScanStart], 0)
    BY DEF Scans
  <2>2. QED
    BY <2>1
<1>2. ASSUME NEW n \in 0..b, n \in T, n < b
      PROVE  n + 1 \in T
  <2>1. PICK m : m = n + 1
    OBVIOUS
  <2>2. /\ n \in Nat /\ m \in 0..b /\ m \notin 0..n /\ m - 1 = n /\ m # 0
        /\ 0..m = {m} \cup (0..n) /\ \A k \in 0..n : k # 0 => k - 1 \in 0..n
    BY <1>2, <2>1
  <2>3. PICK g : Scans(s, g, n)
    BY <1>2
  <2> DEFINE h == [k \in 0..m |-> IF k = m THEN ScanAtom(s[m], g[n]) ELSE g[k]]
  <2>4. h[m] = ScanAtom(s[m], g[n]) /\ \A k \in 0..n : h[k] = g[k]
    BY <2>2
  <2>5. DOMAIN h = 0..m /\ h = [k \in 0..m |-> h[k]]
    OBVIOUS
  <2> HIDE DEF h
  <2>6. \A k \in 0..n : g[k] = IF k = 0 THEN ScanStart ELSE ScanAtom(s[k], g[k - 1])
    BY <2>3 DEF Scans
  <2>7. \A k \in 0..m : h[k] = IF k = 0 THEN ScanStart ELSE ScanAtom(s[k], h[k - 1])
    <3>1. n \in 0..n
      BY <2>2
    <3>2. QED
      BY <2>2, <2>4, <2>6, <3>1
  <2>8. Scans(s, h, m)
    BY <2>5, <2>7 DEF Scans
  <2>9. QED
    BY <2>1, <2>2, <2>8
<1> HIDE DEF T
<1>3. b \in T
  BY <1>1, <1>2, CountUp
<1>4. QED
  BY <1>3 DEF T

\* What has been scanned after each atom.
LEMMA ScannedStep ==
    ASSUME NEW s, Len(s) \in Nat
    PROVE  /\ Scanned(s)[0] = ScanStart
           /\ \A n \in 1..Len(s) : Scanned(s)[n] = ScanAtom(s[n], Scanned(s)[n - 1])
<1>1. Scans(s, Scanned(s), Len(s))
  <2>1. PICK b : b = Len(s)
    OBVIOUS
  <2>2. \E g : Scans(s, g, b)
    BY <2>1, ScansExists
  <2>3. Scanned(s) = CHOOSE g : Scans(s, g, b)
    BY <2>1 DEF Scanned, Scans, ScanStart, ScanAtom
  <2>4. QED
    BY <2>1, <2>2, <2>3
<1>2. \A n \in 0..Len(s) : Scanned(s)[n] =
          IF n = 0 THEN ScanStart ELSE ScanAtom(s[n], Scanned(s)[n - 1])
  BY <1>1 DEF Scans
<1>3. QED
  BY <1>2

\* Nor does an atom stand in fewer.
LEMMA DepthNat ==
    ASSUME NEW f, f.select \in Seq(STRING), ListNamed(f)
    PROVE  \A n \in 1..Len(f.select) : Depth(f, n) \in Nat
<1>1. Len(f.select) \in Nat
  OBVIOUS
<1>2. ASSUME NEW n \in 1..Len(f.select) PROVE Depth(f, n) \in Nat
  <2>1. PICK m : m = n - 1
    OBVIOUS
  <2>2. m \in 0..Len(f.select) /\ m \in Nat /\ n = m + 1
    BY <1>1, <2>1
  <2>3. Behind(f, m) \in Nat
    BY <2>2, BehindNat
  <2>4. Depth(f, m + 1) = IF f.select[m + 1] = "open" THEN Behind(f, m) + 1 ELSE Behind(f, m)
    BY <2>2, BehindStep
  <2>5. QED
    BY <2>2, <2>3, <2>4
<1>3. QED
  BY <1>2

\* The first "from", the end of the column list, and what stands before it.
LEMMA FirstFrom ==
    ASSUME NEW f, f.select \in Seq(STRING), ListNamed(f)
    PROVE  /\ ListEnd(f) \in 1..Len(f.select) /\ Depth(f, ListEnd(f)) = 0
           /\ \E b \in 0..ListEnd(f) - 1 :
                 /\ Len(SelectVars(f)) = b
                 /\ \A n \in 1..b : SelectVars(f)[n] = f.select[n]
                 /\ Depth(f, b + 1) = 0 => b + 1 = ListEnd(f)
                 /\ f.select[b + 1] = "from"
<1> DEFINE s == f.select
           froms == {n \in DOMAIN s : s[n] = "from"}
           ends  == {n \in froms : Depth(f, n) = 0}
<1>1. Len(s) \in Nat /\ DOMAIN s = 1..Len(s)
  OBVIOUS
<1>2. \A n \in DOMAIN s : Depth(f, n) \in Nat
  BY <1>1, DepthNat
<1>3. ends \subseteq Nat /\ ends # {} /\ froms \subseteq Nat /\ froms # {}
  BY <1>1 DEF ListNamed
<1>4. PICK e \in ends : \A n \in ends : e <= n
  BY <1>3, LeastOf
<1>5. /\ ListEnd(f) \in DOMAIN s /\ s[ListEnd(f)] = "from" /\ Depth(f, ListEnd(f)) = 0
      /\ \A m \in 1..ListEnd(f) - 1 : s[m] = "from" => Depth(f, m) > 0
  <2>1. \A m \in 1..e - 1 : s[m] = "from" => Depth(f, m) > 0
    <3>1. ASSUME NEW m \in 1..e - 1, s[m] = "from" PROVE Depth(f, m) > 0
      <4>1. m \in DOMAIN s /\ m < e /\ e \in Nat
        BY <1>1, <1>4
      <4>2. Depth(f, m) # 0
        BY <1>4, <3>1, <4>1
      <4>3. QED
        BY <1>2, <4>1, <4>2
    <3>2. QED
      BY <3>1
  <2>2. e \in DOMAIN s /\ s[e] = "from" /\ Depth(f, e) = 0
    BY <1>4
  <2>3. QED
    BY <2>1, <2>2, Zenon DEF ListEnd
<1>6. PICK k \in froms : \A n \in froms : k <= n
  BY <1>3, LeastOf
<1>7. (CHOOSE n \in froms : \A m \in froms : n <= m) = k
  <2>1. \A n \in froms : (\A m \in froms : n <= m) => n = k
    BY <1>3, <1>6
  <2> HIDE DEF froms
  <2>2. QED
    BY <1>6, <2>1, Zenon
<1>8. SelectVars(f) = SubSeq(s, 1, k - 1)
  BY <1>7 DEF SelectVars
<1>9. k \in 1..Len(s) /\ s[k] = "from" /\ k <= ListEnd(f)
  BY <1>1, <1>5, <1>6
<1>10. PICK b : b = k - 1
  OBVIOUS
<1>11. b \in 0..ListEnd(f) - 1 /\ b + 1 = k /\ b \in Nat /\ b \in 0..Len(s)
  BY <1>1, <1>5, <1>9, <1>10
<1>12. /\ Len(SelectVars(f)) = b
       /\ \A n \in 1..b : SelectVars(f)[n] = s[n]
  BY <1>1, <1>8, <1>10, <1>11
<1>13. Depth(f, k) = 0 => k = ListEnd(f)
  <2>1. k < ListEnd(f) => Depth(f, k) > 0
    BY <1>1, <1>5, <1>9
  <2>2. QED
    BY <1>1, <1>5, <1>9, <2>1
<1> HIDE DEF s
<1>14. QED
  BY <1>1, <1>5, <1>9, <1>11, <1>12, <1>13 DEF s

\* No column ends from lo to hi, and one begins at lo.
Column(f, lo, hi) ==
    /\ lo = 1 \/ lo - 1 \in Breaks(f)
    /\ \A b \in lo..hi : b \notin Breaks(f)

\* p is what stands outside of parentheses in column k.
PieceOf(f, p, k) ==
    \E lo \in Nat \ {0}, hi \in Nat :
        /\ Column(f, lo, hi) /\ Filtered(f, p, lo, hi)
        /\ hi + 1 \in Breaks(f) \cup {ListEnd(f)}
        /\ NumberAt(f, hi + 1) + 1 = k

\* What has been scanned behind n atoms: the columns that end there, and the
\* beginning of the next.
ScanInv(f, x, n) ==
    /\ x.depth = Behind(f, n)
    /\ x = [depth |-> x.depth, str |-> x.str, ret |-> x.ret]
    /\ x.str \in Seq(STRING) /\ x.ret \in Seq(Seq(STRING))
    /\ Len(x.ret) = NumberAt(f, n + 1)
    /\ \E lo \in 1..n + 1 : Column(f, lo, n) /\ Filtered(f, x.str, lo, n)
    /\ \A k \in 1..Len(x.ret) : PieceOf(f, x.ret[k], k)

\* Before the first atom the first column begins.
LEMMA ScanInvStart ==
    ASSUME NEW f, ListEnd(f) \in Nat
    PROVE  ScanInv(f, ScanStart, 0)
<1>1. Behind(f, 0) = 0 /\ NumberAt(f, 1) = 0
  BY BehindStep, NumberStep
<1>2. Column(f, 1, 0)
  BY DEF Column
<1>3. Filtered(f, <<>>, 1, 0)
  BY FilterNone
<1>4. /\ ScanStart.depth = 0 /\ ScanStart.str = <<>> /\ ScanStart.ret = <<>>
      /\ ScanStart = [depth |-> ScanStart.depth, str |-> ScanStart.str, ret |-> ScanStart.ret]
  BY DEF ScanStart
<1>5. <<>> \in Seq(STRING) /\ <<>> \in Seq(Seq(STRING)) /\ Len(<<>>) = 0 /\ 1..0 = {}
      /\ 1 \in 1..0 + 1 /\ 0 + 1 = 1
  OBVIOUS
<1>6. QED
  BY <1>1, <1>2, <1>3, <1>4, <1>5 DEF ScanInv

\* A comma outside of parentheses ends a column, of which nothing else changes.
LEMMA ScanBreak ==
    ASSUME NEW f, NEW x, NEW n, NEW d, n \in Nat, d = n + 1, ListEnd(f) \in Nat,
           ScanInv(f, x, n), d \in Breaks(f), Behind(f, d) = Behind(f, n)
    PROVE  ScanInv(f, [x EXCEPT !.str = <<>>, !.ret = Append(@, x.str)], d)
<1> DEFINE y == [x EXCEPT !.str = <<>>, !.ret = Append(@, x.str)]
<1>1. /\ x.depth = Behind(f, n) /\ x.str \in Seq(STRING) /\ x.ret \in Seq(Seq(STRING))
      /\ x = [depth |-> x.depth, str |-> x.str, ret |-> x.ret]
      /\ Len(x.ret) = NumberAt(f, n + 1)
      /\ \A k \in 1..Len(x.ret) : PieceOf(f, x.ret[k], k)
  BY DEF ScanInv
<1>2. PICK r, p : r = x.ret /\ p = x.str
  OBVIOUS
<1>3. PICK q : q = Append(r, p)
  OBVIOUS
<1>4. /\ y.depth = x.depth /\ y.str = <<>> /\ y.ret = q
      /\ y = [depth |-> y.depth, str |-> y.str, ret |-> y.ret]
  <2>0. PICK h, w : h = x.depth /\ w = <<>>
    OBVIOUS
  <2>1. y = [depth |-> h, str |-> w, ret |-> q]
    <3>1. y = [x EXCEPT !.str = w, !.ret = q]
      BY <1>2, <1>3, <2>0, Zenon
    <3>2. x = [depth |-> h, str |-> p, ret |-> r]
      BY <1>1, <1>2, <2>0, Zenon
    <3> HIDE DEF y
    <3>3. QED
      BY <3>1, <3>2
  <2> HIDE DEF y
  <2>2. QED
    BY <2>0, <2>1
<1> HIDE DEF y
<1>5. PICK l : l = Len(r)
  OBVIOUS
<1>6. /\ q \in Seq(Seq(STRING)) /\ Len(q) = l + 1 /\ l \in Nat
      /\ q[l + 1] = p /\ \A k \in 1..l : q[k] = r[k]
  BY <1>1, <1>2, <1>3, <1>5, AppendProperties
<1>7. NumberAt(f, d) = l /\ NumberAt(f, d + 1) = l + 1
  <2>1. NumberAt(f, d) = l
    BY <1>1, <1>2, <1>5, Zenon
  <2>2. d \in Nat
    OBVIOUS
  <2>3. NumberAt(f, d + 1) = NumberAt(f, d) + 1
    BY <2>2, NumberStep
  <2>4. QED
    BY <2>1, <2>3
<1>8. PieceOf(f, p, l + 1)
  <2>1. PICK lo \in 1..n + 1 : Column(f, lo, n) /\ Filtered(f, x.str, lo, n)
    BY DEF ScanInv
  <2>2. lo \in Nat \ {0}
    BY <2>1
  <2>3. n + 1 \in Breaks(f) \cup {ListEnd(f)} /\ NumberAt(f, n + 1) + 1 = l + 1
    BY <1>7
  <2>4. QED
    BY <1>2, <2>1, <2>2, <2>3 DEF PieceOf
<1>9. \A k \in 1..Len(q) : PieceOf(f, q[k], k)
  <2>1. \A k \in 1..Len(q) : k = l + 1 \/ k \in 1..l
    BY <1>6
  <2>2. \A k \in 1..l : PieceOf(f, r[k], k)
    BY <1>1, <1>2, <1>5
  <2>3. QED
    BY <1>6, <1>8, <2>1, <2>2
<1>10. Column(f, d + 1, d) /\ Filtered(f, <<>>, d + 1, d) /\ d + 1 \in 1..d + 1
  <2>1. PICK e : e = d + 1
    OBVIOUS
  <2>2. e \in Nat /\ e - 1 = d /\ e..d = {} /\ e \in 1..e
    BY <2>1
  <2>3. Column(f, e, d)
    BY <2>2 DEF Column
  <2>4. Filtered(f, <<>>, e, d)
    BY <2>1, <2>2, FilterNone
  <2>5. QED
    BY <2>1, <2>2, <2>3, <2>4
<1>11. ScanInv(f, y, d)
  <2>1. Len(q) = NumberAt(f, d + 1) /\ <<>> \in Seq(STRING)
    BY <1>6, <1>7
  <2>2. y.depth = Behind(f, d)
    BY <1>1, <1>4
  <2>3. QED
    BY <1>4, <1>6, <1>9, <1>10, <2>1, <2>2 DEF ScanInv
<1>12. QED
  BY <1>11 DEF y

\* Another atom stands in the column that has begun.
LEMMA ScanWithin ==
    ASSUME NEW f, NEW x, NEW y, NEW n, NEW d, n \in Nat, d = n + 1, ListEnd(f) \in Nat,
           ScanInv(f, x, n), d \notin Breaks(f), y.depth = Behind(f, d), y.ret = x.ret,
           y = [depth |-> y.depth, str |-> y.str, ret |-> y.ret],
           \/ y.str = x.str /\ Depth(f, d) # 0
           \/ /\ y.str = Append(x.str, f.select[d])
              /\ f.select[d] \in STRING /\ Depth(f, d) = 0
    PROVE  ScanInv(f, y, d)
<1>1. /\ x.str \in Seq(STRING) /\ x.ret \in Seq(Seq(STRING))
      /\ Len(x.ret) = NumberAt(f, n + 1)
      /\ \A k \in 1..Len(x.ret) : PieceOf(f, x.ret[k], k)
  BY DEF ScanInv
<1>2. PICK lo \in 1..n + 1 : Column(f, lo, n) /\ Filtered(f, x.str, lo, n)
  BY DEF ScanInv
<1>3. lo \in Nat /\ lo <= d /\ lo \in 1..d + 1
  BY <1>2
<1>4. Column(f, lo, d)
  <2>1. \A b \in lo..d : b = d \/ b \in lo..n
    BY <1>3
  <2>2. QED
    BY <1>2, <2>1 DEF Column
<1>5. y.str \in Seq(STRING) /\ Filtered(f, y.str, lo, d)
  <2>1. CASE y.str = x.str /\ Depth(f, d) # 0
    BY <1>1, <1>2, <1>3, <2>1, FilterSkip
  <2>2. CASE /\ y.str = Append(x.str, f.select[d])
             /\ f.select[d] \in STRING /\ Depth(f, d) = 0
    <3>1. Append(x.str, f.select[d]) \in Seq(STRING)
      BY <1>1, <2>2, AppendProperties
    <3>2. Filtered(f, Append(x.str, f.select[d]), lo, d)
      BY <1>1, <1>2, <1>3, <2>2, FilterMore
    <3>3. QED
      BY <2>2, <3>1, <3>2
  <2>3. QED
    BY <2>1, <2>2
<1>6. Len(y.ret) = NumberAt(f, d + 1)
  <2>1. d \in Nat
    OBVIOUS
  <2>2. QED
    BY <1>1, <2>1, NumberStep
<1>7. QED
  BY <1>1, <1>3, <1>4, <1>5, <1>6 DEF ScanInv

\* Each atom before the first "from" is scanned by what it is.
LEMMA ScanOne ==
    ASSUME NEW f, f.select \in Seq(STRING), ListNamed(f), ListEnd(f) \in Nat,
           NEW n, NEW d, NEW x, n \in Nat, d = n + 1, d \in 1..Len(f.select),
           d < ListEnd(f), f.select[d] # "literal", ScanInv(f, x, n)
    PROVE  ScanInv(f, ScanAtom(f.select[d], x), d)
<1>1. PICK a, h, w, r : a = f.select[d] /\ h = x.depth /\ w = x.str /\ r = x.ret
  OBVIOUS
<1>2. a \in STRING /\ a # "literal"
  BY <1>1
<1>3. h = Behind(f, n) /\ h \in Nat
  <2>1. n \in 0..Len(f.select)
    OBVIOUS
  <2>2. h = Behind(f, n)
    BY <1>1 DEF ScanInv
  <2>3. QED
    BY <2>1, <2>2, BehindNat
<1>4. x = [depth |-> h, str |-> w, ret |-> r]
  BY <1>1 DEF ScanInv
<1>5. /\ Behind(f, d) = CASE a = "open"  -> h + 1
                          [] a = "close" -> h - 1
                          [] OTHER       -> h
      /\ Depth(f, d) = IF a = "open" THEN h + 1 ELSE h
  BY <1>1, <1>3, BehindStep
<1>6. a = "close" => h > 0
  <2>1. d \in DOMAIN f.select /\ (a = "close" => Depth(f, d) > 0)
    BY <1>1 DEF ListNamed
  <2>2. QED
    BY <1>5, <2>1
<1>7. d \in Breaks(f) <=> a = "comma" /\ Depth(f, d) = 0
  BY <1>1 DEF Breaks
<1>8. PICK y : y = ScanAtom(a, x)
  OBVIOUS
<1>9. CASE a = "open"
  <2>1. y = [depth |-> h + 1, str |-> w, ret |-> r]
    BY <1>4, <1>8, <1>9 DEF ScanAtom
  <2>2. /\ y.depth = Behind(f, d) /\ y.ret = x.ret /\ y.str = x.str
        /\ y = [depth |-> y.depth, str |-> y.str, ret |-> y.ret]
    BY <1>1, <1>5, <1>9, <2>1
  <2>3. Depth(f, d) # 0 /\ d \notin Breaks(f)
    BY <1>3, <1>5, <1>7, <1>9
  <2>4. QED
    BY <1>1, <1>8, <2>2, <2>3, ScanWithin
<1>10. CASE a = "close"
  <2>1. y = [depth |-> h - 1, str |-> w, ret |-> r]
    BY <1>3, <1>4, <1>6, <1>8, <1>10 DEF ScanAtom
  <2>2. /\ y.depth = Behind(f, d) /\ y.ret = x.ret /\ y.str = x.str
        /\ y = [depth |-> y.depth, str |-> y.str, ret |-> y.ret]
    BY <1>1, <1>5, <1>10, <2>1
  <2>3. Depth(f, d) # 0 /\ d \notin Breaks(f)
    BY <1>3, <1>5, <1>6, <1>7, <1>10
  <2>4. QED
    BY <1>1, <1>8, <2>2, <2>3, ScanWithin
<1>11. CASE a \notin {"open", "close"} /\ h > 0
  <2>1. y = x
    BY <1>1, <1>8, <1>11 DEF ScanAtom
  <2>2. y.depth = Behind(f, d) /\ y = [depth |-> y.depth, str |-> y.str, ret |-> y.ret]
    <3>1. Behind(f, d) = h
      BY <1>5, <1>11
    <3>2. x = [depth |-> x.depth, str |-> x.str, ret |-> x.ret]
      BY DEF ScanInv
    <3>3. QED
      BY <1>1, <2>1, <3>1, <3>2
  <2>3. Depth(f, d) # 0 /\ d \notin Breaks(f)
    BY <1>3, <1>5, <1>7, <1>11
  <2>4. QED
    BY <1>1, <1>8, <2>1, <2>2, <2>3, ScanWithin
<1>12. CASE a = "comma" /\ ~(h > 0)
  <2>1. h = 0
    BY <1>3, <1>12
  <2>2. y = [x EXCEPT !.str = <<>>, !.ret = Append(@, x.str)]
    BY <1>1, <1>8, <1>12, <2>1 DEF ScanAtom
  <2>3. d \in Breaks(f) /\ Behind(f, d) = Behind(f, n)
    BY <1>3, <1>5, <1>7, <1>12, <2>1
  <2>4. ScanInv(f, [x EXCEPT !.str = <<>>, !.ret = Append(@, x.str)], d)
    BY <2>3, ScanBreak
  <2>5. QED
    BY <1>1, <1>8, <2>2, <2>4, Zenon
<1>13. CASE a \notin {"open", "close", "comma"} /\ ~(h > 0)
  <2>1. h = 0
    BY <1>3, <1>13
  <2>2. y = [x EXCEPT !.str = Append(@, a)]
    BY <1>1, <1>2, <1>8, <1>13, <2>1 DEF ScanAtom
  <2>3. y = [depth |-> h, str |-> Append(w, a), ret |-> r]
    BY <1>4, <2>2
  <2>4. /\ y.depth = Behind(f, d) /\ y.ret = x.ret /\ y.str = Append(x.str, f.select[d])
        /\ y = [depth |-> y.depth, str |-> y.str, ret |-> y.ret]
    <3>1. Behind(f, d) = h
      BY <1>5, <1>13
    <3>2. QED
      BY <1>1, <2>3, <3>1
  <2>5. Depth(f, d) = 0 /\ d \notin Breaks(f) /\ f.select[d] \in STRING
    BY <1>1, <1>2, <1>5, <1>7, <1>13, <2>1
  <2>6. QED
    BY <1>1, <1>8, <2>4, <2>5, ScanWithin
<1>14. QED
  BY <1>9, <1>10, <1>11, <1>12, <1>13

\* Before the first "from" stands no literal with a comma.
NoLiteral(f) == \A m \in DOMAIN f.select : f.select[m] # "literal"

\* The pieces of what stands before the first "from" are columns.
LEMMA PiecesAreColumns ==
    ASSUME NEW f, f.select \in Seq(STRING), ListNamed(f), NoLiteral(f)
    PROVE  /\ Pieces(SelectVars(f)) \in Seq(Seq(STRING))
           /\ \A k \in DOMAIN Pieces(SelectVars(f)) : PieceOf(f, Pieces(SelectVars(f))[k], k)
<1>1. PICK e, v : e = ListEnd(f) /\ v = SelectVars(f)
  OBVIOUS
<1>2. PICK b \in 0..e - 1 :
          /\ Len(v) = b /\ \A n \in 1..b : v[n] = f.select[n]
          /\ Depth(f, b + 1) = 0 => b + 1 = e
          /\ f.select[b + 1] = "from"
  BY <1>1, FirstFrom
<1>3. e \in 1..Len(f.select) /\ e = ListEnd(f)
  BY <1>1, FirstFrom
<1>4. Len(f.select) \in Nat /\ e \in Nat /\ b \in Nat /\ ListEnd(f) \in Nat /\ b \in 0..Len(f.select)
  BY <1>2, <1>3
<1>5. /\ Scanned(v)[0] = ScanStart
      /\ \A n \in 1..b : Scanned(v)[n] = ScanAtom(v[n], Scanned(v)[n - 1])
  BY <1>2, <1>4, ScannedStep
<1> DEFINE T == {n \in 0..b : ScanInv(f, Scanned(v)[n], n)}
<1>6. 0 \in T
  BY <1>4, <1>5, ScanInvStart
<1>7. ASSUME NEW n \in 0..b, n \in T, n < b
      PROVE  n + 1 \in T
  <2>1. PICK d : d = n + 1
    OBVIOUS
  <2>2. /\ n \in Nat /\ d \in 1..b /\ d - 1 = n /\ d \in 0..b
        /\ d \in 1..Len(f.select) /\ d < ListEnd(f)
    BY <1>2, <1>3, <1>4, <1>7, <2>1
  <2>3. Scanned(v)[d] = ScanAtom(f.select[d], Scanned(v)[n])
    BY <1>2, <1>5, <2>2
  <2>4. f.select[d] # "literal"
    BY <2>2 DEF NoLiteral
  <2>5. ScanInv(f, Scanned(v)[n], n)
    BY <1>7
  <2>6. ScanInv(f, ScanAtom(f.select[d], Scanned(v)[n]), d)
    BY <1>4, <2>1, <2>2, <2>4, <2>5, ScanOne
  <2>7. QED
    BY <2>1, <2>2, <2>3, <2>6
<1> HIDE DEF T
<1>8. b \in T
  BY <1>4, <1>6, <1>7, CountUp
<1>9. PICK x : x = Scanned(v)[b]
  OBVIOUS
<1>10. ScanInv(f, x, b)
  BY <1>8, <1>9 DEF T
<1>11. PICK r, w, l : r = x.ret /\ w = x.str /\ l = Len(r)
  OBVIOUS
<1>12. /\ r \in Seq(Seq(STRING)) /\ w \in Seq(STRING) /\ l \in Nat
       /\ l = NumberAt(f, b + 1) /\ Len(r) = l
  BY <1>10, <1>11 DEF ScanInv
<1>13. \A k \in 1..l : PieceOf(f, r[k], k)
  BY <1>10, <1>11 DEF ScanInv
<1>14. Pieces(v) = IF x.depth = 0 /\ w # <<>> THEN Append(r, w) ELSE r
  BY <1>2, <1>9, <1>11 DEF Pieces
<1>15. CASE x.depth = 0 /\ w # <<>>
  <2>1. Depth(f, b + 1) = 0
    <3>1. Behind(f, b) = 0
      BY <1>10, <1>15 DEF ScanInv
    <3>2. Depth(f, b + 1) = IF f.select[b + 1] = "open" THEN Behind(f, b) + 1 ELSE Behind(f, b)
      BY <1>4, BehindStep
    <3>3. QED
      BY <1>2, <3>1, <3>2
  <2>2. b + 1 = ListEnd(f)
    BY <1>2, <1>3, <2>1
  <2>3. PICK lo \in 1..b + 1 : Column(f, lo, b) /\ Filtered(f, w, lo, b)
    BY <1>10, <1>11 DEF ScanInv
  <2>4. PieceOf(f, w, l + 1)
    BY <1>4, <1>12, <2>2, <2>3 DEF PieceOf
  <2>5. PICK q : q = Append(r, w)
    OBVIOUS
  <2>6. /\ q \in Seq(Seq(STRING)) /\ Len(q) = l + 1
        /\ q[l + 1] = w /\ \A k \in 1..l : q[k] = r[k]
    BY <1>12, <2>5, AppendProperties
  <2>7. DOMAIN q = 1..l + 1
    BY <2>6
  <2>8. \A k \in 1..l + 1 : k = l + 1 \/ k \in 1..l
    BY <1>12
  <2>9. \A k \in DOMAIN q : PieceOf(f, q[k], k)
    BY <1>13, <2>4, <2>6, <2>7, <2>8
  <2>10. QED
    BY <1>1, <1>14, <1>15, <2>5, <2>6, <2>9
<1>16. CASE ~(x.depth = 0 /\ w # <<>>)
  <2>1. DOMAIN r = 1..l
    BY <1>12
  <2>2. QED
    BY <1>1, <1>12, <1>14, <1>16, <1>13, <2>1
<1>17. QED
  BY <1>15, <1>16

\* The last atom of a column that is outside of parentheses ends it and follows
\* the atom before l, when none but parentheses and what they hold are around it.
LEMMA StandsAlone ==
    ASSUME NEW f, ListNamed(f), \A n \in 1..ListEnd(f) - 1 : Depth(f, n) \in Nat,
           NEW E, E = ListEnd(f), E \in Nat,
           NEW lo, NEW hi, NEW l, NEW e, lo \in Nat \ {0}, hi \in Nat, l \in Nat, lo <= l,
           Column(f, lo, hi), hi + 1 \in Breaks(f) \cup {E},
           e \in l..hi, Depth(f, e) = 0, f.select[e] # "as",
           \A m \in l..hi : Depth(f, m) = 0 => m = e
    PROVE  e = l /\ e = hi
<1>1. Breaks(f) \subseteq 1..E - 1
  BY DEF Breaks
<1>2. hi + 1 <= E
  BY <1>1
<1>3. ASSUME NEW m, m \in l..hi, m # e
      PROVE  FALSE
  <2>1. m \in 1..E - 1 /\ e \in 1..E - 1 /\ m \in Nat /\ e \in Nat
    BY <1>2, <1>3
  <2>2. Depth(f, m) > 0
    <3>1. Depth(f, m) \in Nat /\ Depth(f, m) # 0
      BY <1>3, <2>1
    <3>2. QED
      BY <3>1
  <2>3. \/ \E k \in m + 1..E - 1 :
              f.select[k] = "as" /\ Depth(f, k) = 0 /\ Breaks(f) \cap (m..k) = {}
        \/ \A k \in 1..E - 1 :
              Breaks(f) \cap ((m..k) \cup (k..m)) = {} => Depth(f, k) > 0
    BY <2>1, <2>2 DEF ListNamed
  <2>4. CASE \E k \in m + 1..E - 1 :
              f.select[k] = "as" /\ Depth(f, k) = 0 /\ Breaks(f) \cap (m..k) = {}
    <3>1. PICK k \in m + 1..E - 1 :
              f.select[k] = "as" /\ Depth(f, k) = 0 /\ Breaks(f) \cap (m..k) = {}
      BY <2>4
    <3>2. k \in l..hi
      <4>1. SUFFICES ASSUME ~(k <= hi) PROVE FALSE
        BY <1>3, <2>1, <3>1
      <4>2. hi + 1 \in m..k /\ hi + 1 # E
        BY <1>3, <2>1, <3>1, <4>1
      <4>3. hi + 1 \in Breaks(f)
        BY <4>2
      <4>4. QED
        BY <3>1, <4>2, <4>3
    <3>3. QED
      BY <3>1, <3>2
  <2>5. CASE \A k \in 1..E - 1 :
              Breaks(f) \cap ((m..k) \cup (k..m)) = {} => Depth(f, k) > 0
    <3>1. (m..e) \cup (e..m) \subseteq lo..hi
      BY <1>3, <2>1
    <3>2. Breaks(f) \cap ((m..e) \cup (e..m)) = {}
      BY <3>1 DEF Column
    <3>3. Depth(f, e) > 0
      BY <2>1, <2>5, <3>2
    <3>4. QED
      BY <3>3
  <2>6. QED
    BY <2>3, <2>4, <2>5
<1>4. l \in l..hi /\ hi \in l..hi
  OBVIOUS
<1>5. QED
  BY <1>3, <1>4

\* The name of a piece is found where SQLite finds it.
LEMMA NamedPiece ==
    ASSUME NEW f, ListNamed(f), \A n \in 1..ListEnd(f) - 1 : Depth(f, n) \in Nat,
           ListEnd(f) \in Nat,
           NEW p, NEW k, NEW x, p \in Seq(STRING), x # "as",
           PieceOf(f, p, k), PieceName(p) = <<x>>
    PROVE  k \in SqlColumns(f, x)
<1>1. PICK lo \in Nat \ {0}, hi \in Nat :
          /\ Column(f, lo, hi) /\ Filtered(f, p, lo, hi)
          /\ hi + 1 \in Breaks(f) \cup {ListEnd(f)}
          /\ NumberAt(f, hi + 1) + 1 = k
  BY DEF PieceOf
<1>2. PICK N : N = Len(p)
  OBVIOUS
<1>3. N \in Nat /\ DOMAIN p = 1..N
  BY <1>2
<1>4. PICK at \in [1..N -> lo..hi] :
          /\ \A j \in 1..N : p[j] = f.select[at[j]] /\ Depth(f, at[j]) = 0
          /\ \A i1, i2 \in 1..N : i1 < i2 => at[i1] < at[i2]
          /\ \A e \in lo..hi : Depth(f, e) = 0 => \E j \in 1..N : at[j] = e
  BY <1>1, <1>2 DEF Filtered
<1>5. ASSUME NEW l, NEW e, l \in Nat, lo <= l, e \in l..hi, Depth(f, e) = 0,
             f.select[e] = x, \A m \in l..hi : Depth(f, m) = 0 => m = e,
             l = lo \/ f.select[l - 1] = "as"
      PROVE  k \in SqlColumns(f, x)
  <2>1. e = l /\ e = hi
    BY <1>1, <1>5, StandsAlone
  <2>2. e \in Nat /\ e \in 1..ListEnd(f) - 1 /\ e \notin Breaks(f)
    <3>1. hi + 1 <= ListEnd(f)
      BY <1>1 DEF Breaks
    <3>2. hi \in lo..hi
      BY <1>5, <2>1
    <3>3. QED
      BY <1>1, <2>1, <3>1, <3>2 DEF Column
  <2>3. e = 1 \/ e - 1 \in Breaks(f) \/ f.select[e - 1] = "as"
    BY <1>1, <1>5, <2>1 DEF Column
  <2>4. NumberAt(f, e) + 1 = k
    <3>1. NumberAt(f, e + 1) = NumberAt(f, e)
      BY <2>2, NumberStep
    <3>2. QED
      BY <1>1, <2>1, <3>1
  <2>5. Cardinality({b \in Breaks(f) : b < e}) + 1 = k
    BY <2>4 DEF NumberAt
  <2>6. e + 1 \in Breaks(f) \cup {ListEnd(f)}
    BY <1>1, <2>1
  <2>7. QED
    BY <1>5, <2>2, <2>3, <2>5, <2>6 DEF SqlColumns
<1> DEFINE ases == {n \in DOMAIN p : p[n] = "as"}
<1>6. CASE ases = {}
  <2>1. p = <<x>>
    BY <1>6 DEF PieceName
  <2>2. N = 1 /\ p[1] = x
    BY <1>2, <2>1
  <2>3. PICK e : e = at[1]
    OBVIOUS
  <2>4. /\ e \in lo..hi /\ Depth(f, e) = 0 /\ f.select[e] = x
        /\ \A m \in lo..hi : Depth(f, m) = 0 => m = e
    BY <1>4, <2>2, <2>3
  <2>5. lo \in Nat /\ lo <= lo
    OBVIOUS
  <2>6. QED
    BY <1>5, <2>4, <2>5
<1>7. CASE ases # {}
  <2>1. ases \subseteq Nat
    BY <1>3
  <2>2. PICK j \in ases : \A n \in ases : j <= n
    BY <1>7, <2>1, LeastOf
  <2>3. (CHOOSE n \in ases : \A m \in ases : n <= m) = j
    <3>1. \A n \in ases : (\A m \in ases : n <= m) => n = j
      BY <2>1, <2>2
    <3> HIDE DEF ases
    <3>2. QED
      BY <2>2, <3>1, Zenon
  <2>4. SubSeq(p, j + 1, N) = <<x>>
    BY <1>2, <1>7, <2>3 DEF PieceName
  <2>5. j \in 1..N /\ p[j] = "as"
    BY <1>3, <2>2
  <2>6. j + 1 = N /\ p[N] = x
    <3>1. PICK q, o : q = SubSeq(p, j + 1, N) /\ o = N - j
      OBVIOUS
    <3>2. Len(q) = o /\ (j < N => q[1] = p[j + 1])
      BY <1>2, <1>3, <2>5, <3>1
    <3>3. q = <<x>>
      BY <2>4, <3>1
    <3>4. Len(q) = 1 /\ q[1] = x
      BY <3>3
    <3>5. o = 1
      BY <3>2, <3>4, Zenon
    <3> HIDE DEF ases
    <3>6. j < N /\ j + 1 = N
      BY <1>3, <2>5, <3>1, <3>5
    <3>7. QED
      BY <3>2, <3>4, <3>6
  <2>7. PICK u, e : u = at[j] /\ e = at[N]
    OBVIOUS
  <2>8. u \in lo..hi /\ e \in lo..hi /\ u < e /\ f.select[u] = "as" /\ f.select[e] = x
        /\ Depth(f, e) = 0
    BY <1>3, <1>4, <2>5, <2>6, <2>7
  <2>9. ASSUME NEW m \in u + 1..hi, Depth(f, m) = 0
        PROVE  m = e
    <3>1. m \in lo..hi /\ m > u
      BY <2>8, <2>9
    <3>2. PICK n \in 1..N : at[n] = m
      BY <1>4, <2>9, <3>1
    <3>3. n # j /\ ~(n < j)
      <4>1. n < j => at[n] < at[j]
        BY <1>4, <2>5
      <4>2. at[n] > at[j] /\ at[n] \in lo..hi /\ at[j] \in lo..hi
        BY <1>4, <2>5, <2>7, <3>1, <3>2
      <4>3. QED
        BY <4>1, <4>2
    <3>4. n = N
      BY <1>3, <2>5, <2>6, <3>3
    <3>5. QED
      BY <2>7, <3>2, <3>4
  <2>10. PICK l : l = u + 1
    OBVIOUS
  <2>11. l \in Nat /\ lo <= l /\ e \in l..hi /\ l - 1 = u
    BY <2>8, <2>10
  <2>12. \A m \in l..hi : Depth(f, m) = 0 => m = e
    BY <2>9, <2>10
  <2>13. QED
    BY <1>5, <2>8, <2>11, <2>12
<1>8. QED
  BY <1>6, <1>7

\* A field that is read by number is read from a column with its name.
LEMMA ReadFromNamed ==
    ASSUME NEW f, f.select \in Seq(STRING), ListNamed(f), NoLiteral(f),
           NEW x, x # "as"
    PROVE  \/ ReturnCols(f, x) = {}
           \/ \E k \in SqlColumns(f, x) : ReturnCols(f, x) = {k}
<1> DEFINE P == Pieces(SelectVars(f))
           named == {n \in DOMAIN P : PieceName(P[n]) = <<x>>}
<1>1. P \in Seq(Seq(STRING)) /\ \A k \in DOMAIN P : PieceOf(f, P[k], k)
  BY PiecesAreColumns
<1>2. ReturnCols(f, x) = IF Counted(f) THEN {n \in named : \A m \in named : m <= n} ELSE {}
  BY DEF ReturnCols
<1> HIDE DEF P
<1>3. named \subseteq Nat
  BY <1>1
<1>4. ListEnd(f) \in 1..Len(f.select) /\ Len(f.select) \in Nat
  BY FirstFrom
<1>5. \A n \in 1..ListEnd(f) - 1 : Depth(f, n) \in Nat
  BY <1>4, DepthNat
<1>6. \A k \in named : k \in SqlColumns(f, x)
  <2>1. SUFFICES ASSUME NEW k \in named PROVE k \in SqlColumns(f, x)
    OBVIOUS
  <2>2. P[k] \in Seq(STRING) /\ PieceOf(f, P[k], k) /\ PieceName(P[k]) = <<x>>
    BY <1>1
  <2>3. QED
    BY <1>4, <1>5, <2>2, NamedPiece
<1> HIDE DEF named
<1>7. \A m, n \in named : m <= n /\ n <= m => m = n
  BY <1>3
<1>8. CASE ReturnCols(f, x) # {}
  <2>1. ReturnCols(f, x) = {n \in named : \A m \in named : m <= n}
    BY <1>2, <1>8
  <2>2. PICK k \in named : \A m \in named : m <= k
    BY <1>8, <2>1
  <2>3. ReturnCols(f, x) = {k}
    BY <1>7, <2>1, <2>2, Zenon
  <2>4. QED
    BY <1>6, <2>2, <2>3
<1>9. QED
  BY <1>8

\* The columns of a name are finitely many.
LEMMA ColumnsFinite ==
    ASSUME NEW f, NEW x, ListEnd(f) \in Nat
    PROVE  IsFiniteSet(SqlColumns(f, x))
<1> DEFINE D == {e \in 1..ListEnd(f) - 1 :
                    /\ f.select[e] = x /\ Depth(f, e) = 0
                    /\ e + 1 \in Breaks(f) \cup {ListEnd(f)}
                    /\ e = 1 \/ e - 1 \in Breaks(f) \/ f.select[e - 1] = "as"}
           g == [e \in D |-> Cardinality({b \in Breaks(f) : b < e}) + 1]
<1>1. SqlColumns(f, x) = {g[e] : e \in D}
  BY DEF SqlColumns
<1>2. IsFiniteSet(D)
  <2>1. IsFiniteSet(1..ListEnd(f) - 1) /\ D \in SUBSET (1..ListEnd(f) - 1)
    BY FS_Interval
  <2> HIDE DEF D
  <2>2. QED
    BY <2>1, FS_Subset
<1>3. DOMAIN g = D /\ g = [e \in D |-> g[e]]
  OBVIOUS
<1> HIDE DEF D, g
<1>4. g \in Surjection(D, {g[e] : e \in D})
  BY <1>3 DEF Surjection
<1>5. QED
  BY <1>1, <1>2, <1>4, FS_Surjection

\* Every body that is written reads its fields from the columns counted for it.
ReadsCounted ==
    /\ functions \in Functions
    /\ \A n \in 1..Len(bodies) : bodies[n] # NoCode =>
           bodies[n].columns =
               [x \in Members(functions[n].fields) |-> ReturnCols(functions[n], x)]

\* A body is written from the columns of its own function.
LEMMA ReadsStep ==
    ASSUME StructuresInv, ReadsCounted, GenerateFunction
    PROVE  ReadsCounted'
<1> DEFINE k == Len(bodies) + 1
           f == functions[k]
<1>1. bodies \in Seq(BodyType) /\ Len(bodies) \in Nat
  BY DEF StructuresInv, TypesInv
<1>2. PICK S : bodies' = Append(bodies, IF Checks(f) THEN Body(f, S) ELSE NoCode)
  BY DEF GenerateFunction
<1>3. PICK b : b = IF Checks(f) THEN Body(f, S) ELSE NoCode
  OBVIOUS
<1>4. /\ Len(bodies') = k /\ bodies'[k] = b
      /\ \A n \in 1..Len(bodies) : bodies'[n] = bodies[n]
  BY <1>1, <1>2, <1>3
<1>5. b # NoCode => b.columns = [x \in Members(f.fields) |-> ReturnCols(f, x)]
  BY <1>3 DEF Body
<1>6. functions' = functions
  BY DEF GenerateFunction
<1>7. \A n \in 1..k : n = k \/ n \in 1..Len(bodies)
  BY <1>1
<1>8. SUFFICES ASSUME NEW n \in 1..k, bodies'[n] # NoCode
               PROVE  bodies'[n].columns =
                        [x \in Members(functions[n].fields) |-> ReturnCols(functions[n], x)]
  BY <1>4, <1>6, Zenon DEF ReadsCounted
<1>9. CASE n = k
  BY <1>4, <1>5, <1>8, <1>9
<1>10. CASE n \in 1..Len(bodies)
  BY <1>4, <1>8, <1>10 DEF ReadsCounted
<1>11. QED
  BY <1>7, <1>9, <1>10

\* A generated body reads a field from the column SQLite knows by its name, for
\* every list of functions whose columns have names, whatever their number, the
\* nesting of their parentheses, and the place of an inner "from".
THEOREM ColumnsMatchHolds == ListsNamed => (TypesSpec => []ColumnsMatch)
<1>1. TypesInit => StructuresInv /\ ReadsCounted
  <2>1. TypesInit => StructuresInv
    BY StructuresInit
  <2>2. TypesInit => ReadsCounted
    BY DEF TypesInit, ReadsCounted
  <2>3. QED
    BY <2>1, <2>2
<1>2. StructuresInv /\ ReadsCounted /\ [GenerateFunction]_typeVars
        => (StructuresInv /\ ReadsCounted)'
  <2>1. StructuresInv /\ [GenerateFunction]_typeVars => StructuresInv'
    BY StructuresNext
  <2>2. ReadsCounted /\ UNCHANGED typeVars => ReadsCounted'
    BY DEF ReadsCounted, typeVars
  <2>3. QED
    BY <2>1, <2>2, ReadsStep
<1>3. ListsNamed /\ StructuresInv /\ ReadsCounted => ColumnsMatch
  <2>1. SUFFICES ASSUME ListsNamed, StructuresInv, ReadsCounted, NEW n \in Written,
                        NoLiteral(functions[n]), NEW x \in Members(functions[n].fields)
                 PROVE  \/ bodies[n].columns[x] = {}
                        \/ bodies[n].columns[x] = SqlColumns(functions[n], x)
                        \/ Cardinality(SqlColumns(functions[n], x)) > 1
    BY DEF ColumnsMatch, NoLiteral
  <2>2. PICK f : f = functions[n]
    OBVIOUS
  <2>3. /\ functions \in Functions /\ bodies \in Seq(BodyType) /\ Len(bodies) \in Nat
        /\ n \in 1..Len(bodies) /\ bodies[n] # NoCode /\ n \in DOMAIN functions
    BY <2>1 DEF StructuresInv, TypesInv, ReadsCounted, Written
  <2>4. f \in AnnotatedFunction /\ ListNamed(f) /\ NoLiteral(f)
    BY <2>1, <2>2, <2>3, FunctionsAssumption DEF ListsNamed
  <2>5. f.select \in Seq(STRING) /\ x # "as"
    BY <2>1, <2>2, <2>4 DEF AnnotatedFunction, ListNamed
  <2>6. bodies[n].columns[x] = ReturnCols(f, x)
    BY <2>1, <2>2, <2>3 DEF ReadsCounted
  <2>7. CASE ReturnCols(f, x) = {}
    BY <2>6, <2>7
  <2>8. CASE \E k \in SqlColumns(f, x) : ReturnCols(f, x) = {k}
    <3>1. PICK k \in SqlColumns(f, x) : ReturnCols(f, x) = {k}
      BY <2>8
    <3>2. ListEnd(f) \in Nat
      BY <2>4, <2>5, FirstFrom
    <3>3. PICK C : C = SqlColumns(f, x)
      OBVIOUS
    <3>4. IsFiniteSet(C) /\ k \in C
      BY <3>1, <3>2, <3>3, ColumnsFinite
    <3>5. Cardinality(C) \in Nat /\ (Cardinality(C) = 0 => C = {})
          /\ (Cardinality(C) = 1 => \E y : C = {y})
      BY <3>4, FS_EmptySet, FS_Singleton, FS_CardinalityType
    <3>6. C = {k} \/ Cardinality(C) > 1
      BY <3>4, <3>5
    <3>7. QED
      BY <2>2, <2>6, <3>1, <3>3, <3>6
  <2>9. QED
    BY <2>4, <2>5, <2>7, <2>8, ReadFromNamed
<1>4. SUFFICES ASSUME ListsNamed PROVE TypesSpec => []ColumnsMatch
  OBVIOUS
<1>5. StructuresInv /\ ReadsCounted => ColumnsMatch
  BY <1>3, <1>4
<1>6. QED
  BY <1>1, <1>2, <1>5, PTL DEF TypesSpec

-----------------------------------------------------------------------------
(* The parser of annotations.                                              *)

FoundOK(F) == \A n \in DOMAIN F : n \in Seq(Char) /\ F[n] \subseteq 1..Len(text)

\* The parser begins when the tokens are there, and reads up to the end of one.
ParserInv ==
    /\ TokensInv
    /\ turn \in 0..Len(tokens)
    /\ turn > 0 => done /\ pos <= tokens[turn].to
    /\ pos \in 0..Len(text)
    /\ mode \in Modes
    /\ nameAt \in 1..Len(text) + 1 /\ contentAt \in 1..Len(text) + 1
    /\ FoundOK(found)

\* A piece of the file is a sequence of characters.
LEMMA PieceOfText ==
    ASSUME text \in Seq(Char), NEW a \in Nat \ {0}, NEW b \in 0..Len(text)
    PROVE  SubSeq(text, a, b) \in Seq(Char)
<1>1. \A p \in a..b : text[p] \in Char
  OBVIOUS
<1>2. QED
  BY <1>1, SubSeqProperties

LEMMA StoreOK ==
    ASSUME ParserInv, Store
    PROVE  \A n \in DOMAIN found' : n \in Seq(Char) /\ found'[n] \subseteq 1..Len(text)
<1> DEFINE name  == SubSeq(text, nameAt, contentAt - 1)
           value == Trim(Cleanup(contentAt, pos))
<1>1. found' = [n \in DOMAIN found \cup {name} |-> IF n = name THEN value ELSE found[n]]
  BY DEF Store
<1>2. /\ text \in Seq(Char) /\ Len(text) \in Nat
      /\ nameAt \in Nat \ {0} /\ contentAt \in 1..Len(text) + 1 /\ pos \in 0..Len(text)
  BY DEF ParserInv, TokensInv, TypeOK
<1>3. name \in Seq(Char)
  <2>1. contentAt - 1 \in 0..Len(text)
    BY <1>2
  <2>2. QED
    BY <1>2, <2>1, PieceOfText
<1>4. value \subseteq 1..Len(text)
  <2>1. Cleanup(contentAt, pos) \subseteq contentAt..pos
    BY DEF Cleanup
  <2>2. value \subseteq Cleanup(contentAt, pos)
    BY DEF Trim
  <2>3. QED
    BY <1>2, <2>1, <2>2
<1> HIDE DEF name, value
<1>5. QED
  BY <1>1, <1>3, <1>4 DEF ParserInv, FoundOK

\* The tokens while the parser runs.
LEMMA ParserTokens ==
    ASSUME ParserInv, NEW k \in 1..Len(tokens), done
    PROVE  /\ text \in Seq(Char) /\ Len(text) \in Nat
           /\ tokens[k].from \in 1..Len(text) /\ tokens[k].to \in 1..Len(text)
           /\ tokens[k].from <= tokens[k].to
<1>1. text \in Seq(Char) /\ tokens \in Seq(Tokens)
  BY DEF ParserInv, TokensInv, TypeOK, Tokens
<1>2. tokens[k] \in Tokens /\ Len(text) \in Nat
  BY <1>1
<1>3. tokens[k].from <= tokens[k].to
  BY <1>1 DEF ParserInv, TokensInv, TokensAreText
<1>4. QED
  BY <1>1, <1>2, <1>3 DEF Tokens

\* What the next token leaves when it is taken.
LEMMA TakeStep ==
    ASSUME ParserInv, TakeCode \/ TakeLine \/ TakeBlock, UNCHANGED vars
    PROVE  ParserInv'
<1> DEFINE t == tokens[turn + 1]
<1>1. /\ done /\ turn < Len(tokens) /\ turn' = turn + 1 /\ mode' = "none"
      /\ nameAt' = nameAt /\ contentAt' = contentAt
      /\ pos' \in {t.to, t.from - 1}
      /\ found' = Nothing \/ found' = Single(t)
  BY DEF TakeCode, TakeLine, TakeBlock, Take, MayTake, Upcoming
<1>2. UNCHANGED <<text, tokens, done>> /\ TokensInv'
  <2>1. TokensInv
    BY DEF ParserInv
  <2>2. QED
    BY <2>1, TokensNext DEF vars
<1>3. turn \in Nat /\ Len(tokens) \in Nat /\ turn + 1 \in 1..Len(tokens)
  BY <1>1 DEF ParserInv, TokensInv, TypeOK
<1>4. /\ text \in Seq(Char) /\ Len(text) \in Nat
      /\ t.from \in 1..Len(text) /\ t.to \in 1..Len(text) /\ t.from <= t.to
  BY <1>1, <1>3, ParserTokens
<1> HIDE DEF t
<1>5. pos' \in 0..Len(text) /\ pos' <= t.to
  BY <1>1, <1>4
<1>6. FoundOK(Single(t))
  <2>1. ASSUME NEW n \in DOMAIN Single(t)
        PROVE  n \in Seq(Char) /\ Single(t)[n] \subseteq 1..Len(text)
    <3>1. /\ Single(t)[n] = {}
          /\ \E e \in SingleNames(t) : n = SubSeq(text, e.from, e.to)
      BY <2>1 DEF Single
    <3>2. PICK a \in t.from + 1..t.to + 1, b \in t.from..t.to : n = SubSeq(text, a, b)
      BY <3>1 DEF SingleNames
    <3>3. a \in Nat \ {0} /\ b \in 0..Len(text)
      BY <1>4, <3>2
    <3>4. QED
      BY <1>4, <3>1, <3>2, <3>3, PieceOfText
  <2>2. QED
    BY <2>1 DEF FoundOK
<1>7. FoundOK(Nothing)
  BY DEF FoundOK, Nothing
<1>8. FoundOK(found)'
  BY <1>1, <1>2, <1>6, <1>7 DEF FoundOK
<1>9. QED
  BY <1>1, <1>2, <1>3, <1>5, <1>8 DEF ParserInv, Modes, t

\* One character of a block comment is read.
LEMMA ScanStep ==
    ASSUME ParserInv, UNCHANGED vars,
           SkipText \/ ReadName \/ NextName \/ ReadContent \/ EndContent
    PROVE  ParserInv'
<1>1. /\ ~ReadAll /\ pos' = pos + 1 /\ turn' = turn /\ mode' \in Modes
      /\ nameAt' \in {nameAt, pos + 2} /\ contentAt' \in {contentAt, pos + 1}
      /\ found' = found \/ Store
  BY DEF SkipText, ReadName, NextName, ReadContent, EndContent, Reads, Scan, Modes
<1>2. UNCHANGED <<text, tokens, done>> /\ TokensInv'
  <2>1. TokensInv
    BY DEF ParserInv
  <2>2. QED
    BY <2>1, TokensNext DEF vars
<1>3. turn \in 1..Len(tokens) /\ done /\ pos \in Nat /\ pos # tokens[turn].to
  <2>1. tokens \in Seq(Tokens) /\ turn \in 0..Len(tokens) /\ pos \in 0..Len(text)
    BY DEF ParserInv, TokensInv, TypeOK, Tokens
  <2>2. turn # 0 /\ pos # tokens[turn].to
    BY <1>1 DEF ReadAll, Now
  <2>3. QED
    BY <2>1, <2>2 DEF ParserInv
<1>4. /\ Len(text) \in Nat /\ tokens[turn].to \in 1..Len(text)
  BY <1>3, ParserTokens
<1>5. pos + 1 <= tokens[turn].to
  BY <1>3, <1>4 DEF ParserInv
<1>6. FoundOK(found)'
  <2>1. CASE found' = found
    BY <1>2, <2>1 DEF ParserInv, FoundOK
  <2>2. CASE Store
    BY <1>2, <2>2, StoreOK DEF FoundOK
  <2>3. QED
    BY <1>1, <2>1, <2>2
<1>7. QED
  BY <1>1, <1>2, <1>3, <1>4, <1>5, <1>6 DEF ParserInv

\* The tokenizer goes on only before the parser has begun.
LEMMA BeforeParser ==
    ASSUME ParserInv, Next, UNCHANGED parserVars
    PROVE  ParserInv' /\ turn = 0
<1>1. TokensInv /\ TokensInv'
  BY TokensNext DEF ParserInv
<1>2. UNCHANGED <<turn, pos, mode, nameAt, contentAt, found>>
  BY DEF parserVars
<1>3. ~done
  <2>1. i < Len(text) \/ ~done
    BY DEF Next, ReadCode, ReadSlash, ReadComment, ReadBlock, ReadStar, ReadBlockEnd,
           ReadLine, ReadLineEnd, Finish, In
  <2>2. QED
    BY <1>1, <2>1, Reading
<1>4. turn = 0 /\ text' = text
  <2>1. turn \in Nat
    BY <1>1 DEF ParserInv, TokensInv, TypeOK
  <2>2. text' = text
    BY DEF Next, ReadCode, ReadSlash, ReadComment, ReadBlock, ReadStar, ReadBlockEnd,
           ReadLine, ReadLineEnd, Finish, Read
  <2>3. QED
    BY <1>3, <2>1, <2>2 DEF ParserInv
<1>5. turn' \in 0..Len(tokens')
  BY <1>1, <1>2, <1>4 DEF TokensInv, TypeOK
<1>6. QED
  BY <1>1, <1>2, <1>4, <1>5 DEF ParserInv, FoundOK

\* Before it has taken a token the parser is within the file.
LEMMA ParserBegins ==
    ASSUME Init, ParserInit
    PROVE  ParserInv
<1>1. TokensInv
  BY TokensInit
<1>2. Len(text) \in Nat /\ Len(tokens) = 0
  BY <1>1 DEF Init, TokensInv, TypeOK
<1>3. QED
  BY <1>1, <1>2 DEF ParserInit, ParserInv, FoundOK, Modes

\* It stays there.
LEMMA ParserNext ==
    ASSUME ParserInv, [AnnotatedNext]_<<vars, parserVars>>
    PROVE  ParserInv'
<1>1. CASE Next /\ UNCHANGED parserVars
  BY <1>1, BeforeParser
<1>2. CASE Parse /\ UNCHANGED vars
  BY <1>2, TakeStep, ScanStep DEF Parse
<1>3. CASE UNCHANGED <<vars, parserVars>>
  <2>1. TokensInv'
    BY <1>3, TokensNext DEF ParserInv
  <2>2. QED
    BY <1>3, <2>1 DEF ParserInv, parserVars, vars, FoundOK
<1>4. QED
  BY <1>1, <1>2, <1>3 DEF AnnotatedNext

LEMMA ParserInvTypes ==
    ASSUME ParserInv
    PROVE  TypeOK /\ ParserTypeOK
<1>1. TypeOK /\ DOMAIN text = 1..Len(text)
  BY DEF ParserInv, TokensInv, TypeOK
<1>2. QED
  BY <1>1 DEF ParserInv, ParserTypeOK, FoundOK

\* The parser never reads outside of the comment it has taken, and its names and
\* values are of characters of the file, however long it is.
THEOREM ParserTypeCorrect == AnnotatedSpec => []ParserTypeOK
<1>1. Init /\ ParserInit => ParserInv
  BY ParserBegins
<1>2. ParserInv /\ [AnnotatedNext]_<<vars, parserVars>> => ParserInv'
  BY ParserNext
<1>3. ParserInv => ParserTypeOK
  BY ParserInvTypes
<1>4. QED
  BY <1>1, <1>2, <1>3, PTL DEF AnnotatedSpec

-----------------------------------------------------------------------------
(* What cleanup_annotation keeps.                                          *)

\* d is the function in the definition of Cleanup, up to b.
Decor(d, a, b) ==
    d = [p \in a - 1..b |->
            /\ p >= a
            /\ IF d[p - 1] THEN text[p] \in {"blank", "star", "nl"}
                           ELSE text[p] \in {"cr", "nl"}]

\* There is such a function.
LEMMA DecorExists ==
    ASSUME NEW a \in Nat \ {0}, NEW b \in Nat, a <= b + 1
    PROVE  \E d : Decor(d, a, b)
<1>1. PICK z, w : z = a - 1 /\ w = b - z
  OBVIOUS
<1>2. z \in Nat /\ w \in Nat /\ b = z + w
  BY <1>1
<1> DEFINE T == {n \in 0..w : \E d : Decor(d, a, z + n)}
<1>3. 0 \in T
  <2>1. Decor([p \in z..z |-> FALSE], a, z)
    <3>1. a - 1 = z /\ \A p \in z..z : ~(p >= a)
      BY <1>1, <1>2
    <3>2. QED
      BY <3>1 DEF Decor
  <2>2. z + 0 = z
    BY <1>2
  <2>3. QED
    BY <1>2, <2>1, <2>2
<1>4. ASSUME NEW n \in 0..w, n \in T, n < w
      PROVE  n + 1 \in T
  <2>1. PICK k, m : k = z + n /\ m = z + (n + 1)
    OBVIOUS
  <2>2. /\ m = k + 1 /\ k \in z..k /\ m \in Nat /\ m >= a /\ m - 1 = k /\ m \notin z..k
        /\ z..m = {m} \cup (z..k) /\ n + 1 \in 0..w
        /\ \A p \in z..k : p >= a => p - 1 \in z..k
    BY <1>1, <1>2, <1>4, <2>1
  <2>3. PICK d : Decor(d, a, k)
    BY <1>4, <2>1
  <2> DEFINE x == /\ m >= a
                  /\ IF d[k] THEN text[m] \in {"blank", "star", "nl"}
                             ELSE text[m] \in {"cr", "nl"}
             e == [p \in z..m |-> IF p = m THEN x ELSE d[p]]
  <2>4. /\ \A p \in z..k : e[p] = d[p]
        /\ e[m] = x
    BY <2>2
  <2>5. e = [p \in z..m |-> e[p]]
    OBVIOUS
  <2> HIDE DEF e
  <2>6. \A p \in z..k : d[p] = (/\ p >= a
                                /\ IF d[p - 1] THEN text[p] \in {"blank", "star", "nl"}
                                               ELSE text[p] \in {"cr", "nl"})
    BY <1>1, <2>3 DEF Decor
  <2>7. \A p \in z..m : e[p] = (/\ p >= a
                                /\ IF e[p - 1] THEN text[p] \in {"blank", "star", "nl"}
                                               ELSE text[p] \in {"cr", "nl"})
    <3>1. ASSUME NEW p \in z..k
          PROVE  e[p] = (/\ p >= a
                         /\ IF e[p - 1] THEN text[p] \in {"blank", "star", "nl"}
                                        ELSE text[p] \in {"cr", "nl"})
      <4>1. p >= a => e[p - 1] = d[p - 1]
        BY <2>2, <2>4, <3>1
      <4>2. QED
        BY <2>4, <2>6, <3>1, <4>1
    <3>2. e[m] = (/\ m >= a
                  /\ IF e[m - 1] THEN text[m] \in {"blank", "star", "nl"}
                                 ELSE text[m] \in {"cr", "nl"})
      <4>1. e[m - 1] = d[k]
        BY <2>2, <2>4
      <4>2. QED
        BY <2>4, <4>1, Zenon
    <3>3. QED
      BY <2>2, <3>1, <3>2
  <2>8. Decor(e, a, m)
    BY <1>1, <2>5, <2>7 DEF Decor
  <2>9. QED
    BY <2>1, <2>2, <2>8
<1> HIDE DEF T
<1>5. w \in T
  BY <1>2, <1>3, <1>4, CountUp
<1>6. QED
  BY <1>2, <1>5 DEF T

\* Of the decoration that begins a line are the blanks and stars behind its end.
Decorates(a, p) ==
    \E q \in a..p : text[q] = "nl" /\ \A r \in q + 1..p : text[r] \in {"blank", "star"}

\* Each character ends the line, goes on with the decoration, or ends it.
LEMMA DecoratesStep ==
    ASSUME NEW a \in Nat, NEW p \in Nat, NEW k, k = p + 1, a <= k
    PROVE  Decorates(a, k) <=> \/ text[k] = "nl"
                               \/ Decorates(a, p) /\ text[k] \in {"blank", "star"}
<1>1. k \in a..k /\ ~(k \in k + 1..k) /\ \A r : r \notin k + 1..k
  OBVIOUS
<1>2. ASSUME text[k] = "nl" PROVE Decorates(a, k)
  BY <1>1, <1>2 DEF Decorates
<1>3. ASSUME Decorates(a, p), text[k] \in {"blank", "star"} PROVE Decorates(a, k)
  <2>1. PICK q \in a..p : text[q] = "nl" /\ \A r \in q + 1..p : text[r] \in {"blank", "star"}
    BY <1>3 DEF Decorates
  <2>2. q \in a..k /\ \A r \in q + 1..k : r = k \/ r \in q + 1..p
    OBVIOUS
  <2>3. QED
    BY <1>3, <2>1, <2>2 DEF Decorates
<1>4. ASSUME Decorates(a, k), text[k] # "nl"
      PROVE  Decorates(a, p) /\ text[k] \in {"blank", "star"}
  <2>1. PICK q \in a..k : text[q] = "nl" /\ \A r \in q + 1..k : text[r] \in {"blank", "star"}
    BY <1>4 DEF Decorates
  <2>2. q # k
    BY <1>4, <2>1
  <2>3. q \in a..p /\ k \in q + 1..k /\ \A r \in q + 1..p : r \in q + 1..k
    BY <2>2
  <2>4. QED
    BY <2>1, <2>3 DEF Decorates
<1>5. QED
  BY <1>2, <1>3, <1>4

\* The words that are kept are those of the regular expression's content.
LEMMA CleanupWords ==
    ASSUME text \in Seq(Char), WholeLineEnds, NEW a \in Nat \ {0}, NEW b \in Nat,
           b <= Len(text), a <= b + 1
    PROVE  Words(Trim(Cleanup(a, b))) = WordsBetween(a, b)
<1> DEFINE d == CHOOSE d : Decor(d, a, b)
<1>1. Decor(d, a, b)
  BY DecorExists
<1>2. Cleanup(a, b) = {p \in a..b : text[p] = "nl" \/ ~d[p]}
  BY DEF Cleanup, Decor
<1> HIDE DEF d
<1>3. \A p \in a - 1..b : d[p] <=> /\ p >= a
                                   /\ IF d[p - 1] THEN text[p] \in {"blank", "star", "nl"}
                                                  ELSE text[p] \in {"cr", "nl"}
  BY <1>1 DEF Decor
<1>4. Len(text) \in Nat /\ DOMAIN text = 1..Len(text)
  OBVIOUS
<1>5. \A p \in a..b : text[p] # "cr" => (d[p] <=> Decorates(a, p))
  <2>1. PICK z, w : z = a - 1 /\ w = b - z
    OBVIOUS
  <2>2. z \in Nat /\ w \in Nat /\ b = z + w
    BY <2>1
  <2> DEFINE T == {n \in 0..w : \A p \in a..z + n : text[p] # "cr" => (d[p] <=> Decorates(a, p))}
  <2>3. 0 \in T
    BY <2>1, <2>2
  <2>4. ASSUME NEW n \in 0..w, n \in T, n < w
        PROVE  n + 1 \in T
    <3>1. PICK k, m : k = z + n /\ m = z + (n + 1)
      OBVIOUS
    <3>2. /\ m = k + 1 /\ m - 1 = k /\ m \in a - 1..b /\ m >= a /\ k \in Nat
          /\ n + 1 \in 0..w /\ k \in a - 1..b
          /\ \A p \in a..m : p = m \/ p \in a..k
      BY <2>1, <2>2, <2>4, <3>1
    <3>3. \A p \in a..k : text[p] # "cr" => (d[p] <=> Decorates(a, p))
      BY <2>4, <3>1
    <3>4. d[m] <=> IF d[k] THEN text[m] \in {"blank", "star", "nl"}
                           ELSE text[m] \in {"cr", "nl"}
      BY <1>3, <3>2
    <3>5. Decorates(a, m) <=> \/ text[m] = "nl"
                              \/ Decorates(a, k) /\ text[m] \in {"blank", "star"}
      BY <3>2, DecoratesStep
    <3>6. text[m] # "cr" => (d[m] <=> Decorates(a, m))
      <4>1. CASE k < a
        <5>1. ~d[k] /\ ~Decorates(a, k)
          <6>1. ~(k >= a) /\ a..k = {}
            BY <3>2, <4>1
          <6>2. QED
            BY <1>3, <3>2, <6>1 DEF Decorates
        <5>2. QED
          BY <3>4, <3>5, <5>1
      <4>2. CASE k >= a /\ text[k] = "cr"
        <5>1. text[m] = "nl"
          <6>1. k \in DOMAIN text
            BY <1>4, <3>2, <4>2
          <6>2. QED
            BY <3>2, <4>2, <6>1 DEF WholeLineEnds
        <5>2. QED
          BY <3>4, <3>5, <5>1
      <4>3. CASE k >= a /\ text[k] # "cr"
        <5>1. d[k] <=> Decorates(a, k)
          BY <3>2, <3>3, <4>3
        <5>2. QED
          BY <3>4, <3>5, <5>1
      <4>4. QED
        BY <3>2, <4>1, <4>2, <4>3
    <3>7. QED
      BY <3>1, <3>2, <3>3, <3>6
  <2> HIDE DEF T
  <2>5. w \in T
    BY <2>2, <2>3, <2>4, CountUp
  <2>6. QED
    BY <2>2, <2>5 DEF T
<1>6. \A p \in a..b : text[p] \notin Blanks =>
          (Decorates(a, p) <=> \E q \in a..p - 1 : text[q] = "nl"
                                 /\ \A r \in q + 1..p : text[r] \in {"blank", "star"})
  <2>1. ASSUME NEW p \in a..b, text[p] \notin Blanks, NEW q \in a..p, text[q] = "nl"
        PROVE  q \in a..p - 1
    <3>1. q # p
      BY <2>1 DEF Blanks
    <3>2. QED
      BY <3>1
  <2>2. \A p \in a..b : \A q \in a..p - 1 : q \in a..p
    OBVIOUS
  <2>3. QED
    BY <2>1, <2>2 DEF Decorates
<1>7. \A p \in a..b : text[p] \notin Blanks => (p \in Cleanup(a, b) <=> ~Decorates(a, p))
  <2>1. \A p : text[p] \notin Blanks => text[p] # "cr" /\ text[p] # "nl"
    BY DEF Blanks
  <2>2. QED
    BY <1>2, <1>5, <2>1
<1>8. Words(Trim(Cleanup(a, b))) = Words(Cleanup(a, b))
  <2>1. PICK K : K = Cleanup(a, b)
    OBVIOUS
  <2>2. K \subseteq a..b
    BY <1>2, <2>1
  <2>3. \A p \in K : p <= p
    BY <2>2
  <2>4. QED
    BY <2>1, <2>3 DEF Words, Trim
<1>9. Cleanup(a, b) \subseteq a..b
  BY <1>2
<1>10. Words(Cleanup(a, b)) = {p \in a..b : text[p] \notin Blanks /\ ~Decorates(a, p)}
  BY <1>7, <1>9 DEF Words
<1>11. QED
  BY <1>6, <1>8, <1>10 DEF WordsBetween

-----------------------------------------------------------------------------
(* The annotations of the regular expression.                              *)

\* Least and Greatest are the numbers that bound the others.
LEMMA LeastIs ==
    ASSUME NEW T, T \subseteq Nat, NEW x \in T, \A y \in T : x <= y
    PROVE  Least(T) = x
<1>1. \A z \in T : (\A y \in T : z <= y) => z = x
  OBVIOUS
<1>2. QED
  BY <1>1, Zenon DEF Least

LEMMA GreatestIs ==
    ASSUME NEW T, T \subseteq Nat, NEW x \in T, \A y \in T : x >= y
    PROVE  Greatest(T) = x
<1>1. \A z \in T : (\A y \in T : z >= y) => z = x
  OBVIOUS
<1>2. QED
  BY <1>1, Zenon DEF Greatest

\* t is a block comment.
BlockAt(t) ==
    /\ t.from \in 1..Len(text) /\ t.to \in 1..Len(text) /\ t.from + 3 <= t.to
    /\ text[t.to - 1] = "star" /\ text[t.to] = "slash"
    /\ \A d \in t.from + 3..t.to - 1 : ~(text[d - 1] = "star" /\ text[d] = "slash")

\* The name behind the "@" at p ends before b, and its content before q.
Named(t, p, b, q) ==
    /\ p \in t.from..t.to /\ text[p] = "at"
    /\ b \in p + 1..t.to - 2 /\ Run(p + 1, b - 1) /\ text[b] \in Blanks
    /\ q \in b + 1..t.to - 1 /\ \A r \in b..q - 1 : text[r] # "at"
    /\ text[q] = "at" \/ q = t.to - 1

\* Every "@" of a tidy comment is followed by a name and its content.
LEMMA NamedExists ==
    ASSUME text \in Seq(Char), NEW t, BlockAt(t), Tidy(t), NEW p \in t.from..t.to,
           text[p] = "at"
    PROVE  \E b, q : Named(t, p, b, q)
<1>1. t.from \in Nat /\ t.to \in Nat /\ p \in Nat /\ t.from >= 1
  BY DEF BlockAt
<1> DEFINE B == {b \in p + 1..t.to - 2 : text[b] \in Blanks}
<1>2. B \subseteq Nat /\ B # {}
  BY <1>1 DEF Tidy
<1>3. PICK b \in B : \A r \in B : b <= r
  BY <1>2, LeastOf
<1> DEFINE Q == {q \in b + 1..t.to - 1 : text[q] = "at" \/ q = t.to - 1}
<1>4. Q \subseteq Nat /\ t.to - 1 \in Q
  BY <1>1, <1>3
<1>5. PICK q \in Q : \A r \in Q : q <= r
  BY <1>4, LeastOf
<1>6. Run(p + 1, b - 1)
  <2>1. ASSUME NEW r \in p + 1..b - 1 PROVE text[r] \notin Blanks
    <3>1. r \notin B /\ r \in p + 1..t.to - 2
      BY <1>1, <1>3
    <3>2. QED
      BY <3>1
  <2>2. QED
    BY <2>1 DEF Run
<1>7. \A r \in b..q - 1 : text[r] # "at"
  <2>1. ASSUME NEW r \in b..q - 1 PROVE text[r] # "at"
    <3>1. CASE r = b
      BY <1>3, <3>1 DEF Blanks
    <3>2. CASE r # b
      <4>1. r \in b + 1..t.to - 1 /\ r \notin Q
        BY <1>1, <1>3, <1>5, <3>2
      <4>2. QED
        BY <4>1
    <3>3. QED
      BY <3>1, <3>2
  <2>2. QED
    BY <2>1
<1>8. QED
  BY <1>3, <1>5, <1>6, <1>7 DEF Named

\* A match in a tidy comment.
LEMMA MatchNamed ==
    ASSUME text \in Seq(Char), NEW t, BlockAt(t), NEW p, NEW b, NEW q, Named(t, p, b, q)
    PROVE  /\ Stops(t, p + 1) # {}
           /\ Match(t, p).name = SubSeq(text, p + 1, b - 1)
           /\ Match(t, p).words = WordsBetween(b, q - 1)
           /\ Match(t, p).next = q
<1>1. /\ t.from \in Nat /\ t.to \in Nat /\ t.from >= 1 /\ t.from + 3 <= t.to
      /\ p \in Nat /\ b \in Nat /\ q \in Nat /\ p >= t.from /\ p < b /\ b < q /\ q < t.to
      /\ b + 1 < t.to
  <2>1. t.from \in Nat /\ t.to \in Nat /\ t.from >= 1 /\ t.from + 3 <= t.to
    BY DEF BlockAt
  <2>2. p \in t.from..t.to /\ b \in p + 1..t.to - 2 /\ q \in b + 1..t.to - 1
    BY DEF Named
  <2>3. PICK x, y : x = t.from /\ y = t.to
    OBVIOUS
  <2>4. QED
    BY <2>1, <2>2, <2>3
<1>2. /\ text[p] = "at" /\ Run(p + 1, b - 1) /\ text[b] \in Blanks
      /\ \A r \in b..q - 1 : text[r] # "at"
      /\ text[q] = "at" \/ q = t.to - 1
  BY DEF Named
<1>3. ASSUME NEW m \in Nat, m <= q
      PROVE  q \in Stops(t, m)
  <2>1. q \in m..t.to /\ (q = t.to - 1 => q < t.to /\ q + 1 = t.to)
    BY <1>1, <1>3
  <2>2. text[t.to - 1] = "star" /\ text[t.to] = "slash"
    BY DEF BlockAt
  <2>3. QED
    BY <1>2, <2>1, <2>2 DEF Stops
<1>4. NameEnd(t, p) = b - 1
  <2> DEFINE S == {e \in p..t.to : Run(p + 1, e) /\ Stops(t, e + 1) # {}}
  <2>1. S \subseteq Nat
    BY <1>1
  <2>2. b - 1 \in S
    <3>1. b - 1 \in p..t.to /\ (b - 1) + 1 = b /\ b <= q
      BY <1>1
    <3>2. QED
      BY <1>1, <1>2, <1>3, <3>1
  <2>3. ASSUME NEW e \in S PROVE b - 1 >= e
    <3>1. Run(p + 1, e) /\ e \in Nat
      BY <1>1
    <3>2. b \notin p + 1..e
      BY <1>2, <3>1 DEF Run
    <3>3. QED
      BY <1>1, <3>1, <3>2
  <2> HIDE DEF S
  <2>4. Greatest(S) = b - 1
    BY <2>1, <2>2, <2>3, GreatestIs
  <2>5. QED
    BY <2>4 DEF S, NameEnd
<1>5. PICK s : s = ContentStart(t, b - 1)
  OBVIOUS
<1>6. s \in b..q /\ \A r \in b..s - 1 : text[r] = "blank"
  <2> DEFINE U == {x \in b..t.to : (\A r \in b..x - 1 : text[r] = "blank") /\ Stops(t, x) # {}}
  <2>1. s = Greatest(U)
    <3>1. (b - 1) + 1 = b
      BY <1>1
    <3>2. QED
      BY <1>5, <3>1 DEF ContentStart
  <2>2. U \subseteq 0..t.to /\ b \in U
    <3>1. b \in b..t.to /\ b..b - 1 = {}
      BY <1>1
    <3>2. Stops(t, b) # {}
      BY <1>1, <1>3
    <3>3. QED
      BY <1>1, <3>1, <3>2
  <2>3. s \in U
    <3> HIDE DEF U
    <3>1. \E x \in U : \A y \in U : x >= y
      BY <1>1, <2>2, GreatestOf
    <3>2. QED
      BY <2>1, <3>1, Zenon DEF Greatest
  <2>4. s \in b..t.to /\ \A r \in b..s - 1 : text[r] = "blank"
    BY <2>3
  <2>5. ~(s > q)
    <3>1. SUFFICES ASSUME s > q PROVE FALSE
      OBVIOUS
    <3>2. q \in b..s - 1
      BY <1>1, <2>4, <3>1
    <3>3. text[q] \in {"at", "star"}
      BY <1>2 DEF BlockAt
    <3>4. QED
      BY <2>4, <3>2, <3>3
  <2>6. QED
    BY <1>1, <2>4, <2>5
<1>7. s \in Nat /\ b <= s /\ s <= q
  BY <1>1, <1>6
<1>8. Least(Stops(t, s)) = q
  <2>1. Stops(t, s) \subseteq Nat /\ q \in Stops(t, s)
    BY <1>1, <1>3, <1>7 DEF Stops
  <2>2. ASSUME NEW r \in Stops(t, s) PROVE q <= r
    <3>1. SUFFICES ASSUME r < q PROVE FALSE
      BY <1>1, <2>1
    <3>2. r \in Nat /\ r \in b..q - 1 /\ r < t.to
      BY <1>1, <1>7, <2>1, <3>1 DEF Stops
    <3>3. text[r] = "star" /\ text[r + 1] = "slash"
      BY <1>2, <3>2 DEF Stops
    <3>4. r # b
      BY <1>2, <3>3 DEF Blanks
    <3>5. r + 1 \in t.from + 3..t.to - 1 /\ (r + 1) - 1 = r
      BY <1>1, <3>1, <3>2, <3>4
    <3>6. QED
      BY <3>3, <3>5 DEF BlockAt
  <2>3. QED
    BY <2>1, <2>2, LeastIs
<1>9. WordsBetween(s, q - 1) = WordsBetween(b, q - 1)
  <2>1. \A r \in b..s - 1 : text[r] \in Blanks /\ text[r] # "nl"
    BY <1>6 DEF Blanks
  <2>2. ASSUME NEW x \in b..q - 1, text[x] \notin Blanks
        PROVE  /\ x \in s..q - 1
               /\ (\E n \in b..x - 1 : text[n] = "nl"
                       /\ \A r \in n + 1..x : text[r] \in {"blank", "star"})
                   <=> (\E n \in s..x - 1 : text[n] = "nl"
                       /\ \A r \in n + 1..x : text[r] \in {"blank", "star"})
    <3>1. x \in s..q - 1
      BY <1>1, <1>7, <2>1, <2>2
    <3>2. \A n \in b..x - 1 : text[n] = "nl" => n \in s..x - 1
      BY <1>1, <1>7, <2>1, <3>1
    <3>3. \A n \in s..x - 1 : n \in b..x - 1
      BY <1>1, <1>7
    <3>4. QED
      BY <3>1, <3>2, <3>3
  <2>3. \A x \in s..q - 1 : x \in b..q - 1
    BY <1>1, <1>7
  <2>4. QED
    BY <2>2, <2>3 DEF WordsBetween
<1>10. Stops(t, p + 1) # {}
  BY <1>1, <1>3
<1>11. PICK n, w : n = SubSeq(text, p + 1, b - 1) /\ w = WordsBetween(s, q - 1)
  OBVIOUS
<1>12. Match(t, p) = [name |-> n, words |-> w, next |-> q]
  BY <1>4, <1>5, <1>8, <1>11 DEF Match
<1>13. Match(t, p).name = n /\ Match(t, p).words = w /\ Match(t, p).next = q
  BY <1>12
<1>14. QED
  BY <1>9, <1>10, <1>11, <1>13, Zenon

\* A match before the later ones, of which one with its name counts.
Extended(later, name, words) ==
    [n \in DOMAIN later \cup {name} |-> IF n \in DOMAIN later THEN later[n] ELSE words]

\* What is found from p on, when g is what is found behind it.
FoundAt(t, g, p) ==
    IF p > t.to THEN Nothing
    ELSE IF text[p] = "at" /\ Stops(t, p + 1) # {}
    THEN Extended(g[Match(t, p).next], Match(t, p).name, Match(t, p).words)
    ELSE g[p + 1]

IsMap(x) == x = [n \in DOMAIN x |-> x[n]]

\* The function in the definition of RegexFoundFrom, from k on.
Matches(t, g, k) == g = [p \in k..t.to + 1 |-> FoundAt(t, g, p)]

\* What is found from p on depends on what is found behind it.
LEMMA FoundBehind ==
    ASSUME text \in Seq(Char), NEW t, BlockAt(t), Tidy(t), NEW g, NEW h, NEW p,
           p \in t.from..t.to, \A r \in p + 1..t.to + 1 : g[r] = h[r]
    PROVE  /\ FoundAt(t, g, p) = FoundAt(t, h, p)
           /\ (\A r \in p + 1..t.to + 1 : IsMap(h[r])) => IsMap(FoundAt(t, h, p))
<1>1. t.from \in Nat /\ t.to \in Nat /\ p \in Nat /\ ~(p > t.to) /\ p + 1 \in p + 1..t.to + 1
  BY DEF BlockAt
<1>2. CASE text[p] = "at"
  <2>1. PICK b, q : Named(t, p, b, q)
    BY <1>2, NamedExists
  <2>2. q \in p + 1..t.to + 1
    <3>1. b \in p + 1..t.to - 2 /\ q \in b + 1..t.to - 1
      BY <2>1 DEF Named
    <3>2. QED
      BY <1>1, <3>1
  <2>3. Match(t, p).next = q
    BY <2>1, MatchNamed
  <2>4. PICK n, w : n = Match(t, p).name /\ w = Match(t, p).words
    OBVIOUS
  <2>5. /\ FoundAt(t, g, p) = IF Stops(t, p + 1) # {} THEN Extended(g[q], n, w) ELSE g[p + 1]
        /\ FoundAt(t, h, p) = IF Stops(t, p + 1) # {} THEN Extended(h[q], n, w) ELSE h[p + 1]
    BY <1>1, <1>2, <2>3, <2>4 DEF FoundAt
  <2>6. IsMap(Extended(h[q], n, w))
    BY DEF IsMap, Extended
  <2>7. /\ g[q] = h[q] /\ g[p + 1] = h[p + 1]
        /\ (\A r \in p + 1..t.to + 1 : IsMap(h[r])) => IsMap(h[p + 1])
    BY <1>1, <2>2
  <2>8. QED
    BY <2>5, <2>6, <2>7
<1>3. CASE text[p] # "at"
  <2>1. FoundAt(t, g, p) = g[p + 1] /\ FoundAt(t, h, p) = h[p + 1]
    BY <1>1, <1>3 DEF FoundAt
  <2>2. QED
    BY <1>1, <2>1
<1>4. QED
  BY <1>2, <1>3

\* There is such a function.
LEMMA MatchesExists ==
    ASSUME text \in Seq(Char), NEW t, BlockAt(t), Tidy(t)
    PROVE  \E g : Matches(t, g, t.from)
<1>1. PICK a, e : a = t.from /\ e = t.to
  OBVIOUS
<1>2. a \in Nat /\ e \in Nat /\ a <= e + 1
  BY <1>1 DEF BlockAt
<1>3. PICK z : z = e + 1 - a
  OBVIOUS
<1> DEFINE T == {k \in 0..z : \E g : Matches(t, g, e + 1 - k)}
<1>4. z \in Nat /\ e + 1 - z = a
  BY <1>2, <1>3
<1>5. 0 \in T
  <2>1. Matches(t, [p \in e + 1..e + 1 |-> Nothing], e + 1)
    <3>1. \A g : \A p \in e + 1..e + 1 : FoundAt(t, g, p) = Nothing
      BY <1>1, <1>2 DEF FoundAt
    <3>2. QED
      BY <1>1, <3>1 DEF Matches
  <2>2. e + 1 - 0 = e + 1 /\ 0 \in 0..z
    BY <1>2, <1>4
  <2>3. QED
    BY <2>1, <2>2
<1>6. ASSUME NEW j \in 0..z, j \in T, j < z
      PROVE  j + 1 \in T
  <2>1. PICK k, m : k = e + 1 - j /\ m = e + 1 - (j + 1)
    OBVIOUS
  <2>2. /\ m \in a..e /\ k = m + 1 /\ m \notin k..e + 1 /\ m..e + 1 = {m} \cup (k..e + 1)
        /\ j + 1 \in 0..z /\ \A p \in k..e + 1 : p \in a..e \/ p = e + 1
    BY <1>2, <1>3, <1>6, <2>1
  <2>3. PICK g : Matches(t, g, k)
    BY <1>6, <2>1
  <2> DEFINE h == [p \in m..e + 1 |-> IF p = m THEN FoundAt(t, g, m) ELSE g[p]]
  <2>4. h[m] = FoundAt(t, g, m) /\ \A p \in k..e + 1 : h[p] = g[p]
    BY <2>2
  <2>5. h = [p \in m..e + 1 |-> h[p]]
    OBVIOUS
  <2> HIDE DEF h
  <2>6. \A p \in k..e + 1 : g[p] = FoundAt(t, g, p)
    BY <1>1, <2>3 DEF Matches
  <2>7. ASSUME NEW p \in m..e + 1
        PROVE  FoundAt(t, h, p) = FoundAt(t, g, p)
    <3>1. CASE p = e + 1
      BY <1>1, <1>2, <3>1 DEF FoundAt
    <3>2. CASE p # e + 1
      <4>1. p \in a..e /\ \A r \in p + 1..e + 1 : r \in k..e + 1
        BY <1>2, <2>2, <3>2
      <4>2. QED
        BY <1>1, <2>4, <4>1, FoundBehind
    <3>3. QED
      BY <3>1, <3>2
  <2>8. \A p \in m..e + 1 : h[p] = FoundAt(t, h, p)
    <3>1. \A p \in m..e + 1 : h[p] = FoundAt(t, g, p)
      BY <2>2, <2>4, <2>6
    <3>2. QED
      BY <2>7, <3>1
  <2>9. Matches(t, h, m)
    BY <1>1, <2>5, <2>8 DEF Matches
  <2>10. QED
    BY <2>1, <2>2, <2>9
<1> HIDE DEF T
<1>7. z \in T
  BY <1>4, <1>5, <1>6, CountUp
<1>8. QED
  BY <1>1, <1>4, <1>7 DEF T

\* What is found from each position on.
LEMMA RegexFoundStep ==
    ASSUME text \in Seq(Char), NEW t, BlockAt(t), Tidy(t)
    PROVE  \A p \in t.from..t.to + 1 :
               /\ RegexFoundFrom(t)[p] = FoundAt(t, RegexFoundFrom(t), p)
               /\ IsMap(RegexFoundFrom(t)[p])
<1>1. \E g : Matches(t, g, t.from)
  BY MatchesExists
<1> DEFINE f == RegexFoundFrom(t)
<1>2. f = CHOOSE g : Matches(t, g, t.from)
  BY DEF RegexFoundFrom, Matches, FoundAt, Extended
<1> HIDE DEF f
<1>3. Matches(t, f, t.from)
  BY <1>1, <1>2
<1>4. \A p \in t.from..t.to + 1 : f[p] = FoundAt(t, f, p)
  BY <1>3 DEF Matches
<1>5. PICK a, e : a = t.from /\ e = t.to
  OBVIOUS
<1>6. a \in Nat /\ e \in Nat /\ a <= e + 1
  BY <1>5 DEF BlockAt
<1> DEFINE T == {k \in 0..e + 1 - a : \A p \in e + 1 - k..e + 1 : IsMap(f[p])}
<1>7. 0 \in T
  <2>1. f[e + 1] = Nothing
    <3>1. e + 1 > e /\ e + 1 \in a..e + 1
      BY <1>6
    <3>2. QED
      BY <1>4, <1>5, <3>1 DEF FoundAt
  <2>2. IsMap(f[e + 1])
    BY <2>1 DEF IsMap, Nothing
  <2>3. 0 \in 0..e + 1 - a /\ \A p \in e + 1 - 0..e + 1 : p = e + 1
    BY <1>6
  <2>4. QED
    BY <2>2, <2>3
<1>8. ASSUME NEW k \in 0..e + 1 - a, k \in T, k < e + 1 - a
      PROVE  k + 1 \in T
  <2>1. PICK m, l : m = e + 1 - (k + 1) /\ l = e + 1 - k
    OBVIOUS
  <2>2. /\ m \in a..e /\ l = m + 1 /\ k + 1 \in 0..e + 1 - a /\ m \in a..e + 1
        /\ \A p \in m..e + 1 : p = m \/ p \in l..e + 1
    BY <1>6, <1>8, <2>1
  <2>3. \A p \in l..e + 1 : IsMap(f[p])
    BY <1>8, <2>1
  <2>4. IsMap(FoundAt(t, f, m))
    BY <1>5, <2>2, <2>3, FoundBehind
  <2>5. IsMap(f[m])
    BY <1>4, <1>5, <2>2, <2>4
  <2>6. QED
    BY <2>1, <2>2, <2>3, <2>5
<1> HIDE DEF T
<1>9. e + 1 - a \in T
  <2>1. e + 1 - a \in Nat
    BY <1>6
  <2>2. QED
    BY <1>7, <1>8, <2>1, CountUp
<1>10. \A p \in a..e + 1 : IsMap(f[p])
  <2>1. e + 1 - (e + 1 - a) = a
    BY <1>6
  <2>2. QED
    BY <1>9, <2>1 DEF T
<1>11. QED
  BY <1>4, <1>5, <1>10 DEF f

-----------------------------------------------------------------------------
(* The parser in a block comment.                                          *)

\* Every comment that does not begin with "//" ends at the first "*/".
BlockTokens ==
    \A k \in DOMAIN tokens :
        tokens[k].type = "comment" /\ text[tokens[k].from + 1] # "slash" => BlockAt(tokens[k])

\* One token more.
LEMMA BlockTokensMore ==
    ASSUME BlockTokens, tokens \in Seq(Tokens), text' = text, NEW x \in Tokens,
           tokens' = Append(tokens, x),
           x.type = "comment" /\ text[x.from + 1] # "slash" => BlockAt(x)
    PROVE  BlockTokens'
<1>1. /\ Len(tokens) \in Nat /\ DOMAIN tokens = 1..Len(tokens)
      /\ DOMAIN tokens' = 1..Len(tokens) + 1 /\ tokens'[Len(tokens) + 1] = x
      /\ \A k \in 1..Len(tokens) : tokens'[k] = tokens[k]
  OBVIOUS
<1>2. ASSUME NEW k \in DOMAIN tokens'
      PROVE  tokens'[k] = x \/ (k \in DOMAIN tokens /\ tokens'[k] = tokens[k])
  BY <1>1
<1>3. ASSUME NEW y, BlockAt(y) PROVE BlockAt(y)'
  BY <1>3 DEF BlockAt
<1>4. ASSUME NEW k \in DOMAIN tokens', tokens'[k].type = "comment",
             text[tokens'[k].from + 1] # "slash"
      PROVE  BlockAt(tokens[k])'
  <2>1. PICK y : y = tokens'[k]
    OBVIOUS
  <2>2. BlockAt(y)
    <3>1. CASE y = x
      BY <1>4, <2>1, <3>1
    <3>2. CASE k \in DOMAIN tokens /\ y = tokens[k]
      BY <1>4, <2>1, <3>2 DEF BlockTokens
    <3>3. QED
      BY <1>2, <1>4, <2>1, <3>1, <3>2
  <2>3. BlockAt(y)'
    BY <1>3, <2>2
  <2>4. QED
    BY <2>1, <2>3 DEF BlockAt
<1>5. QED
  BY <1>4 DEF BlockTokens

\* The tokenizer ends no comment elsewhere.
LEMMA BlockTokensNext ==
    ASSUME RegexInv, BlockTokens, [Next]_vars
    PROVE  BlockTokens'
<1>1. tokens \in Seq(Tokens) /\ text' = text
  BY DEF RegexInv, TokensInv, TypeOK, Tokens, Next, vars, ReadCode, ReadSlash, ReadComment,
         ReadBlock, ReadStar, ReadBlockEnd, ReadLine, ReadLineEnd, Finish, Read
<1>2. CASE tokens' = tokens
  BY <1>1, <1>2 DEF BlockTokens, BlockAt
<1>3. ASSUME tokens' # tokens
      PROVE  \E x \in Tokens : tokens' = Append(tokens, x) /\
                 (x.type = "comment" /\ text[x.from + 1] # "slash" => BlockAt(x))
  <2>1. CASE ReadComment \/ Finish
    <3>1. \E a, b : tokens' = Append(tokens, Token(a, b, "code"))
      BY <1>3, <2>1 DEF ReadComment, Finish
    <3>2. PICK a, b : tokens' = Append(tokens, Token(a, b, "code"))
      BY <3>1
    <3>3. TokensInv'
      BY TokensNext DEF RegexInv
    <3>4. Token(a, b, "code") \in Tokens
      <4>1. tokens' \in Seq(Tokens)
        BY <1>1, <3>3 DEF TokensInv, TypeOK, Tokens
      <4>2. Len(tokens) + 1 \in 1..Len(tokens') /\ tokens'[Len(tokens) + 1] = Token(a, b, "code")
        BY <1>1, <3>2
      <4>3. QED
        BY <4>1, <4>2
    <3>5. Token(a, b, "code").type # "comment"
      BY DEF Token
    <3>6. QED
      BY <3>2, <3>4, <3>5
  <2>2. CASE ReadBlockEnd
    <3>1. /\ i < Len(text) /\ state = "star" /\ text[i + 1] = "slash"
          /\ tokens' = Append(tokens, Token(start, i + 1, "comment"))
      BY <2>2 DEF ReadBlockEnd, In, ch
    <3>2. /\ Len(text) \in Nat /\ i \in Nat /\ start \in Nat /\ start \in 1..i + 1
      BY <3>1, RegexReading
    <3>3. /\ start + 2 <= i /\ text[i] = "star"
          /\ \A d \in start + 3..i : ~(text[d - 1] = "star" /\ text[d] = "slash")
      BY <3>1 DEF RegexInv, TokensInv, CdataInv, OpenInv
    <3>4. PICK x : x = Token(start, i + 1, "comment")
      OBVIOUS
    <3>5. x.from = start /\ x.to = i + 1
      BY <3>4 DEF Token
    <3>6. start \in 1..Len(text) /\ i + 1 \in 1..Len(text) /\ (i + 1) - 1 = i
          /\ start + 3 <= i + 1
      BY <3>1, <3>2, <3>3
    <3>7. x \in Tokens
      BY <3>4, <3>6 DEF Token, Tokens
    <3>8. BlockAt(x)
      BY <3>1, <3>3, <3>5, <3>6 DEF BlockAt
    <3>9. QED
      BY <3>1, <3>4, <3>7, <3>8
  <2>3. CASE ReadLineEnd
    <3>1. /\ i < Len(text) /\ state = "line"
          /\ tokens' = Append(tokens, Token(start, CommentEnd, "comment"))
      BY <2>3 DEF ReadLineEnd, In
    <3>2. text[start + 1] = "slash" /\ start + 1 <= i
      BY <3>1 DEF RegexInv, TokensInv, CdataInv
    <3>3. PICK x : x = Token(start, CommentEnd, "comment")
      OBVIOUS
    <3>4. Len(text) \in Nat /\ i \in Nat /\ start \in Nat /\ start \in 1..i + 1
      BY <3>1, RegexReading
    <3>5. start \in 1..Len(text) /\ CommentEnd \in 1..Len(text)
      BY <3>1, <3>2, <3>4 DEF CommentEnd
    <3>6. x \in Tokens /\ x.from = start
      BY <3>3, <3>5 DEF Token, Tokens
    <3>7. QED
      BY <3>1, <3>2, <3>3, <3>6
  <2>4. CASE ReadCode \/ ReadSlash \/ ReadBlock \/ ReadStar \/ ReadLine \/ UNCHANGED vars
    BY <1>3, <2>4 DEF ReadCode, ReadSlash, ReadBlock, ReadStar, ReadLine, Keep, vars
  <2>5. QED
    BY <2>1, <2>2, <2>3, <2>4 DEF Next
<1>4. QED
  BY <1>1, <1>2, <1>3, BlockTokensMore

\* The same text has the same annotations.
LEMMA RegexFoundSame ==
    ASSUME text' = text, NEW t
    PROVE  RegexFoundFrom(t)' = RegexFoundFrom(t)
BY DEF RegexFoundFrom, Match, NameEnd, ContentStart, Stops, Run, WordsBetween, Blanks,
       Nothing, Least, Greatest

\* f says what is found from each position of t on.
FoundIn(t, f) ==
    \A p \in t.from..t.to + 1 : f[p] = FoundAt(t, f, p) /\ IsMap(f[p])

\* What has been found, F, and what is found from here on, x, are y.
Agrees(F, x, y) ==
    /\ DOMAIN F \cup DOMAIN x = DOMAIN y
    /\ \A n \in DOMAIN y : y[n] = IF n \in DOMAIN x THEN x[n] ELSE Words(F[n])

\* Where the parser stands in the block comment t.
Within(t, f) ==
    /\ pos \in t.from - 1..t.to
    /\ mode = "none" => Agrees(found, f[pos + 1], f[t.from])
    /\ mode # "none" =>
           /\ nameAt \in t.from + 1..pos + 1 /\ text[nameAt - 1] = "at"
           /\ Agrees(found, f[nameAt - 1], f[t.from])
    /\ mode = "name" => Run(nameAt, pos)
    /\ mode \in {"content", "star"} =>
           /\ contentAt \in nameAt..t.to - 2 /\ Run(nameAt, contentAt - 1)
           /\ text[contentAt] \in Blanks
           /\ pos \in contentAt..t.to - 1 /\ \A r \in contentAt..pos : text[r] # "at"
           /\ mode = "star" <=> text[pos] = "star"

\* What is found at a name is its match, and what is found behind that.
LEMMA FoundNamed ==
    ASSUME text \in Seq(Char), NEW t, BlockAt(t), NEW f, FoundIn(t, f),
           NEW p, NEW b, NEW q, Named(t, p, b, q)
    PROVE  f[p] = Extended(f[q], SubSeq(text, p + 1, b - 1), WordsBetween(b, q - 1))
<1>1. t.from \in Nat /\ t.to \in Nat /\ p \in t.from..t.to /\ text[p] = "at"
  BY DEF BlockAt, Named
<1>2. p \in t.from..t.to + 1 /\ ~(p > t.to)
  <2>1. PICK x, y : x = t.from /\ y = t.to
    OBVIOUS
  <2>2. QED
    BY <1>1, <2>1
<1>3. f[p] = FoundAt(t, f, p)
  BY <1>2 DEF FoundIn
<1>4. FoundAt(t, f, p) = Extended(f[q], SubSeq(text, p + 1, b - 1), WordsBetween(b, q - 1))
  <2>1. /\ Stops(t, p + 1) # {}
        /\ Match(t, p).name = SubSeq(text, p + 1, b - 1)
        /\ Match(t, p).words = WordsBetween(b, q - 1)
        /\ Match(t, p).next = q
    BY MatchNamed
  <2>2. FoundAt(t, f, p) =
            Extended(f[Match(t, p).next], Match(t, p).name, Match(t, p).words)
    BY <1>1, <1>2, <2>1, Zenon DEF FoundAt
  <2>3. QED
    BY <2>1, <2>2, Zenon
<1>5. QED
  BY <1>3, <1>4

\* Elsewhere nothing is added.
LEMMA FoundElsewhere ==
    ASSUME NEW t, BlockAt(t), NEW f, FoundIn(t, f)
    PROVE  /\ \A p \in t.from..t.to : text[p] # "at" => f[p] = f[p + 1]
           /\ f[t.to + 1] = Nothing
<1>1. PICK a, e : a = t.from /\ e = t.to
  OBVIOUS
<1>2. a \in Nat /\ e \in Nat /\ a <= e
  BY <1>1 DEF BlockAt
<1>3. /\ \A p \in a..e : p \in a..e + 1 /\ ~(p > e)
      /\ e + 1 \in a..e + 1 /\ e + 1 > e
  BY <1>2
<1>4. \A p \in a..e + 1 : f[p] = FoundAt(t, f, p)
  BY <1>1 DEF FoundIn
<1>5. \A p \in a..e : text[p] # "at" => f[p] = f[p + 1]
  BY <1>1, <1>3, <1>4 DEF FoundAt
<1>6. f[e + 1] = Nothing
  BY <1>1, <1>3, <1>4 DEF FoundAt
<1>7. QED
  BY <1>1, <1>5, <1>6

\* F with the value v under one name is G.
Stored(F, G, name, v) ==
    G = [n \in DOMAIN F \cup {name} |-> IF n = name THEN v ELSE F[n]]

\* One annotation more has been found.
LEMMA AgreesStore ==
    ASSUME NEW F, NEW x, NEW y, NEW name, NEW v, NEW w, NEW G, w = Words(v),
           Agrees(F, Extended(x, name, w), y), Stored(F, G, name, v)
    PROVE  Agrees(G, x, y)
<1>1. PICK z : z = Extended(x, name, w)
  OBVIOUS
<1>2. /\ DOMAIN z = DOMAIN x \cup {name}
      /\ \A n \in DOMAIN z : z[n] = IF n \in DOMAIN x THEN x[n] ELSE w
  BY <1>1 DEF Extended
<1>3. /\ DOMAIN F \cup DOMAIN z = DOMAIN y
      /\ \A n \in DOMAIN y : y[n] = IF n \in DOMAIN z THEN z[n] ELSE Words(F[n])
  BY <1>1 DEF Agrees
<1>4. /\ DOMAIN G = DOMAIN F \cup {name}
      /\ \A n \in DOMAIN G : G[n] = IF n = name THEN v ELSE F[n]
  BY DEF Stored
<1>5. DOMAIN G \cup DOMAIN x = DOMAIN y
  BY <1>2, <1>3, <1>4
<1>6. ASSUME NEW n \in DOMAIN y, n \notin DOMAIN x
      PROVE  y[n] = Words(G[n])
  <2>1. CASE n = name
    <3>1. y[n] = w /\ G[n] = v
      BY <1>2, <1>3, <1>4, <1>6, <2>1
    <3>2. QED
      BY <3>1
  <2>2. CASE n # name
    <3>1. y[n] = Words(F[n]) /\ n \in DOMAIN G
      BY <1>2, <1>3, <1>4, <1>6, <2>2
    <3>2. G[n] = F[n]
      BY <1>4, <2>2, <3>1
    <3>3. QED
      BY <3>1, <3>2
  <2>3. QED
    BY <2>1, <2>2
<1>7. \A n \in DOMAIN y : n \in DOMAIN x => y[n] = x[n]
  BY <1>2, <1>3
<1>8. QED
  BY <1>5, <1>6, <1>7 DEF Agrees

\* A text outside of annotations.
LEMMA WithinText ==
    ASSUME text \in Seq(Char), text' = text, NEW t, t = Now, turn > 0, BlockAt(t),
           NEW f, FoundIn(t, f), Within(t, f), SkipText
    PROVE  Within(t, f)'
<1>1. PICK a, e, s : a = t.from /\ e = t.to /\ s = pos + 1
  OBVIOUS
<1>2. /\ mode = "none" /\ pos # e /\ pos' = s /\ found' = found
      /\ IF text[s] = "at" THEN mode' = "name" /\ nameAt' = pos + 2
                           ELSE mode' = "none"
  BY <1>1 DEF SkipText, Reads, ReadAll, Scan, c
<1>3. a \in Nat \ {0} /\ e \in Nat
  BY <1>1 DEF BlockAt
<1>4. pos \in a - 1..e /\ Agrees(found, f[s], f[a])
  BY <1>1, <1>2 DEF Within
<1>5. /\ s \in a..e /\ s \in a - 1..e /\ s + 1 \in a + 1..s + 1 /\ pos + 2 = s + 1 /\ (s + 1) - 1 = s
      /\ \A r : r \notin s + 1..s
  <2>1. s = pos + 1 /\ pos # e /\ pos \in a - 1..e
    BY <1>1, <1>2, <1>4
  <2>2. s \in Nat
    BY <1>3, <2>1
  <2>3. QED
    BY <1>3, <2>1, <2>2
<1>6. CASE text[s] = "at"
  <2>1. mode' = "name" /\ nameAt' = s + 1
    BY <1>2, <1>5, <1>6
  <2>2. Agrees(found, f[nameAt - 1], f[t.from])'
    BY <1>1, <1>2, <1>4, <1>5, <2>1 DEF Agrees, Words, Blanks
  <2>3. Run(nameAt, pos)'
    BY <1>2, <1>5, <2>1 DEF Run
  <2>4. QED
    BY <1>1, <1>2, <1>5, <1>6, <2>1, <2>2, <2>3 DEF Within
<1>7. CASE text[s] # "at"
  <2>1. f[s] = f[s + 1]
    BY <1>1, <1>5, <1>7, FoundElsewhere
  <2>2. Agrees(found, f[pos + 1], f[t.from])'
    BY <1>1, <1>2, <1>4, <2>1 DEF Agrees, Words, Blanks
  <2>3. QED
    BY <1>1, <1>2, <1>5, <1>7, <2>2 DEF Within
<1>8. QED
  BY <1>6, <1>7

\* A name, and the blank that ends it.
LEMMA WithinName ==
    ASSUME text \in Seq(Char), text' = text, NEW t, t = Now, BlockAt(t), Tidy(t),
           NEW f, Within(t, f), ReadName
    PROVE  Within(t, f)'
<1>1. PICK a, e, s : a = t.from /\ e = t.to /\ s = pos + 1
  OBVIOUS
<1>2. PICK p : p = nameAt - 1
  OBVIOUS
<1>3. /\ mode = "name" /\ pos' = s /\ found' = found /\ nameAt' = nameAt
      /\ IF text[s] \in Blanks THEN mode' = "content" /\ contentAt' = s ELSE mode' = "name"
  BY <1>1 DEF ReadName, Reads, Scan, c
<1>4. a \in Nat \ {0} /\ e \in Nat
  BY <1>1 DEF BlockAt
<1>5. /\ pos \in a - 1..e /\ nameAt \in a + 1..pos + 1 /\ text[p] = "at"
      /\ Agrees(found, f[p], f[a]) /\ Run(nameAt, pos)
  BY <1>1, <1>2, <1>3 DEF Within
<1>6. /\ p \in a..e /\ nameAt = p + 1 /\ p <= pos /\ p \in Nat /\ pos \in Nat
      /\ s \in Nat /\ s = pos + 1 /\ nameAt \in a + 1..s + 1
  <2>1. pos \in a - 1..e /\ nameAt \in a + 1..pos + 1 /\ p = nameAt - 1 /\ s = pos + 1
    BY <1>1, <1>2, <1>5
  <2>2. pos \in Nat /\ nameAt \in Nat /\ p \in Nat
    BY <1>4, <2>1
  <2>3. QED
    BY <1>4, <2>1, <2>2
<1>7. PICK q \in p + 1..e - 2 : text[q] \in Blanks
  BY <1>1, <1>5, <1>6 DEF Tidy
<1>8. q \in Nat /\ q + 2 <= e /\ s <= q
  <2>1. q \notin nameAt..pos
    BY <1>5, <1>7 DEF Run
  <2>2. QED
    BY <1>4, <1>6, <1>7, <2>1
<1>9. s \in a - 1..e /\ s \in nameAt..e - 2 /\ s \in s..e - 1 /\ \A r \in s..s : r = s
  BY <1>4, <1>6, <1>8
<1>10. Agrees(found, f[nameAt - 1], f[t.from])'
  BY <1>1, <1>2, <1>3, <1>5 DEF Agrees, Words, Blanks
<1>11. CASE text[s] \in Blanks
  <2>1. mode' = "content" /\ contentAt' = s
    BY <1>3, <1>11
  <2>2. Run(nameAt, contentAt - 1)'
    BY <1>3, <1>5, <1>6, <2>1 DEF Run, Blanks
  <2>3. text[s] \notin {"at", "star"}
    BY <1>11 DEF Blanks
  <2>4. (text[contentAt] \in Blanks)'
    BY <1>11, <2>1 DEF Blanks
  <2>5. QED
    BY <1>1, <1>2, <1>3, <1>5, <1>6, <1>9, <1>10, <2>1, <2>2, <2>3, <2>4 DEF Within
<1>12. CASE text[s] \notin Blanks
  <2>1. mode' = "name"
    BY <1>3, <1>12
  <2>2. \A r \in nameAt..s : r = s \/ r \in nameAt..pos
    BY <1>6
  <2>3. Run(nameAt, pos)'
    BY <1>3, <1>5, <1>12, <2>2 DEF Run, Blanks
  <2>4. QED
    BY <1>1, <1>2, <1>3, <1>5, <1>6, <1>9, <1>10, <2>1, <2>3 DEF Within
<1>13. QED
  BY <1>11, <1>12

\* The content begins behind the name, and ends within the comment.
LEMMA WithinContent ==
    ASSUME NEW t, BlockAt(t), NEW f, Within(t, f), mode \in {"content", "star"}
    PROVE  /\ t.from \in Nat \ {0} /\ t.to \in Nat /\ t.to <= Len(text)
           /\ nameAt \in Nat /\ contentAt \in Nat /\ pos \in Nat
           /\ t.from < nameAt /\ nameAt <= contentAt /\ contentAt <= pos
           /\ contentAt + 2 <= t.to /\ pos < t.to
<1>1. PICK a, e : a = t.from /\ e = t.to
  OBVIOUS
<1>2. a \in Nat \ {0} /\ e \in Nat /\ e <= Len(text)
  BY <1>1 DEF BlockAt
<1>3. /\ pos \in a - 1..e /\ nameAt \in a + 1..pos + 1
      /\ contentAt \in nameAt..e - 2 /\ pos \in contentAt..e - 1
  BY <1>1 DEF Within
<1>4. /\ nameAt \in Nat /\ contentAt \in Nat /\ pos \in Nat
      /\ a < nameAt /\ nameAt <= contentAt /\ contentAt <= pos
      /\ contentAt + 2 <= e /\ pos < e
  BY <1>2, <1>3
<1>5. QED
  BY <1>1, <1>2, <1>4

\* It is that of a match when an "@" or the end of the comment follows.
LEMMA ContentNamed ==
    ASSUME NEW t, BlockAt(t), NEW f, Within(t, f), mode \in {"content", "star"},
           NEW q \in contentAt + 1..t.to - 1, q <= pos + 1, text[q] = "at" \/ q = t.to - 1
    PROVE  Named(t, nameAt - 1, contentAt, q)
<1>1. PICK a, e, p : a = t.from /\ e = t.to /\ p = nameAt - 1
  OBVIOUS
<1>2. /\ a \in Nat \ {0} /\ e \in Nat /\ nameAt \in Nat /\ contentAt \in Nat /\ pos \in Nat
      /\ a < nameAt /\ nameAt <= contentAt /\ contentAt <= pos
      /\ contentAt + 2 <= e /\ pos < e
  BY <1>1, WithinContent
<1>3. /\ text[p] = "at" /\ Run(nameAt, contentAt - 1) /\ text[contentAt] \in Blanks
      /\ \A r \in contentAt..pos : text[r] # "at"
  BY <1>1 DEF Within
<1>4. p \in a..e /\ p + 1 = nameAt /\ contentAt \in p + 1..e - 2
      /\ \A r \in contentAt..q - 1 : r \in contentAt..pos
  BY <1>1, <1>2
<1>5. \A r \in contentAt..q - 1 : text[r] # "at"
  BY <1>3, <1>4
<1>6. Run(p + 1, contentAt - 1)
  BY <1>3, <1>4
<1>7. QED
  BY <1>1, <1>3, <1>4, <1>5, <1>6 DEF Named

\* A character of a content.
LEMMA WithinRead ==
    ASSUME text \in Seq(Char), text' = text, NEW t, t = Now, BlockAt(t),
           NEW f, Within(t, f), ReadContent
    PROVE  Within(t, f)'
<1>1. PICK a, e, s : a = t.from /\ e = t.to /\ s = pos + 1
  OBVIOUS
<1>2. /\ mode \in {"content", "star"} /\ pos' = s /\ found' = found /\ nameAt' = nameAt
      /\ contentAt' = contentAt /\ text[s] # "at" /\ ~(text[s] = "slash" /\ mode = "star")
      /\ mode' = IF text[s] = "star" THEN "star" ELSE "content"
  BY <1>1 DEF ReadContent, Reads, Scan, c
<1>3. /\ a \in Nat \ {0} /\ e \in Nat /\ nameAt \in Nat /\ contentAt \in Nat /\ pos \in Nat
      /\ a < nameAt /\ nameAt <= contentAt /\ contentAt <= pos
      /\ contentAt + 2 <= e /\ pos < e
  BY <1>1, <1>2, WithinContent
<1>4. /\ text[nameAt - 1] = "at" /\ Agrees(found, f[nameAt - 1], f[a])
      /\ contentAt \in nameAt..e - 2 /\ Run(nameAt, contentAt - 1)
      /\ text[contentAt] \in Blanks
      /\ \A r \in contentAt..pos : text[r] # "at"
      /\ mode = "star" <=> text[pos] = "star"
  BY <1>1, <1>2 DEF Within
<1>5. pos # e - 1
  <2>1. SUFFICES ASSUME pos = e - 1 PROVE FALSE
    OBVIOUS
  <2>2. text[e - 1] = "star" /\ text[e] = "slash"
    BY <1>1 DEF BlockAt
  <2>3. s = e
    <3>1. s = (e - 1) + 1
      BY <1>1, <2>1
    <3>2. QED
      BY <1>3, <3>1
  <2>4. QED
    BY <1>2, <1>4, <2>1, <2>2, <2>3
<1>6. /\ s \in a - 1..e /\ nameAt \in a + 1..s + 1 /\ s \in contentAt..e - 1
      /\ \A r \in contentAt..s : r = s \/ r \in contentAt..pos
  <2>1. s = pos + 1 /\ s \in Nat
    BY <1>1, <1>3
  <2>2. QED
    BY <1>3, <1>5, <2>1
<1>7. Agrees(found, f[nameAt - 1], f[t.from])'
  BY <1>1, <1>2, <1>4 DEF Agrees, Words, Blanks
<1>8. \A r \in contentAt..s : text[r] # "at"
  BY <1>2, <1>4, <1>6
<1>9. Run(nameAt, contentAt - 1)' /\ (text[contentAt] \in Blanks)'
  BY <1>2, <1>4 DEF Run, Blanks
<1>10. mode' \in {"content", "star"} /\ (mode' = "star" <=> text[s] = "star")
  BY <1>2
<1>11. QED
  BY <1>1, <1>2, <1>4, <1>6, <1>7, <1>8, <1>9, <1>10 DEF Within

\* What is stored are the words of the match, the next of which is at q.
LEMMA StoreNamed ==
    ASSUME text \in Seq(Char), text' = text, WholeLineEnds, NEW t, BlockAt(t),
           NEW f, FoundIn(t, f), Within(t, f), mode \in {"content", "star"}, Store,
           NEW q \in contentAt + 1..t.to - 1, q <= pos + 1, text[q] = "at" \/ q = t.to - 1,
           WordsBetween(contentAt, pos) = WordsBetween(contentAt, q - 1)
    PROVE  Agrees(found', f[q], f[t.from])
<1>1. PICK name, v : name = SubSeq(text, nameAt, contentAt - 1) /\ v = Trim(Cleanup(contentAt, pos))
  OBVIOUS
<1>2. PICK w, p, x, y : /\ w = WordsBetween(contentAt, q - 1) /\ p = nameAt - 1
                       /\ x = f[q] /\ y = f[t.from]
  OBVIOUS
<1>3. /\ t.to <= Len(text) /\ nameAt \in Nat /\ contentAt \in Nat /\ pos \in Nat
      /\ contentAt \in Nat \ {0} /\ pos <= Len(text) /\ contentAt <= pos + 1
  <2>1. PICK a, e : a = t.from /\ e = t.to
    OBVIOUS
  <2>2. /\ a \in Nat /\ e \in Nat /\ e <= Len(text)
        /\ nameAt \in Nat /\ contentAt \in Nat /\ pos \in Nat
        /\ a < nameAt /\ nameAt <= contentAt /\ contentAt <= pos /\ pos < e
    BY <2>1, WithinContent
  <2>3. Len(text) \in Nat
    OBVIOUS
  <2>4. contentAt \in Nat \ {0} /\ pos <= Len(text) /\ contentAt <= pos + 1
    BY <2>2, <2>3
  <2>5. QED
    BY <2>1, <2>2, <2>4
<1>4. w = Words(v)
  BY <1>1, <1>2, <1>3, CleanupWords
<1>5. f[p] = Extended(x, name, w)
  <2>1. Named(t, p, contentAt, q)
    BY <1>2, ContentNamed
  <2>2. f[p] = Extended(f[q], SubSeq(text, p + 1, contentAt - 1), WordsBetween(contentAt, q - 1))
    BY <2>1, FoundNamed
  <2>3. p + 1 = nameAt
    BY <1>2, <1>3
  <2>4. QED
    BY <1>1, <1>2, <2>2, <2>3, Zenon
<1>6. Agrees(found, f[p], y)
  BY <1>2 DEF Within
<1>7. PICK F, G : F = found /\ G = found'
  OBVIOUS
<1>8. Agrees(G, x, y)
  <2>1. Stored(F, G, name, v)
    BY <1>1, <1>7 DEF Store, Stored
  <2>2. Agrees(F, Extended(x, name, w), y)
    BY <1>5, <1>6, <1>7
  <2>3. QED
    BY <1>4, <2>1, <2>2, AgreesStore
<1>9. QED
  BY <1>2, <1>7, <1>8

\* The next name.
LEMMA WithinNext ==
    ASSUME text \in Seq(Char), text' = text, WholeLineEnds, NEW t, t = Now, BlockAt(t),
           NEW f, FoundIn(t, f), Within(t, f), NextName
    PROVE  Within(t, f)'
<1>1. PICK a, e, s : a = t.from /\ e = t.to /\ s = pos + 1
  OBVIOUS
<1>2. /\ mode \in {"content", "star"} /\ pos' = s /\ text[s] = "at" /\ Store
      /\ mode' = "name" /\ nameAt' = pos + 2
  BY <1>1 DEF NextName, Reads, Scan, c
<1>3. /\ a \in Nat \ {0} /\ e \in Nat /\ nameAt \in Nat /\ contentAt \in Nat /\ pos \in Nat
      /\ a < nameAt /\ nameAt <= contentAt /\ contentAt <= pos
      /\ contentAt + 2 <= e /\ pos < e
  BY <1>1, <1>2, WithinContent
<1>4. text[e] = "slash"
  BY <1>1 DEF BlockAt
<1>5. s = pos + 1 /\ s # e /\ s - 1 = pos /\ s <= pos + 1
  BY <1>1, <1>2, <1>3, <1>4
<1>6. /\ s \in contentAt + 1..e - 1 /\ s \in a - 1..e /\ pos + 2 = s + 1 /\ (s + 1) - 1 = s
      /\ s + 1 \in a + 1..s + 1 /\ \A r : r \notin s + 1..s
  <2>1. s \in Nat
    BY <1>3, <1>5
  <2>2. QED
    BY <1>3, <1>5, <2>1
<1>7. Agrees(found', f[s], f[a])
  BY <1>1, <1>2, <1>5, <1>6, StoreNamed
<1>8. nameAt' = s + 1
  BY <1>2, <1>6
<1>9. Agrees(found, f[nameAt - 1], f[t.from])'
  BY <1>1, <1>6, <1>7, <1>8 DEF Agrees, Words, Blanks
<1>10. Run(nameAt, pos)'
  BY <1>2, <1>6, <1>8 DEF Run
<1>11. QED
  BY <1>1, <1>2, <1>6, <1>8, <1>9, <1>10 DEF Within

\* The last line of a tidy comment holds no words.
LEMMA LastStar ==
    ASSUME text \in Seq(Char), NEW t, BlockAt(t), Tidy(t), NEW f, Within(t, f),
           mode \in {"content", "star"}
    PROVE  WordsBetween(contentAt, t.to - 1) = WordsBetween(contentAt, (t.to - 1) - 1)
<1>1. PICK a, e, z, p : a = t.from /\ e = t.to /\ z = t.to - 1 /\ p = nameAt - 1
  OBVIOUS
<1>2. /\ a \in Nat \ {0} /\ e \in Nat /\ nameAt \in Nat /\ contentAt \in Nat /\ pos \in Nat
      /\ a < nameAt /\ nameAt <= contentAt /\ contentAt <= pos
      /\ contentAt + 2 <= e /\ pos < e
  BY <1>1, WithinContent
<1>3. text[p] = "at" /\ Run(nameAt, contentAt - 1)
  BY <1>1 DEF Within
<1>4. z \in Nat /\ e = z + 1 /\ p \in Nat /\ nameAt = p + 1 /\ p < z
  <2>1. z = e - 1 /\ p = nameAt - 1
    BY <1>1
  <2>2. QED
    BY <1>2, <2>1
<1>5. text[z] = "star" /\ text[e] = "slash"
  BY <1>1 DEF BlockAt
<1>6. PICK q \in a..e : text[q] = "nl" /\ \A r \in q + 1..z : text[r] \in {"blank", "star"}
  BY <1>1 DEF Tidy
<1>7. p \notin q + 1..z /\ q # p /\ q \notin nameAt..contentAt - 1 /\ q # z /\ q # e
  BY <1>3, <1>5, <1>6 DEF Run, Blanks
<1>8. q \in contentAt..z - 1
  BY <1>2, <1>4, <1>6, <1>7
<1>9. z \notin WordsBetween(contentAt, z)
  BY <1>6, <1>8 DEF WordsBetween
<1>10. /\ \A x \in contentAt..z : x = z \/ x \in contentAt..z - 1
       /\ \A x \in contentAt..z - 1 : x \in contentAt..z
  BY <1>2, <1>4
<1>11. WordsBetween(contentAt, z) = WordsBetween(contentAt, z - 1)
  BY <1>9, <1>10 DEF WordsBetween
<1>12. QED
  BY <1>1, <1>11

\* The end of the comment.
LEMMA WithinEnd ==
    ASSUME text \in Seq(Char), text' = text, WholeLineEnds, NEW t, t = Now, BlockAt(t),
           Tidy(t), NEW f, FoundIn(t, f), Within(t, f), EndContent
    PROVE  Within(t, f)'
<1>1. PICK a, e, s : a = t.from /\ e = t.to /\ s = pos + 1
  OBVIOUS
<1>2. /\ mode = "star" /\ pos' = s /\ text[s] = "slash" /\ Store /\ mode' = "none"
  BY <1>1 DEF EndContent, Reads, Scan, c
<1>3. /\ a \in Nat \ {0} /\ e \in Nat /\ nameAt \in Nat /\ contentAt \in Nat /\ pos \in Nat
      /\ a < nameAt /\ nameAt <= contentAt /\ contentAt <= pos
      /\ contentAt + 2 <= e /\ pos < e
  BY <1>1, <1>2, WithinContent
<1>4. text[pos] = "star" /\ text[contentAt] \in Blanks
  BY <1>2 DEF Within
<1>5. pos # contentAt
  BY <1>4 DEF Blanks
<1>6. s \in Nat /\ s - 1 = pos /\ s >= a + 3 /\ s <= e
  <2>1. s = pos + 1
    BY <1>1
  <2>2. QED
    BY <1>3, <1>5, <2>1
<1>7. s = e
  <2>1. s \notin a + 3..e - 1
    BY <1>1, <1>2, <1>4, <1>6 DEF BlockAt
  <2>2. QED
    BY <1>3, <1>6, <2>1
<1>8. /\ pos = e - 1 /\ pos \in contentAt + 1..e - 1 /\ pos \in a..e /\ e \in a..e
      /\ pos + 1 = e /\ pos <= pos + 1 /\ e \in a - 1..e
  BY <1>3, <1>5, <1>6, <1>7
<1>9. WordsBetween(contentAt, pos) = WordsBetween(contentAt, pos - 1)
  BY <1>1, <1>2, <1>8, LastStar
<1>10. Agrees(found', f[pos], f[a])
  BY <1>1, <1>2, <1>8, <1>9, StoreNamed
<1>11. f[pos] = f[e] /\ f[e] = f[e + 1]
  <2>1. \A p \in a..e : text[p] # "at" => f[p] = f[p + 1]
    BY <1>1, FoundElsewhere
  <2>2. text[pos] # "at" /\ text[e] # "at"
    BY <1>2, <1>4, <1>7
  <2>3. QED
    BY <1>8, <2>1, <2>2
<1>12. Agrees(found, f[pos + 1], f[t.from])'
  BY <1>1, <1>2, <1>7, <1>10, <1>11 DEF Agrees, Words, Blanks
<1>13. QED
  BY <1>1, <1>2, <1>7, <1>8, <1>12 DEF Within

\* In a tidy block comment the parser finds what the regular expression finds.
AgreeInv ==
    \A t, f : /\ turn > 0 /\ t = Now /\ t.type = "comment" /\ ~IsLine(t)
              /\ Tidy(t) /\ WholeLineEnds /\ f = RegexFoundFrom(t)
              => Within(t, f)

\* The block comment at k.
LEMMA BlockNow ==
    ASSUME ParserInv, BlockTokens, NEW k \in 1..Len(tokens), NEW t, t = tokens[k],
           t.type = "comment", ~IsLine(t)
    PROVE  text \in Seq(Char) /\ BlockAt(t)
<1>1. text \in Seq(Char) /\ tokens \in Seq(Tokens)
  BY DEF ParserInv, TokensInv, TypeOK, Tokens
<1>2. k \in DOMAIN tokens
  BY <1>1
<1>3. QED
  BY <1>1, <1>2 DEF BlockTokens, IsLine

\* When the parser begins with a comment it stands before all that is to be found.
LEMMA AgreeTake ==
    ASSUME ParserInv, BlockTokens, TakeCode \/ TakeLine \/ TakeBlock, UNCHANGED vars
    PROVE  AgreeInv'
<1>1. PICK t : t = tokens[turn + 1]
  OBVIOUS
<1>2. /\ turn < Len(tokens) /\ turn' = turn + 1 /\ mode' = "none"
      /\ text' = text /\ tokens' = tokens
      /\ \/ t.type = "code"
         \/ IsLine(t)
         \/ pos' = t.from - 1 /\ found' = Nothing
  BY <1>1 DEF TakeCode, TakeLine, TakeBlock, Take, MayTake, Upcoming, vars
<1>3. Now' = t
  BY <1>1, <1>2 DEF Now
<1>4. (IsLine(t)' <=> IsLine(t)) /\ (Tidy(t)' <=> Tidy(t)) /\ RegexFoundFrom(t)' = RegexFoundFrom(t)
  BY <1>2, RegexFoundSame DEF IsLine, Tidy, Blanks
<1>5. PICK f : f = RegexFoundFrom(t)
  OBVIOUS
<1>6. SUFFICES ASSUME t.type = "comment", ~IsLine(t), Tidy(t)
               PROVE  Within(t, f)'
  BY <1>3, <1>4, <1>5 DEF AgreeInv
<1>7. turn + 1 \in 1..Len(tokens)
  BY <1>2 DEF ParserInv, TokensInv, TypeOK
<1>8. text \in Seq(Char) /\ BlockAt(t)
  BY <1>1, <1>6, <1>7, BlockNow
<1>9. PICK a, e : a = t.from /\ e = t.to
  OBVIOUS
<1>10. a \in Nat /\ e \in Nat /\ a <= e
  BY <1>8, <1>9 DEF BlockAt
<1>11. /\ pos' = a - 1 /\ found' = Nothing
  BY <1>2, <1>6, <1>9
<1>12. pos' \in a - 1..e /\ pos' + 1 = a
  BY <1>10, <1>11
<1>13. DOMAIN found' = {}
  BY <1>11 DEF Nothing
<1>14. Agrees(found, f[pos + 1], f[t.from])'
  BY <1>9, <1>12, <1>13 DEF Agrees
<1>15. QED
  BY <1>2, <1>9, <1>12, <1>14 DEF Within

\* Every character keeps what has been found and what is to be found together.
LEMMA AgreeScan ==
    ASSUME ParserInv, BlockTokens, AgreeInv, UNCHANGED vars,
           SkipText \/ ReadName \/ NextName \/ ReadContent \/ EndContent
    PROVE  AgreeInv'
<1>1. PICK t : t = Now
  OBVIOUS
<1>2. text' = text /\ tokens' = tokens /\ turn' = turn /\ ~ReadAll
  BY DEF SkipText, ReadName, NextName, ReadContent, EndContent, Reads, Scan, vars
<1>3. Now' = t
  BY <1>1, <1>2 DEF Now
<1>4. /\ (IsLine(t)' <=> IsLine(t)) /\ (Tidy(t)' <=> Tidy(t))
      /\ (WholeLineEnds' <=> WholeLineEnds) /\ RegexFoundFrom(t)' = RegexFoundFrom(t)
  BY <1>2, RegexFoundSame DEF IsLine, Tidy, Blanks, WholeLineEnds
<1>5. PICK f : f = RegexFoundFrom(t)
  OBVIOUS
<1>6. SUFFICES ASSUME t.type = "comment", ~IsLine(t), Tidy(t), WholeLineEnds
               PROVE  Within(t, f)'
  BY <1>3, <1>4, <1>5 DEF AgreeInv
<1>7. turn \in 1..Len(tokens) /\ turn > 0
  <2>1. turn \in 0..Len(tokens) /\ Len(tokens) \in Nat
    BY DEF ParserInv, TokensInv, TypeOK
  <2>2. turn # 0
    BY <1>2 DEF ReadAll
  <2>3. QED
    BY <2>1, <2>2
<1>8. text \in Seq(Char) /\ BlockAt(t)
  BY <1>1, <1>6, <1>7, BlockNow DEF Now
<1>9. FoundIn(t, f)
  BY <1>5, <1>6, <1>8, RegexFoundStep DEF FoundIn
<1>10. Within(t, f)
  BY <1>1, <1>5, <1>6, <1>7 DEF AgreeInv
<1>11. QED
  BY <1>1, <1>2, <1>6, <1>7, <1>8, <1>9, <1>10,
     WithinText, WithinName, WithinNext, WithinRead, WithinEnd

\* In any file with whole line ends and in every tidy comment of it, whatever names,
\* blanks and decoration it holds and however long it is, the parser finds the names
\* of the regular expression and under each its words.
THEOREM AnnotationsAgreeHolds == AnnotatedSpec => []AnnotationsAgree
<1> DEFINE Inv == ParserInv /\ RegexInv /\ BlockTokens /\ AgreeInv
<1>1. Init /\ ParserInit => Inv
  <2>1. SUFFICES ASSUME Init, ParserInit PROVE Inv
    OBVIOUS
  <2>2. BlockTokens
    BY <2>1 DEF Init, BlockTokens
  <2>3. AgreeInv
    BY <2>1 DEF ParserInit, AgreeInv
  <2>4. QED
    BY <2>1, <2>2, <2>3, ParserBegins, RegexInit
<1>2. Inv /\ [AnnotatedNext]_<<vars, parserVars>> => Inv'
  <2>1. SUFFICES ASSUME Inv, [AnnotatedNext]_<<vars, parserVars>> PROVE Inv'
    OBVIOUS
  <2>2. ParserInv' /\ RegexInv' /\ BlockTokens'
    <3>1. [Next]_vars
      BY <2>1 DEF AnnotatedNext
    <3>2. QED
      BY <2>1, <3>1, ParserNext, RegexNext, BlockTokensNext
  <2>3. AgreeInv'
    <3>1. CASE Next /\ UNCHANGED parserVars
      <4>1. turn = 0 /\ turn' = turn
        BY <2>1, <3>1, BeforeParser DEF parserVars
      <4>2. QED
        BY <4>1 DEF AgreeInv
    <3>2. CASE Parse /\ UNCHANGED vars
      BY <2>1, <3>2, AgreeTake, AgreeScan DEF Parse
    <3>3. CASE UNCHANGED <<vars, parserVars>>
      <4>1. /\ UNCHANGED <<text, tokens, turn, pos, mode, nameAt, contentAt, found>>
            /\ \A t : RegexFoundFrom(t)' = RegexFoundFrom(t)
        BY <3>3, RegexFoundSame DEF vars, parserVars
      <4>2. \A t, f : Within(t, f)' <=> Within(t, f)
        BY <4>1 DEF Within, Agrees, Words, Run, Blanks
      <4>3. \A t : (IsLine(t)' <=> IsLine(t)) /\ (Tidy(t)' <=> Tidy(t))
        BY <4>1 DEF IsLine, Tidy, Blanks
      <4>4. Now' = Now /\ (WholeLineEnds' <=> WholeLineEnds)
        BY <4>1 DEF Now, WholeLineEnds
      <4>5. QED
        BY <2>1, <4>1, <4>2, <4>3, <4>4 DEF AgreeInv
    <3>4. QED
      BY <2>1, <3>1, <3>2, <3>3 DEF AnnotatedNext
  <2>4. QED
    BY <2>2, <2>3
<1>3. Inv => AnnotationsAgree
  <2>1. SUFFICES ASSUME Inv, turn > 0, ReadAll, Now.type = "comment", ~IsLine(Now),
                        Tidy(Now), WholeLineEnds
                 PROVE  [n \in DOMAIN found |-> Words(found[n])] = RegexFound(Now)
    BY DEF AnnotationsAgree
  <2>2. PICK t, f, a, e : t = Now /\ f = RegexFoundFrom(t) /\ a = t.from /\ e = t.to
    OBVIOUS
  <2>3. Within(t, f)
    BY <2>1, <2>2 DEF AgreeInv
  <2>4. turn \in 1..Len(tokens)
    BY <2>1 DEF ParserInv, TokensInv, TypeOK
  <2>5. text \in Seq(Char) /\ BlockAt(t)
    BY <2>1, <2>2, <2>4, BlockNow DEF Now
  <2>6. FoundIn(t, f)
    BY <2>1, <2>2, <2>5, RegexFoundStep DEF FoundIn
  <2>7. a \in Nat /\ e \in Nat /\ a <= e
    BY <2>2, <2>5 DEF BlockAt
  <2>8. pos = e
    BY <2>1, <2>2, <2>4 DEF ReadAll
  <2>9. mode = "none"
    <3>1. ASSUME mode = "name" PROVE FALSE
      <4>1. nameAt \in a + 1..e + 1 /\ text[nameAt - 1] = "at" /\ Run(nameAt, e)
        BY <2>2, <2>3, <2>8, <3>1 DEF Within
      <4>2. PICK p : p = nameAt - 1
        OBVIOUS
      <4>3. p \in a..e /\ nameAt = p + 1 /\ p \in Nat
        BY <2>7, <4>1, <4>2
      <4>4. PICK q \in p + 1..e - 2 : text[q] \in Blanks
        BY <2>1, <2>2, <4>1, <4>2, <4>3 DEF Tidy
      <4>5. q \in nameAt..e
        BY <2>7, <4>3, <4>4
      <4>6. QED
        BY <4>1, <4>4, <4>5 DEF Run
    <3>2. ASSUME mode \in {"content", "star"} PROVE FALSE
      <4>1. pos < t.to
        BY <2>3, <2>5, <3>2, WithinContent
      <4>2. QED
        BY <2>2, <2>7, <2>8, <4>1
    <3>3. mode \in Modes
      BY <2>1 DEF ParserInv
    <3>4. QED
      BY <3>1, <3>2, <3>3 DEF Modes
  <2>10. Agrees(found, f[e + 1], f[a])
    BY <2>2, <2>3, <2>8, <2>9 DEF Within
  <2>11. f[e + 1] = Nothing
    BY <2>2, <2>5, <2>6, FoundElsewhere
  <2>12. IsMap(f[a])
    <3>1. a \in a..e + 1
      BY <2>7
    <3>2. QED
      BY <2>2, <2>6, <3>1 DEF FoundIn
  <2>13. PICK y : y = f[a]
    OBVIOUS
  <2>14. DOMAIN found = DOMAIN y /\ \A n \in DOMAIN y : y[n] = Words(found[n])
    BY <2>10, <2>11, <2>13 DEF Agrees, Nothing
  <2>15. [n \in DOMAIN found |-> Words(found[n])] = y
    BY <2>12, <2>13, <2>14 DEF IsMap
  <2>16. y = RegexFound(Now)
    BY <2>2, <2>13 DEF RegexFound
  <2>17. QED
    BY <2>15, <2>16
<1> HIDE DEF Inv
<1>4. QED
  BY <1>1, <1>2, <1>3, PTL DEF AnnotatedSpec

-----------------------------------------------------------------------------
(* All stages.                                                             *)

\* Through the three stages of sqlgen_main, on any file and any functions, every
\* variable keeps its range: the tokenizer does not go on behind the parser, nor
\* the parser behind the generator.
THEOREM StagesTypeCorrect == StagesSpec => []StagesTypeOK
<1>1. StagesInit => ParserInv /\ StructuresInv
  BY ParserBegins, StructuresInit DEF StagesInit
<1>2. ParserInv /\ StructuresInv /\ [StagesNext]_stagesVars => (ParserInv /\ StructuresInv)'
  <2>1. SUFFICES ASSUME ParserInv, StructuresInv, [StagesNext]_stagesVars
                 PROVE  ParserInv' /\ StructuresInv'
    OBVIOUS
  <2>2. [AnnotatedNext]_<<vars, parserVars>> /\ [GenerateFunction]_typeVars
    BY <2>1 DEF StagesNext, stagesVars
  <2>3. QED
    BY <2>1, <2>2, ParserNext, StructuresNext
<1>3. ParserInv /\ StructuresInv => StagesTypeOK
  BY ParserInvTypes DEF StructuresInv, TypesInv, TypesTypeOK, StagesTypeOK
<1>4. QED
  BY <1>1, <1>2, <1>3, PTL DEF StagesSpec
=============================================================================
