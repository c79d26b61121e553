------------------------------- MODULE Stages -------------------------------
(***************************************************************************)
(* sqlgen_main: the tokens of the file, then the annotations of each, then *)
(* the functions, one stage after the other.  The functions of the last    *)
(* stage are inputs of their own: what an annotation says is not decoded.  *)
(***************************************************************************)
EXTENDS Annotations, GeneratedTypes

stagesVars == <<vars, parserVars, typeVars>>

StagesInit == Init /\ ParserInit /\ TypesInit

\* getAnnotatedCode has returned.
Annotated == done /\ turn = Len(tokens) /\ ReadAll

StagesNext ==
    \/ AnnotatedNext /\ UNCHANGED typeVars
    \/ Annotated /\ GenerateFunction /\ UNCHANGED <<vars, parserVars>>

StagesSpec == StagesInit /\ [][StagesNext]_stagesVars

\* The range of every variable of the three stages.
StagesTypeOK == TypeOK /\ ParserTypeOK /\ TypesTypeOK
=============================================================================
