------------------------------ MODULE SqlgenRun ------------------------------
(***************************************************************************)
(* main.cpp: the program reads a C++ file and its header, saves both under *)
(* another name, generates, and writes both in place.  writestring empties *)
(* a file before it writes it, and the program can be stopped between any  *)
(* two of these steps.  A file that cannot be opened is read as empty text *)
(* and a write that fails is not noticed: the run goes on and says "Ok".   *)
(* Between the runs the user edits the file.                               *)
(***************************************************************************)
EXTENDS GeneratedSource

CONSTANT Together  \* bound: the sets of lapses that one behaviour can have

VARIABLES
    disk,     \* the files
    pc,       \* the step main() is at
    opened,   \* the file of this step has been opened, and so emptied
    data,     \* cppfile_data and headerfile_data
    input,    \* history: the files as they were when the run began
    mine,     \* history: what the user wrote into the C++ file
    report,   \* what the user knows of the last run
    lapses    \* history: see Lapses

vars == <<disk, pc, opened, data, input, mine, report, lapses>>

\* In the last run a source could not be opened, a backup or a source could not be
\* opened or written: nobody is told.
Failures == {"unread", "unsaved", "unwritten"}

\* What a careful user avoids: an insertion that parts code from the comment
\* before it, an annotation that ends the file, a header without markers, SQL
\* that did not prepare in the last run, running the program again on what a
\* crash left, or going on after a failure that nobody told of.
Lapses == {"bare", "atEnd", "noMarks", "sqlerror", "rerun", "unnoticed"} \cup Failures

FewLapses == lapses' \in Together

\* The user goes on.
Passed == (lapses \ Failures) \cup IF lapses \cap Failures = {} THEN {} ELSE {"unnoticed"}

Sources == {"cpp", "header"}
Files   == Sources \cup {"cppBackup", "headerBackup"}

\* A file that is there but has nothing in it.
Empty(f) == IF f \in {"cpp", "cppBackup"} THEN <<>> ELSE [marks |-> FALSE, decls |-> {}]

Init ==
    /\ lapses \in {{}, {"noMarks"}}
    /\ disk = [f \in Files |->
                  IF f = "header" THEN [marks |-> lapses = {}, decls |-> {}]
                  ELSE Empty(f)]
    /\ pc = "idle" /\ opened = FALSE
    /\ data = [f \in Sources |-> Empty(f)]
    /\ input = data
    /\ mine = {}
    /\ report = "none"

-----------------------------------------------------------------------------
(* The user.                                                               *)

\* Where there can be something new: outside of the braces, and not between an
\* annotation and its function.
Gaps(s) ==
    {p \in 0..Len(s) : /\ Depth(s, 1, p) = 0
                       /\ p = 0 \/ ~IsAnnotation(s[p])
                       /\ \A a \in Annotations(s) : p \notin a..FunctionEnd(s, a) - 1}

\* The text from p on begins with a comment.
AtComment(s, p) == p = Len(s) \/ IsComment(s[p + 1])

Insert(x, new, lapse) ==
    /\ pc = "idle" /\ report # "crash"
    /\ x \notin mine
    /\ \E p \in Gaps(disk["cpp"]) :
           /\ disk' = [disk EXCEPT !["cpp"] =
                          SubSeq(@, 1, p) \o new \o SubSeq(@, p + 1, Len(@))]
           /\ lapses' = Passed \cup lapse
                          \cup IF AtComment(disk["cpp"], p) THEN {} ELSE {"bare"}
    /\ FewLapses
    /\ mine' = mine \cup {x}
    /\ report' = "none"
    /\ UNCHANGED <<pc, opened, data, input>>

Annotate(f) ==
    \/ Insert(Annotation(f), <<Annotation(f), Blank>>, {})
    \/ Insert(Annotation(f), <<Annotation(f)>>, {"atEnd"})

WriteFunction(u) ==
    \/ Insert(Code(u), <<Comment, Code(u), Open, Close, Blank>>, {})
    \/ Insert(Code(u), <<Code(u), Open, Close, Blank>>, {"bare"})

\* After a crash the user takes of each file and its backup the complete one.
Complete(f, x) == IF f = "cpp" THEN \A y \in mine : \E p \in DOMAIN x : x[p] = y
                               ELSE x.marks

BackupOf(f) == IF f = "cpp" THEN "cppBackup" ELSE "headerBackup"

Restore ==
    /\ pc = "idle" /\ report = "crash"
    /\ disk' = [f \in Files |->
                   IF f \in Sources /\ ~Complete(f, disk[f]) THEN disk[BackupOf(f)]
                   ELSE disk[f]]
    /\ report' = "none"
    /\ UNCHANGED <<pc, opened, data, input, mine, lapses>>

-----------------------------------------------------------------------------
(* The program.                                                            *)

\* Mutant: only the C++ file is saved.
MutOrder == <<"cppBackup", "generate", "cpp", "header", "idle">>

\* The steps of main(): the files it writes, and sqlgen_main.
Order == <<"cppBackup", "headerBackup", "generate", "cpp", "header", "idle">>

After(step) ==
    LET n == CHOOSE n \in DOMAIN Order : Order[n] = step IN Order[n + 1]

SourceOf(f) == IF f \in {"cpp", "cppBackup"} THEN "cpp" ELSE "header"

\* getFile returns "" for a file that it cannot open, and main goes on with it.
Start ==
    /\ pc = "idle"
    /\ \E unread \in SUBSET {f \in Sources : disk[f] # Empty(f)} :
           /\ data' = [f \in Sources |-> IF f \in unread THEN Empty(f) ELSE disk[f]]
           /\ lapses' = (Passed \ {"sqlerror"})
                          \cup (IF report = "crash" THEN {"rerun"} ELSE {})
                          \cup (IF unread = {} THEN {} ELSE {"unread"})
    /\ FewLapses
    /\ input' = [f \in Sources |-> disk[f]]
    /\ pc' = Order[1]
    /\ report' = "none"
    /\ UNCHANGED <<disk, opened, mine>>

\* writestring: the file is opened, which empties it, and written.
Truncate(f) ==
    /\ pc = f /\ ~opened
    /\ disk' = [disk EXCEPT ![f] = Empty(f)]
    /\ opened' = TRUE
    /\ UNCHANGED <<pc, data, input, mine, report, lapses>>

\* It returns, and main() takes the next step.
CloseFile(f) ==
    /\ pc = f
    /\ pc' = After(f) /\ opened' = FALSE
    /\ report' = IF pc' = "idle" THEN "ok" ELSE report
    /\ UNCHANGED <<data, input, mine>>

Write(f) ==
    /\ CloseFile(f) /\ opened
    /\ disk' = [disk EXCEPT ![f] = data[SourceOf(f)]]
    /\ UNCHANGED lapses

\* The file cannot be opened and stays what it was, or it has been emptied and its
\* text is not written: of a text that is written in part the rest counts as lost.
WriteFails(f) ==
    /\ CloseFile(f)
    /\ lapses' = lapses \cup {IF f \in Sources THEN "unwritten" ELSE "unsaved"}
    /\ FewLapses
    /\ UNCHANGED disk

\* Mutant: a function that fails its check stays declared.
MutGenerateData(bad) ==
    [cpp    |-> Regenerate(data["cpp"], bad),
     header |-> PlaceData(data["header"],
                          data["header"].decls \cup Generated(data["cpp"], bad))]

\* sqlgen_main, when the SQL of the functions bad fails its check.
GenerateData(bad) ==
    [cpp    |-> Regenerate(data["cpp"], bad),
     header |-> PlaceData(data["header"], Generated(data["cpp"], bad))]

\* A check that fails is only printed.
Generate ==
    /\ pc = "generate"
    /\ \E bad \in SUBSET Func :
           /\ data' = GenerateData(bad)
           /\ lapses' = lapses \cup IF bad = {} THEN {} ELSE {"sqlerror"}
    /\ FewLapses
    /\ pc' = After("generate")
    /\ UNCHANGED <<disk, opened, input, mine, report>>

\* The statement of a @-SQLGenTempSetup fails: "Error:", and main returns 3.
SetupError ==
    /\ pc = "generate"
    /\ pc' = "idle"
    /\ report' = "error"
    /\ UNCHANGED <<disk, opened, data, input, mine, lapses>>

Crash ==
    /\ pc # "idle"
    /\ pc' = "idle" /\ opened' = FALSE
    /\ report' = "crash"
    /\ UNCHANGED <<disk, data, input, mine, lapses>>

Next ==
    \/ \E f \in Func : Annotate(f)
    \/ \E u \in Piece : WriteFunction(u)
    \/ Restore
    \/ Start \/ Generate \/ SetupError
    \/ \E f \in Files : Truncate(f) \/ Write(f) \/ WriteFails(f)
    \/ Crash

Spec == Init /\ [][Next]_vars

-----------------------------------------------------------------------------
(* Correctness.                                                            *)

Contents(f) == IF f \in {"cpp", "cppBackup"} THEN Seq(Item) ELSE Headers

\* The range of every variable.
TypeOK ==
    /\ DOMAIN disk = Files /\ \A f \in Files : disk[f] \in Contents(f)
    /\ pc \in {"idle", "generate"} \cup Files
    /\ opened \in BOOLEAN
    /\ DOMAIN data = Sources /\ \A f \in Sources : data[f] \in Contents(f)
    /\ DOMAIN input = Sources /\ \A f \in Sources : input[f] \in Contents(f)
    /\ mine \subseteq {Annotation(f) : f \in Func} \cup {Code(u) : u \in Piece}
    /\ report \in {"none", "ok", "error", "crash"}
    /\ lapses \subseteq Lapses

\* Nothing of these has happened.
Without(kinds) == lapses \cap kinds = {}

\* From the start of a run until the user does something, whether it ends, fails
\* or crashes, each file is on the disk as it was, in its place or in its backup:
\* if both could be read and both backups written, even where the sources could
\* not be written again.
Saved ==
    (pc # "idle" \/ report # "none") /\ Without({"unread", "unsaved"}) =>
        \A f \in Sources : input[f] \in {disk[f], disk[BackupOf(f)]}

\* Whenever the program is stopped, each file or its backup has all that the
\* user wrote: that is what the backups are for.  They are for a source that
\* cannot be written, too, but not for one that cannot be read, or for a failure
\* that the user goes on after.
Recoverable ==
    Without({"bare", "noMarks", "rerun", "unread", "unsaved", "unnoticed"}) =>
        \A f \in Sources : Complete(f, disk[f]) \/ Complete(f, disk[BackupOf(f)])

\* A run that says "SQLGen: Ok." has kept what the user wrote, in the file, when
\* every file could be opened and written, in this run and before.
RunKeepsText ==
    report = "ok" /\ Without({"bare", "rerun", "unnoticed"} \cup Failures) =>
        Complete("cpp", disk["cpp"])

Times(x) == Cardinality({p \in DOMAIN disk["cpp"] : disk["cpp"][p] = x})

\* After a run that says "SQLGen: Ok." every annotation has its function, once,
\* and the header declares it.
OkMeansGenerated ==
    report = "ok" /\ lapses = {} => \A f \in Func :
        Annotation(f) \in mine => Times(FunctionHead(f)) = 1 /\ f \in disk["header"].decls

\* The file and a header with markers have the same functions when this run could
\* write them, whatever went wrong before, and whether it could read them.
HeaderAgrees ==
    report = "ok" /\ disk["header"].marks /\ Without({"unwritten"}) =>
        disk["header"].decls = {f \in Func : Times(FunctionHead(f)) > 0}

\* To run the program twice is to run it once, when all SQL prepares and the first
\* run could write its files.
Idempotent ==
    report = "ok" /\ Without({"sqlerror", "unwritten"}) => Regenerate(disk["cpp"], {}) = disk["cpp"]
=============================================================================
