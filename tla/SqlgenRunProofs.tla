--------------------------- MODULE SqlgenRunProofs ---------------------------
(***************************************************************************)
(* Whatever the files hold and whatever is generated from them, no crash   *)
(* and no second run in the place of a repair loses a file as a run has    *)
(* read it, before that run has ended.  What the user wrote stays in the   *)
(* file that is generated, or in its backup.  After a run the header has   *)
(* the functions of the file, and every annotation has its own, once.      *)
(***************************************************************************)
EXTENDS SqlgenRun, GeneratedSourceProofs

\* The steps in their order.
Before  == {"cppBackup", "headerBackup", "generate"}
Writing == {"cpp", "header"}

\* The variables are functions of the files.
ShapeInv ==
    /\ disk = [f \in Files |-> disk[f]]
    /\ pc \in {"idle"} \cup Before \cup Writing
    /\ pc = "idle" \/ pc = "generate" => opened = FALSE
    /\ opened \in BOOLEAN

\* Both files could be read, and both backups written so far.
Kept == Without({"unread", "unsaved"})

\* Until sqlgen_main has returned the files are those of the start, and so is what
\* the program keeps of them when it could read them; a backup is complete when
\* its step is done, and both are before a file is touched.
SavedInv ==
    /\ pc \in Before => \A f \in Sources : disk[f] = input[f]
    /\ Kept =>
        /\ pc \in Before => \A f \in Sources : data[f] = input[f]
        /\ pc \in {"headerBackup", "generate"} => disk["cppBackup"] = input["cpp"]
        /\ pc \in {"generate"} => disk["headerBackup"] = input["header"]
        /\ pc \in Writing => \A f \in Sources : disk[BackupOf(f)] = input[f]

RunInv == ShapeInv /\ SavedInv /\ Saved

\* The order of main(), step by step.
LEMMA AfterStep ==
    /\ After("cppBackup") = "headerBackup" /\ After("headerBackup") = "generate"
    /\ After("generate") = "cpp" /\ After("cpp") = "header" /\ After("header") = "idle"
<1>1. ASSUME NEW k \in 1..5
      PROVE  After(Order[k]) = Order[k + 1]
  <2>1. DOMAIN Order = 1..6
    BY DEF Order
  <2>2. \A n \in DOMAIN Order : Order[n] = Order[k] => n = k
    BY <2>1 DEF Order
  <2>3. (CHOOSE n \in DOMAIN Order : Order[n] = Order[k]) = k
    BY <2>1, <2>2
  <2>4. QED
    BY <2>3 DEF After
<1>2. QED
  BY <1>1 DEF Order

\* The files are four different ones.
LEMMA FourFiles ==
    /\ BackupOf("cpp") = "cppBackup" /\ BackupOf("header") = "headerBackup"
    /\ SourceOf("cpp") = "cpp" /\ SourceOf("cppBackup") = "cpp"
    /\ SourceOf("header") = "header" /\ SourceOf("headerBackup") = "header"
BY DEF BackupOf, SourceOf

\* The user's steps keep nothing.
LEMMA IdleStep ==
    ASSUME RunInv, ShapeInv', pc' = "idle", report' = "none"
    PROVE  RunInv'
BY DEF RunInv, SavedInv, Saved, Before, Writing

\* What a run reads, and what it knows of the lapses before.
LEMMA StartReads ==
    ASSUME Start
    PROVE  /\ DOMAIN data' = Sources
           /\ \A f \in Sources : data'[f] \in {disk[f], Empty(f)}
           /\ "unread" \notin lapses' => \A f \in Sources : data'[f] = disk[f]
           /\ Passed \ {"sqlerror"} \subseteq lapses'
           /\ lapses' \subseteq Passed \cup {"rerun", "unread"}
           /\ report = "crash" => "rerun" \in lapses'
<1>1. PICK unread \in SUBSET Sources :
          /\ data' = [f \in Sources |-> IF f \in unread THEN Empty(f) ELSE disk[f]]
          /\ lapses' = (Passed \ {"sqlerror"})
                         \cup (IF report = "crash" THEN {"rerun"} ELSE {})
                         \cup (IF unread = {} THEN {} ELSE {"unread"})
  BY DEF Start
<1>2. "unread" \notin lapses' => unread = {}
  BY <1>1
<1>3. QED
  BY <1>1, <1>2

\* Every step keeps the invariant of the run.
LEMMA RunNext ==
    ASSUME RunInv, [Next]_vars
    PROVE  RunInv'
<1>1. CASE (\E f \in Func : Annotate(f)) \/ (\E u \in Piece : WriteFunction(u))
  <2>1. \E x, new, lapse : Insert(x, new, lapse)
    BY <1>1 DEF Annotate, WriteFunction
  <2>2. PICK x, new, lapse : Insert(x, new, lapse)
    BY <2>1
  <2>3. pc' = "idle" /\ report' = "none" /\ ShapeInv'
    BY <2>2 DEF Insert, RunInv, ShapeInv
  <2>4. QED
    BY <2>3, IdleStep
<1>2. CASE Restore
  <2>1. pc' = "idle" /\ report' = "none" /\ ShapeInv'
    BY <1>2 DEF Restore, RunInv, ShapeInv
  <2>2. QED
    BY <2>1, IdleStep
<1>3. CASE Start
  <2>1. /\ pc' = "cppBackup" /\ disk' = disk /\ opened' = opened /\ pc = "idle"
        /\ input' = [f \in Sources |-> disk[f]]
    BY <1>3 DEF Start, Order
  <2>2. Kept' => \A f \in Sources : data'[f] = disk[f]
    BY <1>3, StartReads DEF Kept, Without
  <2>3. ShapeInv'
    BY <2>1 DEF RunInv, ShapeInv, Before
  <2>4. SavedInv' /\ Saved'
    BY <2>1, <2>2 DEF SavedInv, Saved, Before, Writing
  <2>5. QED
    BY <2>3, <2>4 DEF RunInv
<1>4. CASE Generate
  <2>1. /\ pc = "generate" /\ pc' = "cpp" /\ disk' = disk /\ input' = input
        /\ opened' = opened /\ (Kept' => Kept)
    BY <1>4, AfterStep DEF Generate, Kept, Without
  <2>2. ShapeInv'
    BY <2>1 DEF RunInv, ShapeInv, Writing
  <2>3. SavedInv'
    BY <2>1, FourFiles DEF RunInv, SavedInv, Before, Writing, Sources
  <2>4. Saved'
    BY <2>1, <2>3, FourFiles DEF Saved, SavedInv, Kept, Writing
  <2>5. QED
    BY <2>2, <2>3, <2>4 DEF RunInv
<1>5. CASE SetupError
  <2>1. pc = "generate" /\ pc' = "idle" /\ disk' = disk /\ input' = input /\ ShapeInv'
    BY <1>5 DEF SetupError, RunInv, ShapeInv
  <2>2. \A f \in Sources : disk[f] = input[f]
    BY <2>1 DEF RunInv, SavedInv, Before
  <2>3. SavedInv' /\ Saved'
    BY <2>1, <2>2 DEF SavedInv, Saved, Before, Writing
  <2>4. QED
    BY <2>1, <2>3 DEF RunInv
<1>6. CASE \E f \in Files : Truncate(f)
  <2>1. PICK f \in Files : Truncate(f)
    BY <1>6
  <2>2. /\ pc = f /\ pc' = pc /\ disk' = [disk EXCEPT ![f] = Empty(f)]
        /\ opened' = TRUE /\ data' = data /\ input' = input /\ Kept' = Kept
    BY <2>1 DEF Truncate, Kept, Without
  <2>3. f \in {"cppBackup", "headerBackup", "cpp", "header"}
    BY DEF Files, Sources
  <2>4. ShapeInv'
    BY <2>2, <2>3 DEF RunInv, ShapeInv
  <2>5. \A g \in Files \ {f} : disk'[g] = disk[g]
    BY <2>2 DEF RunInv, ShapeInv
  <2>6. SavedInv'
    BY <2>2, <2>3, <2>5, FourFiles DEF RunInv, SavedInv, Before, Writing, Sources, Files
  <2>7. ASSUME Kept' PROVE \A g \in Sources : input'[g] \in {disk'[g], disk'[BackupOf(g)]}
    BY <2>2, <2>3, <2>5, <2>6, <2>7, FourFiles
       DEF RunInv, SavedInv, Before, Writing, Sources, Files
  <2>8. QED
    BY <2>4, <2>6, <2>7 DEF RunInv, Saved, Kept
<1>7. CASE \E f \in Files : Write(f)
  <2>1. PICK f \in Files : Write(f)
    BY <1>7
  <2>2. /\ pc = f /\ pc' = After(f) /\ opened' = FALSE /\ input' = input
        /\ disk' = [disk EXCEPT ![f] = data[SourceOf(f)]] /\ data' = data
        /\ Kept' = Kept
    BY <2>1 DEF Write, CloseFile, Kept, Without
  <2>3. f \in {"cppBackup", "headerBackup", "cpp", "header"}
    BY DEF Files, Sources
  <2>4. ShapeInv'
    BY <2>2, <2>3, AfterStep DEF RunInv, ShapeInv, Before, Writing
  <2>5. /\ \A g \in Files \ {f} : disk'[g] = disk[g]
        /\ disk'[f] = data[SourceOf(f)]
    BY <2>2 DEF RunInv, ShapeInv
  <2>6. SavedInv'
    BY <2>2, <2>3, <2>5, FourFiles, AfterStep
       DEF RunInv, SavedInv, Before, Writing, Sources, Files
  <2>7. ASSUME Kept' PROVE \A g \in Sources : input'[g] \in {disk'[g], disk'[BackupOf(g)]}
    BY <2>2, <2>3, <2>5, <2>7, FourFiles
       DEF RunInv, SavedInv, Before, Writing, Sources, Files
  <2>8. QED
    BY <2>4, <2>6, <2>7 DEF RunInv, Saved, Kept
<1>8. CASE \E f \in Files : WriteFails(f)
  <2>1. PICK f \in Files : WriteFails(f)
    BY <1>8
  <2>2. /\ pc = f /\ pc' = After(f) /\ opened' = FALSE /\ input' = input
        /\ disk' = disk /\ data' = data /\ (Kept' => Kept /\ f \in Sources)
    BY <2>1 DEF WriteFails, CloseFile, Kept, Without
  <2>3. f \in {"cppBackup", "headerBackup", "cpp", "header"}
    BY DEF Files, Sources
  <2>4. ShapeInv'
    BY <2>2, <2>3, AfterStep DEF RunInv, ShapeInv, Before, Writing
  <2>5. SavedInv'
    BY <2>2, <2>3, FourFiles, AfterStep DEF RunInv, SavedInv, Before, Writing, Sources, Files
  <2>6. ASSUME Kept' PROVE \A g \in Sources : input'[g] \in {disk'[g], disk'[BackupOf(g)]}
    BY <2>2, <2>6 DEF RunInv, SavedInv, Writing, Sources
  <2>7. QED
    BY <2>4, <2>5, <2>6 DEF RunInv, Saved, Kept
<1>9. CASE Crash
  <2>1. /\ pc # "idle" /\ pc' = "idle" /\ opened' = FALSE
        /\ disk' = disk /\ input' = input /\ Kept' = Kept
    BY <1>9 DEF Crash, Kept, Without
  <2>2. QED
    BY <2>1 DEF RunInv, ShapeInv, SavedInv, Saved, Before, Writing, Kept
<1>10. CASE UNCHANGED vars
  BY <1>10 DEF vars, RunInv, ShapeInv, SavedInv, Saved, Kept, Without
<1>11. QED
  BY <1>1, <1>2, <1>3, <1>4, <1>5, <1>6, <1>7, <1>8, <1>9, <1>10 DEF Next

\* From the start of a run until the user does something, through a crash at any of
\* its steps and a failed write of either source, each of the two files as it was
\* is on the disk: the backups are written, completely, before the files are opened
\* for writing.  This holds for any files and whatever sqlgen_main makes of them, if
\* both could be read and both backups written.
THEOREM SavedHolds == Spec => []Saved
<1>1. Init => RunInv
  BY DEF Init, RunInv, ShapeInv, SavedInv, Saved, Before, Writing
<1>2. RunInv /\ [Next]_vars => RunInv'
  BY RunNext
<1>3. RunInv => Saved
  BY DEF RunInv
<1>4. QED
  BY <1>1, <1>2, <1>3, PTL DEF Spec

-----------------------------------------------------------------------------
(* Insertions.                                                             *)

\* t is s with new inserted behind p.
Inserted(s, new, p, t) ==
    /\ t \in Seq(Item) /\ Len(t) = Len(s) + Len(new)
    /\ \A j \in 1..p : t[j] = s[j]
    /\ \A j \in 1..Len(new) : t[p + j] = new[j]
    /\ \A j \in p + 1..Len(s) : t[j + Len(new)] = s[j]

\* What the user does to the file is such an insertion.
LEMMA InsertItems ==
    ASSUME NEW s \in Seq(Item), NEW new \in Seq(Item), NEW p \in 0..Len(s)
    PROVE  Inserted(s, new, p, SubSeq(s, 1, p) \o new \o SubSeq(s, p + 1, Len(s)))
<1> DEFINE u == SubSeq(s, 1, p)
           v == SubSeq(s, p + 1, Len(s))
           t == u \o new \o v
           w == u \o new
<1>0. Len(s) \in Nat /\ p \in Nat /\ p <= Len(s) /\ Len(new) \in Nat
  OBVIOUS
<1>1. /\ u \in Seq(Item) /\ Len(u) = p /\ \A j \in 1..p : u[j] = s[j]
      /\ v \in Seq(Item) /\ Len(v) = Len(s) - p /\ \A j \in 1..Len(s) - p : v[j] = s[p + j]
  <2>1. /\ u \in Seq(Item) /\ Len(u) = IF 1 <= p THEN p - 1 + 1 ELSE 0
        /\ \A j \in 1..p - 1 + 1 : u[j] = s[1 + j - 1]
    <3>1. \A j \in 1..p : s[j] \in Item
      BY <1>0
    <3>2. 1 \in Int /\ p \in Int
      BY <1>0
    <3>3. QED
      BY <3>1, <3>2, SubSeqProperties
  <2>2. /\ v \in Seq(Item)
        /\ Len(v) = IF p + 1 <= Len(s) THEN Len(s) - (p + 1) + 1 ELSE 0
        /\ \A j \in 1..Len(s) - (p + 1) + 1 : v[j] = s[p + 1 + j - 1]
    <3>1. \A j \in p + 1..Len(s) : s[j] \in Item
      BY <1>0
    <3>2. p + 1 \in Int /\ Len(s) \in Int
      BY <1>0
    <3>3. QED
      BY <3>1, <3>2, SubSeqProperties
  <2> HIDE DEF u, v
  <2>3. Len(u) = p /\ Len(v) = Len(s) - p
    BY <1>0, <2>1, <2>2
  <2>4. \A j \in 1..p : u[j] = s[j]
    <3>1. \A j \in 1..p : j \in 1..p - 1 + 1 /\ 1 + j - 1 = j
      BY <1>0
    <3>2. QED
      BY <2>1, <3>1
  <2>5. \A j \in 1..Len(s) - p : v[j] = s[p + j]
    <3>1. \A j \in 1..Len(s) - p : j \in 1..Len(s) - (p + 1) + 1 /\ p + 1 + j - 1 = p + j
      BY <1>0
    <3>2. QED
      BY <2>2, <3>1
  <2>6. QED
    BY <2>1, <2>2, <2>3, <2>4, <2>5
<1> HIDE DEF u, v
<1>2. /\ w \in Seq(Item) /\ Len(w) = p + Len(new)
      /\ \A j \in 1..p : w[j] = s[j]
      /\ \A j \in 1..Len(new) : w[p + j] = new[j]
  <2>1. /\ w \in Seq(Item) /\ Len(w) = Len(u) + Len(new)
        /\ \A j \in 1..Len(u) : w[j] = u[j]
        /\ \A j \in 1..Len(new) : w[Len(u) + j] = new[j]
    <3>1. u \in Seq(Item) /\ new \in Seq(Item) /\ w = u \o new
      BY <1>1
    <3> HIDE DEF w
    <3>2. QED
      BY <3>1, Concat
  <2>2. QED
    BY <1>1, <2>1
<1> HIDE DEF w
<1>3. /\ t \in Seq(Item) /\ Len(t) = p + Len(new) + (Len(s) - p)
      /\ \A j \in 1..p + Len(new) : t[j] = w[j]
      /\ \A j \in 1..Len(s) - p : t[p + Len(new) + j] = s[p + j]
  <2>1. /\ t \in Seq(Item) /\ Len(t) = Len(w) + Len(v)
        /\ \A j \in 1..Len(w) : t[j] = w[j]
        /\ \A j \in 1..Len(v) : t[Len(w) + j] = v[j]
    <3>1. w \in Seq(Item) /\ v \in Seq(Item) /\ t = w \o v
      BY <1>1, <1>2 DEF w
    <3> HIDE DEF t
    <3>2. QED
      BY <3>1, Concat
  <2> HIDE DEF t
  <2>2. QED
    BY <1>1, <1>2, <2>1
<1> HIDE DEF t
<1>4. \A j \in 1..p : t[j] = s[j]
  <2>1. \A j \in 1..p : j \in 1..p + Len(new)
    BY <1>0
  <2>2. QED
    BY <1>2, <1>3, <2>1
<1>5. \A j \in 1..Len(new) : t[p + j] = new[j]
  <2>1. \A j \in 1..Len(new) : p + j \in 1..p + Len(new)
    BY <1>0
  <2>2. QED
    BY <1>2, <1>3, <2>1
<1>6. ASSUME NEW j \in p + 1..Len(s)
      PROVE  t[j + Len(new)] = s[j]
  <2>1. j - p \in 1..Len(s) - p /\ p + Len(new) + (j - p) = j + Len(new) /\ p + (j - p) = j
    BY <1>0
  <2>2. t[p + Len(new) + (j - p)] = s[p + (j - p)]
    BY <1>3, <2>1
  <2>3. QED
    BY <2>1, <2>2
<1>7. Len(t) = Len(s) + Len(new)
  BY <1>0, <1>3
<1>8. QED
  BY <1>3, <1>4, <1>5, <1>6, <1>7 DEF Inserted, t, w, u, v

\* The file s has what the user wrote, with the comment before each function.
Has(s, y) == \E p \in 1..Len(s) :
                /\ s[p] = y
                /\ y[1] = "code" => p - 1 \in 1..Len(s) /\ s[p - 1] = Comment

\* An item that is not replaced stays, and a comment before it too.
LEMMA RegenerateHas ==
    ASSUME NEW s \in Seq(Item), NEW bad, NEW y, y[1] \in {"access", "code"}, Has(s, y)
    PROVE  Has(Regenerate(s, bad), y)
<1> DEFINE r == Regenerate(s, bad)
<1>1. PICK at : Layout(s, bad, r, at)
  BY LayoutExists
<1>2. PICK p \in 1..Len(s) : /\ s[p] = y
                             /\ y[1] = "code" => p - 1 \in 1..Len(s) /\ s[p - 1] = Comment
  BY DEF Has
<1>3. p \notin Replaced(s)
  BY <1>2, ReplacedCode, ReplacedOnce DEF IsComment
<1> HIDE DEF r
<1>4. at[p] + 1 \in 1..Len(r) /\ r[at[p] + 1] = y
  <2>1. Stays(s, r, at, p)
    BY <1>1, <1>3, LayoutStays
  <2>2. QED
    BY <1>2, <2>1 DEF Stays
<1>5. ASSUME y[1] = "code"
      PROVE  at[p] \in 1..Len(r) /\ r[at[p]] = Comment
  <2>1. IsComment(Comment) /\ ~IsAnnotation(Comment)
    BY DEF IsComment, IsAnnotation, Comment
  <2>2. PICK m : m = p - 1
    OBVIOUS
  <2>3. m \in 1..Len(s) /\ s[m] = Comment /\ m + 1 = p
    BY <1>2, <1>5, <2>2
  <2>4. m \notin Replaced(s) /\ m \notin Annotations(s)
    BY <2>1, <2>3, ReplacedOnce DEF Annotations
  <2>5. Stays(s, r, at, m)
    BY <1>1, <2>3, <2>4, LayoutStays
  <2>6. QED
    BY <2>3, <2>4, <2>5 DEF Stays
<1>6. at[p] \in Nat
  BY <1>1, <1>2 DEF Layout
<1>7. (at[p] + 1) - 1 = at[p]
  BY <1>6
<1>8. QED
  BY <1>4, <1>5, <1>7 DEF Has, r

\* Text is inserted before a comment or at the end: what was there stays there.
LEMMA InsertHas ==
    ASSUME NEW s \in Seq(Item), NEW new \in Seq(Item), NEW p \in 0..Len(s),
           NEW y, y[1] \in {"access", "code"}
    PROVE  LET t == SubSeq(s, 1, p) \o new \o SubSeq(s, p + 1, Len(s)) IN
           /\ t \in Seq(Item)
           /\ AtComment(s, p) /\ Has(s, y) => Has(t, y)
           /\ Has(new, y) => Has(t, y)
<1> DEFINE t == SubSeq(s, 1, p) \o new \o SubSeq(s, p + 1, Len(s))
<1>0. Len(s) \in Nat /\ p \in Nat /\ p <= Len(s) /\ Len(new) \in Nat
  OBVIOUS
<1>1. Inserted(s, new, p, t)
  BY InsertItems
<1> HIDE DEF t
<1>2. t \in Seq(Item) /\ Len(t) = Len(s) + Len(new)
  BY <1>1 DEF Inserted
<1>4. /\ \A j \in 1..p : j \in 1..Len(t) /\ t[j] = s[j]
      /\ \A j \in 1..Len(new) : p + j \in 1..Len(t) /\ t[p + j] = new[j]
      /\ \A j \in p + 1..Len(s) : j + Len(new) \in 1..Len(t) /\ t[j + Len(new)] = s[j]
  <2>1. /\ \A j \in 1..p : j \in 1..Len(t)
        /\ \A j \in 1..Len(new) : p + j \in 1..Len(t)
        /\ \A j \in p + 1..Len(s) : j + Len(new) \in 1..Len(t)
    BY <1>0, <1>2
  <2>2. QED
    BY <1>1, <2>1 DEF Inserted
<1>5. ASSUME AtComment(s, p), Has(s, y) PROVE Has(t, y)
  <2>1. PICK q \in 1..Len(s) : /\ s[q] = y
                               /\ y[1] = "code" => q - 1 \in 1..Len(s) /\ s[q - 1] = Comment
    BY <1>5 DEF Has
  <2>2. CASE q \in 1..p
    <3>1. t[q] = y /\ q \in 1..Len(t)
      BY <1>4, <2>1, <2>2
    <3>2. ASSUME y[1] = "code" PROVE q - 1 \in 1..Len(t) /\ t[q - 1] = Comment
      <4>1. q - 1 \in 1..p
        BY <1>0, <2>1, <2>2, <3>2
      <4>2. QED
        BY <1>4, <2>1, <3>2, <4>1
    <3>3. QED
      BY <3>1, <3>2 DEF Has
  <2>3. CASE q \in p + 1..Len(s)
    <3>1. t[q + Len(new)] = y /\ q + Len(new) \in 1..Len(t)
      BY <1>4, <2>1, <2>3
    <3>2. ASSUME y[1] = "code"
          PROVE  (q + Len(new)) - 1 \in 1..Len(t) /\ t[(q + Len(new)) - 1] = Comment
      <4>1. q # p + 1
        BY <1>0, <1>5, <2>1, <2>3, <3>2 DEF AtComment, IsComment
      <4>2. q - 1 \in p + 1..Len(s) /\ (q - 1) + Len(new) = (q + Len(new)) - 1
        BY <1>0, <2>3, <4>1
      <4>3. QED
        BY <1>4, <2>1, <3>2, <4>2
    <3>3. QED
      BY <3>1, <3>2 DEF Has
  <2>4. QED
    BY <1>0, <2>2, <2>3
<1>6. ASSUME Has(new, y) PROVE Has(t, y)
  <2>1. PICK q \in 1..Len(new) :
            /\ new[q] = y
            /\ y[1] = "code" => q - 1 \in 1..Len(new) /\ new[q - 1] = Comment
    BY <1>6 DEF Has
  <2>2. t[p + q] = y /\ p + q \in 1..Len(t)
    BY <1>4, <2>1
  <2>3. ASSUME y[1] = "code"
        PROVE  (p + q) - 1 \in 1..Len(t) /\ t[(p + q) - 1] = Comment
    <3>1. p + (q - 1) = (p + q) - 1
      BY <1>0
    <3>2. QED
      BY <1>4, <2>1, <2>3, <3>1
  <2>4. QED
    BY <2>2, <2>3 DEF Has
<1>7. QED
  BY <1>2, <1>5, <1>6 DEF t

-----------------------------------------------------------------------------
(* What the user wrote.                                                    *)

\* What is to be kept of a file: the user's text, or the header's markers.
Good(f, x) == IF f = "cpp" THEN \A y \in mine : Has(x, y) ELSE x.marks

Careful(f) ==
    Without({IF f = "cpp" THEN "bare" ELSE "noMarks", "rerun", "unread", "unsaved", "unnoticed"})

\* Between runs it is in the files, or in the backup of one that could not be
\* written.  In a run, and after a crash, it is in the run's input, and in the
\* file itself unless that has just been emptied.
TextInv ==
    /\ pc # "idle" => report = "none"
    /\ pc = "header" /\ "unwritten" \notin lapses => disk["cpp"] = data["cpp"]
    /\ \A f \in Sources : Careful(f) =>
           /\ pc = "idle" /\ report # "crash" =>
                  \/ Good(f, disk[f])
                  \/ "unwritten" \in lapses /\ Good(f, disk[BackupOf(f)])
           /\ pc # "idle" \/ report = "crash" =>
                  Good(f, input[f]) /\ (disk[f] = Empty(f) \/ Good(f, disk[f]))
           /\ pc # "idle" => Good(f, data[f])

FilesInv == TypeOK /\ RunInv /\ TextInv

\* What the user writes is marked as an annotation or as code.
LEMMA MineKinds ==
    ASSUME TypeOK
    PROVE  \A y \in mine : y[1] \in {"access", "code"} /\ y \in Item
BY DEF TypeOK, Annotation, Code, Item

\* A file the run may save is complete, and it may save an empty one that is complete.
LEMMA GoodComplete ==
    ASSUME NEW f \in Sources, NEW x \in Contents(f)
    PROVE  /\ Good(f, x) => Complete(f, x)
           /\ Complete(f, Empty(f)) => Good(f, Empty(f))
<1>1. CASE f = "cpp"
  <2>1. x \in Seq(Item) /\ DOMAIN x = 1..Len(x)
    BY <1>1 DEF Contents
  <2>2. Empty(f) = <<>>
    BY <1>1 DEF Empty
  <2>3. QED
    BY <1>1, <2>1, <2>2 DEF Good, Complete, Has
<1>2. CASE f # "cpp"
  BY <1>2 DEF Good, Complete, Empty
<1>3. QED
  BY <1>1, <1>2

\* An empty file is a content of the type.
LEMMA EmptyType ==
    ASSUME NEW f
    PROVE  Empty(f) \in Contents(f)
<1>1. <<>> \in Seq(Item) /\ [marks |-> FALSE, decls |-> {}] \in Headers
  BY DEF Headers
<1>2. QED
  BY <1>1 DEF Empty, Contents

\* The first user's files are of their types.
LEMMA FilesInit ==
    ASSUME Init
    PROVE  TypeOK /\ TextInv
<1>1. <<>> \in Seq(Item) /\ Sources = {"cpp", "header"} /\ Sources \subseteq Files
  BY DEF Sources, Files
<1>2. /\ \A f \in Files : Empty(f) \in Contents(f)
      /\ \A b \in BOOLEAN : [marks |-> b, decls |-> {}] \in Headers
  BY EmptyType DEF Headers
<1>3. /\ DOMAIN disk = Files
      /\ \A f \in Files : disk[f] = IF f = "header" THEN [marks |-> lapses = {}, decls |-> {}]
                                                   ELSE Empty(f)
      /\ DOMAIN data = Sources /\ \A f \in Sources : data[f] = Empty(f)
      /\ input = data /\ pc = "idle" /\ opened = FALSE /\ mine = {} /\ report = "none"
      /\ lapses \in {{}, {"noMarks"}}
  BY DEF Init
<1>4. (lapses = {}) \in BOOLEAN /\ Contents("header") = Headers
  BY DEF Contents
<1>5. TypeOK
  <2>1. \A f \in Files : disk[f] \in Contents(f)
    <3>1. [marks |-> lapses = {}, decls |-> {}] \in Headers
      BY <1>2, <1>4
    <3>2. disk["header"] \in Contents("header")
      BY <1>1, <1>3, <1>4, <3>1
    <3>3. QED
      BY <1>2, <1>3, <3>2
  <2>2. \A f \in Sources : data[f] \in Contents(f) /\ input[f] \in Contents(f)
    BY <1>1, <1>2, <1>3
  <2>3. lapses \subseteq Lapses
    BY <1>3 DEF Lapses, Failures
  <2>4. QED
    BY <1>3, <2>1, <2>2, <2>3 DEF TypeOK
<1>6. TextInv
  <2>1. Good("cpp", disk["cpp"])
    BY <1>3 DEF Good
  <2>2. Careful("header") => Good("header", disk["header"])
    <3>1. Careful("header") => lapses = {}
      BY <1>3 DEF Careful, Without
    <3>2. lapses = {} => disk["header"] = [marks |-> TRUE, decls |-> {}]
      BY <1>1, <1>3
    <3>3. lapses = {} => disk["header"].marks
      BY <3>2
    <3>4. QED
      BY <3>1, <3>3 DEF Good
  <2>3. QED
    BY <1>1, <1>3, <2>1, <2>2 DEF TextInv
<1>7. QED
  BY <1>5, <1>6

\* The user inserts something.
LEMMA InsertStep ==
    ASSUME FilesInv, NEW x, NEW new \in Seq(Item), NEW lapse \in SUBSET Lapses,
           x \in {Annotation(f) : f \in Func} \cup {Code(u) : u \in Piece},
           "bare" \notin lapse => Has(new, x),
           Insert(x, new, lapse)
    PROVE  TypeOK' /\ TextInv'
<1> DEFINE s == disk["cpp"]
<1>1. PICK p \in Gaps(s) :
          /\ disk' = [disk EXCEPT !["cpp"] =
                         SubSeq(@, 1, p) \o new \o SubSeq(@, p + 1, Len(@))]
          /\ lapses' = Passed \cup lapse \cup IF AtComment(s, p) THEN {} ELSE {"bare"}
  BY DEF Insert
<1>2. /\ pc = "idle" /\ report # "crash" /\ mine' = mine \cup {x} /\ report' = "none"
      /\ pc' = pc /\ opened' = opened /\ data' = data /\ input' = input
  BY DEF Insert
<1>3. /\ s \in Seq(Item) /\ p \in 0..Len(s) /\ DOMAIN disk = Files
      /\ Sources = {"cpp", "header"} /\ Sources \subseteq Files
  BY DEF FilesInv, TypeOK, Contents, Sources, Files, Gaps
<1> DEFINE t == SubSeq(s, 1, p) \o new \o SubSeq(s, p + 1, Len(s))
<1>4. /\ disk'["cpp"] = t /\ DOMAIN disk' = Files
      /\ \A f \in Files \ {"cpp"} : disk'[f] = disk[f]
  BY <1>1, <1>3
<1>5. \A y \in mine' : y[1] \in {"access", "code"}
  BY <1>2, MineKinds DEF FilesInv, Annotation, Code
<1>6. x[1] \in {"access", "code"}
  BY <1>2, <1>5
<1>7. t \in Seq(Item)
  BY <1>3, <1>6, InsertHas
<1>8. TypeOK'
  <2>1. \A f \in Files : disk'[f] \in Contents(f)
    BY <1>4, <1>7 DEF FilesInv, TypeOK, Contents
  <2>2. lapses' \subseteq Lapses
    BY <1>1 DEF FilesInv, TypeOK, Lapses, Passed
  <2>3. QED
    BY <1>2, <1>4, <2>1, <2>2 DEF FilesInv, TypeOK
<1>9. ASSUME Careful("cpp")' PROVE Good("cpp", disk["cpp"])'
  <2>0. "unnoticed" \notin lapses'
    BY <1>9 DEF Careful, Without
  <2>1. AtComment(s, p) /\ "bare" \notin lapse /\ Careful("cpp") /\ "unwritten" \notin lapses
    BY <1>1, <1>9, <2>0 DEF Careful, Without, Passed, Failures
  <2>2. \A y \in mine : Has(s, y)
    BY <1>2, <1>3, <2>1 DEF FilesInv, TextInv, Good
  <2> HIDE DEF s, t
  <2>3. \A y \in mine' : Has(t, y)
    BY <1>2, <1>3, <1>5, <2>1, <2>2, InsertHas DEF t
  <2>4. QED
    BY <1>4, <2>3 DEF Good
<1>10. ASSUME Careful("header")' PROVE Good("header", disk["header"])'
  <2>0. "unnoticed" \notin lapses'
    BY <1>10 DEF Careful, Without
  <2>1. Careful("header") /\ "unwritten" \notin lapses
    BY <1>1, <1>10, <2>0 DEF Careful, Without, Passed, Failures
  <2>2. QED
    BY <1>2, <1>3, <1>4, <2>1 DEF FilesInv, TextInv, Good
<1>11. QED
  BY <1>2, <1>3, <1>8, <1>9, <1>10 DEF TextInv

\* After a crash the user takes the complete ones.
LEMMA RestoreStep ==
    ASSUME FilesInv, Restore
    PROVE  TypeOK' /\ TextInv'
<1>1. /\ pc = "idle" /\ report = "crash" /\ report' = "none"
      /\ disk' = [f \in Files |-> IF f \in Sources /\ ~Complete(f, disk[f])
                                 THEN disk[BackupOf(f)] ELSE disk[f]]
      /\ UNCHANGED <<pc, opened, data, input, mine, lapses>>
  BY DEF Restore
<1>2. /\ Sources = {"cpp", "header"} /\ Sources \subseteq Files
      /\ \A f \in Sources : BackupOf(f) \in Files /\ Contents(BackupOf(f)) = Contents(f)
  BY DEF Sources, Files, BackupOf, Contents
<1>3. TypeOK'
  <2>1. \A f \in Files : disk'[f] \in Contents(f)
    BY <1>1, <1>2 DEF FilesInv, TypeOK
  <2>2. QED
    BY <1>1, <2>1 DEF FilesInv, TypeOK
<1>4. ASSUME NEW f \in Sources, Careful(f)'
      PROVE  Good(f, disk[f])'
  <2>1. Careful(f)
    BY <1>1, <1>4 DEF Careful, Without
  <2>2. Good(f, input[f]) /\ (disk[f] = Empty(f) \/ Good(f, disk[f]))
    BY <1>1, <2>1 DEF FilesInv, TextInv
  <2>3. disk[f] \in Contents(f) /\ input[f] \in Contents(f)
    BY <1>2 DEF FilesInv, TypeOK
  <2>4. CASE Complete(f, disk[f])
    <3>1. Good(f, disk[f])
      BY <2>2, <2>3, <2>4, GoodComplete
    <3>2. disk'[f] = disk[f]
      BY <1>1, <1>2, <2>4
    <3>3. QED
      BY <1>1, <3>1, <3>2 DEF Good
  <2>5. CASE ~Complete(f, disk[f])
    <3>1. input[f] # disk[f]
      BY <2>2, <2>3, <2>5, GoodComplete
    <3>2. input[f] = disk[BackupOf(f)]
      BY <1>1, <2>1, <3>1 DEF FilesInv, RunInv, Saved, Careful, Without
    <3>3. disk'[f] = input[f]
      BY <1>1, <1>2, <2>5, <3>2
    <3>4. QED
      BY <1>1, <2>2, <3>3 DEF Good
  <2>6. QED
    BY <2>4, <2>5
<1>5. QED
  BY <1>1, <1>3, <1>4 DEF TextInv

\* Reading the sources keeps the files' invariants.
LEMMA StartStep ==
    ASSUME FilesInv, Start
    PROVE  TypeOK' /\ TextInv'
<1>1. /\ pc = "idle" /\ pc' = "cppBackup" /\ report' = "none"
      /\ input' = [f \in Sources |-> disk[f]]
      /\ UNCHANGED <<disk, opened, mine>>
  BY DEF Start, Order
<1>2. /\ Sources \subseteq Files /\ DOMAIN data' = Sources /\ DOMAIN input' = Sources
      /\ \A f \in Sources : data'[f] \in {disk[f], Empty(f)} /\ input'[f] = disk[f]
  BY <1>1, StartReads DEF Sources, Files
<1>3. TypeOK'
  <2>1. pc' \in Files
    BY <1>1 DEF Files
  <2>2. lapses' \subseteq Lapses
    BY StartReads DEF FilesInv, TypeOK, Lapses, Failures, Passed
  <2>3. \A f \in Sources : data'[f] \in Contents(f) /\ input'[f] \in Contents(f)
    BY <1>2, EmptyType DEF FilesInv, TypeOK
  <2>4. QED
    BY <1>1, <1>2, <2>1, <2>2, <2>3 DEF FilesInv, TypeOK
<1>4. ASSUME NEW f \in Sources, Careful(f)'
      PROVE  Good(f, disk[f]) /\ data'[f] = disk[f]
  <2>1. "unnoticed" \notin lapses' /\ "unread" \notin lapses' /\ "rerun" \notin lapses'
    BY <1>4 DEF Careful, Without
  <2>2. report # "crash" /\ data'[f] = disk[f]
    BY <2>1, StartReads
  <2>3. "unnoticed" \notin Passed
    BY <2>1, StartReads
  <2>4. lapses \cap Failures = {}
    BY <2>3 DEF Passed
  <2>5. Careful(f)
    BY <1>4, <2>4, StartReads DEF Careful, Without, Passed, Failures
  <2>6. QED
    BY <1>1, <2>2, <2>4, <2>5 DEF FilesInv, TextInv, Failures
<1>5. \A f \in Sources : Careful(f)' =>
         /\ Good(f, input[f])' /\ Good(f, disk[f])' /\ Good(f, data[f])'
  BY <1>1, <1>2, <1>4 DEF Good
<1>6. QED
  BY <1>1, <1>3, <1>5 DEF TextInv

\* The generator keeps what it is given.
LEMMA GenerateGood ==
    ASSUME FilesInv, NEW bad
    PROVE  LET d == GenerateData(bad) IN
           /\ \A f \in Sources : d[f] \in Contents(f)
           /\ \A f \in Sources : Good(f, data[f]) => Good(f, d[f])
<1> DEFINE s == data["cpp"]
           h == data["header"]
<1>1. s \in Seq(Item) /\ h \in Headers
  BY DEF FilesInv, TypeOK, Contents, Sources
<1>2. Generated(s, bad) \subseteq Func
  <2>1. \A p \in Annotations(s) : s[p][2] \in Func
    BY <1>1, AnnotationItem DEF Annotations
  <2>2. QED
    BY <2>1 DEF Generated
<1>3. Regenerate(s, bad) \in Seq(Item)
  BY <1>1, PiecesType, FlattenPieces
<1>4. PlaceData(h, Generated(s, bad)) \in Headers /\ (h.marks => PlaceData(h, Generated(s, bad)).marks)
  BY <1>1, <1>2 DEF PlaceData, Headers
<1>5. (\A y \in mine : Has(s, y)) => \A y \in mine : Has(Regenerate(s, bad), y)
  BY <1>1, MineKinds, RegenerateHas DEF FilesInv
<1>6. QED
  BY <1>3, <1>4, <1>5 DEF GenerateData, Good, Contents, Sources

\* Generating, or failing to, keeps the files' invariants.
LEMMA GeneratorStep ==
    ASSUME FilesInv, Generate \/ SetupError
    PROVE  TypeOK' /\ TextInv'
<1>1. CASE Generate
  <2>1. PICK bad \in SUBSET Func :
            /\ data' = GenerateData(bad)
            /\ lapses' = lapses \cup IF bad = {} THEN {} ELSE {"sqlerror"}
    BY <1>1 DEF Generate
  <2>2. /\ pc = "generate" /\ pc' = "cpp" /\ UNCHANGED <<disk, opened, input, mine, report>>
    BY <1>1, AfterStep DEF Generate
  <2>3. /\ DOMAIN data' = Sources /\ \A f \in Sources : data'[f] \in Contents(f)
        /\ \A f \in Sources : Good(f, data[f]) => Good(f, data'[f])
    BY <2>1, GenerateGood DEF GenerateData, Sources
  <2>4. TypeOK'
    <3>1. lapses' \subseteq Lapses /\ pc' \in Files
      BY <2>1, <2>2 DEF FilesInv, TypeOK, Lapses, Files, Sources
    <3>2. QED
      BY <2>2, <2>3, <3>1 DEF FilesInv, TypeOK
  <2>5. \A f \in Sources : Careful(f)' => Careful(f)
    <3>1. lapses \subseteq lapses'
      BY <2>1
    <3>2. QED
      BY <3>1 DEF Careful, Without
  <2>6. \A f \in Sources : Careful(f)' =>
           /\ Good(f, input[f])' /\ Good(f, data[f])'
           /\ (disk[f] = Empty(f) \/ Good(f, disk[f]))'
    BY <2>2, <2>3, <2>5 DEF FilesInv, TextInv, Good
  <2>7. QED
    BY <2>2, <2>4, <2>6 DEF FilesInv, TextInv
<1>2. CASE SetupError
  <2>1. /\ pc = "generate" /\ pc' = "idle" /\ report' = "error"
        /\ UNCHANGED <<disk, opened, data, input, mine, lapses>>
    BY <1>2 DEF SetupError
  <2>2. \A f \in Sources : disk[f] = input[f]
    BY <2>1 DEF FilesInv, RunInv, SavedInv, Before
  <2>3. TypeOK'
    BY <2>1 DEF FilesInv, TypeOK
  <2>4. \A f \in Sources : Careful(f)' => Good(f, disk[f])'
    BY <2>1, <2>2 DEF FilesInv, TextInv, Good, Careful, Without
  <2>5. QED
    BY <2>1, <2>3, <2>4 DEF TextInv
<1>3. QED
  BY <1>1, <1>2

\* A file is emptied or written, or not, or the program is stopped.
LEMMA FileStep ==
    ASSUME FilesInv, Crash \/ \E f \in Files : Truncate(f) \/ Write(f) \/ WriteFails(f)
    PROVE  TypeOK' /\ TextInv'
<1>0. /\ Sources = {"cpp", "header"} /\ Files = {"cpp", "header", "cppBackup", "headerBackup"}
      /\ DOMAIN disk = Files
  BY DEF Sources, Files, FilesInv, TypeOK
<1>1. CASE Crash
  <2>1. /\ pc # "idle" /\ pc' = "idle" /\ opened' = FALSE /\ report' = "crash"
        /\ UNCHANGED <<disk, data, input, mine, lapses>>
    BY <1>1 DEF Crash
  <2>2. TypeOK'
    BY <2>1 DEF FilesInv, TypeOK
  <2>3. QED
    BY <2>1, <2>2 DEF FilesInv, TextInv, Good, Careful, Without
<1>2. ASSUME NEW g \in Files, Truncate(g)
      PROVE  TypeOK' /\ TextInv'
  <2>1. /\ pc = g /\ disk' = [disk EXCEPT ![g] = Empty(g)] /\ opened' = TRUE
        /\ UNCHANGED <<pc, data, input, mine, report, lapses>>
    BY <1>2 DEF Truncate
  <2>2. /\ DOMAIN disk' = Files /\ disk'[g] = Empty(g)
        /\ \A f \in Files \ {g} : disk'[f] = disk[f]
    BY <1>0, <2>1
  <2>3. Empty(g) \in Contents(g)
    BY EmptyType
  <2>4. TypeOK'
    BY <2>1, <2>2, <2>3 DEF FilesInv, TypeOK
  <2>5. pc # "idle" /\ (pc = "header" => disk'["cpp"] = disk["cpp"])
    BY <1>0, <2>1, <2>2
  <2>6. \A f \in Sources : Careful(f)' =>
           /\ Good(f, input[f])' /\ Good(f, data[f])'
           /\ (disk[f] = Empty(f) \/ Good(f, disk[f]))'
    BY <1>0, <2>1, <2>2, <2>5 DEF FilesInv, TextInv, Good, Careful, Without
  <2>7. QED
    BY <2>1, <2>4, <2>5, <2>6 DEF FilesInv, TextInv
<1>3. ASSUME NEW g \in Files, Write(g)
      PROVE  TypeOK' /\ TextInv'
  <2>1. /\ pc = g /\ disk' = [disk EXCEPT ![g] = data[SourceOf(g)]] /\ opened' = FALSE
        /\ pc' = After(g) /\ report' = IF pc' = "idle" THEN "ok" ELSE report
        /\ UNCHANGED <<data, input, mine, lapses>>
    BY <1>3 DEF Write, CloseFile
  <2>2. /\ DOMAIN disk' = Files /\ disk'[g] = data[SourceOf(g)]
        /\ \A f \in Files \ {g} : disk'[f] = disk[f]
    BY <1>0, <2>1
  <2>3. /\ SourceOf(g) \in Sources /\ data[SourceOf(g)] \in Contents(g)
        /\ pc' \in {"headerBackup", "generate", "header", "idle"}
        /\ pc' = "idle" <=> g = "header"
        /\ pc' = "header" <=> g = "cpp"
        /\ pc # "idle" /\ report = "none"
    BY <1>0, <2>1, FourFiles, AfterStep DEF FilesInv, TypeOK, TextInv, Contents
  <2>4. TypeOK'
    BY <1>0, <2>1, <2>2, <2>3 DEF FilesInv, TypeOK
  <2>5. \A f \in Sources : Careful(f)' =>
           /\ Good(f, input[f])' /\ Good(f, data[f])'
           /\ (disk[f] = Empty(f) \/ Good(f, disk[f]))'
    BY <1>0, <2>1, <2>2, <2>3, FourFiles DEF FilesInv, TextInv, Good, Careful, Without
  <2>6. g = "cpp" => disk'["cpp"] = data'["cpp"]
    BY <2>1, <2>2, FourFiles
  <2>7. CASE g = "header"
    <3>1. /\ disk'["header"] = data["header"] /\ report' = "ok"
          /\ "unwritten" \notin lapses => disk'["cpp"] = data["cpp"]
      BY <1>0, <2>1, <2>2, <2>3, <2>7, FourFiles DEF FilesInv, TextInv
    <3>2. \A f \in Sources : Careful(f)' =>
             \/ Good(f, disk[f])'
             \/ "unwritten" \in lapses' /\ Good(f, disk[BackupOf(f)])'
      <4>1. ASSUME NEW f \in Sources, Careful(f)
            PROVE  Good(f, data[f]) /\ Good(f, disk[BackupOf(f)])
        <5>1. Kept /\ pc = "header"
          BY <2>1, <2>7, <4>1 DEF Careful, Without, Kept
        <5>2. disk[BackupOf(f)] = input[f]
          BY <5>1 DEF FilesInv, RunInv, SavedInv, Writing
        <5>3. QED
          BY <2>3, <4>1, <5>2 DEF FilesInv, TextInv
      <4>2. \A f \in Sources : disk'[BackupOf(f)] = disk[BackupOf(f)]
        BY <1>0, <2>2, <2>7, FourFiles
      <4>3. \A f \in Sources : Careful(f)' <=> Careful(f)
        BY <2>1 DEF Careful, Without
      <4>4. \A f \in Sources : "unwritten" \notin lapses => disk'[f] = data[f]
        BY <1>0, <3>1
      <4>5. QED
        BY <2>1, <4>1, <4>2, <4>3, <4>4 DEF Good
    <3>3. QED
      BY <2>1, <2>3, <2>4, <2>7, <3>1, <3>2 DEF TextInv
  <2>8. CASE g # "header"
    BY <2>1, <2>3, <2>4, <2>5, <2>6, <2>8 DEF TextInv
  <2>9. QED
    BY <2>7, <2>8
<1>4. ASSUME NEW g \in Files, WriteFails(g)
      PROVE  TypeOK' /\ TextInv'
  <2>1. /\ pc = g /\ opened' = FALSE
        /\ pc' = After(g) /\ report' = IF pc' = "idle" THEN "ok" ELSE report
        /\ lapses' = lapses \cup {IF g \in Sources THEN "unwritten" ELSE "unsaved"}
        /\ UNCHANGED <<disk, data, input, mine>>
    BY <1>4 DEF WriteFails, CloseFile
  <2>2. /\ pc' \in {"headerBackup", "generate", "header", "idle"}
        /\ pc' = "idle" <=> g = "header"
        /\ pc' = "header" <=> g = "cpp"
        /\ pc # "idle" /\ report = "none"
    BY <1>0, <2>1, AfterStep DEF FilesInv, TextInv
  <2>3. TypeOK'
    <3>1. lapses' \subseteq Lapses
      BY <2>1 DEF FilesInv, TypeOK, Lapses, Failures
    <3>2. pc' \in {"idle", "generate"} \cup Files
      BY <1>0, <2>2
    <3>3. report' \in {"none", "ok", "error", "crash"}
      BY <2>1, <2>2
    <3>4. QED
      BY <2>1, <3>1, <3>2, <3>3 DEF FilesInv, TypeOK, Contents
  <2>4. ASSUME NEW f \in Sources, Careful(f)'
        PROVE  /\ Good(f, input[f])' /\ Good(f, data[f])'
               /\ (disk[f] = Empty(f) \/ Good(f, disk[f]))'
               /\ pc' = "idle" => Good(f, disk[BackupOf(f)])' /\ "unwritten" \in lapses'
    <3>1. lapses \subseteq lapses'
      BY <2>1
    <3>2. Careful(f)
      BY <2>4, <3>1 DEF Careful, Without
    <3>3. Good(f, input[f]) /\ Good(f, data[f]) /\ (disk[f] = Empty(f) \/ Good(f, disk[f]))
      BY <2>2, <3>2 DEF FilesInv, TextInv
    <3>4. ASSUME pc' = "idle"
          PROVE  disk[BackupOf(f)] = input[f] /\ "unwritten" \in lapses'
      <4>1. Kept /\ pc = "header" /\ g = "header"
        BY <2>1, <2>2, <3>2, <3>4 DEF Careful, Without, Kept
      <4>2. QED
        BY <1>0, <2>1, <4>1 DEF FilesInv, RunInv, SavedInv, Writing
    <3>5. QED
      BY <2>1, <3>3, <3>4 DEF Good
  <2>5. pc' = "header" => "unwritten" \in lapses'
    BY <1>0, <2>1, <2>2
  <2>6. (pc' # "idle" => report' = "none") /\ report' # "crash"
    BY <2>1, <2>2
  <2>7. QED
    BY <2>3, <2>4, <2>5, <2>6 DEF TextInv
<1>5. QED
  BY <1>1, <1>2, <1>3, <1>4

\* The user's texts: an annotation, or a function behind a comment.
LEMMA UserStep ==
    ASSUME FilesInv, (\E f \in Func : Annotate(f)) \/ (\E u \in Piece : WriteFunction(u))
    PROVE  TypeOK' /\ TextInv'
<1>1. {} \in SUBSET Lapses /\ {"bare"} \in SUBSET Lapses /\ {"atEnd"} \in SUBSET Lapses
  BY DEF Lapses
<1>2. ASSUME NEW f \in Func, Annotate(f)
      PROVE  TypeOK' /\ TextInv'
  <2> DEFINE x == Annotation(f)
  <2>1. <<x, Blank>> \in Seq(Item) /\ <<x>> \in Seq(Item)
    BY DEF Item
  <2>2. Has(<<x, Blank>>, x) /\ Has(<<x>>, x)
    <3>1. x[1] # "code"
      BY DEF Annotation
    <3>2. 1 \in 1..Len(<<x, Blank>>) /\ 1 \in 1..Len(<<x>>)
      OBVIOUS
    <3> HIDE DEF x
    <3>3. QED
      BY <3>1, <3>2 DEF Has
  <2>3. CASE Insert(x, <<x, Blank>>, {})
    BY <1>1, <2>1, <2>2, <2>3, InsertStep
  <2>4. CASE Insert(x, <<x>>, {"atEnd"})
    BY <1>1, <2>1, <2>2, <2>4, InsertStep
  <2>5. QED
    BY <1>2, <2>3, <2>4 DEF Annotate
<1>3. ASSUME NEW u \in Piece, WriteFunction(u)
      PROVE  TypeOK' /\ TextInv'
  <2> DEFINE x    == Code(u)
             full == <<Comment, x, Open, Close, Blank>>
             bare == <<x, Open, Close, Blank>>
  <2>1. full \in Seq(Item) /\ bare \in Seq(Item)
    BY DEF Item
  <2>2. Has(full, x)
    <3>1. 2 \in 1..Len(full) /\ 2 - 1 \in 1..Len(full) /\ full[2] = x /\ full[2 - 1] = Comment
      OBVIOUS
    <3>2. QED
      BY <3>1 DEF Has
  <2> HIDE DEF full, bare
  <2>3. CASE Insert(x, full, {})
    BY <1>1, <2>1, <2>2, <2>3, InsertStep
  <2>4. CASE Insert(x, bare, {"bare"})
    BY <1>1, <2>1, <2>4, InsertStep
  <2>5. QED
    BY <1>3, <2>3, <2>4 DEF WriteFunction, full, bare
<1>4. QED
  BY <1>2, <1>3

\* Every step keeps the invariant of the files.
LEMMA FilesNext ==
    ASSUME FilesInv, [Next]_vars
    PROVE  FilesInv'
<1>1. RunInv'
  BY RunNext DEF FilesInv
<1>2. TypeOK' /\ TextInv'
  <2>1. CASE (\E f \in Func : Annotate(f)) \/ (\E u \in Piece : WriteFunction(u))
    BY <2>1, UserStep
  <2>2. CASE Restore
    BY <2>2, RestoreStep
  <2>3. CASE Start
    BY <2>3, StartStep
  <2>4. CASE Generate \/ SetupError
    BY <2>4, GeneratorStep
  <2>5. CASE Crash \/ \E f \in Files : Truncate(f) \/ Write(f) \/ WriteFails(f)
    BY <2>5, FileStep
  <2>6. CASE UNCHANGED vars
    BY <2>6 DEF vars, FilesInv, TypeOK, TextInv, Good, Careful, Without
  <2>7. QED
    BY <2>1, <2>2, <2>3, <2>4, <2>5, <2>6 DEF Next
<1>3. QED
  BY <1>1, <1>2 DEF FilesInv

\* The invariant of the files holds throughout.
LEMMA FilesAlways == Spec => []FilesInv
<1>1. Init => FilesInv
  <2>1. Init => RunInv
    BY DEF Init, RunInv, ShapeInv, SavedInv, Saved, Before, Writing
  <2>2. QED
    BY <2>1, FilesInit DEF FilesInv
<1>2. FilesInv /\ [Next]_vars => FilesInv'
  BY FilesNext
<1>3. QED
  BY <1>1, <1>2, PTL DEF Spec

\* Whatever is annotated, generated, stopped and repaired, the files hold items
\* and the header its declarations.
THEOREM SqlgenTypeCorrect == Spec => []TypeOK
<1>1. FilesInv => TypeOK
  BY DEF FilesInv
<1>2. QED
  BY <1>1, FilesAlways, PTL

\* Wherever the program is stopped, and whether it could write the sources or not,
\* each file or its backup has all that the user wrote, as long as functions have
\* a comment before them, every run could read the sources and write the backups,
\* and the user does not go on after a failed write or run the program on what a
\* crash left: for any SQL, any functions and any number of runs.
THEOREM RecoverableHolds == Spec => []Recoverable
<1>1. FilesInv => Recoverable
  <2>1. SUFFICES ASSUME FilesInv, NEW f \in Sources,
                        Without({"bare", "noMarks", "rerun", "unread", "unsaved", "unnoticed"})
                 PROVE  Complete(f, disk[f]) \/ Complete(f, disk[BackupOf(f)])
    BY DEF Recoverable
  <2>2. Careful(f)
    BY <2>1 DEF Careful, Without
  <2>3. /\ f \in Files /\ BackupOf(f) \in Files /\ Contents(BackupOf(f)) = Contents(f)
        /\ disk[f] \in Contents(f) /\ disk[BackupOf(f)] \in Contents(f)
    BY <2>1 DEF Sources, Files, BackupOf, Contents, FilesInv, TypeOK
  <2>4. CASE pc = "idle" /\ report # "crash"
    BY <2>1, <2>2, <2>3, <2>4, GoodComplete DEF FilesInv, TextInv
  <2>5. CASE pc # "idle" \/ report = "crash"
    <3>1. Good(f, input[f]) /\ input[f] \in {disk[f], disk[BackupOf(f)]}
      BY <2>1, <2>2, <2>5 DEF FilesInv, TextInv, RunInv, Saved, Without
    <3>2. QED
      BY <2>3, <3>1, GoodComplete
  <2>6. QED
    BY <2>4, <2>5
<1>2. QED
  BY <1>1, FilesAlways, PTL

\* A run that reports success has kept every annotation and every function that
\* the user has written behind a comment, whichever functions it could generate,
\* if it could open and write all of its files and so could every run before.
THEOREM RunKeepsTextHolds == Spec => []RunKeepsText
<1>1. FilesInv => RunKeepsText
  <2>1. SUFFICES ASSUME FilesInv, report = "ok",
                        Without({"bare", "rerun", "unnoticed"} \cup Failures)
                 PROVE  Complete("cpp", disk["cpp"])
    BY DEF RunKeepsText
  <2>2. Careful("cpp") /\ "cpp" \in Sources /\ disk["cpp"] \in Contents("cpp")
    BY <2>1 DEF Careful, Without, Failures, Sources, Files, FilesInv, TypeOK
  <2>3. Good("cpp", disk["cpp"])
    <3>1. "unwritten" \notin lapses
      BY <2>1 DEF Without, Failures
    <3>2. pc = "idle"
      BY <2>1 DEF FilesInv, TextInv
    <3>3. QED
      BY <2>1, <2>2, <3>1, <3>2 DEF FilesInv, TextInv
  <2>4. QED
    BY <2>2, <2>3, GoodComplete
<1>2. QED
  BY <1>1, FilesAlways, PTL

-----------------------------------------------------------------------------
(* What an insertion leaves as it is.                                      *)

\* The item at q is one of s or one of new, in its place.
Either(s, new, p, t, q) ==
    \/ q \in 1..p /\ t[q] = s[q]
    \/ \E j \in 1..Len(new) : q = p + j /\ t[q] = new[j]
    \/ \E m \in p + 1..Len(s) : q = m + Len(new) /\ t[q] = s[m]

\* Every item of t is such a one.
LEMMA InsertedFrom ==
    ASSUME NEW s, NEW new, NEW p, NEW t, NEW q, Inserted(s, new, p, t),
           s \in Seq(Item), new \in Seq(Item), p \in 0..Len(s), q \in 1..Len(t)
    PROVE  Either(s, new, p, t, q)
<1>1. PICK l : l = Len(new)
  OBVIOUS
<1>2. Len(s) \in Nat /\ l \in Nat /\ p \in Nat /\ q \in 1..Len(s) + l
  BY <1>1 DEF Inserted
<1>3. CASE q \in 1..p
  BY <1>3 DEF Inserted, Either
<1>4. CASE q \in p + 1..p + l
  <2>1. PICK j : j = q - p
    OBVIOUS
  <2>2. j \in 1..l /\ q = p + j
    BY <1>2, <1>4, <2>1
  <2>3. QED
    BY <1>1, <2>2 DEF Inserted, Either
<1>5. CASE q \in p + l + 1..Len(s) + l
  <2>1. PICK m : m = q - l
    OBVIOUS
  <2>2. m \in p + 1..Len(s) /\ q = m + l
    BY <1>2, <1>5, <2>1
  <2>3. QED
    BY <1>1, <2>2 DEF Inserted, Either
<1>6. QED
  BY <1>2, <1>3, <1>4, <1>5

\* An annotation that is moved together with its function keeps it.
LEMMA MovedEnd ==
    ASSUME NEW s \in Seq(Item), NEW t \in Seq(Item), NEW a \in Annotations(s),
           NEW b \in 1..Len(t), t[b] = s[a], IsEnd(s, a, FunctionEnd(s, a)),
           b + (FunctionEnd(s, a) - a) <= Len(t), Same(s, a, t, b, FunctionEnd(s, a) - a)
    PROVE  \A j \in 1..FunctionEnd(s, a) - a : b + j \in Replaced(t)
<1>1. PICK e : e = FunctionEnd(s, a)
  OBVIOUS
<1>2. /\ a \in 1..Len(s) /\ a \in Nat /\ b \in Nat /\ IsAnnotation(s[a]) /\ ~IsComment(s[a + 1])
      /\ e \in a + 1..Len(s) /\ Len(t) \in Nat
  BY <1>1, ReplacedOnce DEF IsEnd
<1>3. IsEnd(t, b, b + (e - a))
  BY <1>1, <1>2, EndShift
<1>4. FunctionEnd(t, b) = b + (e - a)
  BY <1>3, EndOf
<1>5. t[b + 1] = s[a + 1]
  <2>1. 1 \in 1..e - a
    BY <1>2
  <2>2. QED
    BY <1>1, <2>1 DEF Same
<1>6. b \in Annotations(t)
  <2>1. b < Len(t)
    BY <1>1, <1>2
  <2>2. QED
    BY <1>2, <1>5, <2>1 DEF Annotations, HasCode
<1>7. ASSUME NEW j \in 1..e - a PROVE b + j \in Replaced(t)
  <2>1. b + j \in b + 1..FunctionEnd(t, b)
    BY <1>2, <1>4
  <2>2. QED
    BY <1>6, <2>1 DEF Replaced
<1>8. QED
  BY <1>1, <1>7

\* The user inserts outside of the functions of annotations.
LEMMA InsertOwned ==
    ASSUME NEW s \in Seq(Item), NEW new \in Seq(Item), NEW p \in Gaps(s), NEW t,
           Inserted(s, new, p, t), HeadsOwned(s),
           \A j \in 1..Len(new) : \A f \in Func : new[j] # FunctionHead(f)
    PROVE  HeadsOwned(t)
<1>1. PICK l : l = Len(new)
  OBVIOUS
<1>2. /\ Len(s) \in Nat /\ l \in Nat /\ p \in Nat /\ p \in 0..Len(s) /\ t \in Seq(Item)
      /\ Len(t) = Len(s) + l
      /\ \A j \in 1..p : t[j] = s[j]
      /\ \A j \in p + 1..Len(s) : t[j + l] = s[j]
  BY <1>1 DEF Inserted, Gaps
<1>3. ASSUME NEW m \in Replaced(s)
      PROVE  /\ m <= p => m \in Replaced(t)
             /\ m > p => m + l \in Replaced(t)
  <2>1. PICK a \in Annotations(s) : /\ IsEnd(s, a, FunctionEnd(s, a))
                                    /\ m \in a + 1..FunctionEnd(s, a)
    BY ReplacedBy
  <2>2. PICK e : e = FunctionEnd(s, a)
    OBVIOUS
  <2>3. /\ a \in 1..Len(s) /\ e \in a + 1..Len(s) /\ m \in a + 1..e
    BY <2>1, <2>2, ReplacedOnce DEF IsEnd
  <2>4. p \notin a..e - 1
    BY <2>2 DEF Gaps
  <2>5. CASE m <= p
    <3>1. e <= p
      BY <1>2, <2>3, <2>4, <2>5
    <3>2. a \in 1..Len(t) /\ t[a] = s[a] /\ a + (e - a) <= Len(t) /\ m - a \in 1..e - a
          /\ a + (m - a) = m
      BY <1>2, <2>3, <3>1
    <3>3. Same(s, a, t, a, e - a)
      <4>1. \A j \in 1..e - a : a + j \in 1..p
        BY <1>2, <2>3, <3>1
      <4>2. QED
        BY <1>2, <4>1 DEF Same
    <3>4. \A j \in 1..e - a : a + j \in Replaced(t)
      BY <1>2, <2>1, <2>2, <3>2, <3>3, MovedEnd
    <3>5. a + (m - a) \in Replaced(t)
      BY <3>2, <3>4
    <3>6. m \in Replaced(t) /\ ~(m > p)
      BY <1>2, <2>3, <2>5, <3>2, <3>5
    <3>7. QED
      BY <3>6
  <2>6. CASE m > p
    <3>1. p < a
      BY <1>2, <2>3, <2>4, <2>6
    <3>2. PICK b : b = a + l
      OBVIOUS
    <3>3. b \in 1..Len(t) /\ t[b] = s[a] /\ b + (e - a) <= Len(t) /\ m - a \in 1..e - a
          /\ b + (m - a) = m + l
      BY <1>2, <2>3, <3>1, <3>2
    <3>4. Same(s, a, t, b, e - a)
      <4>1. \A j \in 1..e - a : a + j \in p + 1..Len(s) /\ (a + j) + l = b + j
        BY <1>2, <2>3, <3>1, <3>2
      <4>2. QED
        BY <1>2, <4>1 DEF Same
    <3>5. \A j \in 1..e - a : b + j \in Replaced(t)
      BY <1>2, <2>1, <2>2, <3>3, <3>4, MovedEnd
    <3>6. b + (m - a) \in Replaced(t)
      BY <3>3, <3>5
    <3>7. m + l \in Replaced(t) /\ ~(m <= p)
      <4>1. b + (m - a) = m + l
        BY <3>3
      <4>2. m + l \in Replaced(t)
        BY <3>6, <4>1, Zenon
      <4>3. ~(m <= p)
        BY <1>2, <2>3, <2>6
      <4>4. QED
        BY <4>2, <4>3
    <3>8. QED
      BY <3>7
  <2>7. QED
    BY <1>2, <2>3, <2>5, <2>6
<1>4. ASSUME NEW q \in 1..Len(t), NEW f \in Func, t[q] = FunctionHead(f)
      PROVE  q \in Replaced(t)
  <2>1. \/ q \in 1..p /\ t[q] = s[q]
        \/ \E m \in p + 1..Len(s) : q = m + l /\ t[q] = s[m]
    <3>1. Either(s, new, p, t, q)
      BY <1>2, InsertedFrom
    <3>2. QED
      BY <1>1, <1>4, <3>1 DEF Either
  <2>2. CASE q \in 1..p /\ t[q] = s[q]
    <3>1. q \in 1..Len(s) /\ q <= p
      BY <1>2, <2>2
    <3>2. QED
      BY <1>3, <1>4, <2>2, <3>1 DEF HeadsOwned
  <2>3. ASSUME NEW m \in p + 1..Len(s), q = m + l, t[q] = s[m]
        PROVE  q \in Replaced(t)
    <3>1. m \in 1..Len(s) /\ m > p
      BY <1>2
    <3>2. QED
      BY <1>3, <1>4, <2>3, <3>1 DEF HeadsOwned
  <2>4. QED
    BY <2>1, <2>2, <2>3
<1>5. QED
  BY <1>4 DEF HeadsOwned

\* The user writes an annotation that is not there yet.
LEMMA InsertKnown ==
    ASSUME NEW s \in Seq(Item), NEW new \in Seq(Item), NEW p \in 0..Len(s), NEW t,
           NEW wrote, NEW x, Inserted(s, new, p, t), Known(s, wrote), x \notin wrote,
           \A j \in 1..Len(new) : IsAnnotation(new[j]) => new[j] = x /\ j = 1
    PROVE  Known(t, wrote \cup {x})
<1>1. t \in Seq(Item)
  BY DEF Inserted
<1>2. ASSUME NEW q \in 1..Len(t), IsAnnotation(t[q])
      PROVE  \/ q = p + 1 /\ t[q] = x
             \/ q \in 1..p /\ t[q] = s[q] /\ q \in 1..Len(s) /\ t[q] \in wrote
             \/ \E m \in p + 1..Len(s) :
                   q = m + Len(new) /\ t[q] = s[m] /\ m \in 1..Len(s) /\ t[q] \in wrote
  <2>1. Either(s, new, p, t, q)
    BY InsertedFrom
  <2>2. CASE q \in 1..p /\ t[q] = s[q]
    <3>1. q \in 1..Len(s)
      BY <2>2
    <3>2. QED
      BY <1>2, <2>2, <3>1 DEF Known
  <2>3. CASE \E j \in 1..Len(new) : q = p + j /\ t[q] = new[j]
    BY <1>2, <2>3
  <2>4. ASSUME NEW m \in p + 1..Len(s), q = m + Len(new), t[q] = s[m]
        PROVE  m \in 1..Len(s) /\ t[q] \in wrote
    BY <1>2, <2>4 DEF Known
  <2>5. QED
    BY <2>1, <2>2, <2>3, <2>4 DEF Either
<1>3. ASSUME NEW q \in 1..Len(t), NEW r \in 1..Len(t), IsAnnotation(t[q]), t[q] = t[r]
      PROVE  q = r
  <2>1. CASE q = p + 1 /\ t[q] = x
    BY <1>2, <1>3, <2>1
  <2>2. CASE r = p + 1 /\ t[r] = x
    BY <1>2, <1>3, <2>2
  <2>3. CASE t[q] # x
    <3>1. PICK l : l = Len(new)
      OBVIOUS
    <3>2. /\ l \in Nat /\ p \in Nat /\ Len(s) \in Nat
          /\ \A m \in 1..p : m \in 1..Len(s) /\ m <= p
          /\ \A m \in p + 1..Len(s) : m \in 1..Len(s) /\ m > p
      BY <3>1
    <3>3. (q \in 1..p /\ t[q] = s[q]) \/ \E m \in p + 1..Len(s) : q = m + l /\ t[q] = s[m]
      BY <1>2, <1>3, <2>3, <3>1
    <3>4. (r \in 1..p /\ t[r] = s[r]) \/ \E m \in p + 1..Len(s) : r = m + l /\ t[r] = s[m]
      BY <1>2, <1>3, <2>3, <3>1
    <3>5. PICK m : m \in 1..Len(s) /\ t[q] = s[m] /\ ((q = m /\ m <= p) \/ (q = m + l /\ m > p))
      BY <3>2, <3>3, Zenon
    <3>6. PICK k : k \in 1..Len(s) /\ t[r] = s[k] /\ ((r = k /\ k <= p) \/ (r = k + l /\ k > p))
      BY <3>2, <3>4, Zenon
    <3>7. m = k
      BY <1>3, <3>5, <3>6 DEF Known
    <3>8. QED
      BY <3>2, <3>5, <3>6, <3>7
  <2>4. QED
    BY <1>2, <1>3, <2>1, <2>2, <2>3
<1>4. \A q \in 1..Len(t) : IsAnnotation(t[q]) => t[q] \in wrote \cup {x}
  BY <1>2
<1>5. QED
  BY <1>3, <1>4 DEF Known

\* Code that is followed stays so when it is moved together with what is behind it.
LEMMA MovedFollowed ==
    ASSUME NEW s, NEW t, NEW a, NEW b, NEW c, NEW d, FollowedTo(s, a, c),
           Same(s, a, t, b, c - a), d < Len(t) => IsComment(t[d + 1]),
           s \in Seq(Item), t \in Seq(Item), a \in 1..Len(s), b \in 1..Len(t),
           c \in a + 1..Len(s), d = b + (c - a), d <= Len(t)
    PROVE  d \in b + 1..Len(t) /\ FollowedTo(t, b, d)
<1>1. Block(s, a, c) /\ s[c] # Close
  BY DEF FollowedTo
<1>2. /\ a \in Nat /\ b \in Nat /\ c \in Nat /\ d \in Nat /\ a + 1 <= c
      /\ d = b + (c - a) /\ d <= Len(t) /\ Len(t) \in Nat
  OBVIOUS
<1>3. ASSUME NEW n \in b + 1..d
      PROVE  \E m \in a + 1..c : t[n] = s[m] /\ (n = d => m = c)
  <2>1. PICK j : j = n - b
    OBVIOUS
  <2>2. j \in 1..c - a /\ n = b + j /\ a + j \in a + 1..c /\ (n = d => a + j = c)
    BY <1>2, <2>1
  <2>3. t[n] = s[a + j]
    BY <2>2 DEF Same
  <2>4. QED
    BY <2>2, <2>3
<1>4. d \in b + 1..Len(t) /\ d \in b + 1..d
  BY <1>2
<1>5. t[d] # Close
  BY <1>1, <1>3, <1>4
<1>6. Block(t, b, d)
  BY <1>1, <1>3 DEF Block
<1>7. QED
  BY <1>4, <1>5, <1>6 DEF FollowedTo

\* The user inserts before a comment, and writes white space behind an annotation.
LEMMA InsertFollowed ==
    ASSUME NEW s \in Seq(Item), NEW new \in Seq(Item), NEW p \in 0..Len(s), NEW t,
           Inserted(s, new, p, t), AtComment(s, p), Followed(s),
           Len(new) > 0, IsComment(new[1]),
           \A j \in 1..Len(new) : IsAnnotation(new[j]) => j = 1 /\ Len(new) = 2 /\ new[2] = Blank
    PROVE  Followed(t)
<1>1. PICK l : l = Len(new)
  OBVIOUS
<1>2. /\ Len(s) \in Nat /\ l \in Nat /\ l > 0 /\ p \in Nat /\ p <= Len(s) /\ t \in Seq(Item)
      /\ Len(t) = Len(s) + l /\ 1 \in 1..l
      /\ \A j \in 1..p : t[j] = s[j]
      /\ \A j \in 1..l : t[p + j] = new[j]
      /\ \A j \in p + 1..Len(s) : t[j + l] = s[j]
  BY <1>1 DEF Inserted
<1>3. SUFFICES ASSUME NEW q \in 1..Len(t), IsAnnotation(t[q])
               PROVE  \E c \in q + 1..Len(t) : FollowedTo(t, q, c)
  BY DEF Followed
<1>4. ASSUME NEW a \in 1..Len(s), IsAnnotation(s[a]), t[q] = s[a],
             (q = a /\ a <= p) \/ (q = a + l /\ p < a)
      PROVE  \E c \in q + 1..Len(t) : FollowedTo(t, q, c)
  <2>1. PICK c \in a + 1..Len(s) : FollowedTo(s, a, c)
    BY <1>4 DEF Followed
  <2>2. /\ \A n \in a + 1..c : ~IsComment(s[n])
        /\ c < Len(s) => IsComment(s[c + 1])
    BY <2>1 DEF FollowedTo, Block
  <2>3. a \in Nat /\ c \in Nat /\ a + 1 <= c /\ c <= Len(s) /\ Len(t) \in Nat
    BY <1>2, <2>1
  <2>4. PICK d : d = q + (c - a)
    OBVIOUS
  <2>5. CASE q = a /\ a <= p
    <3>1. c <= p
      <4>1. SUFFICES ASSUME ~(c <= p) PROVE FALSE
        OBVIOUS
      <4>2. p + 1 \in a + 1..c /\ p # Len(s)
        BY <1>2, <2>3, <2>5, <4>1
      <4>3. QED
        BY <2>2, <4>2 DEF AtComment
    <3>2. d = c /\ d <= Len(t)
      BY <1>2, <2>3, <2>4, <2>5, <3>1
    <3>3. Same(s, a, t, q, c - a)
      <4>1. \A j \in 1..c - a : a + j \in 1..p
        BY <1>2, <2>3, <3>1
      <4>2. QED
        BY <1>2, <2>5, <4>1 DEF Same
    <3>4. IsComment(t[d + 1])
      <4>1. CASE c = p
        BY <1>1, <1>2, <3>2, <4>1
      <4>2. CASE c # p
        <5>1. c + 1 \in 1..p /\ c < Len(s)
          BY <1>2, <2>3, <3>1, <4>2
        <5>2. QED
          BY <1>2, <2>2, <3>2, <5>1
      <4>3. QED
        BY <4>1, <4>2
    <3>5. d \in q + 1..Len(t) /\ FollowedTo(t, q, d)
      BY <1>2, <2>1, <2>4, <3>2, <3>3, <3>4, MovedFollowed
    <3>6. QED
      BY <3>5
  <2>6. CASE q = a + l /\ p < a
    <3>1. d = c + l /\ d <= Len(t)
      BY <1>2, <2>3, <2>4, <2>6
    <3>2. Same(s, a, t, q, c - a)
      <4>1. \A j \in 1..c - a : a + j \in p + 1..Len(s) /\ (a + j) + l = q + j
        BY <1>2, <2>3, <2>6
      <4>2. QED
        BY <1>2, <4>1 DEF Same
    <3>3. d < Len(t) => IsComment(t[d + 1])
      <4>1. SUFFICES ASSUME d < Len(t) PROVE IsComment(t[d + 1])
        OBVIOUS
      <4>2. c < Len(s) /\ c + 1 \in p + 1..Len(s) /\ (c + 1) + l = d + 1
        BY <1>2, <2>3, <2>6, <3>1, <4>1
      <4>3. t[d + 1] = s[c + 1]
        BY <1>2, <4>2
      <4>4. QED
        BY <2>2, <4>2, <4>3
    <3>4. d \in q + 1..Len(t) /\ FollowedTo(t, q, d)
      BY <1>2, <2>1, <2>4, <3>1, <3>2, <3>3, MovedFollowed
    <3>5. QED
      BY <3>4
  <2>7. QED
    BY <1>4, <2>5, <2>6
<1>5. ASSUME NEW j \in 1..l, q = p + j, t[q] = new[j]
      PROVE  \E c \in q + 1..Len(t) : FollowedTo(t, q, c)
  <2>1. j = 1 /\ l = 2 /\ new[2] = Blank /\ q = p + 1
    BY <1>1, <1>3, <1>5
  <2>2. q \in Nat /\ q + 1 <= Len(t) /\ q + 1 = p + 2 /\ Len(t) = Len(s) + 2 /\ Len(t) \in Nat
    BY <1>2, <2>1
  <2>3. t[q + 1] = Blank
    <3>1. 2 \in 1..l
      BY <2>1
    <3>2. QED
      BY <1>2, <2>1, <2>2, <3>1
  <2>4. ~IsComment(Blank) /\ Blank # Close
    BY DEF IsComment, Blank, Close
  <2>5. PICK d : d = q + 1
    OBVIOUS
  <2>6. \A n \in q + 1..d : n = q + 1
    BY <2>2, <2>5
  <2>7. d < Len(t) => IsComment(t[d + 1])
    <3>1. SUFFICES ASSUME d < Len(t) PROVE IsComment(t[d + 1])
      OBVIOUS
    <3>2. p + 1 \in p + 1..Len(s) /\ (p + 1) + l = d + 1 /\ p # Len(s)
      BY <1>2, <2>1, <2>2, <2>5, <3>1
    <3>3. t[d + 1] = s[p + 1]
      BY <1>2, <3>2
    <3>4. QED
      BY <3>2, <3>3 DEF AtComment
  <2>8. Block(t, q, d)
    BY <2>3, <2>4, <2>6, <2>7 DEF Block
  <2>9. FollowedTo(t, q, d) /\ d \in q + 1..Len(t)
    BY <2>2, <2>3, <2>4, <2>5, <2>8 DEF FollowedTo
  <2>10. QED
    BY <2>9
<1>6. QED
  <2>1. Either(s, new, p, t, q)
    BY <1>2, InsertedFrom
  <2>2. CASE q \in 1..p /\ t[q] = s[q]
    <3>1. q \in 1..Len(s) /\ q <= p
      BY <1>2, <2>2
    <3>2. QED
      BY <1>3, <1>4, <2>2, <3>1
  <2>3. ASSUME NEW m \in p + 1..Len(s), q = m + l, t[q] = s[m]
        PROVE  \E c \in q + 1..Len(t) : FollowedTo(t, q, c)
    <3>1. m \in 1..Len(s) /\ p < m
      BY <1>2
    <3>2. QED
      BY <1>3, <1>4, <2>3, <3>1
  <2>4. QED
    BY <1>1, <1>5, <2>1, <2>2, <2>3 DEF Either

-----------------------------------------------------------------------------
(* What a run makes of the files.                                          *)

\* What a file can be when the user has written what is in wrote, with the lapses lost.
Origin(s, wrote, lost) ==
    /\ HeadsOwned(s) /\ Known(s, wrote)
    /\ lost \cap {"bare", "atEnd"} = {} => Followed(s)

\* What a run makes of the two files.
Result(s, h, wrote, lost) ==
    /\ h.marks => h.decls = Heads(s)
    /\ ContainedSql /\ "sqlerror" \notin lost => Done(s)
    /\ lost = {} => \A f \in Func : Annotation(f) \in wrote =>
          f \in h.decls /\ \E p \in 1..Len(s) : Places(s, FunctionHead(f)) = {p}

\* What is on the disk and in the program's hands is the user's, generated or
\* not; and what a run has generated is what it has written when it reports that.
ResultInv ==
    /\ Origin(disk["cpp"], mine, lapses) /\ Origin(disk["cppBackup"], mine, lapses)
    /\ Origin(data["cpp"], mine, lapses)
    /\ pc \in Writing => Result(data["cpp"], data["header"], mine, lapses)
    /\ report = "ok" /\ "unwritten" \notin lapses =>
           Result(disk["cpp"], disk["header"], mine, lapses)

\* The user's mistakes stay when the user goes on.
LEMMA PassedSame ==
    Passed \cap {"bare", "atEnd"} = lapses \cap {"bare", "atEnd"}
BY DEF Passed, Failures

\* To write more, or to be less careful, takes nothing away.
LEMMA OriginMore ==
    ASSUME NEW s, NEW wrote, NEW lost, NEW more, NEW worse, Origin(s, wrote, lost),
           wrote \subseteq more, lost \cap {"bare", "atEnd"} \subseteq worse
    PROVE  Origin(s, more, worse)
BY DEF Origin, Known

\* A file that has just been emptied can be the user's.
LEMMA OriginEmpty ==
    ASSUME NEW wrote, NEW lost
    PROVE  Origin(<<>>, wrote, lost)
<1>1. 1..Len(<<>>) = {}
  OBVIOUS
<1>2. QED
  BY <1>1 DEF Origin, HeadsOwned, Known, Followed

\* The user's edit of the file leaves it one of the user's.
LEMMA InsertOrigin ==
    ASSUME FilesInv, ResultInv, NEW x, NEW new \in Seq(Item), NEW lapse, Insert(x, new, lapse),
           \A j \in 1..Len(new) : /\ \A f \in Func : new[j] # FunctionHead(f)
                                  /\ IsAnnotation(new[j]) => new[j] = x /\ j = 1,
           lapse \cap {"bare", "atEnd"} = {} =>
               /\ Len(new) > 0 /\ IsComment(new[1])
               /\ \A j \in 1..Len(new) :
                     IsAnnotation(new[j]) => j = 1 /\ Len(new) = 2 /\ new[2] = Blank
    PROVE  ResultInv'
<1> DEFINE s == disk["cpp"]
<1>1. PICK p \in Gaps(s) :
          /\ disk' = [disk EXCEPT !["cpp"] =
                         SubSeq(@, 1, p) \o new \o SubSeq(@, p + 1, Len(@))]
          /\ lapses' = Passed \cup lapse \cup IF AtComment(s, p) THEN {} ELSE {"bare"}
  BY DEF Insert
<1>2. /\ pc = "idle" /\ x \notin mine /\ mine' = mine \cup {x} /\ report' = "none"
      /\ pc' = pc /\ data' = data
  BY DEF Insert
<1>3. s \in Seq(Item) /\ p \in 0..Len(s) /\ DOMAIN disk = Files /\ "cpp" \in Files
      /\ "cppBackup" \in Files
  BY DEF FilesInv, TypeOK, Contents, Sources, Files, Gaps
<1> DEFINE t == SubSeq(s, 1, p) \o new \o SubSeq(s, p + 1, Len(s))
<1>4. disk'["cpp"] = t /\ disk'["cppBackup"] = disk["cppBackup"]
  BY <1>1, <1>3
<1>5. Inserted(s, new, p, t)
  <2> HIDE DEF s
  <2>1. QED
    BY <1>3, InsertItems
<1>6. Origin(s, mine, lapses)
  BY DEF ResultInv
<1> HIDE DEF s, t
<1>7. HeadsOwned(t)
  BY <1>3, <1>5, <1>6, InsertOwned DEF Origin
<1>8. Known(t, mine')
  BY <1>2, <1>3, <1>5, <1>6, InsertKnown DEF Origin
<1>9. ASSUME lapses' \cap {"bare", "atEnd"} = {} PROVE Followed(t)
  <2>1. /\ lapses \cap {"bare", "atEnd"} = {} /\ lapse \cap {"bare", "atEnd"} = {}
        /\ AtComment(s, p)
    BY <1>1, <1>9, PassedSame
  <2>2. Followed(s)
    BY <1>6, <1>9, <2>1 DEF Origin
  <2>3. QED
    BY <1>3, <1>5, <2>1, <2>2, InsertFollowed
<1>10. Origin(t, mine', lapses')
  BY <1>7, <1>8, <1>9 DEF Origin
<1>11. Origin(disk["cppBackup"], mine', lapses') /\ Origin(data["cpp"], mine', lapses')
  <2>1. mine \subseteq mine' /\ lapses \cap {"bare", "atEnd"} \subseteq lapses'
    BY <1>1, <1>2, PassedSame
  <2>2. QED
    BY <2>1, OriginMore DEF ResultInv
<1>12. QED
  BY <1>2, <1>4, <1>10, <1>11 DEF ResultInv, Writing

\* The user's texts have no generated head in them.
LEMMA UserOrigin ==
    ASSUME FilesInv, ResultInv, (\E f \in Func : Annotate(f)) \/ (\E u \in Piece : WriteFunction(u))
    PROVE  ResultInv'
<1>1. ASSUME NEW f \in Func, Annotate(f)
      PROVE  ResultInv'
  <2> DEFINE x == Annotation(f)
  <2>1. /\ x \in Item /\ Blank \in Item /\ IsComment(x) /\ ~IsAnnotation(Blank)
        /\ \A h \in Func : x # FunctionHead(h) /\ Blank # FunctionHead(h)
    BY DEF Item, Annotation, Blank, FunctionHead, IsComment, IsAnnotation
  <2> HIDE DEF x
  <2>2. CASE Insert(x, <<x, Blank>>, {})
    <3> DEFINE new == <<x, Blank>>
    <3>1. /\ new \in Seq(Item) /\ Len(new) = 2 /\ new[1] = x /\ new[2] = Blank
          /\ \A j \in 1..2 : j = 1 \/ j = 2
      BY <2>1
    <3> HIDE DEF new
    <3>2. /\ \A j \in 1..Len(new) : /\ \A h \in Func : new[j] # FunctionHead(h)
                                    /\ IsAnnotation(new[j]) => new[j] = x /\ j = 1
          /\ Len(new) > 0 /\ IsComment(new[1])
          /\ \A j \in 1..Len(new) :
                IsAnnotation(new[j]) => j = 1 /\ Len(new) = 2 /\ new[2] = Blank
      BY <2>1, <3>1
    <3>3. Insert(x, new, {})
      BY <2>2 DEF new
    <3>4. QED
      BY <3>1, <3>2, <3>3, InsertOrigin
  <2>3. CASE Insert(x, <<x>>, {"atEnd"})
    <3> DEFINE new == <<x>>
    <3>1. /\ new \in Seq(Item) /\ Len(new) = 1 /\ new[1] = x /\ \A j \in 1..1 : j = 1
      BY <2>1
    <3> HIDE DEF new
    <3>2. /\ \A j \in 1..Len(new) : /\ \A h \in Func : new[j] # FunctionHead(h)
                                    /\ IsAnnotation(new[j]) => new[j] = x /\ j = 1
          /\ {"atEnd"} \cap {"bare", "atEnd"} # {}
      BY <2>1, <3>1
    <3>3. Insert(x, new, {"atEnd"})
      BY <2>3 DEF new
    <3>4. QED
      BY <3>1, <3>2, <3>3, InsertOrigin
  <2>4. QED
    BY <1>1, <2>2, <2>3 DEF Annotate, x
<1>2. ASSUME NEW u \in Piece, WriteFunction(u)
      PROVE  ResultInv'
  <2> DEFINE x    == Code(u)
             full == <<Comment, x, Open, Close, Blank>>
             bare == <<x, Open, Close, Blank>>
  <2>1. /\ IsComment(Comment)
        /\ \A y \in {Comment, x, Open, Close, Blank} :
              y \in Item /\ ~IsAnnotation(y) /\ \A h \in Func : y # FunctionHead(h)
    BY DEF Item, Comment, Code, Open, Close, Blank, FunctionHead, IsComment, IsAnnotation
  <2> HIDE DEF x
  <2>2. /\ full \in Seq(Item) /\ bare \in Seq(Item) /\ Len(full) = 5 /\ full[1] = Comment
        /\ \A j \in 1..Len(full) : full[j] \in {Comment, x, Open, Close, Blank}
        /\ \A j \in 1..Len(bare) : bare[j] \in {Comment, x, Open, Close, Blank}
    BY <2>1
  <2> HIDE DEF full, bare
  <2>3. CASE Insert(x, full, {})
    <3>1. /\ \A j \in 1..Len(full) : /\ \A h \in Func : full[j] # FunctionHead(h)
                                     /\ ~IsAnnotation(full[j])
          /\ Len(full) > 0 /\ IsComment(full[1])
      BY <2>1, <2>2
    <3>2. QED
      BY <2>2, <2>3, <3>1, InsertOrigin
  <2>4. CASE Insert(x, bare, {"bare"})
    <3>1. /\ \A j \in 1..Len(bare) : /\ \A h \in Func : bare[j] # FunctionHead(h)
                                     /\ ~IsAnnotation(bare[j])
          /\ {"bare"} \cap {"bare", "atEnd"} # {}
      BY <2>1, <2>2
    <3>2. QED
      BY <2>2, <2>4, <3>1, InsertOrigin
  <2>5. QED
    BY <1>2, <2>3, <2>4 DEF WriteFunction, x, full, bare
<1>3. QED
  BY <1>1, <1>2

\* What sqlgen_main returns.
LEMMA GenerateResult ==
    ASSUME FilesInv, ResultInv, PlainSql, EvenSql, Generate
    PROVE  ResultInv'
<1> DEFINE s == data["cpp"]
           h == data["header"]
<1>1. PICK bad \in SUBSET Func :
          /\ data' = GenerateData(bad)
          /\ lapses' = lapses \cup IF bad = {} THEN {} ELSE {"sqlerror"}
  BY DEF Generate
<1>2. /\ pc = "generate" /\ pc' = "cpp" /\ UNCHANGED <<disk, mine, report>> /\ report = "none"
  BY AfterStep DEF Generate, FilesInv, TextInv
<1> DEFINE r == Regenerate(s, bad)
           d == Generated(s, bad)
<1>3. s \in Seq(Item) /\ h \in Headers
  BY DEF FilesInv, TypeOK, Contents, Sources
<1>4. data'["cpp"] = r /\ data'["header"] = PlaceData(h, d)
  BY <1>1 DEF GenerateData
<1>5. Origin(s, mine, lapses)
  BY DEF ResultInv
<1>6. HeadsOwned(r) /\ Heads(r) = d /\ Known(r, mine)
  <2> HIDE DEF s
  <2>1. HeadsOwned(r) /\ Heads(r) = d
    BY <1>3, <1>5, RegenerateOwned DEF Origin
  <2>2. Known(r, mine)
    BY <1>3, <1>5, RegenerateKnown DEF Origin
  <2>3. QED
    BY <2>1, <2>2
<1>7. ASSUME lapses' \cap {"bare", "atEnd"} = {} PROVE Followed(r)
  <2>1. lapses \cap {"bare", "atEnd"} = {}
    BY <1>1, <1>7
  <2>2. Followed(s)
    BY <1>5, <1>7, <2>1 DEF Origin
  <2> HIDE DEF s
  <2>3. QED
    BY <1>3, <1>7, <2>2, RegenerateFollowed
<1>8. Origin(r, mine, lapses')
  BY <1>6, <1>7 DEF Origin
<1>9. PlaceData(h, d).marks => h.marks /\ PlaceData(h, d).decls = d
  BY <1>3 DEF PlaceData, Headers
<1>10. h.marks => PlaceData(h, d).decls = d
  BY <1>3 DEF PlaceData, Headers
<1>11. ASSUME ContainedSql, "sqlerror" \notin lapses' PROVE bad = {} /\ Done(r)
  <2>1. bad = {}
    BY <1>1, <1>11
  <2> HIDE DEF s
  <2>2. QED
    BY <1>3, <1>11, <2>1, RegenerateDone
<1>12. ASSUME lapses' = {}, NEW f \in Func, Annotation(f) \in mine
       PROVE  f \in PlaceData(h, d).decls /\ \E p \in 1..Len(r) : Places(r, FunctionHead(f)) = {p}
  <2>1. lapses = {} /\ bad = {} /\ Careful("cpp") /\ Careful("header")
    BY <1>1, <1>11, <1>12 DEF Careful, Without
  <2>2. Good("cpp", s) /\ Good("header", h)
    BY <1>2, <2>1 DEF FilesInv, TextInv, Sources
  <2>3. PICK k \in 1..Len(s) : s[k] = Annotation(f)
    BY <1>12, <2>2 DEF Good, Has
  <2>4. Followed(s)
    BY <1>5, <1>12, <2>1 DEF Origin
  <2>5. IsAnnotation(Annotation(f)) /\ Annotation(f)[2] = f
    BY DEF IsAnnotation, Annotation
  <2> HIDE DEF s, h
  <2>6. k \in Annotations(s)
    BY <1>3, <2>3, <2>4, <2>5, FollowedCode
  <2>7. f \in d /\ \E p \in 1..Len(r) : Places(r, FunctionHead(f)) = {p}
    <3>1. s[k][2] = f /\ f \notin bad /\ HeadsOwned(s) /\ Known(s, mine)
      BY <1>5, <2>1, <2>3, <2>5 DEF Origin
    <3>2. /\ s[k][2] \in Generated(s, bad)
          /\ \E p \in 1..Len(Regenerate(s, bad)) :
                Places(Regenerate(s, bad), FunctionHead(s[k][2])) = {p}
      BY <1>3, <2>6, <3>1, OneHead
    <3>3. QED
      BY <3>1, <3>2
  <2>8. h.marks
    BY <2>2 DEF Good
  <2>9. QED
    BY <1>10, <2>7, <2>8
<1> HIDE DEF r, d, s, h
<1>13. Result(r, PlaceData(h, d), mine, lapses')
  BY <1>6, <1>9, <1>11, <1>12 DEF Result
<1>14. Origin(disk["cpp"], mine, lapses') /\ Origin(disk["cppBackup"], mine, lapses')
  <2>1. lapses \cap {"bare", "atEnd"} \subseteq lapses'
    BY <1>1
  <2>2. QED
    BY <2>1, OriginMore DEF ResultInv
<1>15. QED
  BY <1>2, <1>4, <1>8, <1>13, <1>14 DEF ResultInv

\* The user's repair and the start of a run.
LEMMA StartResult ==
    ASSUME FilesInv, ResultInv, Restore \/ Start
    PROVE  ResultInv'
<1>0. /\ Sources = {"cpp", "header"} /\ Files = {"cpp", "header", "cppBackup", "headerBackup"}
  BY DEF Sources, Files
<1>1. CASE Restore
  <2>1. /\ pc = "idle" /\ report' = "none" /\ UNCHANGED <<pc, data, mine, lapses>>
        /\ disk' = [f \in Files |->
                       IF f \in Sources /\ ~Complete(f, disk[f]) THEN disk[BackupOf(f)]
                       ELSE disk[f]]
    BY <1>1 DEF Restore
  <2>2. /\ disk'["cpp"] \in {disk["cpp"], disk["cppBackup"]}
        /\ disk'["cppBackup"] = disk["cppBackup"]
    BY <1>0, <2>1, FourFiles
  <2>3. Origin(disk["cpp"], mine, lapses) /\ Origin(disk["cppBackup"], mine, lapses)
    BY DEF ResultInv
  <2>4. Origin(disk'["cpp"], mine, lapses) /\ Origin(disk'["cppBackup"], mine, lapses)
    BY <2>2, <2>3
  <2>5. QED
    BY <2>1, <2>4 DEF ResultInv, Writing
<1>2. CASE Start
  <2>1. pc' = "cppBackup" /\ report' = "none" /\ UNCHANGED <<disk, mine>>
    BY <1>2 DEF Start, Order
  <2>2. data'["cpp"] \in {disk["cpp"], <<>>}
    BY <1>0, <1>2, StartReads DEF Empty
  <2>3. lapses \cap {"bare", "atEnd"} \subseteq lapses' /\ mine \subseteq mine
    BY <1>2, StartReads, PassedSame
  <2>4. /\ Origin(disk["cpp"], mine, lapses') /\ Origin(disk["cppBackup"], mine, lapses')
        /\ Origin(<<>>, mine, lapses')
    BY <2>3, OriginMore, OriginEmpty DEF ResultInv
  <2>5. QED
    BY <2>1, <2>2, <2>4 DEF ResultInv, Writing
<1>3. QED
  BY <1>1, <1>2

\* A file is emptied or written, or the run ends before its time.
LEMMA FileResult ==
    ASSUME FilesInv, ResultInv,
           Crash \/ SetupError \/ \E f \in Files : Truncate(f) \/ Write(f) \/ WriteFails(f)
    PROVE  ResultInv'
<1>0. /\ Sources = {"cpp", "header"} /\ Files = {"cpp", "header", "cppBackup", "headerBackup"}
      /\ DOMAIN disk = Files
  BY DEF Sources, Files, FilesInv, TypeOK
<1>1. CASE Crash \/ SetupError
  <2>1. pc' = "idle" /\ report' # "ok" /\ UNCHANGED <<disk, data, mine, lapses>>
    BY <1>1 DEF Crash, SetupError
  <2>2. QED
    BY <2>1 DEF ResultInv, Writing
<1>2. ASSUME NEW g \in Files, Truncate(g)
      PROVE  ResultInv'
  <2>1. /\ pc = g /\ disk' = [disk EXCEPT ![g] = Empty(g)]
        /\ UNCHANGED <<pc, data, mine, report, lapses>>
    BY <1>2 DEF Truncate
  <2>2. disk'[g] = Empty(g) /\ \A f \in Files \ {g} : disk'[f] = disk[f]
    BY <1>0, <2>1
  <2>3. report = "none"
    BY <1>0, <2>1 DEF FilesInv, TextInv
  <2>4. \A f \in {"cpp", "cppBackup"} :
           disk'[f] = disk[f] \/ disk'[f] = <<>>
    BY <1>0, <2>2 DEF Empty
  <2>5. Origin(<<>>, mine, lapses)
    BY OriginEmpty
  <2>6. Origin(disk["cpp"], mine, lapses) /\ Origin(disk["cppBackup"], mine, lapses)
    BY DEF ResultInv
  <2>7. Origin(disk'["cpp"], mine, lapses) /\ Origin(disk'["cppBackup"], mine, lapses)
    BY <2>4, <2>5, <2>6
  <2>8. QED
    BY <2>1, <2>3, <2>7 DEF ResultInv
<1>3. ASSUME NEW g \in Files, Write(g)
      PROVE  ResultInv'
  <2>1. /\ pc = g /\ disk' = [disk EXCEPT ![g] = data[SourceOf(g)]]
        /\ pc' = After(g) /\ report' = IF pc' = "idle" THEN "ok" ELSE report
        /\ UNCHANGED <<data, mine, lapses>>
    BY <1>3 DEF Write, CloseFile
  <2>2. /\ disk'[g] = data[SourceOf(g)]
        /\ \A f \in Files \ {g} : disk'[f] = disk[f]
    BY <1>0, <2>1
  <2>3. report = "none"
    BY <1>0, <2>1 DEF FilesInv, TextInv
  <2>4. \A f \in {"cpp", "cppBackup"} :
           disk'[f] = disk[f] \/ disk'[f] = data["cpp"]
    BY <1>0, <2>2, FourFiles
  <2>5. /\ Origin(disk["cpp"], mine, lapses) /\ Origin(disk["cppBackup"], mine, lapses)
        /\ Origin(data["cpp"], mine, lapses)
    BY DEF ResultInv
  <2>6. Origin(disk'["cpp"], mine, lapses) /\ Origin(disk'["cppBackup"], mine, lapses)
    BY <2>4, <2>5
  <2>7. pc' \in Writing => pc \in Writing
    BY <1>0, <2>1, AfterStep DEF Writing
  <2>8. ASSUME report' = "ok", "unwritten" \notin lapses
        PROVE  Result(disk'["cpp"], disk'["header"], mine, lapses)
    <3>1. g = "header"
      BY <1>0, <2>1, <2>3, <2>8, AfterStep
    <3>2. disk'["header"] = data["header"] /\ disk'["cpp"] = data["cpp"]
      BY <1>0, <2>1, <2>2, <2>8, <3>1, FourFiles DEF FilesInv, TextInv
    <3>3. QED
      BY <2>1, <3>1, <3>2 DEF ResultInv, Writing
  <2>9. QED
    BY <2>1, <2>5, <2>6, <2>7, <2>8 DEF ResultInv
<1>4. ASSUME NEW g \in Files, WriteFails(g)
      PROVE  ResultInv'
  <2>1. /\ pc = g /\ pc' = After(g) /\ report' = IF pc' = "idle" THEN "ok" ELSE report
        /\ lapses' = lapses \cup {IF g \in Sources THEN "unwritten" ELSE "unsaved"}
        /\ UNCHANGED <<disk, data, mine>>
    BY <1>4 DEF WriteFails, CloseFile
  <2>2. report = "none"
    BY <1>0, <2>1 DEF FilesInv, TextInv
  <2>3. pc' \in Writing => pc \in Writing
    BY <1>0, <2>1, AfterStep DEF Writing
  <2>4. report' = "ok" => "unwritten" \in lapses'
    BY <1>0, <2>1, <2>2, AfterStep
  <2>5. /\ Origin(disk["cpp"], mine, lapses') /\ Origin(disk["cppBackup"], mine, lapses')
        /\ Origin(data["cpp"], mine, lapses')
    BY <2>1, OriginMore DEF ResultInv
  <2>6. \A s, h : Result(s, h, mine, lapses) => Result(s, h, mine, lapses')
    BY <2>1 DEF Result
  <2>7. QED
    BY <2>1, <2>3, <2>4, <2>5, <2>6 DEF ResultInv
<1>5. QED
  BY <1>1, <1>2, <1>3, <1>4

\* Every step of the user and of the program keeps it.
LEMMA ResultNext ==
    ASSUME FilesInv, ResultInv, PlainSql, EvenSql, [Next]_vars
    PROVE  ResultInv'
<1>1. CASE (\E f \in Func : Annotate(f)) \/ (\E u \in Piece : WriteFunction(u))
  BY <1>1, UserOrigin
<1>2. CASE Restore \/ Start
  BY <1>2, StartResult
<1>3. CASE Generate
  BY <1>3, GenerateResult
<1>4. CASE Crash \/ SetupError \/ \E f \in Files : Truncate(f) \/ Write(f) \/ WriteFails(f)
  BY <1>4, FileResult
<1>5. CASE UNCHANGED vars
  BY <1>5 DEF vars, ResultInv
<1>6. QED
  BY <1>1, <1>2, <1>3, <1>4, <1>5 DEF Next

\* Empty files have nothing to be kept.
LEMMA ResultInit ==
    ASSUME Init
    PROVE  ResultInv
<1>1. pc = "idle" /\ report = "none"
  BY DEF Init
<1>2. disk["cpp"] = <<>> /\ disk["cppBackup"] = <<>> /\ data["cpp"] = <<>>
  BY DEF Init, Empty, Files, Sources
<1>3. QED
  BY <1>1, <1>2, OriginEmpty DEF ResultInv, Writing

\* It takes both invariants: a header is written from the data of its C++ file.
LEMMA ResultAlways == PlainSql /\ EvenSql => (Spec => [](FilesInv /\ ResultInv))
<1> SUFFICES ASSUME PlainSql, EvenSql
             PROVE  Spec => [](FilesInv /\ ResultInv)
  OBVIOUS
<1>1. FilesInv /\ ResultInv /\ [Next]_vars => ResultInv'
  BY ResultNext
<1>2. Init => ResultInv
  BY ResultInit
<1>3. QED
  BY <1>1, <1>2, FilesAlways, PTL DEF Spec

\* How often there is an item, by where it is.
LEMMA TimesPlaces ==
    ASSUME NEW x, FilesInv
    PROVE  /\ Places(disk["cpp"], x) = {} => Times(x) = 0
           /\ Places(disk["cpp"], x) # {} => Times(x) > 0
           /\ \A p : Places(disk["cpp"], x) = {p} => Times(x) = 1
<1> DEFINE P == Places(disk["cpp"], x)
<1>1. disk["cpp"] \in Seq(Item)
  BY DEF FilesInv, TypeOK, Contents, Sources, Files
<1>2. Times(x) = Cardinality(P)
  <2>1. {p \in DOMAIN disk["cpp"] : disk["cpp"][p] = x} = P
    BY <1>1 DEF Places
  <2>2. QED
    BY <2>1 DEF Times
<1>3. IsFiniteSet(P)
  <2>1. P \subseteq 1..Len(disk["cpp"]) /\ Len(disk["cpp"]) \in Nat
    BY <1>1 DEF Places
  <2>2. IsFiniteSet(1..Len(disk["cpp"]))
    BY <2>1, FS_Interval
  <2>3. QED
    BY <2>1, <2>2, FS_Subset
<1> HIDE DEF P
<1>4. Cardinality(P) \in Nat /\ (Cardinality(P) = 0 <=> P = {})
  BY <1>3, FS_CardinalityType, FS_EmptySet
<1>5. ASSUME NEW p, P = {p} PROVE Cardinality(P) = 1
  BY <1>5, FS_Singleton
<1>6. P = Places(disk["cpp"], x)
  BY DEF P
<1>7. QED
  BY <1>2, <1>4, <1>5, <1>6

\* After a run that reports success and could write its files, the header with
\* markers declares the functions that are in the C++ file, and no others: whatever
\* failed its check, whatever could not be read, whatever crashes and failures came
\* before, and however careless the user was.
THEOREM HeaderAgreesHolds == PlainSql /\ EvenSql => (Spec => []HeaderAgrees)
<1> SUFFICES ASSUME PlainSql, EvenSql
             PROVE  Spec => []HeaderAgrees
  OBVIOUS
<1>1. FilesInv /\ ResultInv => HeaderAgrees
  <2>1. SUFFICES ASSUME FilesInv, ResultInv, report = "ok", disk["header"].marks,
                        "unwritten" \notin lapses
                 PROVE  disk["header"].decls = {f \in Func : Times(FunctionHead(f)) > 0}
    BY DEF HeaderAgrees, Without
  <2>2. disk["header"].decls = Heads(disk["cpp"])
    BY <2>1 DEF ResultInv, Result
  <2>3. \A f \in Func : Times(FunctionHead(f)) > 0 <=>
                           Places(disk["cpp"], FunctionHead(f)) # {}
    BY <2>1, TimesPlaces
  <2>4. QED
    BY <2>2, <2>3 DEF Heads
<1>2. QED
  BY <1>1, ResultAlways, PTL

\* After a run whose SQL has all prepared and whose files could be written, another
\* run would write the same C++ file: generated code does not pile up, and none of
\* the user's is taken away.
THEOREM IdempotentHolds == PlainSql /\ ContainedSql => (Spec => []Idempotent)
<1> SUFFICES ASSUME PlainSql, ContainedSql
             PROVE  Spec => []Idempotent
  OBVIOUS
<1>1. FilesInv /\ ResultInv => Idempotent
  <2>1. SUFFICES ASSUME FilesInv, ResultInv, report = "ok",
                        "sqlerror" \notin lapses, "unwritten" \notin lapses
                 PROVE  Regenerate(disk["cpp"], {}) = disk["cpp"]
    BY DEF Idempotent, Without
  <2>2. disk["cpp"] \in Seq(Item)
    BY <2>1 DEF FilesInv, TypeOK, Contents, Sources, Files
  <2>3. Done(disk["cpp"])
    BY <2>1 DEF ResultInv, Result
  <2>4. QED
    BY <2>2, <2>3, DoneIdempotent
<1>2. EvenSql
  BY DEF ContainedSql
<1>3. QED
  BY <1>1, <1>2, ResultAlways, PTL

\* After a run that reports success, and with a user who was careful all along, every
\* annotation has its function in the file just once, and the header declares it.
THEOREM OkMeansGeneratedHolds == PlainSql /\ EvenSql => (Spec => []OkMeansGenerated)
<1> SUFFICES ASSUME PlainSql, EvenSql
             PROVE  Spec => []OkMeansGenerated
  OBVIOUS
<1>1. FilesInv /\ ResultInv => OkMeansGenerated
  <2>1. SUFFICES ASSUME FilesInv, ResultInv, report = "ok", lapses = {},
                        NEW f \in Func, Annotation(f) \in mine
                 PROVE  Times(FunctionHead(f)) = 1 /\ f \in disk["header"].decls
    BY DEF OkMeansGenerated
  <2>2. /\ f \in disk["header"].decls
        /\ \E p \in 1..Len(disk["cpp"]) : Places(disk["cpp"], FunctionHead(f)) = {p}
    BY <2>1 DEF ResultInv, Result
  <2>3. QED
    BY <2>1, <2>2, TimesPlaces
<1>2. QED
  BY <1>1, ResultAlways, PTL
=============================================================================
