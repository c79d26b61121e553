---------------------- MODULE ScopedTransactionsProofs ----------------------
(***************************************************************************)
(* For stacks of any depth and any number of writes: a transaction is all  *)
(* or nothing, none is left open, no destructor throws, and PRAGMA         *)
(* synchronous is put back, except after the lapses each theorem names.    *)
(***************************************************************************)
EXTENDS ScopedTransactions, FiniteSetTheorems, SequenceTheorems,
        WellFoundedInduction, TLAPS

USE BoundAssumption

-----------------------------------------------------------------------------
(* The stack.                                                              *)

\* The innermost of some objects of the stack.
LEMMA LastExists ==
    ASSUME NEW D \in Nat, NEW T \in SUBSET (1..D), T # {}
    PROVE  \E i \in T : \A j \in T : j <= i
<1> DEFINE R == StrictSubsetOrdering(1..D)
           F == {i..D : i \in T}
<1>1. IsFiniteSet(1..D)
  BY FS_Interval
<1>2. IsWellFoundedOn(R, SUBSET (1..D))
  BY <1>1, FS_FiniteSubsetsOfFinite, FS_StrictSubsetOrderingWellFounded
<1>3. F \subseteq SUBSET (1..D) /\ F # {}
  <2>1. PICK i \in T : TRUE
    OBVIOUS
  <2>2. i..D \in F
    OBVIOUS
  <2>3. \A j \in T : j..D \subseteq 1..D
    OBVIOUS
  <2>4. QED
    BY <2>2, <2>3
<1> HIDE DEF R
<1>4. PICK x \in F : \A y \in F : ~(<<y, x>> \in R)
  <2> HIDE DEF F
  <2>1. QED
    BY <1>2, <1>3, WFMin
<1>5. PICK i \in T : x = i..D
  OBVIOUS
<1>6. \A j \in T : j <= i
  <2> SUFFICES ASSUME NEW j \in T, i < j
               PROVE  FALSE
    OBVIOUS
  <2>1. j..D \subseteq i..D /\ i \in i..D /\ i \notin j..D
    OBVIOUS
  <2>2. <<j..D, i..D>> \in R
    BY <2>1 DEF R, StrictSubsetOrdering
  <2>3. QED
    BY <1>4, <1>5, <2>2
<1>7. QED
  BY <1>6

\* What a constructor does to the stack.
LEMMA Pushed ==
    ASSUME scope \in Seq(Objects), NEW o \in Objects, scope' = Append(scope, o)
    PROVE  /\ scope' \in Seq(Objects) /\ Depth' = Depth + 1 /\ Depth \in Nat
           /\ Positions = 1..Depth /\ Positions' = 1..(Depth + 1)
           /\ \A i \in Positions : scope'[i] = scope[i]
           /\ scope'[Depth + 1] = o
BY AppendProperties, LenProperties DEF Depth, Positions

\* What a destructor does to the stack.
LEMMA Popped ==
    ASSUME scope \in Seq(Objects), Depth > 0, scope' = SubSeq(scope, 1, Depth - 1)
    PROVE  /\ scope' \in Seq(Objects) /\ Depth' = Depth - 1 /\ Depth \in Nat
           /\ Positions = 1..Depth /\ Positions' = 1..(Depth - 1)
           /\ \A i \in Positions' : scope'[i] = scope[i]
           /\ scope[Depth] \in Objects
<1>1. Depth \in Nat /\ Positions = 1..Depth
  BY LenProperties DEF Depth, Positions
<1>2. \A i \in 1..(Depth - 1) : scope[i] \in Objects
  BY <1>1, ElementOfSeq DEF Depth
<1>3. /\ scope' \in Seq(Objects) /\ Len(scope') = Depth - 1
      /\ \A i \in 1..(Depth - 1) : scope'[i] = scope[i]
  BY <1>1, <1>2, SubSeqProperties
<1>4. QED
  BY <1>1, <1>3, LenProperties, ElementOfSeq DEF Depth, Positions

\* What the other calls do to the stack.
LEMMA Changed ==
    ASSUME scope \in Seq(Objects), NEW i \in Positions, NEW o \in Objects,
           scope' = [scope EXCEPT ![i] = o]
    PROVE  /\ scope' \in Seq(Objects) /\ Depth' = Depth /\ Depth \in Nat
           /\ Positions = 1..Depth /\ Positions' = Positions
           /\ \A j \in Positions \ {i} : scope'[j] = scope[j]
           /\ scope'[i] = o
<1>1. Depth \in Nat /\ Positions = 1..Depth
  BY LenProperties DEF Depth, Positions
<1>2. /\ scope' \in Seq(Objects) /\ Len(scope') = Depth
      /\ \A j \in Positions : scope'[j] = IF j = i THEN o ELSE scope[j]
  BY <1>1, ExceptSeq DEF Depth
<1>3. QED
  BY <1>1, <1>2, LenProperties DEF Depth, Positions

\* The elements of the stack are objects.
LEMMA Elements ==
    ASSUME scope \in Seq(Objects)
    PROVE  /\ Depth \in Nat /\ Positions = 1..Depth
           /\ \A i \in Positions : scope[i] \in Objects
BY LenProperties, ElementOfSeq DEF Depth, Positions

\* The stack after reset(), restart(), end(), commit() and rollback() of a
\* transaction,
LEMMA TxChanged ==
    ASSUME scope \in Seq(Objects), NEW i \in Positions, NEW given \in BOOLEAN,
           NEW u \in Units, scope' = [scope EXCEPT ![i].db = given, ![i].unit = u]
    PROVE  /\ scope' \in Seq(Objects) /\ Depth' = Depth /\ Depth \in Nat
           /\ Positions = 1..Depth /\ Positions' = Positions
           /\ \A j \in Positions \ {i} : scope'[j] = scope[j]
           /\ scope'[i] = [scope[i] EXCEPT !.db = given, !.unit = u]
<1> DEFINE o == [scope[i] EXCEPT !.db = given, !.unit = u]
<1>1. scope[i] \in Objects
  BY Elements
<1>2. o \in Objects
  BY <1>1 DEF Objects
<1>3. scope' = [scope EXCEPT ![i] = o]
  BY <1>1 DEF Objects, Positions
<1>4. QED
  BY <1>2, <1>3, Changed

\* and after reset() of a ScopedSynchronous.
LEMMA SyncChanged ==
    ASSUME scope \in Seq(Objects), NEW i \in Positions, NEW given \in BOOLEAN,
           NEW s \in Levels, scope' = [scope EXCEPT ![i].db = given, ![i].saved = s]
    PROVE  /\ scope' \in Seq(Objects) /\ Depth' = Depth /\ Depth \in Nat
           /\ Positions = 1..Depth /\ Positions' = Positions
           /\ \A j \in Positions \ {i} : scope'[j] = scope[j]
           /\ scope'[i] = [scope[i] EXCEPT !.db = given, !.saved = s]
<1> DEFINE o == [scope[i] EXCEPT !.db = given, !.saved = s]
<1>1. scope[i] \in Objects
  BY Elements
<1>2. o \in Objects
  BY <1>1 DEF Objects
<1>3. scope' = [scope EXCEPT ![i] = o]
  BY <1>1 DEF Objects, Positions
<1>4. QED
  BY <1>2, <1>3, Changed

-----------------------------------------------------------------------------
(* Types.                                                                  *)

\* Writes are numbered by their count.
TypeInv == TypeOK /\ IsFiniteSet(made)

LEMMA CallTypes ==
    ASSUME NEW d \in Connections
    PROVE  /\ Begin(d) \in Connections /\ Rollback(d) \in Connections
           /\ \A x \in End(d) : x \in Connections
           /\ \A o \in Objects : \A x \in Release(o, d) : x \in Connections
<1>1. Begin(d) \in Connections
  BY DEF Connections, Begin
<1>2. Rollback(d) \in Connections
  BY DEF Connections, Rollback
<1>3. Commit(d) \in Connections
  BY DEF Connections, Commit
<1>4. [d EXCEPT !.inTx = FALSE] \in Connections
  BY DEF Connections
<1>5. \A x \in End(d) : x \in Connections
  BY <1>3, <1>4 DEF End
<1>6. \A o \in Objects : \A x \in Release(o, d) : x \in Connections
  BY <1>2, <1>5 DEF Release
<1>7. QED
  BY <1>1, <1>2, <1>5, <1>6

LEMMA UnitType == TypeOK => CurrentUnit \in Units
<1> SUFFICES ASSUME TypeOK
             PROVE  CurrentUnit \in Units
  OBVIOUS
<1> DEFINE open == {i \in Positions : HasTx(scope[i])}
<1>1. \A i \in Positions : scope[i].unit \in Units
  BY Elements DEF TypeOK, Objects
<1>2. CASE open = {}
  BY <1>2 DEF CurrentUnit, Units
<1>3. CASE open # {}
  <2>1. Depth \in Nat /\ open \in SUBSET (1..Depth)
    BY Elements DEF TypeOK
  <2>2. \E i \in open : \A j \in open : j <= i
    <3> HIDE DEF open
    <3>1. QED
      BY <1>3, <2>1, LastExists
  <2>3. (CHOOSE i \in open : \A j \in open : j <= i) \in open
    BY <2>2
  <2>4. QED
    BY <1>1, <1>3, <2>3 DEF CurrentUnit
<1>4. QED
  BY <1>2, <1>3

LEMMA InitType == Init => TypeInv
<1> SUFFICES ASSUME Init
             PROVE  TypeInv
  OBVIOUS
<1>1. scope \in Seq(Objects) /\ Depth = 0
  BY EmptySeq DEF Init, Depth
<1>2. db \in Connections
  BY DEF Init, Connections, Levels
<1>3. IsFiniteSet(made)
  BY FS_EmptySet DEF Init
<1>4. units \in Units /\ asked \in SUBSET Units
  BY DEF Init, Units
<1>5. made \in SUBSET Writes /\ lapses \in SUBSET Lapses
  BY DEF Init
<1>6. throwing \in BOOLEAN /\ terminated \in BOOLEAN
  BY DEF Init
<1>7. Depth <= MaxDepth
  BY <1>1
<1>8. QED
  BY <1>1, <1>2, <1>3, <1>4, <1>5, <1>6, <1>7 DEF TypeInv, TypeOK

LEMMA NextType == TypeInv /\ [Next]_vars => TypeInv'
<1> SUFFICES ASSUME TypeInv, [Next]_vars
             PROVE  TypeInv'
  OBVIOUS
<1>0. /\ scope \in Seq(Objects) /\ Depth \in Nat /\ Positions = 1..Depth /\ Depth <= MaxDepth
      /\ \A i \in Positions : scope[i] \in Objects
      /\ db \in Connections /\ units \in Nat /\ Units = 0..MaxUnits /\ 0 \in Units
      /\ throwing \in BOOLEAN /\ terminated \in BOOLEAN /\ IsFiniteSet(made)
  BY Elements DEF TypeInv, TypeOK, Units
<1>1. ASSUME NEW kind \in {"auto", "manual"}, NEW given \in BOOLEAN, ConstructTx(kind, given)
      PROVE  TypeInv'
  <2> DEFINE o == [kind |-> kind, db |-> given, unit |-> IF given THEN units' ELSE 0,
                   saved |-> "NORMAL"]
  <2>1. units' \in Units /\ db' \in Connections
    BY <1>0, <1>1, CallTypes DEF ConstructTx, BeginUnit, TypeInv, TypeOK
  <2>2. o \in Objects
    BY <1>0, <2>1 DEF Objects, Levels
  <2>3. scope' \in Seq(Objects) /\ Depth' = Depth + 1
    BY <1>0, <1>1, <2>2, Pushed DEF ConstructTx
  <2>4. lapses' \in SUBSET Lapses
    BY <1>1 DEF ConstructTx, Lapse, Lapses, TypeInv, TypeOK
  <2>5. Depth' <= MaxDepth
    BY <1>0, <1>1, <2>3 DEF ConstructTx
  <2>6. QED
    BY <1>0, <1>1, <2>1, <2>3, <2>4, <2>5 DEF ConstructTx, TypeInv, TypeOK, Units, Writes
<1>2. ASSUME NEW given \in BOOLEAN, ConstructSync(given)
      PROVE  TypeInv'
  <2> DEFINE o == [kind |-> "sync", db |-> given, unit |-> 0,
                   saved |-> IF given THEN db.sync ELSE "NORMAL"]
  <2>1. o \in Objects /\ db' \in Connections
    BY <1>0, <1>2 DEF ConstructSync, Objects, Levels, Connections
  <2>2. scope' \in Seq(Objects) /\ Depth' \in Nat /\ Depth' <= MaxDepth
    <3>1. CASE scope' = Append(scope, o)
      BY <1>0, <1>2, <2>1, <3>1, Pushed DEF ConstructSync
    <3>2. CASE UNCHANGED scope
      BY <1>0, <3>2 DEF Depth
    <3>3. QED
      BY <1>2, <3>1, <3>2 DEF ConstructSync
  <2>3. QED
    BY <1>0, <1>2, <2>1, <2>2 DEF ConstructSync, TypeInv, TypeOK, Units, Writes
<1>3. ASSUME NEW i \in Positions, NEW given \in BOOLEAN, ResetTx(i, given)
      PROVE  TypeInv'
  <2>1. PICK d \in Release(scope[i], db) :
            \/ given /\ BeginUnit(d)
            \/ ~given /\ db' = d /\ UNCHANGED units
    BY <1>3 DEF ResetTx
  <2>2. units' \in Units /\ db' \in Connections
    <3>1. d \in Connections
      BY <1>0, <2>1, CallTypes
    <3>2. CASE given /\ BeginUnit(d)
      BY <1>0, <3>1, <3>2, CallTypes DEF BeginUnit
    <3>3. CASE db' = d /\ UNCHANGED units
      BY <3>1, <3>3 DEF TypeInv, TypeOK
    <3>4. QED
      BY <2>1, <3>2, <3>3
  <2>3. (IF given THEN units' ELSE 0) \in Units
    BY <1>0, <2>2
  <2>4. scope' \in Seq(Objects) /\ Depth' = Depth
    BY <1>0, <1>3, <2>3, TxChanged DEF ResetTx
  <2>5. lapses' \in SUBSET Lapses /\ asked' \in SUBSET Units
    BY <1>0, <1>3 DEF ResetTx, Lapse, EndFailed, Lapses, Asks, Objects, TypeInv, TypeOK
  <2>6. QED
    BY <1>0, <1>3, <2>2, <2>4, <2>5 DEF ResetTx, TypeInv, TypeOK, Units, Writes
<1>4. ASSUME NEW i \in Positions, NEW given \in BOOLEAN, ResetSync(i, given)
      PROVE  TypeInv'
  <2> DEFINE level == IF scope[i].db THEN scope[i].saved ELSE db.sync
  <2>1. level \in Levels /\ db' \in Connections
    BY <1>0, <1>4 DEF ResetSync, Objects, Levels, Connections
  <2>2. PICK g \in BOOLEAN : scope' = [scope EXCEPT ![i].db = g, ![i].saved = level]
    BY <1>4 DEF ResetSync
  <2>3. scope' \in Seq(Objects) /\ Depth' = Depth
    BY <1>0, <2>1, <2>2, SyncChanged
  <2>4. lapses' \in SUBSET Lapses /\ throwing' \in BOOLEAN
    BY <1>0, <1>4 DEF ResetSync, Lapse, Lapses, TypeInv, TypeOK
  <2>5. QED
    BY <1>0, <1>4, <2>1, <2>3, <2>4 DEF ResetSync, TypeInv, TypeOK, Units, Writes
<1>5. ASSUME NEW i \in Positions, NEW commits \in BOOLEAN, Finish(i, commits)
      PROVE  TypeInv'
  <2>1. db' \in Connections
    BY <1>0, <1>5, CallTypes DEF Finish
  <2>2. scope' \in Seq(Objects) /\ Depth' = Depth
    BY <1>0, <1>5, TxChanged DEF Finish
  <2>3. lapses' \in SUBSET Lapses /\ asked' \in SUBSET Units
    BY <1>0, <1>5 DEF Finish, Lapse, EndFailed, Lapses, Asks, Objects, TypeInv, TypeOK
  <2>4. QED
    BY <1>0, <1>5, <2>1, <2>2, <2>3 DEF Finish, TypeInv, TypeOK, Units, Writes
<1>6. ASSUME NEW i \in Positions, NEW j \in Positions, Assign(i, j)
      PROVE  TypeInv'
  <2>1. scope' \in Seq(Objects) /\ Depth' = Depth
    BY <1>0, <1>6, Changed DEF Assign
  <2>2. lapses' \in SUBSET Lapses
    BY <1>6 DEF Assign, Lapse, Lapses, TypeInv, TypeOK
  <2>3. QED
    BY <1>0, <1>6, <2>1, <2>2 DEF Assign, TypeInv, TypeOK, Units, Writes
<1>7. ASSUME NEW i \in Positions, Copy(i)
      PROVE  TypeInv'
  <2>1. scope' \in Seq(Objects) /\ Depth' = Depth + 1
    BY <1>0, <1>7, Pushed DEF Copy
  <2>2. lapses' \in SUBSET Lapses
    BY <1>7 DEF Copy, Lapse, Lapses, TypeInv, TypeOK
  <2>3. Depth' <= MaxDepth
    BY <1>0, <1>7, <2>1 DEF Copy
  <2>4. QED
    BY <1>0, <1>7, <2>1, <2>2, <2>3 DEF Copy, TypeInv, TypeOK, Units, Writes
<1>8. CASE Destroy
  <2>1. /\ scope' \in Seq(Objects) /\ Depth' = Depth - 1 /\ Depth > 0
        /\ scope[Depth] \in Objects
    BY <1>0, <1>8, Popped DEF Destroy
  <2>2. db' \in Connections
    BY <1>0, <1>8, <2>1, CallTypes DEF Destroy, Objects, Connections
  <2>3. lapses' \in SUBSET Lapses /\ asked' \in SUBSET Units
    BY <1>0, <1>8, <2>1 DEF Destroy, Lapse, EndFailed, Lapses, Asks, Objects, TypeInv, TypeOK
  <2>4. terminated' \in BOOLEAN
    BY <1>0, <1>8 DEF Destroy
  <2>5. QED
    BY <1>0, <1>8, <2>1, <2>2, <2>3, <2>4 DEF Destroy, TypeInv, TypeOK, Units, Writes
<1>9. CASE Write
  <2> DEFINE w == [n |-> Cardinality(made) + 1, unit |-> CurrentUnit]
  <2>1. w \in Writes
    BY <1>0, <1>9, FS_CardinalityType, UnitType DEF Write, Writes, TypeInv
  <2>2. db' \in Connections
    BY <1>0, <1>9, <2>1 DEF Write, Connections
  <2>3. made' = made \cup {w} /\ IsFiniteSet(made')
    BY <1>0, <1>9, FS_AddElement DEF Write
  <2>4. QED
    BY <1>0, <1>9, <2>1, <2>2, <2>3 DEF Write, TypeInv, TypeOK, Depth, Units, Writes
<1>10. CASE WriteFails \/ Throw \/ Catch \/ Terminated \/ UNCHANGED vars
  BY <1>0, <1>10 DEF WriteFails, Throw, Catch, Terminated, vars, Connections, Lapses,
                     TypeInv, TypeOK, Depth, Units, Writes
<1>11. QED
  BY <1>1, <1>2, <1>3, <1>4, <1>5, <1>6, <1>7, <1>8, <1>9, <1>10 DEF Next

\* The variables keep their ranges, however the objects are used.
THEOREM ScopesTypeCorrect == Spec => []TypeOK
<1>1. TypeInv => TypeOK
  BY DEF TypeInv
<1>2. QED
  BY InitType, NextType, <1>1, PTL DEF Spec
-----------------------------------------------------------------------------
(* The flag.                                                               *)

\* A lapse is not forgotten.
LEMMA LapsesStay == [Next]_vars => lapses \subseteq lapses'
BY DEF Next, vars, ConstructTx, ConstructSync, ResetTx, ResetSync, Finish, Assign, Copy,
       Destroy, Write, WriteFails, Throw, Catch, Terminated

\* What BEGIN, END and ROLLBACK, and the release of an object, do to the connection.
LEMMA Released ==
    ASSUME NEW o \in Objects, NEW d \in Connections
    PROVE  /\ Begin(d).inTx /\ ~Begin(d).autoCommit /\ Begin(d).sync = d.sync
           /\ \A x \in End(d) : x.sync = d.sync
           /\ Rollback(d).autoCommit /\ Rollback(d).inTx = d.inTx
           /\ Rollback(d).sync = d.sync
           /\ ~HasTx(o) => Release(o, d) = {d}
           /\ HasTx(o) /\ o.kind = "auto" => Release(o, d) = End(d)
           /\ HasTx(o) /\ o.kind # "auto" => Release(o, d) = {Rollback(d)}
           /\ \A x \in Release(o, d) : x.sync = d.sync
BY DEF End, Commit, Rollback, Begin, Release, Connections, HasTx

\* Only END can fail to end a transaction.
LEMMA ReleaseEnds ==
    ASSUME NEW o \in Objects, NEW d \in Connections, NEW x \in Release(o, d), HasTx(o)
    PROVE  o.kind = "auto" \/ x.autoCommit
BY Released

LEMMA FinishEnds ==
    ASSUME NEW commits \in BOOLEAN, NEW d \in Connections,
           NEW x \in (IF commits THEN End(d) ELSE {Rollback(d)})
    PROVE  commits \/ x.autoCommit
BY DEF Rollback, Connections

\* What every step knows of the state before.
LEMMA Known ==
    ASSUME TypeInv
    PROVE  /\ scope \in Seq(Objects) /\ Depth \in Nat /\ Positions = 1..Depth
           /\ \A i \in Positions : scope[i] \in Objects
           /\ db \in Connections /\ units \in Nat /\ Units = 0..MaxUnits /\ 0 \in Units
           /\ \A d \in Connections : d.autoCommit \in BOOLEAN /\ d.inTx \in BOOLEAN
BY Elements DEF TypeInv, TypeOK, Units, Connections

LEMMA NextFlag == TypeInv /\ FlagSound /\ [Next]_vars => FlagSound'
<1> SUFFICES ASSUME TypeInv, FlagSound, [Next]_vars, "endError" \notin lapses'
             PROVE  db'.autoCommit \/ db'.inTx
  BY DEF FlagSound, Without
<1>0. db.autoCommit \/ db.inTx
  BY LapsesStay DEF FlagSound, Without
<1>1. ASSUME NEW kind \in {"auto", "manual"}, NEW given \in BOOLEAN, ConstructTx(kind, given)
      PROVE  db'.autoCommit \/ db'.inTx
  BY <1>0, <1>1, Known DEF ConstructTx, BeginUnit, Begin, Connections
<1>2. ASSUME NEW given \in BOOLEAN, ConstructSync(given)
      PROVE  db'.autoCommit \/ db'.inTx
  BY <1>0, <1>2, Known DEF ConstructSync, Connections
<1>3. ASSUME NEW i \in Positions, NEW given \in BOOLEAN, ResetTx(i, given)
      PROVE  db'.autoCommit \/ db'.inTx
  <2>1. PICK d \in Release(scope[i], db) :
            /\ \/ given /\ BeginUnit(d)
               \/ ~given /\ db' = d
            /\ ~(HasTx(scope[i]) /\ scope[i].kind = "auto" /\ ~d.autoCommit)
    BY <1>3 DEF ResetTx, EndFailed, Lapse
  <2>2. d.autoCommit \/ d.inTx
    BY <1>0, <2>1, Known, Released, ReleaseEnds
  <2>3. QED
    BY <2>1, <2>2, Known, CallTypes, Released DEF BeginUnit
<1>4. ASSUME NEW i \in Positions, NEW given \in BOOLEAN, ResetSync(i, given)
      PROVE  db'.autoCommit \/ db'.inTx
  BY <1>0, <1>4, Known DEF ResetSync, Connections
<1>5. ASSUME NEW i \in Positions, NEW commits \in BOOLEAN, Finish(i, commits)
      PROVE  db'.autoCommit \/ db'.inTx
  <2>1. PICK x \in (IF commits THEN End(db) ELSE {Rollback(db)}) :
            db' = x /\ ~(commits /\ ~x.autoCommit)
    BY <1>5 DEF Finish, EndFailed, Lapse
  <2>2. QED
    BY <2>1, Known, FinishEnds
<1>6. CASE Destroy
  <2>1. scope[Depth] \in Objects
    BY <1>6, Known DEF Destroy
  <2>2. CASE ~HasSync(scope[Depth])
    <3>1. PICK x \in Release(scope[Depth], db) :
              db' = x /\ ~(HasTx(scope[Depth]) /\ scope[Depth].kind = "auto" /\ ~x.autoCommit)
      BY <1>6, <2>2 DEF Destroy, EndFailed, Lapse
    <3>2. QED
      BY <1>0, <2>1, <3>1, Known, Released, ReleaseEnds
  <2>3. CASE HasSync(scope[Depth])
    BY <1>0, <1>6, <2>3, Known DEF Destroy, Connections
  <2>4. QED
    BY <2>2, <2>3
<1>7. CASE Write \/ WriteFails
  BY <1>0, <1>7, Known DEF Write, WriteFails, Connections
<1>8. CASE UNCHANGED db
  BY <1>0, <1>8
<1>9. QED
  BY <1>1, <1>2, <1>3, <1>4, <1>5, <1>6, <1>7, <1>8
     DEF Next, vars, Assign, Copy, Throw, Catch, Terminated

\* in_transaction is never FALSE within a transaction, unless END has failed.
THEOREM FlagSoundHolds == Spec => []FlagSound
<1>1. Init => FlagSound
  BY DEF Init, FlagSound
<1>2. QED
  BY InitType, NextType, NextFlag, <1>1, PTL DEF Spec

-----------------------------------------------------------------------------
(* No transaction is left open.                                            *)

\* What reset() of a transaction does to the stack,
LEMMA ResetTxStack ==
    ASSUME TypeInv, TypeInv', NEW i \in Positions, NEW given \in BOOLEAN, ResetTx(i, given)
    PROVE  /\ Positions' = Positions /\ Depth' = Depth
           /\ \A j \in Positions \ {i} : scope'[j] = scope[j]
           /\ scope'[i].kind = scope[i].kind /\ scope[i].kind # "sync"
           /\ scope'[i].db = given
           /\ scope'[i].unit = IF given THEN units' ELSE 0
           /\ ~HasSync(scope[i]) /\ ~HasSync(scope'[i])
           /\ HasTx(scope'[i]) <=> given
<1> DEFINE u == IF given THEN units' ELSE 0
           o == [scope[i] EXCEPT !.db = given, !.unit = u]
<1>1. scope[i] \in Objects /\ scope[i].kind # "sync"
  BY Known DEF ResetTx
<1>2. u \in Units
  BY Known DEF TypeInv, TypeOK
<1> HIDE DEF u
<1>3. o \in Objects
  BY <1>1, <1>2 DEF Objects
<1>4. scope' = [scope EXCEPT ![i] = o]
  BY <1>1 DEF ResetTx, Objects, Positions, u
<1> HIDE DEF o
<1>5. /\ Positions' = Positions /\ Depth' = Depth
      /\ \A j \in Positions \ {i} : scope'[j] = scope[j]
      /\ scope'[i] = o
  BY <1>3, <1>4, Known, Changed
<1>6. o.kind = scope[i].kind /\ o.db = given /\ o.unit = u
  BY <1>1 DEF o, Objects
<1>7. QED
  BY <1>1, <1>5, <1>6 DEF u, HasSync, HasTx

\* what reset() of a ScopedSynchronous does,
LEMMA ResetSyncStack ==
    ASSUME TypeInv, NEW i \in Positions, NEW given \in BOOLEAN, ResetSync(i, given)
    PROVE  /\ Positions' = Positions /\ Depth' = Depth
           /\ \A j \in Positions \ {i} : scope'[j] = scope[j]
           /\ ~HasTx(scope[i]) /\ ~HasTx(scope'[i])
           /\ db.autoCommit => (HasSync(scope'[i]) <=> given)
           /\ db.autoCommit =>
                  scope'[i].saved = IF HasSync(scope[i]) THEN scope[i].saved ELSE db.sync
<1> DEFINE level == IF scope[i].db THEN scope[i].saved ELSE db.sync
<1>1. scope[i] \in Objects /\ scope[i].kind = "sync" /\ level \in Levels
  BY Known DEF ResetSync, Objects, Connections
<1> HIDE DEF level
<1>2. PICK g \in BOOLEAN : /\ scope' = [scope EXCEPT ![i].db = g, ![i].saved = level]
                           /\ db.autoCommit => (g <=> given)
  BY DEF ResetSync, level
<1> DEFINE o == [scope[i] EXCEPT !.db = g, !.saved = level]
<1>3. o \in Objects
  BY <1>1 DEF Objects
<1>4. scope' = [scope EXCEPT ![i] = o]
  BY <1>1, <1>2 DEF Objects, Positions
<1> HIDE DEF o
<1>5. /\ Positions' = Positions /\ Depth' = Depth
      /\ \A j \in Positions \ {i} : scope'[j] = scope[j]
      /\ scope'[i] = o
  BY <1>3, <1>4, Known, Changed
<1>6. o.kind = "sync" /\ (o.db <=> g) /\ o.saved = level
  BY <1>1 DEF o, Objects
<1>7. QED
  BY <1>1, <1>2, <1>5, <1>6 DEF level, HasSync, HasTx

\* what end(), commit() and rollback() do,
LEMMA FinishStack ==
    ASSUME TypeInv, NEW i \in Positions, NEW commits \in BOOLEAN, Finish(i, commits)
    PROVE  /\ Positions' = Positions /\ Depth' = Depth
           /\ \A j \in Positions \ {i} : scope'[j] = scope[j]
           /\ HasTx(scope[i]) /\ ~HasTx(scope'[i])
           /\ ~HasSync(scope[i]) /\ ~HasSync(scope'[i])
<1> DEFINE o == [scope[i] EXCEPT !.db = FALSE, !.unit = 0]
<1>1. scope[i] \in Objects /\ HasTx(scope[i])
  BY Known DEF Finish
<1>2. o \in Objects
  BY <1>1, Known DEF Objects
<1>3. scope' = [scope EXCEPT ![i] = o]
  BY <1>1 DEF Finish, Objects, Positions
<1> HIDE DEF o
<1>4. /\ Positions' = Positions /\ Depth' = Depth
      /\ \A j \in Positions \ {i} : scope'[j] = scope[j]
      /\ scope'[i] = o
  BY <1>2, <1>3, Known, Changed
<1>5. ~o.db /\ o.kind = scope[i].kind
  BY <1>1 DEF o, Objects
<1>6. QED
  BY <1>1, <1>4, <1>5 DEF HasSync, HasTx

\* and what the destructors do.
LEMMA DestroyStack ==
    ASSUME TypeInv, Destroy
    PROVE  /\ Positions = 1..Depth /\ Positions' = 1..(Depth - 1)
           /\ Depth' = Depth - 1 /\ Depth \in Positions
           /\ \A i \in Positions' : i \in Positions /\ i # Depth /\ scope'[i] = scope[i]
           /\ \A i \in Positions : i = Depth \/ i \in Positions'
<1>1. /\ Positions = 1..Depth /\ Positions' = 1..(Depth - 1) /\ Depth \in Nat
      /\ Depth' = Depth - 1 /\ Depth > 0
      /\ \A i \in Positions' : scope'[i] = scope[i]
  BY Known, Popped DEF Destroy
<1>2. QED
  BY <1>1

\* What reset() of a transaction does to the connection.
LEMMA ResetTxEffect ==
    ASSUME TypeInv, NEW i \in Positions, NEW given \in BOOLEAN, ResetTx(i, given),
           "endError" \notin lapses'
    PROVE  \E d \in Connections :
               /\ given => BeginUnit(d)
               /\ ~given => db' = d
               /\ HasTx(scope[i]) => d.autoCommit
               /\ ~HasTx(scope[i]) => d = db
               /\ d.sync = db.sync
<1>1. PICK d \in Release(scope[i], db) :
          /\ \/ given /\ BeginUnit(d)
             \/ ~given /\ db' = d
          /\ ~(HasTx(scope[i]) /\ scope[i].kind = "auto" /\ ~d.autoCommit)
  BY DEF ResetTx, EndFailed, Lapse
<1>2. d \in Connections /\ d.sync = db.sync
  BY <1>1, Known, CallTypes, Released
<1>3. /\ HasTx(scope[i]) => d.autoCommit
      /\ ~HasTx(scope[i]) => d = db
  BY <1>1, Known, Released
<1>4. QED
  BY <1>1, <1>2, <1>3

\* What end(), commit() and rollback() do to it,
LEMMA FinishEffect ==
    ASSUME TypeInv, NEW i \in Positions, NEW commits \in BOOLEAN, Finish(i, commits),
           "endError" \notin lapses'
    PROVE  db'.autoCommit /\ db'.sync = db.sync
<1>1. PICK x \in (IF commits THEN End(db) ELSE {Rollback(db)}) :
          db' = x /\ ~(commits /\ ~x.autoCommit)
  BY DEF Finish, EndFailed, Lapse
<1>2. QED
  BY <1>1, Known, FinishEnds, Released

\* and what the destructors do.
LEMMA DestroyEffect ==
    ASSUME TypeInv, Destroy, "endError" \notin lapses'
    PROVE  /\ HasTx(scope[Depth]) => db'.autoCommit /\ db'.sync = db.sync
           /\ ~HasTx(scope[Depth]) => db'.autoCommit = db.autoCommit
           /\ ~HasTx(scope[Depth]) /\ ~HasSync(scope[Depth]) => db' = db
           /\ HasSync(scope[Depth]) /\ db.autoCommit => db'.sync = scope[Depth].saved
           /\ terminated' <=> HasSync(scope[Depth]) /\ ~db.autoCommit
<1>1. scope[Depth] \in Objects
  BY Known DEF Destroy
<1>2. CASE ~HasSync(scope[Depth])
  <2>1. PICK x \in Release(scope[Depth], db) :
            db' = x /\ ~(HasTx(scope[Depth]) /\ scope[Depth].kind = "auto" /\ ~x.autoCommit)
    BY <1>2 DEF Destroy, EndFailed, Lapse
  <2>2. ~terminated'
    BY <1>2 DEF Destroy
  <2>3. QED
    BY <1>1, <1>2, <2>1, <2>2, Known, Released
<1>3. CASE HasSync(scope[Depth])
  <2>1. ~HasTx(scope[Depth])
    BY <1>3 DEF HasTx, HasSync
  <2>2. scope[Depth].saved \in Levels
    BY <1>1 DEF Objects
  <2>3. QED
    BY <1>3, <2>1, <2>2, Known DEF Destroy, Connections
<1>4. QED
  BY <1>2, <1>3

\* An object holds a transaction.
Held == \E i \in Positions : HasTx(scope[i])

LEMMA HeldOpen == Held <=> OpenUnits # {}
BY DEF Held, OpenUnits

\* The kinds of the objects that were there, and of the new one.
LEMMA PushedHas ==
    ASSUME TypeInv, NEW o \in Objects, scope' = Append(scope, o)
    PROVE  /\ Held => Held'
           /\ HasTx(o) => Held'
<1>1. /\ Positions = 1..Depth /\ Positions' = 1..(Depth + 1) /\ Depth \in Nat
      /\ \A i \in Positions : scope'[i] = scope[i]
      /\ scope'[Depth + 1] = o
  BY Known, Pushed
<1>2. Positions \subseteq Positions' /\ Depth + 1 \in Positions'
  BY <1>1
<1>3. QED
  BY <1>1, <1>2 DEF Held

LEMMA NextGuarded == TypeInv /\ TransactionGuarded /\ [Next]_vars => TransactionGuarded'
<1> SUFFICES ASSUME TypeInv, TransactionGuarded, [Next]_vars,
                    "endError" \notin lapses', "copied" \notin lapses'
             PROVE  db'.autoCommit \/ Held'
  <2>1. Held' <=> OpenUnits' # {}
    BY DEF Held, OpenUnits
  <2>2. QED
    BY <2>1 DEF TransactionGuarded, Without
<1>0. TypeInv' /\ lapses \subseteq lapses'
  BY NextType, LapsesStay
<1>a. db.autoCommit \/ Held
  BY <1>0, HeldOpen DEF TransactionGuarded, Without
<1>1. ASSUME NEW kind \in {"auto", "manual"}, NEW given \in BOOLEAN, ConstructTx(kind, given)
      PROVE  db'.autoCommit \/ Held'
  <2> DEFINE o == [kind |-> kind, db |-> given, unit |-> IF given THEN units' ELSE 0,
                   saved |-> "NORMAL"]
  <2>1. o \in Objects
    BY <1>0, Known DEF TypeInv, TypeOK, Objects, Levels
  <2>2. (Held => Held') /\ (HasTx(o) => Held')
    BY <1>1, <2>1, PushedHas DEF ConstructTx
  <2>3. QED
    BY <1>a, <1>1, <2>2 DEF ConstructTx, HasTx
<1>2. ASSUME NEW given \in BOOLEAN, ConstructSync(given)
      PROVE  db'.autoCommit \/ Held'
  <2> DEFINE o == [kind |-> "sync", db |-> given, unit |-> 0,
                   saved |-> IF given THEN db.sync ELSE "NORMAL"]
  <2>1. o \in Objects
    BY Known DEF Objects, Levels, Connections
  <2>2. Held => Held'
    <3>1. CASE scope' = Append(scope, o)
      BY <2>1, <3>1, PushedHas
    <3>2. CASE UNCHANGED scope
      BY <3>2 DEF Held, Positions
    <3>3. QED
      BY <1>2, <3>1, <3>2 DEF ConstructSync
  <2>3. QED
    BY <1>a, <1>2, <2>2, Known DEF ConstructSync, Connections
<1>3. ASSUME NEW i \in Positions, NEW given \in BOOLEAN, ResetTx(i, given)
      PROVE  db'.autoCommit \/ Held'
  <2>1. PICK d \in Connections :
            /\ given => BeginUnit(d)
            /\ ~given => db' = d
            /\ HasTx(scope[i]) => d.autoCommit
            /\ ~HasTx(scope[i]) => d = db
    BY <1>3, ResetTxEffect
  <2>2. given => Held'
    BY <1>0, <1>3, ResetTxStack DEF Held
  <2>3. Held /\ ~HasTx(scope[i]) => Held'
    BY <1>0, <1>3, ResetTxStack DEF Held
  <2>4. QED
    BY <1>a, <2>1, <2>2, <2>3
<1>4. ASSUME NEW i \in Positions, NEW given \in BOOLEAN, ResetSync(i, given)
      PROVE  db'.autoCommit \/ Held'
  <2>1. db'.autoCommit = db.autoCommit
    BY <1>4, Known DEF ResetSync, Connections
  <2>2. Held => Held'
    BY <1>4, ResetSyncStack DEF Held
  <2>3. QED
    BY <1>a, <2>1, <2>2
<1>5. ASSUME NEW i \in Positions, NEW commits \in BOOLEAN, Finish(i, commits)
      PROVE  db'.autoCommit \/ Held'
  BY <1>5, FinishEffect
<1>6. ASSUME NEW i \in Positions, NEW j \in Positions, Assign(i, j)
      PROVE  db'.autoCommit \/ Held'
  <2>1. ~scope[i].db
    BY <1>6 DEF Assign, Lapse
  <2>2. Held => Held'
    <3>1. /\ Positions' = Positions
          /\ \A k \in Positions \ {i} : scope'[k] = scope[k]
      BY <1>6, Known, Changed DEF Assign
    <3>2. ~HasTx(scope[i])
      BY <2>1 DEF HasTx
    <3>3. QED
      BY <3>1, <3>2 DEF Held
  <2>3. QED
    BY <1>a, <1>6, <2>2 DEF Assign
<1>7. ASSUME NEW i \in Positions, Copy(i)
      PROVE  db'.autoCommit \/ Held'
  BY <1>a, <1>7, Known, PushedHas DEF Copy
<1>8. CASE Destroy
  <2>1. Held /\ ~HasTx(scope[Depth]) => Held'
    BY <1>8, DestroyStack DEF Held
  <2>2. QED
    BY <1>a, <1>8, <2>1, DestroyEffect
<1>9. CASE Write
  <2>1. db'.autoCommit = db.autoCommit
    BY <1>9, Known DEF Write, Connections
  <2>2. Held => Held'
    BY <1>9 DEF Write, Held, Positions
  <2>3. QED
    BY <1>a, <2>1, <2>2
<1>10. CASE WriteFails
  BY <1>10, Known DEF WriteFails, Connections
<1>11. CASE UNCHANGED <<db, scope>>
  BY <1>a, <1>11 DEF Held, Positions
<1>12. QED
  BY <1>1, <1>2, <1>3, <1>4, <1>5, <1>6, <1>7, <1>8, <1>9, <1>10, <1>11
     DEF Next, vars, Throw, Catch, Terminated

\* When no object holds a transaction none is open: no order of the calls leaves
\* the file locked, unless an object was copied or END has failed.
THEOREM TransactionGuardedHolds == Spec => []TransactionGuarded
<1>1. Init => TransactionGuarded
  BY DEF Init, TransactionGuarded
<1>2. QED
  BY InitType, NextType, NextGuarded, <1>1, PTL DEF Spec

-----------------------------------------------------------------------------
(* No destructor throws.                                                   *)

\* An object that holds a transaction has no ScopedSynchronous above it.
Innermost ==
    \E i \in Positions :
        /\ HasTx(scope[i])
        /\ \A j \in Positions : i < j => ~HasSync(scope[j])

\* Then the destructor of a ScopedSynchronous meets no transaction.
TermInv ==
    Without({"copied", "crossed", "inside", "endError"}) =>
        ~terminated /\ (db.autoCommit \/ Innermost)

\* A constructor that leaves the innermost transaction innermost, or begins it.
LEMMA PushedInner ==
    ASSUME TypeInv, NEW o \in Objects, scope' = Append(scope, o)
    PROVE  /\ Innermost /\ ~HasSync(o) => Innermost'
           /\ HasTx(o) => Innermost'
<1>1. /\ Positions = 1..Depth /\ Positions' = 1..(Depth + 1) /\ Depth \in Nat
      /\ \A i \in Positions : scope'[i] = scope[i]
      /\ scope'[Depth + 1] = o
  BY Known, Pushed
<1>2. /\ \A i \in Positions : i \in Positions'
      /\ \A i \in Positions' : i \in Positions \/ i = Depth + 1
      /\ Depth + 1 \in Positions' /\ \A i \in Positions' : ~(Depth + 1 < i)
  BY <1>1
<1>3. ASSUME Innermost, ~HasSync(o)
      PROVE  Innermost'
  <2>1. PICK i \in Positions : /\ HasTx(scope[i])
                              /\ \A j \in Positions : i < j => ~HasSync(scope[j])
    BY <1>3 DEF Innermost
  <2>2. \A j \in Positions' : i < j => ~HasSync(scope'[j])
    BY <1>1, <1>2, <1>3, <2>1
  <2>3. QED
    BY <1>1, <1>2, <2>1, <2>2 DEF Innermost
<1>4. HasTx(o) => Innermost'
  BY <1>1, <1>2 DEF Innermost
<1>5. QED
  BY <1>3, <1>4

LEMMA NextTerm == TypeInv /\ TermInv /\ [Next]_vars => TermInv'
<1> SUFFICES ASSUME TypeInv, TermInv, [Next]_vars,
                    lapses' \cap {"copied", "crossed", "inside", "endError"} = {}
             PROVE  ~terminated' /\ (db'.autoCommit \/ Innermost')
  BY DEF TermInv, Without
<1>0. TypeInv' /\ lapses \subseteq lapses' /\ "endError" \notin lapses'
  BY NextType, LapsesStay
<1>a. ~terminated /\ (db.autoCommit \/ Innermost)
  BY <1>0 DEF TermInv, Without
<1>1. ASSUME NEW kind \in {"auto", "manual"}, NEW given \in BOOLEAN, ConstructTx(kind, given)
      PROVE  ~terminated' /\ (db'.autoCommit \/ Innermost')
  <2> DEFINE o == [kind |-> kind, db |-> given, unit |-> IF given THEN units' ELSE 0,
                   saved |-> "NORMAL"]
  <2>1. o \in Objects
    BY <1>0, Known DEF TypeInv, TypeOK, Objects, Levels
  <2>2. (Innermost /\ ~HasSync(o) => Innermost') /\ (HasTx(o) => Innermost')
    BY <1>1, <2>1, PushedInner DEF ConstructTx
  <2>3. QED
    BY <1>a, <1>1, <2>2 DEF ConstructTx, HasTx, HasSync
<1>2. ASSUME NEW given \in BOOLEAN, ConstructSync(given)
      PROVE  ~terminated' /\ (db'.autoCommit \/ Innermost')
  <2> DEFINE o == [kind |-> "sync", db |-> given, unit |-> 0,
                   saved |-> IF given THEN db.sync ELSE "NORMAL"]
  <2>1. o \in Objects
    BY Known DEF Objects, Levels, Connections
  <2>2. db'.autoCommit = db.autoCommit
    BY <1>2, Known DEF ConstructSync, Connections
  <2>3. CASE scope' = Append(scope, o)
    <3>1. Innermost /\ ~given => Innermost'
      BY <2>1, <2>3, PushedInner DEF HasSync
    <3>2. db.autoCommit \/ ~given
      <4>1. scope' # scope
        BY <2>1, <2>3, Known, Pushed DEF Depth
      <4>2. QED
        BY <1>2, <4>1 DEF ConstructSync
    <3>3. QED
      BY <1>a, <1>2, <2>2, <3>1, <3>2 DEF ConstructSync
  <2>4. CASE UNCHANGED scope
    BY <1>a, <1>2, <2>2, <2>4 DEF ConstructSync, Innermost, Positions
  <2>5. QED
    BY <1>2, <2>3, <2>4 DEF ConstructSync
<1>3. ASSUME NEW i \in Positions, NEW given \in BOOLEAN, ResetTx(i, given)
      PROVE  ~terminated' /\ (db'.autoCommit \/ Innermost')
  <2>1. PICK d \in Connections :
            /\ ~given => db' = d
            /\ HasTx(scope[i]) => d.autoCommit
            /\ ~HasTx(scope[i]) => d = db
    BY <1>0, <1>3, ResetTxEffect
  <2>2. given => Innermost'
    <3>1. given => \A j \in Positions : i < j => ~HasSync(scope[j])
      <4>1. given => ~ \E j \in (i + 1)..Depth : HasSync(scope[j])
        BY <1>3 DEF ResetTx, Lapse
      <4>2. \A j \in Positions : i < j => j \in (i + 1)..Depth
        BY Known
      <4>3. QED
        BY <4>1, <4>2
    <3>2. QED
      BY <1>0, <1>3, <3>1, Known, ResetTxStack DEF Innermost
  <2>3. Innermost /\ ~HasTx(scope[i]) => Innermost'
    BY <1>0, <1>3, ResetTxStack DEF Innermost
  <2>4. QED
    BY <1>a, <1>3, <2>1, <2>2, <2>3 DEF ResetTx
<1>4. ASSUME NEW i \in Positions, NEW given \in BOOLEAN, ResetSync(i, given)
      PROVE  ~terminated' /\ (db'.autoCommit \/ Innermost')
  BY <1>a, <1>4, Known DEF ResetSync, Connections
<1>5. ASSUME NEW i \in Positions, NEW commits \in BOOLEAN, Finish(i, commits)
      PROVE  ~terminated' /\ (db'.autoCommit \/ Innermost')
  BY <1>0, <1>a, <1>5, FinishEffect DEF Finish
<1>6. ASSUME NEW i \in Positions, NEW j \in Positions, Assign(i, j)
      PROVE  ~terminated' /\ (db'.autoCommit \/ Innermost')
  <2>1. ~scope[i].db /\ ~scope[j].db
    BY <1>6 DEF Assign, Lapse
  <2>2. /\ Positions' = Positions
        /\ \A k \in Positions \ {i} : scope'[k] = scope[k]
        /\ scope'[i] = scope[j]
    BY <1>6, Known, Changed DEF Assign
  <2>3. ~HasTx(scope[i]) /\ ~HasSync(scope'[i])
    BY <2>1, <2>2 DEF HasTx, HasSync
  <2>4. Innermost => Innermost'
    BY <2>2, <2>3 DEF Innermost
  <2>5. QED
    BY <1>a, <1>6, <2>4 DEF Assign
<1>7. ASSUME NEW i \in Positions, Copy(i)
      PROVE  ~terminated' /\ (db'.autoCommit \/ Innermost')
  <2>1. ~scope[i].db
    BY <1>7 DEF Copy, Lapse
  <2>2. Innermost => Innermost'
    BY <1>7, <2>1, Known, PushedInner DEF Copy, HasSync
  <2>3. QED
    BY <1>a, <1>7, <2>2 DEF Copy
<1>8. CASE Destroy
  <2>1. ~db.autoCommit => ~HasSync(scope[Depth])
    BY <1>a, <1>8, DestroyStack, Known DEF Innermost, HasTx, HasSync
  <2>2. Innermost /\ ~HasTx(scope[Depth]) => Innermost'
    BY <1>8, DestroyStack DEF Innermost
  <2>3. QED
    BY <1>0, <1>a, <1>8, <2>1, <2>2, DestroyEffect
<1>9. CASE Write
  <2>1. db'.autoCommit = db.autoCommit
    BY <1>9, Known DEF Write, Connections
  <2>2. Innermost => Innermost'
    BY <1>9 DEF Write, Innermost, Positions
  <2>3. QED
    BY <1>a, <1>9, <2>1, <2>2 DEF Write
<1>10. CASE WriteFails
  BY <1>a, <1>10, Known DEF WriteFails, Connections
<1>11. CASE UNCHANGED <<db, scope, terminated>>
  BY <1>a, <1>11 DEF Innermost, Positions
<1>12. QED
  BY <1>1, <1>2, <1>3, <1>4, <1>5, <1>6, <1>7, <1>8, <1>9, <1>10, <1>11
     DEF Next, vars, Throw, Catch, Terminated

\* No destructor of a ScopedSynchronous throws, if a transaction begins and ends
\* within its scope or outside of it.
THEOREM NoTerminateHolds == Spec => []NoTerminate
<1>1. Init => TermInv
  BY DEF Init, TermInv
<1>2. TermInv => NoTerminate
  BY DEF TermInv, NoTerminate
<1>3. QED
  BY InitType, NextType, NextTerm, <1>1, <1>2, PTL DEF Spec

-----------------------------------------------------------------------------
(* PRAGMA synchronous.                                                     *)

\* The level that the ScopedSynchronous objects below a position ask for.
Below(k) == IF \E i \in Positions : i < k /\ HasSync(scope[i]) THEN "FULL" ELSE "NORMAL"

\* Each object has saved the level of those below it, and the level is that of
\* all of them.
Nested ==
    /\ \A k \in Positions : HasSync(scope[k]) => scope[k].saved = Below(k)
    /\ db.sync = IF \E i \in Positions : HasSync(scope[i]) THEN "FULL" ELSE "NORMAL"

SyncInv == Without({"copied", "crossed", "inside"}) /\ ~terminated => Nested

\* The calls that leave PRAGMA synchronous alone.
LEMMA SyncKept ==
    ASSUME TypeInv,
           \/ \E kind \in {"auto", "manual"}, given \in BOOLEAN : ConstructTx(kind, given)
           \/ \E i \in Positions, given \in BOOLEAN : ResetTx(i, given)
           \/ \E i \in Positions, commits \in BOOLEAN : Finish(i, commits)
           \/ Destroy /\ ~HasSync(scope[Depth])
           \/ Write \/ WriteFails
    PROVE  db'.sync = db.sync
<1>1. ASSUME NEW kind \in {"auto", "manual"}, NEW given \in BOOLEAN, ConstructTx(kind, given)
      PROVE  db'.sync = db.sync
  BY <1>1, Known DEF ConstructTx, BeginUnit, Begin, Connections
<1>2. ASSUME NEW i \in Positions, NEW given \in BOOLEAN, ResetTx(i, given)
      PROVE  db'.sync = db.sync
  <2>1. PICK d \in Release(scope[i], db) : db' = d \/ db' = Begin(d)
    BY <1>2 DEF ResetTx, BeginUnit
  <2>2. scope[i] \in Objects /\ d \in Connections /\ d.sync = db.sync
    BY <2>1, Known, CallTypes, Released
  <2>3. QED
    BY <2>1, <2>2, Released
<1>3. ASSUME NEW i \in Positions, NEW commits \in BOOLEAN, Finish(i, commits)
      PROVE  db'.sync = db.sync
  <2>1. scope[i] \in Objects /\ (db' \in End(db) \/ db' = Rollback(db))
    BY <1>3, Known DEF Finish
  <2>2. db \in Connections
    BY Known
  <2>3. (\A x \in End(db) : x.sync = db.sync) /\ Rollback(db).sync = db.sync
    BY <2>1, <2>2, Released
  <2>4. QED
    BY <2>1, <2>3
<1>4. CASE Destroy /\ ~HasSync(scope[Depth])
  <2>1. scope[Depth] \in Objects /\ db' \in Release(scope[Depth], db)
    BY <1>4, Known DEF Destroy
  <2>2. QED
    BY <2>1, Known, Released
<1>5. CASE Write \/ WriteFails
  BY <1>5, Known DEF Write, WriteFails, Connections
<1>6. QED
  BY <1>1, <1>2, <1>3, <1>4, <1>5

\* A step that changes neither the level nor a ScopedSynchronous.
LEMMA NestedStays ==
    ASSUME Nested, Positions' = Positions, db'.sync = db.sync,
           \A j \in Positions :
               /\ HasSync(scope'[j]) <=> HasSync(scope[j])
               /\ HasSync(scope[j]) => scope'[j].saved = scope[j].saved
    PROVE  Nested'
<1>1. \A k : Below(k)' = Below(k)
  BY DEF Below
<1>2. QED
  BY <1>1 DEF Nested

\* A constructor: of a ScopedSynchronous with the database, or of another object.
LEMMA PushedNested ==
    ASSUME TypeInv, Nested, NEW o \in Objects, scope' = Append(scope, o),
           HasSync(o) => o.saved = db.sync /\ db'.sync = "FULL",
           ~HasSync(o) => db'.sync = db.sync
    PROVE  Nested'
<1>1. /\ Positions = 1..Depth /\ Positions' = 1..(Depth + 1) /\ Depth \in Nat
      /\ \A i \in Positions : scope'[i] = scope[i]
      /\ scope'[Depth + 1] = o
  BY Known, Pushed
<1>2. /\ \A i \in Positions : i \in Positions' /\ i < Depth + 1 /\ ~(Depth + 1 < i)
      /\ \A i \in Positions' : i \in Positions \/ i = Depth + 1
      /\ Depth + 1 \in Positions' /\ ~(Depth + 1 < Depth + 1)
  BY <1>1
<1>3. \A k \in Positions : Below(k)' = Below(k)
  BY <1>1, <1>2 DEF Below
<1>4. PICK n : n = Depth + 1
  OBVIOUS
<1>5. Below(n)' = db.sync
  BY <1>1, <1>2, <1>4 DEF Below, Nested
<1>6. \A k \in Positions' : HasSync(scope'[k]) => scope'[k].saved = Below(k)'
  BY <1>1, <1>2, <1>3, <1>4, <1>5 DEF Nested
<1>7. db'.sync = IF \E i \in Positions' : HasSync(scope'[i]) THEN "FULL" ELSE "NORMAL"
  BY <1>1, <1>2 DEF Nested
<1>8. QED
  BY <1>6, <1>7 DEF Nested

LEMMA NextSync == TypeInv /\ SyncInv /\ [Next]_vars => SyncInv'
<1> SUFFICES ASSUME TypeInv, SyncInv, [Next]_vars, ~terminated',
                    lapses' \cap {"copied", "crossed", "inside"} = {}
             PROVE  Nested'
  BY DEF SyncInv, Without
<1>0. TypeInv' /\ lapses \subseteq lapses'
  BY NextType, LapsesStay
<1>a. terminated \/ Nested
  BY <1>0 DEF SyncInv, Without
<1>b. ~terminated
  BY Known DEF Next, vars, ConstructTx, ConstructSync, ResetTx, ResetSync, Finish, Assign,
               Copy, Destroy, Write, WriteFails, Throw, Catch, Terminated, Working
<1>c. Nested
  BY <1>a, <1>b
<1>1. ASSUME NEW kind \in {"auto", "manual"}, NEW given \in BOOLEAN, ConstructTx(kind, given)
      PROVE  Nested'
  <2> DEFINE o == [kind |-> kind, db |-> given, unit |-> IF given THEN units' ELSE 0,
                   saved |-> "NORMAL"]
  <2>1. o \in Objects /\ ~HasSync(o)
    BY <1>0, Known DEF TypeInv, TypeOK, Objects, Levels, HasSync
  <2>2. db'.sync = db.sync /\ scope' = Append(scope, o)
    BY <1>1, SyncKept DEF ConstructTx
  <2> HIDE DEF o
  <2>3. QED
    BY <1>c, <2>1, <2>2, PushedNested
<1>2. ASSUME NEW given \in BOOLEAN, ConstructSync(given)
      PROVE  Nested'
  <2> DEFINE o == [kind |-> "sync", db |-> given, unit |-> 0,
                   saved |-> IF given THEN db.sync ELSE "NORMAL"]
  <2>1. o \in Objects /\ (HasSync(o) <=> given) /\ (given => o.saved = db.sync)
    BY Known DEF Objects, Levels, Connections, HasSync
  <2>2. CASE scope' = Append(scope, o)
    <3>1. scope' # scope
      BY <2>1, <2>2, Known, Pushed DEF Depth
    <3>2. db' = IF given THEN [db EXCEPT !.sync = "FULL"] ELSE db
      BY <1>2, <3>1 DEF ConstructSync
    <3>3. (given => db'.sync = "FULL") /\ (~given => db'.sync = db.sync)
      BY <3>2, Known DEF Connections
    <3> HIDE DEF o
    <3>4. QED
      BY <1>c, <2>1, <2>2, <3>3, PushedNested
  <2>3. CASE UNCHANGED <<db, scope>>
    BY <1>c, <2>3 DEF Nested, Below, Positions
  <2>4. QED
    BY <1>2, <2>2, <2>3 DEF ConstructSync
<1>3. ASSUME NEW i \in Positions, NEW given \in BOOLEAN, ResetTx(i, given)
      PROVE  Nested'
  BY <1>0, <1>3, <1>c, SyncKept, ResetTxStack, NestedStays
<1>4. ASSUME NEW i \in Positions, NEW given \in BOOLEAN, ResetSync(i, given)
      PROVE  Nested'
  <2>1. db.autoCommit
    BY <1>4 DEF ResetSync
  <2>2. \A j \in Positions : i < j => ~HasSync(scope[j])
    <3>1. ~ \E j \in (i + 1)..Depth : HasSync(scope[j])
      BY <1>4, <2>1 DEF ResetSync, Lapse
    <3>2. \A j \in Positions : i < j => j \in (i + 1)..Depth
      BY Known
    <3>3. QED
      BY <3>1, <3>2
  <2>3. /\ Positions' = Positions
        /\ \A j \in Positions \ {i} : scope'[j] = scope[j]
        /\ HasSync(scope'[i]) <=> given
        /\ scope'[i].saved = IF HasSync(scope[i]) THEN scope[i].saved ELSE db.sync
    BY <1>4, <2>1, ResetSyncStack
  <2>4. scope[i] \in Objects /\ scope[i].kind = "sync" /\ Positions = 1..Depth /\ Depth \in Nat
    BY <1>4, Known DEF ResetSync
  <2>5. \A j \in Positions : j < i \/ j = i \/ i < j
    BY <2>4
  <2>6. \A j \in Positions : ~(i < j) => Below(j)' = Below(j)
    BY <2>3, <2>4 DEF Below
  <2>7. Below(i) = IF HasSync(scope[i]) THEN scope[i].saved ELSE db.sync
    BY <1>c, <2>2, <2>5 DEF Nested, Below
  <2>8. db'.sync = IF given THEN "FULL" ELSE Below(i)
    <3>1. db' = [db EXCEPT !.sync = IF given THEN "FULL"
                     ELSE IF scope[i].db THEN scope[i].saved ELSE db.sync]
      BY <1>4, <2>1 DEF ResetSync
    <3>2. HasSync(scope[i]) <=> scope[i].db
      BY <2>4 DEF HasSync, Objects
    <3>3. QED
      BY <2>7, <3>1, <3>2, Known DEF Connections
  <2>9. \A k \in Positions' : HasSync(scope'[k]) => scope'[k].saved = Below(k)'
    BY <1>c, <2>2, <2>3, <2>4, <2>5, <2>6, <2>7 DEF Nested
  <2>10. db'.sync = IF \E j \in Positions' : HasSync(scope'[j]) THEN "FULL" ELSE "NORMAL"
    BY <2>2, <2>3, <2>4, <2>5, <2>8 DEF Below
  <2>11. QED
    BY <2>9, <2>10 DEF Nested
<1>5. ASSUME NEW i \in Positions, NEW commits \in BOOLEAN, Finish(i, commits)
      PROVE  Nested'
  BY <1>5, <1>c, SyncKept, FinishStack, NestedStays
<1>6. ASSUME NEW i \in Positions, NEW j \in Positions, Assign(i, j)
      PROVE  Nested'
  <2>1. ~scope[i].db /\ ~scope[j].db
    BY <1>6 DEF Assign, Lapse
  <2>2. /\ Positions' = Positions /\ db' = db
        /\ \A k \in Positions \ {i} : scope'[k] = scope[k]
        /\ scope'[i] = scope[j]
    BY <1>6, Known, Changed DEF Assign
  <2>3. ~HasSync(scope[i]) /\ ~HasSync(scope'[i])
    BY <2>1, <2>2 DEF HasSync
  <2>4. QED
    BY <1>c, <2>2, <2>3, NestedStays
<1>7. ASSUME NEW i \in Positions, Copy(i)
      PROVE  Nested'
  <2>1. ~HasSync(scope[i])
    BY <1>7 DEF Copy, Lapse, HasSync
  <2>2. QED
    BY <1>7, <1>c, <2>1, Known, PushedNested DEF Copy
<1>8. CASE Destroy
  <2>1. /\ Positions = 1..Depth /\ Positions' = 1..(Depth - 1) /\ Depth \in Nat
        /\ Depth \in Positions
        /\ \A i \in Positions' : i \in Positions /\ scope'[i] = scope[i] /\ i < Depth
        /\ \A i \in Positions : i = Depth \/ i \in Positions'
    BY <1>8, DestroyStack, Known
  <2>2. \A k \in Positions' : Below(k)' = Below(k)
    BY <2>1 DEF Below
  <2>3. \A k \in Positions' : HasSync(scope'[k]) => scope'[k].saved = Below(k)'
    BY <1>c, <2>1, <2>2 DEF Nested
  <2>4. db'.sync = IF \E i \in Positions' : HasSync(scope'[i]) THEN "FULL" ELSE "NORMAL"
    <3>1. CASE HasSync(scope[Depth])
      <4>1. db' = [db EXCEPT !.sync = scope[Depth].saved]
        BY <1>8, <3>1 DEF Destroy
      <4>2. db'.sync = Below(Depth)
        BY <1>c, <2>1, <3>1, <4>1, Known DEF Connections, Nested
      <4>3. QED
        BY <2>1, <4>2 DEF Below
    <3>2. CASE ~HasSync(scope[Depth])
      <4>1. db'.sync = db.sync
        BY <1>8, <3>2, SyncKept
      <4>2. QED
        BY <1>c, <2>1, <3>2, <4>1 DEF Nested
    <3>3. QED
      BY <3>1, <3>2
  <2>5. QED
    BY <2>3, <2>4 DEF Nested
<1>9. CASE Write \/ WriteFails
  <2>1. UNCHANGED scope /\ db'.sync = db.sync
    BY <1>9, SyncKept DEF Write, WriteFails
  <2>2. QED
    BY <1>c, <2>1 DEF Nested, Below, Positions
<1>10. CASE UNCHANGED <<db, scope>>
  BY <1>c, <1>10 DEF Nested, Below, Positions
<1>11. QED
  BY <1>1, <1>2, <1>3, <1>4, <1>5, <1>6, <1>7, <1>8, <1>9, <1>10
     DEF Next, vars, Throw, Catch, Terminated

\* PRAGMA synchronous is FULL while a ScopedSynchronous holds the database, and
\* put back after the last one, however deep they are nested.
THEOREM SyncScopedHolds == Spec => []SyncScoped
<1>1. Init => SyncInv
  <2> SUFFICES ASSUME Init
               PROVE  Nested
    BY DEF SyncInv
  <2>1. Positions = {}
    BY DEF Init, Positions
  <2>2. QED
    BY <2>1 DEF Init, Nested
<1>2. SyncInv => SyncScoped
  BY DEF SyncInv, SyncScoped, Nested
<1>3. QED
  BY InitType, NextType, NextSync, <1>1, <1>2, PTL DEF Spec

-----------------------------------------------------------------------------
(* All or nothing.                                                         *)

\* The writes in the transaction and in the file are those that the open
\* transactions, and the ones that were to be committed, account for.
Ledger(d, open, ask, us, ws) ==
    /\ d.autoCommit <=> open = {}
    /\ open \subseteq 1..us /\ ask \subseteq 1..us /\ open \cap ask = {}
    /\ d.pending \subseteq ws /\ d.file \subseteq ws
    /\ \A w \in ws :
           /\ w.unit <= us
           /\ w \in d.pending <=> w.unit \in open
           /\ w \in d.file <=> w.unit \in (ask \cup {0}) \ open

\* One object holds the transaction.
OneTx == \A i, j \in Positions : HasTx(scope[i]) /\ HasTx(scope[j]) => i = j

AtomInv ==
    Without({"nested", "copied", "endError", "ioerr"}) =>
        OneTx /\ Ledger(db, OpenUnits, asked, units, made)

LEMMA LedgerBegin ==
    ASSUME NEW d \in Connections, NEW ask, NEW us \in Nat, NEW ws \in SUBSET Writes,
           Ledger(d, {}, ask, us, ws)
    PROVE  Ledger(Begin(d), {us + 1}, ask, us + 1, ws)
BY DEF Ledger, Begin, Connections, Writes, Units

LEMMA LedgerCommit ==
    ASSUME NEW d \in Connections, NEW u, NEW ask, NEW us \in Nat, NEW ws \in SUBSET Writes,
           Ledger(d, {u}, ask, us, ws)
    PROVE  Ledger(Commit(d), {}, ask \cup {u}, us, ws)
BY DEF Ledger, Commit, Connections, Writes, Units

LEMMA LedgerRollback ==
    ASSUME NEW d \in Connections, NEW u, NEW ask, NEW us \in Nat, NEW ws \in SUBSET Writes,
           Ledger(d, {u}, ask, us, ws)
    PROVE  Ledger(Rollback(d), {}, ask, us, ws)
BY DEF Ledger, Rollback, Connections, Writes, Units

\* END commits, unless it fails.
LEMMA LedgerEnd ==
    ASSUME NEW d \in Connections, NEW u, NEW ask, NEW us \in Nat, NEW ws \in SUBSET Writes,
           Ledger(d, {u}, ask, us, ws), NEW x \in End(d), x.autoCommit
    PROVE  x = Commit(d)
BY DEF Ledger, End, Connections

\* A write joins the open transaction, or is one of its own.
LEMMA LedgerWrite ==
    ASSUME NEW d \in Connections, NEW open, NEW ask, NEW us \in Nat,
           NEW ws \in SUBSET Writes, NEW w \in Writes, Ledger(d, open, ask, us, ws),
           open = {} => w.unit = 0,
           open # {} => w.unit \in open
    PROVE  /\ open = {} =>
                  Ledger([d EXCEPT !.file = @ \cup {w}], open, ask, us, ws \cup {w})
           /\ open # {} =>
                  Ledger([d EXCEPT !.pending = @ \cup {w}], open, ask, us, ws \cup {w})
<1>1. w \in ws \/ (w \notin d.pending /\ w \notin d.file)
  BY DEF Ledger
<1>2. w.unit \in Nat /\ w.unit <= us
  BY DEF Ledger, Writes, Units
<1>3. CASE open = {}
  <2> DEFINE e == [d EXCEPT !.file = @ \cup {w}]
  <2>1. e.autoCommit = d.autoCommit /\ e.pending = d.pending /\ e.file = d.file \cup {w}
    BY DEF Connections
  <2> HIDE DEF e
  <2>2. Ledger(e, open, ask, us, ws \cup {w})
    BY <1>1, <1>2, <1>3, <2>1 DEF Ledger
  <2>3. QED
    BY <1>3, <2>2 DEF e
<1>4. CASE open # {}
  <2> DEFINE e == [d EXCEPT !.pending = @ \cup {w}]
  <2>1. e.autoCommit = d.autoCommit /\ e.file = d.file /\ e.pending = d.pending \cup {w}
    BY DEF Connections
  <2> HIDE DEF e
  <2>2. w.unit \notin (ask \cup {0}) \ open
    BY <1>4
  <2>3. Ledger(e, open, ask, us, ws \cup {w})
    BY <1>1, <1>2, <1>4, <2>1, <2>2 DEF Ledger
  <2>4. QED
    BY <1>4, <2>3 DEF e
<1>5. QED
  BY <1>3, <1>4

\* The transaction of a write is an open one, if there is one.
LEMMA CurrentOpen ==
    TypeOK => IF OpenUnits = {} THEN CurrentUnit = 0 ELSE CurrentUnit \in OpenUnits
<1> SUFFICES ASSUME TypeOK
             PROVE  IF OpenUnits = {} THEN CurrentUnit = 0 ELSE CurrentUnit \in OpenUnits
  OBVIOUS
<1> DEFINE open == {i \in Positions : HasTx(scope[i])}
<1>1. CASE open = {}
  BY <1>1 DEF CurrentUnit, OpenUnits
<1>2. CASE open # {}
  <2>1. Depth \in Nat /\ open \in SUBSET (1..Depth)
    BY Elements DEF TypeOK
  <2>2. \E i \in open : \A j \in open : j <= i
    <3> HIDE DEF open
    <3>1. QED
      BY <1>2, <2>1, LastExists
  <2>3. (CHOOSE i \in open : \A j \in open : j <= i) \in open
    BY <2>2
  <2>4. QED
    BY <1>2, <2>3 DEF CurrentUnit, OpenUnits
<1>3. QED
  BY <1>1, <1>2

\* The open transactions.
LEMMA OpenOne ==
    ASSUME OneTx, NEW i \in Positions, HasTx(scope[i])
    PROVE  OpenUnits = {scope[i].unit}
BY DEF OneTx, OpenUnits
\* What a step makes of the open transactions: a constructor,
LEMMA PushedUnits ==
    ASSUME TypeInv, OneTx, NEW o \in Objects, scope' = Append(scope, o),
           HasTx(o) => OpenUnits = {}
    PROVE  OneTx' /\ OpenUnits' = IF HasTx(o) THEN {o.unit} ELSE OpenUnits
<1>1. /\ Positions = 1..Depth /\ Positions' = 1..(Depth + 1) /\ Depth \in Nat
      /\ \A i \in Positions : scope'[i] = scope[i]
      /\ scope'[Depth + 1] = o
  BY Known, Pushed
<1>2. /\ \A i \in Positions : i \in Positions'
      /\ \A i \in Positions' : i \in Positions \/ i = Depth + 1
      /\ Depth + 1 \in Positions'
  BY <1>1
<1>3. HasTx(o) => \A i \in Positions : ~HasTx(scope[i])
  BY DEF OpenUnits
<1>4. OneTx'
  <2> SUFFICES ASSUME NEW i \in Positions', NEW j \in Positions',
                      HasTx(scope'[i]), HasTx(scope'[j])
               PROVE  i = j
    BY DEF OneTx
  <2>1. i \in Positions => ~HasTx(o) /\ HasTx(scope[i])
    BY <1>1, <1>3
  <2>2. j \in Positions => ~HasTx(o) /\ HasTx(scope[j])
    BY <1>1, <1>3
  <2>3. QED
    BY <1>1, <1>2, <2>1, <2>2 DEF OneTx
<1>5. OpenUnits' = IF HasTx(o) THEN {o.unit} ELSE OpenUnits
  <2>1. CASE HasTx(o)
    <3>1. {i \in Positions' : HasTx(scope'[i])} = {Depth + 1}
      BY <1>1, <1>2, <1>3, <2>1
    <3>2. QED
      BY <1>1, <2>1, <3>1 DEF OpenUnits
  <2>2. CASE ~HasTx(o)
    <3>1. {i \in Positions' : HasTx(scope'[i])} = {i \in Positions : HasTx(scope[i])}
      BY <1>1, <1>2, <2>2
    <3>2. QED
      BY <1>1, <2>2, <3>1 DEF OpenUnits
  <2>3. QED
    BY <2>1, <2>2
<1>6. QED
  BY <1>4, <1>5

\* a call of the only object that has a transaction before or after,
LEMMA ChangedUnits ==
    ASSUME OneTx, NEW i \in Positions, HasTx(scope[i]) \/ OpenUnits = {},
           Positions' = Positions, \A j \in Positions \ {i} : scope'[j] = scope[j]
    PROVE  /\ OneTx' /\ OpenUnits' = IF HasTx(scope'[i]) THEN {scope'[i].unit} ELSE {}
<1>1. \A j \in Positions \ {i} : ~HasTx(scope[j])
  BY DEF OneTx, OpenUnits
<1>2. \A j \in Positions' : HasTx(scope'[j]) => j = i
  BY <1>1
<1>3. QED
  BY <1>2 DEF OneTx, OpenUnits

\* and one of any other.
LEMMA KeptUnits ==
    ASSUME OneTx, NEW i \in Positions, ~HasTx(scope[i]), ~HasTx(scope'[i]),
           Positions' = Positions, \A j \in Positions \ {i} : scope'[j] = scope[j]
    PROVE  OneTx' /\ OpenUnits' = OpenUnits
<1>1. \A j \in Positions : HasTx(scope'[j]) <=> HasTx(scope[j])
  OBVIOUS
<1>2. \A j \in Positions : HasTx(scope[j]) => scope'[j] = scope[j]
  OBVIOUS
<1>3. QED
  BY <1>1, <1>2 DEF OneTx, OpenUnits

\* The release of an object that holds the transaction.
LEMMA LedgerRelease ==
    ASSUME NEW o \in Objects, NEW d \in Connections, NEW ask, NEW us \in Nat,
           NEW ws \in SUBSET Writes, Ledger(d, {o.unit}, ask, us, ws), HasTx(o),
           NEW x \in Release(o, d), x.autoCommit
    PROVE  Ledger(x, {}, ask \cup {u \in {o.unit} : o.kind = "auto"}, us, ws)
<1>1. CASE o.kind = "auto"
  <2>1. x = Commit(d)
    BY <1>1, LedgerEnd, Released
  <2>2. {u \in {o.unit} : o.kind = "auto"} = {o.unit}
    BY <1>1
  <2>3. QED
    BY <2>1, <2>2, LedgerCommit
<1>2. CASE o.kind # "auto"
  <2>1. x = Rollback(d)
    BY <1>2, Released
  <2>2. ask \cup {u \in {o.unit} : o.kind = "auto"} = ask
    BY <1>2
  <2>3. QED
    BY <2>1, <2>2, LedgerRollback
<1>3. QED
  BY <1>1, <1>2

LEMMA NextAtom == TypeInv /\ AtomInv /\ [Next]_vars => AtomInv'
<1> SUFFICES ASSUME TypeInv, AtomInv, [Next]_vars,
                    lapses' \cap {"nested", "copied", "endError", "ioerr"} = {}
             PROVE  OneTx' /\ Ledger(db', OpenUnits', asked', units', made')
  BY DEF AtomInv, Without
<1>0. TypeInv' /\ lapses \subseteq lapses' /\ "endError" \notin lapses' /\ made \in SUBSET Writes
  BY NextType, LapsesStay DEF TypeInv, TypeOK
<1>a. OneTx /\ Ledger(db, OpenUnits, asked, units, made)
  BY <1>0 DEF AtomInv, Without
<1>1. ASSUME NEW kind \in {"auto", "manual"}, NEW given \in BOOLEAN, ConstructTx(kind, given)
      PROVE  OneTx' /\ Ledger(db', OpenUnits', asked', units', made')
  <2> DEFINE o == [kind |-> kind, db |-> given, unit |-> IF given THEN units' ELSE 0,
                   saved |-> "NORMAL"]
  <2>1. o \in Objects /\ (HasTx(o) <=> given) /\ (given => o.unit = units')
    BY <1>0, Known DEF TypeInv, TypeOK, Objects, Levels, HasTx
  <2>2. scope' = Append(scope, o) /\ UNCHANGED <<asked, made>>
    BY <1>1 DEF ConstructTx
  <2>3. given => OpenUnits = {}
    BY <1>1 DEF ConstructTx, Lapse, OpenUnits
  <2> HIDE DEF o
  <2>4. OneTx' /\ OpenUnits' = IF given THEN {units'} ELSE OpenUnits
    BY <1>a, <2>1, <2>2, <2>3, PushedUnits
  <2>5. CASE given
    <3>1. db' = Begin(db) /\ units' = units + 1
      BY <1>1, <2>5 DEF ConstructTx, BeginUnit
    <3>2. Ledger(Begin(db), {units + 1}, asked, units + 1, made)
      BY <1>0, <1>a, <2>3, <2>5, Known, LedgerBegin
    <3>3. QED
      BY <2>2, <2>4, <2>5, <3>1, <3>2
  <2>6. CASE ~given
    BY <1>1, <1>a, <2>2, <2>4, <2>6 DEF ConstructTx
  <2>7. QED
    BY <2>5, <2>6
<1>2. ASSUME NEW given \in BOOLEAN, ConstructSync(given)
      PROVE  OneTx' /\ Ledger(db', OpenUnits', asked', units', made')
  <2> DEFINE o == [kind |-> "sync", db |-> given, unit |-> 0,
                   saved |-> IF given THEN db.sync ELSE "NORMAL"]
  <2>1. o \in Objects /\ ~HasTx(o)
    BY Known DEF Objects, Levels, Connections, HasTx
  <2>2. /\ UNCHANGED <<asked, made, units>>
        /\ db'.autoCommit = db.autoCommit /\ db'.pending = db.pending /\ db'.file = db.file
    BY <1>2, Known DEF ConstructSync, Connections
  <2>3. scope' = Append(scope, o) \/ UNCHANGED scope
    BY <1>2 DEF ConstructSync
  <2> HIDE DEF o
  <2>4. OneTx' /\ OpenUnits' = OpenUnits
    <3>1. CASE scope' = Append(scope, o)
      BY <1>a, <2>1, <3>1, PushedUnits
    <3>2. CASE UNCHANGED scope
      BY <1>a, <3>2 DEF OneTx, OpenUnits, Positions
    <3>3. QED
      BY <2>3, <3>1, <3>2
  <2>5. QED
    BY <1>a, <2>2, <2>4 DEF Ledger
<1>3. ASSUME NEW i \in Positions, NEW given \in BOOLEAN, ResetTx(i, given)
      PROVE  OneTx' /\ Ledger(db', OpenUnits', asked', units', made')
  <2>1. PICK d \in Release(scope[i], db) :
            /\ \/ given /\ BeginUnit(d)
               \/ ~given /\ db' = d /\ UNCHANGED units
            /\ ~(HasTx(scope[i]) /\ scope[i].kind = "auto" /\ ~d.autoCommit)
    BY <1>3 DEF ResetTx, EndFailed, Lapse
  <2>2. scope[i] \in Objects /\ d \in Connections /\ UNCHANGED made
    BY <1>3, <2>1, Known, CallTypes DEF ResetTx
  <2>3. given => \A j \in Positions \ {i} : ~HasTx(scope[j])
    BY <1>3 DEF ResetTx, Lapse
  <2>4. asked' = asked \cup {u \in {scope[i].unit} : HasTx(scope[i]) /\ scope[i].kind = "auto"}
    BY <1>3 DEF ResetTx, Asks
  <2>5. CASE HasTx(scope[i]) \/ given
    <3>1. Ledger(d, {}, asked', units, made)
      <4>1. CASE HasTx(scope[i])
        <5>1. Ledger(db, {scope[i].unit}, asked, units, made)
          BY <1>a, <4>1, OpenOne
        <5>2. d.autoCommit
          BY <2>1, <2>2, <4>1, Known, ReleaseEnds
        <5>3. asked' = asked \cup {u \in {scope[i].unit} : scope[i].kind = "auto"}
          BY <2>4, <4>1
        <5>4. QED
          BY <1>0, <2>1, <2>2, <4>1, <5>1, <5>2, <5>3, Known, LedgerRelease
      <4>2. CASE ~HasTx(scope[i])
        <5>1. OpenUnits = {}
          BY <2>3, <2>5, <4>2 DEF OpenUnits
        <5>2. d = db /\ asked' = asked
          BY <2>1, <2>2, <2>4, <4>2, Known, Released
        <5>3. QED
          BY <1>a, <5>1, <5>2
      <4>3. QED
        BY <4>1, <4>2
    <3>2. HasTx(scope[i]) \/ OpenUnits = {}
      BY <2>3, <2>5 DEF OpenUnits
    <3>3. OneTx' /\ OpenUnits' = IF given THEN {units'} ELSE {}
      BY <1>0, <1>3, <1>a, <3>2, ResetTxStack, ChangedUnits
    <3>4. CASE given
      <4>1. db' = Begin(d) /\ units' = units + 1
        BY <2>1, <3>4 DEF BeginUnit
      <4>2. Ledger(Begin(d), {units + 1}, asked', units + 1, made)
        BY <1>0, <2>2, <3>1, Known, LedgerBegin
      <4>3. QED
        BY <2>2, <3>3, <3>4, <4>1, <4>2
    <3>5. CASE ~given
      BY <2>1, <2>2, <3>1, <3>3, <3>5
    <3>6. QED
      BY <3>4, <3>5
  <2>6. CASE ~HasTx(scope[i]) /\ ~given
    <3>1. OneTx' /\ OpenUnits' = OpenUnits
      BY <1>0, <1>3, <1>a, <2>6, ResetTxStack, KeptUnits
    <3>2. d = db /\ asked' = asked
      BY <2>1, <2>2, <2>4, <2>6, Known, Released
    <3>3. QED
      BY <1>a, <2>1, <2>2, <2>6, <3>1, <3>2
  <2>7. QED
    BY <2>5, <2>6
<1>4. ASSUME NEW i \in Positions, NEW given \in BOOLEAN, ResetSync(i, given)
      PROVE  OneTx' /\ Ledger(db', OpenUnits', asked', units', made')
  <2>1. OneTx' /\ OpenUnits' = OpenUnits
    BY <1>4, <1>a, ResetSyncStack, KeptUnits
  <2>2. /\ UNCHANGED <<asked, made, units>>
        /\ db'.autoCommit = db.autoCommit /\ db'.pending = db.pending /\ db'.file = db.file
    BY <1>4, Known DEF ResetSync, Connections
  <2>3. QED
    BY <1>a, <2>1, <2>2 DEF Ledger
<1>5. ASSUME NEW i \in Positions, NEW commits \in BOOLEAN, Finish(i, commits)
      PROVE  OneTx' /\ Ledger(db', OpenUnits', asked', units', made')
  <2>1. PICK x \in (IF commits THEN End(db) ELSE {Rollback(db)}) :
            db' = x /\ ~(commits /\ ~x.autoCommit)
    BY <1>5 DEF Finish, EndFailed, Lapse
  <2>2. HasTx(scope[i]) /\ UNCHANGED <<made, units>>
    BY <1>5 DEF Finish
  <2>3. OneTx' /\ OpenUnits' = {}
    BY <1>5, <1>a, <2>2, FinishStack, ChangedUnits
  <2>4. Ledger(db, {scope[i].unit}, asked, units, made)
    BY <1>a, <2>2, OpenOne
  <2>5. CASE commits
    <3>1. db' = Commit(db)
      BY <1>0, <2>1, <2>4, <2>5, Known, LedgerEnd
    <3>2. asked' = asked \cup {scope[i].unit}
      BY <1>5, <2>2, <2>5 DEF Finish, Asks
    <3>3. QED
      BY <1>0, <2>2, <2>3, <2>4, <3>1, <3>2, Known, LedgerCommit
  <2>6. CASE ~commits
    <3>1. db' = Rollback(db)
      BY <2>1, <2>6
    <3>2. asked' = asked
      BY <1>5, <2>6 DEF Finish, Asks
    <3>3. QED
      BY <1>0, <2>2, <2>3, <2>4, <3>1, <3>2, Known, LedgerRollback
  <2>7. QED
    BY <2>5, <2>6
<1>6. ASSUME NEW i \in Positions, NEW j \in Positions, Assign(i, j)
      PROVE  OneTx' /\ Ledger(db', OpenUnits', asked', units', made')
  <2>1. ~scope[i].db /\ ~scope[j].db
    BY <1>6 DEF Assign, Lapse
  <2>2. /\ Positions' = Positions
        /\ \A k \in Positions \ {i} : scope'[k] = scope[k]
        /\ scope'[i] = scope[j]
    BY <1>6, Known, Changed DEF Assign
  <2>3. OneTx' /\ OpenUnits' = OpenUnits
    BY <1>a, <2>1, <2>2, KeptUnits DEF HasTx
  <2>4. QED
    BY <1>6, <1>a, <2>3 DEF Assign
<1>7. ASSUME NEW i \in Positions, Copy(i)
      PROVE  OneTx' /\ Ledger(db', OpenUnits', asked', units', made')
  <2>1. ~HasTx(scope[i])
    BY <1>7 DEF Copy, Lapse, HasTx
  <2>2. OneTx' /\ OpenUnits' = OpenUnits
    BY <1>7, <1>a, <2>1, Known, PushedUnits DEF Copy
  <2>3. QED
    BY <1>7, <1>a, <2>2 DEF Copy
<1>8. CASE Destroy
  <2> DEFINE o == scope[Depth]
  <2>1. /\ o \in Objects /\ Depth \in Positions /\ UNCHANGED <<made, units>>
        /\ \A i \in Positions' : i \in Positions /\ scope'[i] = scope[i] /\ i # Depth
        /\ \A i \in Positions : i = Depth \/ i \in Positions'
    BY <1>8, DestroyStack, Known DEF Destroy
  <2>2. CASE HasTx(o)
    <3>1. PICK x \in Release(o, db) :
              /\ db' = x /\ ~(HasTx(o) /\ o.kind = "auto" /\ ~x.autoCommit)
              /\ Asks(o, o.kind = "auto")
      BY <1>8, <2>2 DEF Destroy, EndFailed, Lapse, HasSync, HasTx
    <3>2. OneTx' /\ OpenUnits' = {}
      BY <1>a, <2>1, <2>2 DEF OneTx, OpenUnits
    <3>3. Ledger(db, {o.unit}, asked, units, made)
      BY <1>a, <2>1, <2>2, OpenOne
    <3>4. x.autoCommit
      BY <2>1, <2>2, <3>1, Known, ReleaseEnds
    <3>5. asked' = asked \cup {u \in {o.unit} : o.kind = "auto"}
      BY <2>2, <3>1 DEF Asks
    <3> HIDE DEF o
    <3>6. Ledger(x, {}, asked', units, made)
      BY <1>0, <2>1, <2>2, <3>1, <3>3, <3>4, <3>5, Known, LedgerRelease
    <3>7. QED
      BY <2>1, <3>1, <3>2, <3>6
  <2>3. CASE ~HasTx(o)
    <3>1. OneTx'
      BY <1>a, <2>1 DEF OneTx
    <3>2. OpenUnits' = OpenUnits
      BY <2>1, <2>3 DEF OpenUnits
    <3>3. asked' = asked
      BY <1>8, <2>3 DEF Destroy, Asks
    <3>4. db'.autoCommit = db.autoCommit /\ db'.pending = db.pending /\ db'.file = db.file
      <4>1. CASE HasSync(o)
        BY <1>8, <4>1, Known DEF Destroy, Connections
      <4>2. CASE ~HasSync(o)
        BY <1>0, <1>8, <2>3, <4>2, DestroyEffect
      <4>3. QED
        BY <4>1, <4>2
    <3>5. QED
      BY <1>a, <2>1, <3>1, <3>2, <3>3, <3>4 DEF Ledger
  <2>4. QED
    BY <2>2, <2>3
<1>9. CASE Write
  <2> DEFINE w == [n |-> Cardinality(made) + 1, unit |-> CurrentUnit]
  <2>1. w \in Writes
    BY <1>9, Known, FS_CardinalityType, UnitType DEF Write, Writes, TypeInv
  <2>2. IF OpenUnits = {} THEN w.unit = 0 ELSE w.unit \in OpenUnits
    BY CurrentOpen DEF TypeInv
  <2>3. /\ made' = made \cup {w} /\ UNCHANGED <<units, asked, scope>>
        /\ db' = IF db.autoCommit THEN [db EXCEPT !.file = @ \cup {w}]
                                  ELSE [db EXCEPT !.pending = @ \cup {w}]
    BY <1>9 DEF Write
  <2> HIDE DEF w
  <2>4. OneTx' /\ OpenUnits' = OpenUnits
    BY <1>a, <2>3 DEF OneTx, OpenUnits, Positions
  <2>5. db.autoCommit <=> OpenUnits = {}
    BY <1>a DEF Ledger
  <2>6. Ledger(db', OpenUnits, asked, units, made \cup {w})
    BY <1>0, <1>a, <2>1, <2>2, <2>3, <2>5, Known, LedgerWrite
  <2>7. QED
    BY <2>3, <2>4, <2>6
<1>10. CASE WriteFails
  BY <1>10 DEF WriteFails
<1>11. CASE UNCHANGED <<db, scope, asked, units, made>>
  BY <1>a, <1>11 DEF OneTx, OpenUnits, Positions
<1>12. QED
  BY <1>1, <1>2, <1>3, <1>4, <1>5, <1>6, <1>7, <1>8, <1>9, <1>10, <1>11
     DEF Next, vars, Throw, Catch, Terminated

\* A scoped transaction is all or nothing: its writes wait until it ends, and are
\* then committed if it was ended or destroyed, and gone if it was rolled back.
THEOREM UnitsAtomicHolds == Spec => []UnitsAtomic
<1>1. Init => AtomInv
  <2> SUFFICES ASSUME Init
               PROVE  OneTx /\ Ledger(db, OpenUnits, asked, units, made)
    BY DEF AtomInv
  <2>1. Positions = {}
    BY DEF Init, Positions
  <2>2. QED
    BY <2>1 DEF Init, OneTx, OpenUnits, Ledger
<1>2. AtomInv => UnitsAtomic
  BY DEF AtomInv, UnitsAtomic, Ledger
<1>3. QED
  BY InitType, NextType, NextAtom, <1>1, <1>2, PTL DEF Spec
=============================================================================
