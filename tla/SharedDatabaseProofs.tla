------------------------ MODULE SharedDatabaseProofs ------------------------
(***************************************************************************)
(* Theorems about SharedDatabase, for any number of connections and        *)
(* statements and any bounds.                                              *)
(***************************************************************************)
EXTENDS SharedDatabase, TLAPS

-----------------------------------------------------------------------------
(* Type correctness.                                                       *)

EngineTypeOK ==
    /\ lock \in [Conn -> Locks]
    /\ autoCommit \in [Conn -> BOOLEAN]
    /\ vm \in [Conn -> [Stmt -> VmStates]]
    /\ dirty \in [Conn -> SUBSET Writes]
    /\ disk \in SUBSET Writes

\* The fragments a statement's actions are made of.
StatementStep(c, s, w) ==
    \/ Open(c, s, w) \/ LeaveBusy(c, s) \/ ResetBusy(c, s)
    \/ HaltInTransaction(c, s) \/ HaltCommit(c, s) \/ WaitForReaders(c)
    \/ HaltBusy(c, s) \/ HaltError(c, s, w) \/ HaltSpecialError(c, s)

\* The fragments the transaction calls are made of.
ControlStep(c) ==
    \/ EngineBegin(c) \/ EngineBeginImmediate(c)
    \/ EngineEnd(c) \/ EngineRollback(c)
    \/ WaitForReaders(c)
    \/ /\ ~autoCommit[c] /\ MayReserve(c) /\ Reserve(c)
       /\ UNCHANGED <<autoCommit, vm, dirty, disk>>

\* A statement's fragments keep the types of the engine's variables,
LEMMA StatementType ==
    ASSUME EngineTypeOK, NEW c \in Conn, NEW s \in Stmt, NEW w \in Writes,
           StatementStep(c, s, w)
    PROVE  EngineTypeOK'
<1>. USE DEF EngineTypeOK, Locks, VmStates, SetVm, SetLock
<1>1. CASE Open(c, s, w)
  <2>1. CASE IsWrite(s)
    BY <1>1, <2>1 DEF Open, Reserve
  <2>2. CASE ~IsWrite(s)
    BY <1>1, <2>2 DEF Open
  <2>. QED BY <2>1, <2>2
<1>2. CASE LeaveBusy(c, s)
  BY <1>2 DEF LeaveBusy
<1>3. CASE HaltInTransaction(c, s)
  BY <1>3 DEF HaltInTransaction
<1>4. CASE HaltCommit(c, s)
  BY <1>4 DEF HaltCommit, Commit, EndLock
<1>5. CASE WaitForReaders(c)
  BY <1>5 DEF WaitForReaders
<1>6. CASE HaltBusy(c, s)
  BY <1>6 DEF HaltBusy, RollbackAll, EndLock
<1>7. CASE HaltError(c, s, w)
  BY <1>7 DEF HaltError, RollbackAll, EndLock
<1>8. CASE HaltSpecialError(c, s)
  BY <1>8 DEF HaltSpecialError, RollbackAll, EndLock
<1>9. CASE ResetBusy(c, s)
  BY <1>9 DEF ResetBusy, RollbackAll, EndLock
<1>. QED BY <1>1, <1>2, <1>3, <1>4, <1>5, <1>6, <1>7, <1>8, <1>9
         DEF StatementStep

\* and so do the transaction calls'.
LEMMA ControlType ==
    ASSUME EngineTypeOK, NEW c \in Conn, ControlStep(c)
    PROVE  EngineTypeOK'
<1>. USE DEF EngineTypeOK, Locks, SetLock
<1>1. CASE EngineBegin(c)
  BY <1>1 DEF EngineBegin
<1>2. CASE EngineBeginImmediate(c)
  BY <1>2 DEF EngineBeginImmediate, Reserve
<1>3. CASE EngineEnd(c)
  BY <1>3 DEF EngineEnd, Commit, EndLock
<1>4. CASE EngineRollback(c)
  BY <1>4 DEF EngineRollback, RollbackAll, EndLock
<1>5. CASE WaitForReaders(c)
  BY <1>5 DEF WaitForReaders
<1>6. CASE Reserve(c) /\ UNCHANGED <<autoCommit, vm, dirty, disk>>
  BY <1>6 DEF Reserve
<1>. QED BY <1>1, <1>2, <1>3, <1>4, <1>5, <1>6 DEF ControlStep

ClientTypeOK ==
    /\ call \in [Conn -> Calls]
    /\ inTx \in [Conn -> BOOLEAN]
    /\ held \in [Conn -> BOOLEAN]
    /\ run \in [Conn -> [Stmt -> 0..MaxWrites]]
    /\ pos \in [Conn -> [Stmt -> 0..MaxRows]]
    /\ got \in [Conn -> [Stmt -> 0..(MaxRows + 1)]]
    /\ acked \in SUBSET Writes

\* A call that is not idle names its statement.
LEMMA CallNamesStatement ==
    ASSUME ClientTypeOK, NEW c \in Conn,
           call[c].fn \in StepFns \cup {"reset"}
    PROVE  call[c].stmt \in Stmt /\ Write(c) \in Writes /\ Write(c)[1] = c
<1>1. call[c].stmt \in Stmt
  BY DEF ClientTypeOK, Calls, StepFns, ControlFns
<1>2. run[c][call[c].stmt] \in 0..MaxWrites
  BY <1>1 DEF ClientTypeOK
<1>. QED BY <1>1, <1>2 DEF Write, Writes

\* What a step of thread c does to the engine.
EngineStep(c) ==
    \/ UNCHANGED engineVars
    \/ ControlStep(c)
    \/ /\ call[c].stmt \in Stmt /\ Write(c) \in Writes /\ Write(c)[1] = c
       /\ StatementStep(c, call[c].stmt, Write(c))

LEMMA EnginePart ==
    ASSUME ClientTypeOK, NEW c \in Conn, Start(c) \/ Step(c)
    PROVE  EngineStep(c)
<1>1. CASE Start(c)
  <2>. UNCHANGED engineVars
    BY <1>1 DEF Start, StartWrite, StartRead, StartCursor, StartNext,
                StartReset, StartBegin, StartFinish
  <2>. QED BY DEF EngineStep
<1>2. CASE StepRow(c) \/ ControlBusy(c) \/ EndViolated(c)
  <2>. UNCHANGED engineVars
    BY <1>2 DEF StepRow, ControlBusy, EndViolated, vars, engineVars
  <2>. QED BY DEF EngineStep
<1>3. CASE BeginStep(c) \/ EndStep(c) \/ RollbackStep(c)
  <2>. UNCHANGED engineVars \/ ControlStep(c)
    BY <1>3 DEF BeginStep, EndStep, RollbackStep, ControlStep
  <2>. QED BY DEF EngineStep
<1>4. CASE EndWait(c)
  <2>1. ControlStep(c)
    BY <1>4 DEF EndWait, ControlStep
  <2>. QED BY <2>1 DEF EngineStep
<1>5. CASE \/ StepOpen(c) \/ StepBusy(c) \/ StepDone(c) \/ StepWait(c)
           \/ StepCommitBusy(c) \/ StepError(c) \/ StepSpecialError(c)
  <2>1. call[c].fn \in StepFns \cup {"reset"}
    BY <1>5 DEF StepOpen, StepBusy, StepDone, StepWait, StepCommitBusy,
                StepError, StepSpecialError, Steps
  <2>2. StatementStep(c, call[c].stmt, Write(c))
    BY <1>5 DEF StepOpen, StepBusy, StepDone, StepWait, StepCommitBusy,
                StepError, StepSpecialError, StatementStep, BusyThenReset
  <2>. QED BY <2>1, <2>2, CallNamesStatement DEF EngineStep
<1>6. CASE ResetStep(c)
  <2>1. call[c].fn \in StepFns \cup {"reset"}
    BY <1>6 DEF ResetStep
  <2>2. StatementStep(c, call[c].stmt, Write(c))
    BY <1>6 DEF ResetStep, StatementStep
  <2>. QED BY <2>1, <2>2, CallNamesStatement DEF EngineStep
<1>. QED BY <1>1, <1>2, <1>3, <1>4, <1>5, <1>6 DEF Step

\* The calls a thread enters and returns from have their type.
LEMMA CallsType ==
    /\ Idle \in Calls
    /\ \A fn \in ControlFns :
           [fn |-> fn, stmt |-> NoStmt, timed |-> FALSE] \in Calls
    /\ \A fn \in {"reset"} \cup StepFns, s \in Stmt, timed \in BOOLEAN :
           [fn |-> fn, stmt |-> s, timed |-> timed] \in Calls
BY DEF Idle, Calls

\* What a thread changes of its own variables when it starts a call
LEMMA StartType ==
    ASSUME ClientTypeOK, NEW c \in Conn, Start(c)
    PROVE  ClientTypeOK'
<1>. USE BoundAssumption
<1>1. ASSUME NEW s \in Stmt, Starts(c, s)
      PROVE  /\ run' \in [Conn -> [Stmt -> 0..MaxWrites]]
             /\ pos' \in [Conn -> [Stmt -> 0..MaxRows]]
             /\ got' \in [Conn -> [Stmt -> 0..(MaxRows + 1)]]
  <2>1. run' \in [Conn -> [Stmt -> 0..MaxWrites]]
    <3>1. CASE UNCHANGED run
      BY <3>1 DEF ClientTypeOK
    <3>2. CASE /\ run[c][s] < MaxWrites
               /\ run' = [run EXCEPT ![c][s] = @ + 1]
      <4>1. run[c][s] + 1 \in 0..MaxWrites
        BY <3>2 DEF ClientTypeOK
      <4>. QED BY <3>2, <4>1 DEF ClientTypeOK
    <3>. QED BY <1>1, <3>1, <3>2 DEF Starts
  <2>2. got' \in [Conn -> [Stmt -> 0..(MaxRows + 1)]]
    <3>1. 0 \in 0..(MaxRows + 1)
      OBVIOUS
    <3>. QED BY <1>1, <3>1 DEF Starts, ClientTypeOK
  <2>. QED BY <1>1, <2>1, <2>2 DEF Starts, ClientTypeOK
<1>2. ASSUME NEW fn \in {"reset"} \cup StepFns, NEW s \in Stmt,
             NEW timed \in BOOLEAN, Enter(c, fn, s, timed)
      PROVE  call' \in [Conn -> Calls]
  <2>1. [fn |-> fn, stmt |-> s, timed |-> timed] \in Calls
    BY CallsType
  <2>. QED BY <1>2, <2>1 DEF Enter, ClientTypeOK
<1>3. ASSUME NEW s \in Stmt, NEW timed \in Timeouts,
             StartWrite(c, s, timed) \/ StartRead(c, s, timed)
      PROVE  ClientTypeOK'
  <2>1. timed \in BOOLEAN
    BY DEF Timeouts
  <2>2. call' \in [Conn -> Calls]
    <3>1. Enter(c, "exec", s, timed) \/ Enter(c, "read", s, timed)
      BY <1>3 DEF StartWrite, StartRead
    <3>. QED BY <1>2, <2>1, <3>1 DEF StepFns
  <2>3. Starts(c, s) /\ UNCHANGED <<inTx, held, acked>>
    BY <1>3 DEF StartWrite, StartRead
  <2>. QED BY <1>1, <2>2, <2>3 DEF ClientTypeOK
<1>4. ASSUME NEW s \in Stmt, StartCursor(c, s)
      PROVE  ClientTypeOK'
  <2>1. call' \in [Conn -> Calls]
    BY <1>2, <1>4 DEF StartCursor, StepFns
  <2>2. Starts(c, s) /\ UNCHANGED <<inTx, held, acked>>
    BY <1>4 DEF StartCursor
  <2>. QED BY <1>1, <2>1, <2>2 DEF ClientTypeOK
<1>5. ASSUME NEW s \in Stmt, StartNext(c, s) \/ StartReset(c, s)
      PROVE  ClientTypeOK'
  <2>1. call' \in [Conn -> Calls]
    BY <1>2, <1>5 DEF StartNext, StartReset, StepFns
  <2>2. UNCHANGED <<inTx, held, run, pos, got, acked>>
    BY <1>5 DEF StartNext, StartReset
  <2>. QED BY <2>1, <2>2 DEF ClientTypeOK
<1>6. ASSUME NEW fn \in ControlFns, StartBegin(c, fn) \/ StartFinish(c, fn)
      PROVE  ClientTypeOK'
  <2>1. call' \in [Conn -> Calls]
    <3>1. [fn |-> fn, stmt |-> NoStmt, timed |-> FALSE] \in Calls
      BY CallsType
    <3>. QED BY <1>6, <3>1 DEF StartBegin, StartFinish, Enter, ClientTypeOK
  <2>2. UNCHANGED <<inTx, held, run, pos, got, acked>>
    BY <1>6 DEF StartBegin, StartFinish
  <2>. QED BY <2>1, <2>2 DEF ClientTypeOK
<1>. QED BY <1>3, <1>4, <1>5, <1>6 DEF Start, ControlFns

\* and when its call makes a step.
LEMMA StepType ==
    ASSUME ClientTypeOK, NEW c \in Conn, Step(c)
    PROVE  ClientTypeOK'
<1>. USE BoundAssumption
<1>1. ASSUME Return(c)
      PROVE  call' \in [Conn -> Calls]
  BY <1>1, CallsType DEF Return, ClientTypeOK
<1>2. ASSUME NEW s \in Stmt
      PROVE  /\ [pos EXCEPT ![c][s] = 0] \in [Conn -> [Stmt -> 0..MaxRows]]
             /\ [got EXCEPT ![c][s] = 0] \in
                    [Conn -> [Stmt -> 0..(MaxRows + 1)]]
             /\ [got EXCEPT ![c][s] = IF call[c].fn = "read" THEN 0 ELSE @] \in
                    [Conn -> [Stmt -> 0..(MaxRows + 1)]]
  <2>1. 0 \in 0..MaxRows /\ 0 \in 0..(MaxRows + 1)
    OBVIOUS
  <2>. QED BY <2>1 DEF ClientTypeOK
<1>3. ASSUME Steps(c) \/ call[c].fn = "reset"
      PROVE  call[c].stmt \in Stmt /\ Write(c) \in Writes
  BY <1>3, CallNamesStatement DEF Steps
<1>4. ASSUME Steps(c) \/ call[c].fn = "reset", Finish(c) \/ Retry(c),
             acked' \in SUBSET Writes, UNCHANGED <<inTx, held, run>>
      PROVE  ClientTypeOK'
  <2>1. call' \in [Conn -> Calls]
    BY <1>1, <1>4 DEF Finish, Retry, ClientTypeOK
  <2>2. /\ pos' \in [Conn -> [Stmt -> 0..MaxRows]]
        /\ got' \in [Conn -> [Stmt -> 0..(MaxRows + 1)]]
    BY <1>2, <1>3, <1>4 DEF Finish, Retry
  <2>. QED BY <1>4, <2>1, <2>2 DEF ClientTypeOK
<1>5. CASE StepBusy(c) \/ StepCommitBusy(c) \/ StepError(c)
           \/ StepSpecialError(c)
  <2>1. /\ Steps(c)
        /\ Finish(c) \/ Retry(c)
        /\ UNCHANGED <<inTx, held, run, acked>>
    BY <1>5 DEF StepBusy, StepCommitBusy, StepError, StepSpecialError
  <2>. QED BY <1>4, <2>1 DEF ClientTypeOK
<1>6. CASE StepDone(c) \/ ResetStep(c)
  <2>1. /\ Steps(c) \/ call[c].fn = "reset"
        /\ Finish(c)
        /\ UNCHANGED <<inTx, held, run>>
        /\ Acknowledge(c) \/ UNCHANGED acked
    BY <1>6 DEF StepDone, ResetStep
  <2>2. acked' \in SUBSET Writes
    BY <1>3, <2>1 DEF Acknowledge, ClientTypeOK
  <2>. QED BY <1>4, <2>1, <2>2
<1>7. CASE StepRow(c)
  <2>. DEFINE s == call[c].stmt
  <2>1. s \in Stmt
    BY <1>3, <1>7 DEF StepRow
  <2>2. pos[c][s] + 1 \in 0..MaxRows
    BY <1>7, <2>1 DEF StepRow, ClientTypeOK
  <2>3. pos' \in [Conn -> [Stmt -> 0..MaxRows]]
    BY <1>7, <2>1, <2>2 DEF StepRow, ClientTypeOK
  <2>4. (IF call[c].fn = "exec" \/ got[c][s] > MaxRows THEN got[c][s]
         ELSE got[c][s] + 1) \in 0..(MaxRows + 1)
    BY <2>1 DEF ClientTypeOK
  <2>5. got' \in [Conn -> [Stmt -> 0..(MaxRows + 1)]]
    BY <1>7, <2>1, <2>4 DEF StepRow, ClientTypeOK
  <2>6. call' \in [Conn -> Calls]
    BY <1>1, <1>7 DEF StepRow, ClientTypeOK
  <2>. QED BY <1>7, <2>3, <2>5, <2>6 DEF StepRow, ClientTypeOK
<1>8. CASE StepOpen(c) \/ StepWait(c) \/ EndWait(c) \/ ControlBusy(c)
  <2>1. UNCHANGED clientVars
    BY <1>8 DEF StepOpen, StepWait, EndWait, ControlBusy, vars, clientVars
  <2>. QED BY <2>1 DEF clientVars, ClientTypeOK
<1>9. CASE BeginStep(c) \/ EndStep(c) \/ EndViolated(c) \/ RollbackStep(c)
  <2>1. /\ Return(c)
        /\ inTx' \in [Conn -> BOOLEAN] /\ held' \in [Conn -> BOOLEAN]
        /\ acked' \subseteq acked
        /\ UNCHANGED <<run, pos, got>>
    BY <1>9 DEF BeginStep, EndStep, EndViolated, EndReturns, RollbackStep,
                ClientTypeOK
  <2>. QED BY <1>1, <2>1 DEF ClientTypeOK
<1>. QED BY <1>5, <1>6, <1>7, <1>8, <1>9 DEF Step

LEMMA InitType == Init => TypeOK
<1>. SUFFICES ASSUME Init PROVE TypeOK
  OBVIOUS
<1>1. 0 \in 0..MaxWrites /\ 0 \in 0..MaxRows /\ 0 \in 0..(MaxRows + 1)
  BY BoundAssumption
<1>2. call \in [Conn -> Calls]
  BY CallsType DEF Init
<1>. QED BY <1>1, <1>2 DEF Init, EngineInit, TypeOK, Locks, VmStates

\* TypeOK is inductive.
LEMMA TypeStep == TypeOK /\ [Next]_vars => TypeOK'
<1>. SUFFICES ASSUME EngineTypeOK, ClientTypeOK, [Next]_vars
              PROVE  EngineTypeOK' /\ ClientTypeOK'
  BY DEF TypeOK, EngineTypeOK, ClientTypeOK
<1>1. CASE UNCHANGED vars
  BY <1>1 DEF vars, EngineTypeOK, ClientTypeOK
<1>2. ASSUME NEW c \in Conn, Start(c) \/ Step(c)
      PROVE  EngineTypeOK' /\ ClientTypeOK'
  <2>1. ClientTypeOK'
    BY <1>2, StartType, StepType
  <2>2. EngineStep(c)
    BY <1>2, EnginePart
  <2>3. CASE UNCHANGED engineVars
    BY <2>1, <2>3 DEF engineVars, EngineTypeOK
  <2>4. CASE ControlStep(c)
    BY <2>1, <2>4, ControlType
  <2>5. CASE /\ call[c].stmt \in Stmt /\ Write(c) \in Writes
             /\ StatementStep(c, call[c].stmt, Write(c))
    BY <2>1, <2>5, StatementType
  <2>. QED BY <2>2, <2>3, <2>4, <2>5 DEF EngineStep
<1>. QED BY <1>1, <1>2 DEF Next

\* Every variable always has its type, for any number of connections and
\* statements: no call, and no iteration of a retry loop, leaves its range.
THEOREM TypeCorrect == Spec => []TypeOK
BY InitType, TypeStep, PTL DEF Spec

-----------------------------------------------------------------------------
(* No orphan writes.                                                       *)

\* What a thread does to the engine concerns its own connection, except for
\* the disk.
LEMMA Locality ==
    ASSUME EngineTypeOK, NEW c \in Conn, EngineStep(c),
           NEW d \in Conn, d # c
    PROVE  /\ lock'[d] = lock[d] /\ autoCommit'[d] = autoCommit[d]
           /\ vm'[d] = vm[d] /\ dirty'[d] = dirty[d]
<1>. USE DEF EngineTypeOK, SetVm, SetLock
<1>1. CASE UNCHANGED engineVars
  BY <1>1 DEF engineVars
<1>2. CASE ControlStep(c)
  BY <1>2 DEF ControlStep, EngineBegin, EngineBeginImmediate, EngineEnd,
              EngineRollback, WaitForReaders, Reserve, Commit, RollbackAll,
              EndLock
<1>3. ASSUME NEW s, NEW w, StatementStep(c, s, w)
      PROVE  /\ lock'[d] = lock[d] /\ autoCommit'[d] = autoCommit[d]
             /\ vm'[d] = vm[d] /\ dirty'[d] = dirty[d]
  <2>1. CASE Open(c, s, w)
    BY <2>1 DEF Open, Reserve
  <2>2. CASE LeaveBusy(c, s) \/ WaitForReaders(c) \/ HaltInTransaction(c, s)
    BY <2>2 DEF LeaveBusy, WaitForReaders, HaltInTransaction
  <2>3. CASE HaltCommit(c, s)
    BY <2>3 DEF HaltCommit, Commit, EndLock
  <2>4. CASE HaltBusy(c, s) \/ HaltSpecialError(c, s) \/ ResetBusy(c, s)
    BY <2>4 DEF HaltBusy, HaltSpecialError, ResetBusy, RollbackAll, EndLock
  <2>5. CASE HaltError(c, s, w)
    BY <2>5 DEF HaltError, RollbackAll, EndLock
  <2>. QED BY <1>3, <2>1, <2>2, <2>3, <2>4, <2>5 DEF StatementStep
<1>. QED BY <1>1, <1>2, <1>3 DEF EngineStep

NoOrphan(c) ==
    autoCommit[c] /\ Writers(c) = {} => dirty[c] = {} /\ ~Writing(c)

\* Only the statement that a step is about can leave the writers.
LEMMA WritersKept ==
    ASSUME EngineTypeOK, NEW c \in Conn, NEW s \in Stmt, NEW v \in VmStates,
           SetVm(c, s, v)
    PROVE  /\ Writers(c) \ {s} \subseteq Writers(c)'
           /\ IsWrite(s) /\ v # "stopped" => s \in Writers(c)'
           /\ Writers(c)' \subseteq Writers(c) \cup {s}
           /\ v = "stopped" => s \notin Writers(c)'
<1>1. \A x \in Stmt : vm'[c][x] = IF x = s THEN v ELSE vm[c][x]
  BY DEF SetVm, EngineTypeOK
<1>. QED BY <1>1 DEF Writers, Active, IsWrite, VmStates

\* A step of a thread leaves no orphan on its own connection.
LEMMA NoOrphanStep ==
    ASSUME EngineTypeOK, NEW c \in Conn, EngineStep(c), NoOrphan(c)
    PROVE  NoOrphan(c)'
<1>. USE DEF NoOrphan, Writing
<1>0. ASSUME NEW rest, EndLock(c, rest)
      PROVE  ~Writing(c)'
  BY <1>0 DEF EndLock, SetLock, EngineTypeOK
<1>1. CASE UNCHANGED engineVars
  BY <1>1 DEF engineVars, Writers, Active
<1>2. CASE ControlStep(c)
  <2>1. CASE EngineBegin(c) \/ EngineBeginImmediate(c)
    BY <2>1 DEF EngineBegin, EngineBeginImmediate, EngineTypeOK
  <2>2. CASE EngineEnd(c) \/ EngineRollback(c)
    BY <1>0, <2>2 DEF EngineEnd, EngineRollback, Commit, RollbackAll,
                      EngineTypeOK
  <2>3. CASE WaitForReaders(c)
    BY <2>3 DEF WaitForReaders, Writers, Active
  <2>4. CASE ~autoCommit[c] /\ UNCHANGED autoCommit
    BY <2>4
  <2>. QED BY <1>2, <2>1, <2>2, <2>3, <2>4 DEF ControlStep
<1>3. ASSUME NEW s \in Stmt, NEW w \in Writes, StatementStep(c, s, w)
      PROVE  NoOrphan(c)'
  <2>. USE DEF VmStates
  <2>1. CASE Open(c, s, w)
    <3>1. CASE IsWrite(s)
      BY <2>1, <3>1, WritersKept DEF Open
    <3>2. CASE ~IsWrite(s)
      <4>1. Writers(c) \subseteq Writers(c)'
        BY <2>1, <3>2, WritersKept DEF Open, Writers
      <4>2. Writing(c)' => Writing(c)
        BY <2>1, <3>2 DEF Open, SetLock, EngineTypeOK
      <4>. QED BY <2>1, <3>2, <4>1, <4>2 DEF Open
    <3>. QED BY <3>1, <3>2
  <2>2. CASE LeaveBusy(c, s)
    <3>1. Writers(c) \subseteq Writers(c)'
      BY <2>2, WritersKept DEF LeaveBusy, Writers
    <3>. QED BY <2>2, <3>1 DEF LeaveBusy
  <2>3. CASE WaitForReaders(c)
    BY <2>3 DEF WaitForReaders, Writers, Active
  <2>4. CASE HaltInTransaction(c, s)
    BY <2>4, WritersKept DEF HaltInTransaction, EndsTransaction
  <2>5. CASE HaltCommit(c, s) \/ HaltBusy(c, s) \/ HaltSpecialError(c, s)
    BY <1>0, <2>5 DEF HaltCommit, HaltBusy, HaltSpecialError, Commit,
                      RollbackAll, EngineTypeOK
  <2>6. CASE HaltError(c, s, w)
    <3>1. CASE EndsTransaction(c, s)
      BY <1>0, <2>6, <3>1 DEF HaltError, RollbackAll, EngineTypeOK
    <3>2. CASE ~EndsTransaction(c, s)
      BY <2>6, <3>2, WritersKept DEF HaltError, EndsTransaction
    <3>. QED BY <3>1, <3>2
  <2>7. CASE ResetBusy(c, s)
    <3>1. CASE EndsTransaction(c, s)
      BY <1>0, <2>7, <3>1 DEF ResetBusy, RollbackAll, EngineTypeOK
    <3>2. CASE ~EndsTransaction(c, s)
      BY <2>7, <3>2, WritersKept DEF ResetBusy, EndsTransaction
    <3>. QED BY <3>1, <3>2
  <2>. QED BY <1>3, <2>1, <2>2, <2>3, <2>4, <2>5, <2>6, <2>7
           DEF StatementStep
<1>. QED BY <1>1, <1>2, <1>3 DEF EngineStep

\* An uncommitted write and a RESERVED lock always have somebody who commits,
\* rolls back or releases them: in every modelled use of timeouts, cursors and
\* transactions, and whatever fails, neither is left behind.
THEOREM NoOrphanWritesHolds == Spec => []NoOrphanWrites
<1>1. Init => NoOrphanWrites
  BY DEF Init, EngineInit, NoOrphanWrites, Writing
<1>2. TypeOK /\ NoOrphanWrites /\ [Next]_vars => NoOrphanWrites'
  <2>. SUFFICES ASSUME EngineTypeOK, ClientTypeOK, [Next]_vars,
                       NEW d \in Conn, NoOrphan(d)
                PROVE  NoOrphan(d)'
    BY DEF TypeOK, EngineTypeOK, ClientTypeOK, NoOrphanWrites, NoOrphan
  <2>1. CASE UNCHANGED vars
    BY <2>1 DEF vars, NoOrphan, Writers, Active, Writing
  <2>2. ASSUME NEW c \in Conn, Start(c) \/ Step(c)
        PROVE  NoOrphan(d)'
    <3>1. EngineStep(c)
      BY <2>2, EnginePart
    <3>2. CASE c = d
      BY <3>1, <3>2, NoOrphanStep
    <3>3. CASE c # d
      <4>1. autoCommit'[d] = autoCommit[d] /\ vm'[d] = vm[d]
            /\ dirty'[d] = dirty[d] /\ lock'[d] = lock[d]
        BY <3>1, <3>3, Locality
      <4>. QED BY <4>1 DEF NoOrphan, Writers, Active, Writing
    <3>. QED BY <3>2, <3>3
  <2>. QED BY <2>1, <2>2 DEF Next
<1>. QED BY <1>1, <1>2, TypeCorrect, PTL DEF Spec

-----------------------------------------------------------------------------
(* Stable reads.                                                           *)

\* A statement that is being stepped through holds a lock, and a connection's
\* uncommitted writes are its own.
LockHeld(c) == \A s \in Stmt : vm[c][s] = "open" => lock[c] # "none"
DirtyOwn(c) == \A w \in dirty[c] : w[1] = c

\* Uncommitted writes keep the file RESERVED.
DirtyLocked(c) == dirty[c] # {} => Writing(c)

StableInv == \A c \in Conn : LockHeld(c) /\ DirtyOwn(c) /\ DirtyLocked(c)

\* The end of a transaction keeps the lock of the statements that still run.
LEMMA EndLockKeeps ==
    ASSUME EngineTypeOK, NEW c \in Conn, NEW rest, EndLock(c, rest),
           \A x \in Stmt : vm'[c][x] = "open" => vm[c][x] = "open" /\ x \in rest,
           LockHeld(c)
    PROVE  LockHeld(c)'
<1>1. lock'[c] = IF lock[c] = "none" \/ rest = {} THEN "none" ELSE "shared"
  BY DEF EndLock, SetLock, EngineTypeOK
<1>. QED BY <1>1 DEF LockHeld

\* A step of a thread keeps the invariant on its own connection,
LEMMA StableStep ==
    ASSUME EngineTypeOK, NEW c \in Conn, EngineStep(c), LockHeld(c), DirtyOwn(c)
    PROVE  LockHeld(c)' /\ DirtyOwn(c)'
<1>1. CASE UNCHANGED engineVars
  BY <1>1 DEF engineVars, LockHeld, DirtyOwn
<1>2. CASE ControlStep(c)
  <2>1. CASE EngineBegin(c) \/ EngineBeginImmediate(c) \/ WaitForReaders(c)
             \/ (Reserve(c) /\ UNCHANGED <<autoCommit, vm, dirty, disk>>)
    BY <2>1 DEF EngineBegin, EngineBeginImmediate, WaitForReaders, Reserve,
                SetLock, Writing, LockHeld, DirtyOwn, EngineTypeOK
  <2>2. CASE EngineEnd(c) \/ EngineRollback(c)
    <3>1. EndLock(c, Active(c)) /\ UNCHANGED vm
      BY <2>2 DEF EngineEnd, EngineRollback, Commit, RollbackAll
    <3>2. LockHeld(c)'
      BY <3>1, EndLockKeeps DEF Active
    <3>. QED BY <2>2, <3>2 DEF EngineEnd, EngineRollback, Commit,
                               RollbackAll, DirtyOwn, EngineTypeOK
  <2>. QED BY <1>2, <2>1, <2>2 DEF ControlStep
<1>3. ASSUME NEW s \in Stmt, NEW w \in Writes, w[1] = c, StatementStep(c, s, w)
      PROVE  LockHeld(c)' /\ DirtyOwn(c)'
  <2>1. CASE Open(c, s, w)
    BY <1>3, <2>1 DEF Open, Reserve, SetLock, SetVm, Writing, LockHeld,
                      DirtyOwn, EngineTypeOK
  <2>2. CASE LeaveBusy(c, s) \/ WaitForReaders(c) \/ HaltInTransaction(c, s)
    BY <2>2 DEF LeaveBusy, WaitForReaders, HaltInTransaction, SetLock, SetVm,
                LockHeld, DirtyOwn, EngineTypeOK
  <2>3. ASSUME SetVm(c, s, "stopped"), EndLock(c, Active(c) \ {s})
        PROVE  LockHeld(c)'
    <3>1. \A x \in Stmt : vm'[c][x] = "open" =>
              vm[c][x] = "open" /\ x \in Active(c) \ {s}
      BY <2>3 DEF SetVm, Active, EngineTypeOK
    <3>. QED BY <2>3, <3>1, EndLockKeeps
  <2>4. CASE HaltCommit(c, s) \/ HaltBusy(c, s) \/ HaltSpecialError(c, s)
    BY <2>3, <2>4 DEF HaltCommit, HaltBusy, HaltSpecialError, Commit,
                      RollbackAll, DirtyOwn, EngineTypeOK
  <2>5. ASSUME SetVm(c, s, "stopped"), UNCHANGED lock
        PROVE  LockHeld(c)'
    BY <2>5 DEF SetVm, LockHeld, EngineTypeOK
  <2>6. CASE HaltError(c, s, w) \/ ResetBusy(c, s)
    BY <2>3, <2>5, <2>6 DEF HaltError, ResetBusy, RollbackAll, DirtyOwn,
                            EngineTypeOK
  <2>. QED BY <1>3, <2>1, <2>2, <2>4, <2>6 DEF StatementStep
<1>. QED BY <1>1, <1>2, <1>3 DEF EngineStep

LEMMA DirtyLockedStep ==
    ASSUME EngineTypeOK, NEW c \in Conn, EngineStep(c), DirtyLocked(c)
    PROVE  DirtyLocked(c)'
<1>. USE DEF DirtyLocked, Writing, SetLock, EngineTypeOK
<1>1. CASE UNCHANGED engineVars
  BY <1>1 DEF engineVars
<1>2. CASE ControlStep(c)
  BY <1>2 DEF ControlStep, EngineBegin, EngineBeginImmediate, EngineEnd,
              EngineRollback, WaitForReaders, Reserve, Commit, RollbackAll
<1>3. ASSUME NEW s, NEW w, StatementStep(c, s, w)
      PROVE  DirtyLocked(c)'
  <2>1. CASE Open(c, s, w)
    BY <2>1 DEF Open, Reserve
  <2>2. CASE LeaveBusy(c, s) \/ WaitForReaders(c) \/ HaltInTransaction(c, s)
    BY <2>2 DEF LeaveBusy, WaitForReaders, HaltInTransaction
  <2>3. CASE HaltCommit(c, s) \/ HaltBusy(c, s) \/ HaltSpecialError(c, s)
    BY <2>3 DEF HaltCommit, HaltBusy, HaltSpecialError, Commit, RollbackAll
  <2>4. CASE HaltError(c, s, w)
    BY <2>4 DEF HaltError, RollbackAll
  <2>5. CASE ResetBusy(c, s)
    BY <2>5 DEF ResetBusy, RollbackAll
  <2>. QED BY <1>3, <2>1, <2>2, <2>3, <2>4, <2>5 DEF StatementStep
<1>. QED BY <1>1, <1>2, <1>3 DEF EngineStep

\* and commits only its own writes, when no other connection has a lock.
LEMMA CommitAlone ==
    ASSUME EngineTypeOK, NEW c \in Conn, EngineStep(c), DirtyLocked(c)
    PROVE  \/ disk' = disk
           \/ disk' = disk \cup dirty[c] /\ MayExclude(c)
<1>. USE DEF DirtyLocked
<1>1. CASE UNCHANGED engineVars
  BY <1>1 DEF engineVars
<1>2. CASE ControlStep(c)
  BY <1>2 DEF ControlStep, EngineBegin, EngineBeginImmediate, EngineEnd,
              EngineRollback, WaitForReaders, Commit, RollbackAll, MayCommit
<1>3. ASSUME NEW s, NEW w, StatementStep(c, s, w)
      PROVE  disk' = disk \/ (disk' = disk \cup dirty[c] /\ MayExclude(c))
  BY <1>3 DEF StatementStep, Open, LeaveBusy, WaitForReaders, HaltInTransaction,
              HaltCommit, HaltBusy, HaltSpecialError, HaltError, ResetBusy,
              Commit, RollbackAll, MayCommit
<1>. QED BY <1>1, <1>2, <1>3 DEF EngineStep

\* StableInv is inductive.
LEMMA StableInvHolds == Spec => []StableInv
<1>1. Init => StableInv
  <2>. SUFFICES ASSUME Init, NEW c \in Conn
                PROVE  LockHeld(c) /\ DirtyOwn(c) /\ DirtyLocked(c)
    BY DEF StableInv
  <2>1. dirty[c] = {} /\ \A s \in Stmt : vm[c][s] = "stopped"
    BY DEF Init, EngineInit
  <2>. QED BY <2>1 DEF LockHeld, DirtyOwn, DirtyLocked
<1>2. TypeOK /\ StableInv /\ [Next]_vars => StableInv'
  <2>. SUFFICES ASSUME EngineTypeOK, ClientTypeOK, StableInv, [Next]_vars,
                       NEW d \in Conn
                PROVE  LockHeld(d)' /\ DirtyOwn(d)' /\ DirtyLocked(d)'
    BY DEF TypeOK, EngineTypeOK, ClientTypeOK, StableInv
  <2>1. CASE UNCHANGED vars
    BY <2>1 DEF vars, StableInv, LockHeld, DirtyOwn, DirtyLocked, Writing
  <2>2. ASSUME NEW c \in Conn, Start(c) \/ Step(c)
        PROVE  LockHeld(d)' /\ DirtyOwn(d)' /\ DirtyLocked(d)'
    <3>1. EngineStep(c)
      BY <2>2, EnginePart
    <3>2. CASE c = d
      BY <3>1, <3>2, StableStep, DirtyLockedStep DEF StableInv
    <3>3. CASE c # d
      BY <3>1, <3>3, Locality
         DEF StableInv, LockHeld, DirtyOwn, DirtyLocked, Writing
    <3>. QED BY <3>2, <3>3
  <2>. QED BY <2>1, <2>2 DEF Next
<1>. QED BY <1>1, <1>2, TypeCorrect, PTL DEF Spec

\* While a result set or a cursor is being read no other connection changes
\* the file, for any number of connections and whatever the program does.
THEOREM StableReadsHolds == Spec => StableReads
<1>1. TypeOK /\ TypeOK' /\ StableInv /\ [Next]_vars =>
          [\A c \in Conn :
              (\E s \in Stmt : vm[c][s] = "open" /\ vm'[c][s] = "open") =>
                  OthersQuiet(c)]_vars
  <2>. SUFFICES ASSUME EngineTypeOK, ClientTypeOK, EngineTypeOK', StableInv,
                       NEW d \in Conn, Start(d) \/ Step(d), NEW c \in Conn,
                       NEW s \in Stmt, vm[c][s] = "open"
                PROVE  OthersQuiet(c)
    BY DEF TypeOK, EngineTypeOK, ClientTypeOK, Next
  <2>1. EngineStep(d)
    BY EnginePart
  <2>2. CASE disk' = disk
    BY <2>2 DEF OthersQuiet
  <2>3. CASE disk' = disk \cup dirty[d] /\ MayExclude(d)
    <3>1. lock[c] # "none"
      BY DEF StableInv, LockHeld
    <3>2. c = d
      BY <2>3, <3>1 DEF MayExclude
    <3>3. disk' \subseteq Writes
      BY DEF EngineTypeOK, Writes
    <3>. QED BY <2>3, <3>2, <3>3 DEF StableInv, DirtyOwn, OthersQuiet
  <2>4. DirtyLocked(d)
    BY DEF StableInv
  <2>. QED BY <2>1, <2>2, <2>3, <2>4, CommitAlone
<1>. QED BY <1>1, TypeCorrect, StableInvHolds, PTL DEF Spec, StableReads

-----------------------------------------------------------------------------
(* The connections implement SerialFile.                                   *)

\* Uncommitted writes keep the file RESERVED, for one connection at a time.
LockInv ==
    /\ \A c \in Conn : DirtyLocked(c)
    /\ \A c, d \in Conn : Writing(c) /\ Writing(d) => c = d

Looking == {c \in Conn : lock[c] # "none"}

\* What a change of one lock does to the set of those who look.
LEMMA LookingChange ==
    ASSUME EngineTypeOK, NEW c \in Conn, NEW l \in Locks, SetLock(c, l)
    PROVE  /\ l # "none" => Looking' = Looking \cup {c}
           /\ l = "none" => Looking' = Looking \ {c}
           /\ Writing(c)' <=> l \in {"reserved", "pending"}
           /\ \A d \in Conn \ {c} : Writing(d)' <=> Writing(d)
<1>1. \A d \in Conn : lock'[d] = IF d = c THEN l ELSE lock[d]
  BY DEF SetLock, EngineTypeOK
<1>. QED BY <1>1 DEF Looking, Writing

\* The end of a transaction: c keeps looking or looks away, and writes no more.
LEMMA LookingEnd ==
    ASSUME EngineTypeOK, NEW c \in Conn, NEW rest, EndLock(c, rest)
    PROVE  /\ Looking' = Looking \/ Looking' = Looking \ {c}
           /\ ~Writing(c)'
           /\ \A d \in Conn \ {c} : Writing(d)' <=> Writing(d)
<1>1. CASE lock[c] = "none" \/ rest = {}
  <2>1. SetLock(c, "none")
    BY <1>1 DEF EndLock
  <2>. QED BY <2>1, LookingChange DEF Locks
<1>2. CASE ~(lock[c] = "none" \/ rest = {})
  <2>1. SetLock(c, "shared")
    BY <1>2 DEF EndLock
  <2>2. Looking' = Looking \cup {c} /\ c \in Looking
    BY <1>2, <2>1, LookingChange DEF Locks, Looking
  <2>. QED BY <2>1, <2>2, LookingChange DEF Locks
<1>. QED BY <1>1, <1>2

\* A step that only takes a lock,
LEMMA SerialLock ==
    ASSUME EngineTypeOK, LockInv, NEW c \in Conn, NEW l \in Locks \ {"none"},
           SetLock(c, l), UNCHANGED <<dirty, disk>>,
           l = "shared" => ~Writing(c), l # "shared" => MayReserve(c)
    PROVE  LockInv' /\ Serial!Look(c)
<1>1. LockInv'
  BY LookingChange DEF LockInv, DirtyLocked, MayReserve, Locks
<1>. QED BY <1>1, LookingChange DEF Serial!Look, Looking

\* a step that takes back the changes of c,
LEMMA SerialRollback ==
    ASSUME EngineTypeOK, LockInv, NEW c \in Conn, NEW rest, RollbackAll(c, rest)
    PROVE  LockInv' /\ \E some \in SUBSET dirty[c] : Serial!Undo(c, some)
<1>1. LockInv'
  BY LookingEnd DEF LockInv, DirtyLocked, RollbackAll, EngineTypeOK
<1>2. PICK some \in SUBSET dirty[c] : some = dirty[c]
  OBVIOUS
<1>3. Serial!Undo(c, some)
  BY <1>2, LookingEnd DEF Serial!Undo, RollbackAll, EngineTypeOK, Looking
<1>. QED BY <1>1, <1>3

\* and a step that commits them.
LEMMA SerialCommit ==
    ASSUME EngineTypeOK, LockInv, NEW c \in Conn, NEW rest,
           MayCommit(c), Commit(c, rest)
    PROVE  /\ LockInv'
           /\ Serial!Commit(c) \/ \E some \in SUBSET dirty[c] : Serial!Undo(c, some)
<1>0. EndLock(c, rest)
  BY DEF Commit
<1>1. LockInv'
  BY <1>0, LookingEnd DEF LockInv, DirtyLocked, Commit, EngineTypeOK
<1>2. CASE dirty[c] = {}
  <2>1. dirty' = dirty /\ disk' = disk
    BY <1>2 DEF Commit, EngineTypeOK
  <2>2. Serial!Undo(c, {})
    BY <1>0, <1>2, <2>1, LookingEnd DEF Serial!Undo, EngineTypeOK, Looking
  <2>. QED BY <1>1, <2>2
<1>3. CASE MayExclude(c)
  <2>1. Looking \subseteq {c}
    BY <1>3 DEF MayExclude, Looking
  <2>2. Looking' \in SUBSET Looking
    BY <1>0, LookingEnd
  <2>. QED BY <1>1, <2>1, <2>2 DEF Serial!Commit, Commit, Looking
<1>. QED BY <1>2, <1>3 DEF MayCommit, LockInv, DirtyLocked

\* A step of a thread is a step of SerialFile.
LEMMA SerialStep ==
    ASSUME EngineTypeOK, LockInv, NEW c \in Conn, EngineStep(c)
    PROVE  LockInv' /\ [Serial!Next]_Serial!vars
<1>. DEFINE Same == UNCHANGED <<lock, dirty, disk>>
<1>1. ASSUME Same PROVE LockInv' /\ [Serial!Next]_Serial!vars
  BY <1>1 DEF LockInv, DirtyLocked, Writing, Serial!vars
<1>2. ASSUME Serial!Look(c) PROVE Serial!Next
  BY <1>2 DEF Serial!Next
<1>3. ASSUME NEW some \in SUBSET dirty[c], Serial!Undo(c, some) PROVE Serial!Next
  BY <1>3 DEF Serial!Next
<1>4. ASSUME Serial!Commit(c) PROVE Serial!Next
  BY <1>4 DEF Serial!Next
<1>5. ASSUME WaitForReaders(c) PROVE LockInv' /\ Serial!Next
  <2>1. MayReserve(c)
    BY <1>5 DEF WaitForReaders, MayReserve, Writing
  <2>. QED BY <1>2, <1>5, <2>1, SerialLock DEF WaitForReaders, Locks
<1>6. ASSUME Reserve(c), MayReserve(c), UNCHANGED <<dirty, disk>>
      PROVE  LockInv' /\ Serial!Next
  BY <1>2, <1>6, SerialLock DEF Reserve, Writing, Locks
<1>7. CASE UNCHANGED engineVars
  BY <1>1, <1>7 DEF engineVars
<1>8. CASE ControlStep(c)
  <2>1. CASE EngineBegin(c)
    BY <1>1, <2>1 DEF EngineBegin
  <2>2. CASE EngineBeginImmediate(c)
    BY <1>6, <2>2 DEF EngineBeginImmediate
  <2>3. CASE EngineEnd(c)
    BY <1>3, <1>4, <2>3, SerialCommit DEF EngineEnd
  <2>4. CASE EngineRollback(c)
    BY <1>3, <2>4, SerialRollback DEF EngineRollback
  <2>5. CASE Reserve(c) /\ MayReserve(c) /\ UNCHANGED <<autoCommit, vm, dirty, disk>>
    BY <1>6, <2>5
  <2>. QED BY <1>5, <1>8, <2>1, <2>2, <2>3, <2>4, <2>5 DEF ControlStep
<1>9. ASSUME NEW s \in Stmt, NEW w \in Writes, StatementStep(c, s, w)
      PROVE  LockInv' /\ [Serial!Next]_Serial!vars
  <2>1. CASE Open(c, s, w) /\ IsWrite(s)
    <3>1. MayReserve(c) /\ Reserve(c) /\ disk' = disk
          /\ dirty' = [dirty EXCEPT ![c] = @ \cup {w}]
      BY <2>1 DEF Open, MayBegin
    <3>2. PICK l \in {"reserved", "pending"} : SetLock(c, l)
      BY <3>1 DEF Reserve, Writing
    <3>3. LockInv' /\ Looking' = Looking \cup {c}
      BY <3>1, <3>2, LookingChange DEF LockInv, DirtyLocked, MayReserve, Locks, EngineTypeOK
    <3>4. \A d \in Conn \ {c} : dirty[d] = {}
      BY <3>1 DEF LockInv, DirtyLocked, MayReserve
    <3>5. Serial!Make(c, w)
      BY <3>1, <3>3, <3>4 DEF Serial!Make, Looking
    <3>. QED BY <3>3, <3>5 DEF Serial!Next
  <2>2. CASE Open(c, s, w) /\ ~IsWrite(s)
    <3>1. CASE lock[c] = "none"
      <4>1. SetLock(c, "shared") /\ UNCHANGED <<dirty, disk>> /\ ~Writing(c)
        BY <2>2, <3>1 DEF Open, Writing
      <4>. QED BY <1>2, <4>1, SerialLock DEF Locks
    <3>2. CASE lock[c] # "none"
      BY <1>1, <2>2, <3>2 DEF Open, SetLock, EngineTypeOK
    <3>. QED BY <3>1, <3>2
  <2>3. CASE LeaveBusy(c, s) \/ HaltInTransaction(c, s)
    BY <1>1, <2>3 DEF LeaveBusy, HaltInTransaction
  <2>4. CASE HaltCommit(c, s)
    BY <1>3, <1>4, <2>4, SerialCommit DEF HaltCommit
  <2>5. CASE HaltBusy(c, s) \/ HaltSpecialError(c, s)
    BY <1>3, <2>5, SerialRollback DEF HaltBusy, HaltSpecialError
  <2>6. CASE HaltError(c, s, w)
    <3>1. CASE EndsTransaction(c, s)
      BY <1>3, <2>6, <3>1, SerialRollback DEF HaltError
    <3>2. CASE ~EndsTransaction(c, s)
      <4>1. UNCHANGED <<lock, disk>> /\ dirty' = [dirty EXCEPT ![c] = @ \ {w}]
        BY <2>6, <3>2 DEF HaltError
      <4>2. LockInv'
        BY <4>1 DEF LockInv, DirtyLocked, Writing, EngineTypeOK
      <4>3. PICK some \in SUBSET dirty[c] : some = {w} \cap dirty[c]
        OBVIOUS
      <4>4. dirty[c] \ {w} = dirty[c] \ some
        BY <4>3
      <4>5. Serial!Undo(c, some)
        BY <4>1, <4>4 DEF Serial!Undo
      <4>. QED BY <1>3, <4>2, <4>5
    <3>. QED BY <3>1, <3>2
  <2>7. CASE ResetBusy(c, s)
    BY <1>1, <1>3, <2>7, SerialRollback DEF ResetBusy
  <2>. QED BY <1>5, <1>9, <2>1, <2>2, <2>3, <2>4, <2>5, <2>6, <2>7
           DEF StatementStep
<1>. QED BY <1>7, <1>8, <1>9 DEF EngineStep

\* Whatever the program does and whatever fails, the connections share the file
\* as SerialFile promises: writers one at a time, no commit under a reader.
THEOREM SharesSeriallyHolds == Spec => SharesSerially
<1>1. Init => LockInv /\ Serial!Init
  BY DEF Init, EngineInit, LockInv, DirtyLocked, Writing, Serial!Init
<1>2. TypeOK /\ LockInv /\ [Next]_vars => LockInv' /\ [Serial!Next]_Serial!vars
  <2>. SUFFICES ASSUME EngineTypeOK, ClientTypeOK, LockInv, [Next]_vars
                PROVE  LockInv' /\ [Serial!Next]_Serial!vars
    BY DEF TypeOK, EngineTypeOK, ClientTypeOK
  <2>1. CASE UNCHANGED vars
    BY <2>1 DEF vars, LockInv, DirtyLocked, Writing, Serial!vars
  <2>2. ASSUME NEW c \in Conn, Start(c) \/ Step(c)
        PROVE  LockInv' /\ [Serial!Next]_Serial!vars
    BY <2>2, EnginePart, SerialStep
  <2>. QED BY <2>1, <2>2 DEF Next
<1>. QED BY <1>1, <1>2, TypeCorrect, PTL DEF Spec, Serial!Spec, SharesSerially

-----------------------------------------------------------------------------
(* SharedDatabase keeps every write whose success it reported, in a        *)
(* program that gives no timeout, drives no RETURNING cursor outside of a  *)
(* transaction, has no deferred foreign keys and meets no I/O error.  (For *)
(* each of the first two TLC finds a lost write without that assumption.)  *)

Settled == Usage \cap {"timed", "cursor", "deferred", "ioerr"} = {}

\* The wrapper and the engine agree about the transaction.
Agree(c) == (held[c] <=> ~autoCommit[c]) /\ (held[c] => inTx[c])

NoBusy(c) == \A s \in Stmt : vm[c][s] # "busy"

\* The write of a statement that runs is among the uncommitted ones.
WritesDirty(c) ==
    \A s \in Stmt : vm[c][s] = "open" /\ IsWrite(s) =>
        <<c, s, run[c][s]>> \in dirty[c]

\* Outside of a transaction a writing statement runs only inside its own call,
\* and no transaction call but END meets one.
CallSound(c) ==
    /\ ~call[c].timed
    /\ autoCommit[c] => \A s \in Writers(c) :
           call[c].fn \in {"exec", "read"} /\ call[c].stmt = s
    /\ call[c].fn \in ControlFns \ {"END"} => Writers(c) = {}
    /\ call[c].fn = "next" /\ IsWrite(call[c].stmt) => held[c]

\* Acknowledged writes are past ones,
AckedRuns(c) == \A w \in acked : w[1] = c => w[3] <= run[c][w[2]]

\* not the one a statement still works on.
Unacked(c) ==
    \A s \in Stmt :
        /\ IsWrite(s)
        /\ vm[c][s] = "open" \/ (Steps(c) /\ call[c].stmt = s)
        => <<c, s, run[c][s]>> \notin acked

AckedOf(c) ==
    \A w \in acked : w[1] = c => w \in disk \/ (held[c] /\ w \in dirty[c])

AckInv(c) ==
    /\ Agree(c) /\ NoBusy(c) /\ WritesDirty(c) /\ CallSound(c)
    /\ AckedRuns(c) /\ Unacked(c) /\ AckedOf(c)

-----------------------------------------------------------------------------
(* Steps of other threads.                                                 *)

\* A thread changes its own call, transaction, statements and acknowledgements.
LEMMA ClientLocality ==
    ASSUME ClientTypeOK, NEW c \in Conn, Start(c) \/ Step(c), DirtyOwn(c),
           NEW d \in Conn, d # c
    PROVE  /\ call'[d] = call[d] /\ inTx'[d] = inTx[d]
           /\ held'[d] = held[d] /\ run'[d] = run[d]
           /\ \A w : w[1] = d => (w \in acked' <=> w \in acked)
<1>1. CASE Start(c)
  <2>1. /\ UNCHANGED <<inTx, held, acked>>
        /\ \E x : call' = [call EXCEPT ![c] = x]
    BY <1>1 DEF Start, StartWrite, StartRead, StartCursor, StartNext,
                StartReset, StartBegin, StartFinish, Enter
  <2>2. UNCHANGED run \/ \E s \in Stmt : run' = [run EXCEPT ![c][s] = @ + 1]
    BY <1>1 DEF Start, StartWrite, StartRead, StartCursor, StartNext,
                StartReset, StartBegin, StartFinish, Starts
  <2>. QED BY <2>1, <2>2 DEF ClientTypeOK
<1>2. CASE Step(c)
  <2>1. UNCHANGED run
    BY <1>2 DEF Step, StepOpen, StepBusy, StepRow, StepDone, StepWait,
                StepCommitBusy, StepError, StepSpecialError, ResetStep,
                BeginStep, EndStep, EndWait, ControlBusy, EndViolated,
                RollbackStep, EndReturns, clientVars, vars
  <2>2. UNCHANGED call \/ call' = [call EXCEPT ![c] = Idle]
    BY <1>2 DEF Step, StepOpen, StepBusy, StepRow, StepDone, StepWait,
                StepCommitBusy, StepError, StepSpecialError, ResetStep,
                BeginStep, EndStep, EndWait, ControlBusy, EndViolated,
                RollbackStep, EndReturns, Finish, Retry, Return,
                clientVars, vars
  <2>3. /\ UNCHANGED inTx \/ \E b : inTx' = [inTx EXCEPT ![c] = b]
        /\ UNCHANGED held \/ \E b : held' = [held EXCEPT ![c] = b]
    BY <1>2 DEF Step, StepOpen, StepBusy, StepRow, StepDone, StepWait,
                StepCommitBusy, StepError, StepSpecialError, ResetStep,
                BeginStep, EndStep, EndWait, ControlBusy, EndViolated,
                RollbackStep, EndReturns, clientVars, vars
  <2>4. CASE StepDone(c) \/ ResetStep(c)
    <3>1. UNCHANGED acked \/ acked' = acked \cup {Write(c)}
      BY <2>4 DEF StepDone, ResetStep, Acknowledge
    <3>2. Write(c)[1] = c
      BY DEF Write
    <3>. QED BY <2>1, <2>2, <2>3, <3>1, <3>2 DEF ClientTypeOK
  <2>5. CASE RollbackStep(c)
    <3>1. acked' = acked \ dirty[c]
      BY <2>5 DEF RollbackStep
    <3>. QED BY <2>1, <2>2, <2>3, <3>1 DEF ClientTypeOK, DirtyOwn
  <2>6. CASE ~(StepDone(c) \/ ResetStep(c) \/ RollbackStep(c))
    <3>1. UNCHANGED acked
      BY <1>2, <2>6
         DEF Step, StepOpen, StepBusy, StepRow, StepWait,
             StepCommitBusy, StepError, StepSpecialError, BeginStep, EndStep,
             EndWait, ControlBusy, EndViolated, EndReturns, clientVars, vars
    <3>. QED BY <2>1, <2>2, <2>3, <3>1 DEF ClientTypeOK
  <2>. QED BY <2>4, <2>5, <2>6
<1>. QED BY <1>1, <1>2

\* So a thread keeps what AckInv says of the others.
LEMMA AckOthers ==
    ASSUME EngineTypeOK, ClientTypeOK, NEW c \in Conn, Start(c) \/ Step(c),
           DirtyOwn(c), DirtyLocked(c), NEW d \in Conn, d # c, AckInv(d)
    PROVE  AckInv(d)'
<1>1. EngineStep(c)
  BY EnginePart
<1>2. /\ autoCommit'[d] = autoCommit[d] /\ vm'[d] = vm[d]
      /\ dirty'[d] = dirty[d]
  BY <1>1, Locality
<1>3. disk \subseteq disk'
  BY <1>1, CommitAlone
<1>4. /\ call'[d] = call[d] /\ inTx'[d] = inTx[d]
      /\ held'[d] = held[d] /\ run'[d] = run[d]
      /\ \A w : w[1] = d => (w \in acked' <=> w \in acked)
  BY ClientLocality
<1>5. Agree(d)' /\ NoBusy(d)' /\ WritesDirty(d)'
  BY <1>2, <1>4 DEF AckInv, Agree, NoBusy, WritesDirty
<1>6. CallSound(d)'
  BY <1>2, <1>4 DEF AckInv, CallSound, Writers, Active
<1>7. AckedRuns(d)' /\ Unacked(d)'
  BY <1>2, <1>4 DEF AckInv, AckedRuns, Unacked, Steps
<1>8. AckedOf(d)'
  BY <1>2, <1>3, <1>4 DEF AckInv, AckedOf
<1>. QED BY <1>5, <1>6, <1>7, <1>8 DEF AckInv

-----------------------------------------------------------------------------
(* The thread's own steps.                                                 *)

\* AckInv holds when a call starts,
LEMMA AckStart ==
    ASSUME Settled, EngineTypeOK, ClientTypeOK, NEW c \in Conn, Start(c),
           AckInv(c)
    PROVE  AckInv(c)'
<1>. USE DEF AckInv
<1>1. IsIdle(c) /\ UNCHANGED <<engineVars, inTx, held, acked>>
  BY DEF Start, StartWrite, StartRead, StartCursor, StartNext, StartReset,
         StartBegin, StartFinish
<1>2. Agree(c)' /\ NoBusy(c)' /\ AckedOf(c)'
  BY <1>1 DEF Agree, NoBusy, AckedOf, engineVars
<1>3. Writers(c)' = Writers(c) /\ vm' = vm /\ dirty' = dirty
  BY <1>1 DEF engineVars, Writers, Active
<1>4. autoCommit[c] => Writers(c) = {}
  BY <1>1 DEF CallSound, IsIdle, Idle
<1>5. ASSUME NEW s \in Stmt, NEW fn \in {"exec", "read", "next"},
             Starts(c, s), Enter(c, fn, s, FALSE),
             fn = "next" /\ IsWrite(s) => held[c]
      PROVE  AckInv(c)'
  <2>1. call'[c] = [fn |-> fn, stmt |-> s, timed |-> FALSE]
    BY <1>5 DEF Enter, ClientTypeOK
  <2>2. CallSound(c)'
    <3>1. ~call'[c].timed
      BY <2>1
    <3>2. call'[c].fn = fn /\ call'[c].stmt = s
      BY <2>1
    <3>3. autoCommit' = autoCommit /\ held' = held
      BY <1>1 DEF engineVars
    <3>. QED BY <1>3, <1>4, <1>5, <3>1, <3>2, <3>3 DEF CallSound, ControlFns
  <2>3. \A x \in Stmt : run'[c][x] =
            IF x = s /\ IsWrite(s) THEN run[c][x] + 1 ELSE run[c][x]
    BY <1>5 DEF Starts, ClientTypeOK
  <2>4. WritesDirty(c)'
    <3>1. \A x \in Stmt : vm[c][x] = "open" => x # s
      BY <1>5 DEF Starts
    <3>. QED BY <1>3, <2>3, <3>1 DEF WritesDirty
  <2>5. \A x \in Stmt : run[c][x] \in Nat
    BY DEF ClientTypeOK
  <2>6. AckedRuns(c)'
    <3>. SUFFICES ASSUME NEW w \in acked, w[1] = c
                  PROVE  w[3] <= run'[c][w[2]]
      BY <1>1 DEF AckedRuns
    <3>1. w[2] \in Stmt /\ w[3] \in Nat
      BY DEF ClientTypeOK, Writes
    <3>2. w[3] <= run[c][w[2]]
      BY DEF AckedRuns
    <3>. QED BY <2>3, <2>5, <3>1, <3>2
  <2>7. Unacked(c)'
    <3>. SUFFICES ASSUME NEW x \in Stmt, IsWrite(x),
                         vm[c][x] = "open" \/ x = s
                  PROVE  <<c, x, run'[c][x]>> \notin acked
      BY <1>1, <1>3, <2>1 DEF Unacked, Steps
    <3>1. CASE x = s
      BY <2>3, <2>5, <3>1 DEF AckedRuns
    <3>2. CASE x # s
      BY <2>3, <3>2 DEF Unacked
    <3>. QED BY <3>1, <3>2
  <2>. QED BY <1>2, <2>2, <2>4, <2>6, <2>7
<1>6. ASSUME UNCHANGED run, NEW fn, NEW s, Enter(c, fn, s, FALSE),
             fn \in ControlFns \ {"END"} => Writers(c) = {},
             fn = "next" => s \in Stmt /\ vm[c][s] = "open",
             fn \in {"reset", "next"} \cup ControlFns
      PROVE  AckInv(c)'
  <2>1. call'[c] = [fn |-> fn, stmt |-> s, timed |-> FALSE]
    BY <1>6 DEF Enter, ClientTypeOK
  <2>2. fn = "next" /\ IsWrite(s) => held[c]
    <3>1. fn = "next" /\ IsWrite(s) => s \in Writers(c)
      BY <1>6 DEF Writers, Active
    <3>. QED BY <1>4, <3>1 DEF Agree
  <2>3. CallSound(c)'
    BY <1>1, <1>3, <1>4, <1>6, <2>1, <2>2 DEF CallSound, engineVars
  <2>4. WritesDirty(c)' /\ AckedRuns(c)'
    BY <1>1, <1>3, <1>6 DEF WritesDirty, AckedRuns
  <2>5. Unacked(c)'
    <3>1. fn \in StepFns => fn = "next"
      BY <1>6 DEF StepFns, ControlFns
    <3>2. call'[c].fn = fn /\ call'[c].stmt = s
      BY <2>1
    <3>. QED BY <1>1, <1>3, <1>6, <3>1, <3>2 DEF Unacked, Steps
  <2>. QED BY <1>2, <2>3, <2>4, <2>5
<1>7. ASSUME NEW s \in Stmt, NEW timed \in Timeouts,
             StartWrite(c, s, timed) \/ StartRead(c, s, timed)
      PROVE  AckInv(c)'
  <2>1. timed = FALSE
    <3>1. "timed" \notin Usage
      BY DEF Settled
    <3>2. {x \in {TRUE} : "timed" \in Usage} = {}
      BY <3>1
    <3>3. timed \in {FALSE} \cup {}
      BY <3>2 DEF Timeouts
    <3>. QED BY <3>3, Zenon
  <2>2. Starts(c, s) /\ (Enter(c, "exec", s, FALSE) \/ Enter(c, "read", s, FALSE))
    BY <1>7, <2>1 DEF StartWrite, StartRead
  <2>. QED BY <1>5, <2>2
<1>8. ASSUME NEW s \in Stmt, StartCursor(c, s)
      PROVE  AckInv(c)'
  BY <1>5, <1>8 DEF StartCursor, Settled
<1>9. ASSUME NEW s \in Stmt, StartNext(c, s) \/ StartReset(c, s)
      PROVE  AckInv(c)'
  BY <1>6, <1>9 DEF StartNext, StartReset, ControlFns
<1>10. ASSUME NEW fn \in ControlFns, StartBegin(c, fn) \/ StartFinish(c, fn)
       PROVE  AckInv(c)'
  <2>1. CursorsAllow(c, fn) /\ UNCHANGED run /\ Enter(c, fn, NoStmt, FALSE)
    BY <1>10 DEF StartBegin, StartFinish
  <2>2. fn # "END" => Writers(c) = {}
    BY <2>1 DEF CursorsAllow, Writers, Active, NoBusy, Settled
  <2>3. fn # "next"
    BY DEF ControlFns
  <2>. QED BY <1>6, <2>1, <2>2, <2>3
<1>. QED BY <1>7, <1>8, <1>9, <1>10 DEF Start, ControlFns

\* when a statement ends that was the whole transaction or leaves the other
\* statements' writes alone,
LEMMA AckHalt ==
    ASSUME EngineTypeOK, ClientTypeOK, NEW c \in Conn, AckInv(c),
           Steps(c) \/ call[c].fn = "reset",
           SetVm(c, call[c].stmt, "stopped"),
           UNCHANGED <<autoCommit, inTx, held, run>>,
           call' = call \/ Return(c),
           \/ EndsTransaction(c, call[c].stmt)
           \/ dirty[c] \ {Write(c)} \subseteq dirty'[c]
    PROVE  /\ Agree(c)' /\ NoBusy(c)' /\ WritesDirty(c)' /\ CallSound(c)'
           /\ UNCHANGED acked => AckedRuns(c)' /\ Unacked(c)'
<1>. DEFINE s == call[c].stmt
<1>1. s \in Stmt
  BY CallNamesStatement DEF Steps
<1>2. \A x \in Stmt : vm'[c][x] = IF x = s THEN "stopped" ELSE vm[c][x]
  BY <1>1 DEF SetVm, EngineTypeOK
<1>3. Writers(c)' = Writers(c) \ {s}
  BY <1>2 DEF Writers, Active
<1>4. Agree(c)' /\ NoBusy(c)'
  BY <1>2 DEF AckInv, Agree, NoBusy
<1>5. WritesDirty(c)'
  <2>. SUFFICES ASSUME NEW x \in Stmt, vm'[c][x] = "open", IsWrite(x)
                PROVE  <<c, x, run[c][x]>> \in dirty'[c]
    BY DEF WritesDirty
  <2>1. x # s /\ vm[c][x] = "open" /\ x \in Writers(c)
    BY <1>2 DEF Writers, Active
  <2>2. ~EndsTransaction(c, s)
    BY <2>1 DEF EndsTransaction
  <2>3. <<c, x, run[c][x]>> \in dirty[c] /\ <<c, x, run[c][x]>> # Write(c)
    BY <2>1 DEF AckInv, WritesDirty, Write
  <2>. QED BY <2>2, <2>3
<1>6. CallSound(c)'
  <2>1. autoCommit[c] => Writers(c)' = {}
    BY <1>3 DEF AckInv, CallSound
  <2>2. CASE call' = call
    BY <1>3, <2>1, <2>2 DEF AckInv, CallSound
  <2>3. CASE Return(c)
    <3>1. call'[c] = Idle
      BY <2>3 DEF Return, ClientTypeOK
    <3>2. ~call'[c].timed /\ call'[c].fn = "idle"
      BY <3>1 DEF Idle
    <3>. QED BY <2>1, <3>2 DEF CallSound, ControlFns
  <2>. QED BY <2>2, <2>3
<1>7. UNCHANGED acked => AckedRuns(c)'
  BY DEF AckInv, AckedRuns
<1>8. UNCHANGED acked => Unacked(c)'
  <2>1. Steps(c)' => call' = call
    <3>1. Return(c) => call'[c].fn = "idle"
      BY DEF Return, ClientTypeOK, Idle
    <3>. QED BY <3>1 DEF Steps, StepFns
  <2>. QED BY <1>2, <2>1 DEF AckInv, Unacked, Steps
<1>. QED BY <1>4, <1>5, <1>6, <1>7, <1>8

\* when a step of a statement says that the transaction is kept,
LEMMA AckKept ==
    ASSUME EngineTypeOK, ClientTypeOK, NEW c \in Conn, AckInv(c),
           Steps(c) \/ call[c].fn = "reset",
           HaltInTransaction(c, call[c].stmt) \/ HaltCommit(c, call[c].stmt),
           vm[c][call[c].stmt] = "open", Finish(c), Acknowledge(c),
           UNCHANGED <<inTx, held, run>>
    PROVE  AckInv(c)'
<1>. DEFINE s == call[c].stmt
<1>1. s \in Stmt /\ Write(c)[1] = c /\ Write(c) = <<c, s, run[c][s]>>
  BY CallNamesStatement DEF Steps, Write
<1>2. /\ SetVm(c, s, "stopped") /\ UNCHANGED autoCommit /\ Return(c)
      /\ EndsTransaction(c, s) \/ dirty[c] \ {Write(c)} \subseteq dirty'[c]
  BY DEF HaltInTransaction, HaltCommit, Finish
<1>3. Agree(c)' /\ NoBusy(c)' /\ WritesDirty(c)' /\ CallSound(c)'
  BY <1>2, AckHalt
<1>4. \A w \in dirty[c] : w \in disk' \/ (held[c] /\ w \in dirty'[c])
  <2>1. CASE HaltInTransaction(c, s)
    <3>1. autoCommit[c] => Writers(c) \subseteq {s}
      BY DEF AckInv, CallSound
    <3>. QED BY <2>1, <3>1 DEF HaltInTransaction, EndsTransaction, AckInv, Agree
  <2>2. CASE HaltCommit(c, s)
    BY <2>2 DEF HaltCommit, Commit
  <2>. QED BY <2>1, <2>2
<1>5. disk \subseteq disk'
  BY DEF HaltInTransaction, HaltCommit, Commit
<1>6. acked' \subseteq acked \cup {Write(c)}
      /\ (IsWrite(s) => Write(c) \in dirty[c]) /\ (~IsWrite(s) => acked' = acked)
  BY <1>1 DEF Acknowledge, AckInv, WritesDirty
<1>7. AckedOf(c)'
  BY <1>4, <1>5, <1>6 DEF AckInv, AckedOf
<1>8. AckedRuns(c)'
  <2>1. run[c][s] \in Nat
    BY <1>1 DEF ClientTypeOK
  <2>. QED BY <1>1, <1>6, <2>1 DEF AckInv, AckedRuns
<1>9. Unacked(c)'
  <2>1. ~Steps(c)'
    BY <1>2 DEF Return, ClientTypeOK, Idle, Steps, StepFns
  <2>2. \A x \in Stmt : vm'[c][x] = "open" => x # s /\ vm[c][x] = "open"
    BY <1>1, <1>2 DEF SetVm, EngineTypeOK
  <2>. QED BY <1>1, <1>6, <2>1, <2>2 DEF AckInv, Unacked
<1>. QED BY <1>3, <1>7, <1>8, <1>9 DEF AckInv

\* when one says that it was rolled back,
LEMMA AckRolledBack ==
    ASSUME EngineTypeOK, ClientTypeOK, NEW c \in Conn, AckInv(c),
           Steps(c) \/ call[c].fn = "reset",
           SetVm(c, call[c].stmt, "stopped"),
           UNCHANGED <<autoCommit, inTx, held, run, acked>>,
           call' = call \/ Return(c), disk \subseteq disk',
           \/ EndsTransaction(c, call[c].stmt)
           \/ dirty'[c] = dirty[c]
           \/ /\ dirty'[c] = dirty[c] \ {Write(c)}
              /\ Steps(c) /\ IsWrite(call[c].stmt)
    PROVE  AckInv(c)'
<1>. DEFINE s == call[c].stmt
<1>1. s \in Stmt
  BY CallNamesStatement DEF Steps
<1>2. EndsTransaction(c, s) \/ dirty[c] \ {Write(c)} \subseteq dirty'[c]
  OBVIOUS
<1>3. /\ Agree(c)' /\ NoBusy(c)' /\ WritesDirty(c)' /\ CallSound(c)'
      /\ AckedRuns(c)' /\ Unacked(c)'
  BY <1>2, AckHalt
<1>4. AckedOf(c)'
  <2>1. CASE EndsTransaction(c, s)
    BY <2>1 DEF EndsTransaction, AckInv, Agree, AckedOf
  <2>2. CASE dirty'[c] = dirty[c]
    BY <2>2 DEF AckInv, AckedOf
  <2>3. CASE dirty'[c] = dirty[c] \ {Write(c)} /\ Steps(c) /\ IsWrite(s)
    <3>1. Write(c) \notin acked
      BY <1>1, <2>3 DEF AckInv, Unacked, Write
    <3>. QED BY <2>3, <3>1 DEF AckInv, AckedOf
  <2>. QED BY <2>1, <2>2, <2>3
<1>. QED BY <1>3, <1>4 DEF AckInv

\* and when a transaction begins or ends.
LEMMA AckControl ==
    ASSUME Settled, EngineTypeOK, ClientTypeOK, NEW c \in Conn, AckInv(c),
           BeginStep(c) \/ EndStep(c) \/ RollbackStep(c)
    PROVE  AckInv(c)'
<1>0. Writers(c) = {}
  BY DEF BeginStep, EndStep, RollbackStep, EngineEnd, ControlFns, AckInv,
         CallSound
<1>1. Writers(c) = {} /\ UNCHANGED <<vm, run>> /\ call'[c] = Idle
  BY <1>0 DEF BeginStep, EndStep, EndReturns, RollbackStep, Return, EngineBegin,
         EngineBeginImmediate, EngineEnd, EngineRollback, engineVars,
         ClientTypeOK
<1>2. NoBusy(c)' /\ Writers(c)' = {}
  BY <1>1 DEF AckInv, NoBusy, Writers, Active
<1>3. \A x \in Stmt : IsWrite(x) => vm'[c][x] # "open"
  BY <1>1 DEF Writers, Active
<1>4. call'[c].fn = "idle" /\ ~call'[c].timed
  BY <1>1 DEF Idle
<1>5. WritesDirty(c)' /\ CallSound(c)' /\ Unacked(c)'
  BY <1>2, <1>3, <1>4
     DEF WritesDirty, CallSound, Unacked, Steps, StepFns, ControlFns
<1>6. acked' \subseteq acked
  BY DEF BeginStep, EndStep, EndReturns, RollbackStep
<1>7. AckedRuns(c)'
  BY <1>1, <1>6 DEF AckInv, AckedRuns
<1>8. Agree(c)' /\ AckedOf(c)'
  <2>1. CASE BeginStep(c)
    <3>1. /\ held'[c] = TRUE /\ inTx'[c] = TRUE /\ autoCommit'[c] = FALSE
          /\ UNCHANGED <<dirty, disk, acked>>
      BY <2>1 DEF BeginStep, EngineBegin, EngineBeginImmediate, engineVars,
                  ClientTypeOK, EngineTypeOK
    <3>. QED BY <3>1 DEF AckInv, Agree, AckedOf
  <2>2. CASE EndStep(c)
    <3>1. /\ held'[c] = FALSE /\ autoCommit'[c] = TRUE /\ UNCHANGED acked
      BY <2>2 DEF EndStep, EndReturns, EngineEnd, engineVars,
                  ClientTypeOK, EngineTypeOK
    <3>2. disk' = disk \cup dirty[c] \/ (autoCommit[c] /\ disk' = disk)
      BY <2>2 DEF EndStep, EngineEnd, Commit, engineVars
    <3>. QED BY <3>1, <3>2 DEF AckInv, Agree, AckedOf
  <2>3. CASE RollbackStep(c)
    <3>1. /\ held'[c] = FALSE /\ autoCommit'[c] = TRUE
          /\ acked' = acked \ dirty[c] /\ disk' = disk
      BY <2>3 DEF RollbackStep, EngineRollback, RollbackAll, engineVars,
                  ClientTypeOK, EngineTypeOK
    <3>. QED BY <3>1 DEF AckInv, Agree, AckedOf
  <2>. QED BY <2>1, <2>2, <2>3
<1>. QED BY <1>2, <1>5, <1>7, <1>8 DEF AckInv

\* AckInv holds after every step of a call.
LEMMA AckStep ==
    ASSUME Settled, EngineTypeOK, ClientTypeOK, NEW c \in Conn, Step(c),
           AckInv(c)
    PROVE  AckInv(c)'
<1>. DEFINE s == call[c].stmt
<1>. USE DEF AckInv
<1>1. CASE StepOpen(c)
  <2>1. s \in Stmt /\ Write(c) = <<c, s, run[c][s]>>
    BY <1>1, CallNamesStatement DEF StepOpen, Steps, Write
  <2>2. Open(c, s, Write(c)) /\ UNCHANGED clientVars /\ Steps(c)
    BY <1>1 DEF StepOpen
  <2>3. \A x \in Stmt : vm'[c][x] = IF x = s THEN "open" ELSE vm[c][x]
    BY <2>1, <2>2 DEF Open, SetVm, EngineTypeOK
  <2>4. dirty'[c] = IF IsWrite(s) THEN dirty[c] \cup {Write(c)} ELSE dirty[c]
    BY <2>2 DEF Open, EngineTypeOK
  <2>5. UNCHANGED <<autoCommit, disk, call, inTx, held, run, acked>>
    BY <2>2 DEF Open, clientVars
  <2>6. Agree(c)' /\ NoBusy(c)' /\ WritesDirty(c)' /\ AckedRuns(c)' /\ AckedOf(c)'
    BY <2>1, <2>3, <2>4, <2>5 DEF Agree, NoBusy, WritesDirty, AckedRuns, AckedOf
  <2>7. Unacked(c)'
    BY <2>2, <2>3, <2>5 DEF Unacked, Steps
  <2>8. Writers(c)' \subseteq Writers(c) \cup {x \in {s} : IsWrite(s)}
    BY <2>3 DEF Writers, Active
  <2>9. autoCommit[c] /\ IsWrite(s) => call[c].fn \in {"exec", "read"}
    BY <2>2 DEF Steps, StepFns, CallSound, Agree
  <2>10. call[c].fn \notin ControlFns
    BY <2>2 DEF Steps, StepFns, ControlFns
  <2>11. CallSound(c)'
    BY <2>5, <2>8, <2>9, <2>10 DEF CallSound
  <2>. QED BY <2>6, <2>7, <2>11
<1>2. CASE StepBusy(c)
  <2>1. Steps(c) /\ BusyThenReset(c, s) /\ Retry(c) /\ UNCHANGED <<inTx, held, run, acked>>
    BY <1>2 DEF StepBusy, CallSound
  <2>2. /\ SetVm(c, s, "stopped") /\ call' = call
        /\ UNCHANGED autoCommit /\ disk \subseteq disk'
        /\ EndsTransaction(c, s) \/ dirty'[c] = dirty[c]
    BY <2>1 DEF BusyThenReset, ResetBusy, RollbackAll, Retry
  <2>. QED BY <2>1, <2>2, AckRolledBack
<1>3. CASE StepCommitBusy(c)
  <2>1. Steps(c) /\ HaltBusy(c, s) /\ Retry(c) /\ UNCHANGED <<inTx, held, run, acked>>
    BY <1>3 DEF StepCommitBusy, CallSound
  <2>2. /\ SetVm(c, s, "stopped") /\ call' = call
        /\ UNCHANGED autoCommit /\ disk \subseteq disk' /\ EndsTransaction(c, s)
    BY <2>1 DEF HaltBusy, RollbackAll, Retry
  <2>. QED BY <2>1, <2>2, AckRolledBack
<1>4. CASE StepError(c)
  <2>1. /\ Steps(c) /\ HaltError(c, s, Write(c)) /\ IsWrite(s) /\ Return(c)
        /\ UNCHANGED <<inTx, held, run, acked>>
    BY <1>4 DEF StepError, Finish
  <2>2. /\ SetVm(c, s, "stopped")
        /\ UNCHANGED autoCommit /\ disk \subseteq disk'
        /\ EndsTransaction(c, s) \/ dirty'[c] = dirty[c] \ {Write(c)}
    BY <2>1 DEF HaltError, RollbackAll, EngineTypeOK
  <2>. QED BY <2>1, <2>2, AckRolledBack
<1>5. CASE StepDone(c)
  BY <1>5, AckKept DEF StepDone
<1>6. CASE ResetStep(c)
  <2>1. s \in Stmt /\ call[c].fn = "reset"
    BY <1>6, CallNamesStatement DEF ResetStep
  <2>2. CASE HaltInTransaction(c, s) \/ HaltCommit(c, s)
    <3>1. vm[c][s] = "open" /\ Finish(c) /\ Acknowledge(c) /\ UNCHANGED <<inTx, held, run>>
      BY <1>6, <2>1, <2>2 DEF ResetStep, NoBusy
    <3>. QED BY <2>1, <2>2, <3>1, AckKept
  <2>3. CASE HaltBusy(c, s) /\ Acknowledge(c)
    <3>1. EndsTransaction(c, s) /\ SetVm(c, s, "stopped") /\ UNCHANGED autoCommit
          /\ disk \subseteq disk' /\ Return(c) /\ UNCHANGED <<inTx, held, run>>
      BY <1>6, <2>3 DEF HaltBusy, RollbackAll, ResetStep, Finish
    <3>2. vm[c][s] = "open"
      BY <1>6, <2>1 DEF ResetStep, NoBusy
    <3>3. s \notin Writers(c)
      BY <2>1, <3>1 DEF CallSound, EndsTransaction
    <3>4. UNCHANGED acked
      BY <2>1, <2>3, <3>2, <3>3 DEF Acknowledge, Writers, Active
    <3>. QED BY <2>1, <3>1, <3>4, AckRolledBack
  <2>. QED BY <1>6, <2>1, <2>2, <2>3 DEF ResetStep, NoBusy
<1>7. CASE StepRow(c)
  <2>1. /\ UNCHANGED <<engineVars, inTx, held, run, acked>> /\ Steps(c)
        /\ UNCHANGED call \/ (call[c].fn = "next" /\ Return(c))
    BY <1>7 DEF StepRow
  <2>2. /\ Agree(c)' /\ NoBusy(c)' /\ WritesDirty(c)'
        /\ AckedRuns(c)' /\ AckedOf(c)'
    BY <2>1 DEF engineVars, Agree, NoBusy, WritesDirty, AckedRuns, AckedOf
  <2>3. Writers(c)' = Writers(c) /\ autoCommit' = autoCommit /\ vm' = vm
    BY <2>1 DEF engineVars, Writers, Active
  <2>4. CASE UNCHANGED call
    BY <2>1, <2>2, <2>3, <2>4 DEF CallSound, Unacked, Steps
  <2>5. CASE call[c].fn = "next" /\ Return(c)
    <3>1. call'[c] = Idle
      BY <2>5 DEF Return, ClientTypeOK
    <3>2. call'[c].fn = "idle" /\ ~call'[c].timed
      BY <3>1 DEF Idle
    <3>3. autoCommit[c] => Writers(c) = {}
      BY <2>5 DEF CallSound
    <3>4. CallSound(c)'
      BY <2>3, <3>2, <3>3 DEF CallSound, ControlFns
    <3>5. Unacked(c)'
      BY <2>1, <2>3, <3>2 DEF Unacked, Steps, StepFns
    <3>. QED BY <2>2, <3>4, <3>5
  <2>. QED BY <2>1, <2>4, <2>5
<1>8. CASE StepWait(c) \/ EndWait(c) \/ ControlBusy(c)
  <2>1. UNCHANGED <<autoCommit, vm, dirty, disk, call, inTx, held, run, acked>>
    BY <1>8 DEF StepWait, EndWait, ControlBusy, WaitForReaders, clientVars, vars
  <2>. QED BY <2>1 DEF Agree, NoBusy, WritesDirty, CallSound, AckedRuns,
                       Unacked, AckedOf, Writers, Active, Steps
<1>9. CASE BeginStep(c) \/ EndStep(c) \/ RollbackStep(c)
  BY <1>9, AckControl
<1>10. ~StepSpecialError(c) /\ ~EndViolated(c)
  BY DEF Settled, StepSpecialError, EndViolated
<1>. QED BY <1>1, <1>2, <1>3, <1>4, <1>5, <1>6, <1>7, <1>8, <1>9, <1>10
         DEF Step

-----------------------------------------------------------------------------
AllAckInv == \A c \in Conn : AckInv(c)

LEMMA AckInvHolds ==
    ASSUME Settled
    PROVE  Spec => []AllAckInv
<1>1. Init => AllAckInv
  <2>. SUFFICES ASSUME Init, NEW c \in Conn PROVE AckInv(c)
    BY DEF AllAckInv
  <2>1. /\ autoCommit[c] = TRUE /\ held[c] = FALSE /\ acked = {}
        /\ \A s \in Stmt : vm[c][s] = "stopped"
        /\ call[c] = Idle
    BY DEF Init, EngineInit
  <2>2. call[c].fn = "idle" /\ ~call[c].timed
    BY <2>1 DEF Idle
  <2>3. Writers(c) = {}
    BY <2>1 DEF Writers, Active
  <2>. QED BY <2>1, <2>2, <2>3
           DEF AckInv, Agree, NoBusy, WritesDirty, CallSound, AckedRuns,
               Unacked, AckedOf, Steps, StepFns, ControlFns
<1>2. TypeOK /\ StableInv /\ AllAckInv /\ [Next]_vars => AllAckInv'
  <2>. SUFFICES ASSUME EngineTypeOK, ClientTypeOK, StableInv, AllAckInv,
                       [Next]_vars, NEW d \in Conn
                PROVE  AckInv(d)'
    BY DEF TypeOK, EngineTypeOK, ClientTypeOK, AllAckInv
  <2>1. CASE UNCHANGED vars
    BY <2>1 DEF vars, AllAckInv, AckInv, Agree, NoBusy, WritesDirty, CallSound,
                AckedRuns, Unacked, AckedOf, Writers, Active, Steps
  <2>2. ASSUME NEW c \in Conn, Start(c) \/ Step(c)
        PROVE  AckInv(d)'
    <3>1. AckInv(d) /\ DirtyOwn(c) /\ DirtyLocked(c)
      BY DEF AllAckInv, StableInv
    <3>2. CASE c = d
      BY <2>2, <3>1, <3>2, AckStart, AckStep
    <3>3. CASE c # d
      BY <2>2, <3>1, <3>3, AckOthers
    <3>. QED BY <3>2, <3>3
  <2>. QED BY <2>1, <2>2 DEF Next
<1>. QED BY <1>1, <1>2, TypeCorrect, StableInvHolds, PTL DEF Spec

\* In a settled program no acknowledged write is ever taken back, whatever the
\* number of threads, of statements and of retries.
THEOREM AckedSafeHolds ==
    ASSUME Settled
    PROVE  Spec => []AckedSafe
<1>1. TypeOK /\ AllAckInv => AckedSafe
  <2>. SUFFICES ASSUME TypeOK, AllAckInv, NEW w \in acked
                PROVE  w \in disk \/ (held[w[1]] /\ w \in dirty[w[1]])
    BY DEF AckedSafe
  <2>1. w[1] \in Conn
    BY DEF TypeOK, Writes
  <2>. QED BY <2>1 DEF AllAckInv, AckInv, AckedOf
<1>. QED BY <1>1, AckInvHolds, TypeCorrect, PTL

\* In a settled program the transaction objects and isInTransaction() agree
\* with SQLite about whether a transaction is open.
THEOREM InTransactionSoundHolds ==
    ASSUME Settled
    PROVE  Spec => []InTransactionSound
<1>1. AllAckInv => InTransactionSound
  BY DEF AllAckInv, AckInv, Agree, InTransactionSound
<1>. QED BY <1>1, AckInvHolds, PTL

-----------------------------------------------------------------------------
(* Isolation of transactions.                                              *)

\* In an explicit transaction only END commits, and only END and ROLLBACK give
\* up the lock.
LEMMA HeldStep ==
    ASSUME Settled, EngineTypeOK, ClientTypeOK, NEW c \in Conn, Step(c),
           AckInv(c), held[c]
    PROVE  /\ call[c].fn # "END" => disk' = disk
           /\ held'[c] /\ lock[c] # "none" => lock'[c] # "none" /\ disk' = disk
<1>. DEFINE s == call[c].stmt
<1>1. ~EndsTransaction(c, s)
  BY DEF EndsTransaction, AckInv, Agree
<1>2. CASE \/ StepOpen(c) \/ StepBusy(c) \/ StepDone(c) \/ StepCommitBusy(c)
           \/ StepError(c) \/ ResetStep(c)
  <2>1. \/ Open(c, s, Write(c)) \/ LeaveBusy(c, s) \/ ResetBusy(c, s)
        \/ HaltInTransaction(c, s) \/ HaltError(c, s, Write(c))
    BY <1>1, <1>2 DEF StepOpen, StepBusy, StepDone, StepCommitBusy, StepError,
                      ResetStep, BusyThenReset, HaltCommit, HaltBusy
  <2>2. UNCHANGED disk
    BY <1>1, <2>1 DEF Open, LeaveBusy, ResetBusy, HaltInTransaction, HaltError
  <2>3. lock[c] # "none" => lock'[c] # "none"
    BY <1>1, <2>1 DEF Open, LeaveBusy, ResetBusy, HaltInTransaction, HaltError,
                      Reserve, Writing, SetLock, EngineTypeOK
  <2>. QED BY <2>2, <2>3
<1>3. CASE StepRow(c) \/ ControlBusy(c)
  BY <1>3 DEF StepRow, ControlBusy, vars, engineVars
<1>4. CASE StepWait(c) \/ EndWait(c)
  BY <1>4 DEF StepWait, EndWait, WaitForReaders, SetLock, EngineTypeOK
<1>5. CASE BeginStep(c)
  BY <1>5 DEF BeginStep, EngineBegin, EngineBeginImmediate, Reserve, Writing,
              SetLock, engineVars, EngineTypeOK
<1>6. CASE EndStep(c)
  BY <1>6 DEF EndStep, EndReturns, ClientTypeOK
<1>7. CASE RollbackStep(c)
  BY <1>7 DEF RollbackStep, EngineRollback, RollbackAll, engineVars, ClientTypeOK
<1>8. ~StepSpecialError(c) /\ ~EndViolated(c)
  BY DEF Settled, StepSpecialError, EndViolated
<1>. QED BY <1>2, <1>3, <1>4, <1>5, <1>6, <1>7, <1>8 DEF Step

\* In a settled program nothing a thread writes in a transaction is durable
\* before its endTransaction commits.
THEOREM TransactionAtomicHolds ==
    ASSUME Settled
    PROVE  Spec => TransactionAtomic
<1>1. TypeOK /\ StableInv /\ AllAckInv /\ [Next]_vars =>
          [\A c \in Conn : held[c] /\ call[c].fn # "END" =>
               WritesOf(c)' = WritesOf(c)]_vars
  <2>. SUFFICES ASSUME EngineTypeOK, ClientTypeOK, StableInv, AllAckInv,
                       NEW d \in Conn, Start(d) \/ Step(d),
                       NEW c \in Conn, held[c], call[c].fn # "END"
                PROVE  WritesOf(c)' = WritesOf(c)
    BY DEF TypeOK, EngineTypeOK, ClientTypeOK, Next
  <2>1. EngineStep(d)
    BY EnginePart
  <2>2. CASE c = d
    <3>1. CASE Start(d)
      BY <3>1 DEF Start, StartWrite, StartRead, StartCursor, StartNext,
                  StartReset, StartBegin, StartFinish, engineVars, WritesOf
    <3>2. CASE Step(d)
      BY <2>2, <3>2, HeldStep DEF AllAckInv, WritesOf
    <3>. QED BY <3>1, <3>2
  <2>3. CASE c # d
    BY <2>1, <2>3, CommitAlone DEF StableInv, DirtyOwn, WritesOf
  <2>. QED BY <2>2, <2>3
<1>. QED BY <1>1, AckInvHolds, TypeCorrect, StableInvHolds, PTL
         DEF Spec, TransactionAtomic

\* In a settled program a transaction that has taken its lock keeps it, and no
\* other connection commits before the transaction ends.
THEOREM RepeatableReadsHolds ==
    ASSUME Settled
    PROVE  Spec => RepeatableReads
<1>1. TypeOK /\ TypeOK' /\ StableInv /\ AllAckInv /\ [Next]_vars =>
          [\A c \in Conn : held[c] /\ held'[c] /\ lock[c] # "none" =>
               OthersQuiet(c) /\ lock'[c] # "none"]_vars
  <2>. SUFFICES ASSUME EngineTypeOK, ClientTypeOK, StableInv, AllAckInv,
                       NEW d \in Conn, Start(d) \/ Step(d),
                       NEW c \in Conn, held[c], held'[c], lock[c] # "none"
                PROVE  OthersQuiet(c) /\ lock'[c] # "none"
    BY DEF TypeOK, EngineTypeOK, ClientTypeOK, Next
  <2>1. EngineStep(d)
    BY EnginePart
  <2>2. CASE c = d
    <3>1. CASE Start(d)
      BY <2>2, <3>1
         DEF Start, StartWrite, StartRead, StartCursor, StartNext, StartReset,
             StartBegin, StartFinish, engineVars, OthersQuiet
    <3>2. CASE Step(d)
      BY <2>2, <3>2, HeldStep DEF AllAckInv, OthersQuiet
    <3>. QED BY <3>1, <3>2
  <2>3. CASE c # d
    <3>1. disk' = disk
      BY <2>1, <2>3, CommitAlone DEF MayExclude, StableInv
    <3>2. lock'[c] = lock[c]
      BY <2>1, <2>3, Locality
    <3>. QED BY <3>1, <3>2 DEF OthersQuiet
  <2>. QED BY <2>2, <2>3
<1>. QED BY <1>1, AckInvHolds, TypeCorrect, StableInvHolds, PTL
         DEF Spec, RepeatableReads

-----------------------------------------------------------------------------
(* Rows.                                                                   *)

Executes(c, s) == call[c].fn = "exec" /\ call[c].stmt = s

\* The rows of an execution are counted from its start.
RowsInv(c) ==
    \A s \in Stmt :
        /\ vm[c][s] # "open" => pos[c][s] = 0
        /\ vm[c][s] = "open" /\ ~Executes(c, s) => got[c][s] = pos[c][s]
        /\ vm[c][s] # "open" /\ Steps(c) /\ call[c].stmt = s
               /\ ~Executes(c, s) => got[c][s] = 0

LEMMA RowsLocality ==
    ASSUME ClientTypeOK, NEW c \in Conn, Start(c) \/ Step(c),
           NEW d \in Conn, d # c
    PROVE  pos'[d] = pos[d] /\ got'[d] = got[d] /\ call'[d] = call[d]
<1>1. CASE Start(c)
  BY <1>1 DEF Start, StartWrite, StartRead, StartCursor, StartNext, StartReset,
              StartBegin, StartFinish, Starts, Enter, ClientTypeOK
<1>2. CASE Step(c)
  <2>1. /\ UNCHANGED pos \/ \E s, n : pos' = [pos EXCEPT ![c][s] = n]
        /\ UNCHANGED got \/ \E s, n : got' = [got EXCEPT ![c][s] = n]
        /\ UNCHANGED call \/ call' = [call EXCEPT ![c] = Idle]
    BY <1>2 DEF Step, StepOpen, StepBusy, StepRow, StepDone, StepWait,
                StepCommitBusy, StepError, StepSpecialError, ResetStep,
                BeginStep, EndStep, EndWait, ControlBusy, EndViolated,
                RollbackStep, EndReturns, Finish, Retry, Return,
                clientVars, vars
  <2>. QED BY <2>1 DEF ClientTypeOK
<1>. QED BY <1>1, <1>2

LEMMA RowsStart ==
    ASSUME EngineTypeOK, ClientTypeOK, NEW c \in Conn, Start(c), RowsInv(c)
    PROVE  RowsInv(c)'
<1>1. IsIdle(c) /\ vm' = vm
  BY DEF Start, StartWrite, StartRead, StartCursor, StartNext, StartReset,
         StartBegin, StartFinish, engineVars
<1>2. ~Steps(c) /\ \A x : ~Executes(c, x)
  BY <1>1 DEF IsIdle, Idle, Steps, StepFns, Executes
<1>3. ASSUME NEW s \in Stmt, Starts(c, s)
      PROVE  /\ vm[c][s] # "open" /\ pos' = pos
             /\ \A x \in Stmt : got'[c][x] = IF x = s THEN 0 ELSE got[c][x]
  BY <1>3 DEF Starts, ClientTypeOK
<1>4. ASSUME NEW s \in Stmt, NEW timed,
             StartWrite(c, s, timed) \/ StartRead(c, s, timed)
                 \/ StartCursor(c, s)
      PROVE  RowsInv(c)'
  <2>1. Starts(c, s)
    BY <1>4 DEF StartWrite, StartRead, StartCursor
  <2>2. \/ Enter(c, "exec", s, timed) \/ Enter(c, "read", s, timed)
        \/ Enter(c, "next", s, FALSE)
    BY <1>4 DEF StartWrite, StartRead, StartCursor
  <2>3. call'[c].stmt = s
    BY <2>2 DEF Enter, ClientTypeOK
  <2>. QED BY <1>1, <1>2, <1>3, <2>1, <2>3 DEF RowsInv, Steps, Executes
<1>5. ASSUME NEW s \in Stmt, StartNext(c, s)
      PROVE  RowsInv(c)'
  <2>1. call'[c] = [fn |-> "next", stmt |-> s, timed |-> FALSE]
    BY <1>5 DEF StartNext, Enter, ClientTypeOK
  <2>2. call'[c].fn = "next" /\ call'[c].stmt = s
    BY <2>1
  <2>3. vm[c][s] = "open" /\ UNCHANGED <<pos, got>>
    BY <1>5 DEF StartNext
  <2>. QED BY <1>1, <1>2, <2>2, <2>3 DEF RowsInv, Steps, Executes
<1>6. ASSUME NEW fn \in {"reset"} \cup ControlFns, NEW s, Enter(c, fn, s, FALSE),
             UNCHANGED <<pos, got>>
      PROVE  RowsInv(c)'
  <2>1. call'[c] = [fn |-> fn, stmt |-> s, timed |-> FALSE]
    BY <1>6 DEF Enter, ClientTypeOK
  <2>2. call'[c].fn = fn
    BY <2>1
  <2>3. fn \notin StepFns
    BY <1>6 DEF StepFns, ControlFns
  <2>. QED BY <1>1, <1>2, <1>6, <2>2, <2>3 DEF RowsInv, Steps, StepFns, Executes
<1>7. ASSUME NEW s \in Stmt, StartReset(c, s)
      PROVE  RowsInv(c)'
  BY <1>6, <1>7 DEF StartReset
<1>8. ASSUME NEW fn \in ControlFns, StartBegin(c, fn) \/ StartFinish(c, fn)
      PROVE  RowsInv(c)'
  BY <1>6, <1>8 DEF StartBegin, StartFinish
<1>. QED BY <1>4, <1>5, <1>7, <1>8 DEF Start, ControlFns

LEMMA RowsStep ==
    ASSUME Settled, EngineTypeOK, ClientTypeOK, NEW c \in Conn, Step(c),
           AckInv(c), NoOrphan(c), RowsInv(c)
    PROVE  RowsInv(c)'
<1>. DEFINE s == call[c].stmt
<1>1. ASSUME Steps(c) \/ call[c].fn = "reset"
      PROVE  s \in Stmt /\ got[c][s] \in Nat /\ pos[c][s] \in Nat
  BY <1>1, CallNamesStatement, BoundAssumption DEF Steps, ClientTypeOK
<1>2. ASSUME s \in Stmt, SetVm(c, s, "stopped")
      PROVE  \A x \in Stmt : vm'[c][x] = IF x = s THEN "stopped" ELSE vm[c][x]
  BY <1>2 DEF SetVm, EngineTypeOK
<1>3. CASE StepDone(c) \/ StepError(c) \/ ResetStep(c)
  <2>1. /\ Steps(c) \/ call[c].fn = "reset"
        /\ SetVm(c, s, "stopped") /\ Finish(c)
    BY <1>3 DEF StepDone, StepError, ResetStep, HaltInTransaction, HaltCommit,
                HaltBusy, HaltError, ResetBusy
  <2>2. /\ call'[c] = Idle /\ pos'[c] = [pos[c] EXCEPT ![s] = 0]
        /\ got'[c] = [got[c] EXCEPT ![s] = 0]
    BY <2>1 DEF Finish, Return, ClientTypeOK
  <2>3. call'[c].fn = "idle"
    BY <2>2 DEF Idle
  <2>4. \A x \in Stmt : /\ pos'[c][x] = IF x = s THEN 0 ELSE pos[c][x]
                        /\ got'[c][x] = IF x = s THEN 0 ELSE got[c][x]
    BY <2>2 DEF ClientTypeOK
  <2>. QED BY <1>1, <1>2, <2>1, <2>3, <2>4
           DEF RowsInv, Steps, StepFns, Executes
<1>4. CASE StepBusy(c) \/ StepCommitBusy(c)
  <2>1. /\ Steps(c) /\ Retry(c) /\ SetVm(c, s, "stopped")
        /\ vm[c][s] # "open" \/ HaltBusy(c, s)
    BY <1>4 DEF StepBusy, StepCommitBusy, BusyThenReset, ResetBusy, HaltBusy,
                AckInv, CallSound
  <2>2. HaltBusy(c, s) => call[c].fn # "next"
    BY DEF HaltBusy, EndsTransaction, MayCommit, AckInv, CallSound, NoOrphan,
           Writing
  <2>3. /\ call' = call
        /\ \A x \in Stmt : pos'[c][x] = IF x = s THEN 0 ELSE pos[c][x]
        /\ \A x \in Stmt : got'[c][x] =
               IF x = s /\ call[c].fn = "read" THEN 0 ELSE got[c][x]
    BY <2>1 DEF Retry, ClientTypeOK
  <2>4. ~Executes(c, s) => got'[c][s] = 0
    BY <1>1, <2>1, <2>2, <2>3 DEF RowsInv, Steps, StepFns, Executes
  <2>. QED BY <1>1, <1>2, <2>1, <2>3, <2>4 DEF RowsInv, Steps, Executes
<1>5. CASE StepOpen(c)
  <2>1. /\ Steps(c) /\ UNCHANGED <<call, pos, got>> /\ SetVm(c, s, "open")
        /\ vm[c][s] # "open"
    BY <1>5 DEF StepOpen, Open, clientVars
  <2>2. \A x \in Stmt : vm'[c][x] = IF x = s THEN "open" ELSE vm[c][x]
    BY <1>1, <2>1 DEF SetVm, EngineTypeOK
  <2>. QED BY <1>1, <2>1, <2>2 DEF RowsInv, Steps, Executes
<1>6. CASE StepRow(c)
  <2>1. /\ Steps(c) /\ vm' = vm /\ vm[c][s] = "open"
        /\ call' = call \/ (Return(c) /\ call[c].fn = "next")
    BY <1>6 DEF StepRow, engineVars
  <2>2. /\ \A x \in Stmt : x # s => pos'[c][x] = pos[c][x]
                                    /\ got'[c][x] = got[c][x]
        /\ pos'[c][s] = pos[c][s] + 1
        /\ got'[c][s] = IF call[c].fn = "exec" \/ got[c][s] > MaxRows
                        THEN got[c][s] ELSE got[c][s] + 1
    BY <1>1, <1>6, <2>1 DEF StepRow, ClientTypeOK
  <2>3. ~Executes(c, s) => got'[c][s] = pos'[c][s]
    <3>1. pos[c][s] < MaxRows
      BY <1>6 DEF StepRow
    <3>. QED BY <1>1, <2>1, <2>2, <3>1, BoundAssumption DEF RowsInv, Executes
  <2>4. Return(c) => call'[c].fn = "idle"
    <3>1. Return(c) => call'[c] = Idle
      BY DEF Return, ClientTypeOK
    <3>. QED BY <3>1 DEF Idle
  <2>5. /\ Steps(c)' => Steps(c) /\ call'[c].stmt = s
        /\ \A x : Executes(c, x)' <=> Executes(c, x)
    BY <2>1, <2>4 DEF Steps, StepFns, Executes
  <2>. QED BY <1>1, <2>1, <2>2, <2>3, <2>5 DEF RowsInv
<1>7. CASE StepWait(c) \/ EndWait(c) \/ ControlBusy(c)
  <2>1. UNCHANGED <<vm, call, pos, got>>
    BY <1>7 DEF StepWait, EndWait, ControlBusy, WaitForReaders, clientVars, vars
  <2>. QED BY <2>1 DEF RowsInv, Steps, Executes
<1>8. CASE BeginStep(c) \/ EndStep(c) \/ RollbackStep(c)
  <2>1. UNCHANGED <<vm, pos, got>> /\ Return(c) /\ call[c].fn \in ControlFns
    BY <1>8 DEF BeginStep, EndStep, EndReturns, RollbackStep, EngineBegin,
                EngineBeginImmediate, EngineEnd, EngineRollback, engineVars,
                ControlFns
  <2>2. call'[c] = Idle
    BY <2>1 DEF Return, ClientTypeOK
  <2>3. call'[c].fn = "idle"
    BY <2>2 DEF Idle
  <2>. QED BY <2>1, <2>3 DEF RowsInv, Steps, StepFns, ControlFns, Executes
<1>9. ~StepSpecialError(c) /\ ~EndViolated(c)
  BY DEF Settled, StepSpecialError, EndViolated
<1>. QED BY <1>3, <1>4, <1>5, <1>6, <1>7, <1>8, <1>9 DEF Step

\* In a settled program the rows a caller has collected are those of the
\* execution in progress, whatever was retried before.
THEOREM OneRunHolds ==
    ASSUME Settled
    PROVE  Spec => []OneRun
<1>. DEFINE AllRowsInv == \A c \in Conn : RowsInv(c)
<1>1. Init => AllRowsInv
  <2>. SUFFICES ASSUME Init, NEW c \in Conn, NEW s \in Stmt
                PROVE  vm[c][s] # "open" /\ pos[c][s] = 0 /\ got[c][s] = 0
    BY DEF RowsInv
  <2>. QED BY DEF Init, EngineInit
<1>2. TypeOK /\ NoOrphanWrites /\ AllAckInv /\ AllRowsInv /\ [Next]_vars =>
          AllRowsInv'
  <2>. SUFFICES ASSUME EngineTypeOK, ClientTypeOK, NoOrphanWrites, AllAckInv,
                       AllRowsInv, [Next]_vars, NEW d \in Conn
                PROVE  RowsInv(d)'
    BY DEF TypeOK, EngineTypeOK, ClientTypeOK
  <2>1. CASE UNCHANGED vars
    BY <2>1 DEF vars, RowsInv, Steps, Executes
  <2>2. ASSUME NEW c \in Conn, Start(c) \/ Step(c)
        PROVE  RowsInv(d)'
    <3>1. CASE c = d
      BY <2>2, <3>1, RowsStart, RowsStep
         DEF AllAckInv, NoOrphanWrites, NoOrphan
    <3>2. CASE c # d
      <4>1. EngineStep(c)
        BY <2>2, EnginePart
      <4>2. vm'[d] = vm[d]
        BY <3>2, <4>1, Locality
      <4>. QED BY <2>2, <3>2, <4>2, RowsLocality DEF RowsInv, Steps, Executes
    <3>. QED BY <3>1, <3>2
  <2>. QED BY <2>1, <2>2 DEF Next
<1>3. AllRowsInv => OneRun
  BY DEF RowsInv, OneRun, Executes
<1>. QED BY <1>1, <1>2, <1>3, TypeCorrect, NoOrphanWritesHolds, AckInvHolds,
            PTL DEF Spec
=============================================================================
