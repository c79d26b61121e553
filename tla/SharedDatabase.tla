--------------------------- MODULE SharedDatabase ---------------------------
(***************************************************************************)
(* Several threads, each with its own sqlgen::Database on the same file    *)
(* and its own DatabaseQuery objects: the transaction calls of Database    *)
(* and the retry loops of DatabaseQuery::Execute, DatabaseQuery::read and  *)
(* DatabaseCursor::next, one iteration per action, on SqliteEngine.        *)
(*                                                                         *)
(* A call is untimed (the default, timeoutms = -1) or timed.  An untimed   *)
(* call answers SQLITE_BUSY with sqlite3_reset and another sqlite3_step,   *)
(* for ever; a timed call answers it by returning at once.                 *)
(***************************************************************************)
EXTENDS SqliteEngine

CONSTANTS
    NoStmt,     \* no statement
    MaxWrites,  \* bound: writes a statement makes
    MaxRows,    \* bound: rows a statement yields
    Usage       \* which of the library's freedoms the program uses

Usages == {
    "upgrade",     \* writes while the connection only holds SHARED
    "autocommit",  \* writes outside of a transaction
    "timed",       \* gives a timeout to write() or read()
    "cursor",      \* drives a RETURNING cursor outside of a transaction
    "straddle",    \* begins or ends a transaction while a cursor is open
    "deferred",    \* has deferred foreign keys, which END can find violated
    "ioerr" }      \* meets a full disk or an I/O error in a transaction

ASSUME NoStmtAssumption == NoStmt \notin Stmt
ASSUME BoundAssumption == MaxWrites \in Nat /\ MaxRows \in Nat
ASSUME UsageAssumption == Usage \subseteq Usages

VARIABLES
    call,   \* [Conn -> Calls], the call the thread is in
    inTx,   \* [Conn -> BOOLEAN], Database.in_transaction
    held,   \* [Conn -> BOOLEAN], the thread has a Scoped...Transaction
    run,    \* [Conn -> [Stmt -> 0..MaxWrites]], writes begun
    pos,    \* [Conn -> [Stmt -> 0..MaxRows]], rows the execution yielded
    got,    \* [Conn -> [Stmt -> 0..MaxRows+1]], rows its caller collected
    acked   \* history: set of writes whose success was reported

clientVars == <<call, inTx, held, run, pos, got, acked>>
vars == <<lock, autoCommit, vm, dirty, disk,
          call, inTx, held, run, pos, got, acked>>

StepFns    == {"exec", "read", "next"}
ControlFns == {"BEGIN", "BEGIN IMMEDIATE", "END", "ROLLBACK"}
Calls ==
    [fn : {"idle"} \cup ControlFns, stmt : {NoStmt}, timed : {FALSE}]
        \cup [fn : {"reset"} \cup StepFns, stmt : Stmt, timed : BOOLEAN]

Idle == [fn |-> "idle", stmt |-> NoStmt, timed |-> FALSE]

Init ==
    /\ EngineInit
    /\ call = [c \in Conn |-> Idle]
    /\ inTx = [c \in Conn |-> FALSE]
    /\ held = [c \in Conn |-> FALSE]
    /\ run = [c \in Conn |-> [s \in Stmt |-> 0]]
    /\ pos = [c \in Conn |-> [s \in Stmt |-> 0]]
    /\ got = [c \in Conn |-> [s \in Stmt |-> 0]]
    /\ acked = {}

-----------------------------------------------------------------------------
(* The thread starts a call.                                               *)

IsIdle(c) == call[c] = Idle

Enter(c, fn, s, timed) ==
    call' = [call EXCEPT ![c] = [fn |-> fn, stmt |-> s, timed |-> timed]]

Return(c) == call' = [call EXCEPT ![c] = Idle]

\* The call returns and its statement's execution is over.
Finish(c) ==
    /\ Return(c)
    /\ pos' = [pos EXCEPT ![c][call[c].stmt] = 0]
    /\ got' = [got EXCEPT ![c][call[c].stmt] = 0]

\* The cursors that a transaction call may find open.  A RETURNING cursor that
\* is open at BEGIN or ROLLBACK is one driven outside of a transaction.
CursorsAllow(c, fn) ==
    \A s \in Stmt : vm[c][s] = "open" =>
        /\ "straddle" \in Usage
        /\ IsWrite(s) => fn = "END" \/ "cursor" \in Usage

\* A program that never upgrades takes its first lock as a writer.
MayWrite(c) == "upgrade" \in Usage \/ lock[c] # "shared"

\* The thread executes s from the start.
Starts(c, s) ==
    /\ vm[c][s] # "open"
    /\ \/ ~IsWrite(s) /\ UNCHANGED run
       \/ /\ IsWrite(s)
          /\ run[c][s] < MaxWrites
          /\ MayWrite(c)
          /\ held[c] \/ "autocommit" \in Usage
          /\ run' = [run EXCEPT ![c][s] = @ + 1]
    /\ UNCHANGED pos
    /\ got' = [got EXCEPT ![c][s] = 0]

Timeouts == {FALSE} \cup {x \in {TRUE} : "timed" \in Usage}

\* DatabaseQuery::write
StartWrite(c, s, timed) ==
    /\ IsIdle(c) /\ IsWrite(s) /\ Starts(c, s)
    /\ Enter(c, "exec", s, timed)
    /\ UNCHANGED <<engineVars, inTx, held, acked>>

\* DatabaseQuery::read
StartRead(c, s, timed) ==
    /\ IsIdle(c) /\ Kind[s] # "write" /\ Starts(c, s)
    /\ Enter(c, "read", s, timed)
    /\ UNCHANGED <<engineVars, inTx, held, acked>>

\* DatabaseQuery::cursor and the first DatabaseCursor::next
StartCursor(c, s) ==
    /\ IsIdle(c) /\ Kind[s] # "write" /\ Starts(c, s)
    /\ IsWrite(s) => held[c] \/ "cursor" \in Usage
    /\ Enter(c, "next", s, FALSE)
    /\ UNCHANGED <<engineVars, inTx, held, acked>>

\* another DatabaseCursor::next
StartNext(c, s) ==
    /\ IsIdle(c) /\ vm[c][s] = "open"
    /\ Enter(c, "next", s, FALSE)
    /\ UNCHANGED <<engineVars, inTx, held, run, pos, got, acked>>

\* DatabaseQuery::reset
StartReset(c, s) ==
    /\ IsIdle(c) /\ vm[c][s] # "stopped"
    /\ Enter(c, "reset", s, FALSE)
    /\ UNCHANGED <<engineVars, inTx, held, run, pos, got, acked>>

\* beginReadTransaction, beginWriteTransaction
StartBegin(c, fn) ==
    /\ IsIdle(c) /\ ~held[c] /\ CursorsAllow(c, fn)
    /\ fn = "BEGIN IMMEDIATE" => MayWrite(c)
    /\ Enter(c, fn, NoStmt, FALSE)
    /\ UNCHANGED <<engineVars, inTx, held, run, pos, got, acked>>

\* endTransaction, rollbackTransaction
StartFinish(c, fn) ==
    /\ IsIdle(c) /\ held[c] /\ CursorsAllow(c, fn)
    /\ Enter(c, fn, NoStmt, FALSE)
    /\ UNCHANGED <<engineVars, inTx, held, run, pos, got, acked>>

-----------------------------------------------------------------------------
(* One iteration of the loops of Execute, read and next: sqlite3_step and  *)
(* what the loop does with its answer.                                     *)

Steps(c) == call[c].fn \in StepFns
Write(c) == <<c, call[c].stmt, run[c][call[c].stmt]>>

\* The call reports success for its write.
Acknowledge(c) ==
    acked' = IF IsWrite(call[c].stmt) THEN acked \cup {Write(c)} ELSE acked

\* Mutant: read keeps the rows of the attempt that failed.
MutRetry(c) ==
    /\ pos' = [pos EXCEPT ![c][call[c].stmt] = 0]
    /\ UNCHANGED <<got, call>>

\* sqlite3_reset before another attempt; only read drops the rows it has.
Retry(c) ==
    /\ pos' = [pos EXCEPT ![c][call[c].stmt] = 0]
    /\ got' = [got EXCEPT ![c][call[c].stmt] =
                   IF call[c].fn = "read" THEN 0 ELSE @]
    /\ UNCHANGED call

StepOpen(c) ==
    /\ Steps(c) /\ vm[c][call[c].stmt] # "open"
    /\ Open(c, call[c].stmt, Write(c))
    /\ UNCHANGED clientVars

StepBusy(c) ==
    /\ Steps(c) /\ vm[c][call[c].stmt] # "open"
    /\ \/ call[c].timed /\ LeaveBusy(c, call[c].stmt) /\ Finish(c)
       \/ ~call[c].timed /\ BusyThenReset(c, call[c].stmt) /\ Retry(c)
    /\ UNCHANGED <<inTx, held, run, acked>>

\* SQLITE_ROW.  More than MaxRows collected rows are counted as MaxRows + 1.
StepRow(c) ==
    LET s == call[c].stmt IN
    /\ Steps(c) /\ vm[c][s] = "open" /\ lock[c] # "pending"
    /\ Kind[s] # "write" /\ pos[c][s] < MaxRows
    /\ pos' = [pos EXCEPT ![c][s] = @ + 1]
    /\ got' = [got EXCEPT ![c][s] =
                   IF call[c].fn = "exec" \/ @ > MaxRows THEN @ ELSE @ + 1]
    /\ \/ call[c].fn = "next" /\ Return(c)
       \/ call[c].fn # "next" /\ UNCHANGED call
    /\ UNCHANGED <<engineVars, inTx, held, run, acked>>

\* SQLITE_DONE
StepDone(c) ==
    /\ Steps(c) /\ vm[c][call[c].stmt] = "open"
    /\ \/ HaltInTransaction(c, call[c].stmt)
       \/ HaltCommit(c, call[c].stmt)
    /\ Finish(c) /\ Acknowledge(c)
    /\ UNCHANGED <<inTx, held, run>>

\* The commit of the statement's own transaction waits for readers,
StepWait(c) ==
    /\ Steps(c) \/ call[c].fn = "reset"
    /\ vm[c][call[c].stmt] = "open" /\ EndsTransaction(c, call[c].stmt)
    /\ WaitForReaders(c)
    /\ UNCHANGED clientVars

\* and sqlite3_step answers SQLITE_BUSY when they do not leave.
StepCommitBusy(c) ==
    /\ Steps(c) /\ vm[c][call[c].stmt] = "open"
    /\ HaltBusy(c, call[c].stmt)
    /\ \/ call[c].timed /\ Finish(c)
       \/ ~call[c].timed /\ Retry(c)
    /\ UNCHANGED <<inTx, held, run, acked>>

\* A constraint fails before the first row; the call returns false.
StepError(c) ==
    LET s == call[c].stmt IN
    /\ Steps(c) /\ vm[c][s] = "open" /\ lock[c] # "pending"
    /\ IsWrite(s) /\ pos[c][s] = 0
    /\ HaltError(c, s, Write(c))
    /\ Finish(c)
    /\ UNCHANGED <<inTx, held, run, acked>>

StepSpecialError(c) ==
    LET s == call[c].stmt IN
    /\ "ioerr" \in Usage
    /\ Steps(c) /\ vm[c][s] = "open" /\ IsWrite(s) /\ ~autoCommit[c]
    /\ HaltSpecialError(c, s)
    /\ Finish(c)
    /\ UNCHANGED <<inTx, held, run, acked>>

-----------------------------------------------------------------------------
(* DatabaseQuery::reset ignores what sqlite3_reset answers.                *)

\* Mutant: only curr_idx is reset.
MutResetStep(c) ==
    /\ call[c].fn = "reset"
    /\ Return(c)
    /\ UNCHANGED <<engineVars, inTx, held, run, pos, got, acked>>

ResetStep(c) ==
    LET s == call[c].stmt IN
    /\ call[c].fn = "reset"
    /\ \/ /\ vm[c][s] = "open"
          /\ \/ HaltInTransaction(c, s)
             \/ HaltCommit(c, s)
             \/ HaltBusy(c, s)
          /\ Acknowledge(c)
       \/ vm[c][s] = "busy" /\ ResetBusy(c, s) /\ UNCHANGED acked
    /\ Finish(c)
    /\ UNCHANGED <<inTx, held, run>>

-----------------------------------------------------------------------------
(* The transaction calls of Database run their SQL through Execute, which  *)
(* repeats it while it answers SQLITE_BUSY, and ignore any other error.    *)

\* Mutant: BEGIN IMMEDIATE is not repeated after SQLITE_BUSY.
MutBeginStep(c) ==
    /\ \/ call[c].fn = "BEGIN" /\ EngineBegin(c)
       \/ /\ call[c].fn = "BEGIN IMMEDIATE"
          /\ EngineBeginImmediate(c) \/ UNCHANGED engineVars
    /\ Return(c)
    /\ inTx' = [inTx EXCEPT ![c] = TRUE]
    /\ held' = [held EXCEPT ![c] = TRUE]
    /\ UNCHANGED <<run, pos, got, acked>>

BeginStep(c) ==
    /\ \/ /\ call[c].fn = "BEGIN"
          /\ EngineBegin(c) \/ (~autoCommit[c] /\ UNCHANGED engineVars)
       \/ /\ call[c].fn = "BEGIN IMMEDIATE"
          /\ \/ EngineBeginImmediate(c)
             \/ /\ ~autoCommit[c] /\ MayReserve(c) /\ Reserve(c)
                /\ UNCHANGED <<autoCommit, vm, dirty, disk>>
    /\ Return(c)
    /\ inTx' = [inTx EXCEPT ![c] = TRUE]
    /\ held' = [held EXCEPT ![c] = TRUE]
    /\ UNCHANGED <<run, pos, got, acked>>

EndReturns(c) ==
    /\ Return(c)
    /\ inTx' = [inTx EXCEPT ![c] = FALSE]
    /\ held' = [held EXCEPT ![c] = FALSE]
    /\ UNCHANGED <<run, pos, got, acked>>

\* Mutant: END is not repeated after SQLITE_BUSY.
MutEndStep(c) ==
    /\ call[c].fn = "END"
    /\ EngineEnd(c) \/ UNCHANGED engineVars
    /\ EndReturns(c)

EndStep(c) ==
    /\ call[c].fn = "END"
    /\ EngineEnd(c) \/ (autoCommit[c] /\ UNCHANGED engineVars)
    /\ EndReturns(c)

\* PENDING is kept from one attempt of END to the next.
EndWait(c) ==
    /\ call[c].fn = "END"
    /\ ~autoCommit[c] /\ Writers(c) = {}
    /\ WaitForReaders(c)
    /\ UNCHANGED clientVars

\* SQLITE_BUSY, sqlite3_reset and another attempt: nothing has changed.  An
\* END that meets an open RETURNING cursor of its own connection has this
\* answer for ever: the thread cannot close the cursor before END returns.
ControlBusy(c) ==
    /\ \/ call[c].fn = "BEGIN IMMEDIATE" /\ ~MayReserve(c)
       \/ /\ call[c].fn = "END" /\ ~autoCommit[c]
          /\ Writers(c) # {} \/ ~MayCommit(c)
    /\ UNCHANGED vars

\* A deferred foreign key is violated: the transaction stays open.
EndViolated(c) ==
    /\ "deferred" \in Usage
    /\ call[c].fn = "END"
    /\ ~autoCommit[c] /\ Writers(c) = {}
    /\ dirty[c] # {} /\ lock[c] # "pending"
    /\ UNCHANGED engineVars
    /\ EndReturns(c)

RollbackStep(c) ==
    /\ call[c].fn = "ROLLBACK"
    /\ EngineRollback(c) \/ (autoCommit[c] /\ UNCHANGED engineVars)
    /\ Return(c)
    /\ held' = [held EXCEPT ![c] = FALSE]
    /\ acked' = acked \ dirty[c]
    /\ UNCHANGED <<inTx, run, pos, got>>

-----------------------------------------------------------------------------
Start(c) ==
    \/ \E s \in Stmt, timed \in Timeouts :
           StartWrite(c, s, timed) \/ StartRead(c, s, timed)
    \/ \E s \in Stmt : StartCursor(c, s) \/ StartNext(c, s) \/ StartReset(c, s)
    \/ \E fn \in {"BEGIN", "BEGIN IMMEDIATE"} : StartBegin(c, fn)
    \/ \E fn \in {"END", "ROLLBACK"} : StartFinish(c, fn)

Step(c) ==
    \/ StepOpen(c) \/ StepBusy(c) \/ StepRow(c) \/ StepDone(c) \/ StepWait(c)
    \/ StepCommitBusy(c) \/ StepError(c) \/ StepSpecialError(c)
    \/ ResetStep(c) \/ BeginStep(c) \/ EndStep(c) \/ EndWait(c)
    \/ ControlBusy(c) \/ EndViolated(c) \/ RollbackStep(c)

Next == \E c \in Conn : Start(c) \/ Step(c)

Spec == Init /\ [][Next]_vars

-----------------------------------------------------------------------------
(* Correctness.                                                            *)

Writes == Conn \X Stmt \X (0..MaxWrites)

\* The range of every variable.
TypeOK ==
    /\ lock \in [Conn -> Locks]
    /\ autoCommit \in [Conn -> BOOLEAN]
    /\ vm \in [Conn -> [Stmt -> VmStates]]
    /\ dirty \in [Conn -> SUBSET Writes]
    /\ disk \in SUBSET Writes
    /\ call \in [Conn -> Calls]
    /\ inTx \in [Conn -> BOOLEAN]
    /\ held \in [Conn -> BOOLEAN]
    /\ run \in [Conn -> [Stmt -> 0..MaxWrites]]
    /\ pos \in [Conn -> [Stmt -> 0..MaxRows]]
    /\ got \in [Conn -> [Stmt -> 0..(MaxRows + 1)]]
    /\ acked \in SUBSET Writes

\* A write whose success was reported by write(), read(), next() or reset() is
\* on disk, or waits for the endTransaction of the transaction the thread is
\* still in: no retry, no error and no other thread takes it back.
AckedSafe ==
    \A w \in acked : w \in disk \/ (held[w[1]] /\ w \in dirty[w[1]])

\* A write that is not committed, and a lock that keeps other writers out,
\* belongs to an open transaction or to a statement that still runs: the loops
\* never leave one behind that nobody will commit, roll back or release.
NoOrphanWrites ==
    \A c \in Conn : autoCommit[c] /\ Writers(c) = {} =>
        dirty[c] = {} /\ ~Writing(c)

\* What the wrapper believes between two calls is what the engine does: a
\* Scoped...Transaction is held exactly while SQLite has a transaction open,
\* and isInTransaction() answers TRUE in it.  (It also answers TRUE after
\* rollbackTransaction, which does not clear the flag.)
InTransactionSound ==
    \A c \in Conn : IsIdle(c) =>
        /\ held[c] => inTx[c]
        /\ held[c] <=> ~autoCommit[c]

\* The rows a caller has collected are the rows of the execution in progress,
\* each of them once: none is left over from an attempt that was rolled back.
OneRun ==
    \A c \in Conn, s \in Stmt :
        vm[c][s] = "open" /\ ~(call[c].fn = "exec" /\ call[c].stmt = s) =>
            got[c][s] = pos[c][s]

WritesOf(c) == {w \in disk : w[1] = c}

\* Nothing a thread writes in a transaction becomes durable before its
\* endTransaction: no retry, failed statement or closed cursor commits a part.
TransactionAtomic ==
    [][\A c \in Conn : held[c] /\ call[c].fn # "END" =>
           WritesOf(c)' = WritesOf(c)]_vars

\* No other connection commits.
OthersQuiet(c) == disk' \ disk \subseteq {w \in Writes : w[1] = c}

\* While a statement of a connection is being stepped through, from its first
\* step to its last, no other connection changes the file: a result set and a
\* cursor loop see one state of the database.
StableReads ==
    [][\A c \in Conn :
          (\E s \in Stmt : vm[c][s] = "open" /\ vm'[c][s] = "open") =>
              OthersQuiet(c)]_vars

\* A transaction that has read or written keeps its lock, and so sees no other
\* connection's commits, until it ends.
RepeatableReads ==
    [][\A c \in Conn : held[c] /\ held'[c] /\ lock[c] # "none" =>
           OthersQuiet(c) /\ lock'[c] # "none"]_vars

Serial == INSTANCE SerialFile WITH
              Client  <- Conn,
              Change  <- Writes,
              file    <- disk,
              pending <- dirty,
              looking <- {c \in Conn : lock[c] # "none"}

\* The connections share the file as SerialFile promises.
SharesSerially == Serial!Spec

-----------------------------------------------------------------------------
(* Liveness.  A polling busy handler gives no order to those who wait, so  *)
(* an attempt that keeps being possible succeeds only by strong fairness.  *)
(* The program is assumed to finish its cursors and its transactions.      *)

\* An iteration that brings the call of c forward.
Advance(c) ==
    \/ StepOpen(c) \/ StepDone(c) \/ ResetStep(c)
    \/ BeginStep(c) \/ EndStep(c) \/ EndWait(c) \/ RollbackStep(c)

Fairness ==
    \A c \in Conn :
        /\ SF_vars(Advance(c))
        /\ \A s \in Stmt : SF_vars(vm[c][s] = "open" /\ StartReset(c, s))
        /\ SF_vars(\E fn \in {"END", "ROLLBACK"} : StartFinish(c, fn))

FairSpec == Spec /\ Fairness

\* The readers leave before the busy timeout of a writer that waits for them.
PatientSpec ==
    /\ Init /\ [][Next /\ \A c \in Conn : ~StepCommitBusy(c)]_vars
    /\ Fairness

\* Every call returns: no thread repeats a statement for ever, whatever the
\* other threads do.
CallsReturn == \A c \in Conn : ~IsIdle(c) ~> IsIdle(c)
=============================================================================
