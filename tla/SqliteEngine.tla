---------------------------- MODULE SqliteEngine ----------------------------
(***************************************************************************)
(* What the wrapper's calls into src/sqlite/sqlite3.c do to one database   *)
(* file in the rollback-journal mode the wrapper opens it in (nothing in   *)
(* Database.cpp selects WAL): the file lock of every connection, the       *)
(* transaction a connection is in, the state of its prepared statements,   *)
(* and which writes are on disk.                                           *)
(*                                                                         *)
(* A connection is one sqlite3 handle used by one thread.  A write is an   *)
(* opaque token.  EXCLUSIVE is held only inside the step that commits, so  *)
(* the lock states are the ones visible between two steps of the engine.   *)
(* The operators are fragments of actions: each one says how the variables *)
(* of this module change, and a module that EXTENDS it adds its own.       *)
(***************************************************************************)
EXTENDS Naturals

CONSTANTS
    Conn,   \* database connections
    Stmt,   \* names of prepared statements; every connection has one of each
    Kind    \* what a statement does

\* A "write" yields no row, a "returning" is a write with a RETURNING clause.
ASSUME KindAssumption == Kind \in [Stmt -> {"select", "write", "returning"}]

VARIABLES
    lock,        \* [Conn -> Locks], the file lock (unixFile.eFileLock)
    autoCommit,  \* [Conn -> BOOLEAN], sqlite3.autoCommit
    vm,          \* [Conn -> [Stmt -> VmStates]], Vdbe.eVdbeState
    dirty,       \* [Conn -> set of writes] made but not committed
    disk         \* set of committed writes

engineVars == <<lock, autoCommit, vm, dirty, disk>>

Locks == {"none", "shared", "reserved", "pending"}

\* "stopped" is VDBE_READY_STATE or VDBE_HALT_STATE, which a sqlite3_step leaves
\* in the same way; "busy" is VDBE_RUN_STATE stuck in OP_Transaction because of
\* SQLITE_BUSY, "open" is VDBE_RUN_STATE after it.
VmStates == {"stopped", "open", "busy"}

EngineInit ==
    /\ lock = [c \in Conn |-> "none"]
    /\ autoCommit = [c \in Conn |-> TRUE]
    /\ vm = [c \in Conn |-> [s \in Stmt |-> "stopped"]]
    /\ dirty = [c \in Conn |-> {}]
    /\ disk = {}

-----------------------------------------------------------------------------
(* Statements and locks.                                                   *)

IsWrite(s) == Kind[s] # "select"

\* sqlite3.nVdbeActive and sqlite3.nVdbeWrite.
Active(c)  == {s \in Stmt : vm[c][s] \in {"open", "busy"}}
Writers(c) == {s \in Active(c) : IsWrite(s)}

\* RESERVED or above.
Writing(c) == lock[c] \in {"reserved", "pending"}

\* Mutant: readers do not keep a writer from committing.
MutMayExclude(c) == \A d \in Conn \ {c} : ~Writing(d)

MayShare(c)   == lock[c] # "none" \/ \A d \in Conn : lock[d] # "pending"
MayReserve(c) == Writing(c) \/ \A d \in Conn \ {c} : ~Writing(d)
MayExclude(c) == \A d \in Conn \ {c} : lock[d] = "none"

\* A transaction that took RESERVED needs EXCLUSIVE to commit, whether it has
\* made a write or not.
MayCommit(c) == ~Writing(c) \/ MayExclude(c)

SetVm(c, s, v) == vm' = [vm EXCEPT ![c][s] = v]
SetLock(c, l)  == lock' = [lock EXCEPT ![c] = l]
Reserve(c)     == SetLock(c, IF Writing(c) THEN lock[c] ELSE "reserved")

\* Mutant: nVdbeRead is not looked at.
MutEndLock(c, rest) == SetLock(c, "none")

\* The lock after a transaction, while the statements in rest still run.
EndLock(c, rest) ==
    SetLock(c, IF lock[c] = "none" \/ rest = {} THEN "none" ELSE "shared")

Commit(c, rest) ==
    /\ disk' = disk \cup dirty[c]
    /\ dirty' = [dirty EXCEPT ![c] = {}]
    /\ EndLock(c, rest)

\* sqlite3RollbackAll.
RollbackAll(c, rest) ==
    /\ dirty' = [dirty EXCEPT ![c] = {}]
    /\ EndLock(c, rest)
    /\ UNCHANGED disk

-----------------------------------------------------------------------------
(* The first instruction of a statement, OP_Transaction.                   *)

MayBegin(c, s) == IF IsWrite(s) THEN MayReserve(c) ELSE MayShare(c)

\* The lock is granted and a writing statement makes its write w.
Open(c, s, w) ==
    /\ MayBegin(c, s)
    /\ SetVm(c, s, "open")
    /\ \/ /\ IsWrite(s)
          /\ Reserve(c)
          /\ dirty' = [dirty EXCEPT ![c] = @ \cup {w}]
       \/ /\ ~IsWrite(s)
          /\ SetLock(c, IF lock[c] = "none" THEN "shared" ELSE lock[c])
          /\ UNCHANGED dirty
    /\ UNCHANGED <<autoCommit, disk>>

\* SQLITE_BUSY: the statement stays active although it holds nothing.
LeaveBusy(c, s) ==
    /\ ~MayBegin(c, s)
    /\ SetVm(c, s, "busy")
    /\ UNCHANGED <<lock, autoCommit, dirty, disk>>

-----------------------------------------------------------------------------
(* The end of a statement, sqlite3VdbeHalt, reached from the last step of  *)
(* the statement or from sqlite3_reset.                                    *)

\* Mutant: the statement of an explicit transaction commits it.
MutEndsTransaction(c, s) == Writers(c) \subseteq {s}

\* Only in autocommit mode and without another active writer does the end of
\* statement s end the transaction.
EndsTransaction(c, s) == autoCommit[c] /\ Writers(c) \subseteq {s}

HaltInTransaction(c, s) ==
    /\ ~EndsTransaction(c, s)
    /\ SetVm(c, s, "stopped")
    /\ UNCHANGED <<lock, autoCommit, dirty, disk>>

HaltCommit(c, s) ==
    /\ EndsTransaction(c, s)
    /\ MayCommit(c)
    /\ Commit(c, Active(c) \ {s})
    /\ SetVm(c, s, "stopped")
    /\ UNCHANGED autoCommit

\* The busy handler polls for EXCLUSIVE while the file is PENDING.
WaitForReaders(c) ==
    /\ ~MayCommit(c)
    /\ lock[c] = "reserved"
    /\ SetLock(c, "pending")
    /\ UNCHANGED <<autoCommit, vm, dirty, disk>>

\* The busy handler gave up: the statement's transaction is rolled back.
HaltBusy(c, s) ==
    /\ EndsTransaction(c, s)
    /\ ~MayCommit(c)
    /\ lock[c] = "pending"
    /\ RollbackAll(c, Active(c) \ {s})
    /\ SetVm(c, s, "stopped")
    /\ UNCHANGED autoCommit

\* A constraint failed: only the statement's own write w is undone, unless the
\* statement was the whole transaction.
HaltError(c, s, w) ==
    /\ SetVm(c, s, "stopped")
    /\ \/ /\ EndsTransaction(c, s)
          /\ RollbackAll(c, Active(c) \ {s})
       \/ /\ ~EndsTransaction(c, s)
          /\ dirty' = [dirty EXCEPT ![c] = @ \ {w}]
          /\ UNCHANGED <<lock, disk>>
    /\ UNCHANGED autoCommit

\* Mutant: only the statement ends, not its transaction.
MutHaltSpecialError(c, s) ==
    /\ SetVm(c, s, "stopped")
    /\ autoCommit' = [autoCommit EXCEPT ![c] = TRUE]
    /\ UNCHANGED <<lock, dirty, disk>>

\* A full disk or an I/O error rolls the whole transaction back and leaves
\* the connection in autocommit mode.
HaltSpecialError(c, s) ==
    /\ RollbackAll(c, Active(c) \ {s})
    /\ SetVm(c, s, "stopped")
    /\ autoCommit' = [autoCommit EXCEPT ![c] = TRUE]

\* sqlite3_reset of a busy statement ends a transaction it has no part in.
ResetBusy(c, s) ==
    /\ SetVm(c, s, "stopped")
    /\ \/ /\ EndsTransaction(c, s)
          /\ RollbackAll(c, Active(c) \ {s})
       \/ /\ ~EndsTransaction(c, s)
          /\ UNCHANGED <<lock, dirty, disk>>
    /\ UNCHANGED autoCommit

\* A step of statement s that answers SQLITE_BUSY, then sqlite3_reset(s).
BusyThenReset(c, s) == ~MayBegin(c, s) /\ ResetBusy(c, s)

-----------------------------------------------------------------------------
(* BEGIN, BEGIN IMMEDIATE, END and ROLLBACK.  Their own VM is finished or  *)
(* reset within the step, so it never counts as active between two steps.  *)

EngineBegin(c) ==
    /\ autoCommit[c]
    /\ autoCommit' = [autoCommit EXCEPT ![c] = FALSE]
    /\ UNCHANGED <<lock, vm, dirty, disk>>

EngineBeginImmediate(c) ==
    /\ autoCommit[c]
    /\ MayReserve(c)
    /\ Reserve(c)
    /\ autoCommit' = [autoCommit EXCEPT ![c] = FALSE]
    /\ UNCHANGED <<vm, dirty, disk>>

EngineEnd(c) ==
    /\ ~autoCommit[c]
    /\ Writers(c) = {}
    /\ MayCommit(c)
    /\ Commit(c, Active(c))
    /\ autoCommit' = [autoCommit EXCEPT ![c] = TRUE]
    /\ UNCHANGED vm

EngineRollback(c) ==
    /\ ~autoCommit[c]
    /\ RollbackAll(c, Active(c))
    /\ autoCommit' = [autoCommit EXCEPT ![c] = TRUE]
    /\ UNCHANGED vm
=============================================================================
