-------------------------- MODULE ScopedTransactions --------------------------
(***************************************************************************)
(* The scope objects of Database.h on one Database: the two transactions   *)
(* that are ended, or rolled back, with their object, and                  *)
(* ScopedSynchronous.  A thread has them on its stack: they are destroyed  *)
(* in the reverse order of their construction, when it leaves their scope  *)
(* or an exception unwinds it, and used in any order before.               *)
(*                                                                         *)
(* Locks and retries are SharedDatabase's: here BEGIN, END and ROLLBACK    *)
(* are tried until they are not SQLITE_BUSY, and other errors are ignored. *)
(***************************************************************************)
EXTENDS Naturals, Sequences, FiniteSets

CONSTANTS
    MaxDepth,   \* bound: objects alive at a time
    MaxUnits,   \* bound: transactions begun by an object
    MaxWrites   \* bound: writes
ASSUME BoundAssumption == MaxDepth \in Nat /\ MaxUnits \in Nat /\ MaxWrites \in Nat

VARIABLES
    db,          \* the connection
    scope,       \* the stack of objects, the last one on top
    throwing,    \* an exception is unwinding the stack
    terminated,  \* a destructor has thrown: std::terminate
    units,       \* history: the number of transactions begun by an object
    asked,       \* history: those of them that were to be committed
    made,        \* history: the writes
    lapses       \* history: what the thread and the database have done

vars == <<db, scope, throwing, terminated, units, asked, made, lapses>>

\* What the objects cannot cope with.
Lapses == {
    "nested",    \* a transaction begun while another object has one
    "copied",    \* an object is copied: no class forbids it
    "crossed",   \* reset() below a ScopedSynchronous that it interferes with
    "inside",    \* a ScopedSynchronous reset() within a transaction
    "endError",  \* a deferred foreign key lets END fail
    "ioerr" }    \* an I/O error lets SQLite roll the transaction back

Levels  == {"NORMAL", "FULL"}
Units   == 0..MaxUnits
Writes  == [n : 1..MaxWrites, unit : Units]
Objects == [kind : {"auto", "manual", "sync"}, db : BOOLEAN, unit : Units, saved : Levels]

\* sqlite3.autoCommit, Database.in_transaction, the writes that wait for a
\* commit and those that are committed, and PRAGMA synchronous.
Connections == [autoCommit : BOOLEAN, inTx : BOOLEAN, pending : SUBSET Writes,
                file : SUBSET Writes, sync : Levels]

Init ==
    /\ db = [autoCommit |-> TRUE, inTx |-> FALSE, pending |-> {}, file |-> {},
             sync |-> "NORMAL"]
    /\ scope = <<>>
    /\ throwing = FALSE /\ terminated = FALSE
    /\ units = 0 /\ asked = {} /\ made = {} /\ lapses = {}

-----------------------------------------------------------------------------
(* The calls of Database: the states they may leave the connection in.     *)

\* Mutant: in_transaction is not set.
MutBegin(d) == [d EXCEPT !.autoCommit = FALSE]

\* beginWriteTransaction; BEGIN fails within a transaction.
Begin(d) == [d EXCEPT !.autoCommit = FALSE, !.inTx = TRUE]

Commit(d) == [d EXCEPT !.autoCommit = TRUE, !.inTx = FALSE, !.pending = {},
                       !.file = @ \cup d.pending]

\* endTransaction; END fails outside of a transaction, and within one that
\* violates a deferred foreign key and goes on.
End(d) == {Commit(d)} \cup {x \in {[d EXCEPT !.inTx = FALSE]} : d.pending # {}}

\* rollbackTransaction does not clear in_transaction.
Rollback(d) == [d EXCEPT !.autoCommit = TRUE, !.pending = {}]

-----------------------------------------------------------------------------
(* The objects.                                                            *)

Depth      == Len(scope)
Positions  == DOMAIN scope
HasTx(o)   == o.db /\ o.kind # "sync"
HasSync(o) == o.db /\ o.kind = "sync"
Working    == ~throwing /\ ~terminated

Lapse(name, P) == {x \in {name} : P}

\* Mutants: the transaction is left alone; a manual one is committed.
MutAbandon(o, d) == {d}
MutRelease(o, d) == IF ~HasTx(o) THEN {d} ELSE End(d)

\* What the destructor and reset() do with the transaction of o.
Release(o, d) ==
    IF ~HasTx(o) THEN {d} ELSE IF o.kind = "auto" THEN End(d) ELSE {Rollback(d)}

\* The transaction of o was to be committed, and END failed.
EndFailed(o, d, commits) == Lapse("endError", HasTx(o) /\ commits /\ ~d.autoCommit)
Asks(o, commits) == asked' = asked \cup {u \in {o.unit} : HasTx(o) /\ commits}

BeginUnit(d) ==
    /\ units < MaxUnits
    /\ units' = units + 1
    /\ db' = Begin(d)

\* A constructor that is given the database begins a transaction,
ConstructTx(kind, given) ==
    /\ Working /\ Depth < MaxDepth
    /\ \/ given /\ BeginUnit(db)
       \/ ~given /\ UNCHANGED <<db, units>>
    /\ scope' = Append(scope, [kind |-> kind, db |-> given,
                               unit |-> IF given THEN units' ELSE 0, saved |-> "NORMAL"])
    /\ lapses' = lapses \cup Lapse("nested", given /\ \E i \in Positions : HasTx(scope[i]))
    /\ UNCHANGED <<throwing, terminated, asked, made>>

\* Mutant: PRAGMA synchronous is set within a transaction.
MutConstructSync(given) ==
    /\ Working /\ Depth < MaxDepth
    /\ scope' = Append(scope, [kind |-> "sync", db |-> given, unit |-> 0,
                               saved |-> IF given THEN db.sync ELSE "NORMAL"])
    /\ db' = IF given THEN [db EXCEPT !.sync = "FULL"] ELSE db
    /\ UNCHANGED <<throwing, terminated, units, asked, made, lapses>>

\* or saves PRAGMA synchronous and sets it, which PrepareError forbids within a
\* transaction: there is no object then.
ConstructSync(given) ==
    /\ Working /\ Depth < MaxDepth
    /\ \/ /\ given => db.autoCommit
          /\ scope' = Append(scope, [kind |-> "sync", db |-> given, unit |-> 0,
                                     saved |-> IF given THEN db.sync ELSE "NORMAL"])
          /\ db' = IF given THEN [db EXCEPT !.sync = "FULL"] ELSE db
          /\ UNCHANGED throwing
       \/ /\ given /\ ~db.autoCommit
          /\ throwing' = TRUE
          /\ UNCHANGED <<db, scope>>
    /\ UNCHANGED <<terminated, units, asked, made, lapses>>

\* reset() of a transaction, and restart() of one that is open.
ResetTx(i, given) ==
    LET o == scope[i] IN
    /\ Working /\ o.kind # "sync"
    /\ Asks(o, o.kind = "auto")
    /\ \E d \in Release(o, db) :
           /\ \/ given /\ BeginUnit(d)
              \/ ~given /\ db' = d /\ UNCHANGED units
           /\ lapses' = lapses
                  \cup EndFailed(o, d, o.kind = "auto")
                  \cup Lapse("nested", given /\ \E j \in Positions \ {i} : HasTx(scope[j]))
                  \cup Lapse("crossed", given /\ \E j \in (i + 1)..Depth : HasSync(scope[j]))
    /\ scope' = [scope EXCEPT ![i].db = given, ![i].unit = IF given THEN units' ELSE 0]
    /\ UNCHANGED <<throwing, terminated, made>>

\* Mutant: reset() saves the level without restoring the one it had.
MutResetSync(i, given) ==
    /\ Working /\ scope[i].kind = "sync" /\ db.autoCommit
    /\ db' = [db EXCEPT !.sync = IF given THEN "FULL" ELSE @]
    /\ scope' = [scope EXCEPT ![i].db = given, ![i].saved = db.sync]
    /\ lapses' = lapses \cup Lapse("crossed", \E j \in (i + 1)..Depth : HasSync(scope[j]))
    /\ UNCHANGED <<throwing, terminated, units, asked, made>>

\* reset() of a ScopedSynchronous.
ResetSync(i, given) ==
    LET o == scope[i]
        level == IF o.db THEN o.saved ELSE db.sync
    IN
    /\ Working /\ o.kind = "sync" /\ (o.db \/ given)
    /\ \/ /\ db.autoCommit
          /\ db' = [db EXCEPT !.sync = IF given THEN "FULL" ELSE level]
          /\ scope' = [scope EXCEPT ![i].db = given, ![i].saved = level]
          /\ lapses' = lapses \cup Lapse("crossed", \E j \in (i + 1)..Depth : HasSync(scope[j]))
          /\ UNCHANGED throwing
       \/ /\ ~db.autoCommit
          /\ throwing' = TRUE
          /\ scope' = [scope EXCEPT ![i].db = TRUE, ![i].saved = level]
          /\ lapses' = lapses \cup {"inside"}
          /\ UNCHANGED db
    /\ UNCHANGED <<terminated, units, asked, made>>

\* end() and commit(), and rollback().
Finish(i, commits) ==
    LET o == scope[i] IN
    /\ Working /\ HasTx(o)
    /\ Asks(o, commits)
    /\ \E d \in (IF commits THEN End(db) ELSE {Rollback(db)}) :
           db' = d /\ lapses' = lapses \cup EndFailed(o, d, commits)
    /\ scope' = [scope EXCEPT ![i].db = FALSE, ![i].unit = 0]
    /\ UNCHANGED <<throwing, terminated, units, made>>

\* The destructor of the object on top; that of a ScopedSynchronous throws
\* PrepareError within a transaction.
Destroy ==
    LET o == scope[Depth] IN
    /\ ~terminated /\ Depth > 0
    /\ \/ /\ ~HasSync(o)
          /\ Asks(o, o.kind = "auto")
          /\ \E d \in Release(o, db) :
                 db' = d /\ lapses' = lapses \cup EndFailed(o, d, o.kind = "auto")
          /\ UNCHANGED terminated
       \/ /\ HasSync(o) /\ db.autoCommit
          /\ db' = [db EXCEPT !.sync = o.saved]
          /\ UNCHANGED <<terminated, asked, lapses>>
       \/ /\ HasSync(o) /\ ~db.autoCommit
          /\ terminated' = TRUE
          /\ UNCHANGED <<db, asked, lapses>>
    /\ scope' = SubSeq(scope, 1, Depth - 1)
    /\ UNCHANGED <<throwing, units, made>>

\* The implicit copy constructor and copy assignment of the three classes.
Copy(i) ==
    /\ Working /\ Depth < MaxDepth
    /\ scope' = Append(scope, scope[i])
    /\ lapses' = lapses \cup Lapse("copied", scope[i].db)
    /\ UNCHANGED <<db, throwing, terminated, units, asked, made>>

Assign(i, j) ==
    /\ Working /\ i # j /\ scope[i].kind = scope[j].kind
    /\ scope' = [scope EXCEPT ![i] = scope[j]]
    /\ lapses' = lapses \cup Lapse("copied", scope[i].db \/ scope[j].db)
    /\ UNCHANGED <<db, throwing, terminated, units, asked, made>>

-----------------------------------------------------------------------------
(* The thread.                                                             *)

\* The transaction a write is meant to be part of: the innermost one.
CurrentUnit ==
    LET open == {i \in Positions : HasTx(scope[i])} IN
    IF open = {} THEN 0
    ELSE scope[CHOOSE i \in open : \A j \in open : j <= i].unit

\* A write is part of SQLite's transaction, or one of its own.
Write ==
    /\ Working /\ Cardinality(made) < MaxWrites
    /\ LET w == [n |-> Cardinality(made) + 1, unit |-> CurrentUnit] IN
           /\ made' = made \cup {w}
           /\ db' = IF db.autoCommit THEN [db EXCEPT !.file = @ \cup {w}]
                                     ELSE [db EXCEPT !.pending = @ \cup {w}]
    /\ UNCHANGED <<scope, throwing, terminated, units, asked, lapses>>

\* A write that fails on an I/O error takes the transaction with it.
WriteFails ==
    /\ Working /\ ~db.autoCommit
    /\ db' = [db EXCEPT !.autoCommit = TRUE, !.pending = {}]
    /\ lapses' = lapses \cup {"ioerr"}
    /\ UNCHANGED <<scope, throwing, terminated, units, asked, made>>

\* An exception is thrown, by a prepare() for example, and caught in a scope
\* that is further out or not.
Throw ==
    /\ Working /\ throwing' = TRUE
    /\ UNCHANGED <<db, scope, terminated, units, asked, made, lapses>>

Catch ==
    /\ throwing /\ ~terminated /\ throwing' = FALSE
    /\ UNCHANGED <<db, scope, terminated, units, asked, made, lapses>>

Terminated == terminated /\ UNCHANGED vars

Next ==
    \/ \E given \in BOOLEAN :
           \/ \E kind \in {"auto", "manual"} : ConstructTx(kind, given)
           \/ ConstructSync(given)
           \/ \E i \in Positions : ResetTx(i, given) \/ ResetSync(i, given)
    \/ \E i \in Positions, commits \in BOOLEAN : Finish(i, commits)
    \/ \E i, j \in Positions : Assign(i, j)
    \/ \E i \in Positions : Copy(i)
    \/ Destroy \/ Write \/ WriteFails \/ Throw \/ Catch \/ Terminated

Spec == Init /\ [][Next]_vars

-----------------------------------------------------------------------------
(* Correctness, unless the thread or the database has done what the        *)
(* objects cannot cope with.                                               *)

\* The range of every variable.
TypeOK ==
    /\ db \in Connections
    /\ scope \in Seq(Objects) /\ Depth <= MaxDepth
    /\ throwing \in BOOLEAN /\ terminated \in BOOLEAN
    /\ units \in Units /\ asked \in SUBSET Units
    /\ made \in SUBSET Writes /\ lapses \in SUBSET Lapses

Without(S) == lapses \cap S = {}
OpenUnits  == {scope[i].unit : i \in {j \in Positions : HasTx(scope[j])}}

\* All or nothing: the writes made under an object wait while it holds its
\* transaction, are all committed if it ended it on purpose or by its
\* destructor, and are all gone if it was rolled back, by an exception for one.
\* The database must not end the transaction behind the object's back.
UnitsAtomic ==
    Without({"nested", "copied", "endError", "ioerr"}) =>
        \A w \in made :
            /\ w \in db.pending <=> w.unit \in OpenUnits
            /\ w \in db.file <=> w.unit \in (asked \cup {0}) \ OpenUnits

\* When no object holds a transaction none is open: neither the order in which
\* the objects are used nor a nested one leaves the file locked.
TransactionGuarded ==
    Without({"copied", "endError"}) => db.autoCommit \/ OpenUnits # {}

\* Whoever asks isInTransaction() in a transaction is not told that there is
\* none, nested objects, copies and I/O errors included.
FlagSound == Without({"endError"}) => db.autoCommit \/ db.inTx

\* No destructor throws: a ScopedSynchronous is gone before the transaction
\* that it surrounds begins, or after it is over.
NoTerminate == Without({"copied", "crossed", "inside", "endError"}) => ~terminated

\* PRAGMA synchronous is FULL while a ScopedSynchronous holds the database, and
\* what it was at the start when none does, however they are nested.
SyncScoped ==
    Without({"copied", "crossed", "inside"}) /\ ~terminated =>
        db.sync = IF \E i \in Positions : HasSync(scope[i]) THEN "FULL" ELSE "NORMAL"
=============================================================================
