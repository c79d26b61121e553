---------------------------- MODULE StepTimeouts ----------------------------
(***************************************************************************)
(* The timeouts of write(), read() and cursor() on one Database.  A timeout *)
(* belongs to a call or to a cursor, but is kept in the one busy handler of *)
(* the connection, which every call and cursor of the thread shares; the   *)
(* calls set it, count it down over SQLITE_LOCKED, and put the default     *)
(* back.  Other connections answer SQLITE_BUSY whenever they like, a DROP  *)
(* is SQLITE_LOCKED while another statement of its connection is active.   *)
(*                                                                         *)
(* Times are milliseconds.  One action is one sqlite3_step with what       *)
(* Execute, step, read and next do with its answer.                        *)
(***************************************************************************)
EXTENDS Integers

CONSTANTS
    Query,     \* the DatabaseQuery objects
    Drops,     \* those that drop a table; the others are SELECTs
    Timeouts,  \* timeoutms of the calls, -1 for none
    NoCursor,  \* a query without a DatabaseCursor
    Idle,      \* the thread is in no call
    MaxRows    \* bound: rows of a SELECT

ASSUME QueryAssumption == Drops \subseteq Query
ASSUME TimeoutAssumption == Timeouts \subseteq Int /\ \A t \in Timeouts : t >= -1
ASSUME BoundAssumption == MaxRows \in Nat

VARIABLES
    handler,  \* the timeout of the busy handler, 0 when there is none
    vm,       \* [Query -> VmStates], the prepared statements
    pos,      \* [Query -> 0..MaxRows], rows of the execution
    cursor,   \* [Selects -> Cursors] or NoCursor, DatabaseQuery._cursor
    call,     \* the call the thread is in
    lapses    \* history: what the thread has done

vars == <<handler, vm, pos, cursor, call, lapses>>

\* c_sqlite_busy_timeout_default, and what prepare() leaves after SQLITE_BUSY.
Default   == 10000
Impatient == 50

\* As in SqliteEngine.
VmStates == {"stopped", "busy", "open"}

Lapses == {
    "prepareBusy",  \* a prepare() met SQLITE_BUSY
    "interleaved",  \* a call or a cursor is started while a timed cursor is open
    "reused",       \* cursor(t) of a query that has a cursor with another timeout
    "rounded",      \* SQLITE_LOCKED outlasts a timeout, which goes below zero
    "mixed",        \* a cursor is used after its shutdown(), beside another call
                    \* of its query, or again without a reset
    "selfLock" }    \* an untimed DROP while another statement is active

Selects == Query \ Drops

\* DatabaseCursor: timeoutms, lastErr = SQLITE_ROW, is_shutdown; and the timeout
\* that was asked for.
Cursors == [timeout : Timeouts, asked : Timeouts, row : BOOLEAN, shut : BOOLEAN]

\* left is the timeoutms that Execute counts down.
Calls == [fn : {"exec", "read", "next"}, query : Query, asked : Timeouts, left : Int]

ASSUME NoneAssumption == NoCursor \notin Cursors /\ Idle \notin Calls

Init ==
    /\ handler = Default
    /\ vm = [q \in Query |-> "stopped"]
    /\ pos = [q \in Query |-> 0]
    /\ cursor = [q \in Selects |-> NoCursor]
    /\ call = Idle
    /\ lapses = {}

-----------------------------------------------------------------------------
(* The busy handler.                                                       *)

Lapse(name, P) == {x \in {name} : P}
Timed(t) == t >= 0

\* The cursors that hold a timeout, until their shutdown().
Holds(q) == cursor[q] # NoCursor /\ Timed(cursor[q].timeout) /\ ~cursor[q].shut

\* Mutant: the connection keeps the timeout it has.
MutSetup(t) == UNCHANGED handler

\* setupStepping
Setup(t) == handler' = IF Timed(t) THEN t ELSE handler

\* Mutant: the default is not put back.
MutRestore(t) == UNCHANGED handler

\* The last lines of Execute, and shutdownStepping.
Restore(t) == handler' = IF Timed(t) THEN Default ELSE handler

Interleaved(q) == Lapse("interleaved", \E p \in Selects \ {q} : Holds(p))

-----------------------------------------------------------------------------
(* The thread starts a call.                                               *)

Enter(fn, q, asked, t) ==
    call' = [fn |-> fn, query |-> q, asked |-> asked, left |-> t]

\* Database::prepare of some query: its loop over SQLITE_BUSY, when it met one.
PrepareBusy ==
    /\ call = Idle
    /\ handler' = Impatient
    /\ lapses' = lapses \cup {"prepareBusy"}
    /\ UNCHANGED <<vm, pos, cursor, call>>

\* DatabaseQuery::write and read; a DROP is written.
StartCall(fn, q, t) ==
    /\ call = Idle /\ (q \in Drops => fn = "exec")
    /\ Enter(fn, q, t, t)
    /\ Setup(t)
    /\ lapses' = lapses
           \cup Lapse("interleaved", \E p \in Selects : Holds(p))
           \cup Lapse("mixed", q \in Selects /\ cursor[q] # NoCursor)
           \cup Lapse("selfLock", q \in Drops /\ ~Timed(t)
                                  /\ \E p \in Query \ {q} : vm[p] # "stopped")
    /\ UNCHANGED <<vm, pos, cursor>>

\* DatabaseQuery::cursor: the constructor or DatabaseCursor::reset, which keeps
\* the timeout of the first call.
OpenCursor(q, t) ==
    LET timeout == IF cursor[q] = NoCursor THEN t ELSE cursor[q].timeout IN
    /\ call = Idle
    /\ cursor' = [cursor EXCEPT ![q] =
           [timeout |-> timeout, asked |-> t, row |-> FALSE, shut |-> FALSE]]
    /\ Setup(timeout)
    /\ lapses' = lapses \cup Interleaved(q)
           \cup Lapse("reused", timeout # t)
           \cup Lapse("mixed", vm[q] # "stopped")
    /\ UNCHANGED <<vm, pos, call>>

\* DatabaseCursor::next
StartNext(q) ==
    /\ call = Idle /\ cursor[q] # NoCursor
    /\ Enter("next", q, cursor[q].asked, cursor[q].timeout)
    /\ lapses' = lapses \cup Interleaved(q) \cup Lapse("mixed", cursor[q].shut)
    /\ UNCHANGED <<handler, vm, pos, cursor>>

\* Mutant: the statement is not reset.
MutShutdown(q) ==
    /\ call = Idle /\ cursor[q] # NoCursor /\ ~cursor[q].shut
    /\ cursor' = [cursor EXCEPT ![q].shut = TRUE]
    /\ Restore(cursor[q].timeout)
    /\ UNCHANGED <<vm, pos, call, lapses>>

\* DatabaseCursor::shutdown resets the statement after a row only.
Shutdown(q) ==
    /\ call = Idle /\ cursor[q] # NoCursor /\ ~cursor[q].shut
    /\ cursor' = [cursor EXCEPT ![q].shut = TRUE]
    /\ Restore(cursor[q].timeout)
    /\ IF cursor[q].row
       THEN vm' = [vm EXCEPT ![q] = "stopped"] /\ pos' = [pos EXCEPT ![q] = 0]
       ELSE UNCHANGED <<vm, pos>>
    /\ UNCHANGED <<call, lapses>>

\* DatabaseQuery::reset
Reset(q) ==
    /\ call = Idle
    /\ vm' = [vm EXCEPT ![q] = "stopped"]
    /\ pos' = [pos EXCEPT ![q] = 0]
    /\ UNCHANGED <<handler, cursor, call, lapses>>

-----------------------------------------------------------------------------
(* One sqlite3_step of the call.                                           *)

Q == call.query
Others == Query \ {Q}

\* The call returns: read and Execute put the default back, by the timeout they
\* have left, next remembers whether the answer was a row.
Return(row) ==
    /\ call' = Idle
    /\ IF call.fn = "next"
       THEN cursor' = [cursor EXCEPT ![Q].row = row] /\ UNCHANGED handler
       ELSE Restore(call.left) /\ UNCHANGED cursor

Stops(q, state) == vm' = [vm EXCEPT ![q] = state] /\ pos' = [pos EXCEPT ![q] = 0]

Locked == Q \in Drops /\ \E p \in Others : vm[p] # "stopped"

\* SQLITE_BUSY at the start of the statement.  A timed call gives up without a
\* reset, an untimed one resets and goes on.
StepBusy ==
    /\ call # Idle /\ vm[Q] # "open"
    /\ \/ Timed(call.left) /\ Stops(Q, "busy") /\ Return(FALSE)
       \/ ~Timed(call.left) /\ Stops(Q, "stopped") /\ UNCHANGED <<handler, cursor, call>>
    /\ UNCHANGED lapses

StepRow ==
    /\ call # Idle /\ Q \notin Drops /\ pos[Q] < MaxRows
    /\ vm' = [vm EXCEPT ![Q] = "open"]
    /\ pos' = [pos EXCEPT ![Q] = @ + 1]
    /\ IF call.fn = "next" THEN Return(TRUE) ELSE UNCHANGED <<handler, cursor, call>>
    /\ UNCHANGED lapses

StepDone ==
    /\ call # Idle /\ ~Locked
    /\ Stops(Q, "stopped") /\ Return(FALSE)
    /\ UNCHANGED lapses

\* Any other error.
StepError ==
    /\ call # Idle /\ ~Locked
    /\ Stops(Q, "stopped") /\ Return(FALSE)
    /\ UNCHANGED lapses

\* Mutant: the second is not taken off the timeout.
MutStepLocked ==
    /\ call # Idle /\ Locked
    /\ Stops(Q, "stopped")
    /\ UNCHANGED <<handler, cursor, call, lapses>>

\* SQLITE_LOCKED: Execute sleeps a second and repeats the statement; a timeout
\* that runs out below zero is taken for none.
StepLocked ==
    LET left == IF Timed(call.left) THEN call.left - 1000 ELSE call.left IN
    /\ call # Idle /\ Locked
    /\ Stops(Q, "stopped")
    /\ \/ /\ Timed(call.left) /\ left <= 0
          /\ call' = Idle
          /\ Restore(left)
       \/ /\ Timed(call.left) => left > 0
          /\ call' = [call EXCEPT !.left = left]
          /\ UNCHANGED handler
    /\ lapses' = lapses \cup Lapse("rounded", Timed(call.left) /\ left < 0)
    /\ UNCHANGED cursor

-----------------------------------------------------------------------------
Answered == StepRow \/ StepDone \/ StepError \/ StepLocked

Next ==
    \/ PrepareBusy \/ StepBusy \/ Answered
    \/ \E q \in Query :
           \E fn \in {"exec", "read"}, t \in Timeouts : StartCall(fn, q, t)
    \/ \E q \in Selects :
           \/ \E t \in Timeouts : OpenCursor(q, t)
           \/ StartNext(q) \/ Shutdown(q) \/ Reset(q)

Spec == Init /\ [][Next]_vars

-----------------------------------------------------------------------------
(* Correctness, unless the thread does what a shared handler cannot bear.  *)

\* The range of every variable.
TypeOK ==
    /\ handler \in Nat
    /\ vm \in [Query -> VmStates]
    /\ pos \in [Query -> 0..MaxRows]
    /\ cursor \in [Selects -> Cursors \cup {NoCursor}]
    /\ call \in Calls \cup {Idle}
    /\ lapses \in SUBSET Lapses

Without(S) == lapses \cap S = {}

\* Between two calls the connection waits as long as it did at the start: no
\* timeout of a call or a cursor is left over, in whatever order calls and
\* cursors with and without timeouts follow each other and fail.
HandlerRestored ==
    call = Idle /\ (\A q \in Selects : ~Holds(q)) /\ Without({"prepareBusy", "rounded"}) =>
        handler = Default

\* A call waits as long as its caller, or the caller of cursor(), asked for.
OwnTimeout ==
    call # Idle /\ Without({"prepareBusy", "rounded", "interleaved", "reused", "mixed"}) =>
        handler = IF Timed(call.asked) THEN call.asked ELSE Default

\* A cursor that was shut down in the middle of its rows keeps no lock.
ShutdownStops ==
    Without({"mixed"}) =>
        \A q \in Selects : cursor[q] # NoCursor /\ cursor[q].shut => vm[q] # "open"

\* The thread goes on stepping and is not answered SQLITE_BUSY for ever: who
\* keeps a file busy is SharedDatabase's matter.
FairSpec == Spec /\ WF_vars(Answered)

\* Every call returns, but for the untimed DROP that waits for a statement of
\* its own thread; a timed one returns even then.
CallsReturn == call # Idle /\ Without({"selfLock"}) ~> call = Idle
=============================================================================
