--------------------------- MODULE GeneratedAccess ---------------------------
(***************************************************************************)
(* The functions generateSqlFunction writes, and the DatabaseQuery each of *)
(* them keeps in a member variable and uses again in every call: prepared  *)
(* once, bound, stepped through a cursor or write(), and reset, or not.    *)
(*                                                                         *)
(* One thread calls the functions of one connection, one at a time.  Locks *)
(* and commits are SharedDatabase's; of them this module keeps that nobody *)
(* else changes the table while a statement of this connection is running, *)
(* and that a statement may have to be repeated from its start.            *)
(* assert(hasNext), which fails without a row and after every error of     *)
(* next(), stops a debug build; here the call goes on, as with NDEBUG.     *)
(***************************************************************************)
EXTENDS SqlStatements

CONSTANTS NoCall, NoAnswer

Calls == UNION {[func : {f}, args : Args(f)] : f \in Func}

ASSUME NothingAssumption == NoCall \notin Calls /\ NoAnswer \notin Answers

VARIABLES
    rows,   \* the table, as this connection sees it
    call,   \* the function called and its arguments
    phase,  \* where the call is in the generated code
    query,  \* [Func -> Queries], the member variable of every function
    ret     \* the local variable with the rows collected so far

vars == <<rows, call, phase, query, ret>>

Phases == {"idle", "prepare", "bind", "step", "close"}

\* vm is Vdbe.eVdbeState; out are the rows a running statement will yet yield.
Queries(f) ==
    [prepared : BOOLEAN,
     vm       : {"ready", "run", "halt"},
     curr_idx : 1..(Arity[f] + 1),
     bound    : Bound(f),
     out      : Seq(1..MaxId)]

Unprepared(f) ==
    [prepared |-> FALSE, vm |-> "ready", curr_idx |-> 1,
     bound |-> [i \in 1..Arity[f] |-> Null], out |-> <<>>]

Init ==
    /\ rows \in Table
    /\ call = NoCall
    /\ phase = "idle"
    /\ query = [f \in Func |-> Unprepared(f)]
    /\ ret = NoRows

\* The function in progress and its statement.
fn == call.func
q  == query[fn]

SetVm(vm, out) == query' = [query EXCEPT ![fn].vm = vm, ![fn].out = out]

Running == {f \in Func : query[f].vm = "run"}

-----------------------------------------------------------------------------
(* The head of the function.                                               *)

Call(f, a) ==
    /\ phase = "idle"
    /\ call' = [func |-> f, args |-> a]
    /\ phase' = IF query[f].prepared THEN "bind" ELSE "prepare"
    /\ UNCHANGED <<rows, query, ret>>

Prepare ==
    /\ phase = "prepare"
    /\ query' = [query EXCEPT ![fn].prepared = TRUE]
    /\ phase' = "bind"
    /\ UNCHANGED <<rows, call, ret>>

\* prepare throws PrepareError; the member stays unprepared.
PrepareError ==
    /\ phase = "prepare"
    /\ call' = NoCall
    /\ phase' = "idle"
    /\ UNCHANGED <<rows, query, ret>>

\* Every parameter is bound at curr_idx, which counts on although sqlite3_bind
\* refuses a statement that was not reset and an index that is too large; both
\* errors are only logged.  All indexes beyond the last are one.
Bind ==
    /\ phase = "bind"
    /\ query' = [query EXCEPT
           ![fn].bound = [i \in DOMAIN @ |->
               IF q.vm = "ready" /\ i >= q.curr_idx
               THEN call.args[i + 1 - q.curr_idx] ELSE @[i]],
           ![fn].curr_idx = Arity[fn] + 1]
    /\ ret' = NoRows
    /\ phase' = "step"
    /\ UNCHANGED <<rows, call>>

-----------------------------------------------------------------------------
(* cursor.next() until it answers FALSE for a vector, once for the other   *)
(* results; write() goes on to the end by itself.                          *)

OneRow(f) == Result[f] \in {"struct", "raw", "optional"}

\* What sqlite3_step goes on with: the rest of a statement that is still
\* running, a new execution of one that is ready or halted.
Attempt ==
    IF q.vm = "run" THEN {[rows |-> rows, yield |-> q.out]}
                    ELSE Executions(fn, q.bound, rows)

StepRow ==
    /\ phase = "step"
    /\ \E x \in Attempt :
           /\ x.yield # <<>>
           /\ rows' = x.rows
           /\ SetVm("run", Tail(x.yield))
           /\ ret' = IF ReadsRows(fn)
                     THEN [ret EXCEPT !.ids = Append(@, Head(x.yield))] ELSE ret
    /\ phase' = IF OneRow(fn) THEN "close" ELSE "step"
    /\ UNCHANGED call

StepDone ==
    /\ phase = "step"
    /\ \E x \in Attempt : x.yield = <<>> /\ rows' = x.rows
    /\ SetVm("halt", <<>>)
    /\ phase' = "close"
    /\ UNCHANGED <<call, ret>>

\* SQLITE_BUSY and the sqlite3_reset before another attempt.
StepBusy ==
    /\ phase = "step" /\ q.vm # "run"
    /\ SetVm("ready", <<>>)
    /\ UNCHANGED <<rows, call, phase, ret>>

\* A constraint fails, the table is full, or a query cannot read on.
StepFail ==
    /\ phase = "step"
    /\ q.vm = "run" => Sql[fn] = "select"
    /\ SetVm("halt", <<>>)
    /\ ret' = [ret EXCEPT !.ok = FALSE]
    /\ phase' = "close"
    /\ UNCHANGED <<rows, call>>

-----------------------------------------------------------------------------
(* The tail of the function.                                               *)

\* Mutant: a function that reads one row does not reset its query.
MutResets(f) == Arity[f] > 0 /\ Result[f] # "bool" /\ ~OneRow(f)

\* Only a function with parameters resets its query, and one that returns
\* bool has returned before it does.
Resets(f) == Arity[f] > 0 /\ Result[f] # "bool"

\* Mutant: sqlite3_reset, but curr_idx goes on counting.
MutReset(x) == [x EXCEPT !.vm = "ready", !.out = <<>>]

\* DatabaseQuery::reset, which keeps the bound values.
Reset(x) == [x EXCEPT !.vm = "ready", !.out = <<>>, !.curr_idx = 1]

Return ==
    /\ phase = "close"
    /\ query' = IF Resets(fn) THEN [query EXCEPT ![fn] = Reset(@)] ELSE query
    /\ call' = NoCall
    /\ phase' = "idle"
    /\ ret' = NoRows
    /\ UNCHANGED rows

-----------------------------------------------------------------------------
\* Another connection commits; it needs every lock of this one to be gone.
Others ==
    /\ Running = {}
    /\ \E id \in 1..MaxId, w \in Row \cup {NoRow} :
           rows' = [rows EXCEPT ![id] = w]
    /\ UNCHANGED <<call, phase, query, ret>>

Next ==
    \/ \E f \in Func : \E a \in Args(f) : Call(f, a)
    \/ Prepare \/ PrepareError \/ Bind
    \/ StepRow \/ StepDone \/ StepBusy \/ StepFail
    \/ Return \/ Others

Spec == Init /\ [][Next]_vars

-----------------------------------------------------------------------------
(* Correctness.                                                            *)

\* The functions whose every path leaves the statement reset or halted: those
\* without parameters must run to the end, those with parameters must reset.
Reusable(f) ==
    IF Arity[f] = 0 THEN ~OneRow(f) ELSE Result[f] # "bool"

\* The range of every variable.
TypeOK ==
    /\ rows \in Table
    /\ call \in {NoCall} \cup Calls
    /\ phase \in Phases
    /\ query = [f \in Func |-> query[f]]
    /\ \A f \in Func : query[f] \in Queries(f)
    /\ ret \in Answers

\* Between two calls no statement of the connection is running: none keeps a
\* lock that would block the other connections.
NothingLeftOpen == phase = "idle" => Running = {}

\* What is executed is executed with the arguments of the call it serves.
OwnArguments ==
    [][phase = "step" /\ phase' = "close" => q.bound = call.args]_vars

\* The answer that is certain from the first step of an execution on.
answer ==
    IF phase = "close" THEN ret
    ELSE IF phase = "step" /\ q.vm = "run"
    THEN IF ReadsRows(fn) THEN [ret EXCEPT !.ids = @ \o q.out] ELSE ret
    ELSE NoAnswer

Fresh == INSTANCE FreshCalls WITH answer <- answer

\* Every call is a fresh execution of its SQL.
CallsAreFresh == Fresh!Spec
=============================================================================
