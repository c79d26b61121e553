----------------------------- MODULE FreshCalls -----------------------------
(***************************************************************************)
(* What a generated accessor promises: a call executes its SQL once, with  *)
(* its own arguments, on the table as it is at one moment of the call, and *)
(* answers with that execution's rows, as if its statement were prepared   *)
(* anew.  Nothing is left over for the next call.                          *)
(***************************************************************************)
EXTENDS SqlStatements

CONSTANTS
    NoCall,    \* the thread is in no accessor
    NoAnswer   \* the call has not executed its SQL

VARIABLES
    rows,   \* the table
    call,   \* the function called and its arguments
    answer  \* what the call will return

vars == <<rows, call, answer>>

Init ==
    /\ rows \in Table
    /\ call = NoCall
    /\ answer = NoAnswer

Call(f, a) ==
    /\ call = NoCall
    /\ call' = [func |-> f, args |-> a]
    /\ UNCHANGED <<rows, answer>>

Execute ==
    /\ call # NoCall /\ answer = NoAnswer
    /\ \E x \in Executions(call.func, call.args, rows) :
           /\ rows' = x.rows
           /\ answer' = Answer(call.func, x.yield)
    /\ UNCHANGED call

\* The execution fails and has no effect.
Fail ==
    /\ call # NoCall /\ answer = NoAnswer
    /\ answer' = Failed(<<>>)
    /\ UNCHANGED <<rows, call>>

\* A query fails after it has handed out some of its rows.
Interrupt ==
    /\ answer # NoAnswer /\ Sql[call.func] = "select"
    /\ \E n \in 0..Len(answer.ids) : answer' = Failed(SubSeq(answer.ids, 1, n))
    /\ UNCHANGED <<rows, call>>

Return ==
    /\ answer # NoAnswer
    /\ call' = NoCall
    /\ answer' = NoAnswer
    /\ UNCHANGED rows

\* The statement could not be prepared: the call throws PrepareError.
Throw ==
    /\ call # NoCall /\ answer = NoAnswer
    /\ call' = NoCall
    /\ UNCHANGED <<rows, answer>>

\* Another connection commits.
Others ==
    /\ rows' \in Table
    /\ UNCHANGED <<call, answer>>

Next ==
    \/ \E f \in Func : \E a \in Args(f) : Call(f, a)
    \/ Execute \/ Fail \/ Interrupt \/ Return \/ Throw \/ Others

Spec == Init /\ [][Next]_vars
=============================================================================
