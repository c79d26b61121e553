----------------------- MODULE GeneratedAccessProofs -----------------------
(***************************************************************************)
(* A generated function whose statement is reset or run to its end by      *)
(* every path behaves, in every call, like a fresh execution of its SQL.   *)
(***************************************************************************)
EXTENDS GeneratedAccess, FiniteSetTheorems, SequenceTheorems,
        TLAPS

\* Every function of the program is one that leaves its statement reusable.
AllReusable == \A f \in Func : Reusable(f)

InBody == phase \in {"step", "close"}

\* What the wrapper keeps between two calls, and what the body relies on.
CallInv     == (phase = "idle") <=> (call = NoCall)
StoppedInv  == \A f \in Func : query[f].vm = "run" => InBody /\ f = fn
FreshInv    == \A f \in Func :
                  Arity[f] > 0 /\ ~(InBody /\ f = fn) =>
                      query[f].vm = "ready" /\ query[f].curr_idx = 1
BoundInv    == InBody => q.bound = call.args
BeforeInv   == phase = "step" /\ q.vm # "run" => ret = NoRows
DuringInv   == phase = "step" /\ q.vm = "run" =>
                  ~OneRow(fn) /\ ret.ok /\ (~ReadsRows(fn) => ret.ids = <<>>)
AfterInv    == phase = "close" /\ q.vm = "run" => OneRow(fn)

AccessInv ==
    /\ TypeOK /\ CallInv /\ StoppedInv /\ FreshInv
    /\ BoundInv /\ BeforeInv /\ DuringInv /\ AfterInv

-----------------------------------------------------------------------------
\* A function from 1..n to a set is a sequence over any larger set.
LEMMA FunctionIsSeq ==
    ASSUME NEW T, NEW S \in SUBSET T, NEW n \in Nat, NEW s \in [1..n -> S]
    PROVE  s \in Seq(T)
<1>1. s \in [1..n -> T]
  OBVIOUS
<1>2. QED
  BY <1>1, SeqDef, Zenon

\* What an execution may leave in the table and yield is of the right type.
LEMMA ExecutionType ==
    ASSUME NEW f \in Func, NEW b \in Bound(f), NEW r \in Table,
           NEW x \in Executions(f, b, r)
    PROVE  x.rows \in Table /\ x.yield \in Seq(1..MaxId)
<1>1. \A s \in Orders(Matches(b, r)) : s \in Seq(1..MaxId)
  <2>1. IsFiniteSet(1..MaxId) /\ Matches(b, r) \subseteq 1..MaxId
    BY FS_Interval, WidthAssumption DEF Matches
  <2>2. Cardinality(Matches(b, r)) \in Nat
    BY <2>1, FS_Subset, FS_CardinalityType
  <2>3. \A s \in [1..Cardinality(Matches(b, r)) -> Matches(b, r)] :
            s \in Seq(1..MaxId)
    BY <2>1, <2>2, FunctionIsSeq, Zenon
  <2>4. QED
    BY <2>3 DEF Orders
<1>2. CASE Sql[f] = "select"
  <2>1. Executions(f, b, r) =
            {[rows |-> r, yield |-> s] : s \in Orders(Matches(b, r))}
    BY <1>2 DEF Executions
  <2>2. PICK s \in Orders(Matches(b, r)) : x = [rows |-> r, yield |-> s]
    BY <2>1
  <2>3. QED
    BY <1>1, <2>2
<1>3. CASE Sql[f] = "insert"
  <2>1. NewRow(b) \in Row
    BY SqlAssumption, WidthAssumption DEF NewRow, Row, Bound
  <2>2. PICK n \in 1..MaxId :
           /\ x.rows = [r EXCEPT ![n] = NewRow(b)]
           /\ x.yield \in {<<n>>, <<>>}
    <3>1. Executions(f, b, r) =
            {[rows |-> [r EXCEPT ![n] = NewRow(b)],
              yield |-> IF f \in Returning THEN <<n>> ELSE <<>>] :
                 n \in NextId(r)}
      BY <1>3 DEF Executions
    <3>2. PICK n \in NextId(r) :
            x = [rows |-> [r EXCEPT ![n] = NewRow(b)],
                 yield |-> IF f \in Returning THEN <<n>> ELSE <<>>]
      BY <3>1
    <3>3. n \in 1..MaxId
      BY <3>2 DEF NextId
    <3>4. QED
      BY <3>2, <3>3
  <2>3. x.rows \in Table
    BY <2>1, <2>2 DEF Table
  <2>4. x.yield \in Seq(1..MaxId)
    <3>1. <<n>> \in Seq(1..MaxId) /\ <<>> \in Seq(1..MaxId)
      OBVIOUS
    <3>2. QED
      BY <2>2, <3>1, Zenon
  <2>5. QED
    BY <2>3, <2>4
<1>4. CASE Sql[f] = "delete"
  <2>1. PICK s \in IF f \in Returning THEN Orders(Matches(b, r)) ELSE {<<>>} :
           x = [rows |-> [id \in 1..MaxId |->
                             IF id \in Matches(b, r) THEN NoRow ELSE r[id]],
                yield |-> s]
    BY <1>4 DEF Executions
  <2>2. x.rows \in Table
    BY <2>1 DEF Table
  <2>3. s \in Seq(1..MaxId)
    <3>1. s = <<>> \/ s \in Orders(Matches(b, r))
      BY <2>1
    <3>2. <<>> \in Seq(1..MaxId)
      OBVIOUS
    <3>3. QED
      BY <1>1, <3>1, <3>2, Zenon
  <2>4. QED
    BY <2>1, <2>2, <2>3
<1>5. QED
  BY <1>2, <1>3, <1>4, SqlAssumption
-----------------------------------------------------------------------------
\* In a call, its function and its arguments are known.
LEMMA CallType ==
    ASSUME TypeOK, CallInv, phase # "idle"
    PROVE  /\ call \in Calls /\ fn \in Func /\ call.args \in Args(fn)
           /\ q \in Queries(fn)
<1>1. call \in Calls
  BY DEF TypeOK, CallInv
<1>2. PICK f \in Func : call \in [func : {f}, args : Args(f)]
  BY <1>1 DEF Calls
<1>3. fn = f /\ call.args \in Args(fn)
  BY <1>2 DEF fn
<1>4. QED
  BY <1>1, <1>3 DEF TypeOK, q

\* Only the statement of the call changes, and of it only what is named.
LEMMA SetVmType ==
    ASSUME TypeOK, fn \in Func, NEW v \in {"ready", "run", "halt"},
           NEW o \in Seq(1..MaxId), SetVm(v, o)
    PROVE  /\ query' \in [Func -> UNION {Queries(f) : f \in Func}]
           /\ \A f \in Func : query'[f] \in Queries(f)
           /\ \A f \in Func \ {fn} : query'[f] = query[f]
           /\ query'[fn] = [q EXCEPT !.vm = v, !.out = o]
           /\ query'[fn].vm = v /\ query'[fn].out = o
           /\ query'[fn].bound = q.bound /\ query'[fn].curr_idx = q.curr_idx
<1>1. q \in Queries(fn)
  BY DEF TypeOK, q
<1>2. [q EXCEPT !.vm = v, !.out = o] \in Queries(fn)
  BY <1>1 DEF Queries
<1>3. query'[fn] = [q EXCEPT !.vm = v, !.out = o]
  BY DEF SetVm, TypeOK, q
<1>4. \A f \in Func \ {fn} : query'[f] = query[f]
  BY DEF SetVm, TypeOK
<1>5. \A f \in Func : query'[f] \in Queries(f)
  BY <1>2, <1>3, <1>4 DEF TypeOK
<1>6. DOMAIN query' = Func /\ query' = [f \in Func |-> query'[f]]
  BY DEF SetVm, TypeOK
<1>7. query' \in [Func -> UNION {Queries(f) : f \in Func}]
  BY <1>5, <1>6
<1>8. QED
  BY <1>1, <1>2, <1>3, <1>4, <1>5, <1>7 DEF Queries

\* What sqlite3_step goes on with has the right type.
LEMMA AttemptType ==
    ASSUME TypeOK, CallInv, phase # "idle", NEW x \in Attempt
    PROVE  x.rows \in Table /\ x.yield \in Seq(1..MaxId)
<1>1. fn \in Func /\ q \in Queries(fn) /\ rows \in Table
  BY CallType DEF TypeOK
<1>2. CASE q.vm = "run"
  BY <1>1, <1>2 DEF Attempt, Queries
<1>3. CASE q.vm # "run"
  BY <1>1, <1>3, ExecutionType DEF Attempt, Queries
<1>4. QED
  BY <1>2, <1>3

-----------------------------------------------------------------------------
LEMMA InitInv ==
    ASSUME Init
    PROVE  AccessInv
<1>1. \A f \in Func : Arity[f] \in Nat
  BY SqlAssumption, WidthAssumption
<1>2. \A f \in Func : Unprepared(f) \in Queries(f)
  BY <1>1 DEF Unprepared, Queries, Bound
<1>3. \A f \in Func : query[f] \in Queries(f)
  BY <1>2 DEF Init
<1>4. query \in [Func -> UNION {Queries(f) : f \in Func}]
  BY <1>3 DEF Init
<1>5. ret \in Answers
  BY DEF Init, NoRows, Answers
<1>6. TypeOK
  BY <1>3, <1>4, <1>5 DEF Init, TypeOK, Phases
<1>7. QED
  BY <1>6 DEF Init, AccessInv, CallInv, StoppedInv, FreshInv, BoundInv,
              BeforeInv, DuringInv, AfterInv, InBody, Unprepared
-----------------------------------------------------------------------------
(* One lemma per group of actions: each keeps the invariant.               *)

LEMMA CallInvStep ==
    ASSUME AccessInv, NEW f \in Func, NEW a \in Args(f), Call(f, a)
    PROVE  AccessInv'
<1>1. TypeOK'
  BY NothingAssumption DEF AccessInv, TypeOK, Call, Calls, Phases
<1>2. call' # NoCall /\ phase' \in {"bind", "prepare"} /\ ~InBody'
  BY NothingAssumption DEF Call, Calls, InBody
<1>3. \A g \in Func : /\ query[g].vm # "run"
                      /\ Arity[g] > 0 => query[g].vm = "ready" /\ query[g].curr_idx = 1
  BY DEF AccessInv, StoppedInv, FreshInv, InBody, Call
<1>4. query' = query
  BY DEF Call
<1>5. StoppedInv' /\ FreshInv'
  BY <1>2, <1>3, <1>4 DEF StoppedInv, FreshInv
<1>6. QED
  BY <1>1, <1>2, <1>5 DEF AccessInv, CallInv, BoundInv, BeforeInv, DuringInv,
                          AfterInv, InBody

LEMMA PrepareInvStep ==
    ASSUME AccessInv, Prepare \/ PrepareError
    PROVE  AccessInv'
<1>1. fn \in Func /\ q \in Queries(fn) /\ call \in Calls
  BY CallType DEF AccessInv, Prepare, PrepareError
<1>2. CASE Prepare
  <2>1. query' = [query EXCEPT ![fn].prepared = TRUE] /\ call' = call
    BY <1>2 DEF Prepare
  <2>2. query'[fn] = [q EXCEPT !.prepared = TRUE]
    BY <1>1, <2>1 DEF AccessInv, TypeOK, q
  <2>3. \A f \in Func \ {fn} : query'[f] = query[f]
    BY <2>1 DEF AccessInv, TypeOK
  <2>4. query'[fn] \in Queries(fn)
    BY <1>1, <2>2 DEF Queries
  <2>5. \A f \in Func : query'[f] \in Queries(f)
    BY <2>3, <2>4 DEF AccessInv, TypeOK
  <2>6. query' \in [Func -> UNION {Queries(f) : f \in Func}]
    <3>1. DOMAIN query' = Func /\ query' = [f \in Func |-> query'[f]]
      BY <2>1 DEF AccessInv, TypeOK
    <3>2. QED
      BY <2>5, <3>1
  <2>7. TypeOK'
    BY <1>2, <2>5, <2>6 DEF AccessInv, TypeOK, Prepare, Phases
  <2>8. \A f \in Func : /\ query'[f].vm = query[f].vm
                        /\ query'[f].curr_idx = query[f].curr_idx
    BY <1>1, <2>2, <2>3 DEF Queries, q
  <2>9. StoppedInv' /\ FreshInv'
    BY <1>2, <2>8 DEF AccessInv, StoppedInv, FreshInv, InBody, Prepare
  <2>10. QED
    BY <1>2, <2>7, <2>9 DEF AccessInv, CallInv, BoundInv, BeforeInv, DuringInv,
                           AfterInv, InBody, Prepare
<1>3. CASE PrepareError
  <2>1. TypeOK'
    BY <1>3 DEF AccessInv, TypeOK, PrepareError, Phases
  <2>2. StoppedInv' /\ FreshInv'
    BY <1>3 DEF AccessInv, StoppedInv, FreshInv, InBody, PrepareError
  <2>3. QED
    BY <1>3, <2>1, <2>2 DEF AccessInv, CallInv, BoundInv, BeforeInv, DuringInv,
                           AfterInv, InBody, PrepareError
<1>4. QED
  BY <1>2, <1>3

LEMMA BindInvStep ==
    ASSUME AccessInv, Bind
    PROVE  AccessInv'
<1>1. /\ fn \in Func /\ q \in Queries(fn) /\ call \in Calls
      /\ call.args \in Args(fn) /\ fn' = fn /\ call' = call
  BY CallType DEF AccessInv, Bind, fn
<1>2. Arity[fn] \in Nat
  BY <1>1, SqlAssumption, WidthAssumption
<1>3. q.vm # "run" /\ (Arity[fn] > 0 => q.vm = "ready" /\ q.curr_idx = 1)
  BY <1>1 DEF AccessInv, StoppedInv, FreshInv, InBody, Bind, q
<1>4. query' = [query EXCEPT ![fn].bound = call.args,
                             ![fn].curr_idx = Arity[fn] + 1]
  <2>1. [i \in DOMAIN q.bound |->
            IF q.vm = "ready" /\ i >= q.curr_idx
            THEN call.args[i + 1 - q.curr_idx] ELSE q.bound[i]] = call.args
    <3>1. DOMAIN q.bound = 1..Arity[fn]
      BY <1>1 DEF Queries, Bound
    <3>2. call.args = [i \in 1..Arity[fn] |-> call.args[i]]
      BY <1>1 DEF Args
    <3>3. \A i \in 1..Arity[fn] : /\ q.vm = "ready" /\ i >= q.curr_idx
                                  /\ call.args[i + 1 - q.curr_idx] = call.args[i]
      BY <1>2, <1>3
    <3>4. QED
      BY <3>1, <3>2, <3>3, Zenon
  <2>2. QED
    BY <1>1, <2>1 DEF Bind, q
<1>5. query'[fn] = [q EXCEPT !.bound = call.args, !.curr_idx = Arity[fn] + 1]
  BY <1>1, <1>4 DEF AccessInv, TypeOK, q
<1>6. \A f \in Func \ {fn} : query'[f] = query[f]
  BY <1>4 DEF AccessInv, TypeOK
<1>7. query'[fn] \in Queries(fn)
  <2>1. call.args \in Bound(fn)
    BY <1>1 DEF Args, Bound
  <2>2. Arity[fn] + 1 \in 1..(Arity[fn] + 1)
    BY <1>2
  <2>3. QED
    BY <1>1, <1>5, <2>1, <2>2 DEF Queries
<1>8. \A f \in Func : query'[f] \in Queries(f)
  BY <1>6, <1>7 DEF AccessInv, TypeOK
<1>9. query' \in [Func -> UNION {Queries(f) : f \in Func}]
  <2>1. DOMAIN query' = Func /\ query' = [f \in Func |-> query'[f]]
    BY <1>4 DEF AccessInv, TypeOK
  <2>2. QED
    BY <1>8, <2>1
<1>10. ret' = NoRows /\ NoRows \in Answers
  BY DEF Bind, NoRows, Answers
<1>11. TypeOK'
  BY <1>8, <1>9, <1>10 DEF AccessInv, TypeOK, Bind, Phases
<1>12. q'.vm = q.vm /\ q'.bound = call.args
  BY <1>1, <1>5 DEF q, Queries
<1>13. StoppedInv' /\ FreshInv'
  BY <1>1, <1>3, <1>6, <1>12 DEF AccessInv, StoppedInv, FreshInv, InBody, Bind, q
<1>14. QED
  BY <1>1, <1>3, <1>10, <1>11, <1>12, <1>13
     DEF AccessInv, CallInv, BoundInv, BeforeInv, DuringInv, AfterInv, InBody, Bind
\* What the steps have in common: SetVm, and the call goes on in its body.
LEMMA BodyStep ==
    ASSUME AccessInv, phase = "step", phase' \in {"step", "close"},
           rows' \in Table, ret' \in Answers, call' = call,
           NEW v \in {"ready", "run", "halt"}, NEW o \in Seq(1..MaxId), SetVm(v, o),
           phase' = "step" /\ v # "run" => ret' = NoRows,
           phase' = "step" /\ v = "run" =>
               ~OneRow(fn) /\ ret'.ok /\ (~ReadsRows(fn) => ret'.ids = <<>>),
           phase' = "close" /\ v = "run" => OneRow(fn)
    PROVE  AccessInv'
<1>1. TypeOK /\ fn \in Func /\ fn' = fn /\ call \in Calls
  BY CallType DEF AccessInv, fn
<1>2. /\ query' \in [Func -> UNION {Queries(f) : f \in Func}]
      /\ \A f \in Func : query'[f] \in Queries(f)
      /\ \A f \in Func \ {fn} : query'[f] = query[f]
      /\ q'.vm = v /\ q'.bound = q.bound
  BY <1>1, SetVmType DEF q
<1>3. TypeOK'
  BY <1>1, <1>2 DEF TypeOK, Phases
<1>4. StoppedInv' /\ FreshInv'
  BY <1>1, <1>2 DEF AccessInv, StoppedInv, FreshInv, InBody
<1>5. BoundInv'
  BY <1>2 DEF AccessInv, BoundInv, InBody
<1>6. BeforeInv' /\ DuringInv' /\ AfterInv'
  BY <1>1, <1>2 DEF BeforeInv, DuringInv, AfterInv
<1>7. CallInv'
  BY DEF AccessInv, CallInv
<1>8. QED
  BY <1>3, <1>4, <1>5, <1>6, <1>7 DEF AccessInv

\* In the body the local variable is still without an error.
LEMMA StillOk ==
    ASSUME AccessInv, phase = "step"
    PROVE  /\ ret \in Answers /\ ret.ok = TRUE
           /\ ~ReadsRows(fn) => ret.ids = <<>>
           /\ q.vm # "run" => ret = NoRows
<1>1. ret \in Answers /\ q.vm \in {"ready", "run", "halt"}
  BY CallType DEF AccessInv, TypeOK, Queries
<1>2. CASE q.vm = "run"
  BY <1>1, <1>2 DEF AccessInv, DuringInv, Answers
<1>3. CASE q.vm # "run"
  BY <1>1, <1>3 DEF AccessInv, BeforeInv, NoRows
<1>4. QED
  BY <1>2, <1>3

LEMMA StepRowInvStep ==
    ASSUME AccessInv, StepRow
    PROVE  AccessInv'
<1>1. PICK x \in Attempt :
         /\ x.yield # <<>>
         /\ rows' = x.rows
         /\ SetVm("run", Tail(x.yield))
         /\ ret' = IF ReadsRows(fn)
                   THEN [ret EXCEPT !.ids = Append(@, Head(x.yield))] ELSE ret
  BY DEF StepRow
<1>2. phase = "step" /\ x.rows \in Table /\ x.yield \in Seq(1..MaxId)
  BY <1>1, AttemptType DEF AccessInv, StepRow
<1>3. Tail(x.yield) \in Seq(1..MaxId) /\ Head(x.yield) \in 1..MaxId
  BY <1>1, <1>2, HeadTailProperties
<1>4. /\ ret' \in Answers /\ ret'.ok = TRUE
      /\ ~ReadsRows(fn) => ret'.ids = <<>>
  <2>1. /\ ret \in Answers /\ ret.ok = TRUE
        /\ ~ReadsRows(fn) => ret.ids = <<>>
    BY <1>2, StillOk
  <2>2. CASE ReadsRows(fn)
    <3>1. Append(ret.ids, Head(x.yield)) \in Seq(1..MaxId)
      BY <1>3, <2>1 DEF Answers
    <3>2. ret' = [ret EXCEPT !.ids = Append(ret.ids, Head(x.yield))]
      BY <1>1, <2>2
    <3>3. QED
      BY <2>1, <2>2, <3>1, <3>2 DEF Answers
  <2>3. CASE ~ReadsRows(fn)
    BY <1>1, <2>1, <2>3
  <2>4. QED
    BY <2>2, <2>3
<1>5. /\ phase' = IF OneRow(fn) THEN "close" ELSE "step"
      /\ call' = call
  BY DEF StepRow
<1>6. QED
  BY <1>1, <1>2, <1>3, <1>4, <1>5, BodyStep

LEMMA StepEndInvStep ==
    ASSUME AccessInv, StepDone \/ StepBusy \/ StepFail
    PROVE  AccessInv'
<1>1. phase = "step" /\ call' = call
  BY DEF StepDone, StepBusy, StepFail
<1>2. rows \in Table /\ <<>> \in Seq(1..MaxId)
  BY DEF AccessInv, TypeOK
<1>3. CASE StepDone
  <2>1. rows' \in Table
    BY <1>1, <1>3, AttemptType DEF StepDone, AccessInv
  <2>2. ret' \in Answers /\ phase' = "close" /\ SetVm("halt", <<>>)
    BY <1>1, <1>3, StillOk DEF StepDone
  <2>3. QED
    BY <1>1, <1>2, <2>1, <2>2, BodyStep
<1>4. CASE StepBusy
  <2>1. /\ ret' = NoRows /\ ret' \in Answers
        /\ phase' = "step" /\ SetVm("ready", <<>>) /\ rows' = rows
    BY <1>1, <1>4, StillOk DEF StepBusy
  <2>2. QED
    BY <1>1, <1>2, <2>1, BodyStep
<1>5. CASE StepFail
  <2>1. ret' = [ret EXCEPT !.ok = FALSE] /\ ret' \in Answers
    BY <1>1, <1>5, StillOk DEF StepFail, Answers
  <2>2. phase' = "close" /\ SetVm("halt", <<>>) /\ rows' = rows
    BY <1>5 DEF StepFail
  <2>3. QED
    BY <1>1, <1>2, <2>1, <2>2, BodyStep
<1>6. QED
  BY <1>3, <1>4, <1>5

LEMMA ReturnInvStep ==
    ASSUME AllReusable, AccessInv, Return
    PROVE  AccessInv'
<1>1. TypeOK /\ fn \in Func /\ q \in Queries(fn) /\ phase = "close"
  BY CallType DEF AccessInv, Return
<1>2. Arity[fn] \in Nat
  BY <1>1, SqlAssumption, WidthAssumption
<1>3. /\ query' \in [Func -> UNION {Queries(f) : f \in Func}]
      /\ \A f \in Func : query'[f] \in Queries(f)
      /\ \A f \in Func \ {fn} : query'[f] = query[f]
      /\ query'[fn] = IF Resets(fn) THEN Reset(q) ELSE q
  <2>1. query'[fn] = IF Resets(fn) THEN Reset(q) ELSE q
    BY <1>1 DEF Return, TypeOK, q
  <2>2. \A f \in Func \ {fn} : query'[f] = query[f]
    BY <1>1 DEF Return, TypeOK
  <2>3. Reset(q) \in Queries(fn)
    <3>1. 1 \in 1..(Arity[fn] + 1) /\ <<>> \in Seq(1..MaxId)
      BY <1>2
    <3>2. QED
      BY <1>1, <3>1 DEF Reset, Queries
  <2>4. \A f \in Func : query'[f] \in Queries(f)
    BY <1>1, <2>1, <2>2, <2>3 DEF TypeOK
  <2>5. DOMAIN query' = Func /\ query' = [f \in Func |-> query'[f]]
    BY <1>1 DEF Return, TypeOK
  <2>6. QED
    BY <2>1, <2>2, <2>4, <2>5
<1>4. TypeOK'
  BY <1>3 DEF AccessInv, TypeOK, Return, Phases, NoRows, Answers
<1>5. query'[fn].vm # "run"
  <2>1. Resets(fn) => query'[fn].vm = "ready"
    BY <1>1, <1>3 DEF Reset, Queries
  <2>2. ~Resets(fn) => query'[fn].vm # "run"
    BY <1>1, <1>2, <1>3 DEF AllReusable, Reusable, Resets, OneRow, AccessInv, AfterInv
  <2>3. QED
    BY <2>1, <2>2
<1>6. Arity[fn] > 0 => query'[fn].vm = "ready" /\ query'[fn].curr_idx = 1
  BY <1>1, <1>2, <1>3 DEF AllReusable, Reusable, Resets, Reset, Queries
<1>7. phase' = "idle" /\ call' = NoCall /\ ~InBody'
  BY DEF Return, InBody
<1>8. StoppedInv' /\ FreshInv'
  BY <1>3, <1>5, <1>6, <1>7 DEF AccessInv, StoppedInv, FreshInv
<1>9. QED
  BY <1>4, <1>7, <1>8 DEF AccessInv, CallInv, BoundInv, BeforeInv, DuringInv,
                          AfterInv, InBody

LEMMA OthersInvStep ==
    ASSUME AccessInv, Others \/ UNCHANGED vars
    PROVE  AccessInv'
<1>1. UNCHANGED <<call, phase, query, ret>>
  BY DEF Others, vars
<1>2. rows' \in Table
  BY DEF AccessInv, TypeOK, Others, vars, Table
<1>3. fn' = fn /\ q' = q
  BY <1>1 DEF fn, q
<1>4. QED
  BY <1>1, <1>2, <1>3 DEF AccessInv, TypeOK, CallInv, StoppedInv, FreshInv,
                          BoundInv, BeforeInv, DuringInv, AfterInv, InBody

LEMMA AccessStep ==
    ASSUME AllReusable, AccessInv, [Next]_vars
    PROVE  AccessInv'
<1>1. CASE \E f \in Func : \E a \in Args(f) : Call(f, a)
  BY <1>1, CallInvStep
<1>2. CASE Prepare \/ PrepareError
  BY <1>2, PrepareInvStep
<1>3. CASE Bind
  BY <1>3, BindInvStep
<1>4. CASE StepRow
  BY <1>4, StepRowInvStep
<1>5. CASE StepDone \/ StepBusy \/ StepFail
  BY <1>5, StepEndInvStep
<1>6. CASE Return
  BY <1>6, ReturnInvStep
<1>7. CASE Others \/ UNCHANGED vars
  BY <1>7, OthersInvStep
<1>8. QED
  BY <1>1, <1>2, <1>3, <1>4, <1>5, <1>6, <1>7 DEF Next

LEMMA AccessInvHolds ==
    ASSUME AllReusable
    PROVE  Spec => []AccessInv
<1>1. Init => AccessInv
  BY InitInv
<1>2. AccessInv /\ [Next]_vars => AccessInv'
  BY AccessStep
<1>3. QED
  BY <1>1, <1>2, PTL DEF Spec
-----------------------------------------------------------------------------
\* The variables of the generated class keep their ranges: no index is out of a
\* statement's parameters and no row is one the table cannot have.
THEOREM AccessTypeCorrect ==
    ASSUME AllReusable
    PROVE  Spec => []TypeOK
<1>1. AccessInv => TypeOK
  BY DEF AccessInv
<1>2. QED
  BY <1>1, AccessInvHolds, PTL

\* Between two calls no statement of the connection is running, whatever
\* functions the class has: the generated code keeps no lock after a return.
THEOREM NothingLeftOpenHolds ==
    ASSUME AllReusable
    PROVE  Spec => []NothingLeftOpen
<1>1. AccessInv => NothingLeftOpen
  BY DEF AccessInv, StoppedInv, NothingLeftOpen, Running, InBody
<1>2. QED
  BY <1>1, AccessInvHolds, PTL

\* No call executes its SQL with what an earlier call has bound.
THEOREM OwnArgumentsHolds ==
    ASSUME AllReusable
    PROVE  Spec => OwnArguments
<1>1. AccessInv =>
          (phase = "step" /\ phase' = "close" => q.bound = call.args)
  BY DEF AccessInv, BoundInv, InBody
<1>2. QED
  BY <1>1, AccessInvHolds, PTL DEF OwnArguments

-----------------------------------------------------------------------------
(* Refinement: the answer of a call is fixed by the first step of its      *)
(* execution, and that step is FreshCalls' Execute or Fail.                *)

\* Both specifications speak about the same statements.
LEMMA SameStatements ==
    /\ Fresh!Table = Table /\ Fresh!NoRows = NoRows
    /\ \A f : Fresh!Args(f) = Args(f)
    /\ \A f, b, r : Fresh!Executions(f, b, r) = Executions(f, b, r)
    /\ \A f, s : Fresh!Answer(f, s) = Answer(f, s)
    /\ \A s : Fresh!Failed(s) = Failed(s)
<1>1. Fresh!Table = Table /\ Fresh!NoRows = NoRows
  BY DEF Fresh!Table, Table, Fresh!Row, Row, Fresh!NoRows, NoRows
<1>2. \A f : Fresh!Args(f) = Args(f)
  BY DEF Fresh!Args, Args
<1>3. \A f, b, r : Fresh!Executions(f, b, r) = Executions(f, b, r)
  <2>1. TAKE f, b, r
  <2>2. Fresh!Matches(b, r) = Matches(b, r)
    BY DEF Fresh!Matches, Matches
  <2>3. Fresh!Orders(Matches(b, r)) = Orders(Matches(b, r))
    BY DEF Fresh!Orders, Orders, Fresh!Cardinality, Cardinality
  <2>4. Fresh!NextId(r) = NextId(r)
    BY DEF Fresh!NextId, NextId
  <2>5. Fresh!NewRow(b) = NewRow(b)
    BY DEF Fresh!NewRow, NewRow
  <2>6. QED
    BY <2>2, <2>3, <2>4, <2>5, Zenon DEF Fresh!Executions, Executions
<1>4. \A f, s : Fresh!Answer(f, s) = Answer(f, s)
  BY DEF Fresh!Answer, Answer, Fresh!FirstOf, FirstOf
<1>5. \A s : Fresh!Failed(s) = Failed(s)
  BY DEF Fresh!Failed, Failed
<1>6. QED
  BY <1>1, <1>2, <1>3, <1>4, <1>5

\* The rows collected and the rows left stay the same rows.
LEMMA AppendHead ==
    ASSUME NEW S, NEW s \in Seq(S), NEW t \in Seq(S), t # <<>>
    PROVE  Append(s, Head(t)) \o Tail(t) = s \o t
<1>1. Head(t) \in S /\ Tail(t) \in Seq(S) /\ Len(Tail(t)) = Len(t) - 1
      /\ \A i \in 1..Len(Tail(t)) : Tail(t)[i] = t[i + 1]
  BY HeadTailProperties
<1>2. Append(s, Head(t)) \in Seq(S)
  BY <1>1
<1>3. Len(t) \in Nat \ {0} /\ Head(t) = t[1]
  BY EmptySeq
<1>4. Len(Append(s, Head(t)) \o Tail(t)) = Len(s \o t)
  BY <1>1, <1>2, <1>3, ConcatProperties
<1>5. \A i \in 1..Len(s \o t) : (Append(s, Head(t)) \o Tail(t))[i] = (s \o t)[i]
  BY <1>1, <1>2, <1>3, <1>4, ConcatProperties
<1>6. Append(s, Head(t)) \o Tail(t) \in Seq(S) /\ s \o t \in Seq(S)
  BY <1>1, <1>2, ConcatProperties
<1>7. QED
  BY <1>4, <1>5, <1>6, SeqEqual

\* The rows collected are a prefix of all of them.
LEMMA FrontOfConcat ==
    ASSUME NEW S, NEW s \in Seq(S), NEW t \in Seq(S)
    PROVE  SubSeq(s \o t, 1, Len(s)) = s /\ Len(s) \in 0..Len(s \o t)
<1>1. Len(s) \in Nat /\ Len(t) \in Nat
  OBVIOUS
<1>2. /\ Len(s \o t) = Len(s) + Len(t)
      /\ \A i \in 1..Len(s) + Len(t) :
            (s \o t)[i] = IF i <= Len(s) THEN s[i] ELSE t[i - Len(s)]
  BY ConcatProperties
<1>3. \A i \in 1..Len(s) : (s \o t)[i] = s[i] /\ s[i] \in S
  BY <1>1, <1>2
<1>4. /\ SubSeq(s \o t, 1, Len(s)) \in Seq(S)
      /\ Len(SubSeq(s \o t, 1, Len(s))) =
            IF 1 <= Len(s) THEN Len(s) - 1 + 1 ELSE 0
      /\ \A i \in 1..(Len(s) - 1 + 1) :
            SubSeq(s \o t, 1, Len(s))[i] = (s \o t)[1 + i - 1]
  <2>1. 1 \in Int /\ Len(s) \in Int /\ \A i \in 1..Len(s) : (s \o t)[i] \in S
    BY <1>1, <1>3
  <2>2. ASSUME NEW u, NEW m \in Int, NEW n \in Int, \A i \in m..n : u[i] \in S
        PROVE  /\ SubSeq(u, m, n) \in Seq(S)
               /\ Len(SubSeq(u, m, n)) = IF m <= n THEN n - m + 1 ELSE 0
               /\ \A i \in 1..(n - m + 1) : SubSeq(u, m, n)[i] = u[m + i - 1]
    BY <2>2, SubSeqProperties
  <2>3. QED
    BY <2>1, <2>2, Zenon
<1>5. Len(SubSeq(s \o t, 1, Len(s))) = Len(s)
  BY <1>1, <1>4
<1>6. \A i \in 1..Len(s) : SubSeq(s \o t, 1, Len(s))[i] = s[i]
  <2>1. \A i \in 1..Len(s) : 1 + i - 1 = i /\ i \in 1..(Len(s) - 1 + 1)
    BY <1>1
  <2>2. QED
    BY <1>3, <1>4, <2>1
<1>7. SubSeq(s \o t, 1, Len(s)) = s
  BY <1>4, <1>5, <1>6, SeqEqual
<1>8. QED
  BY <1>1, <1>2, <1>7

\* An answer is not NoAnswer.
LEMMA AnswerType ==
    ASSUME AccessInv
    PROVE  /\ phase = "close" => answer = ret /\ answer # NoAnswer
           /\ phase = "step" /\ q.vm = "run" =>
                  /\ answer.ok = TRUE /\ answer # NoAnswer /\ answer \in Answers
                  /\ answer.ids = IF ReadsRows(fn) THEN ret.ids \o q.out ELSE <<>>
           /\ phase \notin {"close", "step"} => answer = NoAnswer
           /\ phase = "step" /\ q.vm # "run" => answer = NoAnswer
<1>1. phase = "close" => answer = ret /\ answer # NoAnswer
  BY NothingAssumption DEF AccessInv, TypeOK, answer
<1>2. ASSUME phase = "step", q.vm = "run"
      PROVE  /\ answer.ok = TRUE /\ answer # NoAnswer /\ answer \in Answers
             /\ answer.ids = IF ReadsRows(fn) THEN ret.ids \o q.out ELSE <<>>
  <2>1. /\ ret \in Answers /\ ret.ok = TRUE
        /\ ~ReadsRows(fn) => ret.ids = <<>>
    BY <1>2, StillOk
  <2>2. q.out \in Seq(1..MaxId)
    BY <1>2, CallType DEF AccessInv, Queries
  <2>3. ret.ids \o q.out \in Seq(1..MaxId)
    BY <2>1, <2>2, ConcatProperties DEF Answers
  <2>4. CASE ReadsRows(fn)
    <3>1. answer = [ret EXCEPT !.ids = ret.ids \o q.out]
      BY <1>2, <2>4 DEF answer
    <3>2. QED
      BY <2>1, <2>3, <2>4, <3>1, NothingAssumption DEF Answers
  <2>5. CASE ~ReadsRows(fn)
    BY <1>2, <2>1, <2>5, NothingAssumption DEF answer
  <2>6. QED
    BY <2>4, <2>5
<1>3. /\ phase \notin {"close", "step"} => answer = NoAnswer
      /\ phase = "step" /\ q.vm # "run" => answer = NoAnswer
  BY DEF answer
<1>4. QED
  BY <1>1, <1>2, <1>3
\* A new execution that yields a row, or none, answers like a fresh call.
LEMMA FreshExecute ==
    ASSUME AccessInv, AccessInv', phase = "step", q.vm # "run",
           StepRow \/ StepDone
    PROVE  Fresh!Execute
<1>1. /\ q.bound = call.args /\ call # NoCall /\ answer = NoAnswer
      /\ ret = NoRows /\ call' = call /\ fn' = fn /\ fn \in Func
  BY StillOk, AnswerType, CallType DEF AccessInv, BoundInv, InBody, CallInv, StepRow,
     StepDone, fn
<1>2. SUFFICES \E x \in Executions(call.func, call.args, rows) :
                   rows' = x.rows /\ answer' = Answer(call.func, x.yield)
  BY <1>1, SameStatements DEF Fresh!Execute
<1>3. Result[fn] \in Results /\ fn = call.func
  BY <1>1, SqlAssumption DEF fn
<1>4. CASE StepRow
  <2>1. PICK x \in Attempt :
           /\ x.yield # <<>>
           /\ rows' = x.rows
           /\ SetVm("run", Tail(x.yield))
           /\ ret' = IF ReadsRows(fn)
                     THEN [ret EXCEPT !.ids = Append(@, Head(x.yield))] ELSE ret
    BY <1>4 DEF StepRow
  <2>2. x \in Executions(call.func, call.args, rows)
    BY <1>1, <2>1 DEF Attempt, fn
  <2>3. x.yield \in Seq(1..MaxId) /\ Tail(x.yield) \in Seq(1..MaxId)
        /\ Head(x.yield) \in 1..MaxId
    BY <2>1, AttemptType, HeadTailProperties DEF AccessInv
  <2>4. q'.vm = "run" /\ q'.out = Tail(x.yield)
    BY <1>1, <2>1, <2>3, SetVmType DEF AccessInv, q
  <2>5. ReadsRows(fn) => ret' = [ok |-> TRUE, ids |-> <<Head(x.yield)>>]
    <3>1. Append(<<>>, Head(x.yield)) = <<Head(x.yield)>>
      BY <2>3
    <3>2. QED
      BY <1>1, <2>1, <3>1 DEF NoRows
  <2>6. CASE OneRow(fn)
    <3>1. answer' = ret' /\ ReadsRows(fn)
      BY <1>4, <2>6 DEF StepRow, answer, OneRow, ReadsRows
    <3>2. Answer(fn, x.yield) = [ok |-> TRUE, ids |-> <<Head(x.yield)>>]
      BY <2>1, <2>6 DEF Answer, FirstOf, OneRow
    <3>3. QED
      BY <1>3, <2>1, <2>2, <2>5, <3>1, <3>2
  <2>7. CASE Result[fn] = "vector"
    <3>1. answer' = [ret' EXCEPT !.ids = ret'.ids \o q'.out]
      <4>1. ~OneRow(fn) /\ ReadsRows(fn)
        BY <2>7 DEF OneRow, ReadsRows
      <4>2. phase' = "step" /\ ReadsRows(fn)'
        BY <1>1, <1>4, <4>1 DEF StepRow, ReadsRows
      <4>3. QED
        BY <2>4, <4>2 DEF answer
    <3>2. <<Head(x.yield)>> \o Tail(x.yield) = x.yield
      <4>1. /\ <<>> \in Seq(1..MaxId) /\ <<>> \o x.yield = x.yield
            /\ Append(<<>>, Head(x.yield)) = <<Head(x.yield)>>
        BY <2>3, ConcatEmptySeq
      <4>2. QED
        BY <2>1, <2>3, <4>1, AppendHead
    <3>3. answer' = [ok |-> TRUE, ids |-> x.yield]
      <4>1. ret' = [ok |-> TRUE, ids |-> <<Head(x.yield)>>]
        BY <2>5, <2>7 DEF ReadsRows
      <4>2. ret'.ids \o q'.out = x.yield
        BY <2>4, <3>2, <4>1
      <4>3. QED
        BY <3>1, <4>1, <4>2
    <3>4. QED
      BY <1>3, <2>1, <2>2, <2>7, <3>3 DEF Answer
  <2>8. CASE Result[fn] \in {"bool", "void"}
    <3>1. answer' = NoRows
      BY <1>1, <1>4, <2>1, <2>4, <2>8 DEF StepRow, answer, OneRow, ReadsRows
    <3>2. QED
      BY <1>3, <2>1, <2>2, <2>8, <3>1 DEF Answer, NoRows
  <2>9. QED
    BY <1>3, <2>6, <2>7, <2>8 DEF Results, OneRow
<1>5. CASE StepDone
  <2>1. PICK x \in Attempt : x.yield = <<>> /\ rows' = x.rows
    BY <1>5 DEF StepDone
  <2>2. x \in Executions(call.func, call.args, rows)
    BY <1>1, <2>1 DEF Attempt, fn
  <2>3. answer' = NoRows
    BY <1>1, <1>5 DEF StepDone, answer
  <2>4. Answer(fn, x.yield) = NoRows
    BY <1>3, <2>1 DEF Answer, FirstOf, NoRows, Results
  <2>5. QED
    BY <1>3, <2>1, <2>2, <2>3, <2>4
<1>6. QED
  BY <1>4, <1>5
\* The rest of an execution leaves the answer as it is, or a query fails.
LEMMA FreshContinue ==
    ASSUME AccessInv, AccessInv', phase = "step", q.vm = "run",
           StepRow \/ StepDone \/ StepFail
    PROVE  Fresh!Interrupt \/ UNCHANGED Fresh!vars
<1>1. /\ fn \in Func /\ call' = call /\ fn' = fn
      /\ q.out \in Seq(1..MaxId) /\ ~OneRow(fn)
      /\ ret \in Answers /\ ret.ok = TRUE /\ (~ReadsRows(fn) => ret.ids = <<>>)
  BY CallType, StillOk
     DEF AccessInv, DuringInv, Queries, StepRow, StepDone, StepFail, fn
<1>2. /\ answer.ok = TRUE /\ answer # NoAnswer /\ answer \in Answers
      /\ answer.ids = IF ReadsRows(fn) THEN ret.ids \o q.out ELSE <<>>
  BY AnswerType
<1>3. \A x \in Attempt : x.rows = rows /\ x.yield = q.out
  BY DEF Attempt
<1>4. CASE StepRow
  <2>1. /\ q.out # <<>> /\ rows' = rows
        /\ SetVm("run", Tail(q.out)) /\ phase' = "step"
        /\ ret' = IF ReadsRows(fn)
                  THEN [ret EXCEPT !.ids = Append(@, Head(q.out))] ELSE ret
    BY <1>1, <1>3, <1>4 DEF StepRow
  <2>2. Tail(q.out) \in Seq(1..MaxId)
    BY <1>1, <2>1, HeadTailProperties
  <2>3. q'.vm = "run" /\ q'.out = Tail(q.out)
    BY <1>1, <2>1, <2>2, SetVmType DEF AccessInv, q
  <2>4. ASSUME ReadsRows(fn) PROVE answer' = answer
    <3>1. ret.ids \in Seq(1..MaxId)
      BY <1>1 DEF Answers
    <3>2. ret' = [ret EXCEPT !.ids = Append(ret.ids, Head(q.out))]
      BY <2>1, <2>4
    <3>3. ret'.ids = Append(ret.ids, Head(q.out))
      BY <1>1, <3>2 DEF Answers
    <3>4. Append(ret.ids, Head(q.out)) \o Tail(q.out) = ret.ids \o q.out
      BY <1>1, <2>1, <3>1, AppendHead
    <3>5. ReadsRows(fn)'
      BY <1>1, <2>4 DEF ReadsRows
    <3>6. answer' = [ret' EXCEPT !.ids = ret'.ids \o q'.out]
      BY <2>1, <2>3, <3>5 DEF answer
    <3>7. answer = [ret EXCEPT !.ids = ret.ids \o q.out]
      BY <2>4 DEF answer
    <3>8. answer' = [ret EXCEPT !.ids = ret.ids \o q.out]
      BY <1>1, <2>3, <3>2, <3>3, <3>4, <3>6 DEF Answers
    <3>9. QED
      BY <3>7, <3>8
  <2>5. ASSUME ~ReadsRows(fn) PROVE answer' = answer
    BY <1>1, <2>1, <2>3, <2>5 DEF answer, ReadsRows
  <2>6. answer' = answer
    BY <2>4, <2>5
  <2>7. QED
    BY <1>1, <2>1, <2>6 DEF Fresh!vars
<1>5. CASE StepDone
  <2>1. q.out = <<>> /\ rows' = rows /\ answer' = ret
    BY <1>3, <1>5 DEF StepDone, answer
  <2>2. ret.ids \o <<>> = ret.ids
    BY <1>1, ConcatEmptySeq DEF Answers
  <2>3. answer.ids = ret.ids
    BY <1>1, <1>2, <2>1, <2>2
  <2>4. answer = ret
    BY <1>1, <1>2, <2>3 DEF Answers
  <2>5. QED
    BY <1>1, <2>1, <2>4 DEF Fresh!vars
<1>6. CASE StepFail
  <2>1. /\ Sql[fn] = "select" /\ ReadsRows(fn) /\ rows' = rows
        /\ answer' = [ret EXCEPT !.ok = FALSE]
    BY <1>1, <1>6, ResultAssumption DEF StepFail, answer
  <2>2. ret.ids \in Seq(1..MaxId) /\ Len(ret.ids) \in Nat
    BY <1>1 DEF Answers
  <2>3. answer' = Failed(ret.ids)
    BY <1>1, <2>1 DEF Answers, Failed
  <2>4. /\ SubSeq(ret.ids \o q.out, 1, Len(ret.ids)) = ret.ids
        /\ Len(ret.ids) \in 0..Len(ret.ids \o q.out)
    BY <1>1, <2>2, FrontOfConcat
  <2>5. Len(ret.ids) \in 0..Len(answer.ids)
    BY <1>2, <2>1, <2>4
  <2>6. answer' = Fresh!Failed(SubSeq(answer.ids, 1, Len(ret.ids)))
    BY <1>2, <2>1, <2>3, <2>4, SameStatements
  <2>7. QED
    BY <1>1, <1>2, <2>1, <2>5, <2>6 DEF Fresh!Interrupt, fn
<1>7. QED
  BY <1>4, <1>5, <1>6
\* Every other step is the step of the same name, or none.
LEMMA FreshOther ==
    ASSUME AccessInv, AccessInv', Next, phase # "step"
    PROVE  [Fresh!Next]_Fresh!vars
<1>1. CASE \E f \in Func : \E a \in Args(f) : Call(f, a)
  <2>1. PICK f \in Func : \E a \in Args(f) : Call(f, a)
    BY <1>1
  <2>2. PICK a \in Args(f) : Call(f, a)
    BY <2>1
  <2>3. phase = "idle" /\ phase' \in {"bind", "prepare"} /\ call = NoCall
    BY <2>2 DEF Call, AccessInv, CallInv
  <2>4. answer = NoAnswer /\ answer' = NoAnswer
    BY <2>3 DEF answer
  <2>5. Fresh!Call(f, a) /\ a \in Fresh!Args(f)
    BY <2>2, <2>3, <2>4, SameStatements DEF Call, Fresh!Call
  <2>6. QED
    BY <2>5 DEF Fresh!Next
<1>2. CASE Prepare
  BY <1>2 DEF Prepare, answer, Fresh!vars
<1>3. CASE PrepareError
  <2>1. call # NoCall /\ answer = NoAnswer /\ answer' = NoAnswer
    BY <1>3 DEF PrepareError, answer, AccessInv, CallInv
  <2>2. Fresh!Throw
    BY <1>3, <2>1 DEF PrepareError, Fresh!Throw
  <2>3. QED
    BY <2>2 DEF Fresh!Next
<1>4. CASE Bind
  <2>1. fn \in Func /\ fn' = fn /\ q \in Queries(fn) /\ q.vm # "run"
    BY <1>4, CallType DEF AccessInv, StoppedInv, InBody, Bind, fn, q
  <2>2. q'.vm = q.vm
    BY <1>4, <2>1 DEF Bind, AccessInv, TypeOK, q, Queries
  <2>3. answer = NoAnswer /\ answer' = NoAnswer
    BY <1>4, <2>1, <2>2 DEF Bind, answer
  <2>4. QED
    BY <1>4, <2>3 DEF Bind, Fresh!vars
<1>5. CASE Return
  <2>1. answer = ret /\ answer # NoAnswer
    BY <1>5, AnswerType DEF Return
  <2>2. answer' = NoAnswer
    BY <1>5 DEF Return, answer
  <2>3. Fresh!Return
    BY <1>5, <2>1, <2>2 DEF Return, Fresh!Return
  <2>4. QED
    BY <2>3 DEF Fresh!Next
<1>6. CASE Others
  <2>1. answer' = answer
    BY <1>6 DEF Others, answer, fn, q, ReadsRows
  <2>2. rows' \in Fresh!Table
    BY SameStatements DEF AccessInv, TypeOK
  <2>3. Fresh!Others
    BY <1>6, <2>1, <2>2 DEF Others, Fresh!Others
  <2>4. QED
    BY <2>3 DEF Fresh!Next
<1>7. QED
  BY <1>1, <1>2, <1>3, <1>4, <1>5, <1>6
     DEF Next, StepRow, StepDone, StepBusy, StepFail

LEMMA FreshStep ==
    ASSUME AccessInv, AccessInv', [Next]_vars
    PROVE  [Fresh!Next]_Fresh!vars
<1>1. CASE UNCHANGED vars
  BY <1>1 DEF vars, answer, fn, q, ReadsRows, Fresh!vars
<1>2. CASE Next /\ phase # "step"
  BY <1>2, FreshOther
<1>3. CASE Next /\ phase = "step"
  <2>1. StepRow \/ StepDone \/ StepBusy \/ StepFail \/ Others
    BY <1>3 DEF Next, Call, Prepare, PrepareError, Bind, Return
  <2>2. CASE Others
    <3>1. answer' = answer
      BY <2>2 DEF Others, answer, fn, q, ReadsRows
    <3>2. rows' \in Fresh!Table
      BY SameStatements DEF AccessInv, TypeOK
    <3>3. Fresh!Others
      BY <2>2, <3>1, <3>2 DEF Others, Fresh!Others
    <3>4. QED
      BY <3>3 DEF Fresh!Next
  <2>3. CASE q.vm = "run" /\ (StepRow \/ StepDone \/ StepFail)
    BY <1>3, <2>3, FreshContinue DEF Fresh!Next
  <2>4. CASE q.vm # "run" /\ (StepRow \/ StepDone)
    BY <1>3, <2>4, FreshExecute DEF Fresh!Next
  <2>5. CASE q.vm # "run" /\ StepFail
    <3>1. /\ answer = NoAnswer /\ ret = NoRows /\ call # NoCall
          /\ answer' = [ret EXCEPT !.ok = FALSE]
      BY <1>3, <2>5, StillOk, AnswerType DEF StepFail, answer, AccessInv, CallInv
    <3>2. answer' = Fresh!Failed(<<>>)
      BY <3>1, SameStatements DEF NoRows, Failed
    <3>3. Fresh!Fail
      BY <2>5, <3>1, <3>2 DEF StepFail, Fresh!Fail
    <3>4. QED
      BY <3>3 DEF Fresh!Next
  <2>6. CASE StepBusy
    <3>1. fn \in Func /\ fn' = fn /\ q.vm # "run" /\ SetVm("ready", <<>>)
      BY <1>3, <2>6, CallType DEF StepBusy, AccessInv, fn
    <3>2. q'.vm = "ready"
      <4>1. <<>> \in Seq(1..MaxId)
        OBVIOUS
      <4>2. query'[fn].vm = "ready"
        BY <3>1, <4>1, SetVmType DEF AccessInv
      <4>3. QED
        BY <3>1, <4>2 DEF q
    <3>3. answer = NoAnswer /\ answer' = NoAnswer
      BY <1>3, <2>6, <3>1, <3>2 DEF StepBusy, answer
    <3>4. QED
      BY <2>6, <3>3 DEF StepBusy, Fresh!vars
  <2>7. QED
    BY <2>1, <2>2, <2>3, <2>4, <2>5, <2>6
<1>4. QED
  BY <1>1, <1>2, <1>3

\* Every call of a generated function is a fresh execution of its SQL with its
\* own arguments, although all calls share one prepared statement: nothing an
\* earlier call bound, left running or returned shows in a later one.
THEOREM CallsAreFreshHolds ==
    ASSUME AllReusable
    PROVE  Spec => CallsAreFresh
<1>1. Init => Fresh!Init
  BY SameStatements DEF Init, Fresh!Init, answer
<1>2. AccessInv /\ AccessInv' /\ [Next]_vars => [Fresh!Next]_Fresh!vars
  BY FreshStep
<1>3. QED
  BY <1>1, <1>2, AccessInvHolds, PTL DEF Spec, Fresh!Spec, CallsAreFresh
=============================================================================
