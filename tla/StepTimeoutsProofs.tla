-------------------------- MODULE StepTimeoutsProofs --------------------------
(***************************************************************************)
(* For any queries and timeouts: the default is back between calls, a call *)
(* waits as long as it was asked to, and a cursor that is shut down stands *)
(* on no row.                                                              *)
(***************************************************************************)
EXTENDS StepTimeouts, TLAPS

\* Only write() drops, and next() runs for the cursor of its query.
CallInv ==
    call # Idle =>
        /\ call.fn # "exec" => call.query \in Selects
        /\ call.fn = "next" => /\ cursor[call.query] # NoCursor
                               /\ call.left = cursor[call.query].timeout
                               /\ call.asked = cursor[call.query].asked

TypeInv == TypeOK /\ CallInv

USE TimeoutAssumption, QueryAssumption, BoundAssumption, NoneAssumption

LEMMA InitType == Init => TypeInv
BY DEF Init, TypeInv, TypeOK, CallInv, VmStates, Default, Selects

LEMMA SetupType ==
    ASSUME TypeOK, NEW t \in Timeouts, Setup(t) PROVE handler' \in Nat
BY DEF TypeOK, Setup, Timed

LEMMA RestoreType ==
    ASSUME TypeOK, NEW t \in Int, Restore(t) PROVE handler' \in Nat
BY DEF TypeOK, Restore, Timed, Default

LEMMA NextType == TypeInv /\ [Next]_vars => TypeInv'
<1> SUFFICES ASSUME TypeInv, [Next]_vars
             PROVE  TypeInv'
  OBVIOUS
<1>1. CASE PrepareBusy
  BY <1>1 DEF PrepareBusy, TypeInv, TypeOK, CallInv, Impatient, Lapses
<1>2. ASSUME NEW q \in Query, NEW fn \in {"exec", "read"}, NEW t \in Timeouts,
             StartCall(fn, q, t)
      PROVE  TypeInv'
  <2>1. handler' \in Nat
    BY <1>2, SetupType DEF StartCall, TypeInv
  <2>2. lapses' \in SUBSET Lapses
    BY <1>2 DEF StartCall, TypeInv, TypeOK, Lapse, Lapses
  <2>3. call' \in Calls /\ CallInv'
    BY <1>2 DEF StartCall, Enter, Calls, CallInv, Selects
  <2>4. QED
    BY <1>2, <2>1, <2>2, <2>3 DEF StartCall, TypeInv, TypeOK
<1>3. ASSUME NEW q \in Selects, NEW t \in Timeouts, OpenCursor(q, t)
      PROVE  TypeInv'
  <2> DEFINE timeout == IF cursor[q] = NoCursor THEN t ELSE cursor[q].timeout
  <2>1. timeout \in Timeouts
    BY DEF TypeInv, TypeOK, Cursors
  <2>2. handler' \in Nat
    BY <1>3, <2>1, SetupType DEF OpenCursor, TypeInv
  <2>3. lapses' \in SUBSET Lapses
    BY <1>3 DEF OpenCursor, TypeInv, TypeOK, Lapse, Interleaved, Lapses
  <2>4. cursor' \in [Selects -> Cursors \cup {NoCursor}]
    BY <1>3, <2>1 DEF OpenCursor, TypeInv, TypeOK, Cursors
  <2>5. QED
    BY <1>3, <2>2, <2>3, <2>4 DEF OpenCursor, TypeInv, TypeOK, CallInv
<1>4. ASSUME NEW q \in Selects, StartNext(q)
      PROVE  TypeInv'
  <2>1. lapses' \in SUBSET Lapses
    BY <1>4 DEF StartNext, TypeInv, TypeOK, Lapse, Interleaved, Lapses
  <2>2. call' \in Calls /\ CallInv'
    <3>1. cursor[q] \in Cursors
      BY <1>4 DEF StartNext, TypeInv, TypeOK
    <3>2. q \in Query
      BY DEF Selects
    <3>3. QED
      BY <1>4, <3>1, <3>2 DEF StartNext, Enter, Calls, Cursors, CallInv
  <2>3. QED
    BY <1>4, <2>1, <2>2 DEF StartNext, TypeInv, TypeOK
<1>5. ASSUME NEW q \in Selects, Shutdown(q)
      PROVE  TypeInv'
  <2>1. cursor[q] \in Cursors
    BY <1>5 DEF Shutdown, TypeInv, TypeOK
  <2>2. handler' \in Nat
    BY <1>5, <2>1, RestoreType DEF Shutdown, TypeInv, Cursors
  <2>3. cursor' \in [Selects -> Cursors \cup {NoCursor}]
    BY <1>5, <2>1 DEF Shutdown, TypeInv, TypeOK, Cursors
  <2>4. vm' \in [Query -> VmStates] /\ pos' \in [Query -> 0..MaxRows]
    BY <1>5 DEF Shutdown, TypeInv, TypeOK, VmStates
  <2>5. QED
    BY <1>5, <2>2, <2>3, <2>4 DEF Shutdown, TypeInv, TypeOK, CallInv
<1>6. ASSUME NEW q \in Selects, Reset(q)
      PROVE  TypeInv'
  <2>1. vm' \in [Query -> VmStates]
    BY <1>6 DEF Reset, TypeInv, TypeOK, VmStates
  <2>2. pos' \in [Query -> 0..MaxRows]
    <3>1. 0 \in 0..MaxRows
      OBVIOUS
    <3>2. QED
      BY <1>6, <3>1 DEF Reset, TypeInv, TypeOK
  <2>3. QED
    BY <1>6, <2>1, <2>2 DEF Reset, TypeInv, TypeOK, CallInv
<1>7. ASSUME call # Idle, StepBusy \/ Answered
      PROVE  TypeInv'
  <2>1. call \in Calls /\ call.left \in Int /\ Q \in Query
    BY <1>7 DEF TypeInv, TypeOK, Calls, Q
  <2>2. ASSUME NEW q \in Query, NEW state \in VmStates, Stops(q, state)
        PROVE  vm' \in [Query -> VmStates] /\ pos' \in [Query -> 0..MaxRows]
    BY <2>2 DEF Stops, TypeInv, TypeOK
  <2>3. ASSUME NEW row \in BOOLEAN, Return(row)
        PROVE  /\ handler' \in Nat /\ call' = Idle
               /\ cursor' \in [Selects -> Cursors \cup {NoCursor}]
    <3>1. CASE call.fn = "next"
      <4>1. Q \in Selects /\ cursor[Q] \in Cursors
        BY <1>7, <3>1 DEF TypeInv, TypeOK, CallInv, Q
      <4>2. QED
        BY <2>3, <3>1, <4>1 DEF Return, TypeInv, TypeOK, Cursors
    <3>2. CASE call.fn # "next"
      BY <2>1, <2>3, <3>2, RestoreType DEF Return, TypeInv, TypeOK
    <3>3. QED
      BY <3>1, <3>2
  <2>4. CASE StepBusy
    BY <2>1, <2>2, <2>3, <2>4 DEF StepBusy, TypeInv, TypeOK, CallInv, VmStates
  <2>5. CASE StepRow
    <3>1. vm' \in [Query -> VmStates] /\ pos' \in [Query -> 0..MaxRows]
      BY <2>1, <2>5 DEF StepRow, TypeInv, TypeOK, VmStates
    <3>2. QED
      BY <2>3, <2>5, <3>1 DEF StepRow, TypeInv, TypeOK, CallInv
  <2>6. CASE StepDone
    BY <2>1, <2>2, <2>3, <2>6 DEF StepDone, TypeInv, TypeOK, CallInv, VmStates
  <2>7. CASE StepError
    BY <2>1, <2>2, <2>3, <2>7 DEF StepError, TypeInv, TypeOK, CallInv, VmStates
  <2>8. CASE StepLocked
    <3> DEFINE left == IF Timed(call.left) THEN call.left - 1000 ELSE call.left
    <3>1. left \in Int
      BY <2>1
    <3>2. lapses' \in SUBSET Lapses
      BY <2>8 DEF StepLocked, TypeInv, TypeOK, Lapse, Lapses
    <3>3. vm' \in [Query -> VmStates] /\ pos' \in [Query -> 0..MaxRows]
      BY <2>1, <2>2, <2>8 DEF StepLocked, VmStates
    <3>4. call.fn = "exec" /\ UNCHANGED cursor
      BY <2>1, <2>8, <1>7 DEF StepLocked, Locked, TypeInv, CallInv, Selects, Q, Calls
    <3>5. CASE call' = Idle /\ Restore(left)
      BY <3>1, <3>2, <3>3, <3>4, <3>5, RestoreType DEF TypeInv, TypeOK, CallInv
    <3>6. CASE call' = [call EXCEPT !.left = left] /\ UNCHANGED handler
      <4>1. call' \in Calls /\ call'.fn = "exec"
        BY <2>1, <3>1, <3>4, <3>6 DEF Calls
      <4>2. QED
        BY <3>2, <3>3, <3>4, <3>6, <4>1 DEF TypeInv, TypeOK, CallInv
    <3>7. QED
      BY <2>8, <3>5, <3>6 DEF StepLocked
  <2>9. QED
    BY <1>7, <2>4, <2>5, <2>6, <2>7, <2>8 DEF Answered
<1>8. CASE UNCHANGED vars
  BY <1>8 DEF vars, TypeInv, TypeOK, CallInv
<1>9. QED
  BY <1>1, <1>2, <1>3, <1>4, <1>5, <1>6, <1>7, <1>8
     DEF Next, StepBusy, Answered, StepRow, StepDone, StepError, StepLocked

\* Every variable stays in its range.
THEOREM TimeoutsTypeCorrect == Spec => []TypeOK
<1>1. TypeInv => TypeOK
  BY DEF TypeInv
<1>2. QED
  BY InitType, NextType, <1>1, PTL DEF Spec

-----------------------------------------------------------------------------
\* With no cursor that holds a timeout the default is in force, but for the
\* time of a write() or a read() with a timeout of its own.
HandlerInv ==
    Without({"prepareBusy", "rounded"}) =>
        ((\A q \in Selects : ~Holds(q)) /\ (call # Idle => call.fn = "next" \/ ~Timed(call.left))
            => handler = Default)

LEMMA RestoreDefault ==
    ASSUME NEW t, Restore(t), ~Timed(t) => handler = Default
    PROVE  handler' = Default
BY DEF Restore

\* Lapses are not forgotten.
LEMMA LapsesStay ==
    ASSUME [Next]_vars
    PROVE  lapses \subseteq lapses'
BY DEF Next, vars, PrepareBusy, StartCall, OpenCursor, StartNext, Shutdown, Reset,
       StepBusy, Answered, StepRow, StepDone, StepError, StepLocked

\* A step changes of a cursor only what next() answered.
LEMMA StepCursors ==
    ASSUME TypeInv, call # Idle, StepBusy \/ Answered, NEW p \in Selects
    PROVE  /\ cursor'[p].timeout = cursor[p].timeout /\ cursor'[p].asked = cursor[p].asked
           /\ cursor'[p].shut = cursor[p].shut
           /\ cursor'[p] = NoCursor <=> cursor[p] = NoCursor
           /\ p # Q => cursor'[p] = cursor[p]
<1>1. CASE UNCHANGED cursor
  BY <1>1
<1>2. ASSUME NEW row \in BOOLEAN, Return(row), call.fn = "next"
      PROVE  /\ cursor'[p].timeout = cursor[p].timeout /\ cursor'[p].asked = cursor[p].asked
             /\ cursor'[p].shut = cursor[p].shut
             /\ cursor'[p] = NoCursor <=> cursor[p] = NoCursor
             /\ p # Q => cursor'[p] = cursor[p]
  <2>1. Q \in Selects /\ cursor[Q] \in Cursors
    BY <1>2 DEF TypeInv, TypeOK, CallInv, Q
  <2>2. cursor' = [cursor EXCEPT ![Q].row = row] /\ cursor'[Q] \in Cursors
    BY <1>2, <2>1 DEF Return, TypeInv, TypeOK, Cursors
  <2>3. QED
    BY <2>1, <2>2 DEF TypeInv, TypeOK, Cursors
<1>3. QED
  BY <1>1, <1>2 DEF StepBusy, Answered, StepRow, StepDone, StepError, StepLocked, Return

LEMMA NextHandler == TypeInv /\ HandlerInv /\ [Next]_vars => HandlerInv'
<1> SUFFICES ASSUME TypeInv, HandlerInv, [Next]_vars, Without({"prepareBusy", "rounded"})',
                    (\A q \in Selects : ~Holds(q))',
                    (call # Idle => call.fn = "next" \/ ~Timed(call.left))'
             PROVE  handler' = Default
  BY DEF HandlerInv
<1>0. Without({"prepareBusy", "rounded"})
  BY LapsesStay DEF Without
<1>1. CASE PrepareBusy
  BY <1>1 DEF PrepareBusy, Without
<1>2. ASSUME NEW q \in Query, NEW fn \in {"exec", "read"}, NEW t \in Timeouts,
             StartCall(fn, q, t)
      PROVE  handler' = Default
  BY <1>0, <1>2 DEF StartCall, Enter, Setup, Holds, HandlerInv, Calls
<1>3. ASSUME NEW q \in Selects, NEW t \in Timeouts, OpenCursor(q, t)
      PROVE  handler' = Default
  <2> DEFINE timeout == IF cursor[q] = NoCursor THEN t ELSE cursor[q].timeout
  <2>1. cursor'[q] \in Cursors /\ cursor'[q].timeout = timeout /\ ~cursor'[q].shut
    BY <1>3 DEF OpenCursor, TypeInv, TypeOK, Cursors
  <2>2. ~Timed(timeout)
    BY <2>1 DEF Holds
  <2>3. \A p \in Selects : ~Holds(p)
    <3> SUFFICES ASSUME NEW p \in Selects, Holds(p)
                 PROVE  FALSE
      OBVIOUS
    <3>1. CASE p = q
      BY <2>2, <3>1 DEF Holds
    <3>2. CASE p # q
      BY <1>3, <3>2 DEF OpenCursor, Holds, TypeInv, TypeOK
    <3>3. QED
      BY <3>1, <3>2
  <2>4. QED
    BY <1>0, <1>3, <2>2, <2>3 DEF OpenCursor, Setup, HandlerInv
<1>4. ASSUME NEW q \in Selects, StartNext(q)
      PROVE  handler' = Default
  BY <1>0, <1>4 DEF StartNext, Holds, HandlerInv
<1>5. ASSUME NEW q \in Selects, Shutdown(q)
      PROVE  handler' = Default
  <2>1. ASSUME ~Timed(cursor[q].timeout)
        PROVE  handler = Default
    <3>1. \A p \in Selects : ~Holds(p)
      <4> SUFFICES ASSUME NEW p \in Selects, Holds(p)
                   PROVE  FALSE
        OBVIOUS
      <4>1. CASE p = q
        BY <2>1, <4>1 DEF Holds
      <4>2. CASE p # q
        BY <1>5, <4>2 DEF Shutdown, Holds, TypeInv, TypeOK
      <4>3. QED
        BY <4>1, <4>2
    <3>2. QED
      BY <1>0, <1>5, <3>1 DEF Shutdown, HandlerInv
  <2>2. QED
    BY <1>5, <2>1, RestoreDefault DEF Shutdown
<1>6. ASSUME NEW q \in Selects, Reset(q)
      PROVE  handler' = Default
  BY <1>0, <1>6 DEF Reset, Holds, HandlerInv
<1>7. ASSUME call # Idle, StepBusy \/ Answered
      PROVE  handler' = Default
  <2>1. \A p \in Selects : Holds(p) <=> Holds(p)'
    BY <1>7, StepCursors DEF Holds
  <2>2. call \in Calls /\ call.left \in Int
    BY <1>7 DEF TypeInv, TypeOK, Calls
  <2>3. call.fn = "next" \/ ~Timed(call.left) => handler = Default
    BY <1>0, <2>1 DEF HandlerInv
  <2>4. ASSUME NEW row, Return(row)
        PROVE  handler' = Default
    BY <2>3, <2>4, RestoreDefault DEF Return
  <2>5. CASE UNCHANGED <<handler, call>>
    BY <1>7, <2>3, <2>5
  <2>6. CASE StepLocked
    <3> DEFINE left == IF Timed(call.left) THEN call.left - 1000 ELSE call.left
    <3>1. CASE Restore(left) /\ call' = Idle
      <4>1. Timed(left) \/ ~Timed(call.left)
        BY <2>2, <2>6 DEF StepLocked, Lapse, Timed, Without
      <4>2. QED
        BY <2>3, <3>1, <4>1, RestoreDefault
    <3>2. CASE /\ Timed(call.left) => left > 0
               /\ call' = [call EXCEPT !.left = left] /\ UNCHANGED handler
      <4>1. call'.fn = call.fn /\ call'.left = left /\ call' # Idle
        BY <2>2, <3>2 DEF Calls
      <4>2. Timed(left) <=> Timed(call.left)
        BY <2>2, <3>2 DEF Timed
      <4>3. QED
        BY <2>3, <3>2, <4>1, <4>2
    <3>3. QED
      BY <2>6, <3>1, <3>2 DEF StepLocked
  <2>7. QED
    BY <1>7, <2>4, <2>5, <2>6 DEF StepBusy, Answered, StepRow, StepDone, StepError
<1>8. CASE UNCHANGED vars
  BY <1>0, <1>8 DEF vars, Holds, HandlerInv
<1>9. QED
  BY <1>1, <1>2, <1>3, <1>4, <1>5, <1>6, <1>7, <1>8
     DEF Next, StepBusy, Answered, StepRow, StepDone, StepError, StepLocked

\* Between two calls, with no timed cursor open, the connection waits for the
\* default time, whatever calls, cursors and failures there were.
THEOREM HandlerRestoredHolds == Spec => []HandlerRestored
<1>1. Init => HandlerInv
  BY DEF Init, HandlerInv
<1>2. HandlerInv => HandlerRestored
  BY DEF HandlerInv, HandlerRestored
<1>3. QED
  BY InitType, NextType, NextHandler, <1>1, <1>2, PTL DEF Spec

-----------------------------------------------------------------------------
\* One cursor at a time holds a timeout, and the handler has it.
OwnInv ==
    Without({"prepareBusy", "rounded", "interleaved", "reused", "mixed"}) =>
        /\ \A q \in Selects : cursor[q] # NoCursor => cursor[q].asked = cursor[q].timeout
        /\ \A q \in Selects : Holds(q) =>
               /\ \A p \in Selects : Holds(p) => p = q
               /\ call # Idle => call.fn = "next"
               /\ handler = cursor[q].timeout
        /\ OwnTimeout

LEMMA NextOwn == TypeInv /\ HandlerInv /\ OwnInv /\ [Next]_vars => OwnInv'
<1> DEFINE W == {"prepareBusy", "rounded", "interleaved", "reused", "mixed"}
<1> SUFFICES ASSUME TypeInv, HandlerInv, OwnInv, [Next]_vars, Without(W)'
             PROVE  OwnInv'
  BY DEF OwnInv
<1>0. Without(W) /\ Without({"prepareBusy", "rounded"})
  BY LapsesStay DEF Without
<1>1. CASE PrepareBusy
  BY <1>1 DEF PrepareBusy, Without
<1>2. ASSUME NEW q \in Query, NEW fn \in {"exec", "read"}, NEW t \in Timeouts,
             StartCall(fn, q, t)
      PROVE  OwnInv'
  <2>1. \A p \in Selects : ~Holds(p) /\ ~Holds(p)'
    BY <1>2 DEF StartCall, Lapse, Without, Holds
  <2>2. handler = Default
    BY <1>0, <1>2, <2>1 DEF StartCall, HandlerInv
  <2>3. call'.asked = t
    BY <1>2 DEF StartCall, Enter
  <2>4. QED
    BY <1>0, <1>2, <2>1, <2>2, <2>3 DEF StartCall, Setup, OwnInv, OwnTimeout
<1>3. ASSUME NEW q \in Selects, NEW t \in Timeouts, OpenCursor(q, t)
      PROVE  OwnInv'
  <2> DEFINE timeout == IF cursor[q] = NoCursor THEN t ELSE cursor[q].timeout
  <2>1. timeout = t
    BY <1>3 DEF OpenCursor, Lapse, Without
  <2>2. /\ cursor'[q] \in Cursors /\ cursor'[q].timeout = t /\ cursor'[q].asked = t
        /\ \A p \in Selects \ {q} : cursor'[p] = cursor[p]
    BY <1>3, <2>1 DEF OpenCursor, TypeInv, TypeOK, Cursors
  <2>3. \A p \in Selects \ {q} : ~Holds(p) /\ ~Holds(p)'
    BY <1>3, <2>2 DEF OpenCursor, Interleaved, Lapse, Without, Holds
  <2>4. Holds(q)' => handler' = t
    BY <1>3, <2>1, <2>2 DEF OpenCursor, Setup, Holds
  <2>5. call' = Idle
    BY <1>3 DEF OpenCursor
  <2>6. QED
    BY <1>0, <2>2, <2>3, <2>4, <2>5 DEF OwnInv, OwnTimeout
<1>4. ASSUME NEW q \in Selects, StartNext(q)
      PROVE  OwnInv'
  <2>1. /\ cursor[q] \in Cursors /\ cursor[q].asked = cursor[q].timeout
        /\ call'.fn = "next" /\ call'.asked = cursor[q].timeout
    BY <1>0, <1>4 DEF StartNext, Enter, OwnInv, TypeInv, TypeOK
  <2>2. ~cursor[q].shut /\ \A p \in Selects \ {q} : ~Holds(p)
    BY <1>4 DEF StartNext, Interleaved, Lapse, Without
  <2>3. CASE Timed(cursor[q].timeout)
    <3>1. handler = cursor[q].timeout
      BY <1>0, <1>4, <2>2, <2>3 DEF StartNext, Holds, OwnInv
    <3>2. QED
      BY <1>0, <1>4, <2>1, <2>3, <3>1 DEF StartNext, Holds, OwnInv, OwnTimeout
  <2>4. CASE ~Timed(cursor[q].timeout)
    <3>1. handler = Default
      BY <1>0, <1>4, <2>2, <2>4 DEF StartNext, Holds, HandlerInv
    <3>2. QED
      BY <1>0, <1>4, <2>1, <2>4, <3>1 DEF StartNext, Holds, OwnInv, OwnTimeout
  <2>5. QED
    BY <2>3, <2>4
<1>5. ASSUME NEW q \in Selects, Shutdown(q)
      PROVE  OwnInv'
  <2>1. /\ cursor[q] \in Cursors /\ cursor'[q] \in Cursors /\ cursor'[q].shut
        /\ cursor'[q].timeout = cursor[q].timeout /\ cursor'[q].asked = cursor[q].asked
        /\ \A p \in Selects \ {q} : cursor'[p] = cursor[p]
    BY <1>5 DEF Shutdown, TypeInv, TypeOK, Cursors
  <2>2. ~Holds(q)' /\ \A p \in Selects \ {q} : Holds(p)' <=> Holds(p)
    BY <2>1 DEF Holds
  <2>3. ASSUME NEW p \in Selects \ {q}, Holds(p)
        PROVE  handler' = cursor'[p].timeout
    <3>1. ~Timed(cursor[q].timeout)
      BY <1>0, <1>5, <2>3 DEF Shutdown, Holds, OwnInv
    <3>2. QED
      BY <1>0, <1>5, <2>1, <2>3, <3>1 DEF Shutdown, Restore, OwnInv
  <2>4. QED
    BY <1>0, <1>5, <2>1, <2>2, <2>3 DEF Shutdown, OwnInv, OwnTimeout
<1>6. ASSUME NEW q \in Selects, Reset(q)
      PROVE  OwnInv'
  BY <1>0, <1>6 DEF Reset, Holds, OwnInv, OwnTimeout
<1>7. ASSUME call # Idle, StepBusy \/ Answered
      PROVE  OwnInv'
  <2>1. call \in Calls /\ \A p \in Selects : Holds(p) <=> Holds(p)'
    BY <1>7, StepCursors DEF Holds, TypeInv, TypeOK
  <2>2. call.fn = "next" => UNCHANGED handler
    BY <1>7 DEF StepBusy, Answered, StepRow, StepDone, StepError, StepLocked, Return,
                Locked, Selects, TypeInv, CallInv, Q
  <2>3. \/ call' = Idle
        \/ call' # Idle /\ call'.asked = call.asked /\ call'.fn = call.fn /\ UNCHANGED handler
    BY <1>7, <2>1 DEF StepBusy, Answered, StepRow, StepDone, StepError, StepLocked, Return, Calls
  <2>4. QED
    BY <1>0, <1>7, <2>1, <2>2, <2>3, StepCursors DEF OwnInv, OwnTimeout
<1>8. CASE UNCHANGED vars
  BY <1>0, <1>8 DEF vars, Holds, OwnInv, OwnTimeout
<1>9. QED
  BY <1>1, <1>2, <1>3, <1>4, <1>5, <1>6, <1>7, <1>8
     DEF Next, StepBusy, Answered, StepRow, StepDone, StepError, StepLocked

\* While cursors with timeouts are used one after the other, every call waits
\* for the time its caller asked for.
THEOREM OwnTimeoutHolds == Spec => []OwnTimeout
<1>1. Init => HandlerInv /\ OwnInv
  BY DEF Init, HandlerInv, OwnInv, OwnTimeout, Holds
<1>2. OwnInv => OwnTimeout
  BY DEF OwnInv, OwnTimeout
<1>3. QED
  BY InitType, NextType, NextHandler, NextOwn, <1>1, <1>2, PTL DEF Spec

-----------------------------------------------------------------------------
\* A cursor stands on a row when next() said so last, and next() is the only
\* call on its query.
ShutAt(q) ==
    cursor[q] # NoCursor =>
        /\ cursor[q].shut => vm[q] # "open" /\ (call # Idle => call.query # q)
        /\ ~cursor[q].row /\ (call # Idle => call.query # q) => vm[q] # "open"
        /\ call # Idle /\ call.query = q => call.fn = "next"

ShutInv == Without({"mixed"}) => \A q \in Selects : ShutAt(q)

LEMMA NextShut == TypeInv /\ ShutInv /\ [Next]_vars => ShutInv'
<1> SUFFICES ASSUME TypeInv, ShutInv, [Next]_vars, Without({"mixed"})', NEW q \in Selects
             PROVE  ShutAt(q)'
  BY DEF ShutInv
<1>0. Without({"mixed"}) /\ q \in Query /\ ShutAt(q)
  BY LapsesStay DEF Without, Selects, ShutInv
<1>1. CASE PrepareBusy
  BY <1>0, <1>1 DEF PrepareBusy, ShutAt
<1>2. ASSUME NEW r \in Query, NEW fn \in {"exec", "read"}, NEW t \in Timeouts,
             StartCall(fn, r, t)
      PROVE  ShutAt(q)'
  <2>1. r = q => cursor[q] = NoCursor
    BY <1>2 DEF StartCall, Lapse, Without
  <2>2. call'.query = r
    BY <1>2 DEF StartCall, Enter
  <2>3. QED
    BY <1>0, <1>2, <2>1, <2>2 DEF StartCall, ShutAt
<1>3. ASSUME NEW r \in Selects, NEW t \in Timeouts, OpenCursor(r, t)
      PROVE  ShutAt(q)'
  <2>1. CASE r = q
    <3>1. vm[q] = "stopped" /\ UNCHANGED <<vm, call>> /\ call = Idle /\ ~cursor'[q].shut
      BY <1>3, <2>1 DEF OpenCursor, Lapse, Without, TypeInv, TypeOK
    <3>2. QED
      BY <3>1 DEF ShutAt
  <2>2. CASE r # q
    BY <1>0, <1>3, <2>2 DEF OpenCursor, ShutAt, TypeInv, TypeOK
  <2>3. QED
    BY <2>1, <2>2
<1>4. ASSUME NEW r \in Selects, StartNext(r)
      PROVE  ShutAt(q)'
  <2>1. call'.query = r /\ call'.fn = "next" /\ ~cursor[r].shut
    BY <1>4 DEF StartNext, Enter, Lapse, Without
  <2>2. QED
    BY <1>0, <1>4, <2>1 DEF StartNext, ShutAt
<1>5. ASSUME NEW r \in Selects, Shutdown(r)
      PROVE  ShutAt(q)'
  <2>1. CASE r = q
    <3>1. vm'[q] # "open"
      BY <1>0, <1>5, <2>1 DEF Shutdown, ShutAt, TypeInv, TypeOK
    <3>2. QED
      BY <1>5, <3>1 DEF Shutdown, ShutAt
  <2>2. CASE r # q
    BY <1>0, <1>5, <2>2 DEF Shutdown, ShutAt, TypeInv, TypeOK
  <2>3. QED
    BY <2>1, <2>2
<1>6. ASSUME NEW r \in Selects, Reset(r)
      PROVE  ShutAt(q)'
  <2>1. vm'[q] = "stopped" \/ vm'[q] = vm[q]
    BY <1>0, <1>6 DEF Reset, TypeInv, TypeOK
  <2>2. QED
    BY <1>0, <1>6, <2>1 DEF Reset, ShutAt
<1>7. ASSUME call # Idle, StepBusy \/ Answered
      PROVE  ShutAt(q)'
  <2>1. call \in Calls /\ Q \in Query
    BY <1>7 DEF TypeInv, TypeOK, Calls, Q
  <2>2. /\ cursor'[q] = NoCursor <=> cursor[q] = NoCursor
        /\ cursor'[q].shut = cursor[q].shut
        /\ q # Q => cursor'[q] = cursor[q]
    BY <1>7, StepCursors
  <2>3. \/ call' = Idle
        \/ call' # Idle /\ call'.query = call.query /\ call'.fn = call.fn
    BY <1>7, <2>1 DEF StepBusy, Answered, StepRow, StepDone, StepError, StepLocked, Return, Calls
  <2>4. CASE q # Q
    <3>1. vm'[q] = vm[q]
      BY <1>0, <1>7, <2>1, <2>4 DEF StepBusy, Answered, StepRow, StepDone, StepError,
                                    StepLocked, Stops, TypeInv, TypeOK
    <3>2. QED
      BY <1>0, <1>7, <2>2, <2>3, <2>4, <3>1 DEF ShutAt, Q
  <2>5. CASE q = Q /\ cursor[q] # NoCursor
    <3>1. call.fn = "next" /\ ~cursor[q].shut /\ cursor[q] \in Cursors
      BY <1>0, <1>7, <2>5 DEF ShutAt, Q, TypeInv, TypeOK
    <3>2. CASE StepRow
      <4>1. call' = Idle /\ cursor'[q].row
        BY <2>5, <3>1, <3>2 DEF StepRow, Return, TypeInv, TypeOK, Cursors
      <4>2. QED
        BY <2>2, <3>1, <4>1 DEF ShutAt
    <3>3. CASE ~StepRow
      <4>1. vm'[q] # "open"
        BY <1>7, <2>1, <2>5, <3>3 DEF StepBusy, Answered, StepDone, StepError, StepLocked,
                                      Stops, TypeInv, TypeOK
      <4>2. QED
        BY <2>2, <2>3, <3>1, <4>1 DEF ShutAt
    <3>4. QED
      BY <3>2, <3>3
  <2>6. QED
    BY <2>2, <2>4, <2>5 DEF ShutAt
<1>8. CASE UNCHANGED vars
  BY <1>0, <1>8 DEF vars, ShutAt
<1>9. QED
  BY <1>1, <1>2, <1>3, <1>4, <1>5, <1>6, <1>7, <1>8
     DEF Next, StepBusy, Answered, StepRow, StepDone, StepError, StepLocked

\* shutdown() leaves no statement on a row, if its cursor is alone on the query.
THEOREM ShutdownStopsHolds == Spec => []ShutdownStops
<1>1. Init => ShutInv
  BY DEF Init, ShutInv, ShutAt
<1>2. ShutInv => ShutdownStops
  BY DEF ShutInv, ShutAt, ShutdownStops
<1>3. QED
  BY InitType, NextType, NextShut, <1>1, <1>2, PTL DEF Spec
=============================================================================
