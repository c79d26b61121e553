------------------------- MODULE QueryObjectsProofs -------------------------
(***************************************************************************)
(* For any number of objects: statements and connections have one owner,   *)
(* and what points to an object means the right one, except after the      *)
(* lapses each theorem names.                                              *)
(***************************************************************************)
EXTENDS QueryObjects, FiniteSetTheorems, SequenceTheorems, TLAPS

USE NoneAssumption

\* A query has a statement that is not finalized, and no other query has it.
StmtInv ==
    /\ \A q \in Query : Prepared(q) => stmts[query[q].ps] # Null
    /\ \A q, r \in Query : Prepared(q) /\ Prepared(r) /\ query[q].ps = query[r].ps => q = r

TypeInv == TypeOK /\ StmtInv

\* A lapse is not forgotten.
LEMMA LapsesStay == [Next]_vars => lapses \subseteq lapses'
BY DEF Next, vars, ChangeSchema, Open, DestroyDb, MoveDb, Prepare, MoveQuery, DestroyQuery,
       Cursor, GetByName, Step

LEMMA VersionType == 1 \in Versions /\ Versions \subseteq Nat /\ Versions = 1..Len(Columns)
<1>1. Columns \in Seq(Seq(STRING)) /\ Len(Columns) > 0
  BY ColumnsAssumption
<1>2. Len(Columns) \in Nat /\ DOMAIN Columns = 1..Len(Columns)
  BY <1>1, LenProperties
<1>3. QED
  BY <1>1, <1>2 DEF Versions

\* The parts of a query and of its cursor.
LEMMA QueryParts ==
    ASSUME TypeOK, NEW q \in Query, query[q] # Gone
    PROVE  /\ query[q] \in Queries /\ query[q].ps \in Stmt \cup {Null}
           /\ query[q].db \in Database \cup {Null}
           /\ query[q].cursor \in Cursors \cup {Null}
           /\ Prepared(q) => query[q].ps \in Stmt
           /\ query[q].cursor # Null => query[q].cursor.query \in Query
BY DEF TypeOK, Queries, Cursors, Prepared

\* The statement of a prepared query.
LEMMA StmtParts ==
    ASSUME TypeInv, NEW q \in Query, Prepared(q)
    PROVE  /\ query[q] # Gone /\ query[q].ps \in Stmt /\ stmts[query[q].ps] \in Statements
           /\ stmts[query[q].ps].version \in Versions /\ stmts[query[q].ps].conn \in Conn
<1>1. query[q] # Gone /\ query[q].ps \in Stmt
  BY QueryParts DEF TypeInv, Prepared
<1>2. stmts[query[q].ps] \in Statements
  BY <1>1 DEF TypeInv, TypeOK, StmtInv
<1>3. QED
  BY <1>1, <1>2 DEF Statements

-----------------------------------------------------------------------------
(* What the operations do to queries and statements.                       *)

\* A prepared query takes the place of q, with a new statement.
LEMMA PrepareEffect ==
    ASSUME TypeInv, NEW d \in Database, NEW q \in Query, Prepare(d, q)
    PROVE  \E s \in Stmt :
               /\ stmts[s] = Null /\ stmts'[s] # Null
               /\ stmts'[s].conn = database[d] /\ database[d] \in Conn
               /\ query'[q].ps = s /\ query'[q].db = d /\ query'[q].cursor = Null
               /\ Prepared(q)' /\ TypeOK' /\ UNCHANGED <<database, conns, version>>
               /\ \A r \in Query \ {q} :
                      /\ query'[r] = query[r] /\ (Prepared(r)' <=> Prepared(r))
                      /\ Prepared(r) => query[r].ps # s
               /\ \A t \in Stmt \ {s} : stmts'[t] = stmts[t]
<1>1. PICK s \in Stmt :
          /\ stmts[s] = Null
          /\ stmts' = [stmts EXCEPT ![s] = [conn |-> database[d], version |-> version]]
          /\ query' = [query EXCEPT ![q] = [ps |-> s, db |-> d, cursor |-> Null]]
  BY DEF Prepare
<1>2. database[d] \in Conn /\ version \in Versions
  BY DEF Prepare, IsOpen, TypeInv, TypeOK
<1> DEFINE new == [conn |-> database[d], version |-> version]
           obj == [ps |-> s, db |-> d, cursor |-> Null]
<1>3. new \in Statements /\ obj \in Queries /\ obj.ps = s
  BY <1>2 DEF Statements, Queries
<1> HIDE DEF new, obj
<1>4. /\ stmts' = [stmts EXCEPT ![s] = new]
      /\ query' = [query EXCEPT ![q] = obj]
      /\ lapses' \in SUBSET Lapses /\ UNCHANGED <<database, conns, version>>
  BY <1>1 DEF Prepare, Lapse, Lapses, TypeInv, TypeOK, new, obj
<1>5. TypeOK'
  BY <1>3, <1>4 DEF TypeInv, TypeOK
<1>6. /\ query'[q] = obj /\ stmts'[s] = new
      /\ \A r \in Query \ {q} : query'[r] = query[r]
      /\ \A t \in Stmt \ {s} : stmts'[t] = stmts[t]
  BY <1>4 DEF TypeInv, TypeOK
<1>7. Prepared(q)'
  BY <1>3, <1>6 DEF Prepared
<1>8. \A r \in Query \ {q} : Prepared(r)' <=> Prepared(r)
  BY <1>6 DEF Prepared
<1>9. \A r \in Query : Prepared(r) => query[r].ps # s
  BY <1>1 DEF TypeInv, StmtInv
<1>10. /\ new # Null /\ new.conn = database[d]
       /\ obj.db = d /\ obj.cursor = Null
  BY <1>3 DEF new, obj
<1>11. QED
  BY <1>1, <1>2, <1>3, <1>4, <1>5, <1>6, <1>7, <1>8, <1>9, <1>10

\* The place r has what q had, which has nothing.
LEMMA MoveQueryEffect ==
    ASSUME TypeInv, NEW q \in Query, NEW r \in Query, MoveQuery(q, r)
    PROVE  /\ q # r /\ TypeOK' /\ UNCHANGED <<database, conns, stmts, version>>
           /\ query'[q] = [ps |-> Null, db |-> Null, cursor |-> Null]
           /\ query'[r] = query[q]
           /\ \A t \in Query \ {q, r} : query'[t] = query[t] /\ (Prepared(t)' <=> Prepared(t))
           /\ ~Prepared(q)' /\ (Prepared(r)' <=> Prepared(q))
           /\ \A t \in Query : Prepared(t)' =>
                  \E u \in Query : /\ Prepared(u) /\ query'[t] = query[u]
                                   /\ IF t = r THEN u = q ELSE u = t
<1> DEFINE none == [ps |-> Null, db |-> Null, cursor |-> Null]
<1>1. query[q] \in Queries /\ none \in Queries /\ none.ps = Null /\ q # r
  BY DEF MoveQuery, TypeInv, TypeOK, Queries
<1>2. /\ query' = [query EXCEPT ![r] = query[q], ![q] = none]
      /\ lapses' \in SUBSET Lapses /\ UNCHANGED <<database, conns, stmts, version>>
  BY DEF MoveQuery, Lapse, Lapses, TypeInv, TypeOK
<1> HIDE DEF none
<1>3. TypeOK'
  BY <1>1, <1>2 DEF TypeInv, TypeOK
<1>4. /\ query'[q] = none /\ query'[r] = query[q]
      /\ \A t \in Query \ {q, r} : query'[t] = query[t]
  BY <1>1, <1>2 DEF TypeInv, TypeOK
<1>5. /\ ~Prepared(q)' /\ (Prepared(r)' <=> Prepared(q))
      /\ \A t \in Query \ {q, r} : Prepared(t)' <=> Prepared(t)
  BY <1>1, <1>4 DEF Prepared
<1>6. ASSUME NEW t \in Query, Prepared(t)'
      PROVE  \E u \in Query : /\ Prepared(u) /\ query'[t] = query[u]
                              /\ IF t = r THEN u = q ELSE u = t
  BY <1>1, <1>4, <1>5, <1>6
<1>7. QED
  BY <1>1, <1>2, <1>3, <1>4, <1>5, <1>6 DEF none

\* The statement of q, which no other query has, is gone with it.
LEMMA DestroyQueryEffect ==
    ASSUME TypeInv, NEW q \in Query, DestroyQuery(q)
    PROVE  /\ TypeOK' /\ UNCHANGED <<database, conns, version>>
           /\ query'[q] = Gone /\ ~Prepared(q)'
           /\ \A r \in Query \ {q} :
                  /\ query'[r] = query[r] /\ (Prepared(r)' <=> Prepared(r))
                  /\ Prepared(r) => stmts'[query[r].ps] = stmts[query[r].ps]
           /\ \A s \in Stmt :
                  /\ stmts'[s] = stmts[s] \/ stmts'[s] = Null
                  /\ Prepared(q) /\ query[q].ps = s => stmts'[s] = Null
<1>1. TypeOK'
  BY QueryParts DEF DestroyQuery, TypeInv, TypeOK
<1>2. /\ query'[q] = Gone /\ ~Prepared(q)'
      /\ \A r \in Query \ {q} : query'[r] = query[r] /\ (Prepared(r)' <=> Prepared(r))
  BY DEF DestroyQuery, TypeInv, TypeOK, Prepared
<1>3. \A r \in Query \ {q} : Prepared(r) => stmts'[query[r].ps] = stmts[query[r].ps]
  BY StmtParts DEF DestroyQuery, TypeInv, TypeOK, StmtInv
<1>4. \A s \in Stmt :
          /\ stmts'[s] = stmts[s] \/ stmts'[s] = Null
          /\ Prepared(q) /\ query[q].ps = s => stmts'[s] = Null
  BY DEF DestroyQuery, TypeInv, TypeOK
<1>5. QED
  BY <1>1, <1>2, <1>3, <1>4 DEF DestroyQuery

\* Only the cursor of q changes.
LEMMA CursorEffect ==
    ASSUME TypeInv, NEW q \in Query, Cursor(q) \/ GetByName(q)
    PROVE  /\ TypeOK' /\ UNCHANGED <<database, conns, stmts, version, lapses>>
           /\ query[q] # Gone /\ query'[q] # Gone
           /\ query'[q].ps = query[q].ps /\ query'[q].db = query[q].db
           /\ \A r \in Query \ {q} : query'[r] = query[r]
           /\ \A r \in Query : Prepared(r)' <=> Prepared(r)
           /\ Cursor(q) => query'[q].cursor = [query |-> q, names |-> 0]
           /\ GetByName(q) =>
                  /\ query[q].cursor # Null /\ Prepared(query[q].cursor.query)
                  /\ query'[q].cursor.query = query[q].cursor.query
                  /\ query'[q].cursor.names = stmts[Target(q).ps].version
<1>1. query[q] # Gone /\ UNCHANGED <<database, conns, stmts, version, lapses>>
  BY DEF Cursor, GetByName, CallsOn, Prepared
<1>2. query[q] \in Queries
  BY <1>1, QueryParts DEF TypeInv
<1>3. \E c \in Cursors :
          /\ query' = [query EXCEPT ![q].cursor = c]
          /\ Cursor(q) => c = [query |-> q, names |-> 0]
          /\ GetByName(q) =>
                 /\ query[q].cursor # Null /\ Prepared(query[q].cursor.query)
                 /\ c.query = query[q].cursor.query
                 /\ c.names = stmts[Target(q).ps].version
  <2>1. CASE Cursor(q)
    <3> DEFINE c == [query |-> q, names |-> 0]
    <3>1. c \in Cursors /\ query' = [query EXCEPT ![q].cursor = c]
      BY <2>1 DEF Cursor, Cursors
    <3>2. ~GetByName(q)
      BY <2>1 DEF Cursor, GetByName, CallsOn
    <3>3. QED
      BY <3>1, <3>2
  <2>2. CASE GetByName(q)
    <3>1. /\ query[q].cursor \in Cursors /\ query[q].cursor # Null
          /\ query[q].cursor.query \in Query /\ Prepared(query[q].cursor.query)
      BY <1>1, <2>2, QueryParts DEF GetByName, CallsOn, TypeInv
    <3> DEFINE n == stmts[Target(q).ps].version
               c == [query[q].cursor EXCEPT !.names = n]
    <3>2. n \in Versions
      BY <3>1, StmtParts DEF Target
    <3>3. query' = [query EXCEPT ![q].cursor.names = n]
      BY <2>2 DEF GetByName
    <3> HIDE DEF n
    <3>4. c \in Cursors /\ c.query = query[q].cursor.query /\ c.names = n
      BY <3>1, <3>2 DEF Cursors
    <3>5. query' = [query EXCEPT ![q].cursor = c]
      BY <1>2, <3>1, <3>3 DEF TypeInv, TypeOK, Queries, Cursors
    <3> HIDE DEF c
    <3>6. ~Cursor(q)
      BY <3>1 DEF Cursor
    <3>7. QED
      BY <3>1, <3>4, <3>5, <3>6 DEF n
  <2>3. QED
    BY <2>1, <2>2
<1>4. PICK c \in Cursors :
          /\ query' = [query EXCEPT ![q].cursor = c]
          /\ Cursor(q) => c = [query |-> q, names |-> 0]
          /\ GetByName(q) =>
                 /\ query[q].cursor # Null /\ Prepared(query[q].cursor.query)
                 /\ c.query = query[q].cursor.query
                 /\ c.names = stmts[Target(q).ps].version
  BY <1>3
<1> DEFINE obj == [query[q] EXCEPT !.cursor = c]
<1>5. obj \in Queries /\ obj.ps = query[q].ps /\ obj.db = query[q].db /\ obj.cursor = c
  BY <1>2 DEF Queries
<1>6. query' = [query EXCEPT ![q] = obj]
  BY <1>2, <1>4 DEF TypeInv, TypeOK, Queries
<1> HIDE DEF obj
<1>7. TypeOK'
  BY <1>1, <1>5, <1>6 DEF TypeInv, TypeOK
<1>8. query'[q] = obj /\ \A r \in Query \ {q} : query'[r] = query[r]
  BY <1>6 DEF TypeInv, TypeOK
<1>9. \A r \in Query : Prepared(r)' <=> Prepared(r)
  BY <1>1, <1>5, <1>8 DEF Prepared
<1>10. QED
  BY <1>1, <1>4, <1>5, <1>7, <1>8, <1>9

\* Only the version of a statement changes.
LEMMA StepEffect ==
    ASSUME TypeInv, NEW s \in Stmt, Step(s)
    PROVE  /\ TypeOK' /\ UNCHANGED <<database, query, conns, version>>
           /\ \A q \in Query : Prepared(q)' <=> Prepared(q)
           /\ \A t \in Stmt \ {s} : stmts'[t] = stmts[t]
           /\ stmts[s] # Null /\ stmts'[s] # Null /\ stmts'[s].conn = stmts[s].conn
<1>1. stmts[s] \in Statements /\ version \in Versions
  BY DEF Step, TypeInv, TypeOK
<1> DEFINE new == [stmts[s] EXCEPT !.version = version]
<1>2. new \in Statements /\ new.conn = stmts[s].conn
  BY <1>1 DEF Statements
<1>3. stmts' = [stmts EXCEPT ![s] = new]
  BY DEF Step, TypeInv, TypeOK
<1> HIDE DEF new
<1>4. TypeOK'
  BY <1>2, <1>3 DEF Step, TypeInv, TypeOK, Lapse, Lapses
<1>5. stmts'[s] = new /\ \A t \in Stmt \ {s} : stmts'[t] = stmts[t]
  BY <1>3 DEF TypeInv, TypeOK
<1>6. QED
  BY <1>2, <1>4, <1>5 DEF Step, Prepared

-----------------------------------------------------------------------------
(* Types.                                                                  *)

LEMMA InitType == Init => TypeInv
<1>1. Init => TypeOK
  BY VersionType DEF Init, TypeOK, Databases
<1>2. Init => \A q \in Query : ~Prepared(q)
  BY DEF Init, Prepared
<1>3. QED
  BY <1>1, <1>2 DEF TypeInv, StmtInv

LEMMA NextType == TypeInv /\ [Next]_vars => TypeInv'
<1> SUFFICES ASSUME TypeInv, [Next]_vars
             PROVE  TypeInv'
  OBVIOUS
<1>0. UNCHANGED <<query, stmts>> => StmtInv'
  BY DEF TypeInv, StmtInv, Prepared
<1>1. CASE ChangeSchema
  <2>1. version' \in Versions
    BY <1>1, VersionType DEF ChangeSchema, TypeInv, TypeOK
  <2>2. QED
    BY <1>0, <1>1, <2>1 DEF ChangeSchema, TypeInv, TypeOK
<1>2. ASSUME NEW d \in Database, Open(d)
      PROVE  TypeInv'
  <2>1. lapses' \in SUBSET Lapses
    BY <1>2 DEF Open, TypeInv, TypeOK, Lapses
  <2>2. database' \in [Database -> Databases] /\ conns' \in SUBSET Conn
    BY <1>2 DEF Open, TypeInv, TypeOK, Databases
  <2>3. QED
    BY <1>0, <1>2, <2>1, <2>2 DEF Open, TypeInv, TypeOK
<1>3. ASSUME NEW d \in Database, DestroyDb(d)
      PROVE  TypeInv'
  BY <1>0, <1>3 DEF DestroyDb, TypeInv, TypeOK, Databases, Lapses, Lapse
<1>4. ASSUME NEW d \in Database, NEW e \in Database, MoveDb(d, e)
      PROVE  TypeInv'
  BY <1>0, <1>4 DEF MoveDb, TypeInv, TypeOK, Databases, Lapses, Lapse
<1>5. ASSUME NEW d \in Database, NEW q \in Query, Prepare(d, q)
      PROVE  TypeInv'
  <2>1. PICK s \in Stmt :
            /\ stmts'[s] # Null /\ query'[q].ps = s /\ Prepared(q)' /\ TypeOK'
            /\ \A r \in Query \ {q} :
                   /\ query'[r] = query[r] /\ (Prepared(r)' <=> Prepared(r))
                   /\ Prepared(r) => query[r].ps # s
            /\ \A t \in Stmt \ {s} : stmts'[t] = stmts[t]
    BY <1>5, PrepareEffect
  <2>2. ASSUME NEW t \in Query, Prepared(t)'
        PROVE  stmts'[query'[t].ps] # Null
    BY <2>1, <2>2, StmtParts DEF TypeInv, StmtInv
  <2>3. ASSUME NEW t \in Query, NEW u \in Query, Prepared(t)', Prepared(u)',
               query'[t].ps = query'[u].ps
        PROVE  t = u
    BY <2>1, <2>3 DEF TypeInv, StmtInv
  <2>4. QED
    BY <2>1, <2>2, <2>3 DEF TypeInv, StmtInv
<1>6. ASSUME NEW q \in Query, NEW r \in Query, MoveQuery(q, r)
      PROVE  TypeInv'
  <2>1. ASSUME NEW t \in Query, Prepared(t)'
        PROVE  stmts'[query'[t].ps] # Null
    <3>1. PICK u \in Query : Prepared(u) /\ query'[t] = query[u]
      BY <1>6, <2>1, MoveQueryEffect
    <3>2. QED
      BY <1>6, <3>1, MoveQueryEffect DEF TypeInv, StmtInv
  <2>2. ASSUME NEW t \in Query, NEW u \in Query, Prepared(t)', Prepared(u)',
               query'[t].ps = query'[u].ps
        PROVE  t = u
    <3>1. PICK x \in Query : /\ Prepared(x) /\ query'[t] = query[x]
                             /\ IF t = r THEN x = q ELSE x = t
      BY <1>6, <2>2, MoveQueryEffect
    <3>2. PICK y \in Query : /\ Prepared(y) /\ query'[u] = query[y]
                             /\ IF u = r THEN y = q ELSE y = u
      BY <1>6, <2>2, MoveQueryEffect
    <3>3. x = y
      BY <2>2, <3>1, <3>2 DEF TypeInv, StmtInv
    <3>4. t # q /\ u # q
      BY <1>6, <2>2, MoveQueryEffect
    <3>5. QED
      BY <3>1, <3>2, <3>3, <3>4
  <2>3. QED
    BY <1>6, <2>1, <2>2, MoveQueryEffect DEF TypeInv, StmtInv
<1>7. ASSUME NEW q \in Query, DestroyQuery(q)
      PROVE  TypeInv'
  <2>1. ASSUME NEW r \in Query, Prepared(r)'
        PROVE  /\ Prepared(r) /\ query'[r] = query[r]
               /\ stmts'[query[r].ps] = stmts[query[r].ps]
    BY <1>7, <2>1, DestroyQueryEffect
  <2>2. StmtInv'
    BY <2>1 DEF TypeInv, StmtInv
  <2>3. QED
    BY <1>7, <2>2, DestroyQueryEffect DEF TypeInv
<1>8. ASSUME NEW q \in Query, Cursor(q) \/ GetByName(q)
      PROVE  TypeInv'
  <2>1. \A r \in Query : /\ Prepared(r)' <=> Prepared(r)
                         /\ query'[r].ps = query[r].ps
    BY <1>8, CursorEffect
  <2>2. UNCHANGED stmts /\ TypeOK'
    BY <1>8, CursorEffect
  <2>3. StmtInv'
    BY <2>1, <2>2 DEF TypeInv, StmtInv
  <2>4. QED
    BY <2>2, <2>3 DEF TypeInv
<1>9. ASSUME NEW s \in Stmt, Step(s)
      PROVE  TypeInv'
  <2>1. \A t \in Stmt : stmts[t] # Null => stmts'[t] # Null
    BY <1>9, StepEffect
  <2>2. \A q \in Query : (Prepared(q)' <=> Prepared(q)) /\ query'[q] = query[q]
    BY <1>9, StepEffect
  <2>3. StmtInv'
    BY <2>1, <2>2, StmtParts DEF TypeInv, StmtInv
  <2>4. QED
    BY <1>9, <2>3, StepEffect DEF TypeInv
<1>10. CASE UNCHANGED vars
  BY <1>0, <1>10 DEF vars, TypeInv, TypeOK
<1>11. QED
  BY <1>1, <1>2, <1>3, <1>4, <1>5, <1>6, <1>7, <1>8, <1>9, <1>10 DEF Next

\* The variables keep their ranges, whatever the thread does with the objects.
THEOREM ObjectsTypeCorrect == Spec => []TypeOK
<1>1. TypeInv => TypeOK
  BY DEF TypeInv
<1>2. QED
  BY InitType, NextType, <1>1, PTL DEF Spec

-----------------------------------------------------------------------------
(* Statements.                                                             *)

\* A statement that is not finalized has a query that will do it.
OwnedInv ==
    Without({"overQuery"}) =>
        \A s \in Stmt : stmts[s] # Null => \E q \in Query : Prepared(q) /\ query[q].ps = s

LEMMA NextOwned == TypeInv /\ OwnedInv /\ [Next]_vars => OwnedInv'
<1> SUFFICES ASSUME TypeInv, OwnedInv, [Next]_vars, "overQuery" \notin lapses',
                    NEW s \in Stmt, stmts'[s] # Null
             PROVE  \E q \in Query : Prepared(q)' /\ query'[q].ps = s
  BY DEF OwnedInv, Without
<1>0. stmts[s] # Null => \E q \in Query : Prepared(q) /\ query[q].ps = s
  BY LapsesStay DEF OwnedInv, Without
<1>1. CASE UNCHANGED <<query, stmts>>
  BY <1>0, <1>1 DEF Prepared
<1>2. ASSUME NEW d \in Database, NEW q \in Query, Prepare(d, q)
      PROVE  \E r \in Query : Prepared(r)' /\ query'[r].ps = s
  <2>1. ~Prepared(q)
    BY <1>2 DEF Prepare, Lapse
  <2>2. PICK t \in Stmt :
            /\ query'[q].ps = t /\ Prepared(q)'
            /\ \A r \in Query \ {q} : query'[r] = query[r] /\ (Prepared(r)' <=> Prepared(r))
            /\ \A u \in Stmt \ {t} : stmts'[u] = stmts[u]
    BY <1>2, PrepareEffect
  <2>3. QED
    BY <1>0, <2>1, <2>2
<1>3. ASSUME NEW q \in Query, NEW r \in Query, MoveQuery(q, r)
      PROVE  \E t \in Query : Prepared(t)' /\ query'[t].ps = s
  <2>1. ~Prepared(r)
    BY <1>3 DEF MoveQuery, Lapse
  <2>2. /\ UNCHANGED stmts /\ query'[r] = query[q] /\ (Prepared(r)' <=> Prepared(q))
        /\ \A t \in Query \ {q, r} : query'[t] = query[t] /\ (Prepared(t)' <=> Prepared(t))
    BY <1>3, MoveQueryEffect
  <2>3. QED
    BY <1>0, <2>1, <2>2
<1>4. ASSUME NEW q \in Query, DestroyQuery(q)
      PROVE  \E r \in Query : Prepared(r)' /\ query'[r].ps = s
  BY <1>0, <1>4, DestroyQueryEffect
<1>5. ASSUME NEW q \in Query, Cursor(q) \/ GetByName(q)
      PROVE  \E r \in Query : Prepared(r)' /\ query'[r].ps = s
  <2>1. UNCHANGED stmts /\ \A r \in Query : (Prepared(r)' <=> Prepared(r)) /\ query'[r].ps = query[r].ps
    BY <1>5, CursorEffect
  <2>2. QED
    BY <1>0, <2>1
<1>6. ASSUME NEW t \in Stmt, Step(t)
      PROVE  \E q \in Query : Prepared(q)' /\ query'[q].ps = s
  BY <1>0, <1>6, StepEffect
<1>7. QED
  BY <1>1, <1>2, <1>3, <1>4, <1>5, <1>6
     DEF Next, vars, ChangeSchema, Open, DestroyDb, MoveDb

\* The owners of a statement are none or one.
LEMMA OwnersOne ==
    ASSUME TypeInv, NEW s \in Stmt
    PROVE  /\ stmts[s] = Null => Owners(s) = {}
           /\ \A q \in Query : Prepared(q) /\ query[q].ps = s => Owners(s) = {q}
BY DEF TypeInv, StmtInv, Owners

\* Every statement is finalized once: moving and dropping queries leaks none, unless
\* one is moved to a query that has a statement.
THEOREM StatementsOwnedHolds == Spec => []StatementsOwned
<1>1. Init => OwnedInv
  BY DEF Init, OwnedInv
<1>2. TypeInv /\ OwnedInv => StatementsOwned
  <2> SUFFICES ASSUME TypeInv, OwnedInv, Without({"overQuery"}), NEW s \in Stmt
               PROVE  Cardinality(Owners(s)) = IF stmts[s] = Null THEN 0 ELSE 1
    BY DEF StatementsOwned
  <2>1. CASE stmts[s] = Null
    BY <2>1, OwnersOne, FS_EmptySet
  <2>2. CASE stmts[s] # Null
    <3>1. PICK q \in Query : Prepared(q) /\ query[q].ps = s
      BY <2>2 DEF OwnedInv
    <3>2. QED
      BY <2>2, <3>1, OwnersOne, FS_Singleton
  <2>3. QED
    BY <2>1, <2>2
<1>3. QED
  BY InitType, NextType, NextOwned, <1>1, <1>2, PTL DEF Spec

-----------------------------------------------------------------------------
(* What queries and cursors point to.                                      *)

LEMMA NextConnected == TypeInv /\ QueriesConnected /\ [Next]_vars => QueriesConnected'
<1> SUFFICES ASSUME TypeInv, QueriesConnected, [Next]_vars,
                    lapses' \cap {"movedDb", "closedEarly"} = {},
                    NEW q \in Query, Prepared(q)'
             PROVE  query'[q].db # Null /\ database'[query'[q].db] = stmts'[query'[q].ps].conn
  BY DEF QueriesConnected, Without
<1>0. \A r \in Query : Prepared(r) =>
          query[r].db # Null /\ database[query[r].db] = stmts[query[r].ps].conn
  BY LapsesStay DEF QueriesConnected, Without
<1>1. CASE UNCHANGED <<database, query, stmts>>
  BY <1>0, <1>1 DEF Prepared
<1>a. \A r \in Query : Prepared(r) =>
          /\ query[r].db \in Database /\ query[r].ps \in Stmt /\ stmts[query[r].ps].conn \in Conn
  BY <1>0, QueryParts, StmtParts DEF TypeInv, Prepared
<1>2. ASSUME NEW d \in Database, Open(d)
      PROVE  query'[q].db # Null /\ database'[query'[q].db] = stmts'[query'[q].ps].conn
  <2>1. Prepared(q) /\ UNCHANGED <<query, stmts>>
    BY <1>2 DEF Open, Prepared
  <2>2. query[q].db # d
    BY <1>0, <1>2, <1>a, <2>1 DEF Open
  <2>3. \A e \in Database \ {d} : database'[e] = database[e]
    BY <1>2 DEF Open, TypeInv, TypeOK
  <2>4. QED
    BY <1>0, <1>a, <2>1, <2>2, <2>3
<1>3. ASSUME NEW d \in Database, DestroyDb(d)
      PROVE  query'[q].db # Null /\ database'[query'[q].db] = stmts'[query'[q].ps].conn
  <2>1. Prepared(q) /\ UNCHANGED <<query, stmts>>
    BY <1>3 DEF DestroyDb, Prepared
  <2>2. query[q].db # d
    BY <1>3, <2>1 DEF DestroyDb, Lapse, PointsTo
  <2>3. \A e \in Database \ {d} : database'[e] = database[e]
    BY <1>3 DEF DestroyDb, TypeInv, TypeOK
  <2>4. QED
    BY <1>0, <1>a, <2>1, <2>2, <2>3
<1>4. ASSUME NEW d \in Database, NEW e \in Database, MoveDb(d, e)
      PROVE  query'[q].db # Null /\ database'[query'[q].db] = stmts'[query'[q].ps].conn
  <2>1. Prepared(q) /\ UNCHANGED <<query, stmts>>
    BY <1>4 DEF MoveDb, Prepared
  <2>2. query[q].db # d /\ query[q].db # e
    BY <1>4, <2>1 DEF MoveDb, Lapse, PointsTo
  <2>3. \A f \in Database \ {d, e} : database'[f] = database[f]
    BY <1>4 DEF MoveDb, TypeInv, TypeOK
  <2>4. QED
    BY <1>0, <1>a, <2>1, <2>2, <2>3
<1>5. ASSUME NEW d \in Database, NEW r \in Query, Prepare(d, r)
      PROVE  query'[q].db # Null /\ database'[query'[q].db] = stmts'[query'[q].ps].conn
  <2>1. PICK s \in Stmt :
            /\ query'[r].ps = s /\ query'[r].db = d /\ stmts'[s].conn = database[d]
            /\ UNCHANGED database
            /\ \A t \in Query \ {r} : /\ query'[t] = query[t] /\ (Prepared(t)' <=> Prepared(t))
                                      /\ Prepared(t) => query[t].ps # s
            /\ \A u \in Stmt \ {s} : stmts'[u] = stmts[u]
    BY <1>5, PrepareEffect
  <2>2. CASE q = r
    BY <2>1, <2>2
  <2>3. CASE q # r
    BY <1>0, <1>a, <2>1, <2>3
  <2>4. QED
    BY <2>2, <2>3
<1>6. ASSUME NEW r \in Query, NEW t \in Query, MoveQuery(r, t)
      PROVE  query'[q].db # Null /\ database'[query'[q].db] = stmts'[query'[q].ps].conn
  <2>1. PICK u \in Query : Prepared(u) /\ query'[q] = query[u]
    BY <1>6, MoveQueryEffect
  <2>2. UNCHANGED <<database, stmts>>
    BY <1>6, MoveQueryEffect
  <2>3. QED
    BY <1>0, <2>1, <2>2
<1>7. ASSUME NEW r \in Query, DestroyQuery(r)
      PROVE  query'[q].db # Null /\ database'[query'[q].db] = stmts'[query'[q].ps].conn
  <2>1. /\ Prepared(q) /\ query'[q] = query[q] /\ UNCHANGED database
        /\ stmts'[query[q].ps] = stmts[query[q].ps]
    BY <1>7, DestroyQueryEffect
  <2>2. QED
    BY <1>0, <2>1
<1>8. ASSUME NEW r \in Query, Cursor(r) \/ GetByName(r)
      PROVE  query'[q].db # Null /\ database'[query'[q].db] = stmts'[query'[q].ps].conn
  <2>1. /\ Prepared(q) /\ UNCHANGED <<database, stmts>>
        /\ query'[q].ps = query[q].ps /\ query'[q].db = query[q].db
    BY <1>8, CursorEffect
  <2>2. QED
    BY <1>0, <2>1
<1>9. ASSUME NEW s \in Stmt, Step(s)
      PROVE  query'[q].db # Null /\ database'[query'[q].db] = stmts'[query'[q].ps].conn
  <2>1. /\ Prepared(q) /\ UNCHANGED <<database, query>>
        /\ \A t \in Stmt : stmts'[t].conn = stmts[t].conn
    BY <1>9, StepEffect
  <2>2. QED
    BY <1>0, <1>a, <2>1
<1>10. QED
  BY <1>1, <1>2, <1>3, <1>4, <1>5, <1>6, <1>7, <1>8, <1>9 DEF Next, vars, ChangeSchema

\* A query points to the Database of its statement's connection, unless that one is
\* moved or destroyed before the query.
THEOREM QueriesConnectedHolds == Spec => []QueriesConnected
<1>1. Init => QueriesConnected
  BY DEF Init, QueriesConnected, Prepared
<1>2. QED
  BY InitType, NextType, NextConnected, <1>1, PTL DEF Spec

\* A cursor works on the query that hands it out.
AtHome ==
    Without({"movedCursor"}) =>
        \A q \in Query : query[q] # Gone /\ query[q].cursor # Null =>
            query[q].cursor.query = q

LEMMA NextAtHome == TypeInv /\ AtHome /\ [Next]_vars => AtHome'
<1> SUFFICES ASSUME TypeInv, AtHome, [Next]_vars, "movedCursor" \notin lapses',
                    NEW q \in Query, query'[q] # Gone, query'[q].cursor # Null
             PROVE  query'[q].cursor.query = q
  BY DEF AtHome, Without
<1>0. \A r \in Query : query[r] # Gone /\ query[r].cursor # Null => query[r].cursor.query = r
  BY LapsesStay DEF AtHome, Without
<1>1. CASE UNCHANGED query
  BY <1>0, <1>1
<1>2. ASSUME NEW d \in Database, NEW r \in Query, Prepare(d, r)
      PROVE  query'[q].cursor.query = q
  <2>1. query'[r].cursor = Null /\ \A t \in Query \ {r} : query'[t] = query[t]
    BY <1>2, PrepareEffect
  <2>2. QED
    BY <1>0, <2>1
<1>3. ASSUME NEW r \in Query, NEW t \in Query, MoveQuery(r, t)
      PROVE  query'[q].cursor.query = q
  <2>1. query[r].cursor = Null
    BY <1>3 DEF MoveQuery, Lapse
  <2>2. /\ query'[r].cursor = Null /\ query'[t] = query[r]
        /\ \A u \in Query \ {r, t} : query'[u] = query[u]
    BY <1>3, MoveQueryEffect
  <2>3. QED
    BY <1>0, <2>1, <2>2
<1>4. ASSUME NEW r \in Query, DestroyQuery(r)
      PROVE  query'[q].cursor.query = q
  BY <1>0, <1>4, DestroyQueryEffect
<1>5. ASSUME NEW r \in Query, Cursor(r)
      PROVE  query'[q].cursor.query = q
  <2>1. /\ query'[r].cursor = [query |-> r, names |-> 0]
        /\ \A t \in Query \ {r} : query'[t] = query[t]
    BY <1>5, CursorEffect
  <2>2. QED
    BY <1>0, <2>1
<1>6. ASSUME NEW r \in Query, GetByName(r)
      PROVE  query'[q].cursor.query = q
  <2>1. /\ query[r] # Gone /\ query[r].cursor # Null
        /\ query'[r].cursor.query = query[r].cursor.query
        /\ \A t \in Query \ {r} : query'[t] = query[t]
    BY <1>6, CursorEffect
  <2>2. QED
    BY <1>0, <2>1
<1>7. QED
  BY <1>1, <1>2, <1>3, <1>4, <1>5, <1>6
     DEF Next, vars, ChangeSchema, Open, DestroyDb, MoveDb, Step

\* The names that a cursor has asked for are those its statement is compiled for.
NamesInv ==
    Without({"schema", "movedCursor"}) =>
        \A q \in Query : Prepared(q) /\ query[q].cursor # Null /\ query[q].cursor.names # 0 =>
            query[q].cursor.names = stmts[query[q].ps].version

LEMMA NextNames == TypeInv /\ AtHome /\ NamesInv /\ [Next]_vars => NamesInv'
<1> SUFFICES ASSUME TypeInv, AtHome, NamesInv, [Next]_vars,
                    lapses' \cap {"schema", "movedCursor"} = {}, NEW q \in Query,
                    Prepared(q)', query'[q].cursor # Null, query'[q].cursor.names # 0
             PROVE  query'[q].cursor.names = stmts'[query'[q].ps].version
  BY DEF NamesInv, Without
<1> DEFINE Goal == query'[q].cursor.names = stmts'[query'[q].ps].version
<1>0. \A r \in Query : Prepared(r) /\ query[r].cursor # Null /\ query[r].cursor.names # 0 =>
          query[r].cursor.names = stmts[query[r].ps].version
  BY LapsesStay DEF NamesInv, Without
<1>a. \A r \in Query : query[r] # Gone /\ query[r].cursor # Null => query[r].cursor.query = r
  BY LapsesStay DEF AtHome, Without
<1>1. CASE UNCHANGED <<query, stmts>>
  BY <1>0, <1>1 DEF Prepared
<1>2. ASSUME NEW d \in Database, NEW r \in Query, Prepare(d, r)
      PROVE  Goal
  <2>1. PICK s \in Stmt :
            /\ query'[r].cursor = Null
            /\ \A t \in Query \ {r} : /\ query'[t] = query[t] /\ (Prepared(t)' <=> Prepared(t))
                                      /\ Prepared(t) => query[t].ps # s
            /\ \A u \in Stmt \ {s} : stmts'[u] = stmts[u]
    BY <1>2, PrepareEffect
  <2>2. q # r
    BY <2>1
  <2>3. Prepared(q) /\ query'[q] = query[q] /\ query[q].ps \in Stmt
    BY <2>1, <2>2, StmtParts
  <2>4. QED
    BY <1>0, <2>1, <2>2, <2>3
<1>3. ASSUME NEW r \in Query, NEW t \in Query, MoveQuery(r, t)
      PROVE  Goal
  <2>1. query[r].cursor = Null
    BY <1>3 DEF MoveQuery, Lapse
  <2>2. /\ query'[r].cursor = Null /\ query'[t] = query[r] /\ UNCHANGED stmts
        /\ \A u \in Query \ {r, t} : query'[u] = query[u] /\ (Prepared(u)' <=> Prepared(u))
    BY <1>3, MoveQueryEffect
  <2>3. QED
    BY <1>0, <2>1, <2>2
<1>4. ASSUME NEW r \in Query, DestroyQuery(r)
      PROVE  Goal
  <2>1. /\ Prepared(q) /\ query'[q] = query[q]
        /\ stmts'[query[q].ps] = stmts[query[q].ps]
    BY <1>4, DestroyQueryEffect
  <2>2. QED
    BY <1>0, <2>1
<1>5. ASSUME NEW r \in Query, Cursor(r)
      PROVE  Goal
  <2>1. /\ query'[r].cursor = [query |-> r, names |-> 0] /\ UNCHANGED stmts
        /\ \A t \in Query \ {r} : query'[t] = query[t] /\ (Prepared(t)' <=> Prepared(t))
    BY <1>5, CursorEffect
  <2>2. QED
    BY <1>0, <2>1
<1>6. ASSUME NEW r \in Query, GetByName(r)
      PROVE  Goal
  <2>1. /\ query[r] # Gone /\ query[r].cursor # Null /\ UNCHANGED stmts
        /\ query'[r].ps = query[r].ps
        /\ query'[r].cursor.names = stmts[Target(r).ps].version
        /\ \A t \in Query \ {r} : query'[t] = query[t]
        /\ \A t \in Query : Prepared(t)' <=> Prepared(t)
    BY <1>6, CursorEffect
  <2>2. Target(r) = query[r]
    BY <1>a, <2>1 DEF Target
  <2>3. QED
    BY <1>0, <2>1, <2>2
<1>7. ASSUME NEW s \in Stmt, Step(s)
      PROVE  Goal
  <2>1. /\ UNCHANGED query /\ (Prepared(q)' <=> Prepared(q))
        /\ \A t \in Stmt \ {s} : stmts'[t] = stmts[t]
    BY <1>7, StepEffect
  <2>2. query[q] # Gone /\ query[q].ps \in Stmt
    BY <2>1, StmtParts
  <2>3. CallsOn(q) /\ Target(q) = query[q]
    BY <1>a, <2>1, <2>2 DEF CallsOn, Target
  <2>4. query[q].ps # s
    BY <1>7, <2>1, <2>3 DEF Step, Lapse
  <2>5. QED
    BY <1>0, <2>1, <2>2, <2>4
<1>8. QED
  BY <1>1, <1>2, <1>3, <1>4, <1>5, <1>6, <1>7
     DEF Next, vars, ChangeSchema, Open, DestroyDb, MoveDb

\* Of a name that at most one column has, get() and read() know the same column.
LEMMA OneColumn ==
    ASSUME NEW v \in Versions, NEW name, Cardinality(ByName(v, name)) <= 1
    PROVE  ColNames(v, name) = RowNames(v, name)
<1>1. Columns[v] \in Seq(STRING)
  BY ColumnsAssumption, ElementOfSeq, VersionType DEF Versions
<1>2. DOMAIN Columns[v] = 1..Len(Columns[v]) /\ Len(Columns[v]) \in Nat
  BY <1>1, LenProperties
<1>3. IsFiniteSet(DOMAIN Columns[v])
  BY <1>2, FS_Interval
<1>4. IsFiniteSet(ByName(v, name)) /\ ByName(v, name) \subseteq Nat
  <2>1. ByName(v, name) \subseteq DOMAIN Columns[v]
    BY DEF ByName
  <2>2. IsFiniteSet(ByName(v, name))
    BY <1>3, <2>1, FS_Subset
  <2>3. QED
    BY <1>2, <2>1, <2>2
<1>5. \A i, j \in ByName(v, name) : i = j
  <2> SUFFICES ASSUME NEW i \in ByName(v, name), NEW j \in ByName(v, name), i # j
               PROVE  FALSE
    OBVIOUS
  <2>1. {i, j} \subseteq ByName(v, name)
    OBVIOUS
  <2>2. Cardinality({i, j}) <= Cardinality(ByName(v, name))
    BY <1>4, <2>1, FS_Subset
  <2>3. Cardinality({i}) = 1 /\ IsFiniteSet({i})
    BY FS_Singleton
  <2>4. Cardinality({i} \cup {j}) = 2
    <3>1. j \notin {i}
      OBVIOUS
    <3>2. Cardinality({i} \cup {j}) = Cardinality({i}) + 1
      BY <2>3, <3>1, FS_AddElement, Zenon
    <3>3. QED
      BY <2>3, <3>2
  <2>5. {i, j} = {i} \cup {j}
    OBVIOUS
  <2>6. Cardinality(ByName(v, name)) \in Nat
    BY <1>4, FS_CardinalityType
  <2>7. QED
    BY <2>2, <2>4, <2>5, <2>6
<1>6. QED
  BY <1>4, <1>5 DEF ColNames, RowNames

\* get() by name and read() mean the same column, unless the names are of an older
\* schema or the query was moved with its cursor.
THEOREM NamesAgreeHolds == Spec => []NamesAgree
<1>1. Init => AtHome /\ NamesInv
  BY DEF Init, AtHome, NamesInv, Prepared
<1>2. TypeInv /\ AtHome /\ NamesInv => NamesAgree
  <2> SUFFICES ASSUME TypeInv, AtHome, NamesInv, Without({"schema", "movedCursor"}),
                      NEW q \in Query, CallsOn(q), query[q].cursor.names # 0, NEW name,
                      Cardinality(ByName(stmts[Target(q).ps].version, name)) <= 1
               PROVE  ColNames(query[q].cursor.names, name)
                      = RowNames(stmts[Target(q).ps].version, name)
    BY DEF NamesAgree
  <2>1. query[q].cursor.query = q
    BY DEF AtHome, Without, CallsOn
  <2>2. Prepared(q) /\ Target(q) = query[q]
    BY <2>1 DEF CallsOn, Target
  <2>3. query[q].cursor.names = stmts[query[q].ps].version
    BY <2>2 DEF NamesInv, CallsOn
  <2>4. stmts[query[q].ps].version \in Versions
    BY <2>2, StmtParts
  <2>5. QED
    BY <2>2, <2>3, <2>4, OneColumn
<1>3. QED
  BY InitType, NextType, NextAtHome, NextNames, <1>1, <1>2, PTL DEF Spec

-----------------------------------------------------------------------------
(* Connections.                                                            *)

\* An open connection has a Database, a Database's connection is open, and no two
\* have one.
OpenInv ==
    Without({"overDb", "openError", "closedEarly", "movedDb", "overQuery"}) =>
        /\ \A h \in conns : \E d \in Database : database[d] = h
        /\ \A d \in Database : IsOpen(d) => database[d] \in conns
        /\ \A d, e \in Database : IsOpen(d) /\ database[d] = database[e] => d = e

LEMMA NextOpen ==
    TypeInv /\ OwnedInv /\ QueriesConnected /\ OpenInv /\ [Next]_vars => OpenInv'
<1> SUFFICES ASSUME TypeInv, OwnedInv, QueriesConnected, OpenInv, [Next]_vars,
                    lapses' \cap {"overDb", "openError", "closedEarly", "movedDb", "overQuery"} = {}
             PROVE  /\ \A h \in conns' : \E d \in Database : database'[d] = h
                    /\ \A d \in Database : database'[d] \in Conn => database'[d] \in conns'
                    /\ \A d, e \in Database :
                           database'[d] \in Conn /\ database'[d] = database'[e] => d = e
  BY DEF OpenInv, Without, IsOpen
<1> DEFINE Goal == /\ \A h \in conns' : \E d \in Database : database'[d] = h
                   /\ \A d \in Database : database'[d] \in Conn => database'[d] \in conns'
                   /\ \A d, e \in Database :
                          database'[d] \in Conn /\ database'[d] = database'[e] => d = e
<1>0. /\ \A h \in conns : \E d \in Database : database[d] = h
      /\ \A d \in Database : database[d] \in Conn => database[d] \in conns
      /\ \A d, e \in Database : database[d] \in Conn /\ database[d] = database[e] => d = e
  BY LapsesStay DEF OpenInv, Without, IsOpen
<1>a. conns \subseteq Conn /\ \A d \in Database : database[d] \in Conn \cup {Null, Gone}
  BY DEF TypeInv, TypeOK, Databases
<1>b. Null \notin Conn /\ Gone \notin Conn
  OBVIOUS
<1>1. CASE UNCHANGED <<database, conns>>
  BY <1>0, <1>1
<1>2. ASSUME NEW d \in Database, Open(d)
      PROVE  Goal
  <2>1. PICK h \in Conn \ conns :
            conns' = conns \cup {h} /\ database' = [database EXCEPT ![d] = h]
    BY <1>2 DEF Open
  <2>2. database'[d] = h /\ \A e \in Database \ {d} : database'[e] = database[e]
    BY <2>1 DEF TypeInv, TypeOK
  <2>3. database[d] \notin conns
    BY <1>2, <1>a, <1>b DEF Open
  <2>4. QED
    BY <1>0, <1>a, <2>1, <2>2, <2>3
<1>3. ASSUME NEW d \in Database, NEW e \in Database, MoveDb(d, e)
      PROVE  Goal
  <2>1. database[e] \notin Conn /\ d # e /\ UNCHANGED conns
    BY <1>3 DEF MoveDb, Lapse, IsOpen
  <2>2. /\ database'[e] = database[d] /\ database'[d] = Null
        /\ \A f \in Database \ {d, e} : database'[f] = database[f]
    BY <1>3, <2>1 DEF MoveDb, TypeInv, TypeOK
  <2>3. \A h \in conns' : \E f \in Database : database'[f] = h
    BY <1>0, <1>a, <2>1, <2>2
  <2>4. \A f \in Database : database'[f] \in Conn => database'[f] \in conns'
    BY <1>0, <1>b, <2>1, <2>2
  <2>5. \A f, g \in Database : database'[f] \in Conn /\ database'[f] = database'[g] => f = g
    BY <1>0, <1>b, <2>1, <2>2
  <2>6. QED
    BY <2>3, <2>4, <2>5
<1>4. ASSUME NEW d \in Database, DestroyDb(d)
      PROVE  Goal
  <2>1. /\ database'[d] = Gone
        /\ \A e \in Database \ {d} : database'[e] = database[e]
    BY <1>4 DEF DestroyDb, TypeInv, TypeOK
  <2>2. database[d] \in Conn => StmtsOf(database[d]) = {}
    <3> SUFFICES ASSUME database[d] \in Conn, NEW s \in Stmt,
                        stmts[s] # Null, stmts[s].conn = database[d]
                 PROVE  FALSE
      BY DEF StmtsOf
    <3>1. PICK q \in Query : Prepared(q) /\ query[q].ps = s
      BY LapsesStay DEF OwnedInv, Without
    <3>2. query[q].db # Null /\ database[query[q].db] = database[d]
      BY <3>1, LapsesStay DEF QueriesConnected, Without
    <3>3. query[q].db \in Database
      BY <3>1, <3>2, QueryParts DEF TypeInv, Prepared
    <3>4. PointsTo(q, d)
      BY <1>0, <3>1, <3>2, <3>3 DEF PointsTo
    <3>5. QED
      BY <1>4, <3>4 DEF DestroyDb, Lapse
  <2>3. CASE database[d] \in Conn
    <3>1. conns' = conns \ {database[d]}
      BY <1>4, <2>2, <2>3 DEF DestroyDb
    <3>2. QED
      BY <1>0, <1>a, <1>b, <2>1, <2>3, <3>1
  <2>4. CASE database[d] \notin Conn
    <3>1. conns' = conns
      BY <1>4, <1>a, <2>4 DEF DestroyDb
    <3>2. QED
      BY <1>0, <1>a, <1>b, <2>1, <2>4, <3>1
  <2>5. QED
    BY <2>3, <2>4
<1>5. ASSUME NEW d \in Database, NEW q \in Query, Prepare(d, q)
      PROVE  Goal
  BY <1>1, <1>5 DEF Prepare
<1>6. QED
  BY <1>1, <1>2, <1>3, <1>4, <1>5
     DEF Next, vars, ChangeSchema, MoveQuery, DestroyQuery, Cursor, GetByName, Step

\* Every open connection has one Database that will close it, unless one was moved or
\* destroyed under its queries, a constructor threw, or a handle was overwritten.
THEOREM ConnectionsOwnedHolds == Spec => []ConnectionsOwned
<1>1. Init => OpenInv /\ OwnedInv /\ QueriesConnected
  BY DEF Init, OpenInv, OwnedInv, QueriesConnected, Prepared, IsOpen
<1>2. TypeInv /\ OpenInv => ConnectionsOwned
  <2> SUFFICES ASSUME TypeInv, OpenInv, NEW h \in Conn,
                      Without({"overDb", "openError", "closedEarly", "movedDb", "overQuery"})
               PROVE  Cardinality({d \in Database : database[d] = h})
                      = IF h \in conns THEN 1 ELSE 0
    BY DEF ConnectionsOwned
  <2>1. CASE h \in conns
    <3>1. PICK d \in Database : database[d] = h
      BY <2>1 DEF OpenInv
    <3>2. {e \in Database : database[e] = h} = {d}
      BY <3>1 DEF OpenInv, IsOpen
    <3>3. QED
      BY <2>1, <3>2, FS_Singleton
  <2>2. CASE h \notin conns
    <3>1. {e \in Database : database[e] = h} = {}
      BY <2>2 DEF OpenInv, IsOpen
    <3>2. QED
      BY <2>2, <3>1, FS_EmptySet
  <2>3. QED
    BY <2>1, <2>2
<1>3. QED
  BY InitType, NextType, NextOwned, NextConnected, NextOpen, <1>1, <1>2, PTL DEF Spec
=============================================================================
