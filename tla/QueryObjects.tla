---------------------------- MODULE QueryObjects ----------------------------
(***************************************************************************)
(* The Database, DatabaseQuery and DatabaseCursor objects of a thread,     *)
(* which it constructs, moves and destroys in any order, and what they     *)
(* point at: SQLite's connections and statements, which somebody must      *)
(* close and finalize, and each other.  A place that a dead object has     *)
(* left can be taken by a new one, and a pointer to it then meets that.    *)
(* A cursor also keeps the column names of its statement, which SQLite     *)
(* compiles again when the schema has changed.                             *)
(***************************************************************************)
EXTENDS Naturals, Sequences, FiniteSets

CONSTANTS
    Database,  \* places of Database objects
    Query,     \* places of DatabaseQuery objects
    Conn,      \* connections SQLite can have open: a bound
    Stmt,      \* statements SQLite can have open: a bound
    Null,      \* nullptr
    Gone,      \* a place without an object
    Columns    \* the column names of the SQL, for each version of the schema

\* A SELECT has a first column with a name.
ASSUME ColumnsAssumption ==
    /\ Columns \in Seq(Seq(STRING)) /\ Len(Columns) > 0
    /\ \A v \in DOMAIN Columns : Columns[v] # <<>> /\ Columns[v][1] # ""

VARIABLES
    database,  \* [Database -> Databases]
    query,     \* [Query -> Queries], or no object
    conns,     \* the open connections
    stmts,     \* [Stmt -> Statements], or finalized
    version,   \* the version of the schema
    lapses     \* history: what the thread has done

vars == <<database, query, conns, stmts, version, lapses>>

Versions == DOMAIN Columns

Lapses == {
    "movedDb",      \* a Database is moved while a query points to it
    "closedEarly",  \* a Database is destroyed before a query on it
    "openError",    \* the constructor of a Database throws
    "overDb",       \* a Database is moved to one that is open
    "overQuery",    \* a DatabaseQuery is moved to one that is prepared
    "movedCursor",  \* a DatabaseQuery is moved while it has a cursor
    "schema" }      \* a statement is compiled again after its names were asked

\* Database.db, or no object.
Databases == Conn \cup {Null, Gone}

\* DatabaseCursor.query and the version its col_names are of, 0 for none.
Cursors == [query : Query, names : {0} \cup Versions]

\* DatabaseQuery.ps, db and _cursor.
Queries == [ps : Stmt \cup {Null}, db : Database \cup {Null}, cursor : Cursors \cup {Null}]

\* The connection of a statement, and the version it was compiled for.
Statements == [conn : Conn, version : Versions]

\* nullptr points to nothing, and no object is none.
ASSUME NoneAssumption ==
    /\ Null \notin Database \cup Conn \cup Stmt \cup Cursors \cup Statements
    /\ Gone \notin Conn \cup Queries /\ Null # Gone

Init ==
    /\ database = [d \in Database |-> Gone]
    /\ query = [q \in Query |-> Gone]
    /\ conns = {}
    /\ stmts = [s \in Stmt |-> Null]
    /\ version = 1
    /\ lapses = {}

Lapse(name, P) == {x \in {name} : P}

-----------------------------------------------------------------------------
(* Database.                                                               *)

IsOpen(d)     == database[d] \in Conn
StmtsOf(h)    == {s \in Stmt : stmts[s] # Null /\ stmts[s].conn = h}
Prepared(q)   == query[q] # Gone /\ query[q].ps # Null
PointsTo(q, d) == Prepared(q) /\ query[q].db = d

\* The constructor.  When a PRAGMA or an ATTACH throws, no destructor runs.
Open(d) ==
    /\ database[d] = Gone
    /\ \E h \in Conn \ conns :
           /\ conns' = conns \cup {h}
           /\ \/ database' = [database EXCEPT ![d] = h] /\ UNCHANGED lapses
              \/ lapses' = lapses \cup {"openError"} /\ UNCHANGED database
    /\ UNCHANGED <<query, stmts, version>>

\* The move constructor and move assignment, which does not close the old one.
MoveDb(d, e) ==
    /\ d # e /\ database[d] # Gone
    /\ database' = [database EXCEPT ![e] = database[d], ![d] = Null]
    /\ lapses' = lapses
           \cup Lapse("movedDb", \E q \in Query : PointsTo(q, d) \/ PointsTo(q, e))
           \cup Lapse("overDb", IsOpen(e))
    /\ UNCHANGED <<query, conns, stmts, version>>

\* Mutant: the connection is closed with its statements.
MutDestroyDb(d) ==
    /\ database[d] # Gone
    /\ database' = [database EXCEPT ![d] = Gone]
    /\ UNCHANGED <<query, conns, stmts, version, lapses>>

\* The destructor: sqlite3_close answers SQLITE_BUSY, and does nothing, while
\* the connection has statements.
DestroyDb(d) ==
    /\ database[d] # Gone
    /\ database' = [database EXCEPT ![d] = Gone]
    /\ conns' = IF StmtsOf(database[d]) = {} THEN conns \ {database[d]} ELSE conns
    /\ lapses' = lapses \cup Lapse("closedEarly", \E q \in Query : PointsTo(q, d))
    /\ UNCHANGED <<query, stmts, version>>

-----------------------------------------------------------------------------
(* DatabaseQuery.                                                          *)

\* Mutant: the query keeps the Database it had.
MutPrepare(d, q) ==
    /\ IsOpen(d)
    /\ \E s \in Stmt :
           /\ stmts[s] = Null
           /\ stmts' = [stmts EXCEPT ![s] = [conn |-> database[d], version |-> version]]
           /\ query' = [query EXCEPT ![q] =
                  [ps |-> s, db |-> IF Prepared(q) THEN query[q].db ELSE d, cursor |-> Null]]
    /\ lapses' = lapses \cup Lapse("overQuery", Prepared(q))
    /\ UNCHANGED <<database, conns, version>>

\* Database::prepare, whose result is moved to q or constructed there; on a
\* Database without a connection it throws PrepareError.
Prepare(d, q) ==
    /\ IsOpen(d)
    /\ \E s \in Stmt :
           /\ stmts[s] = Null
           /\ stmts' = [stmts EXCEPT ![s] = [conn |-> database[d], version |-> version]]
           /\ query' = [query EXCEPT ![q] = [ps |-> s, db |-> d, cursor |-> Null]]
    /\ lapses' = lapses \cup Lapse("overQuery", Prepared(q))
    /\ UNCHANGED <<database, conns, version>>

\* Mutant: the statement is shared, not moved.
MutMoveQuery(q, r) ==
    /\ q # r /\ query[q] # Gone
    /\ query' = [query EXCEPT ![r] = query[q]]
    /\ lapses' = lapses \cup Lapse("overQuery", Prepared(r))
           \cup Lapse("movedCursor", query[q].cursor # Null)
    /\ UNCHANGED <<database, conns, stmts, version>>

\* The move constructor and move assignment: the cursor goes with the query and
\* still points to the old one, whose statement is not finalized.
MoveQuery(q, r) ==
    /\ q # r /\ query[q] # Gone
    /\ query' = [query EXCEPT ![r] = query[q],
                              ![q] = [ps |-> Null, db |-> Null, cursor |-> Null]]
    /\ lapses' = lapses \cup Lapse("overQuery", Prepared(r))
           \cup Lapse("movedCursor", query[q].cursor # Null)
    /\ UNCHANGED <<database, conns, stmts, version>>

\* The destructor finalizes the statement.
DestroyQuery(q) ==
    /\ query[q] # Gone
    /\ query' = [query EXCEPT ![q] = Gone]
    /\ stmts' = IF Prepared(q) THEN [stmts EXCEPT ![query[q].ps] = Null] ELSE stmts
    /\ UNCHANGED <<database, conns, version, lapses>>

\* Mutant: one static cursor for all queries.
MutCursor(q) ==
    /\ Prepared(q) /\ query[q].cursor = Null
    /\ \E r \in Query :
           /\ Prepared(r)
           /\ query' = [query EXCEPT ![q].cursor = [query |-> r, names |-> 0]]
    /\ UNCHANGED <<database, conns, stmts, version, lapses>>

\* DatabaseQuery::cursor
Cursor(q) ==
    /\ Prepared(q) /\ query[q].cursor = Null
    /\ query' = [query EXCEPT ![q].cursor = [query |-> q, names |-> 0]]
    /\ UNCHANGED <<database, conns, stmts, version, lapses>>

\* The statement that a cursor works on.
Target(q) == query[query[q].cursor.query]

\* q has a cursor, with a statement to work on.
CallsOn(q) ==
    /\ query[q] # Gone /\ query[q].cursor # Null
    /\ Prepared(query[q].cursor.query)

\* sqlite3_step by write(), read() or next() compiles a statement again whose
\* schema has changed.
Step(s) ==
    /\ stmts[s] # Null /\ stmts[s].version # version
    /\ stmts' = [stmts EXCEPT ![s].version = version]
    /\ lapses' = lapses \cup Lapse("schema",
           \E q \in Query : CallsOn(q) /\ query[q].cursor.names # 0 /\ Target(q).ps = s)
    /\ UNCHANGED <<database, query, conns, version>>

\* DatabaseCursor::get_col_idx asks for the names once.
GetByName(q) ==
    /\ CallsOn(q) /\ query[q].cursor.names = 0
    /\ query' = [query EXCEPT ![q].cursor.names = stmts[Target(q).ps].version]
    /\ UNCHANGED <<database, conns, stmts, version, lapses>>

\* Somebody changes the schema.
ChangeSchema ==
    /\ version < Len(Columns)
    /\ version' = version + 1
    /\ UNCHANGED <<database, query, conns, stmts, lapses>>

-----------------------------------------------------------------------------
(* The columns of a row by name.  An empty name ends them; of two columns  *)
(* with one name get() takes the last, read() and next(res) the first.     *)

ByName(v, name) ==
    {i \in DOMAIN Columns[v] : Columns[v][i] = name /\ \A j \in 1..i : Columns[v][j] # ""}

\* Mutant: get() counts from the wrong end.
MutColNames(v, name) ==
    {Len(Columns[v]) + 1 - i : i \in ByName(v, name)}

\* DatabaseCursor::col_names
ColNames(v, name) ==
    {i \in ByName(v, name) : \A j \in ByName(v, name) : j <= i}

\* db_single_result
RowNames(v, name) ==
    {i \in ByName(v, name) : \A j \in ByName(v, name) : i <= j}

-----------------------------------------------------------------------------
Next ==
    \/ ChangeSchema
    \/ \E d \in Database : Open(d) \/ DestroyDb(d)
    \/ \E d, e \in Database : MoveDb(d, e)
    \/ \E d \in Database, q \in Query : Prepare(d, q)
    \/ \E q, r \in Query : MoveQuery(q, r)
    \/ \E q \in Query : DestroyQuery(q) \/ Cursor(q) \/ GetByName(q)
    \/ \E s \in Stmt : Step(s)

Spec == Init /\ [][Next]_vars

-----------------------------------------------------------------------------
(* Correctness, unless the thread does what the objects cannot bear.       *)

\* The range of every variable.
TypeOK ==
    /\ database \in [Database -> Databases]
    /\ query \in [Query -> Queries \cup {Gone}]
    /\ conns \in SUBSET Conn
    /\ stmts \in [Stmt -> Statements \cup {Null}]
    /\ version \in Versions
    /\ lapses \in SUBSET Lapses

Without(S) == lapses \cap S = {}
Owners(s)  == {q \in Query : Prepared(q) /\ query[q].ps = s}

\* Every statement has one query that will finalize it, and no query has one
\* that is finalized: moving queries about and dropping them leaks none and
\* finalizes none twice, whatever becomes of their Databases.
StatementsOwned ==
    Without({"overQuery"}) =>
        \A s \in Stmt : Cardinality(Owners(s)) = IF stmts[s] = Null THEN 0 ELSE 1

\* Every open connection has one Database that will close it, and every Database
\* has one that is open: when all objects are gone so are their file locks.
ConnectionsOwned ==
    Without({"overDb", "openError", "closedEarly", "movedDb", "overQuery"}) =>
        \A h \in Conn :
            Cardinality({d \in Database : database[d] = h}) = IF h \in conns THEN 1 ELSE 0

\* A prepared query points to the Database that has its statement's connection:
\* its busy timeouts and error messages are those of its own connection.
QueriesConnected ==
    Without({"movedDb", "closedEarly"}) =>
        \A q \in Query : Prepared(q) =>
            query[q].db # Null /\ database[query[q].db] = stmts[query[q].ps].conn

\* get() by name and the rows of read() mean the same column, when the names
\* differ, as long as the cursor's names are those of its statement.
NamesAgree ==
    Without({"schema", "movedCursor"}) =>
        \A q \in Query : CallsOn(q) /\ query[q].cursor.names # 0 =>
            LET now == stmts[Target(q).ps].version IN
            \A name \in {Columns[now][i] : i \in DOMAIN Columns[now]} :
                Cardinality(ByName(now, name)) <= 1 =>
                    ColNames(query[q].cursor.names, name) = RowNames(now, name)
=============================================================================
