# Verification of sqlite-cpp-sqlgen

TLA+ models, TLC runs and TLAPS proofs for the C++ SQLite wrapper and its code
generator. The modules are translated from the sources in `src/`; line numbers
below are those of this commit. `PROJECT.json` maps every definition to its
lines.

## The system

The repository is two programs that meet in the generated code.

* The **library** (`Database`, `DatabaseQuery`, `DatabaseCursor`, the scoped
  transaction classes) wraps one `sqlite3*` handle and its `sqlite3_stmt*`.
  A `Database` belongs to one thread; several threads or processes open the
  same file. `Database.cpp` selects no journal mode, so the file is in SQLite's
  rollback-journal mode: readers hold SHARED, one writer holds RESERVED, and a
  commit needs every reader gone.
* The **generator** (`main.cpp`, `sqlgen.cpp`) reads a C++ file with
  annotations in comments, prepares the SQL in them against a database and
  rewrites the file and its header with accessors that own one prepared
  statement each (`sample/SampleGen.cpp` is its output).

| Component | State it keeps | Operations | Interacts with |
|---|---|---|---|
| `Database` | `db`, `in_transaction` | begin/end/rollback, `prepare`, `read`, `write`, `attach`, move, close | SQLite; every query of the connection |
| Scoped transactions (`Database.h:83-203`) | the database pointer | construct, `end`/`rollback`, destroy, move | `Database` |
| `DatabaseQuery` | `ps`, `db`, `curr_idx`, the cursor | bind, `write`, `read`, `cursor`, `reset`, move, destroy | SQLite, `DatabaseCursor`, the busy handler of its connection |
| `DatabaseCursor` | `query`, `tries`, `timeoutms`, `lastErr`, `_has_error`, column cache | `next`, `get`, `reset`, `shutdown` | its query |
| SQLite (`sqlite3.c`) | file lock, autocommit, VM states, pages | step, reset, BEGIN/END/ROLLBACK | other connections through the file lock |
| Generated accessors | one prepared statement each | bind, step, get, reset | `DatabaseQuery` |
| Annotation parser | token list | tokenise, extract, parse | generator |
| Code generator | token list, generated text | generate, place | parser, SQLite |
| `main.cpp` | files on disk | backup, rewrite `.cpp` and `.h` | generator |
| string tools, logger | none, the logger pointer | conversions, messages | all |

What is hard: the retry loops of `Execute`, `read` and `next` repeat a
statement whose earlier attempt may have left something behind (a lock, rows,
an active statement); what they answer races with other connections; END,
`reset()` and the last step of a statement commit, and each of them can fail
with SQLITE_BUSY in a different way; `in_transaction` and the scoped objects
keep a second copy of a state that SQLite changes on its own (errors roll back,
END can fail); timeouts belong to calls and cursors but live in one busy
handler of the connection; objects are moved, copied and destroyed in any order
while others point at them; and nothing in the code orders threads that wait
for a lock.

What makes each component correct:

* `Database` and the scoped transactions: a transaction is open exactly while
  the program thinks so; it is atomic and isolated, and no scope object leaves
  one, or a PRAGMA, behind.
* `DatabaseQuery` and `DatabaseCursor`: a reported success is kept, rows are
  those of one execution, one state of the file is seen, every call returns and
  waits as long as it was told to; connections and statements are closed once,
  and a column is found under its name.
* Generated accessors: a call behaves as if its statement were fresh.
* Parser and generator: text outside of generated functions is never lost,
  generating twice gives the same file; the SQL is what stands in the comment,
  and the generated types have what the generated bodies fill.
* `main.cpp`: a crash or an error leaves a state the user can recover from.

## The modules

### SqliteEngine

The engine for one file. State: `lock[c]` (`unixFile.eFileLock`),
`autoCommit[c]`, `vm[c][s]` (the `eVdbeState` of each statement, with a state
of its own for a statement that answered SQLITE_BUSY in its first instruction
and still counts as active), `dirty[c]` (writes not committed) and `disk`.
Its operators are fragments of actions: `Open` and `LeaveBusy` are
`OP_Transaction`, `HaltInTransaction`, `HaltCommit`, `HaltBusy`, `HaltError`
and `HaltSpecialError` are the branches of `sqlite3VdbeHalt`, `ResetBusy` is
`sqlite3_reset` of a statement that never got its lock, `WaitForReaders` is the
PENDING lock a committing connection keeps while it polls, and `EngineBegin`,
`EngineEnd`, `EngineRollback` are `OP_AutoCommit`. EXCLUSIVE exists only inside
the step that commits. `MayCommit` is `vdbeCommit`: a connection with RESERVED
asks for EXCLUSIVE whether it has written or not, so that END of a
`BEGIN IMMEDIATE` without a write waits for the readers, too. A write is an
opaque token `<<connection, statement, number>>`.

### SerialFile

The abstract specification of the file: clients look at it, one at a time has
changes to make, they reach the file all together or are taken back, and no
commit happens under somebody who looks. `SharedDatabase!SharesSerially` is
`Serial!Spec` with `file` as `disk`, `pending` as `dirty` and `looking` as the
connections with a lock: the detailed model implements it in every usage.

### SharedDatabase

Threads with a connection each, on `SqliteEngine`. `call[c]` is the call the
thread is in; the `Start...` actions enter one, the `Step...` actions are one
iteration of the loop of `Execute`, `read` or `next` (a `sqlite3_step` and what
the loop does with its answer), `ResetStep`, `BeginStep`, `EndStep` and
`RollbackStep` are `reset()` and the transaction calls. `inTx` is
`Database.in_transaction`, `held` says that the thread has a scoped transaction
object, `got` counts the rows the caller of `read` or of a cursor has, `pos`
those of the execution in progress, and `acked` is a history variable, the
writes the library reported as done.

The constant `Usage` names what the program does that the library allows:
writing after reading (`upgrade`), writing outside of transactions
(`autocommit`), timeouts (`timed`), RETURNING cursors outside of transactions
(`cursor`), cursors open across transaction calls (`straddle`), deferred
foreign keys (`deferred`) and I/O errors (`ioerr`). A RETURNING cursor may be
open over END, which SQLite then answers with SQLITE_BUSY as long as it is
(`ControlBusy`), and, when it was begun outside of a transaction, over BEGIN and
ROLLBACK (`CursorsAllow`). Every property is checked for the largest usage it
holds for; `upgrade` and `addUser` are two uses that break one.

### MCSharedDatabase

Two connections, a query `rd`, a write `wr` and an `INSERT ... RETURNING` `rt`
on each. The connections are symmetric, except where liveness is checked: there
no symmetry is used.

### ScopedTransactions, MCScopedTransactions

The three classes of `Database.h` on a thread's stack: `scope` is the stack of
objects, constructed and destroyed at its top and used in any order
(`ConstructTx`, `ConstructSync`, `ResetTx`, `ResetSync`, `Finish`, `Destroy`,
the implicit `Copy` and `Assign`), with `Throw` and `Catch` anywhere. `db` is
what they share: SQLite's autocommit state, `in_transaction`, the writes that
wait for a commit, and PRAGMA synchronous. A unit is a transaction begun by an
object; `asked` are the units that were ended on purpose or by a destructor
that commits. One connection is enough: the locks of a transaction are
`SharedDatabase`'s. Lapses:

| Lapse | What breaks |
|---|---|
| `nested`, a transaction begun while another object has one | `UnitsAtomic`: the inner BEGIN fails and the inner object ends the outer one's transaction |
| `copied`, an object is copied | `UnitsAtomic`, `TransactionGuarded`, `NoTerminate`, `SyncScoped`: two destructors for one transaction |
| `crossed`, reset() below a ScopedSynchronous it interferes with | `SyncScoped`, `NoTerminate`: FULL is restored in the place of NORMAL, or the destructor meets a transaction |
| `inside`, a ScopedSynchronous reset() within a transaction | `NoTerminate`, `SyncScoped`: the PRAGMA's error is thrown, again by the destructor |
| `endError`, END fails on a deferred foreign key | all but `SyncScoped`: the transaction stays open and nobody holds it |
| `ioerr`, SQLite rolls the transaction back on an error | `UnitsAtomic`: later writes are committed one by one |

### StepTimeouts, MCStepTimeouts

The timeouts of one thread's calls and cursors. `handler` is the timeout of the
connection's one busy handler; `Setup` and `Restore` are what `write`, `read`,
`setupStepping` and `shutdownStepping` do to it, `PrepareBusy` is the loop of
`prepare`. `call.left` is the `timeoutms` that `Execute` counts down, one second
per SQLITE_LOCKED, and `asked` is what the caller passed. `StepBusy`, `StepRow`,
`StepDone`, `StepError` and `StepLocked` are the answers of one `sqlite3_step`.
Lapses:

| Lapse | What breaks |
|---|---|
| `prepareBusy`, a `prepare()` met SQLITE_BUSY | `HandlerRestored`, `OwnTimeout`: 50 ms stay (`Database.cpp:214`) |
| `rounded`, SQLITE_LOCKED outlasts a timeout of 0 or of no whole seconds | the same: below zero the timeout is taken for none and not put back |
| `interleaved`, a call or a cursor starts while a timed cursor is open | `OwnTimeout`: they share the handler |
| `reused`, `cursor(t)` of a query that has a cursor with another timeout | `OwnTimeout`: `t` is ignored |
| `mixed`, a cursor is used after its `shutdown()`, beside another call of its query or again without a reset | `OwnTimeout`, `ShutdownStops` |
| `selfLock`, an untimed DROP while another statement of the thread is active | `CallsReturn`: it waits for its own thread |

### QueryObjects, MCQueryObjects

Places for `Database` and `DatabaseQuery` objects, SQLite's connections and
statements, and the pointers between them. `Open`, `MoveDb`, `DestroyDb`,
`Prepare`, `MoveQuery`, `DestroyQuery` and `Cursor` are constructors, moves and
destructors; `sqlite3_close` does nothing while a statement of the connection
is left. A cursor has the version of the schema its column names are of;
`Step` is the re-prepare inside `sqlite3_step`, `GetByName` the first call of
`get_col_idx`. `ColNames` and `RowNames` are what a name means to `get()` and
to `read()`. Lapses:

| Lapse | What breaks |
|---|---|
| `movedDb`, a `Database` is moved while a query points to it | `QueriesConnected`, `ConnectionsOwned`: the query points to the old place |
| `closedEarly`, a `Database` is destroyed before a query on it | the same: SQLITE_BUSY, the connection is never closed |
| `openError`, the constructor of a `Database` throws | `ConnectionsOwned`: no destructor runs |
| `overDb`, a `Database` is moved to one that is open | `ConnectionsOwned`: the handle is overwritten |
| `overQuery`, a query is moved to one that is prepared | `StatementsOwned`, `ConnectionsOwned`: the statement is never finalized |
| `movedCursor`, a query is moved while it has a cursor | `NamesAgree`: the cursor points to the old query |
| `schema`, a statement is compiled again after its names were asked | `NamesAgree`: the names are old |

### SqlStatements, FreshCalls, GeneratedAccess, MCGeneratedAccess

`SqlStatements` is what the SQL of a function does to a table and which C++
result the function has. An answer has `ok`, FALSE after an error: only a bool
function tells it to its caller. A vector is cut short, another result is empty
or not filled, and the caller cannot tell; `ok` is there to say of which answers
the rows are all, and of which the first ones only. `FreshCalls` is the abstract specification: a call
takes its arguments, at one instant executes its SQL with them on the table of
that instant, and returns the result. `GeneratedAccess` is what
`generateSqlFunction` writes: one `DatabaseQuery` per function that lives from
call to call, with `curr_idx`, SQLite's bindings, and the state and the rows of
the statement. A call goes through the phases prepare (first call only), bind,
step, close; `Resets` says which functions the generator gives a `reset()`, and
`Bind` does nothing to a statement that is still running, as `sqlite3_bind`
answers SQLITE_MISUSE, while `curr_idx` counts on. `Others` is the commit of
another connection. A select reads the table of its first step; its rows come
in any order. Locks and failing commits are `SharedDatabase`'s subject: here a
commit succeeds. The `assert(hasNext)` of a raw function is compiled out, as with
NDEBUG: without it a call goes on after every answer but a row, an error of
`next()` as well as the end. A parameter name is used once per statement.

`MCGeneratedAccess` has the functions of `sample/Sample.cpp` (one of the two
`getUserBy...`) and three shapes the sample has none of.

### Tokenizer, Annotations, GeneratedTypes, Stages, MCTokenizer

The stages of `sqlgen_main` that read a file. `Tokenizer` is `tokenizeFile`
character by character: an action per case of its switch, the tokens as
intervals of positions of the file. `RegexComments` is the specification it has
in the source, `tokenizeFileRegex`. `Annotations` reads the comments it found
the same way: `getAnnotatedCode`'s loop takes a token (`Take...`),
`parseAnnotations` goes through a block comment (`SkipText` to `EndContent`),
and a value is the set of positions that `Cleanup` and `Trim` keep.
`RegexFound` is the regular expression in the source that it replaces.

`GeneratedTypes` is the part of `generateSqlFunction` that ties functions
together: the structures they register in turn (`Register`), the columns whose
numbers they count in the SQL (`Pieces`, `ReturnCols`), and what the bodies then
fill. A result is a vector, a single row, one whose only column is raw or
optional, or none; `StructOf` says, in the order of the source's branches, which
structure it needs. A raw or optional result of several columns has a structure
with `exists` like a single one, a single column that is neither has the type
`CondX` (here `Cond`), and a function with a type but without `@return` registers
a structure that has `exists` and no field.
The SQL is a sequence of atoms (names, commas, parentheses, literals), the
columns are those of a SELECT (the list behind a RETURNING is counted by the same
functions, but where it ends is not modelled);
`SqlColumns` is how SQLite counts. The two may only differ in what they call a
column with parentheses: `x(y)` is the column `x` for the generator, and for
SQLite the column `x(y)`. `ListNamed` says of a SELECT that it leaves no doubt: a
column with parentheses has its name behind an `AS`, or nothing outside of them.

`Stages` is `sqlgen_main`: the parser begins when the tokens are there, the
generator when the parser has read the last of them. What an annotation says is
not decoded, so that the functions of the last stage are an input of their own.

`MCTokenizer` gives each stage inputs of its own: every file of up to seven
characters to the tokenizer, comments with up to five characters, also behind
the beginning of an annotation, to the parser, and lists of functions to
`GeneratedTypes`.

### GeneratedSource, SqlgenRun, MCSqlgenRun

`GeneratedSource` holds the pure functions of the generator on a file that is a
sequence of items (comments, annotations, braces, heads of functions, blanks):
`getAnnotatedCode` with `extractFirstFunction`, `generateCode1` and
`placeData`. `SqlgenRun` is `main.cpp`: the four files, the run's two strings
(`data`), the steps of `main` in their order, each `writestring` in two steps
because it empties the file before it writes it, and a crash between any two
steps. `getFile` answers "" for a file that it cannot open, and the run goes on
(`Start`); `writestring` ignores an `open` or a `write` that fails, before or
after the file was emptied (`WriteFails`). `bad` is the set of functions whose SQL fails its check, which is only
printed; `SetupError` is the exception that ends `main` with 3. Between runs
the user inserts annotations and functions, and after a crash takes of each
file and its backup the one that is complete. `lapses` records what a careful
user avoids, and each property names the lapses it does not survive:

| Lapse | What breaks |
|---|---|
| `bare`, a user's function without a comment before it | `RunKeepsText`, `Recoverable`: the function is taken for the generated one and replaced |
| `rerun`, running again on what a crash left | `Recoverable`, `RunKeepsText`: the backup is overwritten with the emptied file |
| `atEnd`, an annotation that ends the file | `OkMeansGenerated`: `getAnnotatedCode` finds no code token behind it |
| `noMarks`, a header without markers | `OkMeansGenerated`: `placeData` prints an error and leaves the header as it is |
| `sqlerror`, SQL that did not prepare in the last run | `OkMeansGenerated`, `Idempotent`: the function is deleted, and `main` still says `SQLGen: Ok.` and returns 0 |
| `unread`, a source that could not be opened in the last run | `Saved`, `Recoverable`, `RunKeepsText`, `OkMeansGenerated`: "" is written over the backup, and what is generated from it over the source |
| `unsaved`, a backup that could not be opened or written in the last run | `Saved`, `Recoverable`: a crash then has nothing to go back to (`RunKeepsText` and `OkMeansGenerated` are not claimed after it, either) |
| `unwritten`, a source that could not be opened or written in the last run | `RunKeepsText`, `OkMeansGenerated`, `HeaderAgrees`, `Idempotent`: `main` says `SQLGen: Ok.`; the backups are complete |
| `unnoticed`, the user goes on after one of these three | `Recoverable`, `RunKeepsText`, `OkMeansGenerated`: the next run takes the damaged file for the user's |

The crash is one of the program (power loss is left out). A file that is there
but empty stands for a torn one, also where a write failed half way.

## What the runs check

| Run | Checks | Bounds |
|---|---|---|
| `core` | `AckedSafe`, `InTransactionSound`, `OneRun`, `TransactionAtomic`, `RepeatableReads` | 2 connections, 3 statements each, 1 write and 1 row per statement; usage `autocommit`, `upgrade`, `straddle` |
| `all` | `NoOrphanWrites`, `StableReads`, `SharesSerially` in every usage | 2 connections, 2 statements |
| `patient` | `CallsReturn` | 2 connections, 2 statements, usage `autocommit` |
| `upgrade`, `addUser` | violations, see below | as above |
| `scoped` | `UnitsAtomic`, `TransactionGuarded`, `FlagSound`, `NoTerminate`, `SyncScoped` | `MaxDepth` 3 objects, `MaxUnits` 2 transactions, `MaxWrites` 2, `MaxLapses` 1 kind of lapse |
| `timeouts` | `HandlerRestored`, `OwnTimeout`, `ShutdownStops`, `CallsReturn` | 2 SELECTs of `MaxRows` 1 row, 1 DROP, timeouts none, 0 and 2000 ms, `MaxLapses` 2 |
| `objects` | `StatementsOwned`, `ConnectionsOwned`, `QueriesConnected`, `NamesAgree` | 2 places, connections and statements each, 2 versions of the columns |
| `sample` | `NothingLeftOpen`, `CallsAreFresh`, `OwnArguments` | 5 functions, tables of 2 rows, 2 values (symmetric) |
| `boolResult` | a violation, see below | 1 function |
| `files` | `StagesTypeOK`, `TokensAreText`, `RegexAgrees`, `AnnotationsAgree`, `FieldsDeclared`, `ExistsSet`, `ColumnsMatch` | `MaxLen` 7 characters of 5 classes; comments with `MaxInner` 5; `MaxFunctions` 3 typed functions of every kind of result, or one with `MaxColumns` 3 columns |
| `generate` | `Saved`, `Recoverable`, `RunKeepsText`, `OkMeansGenerated`, `HeaderAgrees`, `Idempotent` | 2 annotations (with braces in their SQL), 1 user function, any number of runs, crashes and failed checks, lapses that come `Together` |

`StagesTypeOK` is the three type invariants of the stages in one. Those of the
other modules are no properties of a run: they are part of the inductive
invariants below and proved for every value of the constants.
`NoOrphanWrites` and `StableReads` are checked by `all`, for every usage.

Two connections are enough for every conflict of the lock protocol, which is
pairwise (a third was tried with `core`: 1.1 million states, no error). One
write and one row per statement are enough to retry an execution at its start,
between its row and its end, and at its commit.

In `scoped` three objects are one between two others: what is reset in the
middle meets an object that is older and one that will be destroyed before it.
Two transactions are the one that is left and the one that is begun, two writes
one for each. One kind of lapse at a time shows that each property survives the
lapses it does not name; the proofs need no such bound.

In `timeouts` a second SELECT has a cursor of its own, so that calls and cursors
with and without timeouts interleave, and the DROP meets both; 2000 ms are
counted down to zero, and 0 goes below it at once, which is the lapse `rounded`
(1500 ms does so after a second: tried beside these, in 1.6 million states, no
error). In `objects` two places are enough for every pointer to be
right, old or somebody else's: a third place is only a longer way to one of the
three.

In `sample`, two parameters (`addUser`) show a wrong order or a wrong start of
`curr_idx`, two rows leave one behind when a function reads only the first, and
two values tell the arguments of a call from those of the one before. A row
that is left behind or a binding that is kept shows in the next call, so two
calls of a function are enough; the run does not bound their number.

Seven characters are two comments that touch, or a comment with a line end and
code on both sides. `files` compares the two tokenizers only for files whose
comments are closed and whose "\r" stands before a "\n": elsewhere they differ
on purpose or by the meaning of "." in a regular expression. Five characters
within a comment are a name, a blank, two words or a line end with its star,
and the "@" of a second annotation. `AnnotationsAgree` is checked for comments
whose end stands on a line of its own, as in the documentation. Three functions
are two that share a structure and one before, between or behind them that may
fail its check.

In `generate` two annotations meet each other's generated functions, in both
orders and with the user's function before, between and behind them. The SQL
keeps `extractFirstFunction` to one function: see the assumptions of the proofs.
Each annotation's SQL has braces, one of them a closing brace first, which is
the most those assumptions allow. `Together` has any two kinds of a user's
mistakes, or one kind of failing file or a user who goes on after one, or
sources and backups that fail in one run; the proofs have no such bound.

**Fairness.** A busy handler polls; SQLite gives no order to those who wait.
An attempt that stays possible again and again is assumed to succeed once
(strong fairness of `Advance`), and programs are assumed to close their cursors
and to end their transactions. `patient` adds that readers leave before the
busy timeout of a writer that waits for them: without it an autocommit write
can starve, because its failed commit gives PENDING back, unlike END's. For a
program that writes in transactions only, this says nothing (no such step is
ever possible), so `patient` covers that program under the first two
assumptions alone. `StepTimeouts` has the calls of one thread, which goes on
stepping (weak fairness of `Answered`, every answer but SQLITE_BUSY): whether
others leave the file alone is `patient`'s question, and `timeouts` asks only
whether the thread waits for itself. The other modules have no liveness
property: their programs are sequential and stop when their input does.

**Violations.**

* `upgrade`: two transactions that read and then write wait on each other for
  ever although a comment promises a limit.
* `addUser`: the row is committed inside `reset()`, whose result is ignored.
* `boolResult`: a bool function with parameters returns before its `reset()`
  and executes its SQL with its first call's arguments for ever.

Other disagreements between the code and what one would expect of it have no
run of their own. The first three show with the module and property named, and
one constant of a run changed:

* `AckedSafe` with usage `autocommit`, `timed`: a timed write that met
  SQLITE_BUSY stays active (`DatabaseQuery.cpp:136`), counts as a writer, and the
  next autocommit write is reported but not committed.
* `OneRun` with usage `autocommit`, `cursor`: a RETURNING cursor that is retried
  at its commit hands its rows out twice (`DatabaseCursor.cpp:44`).
* `CallsAreFresh` with `Func = {firstUser}`: a raw SELECT without parameters is
  never reset (`sqlgen.cpp:1151`) and finds no row in every second call.
* `tokenizeFile` loses the "\r" of each "\r\n" after a `//` comment
  (`sqlgen.cpp:144` overwrites what line 137 sets; `TokensAreText` allows just
  that).
* A failed check deletes a function while `main` reports success
  (`OkMeansGenerated` without its guard for `sqlerror`).
* Annotations in `//` comments have names but never values: the regular
  expression of `sqlgen.cpp:316` ends in a lazy group with nothing behind it
  (`Single`).
* The value of an annotation that ends on the line of the comment's end has the
  comment's "*" at its end (`sqlgen.cpp:288-297`; `Tidy` excludes it).
* A source that cannot be opened is generated from as if it were empty, its
  backup is overwritten, and `main` says Ok (`main.cpp:47-51`,
  `stringtools.cpp:154-157`; `RunKeepsText` without its guard for `unread`).
* `assert(hasNext)` of a raw function (`sqlgen.cpp:1121-1122`) fails not only
  when there is no row, but on every error of `next()`
  (`DatabaseCursor.cpp:52-58`), and without it `ret` is returned as it is.
* `use_cond` is declared at `sqlgen.cpp:712` and never set, so that a single
  result of one column has the type `CondX` but no body that fills it (`Alike`
  excludes it).
* A vector function that stands before the first function of its structure that
  is not a vector never sets `exists`, although the final structure has it
  (`ExistsSet` says that these are the ones; `getUsers` of the sample is one).
* Functions with different fields under one structure name share the fields of
  one of them, and the bodies of the others do not compile (`Alike` excludes it).

## What is proved

Each theorem is proved by TLAPS for every value of the constants, from the
assumptions named in the modules only (`ASSUME`, which TLC evaluates in the
runs). Every proof has the same argument: an inductive invariant, which contains
the type invariant and holds at the start and after each action, and implies the
property. The theorems are listed in `PROJECT.json`; what follows is why each
invariant is needed.

**The shared file** (`SharedDatabaseProofs`): every safety
property of `core` and `all`, for any sets of connections and statements.

* `TypeCorrect`, `NoOrphanWritesHolds` and `StableReadsHolds` hold in every
  usage. Every step is split into what it does to the engine (`EngineStep`) and
  to the client's variables; `Locality` says that a thread touches its own
  connection only, and `CommitAlone` that it commits writes only when no other
  connection has a lock. `StableInv` (a running statement holds a lock, and
  uncommitted writes are their connection's own and under its RESERVED lock) is
  the strengthening `StableReads` needs.
* `SharesSeriallyHolds` is the refinement of `SerialFile` in every usage: every
  step of the engine is a `Look`, `Make`, `Undo`, `Commit` or a stutter of the
  abstract file. `LockInv` adds to the types that one connection at a time has
  RESERVED, and that a connection without it has no uncommitted writes.
* `AckedSafeHolds`, `InTransactionSoundHolds`, `TransactionAtomicHolds`,
  `RepeatableReadsHolds` and `OneRunHolds` are proved for a `Settled` program:
  no timeouts, no RETURNING cursors outside of transactions, no deferred keys,
  no I/O errors. The run `addUser`, and the first two disagreements above, show
  that the first two are needed. Their inductive invariant `AckInv` says that
  wrapper and engine agree about the transaction, that a running statement's
  write is among the uncommitted ones and not yet acknowledged, and that outside
  of a transaction a writing statement runs only inside its own call (so that no
  other statement's end can take its write back or keep it from being
  committed). `RowsInv` adds the row counts.

**Scope objects** (`ScopedTransactionsProofs`): every property of `scoped`, for
stacks of any depth, any number of transactions and writes, and any number of
lapses beside those a property names.

* `FlagSoundHolds` and `TransactionGuardedHolds` need no more than the types.
* `NoTerminateHolds` needs `Innermost`: while a transaction is open, an object
  that holds one has no ScopedSynchronous above it, which would be destroyed
  first.
* `SyncScopedHolds` needs `Nested`: each ScopedSynchronous has saved the level
  that those below it set, and the PRAGMA is at the level of all of them.
* `UnitsAtomicHolds` needs `OneTx`, at most one object has a transaction, and
  `Ledger`: a write waits for the commit exactly while its transaction is open,
  and is in the file exactly when its transaction was to be committed and is not
  open any more.

**Timeouts** (`StepTimeoutsProofs`): the safety properties of `timeouts`, for
any queries, rows and timeouts. `CallInv` says which calls a query can be in.
`HandlerInv` strengthens `HandlerRestored` to the calls in between: with no timed
cursor open, the default is in force but for the time of a timed call.
`OwnInv` says that one cursor at a time holds a timeout, and the handler has it.
`ShutInv` ties the cursor's own flags to SQLite's statement: it is running only
while the last `next()` said there is a row.

**Objects** (`QueryObjectsProofs`): every property of `objects`, for any number
of places, connections and statements and any columns. `StmtInv` says that a
query has a statement nobody else has, `OwnedInv` that a statement has such a
query, `OpenInv` that open connections and `Database` objects correspond one to
one, and `NamesInv` that the names a cursor has asked for are of the version its
statement is compiled for. `OpenInv` rests on `QueriesConnected`: `sqlite3_close`
works because every query that is left points elsewhere.

**Generated accessors** (`GeneratedAccessProofs`): all properties of `sample`
for any functions, values and tables, from `AllReusable`: each function resets
its query or runs it to its end. The functions of `boolResult` and of the third
disagreement above do neither. `AccessInv` says that between two calls every
query is fresh (not running, `curr_idx` at its start) and that within a call
only the called function's query is in use, with the call's arguments bound up
to `curr_idx`. In the refinement of `FreshCalls` the abstract answer is fixed at
the first step of the statement, where it reads its table.

**Reading a file** (`TokenizerProofs`): `TokensAreText`, `RegexAgrees`,
`AnnotationsAgree`, `FieldsDeclared`, `ExistsSet`, `ColumnsMatch`, and the type
invariants of the stages and of all three together, for files of any length and
any list of functions.

* `PrefixInv` says that the tokens so far cover the file up to `start`, and
  `CdataInv` that a comment's `cdata` begins with its two characters, so that no
  boundary falls before `start`. `ParserTypeCorrect` starts from there, and
  `StagesTypeCorrect` adds that no stage goes on behind the next one.
* `CommentsInv` says that the comments found so far, and those the regular
  expression finds from where the pass stands, are all that it finds in the
  file; `OpenInv` says what is known of the comment being read: that it begins
  where the expression begins one, and that none of the ends the expression
  looks for has gone by. `RegexFrom` is a recursive function: that there is one
  (`FindsExists`) is proved from its length downwards, and each step of the pass
  then unfolds it once.
* `AgreeInv` says the same of the annotations: those the parser has found, and
  those the regular expression finds from where the parser stands (from its
  name, within an annotation), are all that it finds in the comment (`Agrees`;
  of two with one name the later one counts on both sides). `Within` says where
  the parser stands in each state. In a tidy comment each "@" has a name and a
  content (`Named`), and `MatchNamed` shows that the regular expression, which
  goes back where it cannot match, takes just these. `BlockTokens` gives the
  "*/" of the token and that there is none before it; so a "/" behind a star
  ends the comment and nothing else. `CleanupWords` compares the two
  descriptions of decoration: `cleanup_annotation` decides character by
  character from the state before, the reference looks back for a line end with
  nothing but blanks and stars behind it (`Decorates`). The parser hands the
  star of "*/" to `cleanup_annotation`; `LastStar` is where the comment's end
  must stand on a line of its own, or that star would be kept.
* `AlikeInv` says that a structure has the fields of each of its functions, and
  `exists` just when one of the functions generated so far is not a vector; and
  that a body sets `exists` when one stood there by then. With equal fields it
  does not matter which function's structure was kept.
* `ColumnsMatchHolds` assumes `ListsNamed`, without which TLC finds `ColumnsMatch`
  violated for the column `x(y)` above. `ScanInv` follows
  `tokenizeIgnoreParentheses` atom by atom: its depth is the number of open
  parentheses, and its pieces are what stands outside of parentheses
  (`Filtered`) in one column after the other (`PieceOf`), each with its number.
  It ends at the first "from", which may stand in parentheses: then the last
  piece is left out. `StandsAlone` is the use of `ListNamed`: around a name that
  is alone outside of parentheses there is nothing inside of them either.

**The generator's run** (`GeneratedSourceProofs`, `SqlgenRunProofs`): every
property of `generate`, for any functions, any number of runs and any edits of
the user. `TypeOK`, `Saved`, `Recoverable` and `RunKeepsText` hold for any SQL.

* `SavedInv` follows, step by step, which of the four files equal what was there
  when the run began, as far as they could be read and saved; what happens to the
  sources after that does not matter.
* `RegenerateHas` says that whatever the user wrote behind a comment is in the
  generated text if it was in the old one. It rests on `FlattenPieces`, where
  the items of a sequence of sequences are after it has been concatenated
  (induction, through a least counterexample), and on `ReplacedCode`: the code
  that is replaced has no comment in it and stands behind an annotation, never
  behind a plain comment. `InsertHas` is the same for the user's edits.
* `TextInv` says that the user's text is in the files between runs, and in a
  run, or after a crash, in the run's input and in each file that is not empty,
  as long as no file failed; a source that could not be written leaves it in the
  backup.

`HeaderAgrees`, `OkMeansGenerated` and `Idempotent` depend on the SQL, because
it is pasted into the function whose end `extractFirstFunction` looks for by
counting braces up to the next comment. They have assumptions on it:

| Assumption | What the SQL has | Without it |
|---|---|---|
| `PlainSql` | no comment, no head of a generated function | with a `//` in the SQL all three fail, with a head the first two |
| `EvenSql` | as many closing braces as opening ones | with one opening brace all three fail |
| `ContainedSql` | `EvenSql`, and never two closing braces more than opening ones so far | with `}}{{` the next run leaves the second half behind, and `Idempotent` fails |

TLC finds each of these failures when the run `generate` is given such SQL in
the place of its own. `HeaderAgreesHolds` and `OkMeansGeneratedHolds` need the
first two, `IdempotentHolds` the first and the third; none needs anything of the
user that the property does not ask for.

* `DepthShift` and `EndShift` say that the count of braces, and the end it leads
  to, move with the text. `CodeEnds` applies this to a generated function: its
  head is behind the annotation in every file the generator writes, and with
  `ContainedSql` the end found is its own.
* `Layout` says where each item of the old file, and of each generated function,
  is in the new one, and `LayoutFrom` that nothing else is in it.
* `HeadsOwned` (each generated head is in the code of an annotation) and `Known`
  (each annotation is one the user wrote, and is there once) are kept by the
  generator and by a careful user, and give `HeadsAreGenerated`: the heads in
  the new file are those of the functions that were generated. Both directions
  of `HeaderAgrees` are in it. A head the generator lost sight of would stay for
  ever and be missing in the header.
* `Followed` is what `OkMeansGenerated` needs over several runs: an annotation
  that once had code behind it keeps some. When its SQL fails the check, or
  other functions come and go, the code up to the next comment does not end in a
  closing brace; a function does (`EndCloses`), so it never takes up all of it.
* `Done` says that behind each annotation there is just its generated function:
  the generator makes it so (`RegenerateDone`), and leaves such a file as it is
  (`DoneIdempotent`). `RegenerateIdempotent` combines the two for every file
  there is: to generate twice is to generate once.
* `Origin` and `Result` carry these through the run: every file, the run's
  strings and the backups are such that the next run succeeds in the same way,
  also after a crash has emptied one of them, and the header's functions are the
  heads of the C++ text they were generated with.

With TLC stays `CallsReturn` of `patient` and of `timeouts`, which is liveness
under fairness. Every other property of a passing run is proved.

## Not modelled

* **SQLite** beyond what the wrapper's calls do to locks, transactions,
  statements and writes: the pager, its recovery after a crash, WAL mode,
  attached databases, the parser and the VM. It is third-party code taken as
  given, and so is `shell.c`, which nothing links. Both are vendored and are
  most of the repository's lines; what is modelled is the wrapper and the
  generator.
* **The logger**: it prints.
* **String tools** except `trim`: conversions without state, whose results are
  text that no property looks at.
* **The C++ text** that the generator writes, and the parameters that
  `parseSqlString` takes out of the SQL (`sqlgen.cpp:397-419`): that a generated
  function binds them in their order is `GeneratedAccess`, which has the
  functions' parameters as a number.
* **The assert** of raw functions, and the columns of a **RETURNING** list
  (`sqlgen.cpp:783-788`): see `GeneratedAccess` and `GeneratedTypes`.
* **The command line** of `main.cpp`, and a database that cannot be opened: both
  end the program before it has touched a file.
* **Power loss**, and what is left of a text that was written in part: a write of
  `main.cpp` is complete, has not begun, or has left the file empty.

## Plan

Done: the engine and the shared database with its serial specification, scope
objects, timeouts, object lifetimes, the generated accessors, the tokenizer, the
annotation parser, structures and column numbers, and the generator's run; the
proofs above. Left:

* `parseSqlString` in `GeneratedTypes`: which parameters an SQL text with
  `:name(type)` gives, also inside of a literal, and what happens to two that
  touch.
