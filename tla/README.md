# librequiemdb in TLA+

librequiemdb stores IDMEF messages (alerts and heartbeats) in a relational
database and reads them back, whole or by path.  This directory models what is
hard to get right in it: the transactions and the mutex that threads share, the
results they iterate over while others use the same session, the batches of
`requiemdb-admin`, the mapping between a tree of IDMEF objects and some thirty-five
tables, and what becomes of a criterion, a page or a value with each of three SQL
servers.  TLC checks the modules on small instances.  TLAPS proves for every instance
the lock discipline of the sql object and that it implements an abstract message
store, the iteration over results, the transactions, the order and the move of
`requiemdb-admin`, that the tables hold exactly the rows of the messages stored and are
read back as those messages, the joins built from paths, and that criteria, patterns,
pages, selections and values mean the same with every server.

Paths are relative to the repository (`src/` below is the root of the sources, so
that the library itself is in `src/src/`).

## 1. Inventory

| Part | State | Operations | Interacts with |
|---|---|---|---|
| sql object, `src/src/requiemdb-sql.c` | connection, status bits CONNECTED and TRANSACTION, `internal_transaction_disabled`, recursive mutex; tables, rows and fields of results | connect, query, insert, transaction start, end and abort, escape, fetch, destroy | SQL plugin below; format plugin and database object above |
| database object, `src/src/requiemdb.c` | sql object, format plugin; result iterators | insert, get and delete messages, idents and values; transactions of the caller | turns the internal transactions of the sql object off and on |
| classic format, `src/plugins/format/classic/` | none of its own: the rows of the database; while a query is built, a join and a selection | `classic_insert`, `classic_get_*`, `classic_delete_*`, `classic_get_values`, `classic_get_*_idents` | one internal transaction around each insert and delete; reads outside any |
| SQL plugins, `src/plugins/sql/` | the server's session | open, close, query, fetch | tell the library a refused query from a lost connection |
| plugin registry, `src/src/requiemdb-plugin-*.c` | function pointers | dispatch | |
| settings, selections, errors, version | key/value list, list of selected paths | parse, get, set | |
| `src/requiemdb-admin.c` | counters of a run, page of idents, table of messages to delete, `stop_processing` | copy, move, delete, save, print, load, count | two database objects, a file, signals |
| `src/libmissing/` | the recursive lock of gnulib | lock, unlock | sql object |
| `src/bindings/` | none | SWIG glue; the Python one releases the interpreter lock around calls, which puts several threads in one object | database object |

What is hard here:

* **Concurrency.** The mutex is held from BEGIN to COMMIT or ROLLBACK, but the flag,
  and the TRANSACTION bit when a transaction is closed, are read without it.
* **Failure.** Any query may be refused or may lose the connection; the next query
  reconnects silently; the answer to COMMIT may be the one that is lost; an error
  of one INSERT of many may be ignored.
* **Order.** `requiemdb-admin move` stores in one database and deletes from another,
  in pages whose offsets depend on what was already moved.
* **Addressing.** A row is found again by its table, a parent type, the ident and
  up to four indexes, with a copy of the last element of most lists at index -1.
  Alerts and heartbeats have separate idents and share nine tables.
* **Three servers.** Operators, escapes, days of the week, empty strings, cursors and
  error numbers differ, and the library promises the same for all.

Correctness, component by component: the mutex, the bits and the server agree
whenever the mutex is free, every call returns, what is committed is whole
messages and what callers were told (sql and database objects); nothing lost,
torn, repeated or passed over, and a command that can be resumed (admin); what is
read is what was inserted, nothing is left behind (insert, get, delete); a path
selects the rows of the elements it names, and each value is taken from its own
column (paths and joins); every row of a result is taken once and an iteration ends
(results); a criterion selects what it means and a value comes back as it was
stored, whatever the plugin (criteria, values).  PROJECT.json lists the hazards at their lines.

## 2. Modules

| Module | Models |
|---|---|
| `RequiemdbSql` | sql object, transactions of the library and of the caller, threads, server session |
| `MessageStore` | abstract specification: what the library promises its callers |
| `RequiemdbSqlStore` | the refinement mapping from `RequiemdbSql` to `MessageStore`, and the invariant that carries it |
| `MCRequiemdbSql` | instances of the two above |
| `RequiemdbSqlProofs` | proofs: types, the lock, the storage and the refinement |
| `RequiemdbResult`, `MCRequiemdbResult` | library references, database object, results and their iteration, deletion from a result |
| `RequiemdbResultProofs` | proofs about it |
| `RequiemdbAdmin`, `MCRequiemdbAdmin` | the commands of `requiemdb-admin` over two databases |
| `RequiemdbAdminProofs`, `RequiemdbAdminOrderProofs` | proofs: transactions, the table and the move; the order of what is done |
| `ClassicInsert` | rows written for a message, one operator per `insert_*` function |
| `ClassicGet` | message built from rows, one operator per `get_*` function |
| `ClassicStore`, `MCClassicStore` | sessions that insert and delete messages, over the two above |
| `ClassicStoreProofs` | proofs about the rows of a message and the tables |
| `ClassicGetProofs` | proofs: what is read back is what was inserted |
| `ClassicSelect`, `MCClassicSelect` | the SELECT built from paths and criteria, over `ClassicInsert` |
| `ClassicSelectProofs` | proofs about the join and the selection |
| `ClassicSamples` | messages for the instances |
| `SqlCriteria` | criteria, LIMIT and OFFSET as the three plugins build them and the servers read them |
| `SqlValues` | values on their way into a column and back: escaping, conversions, times |
| `ClientStrings` | the parsers of settings strings and selected paths |
| `ClientRequests`, `MCClientRequests` | a client that uses the three above |
| `ClientRequestsProofs` | proofs about criteria, patterns, pages, selected paths, values and settings |

### RequiemdbSql

`connected` and `transaction` are the two status bits, `owner` and `depth` the
recursive lock, `disabled` the flag `internal_transaction_disabled`.  `session` is
the server's side: whether a transaction is open, open but refused (PostgreSQL
after an error), or none, the rows it sees, and the rows that are committed.  The
server and the network are external: `PluginQuery` gives the answers the plugins
can report, per `Backend`.  A thread's `pc` stands at the points between which the
code gives up or takes the mutex, so the unprotected reads are steps of their own:
`TransactionStart` reads the flag, `BeginTransaction` locks, tests the bit and sends
BEGIN, `MessageQuery` is one query of a message (locking for the query when no
transaction holds the mutex), `NotInTransaction`/`InTransaction` test the bit
without the mutex, `CommitTransaction`, `NoRollback` and `RollbackTransaction` close,
`UserStart`, `DisableInternal`, `UserFinish` and `EnableInternal` are the calls of
`requiemdb_transaction_*`.  A query that finds the connection closed reconnects
first (`Reconnect`), assigning the status as the code does.  `userTx`, `failed`,
`batch`, `outcome`, `inDoubt` and `erased` are observations for the properties and
guard no code step.  An insert is NStatements queries of one row each; the ones in
`Unchecked` are those whose return code the format plugin drops
(`insert_classification` and the loops of the tool alert and others do).  A read is
NStatements queries outside any transaction, with the mutex free in between; `seen`
is what they found.

### MessageStore, RequiemdbSqlStore

`MessageStore` has messages that are held whole or are absent, the answers their
callers got, and the messages someone has asked to delete.  Insertions and deletions
take effect together (a transaction of the caller is a batch) and at the instant
their answer is settled; insertions that fail have no effect, unless the answer to
the COMMIT was lost.  The mapping is: a message is held when all its rows are
committed, absent when none is; some rows are no state of the store, so a step that
commits part of a message is no step of it.  `ImplementsStore` is the store's
specification under this mapping.

### RequiemdbResult

`refcount`, `loaded` and `owed` are the references of `requiemdb_init`, which counts
before it can fail; `maker` is the thread whose `requiemdb_new` created the database
object, after the format was detected and its schema version taken.  A query is one
step here (the mutex is `RequiemdbSql`'s subject) and may be refused, or close the
session, which the next one opens again, as `sql_open` of the plugin does.  A `result` is the rows the plugin kept and a cursor; fetching is a step of
its own without the mutex, and goes as each plugin does it: PostgreSQL reads the
field of the current row, sqlite3 starts again after the end, MySQL tells the end
from an error by the error number of the session, which other threads' queries
set.  `StartDelete`, `CollectIdent` and `DeleteCollected` are
`requiemdb_delete_*_from_result_idents`, whose loop takes every answer but 0 for an
ident.  Clients keep the order the library relies on (the module says which).

### RequiemdbAdmin

One process; `pc` stands between two calls of the library.  A database is a
transaction state and, per message, whether it is absent, whole, stored twice or
torn; what a library call may do to it follows from `RequiemdbSql` (a failing
insert inside the caller's transaction leaves part of a message in it, or makes
the server refuse the rest).  `Fetch` is a page, `GetMessage`, `Insert`, `Evict` and
`Leftover` are `copy_iterate`, `Count`, `FlushEnd` and `FlushStart` are
`flush_transaction_if_needed`, `OpenFile`, `ReadMessage`, `LoadDone` and `NoFileLeft` are
`cmd_load` and its files, `Finish` is `transaction_end`, `Interrupt` the signal handler
at any point.

### ClassicInsert, ClassicGet, ClassicStore

A message is a record of sequences (`IsMessage` says exactly which children an object
has, which of them are lists and which optional, as librequiem's IDMEF objects have them;
it is an assumption on the messages of an instance), a row is
`[t, pt, id, p, i, v]`: table, `_parent_type`, `_message_ident`, `_parentN_index`
columns, `_index`, and one value for all scalar columns.  The insert operators keep
every loop with its copy at -1 (and its absence where the code has none), and the
read operators every WHERE clause, the counter each child is numbered by, the loop
that an empty piece of additional data ends, and the parameter of type `char` of
`get_process_arg`.  `EmptyIsNull` is the sqlite3 plugin, whose `fetch_field` says that a
field of length zero is NULL.  `ClassicStore` runs sessions through `classic_insert`
(`InsertMessage` numbers the message, `ReadIdent` is `get_last_insert_ident`,
`InsertRows` writes the rest and commits, or aborts on a key that exists,
`AbortInsert` is any other failure) and deletes any set of idents, from one or a list.

### ClassicSelect

A path is a sequence of names with indexes (`PathsAssumption`: a known name at every step,
and an index where there is a list).  `Select` resolves the next path of the
selection, `SetOrder` the sort of an ident query, `Criterion` a path of the
criteria; the state is the join (tables, parent types, constraints), the selection
(columns, `field_count`, ORDER BY and GROUP BY positions) and which table each path
was given.  `joined_rows` is what LEFT JOIN ... ON matches among the rows that
`ClassicInsert` writes for the sample messages, and `Reached` is the reference: the
elements of the message itself that the path names.

### SqlCriteria, SqlValues, ClientStrings, ClientRequests

One client, one of five things, with any of the plugins.  A criterion becomes a
condition (the operator tables, constraint and time functions of each plugin), which
the server evaluates in three-valued logic, with LIKE and its escapes as each server
has them; `Means` says what the criterion means.  A page is built from the rows of
the join, DISTINCT or not, ordered or not, cut by the clause of the plugin; rows of the
same creation time come in any order, and `Meant` is the reference, the messages asked for
by rank of their times.  A value
is escaped as the plugin does, stored, sent back and converted: a byte is a number,
so that NUL, quotes, backslashes, digits and the greatest byte are told apart.  A
settings string and a selected path are sequences of characters and of words, and
the parsers go through them as the code does.  What the constants may be is assumed by
name: texts are sequences (`TextsAssumption`), a struct tm has numbers and a criterion sets
one of its fields (`TmAssumption`), the idents of finitely many messages are a key
(`MessagesAssumption`), values have the types of librequiem (`ValuesAssumption`), and a
selected path has no `/`, starts with no function and is no known path up to one of its own
`)` (`SelectionsAssumption`); a client writes at least one setting, with a name and any
text as its value (`WrittenAssumption`).

## 3. Runs

| Run | Instance | Shows |
|---|---|---|
| `sql_internal` | 2 threads, 2 messages (one stored) of 2 queries, 2 faults, 2 calls per thread, MySQL; 63 020 states | mutex balanced, settled when free, queries inside transactions, messages whole, a read cut at most once, success durable, failure leaves nothing, the abstract store implemented, every call returns |
| `sql_solo` | 1 thread with its own transactions, nested and unpaired calls, 3 faults, 4 calls, PostgreSQL; 18 046 states | the inductive `LockInv` and `StoreInv`, and the abstract store implemented by transactions of the caller |
| `results` | 2 threads, any plugin and format, 2 messages, 2 faults, 4 calls per thread, rows in any order; 169 216 states | plugins loaded while used, rows taken once, sessions safe, deletions end |
| `admin_commands` | 5 messages, pages of 2 to 4, limits and offsets, delete table of 4, one or two files, 2 faults, a signal; 21 035 states | nothing lost, torn, repeated or passed over; done means done; copy, and load from one file, resume; the table stays in bounds; every command ends |
| `classic_tables` | 5 messages that contain every kind of child, 2 idents per type, 2 sessions; 3 967 states | read equals inserted, no orphan row, no duplicate key |
| `classic_paths` | 34 path shapes with every index, any 2 fields, 8 criteria; 298 233 states | rows answer the path, fields of an object share its table, values read and sorted by their own column, one class per query |
| `client_requests` | texts of 2 and patterns of 3 characters out of 6, every operator, parts of times, 3 messages in pages of any size, 2 settings with every kind of character, 2 selected paths, strings of 2 bytes out of 8; 50 490 states | criteria select what they mean, pages partition the answer, settings, selections and values come back as written |

Bounds.  Two threads are enough to interleave: the mutex has one owner, and what
the others see of it is the same.  Two queries per message are the least that has a
middle; two faults are the least that lets the rollback of a failed query fail too.
The admin bounds make a page, a transaction and the delete table end at different
messages, and the limit end inside a transaction.  Two idents of each type let a
message be deleted beside one with the same ident of the other type and one with
another ident of the same type.  Two fields and one criterion reach every lookup of
a table another path has joined; lists of two elements tell the first, the last and
every element apart.  In `results` two rows let a thread be between them when the
other one loses the session, four calls a thread let it create the database, iterate
and delete, and two faults let the session be lost, reopened and fail.  In
`client_requests` three characters of a pattern are the least that has an escaped
character and something after it, and eight bytes are one of each kind the code
treats differently.  `classic_tables`, `classic_paths`, `results` and `client_requests`
may stop: idents or calls run out, a request is answered, and there is nothing to wait
for.  No run uses symmetry.

Fairness.  In `RequiemdbSql` weak fairness of each thread's steps inside a call: the
scheduler runs it, the server answers or the connection breaks, and a mutex that
stays free is taken; and a thread that opened a transaction of its own one day ends
it, as the interface asks.  In `RequiemdbResult` weak fairness of the steps of a
deletion from a result, the only call there that takes several: the loop has nothing
to wait for.  Nothing makes a thread start a call.  Weak, not strong:
within the bound on calls a lock is free for good after finitely many steps, so
`CallsReturn` says nobody waits on a mutex that is never released, not that the lock
is fair.  In `RequiemdbAdmin` weak fairness of the program, which only waits for its
databases; signals are never owed.

### Where the code disagrees with what it says

Five runs expect a counterexample, each with a finding that quotes the line:

* `sql_dropped_error`: an INSERT whose return code is ignored fails on PostgreSQL,
  COMMIT silently rolls back, the insert reports success.
* `sql_leaked_mutex`: the same ignored error with a lost connection: reconnecting
  wipes the TRANSACTION bit, and the end of the transaction returns without
  unlocking.
* `result_endless`: a query of another thread fails on a MySQL session; past the last
  row of a result every fetch is an error, which the loop of a deletion takes for one
  more ident, for ever.
* `admin_lost_move`: a failing COMMIT is not noticed and the source is emptied.
* `admin_resume`: the offset printed after an interrupted move or delete passes
  over messages.

Four more disagreements are reached by changing the constants of a passing run:

* `SqlInternal.cfg` with a thread in `UserThreads`: a thread that inserts while another
  is in a transaction of its own reads that thread's flag and starts no transaction
  (`MutexBalanced`, `QueriesInsideTransaction`).
* `SqlInternal.cfg` with `Backend = "sqlite3"`: a COMMIT answered with SQLITE_BUSY leaves
  open a transaction that the library has forgotten (`FreeMutexSettled`).
* `AdminCommands.cfg` with `"purge"`, the bulk delete, in `Faulty`: a page whose deletion
  failed half way is committed (`NeverTorn`).
* `ClassicTables.cfg` with `Serialized = FALSE` (below).

Two threads with transactions of their own meet one more race: `requiemdb_transaction_end`
enables internal transactions after it has released the mutex, in the middle of the
transaction another thread has just started, whose inserts then fail with
ALREADY_IN_TRANSACTION.

### What the properties leave out, and why

Each exemption below is needed: without it TLC finds a counterexample (except for
the 129th and the 257th parent, which no instance reaches and the code shows).

* `NoMessageLost` asks for fewer events per transaction than the table of messages to
  delete has places (1024); beyond that copy_iterate deletes before it commits.
* `admin_commands` starts from 2 events per transaction.  With 1 the first transaction
  is never started and the last never ended, and destroying the database aborts;
  with 0 every page has LIMIT 0.
* `Complete` for load rounds `--count` up to a multiple of the events per
  transaction, which is what the code does.
* `CopyResumes` is about load from one file: every file is skipped from its start for
  the whole offset, so that an offset counted over two passes over messages of the
  second.
* No failure of save's own calls in `admin_commands`: `save_iterate_message` passes
  over what it cannot read or write without counting it.
* `RoundTrip` is about messages that are `Readable`: with sqlite3 an empty string of a
  list is dropped and an empty piece of additional data hides the ones after it;
  the index of a process's parent is passed as a `char`, so that the 129th parent's process
  is read without its arguments, and the 257th's with those of the first.  The second
  case was found by the proof: as it stood, the exemption did not imply the property.
* `ClassicTables.cfg` has `Serialized = TRUE`, sessions that write one at a time, as
  sqlite3 has them.  With FALSE (MySQL, PostgreSQL with two processes) TLC refutes
  `NoDuplicateKey`: SELECT max(_ident) returns the ident of the other session.
* `RowsAnswerPath` leaves out permissions of a file access, whose access index is not
  constrained, and the index -1 of process arguments, environment and tool alert
  idents, which are written without a copy at -1.
* `FieldsShareObject` leaves out a field of an object looked up after a list of
  strings of the same object: it is given the table of the list.
* `OrdersOwnColumn` and `ReadsOwnColumn` leave out the fields selected after a time of
  three columns and after the change time of an inode.
* `OneTopClass` is about paths that have a table: a field of the message itself is
  neither checked nor sets the class, so that a selection of `alert.messageid` alone
  is FROM Requiem_Heartbeat.
* `ReadsCutOnce` allows one cut: a read is outside any transaction, and a deletion may
  overtake it.
* `SessionsSafe` and `DeletionEnds` except the end of a MySQL result, which asks a
  session that may be closed or have failed.  `SessionsSafe` also excepts a PostgreSQL
  session on which SET DATESTYLE failed: it is left open and forgotten.
* `CriterionSelects` leaves out (`KnownDeviation`) NOT_REGEX with MySQL, whose two entries
  are swapped, the day of the week with PostgreSQL, which is one off, other operators
  than equality on a broken-down time, which are refused, and a REGEX of sqlite3 on a
  column with a NULL, which the process does not survive.
* `LikeMatchesPattern` leaves out (`LikeDeviation`) patterns with `_`, an escaped `%` or a
  last backslash, and with sqlite3 the ones that have escapes or mind case.
* `PagesPartition` is about clients that ask for an order, and the instance and the theorem
  about messages of different times, which nothing in the code guarantees: without
  either, every page may come in another order.
* `SettingsRoundTrip` takes it that a quoted value at the very end of the string is
  refused, as the code does.  `SelectionRoundTrip` says what flags a selection has when
  its filters are written in full: any prefix is taken too, the empty one for group_by.
* `ValuesRoundTrip` leaves out (`DataDeviation`) bytes, booleans and characters that are
  digits (written raw, read as a number), INTEGER data that is no number (the value is
  never set), empty data with sqlite3, and with PostgreSQL strings a bytea shows
  escaped, which are not unescaped.

The comment of the MySQL schema that says the last two parent indexes of a user id
"will always be zero if parent_type = 'F'" is the other way round in the code:
they are zero unless it is.

## 4. Proofs

Proved with TLAPS (22 681 obligations in eight modules) for every set of threads, messages
and idents, every number of queries, faults and calls, every path, text, value and page.
A hypothesis on the constants is stated with the theorem; each is needed, and says where.

| Theorem | States | Under |
|---|---|---|
| `TypeCorrect` | `TypeOK` of `RequiemdbSql` | nothing |
| `LockCorrect`, `MutexCorrect`, `SettledCorrect`, `NoAbort`, `InsideCorrect` | `LockInv`, `MutexBalanced`, `FreeMutexSettled`, `NeverAborts`, `QueriesInsideTransaction` | `SoundUse` |
| `StoreCorrect`, `WholeCorrect`, `DurableCorrect`, `FailureCorrect`, `ReadsCorrect` | `StoreInv`, `WholeMessages`, `SuccessIsDurable`, `FailureLeavesNothing`, `ReadsCutOnce` | `SoundUse` |
| `Refinement` | `ImplementsStore` | `SoundUse` |
| `ResultTypeCorrect`, `ReferencesCorrect`, `DatabaseCorrect`, `SessionsCorrect`, `TakenCorrect` | types, the count of references, `DatabaseUsable`, `SessionsSafe`, `RowsTakenOnce` | nothing |
| `AdminTypeCorrect` | types of `RequiemdbAdmin` | nothing |
| `DestroyCorrect` | `NoOpenTransactionLeft` | `--events-per-transaction` is not 1 |
| `TornCorrect` | `NeverTorn` | `"purge" \notin Faulty` |
| `TableCorrect` | `TableInBounds` | if deletions of moved messages may fail, no page is larger than the table |
| `MoveCorrect` | `NoMessageLost` | `"commit" \notin Faulty` |
| `OrderCorrect`, `NoDuplicateCorrect` | the invariant `OrderInv` below, `NoDuplicate` | `"save" \notin Faulty` |
| `InOrderCorrect`, `ResumeCorrect` | `InOrder`, `CopyResumes` | `"save", "commit" \notin Faulty` |
| `CompleteCorrect` | `Complete` | the same, and no `--events-per-transaction` 0 |
| `ExactCorrect`, `OrphansCorrect`, `KeysCorrect` | `TablesExact`, `NoOrphans`, `NoDuplicateKey` | `Serialized = TRUE` |
| `RoundTripCorrect` | `RoundTrip` | `Serialized = TRUE` |
| `JoinCorrect`, `OneTopClassCorrect`, `FieldsShareObjectCorrect` | types of the join, `OneTopClass`, `FieldsShareObject` | `PathsAssumption` |
| `OrdersOwnColumnCorrect`, `ReadsOwnColumnCorrect` | `OrdersOwnColumn`, `ReadsOwnColumn` | `PathsAssumption` |
| `CriterionCorrect` | `CriterionSelects` | `TmAssumption` |
| `LikeCorrect` | `LikeMatchesPattern` | `TextsAssumption` |
| `PagesCorrect` | `PagesPartition` | `MessagesAssumption`, and no two messages have the same time |
| `SelectionCorrect` | `SelectionRoundTrip` | `SelectionsAssumption` |
| `ValuesCorrect` | `ValuesRoundTrip` | `ValuesAssumption` |
| `SettingsCorrect` | `SettingsRoundTrip` | `WrittenAssumption` |

**Types and the lock.**  `TypeOK` is not inductive: the depth of the lock stays a natural
number because an owned lock has depth at least one, which `TypeInv` adds.  `SoundUse`
states when the code is right: every INSERT's return code is checked, the
server's COMMIT never leaves a transaction open (not sqlite3), and a thread that
opens transactions of its own has the object to itself.  Each conjunct is needed:
`sql_dropped_error` and `sql_leaked_mutex` drop the first, and the changes of
`SqlInternal.cfg` described above the other two.

`MutexBalanced` says that the mutex is held by exactly the thread whose
`pc` lies inside a transaction, and is preserved only if the early returns taken
without unlocking are taken without the lock.  That rests on the TRANSACTION bit
being set for as long as the owner has not aborted (`SessionInv`), which rests on the
connection never being reopened by a thread that has not seen an error, hence on
`NoErrorYet(t) => connected /\ session.tx = "open"`.  `ControlInv` ties `pc` to who called
the transaction functions, and `FlagInv` says that the flag is set exactly in a
transaction of a caller, so a thread alone with its flag never skips BEGIN when it
should not.  `LockInv` is the conjunction; TLC checks it in `sql_solo`.  The
proof has one lemma per group of actions (`FlagReadLock`, `BeginLock`, `QueryLock`,
`NestedLock`, `CheckLock`, `EndLock`, `SwitchLock`, `InvokeLock`, `DestroyLock`) over
lemmas on what a query can answer (`QueryAnswer`, `BeginAnswer`, `CommitAnswer`,
`RollbackAnswer`, `OpenAnswer`).

**The storage and the refinement.**  None of the storage properties is inductive: what is
committed at COMMIT is what the queries before it put in the transaction.  `StoreInv` has
four parts: a message has one insertion under way at most, and neither it nor one of an
open batch has an answer yet (`ClaimInv`); answered successes are committed whole,
failures and messages without an answer are not there (`AnswerInv`); for a thread that has seen no error, the work of the open transaction is the
committed rows, its batch, and its message as far as its queries have come (`WorkInv`); and a read that is under way has found every row so far or will
find no more (`ReadInv`).  TLC checks it in `sql_solo`.  A step of a thread
changes nothing of the others (`Frame`), and what it does to the rows changes nothing they
rely on (`Isolated`, with `OthersClaim`, `OthersWork` and `OthersRead`), so that the lemma
`StoreAfter` reduces each action to the thread that takes it.  The heart is the end of a
transaction: `CommitWork` says that what COMMIT makes permanent is exactly what is
answered, `EndTells` that the answer is told to the messages of the batch and to no others.
The refinement follows from the same facts: `EndRefines` shows that the end of a
transaction is `Settle`, `LoseAnswer` or `Refuse` of `MessageStore`, `RefuseRefines` that
an insertion that fails before is `Refuse`, and `NextRefines` that every other step is a
call or a stutter.

**Results.**  `RefInv` says that `refcount` is the number of references owed, counted as a
set of pairs of a thread and a number, so that one thread's extra `requiemdb_deinit` cannot
take another's plugins.  `RowsTakenOnce` is proved for rows that come in any order, from
an invariant (`Taken`) that says of every thread what its cursor has passed: an iteration
stands after the rows it has given out, a deletion has in hand exactly the rows between
those and the cursor, and neither ends before the last row.  These theorems need no
hypothesis.

**requiemdb-admin.**  `TxInv` says that only the target has a transaction and that
`transaction_start`, `transaction_end` and `flush_transaction_if_needed` agree on it, which
they do not for `--events-per-transaction` 1.  `TornInv` adds that a part of a message lies
only in the work of a transaction that will not be committed; a bulk deletion that fails
half way is committed (`"purge"`).  `PageInv` counts: the rest of the page, the table and
the message in hand are together no more than a page, and the table is emptied when it is
full, unless the deletions fail; its lemma `SliceBounded` says that a page has no more
messages than were asked for, by counting the ranks of its messages.  `PagesInv` says that
a transaction ends with its page.  `MoveInv` puts the order of the two databases together:
what left the source is committed in the destination, what is in the table is in the work
of its transaction, and between transactions the work is what is committed, so that the
deletions that follow COMMIT delete what is stored.  A COMMIT that fails unnoticed breaks
exactly that (`admin_lost_move`).

**The tables.**  One lemma per insert function says which tables, parent types and parent
indexes its rows have, and that no two of them have the same key: the rows of the elements
of a list are told apart by the index (`Places`, the indexes with the copy at -1), those of
different children by their table, and those of the actors that share tables by the parent
type (`ActorRows`, `IdentRows`).  `AlertRows` and `HeartbeatRows` put them together, and
`AlertsTaken` and `HeartbeatsTaken` compare them with the lists of tables of `do_delete_alert`
and `do_delete_heartbeat`: a row is taken if and only if it is of the deleted message.
`TablesInv` is inductive with the idents: every ident stored is below the counter and below
the one in hand, so that `get_last_insert_ident` reads the ident just given.  The last needs
sessions that write one at a time, see `Serialized` above.  TLC has checked `TablesInv` on
the instance of `classic_tables`.

**The order of requiemdb-admin.**  `NoDuplicate`, `InOrder`, `Complete` and `CopyResumes`
compare what was done with what the options ask for, which is a stretch of the source by
rank.  The invariant (`OrderInv`) is that there is a frontier with which everything agrees:
`Position`, where it may be; `SourceAt` and `DeletedAt`, what the source has lost and the
table still holds up to it; `PageAt`, that the page in hand goes on from it; `FileAt`, the same
of the file of load; `CountAt`, that the counters count the messages up to it; `WorkAt`,
that the destination holds those and no others, committed or in its transaction; `EndAt`,
that a command that ended well has come as far as it was asked to.  One lemma per action
moves the frontier.
The hypotheses are where the code goes out of step: save passes over what it fails to read
or write without counting it, a COMMIT that fails may lose what was counted, and with 0
events per transaction every page is empty.

**Reading back.**  From `TablesExact` and the idents, the rows found under an ident are
those of one message.  A read operator numbers the rows it finds, in the order of their
index; `Ordered` gives the k-th, and cardinalities of initial segments show that the k-th
row found is that of the k-th element.  One lemma per `get_*` function says that it gives
back the child its `insert_*` function was given, for any parent; `StringsKept` and
`ArgsKept` take from `Readable` that no string is lost on the way.  Messages are equal
because their shapes are exact.

**Paths and joins.**  `JoinInv` is inductive: the join has a table for every path that was
given one, of that path's object (`UsesPlaced`), and all are of the top class (`TopInv`).
`OrderInv` says that `field_count` and the position noted for ORDER BY and GROUP BY are a
field's own column as long as the fields before it have one column each; `ReadInv` that the
columns before a field are as many as the reader takes for the fields before it.  The sum
is a fold over the selection; what it gives after one more field is proved from the least
selection for which it would not be.

**Criteria.**  Every entry of the operator tables of the three plugins is compared with the
relation its operator means, and every part of a broken-down time with its constraint:
each test of a condition is one comparison (`CriterionMeans`), a set of them is true, false
or unknown as three-valued logic has it, and the NULL that a negated operator adds does the
rest.

**Patterns.**  A pattern of the client and the LIKE pattern made from it are related piece by
piece: where each character of the first has its one or two characters in the second, by the
positions of the pieces of `FlattenSeq`.  That both match the same texts is proved downward,
from the end of the pattern, over the positions that are not escaped.

**Pages.**  The answer meant is the messages asked for by rank of their times, so that the
k-th is found by counting (`Nth`, `NthOf`, `NthGrows`).  Rows in an order the server may
return are an enumeration of the join whose keys do not decrease; the positions of the
first k keys are an initial segment (`Initial`), as long as those messages have fields, so
that the rows are the values of one message after the other (`FlattenSorted`), and the first
rows of each are their distinct values (`FirstOfEach`).  LIMIT and OFFSET of each plugin
are the same window (`Windowed`), and windows that follow each other make a prefix
(`NextPages`): `PagesInv` is that the pages so far are the answer up to the offset.

**Selected paths.**  The text of a path is taken apart where the code looks for it: the first
`/` and the last `)`, and the commas between the filters.  The lemmas say which positions
of the written string are separators, that each stretch between them is one name of a
filter, and what `parse_filter` makes of it.

**Values.**  Escaping, hexadecimal, `bytea` and decimal texts are recursive functions or
folds over bytes.  That each exists is proved by extending it by one position, and what it
gives by induction over a set of numbers (`Induction`, from the least counterexample):
`ByteaIn` is read from the end of the text, decimal digits from the first.

**Settings.**  A value is escaped character by character, so the proof notes where each one
ends in the string (`Escapes`): the escaped positions are those with a backslash written
before them and no others (`EscapesOnes`), the value therefore ends at the character the
client meant as its end (`EscapesEnd`) and is the value without its backslashes
(`EscapesBack`).  `PairRead` says that a setting is parsed where it is written, whatever
follows it, and `SettingsRead` goes through the string from the last setting to the first:
each is added before the ones that follow, which keep the last value of every name
(`HoldsStep`).  The proof is over any blank and any quotes; the code's are put in at the end.

Proofs changed the model in four places: `Readable` (above); the server's order, which was
taken to be one when times are equal; the shapes of messages, which allowed children that no
function reads; and a numeric field without digits, whose value is now read in steps of its
own.

Only model-checked:

* liveness (`CallsReturn`, `Terminates`, `DeletionEnds`), which TLAPS does not do here;
* `RowsAnswerPath`, which compares the rows that a join matches with the elements a path
  names: a path of any length through every IDMEF class at once, so that no proof is
  shorter than the case of each, and the instance has every class with every index.

## 5. Not modelled

* Query logging, error strings, version: output or constants, without any state.
* Values: REAL additional data, interval strings of the plugins, the 32 bits file
  sizes are read with.
* Criteria combined with AND and OR: the text is put together from the parts that are
  modelled, in parentheses.
* Iterators over values: they fetch as the ones over idents do; how the columns of a
  row become values is in `ClassicSelect`.
* A read that fails in the middle, beyond ending it: what the half-built message
  holds is freed.
* The parameters of a session (host, user, busy timeout), column names and the setters
  of plugin entry points: straight-line code.
* `requiemdb-admin`: option parsing, statistics, count (which reads one value, through
  a result pointer that a failed or empty query does not set), and a database that
  cannot be opened before any work.  Pages are taken to come in the order of the
  idents although the query has no ORDER BY.
* Bindings (SWIG glue), gnulib other than the recursive lock (`vasnprintf`, `regex` and
  others are portability code of third parties), generated code.

## 6. Plan

Done, in this order: the sql object and its transactions with the lock proof; the
admin commands; the tables of the classic format; its paths and joins; the abstract
message store and the refinement; reads in several steps; results, their iteration
and the references of the library; criteria, pages, values, settings and selections.

Proved, in this order: types and lock of the sql object; the storage invariant and the
refinement; references, sessions and rows of results; transactions, table and move of
`requiemdb-admin`; the tables of the classic format; the order of `requiemdb-admin`; paths
and joins; reading back; criteria, values, patterns, selected paths, pages and
settings.

Next: `RowsAnswerPath`, class by class.
