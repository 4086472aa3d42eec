---------------------------- MODULE RequiemdbResult ----------------------------
(***************************************************************************)
(* The database object and its results, from requiemdb_init to the last    *)
(* requiemdb_deinit (src/src/requiemdb.c, the table and row objects of     *)
(* src/src/requiemdb-sql.c and the fetch functions of the SQL plugins).    *)
(*                                                                         *)
(* A result is what one query returned, kept by the plugin, and a cursor.  *)
(* Queries run under the mutex of the sql object and are one step here     *)
(* (RequiemdbSql models the mutex and the transactions); fetching a row    *)
(* takes no lock, so between two rows other threads query, fail, and close *)
(* and reopen the session the result came from.                            *)
(*                                                                         *)
(* The clients modelled keep the order the library relies on: a thread     *)
(* uses the database between its own requiemdb_init and requiemdb_deinit,  *)
(* stops iterating at the first answer that is not 1, destroys its results *)
(* before the database, and the database before its last deinit.           *)
(***************************************************************************)
EXTENDS Integers, Sequences, SequencesExt

CONSTANTS
  Threads,    \* threads that share the library and one database object
  NoThread,   \* nobody has created the database object
  Backends,   \* SQL plugins the database may be of
  NIdents,    \* messages in the database at first: idents 1..NIdents
  MaxFaults,  \* bound on the errors of server, network and plugin directories
  MaxCalls    \* bound on the calls a thread starts

ASSUME ResultAssumption ==
  /\ NoThread \notin Threads
  /\ Backends \subseteq {"mysql", "pgsql", "sqlite3"}
  /\ NIdents \in Nat /\ MaxFaults \in Nat /\ MaxCalls \in Nat

VARIABLES
  backend,   \* plugin of the database in use
  format,    \* what its _format table says: the format and the schema version
  stored,    \* idents of the messages in the database
  refcount,  \* librequiemdb_refcount
  loaded,    \* plugin lists that are filled: "format", "sql"
  maker,     \* thread that created the database object, or NoThread
  connected, \* the CONNECTED bit; sql->session is a closed session without it
  errno,     \* the last query on the session failed (mysql_errno)
  pc,        \* where each thread is
  owed,      \* calls of requiemdb_init each thread has not undone
  result,    \* the result each thread holds
  got,       \* observation: the idents it was handed
  batch,     \* idents its deletion has collected
  turns,     \* how often the loop that collects them has turned, modulo 2
  calls,     \* calls each thread has started
  faults,    \* errors injected so far
  misuse     \* observation: what was done to a session that should not be

libVars    == <<refcount, loaded, owed>>
dbVars     == <<backend, format, maker>>
serverVars == <<stored, connected, errno, faults>>
threadVars == <<pc, result, got, batch, turns, calls>>
vars == <<backend, format, stored, refcount, loaded, maker, connected, errno, pc, owed,
          result, got, batch, turns, calls, faults, misuse>>

-----------------------------------------------------------------------------
(***************************************************************************)
(* Values                                                                  *)
(***************************************************************************)

Idents   == 1..NIdents
Plugins  == {"format", "sql"}
NoResult == [rows |-> <<>>, cursor |-> -1]

\* A result: the rows the query returned, and how many have been fetched.
Result(rows) == [rows |-> rows, cursor |-> 0]

\* The row of the _format table, written by the script that created the database.
\* -1, 0, 1: a schema older than CLASSIC_SCHEMA_VERSION, this one, a newer one.
FormatRows == {[name |-> n, version |-> v] : n \in {"classic", "other"}, v \in {-1, 0, 1}}

\* requiemdb_sql_table_get_row_count.
RowCount(res) == Len(res.rows)

Goto(t, label) == pc' = [pc EXCEPT ![t] = label]

Start(t) == calls[t] < MaxCalls /\ calls' = [calls EXCEPT ![t] = @ + 1]

-----------------------------------------------------------------------------
(***************************************************************************)
(* The library: requiemdb_init, requiemdb_deinit                           *)
(***************************************************************************)

\* The plugin directories are loaded one after the other, the formats first;
\* a failure leaves what was loaded before it.
LoadPlugins(n) ==
  \/ n = 0 /\ loaded' = loaded \cup Plugins
  \/ n = 1 /\ \E some \in {{}, {"format"}} : loaded' = loaded \cup some

\* requiemdb_init: the reference is counted before anything can fail, and only
\* the first one loads.
InitLibrary(t) ==
  /\ pc[t] = "out" /\ Start(t)
  /\ refcount' = refcount + 1
  /\ owed' = [owed EXCEPT ![t] = @ + 1]
  /\ \/ refcount > 0 /\ Goto(t, "idle") /\ UNCHANGED <<loaded, faults>>
     \/ \E n \in {0, 1} :
          /\ refcount <= 0 /\ faults + n <= MaxFaults
          /\ LoadPlugins(n)
          /\ faults' = faults + n
          /\ Goto(t, IF n = 0 THEN "idle" ELSE "out")
  /\ UNCHANGED <<dbVars, stored, connected, errno, result, got, batch, turns, misuse>>

\* Mutant of LastReference: the count is compared before it goes down.
LastReferenceEarly(n) == n <= 2

\* --librequiemdb_refcount > 0 keeps the plugins.
LastReference(n) == n - 1 <= 0

\* requiemdb_deinit, by a thread that leaves or that undoes an init that failed.
DeinitLibrary(t) ==
  /\ pc[t] \in {"out", "idle"} /\ owed[t] > 0
  /\ maker # t /\ result[t] = NoResult
  /\ refcount' = refcount - 1
  /\ loaded' = IF LastReference(refcount) THEN {} ELSE loaded
  /\ owed' = [owed EXCEPT ![t] = @ - 1]
  /\ Goto(t, "out")
  /\ UNCHANGED <<dbVars, serverVars, result, got, batch, turns, calls, misuse>>

-----------------------------------------------------------------------------
(***************************************************************************)
(* Queries on the session                                                  *)
(***************************************************************************)

\* What a query may do to the session: "ok" opens it first if it was closed,
\* "error" is an error of the server, "lost" closes it (update_sql_from_errno)
\* or could not open it.
Answers == {"ok", "error", "lost"}

Cost(answer) == IF answer = "ok" THEN 0 ELSE 1

\* handle_error and is_connection_broken of mysql.c, handle_error of pgsql.c: a lost
\* connection is an error of its own.  sqlite3.c has none, once the file is open.
TellsLost == backend # "sqlite3"

\* What comes of opening a session: it is open, or it is not, in which case it may be
\* left to nobody.
Opened == [ok |-> TRUE, left |-> FALSE]
Closed == [ok |-> FALSE, left |-> FALSE]
Left   == [ok |-> FALSE, left |-> TRUE]

\* sql_open of mysql.c: a session that could not connect is closed; whether the
\* server took SET SESSION is not looked at.
OpenMysql == {Opened, Closed}

\* sql_open of pgsql.c: so is a connection that is bad, but not one on which SET
\* DATESTYLE failed.
OpenPgsql == {Opened, Closed, Left}

\* sql_open of sqlite3.c: no file, or the session is closed when the file or the
\* function REGEXP is refused.
OpenSqlite == {Opened, Closed}

\* requiemdb_sql_connect and _requiemdb_plugin_sql_open.
OpenSession ==
  CASE backend = "mysql"   -> OpenMysql
    [] backend = "pgsql"   -> OpenPgsql
    [] backend = "sqlite3" -> OpenSqlite

\* The library forgets a session it was given with an error.
Forget(open) == misuse' = IF open.left THEN misuse \cup {"left open"} ELSE misuse

\* requiemdb_sql_query: a session that was closed is opened first.
Query(answer) ==
  /\ \E open \in IF connected THEN {Opened} ELSE OpenSession :
       /\ IF open.ok THEN answer = "lost" => TellsLost ELSE answer = "lost"
       /\ Forget(open)
  /\ faults + Cost(answer) <= MaxFaults
  /\ faults' = faults + Cost(answer)
  /\ connected' = (answer # "lost")
  /\ errno' = (answer = "error")

\* sql_query of mysql.c: the rows are stored with the client; a result without
\* rows is freed and 0 returned.
MysqlReturns(rows) == rows # <<>>

\* sql_query of pgsql.c: so is a PGresult without tuples.
PgsqlReturns(rows) == rows # <<>>

\* sql_query and sql_read_row of sqlite3.c: the rows of a SELECT are copied into a
\* list, which is returned, empty or not.
SqliteReturns(rows) == TRUE

\* A SELECT that found these rows returns 1, and a result to fetch them from.
HasResult(rows) ==
  CASE backend = "mysql"   -> MysqlReturns(rows)
    [] backend = "pgsql"   -> PgsqlReturns(rows)
    [] backend = "sqlite3" -> SqliteReturns(rows)

-----------------------------------------------------------------------------
(***************************************************************************)
(* The database object: requiemdb_new, requiemdb_destroy                   *)
(***************************************************************************)

\* classic_check_schema_version.
check_schema_version(v) == v = 0

\* requiemdb_autodetect_format, once the _format table has been read: the format
\* plugin it names is loaded and takes the version it gives.
FormatAccepted(row) ==
  /\ row.name = "classic" /\ "format" \in loaded
  /\ check_schema_version(row.version)

\* requiemdb_sql_new and requiemdb_new without a format name.  On failure the
\* caller destroys the sql object.
NewDatabase(t, answer) ==
  /\ pc[t] = "idle" /\ maker = NoThread /\ Start(t)
  /\ faults + Cost(answer) <= MaxFaults
  /\ faults' = faults + Cost(answer)
  /\ \E open \in IF "sql" \in loaded THEN OpenSession ELSE {Closed} :
       LET ok == open.ok /\ answer = "ok" /\ FormatAccepted(format)
       IN  /\ "sql" \in loaded => (answer = "ok" => open.ok)
           /\ maker' = (IF ok THEN t ELSE NoThread) /\ connected' = ok
           /\ Forget(open)
  /\ UNCHANGED <<stored, errno>>
  /\ UNCHANGED <<backend, format, libVars, pc, result, got, batch, turns>>

\* requiemdb_destroy, once nobody uses the object: the session is closed.
DestroyDatabase(t) ==
  /\ maker = t /\ pc[t] = "idle"
  /\ \A u \in Threads : pc[u] \in {"out", "idle"} /\ result[u] = NoResult
  /\ maker' = NoThread
  /\ connected' = FALSE /\ errno' = FALSE
  /\ UNCHANGED <<backend, format, stored, libVars, threadVars, faults, misuse>>

-----------------------------------------------------------------------------
(***************************************************************************)
(* Fetching a row, without the mutex                                       *)
(***************************************************************************)

AtEnd(res) == res.cursor >= RowCount(res)

\* sql_fetch_row of pgsql.c: a row number in the PGresult.
FetchPgsql(res) ==
  IF ~AtEnd(res) THEN {[ret |-> 1, cursor |-> res.cursor + 1]} ELSE {[ret |-> 0, cursor |-> res.cursor]}

\* Mutant of FetchSqlite: the row is looked for from the start of the list.
FetchSqliteFirst(res) ==
  IF AtEnd(res) THEN {[ret |-> 0, cursor |-> 0]} ELSE {[ret |-> 1, cursor |-> 1]}

\* sql_fetch_row of sqlite3.c: the next row of a list, or NULL, after which the
\* list starts again.
FetchSqlite(res) ==
  IF AtEnd(res) THEN {[ret |-> 0, cursor |-> 0]} ELSE {[ret |-> 1, cursor |-> res.cursor + 1]}

\* sql_fetch_row of mysql.c: mysql_store_result keeps the rows with the client,
\* but their end is told from an error by mysql_errno of the SESSION, whatever
\* the last query on it was; of a closed one it may say anything.
FetchMysql(res) ==
  IF ~AtEnd(res) THEN {[ret |-> 1, cursor |-> res.cursor + 1]}
  ELSE {[ret |-> n, cursor |-> res.cursor] :
          n \in IF ~connected THEN {0, -1} ELSE IF errno THEN {-1} ELSE {0}}

\* _requiemdb_plugin_sql_fetch_row.
FetchRow(res) ==
  IF backend = "pgsql" THEN FetchPgsql(res)
  ELSE IF backend = "sqlite3" THEN FetchSqlite(res) ELSE FetchMysql(res)

\* Mutant of UpdateFromFetch: the plugin reports a broken connection from
\* fetch_row as it does from query.
UpdateFromFetchBroken(f) ==
  IF f.ret < 0
  THEN /\ connected' = FALSE
       /\ misuse' = IF connected THEN misuse ELSE misuse \cup {"closed twice"}
  ELSE UNCHANGED <<connected, misuse>>

\* requiemdb_sql_table_fetch_row, then update_sql_from_errno: no plugin reports a
\* CONNECTION error from fetch_row, so the session is left alone.  The end of a
\* MySQL result asks the session all the same.
UpdateFromFetch(f) ==
  /\ UNCHANGED connected
  /\ misuse' = IF backend = "mysql" /\ f.ret <= 0 /\ ~connected
               THEN misuse \cup {"closed session asked"} ELSE misuse

\* Mutant of FieldPgsql: the row before the current one.
FieldPgsqlPrevious(res, row) == res.rows[IF res.cursor = 1 THEN 1 ELSE res.cursor - 1]

\* sql_fetch_field of pgsql.c takes no notice of the row it is given: it reads the
\* current one.
FieldPgsql(res, row) == res.rows[res.cursor]

\* sql_fetch_field of mysql.c: the row is given, but the length is the one of the
\* row fetched last.
FieldMysql(res, row) == res.rows[row]

\* sql_fetch_field of sqlite3.c.
FieldSqlite(res, row) == res.rows[row]

\* requiemdb_sql_row_fetch_field.
FetchField(res, row) ==
  CASE backend = "mysql"   -> FieldMysql(res, row)
    [] backend = "pgsql"   -> FieldPgsql(res, row)
    [] backend = "sqlite3" -> FieldSqlite(res, row)

\* classic_get_next_message_ident on the result of t: a row, then its only field.
GetNext(t, f) ==
  /\ f \in FetchRow(result[t])
  /\ UpdateFromFetch(f)
  /\ result' = [result EXCEPT ![t].cursor = f.cursor]

\* The ident it stores for its caller.
NewIdent(t, f) == FetchField(result'[t], f.cursor)

-----------------------------------------------------------------------------
(***************************************************************************)
(* Results                                                                 *)
(***************************************************************************)

\* Thread t may call the database object.
Using(t) == pc[t] = "idle" /\ maker # NoThread

\* requiemdb_get_message_idents, and requiemdb_get_values alike: a result is
\* there for the caller when the query returned one, and freed when it did not.
\* The rows come in the order of the creation times, or in any if none is asked for.
GetIdents(t, answer) ==
  /\ Using(t) /\ result[t] = NoResult /\ Start(t)
  /\ Query(answer)
  /\ \E rows \in SetToSeqs(stored) :
       IF answer = "ok" /\ HasResult(rows)
       THEN result' = [result EXCEPT ![t] = Result(rows)] /\ Goto(t, "iterate")
       ELSE UNCHANGED <<result, pc>>
  /\ UNCHANGED <<dbVars, libVars, stored, got, batch, turns>>

\* requiemdb_result_idents_get_next: the loop of a client goes on while it is 1.
NextIdent(t) ==
  /\ pc[t] = "iterate"
  /\ \E f \in FetchRow(result[t]) :
       /\ GetNext(t, f)
       /\ got' = IF f.ret = 1 THEN [got EXCEPT ![t] = Append(@, NewIdent(t, f))] ELSE got
       /\ Goto(t, IF f.ret = 1 THEN "iterate" ELSE "ended")
  /\ UNCHANGED <<dbVars, libVars, stored, errno, faults, batch, turns, calls>>

\* requiemdb_result_idents_destroy, at the end or before it: no plugin needs the
\* session to free the rows.
DestroyResult(t) ==
  /\ pc[t] \in {"iterate", "ended"}
  /\ result' = [result EXCEPT ![t] = NoResult]
  /\ got' = [got EXCEPT ![t] = <<>>]
  /\ batch' = [batch EXCEPT ![t] = {}]
  /\ Goto(t, "idle")
  /\ UNCHANGED <<dbVars, libVars, serverVars, turns, calls, misuse>>

\* requiemdb_delete_alert_from_result_idents, which leaves it to the function of the
\* format plugin, which classic has.  get_string_from_result_ident takes
\* the idents that are left one by one, and any answer but 0 for one: an error
\* adds the ident it had before once more.
StartDelete(t) ==
  /\ pc[t] = "iterate" /\ Start(t)
  /\ Goto(t, "collect")
  /\ UNCHANGED <<dbVars, libVars, serverVars, result, got, batch, turns, misuse>>

CollectIdent(t) ==
  /\ pc[t] = "collect"
  /\ \E f \in FetchRow(result[t]) :
       /\ GetNext(t, f)
       /\ turns' = [turns EXCEPT ![t] = IF f.ret = 0 THEN 0 ELSE 1 - @]
       /\ batch' = IF f.ret = 1 THEN [batch EXCEPT ![t] = @ \cup {NewIdent(t, f)}] ELSE batch
       /\ Goto(t, IF f.ret # 0 THEN "collect" ELSE IF batch[t] = {} THEN "ended" ELSE "delete")
  /\ UNCHANGED <<dbVars, libVars, stored, errno, faults, got, calls>>

\* do_delete_alert: the DELETEs of the idents collected, in one transaction.
DeleteCollected(t, answer) ==
  /\ pc[t] = "delete"
  /\ Query(answer)
  /\ stored' = IF answer = "ok" THEN stored \ batch[t] ELSE stored
  /\ Goto(t, "ended")
  /\ UNCHANGED <<dbVars, libVars, result, got, batch, turns, calls>>

\* Any other call that queries: a message is read or inserted, by a thread that
\* may be in the middle of a result.
OtherQuery(t, answer) ==
  /\ pc[t] = "iterate" \/ Using(t)
  /\ Start(t)
  /\ Query(answer)
  /\ UNCHANGED <<dbVars, libVars, stored, pc, result, got, batch, turns>>

-----------------------------------------------------------------------------
Init ==
  /\ backend \in Backends /\ format \in FormatRows
  /\ stored \in {{}, Idents}
  /\ refcount = 0 /\ loaded = {} /\ maker = NoThread
  /\ connected = FALSE /\ errno = FALSE
  /\ pc = [t \in Threads |-> "out"]
  /\ owed = [t \in Threads |-> 0]
  /\ result = [t \in Threads |-> NoResult]
  /\ got = [t \in Threads |-> <<>>]
  /\ batch = [t \in Threads |-> {}]
  /\ turns = [t \in Threads |-> 0]
  /\ calls = [t \in Threads |-> 0]
  /\ faults = 0 /\ misuse = {}

\* What a thread in the middle of a call does next.
Continue(t) ==
  \/ CollectIdent(t)
  \/ \E answer \in Answers : DeleteCollected(t, answer)

Invoke(t) ==
  \/ InitLibrary(t)
  \/ DeinitLibrary(t)
  \/ DestroyDatabase(t)
  \/ \E answer \in Answers : NewDatabase(t, answer)
  \/ \E answer \in Answers : GetIdents(t, answer)
  \/ \E answer \in Answers : OtherQuery(t, answer)
  \/ NextIdent(t)
  \/ StartDelete(t)
  \/ DestroyResult(t)

Next == \E t \in Threads : Continue(t) \/ Invoke(t)

Spec == Init /\ [][Next]_vars

\* A thread inside a call of the library keeps running.
FairSpec == Spec /\ \A t \in Threads : WF_vars(Continue(t))

-----------------------------------------------------------------------------
(***************************************************************************)
(* Properties                                                              *)
(***************************************************************************)

\* While a database object exists its plugins are loaded, whatever the other
\* users of the library do with requiemdb_init and requiemdb_deinit, and whether
\* they fail or not; and the format plugin is the one of the database and knows
\* the version of its schema.
DatabaseUsable ==
  maker # NoThread => loaded = Plugins /\ format.name = "classic" /\ format.version = 0

\* Every row of a result is taken once, in order: requiemdb_result_idents_get_next
\* hands out the first ones, a deletion from the result takes all that are left,
\* and none is missing at the end, although other threads delete messages and
\* lose the connection meanwhile.
RowsTakenOnce ==
  \A t \in Threads :
    LET n == Len(got[t]) IN
    /\ got[t] = SubSeq(result[t].rows, 1, n)
    /\ batch[t] \subseteq ToSet(SubSeq(result[t].rows, n + 1, RowCount(result[t])))
    /\ pc[t] \in {"ended", "delete"} => ToSet(got[t]) \cup batch[t] = ToSet(result[t].rows)

\* No session is closed twice, none is used after it was closed and none is left
\* open, except that the end of a MySQL result asks for the error number of a session
\* that may be closed, and that PostgreSQL keeps one that refused SET DATESTYLE.
SessionsSafe ==
  misuse \subseteq CASE backend = "mysql"   -> {"closed session asked"}
                     [] backend = "pgsql"   -> {"left open"}
                     [] backend = "sqlite3" -> {}

\* A deletion from a result stops collecting idents, unless the last query of the
\* session failed, which MySQL reports as an error of every fetch that follows.
DeletionEnds ==
  \A t \in Threads :
    pc[t] = "collect" ~> pc[t] # "collect" \/ (backend = "mysql" /\ (errno \/ ~connected))

\* requiemdb_delete_alert_from_result_idents, "Returns: the number of alert
\* deleted on success, or a negative value if an error occur": it returns.
DeletionReturns == \A t \in Threads : pc[t] = "collect" ~> pc[t] # "collect"
=============================================================================
