------------------------------ MODULE RequiemdbSql ------------------------------
(***************************************************************************)
(* The sql object of librequiemdb (src/src/requiemdb-sql.c), the           *)
(* transaction entry points of the database object (src/src/requiemdb.c)   *)
(* and the threads that share them.                                        *)
(*                                                                         *)
(* One requiemdb_sql_t holds a connection to the server, two status bits   *)
(* (CONNECTED, TRANSACTION), the flag internal_transaction_disabled and a  *)
(* recursive mutex.  A transaction keeps the mutex from BEGIN to COMMIT or *)
(* ROLLBACK; everything else takes it for one query only.  The flag, and   *)
(* the TRANSACTION bit when a transaction is closed, are read WITHOUT it.  *)
(*                                                                         *)
(* A thread inserts, deletes or reads messages through the format plugin:  *)
(* an insert or a delete is an internal transaction around NStatements     *)
(* queries, a read is NStatements queries and no transaction.  A thread of *)
(* UserThreads also opens transactions of its own                          *)
(* (requiemdb_transaction_start), which turn the internal ones off.        *)
(***************************************************************************)
EXTENDS Naturals

CONSTANTS
  Threads,      \* threads of the process that share the sql object
  NoThread,     \* owner of the mutex when it is free
  UserThreads,  \* the threads that call requiemdb_transaction_start
  Messages,     \* idents of IDMEF messages
  Preloaded,    \* the messages that are stored when the object is created
  NStatements,  \* queries that one message costs: one row each
  Unchecked,    \* INSERTs whose return code the format plugin drops
  Unpaired,     \* do user threads also start twice, or end without a start?
  Backend,      \* SQL plugin in use
  MaxFaults,    \* bound on the errors the server and the network inject
  MaxOps        \* bound on the calls a thread makes

ASSUME ThreadsAssumption ==
  /\ NoThread \notin Threads
  /\ UserThreads \subseteq Threads
ASSUME MessagesAssumption ==
  /\ Messages # {}
  /\ Preloaded \subseteq Messages
  /\ NStatements \in Nat \ {0}
  /\ Unchecked \subseteq 1..NStatements
ASSUME BackendAssumption == Backend \in {"mysql", "pgsql", "sqlite3"}
ASSUME UnpairedAssumption == Unpaired \in BOOLEAN
ASSUME BoundsAssumption == MaxFaults \in Nat /\ MaxOps \in Nat

VARIABLES
  connected,   \* the CONNECTED bit of status
  transaction, \* the TRANSACTION bit of status
  session,     \* what the server knows of the session
  owner,     \* thread that holds the recursive mutex, or NoThread
  depth,     \* how many times the owner has locked it
  disabled,  \* internal_transaction_disabled
  life,      \* "running", "destroyed" or, after abort(), "aborted"
  pc,        \* where each thread is
  level,     \* "internal" or "user": who called _requiemdb_sql_transaction_*
  op,        \* the call each thread is in: "insert", "delete" or "get"
  msg,       \* the message it is about
  step,      \* the query it has reached
  seen,      \* observation: the rows its current read has found
  hasError,  \* threads with a verbose error recorded (_requiem_thread_get_error)
  calls,     \* calls each thread has made
  faults,    \* errors injected so far
  userTx,    \* observation: threads inside a transaction of their own
  failed,    \* observation: those of them that have seen an error in it
  batch,     \* observation: messages a thread's own transaction has inserted
  outcome,   \* observation: what the caller of the insert of a message was told
  inDoubt,   \* observation: messages whose COMMIT was answered by an error
  erased     \* observation: messages some thread was asked to delete

sqlVars    == <<connected, transaction, session, owner, depth, disabled, life>>
threadVars == <<pc, level, op, msg, step, seen, hasError, calls>>
ghostVars  == <<userTx, failed, batch, outcome, inDoubt, erased>>
vars       == <<connected, transaction, session, owner, depth, disabled, life,
                pc, level, op, msg, step, seen, hasError, calls, faults, userTx, failed, batch,
                outcome, inDoubt, erased>>

-----------------------------------------------------------------------------
(***************************************************************************)
(* Values                                                                  *)
(***************************************************************************)

Statements == 1..NStatements
Rows       == Messages \X Statements
RowsOf(m)  == {m} \X Statements

Ops      == {"insert", "delete", "get"}
Commands == {"BEGIN", "COMMIT", "ROLLBACK"}
PcValues == {"idle", "start", "begin", "disable", "query", "end", "check_end",
             "commit", "abort", "check_abort", "rollback", "enable"}
Outcomes == {"none", "busy", "ok", "error"}

\* The server's view of a session.  tx: outside a transaction, inside one, or
\* inside one that it refuses to continue.  work: the rows the session sees.
\* stored: the rows that are committed.
Sessions == [tx     : {"none", "open", "failed"},
             work   : SUBSET Rows,
             stored : SUBSET Rows]

Session(x, w, d) == [tx |-> x, work |-> w, stored |-> d]

\* Outside any transaction; what the session sees is what is committed.
Settled(rows) == Session("none", rows, rows)

-----------------------------------------------------------------------------
(***************************************************************************)
(* The server (external: seen through the SQL plugins).  A query is a      *)
(* command, or an operation of Ops on a row.                               *)
(***************************************************************************)

\* An INSERT adds its row, a DELETE takes it away, a SELECT changes nothing.
Effect(kind, row, rows) ==
  IF kind = "insert" THEN rows \cup {row}
  ELSE IF kind = "delete" THEN rows \ {row}
  ELSE rows

\* COMMIT keeps the work of an open transaction; a refused one is rolled back.
Committed(s) == Settled(IF s.tx = "open" THEN s.work ELSE s.stored)

\* BEGIN inside a transaction commits the previous one with MySQL and only
\* draws a warning from PostgreSQL.
Begun(s) ==
  IF s.tx # "none" /\ Backend # "mysql" THEN s
  ELSE Session("open", Committed(s).stored, Committed(s).stored)

\* Outside a transaction every query is committed at once.
Changed(s, kind, row) ==
  IF s.tx = "open" THEN Session("open", Effect(kind, row, s.work), s.stored)
  ELSE Settled(Effect(kind, row, s.stored))

\* A query the server carries out.
Served(s, kind, row) ==
  IF kind = "BEGIN" THEN Begun(s)
  ELSE IF kind = "COMMIT" THEN Committed(s)
  ELSE IF kind = "ROLLBACK" THEN Settled(s.stored)
  ELSE Changed(s, kind, row)

\* sqlite3 refuses a BEGIN inside a transaction and a COMMIT or a ROLLBACK
\* outside one.  After an error PostgreSQL refuses everything but the end of the
\* transaction.
Refused(s, kind) ==
  \/ Backend = "sqlite3" /\ kind \in Commands /\ (kind = "BEGIN" <=> s.tx # "none")
  \/ kind \in Ops \cup {"BEGIN"} /\ s.tx = "failed"

\* A query the server answers with an error.  PostgreSQL then refuses the rest
\* of the transaction.  When COMMIT or ROLLBACK fails the transaction is gone,
\* except with sqlite3, where SQLITE_BUSY leaves it open.
Errored(s, kind) ==
  IF kind \in {"COMMIT", "ROLLBACK"} /\ Backend # "sqlite3" THEN Settled(s.stored)
  ELSE IF Backend = "pgsql" /\ s.tx # "none" THEN Session("failed", s.work, s.stored)
  ELSE s

\* The session is lost together with the answer to the query.  The server drops
\* the open transaction, unless it had already carried out the query that ends it.
Dropped(s, kind, row) ==
  {Settled(s.stored)} \cup
    IF Refused(s, kind) THEN {} ELSE {Settled(Served(s, kind, row).stored)}

-----------------------------------------------------------------------------
(***************************************************************************)
(* requiemdb_sql_query.  An answer says what becomes of the session and of *)
(* the two status bits, whether the call succeeded, and how many faults    *)
(* that took.                                                              *)
(***************************************************************************)

Answer(s, c, b, ok, n) ==
  [session |-> s, connected |-> c, transaction |-> b, ok |-> ok, faults |-> n]

\* The plugin's query function, then update_sql_from_errno: a lost connection is
\* closed and CONNECTED, only CONNECTED, is cleared.  sqlite3 never reports one.
PluginQuery(s, b, kind, row) ==
  {IF Refused(s, kind) THEN Answer(s, TRUE, b, FALSE, 0)
                       ELSE Answer(Served(s, kind, row), TRUE, b, TRUE, 0),
   Answer(Errored(s, kind), TRUE, b, FALSE, 1)} \cup
  IF Backend = "sqlite3" THEN {}
  ELSE {Answer(d, FALSE, b, FALSE, 1) : d \in Dropped(s, kind, row)}

\* A query on a closed connection first opens it, which may fail.
\* requiemdb_sql_connect ASSIGNS the CONNECTED bit to status, so the TRANSACTION
\* bit does not survive a reconnection.
Reconnect(kind, row) ==
  {Answer(session, FALSE, transaction, FALSE, 1)} \cup
  PluginQuery(Settled(session.stored), FALSE, kind, row)

\* assert_connected, then the query.
Query(kind, row) ==
  IF connected THEN PluginQuery(session, transaction, kind, row)
               ELSE Reconnect(kind, row)

-----------------------------------------------------------------------------
(***************************************************************************)
(* The mutex                                                               *)
(***************************************************************************)

\* gl_recursive_lock_lock does not block the thread that already holds it.
CanLock(t) == owner \in {NoThread, t}

\* Mutant of Acquire: the lock is let go when BEGIN succeeds as well.
AcquireForgotten(t) == UNCHANGED <<owner, depth>>

Acquire(t) == owner' = t /\ depth' = depth + 1

\* gl_recursive_lock_unlock calls abort() for a thread that does not hold it.
Release(t) ==
  IF owner = t
  THEN /\ depth' = depth - 1
       /\ owner' = IF depth = 1 THEN NoThread ELSE t
       /\ UNCHANGED life
  ELSE /\ life' = "aborted"
       /\ UNCHANGED <<owner, depth>>

KeepLock == UNCHANGED <<owner, depth, life>>

-----------------------------------------------------------------------------
(***************************************************************************)
(* Threads                                                                 *)
(***************************************************************************)

\* Thread t has reached label, in a process that is still running.
At(t, label) == life = "running" /\ pc[t] = label

Goto(t, label) == pc' = [pc EXCEPT ![t] = label]

\* Thread t gets the answer r to its query; a failure leaves a verbose error.
Ask(t, kind, r) ==
  /\ r \in Query(kind, <<msg[t], step[t]>>)
  /\ faults + r.faults <= MaxFaults
  /\ faults' = faults + r.faults
  /\ connected' = r.connected
  /\ session' = r.session
  /\ hasError' = IF r.ok THEN hasError ELSE hasError \cup {t}

\* The call of thread t on its message returns to its caller.  Inside a
\* transaction of the caller's own the answer is provisional, and an error
\* obliges the caller to abort that transaction.
Return(t, ok) ==
  /\ Goto(t, "idle")
  /\ failed' = IF ok \/ t \notin userTx THEN failed ELSE failed \cup {t}
  /\ batch' = IF ok /\ op[t] = "insert" /\ t \in userTx
              THEN [batch EXCEPT ![t] = @ \cup {msg[t]}] ELSE batch
  /\ outcome' = IF op[t] = "insert" /\ (t \notin userTx \/ ~ok)
                THEN [outcome EXCEPT ![msg[t]] = IF ok THEN "ok" ELSE "error"]
                ELSE outcome
  /\ UNCHANGED <<userTx, erased>>

\* A caller asks for a message to be inserted, deleted or read.  A fresh
\* message has no ident yet; only a message that is in the database can be
\* deleted or read.
Call(t, o, m) ==
  /\ At(t, "idle") /\ calls[t] < MaxOps /\ t \notin failed
  /\ IF o = "insert" THEN m \notin Preloaded /\ outcome[m] = "none"
                     ELSE RowsOf(m) \cap session.stored # {}
  /\ Goto(t, IF o = "get" THEN "query" ELSE "start")
  /\ op'      = [op EXCEPT ![t] = o]
  /\ msg'     = [msg EXCEPT ![t] = m]
  /\ step'    = [step EXCEPT ![t] = 1]
  /\ seen'    = [seen EXCEPT ![t] = {}]
  /\ level'   = [level EXCEPT ![t] = "internal"]
  /\ calls'   = [calls EXCEPT ![t] = @ + 1]
  /\ outcome' = IF o = "insert" THEN [outcome EXCEPT ![m] = "busy"] ELSE outcome
  /\ erased'  = IF o = "delete" THEN erased \cup {m} ELSE erased
  /\ UNCHANGED <<sqlVars, hasError, faults, userTx, failed, batch, inDoubt>>

\* Mutant of TransactionStart: no transaction is opened.
TransactionStartSkipped(t) ==
  /\ At(t, "start")
  /\ Goto(t, "query")
  /\ UNCHANGED <<sqlVars, level, op, msg, step, seen, hasError, calls, faults, ghostVars>>

\* requiemdb_sql_transaction_start: the flag is read without the mutex.
TransactionStart(t) ==
  /\ At(t, "start")
  /\ Goto(t, IF disabled THEN "query" ELSE "begin")
  /\ UNCHANGED <<sqlVars, level, op, msg, step, seen, hasError, calls, faults, ghostVars>>

\* Mutant of StartFails: the error path forgets to unlock.
StartFailsLocked(t) ==
  /\ Acquire(t)
  /\ UNCHANGED life
  /\ IF level[t] = "user" THEN Goto(t, "idle") /\ UNCHANGED ghostVars
                          ELSE Return(t, FALSE) /\ UNCHANGED inDoubt

\* The failing exits of _requiemdb_sql_transaction_start: the mutex is let go.
StartFails(t) ==
  /\ KeepLock
  /\ IF level[t] = "user" THEN Goto(t, "idle") /\ UNCHANGED ghostVars
                          ELSE Return(t, FALSE) /\ UNCHANGED inDoubt

\* _requiemdb_sql_transaction_start, called while a transaction is open.
AlreadyInTransaction(t) ==
  /\ At(t, "begin") /\ CanLock(t)
  /\ transaction
  /\ StartFails(t)
  /\ UNCHANGED <<connected, transaction, session, disabled, level, op, msg, step, seen, hasError, calls, faults>>

\* _requiemdb_sql_transaction_start: BEGIN, and the mutex is kept.
BeginTransaction(t) ==
  /\ At(t, "begin") /\ CanLock(t)
  /\ ~transaction
  /\ \E r \in Query("BEGIN", <<msg[t], step[t]>>) :
       /\ Ask(t, "BEGIN", r)
       /\ \/ /\ r.ok
             /\ transaction' = TRUE
             /\ Acquire(t)
             /\ Goto(t, IF level[t] = "user" THEN "disable" ELSE "query")
             /\ UNCHANGED <<life, ghostVars>>
          \/ /\ ~r.ok
             /\ transaction' = r.transaction
             /\ StartFails(t)
  /\ UNCHANGED <<disabled, level, op, msg, step, seen, calls>>

\* Mutant of NextStatement: the loop runs past its last query.
NextStatementUnbounded(n) == n + 1

\* The next query of the loop that t is in.
NextStatement(n) == IF n < NStatements THEN n + 1 ELSE n

\* Mutant of Tolerated: no return code of an insert or a delete is looked at.
ToleratedAlways(t) == op[t] # "get"

\* The plugin drops the return code of the query that t has reached.
Tolerated(t) == op[t] = "insert" /\ step[t] \in Unchecked

\* One query of an insert, a delete or a read.  A failure ends the call, unless
\* the plugin drops the return code of that INSERT.
MessageQuery(t) ==
  /\ At(t, "query") /\ CanLock(t)
  /\ \E r \in Query(op[t], <<msg[t], step[t]>>) :
       /\ Ask(t, op[t], r)
       /\ transaction' = r.transaction
       /\ seen' = IF r.ok /\ op[t] = "get" /\ <<msg[t], step[t]>> \in r.session.work
                  THEN [seen EXCEPT ![t] = @ \cup {step[t]}] ELSE seen
       /\ \/ /\ r.ok \/ Tolerated(t)
             /\ step' = [step EXCEPT ![t] = NextStatement(@)]
             /\ IF step[t] < NStatements THEN UNCHANGED <<pc, ghostVars>>
                ELSE IF op[t] = "get" THEN Return(t, TRUE) /\ UNCHANGED inDoubt
                ELSE Goto(t, "end") /\ UNCHANGED ghostVars
          \/ /\ ~r.ok /\ ~Tolerated(t)
             /\ IF op[t] = "get" THEN Return(t, FALSE) /\ UNCHANGED inDoubt
                ELSE Goto(t, "abort") /\ UNCHANGED ghostVars
             /\ UNCHANGED step
  /\ KeepLock
  /\ UNCHANGED <<disabled, level, op, msg, calls>>

\* requiemdb_sql_transaction_end: the flag is read without the mutex.
TransactionEnd(t) ==
  /\ At(t, "end")
  /\ IF disabled THEN Return(t, TRUE) /\ UNCHANGED inDoubt
                 ELSE Goto(t, "check_end") /\ UNCHANGED ghostVars
  /\ UNCHANGED <<sqlVars, level, op, msg, step, seen, hasError, calls, faults>>

\* requiemdb_sql_transaction_abort.
TransactionAbort(t) ==
  /\ At(t, "abort")
  /\ IF disabled THEN Return(t, FALSE) /\ UNCHANGED inDoubt
                 ELSE Goto(t, "check_abort") /\ UNCHANGED ghostVars
  /\ UNCHANGED <<sqlVars, level, op, msg, step, seen, hasError, calls, faults>>

\* A thread leaves _requiemdb_sql_transaction_end or _abort: a call on a message
\* returns; a user transaction has settled, in good (ok) or not, and the flag is
\* enabled next.  doubt: it was COMMIT itself that failed.
Leave(t, ok, doubt) ==
  IF level[t] = "internal"
  THEN /\ Return(t, ok)
       /\ inDoubt' = IF doubt /\ op[t] = "insert" THEN inDoubt \cup {msg[t]} ELSE inDoubt
  ELSE /\ Goto(t, "enable")
       /\ outcome' = [m \in Messages |->
                        IF m \in batch[t] THEN IF ok THEN "ok" ELSE "error"
                                          ELSE outcome[m]]
       /\ inDoubt' = IF doubt THEN inDoubt \cup batch[t] ELSE inDoubt
       /\ UNCHANGED <<userTx, failed, batch, erased>>

\* _requiemdb_sql_transaction_end and _abort look at the TRANSACTION bit without
\* the mutex.  When it is clear they return NOT_IN_TRANSACTION and do NOT unlock.
NotInTransaction(t) ==
  /\ At(t, "check_end") \/ At(t, "check_abort")
  /\ ~transaction
  /\ Leave(t, FALSE, FALSE)
  /\ UNCHANGED <<sqlVars, level, op, msg, step, seen, hasError, calls, faults>>

\* The bit is set: _end goes on to COMMIT, _abort clears the bit first.
InTransaction(t) ==
  /\ At(t, "check_end") \/ At(t, "check_abort")
  /\ transaction
  /\ IF pc[t] = "check_end"
     THEN Goto(t, "commit") /\ UNCHANGED transaction
     ELSE Goto(t, "rollback") /\ transaction' = FALSE
  /\ UNCHANGED <<connected, session, owner, depth, disabled, life, level, op, msg, step, seen, hasError,
                 calls, faults, ghostVars>>

\* Mutant of CommitTransaction: the answer to COMMIT is not looked at.
CommitTransactionUnchecked(t) ==
  /\ At(t, "commit") /\ CanLock(t)
  /\ \E r \in Query("COMMIT", <<msg[t], step[t]>>) :
       /\ Ask(t, "COMMIT", r)
       /\ transaction' = FALSE
       /\ Release(t)
       /\ Leave(t, TRUE, FALSE)
  /\ UNCHANGED <<disabled, level, op, msg, step, seen, calls>>

\* COMMIT, clear the bit whatever the answer, unlock.
CommitTransaction(t) ==
  /\ At(t, "commit") /\ CanLock(t)
  /\ \E r \in Query("COMMIT", <<msg[t], step[t]>>) :
       /\ Ask(t, "COMMIT", r)
       /\ transaction' = FALSE
       /\ Release(t)
       /\ Leave(t, r.ok, ~r.ok)
  /\ UNCHANGED <<disabled, level, op, msg, step, seen, calls>>

\* Mutant of NoRollback: a recorded error is enough to skip the ROLLBACK.
NoRollbackEver(t) ==
  /\ At(t, "rollback")
  /\ t \in hasError
  /\ Release(t)
  /\ Leave(t, FALSE, FALSE)
  /\ UNCHANGED <<connected, transaction, session, disabled, level, op, msg, step, seen, hasError, calls, faults>>

\* _requiemdb_sql_transaction_abort: no ROLLBACK is sent when the error that led
\* here closed the connection.
NoRollback(t) ==
  /\ At(t, "rollback")
  /\ t \in hasError /\ ~connected
  /\ Release(t)
  /\ Leave(t, FALSE, FALSE)
  /\ UNCHANGED <<connected, transaction, session, disabled, level, op, msg, step, seen, hasError, calls, faults>>

\* Mutant of RollbackTransaction: the failed transaction is committed.
RollbackTransactionCommits(t) ==
  /\ At(t, "rollback") /\ CanLock(t)
  /\ ~(t \in hasError /\ ~connected)
  /\ \E r \in Query("COMMIT", <<msg[t], step[t]>>) :
       /\ Ask(t, "COMMIT", r)
       /\ transaction' = r.transaction
       /\ Release(t)
       /\ Leave(t, FALSE, FALSE)
  /\ UNCHANGED <<disabled, level, op, msg, step, seen, calls>>

\* ROLLBACK, then unlock.
RollbackTransaction(t) ==
  /\ At(t, "rollback") /\ CanLock(t)
  /\ ~(t \in hasError /\ ~connected)
  /\ \E r \in Query("ROLLBACK", <<msg[t], step[t]>>) :
       /\ Ask(t, "ROLLBACK", r)
       /\ transaction' = r.transaction
       /\ Release(t)
       /\ Leave(t, FALSE, FALSE)
  /\ UNCHANGED <<disabled, level, op, msg, step, seen, calls>>

\* requiemdb_transaction_start, called by a thread outside its own transaction
\* or, Unpaired, inside it.
UserStart(t) ==
  /\ t \in UserThreads
  /\ At(t, "idle") /\ calls[t] < MaxOps
  /\ t \in userTx => Unpaired
  /\ Goto(t, "begin")
  /\ level' = [level EXCEPT ![t] = "user"]
  /\ calls' = [calls EXCEPT ![t] = @ + 1]
  /\ UNCHANGED <<sqlVars, op, msg, step, seen, hasError, faults, ghostVars>>

\* requiemdb_transaction_start disables internal transactions once it has BEGUN.
DisableInternal(t) ==
  /\ At(t, "disable")
  /\ disabled' = TRUE
  /\ Goto(t, "idle")
  /\ userTx' = userTx \cup {t}
  /\ UNCHANGED <<connected, transaction, session, owner, depth, life, level, op, msg, step, seen, hasError, calls,
                 faults, failed, batch, outcome, inDoubt, erased>>

\* requiemdb_transaction_end or, mandatory after an error, requiemdb_transaction_abort
\* in a transaction of the thread's own or, Unpaired, outside.
UserFinish(t, label) ==
  /\ t \in UserThreads
  /\ At(t, "idle")
  /\ t \notin userTx => Unpaired /\ calls[t] < MaxOps
  /\ t \in failed => label = "check_abort"
  /\ Goto(t, label)
  /\ level' = [level EXCEPT ![t] = "user"]
  /\ calls' = [calls EXCEPT ![t] = IF t \in userTx THEN @ ELSE @ + 1]
  /\ UNCHANGED <<sqlVars, op, msg, step, seen, hasError, faults, ghostVars>>

\* Mutant of EnableInternal: internal transactions stay disabled.
EnableInternalForgotten(t) ==
  /\ At(t, "enable")
  /\ Goto(t, "idle")
  /\ userTx' = userTx \ {t}
  /\ failed' = failed \ {t}
  /\ batch'  = [batch EXCEPT ![t] = {}]
  /\ UNCHANGED <<sqlVars, level, op, msg, step, seen, hasError, calls, faults, outcome, inDoubt, erased>>

\* They enable internal transactions after the mutex is released, whatever
\* became of the transaction.
EnableInternal(t) ==
  /\ At(t, "enable")
  /\ disabled' = FALSE
  /\ Goto(t, "idle")
  /\ userTx' = userTx \ {t}
  /\ failed' = failed \ {t}
  /\ batch'  = [batch EXCEPT ![t] = {}]
  /\ UNCHANGED <<connected, transaction, session, owner, depth, life, level, op, msg, step, seen, hasError, calls,
                 faults, outcome, inDoubt, erased>>

\* requiemdb_sql_destroy, once every caller is done: close the session, then
\* destroy the mutex, which aborts the process if it is still held.
Destroy ==
  /\ life = "running"
  /\ \A t \in Threads : pc[t] = "idle" /\ t \notin userTx
  /\ connected' = FALSE
  /\ session' = Settled(session.stored)
  /\ life' = IF owner = NoThread THEN "destroyed" ELSE "aborted"
  /\ UNCHANGED <<transaction, owner, depth, disabled, threadVars, faults, ghostVars>>

-----------------------------------------------------------------------------
Init ==
  /\ connected = FALSE /\ transaction = FALSE
  /\ session = Settled(Preloaded \X Statements)
  /\ owner = NoThread /\ depth = 0
  /\ disabled = FALSE
  /\ life = "running"
  /\ pc    = [t \in Threads |-> "idle"]
  /\ level = [t \in Threads |-> "internal"]
  /\ op    = [t \in Threads |-> "get"]
  /\ msg   = [t \in Threads |-> CHOOSE m \in Messages : TRUE]
  /\ step  = [t \in Threads |-> 1]
  /\ seen  = [t \in Threads |-> {}]
  /\ hasError = {}
  /\ calls = [t \in Threads |-> 0]
  /\ faults = 0
  /\ userTx = {} /\ failed = {}
  /\ batch = [t \in Threads |-> {}]
  /\ outcome = [m \in Messages |-> "none"]
  /\ inDoubt = {} /\ erased = {}

\* What a thread does once it is inside a call.
Step(t) ==
  \/ TransactionStart(t)
  \/ AlreadyInTransaction(t)
  \/ BeginTransaction(t)
  \/ MessageQuery(t)
  \/ TransactionEnd(t)
  \/ TransactionAbort(t)
  \/ NotInTransaction(t)
  \/ InTransaction(t)
  \/ CommitTransaction(t)
  \/ NoRollback(t)
  \/ RollbackTransaction(t)
  \/ DisableInternal(t)
  \/ EnableInternal(t)

Invoke(t) ==
  \/ \E o \in Ops, m \in Messages : Call(t, o, m)
  \/ UserStart(t)
  \/ \E label \in {"check_end", "check_abort"} : UserFinish(t, label)

Finished == life = "destroyed" /\ UNCHANGED vars

Next ==
  \/ \E t \in Threads : Invoke(t) \/ Step(t)
  \/ Destroy
  \/ Finished

Spec == Init /\ [][Next]_vars

\* A thread inside a call keeps running, and takes the mutex when it stays free
\* for it; a thread with a transaction of its own ends it one day.
Fairness ==
  \A t \in Threads :
    /\ WF_vars(Step(t))
    /\ WF_vars(t \in userTx /\
               \E label \in {"check_end", "check_abort"} : UserFinish(t, label))

FairSpec == Spec /\ Fairness

-----------------------------------------------------------------------------
(***************************************************************************)
(* Properties                                                              *)
(***************************************************************************)

\* The variables have their types.
TypeOK ==
  /\ connected \in BOOLEAN /\ transaction \in BOOLEAN
  /\ session \in Sessions
  /\ owner \in Threads \cup {NoThread}
  /\ depth \in Nat
  /\ disabled \in BOOLEAN
  /\ life \in {"running", "destroyed", "aborted"}
  /\ pc \in [Threads -> PcValues]
  /\ level \in [Threads -> {"internal", "user"}]
  /\ op \in [Threads -> Ops]
  /\ msg \in [Threads -> Messages]
  /\ step \in [Threads -> Statements]
  /\ seen \in [Threads -> SUBSET Statements]
  /\ hasError \subseteq Threads
  /\ calls \in [Threads -> Nat]
  /\ faults \in Nat
  /\ userTx \subseteq Threads
  /\ failed \subseteq Threads
  /\ batch \in [Threads -> SUBSET Messages]
  /\ outcome \in [Messages -> Outcomes]
  /\ inDoubt \subseteq Messages
  /\ erased \subseteq Messages

\* Thread t is between the BEGIN and the end of a transaction it started, its
\* own (user) or the one of an insert or a delete (internal).
InsideTransaction(t) ==
  \/ t \in userTx /\ pc[t] # "enable"
  \/ pc[t] = "disable"
  \/ /\ t \notin userTx /\ level[t] = "internal" /\ op[t] # "get"
     /\ pc[t] \in {"query", "end", "check_end", "commit",
                   "abort", "check_abort", "rollback"}

\* Every transaction start is matched by exactly one release: a thread holds the
\* mutex, once, exactly while it is inside a transaction, whichever of the early
\* returns of _requiemdb_sql_transaction_start, _end and _abort it took.
MutexBalanced ==
  /\ \A t \in Threads : owner = t <=> InsideTransaction(t)
  /\ depth = IF owner = NoThread THEN 0 ELSE 1

\* Whenever the mutex is free the library and the server agree that no
\* transaction is open, so the next thread neither joins nor reads the
\* uncommitted work of another.
FreeMutexSettled ==
  owner = NoThread =>
    /\ ~transaction
    /\ session = Settled(session.stored)

\* What is committed is whole messages: all the rows of a message or none, at
\* every instant, across errors, lost connections and reconnections.
WholeMessages ==
  \A m \in Messages : RowsOf(m) \cap session.stored \in {{}, RowsOf(m)}

\* An insert that was reported a success is in the database until someone asks
\* for its deletion.
SuccessIsDurable ==
  \A m \in Messages :
    outcome[m] = "ok" /\ m \notin erased => RowsOf(m) \subseteq session.stored

\* An insert that was reported a failure never shows up later, except when it
\* was the answer to COMMIT that got lost.
FailureLeavesNothing ==
  \A m \in Messages :
    outcome[m] = "error" /\ m \notin inDoubt => RowsOf(m) \cap session.stored = {}

\* The process never reaches abort(): no thread unlocks a mutex another one
\* holds, and the object is never destroyed with the mutex held.
NeverAborts == life # "aborted"

\* Every call returns to its caller, whatever errors occur on the way: nobody
\* waits for ever for the mutex.
CallsReturn ==
  \A t \in Threads : pc[t] # "idle" ~> pc[t] = "idle"

\* A message is read with one query after the other and the mutex is free in
\* between (get_alert in classic-get.c), so a deletion may overtake the read; but
\* what is read is then cut off at one point: rows found after one that was
\* missing would be a mixture of two states of the database.  Nothing is missing
\* from a message that nobody asked to delete.
ReadsCutOnce ==
  \A t \in Threads :
    op[t] = "get" =>
      /\ \A i \in seen[t] : 1..i \subseteq seen[t]
      /\ pc[t] = "query" /\ msg[t] \notin erased => seen[t] = 1..(step[t] - 1)

\* requiemdb_sql_transaction_start, "Begin a sql transaction. Returns: 0 on
\* success": once it has returned 0 to an insert or a delete, its queries run
\* inside a transaction.
QueriesInsideTransaction ==
  \A t \in Threads :
    pc[t] = "query" /\ op[t] # "get" /\ CanLock(t) => session.tx # "none"

-----------------------------------------------------------------------------
(***************************************************************************)
(* The inductive invariant behind MutexBalanced and FreeMutexSettled       *)
(***************************************************************************)

\* The uses of the library for which it is sound: the format plugin checks every
\* INSERT, the plugin's COMMIT never leaves the transaction open, and a thread
\* that opens transactions of its own has the object to itself.
SoundUse ==
  /\ Unchecked = {}
  /\ Backend # "sqlite3"
  /\ UserThreads = {} \/ \E u \in UserThreads : Threads = {u}

\* Where a thread can be, given who called the transaction functions.
ControlInv ==
  \A t \in Threads :
    /\ pc[t] \in {"start", "query", "end", "abort"} => level[t] = "internal"
    /\ pc[t] \in {"start", "end", "abort"} => op[t] # "get"
    /\ pc[t] \in {"begin", "check_end", "check_abort", "commit", "rollback"}
         /\ level[t] = "internal" => op[t] # "get" /\ t \notin userTx
    /\ pc[t] \in {"begin", "check_end", "check_abort", "enable"}
         /\ level[t] = "user" => t \in UserThreads
    /\ pc[t] = "disable" => t \in UserThreads \ userTx /\ level[t] = "user"
    /\ pc[t] \in {"commit", "rollback"} /\ level[t] = "user" => t \in userTx
    /\ pc[t] = "enable" => level[t] = "user"
    /\ pc[t] \in {"check_end", "commit"} => t \notin failed
    /\ pc[t] \in {"start", "query", "end"} => t \notin failed

FlagInv ==
  /\ disabled <=> userTx # {}
  /\ userTx \subseteq UserThreads
  /\ failed \subseteq userTx

\* No query of the transaction that t is in has failed so far.
NoErrorYet(t) ==
  /\ owner = t
  /\ t \notin failed
  /\ pc[t] \notin {"abort", "check_abort", "rollback"}

\* While the mutex is held the TRANSACTION bit is set until _abort clears it, and
\* as long as no query has failed the server is in that transaction too: the bit
\* and the connection are never lost behind the back of the thread.
SessionInv ==
  /\ ~connected => session = Settled(session.stored)
  /\ \A t \in Threads :
       /\ owner = t => (transaction <=> pc[t] # "rollback")
       /\ NoErrorYet(t) => connected /\ session.tx = "open"

LockInv ==
  /\ MutexBalanced
  /\ FreeMutexSettled
  /\ NeverAborts
  /\ ControlInv
  /\ FlagInv
  /\ SessionInv
=============================================================================
