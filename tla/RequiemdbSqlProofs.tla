--------------------------- MODULE RequiemdbSqlProofs ---------------------------
(***************************************************************************)
(* Proofs about RequiemdbSql, for every number of threads, messages,       *)
(* queries, faults and calls: the types first, then the mutex of the sql   *)
(* object, held exactly while a transaction is open in the uses that       *)
(* SoundUse describes, and last what is stored and the refinement of       *)
(* MessageStore.                                                           *)
(***************************************************************************)
EXTENDS RequiemdbSqlStore, TLAPS

USE DEF At

-----------------------------------------------------------------------------
(***************************************************************************)
(* What a query can do to the object and its session                       *)
(***************************************************************************)

Answers == [session : Sessions, connected : BOOLEAN, transaction : BOOLEAN,
            ok : BOOLEAN, faults : Nat]

\* Session builds a session.
LEMMA SessionType ==
  ASSUME NEW x \in {"none", "open", "failed"}, NEW w \in SUBSET Rows, NEW d \in SUBSET Rows
  PROVE  Session(x, w, d) \in Sessions
  BY DEF Session, Sessions

\* The parts of a session.
LEMMA SessionParts ==
  ASSUME NEW s \in Sessions
  PROVE  /\ s.tx \in {"none", "open", "failed"}
         /\ s.work \in SUBSET Rows /\ s.stored \in SUBSET Rows
  BY DEF Sessions

\* What the server makes of a query is a session.
LEMMA ServedType ==
  ASSUME NEW s \in Sessions, NEW kind \in Ops \cup Commands, NEW row \in Rows
  PROVE  Served(s, kind, row) \in Sessions
  <1>1. Committed(s) \in Sessions /\ Settled(s.stored) \in Sessions
    BY SessionType, SessionParts DEF Committed, Settled
  <1>2. Begun(s) \in Sessions
    BY <1>1, SessionType, SessionParts DEF Begun
  <1>3. \A rows \in SUBSET Rows : Effect(kind, row, rows) \in SUBSET Rows
    BY DEF Effect
  <1>4. Changed(s, kind, row) \in Sessions
    BY <1>3, SessionType, SessionParts DEF Changed, Settled
  <1>5. QED BY <1>1, <1>2, <1>4 DEF Served

\* Answer builds an answer.
LEMMA AnswerType ==
  ASSUME NEW s \in Sessions, NEW c \in BOOLEAN, NEW b \in BOOLEAN, NEW ok \in BOOLEAN,
         NEW n \in Nat
  PROVE  Answer(s, c, b, ok, n) \in Answers
  BY DEF Answer, Answers

\* The answers of the plugin are answers, and say whether the session survived.
LEMMA PluginQueryType ==
  ASSUME NEW s \in Sessions, NEW b \in BOOLEAN,
         NEW kind \in Ops \cup Commands, NEW row \in Rows,
         NEW r \in PluginQuery(s, b, kind, row)
  PROVE  r \in Answers
  <1>1. Served(s, kind, row) \in Sessions
    BY ServedType
  <1>2. Errored(s, kind) \in Sessions
    BY SessionType, SessionParts DEF Errored, Settled
  <1>3. Dropped(s, kind, row) \subseteq Sessions
    BY <1>1, SessionType, SessionParts DEF Dropped, Settled
  <1>4. /\ Answer(s, TRUE, b, FALSE, 0) \in Answers
        /\ Answer(Served(s, kind, row), TRUE, b, TRUE, 0) \in Answers
        /\ Answer(Errored(s, kind), TRUE, b, FALSE, 1) \in Answers
        /\ \A d \in Dropped(s, kind, row) : Answer(d, FALSE, b, FALSE, 1) \in Answers
    BY <1>1, <1>2, <1>3, AnswerType
  <1>5. QED BY <1>4 DEF PluginQuery

\* The answers to a query are answers.
LEMMA QueryType ==
  ASSUME TypeOK, NEW kind \in Ops \cup Commands, NEW row \in Rows,
         NEW r \in Query(kind, row)
  PROVE  r \in Answers
  <1>1. Settled(session.stored) \in Sessions
    BY SessionType, SessionParts DEF Settled, TypeOK
  <1>2. CASE connected
    BY <1>2, PluginQueryType DEF Query, TypeOK
  <1>3. CASE ~connected
    <2>1. Answer(session, FALSE, transaction, FALSE, 1) \in Answers
      BY AnswerType DEF TypeOK
    <2>2. QED BY <1>1, <1>3, <2>1, PluginQueryType DEF Query, Reconnect
  <1>4. QED BY <1>2, <1>3

-----------------------------------------------------------------------------
(***************************************************************************)
(* Type correctness                                                        *)
(***************************************************************************)

\* Unlocking counts down, so the type of depth needs that a held mutex is held
\* at least once.
TypeInv == TypeOK /\ (owner # NoThread => depth # 0)

\* The query of a thread leaves the session, the bits and the faults typed.
LEMMA AskType ==
  ASSUME TypeOK, NEW t \in Threads, NEW kind \in Ops \cup Commands, NEW r,
         Ask(t, kind, r)
  PROVE  /\ r \in Answers
         /\ connected' \in BOOLEAN /\ session' \in Sessions
         /\ faults' \in Nat /\ hasError' \subseteq Threads
  <1>1. <<msg[t], step[t]>> \in Rows
    BY DEF TypeOK, Rows
  <1>2. r \in Answers
    BY <1>1, QueryType DEF Ask
  <1>3. QED BY <1>2 DEF Ask, Answers, TypeOK

\* Taking and releasing the mutex keep its type.
LEMMA MutexType ==
  ASSUME TypeInv, NEW t \in Threads, Acquire(t) \/ Release(t) \/ KeepLock
  PROVE  /\ owner' \in Threads \cup {NoThread} /\ depth' \in Nat
         /\ owner' # NoThread => depth' # 0
  BY ThreadsAssumption DEF TypeInv, TypeOK, Acquire, Release, KeepLock

\* Release only ever aborts the process.
LEMMA ReleaseLife ==
  ASSUME TypeInv, NEW t \in Threads, Release(t)
  PROVE  life' \in {"running", "destroyed", "aborted"}
  BY DEF TypeInv, TypeOK, Release

GhostType ==
  /\ userTx \subseteq Threads
  /\ failed \subseteq Threads
  /\ batch \in [Threads -> SUBSET Messages]
  /\ outcome \in [Messages -> Outcomes]
  /\ inDoubt \subseteq Messages
  /\ erased \subseteq Messages

\* A call that returns leaves the program counters and the observations typed.
LEMMA ReturnType ==
  ASSUME TypeOK, NEW t \in Threads, NEW ok \in BOOLEAN, Return(t, ok),
         inDoubt' \subseteq Messages
  PROVE  pc' \in [Threads -> PcValues] /\ GhostType'
  <1>1. pc' \in [Threads -> PcValues]
    BY DEF Return, Goto, TypeOK, PcValues
  <1>2. batch' \in [Threads -> SUBSET Messages]
    BY DEF Return, TypeOK
  <1>3. outcome' \in [Messages -> Outcomes]
    BY DEF Return, TypeOK, Outcomes
  <1>4. QED BY <1>1, <1>2, <1>3 DEF Return, TypeOK, GhostType

\* So does a thread that leaves _requiemdb_sql_transaction_end or _abort.
LEMMA LeaveType ==
  ASSUME TypeOK, NEW t \in Threads, NEW ok \in BOOLEAN, NEW doubt \in BOOLEAN,
         Leave(t, ok, doubt)
  PROVE  pc' \in [Threads -> PcValues] /\ GhostType'
  <1>1. CASE level[t] = "internal"
    <2>1. inDoubt' \subseteq Messages
      BY <1>1 DEF Leave, TypeOK
    <2>2. QED BY <1>1, <2>1, ReturnType DEF Leave
  <1>2. CASE level[t] # "internal"
    <2>1. pc' \in [Threads -> PcValues]
      BY <1>2 DEF Leave, Goto, TypeOK, PcValues
    <2>2. outcome' \in [Messages -> Outcomes]
      BY <1>2 DEF Leave, TypeOK, Outcomes
    <2>3. inDoubt' \subseteq Messages
      BY <1>2 DEF Leave, TypeOK
    <2>4. QED BY <1>2, <2>1, <2>2, <2>3 DEF Leave, TypeOK, GhostType
  <1>3. QED BY <1>1, <1>2

\* And a start of a transaction that fails.
LEMMA StartFailsType ==
  ASSUME TypeOK, NEW t \in Threads, StartFails(t)
  PROVE  pc' \in [Threads -> PcValues] /\ GhostType'
  <1>1. CASE level[t] = "user"
    BY <1>1 DEF StartFails, Goto, TypeOK, PcValues, ghostVars, GhostType
  <1>2. CASE level[t] # "user"
    <2>1. Return(t, FALSE) /\ inDoubt' \subseteq Messages
      BY <1>2 DEF StartFails, TypeOK
    <2>2. QED BY <2>1, ReturnType
  <1>3. QED BY <1>1, <1>2

\* Every step of a thread that is inside a call preserves the types.
LEMMA StepType ==
  ASSUME TypeInv, NEW t \in Threads, Step(t)
  PROVE  TypeInv'
  <1> USE DEF TypeInv
  <1>1. CASE TransactionStart(t)
    BY <1>1 DEF TransactionStart, Goto, TypeOK, PcValues, sqlVars, ghostVars
  <1>2. CASE AlreadyInTransaction(t)
    BY <1>2, StartFailsType DEF AlreadyInTransaction, StartFails, KeepLock, TypeOK, GhostType
  <1>3. CASE BeginTransaction(t)
    <2>1. PICK r : /\ Ask(t, "BEGIN", r)
                   /\ \/ /\ r.ok /\ transaction' = TRUE /\ Acquire(t)
                         /\ Goto(t, IF level[t] = "user" THEN "disable" ELSE "query")
                         /\ UNCHANGED <<life, ghostVars>>
                      \/ /\ ~r.ok /\ transaction' = r.transaction
                         /\ StartFails(t)
      BY <1>3 DEF BeginTransaction
    <2>2. /\ r \in Answers
          /\ connected' \in BOOLEAN /\ session' \in Sessions
          /\ faults' \in Nat /\ hasError' \subseteq Threads
      BY <2>1, AskType DEF Commands
    <2>3. pc' \in [Threads -> PcValues] /\ GhostType'
      BY <2>1, StartFailsType DEF Goto, TypeOK, PcValues, ghostVars, GhostType
    <2>4. /\ owner' \in Threads \cup {NoThread} /\ depth' \in Nat
          /\ owner' # NoThread => depth' # 0
      BY <2>1, MutexType DEF StartFails
    <2>5. transaction' \in BOOLEAN /\ life' = life
      BY <2>1, <2>2 DEF Answers, StartFails, KeepLock
    <2>6. QED BY <1>3, <2>2, <2>3, <2>4, <2>5 DEF BeginTransaction, TypeOK, GhostType
  <1>4. CASE MessageQuery(t)
    <2>1. PICK r : /\ Ask(t, op[t], r)
                   /\ transaction' = r.transaction
                   /\ \/ /\ step' = [step EXCEPT ![t] = NextStatement(@)]
                         /\ \/ UNCHANGED <<pc, ghostVars>>
                            \/ Return(t, TRUE) /\ UNCHANGED inDoubt
                            \/ Goto(t, "end") /\ UNCHANGED ghostVars
                      \/ /\ \/ Return(t, FALSE) /\ UNCHANGED inDoubt
                            \/ Goto(t, "abort") /\ UNCHANGED ghostVars
                         /\ UNCHANGED step
      BY <1>4 DEF MessageQuery
    <2>2. /\ r \in Answers
          /\ connected' \in BOOLEAN /\ session' \in Sessions
          /\ faults' \in Nat /\ hasError' \subseteq Threads
      BY <2>1, AskType DEF TypeOK
    <2>3. pc' \in [Threads -> PcValues] /\ GhostType'
      <3>1. CASE UNCHANGED <<pc, ghostVars>>
        BY <3>1 DEF TypeOK, ghostVars, GhostType
      <3>2. ASSUME NEW ok \in BOOLEAN, Return(t, ok), UNCHANGED inDoubt
            PROVE  pc' \in [Threads -> PcValues] /\ GhostType'
        BY <3>2, ReturnType DEF TypeOK
      <3>3. ASSUME NEW label \in {"end", "abort"}, Goto(t, label), UNCHANGED ghostVars
            PROVE  pc' \in [Threads -> PcValues] /\ GhostType'
        BY <3>3 DEF Goto, TypeOK, PcValues, ghostVars, GhostType
      <3>4. QED BY <2>1, <3>1, <3>2, <3>3
    <2>4. step' \in [Threads -> Statements]
      <3>1. NextStatement(step[t]) \in Statements
        BY MessagesAssumption DEF Statements, NextStatement, TypeOK
      <3>2. QED BY <2>1, <3>1 DEF TypeOK
    <2>5. transaction' \in BOOLEAN
      BY <2>1, <2>2 DEF Answers
    <2>6. QED BY <1>4, <2>2, <2>3, <2>4, <2>5
              DEF MessageQuery, KeepLock, TypeOK, GhostType
  <1>5. CASE TransactionEnd(t) \/ TransactionAbort(t)
    <2>1. \/ \E ok \in BOOLEAN : Return(t, ok) /\ UNCHANGED inDoubt
          \/ \E label \in {"check_end", "check_abort"} :
               Goto(t, label) /\ UNCHANGED ghostVars
      <3>1. CASE TransactionEnd(t)
        BY <3>1 DEF TransactionEnd
      <3>2. CASE TransactionAbort(t)
        BY <3>2 DEF TransactionAbort
      <3>3. QED BY <1>5, <3>1, <3>2
    <2>2. pc' \in [Threads -> PcValues] /\ GhostType'
      <3>1. ASSUME NEW ok \in BOOLEAN, Return(t, ok), UNCHANGED inDoubt
            PROVE  pc' \in [Threads -> PcValues] /\ GhostType'
        BY <3>1, ReturnType DEF TypeOK
      <3>2. ASSUME NEW label \in {"check_end", "check_abort"}, Goto(t, label),
                   UNCHANGED ghostVars
            PROVE  pc' \in [Threads -> PcValues] /\ GhostType'
        BY <3>2 DEF Goto, TypeOK, PcValues, ghostVars, GhostType
      <3>3. QED BY <2>1, <3>1, <3>2
    <2>3. QED BY <1>5, <2>2 DEF TransactionEnd, TransactionAbort, sqlVars, TypeOK, GhostType
  <1>6. CASE NotInTransaction(t)
    BY <1>6, LeaveType DEF NotInTransaction, sqlVars, TypeOK, GhostType
  <1>7. CASE InTransaction(t)
    BY <1>7 DEF InTransaction, Goto, TypeOK, PcValues, ghostVars
  <1>8. CASE CommitTransaction(t)
    <2>1. PICK r : Ask(t, "COMMIT", r) /\ transaction' = FALSE /\ Release(t)
                   /\ Leave(t, r.ok, ~r.ok)
      BY <1>8 DEF CommitTransaction
    <2>2. /\ r \in Answers
          /\ connected' \in BOOLEAN /\ session' \in Sessions
          /\ faults' \in Nat /\ hasError' \subseteq Threads
      BY <2>1, AskType DEF Commands
    <2>3. pc' \in [Threads -> PcValues] /\ GhostType'
      BY <2>1, <2>2, LeaveType DEF Answers
    <2>4. QED BY <1>8, <2>1, <2>2, <2>3, MutexType, ReleaseLife
              DEF CommitTransaction, TypeOK, GhostType
  <1>9. CASE NoRollback(t)
    BY <1>9, LeaveType, MutexType, ReleaseLife DEF NoRollback, TypeOK, GhostType
  <1>10. CASE RollbackTransaction(t)
    <2>1. PICK r : Ask(t, "ROLLBACK", r) /\ transaction' = r.transaction /\ Release(t)
                   /\ Leave(t, FALSE, FALSE)
      BY <1>10 DEF RollbackTransaction
    <2>2. /\ r \in Answers
          /\ connected' \in BOOLEAN /\ session' \in Sessions
          /\ faults' \in Nat /\ hasError' \subseteq Threads
      BY <2>1, AskType DEF Commands
    <2>3. pc' \in [Threads -> PcValues] /\ GhostType'
      BY <2>1, LeaveType
    <2>4. transaction' \in BOOLEAN
      BY <2>1, <2>2 DEF Answers
    <2>5. QED BY <1>10, <2>1, <2>2, <2>3, <2>4, MutexType, ReleaseLife
              DEF RollbackTransaction, TypeOK, GhostType
  <1>11. CASE DisableInternal(t)
    BY <1>11 DEF DisableInternal, Goto, TypeOK, PcValues
  <1>12. CASE EnableInternal(t)
    BY <1>12 DEF EnableInternal, Goto, TypeOK, PcValues
  <1>13. QED BY <1>1, <1>2, <1>3, <1>4, <1>5, <1>6, <1>7, <1>8, <1>9, <1>10,
                <1>11, <1>12 DEF Step

\* A thread that starts a call, or a transaction of its own, preserves the types.
LEMMA InvokeType ==
  ASSUME TypeInv, NEW t \in Threads, Invoke(t)
  PROVE  TypeInv'
  <1> USE DEF TypeInv
  <1>1. ASSUME NEW o \in Ops, NEW m \in Messages, Call(t, o, m)
        PROVE  TypeInv'
    <2>1. 1 \in Statements
      BY MessagesAssumption DEF Statements
    <2>2. QED BY <1>1, <2>1 DEF Call, Goto, TypeOK, PcValues, Outcomes, sqlVars
  <1>2. CASE UserStart(t)
    BY <1>2 DEF UserStart, Goto, TypeOK, PcValues, sqlVars, ghostVars
  <1>3. ASSUME NEW label \in {"check_end", "check_abort"}, UserFinish(t, label)
        PROVE  TypeInv'
    BY <1>3 DEF UserFinish, Goto, TypeOK, PcValues, sqlVars, ghostVars
  <1>4. QED BY <1>1, <1>2, <1>3 DEF Invoke

\* The initial state is typed.
LEMMA InitType == Init => TypeInv
  <1> SUFFICES ASSUME Init PROVE TypeInv
    OBVIOUS
  <1>1. session \in Sessions
    BY MessagesAssumption, SessionType DEF Init, Settled, Rows
  <1>2. 1 \in Statements /\ (CHOOSE m \in Messages : TRUE) \in Messages
    BY MessagesAssumption DEF Statements
  <1>3. QED BY <1>1, <1>2 DEF Init, TypeInv, TypeOK, PcValues, Ops, Outcomes

\* Every step of the system preserves the types.
LEMMA NextType == TypeInv /\ [Next]_vars => TypeInv'
  <1> SUFFICES ASSUME TypeInv, [Next]_vars PROVE TypeInv'
    OBVIOUS
  <1>1. CASE Destroy
    <2>1. session' \in Sessions
      BY <1>1, SessionType, SessionParts DEF Destroy, Settled, TypeInv, TypeOK
    <2>2. QED BY <1>1, <2>1 DEF Destroy, TypeInv, TypeOK, threadVars, ghostVars
  <1>2. CASE UNCHANGED vars
    BY <1>2 DEF vars, TypeInv, TypeOK
  <1>3. QED BY <1>1, <1>2, InvokeType, StepType DEF Next, Finished

\* The variables always have their types: in particular the mutex is never
\* unlocked more often than it was locked.
THEOREM TypeCorrect == Spec => []TypeOK
  <1>1. TypeInv => TypeOK
    BY DEF TypeInv
  <1>2. QED BY <1>1, InitType, NextType, PTL DEF Spec

-----------------------------------------------------------------------------
(***************************************************************************)
(* What the answer to each kind of query says                              *)
(***************************************************************************)

\* The fields of a session and of an answer.
LEMMA Fields ==
  ASSUME NEW x, NEW w, NEW d, NEW s, NEW c, NEW b, NEW ok, NEW n
  PROVE  /\ Session(x, w, d).tx = x
         /\ Session(x, w, d).work = w
         /\ Session(x, w, d).stored = d
         /\ Settled(d).tx = "none" /\ Settled(d).work = d /\ Settled(d).stored = d
         /\ Answer(s, c, b, ok, n).session = s
         /\ Answer(s, c, b, ok, n).connected = c
         /\ Answer(s, c, b, ok, n).transaction = b
         /\ Answer(s, c, b, ok, n).ok = ok
  BY DEF Session, Settled, Answer

\* The plugin leaves the TRANSACTION bit alone, succeeds only when the server
\* has served the query, and closes only a session whose transaction is gone.
LEMMA PluginAnswer ==
  ASSUME Backend # "sqlite3", NEW s, NEW b, NEW kind, NEW row,
         NEW r \in PluginQuery(s, b, kind, row)
  PROVE  /\ r.transaction = b
         /\ r.ok => r.connected /\ ~Refused(s, kind) /\ r.session = Served(s, kind, row)
         /\ ~r.ok /\ r.connected =>
              \/ Refused(s, kind) /\ r.session = s
              \/ r.session = Errored(s, kind)
         /\ ~r.connected =>
              \/ r.session = Settled(s.stored)
              \/ ~Refused(s, kind) /\ r.session = Settled(Served(s, kind, row).stored)
  <1>1. CASE r = Answer(s, TRUE, b, FALSE, 0) /\ Refused(s, kind)
    <2>1. r.session = s /\ r.connected = TRUE /\ r.ok = FALSE /\ r.transaction = b
      BY <1>1 DEF Answer
    <2>2. QED BY <1>1, <2>1, Zenon
  <1>2. CASE r = Answer(Served(s, kind, row), TRUE, b, TRUE, 0) /\ ~Refused(s, kind)
    <2>1. /\ r.session = Served(s, kind, row) /\ r.connected = TRUE /\ r.ok = TRUE
          /\ r.transaction = b
      BY <1>2 DEF Answer
    <2>2. QED BY <1>2, <2>1, Zenon
  <1>3. CASE r = Answer(Errored(s, kind), TRUE, b, FALSE, 1)
    <2>1. /\ r.session = Errored(s, kind) /\ r.connected = TRUE /\ r.ok = FALSE
          /\ r.transaction = b
      BY <1>3 DEF Answer
    <2>2. QED BY <2>1, Zenon
  <1>4. CASE \E d \in Dropped(s, kind, row) : r = Answer(d, FALSE, b, FALSE, 1)
    <2>1. PICK d \in Dropped(s, kind, row) : r = Answer(d, FALSE, b, FALSE, 1)
      BY <1>4
    <2>2. \/ d = Settled(s.stored)
          \/ ~Refused(s, kind) /\ d = Settled(Served(s, kind, row).stored)
      BY DEF Dropped
    <2>3. r.session = d /\ r.connected = FALSE /\ r.ok = FALSE /\ r.transaction = b
      BY <2>1 DEF Answer
    <2>4. QED BY <2>2, <2>3, Zenon
  <1>5. QED BY <1>1, <1>2, <1>3, <1>4 DEF PluginQuery

\* The answer to a query is that of the plugin, on the session there is or on a
\* new one without the TRANSACTION bit, or there was no connecting.
LEMMA QueryAnswer ==
  ASSUME NEW kind, NEW row, NEW r \in Query(kind, row)
  PROVE  \/ connected /\ r \in PluginQuery(session, transaction, kind, row)
         \/ /\ ~connected /\ r.session = session /\ ~r.connected /\ ~r.ok
            /\ r.transaction = transaction
         \/ ~connected /\ r \in PluginQuery(Settled(session.stored), FALSE, kind, row)
  <1>1. CASE r = Answer(session, FALSE, transaction, FALSE, 1) /\ ~connected
    <2>1. /\ r.session = session /\ r.connected = FALSE /\ r.ok = FALSE
          /\ r.transaction = transaction
      BY <1>1 DEF Answer
    <2>2. QED BY <1>1, <2>1, Zenon
  <1>2. QED BY <1>1 DEF Query, Reconnect

\* Only a reconnection clears the TRANSACTION bit, and a query that succeeds
\* leaves the object connected.
LEMMA QueryBits ==
  ASSUME Backend # "sqlite3", NEW kind, NEW row, NEW r \in Query(kind, row)
  PROVE  /\ r.transaction => transaction
         /\ connected => r.transaction = transaction
         /\ r.ok => r.connected
  <1>1. CASE connected /\ r \in PluginQuery(session, transaction, kind, row)
    <2>1. r.transaction = transaction /\ (r.ok => r.connected)
      BY <1>1, PluginAnswer
    <2>2. QED BY <2>1, Zenon
  <1>2. CASE /\ ~connected /\ r.session = session /\ ~r.connected /\ ~r.ok
             /\ r.transaction = transaction
    BY <1>2, Zenon
  <1>3. CASE ~connected /\ r \in PluginQuery(Settled(session.stored), FALSE, kind, row)
    <2>1. r.transaction = FALSE /\ (r.ok => r.connected)
      BY <1>3, PluginAnswer
    <2>2. QED BY <1>3, <2>1, Zenon
  <1>4. QED BY <1>1, <1>2, <1>3, QueryAnswer

\* BEGIN on a settled session opens a transaction on the rows that are committed,
\* or leaves the session settled.
LEMMA BeginAnswer ==
  ASSUME Backend # "sqlite3", session = Settled(session.stored),
         NEW row, NEW r \in Query("BEGIN", row)
  PROVE  /\ r.ok => r.session = Session("open", session.stored, session.stored)
         /\ ~r.ok => r.session = session
  <1>1. PICK b : r \in PluginQuery(session, b, "BEGIN", row) \/ (r.session = session /\ ~r.ok)
    BY QueryAnswer
  <1>2. Served(session, "BEGIN", row) = Session("open", session.stored, session.stored)
    BY Fields DEF Served, Begun, Committed
  <1>3. Errored(session, "BEGIN") = session
    BY Fields DEF Errored
  <1>4. QED BY <1>1, <1>2, <1>3, Fields, PluginAnswer

\* ROLLBACK settles the session on what was committed before, answered or not.
LEMMA RollbackAnswer ==
  ASSUME Backend # "sqlite3", ~connected => session = Settled(session.stored),
         NEW row, NEW r \in Query("ROLLBACK", row)
  PROVE  r.session = Settled(session.stored)
  <1>1. \A s : /\ Served(s, "ROLLBACK", row) = Settled(s.stored)
               /\ Errored(s, "ROLLBACK") = Settled(s.stored)
               /\ ~Refused(s, "ROLLBACK")
    BY DEF Served, Errored, Refused, Ops
  <1>2. ASSUME NEW s, NEW b, r \in PluginQuery(s, b, "ROLLBACK", row)
        PROVE  r.session = Settled(s.stored)
    BY <1>1, <1>2, Fields, PluginAnswer
  <1>3. QED BY <1>2, Fields, QueryAnswer

\* COMMIT of an open transaction settles the session: on the work when it is
\* answered, on the work or on what was committed before when it is not.
LEMMA CommitAnswer ==
  ASSUME Backend # "sqlite3", connected, session.tx = "open",
         NEW row, NEW r \in Query("COMMIT", row)
  PROVE  /\ r.ok => r.session = Settled(session.work)
         /\ r.session \in {Settled(session.work), Settled(session.stored)}
  <1>1. /\ Served(session, "COMMIT", row) = Settled(session.work)
        /\ Errored(session, "COMMIT") = Settled(session.stored)
        /\ ~Refused(session, "COMMIT")
    BY DEF Served, Committed, Errored, Refused, Ops
  <1>2. QED BY <1>1, Fields, QueryAnswer, PluginAnswer

\* A query of a message inside an open transaction changes only the work of that
\* transaction; while it fails nothing is committed.
LEMMA OpenAnswer ==
  ASSUME Backend # "sqlite3", connected, session.tx = "open",
         NEW kind \in Ops, NEW row, NEW r \in Query(kind, row)
  PROVE  /\ r.ok => r.session = Session("open", Effect(kind, row, session.work), session.stored)
         /\ r.session.stored = session.stored
         /\ ~r.connected => r.session = Settled(session.stored)
  <1>1. /\ Served(session, kind, row)
             = Session("open", Effect(kind, row, session.work), session.stored)
        /\ Errored(session, kind) \in
             {session, Session("failed", session.work, session.stored)}
    BY DEF Served, Changed, Errored, Ops
  <1>2. QED BY <1>1, Fields, QueryAnswer, PluginAnswer

\* A SELECT on a settled session changes nothing.
LEMMA GetAnswer ==
  ASSUME Backend # "sqlite3", session = Settled(session.stored),
         NEW row, NEW r \in Query("get", row)
  PROVE  r.session = session
  <1>1. PICK b : r \in PluginQuery(session, b, "get", row) \/ r.session = session
    BY QueryAnswer
  <1>2. Served(session, "get", row) = session /\ Errored(session, "get") = session
    BY Fields DEF Served, Changed, Effect, Errored
  <1>3. QED BY <1>1, <1>2, Fields, PluginAnswer

-----------------------------------------------------------------------------
(***************************************************************************)
(* What a step does to the control state                                   *)
(***************************************************************************)

\* Only thread t moves, to label.
Moves(t, label) ==
  /\ pc'[t] = label
  /\ \A u \in Threads \ {t} : pc'[u] = pc[u]

\* Goto moves one thread.
LEMMA GotoMoves ==
  ASSUME TypeOK, NEW t \in Threads, NEW label, Goto(t, label)
  PROVE  Moves(t, label)
  BY DEF Goto, Moves, TypeOK

\* A call that returns outside a user transaction leaves no mark on failed; inside
\* one a failure is remembered.
LEMMA ReturnMoves ==
  ASSUME TypeOK, NEW t \in Threads, NEW ok, Return(t, ok)
  PROVE  /\ Moves(t, "idle") /\ userTx' = userTx
         /\ t \notin userTx => failed' = failed
         /\ ok => failed' = failed
         /\ ~ok /\ t \in userTx => failed' = failed \cup {t}
  BY GotoMoves DEF Return

\* The failing exits of a start leave the mutex, the life of the process and the
\* user transactions as they were.
LEMMA StartFailsMoves ==
  ASSUME TypeOK, NEW t \in Threads, t \notin userTx, StartFails(t)
  PROVE  /\ Moves(t, "idle") /\ userTx' = userTx /\ failed' = failed
         /\ UNCHANGED <<owner, depth, life>>
  BY GotoMoves, ReturnMoves DEF StartFails, KeepLock, ghostVars

\* The end of a transaction that its owner releases.
LEMMA LeaveMoves ==
  ASSUME TypeOK, MutexBalanced, ControlInv, NEW t \in Threads,
         pc[t] \in {"commit", "rollback"}, NEW ok, NEW doubt,
         Release(t), Leave(t, ok, doubt)
  PROVE  /\ owner = t /\ owner' = NoThread /\ depth' = 0 /\ life' = life
         /\ userTx' = userTx /\ failed' = failed
         /\ level[t] = "internal" => Moves(t, "idle") /\ t \notin userTx
         /\ level[t] = "user" => Moves(t, "enable") /\ t \in userTx
  <1>1. owner = t /\ depth = 1
    BY ThreadsAssumption DEF MutexBalanced, InsideTransaction, ControlInv, TypeOK
  <1>2. owner' = NoThread /\ depth' = 0 /\ life' = life
    BY <1>1 DEF Release
  <1>3. CASE level[t] = "internal"
    BY <1>1, <1>2, <1>3, ReturnMoves DEF Leave, ControlInv
  <1>4. CASE level[t] # "internal"
    BY <1>1, <1>2, <1>4, GotoMoves DEF Leave, ControlInv, TypeOK
  <1>5. QED BY <1>3, <1>4

-----------------------------------------------------------------------------
(***************************************************************************)
(* The inductive invariant                                                 *)
(***************************************************************************)

IInv == TypeInv /\ LockInv

\* A thread whose transaction is open holds the mutex; a thread that disables or
\* was disabled has the object to itself.
LEMMA Alone ==
  ASSUME SoundUse, IInv, NEW t \in Threads,
         t \in UserThreads \/ userTx # {} \/ disabled
  PROVE  Threads = {t}
  BY ThreadsAssumption DEF SoundUse, IInv, TypeInv, TypeOK, LockInv, FlagInv

\* The bit tells a start that finds the mutex free from one that is nested in
\* the caller's own transaction.
LEMMA BeginCases ==
  ASSUME IInv, NEW t \in Threads, pc[t] = "begin", CanLock(t)
  PROVE  /\ ~transaction => /\ owner = NoThread /\ t \notin userTx /\ depth = 0
                            /\ session = Settled(session.stored)
         /\ transaction => owner = t /\ t \in userTx /\ level[t] = "user"
  <1> USE DEF IInv, TypeInv, LockInv
  <1>1. CASE owner = t
    BY <1>1 DEF MutexBalanced, InsideTransaction, ControlInv, SessionInv, TypeOK
  <1>2. CASE owner = NoThread
    BY <1>2, ThreadsAssumption DEF MutexBalanced, InsideTransaction, FreeMutexSettled
  <1>3. QED BY <1>1, <1>2 DEF CanLock

\* TransactionStart, TransactionEnd and TransactionAbort read the flag: it is set
\* exactly when the thread is in its own transaction.
LEMMA FlagReadLock ==
  ASSUME SoundUse, IInv, NEW t \in Threads,
         TransactionStart(t) \/ TransactionEnd(t) \/ TransactionAbort(t)
  PROVE  LockInv'
  <1> USE DEF IInv, TypeInv, LockInv
  <1>1. /\ UNCHANGED <<sqlVars, level, op>>
        /\ userTx' = userTx
        /\ pc[t] \in {"start", "end", "abort"}
    BY DEF TransactionStart, TransactionEnd, TransactionAbort, Return, ghostVars
  <1>2. disabled <=> t \in userTx
    BY Alone DEF FlagInv, TypeOK
  <1>3. CASE ~disabled
    <2>1. /\ failed' = failed
          /\ \/ pc[t] = "start" /\ Moves(t, "begin")
             \/ pc[t] = "end" /\ Moves(t, "check_end")
             \/ pc[t] = "abort" /\ Moves(t, "check_abort")
      BY <1>3, GotoMoves DEF TransactionStart, TransactionEnd, TransactionAbort, ghostVars
    <2>2. MutexBalanced'
      BY <1>1, <1>2, <1>3, <2>1 DEF MutexBalanced, InsideTransaction, ControlInv, Moves, sqlVars
    <2>3. ControlInv' /\ FlagInv'
      BY <1>1, <1>2, <1>3, <2>1 DEF ControlInv, FlagInv, Moves, sqlVars
    <2>4. SessionInv'
      BY <1>1, <1>2, <1>3, <2>1 DEF SessionInv, NoErrorYet, Moves, sqlVars
    <2>5. QED BY <1>1, <2>2, <2>3, <2>4 DEF FreeMutexSettled, NeverAborts, sqlVars
  <1>4. CASE disabled
    <2>1. \/ pc[t] = "start" /\ Moves(t, "query") /\ failed' = failed
          \/ pc[t] = "end" /\ Moves(t, "idle") /\ failed' = failed
          \/ pc[t] = "abort" /\ Moves(t, "idle") /\ failed' = failed \cup {t}
      BY <1>2, <1>4, GotoMoves, ReturnMoves
         DEF TransactionStart, TransactionEnd, TransactionAbort, ghostVars
    <2>2. MutexBalanced'
      BY <1>1, <1>2, <1>4, <2>1 DEF MutexBalanced, InsideTransaction, ControlInv, Moves, sqlVars
    <2>3. ControlInv' /\ FlagInv'
      BY <1>1, <1>2, <1>4, <2>1 DEF ControlInv, FlagInv, Moves, sqlVars
    <2>4. SessionInv'
      BY <1>1, <1>2, <1>4, <2>1 DEF SessionInv, NoErrorYet, Moves, sqlVars
    <2>5. QED BY <1>1, <2>2, <2>3, <2>4 DEF FreeMutexSettled, NeverAborts, sqlVars
  <1>5. QED BY <1>3, <1>4

\* BEGIN: the mutex is kept exactly when the transaction is open.
LEMMA BeginLock ==
  ASSUME SoundUse, IInv, NEW t \in Threads, BeginTransaction(t)
  PROVE  LockInv'
  <1> USE DEF IInv, TypeInv, LockInv
  <1>1. PICK r \in Query("BEGIN", <<msg[t], step[t]>>) :
          /\ Ask(t, "BEGIN", r)
          /\ \/ /\ r.ok
                /\ transaction' = TRUE
                /\ Acquire(t)
                /\ Goto(t, IF level[t] = "user" THEN "disable" ELSE "query")
                /\ UNCHANGED <<life, ghostVars>>
             \/ /\ ~r.ok
                /\ transaction' = r.transaction
                /\ StartFails(t)
    BY DEF BeginTransaction
  <1>2. /\ pc[t] = "begin" /\ owner = NoThread /\ t \notin userTx /\ depth = 0
        /\ ~transaction /\ session = Settled(session.stored)
        /\ UNCHANGED <<disabled, level, op>>
    BY BeginCases DEF BeginTransaction
  <1>3. /\ connected' = r.connected /\ session' = r.session
    BY <1>1 DEF Ask
  <1>4. CASE r.ok
    <2>1. /\ connected' /\ session'.tx = "open"
      BY <1>2, <1>3, <1>4, BeginAnswer, QueryBits, Fields DEF SoundUse
    <2>2. /\ transaction' = TRUE /\ owner' = t /\ depth' = 1 /\ life' = life
          /\ userTx' = userTx /\ failed' = failed
          /\ Moves(t, IF level[t] = "user" THEN "disable" ELSE "query")
      BY <1>1, <1>2, <1>4, GotoMoves DEF Acquire, ghostVars
    <2>3. MutexBalanced'
      BY <1>2, <2>2, ThreadsAssumption
         DEF MutexBalanced, InsideTransaction, ControlInv, Moves, TypeOK
    <2>4. ControlInv' /\ FlagInv'
      BY <1>2, <2>2 DEF ControlInv, FlagInv, Moves, TypeOK
    <2>5. SessionInv'
      BY <1>2, <2>1, <2>2, ThreadsAssumption DEF SessionInv, NoErrorYet, Moves, TypeOK
    <2>6. QED BY <2>2, <2>3, <2>4, <2>5, ThreadsAssumption DEF FreeMutexSettled, NeverAborts
  <1>5. CASE ~r.ok
    <2>1. session' = session
      BY <1>2, <1>3, <1>5, BeginAnswer DEF SoundUse
    <2>2. ~transaction'
      BY <1>1, <1>2, <1>5, QueryBits DEF SoundUse
    <2>3. /\ UNCHANGED <<owner, depth, life>> /\ userTx' = userTx /\ failed' = failed
          /\ Moves(t, "idle")
      BY <1>1, <1>2, <1>5, StartFailsMoves
    <2>4. MutexBalanced'
      BY <1>2, <2>3 DEF MutexBalanced, InsideTransaction, ControlInv, Moves
    <2>5. ControlInv' /\ FlagInv'
      BY <1>2, <2>3 DEF ControlInv, FlagInv, Moves
    <2>6. SessionInv'
      BY <1>2, <2>1, <2>3, ThreadsAssumption DEF SessionInv, NoErrorYet
    <2>7. QED BY <1>2, <2>1, <2>2, <2>3, <2>4, <2>5, <2>6 DEF FreeMutexSettled, NeverAborts
  <1>6. QED BY <1>4, <1>5

\* A query of an insert or a delete finds its transaction open, and its failure
\* sends the thread to abort it; a read may run on a settled session.
LEMMA QueryLock ==
  ASSUME SoundUse, IInv, NEW t \in Threads, MessageQuery(t)
  PROVE  LockInv'
  <1> USE DEF IInv, TypeInv, LockInv
  <1>1. PICK r \in Query(op[t], <<msg[t], step[t]>>) :
          /\ Ask(t, op[t], r)
          /\ transaction' = r.transaction
          /\ \/ /\ r.ok
                /\ \/ UNCHANGED <<pc, ghostVars>>
                   \/ op[t] = "get" /\ Return(t, TRUE)
                   \/ op[t] # "get" /\ Goto(t, "end") /\ UNCHANGED ghostVars
             \/ /\ ~r.ok
                /\ \/ op[t] = "get" /\ Return(t, FALSE)
                   \/ op[t] # "get" /\ Goto(t, "abort") /\ UNCHANGED ghostVars
    BY DEF MessageQuery, SoundUse, Tolerated
  <1>2. /\ pc[t] = "query" /\ level[t] = "internal" /\ t \notin failed
        /\ UNCHANGED <<owner, depth, life, disabled, level, op>>
        /\ op[t] \in Ops
    BY DEF MessageQuery, KeepLock, ControlInv, TypeOK
  <1>3. connected' = r.connected /\ session' = r.session
    BY <1>1 DEF Ask
  <1>4. userTx' = userTx
    BY <1>1 DEF Return, ghostVars
  <1>5. CASE owner = t
    <2>1. connected /\ session.tx = "open" /\ transaction
      BY <1>2, <1>5 DEF SessionInv, NoErrorYet
    <2>2. transaction'
      BY <1>1, <2>1, QueryBits DEF SoundUse, TypeOK
    <2>3. ~connected' => session' = Settled(session'.stored)
      BY <1>2, <1>3, <2>1, OpenAnswer DEF SoundUse
    <2>4. op[t] = "get" => t \in userTx
      BY <1>2, <1>5 DEF MutexBalanced, InsideTransaction
    <2>5. CASE r.ok
      <3>1. connected' /\ session'.tx = "open"
        BY <1>2, <1>3, <2>1, <2>5, OpenAnswer, QueryBits, Fields DEF SoundUse
      <3>2. /\ failed' = failed
            /\ \/ Moves(t, "query")
               \/ op[t] = "get" /\ Moves(t, "idle")
               \/ op[t] # "get" /\ Moves(t, "end")
        BY <1>1, <1>2, <2>5, GotoMoves, ReturnMoves DEF ghostVars, Moves
      <3>3. MutexBalanced'
        BY <1>2, <1>4, <2>4, <3>2 DEF MutexBalanced, InsideTransaction, Moves
      <3>4. ControlInv' /\ FlagInv'
        BY <1>2, <1>4, <3>2 DEF ControlInv, FlagInv, Moves
      <3>5. SessionInv'
        BY <1>2, <1>5, <2>2, <2>3, <3>1, <3>2 DEF SessionInv, NoErrorYet, Moves
      <3>6. QED BY <1>2, <1>5, <3>3, <3>4, <3>5, ThreadsAssumption
                DEF FreeMutexSettled, NeverAborts
    <2>6. CASE ~r.ok
      <3>1. \/ op[t] = "get" /\ Moves(t, "idle") /\ failed' = failed \cup {t}
            \/ op[t] # "get" /\ Moves(t, "abort") /\ failed' = failed
        BY <1>1, <2>4, <2>6, GotoMoves, ReturnMoves DEF ghostVars
      <3>2. MutexBalanced'
        BY <1>2, <1>4, <2>4, <3>1 DEF MutexBalanced, InsideTransaction, Moves
      <3>3. ControlInv' /\ FlagInv'
        BY <1>2, <1>4, <2>4, <3>1 DEF ControlInv, FlagInv, Moves
      <3>4. SessionInv'
        BY <1>2, <1>5, <2>2, <2>3, <3>1 DEF SessionInv, NoErrorYet, Moves
      <3>5. QED BY <1>2, <1>5, <3>2, <3>3, <3>4, ThreadsAssumption
                DEF FreeMutexSettled, NeverAborts
    <2>7. QED BY <2>5, <2>6
  <1>6. CASE owner # t
    <2>1. /\ owner = NoThread /\ t \notin userTx /\ op[t] = "get"
          /\ ~transaction /\ session = Settled(session.stored)
      BY <1>2, <1>6 DEF MessageQuery, CanLock, MutexBalanced, InsideTransaction, FreeMutexSettled
    <2>2. session' = session /\ ~transaction'
      BY <1>1, <1>3, <2>1, GetAnswer, QueryBits DEF SoundUse
    <2>3. failed' = failed /\ (Moves(t, "idle") \/ Moves(t, "query"))
      BY <1>1, <1>2, <2>1, ReturnMoves DEF ghostVars, Moves
    <2>4. MutexBalanced'
      BY <1>2, <1>4, <2>1, <2>3 DEF MutexBalanced, InsideTransaction, Moves
    <2>5. ControlInv' /\ FlagInv'
      BY <1>2, <1>4, <2>3 DEF ControlInv, FlagInv, Moves
    <2>6. SessionInv'
      BY <1>2, <2>1, <2>2, ThreadsAssumption DEF SessionInv, NoErrorYet
    <2>7. QED BY <1>2, <2>1, <2>2, <2>4, <2>5, <2>6 DEF FreeMutexSettled, NeverAborts
  <1>7. QED BY <1>5, <1>6

\* A start nested in the caller's own transaction changes nothing.
LEMMA NestedLock ==
  ASSUME SoundUse, IInv, NEW t \in Threads, AlreadyInTransaction(t)
  PROVE  LockInv'
  <1> USE DEF IInv, TypeInv, LockInv
  <1>1. owner = t /\ t \in userTx /\ level[t] = "user" /\ pc[t] = "begin"
    BY BeginCases DEF AlreadyInTransaction
  <1>2. /\ UNCHANGED <<connected, transaction, session, disabled, level, op, owner, depth, life>>
        /\ userTx' = userTx /\ failed' = failed /\ Moves(t, "idle")
    BY <1>1, GotoMoves DEF AlreadyInTransaction, StartFails, KeepLock, ghostVars
  <1>3. MutexBalanced'
    BY <1>1, <1>2 DEF MutexBalanced, InsideTransaction, Moves
  <1>4. ControlInv' /\ FlagInv'
    BY <1>1, <1>2 DEF ControlInv, FlagInv, Moves
  <1>5. SessionInv'
    BY <1>1, <1>2 DEF SessionInv, NoErrorYet, Moves
  <1>6. QED BY <1>2, <1>3, <1>4, <1>5 DEF FreeMutexSettled, NeverAborts

\* When a transaction comes to be closed the bit is still set exactly for the
\* thread that holds the mutex: NOT_IN_TRANSACTION, which does not unlock, is
\* returned only to a thread with nothing to unlock.
LEMMA CheckLock ==
  ASSUME SoundUse, IInv, NEW t \in Threads,
         NotInTransaction(t) \/ InTransaction(t)
  PROVE  LockInv'
  <1> USE DEF IInv, TypeInv, LockInv
  <1>1. pc[t] \in {"check_end", "check_abort"}
    BY DEF NotInTransaction, InTransaction
  <1>2. CASE owner = t
    <2>1. transaction /\ (level[t] = "user" => t \in userTx)
      BY <1>1, <1>2 DEF SessionInv, MutexBalanced, InsideTransaction
    <2>2. /\ UNCHANGED <<connected, session, owner, depth, disabled, life, level, op>>
          /\ userTx' = userTx /\ failed' = failed
          /\ \/ pc[t] = "check_end" /\ Moves(t, "commit") /\ transaction'
             \/ pc[t] = "check_abort" /\ Moves(t, "rollback") /\ ~transaction'
      BY <1>1, <2>1, GotoMoves DEF NotInTransaction, InTransaction, ghostVars
    <2>3. MutexBalanced'
      BY <1>1, <2>2 DEF MutexBalanced, InsideTransaction, Moves
    <2>4. ControlInv' /\ FlagInv'
      BY <1>1, <2>1, <2>2 DEF ControlInv, FlagInv, Moves
    <2>5. SessionInv'
      BY <1>1, <1>2, <2>2 DEF SessionInv, NoErrorYet, Moves
    <2>6. QED BY <1>2, <2>2, <2>3, <2>4, <2>5, ThreadsAssumption
              DEF FreeMutexSettled, NeverAborts
  <1>3. CASE owner # t
    <2>1. t \notin userTx /\ level[t] = "user" /\ t \in UserThreads
      BY <1>1, <1>3 DEF MutexBalanced, InsideTransaction, ControlInv, TypeOK
    <2>2. owner = NoThread
      BY <1>3, <2>1, Alone DEF TypeOK
    <2>3. ~transaction
      BY <2>2 DEF FreeMutexSettled
    <2>4. /\ UNCHANGED <<sqlVars, level, op>>
          /\ userTx' = userTx /\ failed' = failed /\ Moves(t, "enable")
      BY <1>1, <2>1, <2>3, GotoMoves DEF NotInTransaction, InTransaction, Leave
    <2>5. MutexBalanced'
      BY <1>1, <2>1, <2>4 DEF MutexBalanced, InsideTransaction, Moves, sqlVars
    <2>6. ControlInv' /\ FlagInv'
      BY <1>1, <2>1, <2>4 DEF ControlInv, FlagInv, Moves, sqlVars
    <2>7. SessionInv'
      BY <2>2, <2>4, ThreadsAssumption DEF SessionInv, NoErrorYet, sqlVars
    <2>8. QED BY <2>4, <2>5, <2>6, <2>7 DEF FreeMutexSettled, NeverAborts, sqlVars
  <1>4. QED BY <1>2, <1>3

\* The end of a transaction: the mutex is free again, the bit is clear and the
\* server has settled, whatever was answered.
LEMMA EndLock ==
  ASSUME SoundUse, IInv, NEW t \in Threads,
         CommitTransaction(t) \/ NoRollback(t) \/ RollbackTransaction(t)
  PROVE  LockInv'
  <1> USE DEF IInv, TypeInv, LockInv
  <1>1. /\ pc[t] \in {"commit", "rollback"}
        /\ UNCHANGED <<disabled, level, op>>
        /\ Release(t)
        /\ \E ok, doubt : Leave(t, ok, doubt)
    BY DEF CommitTransaction, NoRollback, RollbackTransaction
  <1>2. /\ owner = t /\ owner' = NoThread /\ depth' = 0 /\ life' = life
        /\ userTx' = userTx /\ failed' = failed
        /\ level[t] = "internal" => Moves(t, "idle") /\ t \notin userTx
        /\ level[t] = "user" => Moves(t, "enable") /\ t \in userTx
    BY <1>1, LeaveMoves
  <1>3. session' = Settled(session'.stored) /\ ~transaction'
    <2>1. CASE CommitTransaction(t)
      <3>1. PICK r \in Query("COMMIT", <<msg[t], step[t]>>) :
              session' = r.session /\ transaction' = FALSE
        BY <2>1 DEF CommitTransaction, Ask
      <3>2. connected /\ session.tx = "open"
        BY <1>2, <2>1 DEF CommitTransaction, SessionInv, NoErrorYet, ControlInv
      <3>3. QED BY <3>1, <3>2, CommitAnswer, Fields DEF SoundUse
    <2>2. CASE NoRollback(t)
      BY <1>2, <2>2 DEF NoRollback, SessionInv
    <2>3. CASE RollbackTransaction(t)
      <3>1. PICK r \in Query("ROLLBACK", <<msg[t], step[t]>>) :
              session' = r.session /\ transaction' = r.transaction
        BY <2>3 DEF RollbackTransaction, Ask
      <3>2. ~transaction
        BY <1>2, <2>3 DEF RollbackTransaction, SessionInv
      <3>3. ~connected => session = Settled(session.stored)
        BY DEF SessionInv
      <3>4. session' = Settled(session.stored)
        BY <3>1, <3>3, RollbackAnswer DEF SoundUse
      <3>5. ~transaction'
        BY <3>1, <3>2, QueryBits DEF SoundUse
      <3>6. QED BY <3>4, <3>5, Fields
    <2>4. QED BY <2>1, <2>2, <2>3
  <1>4. level[t] \in {"internal", "user"}
    BY DEF TypeOK
  <1>5. MutexBalanced'
    BY <1>1, <1>2, <1>4, ThreadsAssumption DEF MutexBalanced, InsideTransaction, Moves
  <1>6. ControlInv' /\ FlagInv'
    BY <1>1, <1>2, <1>4 DEF ControlInv, FlagInv, Moves
  <1>7. SessionInv'
    BY <1>2, <1>3, ThreadsAssumption DEF SessionInv, NoErrorYet
  <1>8. QED BY <1>2, <1>3, <1>5, <1>6, <1>7 DEF FreeMutexSettled, NeverAborts

\* requiemdb_transaction_start and _end switch the flag of an object they have to
\* themselves.
LEMMA SwitchLock ==
  ASSUME SoundUse, IInv, NEW t \in Threads,
         DisableInternal(t) \/ EnableInternal(t)
  PROVE  LockInv'
  <1> USE DEF IInv, TypeInv, LockInv
  <1>1. UNCHANGED <<connected, transaction, session, owner, depth, life, level, op>>
    BY DEF DisableInternal, EnableInternal
  <1>2. Threads = {t}
    BY Alone DEF DisableInternal, EnableInternal, ControlInv, FlagInv
  <1>3. CASE DisableInternal(t)
    <2>1. /\ pc[t] = "disable" /\ Moves(t, "idle") /\ failed' = failed
          /\ disabled' = TRUE /\ userTx' = userTx \cup {t} /\ t \in UserThreads
      BY <1>3, GotoMoves DEF DisableInternal, ControlInv
    <2>2. MutexBalanced'
      BY <1>1, <1>2, <2>1 DEF MutexBalanced, InsideTransaction, Moves
    <2>3. ControlInv' /\ FlagInv'
      BY <1>1, <1>2, <2>1 DEF ControlInv, FlagInv, Moves
    <2>4. SessionInv'
      BY <1>1, <1>2, <2>1 DEF SessionInv, NoErrorYet, Moves
    <2>5. QED BY <1>1, <2>2, <2>3, <2>4 DEF FreeMutexSettled, NeverAborts
  <1>4. CASE EnableInternal(t)
    <2>1. /\ pc[t] = "enable" /\ Moves(t, "idle") /\ failed' = failed \ {t}
          /\ disabled' = FALSE /\ userTx' = userTx \ {t} /\ level[t] = "user"
      BY <1>4, GotoMoves DEF EnableInternal, ControlInv
    <2>2. userTx' = {} /\ failed' = {}
      BY <1>2, <2>1 DEF TypeOK
    <2>3. MutexBalanced'
      BY <1>1, <1>2, <2>1, <2>2 DEF MutexBalanced, InsideTransaction, Moves
    <2>4. ControlInv' /\ FlagInv'
      BY <1>1, <1>2, <2>1, <2>2 DEF ControlInv, FlagInv, Moves
    <2>5. owner = NoThread
      BY <1>2, <2>1 DEF MutexBalanced, InsideTransaction, TypeOK
    <2>6. SessionInv'
      BY <1>1, <2>5, ThreadsAssumption DEF SessionInv, NoErrorYet
    <2>7. QED BY <1>1, <2>3, <2>4, <2>6 DEF FreeMutexSettled, NeverAborts
  <1>5. QED BY <1>3, <1>4

\* A thread that starts a call, or opens or closes a transaction of its own.
LEMMA InvokeLock ==
  ASSUME SoundUse, IInv, NEW t \in Threads, Invoke(t)
  PROVE  LockInv'
  <1> USE DEF IInv, TypeInv, LockInv
  <1>1. /\ UNCHANGED <<connected, transaction, session, owner, depth, disabled, life>>
        /\ userTx' = userTx /\ failed' = failed
        /\ pc[t] = "idle"
    BY DEF Invoke, Call, UserStart, UserFinish, sqlVars, ghostVars
  <1>2. ASSUME NEW o \in Ops, NEW m \in Messages, Call(t, o, m)
        PROVE  LockInv'
    <2>1. /\ Moves(t, IF o = "get" THEN "query" ELSE "start")
          /\ op' = [op EXCEPT ![t] = o] /\ level' = [level EXCEPT ![t] = "internal"]
          /\ t \notin failed
      BY <1>2, GotoMoves DEF Call
    <2>2. MutexBalanced'
      BY <1>1, <2>1 DEF MutexBalanced, InsideTransaction, Moves, TypeOK
    <2>3. ControlInv' /\ FlagInv'
      BY <1>1, <2>1 DEF ControlInv, FlagInv, Moves, TypeOK
    <2>4. SessionInv'
      BY <1>1, <2>1 DEF SessionInv, NoErrorYet, Moves
    <2>5. QED BY <1>1, <2>2, <2>3, <2>4 DEF FreeMutexSettled, NeverAborts
  <1>3. ASSUME NEW label \in {"begin", "check_end", "check_abort"},
               \/ UserStart(t) /\ label = "begin"
               \/ label # "begin" /\ UserFinish(t, label)
        PROVE  LockInv'
    <2>1. /\ Moves(t, label)
          /\ op' = op /\ level' = [level EXCEPT ![t] = "user"]
          /\ t \in UserThreads
          /\ label = "check_end" => t \notin failed
      BY <1>3, GotoMoves DEF UserStart, UserFinish
    <2>2. MutexBalanced'
      BY <1>1, <2>1 DEF MutexBalanced, InsideTransaction, Moves, TypeOK
    <2>3. ControlInv' /\ FlagInv'
      BY <1>1, <2>1 DEF ControlInv, FlagInv, Moves, TypeOK
    <2>4. SessionInv'
      BY <1>1, <2>1 DEF SessionInv, NoErrorYet, Moves
    <2>5. QED BY <1>1, <2>2, <2>3, <2>4 DEF FreeMutexSettled, NeverAborts
  <1>4. QED BY <1>2, <1>3 DEF Invoke

\* The object is only destroyed when nobody holds its mutex.
LEMMA DestroyLock ==
  ASSUME IInv, Destroy
  PROVE  LockInv'
  <1> USE DEF IInv, TypeInv, LockInv
  <1>1. owner = NoThread
    BY DEF Destroy, MutexBalanced, InsideTransaction, TypeOK
  <1>2. /\ session' = Settled(session'.stored) /\ connected' = FALSE
        /\ life' = "destroyed"
        /\ UNCHANGED <<transaction, owner, depth, disabled, pc, level, op, userTx, failed>>
    BY <1>1, Fields DEF Destroy, threadVars, ghostVars
  <1>3. MutexBalanced'
    BY <1>2 DEF MutexBalanced, InsideTransaction
  <1>4. ControlInv' /\ FlagInv'
    BY <1>2 DEF ControlInv, FlagInv
  <1>5. SessionInv'
    BY <1>1, <1>2, ThreadsAssumption DEF SessionInv, NoErrorYet
  <1>6. QED BY <1>1, <1>2, <1>3, <1>4, <1>5 DEF FreeMutexSettled, NeverAborts

-----------------------------------------------------------------------------
(***************************************************************************)
(* Theorems                                                                *)
(***************************************************************************)

\* The initial state satisfies the lock invariant.
LEMMA InitLock == Init => IInv
  <1> SUFFICES ASSUME Init PROVE IInv
    OBVIOUS
  <1>1. MutexBalanced
    BY ThreadsAssumption DEF Init, MutexBalanced, InsideTransaction
  <1>2. ControlInv /\ FlagInv
    BY DEF Init, ControlInv, FlagInv
  <1>3. session = Settled(session.stored)
    BY Fields DEF Init
  <1>4. SessionInv
    BY <1>3, ThreadsAssumption DEF Init, SessionInv, NoErrorYet
  <1>5. FreeMutexSettled /\ NeverAborts
    BY <1>3 DEF Init, FreeMutexSettled, NeverAborts
  <1>6. QED BY <1>1, <1>2, <1>4, <1>5, InitType DEF IInv, LockInv

\* Every step of a sound use preserves it.
LEMMA NextLock ==
  ASSUME SoundUse
  PROVE  IInv /\ [Next]_vars => IInv'
  <1> SUFFICES ASSUME IInv, [Next]_vars PROVE LockInv'
    BY NextType DEF IInv
  <1>1. ASSUME NEW t \in Threads, Step(t)
        PROVE  LockInv'
    <2>1. QED BY <1>1, FlagReadLock, BeginLock, NestedLock, QueryLock, CheckLock, EndLock, SwitchLock
              DEF Step
  <1>2. CASE UNCHANGED vars
    BY <1>2 DEF vars, IInv, LockInv, MutexBalanced, InsideTransaction, FreeMutexSettled,
                NeverAborts, ControlInv, FlagInv, SessionInv, NoErrorYet
  <1>3. QED BY <1>1, <1>2, InvokeLock, DestroyLock DEF Next, Finished

\* In a sound use the invariant holds in every reachable state: the mutex of the
\* sql object, its TRANSACTION bit and the server agree on whether a transaction
\* is open, whatever errors, lost connections and reconnections occur.
THEOREM LockCorrect ==
  ASSUME SoundUse
  PROVE  Spec => []LockInv
  <1>1. IInv => LockInv
    BY DEF IInv
  <1>2. QED BY <1>1, InitLock, NextLock, PTL DEF Spec

\* In a sound use every start of a transaction is matched by one release of the
\* mutex, whichever early return is taken.
THEOREM MutexCorrect ==
  ASSUME SoundUse
  PROVE  Spec => []MutexBalanced
  <1>1. LockInv => MutexBalanced
    BY DEF LockInv
  <1>2. QED BY <1>1, LockCorrect, PTL

\* In a sound use a thread that finds the mutex free finds no transaction open,
\* neither in the library's status nor on the server.
THEOREM SettledCorrect ==
  ASSUME SoundUse
  PROVE  Spec => []FreeMutexSettled
  <1>1. LockInv => FreeMutexSettled
    BY DEF LockInv
  <1>2. QED BY <1>1, LockCorrect, PTL

\* In a sound use neither an unlock nor the destruction of the object aborts the
\* process.
THEOREM NoAbort ==
  ASSUME SoundUse
  PROVE  Spec => []NeverAborts
  <1>1. LockInv => NeverAborts
    BY DEF LockInv
  <1>2. QED BY <1>1, LockCorrect, PTL

\* In a sound use requiemdb_sql_transaction_start keeps its word: every query of
\* an insertion or a deletion that can run runs inside a transaction.
THEOREM InsideCorrect ==
  ASSUME SoundUse
  PROVE  Spec => []QueriesInsideTransaction
  <1>1. LockInv => QueriesInsideTransaction
    <2> SUFFICES ASSUME LockInv, NEW t \in Threads, pc[t] = "query", op[t] # "get"
                 PROVE  session.tx # "none"
      BY DEF QueriesInsideTransaction
    <2>1. level[t] = "internal" /\ t \notin failed
      BY DEF LockInv, ControlInv
    <2>2. InsideTransaction(t)
      BY <2>1 DEF InsideTransaction
    <2>3. owner = t
      BY <2>2 DEF LockInv, MutexBalanced
    <2>4. NoErrorYet(t)
      BY <2>1, <2>3 DEF NoErrorYet
    <2>5. QED BY <2>4 DEF LockInv, SessionInv
  <1>2. QED BY <1>1, LockCorrect, PTL

-----------------------------------------------------------------------------
(***************************************************************************)
(* The rows of a message                                                   *)
(***************************************************************************)

\* Whole, absent and neither, told by the queries whose rows are there.
LEMMA PartRows ==
  ASSUME NEW m, NEW rows
  PROVE  /\ RowsOf(m) \subseteq rows <=> Part(m, rows) = Statements
         /\ RowsOf(m) \cap rows = {} <=> Part(m, rows) = {}
         /\ RowsOf(m) \cap rows \in {{}, RowsOf(m)} <=> Part(m, rows) \in {{}, Statements}
  <1>1. RowsOf(m) \subseteq rows <=> Part(m, rows) = Statements
    BY DEF RowsOf, Part
  <1>2. RowsOf(m) \cap rows = {} <=> Part(m, rows) = {}
    BY DEF RowsOf, Part
  <1>3. RowsOf(m) \cap rows = RowsOf(m) <=> RowsOf(m) \subseteq rows
    OBVIOUS
  <1>4. QED BY <1>1, <1>2, <1>3

\* A query changes the row it is about and no other.
LEMMA PartEffect ==
  ASSUME NEW m, NEW n, NEW i \in Statements, NEW rows
  PROVE  /\ Part(m, Effect("insert", <<m, i>>, rows)) = Part(m, rows) \cup {i}
         /\ Part(m, Effect("delete", <<m, i>>, rows)) = Part(m, rows) \ {i}
         /\ \A kind : Effect(kind, <<m, i>>, rows) = rows \/ kind \in {"insert", "delete"}
         /\ n # m => \A kind : Part(n, Effect(kind, <<m, i>>, rows)) = Part(n, rows)
  BY DEF Part, Effect

\* The statements counted from the first and from the last.
LEMMA Counting ==
  ASSUME NEW i \in Statements
  PROVE  /\ (1..(i - 1)) \cup {i} = 1..i
         /\ (i..NStatements) \ {i} = (i + 1)..NStatements
         /\ 1..(1 - 1) = {} /\ 1..NStatements = Statements
         /\ 1..(NStatements + 1 - 1) = Statements
         /\ (NStatements + 1)..NStatements = {}
         /\ Statements # {}
  <1> USE MessagesAssumption DEF Statements
  <1>1. (1..(i - 1)) \cup {i} = 1..i
    OBVIOUS
  <1>2. (i..NStatements) \ {i} = (i + 1)..NStatements
    OBVIOUS
  <1>3. 1..(1 - 1) = {} /\ 1..NStatements = Statements
    OBVIOUS
  <1>4. (NStatements + 1)..NStatements = {} /\ NStatements + 1 - 1 = NStatements
    OBVIOUS
  <1>5. QED BY <1>1, <1>2, <1>3, <1>4

-----------------------------------------------------------------------------
(***************************************************************************)
(* What a step of one thread leaves alone                                  *)
(***************************************************************************)

\* The local state of the other threads is theirs.
Frame(t) ==
  \A u \in Threads \ {t} :
    /\ pc'[u] = pc[u] /\ level'[u] = level[u] /\ op'[u] = op[u] /\ msg'[u] = msg[u]
    /\ step'[u] = step[u] /\ seen'[u] = seen[u] /\ batch'[u] = batch[u]
    /\ u \in failed' <=> u \in failed
    /\ u \in userTx' <=> u \in userTx

\* The return of a call of thread t leaves the other threads where they are, and closes no transaction.
LEMMA ReturnFrame ==
  ASSUME TypeOK, NEW t \in Threads, NEW ok, Return(t, ok)
  PROVE  /\ \A u \in Threads \ {t} : pc'[u] = pc[u] /\ batch'[u] = batch[u]
         /\ \A u \in Threads \ {t} : u \in failed' <=> u \in failed
         /\ userTx' = userTx
  BY DEF Return, Goto, TypeOK

\* So does leaving a transaction of the library or of the caller (Leave).
LEMMA LeaveFrame ==
  ASSUME TypeOK, NEW t \in Threads, NEW ok, NEW doubt, Leave(t, ok, doubt)
  PROVE  /\ \A u \in Threads \ {t} : pc'[u] = pc[u] /\ batch'[u] = batch[u]
         /\ \A u \in Threads \ {t} : u \in failed' <=> u \in failed
         /\ userTx' = userTx
  BY ReturnFrame DEF Leave, Goto, TypeOK

\* A step of t changes the local state of t only.
LEMMA StepFrame ==
  ASSUME TypeOK, NEW t \in Threads, Invoke(t) \/ Step(t)
  PROVE  Frame(t)
  <1> USE DEF Frame
  <1>1. CASE Invoke(t)
    BY <1>1 DEF Invoke, Call, UserStart, UserFinish, Goto, TypeOK, ghostVars
  <1>2. CASE TransactionStart(t) \/ InTransaction(t)
    BY <1>2 DEF TransactionStart, InTransaction, Goto, TypeOK, ghostVars
  <1>3. CASE TransactionEnd(t) \/ TransactionAbort(t)
    BY <1>3, ReturnFrame DEF TransactionEnd, TransactionAbort, Goto, TypeOK, ghostVars
  <1>4. CASE AlreadyInTransaction(t)
    BY <1>4, ReturnFrame DEF AlreadyInTransaction, StartFails, Goto, TypeOK, ghostVars
  <1>5. CASE BeginTransaction(t)
    BY <1>5, ReturnFrame DEF BeginTransaction, StartFails, Goto, TypeOK, ghostVars
  <1>6. CASE MessageQuery(t)
    <2>1. /\ UNCHANGED <<level, op, msg>>
          /\ \A u \in Threads \ {t} : step'[u] = step[u] /\ seen'[u] = seen[u]
          /\ \/ UNCHANGED <<pc, ghostVars>>
             \/ \E ok : Return(t, ok)
             \/ \E label : Goto(t, label) /\ UNCHANGED ghostVars
      BY <1>6 DEF MessageQuery, TypeOK
    <2>2. QED BY <2>1, ReturnFrame DEF Goto, TypeOK, ghostVars
  <1>7. CASE NotInTransaction(t)
    BY <1>7, LeaveFrame DEF NotInTransaction
  <1>8. CASE CommitTransaction(t) \/ NoRollback(t) \/ RollbackTransaction(t)
    BY <1>8, LeaveFrame DEF CommitTransaction, NoRollback, RollbackTransaction
  <1>9. CASE DisableInternal(t) \/ EnableInternal(t)
    BY <1>9 DEF DisableInternal, EnableInternal, Goto, TypeOK
  <1>10. QED BY <1>1, <1>2, <1>3, <1>4, <1>5, <1>6, <1>7, <1>8, <1>9 DEF Step

-----------------------------------------------------------------------------
(***************************************************************************)
(* The invariant, one thread and one message at a time                     *)
(***************************************************************************)

SInv == IInv /\ StoreInv

\* AnswerInv for message m.
Told(m) ==
  LET rows == Part(m, session.stored)
  IN  /\ rows \in {{}, Statements}
      /\ outcome[m] = "ok" /\ m \notin erased => rows = Statements
      /\ outcome[m] = "error" /\ m \notin inDoubt => rows = {}
      /\ outcome[m] # "none" => m \notin Preloaded
      /\ outcome[m] \in {"none", "busy"} /\ m \notin Preloaded => rows = {} /\ m \notin erased

\* AnswerInv, message by message.
LEMMA AnswerTold ==
  /\ AnswerInv <=> \A m \in Messages : Told(m)
  /\ AnswerInv' <=> \A m \in Messages : Told(m)'
  BY PartRows DEF AnswerInv, WholeMessages, SuccessIsDurable, FailureLeavesNothing, Told

\* ReadInv for thread t.
ReadsWell(t) ==
  op[t] = "get" =>
    /\ \A i \in seen[t] : 1..i \subseteq seen[t]
    /\ pc[t] = "query" /\ msg[t] \notin erased => seen[t] = 1..(step[t] - 1)
    /\ pc[t] = "query" => Reading(t)

\* ReadInv, thread by thread.
LEMMA ReadsByThread ==
  /\ ReadInv <=> \A t \in Threads : ReadsWell(t)
  /\ ReadInv' <=> \A t \in Threads : ReadsWell(t)'
  BY DEF ReadInv, ReadsCutOnce, ReadsWell

\* A message whose insertion was answered, or that was there at first: nobody
\* inserts it any more.
Old(m) == m \in Preloaded \/ outcome[m] \in {"ok", "error"}

\* What a step of t may do to what the others know: it answers only insertions that
\* are its own, it does not touch the session of the thread that holds the mutex, and
\* of the messages of old it removes only the ones somebody asked to delete.
Isolated(t) ==
  /\ erased \subseteq erased'
  /\ \A m \in Messages :
       outcome'[m] # outcome[m] =>
         \/ outcome[m] = "none"
         \/ InCall(t, "insert") /\ m = msg[t]
         \/ m \in batch[t] /\ pc[t] # "enable"
  /\ \A u \in Threads \ {t} :
       /\ owner' = u <=> owner = u
       /\ owner = u => session' = session
  /\ \A m \in Messages :
       Old(m) => \/ Part(m, session'.stored) = Part(m, session.stored)
                 \/ m \in erased /\ Part(m, session'.stored) = {}

\* A thread with messages in its own transaction has the object to itself.
LEMMA BatchAlone ==
  ASSUME SoundUse, SInv, NEW t \in Threads, batch[t] # {}
  PROVE  Threads = {t}
  BY Alone DEF SInv, StoreInv, ClaimInv, Claim

\* Such a step leaves alone what the insertions and deletions of the others claim...
LEMMA OthersClaim ==
  ASSUME SoundUse, SInv, NEW t \in Threads, Frame(t), Isolated(t),
         NEW u \in Threads \ {t}
  PROVE  Claim(u)'
  <1> USE DEF SInv, StoreInv
  <1>1. Claim(u) /\ batch[t] = {}
    BY BatchAlone DEF ClaimInv
  <1>2. /\ pc'[u] = pc[u] /\ level'[u] = level[u] /\ op'[u] = op[u] /\ msg'[u] = msg[u]
        /\ step'[u] = step[u] /\ batch'[u] = batch[u] /\ (u \in userTx' <=> u \in userTx)
    BY DEF Frame
  <1>3. \A o : InCall(u, o)' <=> InCall(u, o)
    BY <1>2 DEF InCall
  <1>4. ASSUME InCall(u, "insert")
        PROVE  outcome'[msg[u]] = "busy"
    <2>1. InCall(t, "insert") => msg[t] # msg[u]
      BY <1>4 DEF ClaimInv
    <2>2. msg[u] \in Messages /\ outcome[msg[u]] = "busy"
      BY <1>1, <1>4 DEF Claim, IInv, TypeInv, TypeOK
    <2>3. QED BY <1>1, <2>1, <2>2 DEF Isolated
  <1>5. batch[u] = {}
    BY BatchAlone
  <1>6. QED BY <1>1, <1>2, <1>3, <1>4, <1>5 DEF Claim, Isolated

\* ... what is in the work of their transactions ...
LEMMA OthersWork ==
  ASSUME SInv, NEW t \in Threads, Frame(t), Isolated(t),
         NEW u \in Threads \ {t}, NoErrorYet(u)', NEW m \in Messages
  PROVE  Worked(u, m)'
  <1>1. /\ pc'[u] = pc[u] /\ level'[u] = level[u] /\ op'[u] = op[u] /\ msg'[u] = msg[u]
        /\ step'[u] = step[u] /\ batch'[u] = batch[u] /\ (u \in failed' <=> u \in failed)
    BY DEF Frame
  <1>2. owner = u /\ session' = session /\ erased \subseteq erased'
    BY DEF Isolated, NoErrorYet
  <1>3. NoErrorYet(u)
    BY <1>1, <1>2 DEF NoErrorYet
  <1>4. Worked(u, m)
    BY <1>3 DEF SInv, StoreInv, WorkInv
  <1>5. Reached(u)' = Reached(u) /\ \A o : InCall(u, o)' <=> InCall(u, o)
    BY <1>1 DEF InCall, Reached
  <1>6. QED BY <1>1, <1>2, <1>4, <1>5 DEF Worked

\* ... and what their reads rely on.
LEMMA OthersRead ==
  ASSUME SoundUse, SInv, NEW t \in Threads, Frame(t), Isolated(t),
         NEW u \in Threads \ {t}
  PROVE  ReadsWell(u)'
  <1> USE DEF SInv, StoreInv
  <1>1. ReadsWell(u)
    BY ReadsByThread
  <1>2. /\ pc'[u] = pc[u] /\ op'[u] = op[u] /\ msg'[u] = msg[u]
        /\ step'[u] = step[u] /\ seen'[u] = seen[u]
    BY DEF Frame
  <1>3. msg[u] \in Messages /\ erased \subseteq erased'
    BY DEF Isolated, IInv, TypeInv, TypeOK
  <1>4. ASSUME op[u] = "get", pc[u] = "query", Reading(u)
        PROVE  Reading(u)'
    <2>1. Old(msg[u])
      BY <1>4 DEF Reading, Old
    <2>2. outcome[msg[u]] \in {"ok", "error"} => outcome'[msg[u]] = outcome[msg[u]]
      <3>1. InCall(t, "insert") => outcome[msg[t]] = "busy"
        BY DEF ClaimInv, Claim
      <3>2. pc[t] # "enable" => \A m \in batch[t] : outcome[m] = "busy"
        BY DEF ClaimInv, Claim
      <3>3. QED BY <1>3, <3>1, <3>2 DEF Isolated
    <2>3. \/ Part(msg[u], session'.stored) = Part(msg[u], session.stored)
          \/ msg[u] \in erased /\ Part(msg[u], session'.stored) = {}
      BY <1>3, <2>1 DEF Isolated
    <2>4. owner = u => owner' = u /\ session' = session
      BY DEF Isolated
    <2>5. owner # u => owner' # u
      BY DEF Isolated
    <2>6. QED BY <1>2, <1>3, <1>4, <2>2, <2>3, <2>4, <2>5 DEF Reading
  <1>5. QED BY <1>1, <1>2, <1>3, <1>4 DEF ReadsWell

\* Two threads are never in the insertion of one message: a new insertion is of a
\* message without an answer of any kind.
LEMMA OneInsertion ==
  ASSUME SInv, NEW t \in Threads, Frame(t),
         InCall(t, "insert")' => \/ InCall(t, "insert") /\ msg'[t] = msg[t]
                                 \/ outcome[msg'[t]] = "none"
  PROVE  \A u, v \in Threads :
           u # v /\ InCall(u, "insert")' /\ InCall(v, "insert")' => msg'[u] # msg'[v]
  <1> USE DEF SInv, StoreInv
  <1>1. ASSUME NEW u \in Threads \ {t}
        PROVE  /\ InCall(u, "insert")' <=> InCall(u, "insert")
               /\ msg'[u] = msg[u]
               /\ InCall(u, "insert") => outcome[msg[u]] = "busy"
    BY DEF Frame, InCall, ClaimInv, Claim
  <1>2. ASSUME NEW u \in Threads \ {t}, InCall(t, "insert")', InCall(u, "insert")'
        PROVE  msg'[t] # msg'[u]
    BY <1>1, <1>2 DEF ClaimInv
  <1>3. QED BY <1>1, <1>2 DEF ClaimInv

\* The invariant after a step, from what the step does for t itself.
LEMMA StoreAfter ==
  ASSUME SoundUse, SInv, NEW t \in Threads, Frame(t), Isolated(t),
         InCall(t, "insert")' => \/ InCall(t, "insert") /\ msg'[t] = msg[t]
                                 \/ outcome[msg'[t]] = "none",
         Claim(t)', ReadsWell(t)',
         NoErrorYet(t)' => \A m \in Messages : Worked(t, m)',
         \A m \in Messages : Told(m)'
  PROVE  StoreInv'
  <1>1. ClaimInv'
    BY OthersClaim, OneInsertion DEF ClaimInv
  <1>2. AnswerInv'
    BY AnswerTold
  <1>3. WorkInv'
    BY OthersWork DEF WorkInv
  <1>4. ReadInv'
    BY OthersRead, ReadsByThread
  <1>5. QED BY <1>1, <1>2, <1>3, <1>4 DEF StoreInv

-----------------------------------------------------------------------------
(***************************************************************************)
(* Steps that only move a thread                                           *)
(***************************************************************************)

\* t moves without changing what is stored, told or being worked on.
Quiet(t) ==
  /\ UNCHANGED <<session, owner, outcome, inDoubt, erased, batch, op, msg, step, seen>>
  /\ \A o \in Ops : InCall(t, o)' <=> InCall(t, o)
  /\ pc[t] # "enable" /\ pc[t] # "query"
  /\ pc'[t] = "query" => op[t] # "get"
  /\ t \in userTx => t \in userTx'
  /\ NoErrorYet(t)' => NoErrorYet(t)
  /\ \/ InCall(t, "insert") \/ InCall(t, "delete") => Reached(t)' = Reached(t)
     \/ ~NoErrorYet(t)'
  /\ level'[t] = "internal" /\ pc'[t] \in {"start", "begin"} =>
       level[t] = "internal" /\ pc[t] \in {"start", "begin"}

\* A step of t that is quiet, and that leaves the others alone, keeps the storage invariant.
LEMMA QuietStore ==
  ASSUME SoundUse, SInv, NEW t \in Threads, Frame(t), Quiet(t)
  PROVE  StoreInv'
  <1> USE DEF SInv, StoreInv
  <1>1. Isolated(t)
    BY DEF Quiet, Isolated
  <1>2. Claim(t)'
    <2>1. Claim(t)
      BY DEF ClaimInv
    <2>2. QED BY <2>1 DEF Claim, Quiet, Ops
  <1>3. ReadsWell(t)'
    <2>1. ReadsWell(t)
      BY ReadsByThread
    <2>2. QED BY <2>1 DEF ReadsWell, Quiet
  <1>4. ASSUME NoErrorYet(t)', NEW m \in Messages
        PROVE  Worked(t, m)'
    <2>1. Worked(t, m)
      BY <1>4 DEF WorkInv, Quiet
    <2>2. /\ batch' = batch /\ msg' = msg /\ session' = session /\ erased' = erased
          /\ InCall(t, "insert")' <=> InCall(t, "insert")
          /\ InCall(t, "delete")' <=> InCall(t, "delete")
          /\ InCall(t, "insert") \/ InCall(t, "delete") => Reached(t)' = Reached(t)
      BY <1>4 DEF Quiet, Ops
    <2>3. QED BY <2>1, <2>2 DEF Worked
  <1>5. \A m \in Messages : Told(m)'
    BY AnswerTold DEF Told, Quiet
  <1>6. QED BY <1>1, <1>2, <1>3, <1>4, <1>5, StoreAfter DEF Quiet, Ops

\* Where the thread that has to end a transaction stands.
LEMMA CheckQuiet ==
  ASSUME SoundUse, IInv, NEW t \in Threads, NotInTransaction(t), ClaimInv
  PROVE  /\ t \notin userTx /\ level[t] = "user" /\ Moves(t, "enable")
         /\ UNCHANGED <<outcome, inDoubt, erased, batch, userTx, failed>>
  <1> USE DEF IInv, TypeInv, LockInv
  <1>1. pc[t] \in {"check_end", "check_abort"} /\ ~transaction /\ Leave(t, FALSE, FALSE)
    BY DEF NotInTransaction
  <1>2. owner # t
    BY <1>1 DEF SessionInv
  <1>3. t \notin userTx /\ level[t] = "user"
    BY <1>1, <1>2 DEF MutexBalanced, InsideTransaction, ControlInv, TypeOK
  <1>4. batch[t] = {}
    BY <1>3 DEF ClaimInv, Claim
  <1>5. outcome' = outcome
    BY <1>1, <1>3, <1>4 DEF Leave, TypeOK
  <1>6. QED BY <1>1, <1>3, <1>5, GotoMoves DEF Leave

\* The flag is read, a transaction is opened or closed by its caller, the bit is read:
\* the thread moves on.
LEMMA MoveStore ==
  ASSUME SoundUse, SInv, NEW t \in Threads,
         \/ TransactionStart(t)
         \/ (TransactionEnd(t) \/ TransactionAbort(t)) /\ ~disabled
         \/ AlreadyInTransaction(t)
         \/ InTransaction(t)
         \/ NotInTransaction(t)
         \/ UserStart(t)
         \/ \E label \in {"check_end", "check_abort"} : UserFinish(t, label)
         \/ DisableInternal(t)
  PROVE  StoreInv'
  <1> USE DEF SInv, IInv, TypeInv, LockInv, StoreInv
  <1>1. Frame(t)
    <2>1. Invoke(t) \/ Step(t)
      BY DEF Invoke, Step
    <2>2. QED BY <2>1, StepFrame
  <1>2. SUFFICES Quiet(t)
    BY <1>1, QuietStore
  <1>3. CASE TransactionStart(t)
    <2>1. /\ pc[t] = "start" /\ (Moves(t, "query") \/ Moves(t, "begin"))
          /\ level[t] = "internal" /\ op[t] # "get"
          /\ UNCHANGED <<session, owner, outcome, inDoubt, erased, batch, op, msg, step, seen,
                         level, userTx, failed>>
      BY <1>3, GotoMoves DEF TransactionStart, ControlInv, sqlVars, ghostVars
    <2>2. QED BY <2>1 DEF Quiet, InCall, Reached, NoErrorYet, Moves
  <1>4. CASE (TransactionEnd(t) \/ TransactionAbort(t)) /\ ~disabled
    <2>1. /\ \/ pc[t] = "end" /\ Moves(t, "check_end")
             \/ pc[t] = "abort" /\ Moves(t, "check_abort")
          /\ level[t] = "internal"
          /\ UNCHANGED <<session, owner, outcome, inDoubt, erased, batch, op, msg, step, seen,
                         level, userTx, failed>>
      BY <1>4, GotoMoves DEF TransactionEnd, TransactionAbort, ControlInv, sqlVars, ghostVars
    <2>2. QED BY <2>1 DEF Quiet, InCall, Reached, NoErrorYet, Moves
  <1>5. CASE AlreadyInTransaction(t)
    <2>1. owner = t /\ t \in userTx /\ level[t] = "user" /\ pc[t] = "begin"
      BY <1>5, BeginCases DEF AlreadyInTransaction
    <2>2. /\ Moves(t, "idle")
          /\ UNCHANGED <<session, owner, outcome, inDoubt, erased, batch, op, msg, step, seen,
                         level, userTx, failed>>
      BY <1>5, <2>1, GotoMoves DEF AlreadyInTransaction, StartFails, KeepLock, ghostVars
    <2>3. QED BY <2>1, <2>2 DEF Quiet, InCall, Reached, NoErrorYet, Moves
  <1>6. CASE InTransaction(t)
    <2>1. /\ \/ pc[t] = "check_end" /\ Moves(t, "commit")
             \/ pc[t] = "check_abort" /\ Moves(t, "rollback")
          /\ UNCHANGED <<session, owner, outcome, inDoubt, erased, batch, op, msg, step, seen,
                         level, userTx, failed>>
      BY <1>6, GotoMoves DEF InTransaction, ghostVars
    <2>2. QED BY <2>1 DEF Quiet, InCall, Reached, NoErrorYet, Moves
  <1>7. CASE NotInTransaction(t)
    <2>1. /\ level[t] = "user" /\ Moves(t, "enable") /\ t \notin userTx
          /\ UNCHANGED <<outcome, inDoubt, erased, batch, userTx, failed>>
      BY <1>7, CheckQuiet
    <2>2. /\ pc[t] \in {"check_end", "check_abort"}
          /\ UNCHANGED <<session, owner, op, msg, step, seen, level>>
      BY <1>7 DEF NotInTransaction, sqlVars
    <2>3. owner # t
      BY <2>1, <2>2 DEF MutexBalanced, InsideTransaction
    <2>4. QED BY <2>1, <2>2, <2>3 DEF Quiet, InCall, Reached, NoErrorYet, Moves
  <1>8. CASE UserStart(t) \/ \E label \in {"check_end", "check_abort"} : UserFinish(t, label)
    <2>1. /\ pc[t] = "idle"
          /\ \E label \in {"begin", "check_end", "check_abort"} : Moves(t, label)
          /\ level'[t] = "user"
          /\ UNCHANGED <<session, owner, outcome, inDoubt, erased, batch, op, msg, step, seen,
                         userTx, failed>>
      BY <1>8, GotoMoves DEF UserStart, UserFinish, sqlVars, ghostVars, TypeOK
    <2>2. QED BY <2>1 DEF Quiet, InCall, Reached, NoErrorYet, Moves
  <1>9. CASE DisableInternal(t)
    <2>1. /\ pc[t] = "disable" /\ Moves(t, "idle") /\ level[t] = "user"
          /\ userTx' = userTx \cup {t}
          /\ UNCHANGED <<session, owner, outcome, inDoubt, erased, batch, op, msg, step, seen,
                         level, failed>>
      BY <1>9, GotoMoves DEF DisableInternal, ControlInv
    <2>2. QED BY <2>1 DEF Quiet, InCall, Reached, NoErrorYet, Moves
  <1>10. QED BY <1>3, <1>4, <1>5, <1>6, <1>7, <1>8, <1>9

-----------------------------------------------------------------------------
(***************************************************************************)
(* Calls and their answers outside COMMIT                                  *)
(***************************************************************************)

\* A call starts with a fresh message, or with one that is stored whole.
LEMMA CallStore ==
  ASSUME SoundUse, SInv, NEW t \in Threads, NEW o \in Ops, NEW m \in Messages, Call(t, o, m)
  PROVE  StoreInv'
  <1> USE DEF SInv, IInv, TypeInv, StoreInv
  <1>1. Frame(t)
    BY StepFrame DEF Invoke
  <1>2. /\ pc[t] = "idle" /\ Moves(t, IF o = "get" THEN "query" ELSE "start")
        /\ op'[t] = o /\ msg'[t] = m /\ step'[t] = 1 /\ seen'[t] = {}
        /\ level'[t] = "internal"
        /\ erased' = IF o = "delete" THEN erased \cup {m} ELSE erased
        /\ UNCHANGED <<session, owner, userTx, failed, batch, inDoubt>>
    BY GotoMoves DEF Call, TypeOK, sqlVars
  <1>3. /\ o = "insert" => m \notin Preloaded /\ outcome[m] = "none"
        /\ o # "insert" => Part(m, session.stored) # {}
        /\ o = "insert" => \A n \in Messages :
                             outcome'[n] = IF n = m THEN "busy" ELSE outcome[n]
        /\ o # "insert" => outcome' = outcome
    BY PartRows DEF Call, TypeOK
  <1>4. \A n \in Messages : Told(n)
    BY AnswerTold
  <1>5. o # "insert" => Part(m, session.stored) = Statements /\ Old(m) /\ outcome[m] # "busy"
    BY <1>3, <1>4 DEF Told, Old, TypeOK, Outcomes
  <1>6. Claim(t) /\ \A n \in batch[t] : outcome[n] = "busy"
    BY <1>2 DEF ClaimInv, Claim
  <1>7. Isolated(t)
    BY <1>2, <1>3 DEF Isolated
  <1>8. Claim(t)'
    BY <1>2, <1>3, <1>5, <1>6 DEF Claim, InCall, Moves, TypeOK
  <1>9. ReadsWell(t)'
    BY <1>2, <1>3, <1>5, Counting, MessagesAssumption DEF ReadsWell, Reading, Old, Statements
  <1>10. ASSUME NoErrorYet(t)', NEW n \in Messages
         PROVE  Worked(t, n)'
    <2>1. NoErrorYet(t)
      BY <1>2, <1>10 DEF NoErrorYet
    <2>2. Worked(t, n)
      BY <2>1 DEF WorkInv
    <2>3. CASE n \in batch[t]
      BY <1>2, <2>2, <2>3 DEF Worked
    <2>4. CASE n \notin batch[t]
      <3>1. \/ Part(n, session.work) = Part(n, session.stored)
            \/ Part(n, session.work) = {} /\ n \in erased
        BY <1>2, <2>2, <2>4 DEF Worked, InCall
      <3>2. o = "insert" => Part(m, session.stored) = {}
        BY <1>3, <1>4 DEF Told
      <3>3. Reached(t)' = 1
        BY <1>2 DEF Reached, Moves
      <3>4. 1..(1 - 1) = {} /\ 1..NStatements = Statements
        BY Counting, MessagesAssumption DEF Statements
      <3>5. InCall(t, "insert")' /\ n = m => Part(n, session.work) = {}
        BY <1>2, <3>1, <3>2 DEF InCall
      <3>6. QED BY <1>2, <1>5, <2>4, <3>1, <3>3, <3>4, <3>5 DEF Worked, InCall
    <2>5. QED BY <2>3, <2>4
  <1>11. ASSUME NEW n \in Messages PROVE Told(n)'
    <2>1. Told(n)
      BY <1>4
    <2>2. QED BY <1>2, <1>3, <1>5, <2>1 DEF Told, Old
  <1>12. InCall(t, "insert")' => outcome[msg'[t]] = "none"
    BY <1>2, <1>3 DEF InCall
  <1>13. QED BY <1>1, <1>7, <1>8, <1>9, <1>10, <1>11, <1>12, StoreAfter

\* A call outside any transaction of its caller fails before it has begun.
LEMMA RefusedStore ==
  ASSUME SoundUse, SInv, NEW t \in Threads, Frame(t),
         pc[t] = "begin", level[t] = "internal", t \notin userTx, owner # t,
         Return(t, FALSE), inDoubt' = inDoubt,
         UNCHANGED <<session, owner, level, op, msg, step, seen>>
  PROVE  StoreInv'
  <1> USE DEF SInv, IInv, TypeInv, StoreInv
  <1>1. /\ Moves(t, "idle") /\ failed' = failed /\ userTx' = userTx /\ erased' = erased
        /\ batch' = batch
    BY ReturnMoves DEF Return
  <1>2. /\ InCall(t, "insert") => \A n \in Messages :
                                    outcome'[n] = IF n = msg[t] THEN "error" ELSE outcome[n]
        /\ ~InCall(t, "insert") => outcome' = outcome
    BY DEF Return, InCall, TypeOK
  <1>3. Claim(t) /\ batch[t] = {}
    BY DEF ClaimInv, Claim
  <1>4. Isolated(t)
    BY <1>1, <1>2 DEF Isolated
  <1>5. Claim(t)'
    BY <1>1, <1>3 DEF Claim, InCall, Moves
  <1>6. ReadsWell(t)'
    <2>1. ReadsWell(t)
      BY ReadsByThread
    <2>2. QED BY <1>1, <2>1 DEF ReadsWell, Moves
  <1>7. ASSUME NEW n \in Messages PROVE Told(n)'
    <2>1. Told(n)
      BY AnswerTold
    <2>2. InCall(t, "insert") /\ n = msg[t] => outcome[n] = "busy"
      BY <1>3 DEF Claim
    <2>3. QED BY <1>1, <1>2, <2>1, <2>2 DEF Told
  <1>8. ~NoErrorYet(t)' /\ ~InCall(t, "insert")'
    BY <1>1 DEF NoErrorYet, InCall, Moves
  <1>9. QED BY <1>4, <1>5, <1>6, <1>7, <1>8, StoreAfter

\* BEGIN starts the work of the transaction from what is committed.
LEMMA BeginStore ==
  ASSUME SoundUse, SInv, NEW t \in Threads, BeginTransaction(t)
  PROVE  StoreInv'
  <1> USE DEF SInv, IInv, TypeInv, LockInv, StoreInv
  <1>1. Frame(t)
    BY StepFrame DEF Step
  <1>2. PICK r \in Query("BEGIN", <<msg[t], step[t]>>) :
          /\ Ask(t, "BEGIN", r)
          /\ \/ /\ r.ok
                /\ Acquire(t)
                /\ Goto(t, IF level[t] = "user" THEN "disable" ELSE "query")
                /\ UNCHANGED ghostVars
             \/ ~r.ok /\ StartFails(t)
    BY DEF BeginTransaction
  <1>3. /\ pc[t] = "begin" /\ owner = NoThread /\ t \notin userTx /\ owner # t
        /\ session = Settled(session.stored)
        /\ UNCHANGED <<level, op, msg, step, seen>>
    BY BeginCases, ThreadsAssumption DEF BeginTransaction
  <1>4. session' = r.session
    BY <1>2 DEF Ask
  <1>5. level[t] = "internal" => op[t] # "get" /\ step[t] = 1
    BY <1>3 DEF ControlInv, ClaimInv, Claim
  <1>6. CASE r.ok
    <2>1. session'.work = session.stored /\ session'.stored = session.stored
      BY <1>3, <1>4, <1>6, BeginAnswer, Fields DEF SoundUse
    <2>2. /\ Moves(t, IF level[t] = "user" THEN "disable" ELSE "query") /\ owner' = t
          /\ UNCHANGED <<userTx, failed, batch, outcome, inDoubt, erased>>
      BY <1>2, <1>6, GotoMoves DEF Acquire, ghostVars
    <2>3. Claim(t) /\ batch[t] = {}
      BY <1>3 DEF ClaimInv, Claim
    <2>4. Isolated(t)
      BY <1>3, <2>1, <2>2, ThreadsAssumption DEF Isolated
    <2>5. Claim(t)'
      BY <1>3, <2>2, <2>3 DEF Claim, InCall, Moves
    <2>6. ReadsWell(t)'
      <3>1. ReadsWell(t)
        BY ReadsByThread
      <3>2. pc'[t] = "query" => op[t] # "get"
        BY <1>5, <2>2 DEF Moves, TypeOK
      <3>3. QED BY <1>3, <2>2, <3>1, <3>2 DEF ReadsWell
    <2>7. \A m \in Messages : Told(m)'
      BY <2>1, <2>2, AnswerTold DEF Told
    <2>8. ASSUME NEW m \in Messages PROVE Worked(t, m)'
      <3>1. Told(m)
        BY AnswerTold
      <3>2. InCall(t, "insert")' => outcome[msg[t]] = "busy"
        BY <1>3, <2>2, <2>3 DEF Claim, InCall
      <3>3. InCall(t, "insert")' \/ InCall(t, "delete")' => Reached(t)' = 1
        BY <1>3, <1>5, <2>2 DEF InCall, Reached, Moves, TypeOK
      <3>4. InCall(t, "insert")' /\ m = msg[t] => Part(m, session.stored) = {}
        BY <3>1, <3>2 DEF Told
      <3>5. 1..(1 - 1) = {} /\ 1..NStatements = Statements
        BY Counting, MessagesAssumption DEF Statements
      <3>6. Part(m, session.stored) \in {{}, Statements}
        BY <3>1 DEF Told
      <3>7. QED BY <1>3, <2>1, <2>2, <2>3, <3>3, <3>4, <3>5, <3>6 DEF Worked
    <2>9. InCall(t, "insert")' => InCall(t, "insert") /\ msg'[t] = msg[t]
      BY <1>3 DEF InCall
    <2>10. QED BY <1>1, <2>4, <2>5, <2>6, <2>7, <2>8, <2>9, StoreAfter
  <1>7. CASE ~r.ok
    <2>1. session' = session
      BY <1>3, <1>4, <1>7, BeginAnswer DEF SoundUse
    <2>2. StartFails(t) /\ owner' = owner
      BY <1>2, <1>7 DEF StartFails, KeepLock
    <2>3. CASE level[t] = "internal"
      <3>1. Return(t, FALSE) /\ inDoubt' = inDoubt
        BY <2>2, <2>3 DEF StartFails
      <3>2. QED BY <1>1, <1>3, <2>1, <2>2, <2>3, <3>1, RefusedStore
    <2>4. CASE level[t] = "user"
      <3>1. Moves(t, "idle") /\ UNCHANGED ghostVars
        BY <2>2, <2>4, GotoMoves DEF StartFails
      <3>2. Quiet(t)
        BY <1>3, <2>1, <2>2, <2>4, <3>1
           DEF Quiet, InCall, Reached, NoErrorYet, Moves, ghostVars
      <3>3. QED BY <1>1, <3>2, QuietStore
    <2>5. QED BY <2>3, <2>4 DEF TypeOK
  <1>8. QED BY <1>6, <1>7

\* Inside a transaction of the caller's own the call returns with a provisional answer:
\* an insertion joins the messages of that transaction, or the transaction has failed.
LEMMA ProvisionalStore ==
  ASSUME SoundUse, SInv, NEW t \in Threads,
         TransactionEnd(t) \/ TransactionAbort(t), disabled
  PROVE  StoreInv'
  <1> USE DEF SInv, IInv, TypeInv, LockInv, StoreInv
  <1>1. Frame(t)
    BY StepFrame DEF Step
  <1>2. /\ level[t] = "internal" /\ op[t] # "get" /\ op[t] \in Ops
        /\ UNCHANGED <<session, owner, level, op, msg, step, seen>>
        /\ inDoubt' = inDoubt /\ erased' = erased /\ userTx' = userTx
        /\ pc[t] \in {"end", "abort"}
    BY DEF TransactionEnd, TransactionAbort, ControlInv, Return, sqlVars, TypeOK
  <1>3. t \in userTx /\ Threads = {t}
    <2>1. Threads = {t} /\ userTx # {} /\ userTx \subseteq Threads
      BY Alone DEF FlagInv, TypeOK
    <2>2. QED BY <2>1
  <1>4. \A n \in Messages : Told(n)
    BY AnswerTold
  <1>5. Claim(t)
    BY DEF ClaimInv
  <1>6. ReadsWell(t)'
    <2>1. ReadsWell(t)
      BY ReadsByThread
    <2>2. QED BY <1>2, <2>1 DEF ReadsWell
  <1>7. CASE TransactionEnd(t)
    <2>1. /\ Moves(t, "idle") /\ failed' = failed /\ outcome' = outcome /\ pc[t] = "end"
          /\ batch'[t] = IF op[t] = "insert" THEN batch[t] \cup {msg[t]} ELSE batch[t]
      BY <1>3, <1>7, ReturnMoves DEF TransactionEnd, Return, TypeOK
    <2>2. Isolated(t)
      BY <1>2, <2>1 DEF Isolated
    <2>3. InCall(t, op[t]) /\ \A o : ~InCall(t, o)'
      BY <1>2, <2>1 DEF InCall, Moves
    <2>4. Claim(t)'
      BY <1>2, <1>3, <1>5, <2>1, <2>3 DEF Claim, Moves
    <2>5. ASSUME NoErrorYet(t)', NEW n \in Messages
          PROVE  Worked(t, n)'
      <3>1. Worked(t, n)
        BY <1>2, <2>1, <2>5 DEF WorkInv, NoErrorYet
      <3>2. Reached(t) = NStatements + 1
        BY <2>1 DEF Reached
      <3>3. 1..(Reached(t) - 1) = Statements /\ Reached(t)..NStatements = {}
        BY <3>2, Counting, MessagesAssumption DEF Statements
      <3>4. CASE op[t] = "insert"
        <4>1. InCall(t, "insert")
          BY <2>3, <3>4
        <4>2. n \in batch[t] \cup {msg[t]} => Part(n, session.work) = Statements
          BY <3>1, <3>3, <4>1 DEF Worked
        <4>3. n \notin batch[t] \cup {msg[t]} =>
                 \/ Part(n, session.work) = Part(n, session.stored)
                 \/ Part(n, session.work) = {} /\ n \in erased
          BY <3>1 DEF Worked
        <4>4. batch'[t] = batch[t] \cup {msg[t]}
          BY <2>1, <3>4
        <4>5. QED BY <1>2, <2>3, <4>2, <4>3, <4>4 DEF Worked
      <3>5. CASE op[t] = "delete"
        <4>1. msg[t] \in erased
          BY <1>5, <2>3, <3>5 DEF Claim
        <4>2. QED BY <1>2, <2>1, <2>3, <3>1, <3>2, <3>3, <3>5, <4>1 DEF Worked, InCall
      <3>6. QED BY <1>2, <3>4, <3>5 DEF Ops
    <2>6. \A n \in Messages : Told(n)'
      BY <1>2, <1>4, <2>1 DEF Told
    <2>7. QED BY <1>1, <1>6, <2>2, <2>3, <2>4, <2>5, <2>6, StoreAfter
  <1>8. CASE TransactionAbort(t)
    <2>1. /\ Moves(t, "idle") /\ failed' = failed \cup {t} /\ batch' = batch
          /\ op[t] = "insert" => \A n \in Messages :
                                   outcome'[n] = IF n = msg[t] THEN "error" ELSE outcome[n]
          /\ op[t] # "insert" => outcome' = outcome
      BY <1>3, <1>8, ReturnMoves DEF TransactionAbort, Return, TypeOK
    <2>2. op[t] = "insert" => /\ InCall(t, "insert") /\ outcome[msg[t]] = "busy"
                              /\ msg[t] \notin batch[t]
      BY <1>2, <1>5 DEF InCall, Claim
    <2>3. Isolated(t)
      BY <1>2, <2>1, <2>2 DEF Isolated
    <2>4. (\A o : ~InCall(t, o)') /\ ~NoErrorYet(t)'
      BY <1>2, <2>1 DEF InCall, Moves, NoErrorYet
    <2>5. Claim(t)'
      <3>1. batch[t] \subseteq Messages
        BY DEF TypeOK
      <3>2. QED BY <1>2, <1>3, <1>5, <2>1, <2>2, <2>4, <3>1 DEF Claim, Moves
    <2>6. ASSUME NEW n \in Messages PROVE Told(n)'
      <3>1. Told(n)
        BY <1>4
      <3>2. QED BY <1>2, <2>1, <2>2, <3>1 DEF Told
    <2>7. QED BY <1>1, <1>6, <2>3, <2>4, <2>5, <2>6, StoreAfter
  <1>9. QED BY <1>7, <1>8

\* When internal transactions are enabled again the caller's transaction is over.
LEMMA EnableStore ==
  ASSUME SoundUse, SInv, NEW t \in Threads, EnableInternal(t)
  PROVE  StoreInv'
  <1> USE DEF SInv, IInv, TypeInv, LockInv, StoreInv
  <1>1. Frame(t)
    BY StepFrame DEF Step
  <1>2. /\ pc[t] = "enable" /\ Moves(t, "idle") /\ batch'[t] = {} /\ level[t] = "user"
        /\ UNCHANGED <<session, owner, level, op, msg, step, seen, outcome, inDoubt, erased>>
    BY GotoMoves DEF EnableInternal, ControlInv, TypeOK
  <1>3. owner # t
    BY <1>2 DEF MutexBalanced, InsideTransaction
  <1>4. Isolated(t)
    BY <1>2 DEF Isolated
  <1>5. Claim(t)'
    BY <1>2 DEF Claim, InCall, Moves
  <1>6. ReadsWell(t)'
    <2>1. ReadsWell(t)
      BY ReadsByThread
    <2>2. QED BY <1>2, <2>1 DEF ReadsWell, Moves
  <1>7. \A n \in Messages : Told(n)'
    BY <1>2, AnswerTold DEF Told
  <1>8. ~NoErrorYet(t)' /\ ~InCall(t, "insert")'
    BY <1>2, <1>3 DEF NoErrorYet, InCall
  <1>9. QED BY <1>1, <1>4, <1>5, <1>6, <1>7, <1>8, StoreAfter

-----------------------------------------------------------------------------
(***************************************************************************)
(* The queries of a call                                                   *)
(***************************************************************************)

\* A query of an insertion or a deletion writes its row into the work of the
\* transaction, which nobody else sees.
LEMMA WriteStore ==
  ASSUME SoundUse, SInv, NEW t \in Threads, MessageQuery(t), op[t] # "get"
  PROVE  StoreInv'
  <1> USE DEF SInv, IInv, TypeInv, LockInv, StoreInv
  <1>1. Frame(t)
    BY StepFrame DEF Step
  <1>2. PICK r \in Query(op[t], <<msg[t], step[t]>>) :
          /\ session' = r.session
          /\ \/ /\ r.ok /\ step'[t] = NextStatement(step[t])
                /\ \/ step[t] < NStatements /\ UNCHANGED <<pc, ghostVars>>
                   \/ ~(step[t] < NStatements) /\ Goto(t, "end") /\ UNCHANGED ghostVars
             \/ ~r.ok /\ Goto(t, "abort") /\ UNCHANGED ghostVars
    BY DEF MessageQuery, SoundUse, Tolerated, Ask, TypeOK
  <1>3. /\ pc[t] = "query" /\ level[t] = "internal" /\ t \notin failed
        /\ UNCHANGED <<owner, level, op, msg>> /\ seen' = seen
        /\ op[t] \in Ops /\ step[t] \in Statements /\ msg[t] \in Messages
    BY DEF MessageQuery, KeepLock, ControlInv, TypeOK
  <1>4. owner = t
    BY <1>3 DEF MutexBalanced, InsideTransaction
  <1>5. NoErrorYet(t) /\ connected /\ session.tx = "open"
    BY <1>3, <1>4 DEF NoErrorYet, SessionInv
  <1>6. session'.stored = session.stored
    BY <1>2, <1>3, <1>5, OpenAnswer DEF SoundUse
  <1>7. UNCHANGED <<userTx, failed, batch, outcome, inDoubt, erased>>
    BY <1>2 DEF ghostVars
  <1>8. \/ r.ok /\ Moves(t, "query") /\ step[t] < NStatements /\ step'[t] = step[t] + 1
        \/ r.ok /\ Moves(t, "end") /\ step[t] = NStatements
        \/ ~r.ok /\ Moves(t, "abort")
    BY <1>2, <1>3, GotoMoves, MessagesAssumption DEF Moves, NextStatement, Statements
  <1>9. InCall(t, op[t]) /\ \A o : InCall(t, o)' <=> InCall(t, o)
    BY <1>3, <1>8 DEF InCall, Moves
  <1>10. Claim(t)
    BY DEF ClaimInv
  <1>11. Isolated(t)
    BY <1>3, <1>4, <1>6, <1>7 DEF Isolated
  <1>12. Claim(t)'
    BY <1>3, <1>7, <1>8, <1>9, <1>10 DEF Claim, Moves
  <1>13. ReadsWell(t)'
    <2>1. ReadsWell(t)
      BY ReadsByThread
    <2>2. QED BY <1>3, <2>1 DEF ReadsWell
  <1>14. \A m \in Messages : Told(m)'
    BY <1>6, <1>7, AnswerTold DEF Told
  <1>15. ASSUME NoErrorYet(t)', NEW m \in Messages
         PROVE  Worked(t, m)'
    <2>1. r.ok
      BY <1>8, <1>15 DEF NoErrorYet, Moves
    <2>2. session'.work = Effect(op[t], <<msg[t], step[t]>>, session.work)
      BY <1>2, <1>3, <1>5, <2>1, OpenAnswer, Fields DEF SoundUse
    <2>3. Worked(t, m)
      BY <1>5 DEF WorkInv
    <2>4. Reached(t) = step[t] /\ Reached(t)' = step[t] + 1
      BY <1>3, <1>8, <2>1 DEF Reached, Moves
    <2>5. m # msg[t] => Part(m, session'.work) = Part(m, session.work)
      BY <1>3, <2>2, PartEffect
    <2>6. CASE m \in batch[t]
      <3>1. m # msg[t]
        <4>1. outcome[m] = "busy"
          BY <1>3, <1>10, <2>6 DEF Claim
        <4>2. op[t] = "delete" => msg[t] \in erased
          BY <1>9, <1>10 DEF Claim
        <4>3. m \notin Preloaded /\ m \notin erased
          BY <4>1, AnswerTold DEF Told
        <4>4. op[t] = "insert" => msg[t] \notin batch[t]
          BY <1>9, <1>10 DEF Claim
        <4>5. QED BY <1>3, <2>6, <4>2, <4>3, <4>4 DEF Ops
      <3>2. QED BY <1>7, <2>3, <2>5, <2>6, <3>1 DEF Worked
    <2>7. CASE m \notin batch[t] /\ m # msg[t]
      BY <1>3, <1>6, <1>7, <2>3, <2>5, <2>7 DEF Worked
    <2>8. CASE m \notin batch[t] /\ m = msg[t] /\ op[t] = "insert"
      <3>1. Part(m, session.work) = 1..(step[t] - 1)
        BY <1>9, <2>3, <2>4, <2>8 DEF Worked
      <3>2. Part(m, session'.work) = Part(m, session.work) \cup {step[t]}
        BY <1>3, <2>2, <2>8, PartEffect
      <3>3. Part(m, session'.work) = 1..step[t]
        BY <1>3, <3>1, <3>2, Counting
      <3>4. Reached(t)' - 1 = step[t]
        BY <1>3, <2>4, MessagesAssumption DEF Statements
      <3>5. QED BY <1>3, <1>7, <1>9, <2>8, <3>3, <3>4 DEF Worked
    <2>9. CASE m \notin batch[t] /\ m = msg[t] /\ op[t] = "delete"
      <3>1. ~InCall(t, "insert") /\ InCall(t, "delete")
        BY <1>9, <2>9 DEF InCall
      <3>2. \/ Part(m, session.work) = {}
            \/ /\ Part(m, session.work) = step[t]..NStatements
               /\ Part(m, session.stored) = Statements
        BY <2>3, <2>4, <2>9, <3>1 DEF Worked
      <3>3. Part(m, session'.work) = Part(m, session.work) \ {step[t]}
        BY <1>3, <2>2, <2>9, PartEffect
      <3>4. (step[t]..NStatements) \ {step[t]} = (step[t] + 1)..NStatements
        BY <1>3, Counting
      <3>5. QED BY <1>3, <1>6, <1>7, <1>9, <2>4, <2>9, <3>1, <3>2, <3>3, <3>4 DEF Worked
    <2>10. QED BY <1>3, <2>6, <2>7, <2>8, <2>9 DEF Ops
  <1>16. InCall(t, "insert")' => InCall(t, "insert") /\ msg'[t] = msg[t]
    BY <1>3, <1>9
  <1>17. QED BY <1>1, <1>11, <1>12, <1>13, <1>14, <1>15, <1>16, StoreAfter

\* A query of a read finds the rows the thread may see: those of its own
\* transaction, or the ones that are committed.
LEMMA ReadStore ==
  ASSUME SoundUse, SInv, NEW t \in Threads, MessageQuery(t), op[t] = "get"
  PROVE  StoreInv'
  <1> USE DEF SInv, IInv, TypeInv, LockInv, StoreInv
  <1> DEFINE visible == IF owner = t THEN session.work ELSE session.stored
  <1>1. Frame(t)
    BY StepFrame DEF Step
  <1>2. PICK r \in Query("get", <<msg[t], step[t]>>) :
          /\ session' = r.session
          /\ seen'[t] = IF r.ok /\ <<msg[t], step[t]>> \in r.session.work
                        THEN seen[t] \cup {step[t]} ELSE seen[t]
          /\ \/ /\ r.ok /\ step'[t] = NextStatement(step[t])
                /\ \/ step[t] < NStatements /\ UNCHANGED <<pc, ghostVars>>
                   \/ ~(step[t] < NStatements) /\ Return(t, TRUE) /\ inDoubt' = inDoubt
             \/ ~r.ok /\ Return(t, FALSE) /\ inDoubt' = inDoubt
    BY DEF MessageQuery, SoundUse, Tolerated, Ask, TypeOK
  <1>3. /\ pc[t] = "query" /\ level[t] = "internal" /\ t \notin failed
        /\ UNCHANGED <<owner, level, op, msg>> /\ "get" \in Ops
        /\ step[t] \in Statements /\ msg[t] \in Messages
    BY DEF MessageQuery, KeepLock, ControlInv, TypeOK, Ops
  <1>4. UNCHANGED <<outcome, batch, erased, inDoubt, userTx>>
    BY <1>2 DEF ghostVars, Return
  <1>5. \/ r.ok /\ Moves(t, "query") /\ failed' = failed /\ step'[t] = step[t] + 1
        \/ r.ok /\ Moves(t, "idle") /\ failed' = failed
        \/ ~r.ok /\ Moves(t, "idle") /\ (t \in userTx => t \in failed')
    BY <1>2, <1>3, ReturnMoves, MessagesAssumption
       DEF Moves, NextStatement, Statements, ghostVars
  <1>6. /\ session'.stored = session.stored
        /\ r.ok => session'.work = visible
        /\ owner # t => session' = session
        /\ owner = t => t \in userTx
    <2>1. CASE owner = t
      <3>1. connected /\ session.tx = "open"
        BY <1>3, <2>1 DEF NoErrorYet, SessionInv
      <3>2. session'.stored = session.stored
        BY <1>2, <1>3, <3>1, OpenAnswer DEF SoundUse
      <3>3. r.ok => session'.work = session.work
        <4>1. r.ok => session'.work = Effect("get", <<msg[t], step[t]>>, session.work)
          BY <1>2, <1>3, <3>1, OpenAnswer, Fields DEF SoundUse
        <4>2. QED BY <4>1 DEF Effect
      <3>4. t \in userTx
        BY <1>3, <2>1 DEF MutexBalanced, InsideTransaction
      <3>5. QED BY <2>1, <3>2, <3>3, <3>4
    <2>2. CASE owner # t
      <3>1. session = Settled(session.stored)
        BY <2>2 DEF MessageQuery, CanLock, FreeMutexSettled
      <3>2. session' = session
        BY <1>2, <3>1, GetAnswer DEF SoundUse
      <3>3. session.work = session.stored
        BY <3>1, Fields
      <3>4. QED BY <2>2, <3>2, <3>3
    <2>3. QED BY <2>1, <2>2
  <1>7. ReadsWell(t) /\ Reading(t) /\ Claim(t)
    BY <1>3, ReadsByThread DEF ReadsWell, ClaimInv
  <1>8. ~InCall(t, "insert") /\ ~InCall(t, "delete") /\ ~InCall(t, "insert")' /\ ~InCall(t, "delete")'
    BY <1>3 DEF InCall
  <1>9. ASSUME owner = t PROVE \A m \in Messages : Worked(t, m)
    BY <1>3, <1>9 DEF WorkInv, NoErrorYet
  <1>10. /\ Part(msg[t], visible) \in {{}, Statements}
         /\ msg[t] \notin erased => Part(msg[t], visible) = Statements
    <2>1. Told(msg[t])
      BY <1>3, AnswerTold
    <2>2. CASE owner = t
      <3>1. msg[t] \notin batch[t]
        BY <1>3, <1>7, <2>1 DEF Reading, Claim, Told
      <3>2. \/ Part(msg[t], session.work) = Part(msg[t], session.stored)
            \/ Part(msg[t], session.work) = {} /\ msg[t] \in erased
        BY <1>3, <1>8, <1>9, <2>2, <3>1 DEF Worked
      <3>3. QED BY <1>7, <2>1, <2>2, <3>2 DEF Reading, Told
    <2>3. CASE owner # t
      BY <1>7, <2>1, <2>3 DEF Reading, Told
    <2>4. QED BY <2>2, <2>3
  <1>11. Isolated(t)
    BY <1>3, <1>4, <1>6 DEF Isolated
  <1>12. Claim(t)'
    BY <1>3, <1>4, <1>5, <1>7, <1>8 DEF Claim, Moves
  <1>13. ReadsWell(t)'
    <2>1. CASE r.ok /\ Part(msg[t], visible) = Statements
      <3>1. <<msg[t], step[t]>> \in visible
        BY <1>3, <2>1 DEF Part
      <3>2. seen[t] = 1..(step[t] - 1)
        BY <1>7, <2>1, Counting, <1>3 DEF Reading
      <3>3. seen'[t] = seen[t] \cup {step[t]}
        BY <1>2, <1>6, <2>1, <3>1
      <3>4. seen'[t] = 1..step[t]
        BY <1>3, <3>2, <3>3, Counting
      <3>5. \A i \in seen'[t] : 1..i \subseteq seen'[t]
        BY <1>3, <3>4 DEF Statements
      <3>6. pc'[t] = "query" => seen'[t] = 1..(step'[t] - 1)
        <4>1. pc'[t] = "query" => step'[t] - 1 = step[t]
          BY <1>3, <1>5 DEF Moves, Statements
        <4>2. QED BY <3>4, <4>1
      <3>7. pc'[t] = "query" => Reading(t)'
        BY <1>3, <1>4, <1>6, <1>7, <3>6 DEF Reading
      <3>8. QED BY <3>5, <3>6, <3>7 DEF ReadsWell
    <2>2. CASE r.ok /\ Part(msg[t], visible) # Statements
      <3>1. Part(msg[t], visible) = {} /\ msg[t] \in erased
        BY <1>10, <2>2
      <3>2. <<msg[t], step[t]>> \notin visible
        BY <1>3, <3>1 DEF Part
      <3>3. seen'[t] = seen[t]
        BY <1>2, <1>6, <2>2, <3>2
      <3>4. Part(msg[t], IF owner' = t THEN session'.work ELSE session'.stored) = {}
        BY <1>3, <1>6, <2>2, <3>1
      <3>5. Reading(t)'
        BY <1>3, <1>4, <1>6, <1>7, <3>1, <3>4 DEF Reading
      <3>6. QED BY <1>3, <1>4, <1>7, <3>1, <3>3, <3>5 DEF ReadsWell
    <2>3. CASE ~r.ok
      BY <1>2, <1>3, <1>5, <1>7, <2>3 DEF ReadsWell, Moves
    <2>4. QED BY <2>1, <2>2, <2>3
  <1>14. ASSUME NoErrorYet(t)', NEW m \in Messages
         PROVE  Worked(t, m)'
    <2>1. owner = t /\ t \in userTx
      BY <1>3, <1>6, <1>14 DEF NoErrorYet
    <2>2. r.ok
      BY <1>5, <1>14, <2>1 DEF NoErrorYet
    <2>3. session'.work = session.work
      BY <1>6, <2>1, <2>2
    <2>4. Worked(t, m)
      BY <1>9, <2>1
    <2>5. QED BY <1>3, <1>4, <1>6, <1>8, <2>3, <2>4 DEF Worked
  <1>15. \A m \in Messages : Told(m)'
    BY <1>4, <1>6, AnswerTold DEF Told
  <1>16. QED BY <1>1, <1>8, <1>11, <1>12, <1>13, <1>14, <1>15, StoreAfter

-----------------------------------------------------------------------------
(***************************************************************************)
(* The end of a transaction                                                *)
(***************************************************************************)

\* The messages whose insertion the end of the transaction of t answers.
Mine(t) ==
  IF level[t] = "user" THEN batch[t] ELSE IF op[t] = "insert" THEN {msg[t]} ELSE {}

\* Leaving tells all of them, and only them, the same.
LEMMA LeaveTells ==
  ASSUME SInv, NEW t \in Threads, pc[t] \in {"commit", "rollback"},
         NEW ok \in BOOLEAN, NEW doubt \in BOOLEAN, Leave(t, ok, doubt)
  PROVE  /\ outcome' = [m \in Messages |->
                          IF m \in Mine(t) THEN IF ok THEN "ok" ELSE "error" ELSE outcome[m]]
         /\ inDoubt' = IF doubt THEN inDoubt \cup Mine(t) ELSE inDoubt
         /\ erased' = erased /\ batch' = batch /\ userTx' = userTx
         /\ pc'[t] = IF level[t] = "user" THEN "enable" ELSE "idle"
  <1> USE DEF SInv, IInv, TypeInv, LockInv
  <1>1. CASE level[t] = "internal"
    <2>1. t \notin userTx
      BY <1>1 DEF ControlInv
    <2>2. Return(t, ok) /\ inDoubt' = IF doubt /\ op[t] = "insert" THEN inDoubt \cup {msg[t]} ELSE inDoubt
      BY <1>1 DEF Leave
    <2>3. outcome' = [m \in Messages |->
                        IF m \in Mine(t) THEN IF ok THEN "ok" ELSE "error" ELSE outcome[m]]
      BY <1>1, <2>1, <2>2 DEF Return, Mine, TypeOK
    <2>4. QED BY <1>1, <2>1, <2>2, <2>3 DEF Return, Mine, Goto, TypeOK
  <1>2. CASE level[t] = "user"
    BY <1>2 DEF Leave, Mine, Goto, TypeOK
  <1>3. QED BY <1>1, <1>2 DEF TypeOK

\* All of them are still without an answer, and nothing of them is committed.
LEMMA MineBusy ==
  ASSUME SInv, NEW t \in Threads, pc[t] \in {"commit", "rollback"}, NEW m \in Mine(t)
  PROVE  /\ m \in Messages /\ outcome[m] = "busy" /\ m \notin erased /\ m \notin Preloaded
         /\ Part(m, session.stored) = {}
         /\ (InCall(t, "insert") /\ m = msg[t]) \/ m \in batch[t]
  <1> USE DEF SInv, StoreInv, IInv, TypeInv, LockInv
  <1>1. m \in Messages
    BY DEF Mine, TypeOK
  <1>2. (InCall(t, "insert") /\ m = msg[t]) \/ m \in batch[t]
    BY DEF Mine, InCall, TypeOK
  <1>3. outcome[m] = "busy"
    BY <1>2 DEF ClaimInv, Claim
  <1>4. Told(m)
    BY <1>1, AnswerTold
  <1>5. QED BY <1>1, <1>2, <1>3, <1>4 DEF Told

\* What the transaction has made of a message when it comes to COMMIT.
LEMMA CommitWork ==
  ASSUME SoundUse, SInv, NEW t \in Threads, pc[t] = "commit", NEW m \in Messages
  PROVE  /\ owner = t /\ connected /\ session.tx = "open"
         /\ m \in Mine(t) => Part(m, session.work) = Statements
         /\ m \notin Mine(t) => \/ Part(m, session.work) = Part(m, session.stored)
                                \/ Part(m, session.work) = {} /\ m \in erased
  <1> USE DEF SInv, StoreInv, IInv, TypeInv, LockInv
  <1>1. /\ t \notin failed /\ level[t] \in {"internal", "user"}
        /\ level[t] = "internal" => op[t] # "get" /\ t \notin userTx
        /\ level[t] = "user" => t \in userTx
    BY DEF ControlInv, TypeOK
  <1>2. owner = t
    BY <1>1 DEF MutexBalanced, InsideTransaction
  <1>3. NoErrorYet(t) /\ connected /\ session.tx = "open"
    BY <1>1, <1>2 DEF NoErrorYet, SessionInv
  <1>4. Worked(t, m)
    BY <1>3 DEF WorkInv
  <1>5. 1..(Reached(t) - 1) = Statements /\ Reached(t)..NStatements = {}
    <2>1. Reached(t) = NStatements + 1
      BY DEF Reached
    <2>2. QED BY <2>1, Counting, MessagesAssumption DEF Statements
  <1>6. CASE level[t] = "user"
    BY <1>2, <1>3, <1>4, <1>6 DEF Worked, Mine, InCall
  <1>7. CASE level[t] = "internal"
    <2>1. batch[t] = {} /\ (InCall(t, "delete") => msg[t] \in erased)
      BY <1>1, <1>7 DEF ClaimInv, Claim
    <2>2. InCall(t, "insert") <=> op[t] = "insert"
      BY <1>7 DEF InCall
    <2>3. CASE op[t] = "insert"
      BY <1>2, <1>3, <1>4, <1>5, <1>7, <2>1, <2>2, <2>3 DEF Worked, Mine, InCall
    <2>4. CASE op[t] # "insert"
      BY <1>2, <1>3, <1>4, <1>5, <1>7, <2>1, <2>2, <2>4 DEF Worked, Mine
    <2>5. QED BY <2>3, <2>4
  <1>8. QED BY <1>1, <1>6, <1>7

\* The step that ends a transaction: an answer for its messages, and the rows of the
\* transaction, all of them, or none.
LEMMA EndTells ==
  ASSUME SoundUse, SInv, NEW t \in Threads,
         CommitTransaction(t) \/ NoRollback(t) \/ RollbackTransaction(t)
  PROVE  /\ pc[t] \in {"commit", "rollback"} /\ owner = t /\ owner' = NoThread
         /\ UNCHANGED <<level, op, msg, step, seen>>
         /\ \E ok, doubt \in BOOLEAN :
              /\ Leave(t, ok, doubt)
              /\ ok => pc[t] = "commit" /\ session'.stored = session.work
              /\ ~ok /\ ~doubt => session'.stored = session.stored
              /\ doubt => ~ok /\ pc[t] = "commit"
              /\ session'.stored \in {session.work, session.stored}
  <1> USE DEF SInv, IInv, TypeInv, LockInv
  <1>1. \E ok, doubt : Leave(t, ok, doubt) /\ Release(t)
    BY DEF CommitTransaction, NoRollback, RollbackTransaction
  <1>2. pc[t] \in {"commit", "rollback"} /\ UNCHANGED <<level, op, msg, step, seen>>
    BY DEF CommitTransaction, NoRollback, RollbackTransaction
  <1>3. owner = t /\ owner' = NoThread
    BY <1>1, <1>2, LeaveMoves
  <1>4. CASE CommitTransaction(t)
    <2>1. PICK r \in Query("COMMIT", <<msg[t], step[t]>>) :
            session' = r.session /\ Leave(t, r.ok, ~r.ok)
      BY <1>4 DEF CommitTransaction, Ask
    <2>2. pc[t] = "commit"
      BY <1>4 DEF CommitTransaction
    <2>3. connected /\ session.tx = "open"
      BY <2>2, CommitWork, MessagesAssumption
    <2>4. /\ r.ok => session'.stored = session.work
          /\ session'.stored \in {session.work, session.stored}
      BY <2>1, <2>3, CommitAnswer, Fields DEF SoundUse
    <2>5. CASE r.ok
      <3>1. Leave(t, TRUE, FALSE)
        BY <2>1, <2>5 DEF Leave, Return
      <3>2. QED BY <1>2, <1>3, <2>2, <2>4, <2>5, <3>1
    <2>6. CASE ~r.ok
      <3>1. Leave(t, FALSE, TRUE)
        BY <2>1, <2>6 DEF Leave, Return
      <3>2. QED BY <1>2, <1>3, <2>2, <2>4, <2>6, <3>1
    <2>7. QED BY <2>5, <2>6
  <1>5. CASE NoRollback(t) \/ RollbackTransaction(t)
    <2>1. Leave(t, FALSE, FALSE)
      BY <1>5 DEF NoRollback, RollbackTransaction
    <2>2. session'.stored = session.stored
      <3>1. CASE NoRollback(t)
        BY <3>1 DEF NoRollback
      <3>2. CASE RollbackTransaction(t)
        <4>1. PICK r \in Query("ROLLBACK", <<msg[t], step[t]>>) : session' = r.session
          BY <3>2 DEF RollbackTransaction, Ask
        <4>2. ~connected => session = Settled(session.stored)
          BY DEF SessionInv
        <4>3. QED BY <4>1, <4>2, RollbackAnswer, Fields DEF SoundUse
      <3>3. QED BY <1>5, <3>1, <3>2
    <2>3. QED BY <1>2, <1>3, <2>1, <2>2
  <1>6. QED BY <1>4, <1>5

\* COMMIT, ROLLBACK or neither: what is committed still agrees with what was told.
LEMMA EndStore ==
  ASSUME SoundUse, SInv, NEW t \in Threads,
         CommitTransaction(t) \/ NoRollback(t) \/ RollbackTransaction(t)
  PROVE  StoreInv'
  <1> USE DEF SInv, IInv, TypeInv, LockInv, StoreInv
  <1>1. Frame(t)
    BY StepFrame DEF Step
  <1>2. /\ pc[t] \in {"commit", "rollback"} /\ owner = t /\ owner' = NoThread
        /\ UNCHANGED <<level, op, msg, step, seen>>
    BY EndTells
  <1>3. PICK ok \in BOOLEAN, doubt \in BOOLEAN :
          /\ Leave(t, ok, doubt)
          /\ ok => pc[t] = "commit" /\ session'.stored = session.work
          /\ ~ok /\ ~doubt => session'.stored = session.stored
          /\ doubt => ~ok /\ pc[t] = "commit"
          /\ session'.stored \in {session.work, session.stored}
    BY EndTells
  <1>4. /\ outcome' = [m \in Messages |->
                         IF m \in Mine(t) THEN IF ok THEN "ok" ELSE "error" ELSE outcome[m]]
        /\ inDoubt' = IF doubt THEN inDoubt \cup Mine(t) ELSE inDoubt
        /\ erased' = erased /\ batch' = batch /\ userTx' = userTx
        /\ pc'[t] = IF level[t] = "user" THEN "enable" ELSE "idle"
    BY <1>2, <1>3, LeaveTells
  <1>5. ASSUME NEW m \in Messages \ Mine(t)
        PROVE  \/ Part(m, session'.stored) = Part(m, session.stored)
               \/ Part(m, session'.stored) = {} /\ m \in erased
    <2>1. CASE session'.stored = session.stored
      BY <2>1
    <2>2. CASE pc[t] = "commit" /\ session'.stored = session.work
      BY <2>2, CommitWork
    <2>3. QED BY <1>3, <2>1, <2>2
  <1>6. Isolated(t)
    <2>1. \A m \in Messages : Old(m) => m \notin Mine(t)
      BY <1>2, MineBusy DEF Old
    <2>2. \A m \in Mine(t) : (InCall(t, "insert") /\ m = msg[t]) \/ m \in batch[t]
      BY <1>2, MineBusy
    <2>3. QED BY <1>2, <1>4, <1>5, <2>1, <2>2, ThreadsAssumption DEF Isolated
  <1>7. level[t] = "internal" => batch[t] = {}
    BY <1>2 DEF ControlInv, ClaimInv, Claim
  <1>8. \A o : ~InCall(t, o)'
    BY <1>2, <1>4 DEF InCall, TypeOK
  <1>9. Claim(t)'
    <2>1. Claim(t)
      BY DEF ClaimInv
    <2>2. level[t] = "internal" \/ pc'[t] = "enable"
      BY <1>4 DEF TypeOK
    <2>3. QED BY <1>2, <1>4, <1>7, <1>8, <2>1, <2>2 DEF Claim
  <1>10. ReadsWell(t)'
    <2>1. ReadsWell(t)
      BY ReadsByThread
    <2>2. QED BY <1>2, <1>4, <2>1 DEF ReadsWell
  <1>11. ASSUME NEW m \in Messages PROVE Told(m)'
    <2>1. Told(m)
      BY AnswerTold
    <2>2. CASE m \notin Mine(t)
      <3>1. outcome'[m] = outcome[m] /\ erased' = erased /\ (m \in inDoubt => m \in inDoubt')
        BY <1>4, <2>2
      <3>2. QED BY <1>5, <2>1, <2>2, <3>1 DEF Told
    <2>3. CASE m \in Mine(t)
      <3>1. /\ Part(m, session.stored) = {} /\ m \notin Preloaded
            /\ pc[t] = "commit" => Part(m, session.work) = Statements
        BY <1>2, <2>3, MineBusy, CommitWork
      <3>2. outcome'[m] = IF ok THEN "ok" ELSE "error"
        BY <1>4, <2>3
      <3>3. doubt => m \in inDoubt'
        BY <1>4, <2>3
      <3>4. ok => Part(m, session'.stored) = Statements
        BY <1>3, <3>1
      <3>5. Part(m, session'.stored) \in {{}, Statements}
        BY <1>3, <3>1
      <3>6. ~ok /\ ~doubt => Part(m, session'.stored) = {}
        BY <1>3, <3>1
      <3>7. QED BY <3>1, <3>2, <3>3, <3>4, <3>5, <3>6 DEF Told
    <2>4. QED BY <2>2, <2>3
  <1>12. ~NoErrorYet(t)'
    BY <1>2, ThreadsAssumption DEF NoErrorYet
  <1>13. QED BY <1>1, <1>6, <1>8, <1>9, <1>10, <1>11, <1>12, StoreAfter

\* The destruction of the object finds the session settled.
LEMMA DestroyStore ==
  ASSUME SInv, Destroy
  PROVE  StoreInv' /\ UNCHANGED <<session, outcome, erased>>
  <1> USE DEF SInv, IInv, TypeInv, LockInv
  <1>1. owner = NoThread
    BY DEF Destroy, MutexBalanced, InsideTransaction, TypeOK
  <1>2. session = Settled(session.stored)
    BY <1>1 DEF FreeMutexSettled
  <1>3. UNCHANGED <<session, owner, pc, level, op, msg, step, seen, userTx, failed, batch, outcome,
                    inDoubt, erased>>
    BY <1>2 DEF Destroy, threadVars, ghostVars
  <1>4. ClaimInv' /\ WorkInv'
    BY <1>3 DEF StoreInv, ClaimInv, Claim, WorkInv, Worked, InCall, Reached, NoErrorYet
  <1>5. AnswerInv' /\ ReadInv'
    BY <1>3 DEF StoreInv, AnswerInv, WholeMessages, SuccessIsDurable, FailureLeavesNothing,
                ReadInv, ReadsCutOnce, Reading
  <1>6. QED BY <1>3, <1>4, <1>5 DEF StoreInv

-----------------------------------------------------------------------------
(***************************************************************************)
(* Theorems                                                                *)
(***************************************************************************)

\* What is committed at first is whole, and nobody has asked for anything.
LEMMA InitStore == Init => SInv
  <1> SUFFICES ASSUME Init PROVE StoreInv
    BY InitLock DEF SInv
  <1>1. ClaimInv
    BY DEF Init, ClaimInv, Claim, InCall
  <1>2. session.stored = Preloaded \X Statements
    BY Fields DEF Init
  <1>3. \A m \in Messages : Part(m, session.stored) = IF m \in Preloaded THEN Statements ELSE {}
    BY <1>2 DEF Part
  <1>4. AnswerInv
    <2>1. \A m \in Messages : Told(m)
      BY <1>3 DEF Init, Told
    <2>2. QED BY <2>1, AnswerTold
  <1>5. WorkInv
    BY ThreadsAssumption DEF Init, WorkInv, NoErrorYet
  <1>6. ReadInv
    BY DEF Init, ReadInv, ReadsCutOnce
  <1>7. QED BY <1>1, <1>4, <1>5, <1>6 DEF StoreInv

\* Every step of a sound use preserves the invariant.
LEMMA NextStore ==
  ASSUME SoundUse
  PROVE  SInv /\ [Next]_vars => SInv'
  <1> SUFFICES ASSUME SInv, [Next]_vars PROVE StoreInv'
    BY NextLock DEF SInv
  <1>1. ASSUME NEW t \in Threads, Step(t)
        PROVE  StoreInv'
    <2>1. CASE TransactionEnd(t) \/ TransactionAbort(t)
      BY <2>1, MoveStore, ProvisionalStore
    <2>2. CASE MessageQuery(t)
      BY <2>2, WriteStore, ReadStore
    <2>3. QED BY <1>1, <2>1, <2>2, MoveStore, BeginStore, EndStore, EnableStore DEF Step
  <1>2. ASSUME NEW t \in Threads, Invoke(t)
        PROVE  StoreInv'
    BY <1>2, CallStore, MoveStore DEF Invoke
  <1>3. CASE UNCHANGED vars
    <2>1. UNCHANGED <<session, owner, pc, level, op, msg, step, seen, userTx, failed, batch, outcome,
                      inDoubt, erased>>
      BY <1>3 DEF vars
    <2>2. ClaimInv' /\ WorkInv'
      BY <2>1 DEF SInv, StoreInv, ClaimInv, Claim, WorkInv, Worked, InCall, Reached, NoErrorYet
    <2>3. AnswerInv' /\ ReadInv'
      BY <2>1 DEF SInv, StoreInv, AnswerInv, WholeMessages, SuccessIsDurable,
                  FailureLeavesNothing, ReadInv, ReadsCutOnce, Reading
    <2>4. QED BY <2>2, <2>3 DEF StoreInv
  <1>4. QED BY <1>1, <1>2, <1>3, DestroyStore DEF Next, Finished

\* In a sound use the storage invariant holds in every reachable state: what is
\* committed and what each open transaction is about to commit are what the callers
\* were told, whatever fails and whoever runs in between.
THEOREM StoreCorrect ==
  ASSUME SoundUse
  PROVE  Spec => []StoreInv
  <1>1. SInv => StoreInv
    BY DEF SInv
  <1>2. QED BY <1>1, InitStore, NextStore, PTL DEF Spec

\* In a sound use all the rows of a message are committed or none, at every instant:
\* neither a failed query, nor a lost connection, nor a reconnection tears one.
THEOREM WholeCorrect ==
  ASSUME SoundUse
  PROVE  Spec => []WholeMessages
  <1>1. StoreInv => WholeMessages
    BY DEF StoreInv, AnswerInv
  <1>2. QED BY <1>1, StoreCorrect, PTL

\* In a sound use a message whose insertion was reported a success stays in the
\* database until somebody asks for its deletion.
THEOREM DurableCorrect ==
  ASSUME SoundUse
  PROVE  Spec => []SuccessIsDurable
  <1>1. StoreInv => SuccessIsDurable
    BY DEF StoreInv, AnswerInv
  <1>2. QED BY <1>1, StoreCorrect, PTL

\* In a sound use a message whose insertion was reported a failure is not in the
\* database and never will be, unless it was the answer to COMMIT that was lost.
THEOREM FailureCorrect ==
  ASSUME SoundUse
  PROVE  Spec => []FailureLeavesNothing
  <1>1. StoreInv => FailureLeavesNothing
    BY DEF StoreInv, AnswerInv
  <1>2. QED BY <1>1, StoreCorrect, PTL

\* In a sound use a read, whose queries run without a transaction, finds the rows of
\* one state of the message up to the point where a deletion overtook it, and all of
\* them when nobody asked to delete it.
THEOREM ReadsCorrect ==
  ASSUME SoundUse
  PROVE  Spec => []ReadsCutOnce
  <1>1. StoreInv => ReadsCutOnce
    BY DEF StoreInv, ReadInv
  <1>2. QED BY <1>1, StoreCorrect, PTL

-----------------------------------------------------------------------------
(***************************************************************************)
(* The refinement                                                          *)
(***************************************************************************)

\* What the store holds of a message, told by its rows.
LEMMA HeldPart ==
  ASSUME NEW m
  PROVE  /\ Held(m) = IF Part(m, session.stored) = Statements THEN "whole"
                      ELSE IF Part(m, session.stored) = {} THEN "absent" ELSE "torn"
         /\ Held(m)' = IF Part(m, session'.stored) = Statements THEN "whole"
                       ELSE IF Part(m, session'.stored) = {} THEN "absent" ELSE "torn"
  BY PartRows DEF Held

\* A step that commits nothing leaves the store as it is.
LEMMA HeldKept ==
  ASSUME session'.stored = session.stored
  PROVE  [m \in Messages |-> Held(m)]' = [m \in Messages |-> Held(m)]
  BY DEF Held

\* The initial states are those of the store.
LEMMA InitRefines == Init => Store!Init
  <1> SUFFICES ASSUME Init PROVE Store!Init
    OBVIOUS
  <1>1. session.stored = Preloaded \X Statements
    BY Fields DEF Init
  <1>2. ASSUME NEW m \in Messages
        PROVE  Held(m) = IF m \in Preloaded THEN "whole" ELSE "absent"
    <2>1. Part(m, session.stored) = IF m \in Preloaded THEN Statements ELSE {}
      BY <1>1 DEF Part
    <2>2. QED BY <2>1, HeldPart, Counting, MessagesAssumption DEF Statements
  <1>3. QED BY <1>2 DEF Init, Store!Init

\* A step that neither commits nor tells anything is none of the store.
LEMMA StutterRefines ==
  ASSUME session'.stored = session.stored, outcome' = outcome, erased' = erased
  PROVE  [Store!Next]_(Store!vars)
  BY HeldKept DEF Store!vars

\* A step that commits nothing and answers insertions of S with an error.
LEMMA RefuseRefines ==
  ASSUME session'.stored = session.stored, erased' = erased,
         NEW S \in SUBSET Messages, \A m \in S : outcome[m] = "busy",
         outcome' = [m \in Messages |-> IF m \in S THEN "error" ELSE outcome[m]]
  PROVE  Store!Next
  <1>1. Store!Refuse(S)
    BY HeldKept DEF Store!Refuse, Store!Tell
  <1>2. S \in SUBSET Store!Busy
    BY DEF Store!Busy
  <1>3. QED BY <1>1, <1>2 DEF Store!Next

\* The start of a call.
LEMMA CallRefines ==
  ASSUME SInv, NEW t \in Threads, NEW o \in Ops, NEW m \in Messages, Call(t, o, m)
  PROVE  [Store!Next]_(Store!vars)
  <1> USE DEF SInv, IInv, TypeInv, StoreInv
  <1>1. session' = session
    BY DEF Call, sqlVars
  <1>2. CASE o = "insert"
    <2>1. /\ outcome[m] = "none" /\ m \notin Preloaded /\ erased' = erased
          /\ outcome' = [outcome EXCEPT ![m] = "busy"]
      BY <1>2 DEF Call
    <2>2. outcome' = [n \in Messages |-> IF n \in {m} THEN "busy" ELSE outcome[n]]
      BY <2>1 DEF TypeOK
    <2>3. Store!Insert(m)
      BY <1>1, <2>1, <2>2, HeldKept DEF Store!Insert, Store!Tell
    <2>4. QED BY <2>3 DEF Store!Next
  <1>3. CASE o = "delete"
    <2>1. /\ outcome' = outcome /\ erased' = erased \cup {m}
          /\ Part(m, session.stored) # {}
      BY <1>3, PartRows DEF Call
    <2>2. Held(m) = "whole"
      BY <2>1, HeldPart, AnswerTold DEF Told
    <2>3. Store!Delete(m)
      BY <1>1, <2>1, <2>2, HeldKept DEF Store!Delete
    <2>4. QED BY <2>3 DEF Store!Next
  <1>4. CASE o = "get"
    BY <1>1, <1>4, StutterRefines DEF Call
  <1>5. QED BY <1>2, <1>3, <1>4 DEF Ops

\* The end of a transaction is the instant at which its insertions and deletions take
\* effect and their callers get their answer.
LEMMA EndRefines ==
  ASSUME SoundUse, SInv, NEW t \in Threads,
         CommitTransaction(t) \/ NoRollback(t) \/ RollbackTransaction(t)
  PROVE  Store!Next
  <1> DEFINE gone == {m \in erased \ Mine(t) : Part(m, session'.stored) = {}}
  <1>1. pc[t] \in {"commit", "rollback"}
    BY EndTells
  <1>2. PICK ok \in BOOLEAN, doubt \in BOOLEAN :
          /\ Leave(t, ok, doubt)
          /\ ok => pc[t] = "commit" /\ session'.stored = session.work
          /\ ~ok /\ ~doubt => session'.stored = session.stored
          /\ doubt => ~ok /\ pc[t] = "commit"
          /\ session'.stored \in {session.work, session.stored}
    BY EndTells
  <1>3. /\ outcome' = [m \in Messages |->
                         IF m \in Mine(t) THEN IF ok THEN "ok" ELSE "error" ELSE outcome[m]]
        /\ erased' = erased
    BY <1>1, <1>2, LeaveTells
  <1>4. Mine(t) \in SUBSET Store!Busy /\ Mine(t) \in SUBSET Messages
    BY <1>1, MineBusy DEF Store!Busy
  <1>5. CASE session'.stored = session.stored /\ ~ok
    <2>1. outcome' = [m \in Messages |-> IF m \in Mine(t) THEN "error" ELSE outcome[m]]
      BY <1>3, <1>5
    <2>2. QED BY <1>1, <1>3, <1>4, <1>5, <2>1, MineBusy, RefuseRefines
  <1>6. CASE pc[t] = "commit" /\ session'.stored = session.work
    <2>1. ASSUME NEW m \in Messages
          PROVE  Held(m)' = IF m \in Mine(t) THEN "whole"
                            ELSE IF m \in gone THEN "absent" ELSE Held(m)
      <3>1. CASE m \in Mine(t)
        BY <1>6, <3>1, CommitWork, HeldPart
      <3>2. CASE m \in gone
        <4>1. Part(m, session'.stored) = {} /\ m \notin Mine(t)
          BY <3>2
        <4>2. Statements # {}
          BY MessagesAssumption DEF Statements
        <4>3. Held(m)' = "absent"
          BY <4>1, <4>2, HeldPart
        <4>4. QED BY <3>2, <4>1, <4>3
      <3>3. CASE m \notin Mine(t) /\ m \notin gone
        <4>1. Part(m, session'.stored) = Part(m, session.stored)
          BY <1>6, <3>3, CommitWork
        <4>2. QED BY <3>3, <4>1, HeldPart
      <3>4. QED BY <3>1, <3>2, <3>3
    <2>2. [m \in Messages |-> Held(m)]'
            = [m \in Messages |-> IF m \in Mine(t) THEN "whole"
                                  ELSE IF m \in gone THEN "absent"
                                  ELSE [n \in Messages |-> Held(n)][m]]
      BY <2>1
    <2>3. Store!Exchange(Mine(t), gone)
      BY <2>2 DEF Store!Exchange
    <2>4. Store!Settle(Mine(t), gone) \/ Store!LoseAnswer(Mine(t), gone)
      BY <1>3, <2>3 DEF Store!Settle, Store!LoseAnswer, Store!Tell
    <2>5. gone \in SUBSET (erased \ Mine(t))
      OBVIOUS
    <2>6. QED BY <1>4, <2>4, <2>5 DEF Store!Next
  <1>7. QED BY <1>2, <1>5, <1>6

\* Every other step of a thread commits nothing and refuses at most one insertion.
LEMMA StepRefines ==
  ASSUME SoundUse, SInv, NEW t \in Threads, Step(t)
  PROVE  [Store!Next]_(Store!vars)
  <1> USE DEF SInv, IInv, TypeInv, LockInv, StoreInv
  <1>1. ASSUME Return(t, FALSE), InCall(t, op[t]), session'.stored = session.stored
        PROVE  [Store!Next]_(Store!vars)
    <2>1. erased' = erased
      BY <1>1 DEF Return
    <2>2. CASE op[t] = "insert"
      <3>1. outcome[msg[t]] = "busy" /\ {msg[t]} \in SUBSET Messages
        BY <1>1, <2>2 DEF ClaimInv, Claim, TypeOK
      <3>2. outcome' = [m \in Messages |-> IF m \in {msg[t]} THEN "error" ELSE outcome[m]]
        BY <1>1, <2>2 DEF Return, TypeOK
      <3>3. QED BY <1>1, <2>1, <3>1, <3>2, RefuseRefines
    <2>3. CASE op[t] # "insert"
      BY <1>1, <2>1, <2>3, StutterRefines DEF Return
    <2>4. QED BY <2>2, <2>3
  <1>2. CASE TransactionStart(t) \/ InTransaction(t)
    BY <1>2, StutterRefines DEF TransactionStart, InTransaction, sqlVars, ghostVars
  <1>3. CASE AlreadyInTransaction(t)
    <2>1. level[t] = "user"
      BY <1>3, BeginCases DEF AlreadyInTransaction
    <2>2. QED BY <1>3, <2>1, StutterRefines DEF AlreadyInTransaction, StartFails, ghostVars
  <1>4. CASE BeginTransaction(t)
    <2>1. PICK r \in Query("BEGIN", <<msg[t], step[t]>>) :
            /\ session' = r.session
            /\ UNCHANGED ghostVars \/ (level[t] # "user" /\ Return(t, FALSE))
      BY <1>4 DEF BeginTransaction, StartFails, Ask
    <2>2. pc[t] = "begin" /\ session = Settled(session.stored)
      BY <1>4, BeginCases DEF BeginTransaction
    <2>3. session'.stored = session.stored
      BY <2>1, <2>2, BeginAnswer, Fields DEF SoundUse
    <2>4. level[t] # "user" => InCall(t, op[t])
      BY <2>2 DEF InCall, TypeOK
    <2>5. QED BY <1>1, <2>1, <2>3, <2>4, StutterRefines DEF ghostVars
  <1>5. CASE MessageQuery(t)
    <2>1. PICK r \in Query(op[t], <<msg[t], step[t]>>) :
            /\ session' = r.session
            /\ UNCHANGED ghostVars \/ (op[t] = "get" /\ \E ok : Return(t, ok))
      BY <1>5 DEF MessageQuery, Ask
    <2>2. outcome' = outcome /\ erased' = erased
      BY <2>1 DEF Return, ghostVars
    <2>3. /\ pc[t] = "query" /\ level[t] = "internal" /\ t \notin failed /\ op[t] \in Ops
      BY <1>5 DEF MessageQuery, ControlInv, TypeOK
    <2>4. session'.stored = session.stored
      <3>1. CASE owner = t
        <4>1. connected /\ session.tx = "open"
          BY <2>3, <3>1 DEF NoErrorYet, SessionInv
        <4>2. QED BY <2>1, <2>3, <4>1, OpenAnswer DEF SoundUse
      <3>2. CASE owner # t
        <4>1. op[t] = "get"
          BY <2>3, <3>2 DEF MutexBalanced, InsideTransaction
        <4>2. session = Settled(session.stored)
          BY <1>5, <3>2 DEF MessageQuery, CanLock, FreeMutexSettled
        <4>3. QED BY <2>1, <4>1, <4>2, GetAnswer DEF SoundUse
      <3>3. QED BY <3>1, <3>2
    <2>5. QED BY <2>2, <2>4, StutterRefines
  <1>6. CASE TransactionEnd(t) \/ TransactionAbort(t)
    <2>1. InCall(t, op[t]) /\ session' = session
      BY <1>6 DEF TransactionEnd, TransactionAbort, ControlInv, InCall, sqlVars
    <2>2. CASE ~disabled
      BY <1>6, <2>1, <2>2, StutterRefines DEF TransactionEnd, TransactionAbort, ghostVars
    <2>3. CASE disabled /\ TransactionAbort(t)
      BY <1>1, <2>1, <2>3 DEF TransactionAbort
    <2>4. CASE disabled /\ TransactionEnd(t)
      <3>1. t \in userTx
        <4>1. Threads = {t} /\ userTx # {} /\ userTx \subseteq Threads
          BY <2>4, Alone DEF FlagInv, TypeOK
        <4>2. QED BY <4>1
      <3>2. outcome' = outcome /\ erased' = erased
        BY <2>4, <3>1 DEF TransactionEnd, Return
      <3>3. QED BY <2>1, <3>2, StutterRefines
    <2>5. QED BY <1>6, <2>2, <2>3, <2>4
  <1>7. CASE NotInTransaction(t)
    BY <1>7, CheckQuiet, StutterRefines DEF NotInTransaction, sqlVars
  <1>8. CASE DisableInternal(t) \/ EnableInternal(t)
    BY <1>8, StutterRefines DEF DisableInternal, EnableInternal
  <1>9. QED BY <1>2, <1>3, <1>4, <1>5, <1>6, <1>7, <1>8, EndRefines DEF Step

\* Every step of a sound use is a step of the store or leaves it alone.
LEMMA NextRefines ==
  ASSUME SoundUse
  PROVE  SInv /\ [Next]_vars => [Store!Next]_(Store!vars)
  <1> SUFFICES ASSUME SInv, [Next]_vars PROVE [Store!Next]_(Store!vars)
    OBVIOUS
  <1>1. ASSUME NEW t \in Threads, Invoke(t)
        PROVE  [Store!Next]_(Store!vars)
    <2>1. CASE \E o \in Ops, m \in Messages : Call(t, o, m)
      BY <2>1, CallRefines
    <2>2. CASE UserStart(t) \/ \E label \in {"check_end", "check_abort"} : UserFinish(t, label)
      BY <2>2, StutterRefines DEF UserStart, UserFinish, sqlVars, ghostVars
    <2>3. QED BY <1>1, <2>1, <2>2 DEF Invoke
  <1>2. CASE Destroy
    BY <1>2, DestroyStore, StutterRefines
  <1>3. CASE UNCHANGED vars
    BY <1>3, StutterRefines DEF vars
  <1>4. QED BY <1>1, <1>2, <1>3, StepRefines DEF Next, Finished

\* In a sound use the threads, the sql object, its mutex and connection and the failing
\* server implement the message store: every insertion and deletion takes effect whole
\* and at the one instant at which its caller's answer is settled.
THEOREM Refinement ==
  ASSUME SoundUse
  PROVE  Spec => ImplementsStore
  <1>1. QED BY InitStore, NextStore, InitRefines, NextRefines, PTL
            DEF Spec, ImplementsStore, Store!Spec
=============================================================================
