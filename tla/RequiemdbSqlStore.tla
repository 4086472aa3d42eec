--------------------------- MODULE RequiemdbSqlStore ---------------------------
(***************************************************************************)
(* The sql object and its callers (RequiemdbSql) implement the message     *)
(* store (MessageStore): the rows that are committed on the server are the *)
(* messages the store holds, and the answers are the same.                 *)
(***************************************************************************)
EXTENDS RequiemdbSql

\* What the committed rows amount to for message m.  "torn" is no state of the
\* store: a step that commits part of a message is no step of it.
Held(m) ==
  IF RowsOf(m) \subseteq session.stored THEN "whole"
  ELSE IF RowsOf(m) \cap session.stored = {} THEN "absent"
  ELSE "torn"

Store == INSTANCE MessageStore
           WITH held <- [m \in Messages |-> Held(m)], doomed <- erased

\* Every behaviour of the threads, the sql object and the failing server is one
\* of the store: what requiemdb_insert_message and requiemdb_delete_* answer is
\* what happened to the message, all of it, in the very step that settles the
\* call, and no other step changes what is stored.
ImplementsStore == Store!Spec

-----------------------------------------------------------------------------
(***************************************************************************)
(* The inductive invariant behind the refinement                           *)
(***************************************************************************)

\* The queries of message m whose rows are among rows.
Part(m, rows) == {i \in Statements : <<m, i>> \in rows}

\* Thread t is in a call o on its message.
InCall(t, o) == level[t] = "internal" /\ op[t] = o /\ pc[t] # "idle"

\* The query that t has reached, NStatements + 1 when it has sent the last one.
Reached(t) == IF pc[t] \in {"start", "begin", "query"} THEN step[t] ELSE NStatements + 1

\* What thread t is doing is known to the callers: the message of an insertion, and
\* those its transaction has inserted, are still without an answer.
Claim(t) ==
  /\ InCall(t, "insert") => outcome[msg[t]] = "busy" /\ msg[t] \notin batch[t]
  /\ InCall(t, "delete") => msg[t] \in erased
  /\ batch[t] # {} => t \in userTx
  /\ pc[t] # "enable" => \A m \in batch[t] : outcome[m] = "busy"
  /\ level[t] = "internal" /\ pc[t] \in {"start", "begin"} => step[t] = 1

\* A message has one insertion, and only one thread is in it.
ClaimInv ==
  /\ \A t \in Threads : Claim(t)
  /\ \A t, u \in Threads :
       t # u /\ InCall(t, "insert") /\ InCall(u, "insert") => msg[t] # msg[u]

\* What is committed of a message agrees with what its caller was told.
AnswerInv ==
  /\ WholeMessages /\ SuccessIsDurable /\ FailureLeavesNothing
  /\ \A m \in Messages :
       /\ outcome[m] # "none" => m \notin Preloaded
       /\ outcome[m] \in {"none", "busy"} /\ m \notin Preloaded =>
            Part(m, session.stored) = {} /\ m \notin erased

\* The rows of message m in the work of the transaction of t, as long as no query
\* has failed: those its own insertions and deletions have come to, and otherwise
\* what is committed.
Worked(t, m) ==
  LET rows == Part(m, session.work)
      kept == Part(m, session.stored)
  IN  IF m \in batch[t] THEN rows = Statements
      ELSE IF m = msg[t] /\ InCall(t, "insert") THEN rows = 1..(Reached(t) - 1)
      ELSE IF m = msg[t] /\ InCall(t, "delete")
           THEN rows = {} \/ (rows = Reached(t)..NStatements /\ kept = Statements)
      ELSE rows = kept \/ (rows = {} /\ m \in erased)

WorkInv == \A t \in Threads : NoErrorYet(t) => \A m \in Messages : Worked(t, m)

\* The read of t has found every row so far, or the message is gone as far as t can
\* see; it was inserted long ago and is not coming back.
Reading(t) ==
  /\ msg[t] \in Preloaded \/ outcome[msg[t]] \in {"ok", "error"}
  /\ msg[t] \notin erased => Part(msg[t], session.stored) = Statements
  /\ \/ seen[t] = 1..(step[t] - 1)
     \/ Part(msg[t], IF owner = t THEN session.work ELSE session.stored) = {}

ReadInv ==
  /\ ReadsCutOnce
  /\ \A t \in Threads : pc[t] = "query" /\ op[t] = "get" => Reading(t)

\* Between the queries of one thread, the calls of the others and the faults of the
\* server, what is committed and what is about to be stay what the callers know.
StoreInv == ClaimInv /\ AnswerInv /\ WorkInv /\ ReadInv
=============================================================================
