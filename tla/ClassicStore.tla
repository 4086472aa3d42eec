------------------------------ MODULE ClassicStore ------------------------------
(***************************************************************************)
(* The messages the classic format keeps in the tables: sessions that       *)
(* insert messages, each in a transaction, and deletions of alerts and      *)
(* heartbeats by ident.  Alerts and heartbeats are numbered separately and  *)
(* share a third of the tables, where only _parent_type tells their rows    *)
(* apart.                                                                   *)
(*                                                                         *)
(* Transactions are atomic and a session sees the committed rows and its    *)
(* own (RequiemdbSql is about what happens when they are not).              *)
(***************************************************************************)
EXTENDS ClassicGet

CONSTANTS
    \* The sessions that insert messages.
    Writers,
    \* Whether the server lets a session write only when no other has written rows
    \* that are not committed: sqlite3 does, which locks the whole database.
    Serialized,
    \* The messages they may be given.
    Messages,
    \* Bound on the idents the server hands out.
    MaxIdent

ASSUME WritersAssumption == Writers # {}
ASSUME SerializedAssumption == Serialized \in BOOLEAN
ASSUME MaxIdentAssumption == MaxIdent \in Nat \ {0}
ASSUME MessagesAssumption == \A m \in Messages : IsMessage(m)

VARIABLES
    \* The committed rows.
    rows,
    \* The auto-increment counters of the tables Alert and Heartbeat.
    next,
    \* Where each session is in classic_insert, the message it was given, the ident
    \* its first INSERT was given by the server, the ident get_last_insert_ident
    \* read back, the rows not committed yet and the last outcome.
    pc, msg, given, ident, pending, ret,
    \* The messages in the database as its users know them: inserted with
    \* success and not deleted since.
    stored

vars == <<rows, next, pc, msg, given, ident, pending, ret, stored>>

Types == {"alert", "heartbeat"}
Idents == 1 .. MaxIdent

NoMessage == [type |-> "none"]

-----------------------------------------------------------------------------
(* insert_alert and insert_heartbeat below the message's own row. *)
insert_below(id, m) ==
    IF m.type = "alert" THEN insert_alert(id, m) ELSE insert_heartbeat(id, m)

\* The primary key of a row, with _message_ident or _ident.
Key(r) == <<r.t, r.pt, r.id, r.p, r.i>>

\* An INSERT of new fails on a row of old, or of new itself, with the same key.
Clash(new, old) ==
    \/ \E r \in new, q \in old : Key(r) = Key(q)
    \/ \E r, q \in new : r # q /\ Key(r) = Key(q)

\* SELECT max(_ident) FROM table.
get_last_insert_ident(R, type) ==
    LET ids == {r.id : r \in {q \in R : q.t = type}}
    IN  CHOOSE n \in ids : \A k \in ids : k <= n

-----------------------------------------------------------------------------
(* Deletions.  A query deletes from one table, for some tables only rows of the *)
(* message's own parent types.                                                  *)

\* Mutant of do_delete_alert: the arguments of web services are forgotten.
DeleteAlertButArgs(R, S) ==
    {r \in R : r.id \notin S \/ r.pt = "H" \/ r.t \in {"web_service_arg", "heartbeat"}}

do_delete_alert(R, S) ==
    LET ofAnalyzer == {"additional_data", "analyzer", "analyzer_time", "create_time"}
        notHeartbeat == {"address", "node", "process", "process_arg", "process_env"}
        whole == {"action", "alert", "alertident", "assessment", "classification",
                  "reference", "confidence", "correlation_alert", "detect_time",
                  "file", "file_access", "file_access_permission", "impact", "inode",
                  "checksum", "linkage", "overflow_alert", "snmp_service", "service",
                  "source", "target", "tool_alert", "user", "user_id",
                  "web_service", "web_service_arg"}
    IN  {r \in R : ~ /\ r.id \in S
                     /\ \/ r.t \in whole
                        \/ r.t \in ofAnalyzer /\ r.pt = "A"
                        \/ r.t \in notHeartbeat /\ r.pt # "H"}

do_delete_heartbeat(R, S) ==
    LET shared == {"additional_data", "address", "analyzer", "analyzer_time",
                   "create_time", "node", "process", "process_arg", "process_env"}
    IN  {r \in R : ~ /\ r.id \in S
                     /\ \/ r.t = "heartbeat"
                        \/ r.t \in shared /\ r.pt = "H"}

-----------------------------------------------------------------------------
Init ==
    /\ rows = {}
    /\ next = [y \in Types |-> 1]
    /\ pc = [w \in Writers |-> "idle"]
    /\ msg = [w \in Writers |-> NoMessage]
    /\ given = [w \in Writers |-> 0]
    /\ ident = [w \in Writers |-> 0]
    /\ pending = [w \in Writers |-> {}]
    /\ ret = [w \in Writers |-> "ok"]
    /\ stored = {}

\* classic_insert up to the INSERT of the message's own row: the server numbers it.
InsertMessage(w, m) ==
    /\ pc[w] = "idle"
    /\ Serialized => \A u \in Writers : pc[u] = "idle"
    /\ next[m.type] <= MaxIdent
    /\ pc' = [pc EXCEPT ![w] = "numbered"]
    /\ msg' = [msg EXCEPT ![w] = m]
    /\ given' = [given EXCEPT ![w] = next[m.type]]
    /\ pending' = [pending EXCEPT ![w] = {message_row(m, next[m.type])}]
    /\ next' = [next EXCEPT ![m.type] = @ + 1]
    /\ UNCHANGED <<rows, ident, ret, stored>>

\* The session asks for the ident of the row it has just inserted.
ReadIdent(w) ==
    /\ pc[w] = "numbered"
    /\ pc' = [pc EXCEPT ![w] = "identified"]
    /\ ident' = [ident EXCEPT ![w] =
                    get_last_insert_ident(rows \cup pending[w], msg[w].type)]
    /\ UNCHANGED <<rows, next, msg, given, pending, ret, stored>>

\* The session has no transaction any more and is ready for the next message.
Idle(w, outcome) ==
    /\ pc' = [pc EXCEPT ![w] = "idle"]
    /\ msg' = [msg EXCEPT ![w] = NoMessage]
    /\ given' = [given EXCEPT ![w] = 0]
    /\ ident' = [ident EXCEPT ![w] = 0]
    /\ pending' = [pending EXCEPT ![w] = {}]
    /\ ret' = [ret EXCEPT ![w] = outcome]

\* The other INSERTs, under the ident that was read, and COMMIT; an INSERT that
\* meets an existing key fails and the transaction is aborted.
InsertRows(w) ==
    LET new == insert_below(ident[w], msg[w])
        clash == Clash(new, rows \cup pending[w])
    IN  /\ pc[w] = "identified"
        /\ rows' = IF clash THEN rows ELSE rows \cup pending[w] \cup new
        /\ stored' = IF clash THEN stored
                     ELSE stored \cup
                            {[type |-> msg[w].type, id |-> given[w], m |-> msg[w]]}
        /\ Idle(w, IF clash THEN "duplicate" ELSE "ok")
        /\ UNCHANGED next

\* A statement fails for another reason: the transaction is aborted.
AbortInsert(w) ==
    /\ pc[w] # "idle"
    /\ Idle(w, "failed")
    /\ UNCHANGED <<rows, next, stored>>

\* classic_delete_alert and its variants on a list or a result of idents.
DeleteAlerts(S) ==
    /\ Serialized => \A w \in Writers : pc[w] = "idle"
    /\ rows' = do_delete_alert(rows, S)
    /\ stored' = {s \in stored : ~(s.type = "alert" /\ s.id \in S)}
    /\ UNCHANGED <<next, pc, msg, given, ident, pending, ret>>

DeleteHeartbeats(S) ==
    /\ Serialized => \A w \in Writers : pc[w] = "idle"
    /\ rows' = do_delete_heartbeat(rows, S)
    /\ stored' = {s \in stored : ~(s.type = "heartbeat" /\ s.id \in S)}
    /\ UNCHANGED <<next, pc, msg, given, ident, pending, ret>>

Next ==
    \/ \E w \in Writers :
        \/ \E m \in Messages : InsertMessage(w, m)
        \/ ReadIdent(w)
        \/ InsertRows(w)
        \/ AbortInsert(w)
    \/ \E S \in (SUBSET Idents) \ {{}} : DeleteAlerts(S) \/ DeleteHeartbeats(S)

Spec == Init /\ [][Next]_vars

-----------------------------------------------------------------------------
(* Properties *)

\* What fetch_field and the conversion to char take away from the rows R of a message
\* with the given additional data: with EmptyIsNull an empty string of a list and
\* whatever follows an empty piece of additional data; and the arguments of a process
\* that are not read by that process, or are read by another one as well (those of the
\* 129th analyzer, source or target and beyond are lost, and the 257th has those of
\* the first).
Readable(R, data) ==
    /\ \A k \in DOMAIN data : EmptyIsNull /\ data[k].v = Empty => k = Len(data)
    /\ \A r \in R : EmptyIsNull /\ r.v = Empty =>
            r.t \notin {"process_arg", "process_env", "web_service_arg", "file_access_permission"}
    /\ \A r, q \in R : r.t = "process_arg" /\ q.t = "process" /\ q.pt = r.pt =>
            (AsChar(q.p[1]) = r.p[1] <=> q.p = r.p)

Get(type, id) ==
    IF type = "alert" THEN classic_get_alert(rows, id) ELSE classic_get_heartbeat(rows, id)

\* What an insertion that succeeded stored is what a read gives back, element by
\* element and in order, whatever was inserted and deleted around it, and an
\* ident that has no message reads as an error.  A row written under another
\* index or parent type than the one it is read by, a row of a deleted message
\* that comes back in another one, or a heartbeat's row taken for an alert's,
\* would break it.
RoundTrip ==
    \A y \in Types, i \in Idents :
        LET here == {s \in stored : s.type = y /\ s.id = i}
        IN  IF here = {} THEN Get(y, i) = NotFound
            ELSE \A s \in here :
                    Readable(insert_below(i, s.m), s.m.additional_data) => Get(y, i) = s.m

\* Every row belongs to a message that is in the database: a deletion leaves no
\* row behind in any of the tables, and an insertion that failed none of those it
\* had written.  (A deletion that takes rows of the message of the other type with
\* the same ident breaks RoundTrip.)
NoOrphans ==
    \A r \in rows :
        \E s \in stored :
            /\ s.id = r.id
            /\ s.type = IF r.pt = "H" \/ r.t = "heartbeat" THEN "heartbeat" ELSE "alert"

\* No INSERT meets a key that exists: the indexes, with the copies of the last
\* elements at -1, number the rows of a message apart from each other and from
\* those of every other message.
NoDuplicateKey == \A w \in Writers : ret[w] # "duplicate"

=============================================================================
