----------------------------- MODULE RequiemdbAdmin -----------------------------
(***************************************************************************)
(* requiemdb-admin (src/requiemdb-admin.c): copy, move, delete, save,      *)
(* print and load, which process the messages of a database page by page,  *)
(* or of files one by one, with one transaction of their own for every     *)
(* events_per_transaction messages.                                        *)
(*                                                                         *)
(* A database is seen through the library, one call at a time: what a call *)
(* may answer is what RequiemdbSql shows of it (a failed call of its own   *)
(* transaction leaves nothing behind; inside the caller's it leaves part   *)
(* of a message, or a transaction the server will not commit).  "src" is   *)
(* also the files that load reads, "dst" the file save and print write.    *)
(***************************************************************************)
EXTENDS Integers, FiniteSets, Sequences

CONSTANTS
  NMessages,     \* messages in the source
  Commands,      \* the commands that are tried
  EptValues,     \* values of --events-per-transaction
  Limits,        \* values of --count; -1 when the option is absent
  Offsets,       \* values of --offset
  FileSizes,     \* load: messages in the first file; the rest is in a second one
  TableSize,     \* size of delete_tbl
  Faulty,        \* the calls that may fail
  MaxFaults      \* bound on the failures

FaultKinds == {"open", "begin", "commit", "fetch", "row", "get", "insert", "delete", "purge", "save"}

ASSUME AdminAssumption ==
  /\ NMessages \in Nat /\ MaxFaults \in Nat
  /\ Commands \subseteq {"copy", "move", "delete", "save", "print", "load"}
  /\ EptValues \subseteq Nat /\ Offsets \subseteq Nat /\ FileSizes \subseteq 1..NMessages
  /\ Limits \subseteq Nat \cup {-1}
  /\ TableSize \in Nat \ {0}
  /\ Faulty \subseteq FaultKinds

VARIABLES
  command, ept, limit, offset,  \* the command line
  firstFile,  \* and the messages in the first file it names
  files,      \* the files load has not opened yet, as sets of messages
  limitCopy,  \* limit_copy: what is left of the limit
  toSkip,     \* offset_copy: what load has left to skip
  curCount,   \* cur_count
  eventNo,    \* event_no: messages in the current transaction
  dbs,        \* the two databases
  page,       \* idents fetched and not processed yet
  current,    \* the message being copied
  tbl,        \* delete_tbl: copied messages to delete from the source
  failed,     \* ret < 0
  stop,       \* stop_processing
  after,      \* where flush_transaction_if_needed returns to
  pc,         \* where the program is
  faults      \* failures so far

vars == <<command, ept, limit, offset, firstFile, files, limitCopy, toSkip, curCount, eventNo, dbs, page,
          current, tbl, failed, stop, after, pc, faults>>

options == <<command, ept, limit, offset, firstFile>>

-----------------------------------------------------------------------------
(***************************************************************************)
(* Databases (external: seen through the library)                          *)
(***************************************************************************)

Idents == 1..NMessages

\* tx: outside any transaction of the caller, inside one, or inside one that can
\* no longer be committed.  work is what the caller sees, stored what is kept:
\* each message is "absent", "whole", "twice" or "torn".
Database(x, w, d) == [tx |-> x, work |-> w, stored |-> d]
Settled(d) == Database("none", d, d)

Everything == [i \in Idents |-> "whole"]
Nothing    == [i \in Idents |-> "absent"]

\* The answers a call may give: the database after it, whether it succeeded and
\* what failed, if anything.
Reply(d, ok, cost) == [db |-> d, ok |-> ok, cost |-> cost]
Fault(kind, ds) == IF kind \in Faulty THEN {Reply(d, FALSE, 1) : d \in ds} ELSE {}

\* One more copy of message m.
Inserted(c, m) == [c EXCEPT ![m] = IF @ = "absent" THEN "whole" ELSE "twice"]
Removed(c, S)  == [i \in Idents |-> IF i \in S THEN "absent" ELSE c[i]]
Torn(c, S)     == [i \in Idents |-> IF i \in S THEN "torn" ELSE c[i]]

\* What a change from work w to work v makes of database d when it succeeds.
Changed(d, v) == IF d.tx = "none" THEN Settled(v) ELSE Database("open", v, d.stored)

\* What it leaves when it fails half way, having touched the messages of S.
Broken(d, S) ==
  IF d.tx = "none" THEN {d}
  ELSE {Database("open", Torn(d.work, S), d.stored), Database("failed", d.work, d.stored)}

\* requiemdb_transaction_start; ALREADY_IN_TRANSACTION if there is one.
TransactionStart(d) ==
  IF d.tx # "none" THEN {Reply(d, FALSE, 0)}
  ELSE {Reply(Database("open", d.stored, d.stored), TRUE, 0)} \cup Fault("begin", {d})

\* requiemdb_transaction_end; NOT_IN_TRANSACTION if there is none.  A COMMIT that
\* fails may have been carried out.
TransactionEnd(d) ==
  IF d.tx = "none" THEN {Reply(d, FALSE, 0)}
  ELSE {Reply(Settled(IF d.tx = "open" THEN d.work ELSE d.stored), TRUE, 0)} \cup
       Fault("commit", {Settled(d.stored), Settled(d.work)})

\* requiemdb_transaction_abort: nothing of the transaction is kept.
TransactionAbort(d) == {Reply(Settled(d.stored), d.tx # "none", 0)}

\* requiemdb_insert_message.
InsertMessage(d, m) ==
  IF d.tx = "failed" THEN {Reply(d, FALSE, 0)}
  ELSE {Reply(Changed(d, Inserted(d.work, m)), TRUE, 0)} \cup Fault("insert", Broken(d, {m}))

\* requiemdb_delete_alert_from_list, _from_result_idents and those of heartbeats.
DeleteMessages(d, S, kind) ==
  IF d.tx = "failed" THEN {Reply(d, FALSE, 0)}
  ELSE {Reply(Changed(d, Removed(d.work, S)), TRUE, 0)} \cup Fault(kind, Broken(d, S))

\* Idents number from+1 to from+n, in the order of idents, of those in database d.
Slice(d, from, n) ==
  LET present == {i \in Idents : d.work[i] # "absent"}
      Rank(i) == Cardinality({j \in present : j <= i})
  IN  {i \in present : from < Rank(i) /\ Rank(i) <= from + n}

Lowest(S) == CHOOSE i \in S : \A j \in S : i <= j

-----------------------------------------------------------------------------
(***************************************************************************)
(* The program                                                             *)
(***************************************************************************)

Target == IF command = "delete" THEN "src" ELSE "dst"

\* save and print keep no transaction.
HasTransaction == ept > 1 /\ command \notin {"save", "print"}

\* Database x gives the answer r.
Answered(x, r) == dbs' = [dbs EXCEPT ![x] = r.db] /\ faults' = faults + r.cost

\* The answers of a call that leaves the database alone.
ReadOnly(d, kind) == {Reply(d, TRUE, 0)} \cup Fault(kind, {d})

\* The files on the command line of load.
Files ==
  IF command # "load" THEN <<>>
  ELSE IF firstFile = NMessages THEN <<Idents>> ELSE <<1..firstFile, (firstFile + 1)..NMessages>>

Affordable(R) == {r \in R : faults + r.cost <= MaxFaults}

Init ==
  /\ command \in Commands /\ ept \in EptValues /\ limit \in Limits /\ offset \in Offsets
  /\ firstFile \in (IF command = "load" THEN FileSizes ELSE {NMessages}) /\ files = Files
  /\ limitCopy = limit /\ toSkip = 0
  /\ curCount = 0 /\ eventNo = 0 /\ page = {} /\ current = 0 /\ tbl = {}
  /\ dbs = [x \in {"src", "dst"} |-> Settled(IF x = "src" THEN Everything ELSE Nothing)]
  /\ failed = FALSE /\ stop = FALSE /\ after = "loop" /\ pc = "start" /\ faults = 0

\* transaction_start: what requiemdb_transaction_start answers is not looked at.
Start ==
  /\ pc = "start"
  /\ \E r \in IF HasTransaction THEN Affordable(TransactionStart(dbs[Target]))
                                ELSE {Reply(dbs[Target], TRUE, 0)} :
       Answered(Target, r)
  /\ page' = {}
  /\ pc' = IF command = "load" THEN "open" ELSE "fetch"
  /\ UNCHANGED <<options, files, limitCopy, toSkip, curCount, eventNo, current, tbl, failed, stop, after>>

\* MIN(events_per_transaction, limit_copy); limit_copy is negative when there is no limit.
LocalLimitIgnored == IF limitCopy = 0 THEN 0 ELSE ept
LocalLimitWhole == IF limitCopy < 0 THEN NMessages ELSE limitCopy
LocalLimit == IF limitCopy < 0 \/ ept < limitCopy THEN ept ELSE limitCopy

\* move and delete take what they process out of the source: their pages do not advance.
PageOffsetIncremented == offset + curCount
PageOffset == offset + (IF command \in {"move", "delete"} THEN 0 ELSE curCount)

LimitLeft(n) == IF limitCopy > 0 THEN limitCopy - n ELSE limitCopy

PageStart == CASE command = "delete" -> "purge" [] command \in {"save", "print"} -> "save" [] OTHER -> "next"

\* The loop goes on while count > 0.
AfterFetchEmpty(ok, idents) == IF ok THEN PageStart ELSE "finish"
AfterFetch(ok, idents) == IF ok /\ idents # {} THEN PageStart ELSE "finish"

\* fetch_message_idents_limited, and copy_iterate with an empty delete_tbl.
Fetch ==
  /\ pc = "fetch"
  /\ \E r \in Affordable(ReadOnly(dbs["src"], "fetch")) :
       LET idents == Slice(dbs["src"], PageOffset, LocalLimit)
       IN  /\ Answered("src", r)
           /\ failed' = ~r.ok
           /\ page' = IF r.ok THEN idents ELSE {}
           /\ limitCopy' = IF r.ok THEN LimitLeft(Cardinality(idents)) ELSE limitCopy
           /\ pc' = AfterFetch(r.ok, idents)
  /\ tbl' = {}
  /\ UNCHANGED <<options, files, toSkip, curCount, eventNo, current, stop, after>>

\* requiemdb_result_idents_get_next and get_message; an error of get_message leaves
\* copy_iterate at once, delete_tbl and all.
GetMessage ==
  /\ pc = "next" /\ page # {}
  /\ current' = Lowest(page) /\ page' = page \ {Lowest(page)}
  /\ \E r \in Affordable(ReadOnly(dbs["src"], "get")) :
       /\ Answered("src", r)
       /\ failed' = ~r.ok
       /\ pc' = IF r.ok THEN "insert" ELSE "finish"
  /\ UNCHANGED <<options, files, limitCopy, toSkip, curCount, eventNo, tbl, stop, after>>

\* The end of the page, or an error of requiemdb_result_idents_get_next:
\* flush_transaction_if_needed with increment 0.
EndPageUnflushed ==
  /\ pc = "next" /\ page = {}
  /\ pc' = "leftover"
  /\ UNCHANGED <<options, files, limitCopy, toSkip, curCount, eventNo, dbs, page, current, tbl, failed,
                 stop, after, faults>>

EndPage ==
  /\ pc = "next"
  /\ \E r \in Affordable(ReadOnly(dbs["src"], "row")) :
       /\ page = {} \/ ~r.ok
       /\ Answered("src", r)
       /\ failed' = ~r.ok
  /\ page' = {}
  /\ after' = "leftover"
  /\ pc' = IF ept # 0 /\ eventNo > 0 THEN "flush_end" ELSE "leftover"
  /\ UNCHANGED <<options, files, limitCopy, toSkip, curCount, eventNo, current, tbl, stop>>

\* delete_tbl is full, or flush_transaction_if_needed is late.
TableFull(t) == (ept # 0 /\ eventNo >= ept) \/ Cardinality(t) >= TableSize

\* requiemdb_insert_message on the destination, and the entry in delete_tbl.
Insert ==
  /\ pc = "insert"
  /\ after' = IF command = "load" THEN "read" ELSE "next"
  /\ \E r \in Affordable(InsertMessage(dbs["dst"], current)) :
       /\ Answered("dst", r)
       /\ failed' = ~r.ok
       /\ tbl' = IF r.ok /\ command = "move" THEN tbl \cup {current} ELSE tbl
       /\ pc' = IF ~r.ok THEN "finish"
                ELSE IF command = "move" /\ TableFull(tbl') THEN "evict" ELSE "count"
  /\ UNCHANGED <<options, files, limitCopy, toSkip, curCount, eventNo, page, current, stop>>

\* The messages of delete_tbl are deleted from the source.  When that fails the loop
\* continues, past flush_transaction_if_needed and with the table as full as it was.
Evict ==
  /\ pc = "evict"
  /\ \E r \in Affordable(DeleteMessages(dbs["src"], tbl, "delete")) :
       /\ Answered("src", r)
       /\ tbl' = IF r.ok THEN {} ELSE tbl
       /\ pc' = IF r.ok THEN "count" ELSE "next"
  /\ UNCHANGED <<options, files, limitCopy, toSkip, curCount, eventNo, page, current, failed, stop, after>>

\* After the page, the rest of delete_tbl.
Leftover ==
  /\ pc = "leftover"
  /\ \E r \in IF tbl = {} THEN {Reply(dbs["src"], TRUE, 0)}
                          ELSE Affordable(DeleteMessages(dbs["src"], tbl, "delete")) :
       /\ Answered("src", r)
       /\ failed' = (failed \/ ~r.ok)
  /\ pc' = "loop"
  /\ UNCHANGED <<options, files, limitCopy, toSkip, curCount, eventNo, page, current, tbl, stop, after>>

\* flush_transaction_if_needed up to its transaction_end.
Counted(n, back) ==
  /\ eventNo' = IF ept # 0 THEN eventNo + n ELSE eventNo
  /\ after' = back
  /\ pc' = IF ept # 0 /\ eventNo + n >= ept THEN "flush_end" ELSE back

Count ==
  /\ pc = "count"
  /\ Counted(1, after)
  /\ UNCHANGED <<options, files, limitCopy, toSkip, curCount, dbs, page, current, tbl, failed, stop, faults>>

FlushEnd ==
  /\ pc = "flush_end"
  /\ \E r \in Affordable(TransactionEnd(dbs[Target])) : Answered(Target, r)
  /\ pc' = "flush_start"
  /\ UNCHANGED <<options, files, limitCopy, toSkip, curCount, eventNo, page, current, tbl, failed,
                 stop, after>>

FlushStartUncounted ==
  /\ pc = "flush_start"
  /\ \E r \in Affordable(TransactionStart(dbs[Target])) : Answered(Target, r)
  /\ eventNo' = 0
  /\ pc' = after
  /\ UNCHANGED <<options, files, limitCopy, toSkip, curCount, page, current, tbl, failed, stop, after>>

FlushStart ==
  /\ pc = "flush_start"
  /\ \E r \in Affordable(TransactionStart(dbs[Target])) : Answered(Target, r)
  /\ curCount' = curCount + eventNo /\ eventNo' = 0
  /\ pc' = after
  /\ UNCHANGED <<options, files, limitCopy, toSkip, page, current, tbl, failed, stop, after>>

\* The body of cmd_delete's loop: the page is counted whether it was deleted or not.
Purge ==
  /\ pc = "purge"
  /\ \E r \in Affordable(DeleteMessages(dbs["src"], page, "purge")) :
       /\ Answered("src", r)
       /\ failed' = ~r.ok
  /\ page' = {}
  /\ Counted(Cardinality(page), "loop")
  /\ UNCHANGED <<options, files, limitCopy, toSkip, curCount, current, tbl, stop>>

\* save_iterate_message and print_iterate_message, one message: an error of get_message
\* or of the write passes over it, uncounted, for save and ends the page for print.
SaveMessage ==
  /\ pc = "save" /\ page # {} /\ ~stop
  /\ \E r \in Affordable({Reply(Settled(Inserted(dbs["dst"].work, Lowest(page))), TRUE, 0)}
                         \cup Fault(IF command = "save" THEN "save" ELSE "get", {dbs["dst"]})) :
       /\ Answered("dst", r)
       /\ curCount' = IF r.ok THEN curCount + 1 ELSE curCount
       /\ failed' = (command = "print" /\ ~r.ok)
  /\ page' = page \ {Lowest(page)}
  /\ pc' = IF failed' THEN "loop" ELSE "save"
  /\ UNCHANGED <<options, files, limitCopy, toSkip, eventNo, current, tbl, stop, after>>

\* Their end: the signal, the last ident, or an error of requiemdb_result_idents_get_next,
\* which only print reports.
SaveDone ==
  /\ pc = "save"
  /\ \E r \in Affordable(ReadOnly(dbs["src"], IF command = "save" THEN "save" ELSE "row")) :
       /\ IF stop THEN r.ok ELSE page = {} \/ ~r.ok
       /\ Answered("src", r)
       /\ failed' = (command = "print" /\ ~r.ok)
  /\ page' = {}
  /\ pc' = "loop"
  /\ UNCHANGED <<options, files, limitCopy, toSkip, curCount, eventNo, current, tbl, stop, after>>

\* The loop of cmd_load: the next file, which is skipped from its start for the whole
\* offset once more; one that cannot be opened ends the program there and then.
OpenFile ==
  /\ pc = "open" /\ files # <<>>
  /\ \E r \in Affordable(ReadOnly(dbs["src"], "open")) :
       /\ Answered("src", r)
       /\ failed' = ~r.ok
       /\ page' = IF r.ok THEN Head(files) ELSE {}
       /\ pc' = IF r.ok THEN "read" ELSE "exited"
  /\ toSkip' = offset
  /\ files' = Tail(files)
  /\ UNCHANGED <<options, limitCopy, curCount, eventNo, current, tbl, stop, after>>

NoFileLeft ==
  /\ pc = "open" /\ files = <<>>
  /\ pc' = "finish"
  /\ UNCHANGED <<options, files, limitCopy, toSkip, curCount, eventNo, dbs, page, current, tbl, failed,
                 stop, after, faults>>

\* load_from_file: the signal or the end of the file.
LoadDone ==
  /\ pc = "read" /\ (stop \/ page = {})
  /\ pc' = "open"
  /\ UNCHANGED <<options, files, limitCopy, toSkip, curCount, eventNo, dbs, page, current, tbl, failed,
                 stop, after, faults>>

\* do_read_message: unreadable, skipped, past the count, or to be inserted.
ReadMessage ==
  /\ pc = "read" /\ page # {} /\ ~stop
  /\ current' = Lowest(page) /\ page' = page \ {Lowest(page)}
  /\ \E r \in Affordable(ReadOnly(dbs["src"], "get")) :
       LET past == limit # -1 /\ curCount >= limit
       IN  /\ Answered("src", r)
           /\ failed' = ~r.ok
           /\ toSkip' = IF r.ok /\ toSkip > 0 THEN toSkip - 1 ELSE toSkip
           /\ pc' = IF ~r.ok THEN "finish"
                    ELSE IF toSkip > 0 THEN "read" ELSE IF past THEN "open" ELSE "insert"
  /\ UNCHANGED <<options, files, limitCopy, curCount, eventNo, tbl, stop, after>>

\* while ( count > 0 && ret >= 0 && ! stop_processing )
Loop ==
  /\ pc = "loop"
  /\ pc' = IF failed \/ stop THEN "finish" ELSE "fetch"
  /\ UNCHANGED <<options, files, limitCopy, toSkip, curCount, eventNo, dbs, page, current, tbl, failed,
                 stop, after, faults>>

\* transaction_end.
FinishCommits(d) == TransactionEnd(d)
FinishNothing(d) == IF failed THEN {Reply(d, TRUE, 0)} ELSE TransactionEnd(d)
FinishAnswers(d) == IF failed THEN TransactionAbort(d) ELSE TransactionEnd(d)

FinishCounted == curCount + eventNo
CountAtFinish == IF HasTransaction /\ ~failed THEN curCount + eventNo ELSE curCount

Finish ==
  /\ pc = "finish"
  /\ \E r \in IF HasTransaction THEN Affordable(FinishAnswers(dbs[Target]))
                                ELSE {Reply(dbs[Target], TRUE, 0)} :
       Answered(Target, r)
  /\ curCount' = CountAtFinish
  /\ pc' = "destroy"
  /\ UNCHANGED <<options, files, limitCopy, toSkip, eventNo, page, current, tbl, failed, stop, after>>

\* requiemdb_destroy: the lock of an open transaction cannot be destroyed, abort().
DestroyDatabases ==
  /\ pc = "destroy"
  /\ pc' = IF \E x \in {"src", "dst"} : dbs[x].tx # "none" THEN "aborted" ELSE "done"
  /\ UNCHANGED <<options, files, limitCopy, toSkip, curCount, eventNo, dbs, page, current, tbl, failed,
                 stop, after, faults>>

\* Where the program stops: main prints the offset to resume with, unless it aborted.
Ends == {"done", "exited", "aborted"}

\* handle_signal, at any time.
Interrupt ==
  /\ pc \notin Ends /\ ~stop
  /\ stop' = TRUE
  /\ UNCHANGED <<options, files, limitCopy, toSkip, curCount, eventNo, dbs, page, current, tbl, failed,
                 after, pc, faults>>

Finished == pc \in Ends /\ UNCHANGED vars

Program ==
  \/ Start \/ Fetch \/ GetMessage \/ EndPage \/ Insert \/ Evict \/ Leftover \/ Count
  \/ FlushEnd \/ FlushStart \/ Purge \/ SaveMessage \/ SaveDone \/ OpenFile \/ NoFileLeft
  \/ LoadDone \/ ReadMessage \/ Loop \/ Finish \/ DestroyDatabases

Next == Program \/ Interrupt \/ Finished

Spec == Init /\ [][Next]_vars

\* One process that only waits for the database: it goes on.
FairSpec == Spec /\ WF_vars(Program)

-----------------------------------------------------------------------------
(***************************************************************************)
(* Properties                                                              *)
(***************************************************************************)

\* The messages that come after an offset, which load counts from the start of every
\* file, and the first n of them.
AfterOffset(from) ==
  IF command # "load" THEN {i \in Idents : i > from}
  ELSE {i \in Idents : i > from /\ (i > firstFile => i - firstFile > from)}

First(S, n) == {i \in S : Cardinality({j \in S : j <= i}) <= n}

\* What the command line asks for, and what is done of it: messages stored in the
\* destination, or gone from the source.
Wanted == First(AfterOffset(offset), IF limit < 0 THEN NMessages ELSE limit)
Processed ==
  {i \in Idents : IF command = "delete" THEN dbs["src"].stored[i] = "absent"
                                       ELSE dbs["dst"].stored[i] # "absent"}

\* load counts a message when its transaction is flushed: it goes on to the end of the
\* transaction the limit falls in.
LoadWanted ==
  IF limit < 0 THEN Wanted
  ELSE First(AfterOffset(offset), ept * ((limit + ept - 1) \div ept))

\* move: at every instant each message is stored whole in the source or in the
\* destination, whatever is lost from there on, provided the table of copied
\* messages outlasts a transaction (copy_iterate).
NoMessageLost ==
  command = "move" /\ ept < TableSize =>
    \A i \in Idents : dbs["src"].stored[i] = "whole" \/ dbs["dst"].stored[i] \in {"whole", "twice"}

\* No part of a message is ever stored without the rest, whichever call fails
\* ("while preserving IDMEF data consistency", requiemdb-admin.1).
NeverTorn == \A x \in {"src", "dst"}, i \in Idents : dbs[x].stored[i] # "torn"

\* No message is copied, moved, saved or loaded twice, in spite of the offsets of the
\* pages being counted in messages of flushed transactions.
NoDuplicate == \A i \in Idents : dbs["dst"].stored[i] # "twice"

\* At every instant, interrupted and failing runs included, the messages processed are
\* those that come first after the offset: none is passed over.
InOrder == \E n \in 0..NMessages : Processed = First(AfterOffset(offset), n)

\* A command that ends without an error or a signal has done what was asked, no more and
\* no less; move has taken the same messages from the source.
Complete ==
  pc = "done" /\ ~failed /\ ~stop =>
    /\ Processed = IF command = "load" THEN LoadWanted ELSE Wanted
    /\ \A i \in Idents : command # "delete" =>
         dbs["src"].stored[i] = IF command = "move" /\ i \in Wanted THEN "absent" ELSE "whole"

\* delete_tbl is not written past its end, whatever deletions fail (copy_iterate).
TableInBounds == Cardinality(tbl) <= TableSize

\* requiemdb_destroy never finds a transaction still open, which would abort().
NoOpenTransactionLeft == pc # "aborted"

\* Every command ends, interrupted or not.
Terminates == <>(pc \in Ends)

\* "Use --offset %PRIu64 to resume operation." (main): a command started again with the
\* offset it printed, the same otherwise, finds every message it has left.
ResumeMissesNothing ==
  pc \in {"done", "exited"} /\ (failed \/ stop) =>
    AfterOffset(offset) \ Processed \subseteq
      IF command = "load" THEN AfterOffset(offset + curCount)
      ELSE Slice(dbs["src"], offset + curCount, NMessages)

\* The same for the commands that leave the source as it is, and for load from one
\* file: what was loaded of the first file is skipped in the others too.
CopyResumes ==
  command \notin {"move", "delete"} /\ Len(Files) <= 1 => ResumeMissesNothing
=============================================================================
