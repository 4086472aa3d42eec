-------------------------- MODULE RequiemdbAdminProofs --------------------------
(***************************************************************************)
(* Proofs about requiemdb-admin (RequiemdbAdmin), for any number of        *)
(* messages, any options and any failures: its transactions are paired, no *)
(* part of a message is stored, delete_tbl keeps its bounds, and a move    *)
(* loses nothing.                                                          *)
(***************************************************************************)
EXTENDS RequiemdbAdmin, FunctionTheorems, FiniteSetTheorems, SequenceTheorems, TLAPS

-----------------------------------------------------------------------------
(***************************************************************************)
(* Types and control                                                       *)
(***************************************************************************)

States    == {"absent", "whole", "twice", "torn"}
Contents  == [Idents -> States]
Databases == [tx : {"none", "open", "failed"}, work : Contents, stored : Contents]

Ending == {"finish", "destroy", "done", "aborted"}

\* The steps the program takes for a command, between the first and those of its end.
Steps(c) ==
  CASE c \in {"save", "print"} -> {"fetch", "save", "loop"}
    [] c = "load"   -> {"open", "read", "insert", "count", "flush_end", "flush_start", "exited"}
    [] c = "delete" -> {"fetch", "purge", "flush_end", "flush_start", "loop"}
    [] c = "copy"   -> {"fetch", "next", "insert", "count", "flush_end", "flush_start", "leftover", "loop"}
    [] c = "move"   -> {"fetch", "next", "insert", "evict", "count", "flush_end", "flush_start",
                        "leftover", "loop"}

\* Where flush_transaction_if_needed may return to.
Returns(c) ==
  CASE c = "load" -> {"read"} [] c = "delete" -> {"loop"} [] OTHER -> {"next", "leftover"}

\* Every variable keeps its type, and every command its steps.
AdminTypeOK ==
  /\ command \in Commands /\ ept \in EptValues /\ limit \in Limits /\ offset \in Offsets
  /\ firstFile \in 1..NMessages \cup {NMessages}
  /\ files \in Seq(SUBSET Idents)
  /\ limitCopy \in Int /\ toSkip \in Nat /\ curCount \in Nat /\ eventNo \in Nat
  /\ dbs \in [{"src", "dst"} -> Databases]
  /\ page \in SUBSET Idents /\ current \in Idents \cup {0} /\ tbl \in SUBSET Idents
  /\ failed \in BOOLEAN /\ stop \in BOOLEAN /\ faults \in Nat
  /\ pc \in Steps(command) \cup {"start"} \cup Ending
  /\ pc \in {"evict", "count", "flush_end", "flush_start"} => after \in Returns(command)
  /\ pc \in {"evict", "count"} => after # "leftover"
  /\ pc = "insert" => current \in Idents

\* The least ident of a page is one of it.
LEMMA LowestInPage ==
  ASSUME NEW S \in SUBSET Idents, S # {}
  PROVE  Lowest(S) \in S /\ \A j \in S : Lowest(S) <= j
<1>1. S \subseteq Nat
  BY AdminAssumption DEF Idents
<1> DEFINE R == OpToRel(<, Nat)
<1>2. IsWellFoundedOn(R, Nat)
  BY NatLessThanWellFounded
<1>3. \A i, j \in Nat : j < i => <<j, i>> \in R
  BY DEF OpToRel
<1> HIDE DEF R
<1>4. PICK i \in S : \A j \in S : <<j, i>> \notin R
  BY <1>1, <1>2, WFMin
<1>5. \A j \in S : i <= j
  <2> SUFFICES ASSUME NEW j \in S PROVE ~(j < i)
    BY <1>1
  <2> QED BY <1>1, <1>3, <1>4
<1> QED BY <1>5 DEF Lowest

\* What a database answers is a database, and whether it went well.
IsReply(r) == r.db \in Databases /\ r.ok \in BOOLEAN /\ r.cost \in {0, 1}

\* A failing call costs a fault and leaves one of the databases given.
LEMMA FaultReply ==
  ASSUME NEW kind, NEW D, NEW r \in Fault(kind, D)
  PROVE  r.db \in D /\ ~r.ok /\ r.ok \in BOOLEAN /\ r.cost = 1 /\ kind \in Faulty
<1>1. kind \in Faulty /\ \E d \in D : r = Reply(d, FALSE, 1)
  BY DEF Fault
<1> QED BY <1>1 DEF Reply

\* A database that is settled.
LEMMA SettledFields ==
  ASSUME NEW c \in Contents
  PROVE  /\ Settled(c) \in Databases
         /\ Settled(c).tx = "none" /\ Settled(c).work = c /\ Settled(c).stored = c
  BY DEF Settled, Database, Databases

\* One inside a transaction.
LEMMA DatabaseFields ==
  ASSUME NEW x \in {"none", "open", "failed"}, NEW w \in Contents, NEW c \in Contents
  PROVE  /\ Database(x, w, c) \in Databases
         /\ Database(x, w, c).tx = x /\ Database(x, w, c).work = w /\ Database(x, w, c).stored = c
  BY DEF Database, Databases

\* Inserting and removing give contents.
LEMMA ContentsChange ==
  ASSUME NEW c \in Contents, NEW m \in Idents, NEW S
  PROVE  Inserted(c, m) \in Contents /\ Removed(c, S) \in Contents /\ Torn(c, S) \in Contents
  BY DEF Inserted, Removed, Torn, Contents, States

\* A read leaves the database as it is.
LEMMA ReadReply ==
  ASSUME NEW d \in Databases, NEW kind, NEW r \in ReadOnly(d, kind)
  PROVE  IsReply(r) /\ r.db = d
<1>1. CASE r = Reply(d, TRUE, 0)
  BY <1>1 DEF Reply, IsReply
<1>2. CASE r \in Fault(kind, {d})
  BY <1>2, FaultReply DEF IsReply
<1> QED BY <1>1, <1>2 DEF ReadOnly

\* requiemdb_transaction_start opens a transaction where there is none, or fails.
LEMMA StartReply ==
  ASSUME NEW d \in Databases, NEW r \in TransactionStart(d)
  PROVE  /\ IsReply(r)
         /\ \/ r.db = d
            \/ d.tx = "none" /\ r.db = Database("open", d.stored, d.stored)
<1>0. d.stored \in Contents
  BY DEF Databases
<1>1. CASE d.tx # "none"
  <2>1. r = Reply(d, FALSE, 0)
    BY <1>1 DEF TransactionStart
  <2> QED BY <1>1, <2>1 DEF Reply, IsReply
<1>2. CASE d.tx = "none"
  <2>1. CASE r = Reply(Database("open", d.stored, d.stored), TRUE, 0)
    BY <1>0, <1>2, <2>1, DatabaseFields DEF Reply, IsReply
  <2>2. CASE r \in Fault("begin", {d})
    BY <2>2, FaultReply DEF IsReply
  <2> QED BY <1>2, <2>1, <2>2 DEF TransactionStart
<1> QED BY <1>1, <1>2

\* requiemdb_transaction_end ends it: its work is kept, unless it cannot be or COMMIT fails.
LEMMA EndReply ==
  ASSUME NEW d \in Databases, NEW r \in TransactionEnd(d)
  PROVE  /\ IsReply(r)
         /\ d.tx = "none" => r.db = d
         /\ d.tx # "none" => r.db \in {Settled(d.work), Settled(d.stored)}
         /\ d.tx = "open" /\ "commit" \notin Faulty => r.db = Settled(d.work)
<1>0. d.work \in Contents /\ d.stored \in Contents /\ d.tx \in {"none", "open", "failed"}
  BY DEF Databases
<1>1. CASE d.tx = "none"
  <2>1. r = Reply(d, FALSE, 0)
    BY <1>1 DEF TransactionEnd
  <2> QED BY <1>1, <2>1 DEF Reply, IsReply
<1>2. CASE d.tx # "none"
  <2>1. CASE r = Reply(Settled(IF d.tx = "open" THEN d.work ELSE d.stored), TRUE, 0)
    BY <1>0, <1>2, <2>1, SettledFields DEF Reply, IsReply
  <2>2. CASE r \in Fault("commit", {Settled(d.stored), Settled(d.work)})
    BY <1>0, <1>2, <2>2, FaultReply, SettledFields DEF IsReply
  <2> QED BY <1>2, <2>1, <2>2 DEF TransactionEnd
<1> QED BY <1>1, <1>2

\* requiemdb_transaction_abort takes the work back.
LEMMA AbortReply ==
  ASSUME NEW d \in Databases, NEW r \in TransactionAbort(d)
  PROVE  IsReply(r) /\ r.db = Settled(d.stored)
<1>1. r = Reply(Settled(d.stored), d.tx # "none", 0)
  BY DEF TransactionAbort
<1>2. d.stored \in Contents
  BY DEF Databases
<1> QED BY <1>1, <1>2, SettledFields DEF Reply, IsReply

\* A change of the work is kept at once outside a transaction.
LEMMA ChangedFields ==
  ASSUME NEW d \in Databases, d.tx # "failed", NEW v \in Contents
  PROVE  /\ Changed(d, v) \in Databases /\ Changed(d, v).work = v /\ Changed(d, v).tx = d.tx
         /\ Changed(d, v).stored = IF d.tx = "none" THEN v ELSE d.stored
  BY SettledFields, DatabaseFields DEF Changed, Databases

\* One that fails leaves nothing outside a transaction, and inside it a torn message or a
\* transaction that cannot be committed.
LEMMA BrokenFields ==
  ASSUME NEW d \in Databases, NEW S, NEW e \in Broken(d, S), d.tx # "failed"
  PROVE  /\ e \in Databases /\ e.stored = d.stored
         /\ d.tx = "none" => e = d
         /\ d.tx # "none" => \/ e.tx = "open" /\ e.work = Torn(d.work, S)
                             \/ e.tx = "failed" /\ e.work = d.work
<1>1. Torn(d.work, S) \in Contents /\ d.work \in Contents /\ d.stored \in Contents
  BY DEF Databases, Torn, Contents, States
<1> QED BY <1>1, DatabaseFields DEF Broken

\* requiemdb_insert_message.
LEMMA InsertReply ==
  ASSUME NEW d \in Databases, NEW m \in Idents, NEW r \in InsertMessage(d, m)
  PROVE  /\ IsReply(r)
         /\ d.tx = "failed" => r.db = d /\ ~r.ok
         /\ r.ok => d.tx # "failed" /\ r.db = Changed(d, Inserted(d.work, m))
         /\ ~r.ok /\ d.tx # "failed" => r.db \in Broken(d, {m})
<1>1. CASE d.tx = "failed"
  <2>1. r = Reply(d, FALSE, 0)
    BY <1>1 DEF InsertMessage
  <2> QED BY <1>1, <2>1 DEF Reply, IsReply
<1>2. CASE d.tx # "failed"
  <2>1. d.work \in Contents /\ Inserted(d.work, m) \in Contents
    BY ContentsChange DEF Databases
  <2>2. CASE r = Reply(Changed(d, Inserted(d.work, m)), TRUE, 0)
    BY <1>2, <2>1, <2>2, ChangedFields DEF Reply, IsReply
  <2>3. CASE r \in Fault("insert", Broken(d, {m}))
    BY <1>2, <2>3, FaultReply, BrokenFields DEF IsReply
  <2> QED BY <1>2, <2>2, <2>3 DEF InsertMessage
<1> QED BY <1>1, <1>2

\* requiemdb_delete_*.
LEMMA DeleteReply ==
  ASSUME NEW d \in Databases, NEW S, NEW kind, NEW r \in DeleteMessages(d, S, kind)
  PROVE  /\ IsReply(r)
         /\ d.tx = "failed" => r.db = d /\ ~r.ok
         /\ r.ok => d.tx # "failed" /\ r.db = Changed(d, Removed(d.work, S))
         /\ ~r.ok /\ d.tx # "failed" => r.db \in Broken(d, S) /\ kind \in Faulty
<1>1. CASE d.tx = "failed"
  <2>1. r = Reply(d, FALSE, 0)
    BY <1>1 DEF DeleteMessages
  <2> QED BY <1>1, <2>1 DEF Reply, IsReply
<1>2. CASE d.tx # "failed"
  <2>1. d.work \in Contents /\ Removed(d.work, S) \in Contents
    BY DEF Databases, Removed, Contents, States
  <2>2. CASE r = Reply(Changed(d, Removed(d.work, S)), TRUE, 0)
    BY <1>2, <2>1, <2>2, ChangedFields DEF Reply, IsReply
  <2>3. CASE r \in Fault(kind, Broken(d, S))
    BY <1>2, <2>3, FaultReply, BrokenFields DEF IsReply
  <2> QED BY <1>2, <2>2, <2>3 DEF DeleteMessages
<1> QED BY <1>1, <1>2

-----------------------------------------------------------------------------
\* Only what can still fail fails.
LEMMA AffordableReply ==
  ASSUME NEW R, NEW r \in Affordable(R)
  PROVE  r \in R /\ faults + r.cost <= MaxFaults
  BY DEF Affordable

\* A database that answers is a database.
LEMMA AnsweredTyped ==
  ASSUME AdminTypeOK, NEW x \in {"src", "dst"}, NEW r, IsReply(r), Answered(x, r)
  PROVE  /\ dbs' \in [{"src", "dst"} -> Databases] /\ faults' \in Nat
         /\ dbs'[x] = r.db /\ \A y \in {"src", "dst"} \ {x} : dbs'[y] = dbs[y]
  BY DEF AdminTypeOK, IsReply, Answered

\* The databases the program reads and writes.
LEMMA DatabasesTyped ==
  ASSUME AdminTypeOK
  PROVE  /\ Target \in {"src", "dst"} /\ dbs[Target] \in Databases
         /\ dbs["src"] \in Databases /\ dbs["dst"] \in Databases
         /\ command \in {"copy", "move", "delete", "save", "print", "load"}
         /\ ept \in Nat /\ offset \in Nat /\ limit \in Int
  BY AdminAssumption DEF AdminTypeOK, Target

\* The files of load hold messages.
LEMMA FilesTyped == ASSUME firstFile \in 1..NMessages \cup {NMessages} PROVE Files \in Seq(SUBSET Idents)
<1>1. \A S, T \in SUBSET Idents : <<S>> \in Seq(SUBSET Idents) /\ <<S, T>> \in Seq(SUBSET Idents)
  OBVIOUS
<1>2. /\ Idents \in SUBSET Idents /\ 1..firstFile \in SUBSET Idents
      /\ (firstFile + 1)..NMessages \in SUBSET Idents
  BY AdminAssumption DEF Idents
<1> QED BY <1>1, <1>2, EmptySeq DEF Files

\* The initial state is well typed.
LEMMA InitAdminType == Init => AdminTypeOK
<1> SUFFICES ASSUME Init PROVE AdminTypeOK
  OBVIOUS
<1>1. firstFile \in 1..NMessages \cup {NMessages}
  BY AdminAssumption DEF Init
<1>2. files \in Seq(SUBSET Idents)
  BY <1>1, FilesTyped DEF Init
<1>3. Everything \in Contents /\ Nothing \in Contents
  BY DEF Everything, Nothing, Contents, States
<1>4. dbs \in [{"src", "dst"} -> Databases]
  BY <1>3, SettledFields DEF Init
<1>5. failed \in BOOLEAN /\ stop \in BOOLEAN
  BY DEF Init
<1>6. pc = "start"
  BY DEF Init
<1>7. limitCopy \in Int
  BY AdminAssumption DEF Init
<1> QED BY <1>1, <1>2, <1>4, <1>5, <1>6, <1>7 DEF Init, AdminTypeOK

\* The steps of a flush: each is one call on the target.
LEMMA FlushType ==
  ASSUME AdminTypeOK, FlushEnd \/ FlushStart
  PROVE  AdminTypeOK'
<1>0. dbs' \in [{"src", "dst"} -> Databases] /\ faults' \in Nat
  <2>1. CASE FlushEnd
    <3> PICK r \in Affordable(TransactionEnd(dbs[Target])) : Answered(Target, r)
      BY <2>1 DEF FlushEnd
    <3> QED BY DatabasesTyped, AffordableReply, EndReply, AnsweredTyped
  <2>2. CASE FlushStart
    <3> PICK r \in Affordable(TransactionStart(dbs[Target])) : Answered(Target, r)
      BY <2>2 DEF FlushStart
    <3> QED BY DatabasesTyped, AffordableReply, StartReply, AnsweredTyped
  <2> QED BY <2>1, <2>2
<1>1. CASE FlushEnd
  BY <1>0, <1>1, DatabasesTyped DEF FlushEnd, options, AdminTypeOK, Steps, Ending
<1>2. CASE FlushStart
  <2>1. pc' \in Steps(command) /\ pc' \notin {"evict", "count", "flush_end", "flush_start", "insert"}
    BY <1>2, DatabasesTyped DEF FlushStart, AdminTypeOK, Steps, Returns, Ending
  <2>2. curCount' \in Nat /\ eventNo' \in Nat
    BY <1>2 DEF FlushStart, AdminTypeOK
  <2> QED BY <1>0, <1>2, <2>1, <2>2 DEF FlushStart, options, AdminTypeOK
<1> QED BY <1>1, <1>2

\* A read of the source, or of a file, changes nothing.
LEMMA ReadsLeave ==
  ASSUME AdminTypeOK, NEW kind, NEW r \in Affordable(ReadOnly(dbs["src"], kind)), Answered("src", r)
  PROVE  dbs' = dbs /\ faults' \in Nat /\ r.ok \in BOOLEAN
<1>1. IsReply(r) /\ r.db = dbs["src"]
  BY DatabasesTyped, AffordableReply, ReadReply
<1>2. faults' \in Nat
  BY <1>1, AnsweredTyped
<1>3. dbs' = dbs
  BY <1>1 DEF Answered, AdminTypeOK
<1> QED BY <1>1, <1>2, <1>3 DEF IsReply

\* The pages of a command are taken from the source.
LEMMA SliceTyped == ASSUME NEW d, NEW a, NEW n PROVE Slice(d, a, n) \in SUBSET Idents
  BY DEF Slice

\* A part of a finite set of idents has a number of elements.
LEMMA IdentsCounted ==
  ASSUME NEW S \in SUBSET Idents
  PROVE  IsFiniteSet(S) /\ Cardinality(S) \in Nat
<1>1. IsFiniteSet(Idents)
  BY FS_Interval, AdminAssumption DEF Idents
<1>2. IsFiniteSet(S)
  BY <1>1, FS_Subset
<1> QED BY <1>2, FS_CardinalityType

\* Reading a page.
LEMMA FetchType == ASSUME AdminTypeOK, Fetch PROVE AdminTypeOK'
<1> DEFINE idents == Slice(dbs["src"], PageOffset, LocalLimit)
<1> PICK r \in Affordable(ReadOnly(dbs["src"], "fetch")) :
      /\ Answered("src", r)
      /\ failed' = ~r.ok
      /\ page' = IF r.ok THEN idents ELSE {}
      /\ limitCopy' = IF r.ok THEN LimitLeft(Cardinality(idents)) ELSE limitCopy
      /\ pc' = AfterFetch(r.ok, idents)
  BY DEF Fetch
<1>1. dbs' = dbs /\ faults' \in Nat /\ r.ok \in BOOLEAN
  BY ReadsLeave
<1>2. idents \in SUBSET Idents /\ Cardinality(idents) \in Nat
  BY SliceTyped, IdentsCounted
<1> HIDE DEF idents
<1>3. page' \in SUBSET Idents /\ limitCopy' \in Int /\ failed' \in BOOLEAN
  BY <1>1, <1>2 DEF LimitLeft, AdminTypeOK
<1>4. pc' \in {"finish"} \cup (Steps(command) \ {"insert", "evict", "count", "flush_end", "flush_start"})
  BY DatabasesTyped DEF AfterFetch, PageStart, Fetch, AdminTypeOK, Steps, Ending
<1> QED BY <1>1, <1>3, <1>4 DEF Fetch, options, AdminTypeOK, Ending

\* Reading a message of a page.
LEMMA GetType == ASSUME AdminTypeOK, GetMessage PROVE AdminTypeOK'
<1> PICK r \in Affordable(ReadOnly(dbs["src"], "get")) :
      /\ Answered("src", r)
      /\ failed' = ~r.ok
      /\ pc' = IF r.ok THEN "insert" ELSE "finish"
  BY DEF GetMessage
<1>1. dbs' = dbs /\ faults' \in Nat /\ r.ok \in BOOLEAN
  BY ReadsLeave
<1>2. current' \in Idents /\ page' \in SUBSET Idents /\ failed' \in BOOLEAN
  BY LowestInPage DEF GetMessage, AdminTypeOK
<1>3. pc' \in {"finish"} \cup (Steps(command) \ {"evict", "count", "flush_end", "flush_start"})
  BY DatabasesTyped DEF GetMessage, AdminTypeOK, Steps, Ending
<1> QED BY <1>1, <1>2, <1>3 DEF GetMessage, options, AdminTypeOK, Ending

\* The end of a page.
LEMMA EndPageType == ASSUME AdminTypeOK, EndPage PROVE AdminTypeOK'
<1> PICK r \in Affordable(ReadOnly(dbs["src"], "row")) :
      /\ Answered("src", r)
      /\ failed' = ~r.ok
  BY DEF EndPage
<1>1. dbs' = dbs /\ faults' \in Nat /\ r.ok \in BOOLEAN
  BY ReadsLeave
<1>2. command \in {"copy", "move"} /\ pc' \in {"flush_end", "leftover"} /\ after' = "leftover"
  BY DatabasesTyped DEF EndPage, AdminTypeOK, Steps, Ending
<1>3. pc' \in Steps(command) /\ after' \in Returns(command)
  BY <1>2 DEF Steps, Returns
<1>4. failed' \in BOOLEAN
  OBVIOUS
<1> QED BY <1>1, <1>2, <1>3, <1>4 DEF EndPage, options, AdminTypeOK, Ending

\* Inserting a message.
LEMMA InsertType == ASSUME AdminTypeOK, Insert PROVE AdminTypeOK'
<1> PICK r \in Affordable(InsertMessage(dbs["dst"], current)) :
      /\ Answered("dst", r)
      /\ failed' = ~r.ok
      /\ tbl' = IF r.ok /\ command = "move" THEN tbl \cup {current} ELSE tbl
      /\ pc' = IF ~r.ok THEN "finish"
               ELSE IF command = "move" /\ TableFull(tbl') THEN "evict" ELSE "count"
  BY DEF Insert
<1>0. current \in Idents
  BY DEF Insert, AdminTypeOK
<1>1. current \in Idents /\ IsReply(r)
  BY <1>0, DatabasesTyped, AffordableReply, InsertReply
<1>2. dbs' \in [{"src", "dst"} -> Databases] /\ faults' \in Nat
  BY <1>1, AnsweredTyped
<1>3. tbl' \in SUBSET Idents /\ failed' \in BOOLEAN
  BY <1>1 DEF AdminTypeOK
<1>4. command \in {"copy", "move", "load"}
  BY DatabasesTyped DEF Insert, AdminTypeOK, Steps, Ending
<1>5. /\ pc' \in {"finish", "evict", "count"} /\ pc' \in Steps(command) \cup Ending
      /\ after' \in Returns(command) /\ after' # "leftover"
  BY <1>4 DEF Insert, Steps, Returns, Ending
<1> QED BY <1>1, <1>2, <1>3, <1>5 DEF Insert, options, AdminTypeOK

\* Deleting the messages of delete_tbl.
LEMMA EvictType == ASSUME AdminTypeOK, Evict PROVE AdminTypeOK'
<1> PICK r \in Affordable(DeleteMessages(dbs["src"], tbl, "delete")) :
      /\ Answered("src", r)
      /\ tbl' = IF r.ok THEN {} ELSE tbl
      /\ pc' = IF r.ok THEN "count" ELSE "next"
  BY DEF Evict
<1>1. IsReply(r)
  BY DatabasesTyped, AffordableReply, DeleteReply
<1>2. dbs' \in [{"src", "dst"} -> Databases] /\ faults' \in Nat
  BY <1>1, AnsweredTyped
<1>3. tbl' \in SUBSET Idents
  BY DEF AdminTypeOK
<1>4. command = "move" /\ pc' \in {"count", "next"}
  BY DatabasesTyped DEF Evict, AdminTypeOK, Steps, Ending
<1>5. pc' \in Steps(command) /\ after' \in Returns(command) /\ after' # "leftover"
  BY <1>4 DEF Evict, AdminTypeOK, Steps
<1> QED BY <1>2, <1>3, <1>4, <1>5 DEF Evict, options, AdminTypeOK

\* ... at the end of a page.
LEMMA LeftoverType == ASSUME AdminTypeOK, Leftover PROVE AdminTypeOK'
<1> PICK r \in IF tbl = {} THEN {Reply(dbs["src"], TRUE, 0)}
                           ELSE Affordable(DeleteMessages(dbs["src"], tbl, "delete")) :
      /\ Answered("src", r)
      /\ failed' = (failed \/ ~r.ok)
  BY DEF Leftover
<1>1. IsReply(r)
  <2>1. CASE r = Reply(dbs["src"], TRUE, 0)
    BY <2>1, DatabasesTyped DEF Reply, IsReply
  <2>2. CASE r \in Affordable(DeleteMessages(dbs["src"], tbl, "delete"))
    BY <2>2, DatabasesTyped, AffordableReply, DeleteReply
  <2> QED BY <2>1, <2>2
<1>2. dbs' \in [{"src", "dst"} -> Databases] /\ faults' \in Nat
  BY <1>1, AnsweredTyped
<1>3. pc' = "loop" /\ "loop" \in Steps(command)
  BY DatabasesTyped DEF Leftover, AdminTypeOK, Steps, Ending
<1>4. failed' \in BOOLEAN
  BY <1>1 DEF AdminTypeOK
<1> QED BY <1>2, <1>3, <1>4 DEF Leftover, options, AdminTypeOK

\* Counting, with a flush or without one.
LEMMA CountedType ==
  ASSUME AdminTypeOK, NEW n \in Nat, NEW back \in Returns(command) \ {"leftover"}, Counted(n, back),
         command \in {"copy", "move", "delete", "load"}
  PROVE  /\ eventNo' \in Nat /\ after' \in Returns(command)
         /\ pc' \in Steps(command) \ {"insert", "evict", "count", "flush_start"}
<1>1. eventNo' \in Nat /\ after' = back
  BY DatabasesTyped DEF Counted, AdminTypeOK
<1>2. pc' \in {"flush_end", back}
  BY DEF Counted
<1>3. {"flush_end", back} \subseteq Steps(command) \ {"insert", "evict", "count", "flush_start"}
  BY DEF Steps, Returns
<1> QED BY <1>1, <1>2, <1>3

\* flush_transaction_if_needed after a message.
LEMMA CountType == ASSUME AdminTypeOK, Count PROVE AdminTypeOK'
<1>1. command \in {"copy", "move", "load"} /\ after \in Returns(command) \ {"leftover"}
  BY DatabasesTyped DEF Count, AdminTypeOK, Steps, Ending
<1>2. /\ eventNo' \in Nat /\ after' \in Returns(command)
      /\ pc' \in Steps(command) \ {"insert", "evict", "count", "flush_start"}
  BY <1>1, CountedType DEF Count
<1> QED BY <1>2 DEF Count, options, AdminTypeOK

\* The deletion of a page.
LEMMA PurgeType == ASSUME AdminTypeOK, Purge PROVE AdminTypeOK'
<1> PICK r \in Affordable(DeleteMessages(dbs["src"], page, "purge")) :
      /\ Answered("src", r)
      /\ failed' = ~r.ok
  BY DEF Purge
<1>1. IsReply(r)
  BY DatabasesTyped, AffordableReply, DeleteReply
<1>2. dbs' \in [{"src", "dst"} -> Databases] /\ faults' \in Nat
  BY <1>1, AnsweredTyped
<1>3. command = "delete"
  BY DatabasesTyped DEF Purge, AdminTypeOK, Steps, Ending
<1>4. Cardinality(page) \in Nat /\ "loop" \in Returns(command) \ {"leftover"}
  BY <1>3, IdentsCounted DEF AdminTypeOK, Returns
<1>5. /\ eventNo' \in Nat /\ after' \in Returns(command)
      /\ pc' \in Steps(command) \ {"insert", "evict", "count", "flush_start"}
  BY <1>3, <1>4, CountedType DEF Purge
<1>6. failed' \in BOOLEAN /\ page' = {}
  BY DEF Purge
<1> QED BY <1>2, <1>5, <1>6 DEF Purge, options, AdminTypeOK

\* One message of save and print.
LEMMA SaveType == ASSUME AdminTypeOK, SaveMessage PROVE AdminTypeOK'
<1> DEFINE R == {Reply(Settled(Inserted(dbs["dst"].work, Lowest(page))), TRUE, 0)}
                \cup Fault(IF command = "save" THEN "save" ELSE "get", {dbs["dst"]})
<1> PICK r \in Affordable(R) :
      /\ Answered("dst", r)
      /\ curCount' = IF r.ok THEN curCount + 1 ELSE curCount
      /\ failed' = (command = "print" /\ ~r.ok)
  BY DEF SaveMessage
<1>1. Lowest(page) \in Idents
  BY LowestInPage DEF SaveMessage, AdminTypeOK
<1>2. Inserted(dbs["dst"].work, Lowest(page)) \in Contents
  BY <1>1, DatabasesTyped, ContentsChange DEF Databases
<1>3. IsReply(r)
  <2>1. r \in R
    BY AffordableReply
  <2>2. CASE r = Reply(Settled(Inserted(dbs["dst"].work, Lowest(page))), TRUE, 0)
    BY <1>2, <2>2, SettledFields DEF Reply, IsReply
  <2>3. CASE r \in Fault(IF command = "save" THEN "save" ELSE "get", {dbs["dst"]})
    BY <2>3, DatabasesTyped, FaultReply DEF IsReply
  <2> QED BY <2>1, <2>2, <2>3
<1>4. dbs' \in [{"src", "dst"} -> Databases] /\ faults' \in Nat
  BY <1>3, AnsweredTyped
<1>5. pc' \in {"save", "loop"} /\ {"save", "loop"} \subseteq Steps(command)
  BY DatabasesTyped DEF SaveMessage, AdminTypeOK, Steps, Ending
<1>6. failed' \in BOOLEAN /\ curCount' \in Nat /\ page' \in SUBSET Idents
  BY DEF SaveMessage, AdminTypeOK
<1> QED BY <1>4, <1>5, <1>6 DEF SaveMessage, options, AdminTypeOK

\* Their end.
LEMMA SaveDoneType == ASSUME AdminTypeOK, SaveDone PROVE AdminTypeOK'
<1> PICK r \in Affordable(ReadOnly(dbs["src"], IF command = "save" THEN "save" ELSE "row")) :
      /\ Answered("src", r)
      /\ failed' = (command = "print" /\ ~r.ok)
  BY DEF SaveDone
<1>1. dbs' = dbs /\ faults' \in Nat
  BY ReadsLeave
<1>2. pc' = "loop" /\ "loop" \in Steps(command)
  BY DatabasesTyped DEF SaveDone, AdminTypeOK, Steps, Ending
<1>3. failed' \in BOOLEAN
  OBVIOUS
<1> QED BY <1>1, <1>2, <1>3 DEF SaveDone, options, AdminTypeOK

\* The next file of load.
LEMMA OpenType == ASSUME AdminTypeOK, OpenFile PROVE AdminTypeOK'
<1> PICK r \in Affordable(ReadOnly(dbs["src"], "open")) :
      /\ Answered("src", r)
      /\ failed' = ~r.ok
      /\ page' = IF r.ok THEN Head(files) ELSE {}
      /\ pc' = IF r.ok THEN "read" ELSE "exited"
  BY DEF OpenFile
<1>1. dbs' = dbs /\ faults' \in Nat /\ r.ok \in BOOLEAN
  BY ReadsLeave
<1>2. Head(files) \in SUBSET Idents /\ Tail(files) \in Seq(SUBSET Idents)
  BY HeadTailProperties DEF OpenFile, AdminTypeOK
<1>3. pc' \in {"read", "exited"} /\ {"read", "exited"} \subseteq Steps(command)
  BY DatabasesTyped DEF OpenFile, AdminTypeOK, Steps, Ending
<1>4. failed' \in BOOLEAN /\ page' \in SUBSET Idents /\ toSkip' \in Nat
  BY <1>2, DatabasesTyped DEF OpenFile
<1> QED BY <1>1, <1>2, <1>3, <1>4 DEF OpenFile, options, AdminTypeOK

\* A message of a file.
LEMMA ReadType == ASSUME AdminTypeOK, ReadMessage PROVE AdminTypeOK'
<1> PICK r \in Affordable(ReadOnly(dbs["src"], "get")) :
      /\ Answered("src", r)
      /\ failed' = ~r.ok
      /\ toSkip' = IF r.ok /\ toSkip > 0 THEN toSkip - 1 ELSE toSkip
      /\ pc' \in {"finish", "read", "open", "insert"}
  BY DEF ReadMessage
<1>1. dbs' = dbs /\ faults' \in Nat /\ r.ok \in BOOLEAN
  BY ReadsLeave
<1>2. current' \in Idents /\ page' \in SUBSET Idents
  BY LowestInPage DEF ReadMessage, AdminTypeOK
<1>3. {"finish", "read", "open", "insert"} \subseteq Steps(command) \cup Ending
  BY DatabasesTyped DEF ReadMessage, AdminTypeOK, Steps, Ending
<1>4. failed' \in BOOLEAN /\ toSkip' \in Nat
  BY DEF AdminTypeOK
<1> QED BY <1>1, <1>2, <1>3, <1>4 DEF ReadMessage, options, AdminTypeOK

\* Steps that only move the program on.
LEMMA MoveType ==
  ASSUME AdminTypeOK, NoFileLeft \/ LoadDone \/ Loop \/ DestroyDatabases
  PROVE  AdminTypeOK'
<1>1. pc' \in {"finish", "open", "fetch", "aborted", "done"} /\ pc' \in Steps(command) \cup Ending
  BY DatabasesTyped DEF NoFileLeft, LoadDone, Loop, DestroyDatabases, AdminTypeOK, Steps, Ending
<1> QED BY <1>1 DEF NoFileLeft, LoadDone, Loop, DestroyDatabases, options, AdminTypeOK

\* The transaction of the whole command: its start.
LEMMA StartType == ASSUME AdminTypeOK, Start PROVE AdminTypeOK'
<1> PICK r \in IF HasTransaction THEN Affordable(TransactionStart(dbs[Target]))
                                 ELSE {Reply(dbs[Target], TRUE, 0)} :
      Answered(Target, r)
  BY DEF Start
<1>1. IsReply(r)
  <2>1. CASE r = Reply(dbs[Target], TRUE, 0)
    BY <2>1, DatabasesTyped DEF Reply, IsReply
  <2>2. CASE r \in Affordable(TransactionStart(dbs[Target]))
    BY <2>2, DatabasesTyped, AffordableReply, StartReply
  <2> QED BY <2>1, <2>2
<1>2. dbs' \in [{"src", "dst"} -> Databases] /\ faults' \in Nat
  BY <1>1, DatabasesTyped, AnsweredTyped
<1>3. pc' \in {"open", "fetch"} /\ pc' \in Steps(command)
  BY DatabasesTyped DEF Start, Steps
<1> QED BY <1>2, <1>3 DEF Start, options, AdminTypeOK

\* What ends it.
LEMMA FinishReply ==
  ASSUME AdminTypeOK,
         NEW r \in IF HasTransaction THEN Affordable(FinishAnswers(dbs[Target]))
                                     ELSE {Reply(dbs[Target], TRUE, 0)}
  PROVE  /\ IsReply(r)
         /\ ~HasTransaction => r.db = dbs[Target]
         /\ HasTransaction /\ failed => r.db = Settled(dbs[Target].stored)
         /\ HasTransaction /\ ~failed => r \in TransactionEnd(dbs[Target])
<1>1. CASE ~HasTransaction
  <2>1. r = Reply(dbs[Target], TRUE, 0)
    BY <1>1
  <2> QED BY <1>1, <2>1, DatabasesTyped DEF Reply, IsReply
<1>2. CASE HasTransaction /\ failed
  <2>1. r \in TransactionAbort(dbs[Target])
    BY <1>2, AffordableReply DEF FinishAnswers
  <2> QED BY <1>2, <2>1, DatabasesTyped, AbortReply
<1>3. CASE HasTransaction /\ ~failed
  <2>1. r \in TransactionEnd(dbs[Target])
    BY <1>3, AffordableReply DEF FinishAnswers
  <2> QED BY <1>3, <2>1, DatabasesTyped, EndReply
<1> QED BY <1>1, <1>2, <1>3 DEF AdminTypeOK

\* Its end.
LEMMA FinishType == ASSUME AdminTypeOK, Finish PROVE AdminTypeOK'
<1> PICK r \in IF HasTransaction THEN Affordable(FinishAnswers(dbs[Target]))
                                 ELSE {Reply(dbs[Target], TRUE, 0)} :
      Answered(Target, r)
  BY DEF Finish
<1>1. dbs' \in [{"src", "dst"} -> Databases] /\ faults' \in Nat
  BY FinishReply, DatabasesTyped, AnsweredTyped
<1>2. curCount' \in Nat
  BY DEF Finish, CountAtFinish, AdminTypeOK
<1> QED BY <1>1, <1>2 DEF Finish, options, AdminTypeOK, Ending

\* Every step keeps the types and the control.
LEMMA NextAdminType == AdminTypeOK /\ [Next]_vars => AdminTypeOK'
<1> SUFFICES ASSUME AdminTypeOK, [Next]_vars PROVE AdminTypeOK'
  OBVIOUS
<1>1. CASE UNCHANGED vars
  BY <1>1 DEF vars, AdminTypeOK
<1>2. CASE Interrupt
  BY <1>2 DEF Interrupt, options, AdminTypeOK
<1>3. CASE Finished
  BY <1>1, <1>3 DEF Finished
<1>4. CASE Program
  BY <1>4, StartType, FetchType, GetType, EndPageType, InsertType, EvictType, LeftoverType, CountType,
     FlushType, PurgeType, SaveType, SaveDoneType, OpenType, MoveType, ReadType, FinishType DEF Program
<1> QED BY <1>1, <1>2, <1>3, <1>4 DEF Next

\* Every variable keeps its type, and a command only takes its own steps: in particular
\* flush_transaction_if_needed returns to the loop that called it.
THEOREM AdminTypeCorrect == Spec => []AdminTypeOK
<1> QED BY InitAdminType, NextAdminType, PTL DEF Spec

-----------------------------------------------------------------------------
(***************************************************************************)
(* Transactions                                                            *)
(***************************************************************************)

\* transaction_start, transaction_end and flush_transaction_if_needed agree on whether
\* there is a transaction unless --events-per-transaction is 1.
Paired == 1 \notin EptValues

\* A database without a transaction of the program keeps what it is given at once; only
\* the target has one.
Consistent(x) ==
  /\ dbs[x].tx = "none" => dbs[x].work = dbs[x].stored
  /\ dbs[x].tx # "none" => x = Target /\ (HasTransaction \/ ept = 1)

\* ... and none has one when the databases are destroyed, but for --events-per-transaction 1.
TxInv ==
  /\ \A x \in {"src", "dst"} : Consistent(x)
  /\ pc \in {"flush_end", "flush_start"} => ept # 0
  /\ pc \in {"destroy", "done"} => dbs[Target].tx = "none" \/ ept = 1
  /\ pc = "aborted" => ept = 1

\* The options do not change.
LEMMA OptionsKept ==
  ASSUME UNCHANGED options
  PROVE  Target' = Target /\ HasTransaction' = HasTransaction /\ ept' = ept /\ command' = command
  BY DEF options, Target, HasTransaction

\* A step that leaves the databases alone.
LEMMA QuietTx ==
  ASSUME TxInv, UNCHANGED options, dbs' = dbs, pc' \notin {"destroy", "done", "aborted"},
         pc' \in {"flush_end", "flush_start"} => ept # 0
  PROVE  TxInv'
  BY OptionsKept DEF TxInv, Consistent

\* A step that is one call on database x.
LEMMA CallTx ==
  ASSUME TxInv, UNCHANGED options, NEW x \in {"src", "dst"},
         \A y \in {"src", "dst"} \ {x} : dbs'[y] = dbs[y],
         dbs'[x].tx = "none" => dbs'[x].work = dbs'[x].stored,
         dbs'[x].tx # "none" => x = Target /\ (HasTransaction \/ ept = 1),
         pc' \notin {"destroy", "done", "aborted"},
         pc' \in {"flush_end", "flush_start"} => ept # 0
  PROVE  TxInv'
<1>1. \A y \in {"src", "dst"} : Consistent(y)'
  <2> TAKE y \in {"src", "dst"}
  <2>1. CASE y = x
    BY <2>1, OptionsKept DEF Consistent
  <2>2. CASE y # x
    BY <2>2, OptionsKept DEF TxInv, Consistent
  <2> QED BY <2>1, <2>2
<1> QED BY <1>1, OptionsKept DEF TxInv

\* requiemdb_delete_* and requiemdb_insert_message neither open nor end a transaction.
LEMMA ChangeTx ==
  ASSUME NEW d \in Databases, d.tx = "none" => d.work = d.stored, NEW e, NEW S, NEW v \in Contents,
         \/ e = d
         \/ d.tx # "failed" /\ e = Changed(d, v)
         \/ d.tx # "failed" /\ e \in Broken(d, S)
  PROVE  /\ e.tx = "none" <=> d.tx = "none"
         /\ e.tx = "none" => e.work = e.stored
<1>0. d.tx \in {"none", "open", "failed"}
  BY DEF Databases
<1>1. CASE d.tx # "failed" /\ e = Changed(d, v)
  BY <1>0, <1>1, ChangedFields
<1>2. CASE d.tx # "failed" /\ e \in Broken(d, S)
  BY <1>0, <1>2, BrokenFields
<1> QED BY <1>1, <1>2

\* Every step of the program keeps the transactions paired.
LEMMA ProgramTx == ASSUME AdminTypeOK, TxInv, Program PROVE TxInv'
<1>0. /\ dbs["src"] \in Databases /\ dbs["dst"] \in Databases /\ Target \in {"src", "dst"}
      /\ dbs[Target] \in Databases
      /\ Consistent("src") /\ Consistent("dst") /\ Consistent(Target)
  BY DatabasesTyped DEF TxInv
<1>a. ept \in Nat
  BY AdminAssumption DEF AdminTypeOK
<1>1. CASE Start
  <2> PICK r \in IF HasTransaction THEN Affordable(TransactionStart(dbs[Target]))
                                   ELSE {Reply(dbs[Target], TRUE, 0)} :
        Answered(Target, r)
    BY <1>1 DEF Start
  <2>1. IsReply(r) /\ \/ r.db = dbs[Target]
                      \/ /\ HasTransaction
                         /\ r.db = Database("open", dbs[Target].stored, dbs[Target].stored)
    <3>1. CASE HasTransaction
      BY <1>0, <3>1, AffordableReply, StartReply
    <3>2. CASE ~HasTransaction
      <4>1. r = Reply(dbs[Target], TRUE, 0)
        BY <3>2
      <4> QED BY <1>0, <4>1 DEF Reply, IsReply
    <3> QED BY <3>1, <3>2
  <2>2. dbs'[Target] = r.db /\ \A y \in {"src", "dst"} \ {Target} : dbs'[y] = dbs[y]
    BY <1>0, <2>1, AnsweredTyped
  <2>3. Database("open", dbs[Target].stored, dbs[Target].stored).tx = "open"
    BY DEF Database
  <2>4. pc' \in {"open", "fetch"} /\ UNCHANGED options
    BY <1>1 DEF Start
  <2> QED BY <1>0, <2>1, <2>2, <2>3, <2>4, CallTx DEF Consistent
<1>2. CASE Fetch \/ GetMessage \/ EndPage \/ OpenFile \/ ReadMessage \/ SaveDone
  <2>1. UNCHANGED options /\ pc' \notin {"destroy", "done", "aborted", "flush_start"}
    BY <1>2 DEF Fetch, AfterFetch, PageStart, GetMessage, EndPage, OpenFile, ReadMessage, SaveDone
  <2>2. pc' = "flush_end" => ept # 0
    BY <1>2 DEF Fetch, AfterFetch, PageStart, GetMessage, EndPage, OpenFile, ReadMessage, SaveDone
  <2>3. dbs' = dbs
    BY <1>2, ReadsLeave DEF Fetch, GetMessage, EndPage, OpenFile, ReadMessage, SaveDone
  <2> QED BY <2>1, <2>2, <2>3, QuietTx
<1>3. CASE Count \/ NoFileLeft \/ LoadDone \/ Loop
  <2>1. UNCHANGED options /\ dbs' = dbs
    BY <1>3 DEF Count, NoFileLeft, LoadDone, Loop
  <2>2. CASE Count
    BY <2>1, <2>2, QuietTx, DatabasesTyped DEF Count, Counted, Returns, AdminTypeOK
  <2>3. CASE NoFileLeft \/ LoadDone \/ Loop
    BY <2>1, <2>3, QuietTx DEF NoFileLeft, LoadDone, Loop
  <2> QED BY <1>3, <2>2, <2>3
<1>4. CASE Insert
  <2> PICK r \in Affordable(InsertMessage(dbs["dst"], current)) :
        /\ Answered("dst", r)
        /\ pc' \in {"finish", "evict", "count"}
    BY <1>4 DEF Insert
  <2>1. command \in {"copy", "move", "load"} /\ current \in Idents
    BY <1>4, DatabasesTyped DEF Insert, AdminTypeOK, Steps, Ending
  <2>2. /\ IsReply(r)
        /\ \/ r.db = dbs["dst"]
           \/ dbs["dst"].tx # "failed" /\ r.db = Changed(dbs["dst"], Inserted(dbs["dst"].work, current))
           \/ dbs["dst"].tx # "failed" /\ r.db \in Broken(dbs["dst"], {current})
    BY <1>0, <2>1, AffordableReply, InsertReply DEF IsReply
  <2>3. Inserted(dbs["dst"].work, current) \in Contents
    BY <1>0, <2>1, ContentsChange DEF Databases
  <2>4. /\ r.db.tx = "none" <=> dbs["dst"].tx = "none"
        /\ r.db.tx = "none" => r.db.work = r.db.stored
    BY <1>0, <2>2, <2>3, ChangeTx DEF Consistent
  <2>5. dbs'["dst"] = r.db /\ \A y \in {"src", "dst"} \ {"dst"} : dbs'[y] = dbs[y]
    BY <2>2, AnsweredTyped
  <2>6. UNCHANGED options
    BY <1>4 DEF Insert
  <2> QED BY <1>0, <2>4, <2>5, <2>6, CallTx DEF Consistent
<1>5. ASSUME NEW S \in SUBSET Idents, NEW kind, NEW r \in Affordable(DeleteMessages(dbs["src"], S, kind)),
             Answered("src", r), UNCHANGED options, pc' \notin {"destroy", "done", "aborted"},
             pc' \in {"flush_end", "flush_start"} => ept # 0
      PROVE  TxInv'
  <2>2. /\ IsReply(r)
        /\ \/ r.db = dbs["src"]
           \/ dbs["src"].tx # "failed" /\ r.db = Changed(dbs["src"], Removed(dbs["src"].work, S))
           \/ dbs["src"].tx # "failed" /\ r.db \in Broken(dbs["src"], S)
    BY <1>0, <1>5, AffordableReply, DeleteReply DEF IsReply
  <2>3. Removed(dbs["src"].work, S) \in Contents
    BY <1>0 DEF Databases, Contents, Removed, States
  <2>4. /\ r.db.tx = "none" <=> dbs["src"].tx = "none"
        /\ r.db.tx = "none" => r.db.work = r.db.stored
    BY <1>0, <2>2, <2>3, ChangeTx DEF Consistent
  <2>5. dbs'["src"] = r.db /\ \A y \in {"src", "dst"} \ {"src"} : dbs'[y] = dbs[y]
    BY <1>5, <2>2, AnsweredTyped
  <2> QED BY <1>0, <1>5, <2>4, <2>5, CallTx DEF Consistent
<1>6. CASE Evict
  BY <1>5, <1>6 DEF Evict, AdminTypeOK
<1>7. CASE Leftover
  <2>1. CASE tbl = {}
    <3>1. Answered("src", Reply(dbs["src"], TRUE, 0))
      BY <1>7, <2>1 DEF Leftover
    <3>2. dbs' = dbs
      BY <3>1 DEF Answered, Reply, AdminTypeOK
    <3> QED BY <1>7, <3>2, QuietTx DEF Leftover
  <2>2. CASE tbl # {}
    BY <1>5, <1>7, <2>2 DEF Leftover, AdminTypeOK
  <2> QED BY <2>1, <2>2
<1>8. CASE Purge
  BY <1>5, <1>8 DEF Purge, Counted, AdminTypeOK
<1>9. CASE FlushEnd
  <2> PICK r \in Affordable(TransactionEnd(dbs[Target])) : Answered(Target, r)
    BY <1>9 DEF FlushEnd
  <2>1. IsReply(r) /\ r.db \in {dbs[Target], Settled(dbs[Target].work), Settled(dbs[Target].stored)}
    BY <1>0, AffordableReply, EndReply
  <2>2. dbs'[Target] = r.db /\ \A y \in {"src", "dst"} \ {Target} : dbs'[y] = dbs[y]
    BY <1>0, <2>1, AnsweredTyped
  <2>3. dbs[Target].work \in Contents /\ dbs[Target].stored \in Contents
    BY <1>0 DEF Databases
  <2>4. UNCHANGED options /\ pc' = "flush_start" /\ ept # 0
    BY <1>9 DEF FlushEnd, TxInv
  <2> QED BY <1>0, <2>1, <2>2, <2>3, <2>4, SettledFields, CallTx DEF Consistent
<1>10. CASE FlushStart
  <2> PICK r \in Affordable(TransactionStart(dbs[Target])) : Answered(Target, r)
    BY <1>10 DEF FlushStart
  <2>1. /\ IsReply(r)
        /\ r.db \in {dbs[Target], Database("open", dbs[Target].stored, dbs[Target].stored)}
    BY <1>0, AffordableReply, StartReply
  <2>2. dbs'[Target] = r.db /\ \A y \in {"src", "dst"} \ {Target} : dbs'[y] = dbs[y]
    BY <1>0, <2>1, AnsweredTyped
  <2>3. Database("open", dbs[Target].stored, dbs[Target].stored).tx = "open"
    BY DEF Database
  <2>4. HasTransaction \/ ept = 1
    BY <1>a, <1>10, DatabasesTyped DEF FlushStart, TxInv, HasTransaction, AdminTypeOK, Steps, Ending
  <2>5. UNCHANGED options /\ pc' \in {"read", "loop", "next", "leftover"}
    BY <1>10 DEF FlushStart, AdminTypeOK, Returns
  <2> QED BY <1>0, <2>1, <2>2, <2>3, <2>4, <2>5, CallTx DEF Consistent
<1>11. CASE SaveMessage
  <2> DEFINE new == Settled(Inserted(dbs["dst"].work, Lowest(page)))
  <2> PICK r \in Affordable({Reply(new, TRUE, 0)}
                            \cup Fault(IF command = "save" THEN "save" ELSE "get", {dbs["dst"]})) :
        Answered("dst", r)
    BY <1>11 DEF SaveMessage
  <2>1. Inserted(dbs["dst"].work, Lowest(page)) \in Contents
    BY <1>0, <1>11, LowestInPage, ContentsChange DEF SaveMessage, AdminTypeOK, Databases
  <2>2. r.db \in {new, dbs["dst"]}
    <3>1. CASE r = Reply(new, TRUE, 0)
      BY <3>1 DEF Reply
    <3>2. CASE r \in Fault(IF command = "save" THEN "save" ELSE "get", {dbs["dst"]})
      BY <3>2, FaultReply
    <3>3. r \in {Reply(new, TRUE, 0)} \cup Fault(IF command = "save" THEN "save" ELSE "get", {dbs["dst"]})
      BY AffordableReply
    <3> QED BY <3>1, <3>2, <3>3
  <2>3. dbs'["dst"] = r.db /\ \A y \in {"src", "dst"} \ {"dst"} : dbs'[y] = dbs[y]
    BY DEF Answered, AdminTypeOK
  <2>4. UNCHANGED options /\ pc' \in {"save", "loop"}
    BY <1>11 DEF SaveMessage
  <2> QED BY <1>0, <2>1, <2>2, <2>3, <2>4, SettledFields, CallTx DEF Consistent
<1>12. CASE Finish
  <2> PICK r \in IF HasTransaction THEN Affordable(FinishAnswers(dbs[Target]))
                                   ELSE {Reply(dbs[Target], TRUE, 0)} :
        Answered(Target, r)
    BY <1>12 DEF Finish
  <2>1. IsReply(r) /\ (~HasTransaction => r.db = dbs[Target])
    BY FinishReply
  <2>2. dbs[Target].work \in Contents /\ dbs[Target].stored \in Contents
    BY <1>0 DEF Databases
  <2>3. HasTransaction => \/ r.db \in {Settled(dbs[Target].work), Settled(dbs[Target].stored)}
                          \/ r.db = dbs[Target] /\ dbs[Target].tx = "none"
    BY <1>0, FinishReply, EndReply DEF AdminTypeOK
  <2>4. (r.db.tx = "none" \/ ept = 1) /\ (r.db.tx = "none" => r.db.work = r.db.stored)
        /\ (r.db.tx # "none" => dbs[Target].tx # "none")
    BY <1>0, <2>1, <2>2, <2>3, SettledFields DEF Consistent
  <2>5. dbs'[Target] = r.db /\ \A y \in {"src", "dst"} \ {Target} : dbs'[y] = dbs[y]
    BY <1>0, <2>1, AnsweredTyped
  <2>6. UNCHANGED options /\ pc' = "destroy"
    BY <1>12 DEF Finish
  <2>7. \A y \in {"src", "dst"} : Consistent(y)'
    BY <1>0, <2>4, <2>5, <2>6, OptionsKept DEF Consistent, TxInv
  <2> QED BY <2>4, <2>5, <2>6, <2>7, OptionsKept DEF TxInv
<1>13. CASE DestroyDatabases
  <2>1. ept = 1 \/ \A x \in {"src", "dst"} : dbs[x].tx = "none"
    BY <1>0, <1>13 DEF DestroyDatabases, TxInv, Consistent
  <2>2. UNCHANGED options /\ dbs' = dbs /\ pc' \in {"done", "aborted"} /\ (pc' = "aborted" => ept = 1)
    <3>1. CASE \E x \in {"src", "dst"} : dbs[x].tx # "none"
      BY <1>13, <2>1, <3>1 DEF DestroyDatabases
    <3>2. CASE \A x \in {"src", "dst"} : dbs[x].tx = "none"
      BY <1>13, <3>2 DEF DestroyDatabases
    <3> QED BY <3>1, <3>2
  <2>3. ept' = ept /\ Target' = Target /\ (dbs[Target].tx = "none" \/ ept = 1)
    BY <1>0, <2>1, <2>2, OptionsKept
  <2>4. \A x \in {"src", "dst"} : Consistent(x)'
    BY <2>2, OptionsKept DEF TxInv, Consistent
  <2> QED BY <2>2, <2>3, <2>4 DEF TxInv
<1> QED BY <1>1, <1>2, <1>3, <1>4, <1>6, <1>7, <1>8, <1>9, <1>10, <1>11, <1>12, <1>13 DEF Program

\* The pairing is an invariant of every run.
LEMMA TxInvariant == Spec => []TxInv
<1>1. Init => TxInv
  <2> SUFFICES ASSUME Init PROVE TxInv
    OBVIOUS
  <2>1. Everything \in Contents /\ Nothing \in Contents
    BY DEF Everything, Nothing, Contents, States
  <2>2. \A x \in {"src", "dst"} : dbs[x].tx = "none" /\ dbs[x].work = dbs[x].stored
    BY <2>1, SettledFields DEF Init
  <2> QED BY <2>2 DEF Init, TxInv, Consistent
<1>2. AdminTypeOK /\ TxInv /\ [Next]_vars => TxInv'
  <2> SUFFICES ASSUME AdminTypeOK, TxInv, [Next]_vars PROVE TxInv'
    OBVIOUS
  <2>1. CASE Program
    BY <2>1, ProgramTx
  <2>2. CASE Interrupt \/ Finished \/ UNCHANGED vars
    BY <2>2, OptionsKept DEF Interrupt, Finished, vars, TxInv, Consistent, Target, HasTransaction, options
  <2> QED BY <2>1, <2>2 DEF Next
<1> QED BY <1>1, <1>2, AdminTypeCorrect, PTL DEF Spec

\* With any --events-per-transaction but 1 every transaction the program opens is ended
\* before requiemdb_destroy, whatever fails and whenever a signal comes.
THEOREM DestroyCorrect == ASSUME Paired PROVE Spec => []NoOpenTransactionLeft
<1>1. AdminTypeOK /\ TxInv => NoOpenTransactionLeft
  BY DEF AdminTypeOK, TxInv, NoOpenTransactionLeft, Paired
<1> QED BY <1>1, AdminTypeCorrect, TxInvariant, PTL

-----------------------------------------------------------------------------
(***************************************************************************)
(* Parts of messages                                                       *)
(***************************************************************************)

Clean(c) == \A i \in Idents : c[i] # "torn"

\* Part of a message is there for the program alone, inside a transaction it will not
\* commit; and only the target has a transaction.
TornInv ==
  /\ \A x \in {"src", "dst"} : Clean(dbs[x].stored)
  /\ \A x \in {"src", "dst"} :
       Clean(dbs[x].work) \/ (failed /\ x = Target /\ pc \in {"finish", "destroy", "done", "aborted"})
  /\ \A x \in {"src", "dst"} : x # Target => dbs[x].tx = "none"

\* A step that leaves the databases alone, before the end.
LEMMA QuietTorn ==
  ASSUME TornInv, UNCHANGED options, dbs' = dbs, pc \notin {"finish", "destroy", "done", "aborted"}
  PROVE  TornInv'
  BY OptionsKept DEF TornInv

\* A step that is one call on database x.
LEMMA CallTorn ==
  ASSUME TornInv, UNCHANGED options, NEW x \in {"src", "dst"}, pc \notin {"finish", "destroy", "done", "aborted"},
         \A y \in {"src", "dst"} \ {x} : dbs'[y] = dbs[y],
         Clean(dbs'[x].stored),
         Clean(dbs'[x].work) \/ (failed' /\ x = Target /\ pc' = "finish"),
         x # Target => dbs'[x].tx = "none"
  PROVE  TornInv'
  BY OptionsKept DEF TornInv

\* Whole messages that are inserted or removed are whole messages.
LEMMA CleanChange ==
  ASSUME NEW c \in Contents, Clean(c), NEW m \in Idents, NEW S
  PROVE  Clean(Inserted(c, m)) /\ Clean(Removed(c, S))
  BY DEF Clean, Inserted, Removed, Contents

\* Every step of the program keeps the parts of messages out of the databases, unless the
\* deletions of cmd_delete fail half way.
LEMMA ProgramTorn == ASSUME "purge" \notin Faulty, AdminTypeOK, TornInv, Program PROVE TornInv'
<1>0. /\ dbs["src"] \in Databases /\ dbs["dst"] \in Databases /\ Target \in {"src", "dst"}
      /\ dbs[Target] \in Databases
      /\ \A x \in {"src", "dst"} : dbs[x].work \in Contents /\ dbs[x].stored \in Contents
  BY DatabasesTyped DEF Databases
<1>a. \A x \in {"src", "dst"} :
        /\ Clean(dbs[x].stored)
        /\ pc \notin {"finish", "destroy", "done", "aborted"} \/ ~failed => Clean(dbs[x].work)
        /\ x # Target => dbs[x].tx = "none"
  BY DEF TornInv
<1>1. CASE Start
  <2> PICK r \in IF HasTransaction THEN Affordable(TransactionStart(dbs[Target]))
                                   ELSE {Reply(dbs[Target], TRUE, 0)} :
        Answered(Target, r)
    BY <1>1 DEF Start
  <2>1. /\ IsReply(r)
        /\ r.db \in {dbs[Target], Database("open", dbs[Target].stored, dbs[Target].stored)}
    <3>1. CASE HasTransaction
      BY <1>0, <3>1, AffordableReply, StartReply
    <3>2. CASE ~HasTransaction
      <4>1. r = Reply(dbs[Target], TRUE, 0)
        BY <3>2
      <4> QED BY <1>0, <4>1 DEF Reply, IsReply
    <3> QED BY <3>1, <3>2
  <2>2. dbs'[Target] = r.db /\ \A y \in {"src", "dst"} \ {Target} : dbs'[y] = dbs[y]
    BY <1>0, <2>1, AnsweredTyped
  <2>3. UNCHANGED options /\ pc = "start"
    BY <1>1 DEF Start
  <2>4. Clean(dbs'[Target].stored) /\ Clean(dbs'[Target].work)
    BY <1>0, <1>a, <2>1, <2>2, <2>3, DatabaseFields
  <2> QED BY <1>0, <2>2, <2>3, <2>4, CallTorn
<1>2. CASE Fetch \/ GetMessage \/ EndPage \/ OpenFile \/ ReadMessage \/ SaveDone
  <2>1. UNCHANGED options /\ pc \notin {"finish", "destroy", "done", "aborted"}
    BY <1>2 DEF Fetch, GetMessage, EndPage, OpenFile, ReadMessage, SaveDone
  <2>2. dbs' = dbs
    BY <1>2, ReadsLeave DEF Fetch, GetMessage, EndPage, OpenFile, ReadMessage, SaveDone
  <2> QED BY <2>1, <2>2, QuietTorn
<1>3. CASE Count \/ NoFileLeft \/ LoadDone \/ Loop
  BY <1>3, QuietTorn DEF Count, NoFileLeft, LoadDone, Loop
<1>4. CASE Insert
  <2> PICK r \in Affordable(InsertMessage(dbs["dst"], current)) :
        /\ Answered("dst", r)
        /\ failed' = ~r.ok
        /\ r.ok \/ pc' = "finish"
    BY <1>4 DEF Insert
  <2>1. command \in {"copy", "move", "load"} /\ current \in Idents /\ pc = "insert" /\ UNCHANGED options
    BY <1>4, DatabasesTyped DEF Insert, AdminTypeOK, Steps, Ending
  <2>2. /\ IsReply(r)
        /\ dbs["dst"].tx = "failed" => r.db = dbs["dst"]
        /\ r.ok => dbs["dst"].tx # "failed" /\ r.db = Changed(dbs["dst"], Inserted(dbs["dst"].work, current))
        /\ ~r.ok /\ dbs["dst"].tx # "failed" => r.db \in Broken(dbs["dst"], {current})
    BY <1>0, <2>1, AffordableReply, InsertReply
  <2>3. dbs'["dst"] = r.db /\ \A y \in {"src", "dst"} \ {"dst"} : dbs'[y] = dbs[y]
    BY <2>2, AnsweredTyped
  <2>4. Target = "dst"
    BY <2>1 DEF Target
  <2>5. CASE r.ok
    <3>1. Inserted(dbs["dst"].work, current) \in Contents /\ Clean(Inserted(dbs["dst"].work, current))
      BY <1>0, <1>a, <2>1, ContentsChange, CleanChange
    <3>2. Clean(r.db.stored) /\ Clean(r.db.work)
      BY <1>0, <1>a, <2>2, <2>5, <3>1, ChangedFields
    <3> QED BY <2>1, <2>3, <2>4, <3>2, CallTorn
  <2>6. CASE ~r.ok
    <3>1. r.db.stored = dbs["dst"].stored
      BY <1>0, <2>2, <2>6, BrokenFields
    <3> QED BY <1>a, <2>1, <2>3, <2>4, <2>6, <3>1, CallTorn
  <2> QED BY <2>5, <2>6
<1>5. ASSUME NEW S \in SUBSET Idents, NEW kind, NEW r \in Affordable(DeleteMessages(dbs["src"], S, kind)),
             Answered("src", r), UNCHANGED options, pc \notin {"finish", "destroy", "done", "aborted"},
             kind \notin Faulty \/ Target # "src"
      PROVE  TornInv'
  <2>1. /\ IsReply(r)
        /\ dbs["src"].tx = "failed" => r.db = dbs["src"]
        /\ r.ok => dbs["src"].tx # "failed" /\ r.db = Changed(dbs["src"], Removed(dbs["src"].work, S))
        /\ ~r.ok /\ dbs["src"].tx # "failed" => r.db \in Broken(dbs["src"], S) /\ kind \in Faulty
    BY <1>0, <1>5, AffordableReply, DeleteReply
  <2>2. dbs'["src"] = r.db /\ \A y \in {"src", "dst"} \ {"src"} : dbs'[y] = dbs[y]
    BY <1>5, <2>1, AnsweredTyped
  <2>3. CASE r.ok
    <3>1. Removed(dbs["src"].work, S) \in Contents
      BY <1>0 DEF Databases, Contents, Removed, States
    <3>2. Clean(Removed(dbs["src"].work, S))
      BY <1>0, <1>a, <1>5 DEF Clean, Removed
    <3>3. Clean(r.db.stored) /\ Clean(r.db.work) /\ r.db.tx = dbs["src"].tx
      BY <1>0, <1>a, <2>1, <2>3, <3>1, <3>2, ChangedFields
    <3> QED BY <1>a, <1>5, <2>2, <3>3, CallTorn
  <2>4. CASE ~r.ok
    <3>1. r.db = dbs["src"]
      BY <1>0, <1>a, <1>5, <2>1, <2>4, BrokenFields
    <3> QED BY <1>a, <1>5, <2>2, <3>1, CallTorn
  <2> QED BY <2>3, <2>4
<1>b. Evict \/ Leftover => Target = "dst"
  BY DatabasesTyped DEF Evict, Leftover, AdminTypeOK, Steps, Ending, Target
<1>6. CASE Evict
  BY <1>b, <1>5, <1>6 DEF Evict, AdminTypeOK
<1>7. CASE Leftover
  <2>1. CASE tbl = {}
    <3>1. Answered("src", Reply(dbs["src"], TRUE, 0))
      BY <1>7, <2>1 DEF Leftover
    <3>2. dbs' = dbs
      BY <3>1 DEF Answered, Reply, AdminTypeOK
    <3> QED BY <1>7, <3>2, QuietTorn DEF Leftover
  <2>2. CASE tbl # {}
    BY <1>b, <1>5, <1>7, <2>2 DEF Leftover, AdminTypeOK
  <2> QED BY <2>1, <2>2
<1>8. CASE Purge
  BY <1>5, <1>8 DEF Purge, AdminTypeOK
<1>9. CASE FlushEnd
  <2> PICK r \in Affordable(TransactionEnd(dbs[Target])) : Answered(Target, r)
    BY <1>9 DEF FlushEnd
  <2>1. IsReply(r) /\ r.db \in {dbs[Target], Settled(dbs[Target].work), Settled(dbs[Target].stored)}
    BY <1>0, AffordableReply, EndReply
  <2>2. dbs'[Target] = r.db /\ \A y \in {"src", "dst"} \ {Target} : dbs'[y] = dbs[y]
    BY <1>0, <2>1, AnsweredTyped
  <2>3. UNCHANGED options /\ pc = "flush_end"
    BY <1>9 DEF FlushEnd
  <2>4. Clean(r.db.stored) /\ Clean(r.db.work)
    BY <1>0, <1>a, <2>1, <2>3, SettledFields
  <2> QED BY <1>0, <2>2, <2>3, <2>4, CallTorn
<1>10. CASE FlushStart
  <2> PICK r \in Affordable(TransactionStart(dbs[Target])) : Answered(Target, r)
    BY <1>10 DEF FlushStart
  <2>1. /\ IsReply(r)
        /\ r.db \in {dbs[Target], Database("open", dbs[Target].stored, dbs[Target].stored)}
    BY <1>0, AffordableReply, StartReply
  <2>2. dbs'[Target] = r.db /\ \A y \in {"src", "dst"} \ {Target} : dbs'[y] = dbs[y]
    BY <1>0, <2>1, AnsweredTyped
  <2>3. UNCHANGED options /\ pc = "flush_start"
    BY <1>10 DEF FlushStart
  <2>4. Clean(r.db.stored) /\ Clean(r.db.work)
    BY <1>0, <1>a, <2>1, <2>3, DatabaseFields
  <2> QED BY <1>0, <2>2, <2>3, <2>4, CallTorn
<1>11. CASE SaveMessage
  <2> DEFINE new == Settled(Inserted(dbs["dst"].work, Lowest(page)))
  <2> PICK r \in Affordable({Reply(new, TRUE, 0)}
                            \cup Fault(IF command = "save" THEN "save" ELSE "get", {dbs["dst"]})) :
        Answered("dst", r)
    BY <1>11 DEF SaveMessage
  <2>1. UNCHANGED options /\ pc = "save" /\ Lowest(page) \in Idents
    BY <1>11, LowestInPage DEF SaveMessage, AdminTypeOK
  <2>2. r.db \in {new, dbs["dst"]}
    <3>1. CASE r = Reply(new, TRUE, 0)
      BY <3>1 DEF Reply
    <3>2. CASE r \in Fault(IF command = "save" THEN "save" ELSE "get", {dbs["dst"]})
      BY <3>2, FaultReply
    <3>3. r \in {Reply(new, TRUE, 0)} \cup Fault(IF command = "save" THEN "save" ELSE "get", {dbs["dst"]})
      BY AffordableReply
    <3> QED BY <3>1, <3>2, <3>3
  <2>3. dbs'["dst"] = r.db /\ \A y \in {"src", "dst"} \ {"dst"} : dbs'[y] = dbs[y]
    BY DEF Answered, AdminTypeOK
  <2>4. /\ Inserted(dbs["dst"].work, Lowest(page)) \in Contents
        /\ Clean(Inserted(dbs["dst"].work, Lowest(page)))
    BY <1>0, <1>a, <2>1, ContentsChange, CleanChange
  <2>5. Clean(r.db.stored) /\ Clean(r.db.work) /\ ("dst" # Target => r.db.tx = "none")
    BY <1>0, <1>a, <2>1, <2>2, <2>4, SettledFields
  <2> QED BY <2>1, <2>3, <2>5, CallTorn
<1>12. CASE Finish
  <2> PICK r \in IF HasTransaction THEN Affordable(FinishAnswers(dbs[Target]))
                                   ELSE {Reply(dbs[Target], TRUE, 0)} :
        Answered(Target, r)
    BY <1>12 DEF Finish
  <2>1. IsReply(r) /\ (~HasTransaction => r.db = dbs[Target])
        /\ (HasTransaction /\ failed => r.db = Settled(dbs[Target].stored))
    BY FinishReply
  <2>2. HasTransaction /\ ~failed =>
          r.db \in {dbs[Target], Settled(dbs[Target].work), Settled(dbs[Target].stored)}
    BY <1>0, FinishReply, EndReply
  <2>3. dbs'[Target] = r.db /\ \A y \in {"src", "dst"} \ {Target} : dbs'[y] = dbs[y]
    BY <1>0, <2>1, AnsweredTyped
  <2>4. UNCHANGED options /\ pc = "finish" /\ pc' = "destroy" /\ failed' = failed /\ failed \in BOOLEAN
    BY <1>12 DEF Finish, AdminTypeOK
  <2>5. Clean(r.db.stored) /\ (~failed => Clean(r.db.work))
    BY <1>0, <1>a, <2>1, <2>2, <2>4, SettledFields
  <2> QED BY <1>0, <2>3, <2>4, <2>5, OptionsKept DEF TornInv
<1>13. CASE DestroyDatabases
  <2>1. UNCHANGED options /\ dbs' = dbs /\ failed' = failed /\ pc' \in {"done", "aborted"}
    BY <1>13 DEF DestroyDatabases
  <2> QED BY <1>13, <2>1, OptionsKept DEF TornInv, DestroyDatabases
<1> QED BY <1>1, <1>2, <1>3, <1>4, <1>6, <1>7, <1>8, <1>9, <1>10, <1>11, <1>12, <1>13 DEF Program

\* No part of a message is ever stored without the rest, whichever calls fail, as long as
\* the deletions of cmd_delete are all or nothing: after one that fails half way cmd_delete
\* counts the page and commits what it has left.
THEOREM TornCorrect == ASSUME "purge" \notin Faulty PROVE Spec => []NeverTorn
<1>1. Init => TornInv
  <2> SUFFICES ASSUME Init PROVE TornInv
    OBVIOUS
  <2>1. Everything \in Contents /\ Nothing \in Contents /\ Clean(Everything) /\ Clean(Nothing)
    BY DEF Everything, Nothing, Contents, States, Clean
  <2>2. \A x \in {"src", "dst"} : dbs[x].tx = "none" /\ Clean(dbs[x].work) /\ Clean(dbs[x].stored)
    BY <2>1, SettledFields DEF Init
  <2> QED BY <2>2 DEF TornInv
<1>2. AdminTypeOK /\ TornInv /\ [Next]_vars => TornInv'
  <2> SUFFICES ASSUME AdminTypeOK, TornInv, [Next]_vars PROVE TornInv'
    OBVIOUS
  <2>1. CASE Program
    BY <2>1, ProgramTorn
  <2>2. CASE Interrupt \/ Finished \/ UNCHANGED vars
    BY <2>2, OptionsKept DEF Interrupt, Finished, vars, TornInv, options
  <2> QED BY <2>1, <2>2 DEF Next
<1>3. TornInv => NeverTorn
  BY DEF TornInv, NeverTorn, Clean
<1> QED BY <1>1, <1>2, <1>3, AdminTypeCorrect, PTL DEF Spec

-----------------------------------------------------------------------------
(***************************************************************************)
(* delete_tbl                                                              *)
(***************************************************************************)

\* A page has at most events_per_transaction messages, and delete_tbl some of those that
\* were copied from it; the message being copied is in neither.  The table is emptied when it
\* is full, unless the deletions fail.
PageInv ==
  /\ command # "move" => tbl = {}
  /\ command = "move" => Cardinality(page) + Cardinality(tbl) + (IF pc = "insert" THEN 1 ELSE 0) <= ept
  /\ limitCopy >= -1
  /\ "delete" \notin Faulty => /\ Cardinality(tbl) <= TableSize
                               /\ pc # "evict" => Cardinality(tbl) < TableSize

\* A page has at most as many messages as were asked for.
LEMMA SliceBounded ==
  ASSUME NEW d, NEW from \in Nat, NEW n \in Nat
  PROVE  Cardinality(Slice(d, from, n)) \in Nat /\ Cardinality(Slice(d, from, n)) <= n
<1> DEFINE present == {i \in Idents : d.work[i] # "absent"}
           Below(i) == {j \in present : j <= i}
           f == [i \in Slice(d, from, n) |-> Cardinality(Below(i))]
<1>1. ASSUME NEW i \in Idents PROVE IsFiniteSet(Below(i)) /\ Cardinality(Below(i)) \in Nat
  <2>1. Below(i) \in SUBSET Idents
    OBVIOUS
  <2> HIDE DEF Below
  <2> QED BY <2>1, IdentsCounted
<1>2. \A i \in Slice(d, from, n) : i \in present /\ f[i] \in (from + 1)..(from + n)
  <2> SUFFICES ASSUME NEW i \in Slice(d, from, n)
               PROVE  i \in present /\ Cardinality(Below(i)) \in (from + 1)..(from + n)
    OBVIOUS
  <2>1. i \in present /\ from < Cardinality(Below(i)) /\ Cardinality(Below(i)) <= from + n
    BY Zenon DEF Slice
  <2>2. Cardinality(Below(i)) \in Nat
    BY <1>1, <2>1
  <2> HIDE DEF Below, present
  <2> QED BY <2>1, <2>2
<1>3. \A i, j \in present : i < j => Cardinality(Below(i)) < Cardinality(Below(j))
  <2> SUFFICES ASSUME NEW i \in present, NEW j \in present, i < j
               PROVE  Cardinality(Below(i)) < Cardinality(Below(j))
    OBVIOUS
  <2>0. i \in Nat /\ j \in Nat
    BY AdminAssumption DEF Idents
  <2>1. Below(i) \subseteq Below(j)
    BY <2>0, AdminAssumption DEF Idents
  <2>2. j \in Below(j) /\ j \notin Below(i)
    BY <2>0
  <2> QED BY <1>1, <2>1, <2>2, FS_Subset
<1>4. f \in Injection(Slice(d, from, n), (from + 1)..(from + n))
  <2>1. f \in [Slice(d, from, n) -> (from + 1)..(from + n)]
    BY <1>2
  <2>2. \A i, j \in Slice(d, from, n) : f[i] = f[j] => i = j
    <3> SUFFICES ASSUME NEW i \in Slice(d, from, n), NEW j \in Slice(d, from, n), f[i] = f[j] PROVE i = j
      OBVIOUS
    <3>1. i \in present /\ j \in present /\ i \in Nat /\ j \in Nat
      BY <1>2, AdminAssumption DEF Idents
    <3>2. Cardinality(Below(i)) = Cardinality(Below(j)) /\ Cardinality(Below(i)) \in Nat
      BY <1>1, <3>1
    <3> HIDE DEF present, Below
    <3> QED BY <1>3, <3>1, <3>2
  <2> HIDE DEF f
  <2> QED BY <2>1, <2>2, Fun_IsInj
<1>5. IsFiniteSet(Slice(d, from, n)) /\ Cardinality(Slice(d, from, n)) \in Nat
  BY SliceTyped, IdentsCounted
<1>6. IsFiniteSet((from + 1)..(from + n)) /\ Cardinality((from + 1)..(from + n)) = n
  BY FS_Interval
<1> QED BY <1>4, <1>5, <1>6, FS_Injection

\* What a fetch may ask for, and what is left of the limit after it.
LEMMA LimitBounded ==
  ASSUME AdminTypeOK, limitCopy >= -1
  PROVE  /\ LocalLimit \in Nat /\ LocalLimit <= ept /\ PageOffset \in Nat
         /\ \A n \in Nat : n <= LocalLimit => LimitLeft(n) >= -1
<1>1. ept \in Nat /\ limitCopy \in Int /\ offset \in Nat /\ curCount \in Nat
  BY AdminAssumption DEF AdminTypeOK
<1> QED BY <1>1 DEF LocalLimit, PageOffset, LimitLeft

\* A step that takes nothing but messages off the page.
LEMMA QuietPage ==
  ASSUME AdminTypeOK, PageInv, UNCHANGED <<options, tbl, limitCopy>>, page' \subseteq page,
         pc' \notin {"insert", "evict"}, pc # "evict"
  PROVE  PageInv'
<1>1. ept \in Nat /\ ept' = ept /\ command' = command
  BY AdminAssumption, OptionsKept DEF AdminTypeOK
<1>2. /\ Cardinality(page) \in Nat /\ Cardinality(page') \in Nat /\ Cardinality(tbl) \in Nat
      /\ Cardinality(page') <= Cardinality(page)
  BY IdentsCounted, FS_Subset DEF AdminTypeOK
<1> QED BY <1>1, <1>2 DEF PageInv

\* A step of a command that has no use for delete_tbl.
LEMMA OtherPage ==
  ASSUME PageInv, command # "move", UNCHANGED <<options, tbl, limitCopy>>
  PROVE  PageInv'
<1>1. tbl' = {} /\ Cardinality({}) = 0 /\ command' = command
  BY FS_EmptySet, OptionsKept DEF PageInv
<1> QED BY <1>1, AdminAssumption DEF PageInv

\* Every step of the program keeps delete_tbl no larger than the page was, and within its
\* bounds when no deletion fails.
LEMMA ProgramPage == ASSUME AdminTypeOK, TxInv, PageInv, Program PROVE PageInv'
<1>0. /\ ept \in Nat /\ limitCopy >= -1
      /\ Cardinality(page) \in Nat /\ Cardinality(tbl) \in Nat /\ Cardinality({}) = 0
  BY AdminAssumption, IdentsCounted, FS_EmptySet DEF AdminTypeOK, PageInv
<1>1. CASE Start \/ EndPage \/ Leftover \/ Loop \/ Finish \/ DestroyDatabases \/ FlushEnd
  <2>1. /\ UNCHANGED <<options, tbl, limitCopy>> /\ page' \subseteq page
        /\ pc' \notin {"insert", "evict"} /\ pc # "evict"
    BY <1>1 DEF Start, EndPage, Leftover, Loop, Finish, DestroyDatabases, FlushEnd
  <2> QED BY <2>1, QuietPage
<1>2. CASE Count
  <2>1. pc' \notin {"insert", "evict"}
    BY <1>2 DEF Count, Counted, AdminTypeOK, Returns
  <2> QED BY <1>2, <2>1, QuietPage DEF Count
<1>3. CASE FlushStart
  <2>1. pc' \notin {"insert", "evict"}
    BY <1>3 DEF FlushStart, AdminTypeOK, Returns
  <2> QED BY <1>3, <2>1, QuietPage DEF FlushStart
<1>4. CASE Purge \/ SaveMessage \/ SaveDone \/ OpenFile \/ NoFileLeft \/ LoadDone \/ ReadMessage
  <2>1. command # "move"
    BY <1>4, DatabasesTyped DEF Purge, SaveMessage, SaveDone, OpenFile, NoFileLeft, LoadDone, ReadMessage,
                                AdminTypeOK, Steps, Ending
  <2>2. UNCHANGED <<options, tbl, limitCopy>>
    BY <1>4 DEF Purge, SaveMessage, SaveDone, OpenFile, NoFileLeft, LoadDone, ReadMessage
  <2> QED BY <2>1, <2>2, OtherPage
<1>5. CASE Fetch
  <2> DEFINE idents == Slice(dbs["src"], PageOffset, LocalLimit)
  <2> PICK r \in Affordable(ReadOnly(dbs["src"], "fetch")) :
        /\ page' = IF r.ok THEN idents ELSE {}
        /\ limitCopy' = IF r.ok THEN LimitLeft(Cardinality(idents)) ELSE limitCopy
        /\ pc' = AfterFetch(r.ok, idents)
    BY <1>5 DEF Fetch
  <2>1. UNCHANGED options /\ tbl' = {} /\ pc' \notin {"insert", "evict"}
    BY <1>5 DEF Fetch, AfterFetch, PageStart
  <2>2. Cardinality(idents) \in Nat /\ Cardinality(idents) <= LocalLimit /\ LocalLimit \in Nat /\ LocalLimit <= ept
    BY <1>0, LimitBounded, SliceBounded
  <2>3. Cardinality(page') \in Nat /\ Cardinality(page') <= ept
    BY <1>0, <2>2
  <2>4. limitCopy' >= -1
    BY <1>0, <2>2, LimitBounded
  <2>5. ept' = ept /\ command' = command
    BY <2>1, OptionsKept
  <2> QED BY <1>0, <2>1, <2>3, <2>4, <2>5, AdminAssumption DEF PageInv
<1>6. CASE GetMessage
  <2>1. /\ UNCHANGED <<options, tbl, limitCopy>> /\ pc = "next" /\ pc' \in {"insert", "finish"}
        /\ page' = page \ {Lowest(page)} /\ page # {}
    BY <1>6 DEF GetMessage
  <2>2. Cardinality(page') = Cardinality(page) - 1
    BY <2>1, LowestInPage, IdentsCounted, FS_RemoveElement DEF AdminTypeOK
  <2>3. ept' = ept /\ command' = command
    BY <2>1, OptionsKept
  <2> QED BY <1>0, <2>1, <2>2, <2>3 DEF PageInv
<1>7. CASE Insert
  <2>1. CASE command # "move"
    <3>1. UNCHANGED <<options, tbl, limitCopy>>
      BY <1>7, <2>1 DEF Insert
    <3> QED BY <2>1, <3>1, OtherPage
  <2>2. CASE command = "move"
    <3>1. /\ tbl' \in {tbl, tbl \cup {current}} /\ UNCHANGED <<options, page, limitCopy>> /\ pc = "insert"
          /\ pc' \in {"finish", "count", "evict"}
          /\ pc' # "evict" => tbl' = tbl \/ ~TableFull(tbl')
      BY <1>7, <2>2 DEF Insert
    <3>2. Cardinality(tbl') \in Nat /\ Cardinality(tbl') <= Cardinality(tbl) + 1
      <4>1. tbl \cup {current} = tbl \/ Cardinality(tbl \cup {current}) = Cardinality(tbl) + 1
        BY IdentsCounted, FS_AddElement DEF AdminTypeOK
      <4> QED BY <1>0, <3>1, <4>1
    <3>3. ept' = ept /\ command' = command
      BY <3>1, OptionsKept
    <3>4. "delete" \notin Faulty => /\ Cardinality(tbl') <= TableSize
                                    /\ pc' # "evict" => Cardinality(tbl') < TableSize
      <4> SUFFICES ASSUME "delete" \notin Faulty
                   PROVE  /\ Cardinality(tbl') <= TableSize
                          /\ pc' # "evict" => Cardinality(tbl') < TableSize
        OBVIOUS
      <4>1. Cardinality(tbl) < TableSize /\ TableSize \in Nat
        BY <3>1, AdminAssumption DEF PageInv
      <4>2. pc' # "evict" => tbl' = tbl \/ ~(Cardinality(tbl') >= TableSize)
        BY <3>1 DEF TableFull
      <4> QED BY <1>0, <3>2, <4>1, <4>2
    <3> QED BY <1>0, <2>2, <3>1, <3>2, <3>3, <3>4 DEF PageInv
  <2> QED BY <2>1, <2>2
<1>8. CASE Evict
  <2> PICK r \in Affordable(DeleteMessages(dbs["src"], tbl, "delete")) :
        tbl' = IF r.ok THEN {} ELSE tbl
    BY <1>8 DEF Evict
  <2>1. UNCHANGED <<options, page, limitCopy>> /\ pc' \in {"count", "next"} /\ pc = "evict" /\ command = "move"
    BY <1>8, DatabasesTyped DEF Evict, AdminTypeOK, Steps, Ending
  <2>2. dbs["src"].tx = "none" /\ dbs["src"] \in Databases
    BY <2>1, DatabasesTyped DEF TxInv, Consistent, Target
  <2>3. r.ok \/ "delete" \in Faulty
    BY <2>2, AffordableReply, DeleteReply
  <2>4. ept' = ept /\ command' = command
    BY <2>1, OptionsKept
  <2> QED BY <1>0, <2>1, <2>3, <2>4, AdminAssumption DEF PageInv
<1> QED BY <1>1, <1>2, <1>3, <1>4, <1>5, <1>6, <1>7, <1>8 DEF Program

\* The size of delete_tbl is an invariant of every run.
LEMMA PageInvariant == Spec => []PageInv
<1>1. Init => PageInv
  <2> SUFFICES ASSUME Init PROVE PageInv
    OBVIOUS
  <2>1. limitCopy >= -1 /\ ept \in Nat /\ page = {} /\ tbl = {} /\ pc = "start" /\ Cardinality({}) = 0
    BY AdminAssumption, FS_EmptySet DEF Init
  <2> QED BY <2>1, AdminAssumption DEF PageInv
<1>2. AdminTypeOK /\ TxInv /\ PageInv /\ [Next]_vars => PageInv'
  <2> SUFFICES ASSUME AdminTypeOK, TxInv, PageInv, [Next]_vars PROVE PageInv'
    OBVIOUS
  <2>1. CASE Program
    BY <2>1, ProgramPage
  <2>2. CASE Interrupt \/ Finished \/ UNCHANGED vars
    BY <2>2 DEF Interrupt, Finished, vars, PageInv, options
  <2> QED BY <2>1, <2>2 DEF Next
<1> QED BY <1>1, <1>2, AdminTypeCorrect, TxInvariant, PTL DEF Spec

\* delete_tbl is not written past its end: when deletions may fail, as long as a page is
\* never larger than the table; when they do not, whatever --events-per-transaction is.
THEOREM TableCorrect ==
  ASSUME "delete" \in Faulty => \A e \in EptValues : e <= TableSize
  PROVE  Spec => []TableInBounds
<1>1. AdminTypeOK /\ PageInv => TableInBounds
  <2> SUFFICES ASSUME AdminTypeOK, PageInv PROVE TableInBounds
    OBVIOUS
  <2>1. ept \in Nat /\ Cardinality(page) \in Nat /\ Cardinality(tbl) \in Nat /\ Cardinality({}) = 0
    BY AdminAssumption, IdentsCounted, FS_EmptySet DEF AdminTypeOK
  <2>2. TableSize \in Nat
    BY AdminAssumption
  <2>3. CASE "delete" \in Faulty
    <3>1. ept <= TableSize
      BY <2>3 DEF AdminTypeOK
    <3>2. Cardinality(tbl) <= ept
      BY <2>1 DEF PageInv
    <3> QED BY <2>1, <2>2, <3>1, <3>2 DEF TableInBounds
  <2>4. CASE "delete" \notin Faulty
    BY <2>4 DEF PageInv, TableInBounds
  <2> QED BY <2>3, <2>4
<1> QED BY <1>1, AdminTypeCorrect, PageInvariant, PTL

-----------------------------------------------------------------------------
(***************************************************************************)
(* The transactions of copy and move                                       *)
(***************************************************************************)

\* A transaction is flushed with the page, and with events_per_transaction messages at the
\* latest; delete_tbl is full before its page ends only when it is no larger than a page.
PagesInv ==
  command \in {"copy", "move"} =>
    /\ pc \in {"start", "fetch", "leftover", "loop"} => eventNo = 0
    /\ pc \in {"next", "insert", "evict", "count"} => eventNo < ept
    /\ pc = "evict" => ept >= TableSize

\* Every step of the program keeps to those transactions.
LEMMA ProgramPages ==
  ASSUME AdminTypeOK, TxInv, PageInv, PageInv', PagesInv, Program
  PROVE  PagesInv'
<1> SUFFICES ASSUME command' \in {"copy", "move"} PROVE PagesInv'
  BY DEF PagesInv
<1>0. /\ UNCHANGED options /\ ept' = ept /\ command' = command /\ ept \in Nat /\ eventNo \in Nat
      /\ TableSize \in Nat /\ command \in {"copy", "move"}
  <2>1. UNCHANGED options
    BY DEF Program, Start, Fetch, GetMessage, EndPage, Insert, Evict, Leftover, Count, FlushEnd, FlushStart,
           Purge, SaveMessage, SaveDone, OpenFile, NoFileLeft, LoadDone, ReadMessage, Loop, Finish,
           DestroyDatabases
  <2> QED BY <2>1, OptionsKept, AdminAssumption DEF AdminTypeOK
<1>1. CASE Start \/ GetMessage \/ Evict \/ Leftover \/ FlushEnd \/ Loop \/ Finish \/ DestroyDatabases
  BY <1>0, <1>1 DEF PagesInv, Start, GetMessage, Evict, Leftover, FlushEnd, Loop, Finish, DestroyDatabases
<1>2. CASE Fetch
  <2> DEFINE idents == Slice(dbs["src"], PageOffset, LocalLimit)
  <2> PICK r \in Affordable(ReadOnly(dbs["src"], "fetch")) : pc' = AfterFetch(r.ok, idents)
    BY <1>2 DEF Fetch
  <2>1. pc' = "finish" \/ (pc' = "next" /\ idents # {})
    BY <1>0 DEF AfterFetch, PageStart
  <2>2. idents # {} => ept > 0
    <3>1. Cardinality(idents) \in Nat /\ Cardinality(idents) <= LocalLimit /\ LocalLimit \in Nat /\ LocalLimit <= ept
      BY LimitBounded, SliceBounded DEF PageInv
    <3>2. Cardinality(idents) = 0 => idents = {}
      BY SliceTyped, IdentsCounted, FS_EmptySet
    <3> HIDE DEF idents
    <3> QED BY <1>0, <3>1, <3>2
  <2>3. eventNo = 0 /\ eventNo' = eventNo
    BY <1>0, <1>2 DEF Fetch, PagesInv
  <2> HIDE DEF idents
  <2> QED BY <1>0, <2>1, <2>2, <2>3 DEF PagesInv
<1>3. CASE EndPage
  <2>1. eventNo' = eventNo /\ eventNo < ept /\ pc' = IF ept # 0 /\ eventNo > 0 THEN "flush_end" ELSE "leftover"
    BY <1>0, <1>3 DEF EndPage, PagesInv
  <2> QED BY <1>0, <2>1 DEF PagesInv
<1>4. CASE Insert
  <2>1. /\ eventNo' = eventNo /\ eventNo < ept /\ pc' \in {"finish", "evict", "count"}
        /\ pc' = "evict" => command = "move" /\ TableFull(tbl')
    BY <1>0, <1>4 DEF Insert, PagesInv
  <2>2. pc' = "evict" => ept >= TableSize
    <3> SUFFICES ASSUME pc' = "evict" PROVE ept >= TableSize
      OBVIOUS
    <3>1. Cardinality(tbl') >= TableSize /\ command = "move"
      BY <1>0, <2>1 DEF TableFull
    <3>2. Cardinality(page') \in Nat /\ Cardinality(tbl') \in Nat
      BY <1>4, NextAdminType, IdentsCounted DEF AdminTypeOK, Next, Program
    <3>3. Cardinality(tbl') <= ept
      BY <1>0, <3>1, <3>2 DEF PageInv
    <3> QED BY <1>0, <3>1, <3>2, <3>3
  <2> QED BY <1>0, <2>1, <2>2 DEF PagesInv
<1>5. CASE Count
  <2>1. after = "next" /\ eventNo < ept
    BY <1>0, <1>5 DEF Count, AdminTypeOK, Returns, PagesInv
  <2>2. ept # 0
    BY <1>0, <2>1
  <2>3. eventNo' = eventNo + 1 /\ (pc' = "flush_end" \/ (pc' = "next" /\ ~(eventNo + 1 >= ept)))
    BY <1>5, <2>1, <2>2 DEF Count, Counted
  <2> QED BY <1>0, <2>3 DEF PagesInv
<1>6. CASE FlushStart
  BY <1>0, <1>6 DEF FlushStart, TxInv, PagesInv, AdminTypeOK, Returns
<1>7. CASE Purge \/ SaveMessage \/ SaveDone \/ OpenFile \/ NoFileLeft \/ LoadDone \/ ReadMessage
  BY <1>0, <1>7 DEF Purge, SaveMessage, SaveDone, OpenFile, NoFileLeft, LoadDone, ReadMessage,
                    AdminTypeOK, Steps, Ending
<1> QED BY <1>1, <1>2, <1>3, <1>4, <1>5, <1>6, <1>7 DEF Program

\* ... in every run.
LEMMA PagesInvariant == Spec => []PagesInv
<1>1. Init => PagesInv
  BY DEF Init, PagesInv
<1>2. AdminTypeOK /\ TxInv /\ PageInv /\ PageInv' /\ PagesInv /\ [Next]_vars => PagesInv'
  <2> SUFFICES ASSUME AdminTypeOK, TxInv, PageInv, PageInv', PagesInv, [Next]_vars PROVE PagesInv'
    OBVIOUS
  <2>1. CASE Program
    BY <2>1, ProgramPages
  <2>2. CASE Interrupt \/ Finished \/ UNCHANGED vars
    BY <2>2 DEF Interrupt, Finished, vars, PagesInv, options
  <2> QED BY <2>1, <2>2 DEF Next
<1> QED BY <1>1, <1>2, AdminTypeCorrect, TxInvariant, PageInvariant, PTL DEF Spec

-----------------------------------------------------------------------------
(***************************************************************************)
(* move                                                                    *)
(***************************************************************************)

Kept == {"whole", "twice"}

Moving == command = "move" /\ ept < TableSize

\* What leaves the source is stored in the destination,
MovedStored ==
  \A i \in Idents : /\ dbs["src"].stored[i] \in {"whole", "absent"}
                    /\ dbs["src"].stored[i] = "absent" => dbs["dst"].stored[i] \in Kept

\* ... what is in delete_tbl is in the work of the transaction, which loses nothing that
\* was stored,
TableCopied ==
  /\ \A i \in Idents : dbs["dst"].stored[i] \in Kept => dbs["dst"].work[i] \in Kept
  /\ \A i \in tbl : dbs["dst"].work[i] \in Kept

\* ... and all of it is stored between transactions.
Flushed ==
  pc = "flush_start" \/ (pc \in {"start", "fetch", "next", "insert", "leftover", "loop"} /\ eventNo = 0)
    => dbs["dst"].work = dbs["dst"].stored

MoveInv ==
  Moving =>
    /\ MovedStored
    /\ dbs["dst"].tx = "failed" => failed /\ pc \in Ending
    /\ ~failed \/ pc \notin Ending => TableCopied
    /\ Flushed

\* A step that leaves the databases alone and takes nothing into delete_tbl.
LEMMA QuietMove ==
  ASSUME MoveInv, UNCHANGED options, dbs' = dbs, tbl' \subseteq tbl, pc \notin Ending, Flushed'
  PROVE  MoveInv'
<1> SUFFICES ASSUME Moving' PROVE MoveInv'
  BY DEF MoveInv
<1>1. Moving
  BY OptionsKept DEF Moving
<1> QED BY <1>1 DEF MoveInv, MovedStored, TableCopied

\* Every step of the program keeps a copy of every message.
LEMMA ProgramMove ==
  ASSUME "commit" \notin Faulty, AdminTypeOK, TxInv, PagesInv, MoveInv, Program
  PROVE  MoveInv'
<1> SUFFICES ASSUME Moving' PROVE MoveInv'
  BY DEF MoveInv
<1> DEFINE src == dbs["src"]
           dst == dbs["dst"]
<1>0. UNCHANGED options /\ Moving /\ command = "move" /\ Target = "dst"
  <2>1. UNCHANGED options
    BY DEF Program, Start, Fetch, GetMessage, EndPage, Insert, Evict, Leftover, Count, FlushEnd, FlushStart,
           Purge, SaveMessage, SaveDone, OpenFile, NoFileLeft, LoadDone, ReadMessage, Loop, Finish,
           DestroyDatabases
  <2> QED BY <2>1, OptionsKept DEF Moving, Target
<1>a. /\ MovedStored /\ Flushed
      /\ dst.tx = "failed" => failed /\ pc \in Ending
      /\ ~failed \/ pc \notin Ending => TableCopied
  BY <1>0 DEF MoveInv
<1>b. /\ src \in Databases /\ dst \in Databases /\ dst.tx \in {"none", "open", "failed"}
      /\ src.work \in Contents /\ src.stored \in Contents /\ dst.work \in Contents /\ dst.stored \in Contents
      /\ src.tx = "none" /\ src.work = src.stored
      /\ dst.tx = "none" => dst.work = dst.stored
  <2>1. src \in Databases /\ dst \in Databases
    BY DatabasesTyped
  <2>2. src.tx = "none" /\ src.work = src.stored /\ (dst.tx = "none" => dst.work = dst.stored)
    BY <1>0 DEF TxInv, Consistent
  <2> QED BY <2>1, <2>2 DEF Databases
<1>1. CASE Fetch \/ GetMessage \/ EndPage
  <2>1. dbs' = dbs /\ eventNo' = eventNo /\ tbl' \subseteq tbl /\ pc \notin Ending
    BY <1>1, ReadsLeave DEF Fetch, GetMessage, EndPage, Ending
  <2>2. Flushed'
    <3>1. CASE Fetch
      BY <1>0, <1>a, <2>1, <3>1 DEF Fetch, AfterFetch, PageStart, Flushed, PagesInv
    <3>2. CASE GetMessage
      BY <1>0, <1>a, <2>1, <3>2 DEF GetMessage, Flushed
    <3>3. CASE EndPage
      BY <1>0, <1>a, <2>1, <3>3 DEF EndPage, Flushed
    <3> QED BY <1>1, <3>1, <3>2, <3>3
  <2> QED BY <1>0, <2>1, <2>2, QuietMove
<1>2. CASE Count \/ Loop
  <2>1. dbs' = dbs /\ tbl' \subseteq tbl /\ pc \notin Ending
    BY <1>2 DEF Count, Loop, Ending
  <2>2. Flushed'
    <3>1. CASE Count
      <4>1. after = "next" /\ eventNo \in Nat /\ ept \in Nat /\ eventNo < ept
        BY <1>0, <3>1, AdminAssumption DEF Count, AdminTypeOK, Returns, PagesInv
      <4>2. eventNo' = eventNo + 1 /\ pc' \in {"flush_end", "next"}
        BY <3>1, <4>1 DEF Count, Counted
      <4> QED BY <4>1, <4>2 DEF Flushed
    <3>2. CASE Loop
      BY <1>0, <1>a, <2>1, <3>2 DEF Loop, Flushed, PagesInv
    <3> QED BY <1>2, <3>1, <3>2
  <2> QED BY <1>0, <2>1, <2>2, QuietMove
<1>3. CASE Start
  <2> PICK r \in IF HasTransaction THEN Affordable(TransactionStart(dst)) ELSE {Reply(dst, TRUE, 0)} :
        Answered("dst", r)
    BY <1>0, <1>3 DEF Start
  <2>1. IsReply(r) /\ (r.db = dst \/ r.db = Database("open", dst.stored, dst.stored))
    <3>1. CASE HasTransaction
      <4>1. r \in TransactionStart(dst)
        BY <3>1, AffordableReply
      <4> QED BY <1>b, <4>1, StartReply
    <3>2. CASE ~HasTransaction
      <4>1. r = Reply(dst, TRUE, 0)
        BY <3>2
      <4>2. r.db = dst /\ r.ok \in BOOLEAN /\ r.cost = 0
        BY <4>1 DEF Reply
      <4> QED BY <1>b, <4>2 DEF IsReply
    <3> QED BY <3>1, <3>2
  <2>2. dbs'["dst"] = r.db /\ dbs'["src"] = src
    BY <2>1, AnsweredTyped
  <2>3. pc = "start" /\ pc' = "fetch" /\ tbl' = tbl /\ eventNo' = eventNo /\ eventNo = 0
    BY <1>0, <1>3 DEF Start, PagesInv
  <2>4. /\ dst.work = dst.stored /\ dst.tx # "failed"
    BY <1>a, <2>3 DEF Flushed, Ending
  <2>5. dbs'["dst"].stored = dst.stored /\ dbs'["dst"].work = dst.stored /\ dbs'["dst"].tx # "failed"
    BY <1>b, <2>1, <2>2, <2>4, DatabaseFields
  <2> QED BY <1>a, <2>2, <2>3, <2>4, <2>5 DEF MoveInv, MovedStored, TableCopied, Flushed, Ending
<1>4. CASE Insert
  <2> PICK r \in Affordable(InsertMessage(dst, current)) :
        /\ Answered("dst", r)
        /\ failed' = ~r.ok
        /\ tbl' = IF r.ok /\ command = "move" THEN tbl \cup {current} ELSE tbl
        /\ pc' = IF ~r.ok THEN "finish"
                 ELSE IF command = "move" /\ TableFull(tbl') THEN "evict" ELSE "count"
    BY <1>4 DEF Insert
  <2>1. current \in Idents /\ pc = "insert" /\ pc \notin Ending
    BY <1>4 DEF Insert, AdminTypeOK, Ending
  <2>2. /\ IsReply(r)
        /\ r.ok => r.db = Changed(dst, Inserted(dst.work, current))
        /\ ~r.ok => r.db \in Broken(dst, {current})
    <3>1. r \in InsertMessage(dst, current)
      BY AffordableReply
    <3>2. dst.tx # "failed"
      BY <1>a, <2>1
    <3> QED BY <1>b, <2>1, <3>1, <3>2, InsertReply
  <2>3. dbs'["dst"] = r.db /\ dbs'["src"] = src
    BY <2>2, AnsweredTyped
  <2>4. TableCopied /\ dst.tx # "failed"
    BY <1>a, <2>1
  <2>5. CASE r.ok
    <3> DEFINE new == Inserted(dst.work, current)
    <3>1. new \in Contents /\ \A i \in Idents : new[i] \in Kept <=> (i = current \/ dst.work[i] \in Kept)
      <4>1. new \in Contents
        BY <1>b, <2>1, ContentsChange
      <4> QED BY <1>b, <2>1, <4>1 DEF Inserted, Contents, Kept
    <3> HIDE DEF new
    <3>2. r.db.work = new /\ r.db.tx = dst.tx /\ r.db.stored = IF dst.tx = "none" THEN new ELSE dst.stored
      BY <1>b, <2>2, <2>4, <2>5, <3>1, ChangedFields DEF new
    <3>3. MovedStored'
      BY <1>a, <2>3, <2>4, <3>1, <3>2 DEF MovedStored, TableCopied
    <3>4. TableCopied'
      <4>1. tbl' = tbl \cup {current} /\ tbl \subseteq Idents
        BY <1>0, <2>5 DEF AdminTypeOK
      <4> QED BY <2>1, <2>3, <2>4, <3>1, <3>2, <4>1 DEF TableCopied
    <3>5. pc' \in {"evict", "count"}
      BY <2>5
    <3> QED BY <2>3, <2>4, <3>2, <3>3, <3>4, <3>5 DEF MoveInv, Flushed
  <2>6. CASE ~r.ok
    <3>1. r.db.stored = dst.stored
      BY <1>b, <2>2, <2>4, <2>6, BrokenFields
    <3>2. MovedStored'
      BY <1>a, <2>3, <3>1 DEF MovedStored
    <3>3. pc' = "finish" /\ failed' /\ pc' \in Ending
      BY <2>6 DEF Ending
    <3> QED BY <3>2, <3>3 DEF MoveInv, Flushed
  <2> QED BY <2>5, <2>6
<1>5. CASE Evict
  BY <1>0, <1>5, AdminAssumption DEF Evict, PagesInv, Moving, AdminTypeOK
<1>6. CASE Leftover
  <2>1. pc = "leftover" /\ pc' = "loop" /\ tbl' = tbl /\ eventNo' = eventNo /\ eventNo = 0
    BY <1>0, <1>6 DEF Leftover, PagesInv
  <2>2. CASE dbs' = dbs
    <3>1. Flushed'
      BY <1>a, <2>1, <2>2 DEF Flushed
    <3> QED BY <1>0, <2>1, <2>2, <3>1, QuietMove DEF Ending
  <2>3. CASE tbl # {}
    <3> PICK r \in Affordable(DeleteMessages(src, tbl, "delete")) : Answered("src", r)
      BY <1>6, <2>3 DEF Leftover
    <3>1. /\ IsReply(r)
          /\ r.ok => r.db = Changed(src, Removed(src.work, tbl))
          /\ ~r.ok => r.db \in Broken(src, tbl)
      BY <1>b, AffordableReply, DeleteReply
    <3>2. dbs'["src"] = r.db /\ dbs'["dst"] = dst
      BY <3>1, AnsweredTyped
    <3>3. dst.work = dst.stored /\ TableCopied
      BY <1>a, <2>1 DEF Flushed, Ending
    <3>4. CASE r.ok
      <4>1. Removed(src.work, tbl) \in Contents
        BY <1>b DEF Removed, Contents, States
      <4>2. dbs'["src"].stored = Removed(src.work, tbl)
        BY <1>b, <3>1, <3>2, <3>4, <4>1, ChangedFields
      <4>3. MovedStored'
        BY <1>a, <1>b, <3>2, <3>3, <4>2 DEF MovedStored, TableCopied, Removed
      <4> QED BY <1>a, <2>1, <3>2, <3>3, <4>3 DEF MoveInv, TableCopied, Flushed, Ending
    <3>5. CASE ~r.ok
      <4>1. dbs'["src"] = src
        BY <1>b, <3>1, <3>2, <3>5, BrokenFields
      <4> QED BY <1>a, <2>1, <3>2, <3>3, <4>1 DEF MoveInv, MovedStored, TableCopied, Flushed, Ending
    <3> QED BY <3>4, <3>5
  <2>4. CASE tbl = {}
    <3>1. Answered("src", Reply(dbs["src"], TRUE, 0))
      BY <1>6, <2>4 DEF Leftover
    <3>2. dbs' = dbs
      BY <3>1 DEF Answered, Reply, AdminTypeOK
    <3> QED BY <2>2, <3>2
  <2> QED BY <2>3, <2>4
<1>7. CASE FlushEnd
  <2> PICK r \in Affordable(TransactionEnd(dst)) : Answered("dst", r)
    BY <1>0, <1>7 DEF FlushEnd
  <2>1. pc = "flush_end" /\ pc' = "flush_start" /\ tbl' = tbl /\ TableCopied /\ dst.tx # "failed"
    BY <1>a, <1>7 DEF FlushEnd, Ending
  <2>2. IsReply(r) /\ r.db.stored = dst.work /\ r.db.work = dst.work /\ r.db.tx = "none"
    <3>1. r \in TransactionEnd(dst)
      BY AffordableReply
    <3>2. r = IF dst.tx = "none" THEN Reply(dst, FALSE, 0) ELSE Reply(Settled(dst.work), TRUE, 0)
      BY <1>b, <2>1, <3>1 DEF TransactionEnd, Fault
    <3>3. IsReply(r)
      BY <1>b, <3>1, EndReply
    <3>4. r.db = IF dst.tx = "none" THEN dst ELSE Settled(dst.work)
      BY <3>2 DEF Reply
    <3> QED BY <1>b, <3>3, <3>4, SettledFields
  <2>3. dbs'["dst"] = r.db /\ dbs'["src"] = src
    BY <2>2, AnsweredTyped
  <2> QED BY <1>a, <2>1, <2>2, <2>3 DEF MoveInv, MovedStored, TableCopied, Flushed
<1>8. CASE FlushStart
  <2> PICK r \in Affordable(TransactionStart(dst)) : Answered("dst", r)
    BY <1>0, <1>8 DEF FlushStart
  <2>1. /\ pc = "flush_start" /\ pc \notin Ending /\ tbl' = tbl /\ TableCopied
        /\ dst.work = dst.stored /\ dst.tx # "failed"
    BY <1>a, <1>8 DEF FlushStart, Flushed, Ending
  <2>2. IsReply(r) /\ (r.db = dst \/ r.db = Database("open", dst.stored, dst.stored))
    BY <1>b, AffordableReply, StartReply
  <2>3. dbs'["dst"] = r.db /\ dbs'["src"] = src
    BY <2>2, AnsweredTyped
  <2>4. r.db.stored = dst.stored /\ r.db.work = dst.stored /\ r.db.tx # "failed"
    BY <1>b, <2>1, <2>2, DatabaseFields
  <2> QED BY <1>a, <2>1, <2>3, <2>4 DEF MoveInv, MovedStored, TableCopied, Flushed
<1>9. CASE Finish
  <2> PICK r \in IF HasTransaction THEN Affordable(FinishAnswers(dst)) ELSE {Reply(dst, TRUE, 0)} :
        Answered("dst", r)
    BY <1>0, <1>9 DEF Finish
  <2>1. pc = "finish" /\ pc' = "destroy" /\ pc' \in Ending /\ pc \in Ending /\ tbl' = tbl /\ failed' = failed
    BY <1>9 DEF Finish, Ending
  <2>2. IsReply(r) /\ (~HasTransaction => r.db = dst)
        /\ (HasTransaction /\ failed => r.db = Settled(dst.stored))
    BY <1>0, FinishReply
  <2>3. dbs'["dst"] = r.db /\ dbs'["src"] = src
    BY <2>2, AnsweredTyped
  <2>4. CASE r.db = dst
    BY <1>a, <2>1, <2>3, <2>4 DEF MoveInv, MovedStored, TableCopied, Flushed
  <2>5. CASE HasTransaction /\ failed
    BY <1>a, <1>b, <2>1, <2>2, <2>3, <2>5, SettledFields DEF MoveInv, MovedStored, TableCopied, Flushed
  <2>6. CASE HasTransaction /\ ~failed
    <3>1. TableCopied /\ dst.tx # "failed"
      BY <1>a, <2>6
    <3>2. r \in TransactionEnd(dst)
      BY <2>6, AffordableReply DEF FinishAnswers
    <3>3. r = IF dst.tx = "none" THEN Reply(dst, FALSE, 0) ELSE Reply(Settled(dst.work), TRUE, 0)
      BY <1>b, <3>1, <3>2 DEF TransactionEnd, Fault
    <3>4. r.db = dst \/ r.db = Settled(dst.work)
      BY <3>3 DEF Reply
    <3>5. CASE r.db = Settled(dst.work)
      BY <1>a, <1>b, <2>1, <2>3, <3>1, <3>5, SettledFields DEF MoveInv, MovedStored, TableCopied, Flushed
    <3> QED BY <2>4, <3>4, <3>5
  <2> QED BY <2>2, <2>4, <2>5, <2>6
<1>10. CASE DestroyDatabases
  <2>1. pc = "destroy" /\ pc' \in {"done", "aborted"} /\ dbs' = dbs /\ tbl' = tbl /\ failed' = failed
    BY <1>10 DEF DestroyDatabases
  <2> QED BY <1>a, <2>1 DEF MoveInv, MovedStored, TableCopied, Flushed, Ending
<1>11. CASE Purge \/ SaveMessage \/ SaveDone \/ OpenFile \/ NoFileLeft \/ LoadDone \/ ReadMessage
  BY <1>0, <1>11 DEF Purge, SaveMessage, SaveDone, OpenFile, NoFileLeft, LoadDone, ReadMessage,
                    AdminTypeOK, Steps, Ending
<1> QED BY <1>1, <1>2, <1>3, <1>4, <1>5, <1>6, <1>7, <1>8, <1>9, <1>10, <1>11 DEF Program

\* move: at every instant each message is stored whole in the source or in the destination,
\* whatever fails but COMMIT, whose answer flush_transaction_if_needed does not look at.
THEOREM MoveCorrect == ASSUME "commit" \notin Faulty PROVE Spec => []NoMessageLost
<1>1. Init => MoveInv
  <2> SUFFICES ASSUME Init PROVE MoveInv
    OBVIOUS
  <2>1. Everything \in Contents /\ Nothing \in Contents
    BY DEF Everything, Nothing, Contents, States
  <2>2. dbs["src"] = Settled(Everything) /\ dbs["dst"] = Settled(Nothing)
    BY DEF Init
  <2>3. /\ dbs["src"].stored = Everything /\ dbs["dst"].tx = "none"
        /\ dbs["dst"].stored = Nothing /\ dbs["dst"].work = Nothing
    BY <2>1, <2>2, SettledFields
  <2>4. tbl = {} /\ pc = "start"
    BY DEF Init
  <2> QED BY <2>3, <2>4 DEF MoveInv, MovedStored, TableCopied, Flushed, Everything, Nothing, Kept
<1>2. AdminTypeOK /\ TxInv /\ PagesInv /\ MoveInv /\ [Next]_vars => MoveInv'
  <2> SUFFICES ASSUME AdminTypeOK, TxInv, PagesInv, MoveInv, [Next]_vars PROVE MoveInv'
    OBVIOUS
  <2>1. CASE Program
    BY <2>1, ProgramMove
  <2>2. CASE Interrupt \/ Finished \/ UNCHANGED vars
    BY <2>2 DEF Interrupt, Finished, vars, MoveInv, Moving, MovedStored, TableCopied, Flushed, options
  <2> QED BY <2>1, <2>2 DEF Next
<1>3. MoveInv => NoMessageLost
  BY DEF MoveInv, Moving, MovedStored, NoMessageLost, Kept
<1> QED BY <1>1, <1>2, <1>3, AdminTypeCorrect, TxInvariant, PagesInvariant, PTL DEF Spec
=============================================================================
