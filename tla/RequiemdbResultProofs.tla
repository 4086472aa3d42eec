------------------------- MODULE RequiemdbResultProofs -------------------------
(***************************************************************************)
(* Proofs about the database object and its results (RequiemdbResult), for *)
(* any number of threads, messages, errors and calls, and any of the three *)
(* SQL plugins: sessions, the reference count of the library, and what is  *)
(* taken from a result.                                                    *)
(***************************************************************************)
EXTENDS RequiemdbResult, FiniteSetTheorems, SequenceTheorems, TLAPS

-----------------------------------------------------------------------------
(***************************************************************************)
(* Types                                                                   *)
(***************************************************************************)

Labels == {"out", "idle", "iterate", "collect", "ended", "delete"}

\* Every variable a proof is about keeps its type, and what is iterated over is a result.
ResultTypeOK ==
  /\ backend \in Backends
  /\ format \in FormatRows
  /\ stored \subseteq Idents
  /\ refcount \in Int
  /\ loaded \subseteq Plugins
  /\ maker \in Threads \cup {NoThread}
  /\ connected \in BOOLEAN /\ errno \in BOOLEAN
  /\ pc \in [Threads -> Labels]
  /\ owed \in [Threads -> Nat]
  /\ result \in [Threads -> [rows : Seq(Idents), cursor : Int]]
  /\ got \in [Threads -> Seq(Idents)]
  /\ batch \in [Threads -> SUBSET Idents]
  /\ \A t \in Threads : pc[t] \in {"iterate", "collect"} => result[t].cursor >= 0

\* The rows a query finds are a sequence of idents, whatever their order.
LEMMA RowsAreIdents ==
  ASSUME NEW S \in SUBSET Idents, NEW rows \in SetToSeqs(S)
  PROVE  rows \in Seq(Idents)
<1>0. IsFiniteSet(Idents)
  BY FS_Interval, ResultAssumption DEF Idents
<1>1. IsFiniteSet(S)
  BY <1>0, FS_Subset
<1>2. Cardinality(S) \in Nat
  BY <1>1, FS_CardinalityType
<1>3. rows \in [1..Cardinality(S) -> Idents]
  BY DEF SetToSeqs
<1> QED BY <1>2, <1>3, SeqDef

\* What the fetch functions of the three plugins have in common: a row is taken when
\* there is one, the next one, and an error does not move the cursor.
LEMMA FetchAnswers ==
  ASSUME ResultTypeOK, NEW res \in [rows : Seq(Idents), cursor : Int], NEW f \in FetchRow(res)
  PROVE  /\ f.ret \in {1, 0, -1} /\ f.cursor \in Int
         /\ f.ret = 1 <=> res.cursor < Len(res.rows)
         /\ f.ret = 1 => f.cursor = res.cursor + 1
         /\ f.ret = -1 => f.cursor = res.cursor
         /\ f.ret # 1 => f.cursor \in {0, res.cursor}
<1>1. Len(res.rows) \in Nat
  BY LenProperties
<1>2. CASE backend = "pgsql"
  BY <1>1, <1>2 DEF FetchRow, FetchPgsql, AtEnd, RowCount
<1>3. CASE backend = "sqlite3"
  BY <1>1, <1>3 DEF FetchRow, FetchSqlite, AtEnd, RowCount
<1>4. CASE backend = "mysql"
  BY <1>1, <1>4 DEF FetchRow, FetchMysql, AtEnd, RowCount
<1> QED BY <1>2, <1>3, <1>4, ResultAssumption DEF ResultTypeOK

\* The ident that classic_get_next_message_ident hands out is the one of the row just
\* fetched, although the plugins find it in different ways.
LEMMA FieldOfRow ==
  ASSUME ResultTypeOK, NEW t \in Threads, NEW f \in FetchRow(result[t]), GetNext(t, f),
         f.ret = 1
  PROVE  NewIdent(t, f) = result[t].rows[result[t].cursor + 1]
<1>1. result[t] \in [rows : Seq(Idents), cursor : Int]
  BY DEF ResultTypeOK
<1>2. f.cursor = result[t].cursor + 1
  BY <1>1, FetchAnswers
<1>3. result'[t] = [rows |-> result[t].rows, cursor |-> f.cursor]
  BY <1>1 DEF GetNext, ResultTypeOK
<1>4. result'[t].rows = result[t].rows /\ result'[t].cursor = f.cursor
  BY <1>3
<1>5. backend \in {"mysql", "pgsql", "sqlite3"}
  BY ResultAssumption DEF ResultTypeOK
<1> QED BY <1>2, <1>4, <1>5 DEF NewIdent, FetchField, FieldPgsql, FieldMysql, FieldSqlite

\* ... and an ident of the database.
LEMMA FieldIsIdent ==
  ASSUME ResultTypeOK, NEW t \in Threads, NEW f \in FetchRow(result[t]), GetNext(t, f),
         f.ret = 1, pc[t] \in {"iterate", "collect"}
  PROVE  NewIdent(t, f) \in Idents
<1>1. result[t] \in [rows : Seq(Idents), cursor : Int] /\ result[t].cursor >= 0
  BY DEF ResultTypeOK
<1>2. result[t].cursor + 1 \in 1..Len(result[t].rows)
  BY <1>1, FetchAnswers, LenProperties
<1>3. result[t].rows[result[t].cursor + 1] \in Idents
  BY <1>1, <1>2, ElementOfSeq
<1> QED BY <1>3, FieldOfRow

-----------------------------------------------------------------------------
\* The initial state is well typed.
LEMMA InitResultType == Init => ResultTypeOK
<1> SUFFICES ASSUME Init PROVE ResultTypeOK
  OBVIOUS
<1>1. <<>> \in Seq(Idents) /\ NoResult \in [rows : Seq(Idents), cursor : Int]
  BY EmptySeq DEF NoResult
<1>2. result \in [Threads -> [rows : Seq(Idents), cursor : Int]] /\ got \in [Threads -> Seq(Idents)]
  BY <1>1 DEF Init
<1>3. pc \in [Threads -> Labels] /\ \A t \in Threads : pc[t] \notin {"iterate", "collect"}
  BY DEF Init, Labels
<1>4. owed \in [Threads -> Nat] /\ batch \in [Threads -> SUBSET Idents]
  BY DEF Init
<1>5. connected \in BOOLEAN /\ errno \in BOOLEAN
  BY DEF Init
<1>6. stored \subseteq Idents /\ refcount \in Int /\ loaded \subseteq Plugins
  BY DEF Init
<1>7. backend \in Backends /\ format \in FormatRows /\ maker \in Threads \cup {NoThread}
  BY DEF Init
<1> QED BY <1>2, <1>3, <1>4, <1>5, <1>6, <1>7 DEF ResultTypeOK

\* Every step keeps the types.
LEMMA NextResultType == ResultTypeOK /\ [Next]_vars => ResultTypeOK'
<1> SUFFICES ASSUME ResultTypeOK, [Next]_vars PROVE ResultTypeOK'
  OBVIOUS
<1>1. CASE UNCHANGED vars
  BY <1>1 DEF vars, ResultTypeOK
<1>2. CASE Next
  <2> PICK t \in Threads : Continue(t) \/ Invoke(t)
    BY <1>2 DEF Next
  <2>0. /\ t \notin {NoThread}
        /\ result[t] \in [rows : Seq(Idents), cursor : Int]
        /\ got[t] \in Seq(Idents)
    BY ResultAssumption DEF ResultTypeOK
  <2>1. CASE CollectIdent(t)
    <3> PICK f \in FetchRow(result[t]) :
          /\ GetNext(t, f)
          /\ batch' = IF f.ret = 1 THEN [batch EXCEPT ![t] = @ \cup {NewIdent(t, f)}] ELSE batch
          /\ Goto(t, IF f.ret # 0 THEN "collect" ELSE IF batch[t] = {} THEN "ended" ELSE "delete")
      BY <2>1 DEF CollectIdent
    <3>1. f.cursor \in Int /\ (f.ret # 0 => f.cursor >= 0)
      BY <2>0, <2>1, FetchAnswers DEF ResultTypeOK, CollectIdent
    <3>2. f.ret = 1 => NewIdent(t, f) \in Idents
      BY <2>1, FieldIsIdent DEF CollectIdent
    <3>3. batch' \in [Threads -> SUBSET Idents]
      BY <3>2 DEF ResultTypeOK
    <3>4. result' \in [Threads -> [rows : Seq(Idents), cursor : Int]]
      BY <3>1 DEF GetNext, ResultTypeOK
    <3>5. pc' \in [Threads -> Labels] /\ connected' = connected
      BY DEF Goto, GetNext, UpdateFromFetch, ResultTypeOK, Labels
    <3>6. \A u \in Threads : pc'[u] \in {"iterate", "collect"} => result'[u].cursor >= 0
      BY <3>1 DEF Goto, GetNext, ResultTypeOK
    <3> QED BY <2>1, <3>3, <3>4, <3>5, <3>6 DEF CollectIdent, dbVars, libVars, ResultTypeOK
  <2>2. ASSUME NEW answer \in Answers, DeleteCollected(t, answer)
        PROVE  ResultTypeOK'
    BY <2>2 DEF DeleteCollected, Query, Goto, dbVars, libVars, ResultTypeOK, Labels
  <2>3. CASE InitLibrary(t)
    <3>1. loaded' \subseteq Plugins
      BY <2>3 DEF InitLibrary, LoadPlugins, Plugins, ResultTypeOK
    <3>2. /\ pc' \in [Threads -> Labels]
          /\ \A u \in Threads : pc'[u] \in {"iterate", "collect"} => pc[u] = pc'[u]
      BY <2>3 DEF InitLibrary, Goto, ResultTypeOK, Labels
    <3>3. refcount' \in Int /\ owed' \in [Threads -> Nat]
      BY <2>3 DEF InitLibrary, ResultTypeOK
    <3>4. UNCHANGED <<backend, format, stored, maker, connected, errno, result, got, batch>>
      BY <2>3 DEF InitLibrary, dbVars
    <3> QED BY <3>1, <3>2, <3>3, <3>4 DEF ResultTypeOK
  <2>4. CASE DeinitLibrary(t)
    BY <2>4 DEF DeinitLibrary, Goto, dbVars, serverVars, ResultTypeOK, Labels
  <2>5. CASE DestroyDatabase(t)
    BY <2>5 DEF DestroyDatabase, libVars, threadVars, ResultTypeOK
  <2>6. ASSUME NEW answer \in Answers, NewDatabase(t, answer)
        PROVE  ResultTypeOK'
    <3>1. maker' \in Threads \cup {NoThread} /\ connected' \in BOOLEAN
      BY <2>6 DEF NewDatabase, Opened, Closed, Left, OpenSession, OpenMysql, OpenPgsql, OpenSqlite, FormatAccepted,
                  check_schema_version
    <3> QED BY <2>6, <3>1 DEF NewDatabase, libVars, ResultTypeOK
  <2>7. ASSUME NEW answer \in Answers, GetIdents(t, answer)
        PROVE  ResultTypeOK'
    <3> PICK rows \in SetToSeqs(stored) :
          IF answer = "ok" /\ HasResult(rows)
          THEN result' = [result EXCEPT ![t] = Result(rows)] /\ Goto(t, "iterate")
          ELSE UNCHANGED <<result, pc>>
      BY <2>7 DEF GetIdents
    <3>1. rows \in Seq(Idents)
      BY RowsAreIdents DEF ResultTypeOK
    <3> DEFINE res == Result(rows)
    <3>a. res \in [rows : Seq(Idents), cursor : Int] /\ res.cursor >= 0
      BY <3>1 DEF Result
    <3> HIDE DEF res
    <3>2. /\ result' \in [Threads -> [rows : Seq(Idents), cursor : Int]]
          /\ pc' \in [Threads -> Labels]
          /\ \A u \in Threads : pc'[u] \in {"iterate", "collect"} => result'[u].cursor >= 0
      <4>1. CASE result' = [result EXCEPT ![t] = res] /\ Goto(t, "iterate")
        BY <3>a, <4>1 DEF Goto, ResultTypeOK, Labels
      <4>2. CASE UNCHANGED <<result, pc>>
        BY <4>2 DEF ResultTypeOK
      <4> QED BY <4>1, <4>2 DEF res
    <3>3. connected' \in BOOLEAN /\ errno' \in BOOLEAN
      BY <2>7 DEF GetIdents, Query
    <3> QED BY <2>7, <3>2, <3>3 DEF GetIdents, dbVars, libVars, ResultTypeOK
  <2>8. ASSUME NEW answer \in Answers, OtherQuery(t, answer)
        PROVE  ResultTypeOK'
    BY <2>8 DEF OtherQuery, Query, dbVars, libVars, ResultTypeOK
  <2>9. CASE NextIdent(t)
    <3> PICK f \in FetchRow(result[t]) :
          /\ GetNext(t, f)
          /\ got' = IF f.ret = 1 THEN [got EXCEPT ![t] = Append(@, NewIdent(t, f))] ELSE got
          /\ Goto(t, IF f.ret = 1 THEN "iterate" ELSE "ended")
      BY <2>9 DEF NextIdent
    <3>1. f.cursor \in Int /\ (f.ret = 1 => f.cursor >= 0)
      BY <2>0, <2>9, FetchAnswers DEF ResultTypeOK, NextIdent
    <3>2. f.ret = 1 => NewIdent(t, f) \in Idents
      BY <2>9, FieldIsIdent DEF NextIdent
    <3>3. f.ret = 1 => Append(got[t], NewIdent(t, f)) \in Seq(Idents)
      BY <2>0, <3>2, AppendProperties
    <3>4. got' \in [Threads -> Seq(Idents)]
      BY <3>3 DEF ResultTypeOK
    <3>5. result' \in [Threads -> [rows : Seq(Idents), cursor : Int]]
      BY <3>1 DEF GetNext, ResultTypeOK
    <3>6. pc' \in [Threads -> Labels] /\ connected' = connected
      BY DEF Goto, GetNext, UpdateFromFetch, ResultTypeOK, Labels
    <3>7. \A u \in Threads : pc'[u] \in {"iterate", "collect"} => result'[u].cursor >= 0
      BY <3>1 DEF Goto, GetNext, ResultTypeOK
    <3> QED BY <2>9, <3>4, <3>5, <3>6, <3>7 DEF NextIdent, dbVars, libVars, ResultTypeOK
  <2>10. CASE StartDelete(t)
    BY <2>10 DEF StartDelete, Goto, dbVars, libVars, serverVars, ResultTypeOK, Labels
  <2>11. CASE DestroyResult(t)
    <3>1. NoResult \in [rows : Seq(Idents), cursor : Int] /\ <<>> \in Seq(Idents)
      BY EmptySeq DEF NoResult
    <3> QED BY <2>11, <3>1 DEF DestroyResult, Goto, dbVars, libVars, serverVars, ResultTypeOK, Labels
  <2> QED BY <2>1, <2>2, <2>3, <2>4, <2>5, <2>6, <2>7, <2>8, <2>9, <2>10, <2>11
          DEF Continue, Invoke
<1> QED BY <1>1, <1>2

\* Every variable keeps its type: a result holds idents of the database, and a thread that
\* fetches from one has a cursor in it.
THEOREM ResultTypeCorrect == Spec => []ResultTypeOK
<1> QED BY InitResultType, NextResultType, PTL DEF Spec

-----------------------------------------------------------------------------
(***************************************************************************)
(* Sessions                                                                *)
(***************************************************************************)

\* Only sql_open of pgsql.c leaves a session open (requiemdb_sql_connect).
LEMMA ForgetsPgsql ==
  ASSUME ResultTypeOK, NEW open \in {Opened, Closed} \cup OpenSession, Forget(open)
  PROVE  misuse' = misuse \/ (backend = "pgsql" /\ misuse' = misuse \cup {"left open"})
<1>1. open.left => backend = "pgsql"
  <2>1. backend \in {"mysql", "pgsql", "sqlite3"}
    BY ResultAssumption DEF ResultTypeOK
  <2> QED BY <2>1 DEF OpenSession, OpenMysql, OpenSqlite, Opened, Closed
<1> QED BY <1>1 DEF Forget

\* What a step may do to a session, plugin by plugin.
LEMMA StepMisuse ==
  ASSUME ResultTypeOK, [Next]_vars
  PROVE  /\ backend' = backend
         /\ \/ misuse' = misuse
            \/ backend = "pgsql" /\ misuse' = misuse \cup {"left open"}
            \/ backend = "mysql" /\ misuse' = misuse \cup {"closed session asked"}
<1>1. CASE UNCHANGED vars
  BY <1>1 DEF vars
<1>2. CASE Next
  <2> PICK t \in Threads : Continue(t) \/ Invoke(t)
    BY <1>2 DEF Next
  <2>1. ASSUME NEW answer \in Answers, Query(answer)
        PROVE  misuse' = misuse \/ (backend = "pgsql" /\ misuse' = misuse \cup {"left open"})
    <3> PICK open \in (IF connected THEN {Opened} ELSE OpenSession) : Forget(open)
      BY <2>1 DEF Query
    <3> QED BY ForgetsPgsql
  <2>2. ASSUME NEW f, UpdateFromFetch(f)
        PROVE  misuse' = misuse \/ (backend = "mysql" /\ misuse' = misuse \cup {"closed session asked"})
    BY <2>2 DEF UpdateFromFetch
  <2>3. CASE CollectIdent(t) \/ NextIdent(t)
    BY <2>2, <2>3 DEF CollectIdent, NextIdent, GetNext, dbVars
  <2>4. ASSUME NEW answer \in Answers,
               DeleteCollected(t, answer) \/ GetIdents(t, answer) \/ OtherQuery(t, answer)
        PROVE  /\ backend' = backend
               /\ misuse' = misuse \/ (backend = "pgsql" /\ misuse' = misuse \cup {"left open"})
    BY <2>1, <2>4 DEF DeleteCollected, GetIdents, OtherQuery, dbVars
  <2>5. ASSUME NEW answer \in Answers, NewDatabase(t, answer)
        PROVE  /\ backend' = backend
               /\ misuse' = misuse \/ (backend = "pgsql" /\ misuse' = misuse \cup {"left open"})
    <3> PICK open \in (IF "sql" \in loaded THEN OpenSession ELSE {Closed}) : Forget(open)
      BY <2>5 DEF NewDatabase
    <3> QED BY <2>5, ForgetsPgsql DEF NewDatabase
  <2>6. CASE InitLibrary(t) \/ DeinitLibrary(t) \/ DestroyDatabase(t) \/ StartDelete(t) \/ DestroyResult(t)
    BY <2>6 DEF InitLibrary, DeinitLibrary, DestroyDatabase, StartDelete, DestroyResult, dbVars
  <2> QED BY <2>3, <2>4, <2>5, <2>6 DEF Continue, Invoke
<1> QED BY <1>1, <1>2

\* No session is closed twice, and none is used after it was closed or left open but in
\* the two ways SessionsSafe names, whatever the threads do and whatever fails
\* (requiemdb_sql_connect, update_sql_from_errno and the fetch functions).
THEOREM SessionsCorrect == Spec => []SessionsSafe
<1>1. Init => SessionsSafe
  BY DEF Init, SessionsSafe
<1>2. ResultTypeOK /\ SessionsSafe /\ [Next]_vars => SessionsSafe'
  <2> SUFFICES ASSUME ResultTypeOK, SessionsSafe, [Next]_vars PROVE SessionsSafe'
    OBVIOUS
  <2>1. backend \in {"mysql", "pgsql", "sqlite3"}
    BY ResultAssumption DEF ResultTypeOK
  <2> QED BY <2>1, StepMisuse DEF SessionsSafe
<1> QED BY <1>1, <1>2, ResultTypeCorrect, PTL DEF Spec

-----------------------------------------------------------------------------
(***************************************************************************)
(* The reference count of the library                                      *)
(***************************************************************************)

\* The calls of requiemdb_init that were not undone, each with its number.
References == {r \in Threads \X Nat : r[2] < owed[r[1]]}

\* librequiemdb_refcount counts them; a thread inside the library has one of its own, so
\* that the plugins of a database object are there as long as its maker.
RefInv ==
  /\ IsFiniteSet(References) /\ refcount = Cardinality(References)
  /\ \A t \in Threads : pc[t] # "out" => owed[t] > 0
  /\ maker # NoThread => pc[maker] # "out"
  /\ DatabaseUsable

\* A call of requiemdb_init is one reference more.
LEMMA OneReferenceMore ==
  ASSUME ResultTypeOK, RefInv, NEW t \in Threads, refcount' = refcount + 1,
         owed' = [owed EXCEPT ![t] = @ + 1]
  PROVE  IsFiniteSet(References') /\ refcount' = Cardinality(References')
<1>1. owed[t] \in Nat /\ <<t, owed[t]>> \notin References
  BY DEF References, ResultTypeOK
<1>2. References' = References \cup {<<t, owed[t]>>}
  <2>1. \A u \in Threads : owed[u] \in Nat /\ owed'[u] = IF u = t THEN owed[t] + 1 ELSE owed[u]
    BY DEF ResultTypeOK
  <2> QED BY <2>1 DEF References
<1> QED BY <1>1, <1>2, FS_AddElement DEF RefInv, ResultTypeOK

\* A call of requiemdb_deinit is one less.
LEMMA OneReferenceLess ==
  ASSUME ResultTypeOK, RefInv, NEW t \in Threads, refcount' = refcount - 1, owed[t] > 0,
         owed' = [owed EXCEPT ![t] = @ - 1]
  PROVE  IsFiniteSet(References') /\ refcount' = Cardinality(References')
<1>1. owed[t] \in Nat /\ <<t, owed[t] - 1>> \in References
  BY DEF References, ResultTypeOK
<1>2. References' = References \ {<<t, owed[t] - 1>>}
  <2>1. \A u \in Threads : owed[u] \in Nat /\ owed'[u] = IF u = t THEN owed[t] - 1 ELSE owed[u]
    BY DEF ResultTypeOK
  <2> QED BY <1>1, <2>1 DEF References
<1>3. IsFiniteSet(References) /\ refcount = Cardinality(References)
  BY DEF RefInv
<1>4. /\ IsFiniteSet(References \ {<<t, owed[t] - 1>>})
      /\ Cardinality(References \ {<<t, owed[t] - 1>>}) = Cardinality(References) - 1
  BY <1>1, <1>3, FS_RemoveElement
<1> QED BY <1>2, <1>3, <1>4

\* While a thread has a reference the count is positive, so that another's is not the last.
LEMMA NotLast ==
  ASSUME NEW S, IsFiniteSet(S), NEW x \in S
  PROVE  Cardinality(S) > 0
  BY FS_EmptySet, FS_CardinalityType

\* A step that touches neither the count nor the plugins, the database object or its
\* maker keeps the references.
LEMMA QuietReferences ==
  ASSUME RefInv, UNCHANGED <<refcount, loaded, owed, maker, format>>,
         \A t \in Threads : pc[t] = "out" <=> pc'[t] = "out",
         maker \in Threads \cup {NoThread}
  PROVE  RefInv'
<1>1. References' = References
  BY DEF References
<1> QED BY <1>1 DEF RefInv, DatabaseUsable

\* Every step keeps the references.
LEMMA NextReferences == ResultTypeOK /\ RefInv /\ [Next]_vars => RefInv'
<1> SUFFICES ASSUME ResultTypeOK, RefInv, [Next]_vars PROVE RefInv'
  OBVIOUS
<1>0. maker \in Threads \cup {NoThread} /\ ResultTypeOK'
  BY NextResultType DEF ResultTypeOK
<1>1. CASE UNCHANGED vars
  BY <1>0, <1>1, QuietReferences DEF vars
<1>2. CASE Next
  <2> PICK t \in Threads : Continue(t) \/ Invoke(t)
    BY <1>2 DEF Next
  <2>1. CASE CollectIdent(t) \/ NextIdent(t)
    <3>1. UNCHANGED <<refcount, loaded, owed, maker, format>>
      BY <2>1 DEF CollectIdent, NextIdent, dbVars, libVars
    <3>2. \A u \in Threads : pc[u] = "out" <=> pc'[u] = "out"
      BY <2>1 DEF CollectIdent, NextIdent, Goto, ResultTypeOK
    <3> QED BY <1>0, <3>1, <3>2, QuietReferences
  <2>2. ASSUME NEW answer \in Answers,
               DeleteCollected(t, answer) \/ GetIdents(t, answer) \/ OtherQuery(t, answer)
        PROVE  RefInv'
    <3>1. UNCHANGED <<refcount, loaded, owed, maker, format>>
      BY <2>2 DEF DeleteCollected, GetIdents, OtherQuery, dbVars, libVars
    <3>2. \A u \in Threads : pc[u] = "out" <=> pc'[u] = "out"
      BY <2>2 DEF DeleteCollected, GetIdents, OtherQuery, Using, Goto, ResultTypeOK
    <3> QED BY <1>0, <3>1, <3>2, QuietReferences
  <2>3. CASE StartDelete(t) \/ DestroyResult(t)
    <3>1. UNCHANGED <<refcount, loaded, owed, maker, format>>
      BY <2>3 DEF StartDelete, DestroyResult, dbVars, libVars
    <3>2. \A u \in Threads : pc[u] = "out" <=> pc'[u] = "out"
      BY <2>3 DEF StartDelete, DestroyResult, Goto, ResultTypeOK
    <3> QED BY <1>0, <3>1, <3>2, QuietReferences
  <2>4. CASE InitLibrary(t)
    <3>1. IsFiniteSet(References') /\ refcount' = Cardinality(References')
      BY <2>4, OneReferenceMore DEF InitLibrary
    <3>2. \A u \in Threads : pc'[u] # "out" => owed'[u] > 0
      BY <2>4 DEF InitLibrary, Goto, RefInv, ResultTypeOK
    <3>3. maker' = maker /\ format' = format
      BY <2>4 DEF InitLibrary, dbVars
    <3>4. maker # NoThread => pc'[maker] # "out" /\ loaded' = loaded
      <4> SUFFICES ASSUME maker # NoThread PROVE pc'[maker] # "out" /\ loaded' = loaded
        OBVIOUS
      <4>1. maker \in Threads /\ maker # t
        BY <1>0, <2>4 DEF InitLibrary, RefInv
      <4>2. refcount > 0
        <5>1. <<maker, 0>> \in References
          BY <4>1 DEF References, RefInv, ResultTypeOK
        <5> QED BY <5>1, NotLast DEF RefInv
      <4> QED BY <2>4, <4>1, <4>2 DEF InitLibrary, Goto, RefInv, ResultTypeOK
    <3> QED BY <3>1, <3>2, <3>3, <3>4 DEF RefInv, DatabaseUsable
  <2>5. CASE DeinitLibrary(t)
    <3>1. IsFiniteSet(References') /\ refcount' = Cardinality(References')
      BY <2>5, OneReferenceLess DEF DeinitLibrary
    <3>2. \A u \in Threads : pc'[u] # "out" => owed'[u] > 0
      BY <2>5 DEF DeinitLibrary, Goto, RefInv, ResultTypeOK
    <3>3. maker' = maker /\ format' = format
      BY <2>5 DEF DeinitLibrary, dbVars
    <3>4. maker # NoThread => pc'[maker] # "out" /\ loaded' = loaded
      <4> SUFFICES ASSUME maker # NoThread PROVE pc'[maker] # "out" /\ loaded' = loaded
        OBVIOUS
      <4>1. maker \in Threads /\ maker # t
        BY <1>0, <2>5 DEF DeinitLibrary
      <4>2. pc'[maker] = pc[maker] /\ owed'[maker] = owed[maker] /\ owed[maker] > 0
        BY <2>5, <4>1 DEF DeinitLibrary, Goto, RefInv, ResultTypeOK
      <4>3. refcount' > 0
        <5>1. <<maker, 0>> \in References'
          BY <4>1, <4>2 DEF References, RefInv, ResultTypeOK
        <5> QED BY <3>1, <5>1, NotLast
      <4>4. ~LastReference(refcount)
        BY <2>5, <4>3 DEF DeinitLibrary, LastReference, ResultTypeOK
      <4> QED BY <2>5, <4>2, <4>4 DEF DeinitLibrary, RefInv
    <3> QED BY <3>1, <3>2, <3>3, <3>4 DEF RefInv, DatabaseUsable
  <2>6. CASE DestroyDatabase(t)
    <3>1. UNCHANGED <<refcount, owed, pc>> /\ maker' = NoThread
      BY <2>6 DEF DestroyDatabase, libVars, threadVars
    <3>2. References' = References
      BY <3>1 DEF References
    <3> QED BY <3>1, <3>2 DEF RefInv, DatabaseUsable
  <2>7. ASSUME NEW answer \in Answers, NewDatabase(t, answer)
        PROVE  RefInv'
    <3>1. UNCHANGED <<refcount, owed, pc, loaded, format>>
      BY <2>7 DEF NewDatabase, libVars
    <3>2. References' = References
      BY <3>1 DEF References
    <3>3. maker' # NoThread => maker' = t /\ pc[t] = "idle" /\ "sql" \in loaded /\ FormatAccepted(format)
      BY <2>7 DEF NewDatabase, Closed
    <3>4. maker' # NoThread => loaded = Plugins /\ format.name = "classic" /\ format.version = 0
      BY <3>3 DEF FormatAccepted, check_schema_version, Plugins, ResultTypeOK
    <3> QED BY <3>1, <3>2, <3>3, <3>4 DEF RefInv, DatabaseUsable
  <2> QED BY <2>1, <2>2, <2>3, <2>4, <2>5, <2>6, <2>7 DEF Continue, Invoke
<1> QED BY <1>1, <1>2

\* The count of requiemdb_init and requiemdb_deinit is the number of references held.
THEOREM ReferencesCorrect == Spec => []RefInv
<1>1. Init => RefInv
  <2> SUFFICES ASSUME Init PROVE RefInv
    OBVIOUS
  <2>1. References = {}
    BY DEF Init, References
  <2> QED BY <2>1, FS_EmptySet DEF Init, RefInv, DatabaseUsable
<1> QED BY <1>1, NextReferences, ResultTypeCorrect, PTL DEF Spec

\* A database object keeps its plugins, the ones of its schema, as long as it exists,
\* whatever the other users of the library do with requiemdb_init and requiemdb_deinit.
THEOREM DatabaseCorrect == Spec => []DatabaseUsable
<1>1. RefInv => DatabaseUsable
  BY DEF RefInv
<1> QED BY <1>1, ReferencesCorrect, PTL

-----------------------------------------------------------------------------
(***************************************************************************)
(* What is taken from a result                                             *)
(***************************************************************************)

\* Rows number a to b of a result, as a set.
RowsAt(res, a, b) == {res.rows[i] : i \in a..b}

\* requiemdb_result_idents_get_next has handed out the rows up to the cursor; a deletion
\* goes on from there, and neither stops before the last row.
Taken(t) ==
  LET n == Len(got[t]) IN
  /\ n <= Len(result[t].rows)
  /\ \A i \in 1..n : got[t][i] = result[t].rows[i]
  /\ pc[t] \in {"out", "idle"} => result[t] = NoResult /\ got[t] = <<>> /\ batch[t] = {}
  /\ pc[t] = "iterate" => result[t].cursor = n /\ batch[t] = {}
  /\ pc[t] = "collect" =>
       /\ n <= result[t].cursor /\ result[t].cursor <= Len(result[t].rows)
       /\ batch[t] = RowsAt(result[t], n + 1, result[t].cursor)
  /\ pc[t] \in {"ended", "delete"} => batch[t] = RowsAt(result[t], n + 1, Len(result[t].rows))

TakenInv == \A t \in Threads : Taken(t)

\* The invariant says of every row what RowsTakenOnce says of sequences.
LEMMA TakenOnce == ResultTypeOK /\ TakenInv => RowsTakenOnce
<1> SUFFICES ASSUME ResultTypeOK, TakenInv, NEW t \in Threads
             PROVE  LET n == Len(got[t]) IN
                    /\ got[t] = SubSeq(result[t].rows, 1, n)
                    /\ batch[t] \subseteq ToSet(SubSeq(result[t].rows, n + 1, RowCount(result[t])))
                    /\ pc[t] \in {"ended", "delete"} => ToSet(got[t]) \cup batch[t] = ToSet(result[t].rows)
  BY DEF RowsTakenOnce
<1> DEFINE n == Len(got[t])
           rows == result[t].rows
           N == Len(rows)
           rest == SubSeq(rows, n + 1, N)
<1>1. /\ rows \in Seq(Idents) /\ got[t] \in Seq(Idents) /\ result[t].cursor \in Int
      /\ pc[t] \in Labels
  BY DEF ResultTypeOK
<1>2. n \in Nat /\ N \in Nat /\ DOMAIN rows = 1..N /\ DOMAIN got[t] = 1..n
  BY <1>1, LenProperties
<1>3. Taken(t) /\ n <= N /\ \A i \in 1..n : got[t][i] = rows[i]
  BY DEF TakenInv, Taken
<1>4. got[t] = SubSeq(rows, 1, n)
  <2>1. /\ SubSeq(rows, 1, n) \in Seq(Idents) /\ Len(SubSeq(rows, 1, n)) = n
        /\ \A i \in 1..n : SubSeq(rows, 1, n)[i] = rows[i]
    BY <1>1, <1>2, <1>3, SubSeqProperties
  <2> QED BY <1>1, <1>2, <1>3, <2>1, SeqEqual
<1>5. ToSet(rest) = RowsAt(result[t], n + 1, N)
  <2>1. /\ rest \in Seq(Idents) /\ Len(rest) = N - n
        /\ \A i \in 1..(N - n) : rest[i] = rows[n + i]
    <3>1. \A i \in (n + 1)..N : rows[i] \in Idents
      BY <1>1, <1>2, ElementOfSeq
    <3> HIDE DEF rows, N, n
    <3>2. /\ rest \in Seq(Idents)
          /\ Len(rest) = IF n + 1 <= N THEN N - (n + 1) + 1 ELSE 0
          /\ \A i \in 1..(N - (n + 1) + 1) : rest[i] = rows[(n + 1) + i - 1]
      BY <1>2, <3>1, SubSeqProperties
    <3>3. \A i \in Int : (n + 1) + i - 1 = n + i
      BY <1>2
    <3> HIDE DEF rest
    <3>4. Len(rest) = N - n /\ N - (n + 1) + 1 = N - n
      BY <1>2, <1>3, <3>2
    <3>5. ASSUME NEW i \in 1..(N - n) PROVE rest[i] = rows[n + i]
      <4>1. i \in Int /\ rest[i] = rows[(n + 1) + i - 1]
        BY <1>2, <3>2, <3>4
      <4> QED BY <3>3, <4>1
    <3> QED BY <3>2, <3>4, <3>5
  <2>2. DOMAIN rest = 1..(N - n)
    BY <2>1, LenProperties
  <2>3. \A i \in (n + 1)..N : i - n \in 1..(N - n) /\ rest[i - n] = rows[i]
    <3> HIDE DEF rest, rows, N, n
    <3> TAKE i \in (n + 1)..N
    <3>1. i - n \in 1..(N - n) /\ n + (i - n) = i
      BY <1>2
    <3> QED BY <2>1, <3>1
  <2>4. \A i \in 1..(N - n) : n + i \in (n + 1)..N
    BY <1>2, <1>3
  <2> HIDE DEF rest, rows, N, n
  <2>5. ToSet(rest) \subseteq {rows[i] : i \in (n + 1)..N}
    BY <2>1, <2>2, <2>4 DEF ToSet
  <2>6. {rows[i] : i \in (n + 1)..N} \subseteq ToSet(rest)
    BY <2>2, <2>3 DEF ToSet
  <2> QED BY <2>5, <2>6 DEF RowsAt, rows
<1>6. batch[t] \subseteq RowsAt(result[t], n + 1, N)
  <2>1. CASE pc[t] \in {"out", "idle", "iterate"}
    BY <1>3, <2>1 DEF Taken
  <2>2. CASE pc[t] = "collect"
    BY <1>1, <1>2, <1>3, <2>2 DEF Taken, RowsAt
  <2>3. CASE pc[t] \in {"ended", "delete"}
    BY <1>3, <2>3 DEF Taken
  <2> QED BY <1>1, <2>1, <2>2, <2>3 DEF Labels
<1>7. ASSUME pc[t] \in {"ended", "delete"}
      PROVE  ToSet(got[t]) \cup batch[t] = ToSet(rows)
  <2>1. batch[t] = {rows[i] : i \in (n + 1)..N}
    BY <1>3, <1>7 DEF Taken, RowsAt
  <2>2. ToSet(got[t]) = {rows[i] : i \in 1..n}
    BY <1>2, <1>3 DEF ToSet
  <2>3. ToSet(rows) = {rows[i] : i \in 1..N}
    BY <1>2 DEF ToSet
  <2>4. 1..N = (1..n) \cup ((n + 1)..N)
    BY <1>2, <1>3
  <2> HIDE DEF rows, N, n
  <2> QED BY <2>1, <2>2, <2>3, <2>4
<1> QED BY <1>4, <1>5, <1>6, <1>7 DEF RowCount

\* A thread whose result, and what was taken from it, a step leaves alone.
Untouched(u) ==
  /\ result'[u] = result[u] /\ got'[u] = got[u] /\ batch'[u] = batch[u]
  /\ pc'[u] = pc[u] \/ (pc[u] \in {"out", "idle"} /\ pc'[u] \in {"out", "idle"})

\* ... has taken what it had.
LEMMA UntouchedTaken ==
  ASSUME NEW u, Taken(u), Untouched(u)
  PROVE  Taken(u)'
  BY DEF Taken, Untouched, RowsAt

\* The steps of the other threads leave a result alone: nothing about it is shared.
LEMMA OthersUntouched ==
  ASSUME ResultTypeOK, NEW t \in Threads, Continue(t) \/ Invoke(t), NEW u \in Threads \ {t}
  PROVE  Untouched(u)
<1>1. CASE CollectIdent(t) \/ NextIdent(t)
  BY <1>1 DEF CollectIdent, NextIdent, GetNext, Goto, Untouched, ResultTypeOK
<1>2. ASSUME NEW answer \in Answers,
             DeleteCollected(t, answer) \/ GetIdents(t, answer) \/ OtherQuery(t, answer)
      PROVE  Untouched(u)
  BY <1>2 DEF DeleteCollected, GetIdents, OtherQuery, Goto, Untouched, ResultTypeOK
<1>3. ASSUME NEW answer \in Answers, NewDatabase(t, answer)
      PROVE  Untouched(u)
  BY <1>3 DEF NewDatabase, Untouched
<1>4. CASE InitLibrary(t) \/ DeinitLibrary(t)
  BY <1>4 DEF InitLibrary, DeinitLibrary, Goto, Untouched, ResultTypeOK
<1>5. CASE DestroyDatabase(t)
  BY <1>5 DEF DestroyDatabase, threadVars, Untouched
<1>6. CASE StartDelete(t) \/ DestroyResult(t)
  BY <1>6 DEF StartDelete, DestroyResult, Goto, Untouched, ResultTypeOK
<1> QED BY <1>1, <1>2, <1>3, <1>4, <1>5, <1>6 DEF Continue, Invoke

\* The sequence, and the record, that a fetch leaves.
LEMMA Fetched ==
  ASSUME ResultTypeOK, NEW t \in Threads, NEW f \in FetchRow(result[t]), GetNext(t, f)
  PROVE  /\ result'[t].rows = result[t].rows /\ result'[t].cursor = f.cursor
         /\ Len(result[t].rows) \in Nat /\ result[t].cursor \in Int
         /\ Len(got[t]) \in Nat /\ DOMAIN got[t] = 1..Len(got[t])
         /\ f.ret \in {1, 0, -1} /\ f.cursor \in Int
         /\ f.ret = 1 <=> result[t].cursor < Len(result[t].rows)
         /\ f.ret = 1 => f.cursor = result[t].cursor + 1
         /\ f.ret = -1 => f.cursor = result[t].cursor
<1>1. /\ result[t] \in [rows : Seq(Idents), cursor : Int] /\ got[t] \in Seq(Idents)
      /\ result' = [result EXCEPT ![t].cursor = f.cursor]
  BY DEF ResultTypeOK, GetNext
<1>2. result'[t] = [rows |-> result[t].rows, cursor |-> f.cursor]
  BY <1>1 DEF ResultTypeOK
<1>3. result'[t].rows = result[t].rows /\ result'[t].cursor = f.cursor
  BY <1>2
<1>4. Len(result[t].rows) \in Nat /\ Len(got[t]) \in Nat /\ DOMAIN got[t] = 1..Len(got[t])
  BY <1>1, LenProperties
<1> QED BY <1>1, <1>3, <1>4, FetchAnswers

\* requiemdb_result_idents_get_next hands out the row after those it has handed out, or
\* finds that there is none.
LEMMA NextTaken ==
  ASSUME ResultTypeOK, NEW t \in Threads, Taken(t), NextIdent(t)
  PROVE  Taken(t)'
<1> PICK f \in FetchRow(result[t]) :
      /\ GetNext(t, f)
      /\ got' = IF f.ret = 1 THEN [got EXCEPT ![t] = Append(@, NewIdent(t, f))] ELSE got
      /\ Goto(t, IF f.ret = 1 THEN "iterate" ELSE "ended")
  BY DEF NextIdent
<1> DEFINE n == Len(got[t])
           rows == result[t].rows
<1>1. /\ result'[t].rows = rows /\ result'[t].cursor = f.cursor
      /\ Len(rows) \in Nat /\ result[t].cursor \in Int /\ n \in Nat
      /\ f.ret = 1 <=> result[t].cursor < Len(rows)
      /\ f.ret = 1 => f.cursor = result[t].cursor + 1
  BY Fetched
<1>2. batch'[t] = {} /\ result[t].cursor = n /\ n <= Len(rows) /\ \A i \in 1..n : got[t][i] = rows[i]
  BY DEF NextIdent, Taken
<1>3. CASE f.ret = 1
  <2>1. NewIdent(t, f) = rows[n + 1]
    BY <1>2, <1>3, FieldOfRow
  <2>2. rows[n + 1] \in Idents /\ got[t] \in Seq(Idents)
    BY <1>3, <2>1, FieldIsIdent DEF NextIdent, ResultTypeOK
  <2>3. got'[t] = Append(got[t], rows[n + 1])
    BY <1>3, <2>1 DEF ResultTypeOK
  <2>4. /\ Len(got'[t]) = n + 1
        /\ \A i \in 1..n : got'[t][i] = got[t][i]
        /\ got'[t][n + 1] = rows[n + 1]
    BY <2>2, <2>3, AppendProperties
  <2>5. pc'[t] = "iterate"
    BY <1>3 DEF Goto, ResultTypeOK
  <2>6. \A i \in 1..(n + 1) : got'[t][i] = rows[i]
    BY <1>1, <1>2, <2>4
  <2> HIDE DEF n, rows
  <2>7. n + 1 <= Len(rows) /\ result'[t].cursor = n + 1
    BY <1>1, <1>2, <1>3 DEF n, rows
  <2> QED BY <1>1, <1>2, <2>4, <2>5, <2>6, <2>7 DEF Taken
<1>4. CASE f.ret # 1
  <2>1. got' = got /\ pc'[t] = "ended"
    BY <1>4 DEF Goto, ResultTypeOK
  <2>2. n = Len(rows)
    BY <1>1, <1>2, <1>4
  <2>3. RowsAt(result[t], n + 1, Len(rows))' = {}
    BY <1>1, <2>1, <2>2 DEF RowsAt
  <2> QED BY <1>1, <1>2, <2>1, <2>3 DEF Taken
<1> QED BY <1>3, <1>4

\* get_string_from_result_ident takes the row after those it has taken; it stops when
\* there is none, and an error leaves it where it is.
LEMMA CollectTaken ==
  ASSUME ResultTypeOK, NEW t \in Threads, Taken(t), CollectIdent(t)
  PROVE  Taken(t)'
<1> PICK f \in FetchRow(result[t]) :
      /\ GetNext(t, f)
      /\ batch' = IF f.ret = 1 THEN [batch EXCEPT ![t] = @ \cup {NewIdent(t, f)}] ELSE batch
      /\ Goto(t, IF f.ret # 0 THEN "collect" ELSE IF batch[t] = {} THEN "ended" ELSE "delete")
  BY DEF CollectIdent
<1> DEFINE n == Len(got[t])
           c == result[t].cursor
           rows == result[t].rows
<1>1. /\ result'[t].rows = rows /\ result'[t].cursor = f.cursor
      /\ Len(rows) \in Nat /\ c \in Int /\ n \in Nat
      /\ f.ret \in {1, 0, -1}
      /\ f.ret = 1 <=> c < Len(rows)
      /\ f.ret = 1 => f.cursor = c + 1
      /\ f.ret = -1 => f.cursor = c
  BY Fetched
<1>2. /\ got' = got /\ n <= c /\ c <= Len(rows) /\ n <= Len(rows)
      /\ \A i \in 1..n : got[t][i] = rows[i]
      /\ batch[t] = {rows[i] : i \in (n + 1)..c}
  BY DEF CollectIdent, Taken, RowsAt
<1>3. CASE f.ret = 1
  <2>1. NewIdent(t, f) = rows[c + 1]
    BY <1>3, FieldOfRow
  <2>2. batch'[t] = {rows[i] : i \in (n + 1)..c} \cup {rows[c + 1]}
    BY <1>2, <1>3, <2>1 DEF ResultTypeOK
  <2>3. (n + 1)..(c + 1) = ((n + 1)..c) \cup {c + 1}
    BY <1>1, <1>2
  <2>4. pc'[t] = "collect"
    BY <1>3 DEF Goto, ResultTypeOK
  <2>5. n <= c + 1 /\ c + 1 <= Len(rows) /\ result'[t].cursor = c + 1
    BY <1>1, <1>2, <1>3
  <2> HIDE DEF n, c, rows
  <2>6. batch'[t] = {rows[i] : i \in (n + 1)..(c + 1)}
    BY <2>2, <2>3
  <2>7. Len(got'[t]) = n /\ \A i \in 1..n : got'[t][i] = rows[i]
    BY <1>2 DEF n
  <2>8. n <= Len(rows) /\ result'[t].rows = rows
    BY <1>1, <1>2
  <2> QED BY <2>4, <2>5, <2>6, <2>7, <2>8 DEF Taken, RowsAt
<1>4. CASE f.ret = -1
  <2>1. batch' = batch /\ pc'[t] = "collect"
    BY <1>4 DEF Goto, ResultTypeOK
  <2> QED BY <1>1, <1>2, <1>4, <2>1 DEF Taken, RowsAt
<1>5. CASE f.ret = 0
  <2>1. batch' = batch /\ pc'[t] \in {"ended", "delete"}
    BY <1>5 DEF Goto, ResultTypeOK
  <2>2. c = Len(rows)
    BY <1>1, <1>2, <1>5
  <2> QED BY <1>1, <1>2, <2>1, <2>2 DEF Taken, RowsAt
<1> QED BY <1>1, <1>3, <1>4, <1>5

\* Every step keeps what was taken.
LEMMA NextKeepsTaken == ResultTypeOK /\ TakenInv /\ [Next]_vars => TakenInv'
<1> SUFFICES ASSUME ResultTypeOK, TakenInv, [Next]_vars, NEW u \in Threads PROVE Taken(u)'
  BY DEF TakenInv
<1>0. Taken(u)
  BY DEF TakenInv
<1>1. CASE UNCHANGED vars
  BY <1>0, <1>1, UntouchedTaken DEF vars, Untouched
<1>2. CASE Next
  <2> PICK t \in Threads : Continue(t) \/ Invoke(t)
    BY <1>2 DEF Next
  <2>1. CASE u # t
    BY <1>0, <2>1, OthersUntouched, UntouchedTaken
  <2>2. CASE u = t
    <3>1. CASE CollectIdent(t)
      BY <1>0, <2>2, <3>1, CollectTaken
    <3>2. CASE NextIdent(t)
      BY <1>0, <2>2, <3>2, NextTaken
    <3>3. ASSUME NEW answer \in Answers, DeleteCollected(t, answer)
          PROVE  Taken(t)'
      BY <1>0, <2>2, <3>3 DEF DeleteCollected, Goto, Taken, RowsAt, ResultTypeOK
    <3>4. ASSUME NEW answer \in Answers, GetIdents(t, answer)
          PROVE  Taken(t)'
      <4> PICK rows \in SetToSeqs(stored) :
            IF answer = "ok" /\ HasResult(rows)
            THEN result' = [result EXCEPT ![t] = Result(rows)] /\ Goto(t, "iterate")
            ELSE UNCHANGED <<result, pc>>
        BY <3>4 DEF GetIdents
      <4>1. UNCHANGED <<got, batch>> /\ got[t] = <<>> /\ batch[t] = {}
        BY <1>0, <2>2, <3>4 DEF GetIdents, Using, Taken
      <4>2. CASE answer = "ok" /\ HasResult(rows)
        <5>1. pc'[t] = "iterate" /\ result'[t] = Result(rows)
          BY <4>2 DEF Goto, ResultTypeOK
        <5>2. result'[t].cursor = 0 /\ Len(result'[t].rows) \in Nat
          BY <5>1, RowsAreIdents, LenProperties DEF Result, ResultTypeOK
        <5>3. Len(<<>>) = 0
          OBVIOUS
        <5> QED BY <4>1, <5>1, <5>2, <5>3 DEF Taken
      <4>3. CASE ~(answer = "ok" /\ HasResult(rows))
        BY <1>0, <2>2, <4>1, <4>3, UntouchedTaken DEF Untouched
      <4> QED BY <4>2, <4>3
    <3>5. ASSUME NEW answer \in Answers, OtherQuery(t, answer) \/ NewDatabase(t, answer)
          PROVE  Taken(t)'
      BY <1>0, <2>2, <3>5, UntouchedTaken DEF OtherQuery, NewDatabase, Untouched
    <3>6. CASE InitLibrary(t) \/ DeinitLibrary(t) \/ DestroyDatabase(t)
      <4>1. Untouched(t)
        BY <3>6 DEF InitLibrary, DeinitLibrary, DestroyDatabase, threadVars, Goto, Untouched, ResultTypeOK
      <4> QED BY <1>0, <2>2, <4>1, UntouchedTaken
    <3>7. CASE StartDelete(t)
      <4>1. UNCHANGED <<result, got, batch>> /\ pc[t] = "iterate" /\ pc'[t] = "collect"
        BY <3>7 DEF StartDelete, Goto, ResultTypeOK
      <4>2. Len(got[t]) \in Nat
        BY LenProperties DEF ResultTypeOK
      <4>3. RowsAt(result[t], Len(got[t]) + 1, Len(got[t])) = {}
        BY <4>2 DEF RowsAt
      <4> QED BY <1>0, <2>2, <4>1, <4>2, <4>3 DEF Taken, RowsAt
    <3>8. CASE DestroyResult(t)
      <4>1. pc'[t] = "idle" /\ result'[t] = NoResult /\ got'[t] = <<>> /\ batch'[t] = {}
        BY <3>8 DEF DestroyResult, Goto, ResultTypeOK
      <4>2. result'[t].rows = <<>> /\ Len(<<>>) = 0
        BY <4>1 DEF NoResult
      <4> QED BY <2>2, <4>1, <4>2 DEF Taken, NoResult
    <3> QED BY <2>2, <3>1, <3>2, <3>3, <3>4, <3>5, <3>6, <3>7, <3>8 DEF Continue, Invoke
  <2> QED BY <2>1, <2>2
<1> QED BY <1>1, <1>2

\* A result is taken row by row, each once and none missing at the end, by
\* requiemdb_result_idents_get_next and by a deletion from the result, whatever other
\* threads do to the session and to the messages.
THEOREM TakenCorrect == Spec => []RowsTakenOnce
<1>1. Init => TakenInv
  <2> SUFFICES ASSUME Init, NEW t \in Threads PROVE Taken(t)
    BY DEF TakenInv
  <2>1. result[t] = NoResult /\ got[t] = <<>> /\ batch[t] = {} /\ pc[t] = "out"
    BY DEF Init
  <2>2. NoResult.rows = <<>> /\ Len(<<>>) = 0
    BY DEF NoResult
  <2> QED BY <2>1, <2>2 DEF Taken
<1> QED BY <1>1, NextKeepsTaken, TakenOnce, ResultTypeCorrect, PTL DEF Spec
=============================================================================
