--------------------------- MODULE ClientRequestsProofs ---------------------------
(***************************************************************************)
(* Proofs about what a client asks of the library (ClientRequests), for    *)
(* any texts, patterns, times and messages.                                *)
(***************************************************************************)
EXTENDS ClientRequests, WellFoundedInduction, SequenceTheorems, FiniteSetTheorems, TLAPS

-----------------------------------------------------------------------------
(***************************************************************************)
(* The operator tables and the constraints of the SQL plugins              *)
(***************************************************************************)

\* The relation of each operator that compares with a value, LIKE aside.
RelationOf ==
  [EQUAL     |-> "=",          EQUAL_NOCASE     |-> "=",
   NOT_EQUAL |-> "!=",         NOT_EQUAL_NOCASE |-> "!=",
   REGEX     |-> "REGEXP",     REGEX_NOCASE     |-> "REGEXP",
   NOT_REGEX |-> "NOT REGEXP", NOT_REGEX_NOCASE |-> "NOT REGEXP",
   GREATER   |-> ">",          GREATER_OR_EQUAL |-> ">=",
   LESSER    |-> "<",          LESSER_OR_EQUAL  |-> "<="]

CompareOperators == EqualOperators \cup RegexOperators \cup OrderOperators

\* Each plugin has its own table and its own functions.
LEMMA PluginFunctions ==
  ASSUME NEW op, NEW v, NEW part
  PROVE  /\ build_constraint_string("mysql", op, v) = mysql_build_constraint(op, v)
         /\ build_constraint_string("pgsql", op, v) = pgsql_build_constraint(op, v)
         /\ build_constraint_string("sqlite3", op, v) = sqlite3_build_constraint(op, v)
         /\ build_time_constraint_string("mysql", part, v) = mysql_time_constraint(part, v)
         /\ build_time_constraint_string("pgsql", part, v) = pgsql_time_constraint(part, v)
         /\ build_time_constraint_string("sqlite3", part, v) = sqlite3_time_constraint(part, v)
  BY Zenon DEF build_constraint_string, build_time_constraint_string

\* What "=" means to a server.
LEMMA EqualRelation ==
  ASSUME NEW b, NEW rel, NEW x, NEW v, rel = "="
  PROVE  ~Related(b, rel, x, v) <=> x # v
  BY Zenon DEF Related

\* What "!=" means to a server.
LEMMA UnequalRelation ==
  ASSUME NEW b, NEW rel, NEW x, NEW v, rel = "!="
  PROVE  Related(b, rel, x, v) <=> x # v
  BY Zenon DEF Related

\* What REGEXP means to a server.
LEMMA RegexRelations ==
  ASSUME NEW b, NEW rel, NEW x, NEW v
  PROVE  /\ rel = "REGEXP"     => (Related(b, rel, x, v) <=> Found(v, x))
         /\ rel = "NOT REGEXP" => (Related(b, rel, x, v) <=> ~Found(v, x))
  BY Zenon DEF Related

\* What the relations of numbers mean to a server.
LEMMA NumberRelations ==
  ASSUME NEW b, NEW rel, NEW x, NEW v
  PROVE  /\ rel = ">"  => (Related(b, rel, x, v) <=> x > v)
         /\ rel = ">=" => (Related(b, rel, x, v) <=> x >= v)
         /\ rel = "<"  => (Related(b, rel, x, v) <=> x < v)
         /\ rel = "<=" => (Related(b, rel, x, v) <=> x <= v)
  BY Zenon DEF Related

\* A sequence of one.
LEMMA One ==
  ASSUME NEW x
  PROVE  <<x>> # <<>> /\ <<x>>[1] = x
  OBVIOUS

\* The operator in the table of a plugin, or in the part they share.
Lookup(tbl, op) ==
  IF op \in DOMAIN tbl THEN <<tbl[op]>>
  ELSE IF op \in DOMAIN OrderTable THEN <<OrderTable[op]>> ELSE <<>>

\* Each plugin has its own table.
LEMMA PluginTables ==
  ASSUME NEW op
  PROVE  /\ get_operator_string("mysql", op) = Lookup(mysql_operators, op)
         /\ get_operator_string("pgsql", op) = Lookup(pgsql_operators, op)
         /\ get_operator_string("sqlite3", op) = Lookup(sqlite3_operators, op)
  BY Zenon DEF get_operator_string, Lookup

\* The operator of SQL, with its regard to case.
Operator(op) == IF op \in NocaseOperators THEN Fold(RelationOf[op]) ELSE Exact(RelationOf[op])

\* The operators of the tables: the relation, and whether case is ignored.
LEMMA TableEntries ==
  ASSUME NEW op \in CompareOperators
  PROVE  /\ op \notin {"NOT_REGEX", "NOT_REGEX_NOCASE"} =>
              Lookup(mysql_operators, op) = <<Operator(op)>>
         /\ op \notin {"EQUAL_NOCASE", "NOT_EQUAL_NOCASE"} =>
              Lookup(pgsql_operators, op) = <<Operator(op)>>
         /\ op \in {"EQUAL_NOCASE", "NOT_EQUAL_NOCASE"} => Lookup(pgsql_operators, op) = <<>>
         /\ Lookup(sqlite3_operators, op) = <<Exact(RelationOf[op])>>
  <1> USE DEF Lookup, mysql_operators, pgsql_operators, sqlite3_operators, OrderTable, Exact, Fold,
              RelationOf, NocaseOperators, Operator
  <1>1. CASE op = "EQUAL"
    BY <1>1
  <1>2. CASE op = "EQUAL_NOCASE"
    BY <1>2
  <1>3. CASE op = "NOT_EQUAL"
    BY <1>3
  <1>4. CASE op = "NOT_EQUAL_NOCASE"
    BY <1>4
  <1>5. CASE op = "REGEX"
    BY <1>5
  <1>6. CASE op = "REGEX_NOCASE"
    BY <1>6
  <1>7. CASE op = "NOT_REGEX"
    BY <1>7
  <1>8. CASE op = "NOT_REGEX_NOCASE"
    BY <1>8
  <1>9. CASE op = "GREATER"
    BY <1>9
  <1>10. CASE op = "GREATER_OR_EQUAL"
    BY <1>10
  <1>11. CASE op = "LESSER"
    BY <1>11
  <1>12. CASE op = "LESSER_OR_EQUAL"
    BY <1>12
  <1>13. QED
    BY <1>1, <1>2, <1>3, <1>4, <1>5, <1>6, <1>7, <1>8, <1>9, <1>10, <1>11, <1>12
       DEF CompareOperators, EqualOperators, RegexOperators, OrderOperators
\* A text as an operator compares it.
Cased(op, text) == IF op \in NocaseOperators THEN Lower(text) ELSE text

\* What a comparison of the field with v by the operator says to a server.
LEMMA CompareHolds ==
  ASSUME NEW b, NEW op, NEW v, NEW x
  PROVE  /\ Holds(b, Compare(Operator(op), FALSE, v), x)
              <=> Related(b, RelationOf[op], Cased(op, x), Cased(op, v))
         /\ op \in NocaseOperators =>
              (Holds(b, Compare(Exact(RelationOf[op]), TRUE, v), x)
                 <=> Related(b, RelationOf[op], Cased(op, x), Cased(op, v)))
         /\ op \notin NocaseOperators =>
              (Holds(b, Compare(Exact(RelationOf[op]), FALSE, v), x)
                 <=> Related(b, RelationOf[op], Cased(op, x), Cased(op, v)))
  <1>1. CASE op \in NocaseOperators
    BY <1>1 DEF Holds, Compare, Operator, Exact, Fold, Cased
  <1>2. CASE op \notin NocaseOperators
    BY <1>2 DEF Holds, Compare, Operator, Exact, Fold, Cased
  <1>3. QED BY <1>1, <1>2

\* The constraint of every plugin is one comparison, in the relation of the operator
\* and without regard to case exactly for the NOCASE ones; MySQL's NOT REGEXP aside.
LEMMA ConstraintBuilt ==
  ASSUME NEW b \in Backend, NEW op \in CompareOperators, NEW v,
         ~(b = "mysql" /\ op \in {"NOT_REGEX", "NOT_REGEX_NOCASE"})
  PROVE  \E t : /\ build_constraint_string(b, op, v) = <<Condition({t})>>
                /\ t.test = "compare"
                /\ \A x : Holds(b, t, x) <=> Related(b, RelationOf[op], Cased(op, x), Cased(op, v))
  <1>1. CASE b = "mysql"
    <2>1. Lookup(mysql_operators, op) = <<Operator(op)>>
      BY <1>1, TableEntries
    <2>2. build_constraint_string(b, op, v) = mysql_build_constraint(op, v)
      BY <1>1, PluginFunctions
    <2>3. get_operator_string("mysql", op) = Lookup(mysql_operators, op)
      BY PluginTables
    <2>4. mysql_build_constraint(op, v) = <<Condition({Compare(Operator(op), FALSE, v)})>>
      BY <2>1, <2>3, One, Zenon DEF mysql_build_constraint
    <2>5. Compare(Operator(op), FALSE, v).test = "compare"
      BY DEF Compare
    <2>6. QED BY <2>2, <2>4, <2>5, CompareHolds
  <1>2. CASE b = "pgsql" /\ op \in {"EQUAL_NOCASE", "NOT_EQUAL_NOCASE"}
    <2>1. Lookup(pgsql_operators, op) = <<>>
      BY <1>2, TableEntries
    <2>2. build_constraint_string(b, op, v) = pgsql_build_constraint(op, v)
      BY <1>2, PluginFunctions
    <2>3. get_operator_string("pgsql", op) = Lookup(pgsql_operators, op)
      BY PluginTables
    <2>4. pgsql_build_constraint(op, v) = <<Condition({Compare(Exact(RelationOf[op]), TRUE, v)})>>
      <3>1. CASE op = "EQUAL_NOCASE"
        <4>1. RelationOf[op] = "="
          BY <3>1 DEF RelationOf
        <4>2. QED BY <2>1, <2>3, <3>1, <4>1, Zenon DEF pgsql_build_constraint
      <3>2. CASE op = "NOT_EQUAL_NOCASE"
        <4>1. RelationOf[op] = "!="
          BY <3>2 DEF RelationOf
        <4>2. op # "EQUAL_NOCASE"
          BY <3>2
        <4>3. QED BY <2>1, <2>3, <3>2, <4>1, <4>2, Zenon DEF pgsql_build_constraint
      <3>3. QED BY <1>2, <3>1, <3>2
    <2>5. Compare(Exact(RelationOf[op]), TRUE, v).test = "compare"
      BY DEF Compare
    <2>6. op \in NocaseOperators
      BY <1>2 DEF NocaseOperators
    <2>7. QED BY <2>2, <2>4, <2>5, <2>6, CompareHolds
  <1>3. CASE b = "pgsql" /\ op \notin {"EQUAL_NOCASE", "NOT_EQUAL_NOCASE"}
    <2>1. Lookup(pgsql_operators, op) = <<Operator(op)>>
      BY <1>3, TableEntries
    <2>2. build_constraint_string(b, op, v) = pgsql_build_constraint(op, v)
      BY <1>3, PluginFunctions
    <2>3. get_operator_string("pgsql", op) = Lookup(pgsql_operators, op)
      BY PluginTables
    <2>4. pgsql_build_constraint(op, v) = <<Condition({Compare(Operator(op), FALSE, v)})>>
      BY <2>1, <2>3, One, Zenon DEF pgsql_build_constraint
    <2>5. Compare(Operator(op), FALSE, v).test = "compare"
      BY DEF Compare
    <2>6. QED BY <2>2, <2>4, <2>5, CompareHolds
  <1>4. CASE b = "sqlite3"
    <2>1. Lookup(sqlite3_operators, op) = <<Exact(RelationOf[op])>>
      BY TableEntries
    <2>2. build_constraint_string(b, op, v) = sqlite3_build_constraint(op, v)
      BY <1>4, PluginFunctions
    <2>3. get_operator_string("sqlite3", op) = Lookup(sqlite3_operators, op)
      BY PluginTables
    <2>4. sqlite3_build_constraint(op, v)
            = <<Condition({Compare(Exact(RelationOf[op]), op \in NocaseOperators, v)})>>
      BY <2>1, <2>3, One, Zenon DEF sqlite3_build_constraint
    <2>5. Compare(Exact(RelationOf[op]), op \in NocaseOperators, v).test = "compare"
      BY DEF Compare
    <2>6. \A x : Holds(b, Compare(Exact(RelationOf[op]), op \in NocaseOperators, v), x)
                   <=> Related(b, RelationOf[op], Cased(op, x), Cased(op, v))
      <3>1. CASE op \in NocaseOperators
        BY <3>1 DEF Holds, Compare, Exact, Cased
      <3>2. CASE op \notin NocaseOperators
        BY <3>2 DEF Holds, Compare, Exact, Cased
      <3>3. QED BY <3>1, <3>2
    <2>7. QED BY <2>2, <2>4, <2>5, <2>6
  <1>5. QED BY <1>1, <1>2, <1>3, <1>4 DEF Backend
-----------------------------------------------------------------------------
(***************************************************************************)
(* What a condition selects                                                *)
(***************************************************************************)

\* The truth of a test that needs a value.
LEMMA TruthOfTest ==
  ASSUME NEW b, NEW t, t.test \notin {"null", "not null"}, NEW x
  PROVE  /\ Truth(b, t, <<>>) = "N"
         /\ Truth(b, t, <<x>>) = IF Holds(b, t, x) THEN "T" ELSE "F"
  BY One, Zenon DEF Truth

\* NOT in the logic of SQL.
LEMMA NotTruth == Not("T") = "F" /\ Not("F") = "T" /\ Not("N") = "N"
  BY Zenon DEF Not

\* A condition of tests that need a value: a NULL field is selected only on
\* purpose, another when all the tests hold, or when one does not.
LEMMA SelectsTests ==
  ASSUME NEW b, NEW cond, NEW T, cond.tests = T, T # {},
         \A t \in T : t.test \notin {"null", "not null"},
         NEW x
  PROVE  /\ Selects(b, cond, <<>>) <=> cond.or_null
         /\ ~cond.not => (Selects(b, cond, <<x>>) <=> \A t \in T : Holds(b, t, x))
         /\ cond.not => (Selects(b, cond, <<x>>) <=> ~ \A t \in T : Holds(b, t, x))
  <1> DEFINE S(f) == {Truth(b, t, f) : t \in T}
  <1>1. S(<<>>) = {"N"}
    BY TruthOfTest
  <1>2. And(S(<<>>)) = "N"
    BY <1>1 DEF And
  <1>3. Selects(b, cond, <<>>) <=> cond.or_null
    BY <1>2, NotTruth DEF Selects
  <1>4. "F" \in S(<<x>>) <=> ~ \A t \in T : Holds(b, t, x)
    BY TruthOfTest
  <1>5. "N" \notin S(<<x>>)
    BY TruthOfTest
  <1>6. And(S(<<x>>)) = IF "F" \in S(<<x>>) THEN "F" ELSE "T"
    BY <1>5 DEF And
  <1>7. <<x>> # <<>>
    BY One
  <1>8. ~cond.not => (Selects(b, cond, <<x>>) <=> \A t \in T : Holds(b, t, x))
    BY <1>4, <1>6, <1>7 DEF Selects
  <1>9. cond.not => (Selects(b, cond, <<x>>) <=> ~ \A t \in T : Holds(b, t, x))
    BY <1>4, <1>6, <1>7, NotTruth DEF Selects
  <1>10. QED BY <1>3, <1>8, <1>9

\* The conditions for NULL and NOT NULL.
LEMMA SelectsNull ==
  ASSUME NEW b, NEW x
  PROVE  /\ Selects(b, Condition({[test |-> "null"]}), <<>>)
         /\ ~Selects(b, Condition({[test |-> "null"]}), <<x>>)
         /\ ~Selects(b, Condition({[test |-> "not null"]}), <<>>)
         /\ Selects(b, Condition({[test |-> "not null"]}), <<x>>)
  <1>1. <<x>> # <<>>
    BY One
  <1>2. /\ Truth(b, [test |-> "null"], <<>>) = "T" /\ Truth(b, [test |-> "null"], <<x>>) = "F"
        /\ Truth(b, [test |-> "not null"], <<>>) = "F" /\ Truth(b, [test |-> "not null"], <<x>>) = "T"
    BY <1>1, Zenon DEF Truth
  <1>3. ASSUME NEW t, NEW f
        PROVE  Selects(b, Condition({t}), f) <=> Truth(b, t, f) \notin {"F", "N"}
    <2>1. {Truth(b, s, f) : s \in {t}} = {Truth(b, t, f)}
      OBVIOUS
    <2>2. And({Truth(b, t, f)}) = "T" <=> Truth(b, t, f) \notin {"F", "N"}
      BY DEF And
    <2>3. QED BY <2>1, <2>2 DEF Selects, Condition
  <1>4. QED BY <1>2, <1>3
-----------------------------------------------------------------------------
(***************************************************************************)
(* What a criterion means                                                  *)
(***************************************************************************)

\* The relations, one by one.
LEMMA RelationEntries ==
  /\ RelationOf["EQUAL"] = "=" /\ RelationOf["EQUAL_NOCASE"] = "="
  /\ RelationOf["NOT_EQUAL"] = "!=" /\ RelationOf["NOT_EQUAL_NOCASE"] = "!="
  /\ RelationOf["REGEX"] = "REGEXP" /\ RelationOf["REGEX_NOCASE"] = "REGEXP"
  /\ RelationOf["NOT_REGEX"] = "NOT REGEXP" /\ RelationOf["NOT_REGEX_NOCASE"] = "NOT REGEXP"
  /\ RelationOf["GREATER"] = ">" /\ RelationOf["GREATER_OR_EQUAL"] = ">="
  /\ RelationOf["LESSER"] = "<" /\ RelationOf["LESSER_OR_EQUAL"] = "<="
  BY DEF RelationOf

\* The relation of an operator and its value, against what it means.
Agrees(b, op, val, v, x) ==
  Related(b, RelationOf[op], Cased(op, x), Cased(op, v)) <=> (Base(op, val, x) <=> op \notin NotOperators)

\* Equality and regular expressions of texts.
LEMMA TextAgrees ==
  ASSUME NEW b, NEW op \in EqualOperators \cup RegexOperators, NEW val, NEW x,
         val.type \notin {"time", "broken down"}
  PROVE  Agrees(b, op, val, val.v, x)
  <1> DEFINE y == Cased(op, x)
             w == Cased(op, val.v)
  <1>1. CASE op \in EqualOperators
    <2>1. Base(op, val, x) <=> y = w
      <3>1. op \notin SubstrOperators /\ op \notin RegexOperators
        BY <1>1 DEF EqualOperators, SubstrOperators, RegexOperators
      <3>2. val.type # "time" /\ val.type # "broken down"
        OBVIOUS
      <3>3. QED BY <3>1, <3>2, Zenon DEF Base, Cased
    <2>2. CASE op \in NotOperators
      <3>1. RelationOf[op] = "!="
        BY <1>1, <2>2, RelationEntries DEF EqualOperators, NotOperators
      <3>2. Related(b, RelationOf[op], y, w) <=> y # w
        BY <3>1, UnequalRelation
      <3>3. QED BY <2>1, <2>2, <3>2, Zenon DEF Agrees
    <2>3. CASE op \notin NotOperators
      <3>1. RelationOf[op] = "="
        BY <1>1, <2>3, RelationEntries DEF EqualOperators, NotOperators
      <3>2. Related(b, RelationOf[op], y, w) <=> y = w
        BY <3>1, EqualRelation
      <3>3. QED BY <2>1, <2>3, <3>2, Zenon DEF Agrees
    <2>4. QED BY <2>2, <2>3
  <1>2. CASE op \in RegexOperators
    <2>1. Base(op, val, x) <=> Found(w, y)
      <3>1. op \notin SubstrOperators
        BY <1>2 DEF SubstrOperators, RegexOperators
      <3>2. val.type # "time" /\ val.type # "broken down"
        OBVIOUS
      <3>3. QED BY <1>2, <3>1, <3>2, Zenon DEF Base, Cased
    <2>2. CASE op \in NotOperators
      <3>1. RelationOf[op] = "NOT REGEXP"
        BY <1>2, <2>2, RelationEntries DEF RegexOperators, NotOperators
      <3>2. Related(b, RelationOf[op], y, w) <=> ~Found(w, y)
        BY <3>1, RegexRelations, Zenon
      <3>3. QED BY <2>1, <2>2, <3>2, Zenon DEF Agrees
    <2>3. CASE op \notin NotOperators
      <3>1. RelationOf[op] = "REGEXP"
        BY <1>2, <2>3, RelationEntries DEF RegexOperators, NotOperators
      <3>2. Related(b, RelationOf[op], y, w) <=> Found(w, y)
        BY <3>1, RegexRelations, Zenon
      <3>3. QED BY <2>1, <2>3, <3>2, Zenon DEF Agrees
    <2>4. QED BY <2>2, <2>3
  <1>3. QED BY <1>1, <1>2

\* Comparisons of times.
LEMMA TimeAgrees ==
  ASSUME NEW b, NEW op \in OrderOperators \cup {"EQUAL", "NOT_EQUAL"}, NEW val, NEW x,
         val.type = "time"
  PROVE  Agrees(b, op, val, val.v.sec, x)
  <1> DEFINE sec == val.v.sec
  <1>1. op \notin NocaseOperators
    BY DEF OrderOperators, NocaseOperators
  <1>2. Cased(op, x) = x /\ Cased(op, sec) = sec
    BY <1>1 DEF Cased
  <1>3. Base(op, val, x) <=> TimeBase(op, x, sec)
    <2>1. op \notin SubstrOperators /\ op \notin RegexOperators
      BY DEF OrderOperators, SubstrOperators, RegexOperators
    <2>2. val.type # "broken down"
      OBVIOUS
    <2>3. QED BY <2>1, <2>2, Zenon DEF Base
  <1>4. SUFFICES Related(b, RelationOf[op], x, sec) <=> (TimeBase(op, x, sec) <=> op \notin NotOperators)
    BY <1>2, <1>3, Zenon DEF Agrees
  <1>5. op \in NotOperators <=> op = "NOT_EQUAL"
    BY DEF OrderOperators, NotOperators
  <1>6. CASE op = "EQUAL"
    <2>1. TimeBase(op, x, sec) <=> x = sec
      BY <1>6, Zenon DEF TimeBase
    <2>2. Related(b, RelationOf[op], x, sec) <=> x = sec
      <3>1. RelationOf[op] = "="
        BY <1>6, RelationEntries, Zenon
      <3>2. QED BY <3>1, EqualRelation, Zenon
    <2>3. QED BY <1>5, <1>6, <2>1, <2>2
  <1>7. CASE op = "NOT_EQUAL"
    <2>1. TimeBase(op, x, sec) <=> x = sec
      BY <1>7, Zenon DEF TimeBase
    <2>2. Related(b, RelationOf[op], x, sec) <=> x # sec
      BY <1>7, RelationEntries, UnequalRelation
    <2>3. QED BY <1>5, <1>7, <2>1, <2>2
  <1>8. CASE op = "GREATER"
    <2>1. TimeBase(op, x, sec) <=> x > sec
      BY <1>8, Zenon DEF TimeBase
    <2>2. Related(b, RelationOf[op], x, sec) <=> x > sec
      BY <1>8, RelationEntries, NumberRelations, Zenon
    <2>3. QED BY <1>5, <1>8, <2>1, <2>2, Zenon
  <1>9. CASE op = "GREATER_OR_EQUAL"
    <2>1. TimeBase(op, x, sec) <=> x >= sec
      BY <1>9, Zenon DEF TimeBase
    <2>2. Related(b, RelationOf[op], x, sec) <=> x >= sec
      BY <1>9, RelationEntries, NumberRelations, Zenon
    <2>3. QED BY <1>5, <1>9, <2>1, <2>2, Zenon
  <1>10. CASE op = "LESSER"
    <2>1. TimeBase(op, x, sec) <=> x < sec
      BY <1>10, Zenon DEF TimeBase
    <2>2. Related(b, RelationOf[op], x, sec) <=> x < sec
      BY <1>10, RelationEntries, NumberRelations, Zenon
    <2>3. QED BY <1>5, <1>10, <2>1, <2>2, Zenon
  <1>11. CASE op = "LESSER_OR_EQUAL"
    <2>1. TimeBase(op, x, sec) <=> x <= sec
      BY <1>11, Zenon DEF TimeBase
    <2>2. Related(b, RelationOf[op], x, sec) <=> x <= sec
      BY <1>11, RelationEntries, NumberRelations, Zenon
    <2>3. QED BY <1>5, <1>11, <2>1, <2>2, Zenon
  <1>12. QED BY <1>6, <1>7, <1>8, <1>9, <1>10, <1>11 DEF OrderOperators

\* A comparison, with the fields that are NULL added to a negation, selects what the
\* criterion means.
LEMMA CompareMeans ==
  ASSUME NEW b \in Backend, NEW op \in CompareOperators, NEW val, NEW v, NEW field,
         ~(b = "mysql" /\ op \in {"NOT_REGEX", "NOT_REGEX_NOCASE"}),
         Constraint(b, op, val) = build_constraint_string(b, op, v),
         field = <<>> \/ \E x : field = <<x>> /\ Agrees(b, op, val, v, x)
  PROVE  /\ build_criterion_string(b, op, val) # <<>>
         /\ Selects(b, build_criterion_string(b, op, val)[1], field) <=> Means(op, val, field)
  <1>1. PICK t : /\ build_constraint_string(b, op, v) = <<Condition({t})>>
                 /\ t.test = "compare"
                 /\ \A x : Holds(b, t, x) <=> Related(b, RelationOf[op], Cased(op, x), Cased(op, v))
    BY ConstraintBuilt
  <1> DEFINE cond == [Condition({t}) EXCEPT !.or_null = op \in NotOperators]
  <1>2. op # "NULL" /\ op # "NOT_NULL"
    BY DEF CompareOperators, EqualOperators, RegexOperators, OrderOperators
  <1>3. build_criterion_string(b, op, val) = <<cond>>
    BY <1>1, <1>2, One, Zenon DEF build_criterion_string
  <1>4. cond.tests = {t} /\ (cond.or_null <=> op \in NotOperators) /\ ~cond.not
    BY DEF Condition
  <1>5. ASSUME NEW x
        PROVE  /\ Selects(b, cond, <<>>) <=> op \in NotOperators
               /\ Selects(b, cond, <<x>>) <=> Holds(b, t, x)
    <2>1. \A s \in {t} : s.test \notin {"null", "not null"}
      BY <1>1
    <2> HIDE DEF cond
    <2>2. QED BY <1>4, <2>1, SelectsTests
  <1>6. CASE field = <<>>
    <2>1. Means(op, val, field) <=> op \in NotOperators
      BY <1>2, <1>6 DEF Means
    <2>2. QED BY <1>3, <1>5, <1>6, <2>1, One
  <1>7. CASE \E x : field = <<x>> /\ Agrees(b, op, val, v, x)
    <2>1. PICK x : field = <<x>> /\ Agrees(b, op, val, v, x)
      BY <1>7
    <2>2. Means(op, val, field) <=> (Base(op, val, x) <=> op \notin NotOperators)
      BY <1>2, <2>1, One, Zenon DEF Means
    <2>3. QED BY <1>1, <1>3, <1>5, <2>1, <2>2, One, Zenon DEF Agrees
  <1>8. QED BY <1>6, <1>7
-----------------------------------------------------------------------------
(***************************************************************************)
(* Broken-down times                                                       *)
(***************************************************************************)

\* A time has this part of a broken-down time.
HasPart(lt, x, p) == x[p] = (IF p = "tm_wday" THEN lt[p] % 7 ELSE lt[p])

\* The part of a time, as the test of every plugin asks for it.
LEMMA PartHolds ==
  ASSUME NEW b \in Backend, NEW lt \in [TmFields -> Int], NEW x \in [TmFields -> Int],
         NEW p \in TmFields, lt[p] # -1, ~(b = "pgsql" /\ p = "tm_wday")
  PROVE  /\ build_time_constraint_string(b, p, PartValue(lt, p)).test = "part"
         /\ Holds(b, build_time_constraint_string(b, p, PartValue(lt, p)), x)
              <=> HasPart(lt, x, p)
  <1> USE DEF HasPart
  <1> DEFINE value(n) == IF p = "tm_wday" THEN (IF b = "sqlite3" THEN n % 7 ELSE (n % 7) + 1) ELSE n
             t == build_time_constraint_string(b, p, PartValue(lt, p))
             pv == PartValue(lt, p)
  <1>1. t = PartTest(p, value(pv))
    <2>1. CASE b = "mysql"
      BY <2>1, PluginFunctions DEF mysql_time_constraint
    <2>2. CASE b = "pgsql"
      BY <2>2, PluginFunctions DEF pgsql_time_constraint
    <2>3. CASE b = "sqlite3"
      BY <2>3, PluginFunctions DEF sqlite3_time_constraint
    <2>4. QED BY <2>1, <2>2, <2>3 DEF Backend
  <1>2. t.test = "part" /\ t.part = p /\ t.value = value(pv)
    BY <1>1 DEF PartTest
  <1>3. Holds(b, t, x) <=> Extract(b, p, x) = value(pv)
    <2> HIDE DEF t, value, pv
    <2>1. QED BY <1>2 DEF Holds
  <1>4. x[p] \in Int /\ lt[p] \in Int
    OBVIOUS
  <1>5. CASE p = "tm_year"
    <2>1. pv = lt[p] + 1900 /\ Extract(b, p, x) = x[p] + 1900
      BY <1>5, Zenon DEF PartValue, Extract
    <2>2. value(pv) = pv
      BY <1>5
    <2>3. QED BY <1>2, <1>3, <1>4, <1>5, <2>1, <2>2
  <1>6. CASE p = "tm_mon"
    <2>1. pv = lt[p] + 1 /\ Extract(b, p, x) = x[p] + 1
      BY <1>6, Zenon DEF PartValue, Extract
    <2>2. value(pv) = pv
      BY <1>6
    <2>3. QED BY <1>2, <1>3, <1>4, <1>6, <2>1, <2>2
  <1>7. CASE p = "tm_wday"
    <2>1. pv = lt[p] /\ Extract(b, p, x) = IF b = "mysql" THEN x[p] + 1 ELSE x[p]
      BY <1>7, Zenon DEF PartValue, Extract
    <2>2. value(pv) = IF b = "mysql" THEN (lt[p] % 7) + 1 ELSE lt[p] % 7
      <3>1. CASE b = "mysql"
        BY <1>7, <2>1, <3>1
      <3>2. CASE b = "sqlite3"
        BY <1>7, <2>1, <3>2
      <3>3. QED BY <1>7, <3>1, <3>2 DEF Backend
    <2>3. QED BY <1>2, <1>3, <1>4, <1>7, <2>1, <2>2
  <1>8. CASE p \notin {"tm_year", "tm_mon", "tm_wday"}
    <2>1. pv = lt[p] /\ Extract(b, p, x) = x[p]
      <3>1. CASE p = "tm_yday"
        BY <3>1, Zenon DEF PartValue, Extract
      <3>2. CASE p = "tm_mday"
        BY <3>2, Zenon DEF PartValue, Extract
      <3>3. CASE p = "tm_hour"
        BY <3>3, Zenon DEF PartValue, Extract
      <3>4. CASE p = "tm_min"
        BY <3>4, Zenon DEF PartValue, Extract
      <3>5. CASE p = "tm_sec"
        BY <3>5, Zenon DEF PartValue, Extract
      <3>6. QED BY <1>8, <3>1, <3>2, <3>3, <3>4, <3>5 DEF TmFields
    <2>2. value(pv) = pv
      BY <1>8
    <2>3. QED BY <1>2, <1>3, <1>4, <1>8, <2>1, <2>2
  <1>9. QED BY <1>5, <1>6, <1>7, <1>8

\* A broken-down time selects the times that have its fields, or have not; NULL
\* fields are no times, and are selected by the negation.
LEMMA BrokenDownMeans ==
  ASSUME NEW b \in Backend, NEW op \in {"EQUAL", "NOT_EQUAL"}, NEW lt \in BrokenDown, NEW val,
         val.type = "broken down", val.v = lt, ~(b = "pgsql" /\ lt.tm_wday # -1),
         NEW field, field = <<>> \/ \E x \in Moments : field = <<x>>
  PROVE  /\ build_criterion_string(b, op, val) # <<>>
         /\ Selects(b, build_criterion_string(b, op, val)[1], field) <=> Means(op, val, field)
  <1> DEFINE set == {p \in TmFields : lt[p] # -1}
             T == {build_time_constraint_string(b, p, PartValue(lt, p)) : p \in set}
             neg == op = "NOT_EQUAL"
  <1>1. lt \in [TmFields -> Int] /\ set # {} /\ Moments \subseteq [TmFields -> Int]
    BY TmAssumption
  <1>2. op \in NotOperators <=> neg
    BY DEF NotOperators
  <1>3. build_criterion_string(b, op, val) = <<[BrokenDownTime(b, op, lt)[1] EXCEPT !.or_null = op \in NotOperators]>>
        /\ BrokenDownTime(b, op, lt) = <<IF neg THEN [BrokenDownTimeEqual(b, lt) EXCEPT !.not = TRUE]
                                          ELSE BrokenDownTimeEqual(b, lt)>>
    <2>1. op # "NULL" /\ op # "NOT_NULL" /\ (op # "EQUAL" => op = "NOT_EQUAL") /\ (neg => op # "EQUAL")
      OBVIOUS
    <2>2. BrokenDownTime(b, op, lt) = <<IF neg THEN [BrokenDownTimeEqual(b, lt) EXCEPT !.not = TRUE]
                                         ELSE BrokenDownTimeEqual(b, lt)>>
      <3>1. CASE op = "EQUAL"
        BY <2>1, <3>1, Zenon DEF BrokenDownTime
      <3>2. CASE op = "NOT_EQUAL"
        BY <2>1, <3>2, Zenon DEF BrokenDownTime
      <3>3. QED BY <2>1, <3>1, <3>2
    <2>3. Constraint(b, op, val) = BrokenDownTime(b, op, lt)
      BY Zenon DEF Constraint
    <2>4. BrokenDownTime(b, op, lt) # <<>>
      BY <2>2, One
    <2>5. QED BY <2>1, <2>2, <2>3, <2>4, Zenon DEF build_criterion_string
  <1>4. BrokenDownTimeEqual(b, lt) = [or_null |-> FALSE, not |-> FALSE, tests |-> T]
    BY DEF BrokenDownTimeEqual, Condition
  <1>5. PICK c : /\ build_criterion_string(b, op, val) = <<c>>
                 /\ c.tests = T /\ (c.or_null <=> neg) /\ (c.not <=> neg)
    <2> HIDE DEF T
    <2> DEFINE e == [or_null |-> FALSE, not |-> FALSE, tests |-> T]
               d0 == [e EXCEPT !.or_null = op \in NotOperators]
               d1 == [[e EXCEPT !.not = TRUE] EXCEPT !.or_null = op \in NotOperators]
    <2>1. d0.tests = T /\ (d0.or_null <=> op \in NotOperators) /\ ~d0.not
      OBVIOUS
    <2>2. d1.tests = T /\ (d1.or_null <=> op \in NotOperators) /\ d1.not
      OBVIOUS
    <2>3. CASE neg
      <3>1. BrokenDownTime(b, op, lt)[1] = [e EXCEPT !.not = TRUE]
        BY <1>3, <1>4, <2>3, One
      <3>2. build_criterion_string(b, op, val) = <<d1>>
        BY <1>3, <3>1, Zenon
      <3>3. QED BY <1>2, <2>2, <2>3, <3>2
    <2>4. CASE ~neg
      <3>1. BrokenDownTime(b, op, lt)[1] = e
        BY <1>3, <1>4, <2>4, One
      <3>2. build_criterion_string(b, op, val) = <<d0>>
        BY <1>3, <3>1, Zenon
      <3>3. QED BY <1>2, <2>1, <2>4, <3>2
    <2>5. QED BY <2>3, <2>4
  <1>6. ASSUME NEW p \in set
        PROVE  ~(b = "pgsql" /\ p = "tm_wday")
    BY <1>1
  <1>7. \A t \in T : t.test \notin {"null", "not null"}
    BY <1>1, <1>6, PartHolds
  <1>8. T # {}
    BY <1>1
  <1>9. CASE field = <<>>
    <2>1. Selects(b, c, field) <=> neg
      BY <1>5, <1>7, <1>8, <1>9, SelectsTests
    <2>2. Means(op, val, field) <=> op \in NotOperators
      BY <1>9 DEF Means
    <2>3. QED BY <1>2, <1>5, <2>1, <2>2, One
  <1>10. CASE \E x \in Moments : field = <<x>>
    <2>1. PICK x \in Moments : field = <<x>>
      BY <1>10
    <2>2. Base(op, val, x) <=> \A p \in TmFields : lt[p] = -1 \/ x[p] = (IF p = "tm_wday" THEN lt[p] % 7 ELSE lt[p])
      <3>1. val.type # "time" /\ op \notin SubstrOperators /\ op \notin RegexOperators
        BY DEF SubstrOperators, RegexOperators
      <3>2. QED BY <3>1, Zenon DEF Base
    <2>3. (\A t \in T : Holds(b, t, x)) <=> Base(op, val, x)
      <3>1. ASSUME NEW p \in set
            PROVE  Holds(b, build_time_constraint_string(b, p, PartValue(lt, p)), x) <=> HasPart(lt, x, p)
        <4>1. x \in [TmFields -> Int] /\ p \in TmFields /\ lt[p] # -1
          BY <1>1, <2>1
        <4>2. QED BY <1>1, <1>6, <4>1, PartHolds
      <3>2. QED BY <2>2, <3>1 DEF HasPart
    <2>4. Selects(b, c, field) <=> (Base(op, val, x) <=> ~neg)
      BY <1>5, <1>7, <1>8, <2>1, <2>3, SelectsTests
    <2>5. Means(op, val, field) <=> (Base(op, val, x) <=> op \notin NotOperators)
      <3>1. op # "NULL" /\ op # "NOT_NULL"
        OBVIOUS
      <3>2. QED BY <2>1, <3>1, One, Zenon DEF Means
    <2>6. QED BY <1>2, <1>5, <2>4, <2>5, One
  <1>11. QED BY <1>9, <1>10
-----------------------------------------------------------------------------
(***************************************************************************)
(* Criteria                                                                *)
(***************************************************************************)

\* The criteria a client may give, LIKE and what is never built aside.
Askable(op, val) ==
  \/ val.type = "text" /\ op \in EqualOperators \cup NullOperators
  \/ val.type = "regex" /\ op \in RegexOperators
  \/ val.type = "time" /\ op \in OrderOperators \cup {"EQUAL", "NOT_EQUAL"}
  \/ val.type = "broken down" /\ op \in {"EQUAL", "NOT_EQUAL"} /\ val.v \in BrokenDown

\* A criterion is built and selects what it means, whatever the plugin.
LEMMA CriterionMeans ==
  ASSUME NEW op, NEW val, NEW field, NEW b \in Backend, Askable(op, val),
         ~(b = "mysql" /\ op \in {"NOT_REGEX", "NOT_REGEX_NOCASE"}),
         ~(val.type = "broken down" /\ b = "pgsql" /\ val.v.tm_wday # -1),
         field = <<>> \/ \E x : field = <<x>> /\ (val.type = "broken down" => x \in Moments)
  PROVE  /\ build_criterion_string(b, op, val) # <<>>
         /\ Selects(b, build_criterion_string(b, op, val)[1], field) <=> Means(op, val, field)
  <1>1. CASE val.type = "text" /\ op \in EqualOperators
    <2>1. op \notin SubstrOperators /\ op \in CompareOperators
      BY <1>1 DEF EqualOperators, SubstrOperators, CompareOperators
    <2>2. val.type # "time" /\ val.type # "regex" /\ val.type # "broken down"
      BY <1>1
    <2>3. Constraint(b, op, val) = FixedValue(b, op, val)
      BY <1>1, Zenon DEF Constraint
    <2>4. Constraint(b, op, val) = build_constraint_string(b, op, val.v)
      BY <2>1, <2>2, <2>3, Zenon DEF FixedValue, FixedSqlValue
    <2>5. \A x : Agrees(b, op, val, val.v, x)
      BY <1>1, <2>2, TextAgrees
    <2>6. QED BY <2>1, <2>4, <2>5, CompareMeans
  <1>2. CASE val.type = "regex" /\ op \in RegexOperators
    <2>1. op \in CompareOperators
      BY <1>2 DEF CompareOperators
    <2>2. val.type # "time" /\ val.type # "broken down"
      BY <1>2
    <2>3. Constraint(b, op, val) = build_constraint_string(b, op, val.v)
      BY <1>2, Zenon DEF Constraint, Regex
    <2>4. \A x : Agrees(b, op, val, val.v, x)
      BY <1>2, <2>2, TextAgrees
    <2>5. QED BY <2>1, <2>3, <2>4, CompareMeans
  <1>3. CASE val.type = "time" /\ op \in OrderOperators \cup {"EQUAL", "NOT_EQUAL"}
    <2>1. op \in CompareOperators
      BY <1>3 DEF CompareOperators, EqualOperators
    <2>2. Constraint(b, op, val) = FixedValue(b, op, val)
      BY <1>3, Zenon DEF Constraint
    <2>3. Constraint(b, op, val) = build_constraint_string(b, op, val.v.sec)
      BY <1>3, <2>2, Zenon DEF FixedValue, FixedSqlValue, Timestamp
    <2>4. \A x : Agrees(b, op, val, val.v.sec, x)
      BY <1>3, TimeAgrees
    <2>5. QED BY <2>1, <2>3, <2>4, CompareMeans
  <1>4. CASE val.type = "broken down" /\ op \in {"EQUAL", "NOT_EQUAL"} /\ val.v \in BrokenDown
    <2>1. ~(b = "pgsql" /\ val.v.tm_wday # -1)
      BY <1>4
    <2>2. field = <<>> \/ \E x \in Moments : field = <<x>>
      BY <1>4
    <2>3. QED BY <1>4, <2>1, <2>2, BrokenDownMeans
  <1>5. CASE val.type = "text" /\ op \in NullOperators
    <2>1. CASE op = "NULL"
      <3>1. build_criterion_string(b, op, val) = <<Condition({[test |-> "null"]})>>
        BY <2>1 DEF build_criterion_string
      <3>2. Means(op, val, field) <=> field = <<>>
        BY <2>1 DEF Means
      <3>3. QED BY <3>1, <3>2, SelectsNull, One
    <2>2. CASE op = "NOT_NULL"
      <3>1. build_criterion_string(b, op, val) = <<Condition({[test |-> "not null"]})>>
        BY <2>2 DEF build_criterion_string
      <3>2. Means(op, val, field) <=> field # <<>>
        BY <2>2 DEF Means
      <3>3. QED BY <3>1, <3>2, SelectsNull, One
    <2>3. QED BY <1>5, <2>1, <2>2 DEF NullOperators
  <1>6. QED BY <1>1, <1>2, <1>3, <1>4, <1>5 DEF Askable

\* What is invariant about a criterion: the client that gave one gives no other.
CriterionInv ==
  /\ backend \in Backend
  /\ request.what = "criterion" => client = "criterion" /\ CriterionSelects

\* The answer to a criterion is the fields it means.
LEMMA AskStep ==
  ASSUME NEW op, NEW val, NEW nulls, nulls \subseteq {<<>>}, backend \in Backend, Ask(op, val, nulls),
         \/ Askable(op, val) \/ op \in SubstrOperators
         \/ val.type = "broken down" /\ op = "GREATER"
  PROVE  CriterionInv'
  <1>1. /\ request' = [what |-> "criterion", op |-> op, val |-> val, nulls |-> nulls]
        /\ backend' = backend /\ client' = "criterion"
    BY DEF Ask
  <1>2. request'.op = op /\ request'.val = val /\ request'.nulls = nulls
    BY <1>1
  <1>3. SUFFICES ASSUME op \notin SubstrOperators, ~KnownDeviation(op, val)'
                 PROVE  answer' = {f \in FieldsFor(val.type, nulls) : Means(op, val, f)}
    BY <1>1, <1>2 DEF CriterionInv, CriterionSelects
  <1>4. /\ ~ended' /\ Askable(op, val)
        /\ ~(backend = "mysql" /\ op \in {"NOT_REGEX", "NOT_REGEX_NOCASE"})
        /\ ~(val.type = "broken down" /\ backend = "pgsql" /\ val.v.tm_wday # -1)
    BY <1>1, <1>3 DEF KnownDeviation
  <1> DEFINE built == build_criterion_string(backend, op, val)
             S == FieldsFor(val.type, nulls)
  <1>5. answer' = IF built = <<>> \/ ended' THEN {} ELSE {f \in S : Selects(backend, built[1], f)}
    BY DEF Ask
  <1>6. ASSUME NEW f \in S
        PROVE  f = <<>> \/ \E x : f = <<x>> /\ (val.type = "broken down" => x \in Moments)
    <2>1. CASE val.type = "broken down"
      <3>1. S = nulls \cup {<<x>> : x \in Moments}
        BY <2>1, Zenon DEF FieldsFor
      <3>2. QED BY <3>1
    <2>2. CASE val.type # "broken down"
      <3>1. \E X : S = nulls \cup {<<x>> : x \in X}
        BY Zenon DEF FieldsFor
      <3>2. QED BY <2>2, <3>1
    <2>3. QED BY <2>1, <2>2
  <1>7. ASSUME NEW f \in S
        PROVE  built # <<>> /\ (Selects(backend, built[1], f) <=> Means(op, val, f))
    BY <1>4, <1>6, CriterionMeans
  <1>8. CASE S = {}
    BY <1>5, <1>8
  <1>9. CASE S # {}
    <2>1. built # <<>>
      BY <1>7, <1>9
    <2> HIDE DEF built, S
    <2>2. answer' = {f \in S : Selects(backend, built[1], f)}
      BY <1>4, <1>5, <2>1
    <2>3. QED BY <1>7, <2>2 DEF S
  <1>10. QED BY <1>8, <1>9

\* Every step keeps CriterionInv.
LEMMA CriterionStep ==
  ASSUME CriterionInv, [Next]_vars
  PROVE  CriterionInv'
  <1>0. backend \in Backend
    BY DEF CriterionInv
  <1>1. CASE AskText
    <2>1. PICK op \in EqualOperators \cup SubstrOperators \cup NullOperators, v \in Patterns :
            Ask(op, [type |-> "text", v |-> v], {<<>>})
      BY <1>1 DEF AskText
    <2>2. Askable(op, [type |-> "text", v |-> v]) \/ op \in SubstrOperators
      BY DEF Askable
    <2>3. QED BY <1>0, <2>1, <2>2, AskStep
  <1>2. CASE AskRegex
    <2>1. PICK op \in RegexOperators, v \in Texts, nulls \in {{}, {<<>>}} :
            Ask(op, [type |-> "regex", v |-> v], nulls)
      BY <1>2 DEF AskRegex
    <2>2. Askable(op, [type |-> "regex", v |-> v])
      BY DEF Askable
    <2>3. QED BY <1>0, <2>1, <2>2, AskStep
  <1>3. CASE AskTime
    <2>1. PICK op \in OrderOperators \cup {"EQUAL", "NOT_EQUAL"}, s \in Seconds :
            Ask(op, [type |-> "time", v |-> [sec |-> s]], {<<>>})
      BY <1>3 DEF AskTime
    <2>2. Askable(op, [type |-> "time", v |-> [sec |-> s]])
      BY DEF Askable
    <2>3. QED BY <1>0, <2>1, <2>2, AskStep
  <1>4. CASE AskBrokenDown
    <2>1. PICK op \in {"EQUAL", "NOT_EQUAL", "GREATER"}, lt \in BrokenDown :
            Ask(op, [type |-> "broken down", v |-> lt], {<<>>})
      BY <1>4 DEF AskBrokenDown
    <2>2. Askable(op, [type |-> "broken down", v |-> lt]) \/ op = "GREATER"
      BY DEF Askable
    <2>3. [type |-> "broken down", v |-> lt].type = "broken down"
      OBVIOUS
    <2>4. QED BY <1>0, <2>1, <2>2, <2>3, AskStep
  <1>5. ASSUME backend' = backend, client' = client, client # "criterion", request'.what # "criterion"
        PROVE  CriterionInv'
    BY <1>0, <1>5 DEF CriterionInv
  <1>6. ASSUME NEW pairs \in Written, NEW tail \in Tails, NewSettings(pairs, tail)
        PROVE  CriterionInv'
    BY <1>5, <1>6 DEF NewSettings
  <1>7. ASSUME NEW sel \in Selections, AddSelected(sel)
        PROVE  CriterionInv'
    <2>1. request' = [what |-> "selection", sel |-> sel] /\ backend' = backend /\ client' = client
          /\ client = "selection"
      BY <1>7 DEF AddSelected
    <2>2. QED BY <1>5, <2>1
  <1>8. ASSUME NEW kind, NEW op, NEW v, NEW order, NEW limit, NextPage(kind, op, v, order, limit)
        PROVE  CriterionInv'
    <2>1. /\ request' = [what |-> "page", kind |-> kind, op |-> op, v |-> v, order |-> order]
          /\ backend' = backend /\ client' = client /\ client = "pages"
      BY <1>8 DEF NextPage
    <2>2. QED BY <1>5, <2>1
  <1>9. ASSUME NEW string \in StringValues, StoreString(string)
        PROVE  CriterionInv'
    BY <1>5, <1>9 DEF StoreString
  <1>10. ASSUME NEW d \in DataValues, StoreData(d.adtype, d.data)
         PROVE  CriterionInv'
    BY <1>5, <1>10 DEF StoreData
  <1>11. ASSUME NEW time \in TimeValues, NEW has_usec \in BOOLEAN, StoreTime(time, has_usec)
         PROVE  CriterionInv'
    BY <1>5, <1>11 DEF StoreTime
  <1>12. CASE UNCHANGED vars
    BY <1>12 DEF vars, CriterionInv, CriterionSelects, KnownDeviation
  <1>13. QED
    BY <1>1, <1>2, <1>3, <1>4, <1>6, <1>7, <1>8, <1>9, <1>10, <1>11, <1>12 DEF Next

\* A criterion selects the fields it means with every SQL plugin, whatever the texts,
\* patterns and times, the known deviations aside: CriterionSelects of every
\* specification of a client.
THEOREM CriterionCorrect == Spec => []CriterionSelects
  <1>1. Init => CriterionInv
    BY DEF Init, CriterionInv, NoRequest
  <1>2. CriterionInv /\ [Next]_vars => CriterionInv'
    BY CriterionStep
  <1>3. CriterionInv => CriterionSelects
    BY DEF CriterionInv, CriterionSelects
  <1>4. QED BY <1>1, <1>2, <1>3, PTL DEF Spec

-----------------------------------------------------------------------------
(***************************************************************************)
(* Numbers and sequences                                                   *)
(***************************************************************************)

\* Induction, for a set of numbers.
LEMMA Induction ==
  ASSUME NEW S, 0 \in S, \A n \in Nat : n \in S => n + 1 \in S
  PROVE  \A n \in Nat : n \in S
  <1> SUFFICES ASSUME NEW m \in Nat, m \notin S PROVE FALSE
    OBVIOUS
  <1> DEFINE T == Nat \ S
  <1>1. PICK x \in T : \A y \in T : ~(<<y, x>> \in OpToRel(<, Nat))
    BY NatLessThanWellFounded, WFMin, Zenon
  <1>2. \A y \in T : ~(y < x)
    BY <1>1 DEF OpToRel
  <1>3. x # 0 /\ x - 1 \in Nat /\ x - 1 < x
    OBVIOUS
  <1>4. x - 1 \in S
    BY <1>2, <1>3
  <1>5. QED BY <1>3, <1>4

\* The elements of a concatenation.
LEMMA ConcatAt ==
  ASSUME NEW V, NEW a \in Seq(V), NEW b \in Seq(V)
  PROVE  /\ a \o b \in Seq(V) /\ Len(a \o b) = Len(a) + Len(b) /\ Len(a) \in Nat /\ Len(b) \in Nat
         /\ \A q \in 1..Len(a) : (a \o b)[q] = a[q]
         /\ \A k \in 1..Len(b) : Len(a) + k \in 1..Len(a) + Len(b) /\ (a \o b)[Len(a) + k] = b[k]
  OBVIOUS

\* FlattenSeq appends one sequence after the other.
LEMMA FlattenSteps ==
  ASSUME NEW V, NEW n \in Nat, NEW s \in [1..n -> Seq(V)]
  PROVE  \E F : /\ F[0] = <<>> /\ FlattenSeq(s) = F[n]
                /\ \A i \in 1..n : F[i] = F[i - 1] \o s[i]
  <1> DEFINE Body(f, i) == IF i = 1 THEN s[i] ELSE f[i - 1] \o s[i]
             IsF(f, m) == f = [i \in 1..m |-> Body(f, i)]
             flatten == CHOOSE f : IsF(f, n)
  <1>1. s \in Seq(Seq(V)) /\ Len(s) = n
    OBVIOUS
  <1>2. \E f : IsF(f, n)
    <2> DEFINE Has(m) == \E f : IsF(f, m)
               S == {m \in Nat : m <= n => Has(m)}
    <2>1. Has(0)
      <3>1. IsF([i \in 1..0 |-> <<>>], 0)
        OBVIOUS
      <3> HIDE DEF IsF
      <3>2. QED BY <3>1
    <2>2. ASSUME NEW m \in Nat, Has(m)
          PROVE  Has(m + 1)
      <3> HIDE DEF IsF
      <3>1. PICK f : IsF(f, m)
        BY <2>2
      <3> DEFINE g == [i \in 1..m + 1 |-> IF i = m + 1 THEN Body(f, i) ELSE f[i]]
      <3>2. \A i \in 1..m : f[i] = Body(f, i)
        BY <3>1, Zenon DEF IsF
      <3>3. ASSUME NEW i \in 1..m + 1
            PROVE  g[i] = Body(g, i)
        <4>1. CASE i = m + 1
          <5>1. i # 1 => i - 1 \in 1..m + 1 /\ i - 1 # m + 1
            BY <4>1
          <5>2. QED BY <4>1, <5>1
        <4>2. CASE i # m + 1
          <5>1. i \in 1..m
            BY <4>2
          <5>2. i # 1 => i - 1 \in 1..m + 1 /\ i - 1 # m + 1
            BY <5>1
          <5>3. QED BY <3>2, <4>2, <5>1, <5>2
        <4>3. QED BY <4>1, <4>2
      <3>4. IsF(g, m + 1)
        BY <3>3, Zenon DEF IsF
      <3>5. QED BY <3>4, Zenon
    <2>3. Has(n)
      <3> HIDE DEF Has
      <3>1. 0 \in S /\ \A m \in Nat : m \in S => m + 1 \in S
        BY <2>1, <2>2
      <3> HIDE DEF S
      <3>2. n \in S
        BY <3>1, Induction
      <3>3. QED BY <3>2 DEF S
    <2>4. QED BY <2>3, Zenon
  <1>3. IsF(flatten, n)
    BY <1>2, Zenon
  <1> DEFINE F == [i \in 0..n |-> IF i = 0 THEN <<>> ELSE flatten[i]]
  <1>4. FlattenSeq(s) = F[n]
    <2>1. CASE n = 0
      BY <1>1, <2>1 DEF FlattenSeq
    <2>2. CASE n # 0
      <3>1. FlattenSeq(s) = flatten[n]
        BY <1>1, <2>2, Zenon DEF FlattenSeq
      <3> HIDE DEF flatten
      <3>2. QED BY <2>2, <3>1
    <2>3. QED BY <2>1, <2>2
  <1>5. \A i \in 1..n : flatten[i] = Body(flatten, i)
    <2> HIDE DEF flatten
    <2>1. QED BY <1>3, Zenon
  <1> HIDE DEF flatten
  <1>6. ASSUME NEW i \in 1..n
        PROVE  F[i] = F[i - 1] \o s[i]
    <2>1. F[i] = Body(flatten, i) /\ s[i] \in Seq(V)
      BY <1>5
    <2>2. CASE i = 1
      <3>1. F[i - 1] = <<>> /\ F[i] = s[i]
        BY <2>1, <2>2
      <3>2. s[i] \in Seq(V)
        BY <2>1
      <3> HIDE DEF F
      <3>3. <<>> \o s[i] = s[i]
        BY <3>2
      <3>4. QED BY <3>1, <3>3
    <2>3. CASE i # 1
      <3>1. F[i - 1] = flatten[i - 1]
        BY <2>3
      <3>2. QED BY <2>1, <2>3, <3>1
    <2>4. QED BY <2>2, <2>3
  <1>7. F[0] = <<>>
    OBVIOUS
  <1> HIDE DEF F
  <1>8. QED BY <1>4, <1>6, <1>7

\* The sequences of s, each after the position where the last one ends.
Placed(s, n, pos) ==
  /\ pos[0] = 0 /\ pos[n] = Len(FlattenSeq(s))
  /\ \A i \in 1..n : /\ pos[i] = pos[i - 1] + Len(s[i]) /\ pos[i] <= pos[n]
                     /\ \A k \in 1..Len(s[i]) : FlattenSeq(s)[pos[i - 1] + k] = s[i][k]

\* Where FlattenSeq puts the elements of the sequences it is given.
LEMMA FlattenAt ==
  ASSUME NEW V, NEW n \in Nat, NEW s \in [1..n -> Seq(V)]
  PROVE  FlattenSeq(s) \in Seq(V) /\ \E pos \in [0..n -> Nat] : Placed(s, n, pos)
  <1>1. PICK F : /\ F[0] = <<>> /\ FlattenSeq(s) = F[n]
                 /\ \A i \in 1..n : F[i] = F[i - 1] \o s[i]
    BY FlattenSteps, Zenon
  <1>2. \A i \in 0..n : F[i] \in Seq(V)
    <2> DEFINE S == {i \in Nat : i <= n => F[i] \in Seq(V)}
    <2>1. 0 \in S
      <3>1. <<>> \in Seq(V)
        OBVIOUS
      <3>2. F[0] \in Seq(V)
        BY <1>1, <3>1, Zenon
      <3>3. QED BY <3>2
    <2>2. ASSUME NEW i \in Nat, i <= n => F[i] \in Seq(V), i + 1 <= n
          PROVE  F[i + 1] \in Seq(V)
      <3>1. i + 1 \in 1..n /\ s[i + 1] \in Seq(V) /\ (i + 1) - 1 = i
        BY <2>2
      <3>2. F[i + 1] = F[i] \o s[i + 1]
        BY <1>1, <3>1
      <3>3. QED BY <2>2, <3>1, <3>2
    <2>3. \A i \in Nat : i \in S => i + 1 \in S
      BY <2>2
    <2> HIDE DEF S
    <2>4. \A i \in Nat : i \in S
      BY <2>1, <2>3, Induction
    <2>5. QED BY <2>4 DEF S
  <1>3. PICK pos \in [0..n -> Nat] : \A i \in 0..n : pos[i] = Len(F[i])
    <2>1. [i \in 0..n |-> Len(F[i])] \in [0..n -> Nat]
      BY <1>2
    <2>2. QED BY <2>1
  <1>4. \A i \in 1..n : /\ i - 1 \in 0..n /\ F[i - 1] \in Seq(V) /\ s[i] \in Seq(V) /\ F[i] = F[i - 1] \o s[i]
                        /\ pos[i] = pos[i - 1] + Len(s[i]) /\ pos[i - 1] = Len(F[i - 1])
    <2>1. SUFFICES ASSUME NEW i \in 1..n
                   PROVE  /\ i - 1 \in 0..n /\ F[i - 1] \in Seq(V) /\ s[i] \in Seq(V) /\ F[i] = F[i - 1] \o s[i]
                          /\ pos[i] = pos[i - 1] + Len(s[i]) /\ pos[i - 1] = Len(F[i - 1])
      OBVIOUS
    <2>2. i - 1 \in 0..n /\ i \in 0..n
      OBVIOUS
    <2>3. F[i - 1] \in Seq(V) /\ s[i] \in Seq(V) /\ F[i] = F[i - 1] \o s[i]
      BY <1>1, <1>2, <2>2
    <2>4. pos[i] = Len(F[i]) /\ pos[i - 1] = Len(F[i - 1])
      BY <1>3, <2>2
    <2>5. QED BY <2>2, <2>3, <2>4
  <1> DEFINE Q(j) == \A i \in 0..j : pos[i] <= pos[j] /\ \A q \in 1..pos[i] : F[j][q] = F[i][q]
  <1>5. \A j \in 0..n : Q(j)
    <2> DEFINE S == {j \in Nat : j <= n => Q(j)}
    <2>1. Q(0)
      BY <1>3
    <2>2. ASSUME NEW j \in Nat, j <= n => Q(j), j + 1 <= n
          PROVE  Q(j + 1)
      <3>1. SUFFICES ASSUME NEW i \in 0..j + 1
                     PROVE  pos[i] <= pos[j + 1] /\ \A q \in 1..pos[i] : F[j + 1][q] = F[i][q]
        OBVIOUS
      <3> HIDE DEF Q
      <3>0. j + 1 <= n /\ j <= n
        BY <2>2
      <3> USE DEF Q
      <3>2. j + 1 \in 1..n /\ (j + 1) - 1 = j /\ j \in 0..n /\ j + 1 \in 0..n
        BY <3>0
      <3>3. /\ F[j] \in Seq(V) /\ s[j + 1] \in Seq(V) /\ F[j + 1] = F[j] \o s[j + 1]
            /\ pos[j + 1] = pos[j] + Len(s[j + 1]) /\ pos[j] = Len(F[j])
        BY <1>4, <3>2
      <3>4. pos[j] <= pos[j + 1] /\ \A q \in 1..pos[j] : F[j + 1][q] = F[j][q]
        <4> HIDE <1>1, <1>3, <1>4, <2>2
        <4>1. \A q \in 1..Len(F[j]) : (F[j] \o s[j + 1])[q] = F[j][q]
          BY <3>3, ConcatAt
        <4>2. Len(s[j + 1]) \in Nat /\ Len(F[j]) \in Nat
          BY <3>3
        <4>3. pos[j] <= pos[j + 1]
          <5> DEFINE l == Len(s[j + 1])
          <5>1. l \in Nat /\ pos[j] \in Nat /\ pos[j + 1] = pos[j] + l
            BY <3>2, <3>3, <4>2
          <5> HIDE DEF l
          <5>2. QED BY <5>1
        <4>4. QED BY <3>3, <4>1, <4>3, Zenon
      <3>5. CASE i = j + 1
        BY <3>2, <3>5
      <3>6. CASE i # j + 1
        <4>1. i \in 0..j /\ pos[i] \in Nat /\ pos[j] \in Nat /\ pos[j + 1] \in Nat
          <5>1. j + 1 <= n
            BY <2>2
          <5>2. i \in 0..j /\ i \in 0..n /\ j \in 0..n /\ j + 1 \in 0..n
            BY <3>6, <5>1
          <5>3. QED BY <5>2
        <4>2. pos[i] <= pos[j] /\ \A q \in 1..pos[i] : F[j][q] = F[i][q]
          <5>1. j <= n
            BY <2>2
          <5>2. QED BY <2>2, <4>1, <5>1, Zenon
        <4>3. QED BY <3>4, <4>1, <4>2
      <3>7. QED BY <3>5, <3>6
    <2> HIDE DEF Q
    <2>3. 0 \in S /\ \A j \in Nat : j \in S => j + 1 \in S
      BY <2>1, <2>2
    <2> HIDE DEF S
    <2>4. \A j \in Nat : j \in S
      BY <2>3, Induction
    <2>5. QED BY <2>4 DEF S
  <1>6. ASSUME NEW i \in 1..n
        PROVE  /\ pos[i] = pos[i - 1] + Len(s[i]) /\ pos[i] <= pos[n]
               /\ \A k \in 1..Len(s[i]) : F[n][pos[i - 1] + k] = s[i][k]
    <2>1. pos[i] <= pos[n] /\ \A q \in 1..pos[i] : F[n][q] = F[i][q]
      BY <1>5
    <2>2. ASSUME NEW k \in 1..Len(s[i])
          PROVE  F[n][pos[i - 1] + k] = s[i][k]
      <3> DEFINE a == F[i - 1]
                 b == s[i]
      <3>1. a \in Seq(V) /\ b \in Seq(V) /\ F[i] = a \o b /\ pos[i] = pos[i - 1] + Len(b) /\ pos[i - 1] = Len(a) /\ k \in 1..Len(b)
        BY <1>4
      <3> HIDE DEF a
      <3>2. pos[i - 1] + k \in 1..pos[i] /\ F[i][pos[i - 1] + k] = b[k]
        <4> HIDE DEF b
        <4>1. Len(a) + k \in 1..Len(a) + Len(b) /\ (a \o b)[Len(a) + k] = b[k]
          BY <3>1, ConcatAt
        <4>2. QED BY <3>1, <4>1
      <3>3. QED BY <2>1, <3>2, Zenon
    <2>3. QED BY <1>4, <2>1, <2>2
  <1>7. pos[0] = 0 /\ pos[n] = Len(F[n]) /\ F[n] \in Seq(V)
    BY <1>1, <1>2, <1>3
  <1>8. Placed(s, n, pos)
    BY <1>1, <1>6, <1>7, Zenon DEF Placed
  <1>9. QED BY <1>1, <1>7, <1>8, Zenon

\* A sequence from an element on.
LEMMA Rest ==
  ASSUME NEW V, NEW t \in Seq(V), NEW j \in 1..Len(t)
  PROVE  <<t[j]>> \o SubSeq(t, j + 1, Len(t)) = SubSeq(t, j, Len(t))
  <1> DEFINE n == Len(t)
             a == SubSeq(t, j + 1, n)
             c == SubSeq(t, j, n)
  <1>1. n \in Nat /\ j \in 1..n
    OBVIOUS
  <1>2. a \in Seq(V) /\ Len(a) = n - j /\ \A i \in 1..n - j : a[i] = t[j + i]
    OBVIOUS
  <1>3. c \in Seq(V) /\ Len(c) = n - j + 1 /\ \A i \in 1..n - j + 1 : c[i] = t[j + i - 1]
    OBVIOUS
  <1>4. t[j] \in V
    OBVIOUS
  <1> HIDE DEF a, c, n
  <1>5. <<t[j]>> \o a \in Seq(V) /\ Len(<<t[j]>> \o a) = n - j + 1
    BY <1>1, <1>2, <1>4
  <1>6. ASSUME NEW i \in 1..n - j + 1
        PROVE  (<<t[j]>> \o a)[i] = c[i]
    <2>1. CASE i = 1
      BY <1>1, <1>2, <1>3, <1>4, <2>1
    <2>2. CASE i # 1
      <3>1. i - 1 \in 1..n - j /\ j + (i - 1) = j + i - 1
        BY <1>1, <2>2
      <3>2. (<<t[j]>> \o a)[i] = a[i - 1]
        BY <1>1, <1>2, <1>4, <3>1
      <3>3. QED BY <1>2, <1>3, <3>1, <3>2
    <2>3. QED BY <2>1, <2>2
  <1>7. <<t[j]>> \o a = c
    BY <1>3, <1>5, <1>6, SeqEqual
  <1>8. QED BY <1>7 DEF a, c, n

-----------------------------------------------------------------------------
(***************************************************************************)
(* A bytea, out and in                                                     *)
(***************************************************************************)

\* What ByteaOut makes of a byte.
Piece(c) ==
  IF c = Backslash THEN <<c, c>>
  ELSE IF c \in 32..126 THEN <<c>>
  ELSE <<Backslash, 48 + (c \div 64), 48 + ((c \div 8) % 8), 48 + (c % 8)>>

\* What ByteaIn makes of a text from a position on, given what it makes of the rest.
Unescape(text, from, i) ==
  IF i > Len(text) THEN <<>>
  ELSE IF text[i] # Backslash THEN <<text[i]>> \o from[i + 1]
  ELSE IF i + 1 <= Len(text) /\ text[i + 1] = Backslash THEN <<Backslash>> \o from[i + 2]
  ELSE IF i + 3 <= Len(text) /\ \A k \in 1..3 : text[i + k] \in 48..55
  THEN <<64 * (text[i + 1] - 48) + 8 * (text[i + 2] - 48) + text[i + 3] - 48>> \o from[i + 4]
  ELSE from[i + 1]

\* ByteaIn reads a text from its end.
LEMMA ByteaFrom ==
  ASSUME NEW V, NEW text \in Seq(V)
  PROVE  \E f : ByteaIn(text) = f[1] /\ \A i \in 1..Len(text) + 1 : f[i] = Unescape(text, f, i)
  <1> DEFINE n == Len(text)
             IsF(f, m) == f = [i \in m..n + 1 |-> Unescape(text, f, i)]
             Has(m) == \E f : IsF(f, m)
             S == {m \in Nat : m <= n + 1 => Has(n + 2 - m)}
             from == CHOOSE f : IsF(f, 1)
  <1>0. n \in Nat
    OBVIOUS
  <1>1. Has(n + 2)
    <2>1. (n + 2)..n + 1 = {}
      BY <1>0
    <2> DEFINE f == [i \in {} |-> <<>>]
    <2>2. f = [i \in {} |-> Unescape(text, f, i)]
      <3> HIDE DEF n
      <3>1. QED OBVIOUS
    <2>3. IsF(f, n + 2)
      <3> HIDE DEF n, f
      <3>1. QED BY <2>1, <2>2
    <2> HIDE DEF IsF
    <2>4. QED BY <2>3
  <1>2. ASSUME NEW m \in 1..n + 1, Has(m + 1)
        PROVE  Has(m)
    <2> HIDE DEF IsF
    <2>1. PICK f : IsF(f, m + 1)
      BY <1>2
    <2> DEFINE g == [i \in m..n + 1 |-> IF i = m THEN Unescape(text, f, i) ELSE f[i]]
    <2>2. \A i \in (m + 1)..n + 1 : f[i] = Unescape(text, f, i)
      BY <2>1, Zenon DEF IsF
    <2> HIDE DEF n
    <2>3. \A i \in (m + 1)..n + 1 : g[i] = f[i]
      BY <1>0
    <2>4. g[m] = Unescape(text, f, m)
      BY <1>0
    <2>5. ASSUME NEW i \in m..n + 1
          PROVE  Unescape(text, g, i) = Unescape(text, f, i)
      <3>1. CASE i > n
        BY <3>1 DEF n, Unescape
      <3>2. CASE i <= n
        <4>1. /\ i + 1 \in (m + 1)..n + 1
              /\ i + 1 <= n => i + 2 \in (m + 1)..n + 1
              /\ i + 3 <= n => i + 4 \in (m + 1)..n + 1
          BY <1>0, <3>2
        <4>2. /\ g[i + 1] = f[i + 1]
              /\ i + 1 <= n => g[i + 2] = f[i + 2]
              /\ i + 3 <= n => g[i + 4] = f[i + 4]
          <5> HIDE DEF g
          <5>1. QED BY <2>3, <4>1
        <4> HIDE DEF g
        <4>3. QED BY <4>2, Zenon DEF n, Unescape
      <3>3. QED BY <1>0, <3>1, <3>2
    <2>6. ASSUME NEW i \in m..n + 1
          PROVE  g[i] = Unescape(text, g, i)
      <3> HIDE DEF g
      <3>1. CASE i = m
        BY <2>4, <2>5, <3>1
      <3>2. CASE i # m
        <4>1. i \in (m + 1)..n + 1
          BY <1>0, <3>2
        <4>2. QED BY <2>2, <2>3, <2>5, <4>1
      <3>3. QED BY <3>1, <3>2
    <2>7. IsF(g, m)
      BY <2>6, Zenon DEF IsF
    <2>8. QED BY <2>7, Zenon
  <1>3. Has(1)
    <2> HIDE DEF Has, n
    <2>1. 0 \in S
      BY <1>0, <1>1
    <2>2. ASSUME NEW m \in Nat, m \in S
          PROVE  m + 1 \in S
      <3>1. CASE m + 1 <= n + 1
        <4>1. Has(n + 2 - m) /\ n + 2 - m = (n + 2 - (m + 1)) + 1 /\ n + 2 - (m + 1) \in 1..n + 1
          BY <1>0, <2>2, <3>1
        <4>2. Has(n + 2 - (m + 1))
          BY <1>2, <4>1
        <4>3. QED BY <4>2
      <3>2. QED BY <3>1
    <2> HIDE DEF S
    <2>3. n + 1 \in S
      BY <1>0, <2>1, <2>2, Induction
    <2>4. Has(n + 2 - (n + 1)) /\ n + 2 - (n + 1) = 1
      BY <1>0, <2>3 DEF S
    <2>5. QED BY <2>4
  <1>4. IsF(from, 1)
    BY <1>3, Zenon
  <1>5. ByteaIn(text) = from[1]
    BY Zenon DEF ByteaIn, Unescape
  <1> HIDE DEF from
  <1>6. \A i \in 1..n + 1 : from[i] = Unescape(text, from, i)
    BY <1>4, Zenon
  <1>7. QED BY <1>5, <1>6, Zenon

\* The pieces are bytes, and three octal digits are their byte.
LEMMA PieceBytes ==
  ASSUME NEW c \in Byte
  PROVE  /\ Piece(c) \in Seq(Byte) /\ Len(Piece(c)) \in 1..4
         /\ c = Backslash => Len(Piece(c)) = 2 /\ Piece(c)[1] = c /\ Piece(c)[2] = c
         /\ c # Backslash /\ c \in 32..126 => Len(Piece(c)) = 1 /\ Piece(c)[1] = c
         /\ c # Backslash /\ c \notin 32..126 =>
              /\ Len(Piece(c)) = 4 /\ Piece(c)[1] = Backslash
              /\ \A k \in 1..3 : Piece(c)[1 + k] \in 48..55
              /\ 64 * (Piece(c)[2] - 48) + 8 * (Piece(c)[3] - 48) + Piece(c)[4] - 48 = c
  <1> DEFINE x == 48 + (c \div 64)
             y == 48 + ((c \div 8) % 8)
             z == 48 + (c % 8)
  <1>1. c \in Int /\ 0 <= c /\ c <= 255
    BY DEF Byte
  <1>2. x \in 48..51 /\ y \in 48..55 /\ z \in 48..55 /\ 64 * (x - 48) + 8 * (y - 48) + z - 48 = c
    BY <1>1
  <1> HIDE DEF x, y, z
  <1>3. CASE c = Backslash
    BY <1>3 DEF Piece, Backslash, Byte
  <1>4. CASE c # Backslash /\ c \in 32..126
    <2>1. Piece(c) = <<c>>
      BY <1>4, Zenon DEF Piece
    <2>2. QED BY <1>4, <2>1
  <1>5. CASE c # Backslash /\ c \notin 32..126
    <2>1. Piece(c) = <<Backslash, x, y, z>>
      BY <1>5, Zenon DEF Piece, x, y, z
    <2>2. QED BY <1>2, <1>5, <2>1 DEF Backslash, Byte
  <1>6. QED BY <1>3, <1>4, <1>5

\* The pieces of a text, one after the other.
LEMMA ByteaPieces ==
  ASSUME NEW t \in Seq(Byte)
  PROVE  /\ ByteaOut(t) \in Seq(Byte)
         /\ \E pos \in [0..Len(t) -> Nat] :
              /\ pos[0] = 0 /\ pos[Len(t)] = Len(ByteaOut(t))
              /\ \A j \in 1..Len(t) :
                   /\ pos[j] = pos[j - 1] + Len(Piece(t[j])) /\ pos[j] <= pos[Len(t)]
                   /\ \A k \in 1..Len(Piece(t[j])) : ByteaOut(t)[pos[j - 1] + k] = Piece(t[j])[k]
  <1> DEFINE n == Len(t)
             s == [j \in 1..n |-> Piece(t[j])]
  <1>1. n \in Nat /\ DOMAIN t = 1..n /\ \A j \in 1..n : t[j] \in Byte
    OBVIOUS
  <1>2. ByteaOut(t) = FlattenSeq(s)
    <2> HIDE DEF n
    <2>1. QED BY <1>1, Zenon DEF ByteaOut, Piece
  <1>3. s \in [1..n -> Seq(Byte)]
    <2> HIDE DEF n
    <2>1. QED BY <1>1, PieceBytes
  <1>4. \A j \in 1..n : s[j] = Piece(t[j])
    <2> HIDE DEF n
    <2>1. QED OBVIOUS
  <1> HIDE DEF n, s
  <1>5. /\ FlattenSeq(s) \in Seq(Byte)
        /\ \E pos \in [0..n -> Nat] : Placed(s, n, pos)
    <2>1. n \in Nat
      BY <1>1
    <2>2. QED BY <1>3, <2>1, FlattenAt
  <1>6. PICK pos \in [0..n -> Nat] : Placed(s, n, pos)
    BY <1>5
  <1>7. ASSUME NEW j \in 1..n
        PROVE  /\ pos[j] = pos[j - 1] + Len(Piece(t[j])) /\ pos[j] <= pos[n]
               /\ \A k \in 1..Len(Piece(t[j])) : ByteaOut(t)[pos[j - 1] + k] = Piece(t[j])[k]
    <2>1. s[j] = Piece(t[j])
      BY <1>4
    <2>2. /\ pos[j] = pos[j - 1] + Len(s[j]) /\ pos[j] <= pos[n]
          /\ \A k \in 1..Len(s[j]) : FlattenSeq(s)[pos[j - 1] + k] = s[j][k]
      BY <1>6, Zenon DEF Placed
    <2>3. QED BY <1>2, <2>1, <2>2, Zenon
  <1>8. ByteaOut(t) \in Seq(Byte) /\ pos[0] = 0 /\ pos[n] = Len(ByteaOut(t))
    BY <1>2, <1>5, <1>6, Zenon DEF Placed
  <1>9. QED BY <1>7, <1>8, Zenon DEF n

\* What goes out of a bytea comes back in, whatever the bytes.
LEMMA ByteaBack ==
  ASSUME NEW t \in Seq(Byte)
  PROVE  ByteaIn(ByteaOut(t)) = t
  <1> DEFINE n == Len(t)
             u == ByteaOut(t)
  <1>1. u \in Seq(Byte)
    BY ByteaPieces
  <1>2. PICK pos \in [0..n -> Nat] :
          /\ pos[0] = 0 /\ pos[n] = Len(u)
          /\ \A j \in 1..n : /\ pos[j] = pos[j - 1] + Len(Piece(t[j])) /\ pos[j] <= pos[n]
                             /\ \A k \in 1..Len(Piece(t[j])) : u[pos[j - 1] + k] = Piece(t[j])[k]
    BY ByteaPieces, Zenon
  <1> HIDE DEF u
  <1>3. PICK f : ByteaIn(u) = f[1] /\ \A i \in 1..Len(u) + 1 : f[i] = Unescape(u, f, i)
    BY <1>1, ByteaFrom, Zenon
  <1>4. n \in Nat /\ \A j \in 1..n : t[j] \in Byte
    OBVIOUS
  <1> DEFINE Back(j) == f[pos[j] + 1] = SubSeq(t, j + 1, n)
             S == {m \in Nat : m <= n => Back(n - m)}
  <1>5. Back(n)
    <2>1. SubSeq(t, n + 1, n) = <<>>
      OBVIOUS
    <2> HIDE DEF n
    <2>2. Len(u) \in Nat
      BY <1>1
    <2>3. pos[n] + 1 \in 1..Len(u) + 1 /\ pos[n] + 1 > Len(u)
      BY <1>2, <2>2
    <2>4. f[pos[n] + 1] = Unescape(u, f, pos[n] + 1)
      BY <1>3, <2>3
    <2>5. Unescape(u, f, pos[n] + 1) = <<>>
      BY <2>3, Zenon DEF Unescape
    <2>6. QED BY <2>1, <2>4, <2>5
  <1>6. ASSUME NEW j \in 1..n, Back(j)
        PROVE  Back(j - 1)
    <2> DEFINE c == t[j]
               p == Piece(t[j])
               i == pos[j - 1] + 1
    <2>1. <<c>> \o SubSeq(t, j + 1, n) = SubSeq(t, (j - 1) + 1, n)
      <3>1. <<t[j]>> \o SubSeq(t, j + 1, n) = SubSeq(t, j, n) /\ (j - 1) + 1 = j
        BY Rest
      <3>2. QED BY <3>1
    <2> HIDE DEF n
    <2>2. c \in Byte /\ pos[j - 1] \in Nat /\ pos[j] \in Nat /\ Len(u) \in Nat
      <3>1. j - 1 \in 0..n /\ j \in 0..n
        BY <1>4
      <3>2. QED BY <1>1, <1>4, <3>1
    <2>3. /\ pos[j] = pos[j - 1] + Len(p) /\ pos[j] <= Len(u)
          /\ \A k \in 1..Len(p) : u[pos[j - 1] + k] = p[k]
      BY <1>2, Zenon
    <2>4. /\ p \in Seq(Byte) /\ Len(p) \in 1..4
          /\ c = Backslash => Len(p) = 2 /\ p[1] = c /\ p[2] = c
          /\ c # Backslash /\ c \in 32..126 => Len(p) = 1 /\ p[1] = c
          /\ c # Backslash /\ c \notin 32..126 =>
               /\ Len(p) = 4 /\ p[1] = Backslash
               /\ \A k \in 1..3 : p[1 + k] \in 48..55
               /\ 64 * (p[2] - 48) + 8 * (p[3] - 48) + p[4] - 48 = c
      BY <2>2, PieceBytes, Zenon
    <2>5. Backslash \in Int /\ Backslash \notin 48..55
      BY DEF Backslash
    <2> HIDE DEF c, p
    <2>6. f[i] = <<c>> \o f[pos[j] + 1]
      <3>1. i \in 1..Len(u) + 1 /\ i <= Len(u) /\ ~(i > Len(u)) /\ i = pos[j - 1] + 1
        <4>1. Len(p) \in 1..4
          BY <2>4
        <4>2. pos[j] = pos[j - 1] + Len(p) /\ pos[j] <= Len(u)
          BY <2>3
        <4> DEFINE l == Len(p)
                   m == Len(u)
                   q == pos[j - 1]
        <4>3. l \in 1..4 /\ m \in Nat /\ q \in Nat /\ q + l <= m
          BY <2>2, <4>1, <4>2
        <4> HIDE DEF l, m, q
        <4>4. q + 1 \in 1..m + 1 /\ q + 1 <= m /\ ~(q + 1 > m)
          BY <4>3
        <4>5. QED BY <4>4 DEF m, q
      <3>2. f[i] = Unescape(u, f, i)
        <4> HIDE DEF i
        <4>1. QED BY <1>3, <3>1
      <3>3. CASE c = Backslash
        <4>1. u[i] = Backslash /\ u[i + 1] = Backslash /\ i + 1 <= Len(u) /\ i + 2 = pos[j] + 1
          <5>1. Len(p) = 2 /\ p[1] = c /\ p[2] = c
            BY <2>4, <3>3
          <5>2. u[pos[j - 1] + 1] = p[1] /\ u[pos[j - 1] + 2] = p[2] /\ pos[j] = pos[j - 1] + 2
            BY <2>3, <5>1
          <5>3. i + 1 = pos[j - 1] + 2 /\ i + 1 <= Len(u) /\ i + 2 = pos[j] + 1
            BY <2>2, <2>3, <5>2
          <5>4. QED BY <3>3, <5>1, <5>2, <5>3
        <4> HIDE DEF i
        <4>2. Unescape(u, f, i) = <<Backslash>> \o f[i + 2]
          BY <3>1, <4>1, Zenon DEF Unescape
        <4>3. QED BY <3>2, <3>3, <4>1, <4>2, Zenon
      <3>4. CASE c # Backslash /\ c \in 32..126
        <4>1. u[i] = c /\ i + 1 = pos[j] + 1
          <5>1. Len(p) = 1 /\ p[1] = c
            BY <2>4, <3>4
          <5>2. u[pos[j - 1] + 1] = p[1] /\ pos[j] = pos[j - 1] + 1
            BY <2>3, <5>1
          <5>3. QED BY <2>2, <5>1, <5>2
        <4> HIDE DEF i
        <4>2. Unescape(u, f, i) = <<c>> \o f[i + 1]
          BY <3>1, <3>4, <4>1, Zenon DEF Unescape
        <4>3. QED BY <3>2, <4>1, <4>2, Zenon
      <3>5. CASE c # Backslash /\ c \notin 32..126
        <4>0. /\ Len(p) = 4 /\ p[1] = Backslash
              /\ \A k \in 1..3 : p[1 + k] \in 48..55
              /\ 64 * (p[2] - 48) + 8 * (p[3] - 48) + p[4] - 48 = c
          BY <2>4, <3>5
        <4>1. pos[j] = pos[j - 1] + 4 /\ i + 3 <= Len(u) /\ i + 4 = pos[j] + 1
          <5>1. pos[j] = pos[j - 1] + 4 /\ pos[j] <= Len(u)
            BY <2>3, <4>0, Zenon
          <5> DEFINE m == Len(u)
                     q == pos[j - 1]
                     e == pos[j]
          <5>2. m \in Nat /\ q \in Nat /\ e = q + 4 /\ e <= m
            BY <2>2, <5>1, Zenon
          <5> HIDE DEF m, q, e
          <5>3. q + 1 + 3 <= m /\ q + 1 + 4 = e + 1
            BY <5>2
          <5>4. QED BY <5>1, <5>3, Zenon DEF m, q, e
        <4>2. u[i] = Backslash
          BY <2>3, <4>0
        <4>3. \A k \in 1..3 : u[i + k] = p[1 + k]
          <5>1. ASSUME NEW k \in 1..3
                PROVE  u[i + k] = p[1 + k]
            <6>1. 1 + k \in 1..4 /\ i + k = pos[j - 1] + (1 + k)
              BY <2>2
            <6>2. QED BY <2>3, <4>0, <6>1
          <5>2. QED BY <5>1
        <4>4. u[i + 1] = p[2] /\ u[i + 2] = p[3] /\ u[i + 3] = p[4]
          BY <4>3
        <4>5. (\A k \in 1..3 : u[i + k] \in 48..55) /\ u[i + 1] # Backslash
          <5>1. \A k \in 1..3 : u[i + k] \in 48..55
            BY <4>0, <4>3, Zenon
          <5>2. u[i + 1] \in 48..55
            BY <5>1
          <5>3. QED BY <2>5, <5>1, <5>2, Zenon
        <4> HIDE DEF i
        <4>6. Unescape(u, f, i) =
                <<64 * (u[i + 1] - 48) + 8 * (u[i + 2] - 48) + u[i + 3] - 48>> \o f[i + 4]
          BY <3>1, <4>1, <4>2, <4>5, Zenon DEF Unescape
        <4>7. QED BY <3>2, <4>0, <4>1, <4>4, <4>6, Zenon
      <3>6. QED BY <3>3, <3>4, <3>5
    <2> HIDE DEF i
    <2>7. QED BY <1>6, <2>1, <2>6, Zenon DEF i
  <1> HIDE DEF n
  <1>7. Back(0)
    <2> HIDE DEF Back
    <2>1. 0 \in S
      BY <1>4, <1>5
    <2>2. ASSUME NEW m \in Nat, m \in S
          PROVE  m + 1 \in S
      <3>1. CASE m + 1 <= n
        <4>1. Back(n - m) /\ n - m \in 1..n /\ (n - m) - 1 = n - (m + 1)
          BY <1>4, <2>2, <3>1
        <4>2. Back(n - (m + 1))
          BY <1>6, <4>1
        <4>3. QED BY <4>2
      <3>2. QED BY <3>1
    <2> HIDE DEF S
    <2>3. n \in S
      BY <1>4, <2>1, <2>2, Induction
    <2>4. Back(n - n) /\ n - n = 0
      BY <1>4, <2>3 DEF S
    <2>5. QED BY <2>4
  <1>8. f[1] = SubSeq(t, 1, n)
    <2>1. pos[0] + 1 = 1 /\ 0 + 1 = 1
      BY <1>2
    <2>2. QED BY <1>7, <2>1
  <1>9. SubSeq(t, 1, n) = t
    BY DEF n
  <1>10. QED BY <1>3, <1>8, <1>9, Zenon DEF u

\* A bytea shows digits as they are.
LEMMA ByteaPlain ==
  ASSUME NEW t \in Seq(Byte), \A j \in 1..Len(t) : t[j] \in Digits
  PROVE  ByteaOut(t) = t
  <1> DEFINE n == Len(t)
             u == ByteaOut(t)
  <1>1. u \in Seq(Byte)
    BY ByteaPieces
  <1>2. PICK pos \in [0..n -> Nat] :
          /\ pos[0] = 0 /\ pos[n] = Len(u)
          /\ \A j \in 1..n : /\ pos[j] = pos[j - 1] + Len(Piece(t[j])) /\ pos[j] <= pos[n]
                             /\ \A k \in 1..Len(Piece(t[j])) : u[pos[j - 1] + k] = Piece(t[j])[k]
    BY ByteaPieces, Zenon
  <1> HIDE DEF u
  <1>3. n \in Nat
    OBVIOUS
  <1>4. ASSUME NEW j \in 1..n
        PROVE  Len(Piece(t[j])) = 1 /\ Piece(t[j])[1] = t[j]
    <2>1. t[j] \in Byte /\ t[j] # Backslash /\ t[j] \in 32..126
      BY DEF Digits, Backslash
    <2> HIDE DEF n
    <2>2. QED BY <2>1, PieceBytes
  <1>5. \A j \in 0..n : pos[j] = j
    <2> DEFINE T == {j \in Nat : j <= n => pos[j] = j}
    <2> HIDE DEF n
    <2>1. 0 \in T
      BY <1>2
    <2>2. ASSUME NEW j \in Nat, j \in T
          PROVE  j + 1 \in T
      <3>1. CASE j + 1 <= n
        <4>1. j + 1 \in 1..n /\ (j + 1) - 1 = j /\ pos[j] = j
          BY <1>3, <2>2, <3>1
        <4>2. pos[j + 1] = pos[(j + 1) - 1] + Len(Piece(t[j + 1]))
          BY <1>2, <4>1, Zenon
        <4>3. Len(Piece(t[j + 1])) = 1
          BY <1>4, <4>1, Zenon
        <4>4. pos[j + 1] = j + 1
          BY <4>1, <4>2, <4>3
        <4>5. QED BY <4>4
      <3>2. QED BY <3>1
    <2> HIDE DEF T
    <2>3. \A j \in Nat : j \in T
      BY <2>1, <2>2, Induction
    <2>4. QED BY <1>3, <2>3 DEF T
  <1>6. Len(u) = n
    <2> HIDE DEF n
    <2>1. QED BY <1>2, <1>3, <1>5
  <1>7. ASSUME NEW j \in 1..n
        PROVE  u[j] = t[j]
    <2> HIDE DEF n
    <2>1. j - 1 \in 0..n /\ (j - 1) + 1 = j
      BY <1>3
    <2>2. pos[j - 1] = j - 1
      BY <1>5, <2>1, Zenon
    <2>3. u[pos[j - 1] + 1] = Piece(t[j])[1]
      <3>1. 1 \in 1..Len(Piece(t[j]))
        BY <1>4
      <3>2. QED BY <1>2, <3>1, Zenon
    <2>4. QED BY <1>4, <2>1, <2>2, <2>3
  <1>8. u = t
    BY <1>1, <1>6, <1>7, SeqEqual
  <1>9. QED BY <1>8 DEF u

-----------------------------------------------------------------------------
(***************************************************************************)
(* Literals, texts of C and numbers                                        *)
(***************************************************************************)

\* The server reads from the hexadecimal digits of bin2hex the bytes it was given.
LEMMA HexBack ==
  ASSUME NEW t \in Seq(Byte)
  PROVE  Stored(bin2hex(t)) = <<t>>
  <1> DEFINE n == Len(t)
             h == [i \in 1..2 * n |-> IF i % 2 = 1 THEN t[(i + 1) \div 2] \div 16 ELSE t[i \div 2] % 16]
             back == [i \in 1..Len(h) \div 2 |-> 16 * h[2 * i - 1] + h[2 * i]]
  <1>1. n \in Nat /\ \A i \in 1..n : t[i] \in 0..255
    <2>1. n \in Nat /\ \A i \in 1..n : t[i] \in Byte
      OBVIOUS
    <2>2. QED BY <2>1, Zenon DEF Byte
  <1>2. bin2hex(t) = [form |-> "hex", text |-> h]
    BY DEF bin2hex
  <1>3. Stored(bin2hex(t)) = <<back>>
    <2>1. bin2hex(t).form = "hex" /\ bin2hex(t).text = h
      <3> HIDE DEF h
      <3>1. QED BY <1>2
    <2> HIDE DEF h
    <2>2. QED BY <2>1, Zenon DEF Stored
  <1>4. Len(h) \div 2 = n
    <2> HIDE DEF n
    <2>1. Len(h) = 2 * n
      BY <1>1
    <2> HIDE DEF h
    <2>2. QED BY <1>1, <2>1
  <1>5. \A i \in 1..n : back[i] = t[i]
    <2> SUFFICES ASSUME NEW i \in 1..n PROVE back[i] = t[i]
      OBVIOUS
    <2> HIDE DEF n
    <2>1. /\ 2 * i - 1 \in 1..2 * n /\ 2 * i \in 1..2 * n /\ (2 * i - 1) % 2 = 1 /\ (2 * i) % 2 = 0
          /\ ((2 * i - 1) + 1) \div 2 = i /\ (2 * i) \div 2 = i
      BY <1>1
    <2>2. h[2 * i - 1] = t[i] \div 16 /\ h[2 * i] = t[i] % 16
      BY <2>1
    <2> HIDE DEF h
    <2>3. back[i] = 16 * h[2 * i - 1] + h[2 * i]
      BY <1>4
    <2>4. t[i] \in 0..255
      BY <1>1
    <2> DEFINE c == t[i]
    <2>5. c \in 0..255 /\ back[i] = 16 * (c \div 16) + (c % 16)
      BY <2>2, <2>3, <2>4
    <2> HIDE DEF c, back
    <2>6. back[i] = c
      BY <2>5
    <2>7. QED BY <2>6 DEF c
  <1>6. back \in Seq(Byte) /\ Len(back) = n
    <2>1. back = [i \in 1..n |-> back[i]]
      <3> HIDE DEF n, h
      <3>1. QED BY <1>4
    <2> HIDE DEF n, back
    <2>2. \A i \in 1..n : back[i] \in Byte
      BY <1>1, <1>5 DEF Byte
    <2>3. QED BY <1>1, <2>1, <2>2
  <1> HIDE DEF back
  <1>7. back = t
    BY <1>5, <1>6, SeqEqual
  <1>8. QED BY <1>3, <1>7

\* A text without NUL is all that C takes of it.
LEMMA AllOfC ==
  ASSUME NEW V, NEW t \in Seq(V), \A i \in 1..Len(t) : t[i] # NUL
  PROVE  CString(t) = t
  <1>1. {i \in 1..Len(t) : t[i] = NUL} = {}
    OBVIOUS
  <1>2. SelectInSeq(t, LAMBDA c : c = NUL) = 0
    BY <1>1 DEF SelectInSeq
  <1>3. QED BY <1>2 DEF CString

\* The digits of a text, read one after the other.
ReadAs(s, f) ==
  f \in [0..Len(s) -> Nat] /\ f[0] = 0 /\ \A k \in 1..Len(s) : f[k] = 10 * f[k - 1] + s[k] - 48

\* A text that shows a number.
Shows(s, n) == s \in Seq(Digits) /\ Len(s) > 0 /\ \E f : ReadAs(s, f) /\ f[Len(s)] = n

\* A digit more.
LEMMA ShowsNext ==
  ASSUME NEW a \in Seq(Digits), NEW m \in Nat, NEW d \in 0..9, NEW f, ReadAs(a, f), f[Len(a)] = m
  PROVE  Shows(a \o <<48 + d>>, 10 * m + d)
  <1> DEFINE b == <<48 + d>>
             s == a \o b
             l == Len(a)
             g == [k \in 0..l + 1 |-> IF k = l + 1 THEN 10 * m + d ELSE f[k]]
  <1>1. b \in Seq(Digits) /\ Len(b) = 1 /\ b[1] = 48 + d
    BY DEF Digits
  <1>2. /\ l \in Nat /\ s \in Seq(Digits) /\ Len(s) = l + 1
        /\ (\A q \in 1..l : s[q] = a[q]) /\ s[l + 1] = b[1]
    <2> HIDE DEF b
    <2>1. /\ a \o b \in Seq(Digits) /\ Len(a \o b) = Len(a) + Len(b) /\ Len(a) \in Nat
          /\ \A q \in 1..Len(a) : (a \o b)[q] = a[q]
          /\ \A k \in 1..Len(b) : (a \o b)[Len(a) + k] = b[k]
      <3>1. b \in Seq(Digits)
        BY <1>1
      <3>2. QED BY <3>1, ConcatAt
    <2>2. 1 \in 1..Len(b)
      BY <1>1
    <2>3. QED BY <1>1, <2>1, <2>2, Zenon
  <1> HIDE DEF s, l
  <1>3. f \in [0..l -> Nat] /\ f[0] = 0 /\ f[l] = m /\ \A k \in 1..l : f[k] = 10 * f[k - 1] + a[k] - 48
    BY Zenon DEF ReadAs, l
  <1>4. g \in [0..l + 1 -> Nat] /\ g[0] = 0 /\ g[l + 1] = 10 * m + d
    BY <1>2, <1>3
  <1>5. \A k \in 0..l : g[k] = f[k]
    BY <1>2
  <1> HIDE DEF g
  <1>6. ASSUME NEW k \in 1..l + 1
        PROVE  g[k] = 10 * g[k - 1] + s[k] - 48
    <2>1. CASE k = l + 1
      <3>1. k - 1 = l /\ g[l] = m
        BY <1>2, <1>3, <1>5, <2>1
      <3>2. s[k] = 48 + d /\ g[k] = 10 * m + d
        BY <1>1, <1>2, <1>4, <2>1
      <3>3. g[k - 1] = m
        BY <3>1
      <3>4. 10 * m + d = 10 * m + (48 + d) - 48
        OBVIOUS
      <3>5. QED BY <3>2, <3>3, <3>4, Zenon
    <2>2. CASE k # l + 1
      <3>1. k \in 1..l /\ k \in 0..l /\ k - 1 \in 0..l
        BY <1>2, <2>2
      <3>2. g[k] = f[k] /\ g[k - 1] = f[k - 1] /\ s[k] = a[k] /\ f[k] = 10 * f[k - 1] + a[k] - 48
        BY <1>2, <1>3, <1>5, <3>1
      <3>3. QED BY <3>2, Zenon
    <2>3. QED BY <2>1, <2>2
  <1>7. ReadAs(s, g)
    <2>1. Len(s) = l + 1
      BY <1>2
    <2>2. QED BY <1>4, <1>6, <2>1, Zenon DEF ReadAs
  <1>8. Len(s) > 0 /\ g[Len(s)] = 10 * m + d
    BY <1>2, <1>4
  <1>9. QED BY <1>2, <1>7, <1>8, Zenon DEF Shows, s

\* Decimal shows its number.
LEMMA DecimalShows ==
  ASSUME NEW n \in Nat
  PROVE  Shows(Decimal(n), n)
  <1> DEFINE Body(f, k) == (IF k < 10 THEN <<>> ELSE f[k \div 10]) \o <<48 + (k % 10)>>
             IsF(f, m) == f = [k \in 0..m |-> Body(f, k)]
             Has(m) == \E f : IsF(f, m)
             text == CHOOSE f : IsF(f, n)
             S == {m \in Nat : Has(m)}
             T == {m \in Nat : \A k \in 0..m : k <= n => Shows(text[k], k)}
  <1>1. Has(0)
    <2> DEFINE f == [k \in 0..0 |-> <<>> \o <<48 + (k % 10)>>]
    <2>1. f = [k \in 0..0 |-> Body(f, k)]
      OBVIOUS
    <2>2. IsF(f, 0)
      <3> HIDE DEF f
      <3>1. QED BY <2>1
    <2> HIDE DEF IsF
    <2>3. QED BY <2>2
  <1>2. ASSUME NEW m \in Nat, Has(m)
        PROVE  Has(m + 1)
    <2> HIDE DEF IsF
    <2>1. PICK f : IsF(f, m)
      BY <1>2
    <2> DEFINE g == [k \in 0..m + 1 |-> IF k = m + 1 THEN Body(f, k) ELSE f[k]]
    <2>2. \A k \in 0..m : f[k] = Body(f, k)
      BY <2>1, Zenon DEF IsF
    <2>3. (\A k \in 0..m : g[k] = f[k]) /\ g[m + 1] = Body(f, m + 1)
      <3> HIDE DEF Body
      <3>1. QED OBVIOUS
    <2> HIDE DEF g
    <2>4. ASSUME NEW k \in 0..m + 1
          PROVE  Body(g, k) = Body(f, k)
      <3>1. k >= 10 => k \div 10 \in 0..m
        OBVIOUS
      <3>2. ~(k < 10) => g[k \div 10] = f[k \div 10]
        BY <2>3, <3>1
      <3>3. QED BY <3>2, Zenon
    <2>5. ASSUME NEW k \in 0..m + 1
          PROVE  g[k] = Body(g, k)
      <3> HIDE DEF Body
      <3>1. CASE k = m + 1
        BY <2>3, <2>4, <3>1
      <3>2. CASE k # m + 1
        <4>1. k \in 0..m
          BY <3>2
        <4>2. QED BY <2>2, <2>3, <2>4, <4>1
      <3>3. QED BY <3>1, <3>2
    <2>6. IsF(g, m + 1)
      BY <2>5, Zenon DEF IsF, g
    <2>7. QED BY <2>6, Zenon
  <1>3. Has(n)
    <2> HIDE DEF Has
    <2>1. 0 \in S /\ \A m \in Nat : m \in S => m + 1 \in S
      BY <1>1, <1>2
    <2> HIDE DEF S
    <2>2. n \in S
      BY <2>1, Induction
    <2>3. QED BY <2>2 DEF S
  <1>4. IsF(text, n)
    BY <1>3, Zenon
  <1>5. Decimal(n) = text[n]
    BY Zenon DEF Decimal
  <1> HIDE DEF text
  <1>6. \A k \in 0..n : text[k] = Body(text, k)
    BY <1>4, Zenon
  <1>7. ASSUME NEW k \in 0..n, k >= 10 => Shows(text[k \div 10], k \div 10)
        PROVE  Shows(text[k], k)
    <2> DEFINE d == k % 10
               m == k \div 10
    <2>1. d \in 0..9 /\ m \in Nat /\ 10 * m + d = k /\ (k < 10 => m = 0)
      OBVIOUS
    <2>2. CASE k < 10
      <3> DEFINE f == [i \in 0..0 |-> 0]
      <3>1. ReadAs(<<>>, f) /\ f[Len(<<>>)] = 0 /\ <<>> \in Seq(Digits)
        BY DEF ReadAs
      <3> HIDE DEF f, d, m
      <3>2. Shows(<<>> \o <<48 + d>>, 10 * 0 + d)
        <4> DEFINE e == <<>>
        <4>1. ReadAs(e, f) /\ f[Len(e)] = 0 /\ e \in Seq(Digits)
          BY <3>1
        <4> HIDE DEF e
        <4>2. Shows(e \o <<48 + d>>, 10 * 0 + d)
          <5>1. 0 \in Nat /\ d \in 0..9
            BY <2>1
          <5>2. QED BY <4>1, <5>1, ShowsNext, Zenon
        <4>3. QED BY <4>2 DEF e
      <3>3. text[k] = <<>> \o <<48 + d>>
        BY <1>6, <2>2, Zenon DEF d
      <3>4. 10 * 0 + d = k
        BY <2>1, <2>2
      <3>5. QED BY <3>2, <3>3, <3>4
    <2>3. CASE ~(k < 10)
      <3>1. Shows(text[m], m)
        BY <1>7, <2>3
      <3> HIDE DEF d, m
      <3> DEFINE a == text[m]
      <3>2. a \in Seq(Digits) /\ \E f : ReadAs(a, f) /\ f[Len(a)] = m
        BY <3>1 DEF Shows
      <3> HIDE DEF a
      <3>3. PICK f : ReadAs(a, f) /\ f[Len(a)] = m
        BY <3>2
      <3>4. Shows(a \o <<48 + d>>, 10 * m + d)
        BY <2>1, <3>2, <3>3, ShowsNext
      <3>5. text[k] = a \o <<48 + d>>
        BY <1>6, <2>3, Zenon DEF d, m, a
      <3>6. QED BY <2>1, <3>4, <3>5
    <2>4. QED BY <2>2, <2>3
  <1>8. n \in T
    <2> HIDE DEF Body, IsF
    <2>1. 0 \in T
      <3>1. Shows(text[0], 0)
        BY <1>7
      <3>2. QED BY <3>1
    <2>2. ASSUME NEW m \in Nat, m \in T
          PROVE  m + 1 \in T
      <3>1. \A k \in 0..m : k <= n => Shows(text[k], k)
        BY <2>2
      <3>2. ASSUME m + 1 <= n PROVE Shows(text[m + 1], m + 1)
        <4>1. m + 1 \in 0..n /\ (m + 1 >= 10 => (m + 1) \div 10 \in 0..m /\ (m + 1) \div 10 <= n)
          BY <3>2
        <4>2. m + 1 >= 10 => Shows(text[(m + 1) \div 10], (m + 1) \div 10)
          BY <3>1, <4>1
        <4>3. QED BY <1>7, <4>1, <4>2
      <3>3. ASSUME NEW k \in 0..m + 1, k <= n
            PROVE  Shows(text[k], k)
        <4>1. k = m + 1 \/ k \in 0..m
          OBVIOUS
        <4>2. QED BY <3>1, <3>2, <3>3, <4>1
      <3>4. QED BY <3>3
    <2> HIDE DEF T
    <2>3. QED BY <2>1, <2>2, Induction
  <1>9. Shows(text[n], n)
    BY <1>8
  <1>10. QED BY <1>5, <1>9

\* sscanf reads the number a text shows.
LEMMA ScanShown ==
  ASSUME NEW n \in Nat, NEW s, Shows(s, n)
  PROVE  CString(s) = s /\ Scan(s) = [ret |-> 1, value |-> n]
  <1> DEFINE l == Len(s)
             length == Leading(s)
             IsF(g) == g = [k \in 0..l |-> IF k = 0 THEN 0 ELSE 10 * g[k - 1] + s[k] - 48]
             value == CHOOSE g : IsF(g)
  <1>1. s \in Seq(Digits) /\ l \in Nat /\ l > 0 /\ (\A i \in 1..l : s[i] \in Digits) /\ s # <<>>
    BY DEF Shows
  <1>2. CString(s) = s
    <2>1. \A i \in 1..Len(s) : s[i] # NUL
      BY <1>1 DEF Digits, NUL
    <2>2. QED BY <1>1, <2>1, AllOfC
  <1>3. length = l
    <2> DEFINE P(q) == (\A i \in 1..q : s[i] \in Digits) /\ (q = Len(s) \/ s[q + 1] \notin Digits)
    <2>1. l \in 0..l /\ P(l)
      BY <1>1
    <2>2. length \in 0..l /\ P(length)
      <3>1. length = CHOOSE q \in 0..Len(s) : P(q)
        BY Zenon DEF Leading
      <3> HIDE DEF P
      <3> HIDE DEF length
      <3>2. QED BY <2>1, <3>1
    <2> HIDE DEF length
    <2>3. ASSUME length # l PROVE FALSE
      <3>1. length + 1 \in 1..l
        BY <1>1, <2>2, <2>3
      <3>2. QED BY <1>1, <2>2, <2>3, <3>1, Zenon
    <2>4. QED BY <2>3
  <1> HIDE DEF length
  <1>4. PICK f : ReadAs(s, f) /\ f[l] = n
    BY Zenon DEF Shows
  <1>5. f \in [0..l -> Nat] /\ f[0] = 0 /\ \A k \in 1..l : f[k] = 10 * f[k - 1] + s[k] - 48
    BY <1>4, Zenon DEF ReadAs
  <1>6. IsF(f)
    <2> HIDE DEF l
    <2>1. ASSUME NEW k \in 0..l
          PROVE  f[k] = IF k = 0 THEN 0 ELSE 10 * f[k - 1] + s[k] - 48
      <3>1. k = 0 \/ k \in 1..l
        BY <1>1
      <3>2. k \in 1..l => k # 0
        OBVIOUS
      <3>3. QED BY <1>5, <3>1, <3>2, Zenon
    <2>2. f = [k \in 0..l |-> f[k]]
      BY <1>5
    <2>3. QED BY <2>1, <2>2, Zenon
  <1>7. IsF(value)
    <2> HIDE DEF IsF
    <2>1. QED BY <1>6, Zenon
  <1>8. Scan(s) = [ret |-> 1, value |-> value[l]]
    <2>1. NumberIn(s) = value[l]
      BY <1>3, Zenon DEF NumberIn, length
    <2>2. Scan(s) = IF s = <<>> THEN [ret |-> -1]
                    ELSE IF length = 0 THEN [ret |-> 0]
                    ELSE [ret |-> 1, value |-> NumberIn(s)]
      BY <1>2, Zenon DEF Scan, length
    <2> HIDE DEF value, l
    <2>3. length # 0
      BY <1>1, <1>3
    <2>4. QED BY <1>1, <1>3, <2>1, <2>2, <2>3, Zenon
  <1> HIDE DEF value, l
  <1>9. value[l] = n
    <2>1. value[0] = 0 /\ \A k \in 1..l : value[k] = 10 * value[k - 1] + s[k] - 48
      <3>1. \A k \in 0..l : value[k] = IF k = 0 THEN 0 ELSE 10 * value[k - 1] + s[k] - 48
        BY <1>7, Zenon
      <3>2. 0 \in 0..l /\ \A k \in 1..l : k \in 0..l /\ k # 0
        BY <1>1
      <3>3. QED BY <3>1, <3>2, Zenon
    <2> DEFINE S == {k \in Nat : k <= l => value[k] = f[k]}
    <2>2. 0 \in S
      BY <1>5, <2>1
    <2>3. ASSUME NEW k \in Nat, k \in S
          PROVE  k + 1 \in S
      <3>1. CASE k + 1 <= l
        <4>1. k + 1 \in 1..l /\ (k + 1) - 1 = k /\ value[k] = f[k]
          BY <1>1, <2>3, <3>1
        <4>2. value[k + 1] = 10 * value[(k + 1) - 1] + s[k + 1] - 48
          BY <2>1, <4>1, Zenon
        <4>3. f[k + 1] = 10 * f[(k + 1) - 1] + s[k + 1] - 48
          BY <1>5, <4>1, Zenon
        <4>4. value[k + 1] = f[k + 1]
          BY <4>1, <4>2, <4>3, Zenon
        <4>5. QED BY <4>4
      <3>2. QED BY <3>1
    <2> HIDE DEF S
    <2>4. l \in S
      BY <1>1, <2>2, <2>3, Induction
    <2>5. QED BY <1>1, <1>4, <2>4 DEF S
  <1>10. QED BY <1>2, <1>8, <1>9, Zenon

\* A byte that is no digit is no number.
LEMMA ScanOther ==
  ASSUME NEW s \in Seq(Byte), Len(s) = 1, s[1] \notin Digits, s[1] # NUL
  PROVE  Scan(s) = [ret |-> 0]
  <1> DEFINE P(q) == (\A i \in 1..q : s[i] \in Digits) /\ (q = Len(s) \/ s[q + 1] \notin Digits)
             length == Leading(s)
  <1>1. CString(s) = s /\ s # <<>>
    BY AllOfC
  <1>2. 0 \in 0..Len(s) /\ P(0)
    OBVIOUS
  <1>3. length \in 0..Len(s) /\ P(length)
    <2>1. length = CHOOSE q \in 0..Len(s) : P(q)
      BY Zenon DEF Leading
    <2> HIDE DEF P
    <2>2. QED BY <1>2, <2>1
  <1>4. Scan(s) = IF s = <<>> THEN [ret |-> -1]
                  ELSE IF length = 0 THEN [ret |-> 0]
                  ELSE [ret |-> 1, value |-> NumberIn(s)]
    BY <1>1, Zenon DEF Scan
  <1> HIDE DEF length
  <1>5. length = 0
    <2>1. CASE length = 1
      BY <1>3, <2>1
    <2>2. length = 0 \/ length = 1
      BY <1>3
    <2>3. QED BY <2>1, <2>2
  <1>6. QED BY <1>1, <1>4, <1>5, Zenon

-----------------------------------------------------------------------------
(***************************************************************************)
(* The values of a message, through a column                               *)
(***************************************************************************)

\* A string without the NUL appended to it.
LEMMA FrontOfAppend ==
  ASSUME NEW V, NEW v \in Seq(V), NEW e \in V
  PROVE  SubSeq(Append(v, e), 1, Len(Append(v, e)) - 1) = v
  OBVIOUS

\* What the client reads of a binary column it wrote bytes into.
LEMMA BinaryField ==
  ASSUME NEW b \in Backend, NEW x \in Seq(Byte)
  PROVE  FieldRead(b, Sent(b, TRUE, Stored(plugin_escape_binary(b, x)))) =
           IF b = "pgsql" THEN <<ByteaOut(x)>> ELSE IF b = "sqlite3" /\ x = <<>> THEN <<>> ELSE <<x>>
  <1>1. Stored(Quoted(x)) = <<x>>
    <2>1. Quoted(x).form = "quoted" /\ Quoted(x).text = x
      BY DEF Quoted
    <2>2. QED BY <2>1, Zenon DEF Stored
  <1>2. CASE b = "mysql"
    <2>1. plugin_escape_binary(b, x) = Quoted(x)
      BY <1>2, Zenon DEF plugin_escape_binary, mysql_escape_binary
    <2>2. QED BY <1>1, <1>2, <2>1 DEF Sent, FieldRead
  <1>3. CASE b = "pgsql"
    <2>1. plugin_escape_binary(b, x) = Quoted(x)
      BY <1>3, Zenon DEF plugin_escape_binary, pgsql_escape_binary
    <2>2. Sent(b, TRUE, <<x>>) = <<ByteaOut(x)>>
      BY <1>3 DEF Sent
    <2>3. QED BY <1>1, <1>3, <2>1, <2>2 DEF FieldRead
  <1>4. CASE b = "sqlite3"
    <2>1. plugin_escape_binary(b, x) = bin2hex(x)
      BY <1>4, Zenon DEF plugin_escape_binary
    <2>2. Sent(b, TRUE, <<x>>) = <<x>>
      BY <1>4 DEF Sent
    <2>3. FieldRead(b, <<x>>) = IF x = <<>> THEN <<>> ELSE <<x>>
      BY <1>4 DEF FieldRead
    <2>4. QED BY <1>4, <2>1, <2>2, <2>3, HexBack
  <1>5. QED BY <1>2, <1>3, <1>4 DEF Backend

\* The bytes get_data writes.
DataText(data) == IF data.type \in {"uint32", "uint64"} THEN Decimal(data.v) ELSE data.v

\* get_data writes the data, or the number in digits.
LEMMA DataWritten ==
  ASSUME NEW b, NEW adtype, NEW data, IsData(adtype, data)
  PROVE  get_data(b, data) = plugin_escape_binary(b, DataText(data)) /\ DataText(data) \in Seq(Byte)
  <1>1. CASE data.type \in {"byte", "byte string"}
    <2>1. Memory(data) = data.v /\ DataText(data) = data.v /\ data.v \in Seq(Byte)
      BY <1>1 DEF Memory, DataText, IsData
    <2>2. QED BY <1>1, <2>1, Zenon DEF get_data
  <1>2. CASE data.type = "char string"
    <2>1. Memory(data) = Append(data.v, NUL) /\ DataText(data) = data.v /\ data.v \in Seq(Byte \ {NUL})
      BY <1>2 DEF Memory, DataText, IsData
    <2> DEFINE v == data.v
    <2>2. v \in Seq(Byte) /\ SubSeq(Append(v, NUL), 1, Len(Append(v, NUL)) - 1) = v
      <3>1. v \in Seq(Byte \ {NUL})
        BY <2>1
      <3> HIDE DEF v
      <3>2. v \in Seq(Byte) /\ NUL \in Byte
        BY <3>1 DEF Byte, NUL
      <3>3. QED BY <3>2, FrontOfAppend
    <2>3. QED BY <1>2, <2>1, <2>2, Zenon DEF get_data
  <1>3. CASE data.type = "char"
    <2>1. Memory(data) = data.v /\ DataText(data) = data.v /\ data.v \in Seq(Byte) /\ Len(data.v) = 1
      BY <1>3 DEF Memory, DataText, IsData
    <2>2. SubSeq(data.v, 1, 1) = data.v
      <3> DEFINE v == data.v
      <3>1. v \in Seq(Byte) /\ Len(v) = 1
        BY <2>1
      <3> HIDE DEF v
      <3>2. SubSeq(v, 1, Len(v)) = v
        BY <3>1
      <3>3. QED BY <3>1, <3>2 DEF v
    <2>3. QED BY <1>3, <2>1, <2>2, Zenon DEF get_data
  <1>4. CASE data.type \in {"uint32", "uint64"}
    <2>1. DataText(data) = Decimal(data.v) /\ data.v \in Nat
      BY <1>4 DEF DataText, IsData
    <2>2. Shows(Decimal(data.v), data.v)
      BY <2>1, DecimalShows
    <2>3. Decimal(data.v) \in Seq(Byte)
      <3>1. Decimal(data.v) \in Seq(Digits)
        BY <2>2 DEF Shows
      <3>2. QED BY <3>1 DEF Digits, Byte
    <2>4. /\ data.type \notin {"byte", "byte string"} /\ data.type # "char string" /\ data.type # "char"
      BY <1>4
    <2>5. get_data(b, data) = plugin_escape_binary(b, Decimal(data.v))
      BY <2>4, Zenon DEF get_data
    <2>6. QED BY <2>1, <2>3, <2>5
  <1>5. QED BY <1>1, <1>2, <1>3, <1>4 DEF IsData

\* What the switch of get_additional_data gives for a type.
LEMMA DataRead ==
  ASSUME NEW b, NEW text
  PROVE  /\ \A adtype \in {"BOOLEAN", "BYTE"} : additional_data_of(b, adtype, text) = {SmallData("byte", text)}
         /\ additional_data_of(b, "CHARACTER", text) = {SmallData("char", text)}
         /\ additional_data_of(b, "STRING", text) = {CharString(text)}
         /\ additional_data_of(b, "INTEGER", text) = WideData("uint32", text)
         /\ additional_data_of(b, "NTPSTAMP", text) = WideData("uint64", text)
         /\ additional_data_of(b, "BYTE_STRING", text) = {[type |-> "byte string", v |-> unescape_binary(b, text)]}
  <1>1. additional_data_of(b, "BOOLEAN", text) = {SmallData("byte", text)}
    BY Zenon DEF additional_data_of
  <1>2. additional_data_of(b, "BYTE", text) = {SmallData("byte", text)}
    BY Zenon DEF additional_data_of
  <1>3. additional_data_of(b, "CHARACTER", text) = {SmallData("char", text)}
    BY Zenon DEF additional_data_of
  <1>4. additional_data_of(b, "STRING", text) = {CharString(text)}
    BY Zenon DEF additional_data_of
  <1>5. additional_data_of(b, "INTEGER", text) = WideData("uint32", text)
    BY Zenon DEF additional_data_of
  <1>6. additional_data_of(b, "NTPSTAMP", text) = WideData("uint64", text)
    BY Zenon DEF additional_data_of
  <1>7. additional_data_of(b, "BYTE_STRING", text) = {[type |-> "byte string", v |-> unescape_binary(b, text)]}
    BY Zenon DEF additional_data_of
  <1>8. QED BY <1>1, <1>2, <1>3, <1>4, <1>5, <1>6, <1>7, Zenon

\* The data that comes back, of a text that is read.
LEMMA DataOfField ==
  ASSUME NEW b \in Backend, NEW adtype, NEW data, IsData(adtype, data), NEW text,
         IF b = "pgsql" THEN text = ByteaOut(DataText(data))
         ELSE text = DataText(data) /\ (b = "sqlite3" => text # <<>>)
  PROVE  DataBack(b, adtype, data) = {<<d>> : d \in additional_data_of(b, adtype, text)}
  <1> DEFINE field == FieldRead(b, Sent(b, TRUE, Stored(get_data(b, data))))
  <1>1. get_data(b, data) = plugin_escape_binary(b, DataText(data)) /\ DataText(data) \in Seq(Byte)
    BY DataWritten
  <1>2. field = <<text>>
    BY <1>1, BinaryField
  <1>3. DataBack(b, adtype, data) = IF field = <<>> THEN {<<>>}
                                    ELSE {<<d>> : d \in additional_data_of(b, adtype, field[1])}
    BY Zenon DEF DataBack
  <1> HIDE DEF field
  <1>4. field # <<>> /\ field[1] = text
    BY <1>2
  <1>5. QED BY <1>3, <1>4, Zenon

\* What comes back of data, the deviations aside.
LEMMA DataKept ==
  ASSUME NEW adtype, NEW data, IsData(adtype, data), backend \in Backend, ~DataDeviation(adtype, data),
         NEW a \in DataBack(backend, adtype, data)
  PROVE  /\ a # <<>> /\ a[1].v = data.v
         /\ a[1].type = IF adtype \in SmallTypes THEN "char string" ELSE data.type
  <1> DEFINE b == backend
             v == data.v
  <1>1. CASE data.type \in {"byte", "char"}
    <2>1. /\ adtype \in SmallTypes /\ v \in Seq(Byte) /\ Len(v) = 1
          /\ adtype \in {"BOOLEAN", "BYTE"} \/ adtype = "CHARACTER"
      BY <1>1 DEF IsData, SmallTypes
    <2>2. DataText(data) = v
      BY <1>1 DEF DataText
    <2>3. v[1] \notin Digits /\ v[1] # NUL /\ (b = "pgsql" => ByteaOut(v) = v)
      <3>1. v[1] \notin Digits \cup {NUL}
        BY <2>1, Zenon DEF DataDeviation
      <3>2. adtype # "BYTE_STRING"
        BY <2>1 DEF SmallTypes
      <3>3. b = "pgsql" => ByteaOut(v) = v
        BY <1>1, <3>2 DEF DataDeviation
      <3>4. QED BY <3>1, <3>3
    <2>4. DataBack(b, adtype, data) = {<<d>> : d \in additional_data_of(b, adtype, v)}
      <3>1. v # <<>>
        <4>1. Len(v) = 1
          BY <2>1
        <4>2. Len(<<>>) # 1
          OBVIOUS
        <4>3. QED BY <4>1, <4>2, Zenon
      <3>2. QED BY <2>2, <2>3, <3>1, DataOfField
    <2> HIDE DEF b, v
    <2>5. Scan(v) = [ret |-> 0] /\ CString(v) = v
      <3>1. \A i \in 1..Len(v) : v[i] # NUL
        BY <2>1, <2>3
      <3>2. QED BY <2>1, <2>3, <3>1, ScanOther, AllOfC
    <2>6. field_to_uint8(v) = <<>>
      <3>1. Scan(v).ret <= 0
        BY <2>5
      <3>2. QED BY <3>1, Zenon DEF field_to_uint8
    <2>7. SmallData("byte", v) = CharString(v) /\ SmallData("char", v) = CharString(v)
      BY <2>6 DEF SmallData
    <2>8. additional_data_of(b, adtype, v) = {CharString(v)}
      <3>1. /\ \A type \in {"BOOLEAN", "BYTE"} : additional_data_of(b, type, v) = {SmallData("byte", v)}
            /\ additional_data_of(b, "CHARACTER", v) = {SmallData("char", v)}
        BY DataRead, Zenon
      <3>2. QED BY <2>1, <2>7, <3>1, Zenon
    <2>9. a = <<CharString(v)>>
      BY <2>4, <2>8 DEF b
    <2>10. CharString(v).type = "char string" /\ CharString(v).v = v
      BY <2>5 DEF CharString
    <2>11. QED BY <2>1, <2>9, <2>10 DEF v
  <1>2. CASE data.type = "char string"
    <2>1. adtype = "STRING" /\ v \in Seq(Byte \ {NUL})
      BY <1>2 DEF IsData, DataDeviation
    <2>2. DataText(data) = v
      BY <1>2 DEF DataText
    <2>3. (b = "pgsql" => ByteaOut(v) = v) /\ (b = "sqlite3" => v # <<>>)
      BY <1>2, <2>1 DEF DataDeviation
    <2>4. DataBack(b, adtype, data) = {<<d>> : d \in additional_data_of(b, adtype, v)}
      BY <2>2, <2>3, DataOfField
    <2> HIDE DEF b, v
    <2>5. CString(v) = v
      <3>1. \A i \in 1..Len(v) : v[i] # NUL
        BY <2>1
      <3>2. QED BY <2>1, <3>1, AllOfC
    <2>6. a = <<CharString(v)>>
      <3>1. additional_data_of(b, adtype, v) = {CharString(v)}
        BY <2>1, DataRead, Zenon
      <3>2. QED BY <2>4, <3>1 DEF b
    <2>7. CharString(v).type = "char string" /\ CharString(v).v = v
      BY <2>5 DEF CharString
    <2>8. adtype \notin SmallTypes
      BY <2>1 DEF SmallTypes
    <2>9. QED BY <1>2, <2>6, <2>7, <2>8 DEF v
  <1>3. CASE data.type = "byte string"
    <2>1. adtype = "BYTE_STRING" /\ v \in Seq(Byte)
      BY <1>3 DEF IsData
    <2>2. DataText(data) = v
      BY <1>3 DEF DataText
    <2> DEFINE t == IF b = "pgsql" THEN ByteaOut(v) ELSE v
               r == [type |-> "byte string", v |-> unescape_binary(b, t)]
    <2>3. b = "sqlite3" => v # <<>>
      BY <1>3 DEF DataDeviation
    <2>4. DataBack(b, adtype, data) = {<<d>> : d \in additional_data_of(b, adtype, t)}
      BY <2>2, <2>3, DataOfField
    <2>5. unescape_binary(b, t) = v
      <3>1. ByteaIn(ByteaOut(v)) = v
        BY <2>1, ByteaBack
      <3>2. QED BY <3>1, Zenon DEF unescape_binary, pgsql_unescape_binary
    <2> HIDE DEF b, t
    <2>6. additional_data_of(b, adtype, t) = {r}
      BY <2>1, DataRead
    <2>7. r.type = "byte string" /\ r.v = v
      BY <2>5
    <2> HIDE DEF r
    <2>8. a = <<r>>
      BY <2>4, <2>6 DEF b
    <2>9. adtype \notin SmallTypes
      BY <2>1 DEF SmallTypes
    <2>10. QED BY <1>3, <2>7, <2>8, <2>9
  <1>4. CASE data.type \in {"uint32", "uint64"}
    <2>1. /\ v \in Nat
          /\ \/ adtype = "INTEGER" /\ data.type = "uint32"
             \/ adtype = "NTPSTAMP" /\ data.type = "uint64"
      BY <1>4 DEF IsData
    <2> DEFINE x == Decimal(v)
               r == [type |-> data.type, v |-> v]
    <2>2. DataText(data) = x
      BY <1>4 DEF DataText
    <2>3. Shows(x, v)
      BY <2>1, DecimalShows
    <2> HIDE DEF x
    <2>4. x \in Seq(Digits) /\ x # <<>> /\ x \in Seq(Byte)
      <3>1. x \in Seq(Digits) /\ Len(x) > 0
        BY <2>3 DEF Shows
      <3>2. QED BY <3>1 DEF Digits, Byte
    <2>5. ByteaOut(x) = x
      <3>1. \A j \in 1..Len(x) : x[j] \in Digits
        BY <2>4
      <3>2. QED BY <2>4, <3>1, ByteaPlain
    <2>6. DataBack(b, adtype, data) = {<<d>> : d \in additional_data_of(b, adtype, x)}
      BY <2>2, <2>4, <2>5, DataOfField
    <2> HIDE DEF b, v
    <2>7. Scan(x) = [ret |-> 1, value |-> v]
      BY <2>1, <2>3, ScanShown
    <2>8. field_to_uint(x) = {v}
      BY <2>7 DEF field_to_uint
    <2>9. \A type : WideData(type, x) = {[type |-> type, v |-> v]}
      BY <2>8 DEF WideData
    <2>10. additional_data_of(b, adtype, x) = {r}
      <3>1. /\ additional_data_of(b, "INTEGER", x) = WideData("uint32", x)
            /\ additional_data_of(b, "NTPSTAMP", x) = WideData("uint64", x)
        BY DataRead, Zenon
      <3>2. QED BY <2>1, <2>9, <3>1, Zenon
    <2>11. r.type = data.type /\ r.v = v
      OBVIOUS
    <2> HIDE DEF r
    <2>12. a = <<r>>
      BY <2>6, <2>10 DEF b
    <2>13. adtype \notin SmallTypes
      BY <2>1 DEF SmallTypes
    <2>14. QED BY <2>11, <2>12, <2>13 DEF v
  <1>5. QED BY <1>1, <1>2, <1>3, <1>4 DEF IsData

\* A string comes back, but for an empty one of sqlite3.
LEMMA StringKept ==
  ASSUME NEW b \in Backend, NEW string, string = <<>> \/ (string = <<string[1]>> /\ string[1] \in Seq(Byte \ {NUL}))
  PROVE  LET field == get_string(b, Sent(b, FALSE, Stored(sql_escape(b, string))))
         IN  field = string \/ (b = "sqlite3" /\ string = <<<<>>>> /\ field = <<>>)
  <1>1. \A f : Sent(b, FALSE, f) = f
    BY DEF Sent
  <1>2. CASE string = <<>>
    <2>1. sql_escape(b, string).form = "null"
      BY <1>2 DEF sql_escape, NullLiteral
    <2>2. Stored(sql_escape(b, string)) = <<>>
      BY <2>1, Zenon DEF Stored
    <2>3. QED BY <1>1, <1>2, <2>2 DEF get_string, FieldRead
  <1>3. CASE string # <<>>
    <2> DEFINE x == string[1]
    <2>1. string = <<x>> /\ x \in Seq(Byte \ {NUL})
      BY <1>3
    <2> HIDE DEF x
    <2>2. CString(x) = x
      <3>1. \A i \in 1..Len(x) : x[i] # NUL
        BY <2>1
      <3>2. QED BY <2>1, <3>1, AllOfC
    <2>3. plugin_escape(b, x) = Quoted(x)
      <3>1. CASE b = "mysql"
        BY <3>1, Zenon DEF plugin_escape, plugin_escape_binary, mysql_escape_binary
      <3>2. CASE b = "pgsql"
        BY <2>2, <3>2, Zenon DEF plugin_escape, pgsql_escape
      <3>3. CASE b = "sqlite3"
        BY <2>2, <3>3, Zenon DEF plugin_escape, sqlite3_escape
      <3>4. QED BY <3>1, <3>2, <3>3 DEF Backend
    <2>4. sql_escape(b, string) = Quoted(x)
      BY <1>3, <2>2, <2>3, Zenon DEF sql_escape, x
    <2>5. Stored(Quoted(x)) = <<x>>
      <3>1. Quoted(x).form = "quoted" /\ Quoted(x).text = x
        BY DEF Quoted
      <3>2. QED BY <3>1, Zenon DEF Stored
    <2>6. get_string(b, <<x>>) = IF b = "sqlite3" /\ <<x>> = <<<<>>>> THEN <<>> ELSE <<x>>
      BY Zenon DEF get_string, FieldRead
    <2>7. QED BY <1>1, <2>1, <2>4, <2>5, <2>6, Zenon
  <1>4. QED BY <1>2, <1>3

\* A time comes back, to the second where it has no column for more.
LEMMA TimeKept ==
  ASSUME NEW time \in TimeValues, NEW has_usec \in BOOLEAN
  PROVE  get_timestamp(time_to_timestamp(time, has_usec), has_usec) =
           IF time = <<>> \/ has_usec THEN time ELSE <<[time[1] EXCEPT !.usec = 0]>>
  <1> DEFINE columns == time_to_timestamp(time, has_usec)
  <1>1. CASE time = <<>>
    BY <1>1 DEF time_to_timestamp, get_timestamp
  <1>2. CASE time # <<>>
    <2> DEFINE t == time[1]
               u == time[1].utc
               buf == build_timestamp_string(u)
               usec == IF has_usec THEN t.usec ELSE 0
    <2>1. /\ time = <<t>>
          /\ t \in [utc : [{"tm_year", "tm_mon", "tm_mday", "tm_hour", "tm_min", "tm_sec"} -> Int], gmtoff : Int, usec : Int]
      BY <1>2, ValuesAssumption
    <2>2. /\ columns.time = <<buf>> /\ columns.gmtoff = <<t.gmtoff>>
          /\ has_usec => columns.usec = <<t.usec>>
      BY <1>2 DEF time_to_timestamp
    <2>3. get_timestamp(columns, has_usec) = <<time_from_timestamp(buf, t.gmtoff, usec)>>
      <3> HIDE DEF columns, buf, t
      <3>1. columns.time # <<>> /\ columns.time[1] = buf /\ columns.gmtoff[1] = t.gmtoff
            /\ (IF has_usec THEN columns.usec[1] ELSE 0) = usec
        BY <2>2
      <3>2. QED BY <3>1, Zenon DEF get_timestamp
    <2>4. u \in [{"tm_year", "tm_mon", "tm_mday", "tm_hour", "tm_min", "tm_sec"} -> Int]
      BY <2>1
    <2>5. time_from_timestamp(buf, t.gmtoff, usec) = [utc |-> u, gmtoff |-> t.gmtoff, usec |-> usec]
      <3> DEFINE back == [tm_year |-> buf[1] - 1900, tm_mon |-> buf[2] - 1, tm_mday |-> buf[3],
                          tm_hour |-> buf[4], tm_min |-> buf[5], tm_sec |-> buf[6]]
      <3> HIDE DEF u
      <3>1. /\ buf[1] = u.tm_year + 1900 /\ buf[2] = u.tm_mon + 1 /\ buf[3] = u.tm_mday
            /\ buf[4] = u.tm_hour /\ buf[5] = u.tm_min /\ buf[6] = u.tm_sec
        BY DEF build_timestamp_string
      <3>2. back = u
        <4> HIDE DEF buf
        <4>1. u = [tm_year |-> u.tm_year, tm_mon |-> u.tm_mon, tm_mday |-> u.tm_mday,
                   tm_hour |-> u.tm_hour, tm_min |-> u.tm_min, tm_sec |-> u.tm_sec]
          BY <2>4
        <4>2. u.tm_year \in Int /\ u.tm_mon \in Int
          BY <2>4
        <4>3. buf[1] - 1900 = u.tm_year /\ buf[2] - 1 = u.tm_mon
          BY <3>1, <4>2
        <4>4. back = [tm_year |-> u.tm_year, tm_mon |-> u.tm_mon, tm_mday |-> u.tm_mday,
                      tm_hour |-> u.tm_hour, tm_min |-> u.tm_min, tm_sec |-> u.tm_sec]
          BY <3>1, <4>3
        <4> HIDE DEF back
        <4>5. QED BY <4>1, <4>4
      <3> HIDE DEF buf
      <3>3. time_from_timestamp(buf, t.gmtoff, usec) = [utc |-> back, gmtoff |-> t.gmtoff, usec |-> usec]
        BY DEF time_from_timestamp
      <3> HIDE DEF back
      <3>4. QED BY <3>2, <3>3
    <2>6. CASE has_usec
      <3>1. t = [utc |-> u, gmtoff |-> t.gmtoff, usec |-> t.usec]
        BY <2>1
      <3>2. QED BY <2>1, <2>3, <2>5, <2>6, <3>1, Zenon
    <2>7. CASE ~has_usec
      <3>1. [t EXCEPT !.usec = 0] = [utc |-> u, gmtoff |-> t.gmtoff, usec |-> 0]
        BY <2>1
      <3>2. QED BY <1>2, <2>3, <2>5, <2>7, <3>1, Zenon
    <2>8. QED BY <2>6, <2>7
  <1>3. QED BY <1>1, <1>2

\* What is invariant about the values a client stores.
ValuesInv == backend \in Backend /\ ValuesRoundTrip

\* Every step keeps ValuesInv.
LEMMA ValuesStep ==
  ASSUME ValuesInv, [Next]_vars
  PROVE  ValuesInv'
  <1>0. backend \in Backend
    BY DEF ValuesInv
  <1>1. ASSUME backend' = backend, request'.what \notin {"string", "data", "time"}
        PROVE  ValuesInv'
    BY <1>0, <1>1 DEF ValuesInv, ValuesRoundTrip
  <1>2. ASSUME NEW string \in StringValues, StoreString(string)
        PROVE  ValuesInv'
    <2>1. request' = [what |-> "string", string |-> string] /\ backend' = backend
      BY <1>2 DEF StoreString
    <2>2. answer' = get_string(backend, Sent(backend, FALSE, Stored(sql_escape(backend, string))))
      BY <1>2, Zenon DEF StoreString
    <2>3. string = <<>> \/ (string = <<string[1]>> /\ string[1] \in Seq(Byte \ {NUL}))
      BY ValuesAssumption, Zenon
    <2>4. answer' = string \/ (backend = "sqlite3" /\ string = <<<<>>>> /\ answer' = <<>>)
      BY <1>0, <2>2, <2>3, StringKept, Zenon
    <2>5. request'.what = "string" /\ request'.string = string
      BY <2>1
    <2>6. QED BY <1>0, <2>1, <2>4, <2>5 DEF ValuesInv, ValuesRoundTrip
  <1>3. ASSUME NEW d \in DataValues, StoreData(d.adtype, d.data)
        PROVE  ValuesInv'
    <2> DEFINE adtype == d.adtype
               data == d.data
    <2>1. request' = [what |-> "data", adtype |-> adtype, data |-> data] /\ backend' = backend
      BY <1>3 DEF StoreData
    <2>2. answer' \in DataBack(backend, adtype, data)
      BY <1>3, Zenon DEF StoreData
    <2>3. IsData(adtype, data)
      BY ValuesAssumption, Zenon
    <2> HIDE DEF adtype, data
    <2>4. \/ DataDeviation(adtype, data)
          \/ /\ answer' # <<>> /\ answer'[1].v = data.v
             /\ answer'[1].type = IF adtype \in SmallTypes THEN "char string" ELSE data.type
      BY <1>0, <2>2, <2>3, DataKept, Zenon
    <2>6. request'.what = "data" /\ request'.adtype = adtype /\ request'.data = data
      BY <2>1
    <2>7. DataDeviation(request.adtype, request.data)' <=> DataDeviation(adtype, data)
      BY <2>1, <2>6, Zenon DEF DataDeviation
    <2>8. QED BY <1>0, <2>1, <2>4, <2>6, <2>7 DEF ValuesInv, ValuesRoundTrip
  <1>4. ASSUME NEW time \in TimeValues, NEW has_usec \in BOOLEAN, StoreTime(time, has_usec)
        PROVE  ValuesInv'
    <2>1. request' = [what |-> "time", time |-> time, has_usec |-> has_usec] /\ backend' = backend
      BY <1>4 DEF StoreTime
    <2>2. answer' = get_timestamp(time_to_timestamp(time, has_usec), has_usec)
      BY <1>4, Zenon DEF StoreTime
    <2>3. answer' = IF time = <<>> \/ has_usec THEN time ELSE <<[time[1] EXCEPT !.usec = 0]>>
      BY <2>2, TimeKept, Zenon
    <2>4. request'.what = "time" /\ request'.time = time /\ request'.has_usec = has_usec
      BY <2>1
    <2>5. ValuesRoundTrip'
      BY <2>3, <2>4 DEF ValuesRoundTrip
    <2>6. QED BY <1>0, <2>1, <2>5 DEF ValuesInv
  <1>5. ASSUME NEW op, NEW val, NEW nulls, Ask(op, val, nulls)
        PROVE  ValuesInv'
    <2>1. request' = [what |-> "criterion", op |-> op, val |-> val, nulls |-> nulls] /\ backend' = backend
      BY <1>5, Zenon DEF Ask
    <2>2. QED BY <1>1, <2>1
  <1>6. ASSUME AskText \/ AskRegex \/ AskTime \/ AskBrokenDown
        PROVE  ValuesInv'
    BY <1>5, <1>6, Zenon DEF AskText, AskRegex, AskTime, AskBrokenDown
  <1>7. ASSUME NEW pairs \in Written, NEW tail \in Tails, NewSettings(pairs, tail)
        PROVE  ValuesInv'
    BY <1>1, <1>7 DEF NewSettings
  <1>8. ASSUME NEW sel \in Selections, AddSelected(sel)
        PROVE  ValuesInv'
    <2>1. request' = [what |-> "selection", sel |-> sel] /\ backend' = backend
      BY <1>8 DEF AddSelected
    <2>2. QED BY <1>1, <2>1
  <1>9. ASSUME NEW kind, NEW op, NEW v, NEW order, NEW limit, NextPage(kind, op, v, order, limit)
        PROVE  ValuesInv'
    <2>1. /\ request' = [what |-> "page", kind |-> kind, op |-> op, v |-> v, order |-> order]
          /\ backend' = backend
      BY <1>9 DEF NextPage
    <2>2. QED BY <1>1, <2>1
  <1>10. CASE UNCHANGED vars
    BY <1>10 DEF vars, ValuesInv, ValuesRoundTrip, DataDeviation
  <1>11. QED
    BY <1>2, <1>3, <1>4, <1>6, <1>7, <1>8, <1>9, <1>10 DEF Next

\* A value comes back from the column it was stored in, with every SQL plugin and
\* whatever its bytes: ValuesRoundTrip of every specification of a client.
THEOREM ValuesCorrect == Spec => []ValuesRoundTrip
  <1>1. Init => ValuesInv
    BY DEF Init, ValuesInv, ValuesRoundTrip, NoRequest
  <1>2. ValuesInv /\ [Next]_vars => ValuesInv'
    BY ValuesStep
  <1>3. ValuesInv => ValuesRoundTrip
    BY DEF ValuesInv
  <1>4. QED BY <1>1, <1>2, <1>3, PTL DEF Spec

-----------------------------------------------------------------------------
(***************************************************************************)
(* LIKE                                                                    *)
(***************************************************************************)

\* Where the pattern from i on matches, given where it does from later on.
MatchFrom(pattern, text, any, one, escape, from, i) ==
  IF i > Len(pattern) THEN {Len(text) + 1}
  ELSE IF <<pattern[i]>> = any THEN {j \in 1..Len(text) + 1 : \E k \in from[i + 1] : j <= k}
  ELSE IF <<pattern[i]>> = escape /\ i < Len(pattern)
  THEN {j \in 1..Len(text) : text[j] = pattern[i + 1] /\ j + 1 \in from[i + 2]}
  ELSE {j \in 1..Len(text) : (<<pattern[i]>> = one \/ text[j] = pattern[i]) /\ j + 1 \in from[i + 1]}

\* Matches reads a pattern from its end.
LEMMA MatchesFrom ==
  ASSUME NEW V, NEW p \in Seq(V), NEW x, NEW any, NEW one, NEW esc
  PROVE  \E f : /\ Matches(p, x, any, one, esc) <=> 1 \in f[1]
                /\ \A i \in 1..Len(p) + 1 : f[i] = MatchFrom(p, x, any, one, esc, f, i)
  <1> DEFINE n == Len(p)
             Body(f, i) == MatchFrom(p, x, any, one, esc, f, i)
             IsF(f, m) == f = [i \in m..n + 1 |-> Body(f, i)]
             Has(m) == \E f : IsF(f, m)
             S == {m \in Nat : m <= n + 1 => Has(n + 2 - m)}
             from == CHOOSE f : IsF(f, 1)
  <1>0. n \in Nat
    OBVIOUS
  <1>1. Has(n + 2)
    <2> HIDE DEF Body
    <2>1. (n + 2)..n + 1 = {}
      BY <1>0
    <2> DEFINE f == [i \in {} |-> <<>>]
    <2>2. f = [i \in {} |-> Body(f, i)]
      <3> HIDE DEF n
      <3>1. QED OBVIOUS
    <2>3. IsF(f, n + 2)
      <3> HIDE DEF n, f
      <3>1. QED BY <2>1, <2>2
    <2> HIDE DEF IsF
    <2>4. QED BY <2>3
  <1>2. ASSUME NEW m \in 1..n + 1, Has(m + 1)
        PROVE  Has(m)
    <2> HIDE DEF IsF, Body
    <2>1. PICK f : IsF(f, m + 1)
      BY <1>2
    <2> DEFINE g == [i \in m..n + 1 |-> IF i = m THEN Body(f, i) ELSE f[i]]
    <2>2. \A i \in (m + 1)..n + 1 : f[i] = Body(f, i)
      BY <2>1, Zenon DEF IsF
    <2> HIDE DEF n
    <2>3. \A i \in (m + 1)..n + 1 : g[i] = f[i]
      BY <1>0
    <2>4. g[m] = Body(f, m)
      BY <1>0
    <2>5. ASSUME NEW i \in m..n + 1
          PROVE  Body(g, i) = Body(f, i)
      <3> HIDE DEF g
      <3>1. CASE i > n
        BY <3>1, Zenon DEF n, Body, MatchFrom
      <3>2. CASE i <= n
        <4>1. /\ i + 1 \in (m + 1)..n + 1
              /\ i < n => i + 2 \in (m + 1)..n + 1
          BY <1>0, <3>2
        <4>2. g[i + 1] = f[i + 1] /\ (i < n => g[i + 2] = f[i + 2])
          BY <2>3, <4>1
        <4>3. CASE i < n
          <5>1. g[i + 1] = f[i + 1] /\ g[i + 2] = f[i + 2]
            BY <4>2, <4>3
          <5>2. QED BY <5>1, Zenon DEF Body, MatchFrom
        <4>4. CASE ~(i < n)
          BY <4>2, <4>4, Zenon DEF n, Body, MatchFrom
        <4>5. QED BY <4>3, <4>4
      <3>3. QED BY <1>0, <3>1, <3>2
    <2>6. ASSUME NEW i \in m..n + 1
          PROVE  g[i] = Body(g, i)
      <3> HIDE DEF g
      <3>1. CASE i = m
        BY <2>4, <2>5, <3>1
      <3>2. CASE i # m
        <4>1. i \in (m + 1)..n + 1
          BY <1>0, <3>2
        <4>2. QED BY <2>2, <2>3, <2>5, <4>1
      <3>3. QED BY <3>1, <3>2
    <2>7. IsF(g, m)
      BY <2>6, Zenon DEF IsF
    <2>8. QED BY <2>7, Zenon
  <1>3. Has(1)
    <2> HIDE DEF Has, n
    <2>1. 0 \in S
      BY <1>0, <1>1
    <2>2. ASSUME NEW m \in Nat, m \in S
          PROVE  m + 1 \in S
      <3>1. CASE m + 1 <= n + 1
        <4>1. Has(n + 2 - m) /\ n + 2 - m = (n + 2 - (m + 1)) + 1 /\ n + 2 - (m + 1) \in 1..n + 1
          BY <1>0, <2>2, <3>1
        <4>2. Has(n + 2 - (m + 1))
          BY <1>2, <4>1
        <4>3. QED BY <4>2
      <3>2. QED BY <3>1
    <2> HIDE DEF S
    <2>3. n + 1 \in S
      BY <1>0, <2>1, <2>2, Induction
    <2>4. Has(n + 2 - (n + 1)) /\ n + 2 - (n + 1) = 1
      BY <1>0, <2>3 DEF S
    <2>5. QED BY <2>4
  <1>4. IsF(from, 1)
    BY <1>3, Zenon
  <1>5. Matches(p, x, any, one, esc) <=> 1 \in from[1]
    BY Zenon DEF Matches, MatchFrom
  <1> HIDE DEF from
  <1>6. \A i \in 1..n + 1 : from[i] = Body(from, i)
    BY <1>4, Zenon
  <1>7. QED BY <1>5, <1>6, Zenon

\* Whether a character of a pattern is escaped.
Escaped(p, i) == EscapedIn(p)[i]

\* A backslash that is not escaped escapes the next character.
LEMMA EscapedNext ==
  ASSUME NEW V, NEW p \in Seq(V)
  PROVE  \A i \in 1..Len(p) : Escaped(p, i) <=> (i > 1 /\ p[i - 1] = "\\" /\ ~Escaped(p, i - 1))
  <1> DEFINE Body(f, i) == i > 1 /\ p[i - 1] = "\\" /\ ~f[i - 1]
             IsF(f, m) == f = [i \in 1..m |-> Body(f, i)]
             Has(m) == \E f : IsF(f, m)
             S == {m \in Nat : Has(m)}
             next == CHOOSE f : IsF(f, Len(p))
  <1>1. Has(0)
    <2>1. IsF([i \in 1..0 |-> FALSE], 0)
      OBVIOUS
    <2> HIDE DEF IsF
    <2>2. QED BY <2>1
  <1>2. ASSUME NEW m \in Nat, Has(m)
        PROVE  Has(m + 1)
    <2> HIDE DEF IsF, Body
    <2>1. PICK f : IsF(f, m)
      BY <1>2
    <2> DEFINE g == [i \in 1..m + 1 |-> IF i = m + 1 THEN Body(f, i) ELSE f[i]]
    <2>2. \A i \in 1..m : f[i] = Body(f, i)
      BY <2>1, Zenon DEF IsF
    <2>3. (\A i \in 1..m : g[i] = f[i]) /\ g[m + 1] = Body(f, m + 1)
      OBVIOUS
    <2> HIDE DEF g
    <2>4. ASSUME NEW i \in 1..m + 1
          PROVE  Body(g, i) = Body(f, i)
      <3>1. i > 1 => i - 1 \in 1..m
        OBVIOUS
      <3>2. i > 1 => g[i - 1] = f[i - 1]
        BY <2>3, <3>1
      <3>3. CASE i > 1
        <4>1. g[i - 1] = f[i - 1]
          BY <3>2, <3>3
        <4>2. QED BY <4>1, Zenon DEF Body
      <3>4. CASE ~(i > 1)
        BY <3>4, Zenon DEF Body
      <3>5. QED BY <3>3, <3>4
    <2>5. ASSUME NEW i \in 1..m + 1
          PROVE  g[i] = Body(g, i)
      <3>1. CASE i = m + 1
        BY <2>3, <2>4, <3>1
      <3>2. CASE i # m + 1
        <4>1. i \in 1..m
          BY <3>2
        <4>2. QED BY <2>2, <2>3, <2>4, <4>1
      <3>3. QED BY <3>1, <3>2
    <2>6. IsF(g, m + 1)
      BY <2>5, Zenon DEF IsF, g
    <2>7. QED BY <2>6, Zenon
  <1>3. Has(Len(p))
    <2> HIDE DEF Has
    <2>1. 0 \in S /\ \A m \in Nat : m \in S => m + 1 \in S
      BY <1>1, <1>2
    <2> HIDE DEF S
    <2>2. Len(p) \in Nat
      OBVIOUS
    <2>3. Len(p) \in S
      BY <2>1, <2>2, Induction
    <2>4. QED BY <2>3 DEF S
  <1>4. IsF(next, Len(p))
    BY <1>3, Zenon
  <1>5. EscapedIn(p) = next
    BY Zenon DEF EscapedIn
  <1> HIDE DEF next
  <1>6. \A i \in 1..Len(p) : next[i] <=> Body(next, i)
    BY <1>4, Zenon
  <1>7. QED BY <1>5, <1>6, Zenon DEF Escaped

\* What build_criterion_fixed_sql_like_value writes for a character.
LikePiece(p, i) ==
  IF p[i] = "%" THEN <<"\\", "%">> ELSE IF p[i] = "*" /\ ~Escaped(p, i) THEN <<"%">> ELSE <<p[i]>>

\* q has the pieces of p one after the other.
LikePlaced(p, q, pos) ==
  /\ pos[0] = 0 /\ pos[Len(p)] = Len(q)
  /\ \A i \in 1..Len(p) :
       /\ pos[i] = pos[i - 1] + Len(LikePiece(p, i)) /\ pos[i] <= Len(q)
       /\ \A k \in 1..Len(LikePiece(p, i)) : q[pos[i - 1] + k] = LikePiece(p, i)[k]

\* The pieces.
LEMMA LikePieces ==
  ASSUME NEW V, {"\\", "%", "a"} \subseteq V, NEW p \in Seq(V), NEW i \in 1..Len(p)
  PROVE  /\ LikePiece(p, i) \in Seq(V) /\ Len(LikePiece(p, i)) \in 1..2
         /\ p[i] = "%" => Len(LikePiece(p, i)) = 2 /\ LikePiece(p, i)[1] = "\\" /\ LikePiece(p, i)[2] = "%"
         /\ p[i] = "*" /\ ~Escaped(p, i) => Len(LikePiece(p, i)) = 1 /\ LikePiece(p, i)[1] = "%"
         /\ p[i] # "%" /\ ~(p[i] = "*" /\ ~Escaped(p, i)) =>
              Len(LikePiece(p, i)) = 1 /\ LikePiece(p, i)[1] = p[i]
  <1>0. p[i] \in V
    OBVIOUS
  <1>1. CASE p[i] = "%"
    <2>1. LikePiece(p, i) = <<"\\", "%">>
      BY <1>1 DEF LikePiece
    <2>2. QED BY <1>1, <2>1
  <1>2. CASE p[i] # "%" /\ p[i] = "*" /\ ~Escaped(p, i)
    <2>1. LikePiece(p, i) = <<"%">>
      BY <1>2 DEF LikePiece
    <2>2. QED BY <1>2, <2>1
  <1>3. CASE p[i] # "%" /\ ~(p[i] = "*" /\ ~Escaped(p, i))
    <2>1. LikePiece(p, i) = <<p[i]>>
      BY <1>3 DEF LikePiece
    <2>2. QED BY <1>0, <1>3, <2>1
  <1>4. QED BY <1>1, <1>2, <1>3

\* LikeValue puts them one after the other.
LEMMA LikeValuePlaced ==
  ASSUME NEW V, {"\\", "%", "a"} \subseteq V, NEW p \in Seq(V)
  PROVE  /\ LikeValue(p) \in Seq(V)
         /\ \E pos \in [0..Len(p) -> Nat] : LikePlaced(p, LikeValue(p), pos)
  <1> DEFINE n == Len(p)
             s == [i \in 1..n |-> LikePiece(p, i)]
             q == LikeValue(p)
  <1>1. n \in Nat
    OBVIOUS
  <1>2. q = FlattenSeq(s)
    BY Zenon DEF LikeValue, LikePiece, Escaped
  <1>3. s \in [1..n -> Seq(V)]
    BY LikePieces
  <1>4. \A i \in 1..n : s[i] = LikePiece(p, i)
    OBVIOUS
  <1> HIDE DEF n, s, q
  <1>5. FlattenSeq(s) \in Seq(V) /\ \E pos \in [0..n -> Nat] : Placed(s, n, pos)
    BY <1>1, <1>3, FlattenAt
  <1>6. PICK pos \in [0..n -> Nat] : Placed(s, n, pos)
    BY <1>5
  <1>7. ASSUME NEW i \in 1..n
        PROVE  /\ pos[i] = pos[i - 1] + Len(LikePiece(p, i)) /\ pos[i] <= Len(q)
               /\ \A k \in 1..Len(LikePiece(p, i)) : q[pos[i - 1] + k] = LikePiece(p, i)[k]
    <2>1. s[i] = LikePiece(p, i)
      BY <1>4
    <2>2. /\ pos[i] = pos[i - 1] + Len(s[i]) /\ pos[i] <= pos[n] /\ pos[n] = Len(FlattenSeq(s))
          /\ \A k \in 1..Len(s[i]) : FlattenSeq(s)[pos[i - 1] + k] = s[i][k]
      BY <1>6, Zenon DEF Placed
    <2>3. QED BY <1>2, <2>1, <2>2, Zenon
  <1>8. q \in Seq(V) /\ pos[0] = 0 /\ pos[n] = Len(q)
    BY <1>2, <1>5, <1>6, Zenon DEF Placed
  <1>9. LikePlaced(p, q, pos)
    BY <1>7, <1>8, Zenon DEF LikePlaced, n
  <1>10. QED BY <1>8, <1>9, Zenon DEF n, q

\* A character in lower case.
Low(c) == IF c = "A" THEN "a" ELSE c

\* Lower case changes no character that means something in a pattern.
LEMMA LowerText ==
  ASSUME NEW V, {"\\", "%", "a"} \subseteq V, NEW p \in Seq(V)
  PROVE  /\ Lower(p) \in Seq(V) /\ Len(Lower(p)) = Len(p)
         /\ \A i \in 1..Len(p) : Lower(p)[i] = Low(p[i]) /\ Low(p[i]) \in V
         /\ \A i \in 1..Len(p), c \in {"\\", "%", "*", "_"} : Lower(p)[i] = c <=> p[i] = c
  <1> DEFINE n == Len(p)
             r == [i \in 1..n |-> Low(p[i])]
  <1>1. n \in Nat /\ DOMAIN p = 1..n /\ \A i \in 1..n : p[i] \in V
    OBVIOUS
  <1>2. Lower(p) = r
    BY <1>1, Zenon DEF Lower, Low
  <1>3. \A i \in 1..n : Low(p[i]) \in V
    BY <1>1 DEF Low
  <1>4. r \in Seq(V) /\ Len(r) = n /\ \A i \in 1..n : r[i] = Low(p[i])
    <2> HIDE DEF n
    <2>1. QED BY <1>1, <1>3
  <1> HIDE DEF r
  <1>5. \A i \in 1..n, c \in {"\\", "%", "*", "_"} : Lower(p)[i] = c <=> p[i] = c
    BY <1>2, <1>4 DEF Low
  <1>6. QED BY <1>2, <1>3, <1>4, <1>5

\* The same characters are escaped in lower case.
LEMMA LowerEscaped ==
  ASSUME NEW V, {"\\", "%", "a"} \subseteq V, NEW p \in Seq(V)
  PROVE  \A i \in 1..Len(p) : Escaped(Lower(p), i) <=> Escaped(p, i)
  <1> DEFINE n == Len(p)
             r == Lower(p)
             S == {i \in Nat : i \in 1..n => (Escaped(r, i) <=> Escaped(p, i))}
  <1>1. r \in Seq(V) /\ Len(r) = n /\ n \in Nat /\ \A i \in 1..n : (r[i] = "\\" <=> p[i] = "\\")
    <2>1. n \in Nat
      OBVIOUS
    <2>2. QED BY <2>1, LowerText
  <1>2. /\ \A i \in 1..n : Escaped(p, i) <=> (i > 1 /\ p[i - 1] = "\\" /\ ~Escaped(p, i - 1))
        /\ \A i \in 1..n : Escaped(r, i) <=> (i > 1 /\ r[i - 1] = "\\" /\ ~Escaped(r, i - 1))
    <2> HIDE DEF r
    <2>1. \A i \in 1..Len(r) : Escaped(r, i) <=> (i > 1 /\ r[i - 1] = "\\" /\ ~Escaped(r, i - 1))
      BY <1>1, EscapedNext
    <2>2. QED BY <1>1, <2>1, EscapedNext
  <1> HIDE DEF n, r
  <1>3. 0 \in S
    OBVIOUS
  <1>4. ASSUME NEW i \in Nat, i \in S
        PROVE  i + 1 \in S
    <2>1. CASE i + 1 \in 1..n /\ i + 1 > 1
      <3>1. i \in 1..n /\ (i + 1) - 1 = i
        BY <1>1, <2>1
      <3>2. (Escaped(r, i) <=> Escaped(p, i)) /\ (r[i] = "\\" <=> p[i] = "\\")
        BY <1>1, <1>4, <3>1
      <3>3. Escaped(p, i + 1) <=> (p[i] = "\\" /\ ~Escaped(p, i))
        BY <1>2, <2>1, <3>1
      <3>4. Escaped(r, i + 1) <=> (r[i] = "\\" /\ ~Escaped(r, i))
        BY <1>2, <2>1, <3>1
      <3>5. Escaped(r, i + 1) <=> Escaped(p, i + 1)
        BY <3>2, <3>3, <3>4
      <3>6. QED BY <3>5
    <2>2. CASE i + 1 \in 1..n /\ ~(i + 1 > 1)
      <3>1. ~Escaped(p, i + 1) /\ ~Escaped(r, i + 1)
        BY <1>2, <2>2
      <3>2. QED BY <3>1
    <2>3. CASE i + 1 \notin 1..n
      BY <2>3
    <2>4. QED BY <2>1, <2>2, <2>3
  <1> HIDE DEF S
  <1>5. \A i \in Nat : i \in S
    BY <1>3, <1>4, Induction
  <1>6. \A i \in 1..n : i \in Nat /\ i \in S
    BY <1>1, <1>5
  <1>7. QED BY <1>6 DEF S, n, r

\* The pieces in lower case are those of the pattern in lower case.
LEMMA LowerPlaced ==
  ASSUME NEW V, {"\\", "%", "a"} \subseteq V, NEW p \in Seq(V), NEW q \in Seq(V), NEW pos \in [0..Len(p) -> Nat], LikePlaced(p, q, pos)
  PROVE  LikePlaced(Lower(p), Lower(q), pos)
  <1> DEFINE n == Len(p)
             r == Lower(p)
             t == Lower(q)
  <1>0. n \in Nat /\ Len(q) \in Nat
    OBVIOUS
  <1>1. /\ r \in Seq(V) /\ Len(r) = n
        /\ \A i \in 1..n : r[i] = Low(p[i])
        /\ \A i \in 1..n, c \in {"\\", "%", "*", "_"} : r[i] = c <=> p[i] = c
    BY LowerText, Zenon
  <1>2. Len(t) = Len(q) /\ \A i \in 1..Len(q) : t[i] = Low(q[i])
    BY LowerText, Zenon
  <1>3. \A i \in 1..n : Escaped(r, i) <=> Escaped(p, i)
    BY LowerEscaped
  <1>4. /\ pos[0] = 0 /\ pos[n] = Len(q)
        /\ \A i \in 1..n : /\ pos[i] = pos[i - 1] + Len(LikePiece(p, i)) /\ pos[i] <= Len(q)
                           /\ \A k \in 1..Len(LikePiece(p, i)) : q[pos[i - 1] + k] = LikePiece(p, i)[k]
    BY Zenon DEF LikePlaced
  <1> HIDE DEF n, r, t
  <1>5. ASSUME NEW i \in 1..n
        PROVE  /\ Len(LikePiece(r, i)) = Len(LikePiece(p, i)) /\ Len(LikePiece(p, i)) \in 1..2
               /\ \A k \in 1..Len(LikePiece(p, i)) : LikePiece(r, i)[k] = Low(LikePiece(p, i)[k])
    <2>0. Low("\\") = "\\" /\ Low("%") = "%"
      BY DEF Low
    <2>1. CASE p[i] = "%"
      <3>1. r[i] = "%"
        BY <1>1, <2>1
      <3>2. LikePiece(p, i) = <<"\\", "%">> /\ LikePiece(r, i) = <<"\\", "%">>
        BY <2>1, <3>1 DEF LikePiece
      <3>3. QED BY <2>0, <3>2
    <2>2. CASE p[i] # "%" /\ p[i] = "*" /\ ~Escaped(p, i)
      <3>1. r[i] # "%" /\ r[i] = "*" /\ ~Escaped(r, i)
        BY <1>1, <1>3, <2>2
      <3>2. LikePiece(p, i) = <<"%">> /\ LikePiece(r, i) = <<"%">>
        BY <2>2, <3>1 DEF LikePiece
      <3>3. QED BY <2>0, <3>2
    <2>3. CASE p[i] # "%" /\ ~(p[i] = "*" /\ ~Escaped(p, i))
      <3>1. r[i] # "%" /\ ~(r[i] = "*" /\ ~Escaped(r, i))
        BY <1>1, <1>3, <2>3
      <3>2. LikePiece(p, i) = <<p[i]>> /\ LikePiece(r, i) = <<r[i]>> /\ r[i] = Low(p[i])
        BY <1>1, <2>3, <3>1 DEF LikePiece
      <3>3. QED BY <3>2
    <2>4. QED BY <2>1, <2>2, <2>3
  <1>6. ASSUME NEW i \in 1..n
        PROVE  /\ pos[i] = pos[i - 1] + Len(LikePiece(r, i)) /\ pos[i] <= Len(t)
               /\ \A k \in 1..Len(LikePiece(r, i)) : t[pos[i - 1] + k] = LikePiece(r, i)[k]
    <2>1. pos[i] = pos[i - 1] + Len(LikePiece(r, i)) /\ pos[i] <= Len(t)
      BY <1>2, <1>4, <1>5, Zenon
    <2>2. ASSUME NEW k \in 1..Len(LikePiece(p, i))
          PROVE  t[pos[i - 1] + k] = LikePiece(r, i)[k]
      <3> DEFINE l == Len(LikePiece(p, i))
                 a == pos[i - 1]
                 m == Len(q)
      <3>1. l \in 1..2 /\ a + l <= m /\ m \in Nat /\ a \in Nat /\ k \in 1..l
        <4>1. i - 1 \in 0..n
          BY <1>0
        <4>2. a \in Nat
          BY <4>1 DEF n
        <4>3. l \in 1..2 /\ pos[i] = a + l /\ pos[i] <= m
          BY <1>4, <1>5, Zenon
        <4>4. QED BY <1>0, <4>2, <4>3
      <3> HIDE DEF l, a, m
      <3>2. a + k \in 1..m
        BY <3>1
      <3>3. t[a + k] = Low(q[a + k])
        BY <1>2, <3>2, Zenon DEF m
      <3>4. q[a + k] = LikePiece(p, i)[k] /\ LikePiece(r, i)[k] = Low(LikePiece(p, i)[k])
        BY <1>4, <1>5, Zenon DEF a
      <3>5. QED BY <3>3, <3>4, Zenon DEF a
    <2>3. QED BY <1>5, <2>1, <2>2, Zenon
  <1>7. pos[0] = 0 /\ pos[Len(r)] = Len(t) /\ Len(r) = n
    BY <1>1, <1>2, <1>4
  <1>8. LikePlaced(r, t, pos)
    BY <1>6, <1>7, Zenon DEF LikePlaced
  <1>9. QED BY <1>8 DEF r, t

\* What LIKE is given faithfully: see LikeDeviation.
Faithful(p, escape) ==
  \A i \in 1..Len(p) :
    /\ p[i] # "_"
    /\ ~(p[i] = "%" /\ Escaped(p, i))
    /\ ~(p[i] = "\\" /\ i = Len(p) /\ ~Escaped(p, i))
    /\ escape = <<>> => p[i] # "\\" /\ p[i] # "%"

\* A character on its own is what it is.
LEMMA Ones ==
  ASSUME NEW c, NEW d
  PROVE  (<<c>> = <<d>> <=> c = d) /\ <<c>> # <<>>
  OBVIOUS

\* A text matches the value given to LIKE as it matches the pattern of the client.
LEMMA LikeAgrees ==
  ASSUME NEW V, {"\\", "%", "a"} \subseteq V, NEW p \in Seq(V), NEW q \in Seq(V), NEW x,
         NEW pos \in [0..Len(p) -> Nat], LikePlaced(p, q, pos),
         NEW escape \in {<<>>, <<"\\">>}, Faithful(p, escape)
  PROVE  Matches(q, x, <<"%">>, <<"_">>, escape) <=> Matches(p, x, <<"*">>, <<>>, <<"\\">>)
  <1> DEFINE n == Len(p)
             F(f, i) == MatchFrom(p, x, <<"*">>, <<>>, <<"\\">>, f, i)
             G(g, i) == MatchFrom(q, x, <<"%">>, <<"_">>, escape, g, i)
  <1>0. n \in Nat /\ Len(q) \in Nat
    OBVIOUS
  <1>1. PICK f : /\ Matches(p, x, <<"*">>, <<>>, <<"\\">>) <=> 1 \in f[1]
                 /\ \A i \in 1..n + 1 : f[i] = F(f, i)
    BY MatchesFrom
  <1>2. PICK g : /\ Matches(q, x, <<"%">>, <<"_">>, escape) <=> 1 \in g[1]
                 /\ \A i \in 1..Len(q) + 1 : g[i] = G(g, i)
    <2>1. \A any, one : \E g : /\ Matches(q, x, any, one, escape) <=> 1 \in g[1]
                               /\ \A i \in 1..Len(q) + 1 : g[i] = MatchFrom(q, x, any, one, escape, g, i)
      BY MatchesFrom
    <2>2. QED BY <2>1
  <1>3. \A i \in 1..n : Escaped(p, i) <=> (i > 1 /\ p[i - 1] = "\\" /\ ~Escaped(p, i - 1))
    BY EscapedNext
  <1>4. /\ pos[0] = 0 /\ pos[n] = Len(q)
        /\ \A i \in 1..n : /\ pos[i] = pos[i - 1] + Len(LikePiece(p, i)) /\ pos[i] <= Len(q)
                           /\ \A k \in 1..Len(LikePiece(p, i)) : q[pos[i - 1] + k] = LikePiece(p, i)[k]
    BY Zenon DEF LikePlaced
  <1>5. \A i \in 1..n : /\ p[i] # "_" /\ ~(p[i] = "%" /\ Escaped(p, i))
                        /\ ~(p[i] = "\\" /\ i = n /\ ~Escaped(p, i))
                        /\ escape = <<>> => p[i] # "\\" /\ p[i] # "%"
    BY Zenon DEF Faithful
  <1> DEFINE Same(i) == (i <= n => ~Escaped(p, i)) => f[i] = g[pos[i - 1] + 1]
             S == {m \in Nat : \A i \in 1..n + 1 : i >= n + 1 - m => Same(i)}
  <1>6. ASSUME NEW i \in 1..n
        PROVE  /\ LikePiece(p, i) \in Seq(V) /\ Len(LikePiece(p, i)) \in 1..2
               /\ p[i] = "%" => Len(LikePiece(p, i)) = 2 /\ LikePiece(p, i)[1] = "\\" /\ LikePiece(p, i)[2] = "%"
               /\ p[i] = "*" /\ ~Escaped(p, i) => Len(LikePiece(p, i)) = 1 /\ LikePiece(p, i)[1] = "%"
               /\ p[i] # "%" /\ ~(p[i] = "*" /\ ~Escaped(p, i)) =>
                    Len(LikePiece(p, i)) = 1 /\ LikePiece(p, i)[1] = p[i]
    BY LikePieces
  <1> HIDE DEF n, F, G
  <1>7. \A i \in 1..n + 1 : pos[i - 1] \in Nat
    <2>1. \A i \in 1..n + 1 : i - 1 \in 0..n
      BY <1>0
    <2>2. QED BY <2>1 DEF n
  <1>8. Same(n + 1)
    <2>1. f[n + 1] = {Len(x) + 1}
      <3>1. n + 1 \in 1..n + 1 /\ n + 1 > n
        BY <1>0
      <3>2. f[n + 1] = F(f, n + 1)
        BY <1>1, <3>1
      <3>3. QED BY <3>1, <3>2, Zenon DEF F, MatchFrom, n
    <2>2. g[Len(q) + 1] = {Len(x) + 1}
      <3>1. Len(q) + 1 \in 1..Len(q) + 1 /\ Len(q) + 1 > Len(q)
        BY <1>0
      <3>2. g[Len(q) + 1] = G(g, Len(q) + 1)
        BY <1>2, <3>1
      <3>3. QED BY <3>1, <3>2, Zenon DEF G, MatchFrom
    <2>3. (n + 1) - 1 = n /\ pos[n] = Len(q)
      BY <1>0, <1>4
    <2>4. QED BY <2>1, <2>2, <2>3
  <1>9. ASSUME NEW i \in 1..n, ~Escaped(p, i), Same(i + 1), i + 1 <= n => Same(i + 2)
        PROVE  f[i] = g[pos[i - 1] + 1]
    <2> DEFINE c == p[i]
               j == pos[i - 1] + 1
    <2>1. i \in 1..n + 1 /\ ~(i > n) /\ (i + 1) - 1 = i /\ i - 1 \in 0..n
      BY <1>0
    <2>2. f[i] = F(f, i)
      BY <1>1, <2>1
    <2>3. pos[i - 1] \in Nat /\ j \in Nat /\ j = pos[i - 1] + 1
      BY <1>7, <2>1
    <2>4. /\ pos[i] = pos[i - 1] + Len(LikePiece(p, i)) /\ pos[i] <= Len(q)
          /\ \A k \in 1..Len(LikePiece(p, i)) : q[pos[i - 1] + k] = LikePiece(p, i)[k]
      BY <1>4, Zenon
    <2>5. Len(LikePiece(p, i)) \in 1..2 /\ q[j] = LikePiece(p, i)[1]
      BY <1>6, <2>4
    <2>6. j \in 1..Len(q) + 1 /\ ~(j > Len(q))
      <3> DEFINE l == Len(LikePiece(p, i))
                 a == pos[i - 1]
                 m == Len(q)
      <3>1. l \in 1..2 /\ a \in Nat /\ m \in Nat /\ a + l <= m /\ j = a + 1
        BY <1>0, <2>3, <2>4, <2>5
      <3> HIDE DEF l, a, m, j
      <3>2. j \in 1..m + 1 /\ ~(j > m)
        BY <3>1
      <3>3. QED BY <3>2 DEF m
    <2>7. g[j] = G(g, j)
      <3> HIDE DEF j
      <3>1. QED BY <1>2, <2>6
    <2> HIDE DEF j
    \* An unescaped star.
    <2>8. CASE c = "*"
      <3>1. q[j] = "%" /\ pos[i] = pos[i - 1] + 1
        BY <1>6, <1>9, <2>4, <2>5, <2>8
      <3>2. j + 1 = pos[i] + 1
        BY <2>3, <3>1
      <3>3. ~Escaped(p, i + 1) \/ ~(i + 1 <= n)
        <4>1. CASE i + 1 <= n
          <5>1. i + 1 \in 1..n
            BY <1>0, <4>1
          <5>2. p[(i + 1) - 1] # "\\"
            BY <2>1, <2>8
          <5>3. QED BY <1>3, <5>1, <5>2
        <4>2. QED BY <4>1
      <3>4. f[i + 1] = g[j + 1]
        BY <1>9, <2>1, <3>2, <3>3
      <3>5. F(f, i) = {k \in 1..Len(x) + 1 : \E m \in f[i + 1] : k <= m}
        BY <2>1, <2>8, Zenon DEF F, MatchFrom, n
      <3>6. G(g, j) = {k \in 1..Len(x) + 1 : \E m \in g[j + 1] : k <= m}
        BY <2>6, <3>1, Zenon DEF G, MatchFrom
      <3>7. QED BY <2>2, <2>7, <3>4, <3>5, <3>6, Zenon DEF j
    \* A backslash, and the character after it.
    <2>9. CASE c = "\\"
      <3>1. i # n /\ escape # <<>>
        BY <1>5, <1>9, <2>9
      <3>2. i + 1 \in 1..n /\ i < n /\ (i + 1) - 1 = i /\ (i + 2) - 1 = i + 1 /\ i + 1 <= n
        BY <1>0, <3>1
      <3>3. Escaped(p, i + 1)
        <4>1. i + 1 > 1 /\ p[(i + 1) - 1] = "\\" /\ ~Escaped(p, (i + 1) - 1)
          BY <1>9, <2>9, <3>2
        <4>2. QED BY <1>3, <3>2, <4>1
      <3>4. q[j] = "\\" /\ pos[i] = pos[i - 1] + 1
        BY <1>6, <2>4, <2>5, <2>9
      <3>5. Len(LikePiece(p, i + 1)) = 1 /\ LikePiece(p, i + 1)[1] = p[i + 1]
        BY <1>5, <1>6, <3>2, <3>3
      <3>6. q[j + 1] = p[i + 1] /\ pos[i + 1] = pos[i] + 1 /\ pos[i + 1] <= Len(q) /\ pos[i] \in Nat
        <4>1. /\ pos[i + 1] = pos[(i + 1) - 1] + Len(LikePiece(p, i + 1)) /\ pos[i + 1] <= Len(q)
              /\ \A k \in 1..Len(LikePiece(p, i + 1)) :
                   q[pos[(i + 1) - 1] + k] = LikePiece(p, i + 1)[k]
          BY <1>4, <3>2, Zenon
        <4>2. j + 1 = pos[(i + 1) - 1] + 1 /\ pos[i] \in Nat
          BY <2>3, <3>2, <3>4
        <4>3. 1 \in 1..Len(LikePiece(p, i + 1))
          BY <3>5
        <4>4. q[j + 1] = p[i + 1]
          BY <3>5, <4>1, <4>2, <4>3, Zenon
        <4>5. QED BY <3>2, <3>5, <4>1, <4>2, <4>4
      <3>7. j < Len(q) /\ j + 2 = pos[i + 1] + 1
        BY <1>0, <2>3, <3>4, <3>6
      <3>8. f[i + 2] = g[j + 2]
        <4>1. ASSUME i + 2 <= n PROVE ~Escaped(p, i + 2)
          <5>1. i + 2 \in 1..n
            BY <1>0, <4>1
          <5>2. QED BY <1>3, <3>2, <3>3, <5>1
        <4>2. f[i + 2] = g[pos[(i + 2) - 1] + 1]
          BY <1>9, <3>2, <4>1
        <4>3. QED BY <3>2, <3>7, <4>2
      <3>9. F(f, i) = {k \in 1..Len(x) : x[k] = p[i + 1] /\ k + 1 \in f[i + 2]}
        <4>1. <<p[i]>> # <<"*">> /\ <<p[i]>> = <<"\\">>
          BY <2>9
        <4>2. QED BY <2>1, <3>2, <4>1, Zenon DEF F, MatchFrom, n
      <3>10. G(g, j) = {k \in 1..Len(x) : x[k] = q[j + 1] /\ k + 1 \in g[j + 2]}
        <4>1. <<q[j]>> # <<"%">> /\ <<q[j]>> = escape
          BY <3>1, <3>4
        <4>2. QED BY <2>6, <3>7, <4>1, Zenon DEF G, MatchFrom
      <3>11. QED BY <2>2, <2>7, <3>6, <3>8, <3>9, <3>10, Zenon DEF j
    \* A percent sign, which is written after a backslash.
    <2>10. CASE c = "%"
      <3>1. escape = <<"\\">>
        BY <1>5, <2>10
      <3>2. Len(LikePiece(p, i)) = 2 /\ LikePiece(p, i)[1] = "\\" /\ LikePiece(p, i)[2] = "%"
        BY <1>6, <2>10
      <3>3. q[j] = "\\" /\ pos[i] = pos[i - 1] + 2
        BY <2>4, <2>5, <3>2
      <3>4. j + 1 = pos[i - 1] + 2 /\ j < Len(q) /\ j + 2 = pos[i] + 1
        BY <1>0, <2>3, <2>4, <3>3
      <3>5. q[j + 1] = "%"
        <4>1. 2 \in 1..Len(LikePiece(p, i))
          BY <3>2
        <4>2. QED BY <2>4, <3>2, <3>4, <4>1, Zenon
      <3>6. ~Escaped(p, i + 1) \/ ~(i + 1 <= n)
        <4>1. CASE i + 1 <= n
          <5>1. i + 1 \in 1..n
            BY <1>0, <4>1
          <5>2. p[(i + 1) - 1] # "\\"
            BY <2>1, <2>10
          <5>3. QED BY <1>3, <5>1, <5>2
        <4>2. QED BY <4>1
      <3>7. f[i + 1] = g[j + 2]
        BY <1>9, <2>1, <3>4, <3>6
      <3>8. F(f, i) = {k \in 1..Len(x) : x[k] = p[i] /\ k + 1 \in f[i + 1]}
        <4>1. <<p[i]>> # <<"*">> /\ <<p[i]>> # <<"\\">> /\ <<p[i]>> # <<>>
          BY <2>10
        <4>2. F(f, i) = {k \in 1..Len(x) : (<<p[i]>> = <<>> \/ x[k] = p[i]) /\ k + 1 \in f[i + 1]}
          BY <2>1, <4>1, Zenon DEF F, MatchFrom, n
        <4>3. QED BY <4>1, <4>2
      <3>9. G(g, j) = {k \in 1..Len(x) : x[k] = q[j + 1] /\ k + 1 \in g[j + 2]}
        <4>1. <<q[j]>> # <<"%">> /\ <<q[j]>> = escape
          BY <3>1, <3>3
        <4>2. QED BY <2>6, <3>4, <4>1, Zenon DEF G, MatchFrom
      <3>10. QED BY <2>2, <2>7, <2>10, <3>5, <3>7, <3>8, <3>9, Zenon DEF j
    \* Any other character.
    <2>11. CASE c \notin {"*", "\\", "%"}
      <3>0. Len(LikePiece(p, i)) = 1 /\ LikePiece(p, i)[1] = p[i]
        BY <1>6, <2>11
      <3>1. q[j] = p[i] /\ pos[i] = pos[i - 1] + 1
        BY <2>4, <2>5, <3>0
      <3>2. j + 1 = pos[i] + 1
        BY <2>3, <3>1
      <3>3. ~Escaped(p, i + 1) \/ ~(i + 1 <= n)
        <4>1. CASE i + 1 <= n
          <5>1. i + 1 \in 1..n
            BY <1>0, <4>1
          <5>2. p[(i + 1) - 1] # "\\"
            BY <2>1, <2>11
          <5>3. QED BY <1>3, <5>1, <5>2
        <4>2. QED BY <4>1
      <3>4. f[i + 1] = g[j + 1]
        BY <1>9, <2>1, <3>2, <3>3
      <3>5. F(f, i) = {k \in 1..Len(x) : x[k] = p[i] /\ k + 1 \in f[i + 1]}
        <4>1. <<p[i]>> # <<"*">> /\ <<p[i]>> # <<"\\">> /\ <<p[i]>> # <<>>
          BY <2>11, Ones
        <4>2. F(f, i) = {k \in 1..Len(x) : (<<p[i]>> = <<>> \/ x[k] = p[i]) /\ k + 1 \in f[i + 1]}
          BY <2>1, <4>1, Zenon DEF F, MatchFrom, n
        <4>3. QED BY <4>1, <4>2
      <3>6. G(g, j) = {k \in 1..Len(x) : x[k] = q[j] /\ k + 1 \in g[j + 1]}
        <4>1. <<q[j]>> # <<"%">> /\ <<q[j]>> # escape /\ <<q[j]>> # <<"_">>
          BY <1>5, <2>11, <3>1, Ones
        <4>2. G(g, j) = {k \in 1..Len(x) : (<<q[j]>> = <<"_">> \/ x[k] = q[j]) /\ k + 1 \in g[j + 1]}
          BY <2>6, <4>1, Zenon DEF G, MatchFrom
        <4>3. QED BY <4>1, <4>2
      <3>7. QED BY <2>2, <2>7, <3>1, <3>4, <3>5, <3>6, Zenon DEF j
    <2>12. QED BY <2>8, <2>9, <2>10, <2>11
  <1>10. Same(1)
    <2> HIDE DEF Same
    <2>1. 0 \in S
      BY <1>0, <1>8
    <2>2. ASSUME NEW m \in Nat, m \in S
          PROVE  m + 1 \in S
      <3>1. \A i \in 1..n + 1 : i >= n + 1 - m => Same(i)
        BY <2>2
      <3>2. ASSUME NEW i \in 1..n + 1, i >= n + 1 - (m + 1)
            PROVE  Same(i)
        <4>1. CASE i >= n + 1 - m
          BY <3>1, <4>1
        <4>2. CASE i = n + 1
          BY <1>8, <4>2
        <4>3. CASE ~(i >= n + 1 - m) /\ i # n + 1
          <5>1. i \in 1..n /\ i + 1 \in 1..n + 1 /\ i + 1 >= n + 1 - m
                /\ (i + 1 <= n => i + 2 \in 1..n + 1 /\ i + 2 >= n + 1 - m)
            BY <1>0, <3>2, <4>3
          <5>2. Same(i + 1) /\ (i + 1 <= n => Same(i + 2))
            BY <3>1, <5>1
          <5>3. i <= n
            BY <1>0, <5>1
          <5>4. QED BY <1>9, <5>1, <5>2, <5>3 DEF Same
        <4>4. QED BY <4>1, <4>2, <4>3
      <3>3. QED BY <3>2
    <2> HIDE DEF S
    <2>3. n \in S
      BY <1>0, <2>1, <2>2, Induction
    <2>4. \A i \in 1..n + 1 : i >= n + 1 - n => Same(i)
      BY <2>3 DEF S
    <2>5. 1 \in 1..n + 1 /\ 1 >= n + 1 - n
      BY <1>0
    <2>6. QED BY <2>4, <2>5
  <1>11. f[1] = g[1]
    <2>1. 1 <= n => ~Escaped(p, 1)
      <3>1. 1 <= n => 1 \in 1..n /\ ~(1 > 1)
        BY <1>0
      <3>2. QED BY <1>3, <3>1
    <2>2. f[1] = g[pos[1 - 1] + 1]
      BY <1>10, <2>1
    <2>3. pos[1 - 1] + 1 = 1
      BY <1>4
    <2>4. QED BY <2>2, <2>3
  <1>12. QED BY <1>1, <1>2, <1>11, Zenon

\* What LIKE means to a server.
LEMMA LikeRelations ==
  ASSUME NEW b, NEW rel, NEW x, NEW v
  PROVE  /\ rel = "LIKE"     => (Related(b, rel, x, v) <=> Like(b, v, x))
         /\ rel = "NOT LIKE" => (Related(b, rel, x, v) <=> ~Like(b, v, x))
  BY Zenon DEF Related

\* The relation of a SUBSTR operator.
LikeRelation(op) == IF op \in NotOperators THEN "NOT LIKE" ELSE "LIKE"

\* The constraint of every plugin is one LIKE, without regard to case for the NOCASE
\* operators and, with sqlite3, for the others too.
LEMMA LikeBuilt ==
  ASSUME NEW b \in Backend, NEW op \in SubstrOperators, NEW v, b = "sqlite3" => op \in NocaseOperators
  PROVE  \E t : /\ build_constraint_string(b, op, v) = <<Condition({t})>>
                /\ t.test = "compare"
                /\ \A x : Holds(b, t, x) <=> (Like(b, Cased(op, v), Cased(op, x)) <=> op \notin NotOperators)
  <1> DEFINE rel == LikeRelation(op)
             sqlop == IF op \in NocaseOperators THEN Fold(rel) ELSE Exact(rel)
  <1>1. /\ Lookup(mysql_operators, op) = <<sqlop>>
        /\ Lookup(pgsql_operators, op) = <<sqlop>>
        /\ op \in NocaseOperators => Lookup(sqlite3_operators, op) = <<sqlop>>
    <2> USE DEF Lookup, mysql_operators, pgsql_operators, sqlite3_operators, Exact, Fold,
                NocaseOperators, NotOperators, LikeRelation
    <2>1. CASE op = "SUBSTR"
      BY <2>1
    <2>2. CASE op = "SUBSTR_NOCASE"
      BY <2>2
    <2>3. CASE op = "NOT_SUBSTR"
      BY <2>3
    <2>4. CASE op = "NOT_SUBSTR_NOCASE"
      BY <2>4
    <2>5. QED BY <2>1, <2>2, <2>3, <2>4 DEF SubstrOperators
  <1>2. ASSUME NEW low, low => op \in NocaseOperators, NEW x
        PROVE  Holds(b, Compare(sqlop, low, v), x)
                 <=> (Like(b, Cased(op, v), Cased(op, x)) <=> op \notin NotOperators)
    <2>1. Holds(b, Compare(sqlop, low, v), x) <=> Related(b, rel, Cased(op, x), Cased(op, v))
      <3>1. CASE op \in NocaseOperators
        BY <3>1 DEF Holds, Compare, Exact, Fold, Cased
      <3>2. CASE op \notin NocaseOperators
        BY <1>2, <3>2 DEF Holds, Compare, Exact, Fold, Cased
      <3>3. QED BY <3>1, <3>2
    <2>2. CASE op \in NotOperators
      <3>1. rel = "NOT LIKE"
        BY <2>2 DEF LikeRelation
      <3>2. QED BY <2>1, <2>2, <3>1, LikeRelations, Zenon
    <2>3. CASE op \notin NotOperators
      <3>1. rel = "LIKE"
        BY <2>3 DEF LikeRelation
      <3>2. QED BY <2>1, <2>3, <3>1, LikeRelations, Zenon
    <2>4. QED BY <2>2, <2>3
  <1>3. \A low : Compare(sqlop, low, v).test = "compare"
    BY DEF Compare
  <1> HIDE DEF sqlop
  <1>4. CASE b = "mysql"
    <2>1. build_constraint_string(b, op, v) = mysql_build_constraint(op, v)
      BY <1>4, PluginFunctions
    <2>2. get_operator_string("mysql", op) = <<sqlop>>
      BY <1>1, PluginTables
    <2>3. mysql_build_constraint(op, v) = <<Condition({Compare(sqlop, FALSE, v)})>>
      BY <2>2, One, Zenon DEF mysql_build_constraint
    <2>4. \A x : Holds(b, Compare(sqlop, FALSE, v), x)
                   <=> (Like(b, Cased(op, v), Cased(op, x)) <=> op \notin NotOperators)
      BY <1>2
    <2>5. Compare(sqlop, FALSE, v).test = "compare"
      BY <1>3
    <2>6. QED BY <2>1, <2>3, <2>4, <2>5
  <1>5. CASE b = "pgsql"
    <2>1. build_constraint_string(b, op, v) = pgsql_build_constraint(op, v)
      BY <1>5, PluginFunctions
    <2>2. get_operator_string("pgsql", op) = <<sqlop>>
      BY <1>1, PluginTables
    <2>3. pgsql_build_constraint(op, v) = <<Condition({Compare(sqlop, FALSE, v)})>>
      BY <2>2, One, Zenon DEF pgsql_build_constraint
    <2>4. \A x : Holds(b, Compare(sqlop, FALSE, v), x)
                   <=> (Like(b, Cased(op, v), Cased(op, x)) <=> op \notin NotOperators)
      BY <1>2
    <2>5. Compare(sqlop, FALSE, v).test = "compare"
      BY <1>3
    <2>6. QED BY <2>1, <2>3, <2>4, <2>5
  <1>6. CASE b = "sqlite3"
    <2>1. build_constraint_string(b, op, v) = sqlite3_build_constraint(op, v)
      BY <1>6, PluginFunctions
    <2>2. get_operator_string("sqlite3", op) = <<sqlop>>
      BY <1>1, <1>6, PluginTables
    <2>3. sqlite3_build_constraint(op, v) = <<Condition({Compare(sqlop, op \in NocaseOperators, v)})>>
      BY <2>2, One, Zenon DEF sqlite3_build_constraint
    <2> DEFINE low == op \in NocaseOperators
    <2>4. \A x : Holds(b, Compare(sqlop, low, v), x)
                   <=> (Like(b, Cased(op, v), Cased(op, x)) <=> op \notin NotOperators)
      <3>1. low => op \in NocaseOperators
        OBVIOUS
      <3> HIDE DEF low
      <3>2. QED BY <1>2, <3>1
    <2>5. Compare(sqlop, low, v).test = "compare"
      BY <1>3
    <2>6. QED BY <2>1, <2>3, <2>4, <2>5
  <1>7. QED BY <1>4, <1>5, <1>6 DEF Backend

\* The escape of the LIKE of a plugin.
LikeEscape(b) == IF b = "sqlite3" THEN <<>> ELSE <<"\\">>

\* A pattern LIKE can be given faithfully is so in lower case too.
LEMMA CasedFaithful ==
  ASSUME NEW V, {"\\", "%", "a"} \subseteq V, NEW p \in Seq(V), NEW op, ~LikeDeviation(op, p)
  PROVE  Faithful(Cased(op, p), LikeEscape(backend))
  <1> DEFINE n == Len(p)
             r == Lower(p)
             escape == LikeEscape(backend)
  <1>0. n \in Nat /\ DOMAIN p = 1..n
    OBVIOUS
  <1>1. \A i \in 1..n : /\ p[i] # "_" /\ ~(p[i] = "%" /\ Escaped(p, i))
                        /\ ~(p[i] = "\\" /\ i = n /\ ~Escaped(p, i))
                        /\ backend = "sqlite3" => p[i] \notin {"\\", "%"}
    BY <1>0, Zenon DEF LikeDeviation, Escaped
  <1>2. escape = <<>> => backend = "sqlite3"
    BY DEF LikeEscape
  <1>3. Faithful(p, escape)
    <2> HIDE DEF escape
    <2>1. \A i \in 1..n : escape = <<>> => p[i] # "\\" /\ p[i] # "%"
      BY <1>1, <1>2
    <2>2. QED BY <1>1, <2>1, Zenon DEF Faithful
  <1>4. Faithful(r, escape)
    <2>1. /\ Len(r) = n
          /\ \A i \in 1..n, c \in {"\\", "%", "*", "_"} : r[i] = c <=> p[i] = c
          /\ \A i \in 1..n : Escaped(r, i) <=> Escaped(p, i)
      BY LowerText, LowerEscaped
    <2> HIDE DEF escape, n, r
    <2>2. ASSUME NEW i \in 1..n
          PROVE  /\ r[i] # "_" /\ ~(r[i] = "%" /\ Escaped(r, i))
                 /\ ~(r[i] = "\\" /\ i = n /\ ~Escaped(r, i))
                 /\ escape = <<>> => r[i] # "\\" /\ r[i] # "%"
      <3>1. /\ (r[i] = "\\" <=> p[i] = "\\") /\ (r[i] = "%" <=> p[i] = "%") /\ (r[i] = "_" <=> p[i] = "_")
            /\ (Escaped(r, i) <=> Escaped(p, i))
        BY <2>1
      <3>2. backend = "sqlite3" => p[i] # "\\" /\ p[i] # "%"
        BY <1>1
      <3>3. QED BY <1>1, <1>2, <3>1, <3>2, Zenon
    <2>3. QED BY <2>1, <2>2, Zenon DEF Faithful
  <1>5. QED BY <1>3, <1>4 DEF Cased

\* LIKE finds the texts the pattern of the client matches.
LEMMA LikeMatches ==
  ASSUME NEW p \in Patterns, NEW op, NEW x, ~LikeDeviation(op, p)
  PROVE  Like(backend, Cased(op, LikeValue(p)), Cased(op, x))
           <=> Matches(Cased(op, p), Cased(op, x), <<"*">>, <<>>, <<"\\">>)
  <1> DEFINE V == ToSet(p) \cup {"\\", "%", "a"}
             q == LikeValue(p)
             escape == LikeEscape(backend)
             y == Cased(op, x)
  <1>1. {"\\", "%", "a"} \subseteq V /\ p \in Seq(V)
    <2>1. p \in Seq(ToSet(p))
      BY TextsAssumption
    <2>2. ToSet(p) \subseteq V
      OBVIOUS
    <2> HIDE DEF V
    <2>3. p \in Seq(V)
      BY <2>1, <2>2
    <2>4. QED BY <2>3 DEF V
  <1> HIDE DEF V, q
  <1>2. q \in Seq(V) /\ \E pos \in [0..Len(p) -> Nat] : LikePlaced(p, q, pos)
    BY <1>1, LikeValuePlaced DEF q
  <1>3. PICK pos \in [0..Len(p) -> Nat] : LikePlaced(p, q, pos)
    BY <1>2
  <1>4. escape \in {<<>>, <<"\\">>}
    BY DEF LikeEscape
  <1>5. Like(backend, Cased(op, q), y) <=> Matches(Cased(op, q), y, <<"%">>, <<"_">>, escape)
    BY Zenon DEF Like, LikeEscape
  <1>6. Faithful(Cased(op, p), escape)
    BY <1>1, CasedFaithful
  <1> HIDE DEF escape, y
  <1>7. /\ Cased(op, p) \in Seq(V) /\ Cased(op, q) \in Seq(V) /\ Len(Cased(op, p)) = Len(p)
        /\ LikePlaced(Cased(op, p), Cased(op, q), pos)
    <2>1. CASE op \in NocaseOperators
      <3>1. Cased(op, p) = Lower(p) /\ Cased(op, q) = Lower(q)
        BY <2>1 DEF Cased
      <3>2. LikePlaced(Lower(p), Lower(q), pos)
        BY <1>1, <1>2, <1>3, LowerPlaced
      <3>3. Lower(p) \in Seq(V) /\ Len(Lower(p)) = Len(p) /\ Lower(q) \in Seq(V)
        BY <1>1, <1>2, LowerText
      <3>4. QED BY <3>1, <3>2, <3>3
    <2>2. CASE op \notin NocaseOperators
      <3>1. Cased(op, p) = p /\ Cased(op, q) = q
        BY <2>2 DEF Cased
      <3>2. QED BY <1>1, <1>2, <1>3, <3>1
    <2>3. QED BY <2>1, <2>2
  <1>8. Matches(Cased(op, q), y, <<"%">>, <<"_">>, escape) <=> Matches(Cased(op, p), y, <<"*">>, <<>>, <<"\\">>)
    <2> DEFINE c == Cased(op, p)
               d == Cased(op, q)
    <2>1. /\ c \in Seq(V) /\ d \in Seq(V) /\ pos \in [0..Len(c) -> Nat]
          /\ LikePlaced(c, d, pos) /\ Faithful(c, escape)
      BY <1>6, <1>7
    <2> HIDE DEF c, d
    <2>2. Matches(d, y, <<"%">>, <<"_">>, escape) <=> Matches(c, y, <<"*">>, <<>>, <<"\\">>)
      BY <1>1, <1>4, <2>1, LikeAgrees
    <2>3. QED BY <2>2 DEF c, d
  <1>9. QED BY <1>5, <1>8 DEF q, y

\* A pattern selects the texts it matches, and its negation the others and NULL.
LEMMA LikeMeans ==
  ASSUME NEW op \in SubstrOperators, NEW val, val.type = "text", val.v \in Patterns, NEW field,
         backend \in Backend, ~LikeDeviation(op, val.v), field = <<>> \/ \E x : field = <<x>>
  PROVE  /\ build_criterion_string(backend, op, val) # <<>>
         /\ Selects(backend, build_criterion_string(backend, op, val)[1], field) <=> Means(op, val, field)
  <1> DEFINE b == backend
             v == LikeValue(val.v)
             matched(x) == Matches(Cased(op, val.v), Cased(op, x), <<"*">>, <<>>, <<"\\">>)
  <1>1. b = "sqlite3" => op \in NocaseOperators
    BY DEF LikeDeviation
  <1>2. Constraint(b, op, val) = build_constraint_string(b, op, v)
    <2>1. val.type # "time" /\ val.type # "regex" /\ val.type # "broken down"
      OBVIOUS
    <2>2. Constraint(b, op, val) = FixedValue(b, op, val)
      BY <2>1, Zenon DEF Constraint
    <2>3. QED BY <2>1, <2>2, Zenon DEF FixedValue, FixedSqlValue
  <1>3. PICK t : /\ build_constraint_string(b, op, v) = <<Condition({t})>>
                 /\ t.test = "compare"
                 /\ \A x : Holds(b, t, x) <=> (Like(b, Cased(op, v), Cased(op, x)) <=> op \notin NotOperators)
    <2> HIDE DEF v
    <2>1. QED BY <1>1, LikeBuilt
  <1> DEFINE cond == [Condition({t}) EXCEPT !.or_null = op \in NotOperators]
  <1>4. op # "NULL" /\ op # "NOT_NULL"
    BY DEF SubstrOperators
  <1>5. build_criterion_string(b, op, val) = <<cond>>
    BY <1>2, <1>3, <1>4, One, Zenon DEF build_criterion_string
  <1>6. cond.tests = {t} /\ (cond.or_null <=> op \in NotOperators) /\ ~cond.not
    BY DEF Condition
  <1>7. ASSUME NEW x
        PROVE  /\ Selects(b, cond, <<>>) <=> op \in NotOperators
               /\ Selects(b, cond, <<x>>) <=> Holds(b, t, x)
    <2>1. \A s \in {t} : s.test \notin {"null", "not null"}
      BY <1>3
    <2> HIDE DEF cond
    <2>2. QED BY <1>6, <2>1, SelectsTests
  <1>8. CASE field = <<>>
    <2>1. Means(op, val, field) <=> op \in NotOperators
      BY <1>4, <1>8 DEF Means
    <2>2. QED BY <1>5, <1>7, <1>8, <2>1, One
  <1>9. CASE \E x : field = <<x>>
    <2>1. PICK x : field = <<x>>
      BY <1>9
    <2>2. Means(op, val, field) <=> (Base(op, val, x) <=> op \notin NotOperators)
      BY <1>4, <2>1, One, Zenon DEF Means
    <2>3. Base(op, val, x) <=> matched(x)
      <3>1. val.type # "time" /\ val.type # "broken down"
        OBVIOUS
      <3>2. op \in SubstrOperators /\ op \notin RegexOperators
        BY DEF SubstrOperators, RegexOperators
      <3>3. QED BY <3>1, <3>2, Zenon DEF Base, Cased
    <2>4. Like(b, Cased(op, v), Cased(op, x)) <=> matched(x)
      BY LikeMatches
    <2>5. Holds(b, t, x) <=> (Like(b, Cased(op, v), Cased(op, x)) <=> op \notin NotOperators)
      BY <1>3
    <2> HIDE DEF v, matched, cond
    <2>6. Holds(b, t, x) <=> Means(op, val, field)
      BY <2>2, <2>3, <2>4, <2>5, Zenon
    <2>7. QED BY <1>5, <1>7, <2>1, <2>6, One
  <1>10. QED BY <1>8, <1>9

\* What is invariant about the patterns a client gives.
LikeInv == backend \in Backend /\ LikeMatchesPattern

\* The answer to a pattern is the texts it matches.
LEMMA AskLike ==
  ASSUME NEW op, NEW val, NEW nulls, nulls \subseteq {<<>>}, backend \in Backend, Ask(op, val, nulls),
         op \in SubstrOperators => val.type = "text" /\ val.v \in Patterns
  PROVE  LikeInv'
  <1>1. /\ request' = [what |-> "criterion", op |-> op, val |-> val, nulls |-> nulls]
        /\ backend' = backend
    BY DEF Ask
  <1>2. request'.op = op /\ request'.val = val /\ request'.nulls = nulls
    BY <1>1
  <1>3. LikeDeviation(request.op, request.val.v)' <=> LikeDeviation(op, val.v)
    BY <1>1, <1>2, Zenon DEF LikeDeviation
  <1>4. SUFFICES ASSUME op \in SubstrOperators, ~LikeDeviation(op, val.v)
                 PROVE  answer' = {f \in FieldsFor("text", nulls) : Means(op, val, f)}
    BY <1>1, <1>2, <1>3 DEF LikeInv, LikeMatchesPattern
  <1> DEFINE built == build_criterion_string(backend, op, val)
             S == FieldsFor("text", nulls)
  <1>5. ~ended'
    BY <1>4 DEF Ask, RegexpCrashes, SubstrOperators
  <1>6. val.type = "text" /\ val.v \in Patterns
    BY <1>4
  <1>7. answer' = IF built = <<>> \/ ended' THEN {} ELSE {f \in S : Selects(backend, built[1], f)}
    BY <1>6 DEF Ask
  <1>8. ASSUME NEW f \in S
        PROVE  f = <<>> \/ \E x : f = <<x>>
    <2>1. \E X : S = nulls \cup {<<x>> : x \in X}
      BY Zenon DEF FieldsFor
    <2>2. QED BY <2>1
  <1>9. ASSUME NEW f \in S
        PROVE  built # <<>> /\ (Selects(backend, built[1], f) <=> Means(op, val, f))
    BY <1>4, <1>6, <1>8, LikeMeans
  <1>10. CASE S = {}
    BY <1>7, <1>10
  <1>11. CASE S # {}
    <2>1. built # <<>>
      BY <1>9, <1>11
    <2> HIDE DEF built, S
    <2>2. answer' = {f \in S : Selects(backend, built[1], f)}
      BY <1>5, <1>7, <2>1
    <2>3. QED BY <1>9, <2>2 DEF S
  <1>12. QED BY <1>10, <1>11

\* Every step keeps LikeInv.
LEMMA LikeStep ==
  ASSUME LikeInv, [Next]_vars
  PROVE  LikeInv'
  <1>0. backend \in Backend
    BY DEF LikeInv
  <1>1. ASSUME backend' = backend, request'.what # "criterion"
        PROVE  LikeInv'
    BY <1>0, <1>1 DEF LikeInv, LikeMatchesPattern
  <1>2. CASE AskText
    <2>1. PICK op \in EqualOperators \cup SubstrOperators \cup NullOperators, v \in Patterns :
            Ask(op, [type |-> "text", v |-> v], {<<>>})
      BY <1>2 DEF AskText
    <2>2. QED BY <1>0, <2>1, AskLike
  <1>3. CASE AskRegex
    <2>1. PICK op \in RegexOperators, v \in Texts, nulls \in {{}, {<<>>}} :
            Ask(op, [type |-> "regex", v |-> v], nulls)
      BY <1>3 DEF AskRegex
    <2>2. op \notin SubstrOperators
      BY DEF RegexOperators, SubstrOperators
    <2>3. QED BY <1>0, <2>1, <2>2, AskLike
  <1>4. CASE AskTime
    <2>1. PICK op \in OrderOperators \cup {"EQUAL", "NOT_EQUAL"}, s \in Seconds :
            Ask(op, [type |-> "time", v |-> [sec |-> s]], {<<>>})
      BY <1>4 DEF AskTime
    <2>2. op \notin SubstrOperators
      BY DEF OrderOperators, SubstrOperators
    <2>3. QED BY <1>0, <2>1, <2>2, AskLike
  <1>5. CASE AskBrokenDown
    <2>1. PICK op \in {"EQUAL", "NOT_EQUAL", "GREATER"}, lt \in BrokenDown :
            Ask(op, [type |-> "broken down", v |-> lt], {<<>>})
      BY <1>5 DEF AskBrokenDown
    <2>2. op \notin SubstrOperators
      BY DEF SubstrOperators
    <2>3. QED BY <1>0, <2>1, <2>2, AskLike
  <1>6. ASSUME NEW pairs \in Written, NEW tail \in Tails, NewSettings(pairs, tail)
        PROVE  LikeInv'
    BY <1>1, <1>6 DEF NewSettings
  <1>7. ASSUME NEW sel \in Selections, AddSelected(sel)
        PROVE  LikeInv'
    <2>1. request' = [what |-> "selection", sel |-> sel] /\ backend' = backend
      BY <1>7 DEF AddSelected
    <2>2. QED BY <1>1, <2>1
  <1>8. ASSUME NEW kind, NEW op, NEW v, NEW order, NEW limit, NextPage(kind, op, v, order, limit)
        PROVE  LikeInv'
    <2>1. /\ request' = [what |-> "page", kind |-> kind, op |-> op, v |-> v, order |-> order]
          /\ backend' = backend
      BY <1>8 DEF NextPage
    <2>2. QED BY <1>1, <2>1
  <1>9. ASSUME NEW string \in StringValues, StoreString(string)
        PROVE  LikeInv'
    BY <1>1, <1>9 DEF StoreString
  <1>10. ASSUME NEW d \in DataValues, StoreData(d.adtype, d.data)
         PROVE  LikeInv'
    BY <1>1, <1>10 DEF StoreData
  <1>11. ASSUME NEW time \in TimeValues, NEW has_usec \in BOOLEAN, StoreTime(time, has_usec)
         PROVE  LikeInv'
    BY <1>1, <1>11 DEF StoreTime
  <1>12. CASE UNCHANGED vars
    BY <1>12 DEF vars, LikeInv, LikeMatchesPattern, LikeDeviation
  <1>13. QED
    BY <1>2, <1>3, <1>4, <1>5, <1>6, <1>7, <1>8, <1>9, <1>10, <1>11, <1>12 DEF Next

\* A pattern of the client, rewritten for LIKE, selects the texts it matches, with
\* every SQL plugin and whatever the texts and patterns, those LIKE cannot be given
\* faithfully aside: LikeMatchesPattern of every specification of a client.
THEOREM LikeCorrect == Spec => []LikeMatchesPattern
  <1>1. Init => LikeInv
    BY DEF Init, LikeInv, LikeMatchesPattern, NoRequest
  <1>2. LikeInv /\ [Next]_vars => LikeInv'
    BY LikeStep
  <1>3. LikeInv => LikeMatchesPattern
    BY DEF LikeInv
  <1>4. QED BY <1>1, <1>2, <1>3, PTL DEF Spec

-----------------------------------------------------------------------------
(***************************************************************************)
(* Selected paths                                                          *)
(***************************************************************************)

\* The least and the greatest of some numbers.
LEMMA LeastIs ==
  ASSUME NEW S, S \subseteq Int, NEW x \in S, \A y \in S : x <= y
  PROVE  Min(S) = x
  <1>1. \E z \in S : \A y \in S : z <= y
    OBVIOUS
  <1>2. Min(S) \in S /\ \A y \in S : Min(S) <= y
    BY <1>1, Zenon DEF Min
  <1>3. Min(S) <= x /\ x <= Min(S) /\ Min(S) \in Int /\ x \in Int
    BY <1>2
  <1>4. QED BY <1>3

\* The greatest of some numbers.
LEMMA GreatestIs ==
  ASSUME NEW S, S \subseteq Int, NEW x \in S, \A y \in S : x >= y
  PROVE  Max(S) = x
  <1>1. \E z \in S : \A y \in S : z >= y
    OBVIOUS
  <1>2. Max(S) \in S /\ \A y \in S : Max(S) >= y
    BY <1>1, Zenon DEF Max
  <1>3. Max(S) >= x /\ x >= Max(S) /\ Max(S) \in Int /\ x \in Int
    BY <1>2
  <1>4. QED BY <1>3

\* Numbers have a least one.
LEMMA LeastOf ==
  ASSUME NEW S, S \subseteq Nat, S # {}
  PROVE  \E x \in S : \A y \in S : x <= y
  <1>1. PICK x \in S : \A y \in S : ~(<<y, x>> \in OpToRel(<, Nat))
    BY NatLessThanWellFounded, WFMin, Zenon
  <1>2. \A y \in S : ~(y < x)
    BY <1>1 DEF OpToRel
  <1>3. \A y \in S : y \in Nat /\ x \in Nat
    OBVIOUS
  <1>4. \A y \in S : x <= y
    BY <1>2, <1>3
  <1>5. QED BY <1>4

\* Numbers up to n have a greatest one.
LEMMA GreatestOf ==
  ASSUME NEW n \in Nat, NEW S, S \subseteq 1..n, S # {}
  PROVE  \E x \in S : \A y \in S : x >= y
  <1> DEFINE T == {n - x : x \in S}
  <1>0. \A x \in S : x \in Int /\ n - x \in Nat
    OBVIOUS
  <1>1. T \subseteq Nat /\ T # {}
    BY <1>0
  <1>2. PICK z \in T : \A y \in T : z <= y
    BY <1>1, LeastOf
  <1>3. PICK x \in S : z = n - x
    OBVIOUS
  <1>4. ASSUME NEW y \in S
        PROVE  x >= y
    <2>1. n - y \in T
      OBVIOUS
    <2> HIDE DEF T
    <2>2. n - x <= n - y
      BY <1>2, <1>3, <2>1
    <2>3. QED BY <2>2
  <1>5. QED BY <1>4

\* Positions that increase step by step increase.
LEMMA Increasing ==
  ASSUME NEW n \in Nat, NEW pos \in [0..n -> Nat], \A i \in 1..n : pos[i - 1] < pos[i]
  PROVE  \A i, j \in 0..n : i < j => pos[i] < pos[j]
  <1> DEFINE S == {d \in Nat : \A i \in 0..n : i + d + 1 <= n => pos[i] < pos[i + d + 1]}
  <1>1. 0 \in S
    <2>1. ASSUME NEW i \in 0..n, i + 0 + 1 <= n
          PROVE  pos[i] < pos[i + 0 + 1]
      <3>1. i + 1 \in 1..n /\ (i + 1) - 1 = i /\ i + 0 + 1 = i + 1
        BY <2>1
      <3>2. QED BY <3>1
    <2>2. QED BY <2>1
  <1>2. ASSUME NEW d \in Nat, d \in S
        PROVE  d + 1 \in S
    <2>1. ASSUME NEW i \in 0..n, i + (d + 1) + 1 <= n
          PROVE  pos[i] < pos[i + (d + 1) + 1]
      <3>1. /\ i + d + 1 <= n /\ i + d + 1 \in 0..n /\ i + (d + 1) + 1 \in 1..n
            /\ (i + (d + 1) + 1) - 1 = i + d + 1
        BY <2>1
      <3>2. pos[i] < pos[i + d + 1]
        BY <1>2, <3>1
      <3>3. pos[i + d + 1] < pos[i + (d + 1) + 1]
        BY <3>1
      <3>4. pos[i] \in Nat /\ pos[i + d + 1] \in Nat /\ pos[i + (d + 1) + 1] \in Nat
        BY <3>1
      <3>5. QED BY <3>2, <3>3, <3>4
    <2>2. QED BY <2>1
  <1> HIDE DEF S
  <1>3. \A d \in Nat : d \in S
    BY <1>1, <1>2, Induction
  <1>4. ASSUME NEW i \in 0..n, NEW j \in 0..n, i < j
        PROVE  pos[i] < pos[j]
    <2>1. j - i - 1 \in Nat /\ i + (j - i - 1) + 1 = j
      BY <1>4
    <2>2. j - i - 1 \in S
      BY <1>3, <2>1
    <2>3. i + (j - i - 1) + 1 <= n => pos[i] < pos[i + (j - i - 1) + 1]
      BY <2>2 DEF S
    <2>4. QED BY <2>1, <2>3
  <1>5. QED BY <1>4

\* Every position is in one of the sequences.
LEMMA InPiece ==
  ASSUME NEW n \in Nat, NEW pos \in [0..n -> Nat], pos[0] = 0, NEW q \in 1..pos[n]
  PROVE  \E i \in 1..n : pos[i - 1] < q /\ q <= pos[i]
  <1> DEFINE S == {i \in 1..n : q <= pos[i]}
  <1>1. n \in S
    <2>1. pos[n] \in Nat /\ 1 <= pos[n] /\ q <= pos[n]
      OBVIOUS
    <2>2. n # 0
      BY <2>1
    <2>3. QED BY <2>1, <2>2
  <1>2. PICK i \in S : \A y \in S : i <= y
    <2>1. S \subseteq Nat /\ S # {}
      BY <1>1
    <2> HIDE DEF S
    <2>2. QED BY <2>1, LeastOf
  <1>3. i - 1 \in 0..n /\ i - 1 \notin S /\ pos[i - 1] \in Nat /\ q \in Nat
    BY <1>2
  <1>4. pos[i - 1] < q
    <2>1. CASE i = 1
      BY <2>1
    <2>2. CASE i # 1
      BY <1>3, <2>2
    <2>3. QED BY <2>1, <2>2
  <1>5. QED BY <1>4

\* The elements of a part of a sequence.
LEMMA SubSeqAt ==
  ASSUME NEW V, NEW t \in Seq(V), NEW a \in Nat, NEW l \in Nat, a + l <= Len(t)
  PROVE  /\ SubSeq(t, a + 1, a + l) \in Seq(V) /\ Len(SubSeq(t, a + 1, a + l)) = l
         /\ \A k \in 1..l : SubSeq(t, a + 1, a + l)[k] = t[a + k]
  <1> DEFINE m == a + 1
             n == a + l
  <1>1. m \in Int /\ n \in Int /\ n - m + 1 = l /\ (~(m <= n) => l = 0)
    OBVIOUS
  <1>2. \A i \in m..n : t[i] \in V
    OBVIOUS
  <1>3. \A k \in 1..l : m + k - 1 = a + k
    OBVIOUS
  <1> HIDE DEF m, n
  <1>4. /\ SubSeq(t, m, n) \in Seq(V) /\ Len(SubSeq(t, m, n)) = IF m <= n THEN n - m + 1 ELSE 0
        /\ \A k \in 1..n - m + 1 : SubSeq(t, m, n)[k] = t[m + k - 1]
    BY <1>1, <1>2, SubSeqProperties
  <1>5. QED BY <1>1, <1>3, <1>4 DEF m, n

\* Names without a comma, each after its separator.
Separated(V, n, names, s) ==
  \A i \in 1..n : /\ names[i] \in Seq(V) /\ \A k \in 1..Len(names[i]) : names[i][k] # ","
                  /\ s[i] = <<IF i = 1 THEN "/" ELSE ",">> \o names[i]

\* The filters between commas are parsed one by one.
LEMMA FiltersParsed ==
  ASSUME NEW V, NEW n \in Nat, n > 0, NEW names, NEW s \in [1..n -> Seq(V)], Separated(V, n, names, s)
  PROVE  LET t == FlattenSeq(s)
             found == {parse_filter(names[i]) : i \in 1..n}
         IN  /\ t \in Seq(V) /\ Len(t) > 0 /\ t[1] = "/"
             /\ parse_filters(SubSeq(t, 2, Len(t))) = IF {} \in found THEN {} ELSE UNION found
  <1> DEFINE t == FlattenSeq(s)
             rest == SubSeq(t, 2, Len(t))
             m == Len(rest)
  <1>1. t \in Seq(V) /\ \E pos \in [0..n -> Nat] : Placed(s, n, pos)
    BY FlattenAt
  <1>2. PICK pos \in [0..n -> Nat] : Placed(s, n, pos)
    BY <1>1
  <1>3. ASSUME NEW i \in 1..n
        PROVE  /\ Len(names[i]) \in Nat /\ Len(s[i]) = Len(names[i]) + 1
               /\ s[i][1] = IF i = 1 THEN "/" ELSE ","
               /\ \A k \in 1..Len(names[i]) : s[i][k + 1] = names[i][k]
    <2> DEFINE sep == IF i = 1 THEN "/" ELSE ","
               name == names[i]
    <2>1. name \in Seq(V)
      BY DEF Separated
    <2>2. s[i] = <<sep>> \o name
      BY Zenon DEF Separated
    <2> HIDE DEF sep, name
    <2>3. /\ Len(name) \in Nat /\ Len(<<sep>> \o name) = Len(name) + 1 /\ (<<sep>> \o name)[1] = sep
          /\ \A k \in 1..Len(name) : (<<sep>> \o name)[k + 1] = name[k]
      <3> DEFINE W == V \cup {sep}
      <3>1. name \in Seq(W) /\ <<sep>> \in Seq(W) /\ Len(<<sep>>) = 1 /\ <<sep>>[1] = sep
        BY <2>1
      <3> HIDE DEF W
      <3>2. /\ Len(<<sep>> \o name) = 1 + Len(name) /\ Len(name) \in Nat
            /\ (<<sep>> \o name)[1] = <<sep>>[1]
            /\ \A k \in 1..Len(name) : (<<sep>> \o name)[1 + k] = name[k]
        BY <3>1, ConcatAt
      <3>3. QED BY <3>1, <3>2
    <2>4. QED BY <2>2, <2>3 DEF sep, name
  <1> DEFINE len(i) == Len(names[i])
  <1>4. pos[0] = 0 /\ pos[n] = Len(t) /\ 0 \in 0..n /\ n \in 0..n /\ pos[n] \in Nat
    <2>1. 0 \in 0..n /\ n \in 0..n
      OBVIOUS
    <2>2. pos[0] = 0 /\ pos[n] = Len(t)
      BY <1>2, Zenon DEF Placed
    <2>3. pos[n] \in Nat
      BY <2>1
    <2>4. QED BY <2>1, <2>2, <2>3, Zenon
  <1>5. ASSUME NEW i \in 1..n
        PROVE  /\ i - 1 \in 0..n /\ i \in 0..n /\ pos[i] \in Nat /\ pos[i - 1] \in Nat
               /\ len(i) \in Nat /\ pos[i] = pos[i - 1] + len(i) + 1
    <2>1. i - 1 \in 0..n /\ i \in 0..n
      OBVIOUS
    <2>2. pos[i] \in Nat /\ pos[i - 1] \in Nat
      BY <2>1
    <2>3. pos[i] = pos[i - 1] + Len(s[i])
      BY <1>2, Zenon DEF Placed
    <2>4. len(i) \in Nat /\ Len(s[i]) = len(i) + 1
      BY <1>3
    <2>5. pos[i] = pos[i - 1] + len(i) + 1
      <3> HIDE DEF len
      <3>1. QED BY <2>2, <2>3, <2>4
    <2>6. QED BY <2>1, <2>2, <2>4, <2>5, Zenon
  <1>6. ASSUME NEW i \in 1..n
        PROVE  t[pos[i - 1] + 1] = IF i = 1 THEN "/" ELSE ","
    <2>1. \A k \in 1..Len(s[i]) : t[pos[i - 1] + k] = s[i][k]
      BY <1>2, Zenon DEF Placed
    <2> HIDE DEF t, len
    <2>2. 1 \in 1..Len(s[i])
      <3>1. Len(names[i]) \in Nat /\ Len(s[i]) = Len(names[i]) + 1
        BY <1>3
      <3>2. QED BY <3>1
    <2>3. t[pos[i - 1] + 1] = s[i][1]
      BY <2>1, <2>2
    <2>4. QED BY <1>3, <2>3
  <1>7. ASSUME NEW i \in 1..n, NEW k \in 1..len(i)
        PROVE  t[pos[i - 1] + 1 + k] = names[i][k]
    <2>1. \A j \in 1..Len(s[i]) : t[pos[i - 1] + j] = s[i][j]
      BY <1>2, Zenon DEF Placed
    <2> HIDE DEF t
    <2>2. k + 1 \in 1..Len(s[i]) /\ pos[i - 1] + (k + 1) = pos[i - 1] + 1 + k
      <3>1. len(i) \in Nat /\ Len(s[i]) = len(i) + 1
        BY <1>3
      <3>2. pos[i - 1] \in Nat
        BY <1>5
      <3> HIDE DEF len
      <3>3. QED BY <3>1, <3>2
    <2>3. t[pos[i - 1] + (k + 1)] = s[i][k + 1]
      BY <2>1, <2>2
    <2>4. s[i][k + 1] = names[i][k]
      BY <1>3
    <2>5. QED BY <2>2, <2>3, <2>4
  <1> HIDE DEF len, t
  <1>8. \A i, j \in 0..n : i < j => pos[i] < pos[j]
    <2>1. ASSUME NEW i \in 1..n
          PROVE  pos[i - 1] < pos[i]
      <3>1. pos[i] = pos[i - 1] + len(i) + 1 /\ pos[i - 1] \in Nat /\ len(i) \in Nat
        BY <1>5
      <3>2. QED BY <3>1
    <2>2. QED BY <2>1, Increasing
  <1>9. Len(t) \in Nat /\ Len(t) > 0 /\ t[1] = "/"
    <2>1. Len(t) \in Nat /\ pos[0] < pos[n]
      BY <1>4, <1>8
    <2>2. 1 \in 1..n /\ 1 - 1 = 0
      OBVIOUS
    <2>3. t[pos[0] + 1] = "/"
      BY <1>6, <2>2
    <2>4. QED BY <1>4, <2>1, <2>3
  <1>10. m = Len(t) - 1 /\ m \in Nat /\ rest \in Seq(V) /\ \A k \in 1..m : rest[k] = t[k + 1]
    <2>1. t \in Seq(V)
      BY <1>1
    <2> DEFINE l == Len(t)
    <2>2. l \in Nat /\ l > 0
      BY <1>9
    <2>3. rest \in Seq(V) /\ Len(rest) = l - 1 /\ \A k \in 1..l - 1 : rest[k] = t[1 + k]
      <3>1. l - 1 \in Nat /\ 1 + (l - 1) <= Len(t) /\ 1 + (l - 1) = l /\ 1 + 1 = 2
        BY <2>2
      <3>2. /\ SubSeq(t, 1 + 1, 1 + (l - 1)) \in Seq(V) /\ Len(SubSeq(t, 1 + 1, 1 + (l - 1))) = l - 1
            /\ \A k \in 1..l - 1 : SubSeq(t, 1 + 1, 1 + (l - 1))[k] = t[1 + k]
        BY <2>1, <3>1, SubSeqAt
      <3>3. QED BY <3>1, <3>2
    <2> HIDE DEF rest, l
    <2>4. \A k \in 1..l - 1 : 1 + k = k + 1
      BY <2>2
    <2>5. QED BY <2>2, <2>3, <2>4 DEF l
  <1> DEFINE commas == {k \in 1..m : rest[k] = ","} \cup {0, m + 1}
  <1>11. commas = {pos[i] : i \in 0..n}
    <2> HIDE DEF rest, m
    <2>1. ASSUME NEW k \in 1..m, rest[k] = ","
          PROVE  \E i \in 0..n : k = pos[i]
      <3>0. pos[n] = m + 1 /\ m \in Nat
        BY <1>4, <1>9, <1>10
      <3>1. k + 1 \in 1..pos[n] /\ t[k + 1] = ","
        <4>1. rest[k] = t[k + 1]
          BY <1>10
        <4>2. k \in Int /\ 1 <= k /\ k <= m
          BY <1>10
        <4>3. k + 1 \in 1..m + 1
          BY <3>0, <4>2
        <4>4. QED BY <2>1, <3>0, <4>1, <4>3
      <3>2. PICK i \in 1..n : pos[i - 1] < k + 1 /\ k + 1 <= pos[i]
        BY <1>4, <3>1, InPiece
      <3>3. i - 1 \in 0..n /\ pos[i - 1] \in Nat /\ pos[i] = pos[i - 1] + len(i) + 1 /\ len(i) \in Nat
        BY <1>5
      <3>4. CASE k = pos[i - 1]
        BY <3>3, <3>4
      <3>5. CASE k # pos[i - 1]
        <4> DEFINE j == k - pos[i - 1]
        <4>1. j \in 1..len(i) /\ pos[i - 1] + 1 + j = k + 1
          <5> DEFINE x == pos[i - 1]
                     y == pos[i]
                     l == len(i)
          <5>1. /\ x \in Nat /\ l \in Nat /\ y = x + l + 1 /\ x < k + 1 /\ k + 1 <= y /\ k # x
                /\ k \in Int
            BY <3>2, <3>3, <3>5
          <5> HIDE DEF x, y, l
          <5>2. k - x \in 1..l /\ x + 1 + (k - x) = k + 1
            BY <5>1
          <5>3. QED BY <5>2 DEF x, l
        <4> HIDE DEF j
        <4>2. t[k + 1] = names[i][j]
          BY <1>7, <4>1
        <4>3. names[i][j] # ","
          BY <4>1 DEF len, Separated
        <4>4. QED BY <3>1, <4>2, <4>3
      <3>6. QED BY <3>4, <3>5
    <2>2. ASSUME NEW i \in 0..n
          PROVE  pos[i] \in commas
      <3>1. CASE i = 0
        BY <1>4, <3>1
      <3>2. CASE i = n
        <4>1. pos[n] = m + 1
          BY <1>4, <1>9, <1>10
        <4>2. QED BY <3>2, <4>1
      <3>3. CASE i # 0 /\ i # n
        <4>1. i + 1 \in 1..n /\ (i + 1) - 1 = i /\ i + 1 # 1
          BY <3>3
        <4>2. t[pos[i] + 1] = ","
          BY <1>6, <4>1
        <4>3. pos[0] < pos[i] /\ pos[i] < pos[n] /\ pos[i] \in Nat
          BY <1>4, <1>8, <3>3
        <4>4. pos[i] \in 1..m
          BY <1>4, <1>9, <1>10, <4>3
        <4>5. QED BY <1>10, <4>2, <4>4
      <3>4. QED BY <3>1, <3>2, <3>3
    <2>3. 0 = pos[0] /\ m + 1 = pos[n]
      BY <1>4, <1>9, <1>10
    <2>4. QED BY <1>4, <2>1, <2>2, <2>3
  <1> DEFINE next(k) == Min({c \in commas : c > k})
             filters == {parse_filter(SubSeq(rest, k + 1, next(k) - 1)) : k \in commas \ {m + 1}}
             found == {parse_filter(names[i]) : i \in 1..n}
  <1>12. ASSUME NEW i \in 1..n
        PROVE  /\ pos[i - 1] \in commas \ {m + 1}
               /\ SubSeq(rest, pos[i - 1] + 1, next(pos[i - 1]) - 1) = names[i]
    <2> HIDE DEF rest, m, commas
    <2>1. i - 1 \in 0..n /\ i \in 0..n /\ n \in 0..n /\ i - 1 < i /\ i - 1 < n
      OBVIOUS
    <2>2. pos[i - 1] \in Nat /\ pos[i] \in Nat /\ pos[n] \in Nat /\ len(i) \in Nat
          /\ pos[i] = pos[i - 1] + len(i) + 1 /\ pos[n] = m + 1
      BY <1>4, <1>5, <1>9, <1>10, <2>1
    <2>3. pos[i - 1] < pos[i] /\ pos[i - 1] < pos[n] /\ pos[i] <= pos[n]
      <3>1. i = n \/ i < n
        OBVIOUS
      <3>2. pos[i] <= pos[n]
        BY <1>8, <2>1, <2>2, <3>1
      <3>3. QED BY <1>8, <2>1, <3>2
    <2>4. pos[i - 1] \in commas \ {m + 1}
      BY <1>11, <2>1, <2>2, <2>3
    <2>5. next(pos[i - 1]) = pos[i]
      <3> DEFINE C == {c \in commas : c > pos[i - 1]}
      <3>1. pos[i] \in C
        BY <1>11, <2>1, <2>2, <2>3
      <3>2. ASSUME NEW c \in C
            PROVE  c \in Int /\ pos[i] <= c
        <4>1. PICK j \in 0..n : c = pos[j]
          BY <1>11
        <4>2. pos[j] \in Nat /\ pos[j] > pos[i - 1]
          BY <4>1
        <4>3. ~(j < i - 1) /\ j # i - 1
          BY <1>8, <2>1, <2>2, <4>2
        <4>4. j = i \/ i < j
          BY <4>3
        <4>5. QED BY <1>8, <2>1, <2>2, <4>1, <4>2, <4>4
      <3>3. C \subseteq Int /\ \A c \in C : pos[i] <= c
        BY <3>2
      <3> HIDE DEF C
      <3>4. Min(C) = pos[i]
        BY <3>1, <3>3, LeastIs
      <3>5. QED BY <3>4 DEF C
    <2> DEFINE a == pos[i - 1]
               c == pos[i] - 1
               sub == SubSeq(rest, a + 1, c)
               l == len(i)
               name == names[i]
    <2>6. a \in Nat /\ l \in Nat /\ c = a + l /\ c <= m /\ m \in Nat /\ rest \in Seq(V) /\ Len(rest) = m
      <3>1. m = Len(rest)
        BY DEF m
      <3>2. QED BY <1>10, <2>2, <2>3, <3>1
    <2>7. ASSUME NEW k \in 1..l
          PROVE  rest[a + k] = name[k]
      <3>1. t[a + 1 + k] = name[k]
        BY <1>7
      <3> HIDE DEF a, l, name
      <3>2. a + k \in 1..m /\ (a + k) + 1 = a + 1 + k
        BY <2>6
      <3>3. QED BY <1>10, <3>1, <3>2
    <2>8. name \in Seq(V) /\ Len(name) = l
      BY DEF len, Separated
    <2> HIDE DEF a, c, l, name
    <2>9. sub \in Seq(V) /\ Len(sub) = l /\ \A k \in 1..l : sub[k] = rest[a + k]
      <3>1. a + l <= Len(rest)
        BY <2>6
      <3>2. /\ SubSeq(rest, a + 1, a + l) \in Seq(V) /\ Len(SubSeq(rest, a + 1, a + l)) = l
            /\ \A k \in 1..l : SubSeq(rest, a + 1, a + l)[k] = rest[a + k]
        BY <2>6, <3>1, SubSeqAt
      <3>3. QED BY <2>6, <3>2
    <2> HIDE DEF sub
    <2>10. sub = name
      BY <2>7, <2>8, <2>9, SeqEqual
    <2>11. QED BY <2>4, <2>5, <2>10 DEF a, c, sub, name
  <1>13. filters = found
    <2> HIDE DEF rest, m, commas, next
    <2>1. ASSUME NEW k \in commas \ {m + 1}
          PROVE  \E i \in 1..n : k = pos[i - 1]
      <3>1. PICK j \in 0..n : k = pos[j]
        BY <1>11
      <3>2. j # n
        <4>1. pos[n] = m + 1
          BY <1>4, <1>9, <1>10
        <4>2. QED BY <2>1, <3>1, <4>1
      <3>3. j + 1 \in 1..n /\ (j + 1) - 1 = j
        BY <3>2
      <3>4. QED BY <3>1, <3>3
    <2>2. ASSUME NEW k \in commas \ {m + 1}
          PROVE  parse_filter(SubSeq(rest, k + 1, next(k) - 1)) \in found
      <3>1. PICK i \in 1..n : k = pos[i - 1]
        BY <2>1
      <3>2. SubSeq(rest, k + 1, next(k) - 1) = names[i]
        BY <1>12, <3>1
      <3>3. QED BY <3>2, Zenon
    <2>3. \A i \in 1..n : parse_filter(names[i]) \in filters
      BY <1>12, Zenon
    <2>4. QED BY <2>2, <2>3, Zenon
  <1>14. parse_filters(rest) = IF {} \in filters THEN {} ELSE UNION filters
    <2> HIDE DEF rest
    <2>1. QED BY DEF parse_filters
  <1>15. parse_filters(rest) = IF {} \in found THEN {} ELSE UNION found
    <2> HIDE DEF filters, found
    <2>1. QED BY <1>13, <1>14
  <1>16. QED BY <1>1, <1>9, <1>15, Zenon DEF t

\* The words of the filters of a selected path.
FilterWords == {"/", ",", "group", "_by", "order", "_desc", "_asc"}

\* Words other than one.
Without(w, c) == w \in Seq(FilterWords) /\ \A k \in 1..Len(w) : w[k] # c

\* Up to two words are words other than one, unless one is it.
LEMMA TwoWords ==
  ASSUME NEW c, NEW a \in FilterWords, NEW b \in FilterWords, a # c, b # c
  PROVE  Without(<<a, b>>, c) /\ Without(<<a>>, c) /\ Without(<<>>, c)
  <1>1. /\ <<a, b>> \in Seq(FilterWords) /\ <<a>> \in Seq(FilterWords) /\ <<>> \in Seq(FilterWords)
        /\ Len(<<a, b>>) = 2 /\ Len(<<a>>) = 1 /\ Len(<<>>) = 0
    OBVIOUS
  <1>2. /\ \A k \in 1..2 : <<a, b>>[k] # c
        /\ \A k \in 1..1 : <<a>>[k] # c
        /\ \A k \in 1..0 : FALSE
    OBVIOUS
  <1>3. QED BY <1>1, <1>2, Zenon DEF Without

\* The names of the filters are words without a comma.
LEMMA FilterNamesWords ==
  \A f \in DOMAIN FilterNames : Without(FilterNames[f], ",")
  <1> DEFINE c == ","
  <1>1. /\ "group" \in FilterWords /\ "order" \in FilterWords /\ "_by" \in FilterWords
        /\ "_desc" \in FilterWords /\ "_asc" \in FilterWords
    BY Zenon DEF FilterWords
  <1>2. "group" # c /\ "order" # c /\ "_by" # c /\ "_desc" # c /\ "_asc" # c
    BY Zenon
  <1> HIDE DEF c
  <1>3. /\ Without(<<"group", "_by">>, c) /\ Without(<<"order", "_desc">>, c) /\ Without(<<"order", "_asc">>, c)
        /\ Without(<<"order">>, c) /\ Without(<<>>, c) /\ Without(<<"order", "_by">>, c)
    BY <1>1, <1>2, TwoWords
  <1>4. \A f \in DOMAIN FilterNames : Without(FilterNames[f], c)
    BY <1>3 DEF FilterNames
  <1>5. QED BY <1>4, Zenon DEF c

\* One name of two words starts with another only if it is the other.
LEMMA PrefixOfTwo ==
  ASSUME NEW a, NEW b, NEW c, NEW d
  PROVE  IsPrefix(<<a, b>>, <<c, d>>) <=> a = c /\ b = d
  BY DEF IsPrefix

\* A filter named in full is the one found; one that is not known is not.
LEMMA FilterParsed ==
  /\ \A f \in {"GROUP_BY", "ORDER_DESC", "ORDER_ASC"} : parse_filter(FilterNames[f]) = {f}
  /\ parse_filter(FilterNames["UNKNOWN"]) = {}
  <1> DEFINE found(str) == {k \in DOMAIN filter_table : IsPrefix(str, filter_table[k].name)}
  <1>1. DOMAIN filter_table = 1..3
    BY DEF filter_table
  <1>2. /\ filter_table[1].name = <<"group", "_by">> /\ filter_table[1].flag = "GROUP_BY"
        /\ filter_table[2].name = <<"order", "_desc">> /\ filter_table[2].flag = "ORDER_DESC"
        /\ filter_table[3].name = <<"order", "_asc">> /\ filter_table[3].flag = "ORDER_ASC"
    BY DEF filter_table
  <1>3. /\ FilterNames["GROUP_BY"] = <<"group", "_by">> /\ FilterNames["ORDER_DESC"] = <<"order", "_desc">>
        /\ FilterNames["ORDER_ASC"] = <<"order", "_asc">> /\ FilterNames["UNKNOWN"] = <<"order", "_by">>
    BY DEF FilterNames
  <1>4. /\ found(<<"group", "_by">>) = {1} /\ found(<<"order", "_desc">>) = {2}
        /\ found(<<"order", "_asc">>) = {3} /\ found(<<"order", "_by">>) = {}
    BY <1>1, <1>2, PrefixOfTwo
  <1>5. ASSUME NEW str, NEW k \in 1..3, found(str) = {k}
        PROVE  parse_filter(str) = {filter_table[k].flag}
    <2>1. Min({k}) = k
      BY LeastIs
    <2>2. QED BY <1>5, <2>1, Zenon DEF parse_filter
  <1>6. parse_filter(<<"order", "_by">>) = {}
    BY <1>4, Zenon DEF parse_filter
  <1> HIDE DEF found
  <1>7. /\ parse_filter(<<"group", "_by">>) = {"GROUP_BY"} /\ parse_filter(<<"order", "_desc">>) = {"ORDER_DESC"}
        /\ parse_filter(<<"order", "_asc">>) = {"ORDER_ASC"}
    <2>1. 1 \in 1..3 /\ 2 \in 1..3 /\ 3 \in 1..3
      OBVIOUS
    <2>2. QED BY <1>2, <1>4, <1>5, <2>1
  <1>8. QED BY <1>3, <1>6, <1>7

\* The first of the separators at slash in str is where t starts.
CutAt(head, t, str, slash) ==
  /\ slash = {} <=> t = <<>>
  /\ Min(slash \cup {Len(str) + 1}) = Len(head) + 1
  /\ t # <<>> => /\ Min(slash) = Len(head) + 1
                 /\ SubSeq(str, Min(slash) + 1, Len(str)) = SubSeq(t, 2, Len(t))

\* The first "/" of a selected path is before its filters.
LEMMA Cut ==
  ASSUME NEW W, NEW head \in Seq(W), \A k \in 1..Len(head) : head[k] # "/",
         NEW t \in Seq(W), t = <<>> \/ t[1] = "/"
  PROVE  CutAt(head, t, head \o t, {k \in DOMAIN (head \o t) : (head \o t)[k] = "/"})
  <1> DEFINE str == head \o t
             slash == {k \in DOMAIN str : str[k] = "/"}
             h == Len(head)
             l == Len(t)
  <1>1. /\ str \in Seq(W) /\ Len(str) = h + l /\ h \in Nat /\ l \in Nat
        /\ \A q \in 1..h : str[q] = head[q]
        /\ \A k \in 1..l : h + k \in 1..h + l /\ str[h + k] = t[k]
    BY ConcatAt
  <1>2. DOMAIN str = 1..h + l
    <2> HIDE DEF str, h, l
    <2>1. QED BY <1>1
  <1>3. t = <<>> <=> l = 0
    OBVIOUS
  <1>4. \A k \in 1..h : str[k] # "/"
    <2> HIDE DEF str
    <2>1. QED BY <1>1 DEF h
  <1> HIDE DEF str, h, l
  <1>5. \A k \in slash : k \in Nat /\ h + 1 <= k
    <2>1. ASSUME NEW k \in slash
          PROVE  k \in Nat /\ h + 1 <= k
      <3>1. k \in 1..h + l /\ k \notin 1..h
        BY <1>2, <1>4
      <3>2. QED BY <1>1, <3>1
    <2>2. QED BY <2>1
  <1>6. t # <<>> => h + 1 \in slash
    <2>1. ASSUME t # <<>>
          PROVE  h + 1 \in slash
      <3>1. 1 \in 1..l
        BY <1>1, <1>3, <2>1
      <3>2. h + 1 \in 1..h + l /\ str[h + 1] = t[1]
        BY <1>1, <3>1
      <3>3. QED BY <1>2, <2>1, <3>2
    <2>2. QED BY <2>1
  <1>7. t = <<>> => slash = {}
    <2>1. ASSUME t = <<>>, NEW k \in slash
          PROVE  FALSE
      <3>1. l = 0 /\ k \in 1..h + l /\ h + 1 <= k
        BY <1>2, <1>3, <1>5, <2>1
      <3>2. QED BY <1>1, <3>1
    <2>2. QED BY <2>1
  <1>8. slash \subseteq Int /\ h + 1 \in Int /\ Len(str) + 1 \in Int /\ h + 1 <= Len(str) + 1
    BY <1>1, <1>5
  <1> HIDE DEF slash
  <1>9. t # <<>> => Min(slash) = h + 1
    BY <1>5, <1>6, <1>8, LeastIs
  <1>10. Min(slash \cup {Len(str) + 1}) = h + 1
    <2> DEFINE S == slash \cup {Len(str) + 1}
    <2>1. S \subseteq Int /\ \A y \in S : h + 1 <= y
      BY <1>5, <1>8
    <2>2. h + 1 \in S
      BY <1>1, <1>3, <1>6
    <2> HIDE DEF S
    <2>3. Min(S) = h + 1
      BY <2>1, <2>2, LeastIs
    <2>4. QED BY <2>3 DEF S
  <1>11. ASSUME t # <<>>
         PROVE  SubSeq(str, h + 2, Len(str)) = SubSeq(t, 2, Len(t))
    <2> DEFINE m == l - 1
               a == SubSeq(str, (h + 1) + 1, (h + 1) + m)
               b == SubSeq(t, 1 + 1, 1 + m)
    <2>1. m \in Nat /\ (h + 1) + m = h + l /\ 1 + m = l /\ (h + 1) + 1 = h + 2 /\ 1 + 1 = 2 /\ h + 1 \in Nat
      BY <1>1, <1>3, <1>11
    <2> HIDE DEF m
    <2>2. a \in Seq(W) /\ Len(a) = m /\ \A k \in 1..m : a[k] = str[(h + 1) + k]
      BY <1>1, <2>1, SubSeqAt
    <2>3. b \in Seq(W) /\ Len(b) = m /\ \A k \in 1..m : b[k] = t[1 + k]
      BY <2>1, SubSeqAt DEF l
    <2>4. ASSUME NEW k \in 1..m
          PROVE  str[(h + 1) + k] = t[1 + k]
      <3>1. 1 + k \in 1..l /\ h + (1 + k) = (h + 1) + k
        BY <1>1, <2>1
      <3>2. QED BY <1>1, <3>1
    <2> HIDE DEF a, b
    <2>5. a = b
      BY <2>2, <2>3, <2>4, SeqEqual
    <2>6. Len(str) = h + l /\ Len(t) = l
      BY <1>1 DEF l
    <2>7. QED BY <2>1, <2>5, <2>6 DEF a, b
  <1>12. h + 1 + 1 = h + 2
    BY <1>1
  <1>13. CutAt(head, t, str, slash)
    BY <1>3, <1>6, <1>7, <1>9, <1>10, <1>11, <1>12, Zenon DEF CutAt, h
  <1>14. QED BY <1>13, Zenon DEF str, slash

\* A selected path without a function.
LEMMA PlainPath ==
  ASSUME NEW W, NEW path \in Seq(W), \A k \in 1..Len(path) : path[k] # "/",
         path = <<>> \/ path[1] \notin function_table,
         NEW t \in Seq(W), t = <<>> \/ t[1] = "/"
  PROVE  parse_function(path \o t) = {} /\ PathText(path \o t) = path
  <1> DEFINE str == path \o t
             h == Len(path)
             l == Len(t)
             slash == {k \in DOMAIN str : str[k] = "/"} \cup {Len(str) + 1}
  <1>1. /\ str \in Seq(W) /\ Len(str) = h + l /\ h \in Nat /\ l \in Nat
        /\ \A q \in 1..h : str[q] = path[q]
        /\ \A k \in 1..l : h + k \in 1..h + l /\ str[h + k] = t[k]
    BY ConcatAt
  <1>2. (path = <<>> <=> h = 0) /\ (t = <<>> <=> l = 0) /\ "/" \notin function_table
    BY DEF function_table
  <1>3. Min(slash) = h + 1
    <2>1. CutAt(path, t, str, {k \in DOMAIN str : str[k] = "/"})
      BY Cut, Zenon
    <2>2. QED BY <2>1, Zenon DEF CutAt
  <1> HIDE DEF str, h, l, slash
  <1>4. parse_function(str) = {}
    <2>1. ASSUME Len(str) > 1
          PROVE  str[1] \notin function_table
      <3>1. CASE h = 0
        <4>1. 1 \in 1..l /\ h + 1 = 1
          BY <1>1, <2>1, <3>1
        <4>2. QED BY <1>1, <1>2, <4>1
      <3>2. CASE h # 0
        <4>1. 1 \in 1..h
          BY <1>1, <3>2
        <4>2. QED BY <1>1, <1>2, <3>2, <4>1
      <3>3. QED BY <3>1, <3>2
    <2>2. QED BY <2>1 DEF parse_function
  <1>5. PathText(str) = SubSeq(str, 1, Min(slash) - 1)
    BY <1>4, Zenon DEF PathText, slash
  <1>6. SubSeq(str, 1, h) = path
    <2>1. 0 + 1 = 1 /\ 0 + h = h /\ 0 + h <= Len(str) /\ 0 \in Nat /\ \A k \in 1..h : 0 + k = k
      BY <1>1
    <2> DEFINE a == SubSeq(str, 0 + 1, 0 + h)
    <2>2. a \in Seq(W) /\ Len(a) = h /\ \A k \in 1..h : a[k] = str[0 + k]
      BY <1>1, <2>1, SubSeqAt
    <2> HIDE DEF a
    <2>3. Len(path) = h /\ \A k \in 1..h : a[k] = path[k]
      BY <1>1, <2>1, <2>2 DEF h
    <2>4. a = path
      BY <2>2, <2>3, SeqEqual
    <2>5. QED BY <2>1, <2>4 DEF a
  <1>7. Min(slash) - 1 = h
    BY <1>1, <1>3
  <1>8. QED BY <1>4, <1>5, <1>6, <1>7, Zenon DEF str

\* Three sequences, one after the other.
LEMMA ThreeParts ==
  ASSUME NEW W, NEW x \in Seq(W), NEW y \in Seq(W), NEW z \in Seq(W)
  PROVE  /\ x \o y \o z \in Seq(W) /\ Len(x \o y \o z) = Len(x) + Len(y) + Len(z)
         /\ Len(x) \in Nat /\ Len(y) \in Nat /\ Len(z) \in Nat
         /\ \A k \in 1..Len(x) : (x \o y \o z)[k] = x[k]
         /\ \A k \in 1..Len(y) : (x \o y \o z)[Len(x) + k] = y[k]
         /\ \A k \in 1..Len(z) : (x \o y \o z)[Len(x) + Len(y) + k] = z[k]
  <1> DEFINE xy == x \o y
             m == Len(x)
             n == Len(y)
             l == Len(z)
  <1>1. /\ xy \in Seq(W) /\ Len(xy) = m + n /\ m \in Nat /\ n \in Nat
        /\ \A k \in 1..m : xy[k] = x[k]
        /\ \A k \in 1..n : m + k \in 1..m + n /\ xy[m + k] = y[k]
    BY ConcatAt
  <1> HIDE DEF xy
  <1> DEFINE xyz == xy \o z
  <1>2. /\ xyz \in Seq(W) /\ Len(xyz) = Len(xy) + l /\ l \in Nat
        /\ \A k \in 1..Len(xy) : xyz[k] = xy[k]
        /\ \A k \in 1..l : xyz[Len(xy) + k] = z[k]
    <2>1. xy \in Seq(W) /\ z \in Seq(W)
      BY <1>1
    <2>2. /\ xy \o z \in Seq(W) /\ Len(xy \o z) = Len(xy) + Len(z) /\ Len(xy) \in Nat /\ Len(z) \in Nat
          /\ \A k \in 1..Len(xy) : (xy \o z)[k] = xy[k]
          /\ \A k \in 1..Len(z) : Len(xy) + k \in 1..Len(xy) + Len(z) /\ (xy \o z)[Len(xy) + k] = z[k]
      BY <2>1, ConcatAt
    <2>3. QED BY <2>2, Zenon
  <1> HIDE DEF xyz, m, n, l
  <1>3. Len(xyz) = m + n + l
    BY <1>1, <1>2
  <1>4. ASSUME NEW k \in 1..m
        PROVE  xyz[k] = x[k]
    <2>1. k \in 1..Len(xy)
      BY <1>1
    <2>2. QED BY <1>1, <1>2, <2>1
  <1>5. ASSUME NEW k \in 1..n
        PROVE  xyz[m + k] = y[k]
    <2>1. m + k \in 1..Len(xy)
      BY <1>1
    <2>2. QED BY <1>1, <1>2, <2>1
  <1>6. ASSUME NEW k \in 1..l
        PROVE  xyz[m + n + k] = z[k]
    BY <1>1, <1>2
  <1>7. QED BY <1>1, <1>2, <1>3, <1>4, <1>5, <1>6 DEF xy, xyz, m, n, l

\* A function, its parenthesis and a path, with the closing one or not.
FunctionText(fn, open, path, end) == <<fn, open>> \o path \o end

\* head is made of the words of that text.
HeadAt(W, open, close, fn, path, end, head) ==
  /\ head \in Seq(W) /\ Len(head) = Len(path) + (IF end = <<>> THEN 2 ELSE 3)
  /\ head[1] = fn /\ head[2] = open
  /\ \A k \in 1..Len(path) : head[2 + k] = path[k]
  /\ end # <<>> => head[Len(path) + 3] = close

\* The words of that text.
LEMMA FunctionHead ==
  ASSUME NEW W, NEW open \in W, NEW close \in W, NEW fn \in W, NEW path \in Seq(W),
         NEW end, end \in {<<>>, <<close>>}
  PROVE  HeadAt(W, open, close, fn, path, end, FunctionText(fn, open, path, end))
  <1> DEFINE start == <<fn, open>>
             n == Len(path)
             head == start \o path \o end
  <1>1. start \in Seq(W) /\ Len(start) = 2 /\ start[1] = fn /\ start[2] = open
    OBVIOUS
  <1>2. end \in Seq(W) /\ Len(end) = (IF end = <<>> THEN 0 ELSE 1) /\ (end # <<>> => end[1] = close)
    <2>1. /\ <<>> \in Seq(W) /\ <<close>> \in Seq(W) /\ Len(<<>>) = 0 /\ Len(<<close>>) = 1
          /\ <<close>>[1] = close /\ <<close>> # <<>>
      OBVIOUS
    <2>2. CASE end = <<>>
      BY <2>1, <2>2
    <2>3. CASE end = <<close>>
      BY <2>1, <2>3
    <2>4. QED BY <2>2, <2>3
  <1> HIDE DEF start
  <1>3. /\ head \in Seq(W) /\ Len(head) = Len(start) + n + Len(end) /\ n \in Nat
        /\ \A k \in 1..Len(start) : head[k] = start[k]
        /\ \A k \in 1..n : head[Len(start) + k] = path[k]
        /\ \A k \in 1..Len(end) : head[Len(start) + n + k] = end[k]
    <2>1. start \in Seq(W) /\ end \in Seq(W)
      BY <1>1, <1>2
    <2>2. QED BY <2>1, ThreeParts
  <1> HIDE DEF head, n
  <1>4. head[1] = fn /\ head[2] = open
    BY <1>1, <1>3
  <1>5. \A k \in 1..n : head[2 + k] = path[k]
    BY <1>1, <1>3
  <1>6. Len(head) = n + (IF end = <<>> THEN 2 ELSE 3)
    BY <1>1, <1>2, <1>3
  <1>7. ASSUME end # <<>>
        PROVE  head[n + 3] = close
    <2>1. 1 \in 1..Len(end) /\ Len(start) + n + 1 = n + 3
      BY <1>1, <1>2, <1>3, <1>7
    <2>2. QED BY <1>2, <1>3, <1>7, <2>1
  <1>8. HeadAt(W, open, close, fn, path, end, head)
    BY <1>3, <1>4, <1>5, <1>6, <1>7, Zenon DEF n, HeadAt
  <1>9. FunctionText(fn, open, path, end) = head
    BY DEF FunctionText, head, start
  <1>10. QED BY <1>8, <1>9, Zenon

\* What is between the first open and the last close.
Between(str, open, close) ==
  LET first == {k \in DOMAIN str : str[k] = open}
      last  == {k \in DOMAIN str : str[k] = close}
  IN  IF last = {} THEN <<>> ELSE SubSeq(str, Min(first) + 1, Max(last) - 1)

\* A part of a path that is a part of a text.
LEMMA SamePart ==
  ASSUME NEW W, NEW str \in Seq(W), NEW path \in Seq(W), NEW m \in Nat, m <= Len(path), 2 + m <= Len(str),
         \A k \in 1..Len(path) : str[2 + k] = path[k]
  PROVE  SubSeq(str, 3, 2 + m) = SubSeq(path, 1, m)
  <1> DEFINE u == SubSeq(str, 2 + 1, 2 + m)
             v == SubSeq(path, 0 + 1, 0 + m)
             n == Len(path)
  <1>1. u \in Seq(W) /\ Len(u) = m /\ \A k \in 1..m : u[k] = str[2 + k]
    BY SubSeqAt
  <1>2. v \in Seq(W) /\ Len(v) = m /\ \A k \in 1..m : v[k] = path[0 + k]
    <2>1. 0 + m <= Len(path) /\ 0 \in Nat
      OBVIOUS
    <2>2. QED BY <2>1, SubSeqAt
  <1>3. \A k \in 1..m : k \in 1..n /\ 0 + k = k
    OBVIOUS
  <1> HIDE DEF u, v
  <1>4. \A k \in 1..m : u[k] = v[k]
    BY <1>1, <1>2, <1>3
  <1>5. u = v
    BY <1>1, <1>2, <1>4, SeqEqual
  <1>6. 2 + 1 = 3 /\ 0 + 1 = 1 /\ 0 + m = m
    OBVIOUS
  <1>7. QED BY <1>5, <1>6 DEF u, v

\* str names a function and this path, or a part of it.
PathAt(open, close, fn, path, end, str) ==
  /\ Len(str) > 1 /\ str[1] = fn /\ str[2] = open
  /\ end # <<>> => Between(str, open, close) = path
  /\ end = <<>> => \/ Between(str, open, close) = <<>>
                   \/ \E k \in 1..Len(path) : /\ path[k] = close
                                              /\ Between(str, open, close) = SubSeq(path, 1, k - 1)

\* The path of a function: all of it when the parenthesis is closed, and what is
\* before the end of its last index, if it has one, when it is not.
LEMMA FunctionPath ==
  ASSUME NEW W, NEW open \in W, NEW close \in W, NEW fn \in W, open # close, fn # open, fn # close,
         NEW path \in Seq(W), NEW end, end \in {<<>>, <<close>>},
         NEW t \in Seq(W), \A k \in 1..Len(t) : t[k] # close
  PROVE  PathAt(open, close, fn, path, end, FunctionText(fn, open, path, end) \o t)
  <1> SUFFICES ASSUME NEW str, str = FunctionText(fn, open, path, end) \o t
               PROVE  PathAt(open, close, fn, path, end, str)
    OBVIOUS
  <1> DEFINE head == FunctionText(fn, open, path, end)
             h == Len(head)
             l == Len(t)
             n == Len(path)
             first == {k \in DOMAIN str : str[k] = open}
             last  == {k \in DOMAIN str : str[k] = close}
  <1>1. /\ head \in Seq(W) /\ h = n + (IF end = <<>> THEN 2 ELSE 3)
        /\ head[1] = fn /\ head[2] = open
        /\ \A k \in 1..n : head[2 + k] = path[k]
        /\ end # <<>> => head[n + 3] = close
    <2>1. HeadAt(W, open, close, fn, path, end, head)
      BY FunctionHead
    <2> HIDE DEF head
    <2>2. QED BY <2>1, Zenon DEF HeadAt, h, n
  <1> HIDE DEF head
  <1>2. /\ head \o t \in Seq(W) /\ Len(head \o t) = h + l /\ h \in Nat /\ l \in Nat
        /\ \A k \in 1..h : (head \o t)[k] = head[k]
        /\ \A k \in 1..l : h + k \in 1..h + l /\ (head \o t)[h + k] = t[k]
    <2>1. head \in Seq(W) /\ t \in Seq(W)
      BY <1>1
    <2>2. QED BY <2>1, ConcatAt
  <1>3. str = head \o t /\ n \in Nat /\ path \in Seq(W)
    BY DEF head
  <1>4. \A k \in 1..l : t[k] # close
    OBVIOUS
  <1> HIDE DEF h, l, n
  <1>5. h \in Nat /\ h >= n + 2 /\ (end # <<>> => h = n + 3) /\ (end = <<>> => h = n + 2)
    BY <1>1, <1>2, <1>3
  <1>6. str \in Seq(W) /\ DOMAIN str = 1..h + l /\ Len(str) = h + l
    BY <1>2, <1>3
  <1>7. str[1] = fn /\ str[2] = open /\ 1 \in 1..h /\ 2 \in 1..h
    BY <1>1, <1>2, <1>3, <1>5
  <1>8. ASSUME NEW k \in 1..n
        PROVE  2 + k \in 1..h /\ str[2 + k] = path[k]
    <2>1. 2 + k \in 1..h
      BY <1>3, <1>5
    <2>2. QED BY <1>1, <1>2, <1>3, <2>1
  <1>9. end # <<>> => n + 3 \in 1..h /\ str[n + 3] = close
    BY <1>1, <1>2, <1>3, <1>5
  <1>10. ASSUME NEW k \in h + 1..h + l
         PROVE  str[k] # close
    <2>1. k - h \in 1..l /\ h + (k - h) = k
      BY <1>2
    <2>2. str[k] = t[k - h]
      BY <1>2, <1>3, <2>1
    <2>3. QED BY <1>4, <2>1, <2>2
  <1>11. Min(first) = 2
    <2>1. 2 \in first
      BY <1>2, <1>6, <1>7
    <2>2. \A k \in first : k \in Int /\ 2 <= k
      BY <1>2, <1>6, <1>7
    <2>3. first \subseteq Int /\ \A k \in first : 2 <= k
      BY <2>2
    <2> HIDE DEF first
    <2>4. QED BY <2>1, <2>3, LeastIs
  <1>12. \A k \in last : k \in Int /\ 3 <= k /\ k <= h
    <2>1. ASSUME NEW k \in last
          PROVE  k \in Int /\ 3 <= k /\ k <= h
      <3>1. k \in 1..h + l /\ str[k] = close
        BY <1>6
      <3>2. k # 1 /\ k # 2 /\ k \notin h + 1..h + l
        BY <1>7, <1>10, <3>1
      <3>3. QED BY <1>2, <3>1, <3>2
    <2>2. QED BY <2>1
  <1>13. last # {} => Between(str, open, close) = SubSeq(str, 3, Max(last) - 1)
    <2>1. Min(first) + 1 = 3
      <3> HIDE DEF first
      <3>1. QED BY <1>11
    <2>2. Between(str, open, close) = IF last = {} THEN <<>> ELSE SubSeq(str, Min(first) + 1, Max(last) - 1)
      BY Zenon DEF Between
    <2> HIDE DEF first, last
    <2>3. QED BY <2>1, <2>2
  <1>14. last = {} => Between(str, open, close) = <<>>
    BY DEF Between
  <1>15. ASSUME end # <<>>
         PROVE  Between(str, open, close) = path
    <2>1. n + 3 \in last
      BY <1>2, <1>6, <1>9, <1>15
    <2> HIDE DEF last
    <2>2. last \subseteq Int /\ \A k \in last : n + 3 >= k
      BY <1>3, <1>5, <1>12, <1>15
    <2>3. Max(last) = n + 3
      BY <2>1, <2>2, GreatestIs
    <2>4. Max(last) - 1 = 2 + n /\ 2 + n <= Len(str) /\ n <= n
      BY <1>2, <1>3, <1>5, <1>6, <2>3
    <2>5. SubSeq(str, 3, 2 + n) = SubSeq(path, 1, n)
      BY <1>3, <1>6, <1>8, <2>4, SamePart DEF n
    <2>6. SubSeq(path, 1, n) = path
      BY <1>3 DEF n
    <2>7. QED BY <1>13, <2>1, <2>4, <2>5, <2>6
  <1>16. ASSUME end = <<>>, last # {}
         PROVE  \E k \in 1..n : path[k] = close /\ Between(str, open, close) = SubSeq(path, 1, k - 1)
    <2>1. last \subseteq 1..h
      BY <1>12
    <2>2. \A k \in last : str[k] = close
      OBVIOUS
    <2> HIDE DEF last
    <2>3. PICK x \in last : \A y \in last : x >= y
      BY <1>2, <1>16, <2>1, GreatestOf
    <2>4. Max(last) = x
      <3>1. last \subseteq Int
        BY <1>12
      <3>2. QED BY <2>3, <3>1, GreatestIs
    <2> DEFINE k == x - 2
    <2>5. k \in 1..n /\ 2 + k = x /\ x - 1 = 2 + (k - 1) /\ k - 1 \in Nat /\ k - 1 <= n /\ 2 + (k - 1) <= Len(str)
      BY <1>2, <1>3, <1>5, <1>6, <1>12, <1>16, <2>3
    <2> HIDE DEF k
    <2>6. path[k] = close
      BY <1>8, <2>2, <2>3, <2>5
    <2>7. SubSeq(str, 3, 2 + (k - 1)) = SubSeq(path, 1, k - 1)
      BY <1>3, <1>6, <1>8, <2>5, SamePart DEF n
    <2>8. Between(str, open, close) = SubSeq(path, 1, k - 1)
      BY <1>13, <1>16, <2>4, <2>5, <2>7
    <2>9. QED BY <2>5, <2>6, <2>8
  <1>17. Len(str) > 1
    BY <1>2, <1>3, <1>5, <1>6
  <1>18. QED BY <1>7, <1>14, <1>15, <1>16, <1>17, Zenon DEF n, PathAt

\* What is before a filter, and the text of the filters.
Separator(i) == IF i = 1 THEN "/" ELSE ","
FiltersText(filters) == FlattenSeq([i \in DOMAIN filters |-> <<Separator(i)>> \o FilterNames[filters[i]]])

\* The filters a selected path has are the ones the client named, if they are known.
LEMMA FiltersOf ==
  ASSUME NEW filters \in Seq(DOMAIN FilterNames),
         NEW t, t = FiltersText(filters)
  PROVE  /\ t \in Seq(FilterWords)
         /\ filters = <<>> => t = <<>>
         /\ filters # <<>> => t # <<>> /\ t[1] = "/"
         /\ LET found == parse_filters(SubSeq(t, 2, Len(t)))
            IN  filters # <<>> /\ found # {} =>
                  /\ "UNKNOWN" \notin ToSet(filters)
                  /\ ToSet(filters) \subseteq {"GROUP_BY", "ORDER_DESC", "ORDER_ASC"} => found = ToSet(filters)
  <1> DEFINE n == Len(filters)
             names == [i \in 1..n |-> FilterNames[filters[i]]]
             s == [i \in 1..n |-> <<Separator(i)>> \o FilterNames[filters[i]]]
  <1>1. n \in Nat /\ DOMAIN filters = 1..n /\ (filters = <<>> <=> n = 0)
    OBVIOUS
  <1>2. \A i \in 1..n : filters[i] \in DOMAIN FilterNames
    OBVIOUS
  <1> HIDE DEF n
  <1>3. t = FlattenSeq(s)
    BY <1>1, Zenon DEF FiltersText
  <1>4. \A i \in 1..n : Without(FilterNames[filters[i]], ",")
    BY <1>2, FilterNamesWords, Zenon
  <1>5. \A i \in 1..n : Separator(i) \in FilterWords
    BY Zenon DEF FilterWords, Separator
  <1>6. \A i \in 1..n : FilterNames[filters[i]] \in Seq(FilterWords)
    BY <1>4, Zenon DEF Without
  <1>7. s \in [1..n -> Seq(FilterWords)]
    <2>1. ASSUME NEW i \in 1..n
          PROVE  <<Separator(i)>> \o FilterNames[filters[i]] \in Seq(FilterWords)
      <3> DEFINE c == Separator(i)
                 name == FilterNames[filters[i]]
      <3>1. c \in FilterWords /\ name \in Seq(FilterWords)
        BY <1>5, <1>6
      <3> HIDE DEF c, name
      <3>2. <<c>> \o name \in Seq(FilterWords)
        BY <3>1
      <3>3. QED BY <3>2 DEF c, name
    <2>2. QED BY <2>1, Zenon
  <1>8. Separated(FilterWords, n, names, s)
    BY <1>4, Zenon DEF Separated, Without, Separator
  <1>9. t \in Seq(FilterWords)
    <2> HIDE DEF s
    <2>1. QED BY <1>1, <1>3, <1>7, FlattenAt
  <1>10. n = 0 => t = <<>>
    <2>1. ASSUME n = 0
          PROVE  t = <<>>
      <3>1. s \in [1..0 -> Seq(FilterWords)]
        BY <1>7, <2>1
      <3> HIDE DEF s
      <3>2. Len(s) = 0 /\ s = <<>>
        BY <3>1
      <3>3. QED BY <1>3, <3>2, Zenon DEF FlattenSeq
    <2>2. QED BY <2>1
  <1> DEFINE rest == SubSeq(t, 2, Len(t))
             found == {parse_filter(names[i]) : i \in 1..n}
  <1>11. ASSUME n # 0
         PROVE  /\ Len(t) > 0 /\ t[1] = "/"
                /\ parse_filters(rest) = IF {} \in found THEN {} ELSE UNION found
    <2>1. n > 0
      BY <1>1, <1>11
    <2> HIDE DEF s, names
    <2>2. QED BY <1>1, <1>3, <1>7, <1>8, <2>1, FiltersParsed
  <1>12. \A i \in 1..n : names[i] = FilterNames[filters[i]]
    BY Zenon
  <1>13. ToSet(filters) = {filters[i] : i \in 1..n}
    BY <1>1, Zenon DEF ToSet
  <1> HIDE DEF names
  <1>14. ASSUME n # 0, parse_filters(rest) # {}
         PROVE  /\ "UNKNOWN" \notin ToSet(filters)
                /\ ToSet(filters) \subseteq {"GROUP_BY", "ORDER_DESC", "ORDER_ASC"} =>
                     parse_filters(rest) = ToSet(filters)
    <2>1. {} \notin found /\ parse_filters(rest) = UNION found
      BY <1>11, <1>14
    <2>2. ASSUME NEW i \in 1..n, filters[i] = "UNKNOWN"
          PROVE  FALSE
      <3>1. parse_filter(names[i]) = {}
        BY <1>12, <2>2, FilterParsed, Zenon
      <3>2. QED BY <2>1, <3>1
    <2>3. "UNKNOWN" \notin ToSet(filters)
      BY <1>13, <2>2
    <2>4. ASSUME ToSet(filters) \subseteq {"GROUP_BY", "ORDER_DESC", "ORDER_ASC"}
          PROVE  parse_filters(rest) = ToSet(filters)
      <3>1. ASSUME NEW i \in 1..n
            PROVE  parse_filter(names[i]) = {filters[i]}
        <4>1. filters[i] \in {"GROUP_BY", "ORDER_DESC", "ORDER_ASC"}
          BY <1>13, <2>4
        <4>2. QED BY <1>12, <4>1, FilterParsed, Zenon
      <3>2. UNION found = {filters[i] : i \in 1..n}
        BY <3>1
      <3>3. QED BY <1>13, <2>1, <3>2
    <2>5. QED BY <2>3, <2>4
  <1>15. n # 0 => t # <<>>
    BY <1>9, <1>11
  <1>16. QED BY <1>1, <1>9, <1>10, <1>11, <1>14, <1>15, Zenon

\* r is the selected path the client meant by sel.
SelectedFor(sel, r) ==
  /\ sel.closed /\ r.path = sel.path
  /\ ToSet(sel.filters) \subseteq {"GROUP_BY", "ORDER_DESC", "ORDER_ASC"} =>
       r.flags = ToSet(sel.filters) \cup ({sel.fn} \ {"none"})
  /\ "UNKNOWN" \notin ToSet(sel.filters)

\* The path and the flags of a string a client meant: the selected path it meant,
\* or none.
LEMMA SelectedPath ==
  ASSUME NEW sel \in Selections
  PROVE  LET new == selected_path_new_string(WriteSelected(sel), KnownPaths)
         IN  new = <<>> \/ \E r : new = <<r>> /\ SelectedFor(sel, r)
  <1> DEFINE open == "("
             close == ")"
             end == IF sel.closed THEN <<close>> ELSE <<>>
             head == IF sel.fn = "none" THEN sel.path ELSE FunctionText(sel.fn, open, sel.path, end)
             t == FiltersText(sel.filters)
             str == head \o t
             V == ToSet(sel.path) \cup function_table \cup {open, close}
             W == V \cup FilterWords
             slash == {k \in DOMAIN str : str[k] = "/"}
             rest == SubSeq(t, 2, Len(t))
  <1>1. WriteSelected(sel) = str
    BY Zenon DEF WriteSelected, FunctionText, FiltersText, Separator
  <1>2. /\ <<>> \notin KnownPaths /\ sel.fn \in function_table \cup {"none"} /\ (sel.fn = "none" => sel.closed)
        /\ sel.filters \in Seq(DOMAIN FilterNames)
        /\ sel.path \in Seq(ToSet(sel.path) \ {"/"})
        /\ sel.path = <<>> \/ sel.path[1] \notin function_table
        /\ \A k \in DOMAIN sel.path : sel.path[k] = close => SubSeq(sel.path, 1, k - 1) \notin KnownPaths
    BY SelectionsAssumption, Zenon
  <1>3. /\ open # close /\ close \notin FilterWords /\ open # "/" /\ close # "/"
        /\ "none" \notin function_table
        /\ \A fn \in function_table : fn # open /\ fn # close /\ fn # "/"
    BY Zenon DEF FilterWords, function_table
  <1>4. PathText(str) = IF parse_function(str) = {} THEN PathText(str) ELSE Between(str, open, close)
    BY Zenon DEF PathText, Between
  <1>5. parse_function(str) = IF Len(str) > 1 /\ str[1] \in function_table /\ str[2] = open THEN {str[1]} ELSE {}
    BY Zenon DEF parse_function
  <1> DEFINE path == sel.path
             fn == sel.fn
             filters == sel.filters
  <1>6. end \in {<<>>, <<close>>} /\ (end = <<>> <=> ~sel.closed)
    BY One, Zenon
  <1> HIDE DEF open, close, end
  <1>7. path \in Seq(W) /\ \A k \in 1..Len(path) : path[k] # "/"
    <2>1. path \in Seq(ToSet(sel.path) \ {"/"})
      BY <1>2
    <2> HIDE DEF path
    <2>2. \A k \in 1..Len(path) : path[k] # "/"
      BY <2>1
    <2>3. ToSet(sel.path) \ {"/"} \subseteq W
      OBVIOUS
    <2> HIDE DEF W
    <2>4. path \in Seq(W)
      BY <2>1, <2>3
    <2>5. QED BY <2>2, <2>4
  <1>8. open \in W /\ close \in W /\ FilterWords \subseteq W /\ \A f \in function_table : f \in W
    OBVIOUS
  <1> HIDE DEF W, V
  <1>9. /\ t \in Seq(FilterWords) /\ (filters = <<>> => t = <<>>) /\ (filters # <<>> => t # <<>> /\ t[1] = "/")
        /\ filters # <<>> /\ parse_filters(rest) # {} =>
             /\ "UNKNOWN" \notin ToSet(filters)
             /\ ToSet(filters) \subseteq {"GROUP_BY", "ORDER_DESC", "ORDER_ASC"} =>
                  parse_filters(rest) = ToSet(filters)
    BY <1>2, FiltersOf, Zenon
  <1> HIDE DEF t, path, fn, filters
  <1>10. t \in Seq(W) /\ \A k \in 1..Len(t) : t[k] # close
    BY <1>3, <1>8, <1>9
  <1>11. t = <<>> \/ t[1] = "/"
    BY <1>9
  <1>12. ASSUME fn = "none"
         PROVE  /\ head = path /\ parse_function(str) = {} /\ PathText(str) = path
    <2>1. head = path
      BY <1>12 DEF path, fn
    <2>2. path = <<>> \/ path[1] \notin function_table
      BY <1>2 DEF path
    <2> HIDE DEF head
    <2>3. parse_function(path \o t) = {} /\ PathText(path \o t) = path
      BY <1>7, <1>10, <1>11, <2>2, PlainPath
    <2>4. QED BY <2>1, <2>3
  <1>13. ASSUME fn # "none"
         PROVE  /\ head = FunctionText(fn, open, path, end) /\ fn \in function_table
                /\ parse_function(str) = {fn} /\ (sel.closed => PathText(str) = path)
                /\ ~sel.closed => PathText(str) \notin KnownPaths
    <2>1. head = FunctionText(fn, open, path, end) /\ fn \in function_table
      BY <1>2, <1>13, Zenon DEF path, fn
    <2>2. fn \in W /\ fn # open /\ fn # close
      BY <1>3, <1>8, <2>1
    <2>3. \A k \in DOMAIN path : path[k] = close => SubSeq(path, 1, k - 1) \notin KnownPaths
      BY <1>2 DEF path
    <2> HIDE DEF head
    <2> DEFINE text == FunctionText(fn, open, path, end) \o t
    <2>4. str = text
      BY <2>1
    <2> HIDE DEF str
    <2>5. /\ Len(text) > 1 /\ text[1] = fn /\ text[2] = open
          /\ end # <<>> => Between(text, open, close) = path
          /\ end = <<>> => \/ Between(text, open, close) = <<>>
                           \/ \E k \in 1..Len(path) : /\ path[k] = close
                                                      /\ Between(text, open, close) = SubSeq(path, 1, k - 1)
      <3>1. /\ open \in W /\ close \in W /\ fn \in W /\ open # close /\ fn # open /\ fn # close
            /\ path \in Seq(W) /\ end \in {<<>>, <<close>>} /\ t \in Seq(W) /\ \A k \in 1..Len(t) : t[k] # close
        BY <1>3, <1>6, <1>7, <1>8, <1>10, <2>2, Zenon
      <3>2. text = FunctionText(fn, open, path, end) \o t
        OBVIOUS
      <3> HIDE DEF text, slash, rest, str
      <3>3. PathAt(open, close, fn, path, end, FunctionText(fn, open, path, end) \o t)
        BY <3>1, FunctionPath
      <3>4. PathAt(open, close, fn, path, end, text)
        BY <3>2, <3>3, Zenon
      <3>5. QED BY <3>4, Zenon DEF PathAt
    <2> HIDE DEF text
    <2>6. parse_function(str) = {fn}
      BY <1>5, <2>1, <2>4, <2>5
    <2>7. PathText(str) = Between(str, open, close)
      BY <1>4, <2>6
    <2>8. DOMAIN path = 1..Len(path)
      BY <1>7
    <2>9. ~sel.closed => Between(text, open, close) \notin KnownPaths
      BY <1>2, <1>6, <2>3, <2>5, <2>8
    <2>10. QED BY <1>6, <2>1, <2>4, <2>5, <2>6, <2>7, <2>9
  <1>14. head \in Seq(W) /\ \A k \in 1..Len(head) : head[k] # "/"
    <2>1. CASE fn = "none"
      <3> HIDE DEF head, str
      <3>1. QED BY <1>7, <1>12, <2>1
    <2>2. CASE fn # "none"
      <3> HIDE DEF head, str
      <3>1. head = FunctionText(fn, open, path, end) /\ fn \in function_table
        BY <1>13, <2>2
      <3>2. fn \in W /\ fn # "/"
        BY <1>3, <1>8, <3>1
      <3>3. /\ head \in Seq(W) /\ Len(head) = Len(path) + (IF end = <<>> THEN 2 ELSE 3)
            /\ head[1] = fn /\ head[2] = open
            /\ \A k \in 1..Len(path) : head[2 + k] = path[k]
            /\ end # <<>> => head[Len(path) + 3] = close
        <4>1. /\ open \in W /\ close \in W /\ fn \in W /\ path \in Seq(W) /\ end \in {<<>>, <<close>>}
          BY <1>6, <1>7, <1>8, <3>2, Zenon
        <4>2. HeadAt(W, open, close, fn, path, end, FunctionText(fn, open, path, end))
          BY <4>1, FunctionHead
        <4>3. HeadAt(W, open, close, fn, path, end, head)
          BY <3>1, <4>2, Zenon
        <4>4. QED BY <4>3, Zenon DEF HeadAt
      <3>4. Len(path) \in Nat
        BY <1>7
      <3>5. ASSUME NEW k \in 1..Len(head)
            PROVE  head[k] # "/"
        <4>1. CASE k = 1
          BY <3>2, <3>3, <4>1
        <4>2. CASE k = 2
          BY <1>3, <3>3, <4>2
        <4>3. CASE k > 2 /\ k - 2 \in 1..Len(path)
          <5>1. 2 + (k - 2) = k
            BY <4>3
          <5>2. QED BY <1>7, <3>3, <4>3, <5>1
        <4>4. CASE k > 2 /\ k - 2 \notin 1..Len(path)
          <5>1. end # <<>> /\ k = Len(path) + 3
            BY <3>3, <3>4, <4>4
          <5>2. QED BY <1>3, <3>3, <5>1
        <4>5. QED BY <3>3, <3>4, <4>1, <4>2, <4>3, <4>4
      <3>6. QED BY <3>3, <3>5
    <2>3. QED BY <2>1, <2>2
  <1>15. /\ slash = {} <=> t = <<>>
         /\ t # <<>> => SubSeq(str, Min(slash) + 1, Len(str)) = rest
    <2> HIDE DEF head
    <2>1. head \in Seq(W) /\ t \in Seq(W)
      BY <1>10, <1>14
    <2>2. \A k \in 1..Len(head) : head[k] # "/"
      BY <1>14
    <2>3. head \in Seq(W)
      BY <1>14
    <2>4. t \in Seq(W)
      BY <1>10
    <2>5. CutAt(head, t, str, slash)
      BY <1>11, <2>2, <2>3, <2>4, Cut, Zenon
    <2>6. QED BY <2>5, Zenon DEF CutAt
  <1> DEFINE new == selected_path_new_string(str, KnownPaths)
             parsed == IF t = <<>> THEN {} ELSE parse_filters(rest)
             flags == parsed \cup parse_function(str)
  <1>16. new = IF (t # <<>> /\ parsed = {}) \/ PathText(str) \notin KnownPaths THEN <<>>
               ELSE <<[path |-> PathText(str), flags |-> flags]>>
    <2> HIDE DEF str, t, rest
    <2>1. new = LET found == IF slash = {} THEN {} ELSE parse_filters(SubSeq(str, Min(slash) + 1, Len(str)))
                IN  IF (slash # {} /\ found = {}) \/ PathText(str) \notin KnownPaths THEN <<>>
                    ELSE <<[path |-> PathText(str), flags |-> found \cup parse_function(str)]>>
      BY Zenon DEF selected_path_new_string
    <2> HIDE DEF slash, new
    <2>2. QED BY <1>15, <2>1, Zenon
  <1> HIDE DEF head, str, rest
  <1>17. ASSUME new # <<>>
         PROVE  /\ new = <<[path |-> path, flags |-> flags]>> /\ sel.closed
                /\ "UNKNOWN" \notin ToSet(filters)
                /\ ToSet(filters) \subseteq {"GROUP_BY", "ORDER_DESC", "ORDER_ASC"} =>
                     flags = ToSet(filters) \cup ({fn} \ {"none"})
    <2>1. /\ ~(t # <<>> /\ parsed = {}) /\ PathText(str) \in KnownPaths
          /\ new = <<[path |-> PathText(str), flags |-> flags]>>
      <3> HIDE DEF new, parsed, flags
      <3>1. QED BY <1>16, <1>17
    <2>2. sel.closed /\ PathText(str) = path
      BY <1>2, <1>12, <1>13, <2>1 DEF fn
    <2>3. parse_function(str) = {fn} \ {"none"}
      BY <1>12, <1>13
    <2>4. CASE filters = <<>>
      <3>1. ToSet(filters) = {}
        BY <2>4 DEF ToSet
      <3>2. parsed = {}
        BY <1>9, <2>4
      <3>3. QED BY <2>1, <2>2, <2>3, <3>1, <3>2
    <2>5. CASE filters # <<>>
      <3>1. parsed = parse_filters(rest) /\ parsed # {}
        BY <1>9, <2>1, <2>5
      <3> HIDE DEF parsed, new
      <3>2. QED BY <1>9, <2>1, <2>2, <2>3, <2>5, <3>1
    <2>6. QED BY <2>4, <2>5
  <1>18. new = selected_path_new_string(WriteSelected(sel), KnownPaths)
    BY <1>1
  <1> HIDE DEF new, flags
  <1> DEFINE r == [path |-> path, flags |-> flags]
  <1>19. r.path = path /\ r.flags = flags
    OBVIOUS
  <1> HIDE DEF r
  <1>20. CASE new = <<>>
    BY <1>18, <1>20
  <1>21. CASE new # <<>>
    <2>1. new = <<r>>
      BY <1>17, <1>21 DEF r
    <2>2. SelectedFor(sel, r)
      BY <1>17, <1>19, <1>21, Zenon DEF path, fn, filters, SelectedFor
    <2>3. QED BY <1>18, <2>1, <2>2, Zenon
  <1>22. QED BY <1>20, <1>21

\* The inductive invariant: the selection and what was asked for have the same
\* length, and each selected path is the one the client meant.
SelectionInv ==
  /\ \E V : selection \in Seq(V)
  /\ asked \in Seq(Selections) /\ Len(selection) = Len(asked)
  /\ \A i \in 1..Len(asked) : SelectedFor(asked[i], selection[i])

\* Adding a selected path keeps the invariant.
LEMMA SelectionAdded ==
  ASSUME SelectionInv, NEW sel \in Selections, AddSelected(sel)
  PROVE  SelectionInv'
  <1> DEFINE new == selected_path_new_string(WriteSelected(sel), KnownPaths)
             n == Len(asked)
  <1>1. new = <<>> \/ \E r : new = <<r>> /\ SelectedFor(sel, r)
    BY SelectedPath
  <1>2. selection' = selection \o new /\ asked' = IF new = <<>> THEN asked ELSE Append(asked, sel)
    BY Zenon DEF AddSelected
  <1>3. PICK V : selection \in Seq(V)
    BY DEF SelectionInv
  <1>4. asked \in Seq(Selections) /\ Len(selection) = n /\ n \in Nat
    BY DEF SelectionInv
  <1>5. \A i \in 1..n : SelectedFor(asked[i], selection[i])
    BY Zenon DEF SelectionInv
  <1> HIDE DEF new
  <1>6. CASE new = <<>>
    <2>1. selection' = selection /\ asked' = asked
      BY <1>2, <1>3, <1>6
    <2>2. QED BY <1>3, <1>4, <1>5, <2>1 DEF SelectionInv, n
  <1>7. CASE new # <<>>
    <2>1. PICK r : new = <<r>> /\ SelectedFor(sel, r)
      BY <1>1, <1>7
    <2> DEFINE W == V \cup {r}
    <2>2. selection \in Seq(W) /\ <<r>> \in Seq(W)
      BY <1>3
    <2> HIDE DEF W
    <2>3. /\ selection' \in Seq(W) /\ Len(selection') = n + 1
          /\ \A i \in 1..n : selection'[i] = selection[i]
          /\ selection'[n + 1] = r
      <3>1. selection' = Append(selection, r)
        BY <1>2, <2>1, <2>2
      <3>2. r \in W
        BY DEF W
      <3>3. QED BY <1>4, <2>2, <3>1, <3>2
    <2>4. /\ asked' \in Seq(Selections) /\ Len(asked') = n + 1
          /\ \A i \in 1..n : asked'[i] = asked[i]
          /\ asked'[n + 1] = sel
      BY <1>2, <1>4, <1>7
    <2>5. ASSUME NEW i \in 1..n + 1
          PROVE  SelectedFor(asked'[i], selection'[i])
      <3>1. CASE i \in 1..n
        <4>1. asked'[i] = asked[i] /\ selection'[i] = selection[i] /\ SelectedFor(asked[i], selection[i])
          BY <1>5, <2>3, <2>4, <3>1
        <4>2. QED BY <4>1, Zenon
      <3>2. CASE i = n + 1
        <4>1. asked'[i] = sel /\ selection'[i] = r /\ SelectedFor(sel, r)
          BY <2>1, <2>3, <2>4, <3>2
        <4>2. QED BY <4>1, Zenon
      <3>3. QED BY <1>4, <3>1, <3>2
    <2>6. QED BY <2>3, <2>4, <2>5 DEF SelectionInv
  <1>8. QED BY <1>6, <1>7

\* Every step keeps SelectionInv.
LEMMA SelectionStep ==
  ASSUME SelectionInv, [Next]_vars
  PROVE  SelectionInv'
  <1>1. ASSUME selection' = selection, asked' = asked
        PROVE  SelectionInv'
    BY <1>1 DEF SelectionInv
  <1>2. CASE \E sel \in Selections : AddSelected(sel)
    BY <1>2, SelectionAdded
  <1>3. CASE AskText \/ AskRegex \/ AskTime \/ AskBrokenDown
    <2>1. ASSUME NEW op, NEW val, NEW nulls, Ask(op, val, nulls)
          PROVE  SelectionInv'
      BY <1>1, <2>1, Zenon DEF Ask
    <2>2. QED BY <1>3, <2>1, Zenon DEF AskText, AskRegex, AskTime, AskBrokenDown
  <1>4. ASSUME NEW pairs \in Written, NEW tail \in Tails, NewSettings(pairs, tail)
        PROVE  SelectionInv'
    BY <1>1, <1>4, Zenon DEF NewSettings
  <1>5. ASSUME NEW kind, NEW op, NEW v, NEW order, NEW limit, NextPage(kind, op, v, order, limit)
        PROVE  SelectionInv'
    BY <1>1, <1>5, Zenon DEF NextPage
  <1>6. ASSUME NEW string \in StringValues, StoreString(string)
        PROVE  SelectionInv'
    BY <1>1, <1>6, Zenon DEF StoreString
  <1>7. ASSUME NEW d \in DataValues, StoreData(d.adtype, d.data)
        PROVE  SelectionInv'
    BY <1>1, <1>7, Zenon DEF StoreData
  <1>8. ASSUME NEW time \in TimeValues, NEW has_usec \in BOOLEAN, StoreTime(time, has_usec)
        PROVE  SelectionInv'
    BY <1>1, <1>8, Zenon DEF StoreTime
  <1>9. CASE UNCHANGED vars
    BY <1>1, <1>9, Zenon DEF vars
  <1>10. QED BY <1>2, <1>3, <1>4, <1>5, <1>6, <1>7, <1>8, <1>9, Zenon DEF Next

\* A selection holds what the client asked for, in order, for every set of known
\* paths and of paths a client may mean, as long as they have the form of a path:
\* SelectionRoundTrip of every specification of a client.
THEOREM SelectionCorrect == Spec => []SelectionRoundTrip
  <1>1. Init => SelectionInv
    <2>1. ASSUME Init
          PROVE  SelectionInv
      <3>1. selection = <<>> /\ asked = <<>>
        BY <2>1 DEF Init
      <3>2. <<>> \in Seq({}) /\ <<>> \in Seq(Selections) /\ Len(<<>>) = 0 /\ 1..0 = {}
        OBVIOUS
      <3>3. selection \in Seq({}) /\ asked \in Seq(Selections) /\ Len(selection) = 0 /\ Len(asked) = 0
        BY <3>1, <3>2
      <3>4. QED BY <3>2, <3>3, Zenon DEF SelectionInv
    <2>2. QED BY <2>1
  <1>2. SelectionInv /\ [Next]_vars => SelectionInv'
    BY SelectionStep
  <1>3. SelectionInv => SelectionRoundTrip
    <2>1. ASSUME SelectionInv
          PROVE  SelectionRoundTrip
      <3>1. DOMAIN asked = 1..Len(asked)
        BY <2>1 DEF SelectionInv
      <3>2. \A i \in DOMAIN asked : SelectedFor(asked[i], selection[i])
        BY <2>1, <3>1, Zenon DEF SelectionInv
      <3>3. Len(selection) = Len(asked)
        BY <2>1 DEF SelectionInv
      <3>4. QED BY <3>2, <3>3, Zenon DEF SelectionRoundTrip, SelectedFor
    <2>2. QED BY <2>1
  <1>4. QED BY <1>1, <1>2, <1>3, PTL DEF Spec

-----------------------------------------------------------------------------
(***************************************************************************)
(* Counting and ranking                                                    *)
(***************************************************************************)

\* A function is one to one on S, reaches all of T, grows on S.
OneToOne(f, S) == \A x, y \in S : f[x] = f[y] => x = y
Reaches(f, S, T) == \A t \in T : \E x \in S : f[x] = t
Grows(f, S) == \A x, y \in S : x < y => f[x] < f[y]

\* Two sets that a function maps onto each other, one to one, are of the same size.
LEMMA SameSize ==
  ASSUME NEW S, NEW T, NEW f \in [S -> T], IsFiniteSet(S), OneToOne(f, S), Reaches(f, S, T)
  PROVE  IsFiniteSet(T) /\ Cardinality(T) = Cardinality(S)
  <1>1. f \in Injection(S, T) /\ f \in Surjection(S, T)
    BY DEF Injection, Surjection, IsInjective, OneToOne, Reaches
  <1>2. ExistsBijection(S, T)
    BY <1>1 DEF ExistsBijection, Bijection
  <1>3. QED BY <1>2, FS_Bijection

\* A function that is one to one reaches all of a set of the same size.
LEMMA Onto ==
  ASSUME NEW S, NEW T, NEW f \in [S -> T], IsFiniteSet(S), IsFiniteSet(T),
         Cardinality(S) = Cardinality(T), OneToOne(f, S)
  PROVE  Reaches(f, S, T)
  <1>1. f \in Injection(S, T)
    BY DEF Injection, IsInjective, OneToOne
  <1>2. f \in Surjection(S, T)
    BY <1>1, FS_Injection
  <1>3. QED BY <1>2 DEF Surjection, Reaches

\* The values of a function on a finite set.
LEMMA ImageFinite ==
  ASSUME NEW S, NEW f, IsFiniteSet(S)
  PROVE  IsFiniteSet({f[x] : x \in S})
  <1> DEFINE T == {f[x] : x \in S}
             g == [x \in S |-> f[x]]
  <1>1. g \in Surjection(S, T)
    BY DEF Surjection
  <1> HIDE DEF T, g
  <1>2. IsFiniteSet(T)
    BY <1>1, FS_Surjection
  <1>3. QED BY <1>2 DEF T

\* The members of S up to x.
UpTo(S, x) == {y \in S : y <= x}

\* How many there are grows with x.
LEMMA Ranks ==
  ASSUME NEW S, S \subseteq Int, IsFiniteSet(S)
  PROVE  /\ \A x \in S : Cardinality(UpTo(S, x)) \in 1..Cardinality(S)
         /\ \A x, y \in S : x < y => Cardinality(UpTo(S, x)) < Cardinality(UpTo(S, y))
  <1>1. Cardinality(S) \in Nat
    BY FS_CardinalityType
  <1>2. ASSUME NEW x \in S
        PROVE  /\ UpTo(S, x) \subseteq S /\ x \in UpTo(S, x) /\ IsFiniteSet(UpTo(S, x))
               /\ Cardinality(UpTo(S, x)) \in Nat /\ Cardinality(UpTo(S, x)) <= Cardinality(S)
               /\ Cardinality(UpTo(S, x)) # 0
    <2>1. UpTo(S, x) \subseteq S /\ x \in UpTo(S, x)
      BY DEF UpTo
    <2>2. IsFiniteSet(UpTo(S, x)) /\ Cardinality(UpTo(S, x)) <= Cardinality(S)
      BY <2>1, FS_Subset
    <2>3. QED BY <2>1, <2>2, FS_CardinalityType, FS_EmptySet
  <1>3. ASSUME NEW x \in S, NEW y \in S, x < y
        PROVE  Cardinality(UpTo(S, x)) < Cardinality(UpTo(S, y))
    <2>1. UpTo(S, x) \subseteq UpTo(S, y) /\ y \notin UpTo(S, x)
      <3>1. x \in Int /\ y \in Int /\ \A z \in S : z \in Int
        OBVIOUS
      <3>2. \A z \in S : z <= x => z <= y
        BY <1>3, <3>1
      <3>3. ~(y <= x)
        BY <1>3, <3>1
      <3>4. QED BY <3>2, <3>3, Zenon DEF UpTo
    <2>2. /\ Cardinality(UpTo(S, x)) <= Cardinality(UpTo(S, y))
          /\ Cardinality(UpTo(S, x)) # Cardinality(UpTo(S, y))
      BY <1>2, <2>1, FS_Subset
    <2>3. QED BY <1>2, <2>2
  <1>4. QED BY <1>1, <1>2, <1>3

\* The k-th member has k members up to it.
LEMMA NthOf ==
  ASSUME NEW S, S \subseteq Int, IsFiniteSet(S)
  PROVE  /\ \A k \in 1..Cardinality(S) : Nth(S, k) \in S /\ Cardinality(UpTo(S, Nth(S, k))) = k
         /\ \A x \in S : Nth(S, Cardinality(UpTo(S, x))) = x
  <1> DEFINE n == Cardinality(S)
             rank == [x \in S |-> Cardinality(UpTo(S, x))]
  <1>1. n \in Nat
    BY FS_CardinalityType
  <1>2. rank \in [S -> 1..n] /\ \A x \in S : rank[x] = Cardinality(UpTo(S, x))
    BY Ranks
  <1>3. ASSUME NEW x \in S, NEW y \in S, rank[x] = rank[y]
        PROVE  x = y
    <2>1. rank[x] \in Int /\ rank[y] \in Int
      BY <1>2
    <2>2. (x < y => rank[x] < rank[y]) /\ (y < x => rank[y] < rank[x])
      BY <1>2, Ranks, Zenon
    <2>3. x \in Int /\ y \in Int
      OBVIOUS
    <2> HIDE DEF rank
    <2>4. QED BY <1>3, <2>1, <2>2, <2>3
  <1>4. IsFiniteSet(1..n) /\ Cardinality(1..n) = n
    BY <1>1, FS_Interval
  <1> HIDE DEF rank, n
  <1>5. \A k \in 1..n : \E x \in S : rank[x] = k
    <2>1. Cardinality(S) = Cardinality(1..n)
      BY <1>4 DEF n
    <2>2. OneToOne(rank, S)
      BY <1>3 DEF OneToOne
    <2> DEFINE T == 1..n
    <2>3. rank \in [S -> T] /\ IsFiniteSet(T) /\ Cardinality(S) = Cardinality(T)
      BY <1>2, <1>4, <2>1
    <2> HIDE DEF T
    <2>4. Reaches(rank, S, T)
      BY <2>2, <2>3, Onto
    <2>5. QED BY <2>4 DEF T, Reaches
  <1>6. ASSUME NEW k, NEW x \in S, rank[x] = k
        PROVE  Nth(S, k) = x
    <2>1. Cardinality({y \in S : y <= x}) = k
      BY <1>2, <1>6 DEF UpTo
    <2>2. \A z \in S : Cardinality({y \in S : y <= z}) = k => z = x
      BY <1>2, <1>3, <1>6 DEF UpTo
    <2>3. QED BY <2>1, <2>2, Zenon DEF Nth
  <1>7. \A k \in 1..n : Nth(S, k) \in S /\ Cardinality(UpTo(S, Nth(S, k))) = k
    BY <1>2, <1>5, <1>6
  <1>8. \A x \in S : Nth(S, Cardinality(UpTo(S, x))) = x
    BY <1>2, <1>6
  <1>9. QED BY <1>7, <1>8 DEF n

\* Members are different, and in order.
LEMMA NthGrows ==
  ASSUME NEW S, S \subseteq Int, IsFiniteSet(S), NEW j \in 1..Cardinality(S), NEW k \in 1..Cardinality(S)
  PROVE  (j < k <=> Nth(S, j) < Nth(S, k)) /\ (Nth(S, j) = Nth(S, k) => j = k)
  <1> DEFINE x == Nth(S, j)
             y == Nth(S, k)
  <1>1. /\ x \in S /\ Cardinality(UpTo(S, x)) = j
        /\ y \in S /\ Cardinality(UpTo(S, y)) = k
    BY NthOf
  <1>2. x \in Int /\ y \in Int /\ j \in Int /\ k \in Int
    <2>1. Cardinality(S) \in Nat
      BY FS_CardinalityType
    <2>2. x \in Int /\ y \in Int
      BY <1>1, Zenon
    <2>3. QED BY <2>1, <2>2
  <1> HIDE DEF x, y
  <1>3. (x < y => j < k) /\ (y < x => k < j)
    BY <1>1, Ranks
  <1>4. QED BY <1>1, <1>2, <1>3 DEF x, y

\* f maps the k-th member of S to the k-th of T.
Numbers(f, S, T) ==
  /\ IsFiniteSet(T) /\ Cardinality(T) = Cardinality(S)
  /\ \A k \in 1..Cardinality(S) : Nth(S, k) \in S /\ f[Nth(S, k)] = Nth(T, k)

\* A function that grows maps the k-th member of its domain to the k-th of its range.
LEMMA NthImage ==
  ASSUME NEW S, S \subseteq Int, IsFiniteSet(S), NEW T, T \subseteq Int, NEW f \in [S -> T],
         Grows(f, S), Reaches(f, S, T)
  PROVE  Numbers(f, S, T)
  <1>1. \A x \in S : x \in Int /\ f[x] \in Int /\ f[x] \in T
    OBVIOUS
  <1>2. \A x, y \in S : (f[x] = f[y] => x = y) /\ (f[x] <= f[y] <=> x <= y)
    BY <1>1 DEF Grows
  <1>3. IsFiniteSet(T) /\ Cardinality(T) = Cardinality(S)
    <2>1. OneToOne(f, S)
      BY <1>2 DEF OneToOne
    <2>2. QED BY <2>1, SameSize, Zenon
  <1>4. ASSUME NEW x \in S
        PROVE  Cardinality(UpTo(T, f[x])) = Cardinality(UpTo(S, x))
    <2> DEFINE A == UpTo(S, x)
               B == UpTo(T, f[x])
               g == [y \in A |-> f[y]]
    <2>1. A \subseteq S /\ IsFiniteSet(A)
      <3>1. A \subseteq S
        BY DEF UpTo
      <3>2. QED BY <3>1, FS_Subset
    <2>2. \A y \in A : f[y] \in B
      BY <1>1, <1>2 DEF UpTo
    <2>3. \A t \in B : \E y \in A : f[y] = t
      BY <1>2 DEF UpTo, Reaches
    <2> HIDE DEF A, B
    <2>4. g \in [A -> B] /\ Reaches(g, A, B) /\ OneToOne(g, A)
      BY <1>2, <2>1, <2>2, <2>3 DEF Reaches, OneToOne
    <2> HIDE DEF g
    <2>5. Cardinality(B) = Cardinality(A)
      BY <2>1, <2>4, SameSize
    <2>6. QED BY <2>5 DEF A, B
  <1>5. ASSUME NEW k \in 1..Cardinality(S)
        PROVE  Nth(S, k) \in S /\ f[Nth(S, k)] = Nth(T, k)
    <2>1. Nth(S, k) \in S /\ Cardinality(UpTo(S, Nth(S, k))) = k
      BY NthOf
    <2> DEFINE t == f[Nth(S, k)]
    <2>2. t \in T /\ Cardinality(UpTo(T, t)) = k
      BY <1>1, <1>4, <2>1
    <2> HIDE DEF t
    <2>3. Nth(T, Cardinality(UpTo(T, t))) = t
      BY <1>3, <2>2, NthOf
    <2>4. QED BY <2>1, <2>2, <2>3 DEF t
  <1>6. QED BY <1>3, <1>5, Zenon DEF Numbers

\* A set of numbers that has 1 to i with every i is 1 to its size.
LEMMA Initial ==
  ASSUME NEW N \in Nat, NEW T, T \subseteq 1..N, \A i \in T, j \in 1..N : j < i => j \in T
  PROVE  T = 1..Cardinality(T)
  <1> DEFINE c == Cardinality(T)
  <1>1. IsFiniteSet(T) /\ c \in Nat
    <2>1. IsFiniteSet(1..N)
      BY FS_Interval
    <2>2. IsFiniteSet(T)
      BY <2>1, FS_Subset
    <2>3. QED BY <2>2, FS_CardinalityType
  <1>2. ASSUME NEW i \in T
        PROVE  i \in 1..c
    <2>1. i \in Nat /\ i >= 1 /\ 1..i \subseteq T
      OBVIOUS
    <2>2. Cardinality(1..i) = i
      BY <2>1, FS_Interval
    <2>3. Cardinality(1..i) <= c
      BY <1>1, <2>1, FS_Subset
    <2>4. QED BY <1>1, <2>1, <2>2, <2>3
  <1>3. IsFiniteSet(1..c) /\ Cardinality(1..c) = c
    BY <1>1, FS_Interval
  <1> HIDE DEF c
  <1>4. T \subseteq 1..c
    BY <1>2
  <1>5. T = 1..c
    BY <1>1, <1>3, <1>4, FS_Subset DEF c
  <1>6. QED BY <1>5 DEF c

\* K is the values of g, which does not decrease from 1 to N.
Image(K, g, N) == K = {g[i] : i \in 1..N}
NotDecreasing(g, N) == \A i, j \in 1..N : i < j => g[i] <= g[j]

\* The positions of the first of every value.
FirstOnes(first, g, N) == first = {i \in 1..N : \A j \in 1..i - 1 : g[j] # g[i]}

\* The k-th position in first is one of the k-th value.
FirstAt(first, g, K, N) ==
  /\ Cardinality(first) = Cardinality(K)
  /\ \A k \in 1..Cardinality(K) : Nth(first, k) \in 1..N /\ g[Nth(first, k)] = Nth(K, k)

\* They are finitely many numbers.
LEMMA NumbersFinite ==
  ASSUME NEW N \in Nat, NEW g \in [1..N -> Int], NEW K, Image(K, g, N)
  PROVE  K \subseteq Int /\ IsFiniteSet(K) /\ Cardinality(K) \in Nat
  <1> DEFINE D == 1..N
  <1>1. IsFiniteSet(D)
    BY FS_Interval
  <1>2. K = {g[i] : i \in D} /\ K \subseteq Int
    BY DEF Image
  <1> HIDE DEF D
  <1>3. IsFiniteSet(K)
    BY <1>1, <1>2, ImageFinite
  <1>4. QED BY <1>2, <1>3, FS_CardinalityType

\* The positions of the first of every value of a function that does not decrease.
LEMMA FirstOfEach ==
  ASSUME NEW N \in Nat, NEW g \in [1..N -> Int], NotDecreasing(g, N),
         NEW first, FirstOnes(first, g, N), NEW K, Image(K, g, N)
  PROVE  FirstAt(first, g, K, N)
  <1>a. first = {i \in 1..N : \A j \in 1..i - 1 : g[j] # g[i]} /\ K = {g[i] : i \in 1..N}
    BY DEF FirstOnes, Image
  <1> DEFINE f == [i \in first |-> g[i]]
  <1>1. first \subseteq 1..N /\ first \subseteq Int /\ K \subseteq Int
    BY <1>a
  <1>2. IsFiniteSet(first)
    <2>1. IsFiniteSet(1..N)
      BY FS_Interval
    <2>2. QED BY <1>1, <2>1, FS_Subset
  <1>3. f \in [first -> K] /\ \A i \in first : f[i] = g[i]
    BY <1>a
  <1>4. ASSUME NEW i \in first, NEW j \in first, i < j
        PROVE  f[i] < f[j]
    <2>1. i \in 1..N /\ j \in 1..N /\ i \in 1..j - 1
      BY <1>1, <1>4
    <2>2. g[i] # g[j]
      BY <1>a, <2>1
    <2>3. g[i] <= g[j] /\ g[i] \in Int /\ g[j] \in Int
      BY <1>4, <2>1 DEF NotDecreasing
    <2>4. QED BY <1>3, <2>2, <2>3
  <1>5. ASSUME NEW x \in K
        PROVE  \E i \in first : f[i] = x
    <2> DEFINE I == {i \in 1..N : g[i] = x}
    <2>1. I \subseteq Nat /\ I # {}
      BY <1>a
    <2>2. PICK i \in I : \A j \in I : i <= j
      BY <2>1, LeastOf
    <2>3. i \in 1..N /\ g[i] = x
      OBVIOUS
    <2>4. ASSUME NEW j \in 1..i - 1
          PROVE  g[j] # g[i]
      <3>1. j \in 1..N /\ ~(i <= j)
        BY <2>3
      <3>2. QED BY <2>2, <2>3, <3>1
    <2>5. i \in first
      BY <1>a, <2>3, <2>4
    <2>6. QED BY <1>3, <2>3, <2>5
  <1> HIDE DEF f
  <1>6. /\ IsFiniteSet(K) /\ Cardinality(K) = Cardinality(first)
        /\ \A k \in 1..Cardinality(first) : Nth(first, k) \in first /\ f[Nth(first, k)] = Nth(K, k)
    <2>1. Grows(f, first)
      BY <1>4 DEF Grows
    <2>2. Reaches(f, first, K)
      BY <1>5 DEF Reaches
    <2>3. f \in [first -> K]
      BY <1>3
    <2>4. Numbers(f, first, K)
      BY <1>1, <1>2, <2>1, <2>2, <2>3, NthImage, Zenon
    <2>5. QED BY <2>4, Zenon DEF Numbers
  <1>7. QED BY <1>1, <1>3, <1>6 DEF FirstAt

\* p has a value for every position in I, that of w; and so every s[k] for the
\* positions of the k-th value.
Fits(p, I, w) == Len(p) = Cardinality(I) /\ \A i \in I : \A q \in 1..Len(p) : p[q] = w[i]
AllFit(s, g, N, K, n, w) == \A k \in 1..n : Fits(s[k], {i \in 1..N : g[i] = Nth(K, k)}, w)

\* The sequences of one value after the other, each as long as there are positions of
\* that value in a sequence that does not decrease, make that sequence.
LEMMA FlattenSorted ==
  ASSUME NEW N \in Nat, NEW g \in [1..N -> Int], NotDecreasing(g, N),
         NEW K, Image(K, g, N), NEW n, n = Cardinality(K),
         NEW V, NEW s \in [1..n -> Seq(V)], NEW w \in Seq(V), Len(w) = N, AllFit(s, g, N, K, n, w)
  PROVE  FlattenSeq(s) = w
  <1>a. \A k \in 1..n : Fits(s[k], {i \in 1..N : g[i] = Nth(K, k)}, w)
    BY Zenon DEF AllFit
  <1>1. K \subseteq Int /\ IsFiniteSet(K) /\ n \in Nat /\ IsFiniteSet(1..N)
    <2>1. K \subseteq Int /\ IsFiniteSet(K) /\ n \in Nat
      BY NumbersFinite
    <2>2. IsFiniteSet(1..N)
      BY FS_Interval
    <2>3. QED BY <2>1, <2>2, Zenon
  <1> DEFINE At(k) == {i \in 1..N : g[i] = Nth(K, k)}
             Upto(k) == {i \in 1..N : \E l \in 1..k : g[i] = Nth(K, l)}
  <1>2. PICK pos \in [0..n -> Nat] : Placed(s, n, pos)
    BY <1>1, FlattenAt
  <1>3. /\ pos[0] = 0 /\ pos[n] = Len(FlattenSeq(s))
        /\ \A i \in 1..n : /\ pos[i] = pos[i - 1] + Len(s[i]) /\ pos[i] <= pos[n]
                           /\ \A k \in 1..Len(s[i]) : FlattenSeq(s)[pos[i - 1] + k] = s[i][k]
    BY <1>2, Zenon DEF Placed
  <1>4. FlattenSeq(s) \in Seq(V)
    BY <1>1, FlattenAt
  <1>5. ASSUME NEW i \in 1..N
        PROVE  \E l \in 1..n : g[i] = Nth(K, l)
    <2>1. g[i] \in K
      BY DEF Image
    <2> DEFINE l == Cardinality(UpTo(K, g[i]))
    <2>2. l \in 1..n /\ Nth(K, l) = g[i]
      BY <1>1, <2>1, NthOf, Ranks
    <2> HIDE DEF l
    <2>3. QED BY <2>2
  <1>6. ASSUME NEW k \in Nat, k <= n
        PROVE  Upto(k) = 1..Cardinality(Upto(k))
    <2>1. Upto(k) \subseteq 1..N
      OBVIOUS
    <2>2. ASSUME NEW i \in Upto(k), NEW j \in 1..N, j < i
          PROVE  j \in Upto(k)
      <3>1. PICK l \in 1..k : g[i] = Nth(K, l)
        OBVIOUS
      <3>2. PICK m \in 1..n : g[j] = Nth(K, m)
        BY <1>5
      <3>3. g[j] <= g[i] /\ g[i] \in Int /\ g[j] \in Int
        BY <2>2 DEF NotDecreasing
      <3>4. l \in 1..n /\ ~(Nth(K, l) < Nth(K, m))
        BY <1>1, <1>6, <3>1, <3>2, <3>3
      <3>5. ~(l < m)
        BY <1>1, <3>4, NthGrows
      <3>6. m \in 1..k
        BY <1>1, <1>6, <3>5
      <3>7. QED BY <3>2, <3>6
    <2> HIDE DEF Upto
    <2>3. QED BY <2>1, <2>2, Initial
  <1>7. ASSUME NEW k \in 1..n
        PROVE  Upto(k) = Upto(k - 1) \cup At(k) /\ Upto(k - 1) \cap At(k) = {}
    <2>1. \A l : l \in 1..k <=> l \in 1..k - 1 \/ l = k
      BY <1>1
    <2>2. \A l \in 1..k - 1 : Nth(K, l) # Nth(K, k)
      <3>1. \A l \in 1..k - 1 : l \in 1..n /\ l # k
        BY <1>1
      <3>2. QED BY <1>1, <3>1, NthGrows
    <2>3. QED BY <2>1, <2>2
  <1>8. \A k \in Nat : k <= n => pos[k] = Cardinality(Upto(k))
    <2> DEFINE P == {k \in Nat : k <= n => pos[k] = Cardinality(Upto(k))}
    <2>1. 0 \in P
      <3>1. Upto(0) = {}
        OBVIOUS
      <3>2. QED BY <1>3, <3>1, FS_EmptySet
    <2>2. ASSUME NEW k \in Nat, k \in P
          PROVE  k + 1 \in P
      <3>1. SUFFICES ASSUME k + 1 <= n
                     PROVE  pos[k + 1] = Cardinality(Upto(k + 1))
        OBVIOUS
      <3>2. k <= n => pos[k] = Cardinality(Upto(k))
        BY <2>2
      <3>3. Upto(k) \subseteq 1..N /\ At(k + 1) \subseteq 1..N
        OBVIOUS
      <3> DEFINE l == k + 1
      <3>4. l \in 1..n /\ l - 1 = k /\ k <= n
        <4> HIDE DEF P, Upto, At
        <4>1. \A a, b \in Nat : a + 1 <= b => a + 1 \in 1..b /\ (a + 1) - 1 = a /\ a <= b
          OBVIOUS
        <4>2. QED BY <1>1, <3>1, <4>1, Zenon
      <3> HIDE DEF P, l
      <3>5. Upto(l) = Upto(l - 1) \cup At(l) /\ Upto(l - 1) \cap At(l) = {}
        BY <1>7, <3>4, Zenon
      <3>6. pos[l] = pos[l - 1] + Cardinality(At(l))
        <4>1. Fits(s[l], At(l), w)
          BY <1>a, <3>4, Zenon
        <4>2. QED BY <1>3, <3>4, <4>1, Zenon DEF Fits
      <3> DEFINE A == Upto(k)
                 B == At(l)
      <3>7. A \subseteq 1..N /\ B \subseteq 1..N /\ Upto(l) = A \cup B /\ A \cap B = {}
        <4>1. B \subseteq 1..N
          BY <3>3 DEF l
        <4> HIDE DEF Upto, At
        <4>2. Upto(l - 1) = A
          BY <3>4
        <4>3. QED BY <3>3, <3>5, <4>1, <4>2, Zenon
      <3> HIDE DEF A, B, Upto, At
      <3>8. IsFiniteSet(A) /\ IsFiniteSet(B)
        BY <1>1, <3>7, FS_Subset
      <3>9. Cardinality(A \cup B) = Cardinality(A) + Cardinality(B) - Cardinality(A \cap B)
        BY <3>8, FS_Union
      <3>10. Cardinality(A) \in Nat /\ Cardinality(B) \in Nat /\ Cardinality(A \cap B) = 0
        BY <3>7, <3>8, FS_CardinalityType, FS_EmptySet
      <3>11. Cardinality(A \cup B) = Cardinality(A) + Cardinality(B)
        BY <3>9, <3>10
      <3>12. pos[l] = Cardinality(Upto(l))
        BY <3>2, <3>4, <3>6, <3>7, <3>11, Zenon DEF A, B
      <3>13. QED BY <3>12 DEF l
    <2> HIDE DEF P
    <2>3. \A k \in Nat : k \in P
      BY <2>1, <2>2, Induction
    <2>4. QED BY <2>3 DEF P
  <1>9. \A k \in Nat : k <= n => Upto(k) = 1..pos[k]
    BY <1>6, <1>8
  <1>10. pos[n] = N
    <2>1. Upto(n) = 1..N
      BY <1>5
    <2> HIDE DEF Upto
    <2>2. Upto(n) = 1..pos[n]
      <3>1. n \in Nat /\ n <= n
        BY <1>1
      <3>2. QED BY <1>9, <3>1, Zenon
    <2>3. pos[n] \in Nat /\ 1..N = 1..pos[n]
      BY <1>1, <2>1, <2>2
    <2> DEFINE p == pos[n]
    <2>4. p \in Nat /\ 1..N = 1..p
      BY <2>3
    <2> HIDE DEF p
    <2>5. (N = 0 \/ N \in 1..N) /\ (p = 0 \/ p \in 1..p)
      BY <2>4
    <2>6. p = N
      BY <2>4, <2>5
    <2>7. QED BY <2>6 DEF p
  <1>11. ASSUME NEW i \in 1..N
         PROVE  FlattenSeq(s)[i] = w[i]
    <2>1. PICK l \in 1..n : g[i] = Nth(K, l)
      BY <1>5
    <2>2. l \in Nat /\ l - 1 \in Nat /\ l <= n /\ l - 1 <= n /\ l - 1 \in 0..n /\ l \in 0..n
      BY <1>1
    <2>3. i \in Upto(l) /\ i \in At(l)
      BY <2>1
    <2>4. i \notin Upto(l - 1)
      BY <1>7, <2>3
    <2> HIDE DEF Upto, At
    <2>5. i \in 1..pos[l] /\ i \notin 1..pos[l - 1]
      BY <1>9, <2>2, <2>3, <2>4
    <2>6. pos[l] = pos[l - 1] + Len(s[l]) /\ \A k \in 1..Len(s[l]) : FlattenSeq(s)[pos[l - 1] + k] = s[l][k]
      BY <1>3
    <2> DEFINE q == i - pos[l - 1]
               a == pos[l - 1]
               c == Len(s[l])
    <2>7. a \in Nat /\ c \in Nat /\ i \in 1..a + c /\ i \notin 1..a
      BY <2>2, <2>5, <2>6
    <2> HIDE DEF a, c
    <2>8. i - a \in 1..c /\ a + (i - a) = i
      BY <2>7
    <2>9. q \in 1..Len(s[l]) /\ pos[l - 1] + q = i
      BY <2>8 DEF a, c
    <2> HIDE DEF q
    <2>10. FlattenSeq(s)[pos[l - 1] + q] = s[l][q]
      BY <2>6, <2>9, Zenon
    <2>11. s[l][q] = w[i]
      <3>1. Fits(s[l], At(l), w)
        BY <1>a, Zenon DEF At
      <3>2. QED BY <2>3, <2>9, <3>1, Zenon DEF Fits
    <2>12. QED BY <2>9, <2>10, <2>11, Zenon
  <1>12. Len(FlattenSeq(s)) = Len(w)
    BY <1>3, <1>10
  <1>13. QED BY <1>4, <1>11, <1>12, SeqEqual

-----------------------------------------------------------------------------
(***************************************************************************)
(* The rows of a page                                                      *)
(***************************************************************************)

\* No two messages have the same creation time.
TimesDiffer == \A m, n \in Messages : m # n => m.time # n.time

\* The row of the join for a field of a message, the rows for the fields asks gives
\* for every message, and the messages that have one.
Row(m, f) == [ident |-> m.ident, time |-> m.time, field |-> f]
RowsBy(asks) == UNION {{Row(m, f) : f \in asks[m]} : m \in Messages}
AskedFor(asks) == {m \in Messages : asks[m] # {}}
FiniteAsks(asks) == \A m \in Messages : IsFiniteSet(asks[m])

\* The keys of an order are numbers, and equal when the times are.
LEMMA Keys ==
  ASSUME NEW order, NEW m \in Messages
  PROVE  /\ Key(order, m.time) \in Int
         /\ \A n \in Messages : Key(order, m.time) = Key(order, n.time) => m.time = n.time
  <1>1. \A n \in Messages : n.time \in Int
    BY MessagesAssumption
  <1>2. QED BY <1>1 DEF Key

\* A row is of one message.
LEMMA RowOf ==
  ASSUME NEW asks, NEW r
  PROVE  r \in RowsBy(asks) <=> \E m \in AskedFor(asks) : \E f \in asks[m] : r = Row(m, f)
  BY DEF RowsBy, AskedFor

\* What a row says of its message.
LEMMA RowFields ==
  ASSUME NEW m, NEW f
  PROVE  Row(m, f).ident = m.ident /\ Row(m, f).time = m.time /\ Row(m, f).field = f
  BY DEF Row

\* There are finitely many.
LEMMA RowsFinite ==
  ASSUME NEW asks, FiniteAsks(asks)
  PROVE  IsFiniteSet(RowsBy(asks)) /\ Cardinality(RowsBy(asks)) \in Nat
  <1> DEFINE F == [m \in Messages |-> {Row(m, f) : f \in asks[m]}]
             S == {F[m] : m \in Messages}
  <1>1. IsFiniteSet(Messages)
    BY MessagesAssumption
  <1>2. IsFiniteSet(S)
    <2> HIDE DEF F
    <2>1. QED BY <1>1, ImageFinite
  <1>3. ASSUME NEW m \in Messages
        PROVE  IsFiniteSet(F[m])
    <2> DEFINE G == [f \in asks[m] |-> Row(m, f)]
    <2>1. IsFiniteSet({G[f] : f \in asks[m]})
      <3>1. IsFiniteSet(asks[m])
        BY DEF FiniteAsks
      <3> HIDE DEF G
      <3>2. QED BY <3>1, ImageFinite
    <2>2. {G[f] : f \in asks[m]} = F[m]
      OBVIOUS
    <2>3. QED BY <2>1, <2>2
  <1>4. RowsBy(asks) = UNION S
    BY DEF RowsBy
  <1>5. \A T \in S : IsFiniteSet(T)
    BY <1>3
  <1> HIDE DEF S
  <1>6. IsFiniteSet(UNION S)
    BY <1>2, <1>5, FS_UNION
  <1>7. QED BY <1>4, <1>6, FS_CardinalityType

\* An enumeration of a finite set has every member at one position.
LEMMA Enumerates ==
  ASSUME NEW R, IsFiniteSet(R), NEW seq \in SetToSeqs(R)
  PROVE  /\ seq \in [1..Cardinality(R) -> R] /\ OneToOne(seq, 1..Cardinality(R))
         /\ Reaches(seq, 1..Cardinality(R), R)
  <1> DEFINE D == 1..Cardinality(R)
  <1>1. seq \in [D -> R] /\ \A i, j \in D : i # j => seq[i] # seq[j]
    BY DEF SetToSeqs
  <1>2. OneToOne(seq, D)
    BY <1>1, Zenon DEF OneToOne
  <1>3. IsFiniteSet(D) /\ Cardinality(D) = Cardinality(R)
    <2>1. Cardinality(R) \in Nat
      BY FS_CardinalityType
    <2>2. QED BY <2>1, FS_Interval
  <1> HIDE DEF D
  <1>4. Reaches(seq, D, R)
    BY <1>1, <1>2, <1>3, Onto
  <1>5. QED BY <1>1, <1>2, <1>4 DEF D

\* Rows in the order of their keys: g is the key of every position.
Sorted(order, asks, seq, g, N) ==
  /\ N = Cardinality(RowsBy(asks)) /\ seq \in SetToSeqs(RowsBy(asks))
  /\ g = [i \in 1..N |-> Key(order, seq[i].time)]
  /\ NotDecreasing(g, N)

\* The message of a position.
LEMMA SortedAt ==
  ASSUME NEW asks, FiniteAsks(asks),
         NEW order, NEW seq, NEW g, NEW N, Sorted(order, asks, seq, g, N)
  PROVE  /\ N \in Nat /\ seq \in [1..N -> RowsBy(asks)] /\ g \in [1..N -> Int]
         /\ OneToOne(seq, 1..N) /\ Reaches(seq, 1..N, RowsBy(asks))
         /\ \A i \in 1..N : \E m \in AskedFor(asks) :
              g[i] = Key(order, m.time) /\ \E f \in asks[m] : seq[i] = Row(m, f)
  <1> DEFINE R == RowsBy(asks)
  <1>1. IsFiniteSet(R) /\ N \in Nat
    BY RowsFinite DEF Sorted
  <1>2. seq \in [1..N -> R] /\ OneToOne(seq, 1..N) /\ Reaches(seq, 1..N, R)
    <2>1. seq \in SetToSeqs(R) /\ N = Cardinality(R)
      BY DEF Sorted
    <2> HIDE DEF R
    <2>2. QED BY <1>1, <2>1, Enumerates
  <1>3. ASSUME NEW i \in 1..N
        PROVE  /\ g[i] \in Int
               /\ \E m \in AskedFor(asks) : g[i] = Key(order, m.time) /\ \E f \in asks[m] : seq[i] = Row(m, f)
    <2>1. seq[i] \in R /\ g[i] = Key(order, seq[i].time)
      BY <1>2 DEF Sorted
    <2>2. PICK m \in AskedFor(asks) : \E f \in asks[m] : seq[i] = Row(m, f)
      BY <2>1, RowOf
    <2>3. seq[i].time = m.time /\ m \in Messages
      BY <2>2, RowFields DEF AskedFor
    <2>4. g[i] = Key(order, m.time) /\ Key(order, m.time) \in Int
      BY <2>1, <2>3, Keys
    <2>5. QED BY <2>2, <2>4
  <1>4. g = [i \in 1..N |-> g[i]]
    BY DEF Sorted
  <1>5. g \in [1..N -> Int]
    BY <1>3, <1>4
  <1>6. QED BY <1>1, <1>2, <1>3, <1>5

\* K is the keys of the messages asked for.
KeysOf(K, order, asks) == K = {Key(order, m.time) : m \in AskedFor(asks)}

\* K is the keys of the messages asked for, which have n different ones, and
\* positions for each of their fields.
Counted(order, asks, g, N, K, n) ==
  /\ KeysOf(K, order, asks) /\ n = Cardinality(AskedFor(asks))
  /\ \A m \in AskedFor(asks) :
       Cardinality({i \in 1..N : g[i] = Key(order, m.time)}) = Cardinality(asks[m])

\* The keys of the positions are those of the messages, and there are as many
\* positions of a message as there are fields asked for.
LEMMA SortedCounts ==
  ASSUME TimesDiffer, NEW asks, FiniteAsks(asks),
         NEW order, NEW seq, NEW g, NEW N, Sorted(order, asks, seq, g, N),
         NEW K, Image(K, g, N)
  PROVE  Counted(order, asks, g, N, K, Cardinality(K))
  <1>1. /\ N \in Nat /\ seq \in [1..N -> RowsBy(asks)] /\ g \in [1..N -> Int]
        /\ OneToOne(seq, 1..N) /\ Reaches(seq, 1..N, RowsBy(asks))
    BY SortedAt
  <1>2. \A i \in 1..N : \E m \in AskedFor(asks) :
          g[i] = Key(order, m.time) /\ \E f \in asks[m] : seq[i] = Row(m, f)
    BY SortedAt
  <1>3. \A m \in AskedFor(asks) : m \in Messages /\ asks[m] # {}
    BY DEF AskedFor
  <1>4. \A m, n \in AskedFor(asks) : Key(order, m.time) = Key(order, n.time) => m = n
    BY <1>3, Keys DEF TimesDiffer
  <1>5. ASSUME NEW m \in AskedFor(asks), NEW f \in asks[m]
        PROVE  \E i \in 1..N : seq[i] = Row(m, f) /\ g[i] = Key(order, m.time)
    <2>1. Row(m, f) \in RowsBy(asks)
      BY RowOf
    <2>2. PICK i \in 1..N : seq[i] = Row(m, f)
      BY <1>1, <2>1 DEF Reaches
    <2>3. g[i] = Key(order, seq[i].time) /\ seq[i].time = m.time
      BY <2>2, RowFields DEF Sorted
    <2>4. QED BY <2>2, <2>3
  <1> DEFINE L == {Key(order, m.time) : m \in AskedFor(asks)}
  <1>6. K = L
    BY <1>2, <1>3, <1>5 DEF Image
  <1>7. Cardinality(L) = Cardinality(AskedFor(asks))
    <2> DEFINE A == AskedFor(asks)
               key == [m \in A |-> Key(order, m.time)]
    <2>1. IsFiniteSet(A)
      <3>1. A \subseteq Messages /\ IsFiniteSet(Messages)
        BY MessagesAssumption DEF AskedFor
      <3>2. QED BY <3>1, FS_Subset
    <2>2. key \in [A -> L] /\ Reaches(key, A, L)
      BY DEF Reaches
    <2>3. OneToOne(key, A)
      BY <1>4 DEF OneToOne
    <2> HIDE DEF key, A, L
    <2>4. QED BY <2>1, <2>2, <2>3, SameSize DEF A
  <1>8. ASSUME NEW m \in AskedFor(asks)
        PROVE  Cardinality({i \in 1..N : g[i] = Key(order, m.time)}) = Cardinality(asks[m])
    <2> DEFINE I == {i \in 1..N : g[i] = Key(order, m.time)}
               F == [i \in I |-> seq[i].field]
    <2>1. ASSUME NEW i \in I
          PROVE  seq[i].field \in asks[m] /\ seq[i] = Row(m, seq[i].field)
      <3>1. PICK n \in AskedFor(asks) : g[i] = Key(order, n.time) /\ \E f \in asks[n] : seq[i] = Row(n, f)
        BY <1>2
      <3>2. n = m
        BY <1>4, <3>1
      <3>3. QED BY <3>1, <3>2, RowFields
    <2>2. IsFiniteSet(I)
      <3>1. IsFiniteSet(1..N) /\ I \subseteq 1..N
        BY <1>1, FS_Interval
      <3>2. QED BY <3>1, FS_Subset
    <2>3. \A f \in asks[m] : \E i \in I : seq[i].field = f
      BY <1>5, RowFields
    <2>4. \A i, j \in I : seq[i].field = seq[j].field => i = j
      BY <1>1, <2>1 DEF OneToOne
    <2> HIDE DEF I
    <2>5. F \in [I -> asks[m]] /\ Reaches(F, I, asks[m]) /\ OneToOne(F, I)
      BY <2>1, <2>3, <2>4 DEF Reaches, OneToOne
    <2> HIDE DEF F
    <2>6. Cardinality(asks[m]) = Cardinality(I)
      BY <2>2, <2>5, SameSize
    <2>7. QED BY <2>6 DEF I
  <1>9. QED BY <1>6, <1>7, <1>8, Zenon DEF Counted, KeysOf

-----------------------------------------------------------------------------
(***************************************************************************)
(* What a query for a page selects, before LIMIT and OFFSET                *)
(***************************************************************************)

\* The value of a row or of a message that a kind of page is about, the k-th message
\* that is asked for, and its values.
ValueOf(kind, r) == IF kind = "idents" THEN r.ident ELSE r.time
MessageAt(order, asks, k) ==
  CHOOSE m \in AskedFor(asks) : Key(order, m.time) = Nth({Key(order, n.time) : n \in AskedFor(asks)}, k)
Copies(kind, asks, m) == IF kind = "values" THEN Cardinality(asks[m]) ELSE 1
Pieces(kind, order, asks) ==
  [k \in 1..Cardinality(AskedFor(asks)) |->
     [i \in 1..Copies(kind, asks, MessageAt(order, asks, k)) |-> ValueOf(kind, MessageAt(order, asks, k))]]

\* The values of rows, all or distinct.
AllValues(kind, seq, N) == [i \in 1..N |-> ValueOf(kind, seq[i])]
Result(kind, seq, N) ==
  IF kind = "values" THEN AllValues(kind, seq, N) ELSE Distinct(AllValues(kind, seq, N))

\* The k-th message has the k-th key.
HasKey(order, asks, K, k) ==
  /\ MessageAt(order, asks, k) \in AskedFor(asks)
  /\ Key(order, MessageAt(order, asks, k).time) = Nth(K, k)

\* So it is when K is the keys.
LEMMA MessageNth ==
  ASSUME NEW asks, NEW order, NEW K, KeysOf(K, order, asks), IsFiniteSet(K), NEW k \in 1..Cardinality(K)
  PROVE  HasKey(order, asks, K, k)
  <1>a. K = {Key(order, m.time) : m \in AskedFor(asks)}
    BY DEF KeysOf
  <1>1. \A m \in AskedFor(asks) : Key(order, m.time) \in Int
    BY Keys DEF AskedFor
  <1>2. K \subseteq Int
    BY <1>a, <1>1
  <1>3. Nth(K, k) \in K
    BY <1>2, NthOf
  <1>4. \E m \in AskedFor(asks) : Key(order, m.time) = Nth(K, k)
    BY <1>a, <1>3
  <1>5. MessageAt(order, asks, k) = CHOOSE m \in AskedFor(asks) : Key(order, m.time) = Nth(K, k)
    BY <1>a, Zenon DEF MessageAt
  <1>6. QED BY <1>4, <1>5, Zenon DEF HasKey

\* Messages and positions of the same key have the same value, different keys have
\* different values, and the values of positions are values of messages.
SameValues(kind, order, asks, seq, g, N) ==
  /\ \A i \in 1..N : \A m \in AskedFor(asks) :
       g[i] = Key(order, m.time) => ValueOf(kind, seq[i]) = ValueOf(kind, m)
  /\ \A i \in 1..N : \A j \in 1..N : (ValueOf(kind, seq[i]) = ValueOf(kind, seq[j])) <=> (g[i] = g[j])
  /\ \A i \in 1..N : ValueOf(kind, seq[i]) \in {ValueOf(kind, m) : m \in AskedFor(asks)}

\* So it is for rows in order.
LEMMA ValuesOfKeys ==
  ASSUME TimesDiffer, NEW asks, FiniteAsks(asks),
         NEW order, NEW seq, NEW g, NEW N, Sorted(order, asks, seq, g, N), NEW kind
  PROVE  SameValues(kind, order, asks, seq, g, N)
  <1>1. \A m \in AskedFor(asks) : m \in Messages
    BY DEF AskedFor
  <1>2. \A m, n \in AskedFor(asks) : Key(order, m.time) = Key(order, n.time) => m = n
    BY <1>1, Keys DEF TimesDiffer
  <1>3. \A m, n \in AskedFor(asks) : m # n => m.ident # n.ident /\ m.time # n.time
    BY <1>1, MessagesAssumption DEF TimesDiffer
  <1>4. ASSUME NEW i \in 1..N
        PROVE  \E m \in AskedFor(asks) : /\ g[i] = Key(order, m.time)
                                         /\ ValueOf(kind, seq[i]) = ValueOf(kind, m)
    <2>1. PICK m \in AskedFor(asks) : g[i] = Key(order, m.time) /\ \E f \in asks[m] : seq[i] = Row(m, f)
      BY SortedAt
    <2>2. seq[i].ident = m.ident /\ seq[i].time = m.time
      BY <2>1, RowFields
    <2>3. ValueOf(kind, seq[i]) = ValueOf(kind, m)
      BY <2>2 DEF ValueOf
    <2>4. QED BY <2>1, <2>3
  <1>5. \A m, n \in AskedFor(asks) : ValueOf(kind, m) = ValueOf(kind, n) => m = n
    BY <1>3 DEF ValueOf
  <1>6. ASSUME NEW i \in 1..N, NEW m \in AskedFor(asks), g[i] = Key(order, m.time)
        PROVE  ValueOf(kind, seq[i]) = ValueOf(kind, m)
    BY <1>2, <1>4, <1>6
  <1>7. ASSUME NEW i \in 1..N, NEW j \in 1..N
        PROVE  (ValueOf(kind, seq[i]) = ValueOf(kind, seq[j])) <=> (g[i] = g[j])
    <2>1. PICK m \in AskedFor(asks) : g[i] = Key(order, m.time) /\ ValueOf(kind, seq[i]) = ValueOf(kind, m)
      BY <1>4
    <2>2. PICK n \in AskedFor(asks) : g[j] = Key(order, n.time) /\ ValueOf(kind, seq[j]) = ValueOf(kind, n)
      BY <1>4
    <2>3. CASE m = n
      BY <2>1, <2>2, <2>3
    <2>4. CASE m # n
      <3>1. ValueOf(kind, m) # ValueOf(kind, n) /\ Key(order, m.time) # Key(order, n.time)
        BY <1>2, <1>5, <2>4
      <3>2. QED BY <2>1, <2>2, <3>1
    <2>5. QED BY <2>3, <2>4
  <1>8. \A i \in 1..N : ValueOf(kind, seq[i]) \in {ValueOf(kind, m) : m \in AskedFor(asks)}
    BY <1>4
  <1>9. QED BY <1>6, <1>7, <1>8, Zenon DEF SameValues

\* The sequences of one value.
LEMMA Repeated ==
  ASSUME NEW V, NEW c \in Nat, NEW x \in V
  PROVE  /\ [i \in 1..c |-> x] \in Seq(V) /\ Len([i \in 1..c |-> x]) = c
         /\ \A q \in 1..c : [i \in 1..c |-> x][q] = x
  OBVIOUS

\* s has as many copies of its value as it should for every message.
Filled(s, kind, order, asks, n, V) ==
  /\ s \in [1..n -> Seq(V)]
  /\ \A k \in 1..n : LET m == MessageAt(order, asks, k) IN
       Len(s[k]) = Copies(kind, asks, m) /\ \A q \in 1..Len(s[k]) : s[k][q] = ValueOf(kind, m)

\* The values of every message that is asked for.
LEMMA PiecesAt ==
  ASSUME NEW asks, FiniteAsks(asks), NEW order, NEW kind, NEW K, KeysOf(K, order, asks), IsFiniteSet(K),
         NEW n, n = Cardinality(K), n = Cardinality(AskedFor(asks)),
         NEW V, V = {ValueOf(kind, m) : m \in AskedFor(asks)}
  PROVE  Filled(Pieces(kind, order, asks), kind, order, asks, n, V)
  <1> DEFINE s == Pieces(kind, order, asks)
  <1>1. ASSUME NEW k \in 1..n
        PROVE  LET m == MessageAt(order, asks, k) IN
               /\ s[k] = [i \in 1..Copies(kind, asks, m) |-> ValueOf(kind, m)]
               /\ Copies(kind, asks, m) \in Nat /\ ValueOf(kind, m) \in V
    <2> DEFINE m == MessageAt(order, asks, k)
    <2>1. s[k] = [i \in 1..Copies(kind, asks, m) |-> ValueOf(kind, m)]
      BY Zenon DEF Pieces
    <2>2. m \in AskedFor(asks)
      BY MessageNth DEF HasKey
    <2> HIDE DEF m, s
    <2>3. Copies(kind, asks, m) \in Nat
      <3>1. IsFiniteSet(asks[m])
        BY <2>2 DEF AskedFor, FiniteAsks
      <3>2. Cardinality(asks[m]) \in Nat
        BY <3>1, FS_CardinalityType
      <3>3. QED BY <3>2 DEF Copies
    <2>4. ValueOf(kind, m) \in V
      BY <2>2
    <2>5. QED BY <2>1, <2>3, <2>4 DEF m
  <1>2. ASSUME NEW k \in 1..n
        PROVE  LET m == MessageAt(order, asks, k) IN
               /\ s[k] \in Seq(V) /\ Len(s[k]) = Copies(kind, asks, m)
               /\ \A q \in 1..Len(s[k]) : s[k][q] = ValueOf(kind, m)
    <2> DEFINE m == MessageAt(order, asks, k)
               c == Copies(kind, asks, m)
               x == ValueOf(kind, m)
    <2>1. s[k] = [i \in 1..c |-> x] /\ c \in Nat /\ x \in V
      BY <1>1
    <2> HIDE DEF s, c, x
    <2>2. s[k] \in Seq(V) /\ Len(s[k]) = c /\ \A q \in 1..c : s[k][q] = x
      BY <2>1, Repeated
    <2>3. QED BY <2>2 DEF c, x
  <1>3. s = [k \in 1..n |-> s[k]]
    BY DEF Pieces
  <1> HIDE DEF s
  <1>4. s \in [1..n -> Seq(V)]
    BY <1>2, <1>3
  <1>5. Filled(s, kind, order, asks, n, V)
    BY <1>2, <1>4, Zenon DEF Filled
  <1>6. QED BY <1>5 DEF s

\* A query for all values gives those of the messages asked for, in order.
LEMMA AllValuesMeant ==
  ASSUME TimesDiffer, NEW asks, FiniteAsks(asks),
         NEW order, NEW seq, NEW g, NEW N, Sorted(order, asks, seq, g, N), NEW kind, kind = "values",
         NEW K, Image(K, g, N), NEW n, n = Cardinality(K),
         NEW V, V = {ValueOf(kind, m) : m \in AskedFor(asks)},
         NEW s, s = Pieces(kind, order, asks), NEW w, w = AllValues(kind, seq, N)
  PROVE  FlattenSeq(s) = w
  <1>1. N \in Nat /\ g \in [1..N -> Int]
    BY SortedAt
  <1>2. NotDecreasing(g, N)
    BY DEF Sorted
  <1>3. Counted(order, asks, g, N, K, n)
    BY SortedCounts
  <1>4. IsFiniteSet(K)
    BY <1>1, NumbersFinite
  <1>5. KeysOf(K, order, asks) /\ n = Cardinality(AskedFor(asks))
    BY <1>3, Zenon DEF Counted
  <1>6. Filled(s, kind, order, asks, n, V)
    BY <1>4, <1>5, PiecesAt, Zenon
  <1>7. \A k \in 1..n : HasKey(order, asks, K, k)
    BY <1>4, <1>5, MessageNth
  <1>a. SameValues(kind, order, asks, seq, g, N)
    BY ValuesOfKeys, Zenon
  <1>8. /\ \A i \in 1..N : \A m \in AskedFor(asks) :
             g[i] = Key(order, m.time) => ValueOf(kind, seq[i]) = ValueOf(kind, m)
        /\ \A i \in 1..N : ValueOf(kind, seq[i]) \in V
    BY <1>a, Zenon DEF SameValues
  <1>9. w \in Seq(V) /\ Len(w) = N /\ \A i \in 1..N : w[i] = ValueOf(kind, seq[i])
    BY <1>1, <1>8 DEF AllValues
  <1>b. ASSUME NEW k \in 1..n
        PROVE  Fits(s[k], {i \in 1..N : g[i] = Nth(K, k)}, w)
    <2> DEFINE m == MessageAt(order, asks, k)
    <2>1. m \in AskedFor(asks) /\ Key(order, m.time) = Nth(K, k)
      BY <1>7, Zenon DEF HasKey
    <2>2. Len(s[k]) = Cardinality(asks[m]) /\ \A q \in 1..Len(s[k]) : s[k][q] = ValueOf(kind, m)
      BY <1>6, Zenon DEF Filled, Copies
    <2> HIDE DEF m
    <2>3. Cardinality({i \in 1..N : g[i] = Key(order, m.time)}) = Cardinality(asks[m])
      BY <1>3, <2>1, Zenon DEF Counted
    <2>4. Len(s[k]) = Cardinality({i \in 1..N : g[i] = Nth(K, k)})
      BY <2>1, <2>2, <2>3, Zenon
    <2>5. \A i \in 1..N : g[i] = Nth(K, k) => \A q \in 1..Len(s[k]) : s[k][q] = w[i]
      BY <1>8, <1>9, <2>1, <2>2
    <2>6. QED BY <2>4, <2>5, Zenon DEF Fits
  <1>10. AllFit(s, g, N, K, n, w)
    BY <1>b, Zenon DEF AllFit
  <1>11. s \in [1..n -> Seq(V)]
    BY <1>6, Zenon DEF Filled
  <1>12. QED BY <1>1, <1>2, <1>9, <1>10, <1>11, FlattenSorted

\* h is the first n members of a set, w the members of u that are at the first n positions.
Picks(h, K, n) == h = [k \in 1..n |-> Nth(K, k)]
Picked(w, u, first, n) == w = [k \in 1..n |-> u[Nth(first, k)]]

\* A query for distinct values gives the one of every message asked for, in order.
LEMMA DistinctMeant ==
  ASSUME TimesDiffer, NEW asks, FiniteAsks(asks),
         NEW order, NEW seq, NEW g, NEW N, Sorted(order, asks, seq, g, N), NEW kind, kind # "values",
         NEW K, Image(K, g, N), NEW n, n = Cardinality(K),
         NEW V, V = {ValueOf(kind, m) : m \in AskedFor(asks)},
         NEW s, s = Pieces(kind, order, asks), NEW u, u = AllValues(kind, seq, N),
         NEW first, FirstOnes(first, g, N),
         NEW w, Picked(w, u, first, n), NEW h, Picks(h, K, n)
  PROVE  FlattenSeq(s) = Distinct(u)
  <1>1. N \in Nat /\ g \in [1..N -> Int]
    BY SortedAt
  <1>2. NotDecreasing(g, N)
    BY DEF Sorted
  <1>3. Counted(order, asks, g, N, K, n)
    BY SortedCounts
  <1>4. IsFiniteSet(K) /\ K \subseteq Int /\ n \in Nat
    BY <1>1, NumbersFinite
  <1>5. KeysOf(K, order, asks) /\ n = Cardinality(AskedFor(asks))
    BY <1>3, Zenon DEF Counted
  <1>6. Filled(s, kind, order, asks, n, V)
    BY <1>4, <1>5, PiecesAt, Zenon
  <1>7. \A k \in 1..n : HasKey(order, asks, K, k)
    BY <1>4, <1>5, MessageNth
  <1>8. FirstAt(first, g, K, N)
    BY <1>1, <1>2, FirstOfEach, Zenon
  <1>9. Cardinality(first) = n /\ \A k \in 1..n : Nth(first, k) \in 1..N /\ g[Nth(first, k)] = Nth(K, k)
    BY <1>8, Zenon DEF FirstAt
  <1>a. SameValues(kind, order, asks, seq, g, N)
    BY ValuesOfKeys, Zenon
  <1>10. /\ \A i \in 1..N : \A m \in AskedFor(asks) :
              g[i] = Key(order, m.time) => ValueOf(kind, seq[i]) = ValueOf(kind, m)
         /\ \A i \in 1..N : \A j \in 1..N : (ValueOf(kind, seq[i]) = ValueOf(kind, seq[j])) <=> (g[i] = g[j])
         /\ \A i \in 1..N : ValueOf(kind, seq[i]) \in V
    BY <1>a, Zenon DEF SameValues
  <1>11. DOMAIN u = 1..N /\ \A i \in 1..N : u[i] = ValueOf(kind, seq[i])
    BY DEF AllValues
  <1>12. Distinct(u) = w
    <2>1. \A i \in 1..N : \A j \in 1..i - 1 : j \in 1..N
      BY <1>1
    <2>2. ASSUME NEW i \in 1..N
          PROVE  (\A j \in 1..i - 1 : u[j] # u[i]) <=> (\A j \in 1..i - 1 : g[j] # g[i])
      <3>1. ASSUME NEW j \in 1..i - 1
            PROVE  (u[j] = u[i]) <=> (g[j] = g[i])
        <4>1. j \in 1..N
          BY <2>1, Zenon
        <4>2. (ValueOf(kind, seq[j]) = ValueOf(kind, seq[i])) <=> (g[j] = g[i])
          BY <1>10, <4>1, Zenon
        <4>3. u[j] = ValueOf(kind, seq[j]) /\ u[i] = ValueOf(kind, seq[i])
          BY <1>11, <4>1, Zenon
        <4>4. QED BY <4>2, <4>3, Zenon
      <3>2. QED BY <3>1, Zenon
    <2>3. {i \in DOMAIN u : \A j \in 1..i - 1 : u[j] # u[i]} = first
      BY <1>11, <2>2, Zenon DEF FirstOnes
    <2>4. Distinct(u) = [k \in 1..Cardinality(first) |-> u[Nth(first, k)]]
      BY <2>3, Zenon DEF Distinct
    <2>5. QED BY <1>9, <2>4, Zenon DEF Picked
  <1>13. \A k \in 1..n : u[Nth(first, k)] = ValueOf(kind, MessageAt(order, asks, k)) /\ u[Nth(first, k)] \in V
    <2>1. SUFFICES ASSUME NEW k \in 1..n
                   PROVE  /\ u[Nth(first, k)] = ValueOf(kind, MessageAt(order, asks, k))
                          /\ u[Nth(first, k)] \in V
      BY Zenon
    <2> DEFINE i == Nth(first, k)
               m == MessageAt(order, asks, k)
    <2>2. i \in 1..N /\ g[i] = Nth(K, k)
      BY <1>9, Zenon
    <2>3. m \in AskedFor(asks) /\ Key(order, m.time) = Nth(K, k)
      BY <1>7, Zenon DEF HasKey
    <2> HIDE DEF i, m
    <2>4. u[i] = ValueOf(kind, seq[i]) /\ ValueOf(kind, seq[i]) = ValueOf(kind, m) /\ ValueOf(kind, seq[i]) \in V
      BY <1>10, <1>11, <2>2, <2>3, Zenon
    <2>5. QED BY <2>4, Zenon DEF i, m
  <1>14. w \in Seq(V) /\ Len(w) = n /\ \A k \in 1..n : w[k] = ValueOf(kind, MessageAt(order, asks, k))
    BY <1>4, <1>13 DEF Picked
  <1>15. \A j, k \in 1..n : (j < k <=> Nth(K, j) < Nth(K, k)) /\ (Nth(K, j) = Nth(K, k) => j = k)
    BY <1>4, NthGrows
  <1>16. \A k \in 1..n : Nth(K, k) \in K /\ Nth(K, k) \in Int
    BY <1>4, NthOf, Zenon
  <1>17. h \in [1..n -> Int] /\ \A i \in 1..n : h[i] = Nth(K, i)
    BY <1>16 DEF Picks
  <1>18. NotDecreasing(h, n)
    <2>1. ASSUME NEW i \in 1..n, NEW j \in 1..n, i < j
          PROVE  h[i] <= h[j]
      <3>1. h[i] < h[j] /\ h[i] \in Int /\ h[j] \in Int
        <4>1. h[i] = Nth(K, i) /\ h[j] = Nth(K, j) /\ Nth(K, i) \in Int /\ Nth(K, j) \in Int
          BY <1>16, <1>17, Zenon
        <4>2. Nth(K, i) < Nth(K, j)
          BY <1>15, <2>1, Zenon
        <4>3. QED BY <4>1, <4>2, Zenon
      <3>2. QED BY <3>1
    <2>2. QED BY <2>1, Zenon DEF NotDecreasing
  <1>19. Image(K, h, n)
    <2>1. ASSUME NEW x \in K
          PROVE  \E k \in 1..n : h[k] = x
      <3> DEFINE k == Cardinality(UpTo(K, x))
      <3>1. k \in 1..n /\ Nth(K, k) = x
        BY <1>4, NthOf, Ranks, Zenon
      <3> HIDE DEF k
      <3>2. QED BY <1>17, <3>1
    <2>2. \A k \in 1..n : h[k] \in K
      BY <1>16, <1>17, Zenon
    <2>3. QED BY <2>1, <2>2 DEF Image
  <1>b. ASSUME NEW k \in 1..n
        PROVE  Fits(s[k], {i \in 1..n : h[i] = Nth(K, k)}, w)
    <2>1. \A i \in 1..n : h[i] = Nth(K, k) <=> i = k
      BY <1>15, <1>17, Zenon
    <2>2. {i \in 1..n : h[i] = Nth(K, k)} = {k}
      BY <2>1
    <2>3. Len(s[k]) = 1 /\ \A q \in 1..Len(s[k]) : s[k][q] = w[k]
      BY <1>6, <1>14, Zenon DEF Filled, Copies
    <2>4. Cardinality({k}) = 1
      BY FS_Singleton
    <2>5. Fits(s[k], {k}, w)
      BY <2>3, <2>4 DEF Fits
    <2>6. QED BY <2>2, <2>5, Zenon
  <1>20. AllFit(s, h, n, K, n, w)
    BY <1>b, Zenon DEF AllFit
  <1>21. s \in [1..n -> Seq(V)]
    BY <1>6, Zenon DEF Filled
  <1>22. FlattenSeq(s) = w
    <2>1. n \in Nat /\ h \in [1..n -> Int] /\ w \in Seq(V) /\ Len(w) = n
      BY <1>4, <1>14, <1>17, Zenon
    <2>2. QED BY <1>18, <1>19, <1>20, <1>21, <2>1, FlattenSorted
  <1>23. QED BY <1>12, <1>22

\* The names of DistinctMeant.
Named(kind, order, asks, seq, g, N, K, n, V, s, u, first, w, h) ==
  /\ Image(K, g, N) /\ n = Cardinality(K) /\ V = {ValueOf(kind, m) : m \in AskedFor(asks)}
  /\ s = Pieces(kind, order, asks) /\ u = AllValues(kind, seq, N)
  /\ FirstOnes(first, g, N) /\ Picked(w, u, first, n) /\ Picks(h, K, n)

\* DistinctMeant, whatever they are.
LEMMA DistinctNamed ==
  ASSUME TimesDiffer, NEW asks, FiniteAsks(asks),
         NEW order, NEW seq, NEW g, NEW N, Sorted(order, asks, seq, g, N), NEW kind, kind # "values",
         NEW K, NEW n, NEW V, NEW s, NEW u, NEW first, NEW w, NEW h,
         Named(kind, order, asks, seq, g, N, K, n, V, s, u, first, w, h)
  PROVE  FlattenSeq(s) = Distinct(u)
  <1>1. /\ Image(K, g, N) /\ n = Cardinality(K) /\ V = {ValueOf(kind, m) : m \in AskedFor(asks)}
        /\ s = Pieces(kind, order, asks) /\ u = AllValues(kind, seq, N)
        /\ FirstOnes(first, g, N) /\ Picked(w, u, first, n) /\ Picks(h, K, n)
    BY DEF Named
  <1>2. QED BY <1>1, DistinctMeant

\* The values of the rows in order, all or distinct, are those meant.
LEMMA ResultMeant ==
  ASSUME TimesDiffer, NEW asks, FiniteAsks(asks),
         NEW order, NEW seq, NEW g, NEW N, Sorted(order, asks, seq, g, N), NEW kind
  PROVE  Result(kind, seq, N) = FlattenSeq(Pieces(kind, order, asks))
  <1>1. PICK K : Image(K, g, N)
    BY DEF Image
  <1>2. PICK n : n = Cardinality(K)
    OBVIOUS
  <1>3. PICK V : V = {ValueOf(kind, m) : m \in AskedFor(asks)}
    OBVIOUS
  <1>4. PICK s : s = Pieces(kind, order, asks)
    OBVIOUS
  <1>5. PICK u : u = AllValues(kind, seq, N)
    OBVIOUS
  <1>6. CASE kind = "values"
    <2>1. FlattenSeq(s) = u
      BY <1>1, <1>2, <1>3, <1>4, <1>5, <1>6, AllValuesMeant
    <2>2. QED BY <1>4, <1>5, <1>6, <2>1, Zenon DEF Result
  <1>7. CASE kind # "values"
    <2>1. PICK first : FirstOnes(first, g, N)
      BY DEF FirstOnes
    <2>2. PICK w : Picked(w, u, first, n)
      BY DEF Picked
    <2>3. PICK h : Picks(h, K, n)
      BY DEF Picks
    <2>4. FlattenSeq(s) = Distinct(u)
      <3>1. Named(kind, order, asks, seq, g, N, K, n, V, s, u, first, w, h)
        BY <1>1, <1>2, <1>3, <1>4, <1>5, <2>1, <2>2, <2>3, Zenon DEF Named
      <3>2. QED BY <1>7, <3>1, DistinctNamed
    <2>5. QED BY <1>4, <1>5, <1>7, <2>4, Zenon DEF Result
  <1>8. QED BY <1>6, <1>7, Zenon

\* Every message asked for has a key of its own.
LEMMA KeysCount ==
  ASSUME TimesDiffer, NEW asks, NEW order, NEW K, KeysOf(K, order, asks)
  PROVE  IsFiniteSet(K) /\ Cardinality(K) = Cardinality(AskedFor(asks)) /\ Cardinality(K) \in Nat
  <1> DEFINE A == AskedFor(asks)
             key == [m \in A |-> Key(order, m.time)]
  <1>1. A \subseteq Messages /\ IsFiniteSet(Messages)
    BY MessagesAssumption DEF AskedFor
  <1>2. IsFiniteSet(A)
    BY <1>1, FS_Subset
  <1>3. key \in [A -> K] /\ Reaches(key, A, K)
    BY DEF Reaches, KeysOf
  <1>4. \A m, n \in A : Key(order, m.time) = Key(order, n.time) => m = n
    BY <1>1, Keys DEF TimesDiffer
  <1>5. OneToOne(key, A)
    BY <1>4 DEF OneToOne
  <1> HIDE DEF key, A
  <1>6. IsFiniteSet(K) /\ Cardinality(K) = Cardinality(A)
    BY <1>2, <1>3, <1>5, SameSize
  <1>7. QED BY <1>6, FS_CardinalityType DEF A

\* asks gives the fields of every message that a criterion asks for.
AsksFor(asks, op, v) == asks = [m \in Messages |-> Asked(op, v, m)]

\* They are finitely many.
LEMMA AsksFinite ==
  ASSUME NEW asks, NEW op, NEW v, AsksFor(asks, op, v)
  PROVE  FiniteAsks(asks)
  <1>1. ASSUME NEW m \in Messages
        PROVE  IsFiniteSet(asks[m])
    <2>1. asks[m] \subseteq m.fields
      BY DEF AsksFor, Asked
    <2>2. IsFiniteSet(m.fields)
      BY MessagesAssumption
    <2>3. QED BY <2>1, <2>2, FS_Subset
  <1>2. QED BY <1>1, Zenon DEF FiniteAsks

\* What the client means is a sequence, of the values of every message.
MeansPieces(kind, op, v, order, asks) ==
  /\ Meant(kind, op, v, order) = FlattenSeq(Pieces(kind, order, asks))
  /\ Meant(kind, op, v, order) \in Seq({ValueOf(kind, m) : m \in AskedFor(asks)})

\* So it is with the fields asked for.
LEMMA MeantIs ==
  ASSUME TimesDiffer, NEW kind, NEW op, NEW v, NEW order, NEW asks, AsksFor(asks, op, v)
  PROVE  MeansPieces(kind, op, v, order, asks)
  <1>1. PICK K : KeysOf(K, order, asks)
    BY DEF KeysOf
  <1>2. PICK n : n = Cardinality(AskedFor(asks))
    OBVIOUS
  <1>3. PICK V : V = {ValueOf(kind, m) : m \in AskedFor(asks)}
    OBVIOUS
  <1>4. IsFiniteSet(K) /\ n = Cardinality(K) /\ n \in Nat
    BY <1>1, <1>2, KeysCount
  <1>5. FiniteAsks(asks)
    BY AsksFinite
  <1> DEFINE s == Pieces(kind, order, asks)
             t == [k \in 1..n |->
                     [i \in 1..(IF kind = "values" THEN Cardinality(Asked(op, v, MessageAt(order, asks, k))) ELSE 1) |->
                        ValueOf(kind, MessageAt(order, asks, k))]]
  <1>6. Filled(s, kind, order, asks, n, V)
    BY <1>1, <1>2, <1>3, <1>4, <1>5, PiecesAt
  <1>7. s \in [1..n -> Seq(V)]
    BY <1>6, Zenon DEF Filled
  <1>8. FlattenSeq(s) \in Seq(V)
    <2> HIDE DEF s
    <2>1. QED BY <1>4, <1>7, FlattenAt
  <1>9. \A m \in Messages : asks[m] = Asked(op, v, m)
    BY DEF AsksFor
  <1>10. AskedFor(asks) = {m \in Messages : Asked(op, v, m) # {}}
    BY <1>9, Zenon DEF AskedFor
  <1>11. ASSUME NEW k \in 1..n
         PROVE  Copies(kind, asks, MessageAt(order, asks, k)) =
                  IF kind = "values" THEN Cardinality(Asked(op, v, MessageAt(order, asks, k))) ELSE 1
    <2>1. HasKey(order, asks, K, k)
      BY <1>1, <1>4, MessageNth
    <2>2. MessageAt(order, asks, k) \in Messages
      BY <2>1, <1>10, Zenon DEF HasKey
    <2>3. QED BY <1>9, <2>2, Zenon DEF Copies
  <1>12. t = s
    BY <1>2, <1>11, Zenon DEF Pieces
  <1>13. Meant(kind, op, v, order) = FlattenSeq(t)
    <2> DEFINE A == {m \in Messages : Asked(op, v, m) # {}}
               At(k) == CHOOSE m \in A : Key(order, m.time) = Nth({Key(order, l.time) : l \in A}, k)
    <2>1. Meant(kind, op, v, order) =
            FlattenSeq([k \in 1..Cardinality(A) |->
                          [i \in 1..(IF kind = "values" THEN Cardinality(Asked(op, v, At(k))) ELSE 1) |->
                             IF kind = "idents" THEN At(k).ident ELSE At(k).time]])
      BY Zenon DEF Meant
    <2>2. \A k : MessageAt(order, asks, k) = At(k)
      BY <1>10, Zenon DEF MessageAt
    <2>3. Cardinality(A) = n
      BY <1>2, <1>10, Zenon
    <2> HIDE DEF A, At
    <2>4. \A k : (IF kind = "idents" THEN At(k).ident ELSE At(k).time) = ValueOf(kind, MessageAt(order, asks, k))
      BY <2>2, Zenon DEF ValueOf
    <2>5. \A k : (IF kind = "values" THEN Cardinality(Asked(op, v, At(k))) ELSE 1) =
                 (IF kind = "values" THEN Cardinality(Asked(op, v, MessageAt(order, asks, k))) ELSE 1)
      BY <2>2, Zenon
    <2>6. [k \in 1..Cardinality(A) |->
             [i \in 1..(IF kind = "values" THEN Cardinality(Asked(op, v, At(k))) ELSE 1) |->
                IF kind = "idents" THEN At(k).ident ELSE At(k).time]] = t
      BY <2>3, <2>4, <2>5
    <2>7. QED BY <2>1, <2>6, Zenon
  <1>14. QED BY <1>3, <1>8, <1>12, <1>13, Zenon DEF MeansPieces

-----------------------------------------------------------------------------
(***************************************************************************)
(* The pages of a client                                                   *)
(***************************************************************************)

PageOperators == {"EQUAL", "NOT_EQUAL_NOCASE"}
PageKinds == {"idents", "values", "distinct"}
TextCriterion(op, v) == build_criterion_string(backend, op, [type |-> "text", v |-> v])[1]

\* The criterion of a page keeps the rows it means.
LEMMA JoinedRows ==
  ASSUME backend \in Backend, NEW op \in PageOperators, NEW v, NEW asks, AsksFor(asks, op, v)
  PROVE  Joined(TextCriterion(op, v)) = RowsBy(asks)
  <1> DEFINE val == [type |-> "text", v |-> v]
             cond == TextCriterion(op, v)
  <1>1. ASSUME NEW x
        PROVE  Selects(backend, cond, <<x>>) <=> Means(op, val, <<x>>)
    <2>1. Askable(op, val)
      BY DEF Askable, PageOperators, EqualOperators
    <2>2. val.type = "text" /\ op \notin {"NOT_REGEX", "NOT_REGEX_NOCASE"}
      BY DEF PageOperators
    <2>3. \E y : <<x>> = <<y>> /\ (val.type = "broken down" => y \in Moments)
      BY <2>2
    <2> HIDE DEF val
    <2>4. Selects(backend, build_criterion_string(backend, op, val)[1], <<x>>) <=> Means(op, val, <<x>>)
      BY <2>1, <2>2, <2>3, CriterionMeans
    <2>5. QED BY <2>4 DEF val, TextCriterion
  <1>2. ASSUME NEW m \in Messages
        PROVE  {[ident |-> m.ident, time |-> m.time, field |-> f] :
                  f \in {x \in m.fields : Selects(backend, cond, <<x>>)}} = {Row(m, f) : f \in asks[m]}
    <2> HIDE DEF cond
    <2>1. {x \in m.fields : Selects(backend, cond, <<x>>)} = asks[m]
      BY <1>1, Zenon DEF AsksFor, Asked
    <2>2. QED BY <2>1, Zenon DEF Row
  <1> HIDE DEF cond
  <1>3. Joined(cond) = RowsBy(asks)
    BY <1>2 DEF Joined, RowsBy
  <1>4. QED BY <1>3 DEF cond

\* Rows in an order the server may return them in are in the order of their keys.
LEMMA OrderedSorted ==
  ASSUME NEW asks, FiniteAsks(asks), NEW order, order # "none",
         NEW seq \in Ordered(RowsBy(asks), order)
  PROVE  \E g, N : Sorted(order, asks, seq, g, N) /\ DOMAIN seq = 1..N
  <1>1. PICK N : N = Cardinality(RowsBy(asks))
    OBVIOUS
  <1>2. PICK g : g = [i \in 1..N |-> Key(order, seq[i].time)]
    OBVIOUS
  <1>3. seq \in SetToSeqs(RowsBy(asks)) /\ DOMAIN seq = 1..N
    BY <1>1 DEF Ordered, SetToSeqs
  <1>4. \A i, j \in 1..N : i < j => Key(order, seq[i].time) <= Key(order, seq[j].time)
    BY <1>3, Zenon DEF Ordered
  <1>5. NotDecreasing(g, N)
    BY <1>2, <1>4 DEF NotDecreasing
  <1>6. QED BY <1>1, <1>2, <1>3, <1>5, Zenon DEF Sorted

\* LIMIT and OFFSET, as every plugin writes them, keep the rows after the offset, up
\* to the limit or to the last one.
Page(all, limit, off) ==
  SubSeq(all, off + 1, IF limit = All \/ off + limit > Len(all) THEN Len(all) ELSE off + limit)

\* Every plugin means the same.
LEMMA Windowed ==
  ASSUME NEW b \in Backend, NEW limit \in Int, limit >= -1, NEW off \in Nat, NEW all
  PROVE  Window(build_limit_offset_string(b, limit, off), all) = Page(all, limit, off)
  <1> DEFINE clause == build_limit_offset_string(b, limit, off)
  <1>1. off >= 0 /\ (limit >= 0 \/ limit = All)
    BY DEF All
  <1>2. \/ clause = Clause("a, b", off, limit)
        \/ clause = Clause("a OFFSET b", limit, off)
    <2>1. CASE b = "mysql"
      <3>1. clause = mysql_limit_offset(limit, off)
        BY <2>1, Zenon DEF build_limit_offset_string
      <3>2. QED BY <1>1, <3>1 DEF mysql_limit_offset
    <2>2. CASE b = "pgsql"
      <3>1. clause = pgsql_limit_offset(limit, off)
        BY <2>2, Zenon DEF build_limit_offset_string
      <3>2. QED BY <1>1, <3>1 DEF pgsql_limit_offset
    <2>3. CASE b = "sqlite3"
      <3>1. clause = sqlite3_limit_offset(limit, off)
        BY <2>3, Zenon DEF build_limit_offset_string
      <3>2. QED BY <1>1, <3>1 DEF sqlite3_limit_offset
    <2>4. QED BY <2>1, <2>2, <2>3 DEF Backend
  <1> HIDE DEF clause
  <1>3. CASE clause = Clause("a, b", off, limit)
    <2>1. clause.form = "a, b" /\ clause.a = off /\ clause.b = limit
      BY <1>3 DEF Clause
    <2>2. QED BY <2>1, Zenon DEF Window, Page, clause
  <1>4. CASE clause = Clause("a OFFSET b", limit, off)
    <2>1. clause.form = "a OFFSET b" /\ clause.b = off /\ clause.a = limit
      BY <1>4 DEF Clause
    <2>2. QED BY <2>1, Zenon DEF Window, Page, clause
  <1>5. QED BY <1>2, <1>3, <1>4, Zenon

\* What the queries for a page may return.
PageResults(kind, op, v, order, limit, off) ==
  IF kind = "idents" THEN get_message_idents(TextCriterion(op, v), order, limit, off)
  ELSE get_values(TextCriterion(op, v), kind = "distinct", order, limit, off)

\* It is that page of what the client means.
LEMMA PageMeant ==
  ASSUME TimesDiffer, backend \in Backend, NEW op \in PageOperators, NEW v, NEW order, order # "none",
         NEW kind \in PageKinds, NEW limit \in Int, limit >= -1, NEW off \in Nat,
         NEW page \in PageResults(kind, op, v, order, limit, off)
  PROVE  page = Page(Meant(kind, op, v, order), limit, off)
  <1>1. PICK asks : AsksFor(asks, op, v)
    BY DEF AsksFor
  <1>2. FiniteAsks(asks)
    BY <1>1, AsksFinite
  <1>3. Joined(TextCriterion(op, v)) = RowsBy(asks)
    BY <1>1, JoinedRows
  <1>4. Meant(kind, op, v, order) = FlattenSeq(Pieces(kind, order, asks))
    <2>1. MeansPieces(kind, op, v, order, asks)
      BY <1>1, MeantIs
    <2>2. QED BY <2>1, Zenon DEF MeansPieces
  <1> DEFINE clause == build_limit_offset_string(backend, limit, off)
  <1>5. ASSUME NEW rows \in Ordered(RowsBy(asks), order), NEW values,
               page = Window(clause, values),
               \A N : DOMAIN rows = 1..N => values = Result(kind, rows, N)
        PROVE  page = Page(Meant(kind, op, v, order), limit, off)
    <2>1. PICK g, N : Sorted(order, asks, rows, g, N) /\ DOMAIN rows = 1..N
      BY <1>2, OrderedSorted
    <2>2. values = Result(kind, rows, N)
      BY <1>5, <2>1, Zenon
    <2>3. Result(kind, rows, N) = FlattenSeq(Pieces(kind, order, asks))
      BY <1>2, <2>1, ResultMeant
    <2>4. values = Meant(kind, op, v, order)
      BY <1>4, <2>2, <2>3, Zenon
    <2>5. Window(clause, values) = Page(values, limit, off)
      BY Windowed
    <2>6. QED BY <1>5, <2>4, <2>5, Zenon
  <1>6. CASE kind = "idents"
    <2>1. PICK rows \in Ordered(RowsBy(asks), order) : page = Window(clause, SelectDistinct(rows))
      BY <1>3, <1>6, Zenon DEF PageResults, get_message_idents
    <2>2. ASSUME NEW N, DOMAIN rows = 1..N
          PROVE  SelectDistinct(rows) = Result(kind, rows, N)
      <3>1. [i \in DOMAIN rows |-> rows[i].ident] = AllValues(kind, rows, N)
        BY <1>6, <2>2, Zenon DEF AllValues, ValueOf
      <3>2. kind # "values"
        BY <1>6
      <3>3. QED BY <3>1, <3>2, Zenon DEF SelectDistinct, Result
    <2> HIDE DEF clause
    <2>3. QED BY <1>5, <2>1, <2>2, Zenon
  <1>7. CASE kind # "idents"
    <2> DEFINE Times(rows) == [i \in DOMAIN rows |-> rows[i].time]
               Values(rows) == IF kind = "distinct" THEN Distinct(Times(rows)) ELSE Times(rows)
    <2>1. PICK rows \in Ordered(RowsBy(asks), order) : page = Window(clause, Values(rows))
      BY <1>3, <1>7, Zenon DEF PageResults, get_values
    <2>2. ASSUME NEW N, DOMAIN rows = 1..N
          PROVE  Values(rows) = Result(kind, rows, N)
      <3>1. Times(rows) = AllValues(kind, rows, N)
        BY <1>7, <2>2, Zenon DEF AllValues, ValueOf
      <3>2. kind = "distinct" <=> kind # "values"
        BY <1>7 DEF PageKinds
      <3> HIDE DEF Times
      <3>3. QED BY <3>1, <3>2, Zenon DEF Result
    <2> HIDE DEF clause, Values
    <2>3. QED BY <1>5, <2>1, <2>2, Zenon
  <1>8. QED BY <1>6, <1>7, Zenon

\* off and the next page of a sequence make the next offset.
Continues(all, limit, off) ==
  LET page == Page(all, limit, off)
      next == off + Len(page)
  IN  /\ SubSeq(all, 1, off) \o page = SubSeq(all, 1, next) /\ next \in 0..Len(all)
      /\ limit = All => next = Len(all)
      /\ limit > 0 /\ page = <<>> => next = Len(all)

\* So it is for a sequence of which there were off members.
LEMMA NextPages ==
  ASSUME NEW V, NEW all \in Seq(V), NEW off \in 0..Len(all), NEW limit \in Int, limit >= -1
  PROVE  Continues(all, limit, off)
  <1> DEFINE n == Len(all)
             last == IF limit = All \/ off + limit > n THEN n ELSE off + limit
             l == last - off
             page == Page(all, limit, off)
             a == SubSeq(all, 1, off)
             c == SubSeq(all, 1, off + l)
  <1>1. n \in Nat /\ off \in Nat /\ off <= n
    OBVIOUS
  <1>2. /\ last \in off..n /\ l \in Nat /\ off + l = last /\ off + l <= n
        /\ limit = All => last = n
        /\ limit > 0 /\ l = 0 => last = n
    <2> HIDE DEF n
    <2>1. QED BY <1>1 DEF All
  <1>3. page = SubSeq(all, off + 1, off + l)
    BY <1>2 DEF Page
  <1> HIDE DEF n, last, l
  <1>4. page \in Seq(V) /\ Len(page) = l /\ \A k \in 1..l : page[k] = all[off + k]
    <2>1. off \in Nat /\ l \in Nat /\ off + l <= Len(all)
      BY <1>1, <1>2 DEF n
    <2>2. /\ SubSeq(all, off + 1, off + l) \in Seq(V) /\ Len(SubSeq(all, off + 1, off + l)) = l
          /\ \A k \in 1..l : SubSeq(all, off + 1, off + l)[k] = all[off + k]
      BY <2>1, SubSeqAt
    <2> HIDE DEF page
    <2>3. QED BY <1>3, <2>2, Zenon
  <1>5. a \in Seq(V) /\ Len(a) = off /\ \A k \in 1..off : a[k] = all[k]
    <2>1. 0 \in Nat /\ 0 + off <= Len(all) /\ 0 + 1 = 1 /\ 0 + off = off
      BY <1>1 DEF n
    <2>2. /\ SubSeq(all, 0 + 1, 0 + off) \in Seq(V) /\ Len(SubSeq(all, 0 + 1, 0 + off)) = off
          /\ \A k \in 1..off : SubSeq(all, 0 + 1, 0 + off)[k] = all[0 + k]
      BY <1>1, <2>1, SubSeqAt
    <2>3. \A k \in 1..off : 0 + k = k
      BY <1>1
    <2>4. QED BY <2>1, <2>2, <2>3
  <1>6. c \in Seq(V) /\ Len(c) = off + l /\ \A k \in 1..off + l : c[k] = all[k]
    <2> DEFINE e == off + l
    <2>1. e \in Nat /\ 0 \in Nat /\ 0 + e <= Len(all) /\ 0 + 1 = 1 /\ 0 + e = e
      BY <1>1, <1>2 DEF n
    <2> HIDE DEF e
    <2>2. /\ SubSeq(all, 0 + 1, 0 + e) \in Seq(V) /\ Len(SubSeq(all, 0 + 1, 0 + e)) = e
          /\ \A k \in 1..e : SubSeq(all, 0 + 1, 0 + e)[k] = all[0 + k]
      BY <2>1, SubSeqAt
    <2>3. \A k \in 1..e : 0 + k = k
      BY <2>1
    <2>4. QED BY <2>1, <2>2, <2>3 DEF e
  <1> HIDE DEF a, c, page
  <1>7. a \o page = c
    <2>1. a \o page \in Seq(V) /\ Len(a \o page) = off + l
      <3>1. a \in Seq(V) /\ page \in Seq(V)
        BY <1>4, <1>5
      <3>2. a \o page \in Seq(V) /\ Len(a \o page) = Len(a) + Len(page)
        BY <3>1, ConcatProperties
      <3>3. QED BY <1>4, <1>5, <3>2, Zenon
    <2>2. ASSUME NEW k \in 1..off + l
          PROVE  (a \o page)[k] = c[k]
      <3>1. (a \o page)[k] = IF k <= off THEN a[k] ELSE page[k - off]
        BY <1>1, <1>2, <1>4, <1>5
      <3>2. k <= off => k \in 1..off
        BY <1>1, <1>2
      <3>3. ~(k <= off) => k - off \in 1..l /\ off + (k - off) = k
        BY <1>1, <1>2
      <3>4. QED BY <1>4, <1>5, <1>6, <3>1, <3>2, <3>3
    <2>3. QED BY <1>6, <2>1, <2>2, SeqEqual
  <1>8. page = <<>> => l = 0
    BY <1>4
  <1>9. off + Len(page) = last /\ last \in 0..n
    BY <1>1, <1>2, <1>4
  <1>10. QED BY <1>2, <1>7, <1>8, <1>9 DEF Continues, a, c, page, n

\* The pages so far are what the client means, up to the offset.
PagesUpTo(all) ==
  offset \in 0..Len(all) /\ pages = SubSeq(all, 1, offset) /\ (ended => offset = Len(all))

\* What is invariant about the pages: the client that asked for one asks for no other
\* kind of thing, and one that did not has none.
PagesInv ==
  /\ backend \in Backend
  /\ request.what # "page" => offset = 0 /\ pages = <<>>
  /\ request.what = "page" =>
       /\ client = "pages"
       /\ request.order # "none" => PagesUpTo(Meant(request.kind, request.op, request.v, request.order))

\* A page goes on where the last one ended.
LEMMA PageStep ==
  ASSUME TimesDiffer, PagesInv, NEW op \in PageOperators, NEW v, NEW order,
         NEW limit \in Int, limit >= -1, NEW kind \in PageKinds, NextPage(kind, op, v, order, limit)
  PROVE  PagesInv'
  <1> DEFINE all == Meant(kind, op, v, order)
             req == [what |-> "page", kind |-> kind, op |-> op, v |-> v, order |-> order]
  <1>1. /\ client = "pages" /\ ~ended /\ request' = req /\ request \in {NoRequest, req}
        /\ backend' = backend /\ client' = client
    BY Zenon DEF NextPage
  <1>2. PICK page \in PageResults(kind, op, v, order, limit, offset) :
               /\ pages' = pages \o page
               /\ ended' = (limit = All \/ (limit > 0 /\ page = <<>>))
               /\ offset' = offset + Len(page)
    BY Zenon DEF NextPage, PageResults, TextCriterion
  <1>3. /\ request'.what = "page" /\ request'.kind = kind /\ request'.op = op /\ request'.v = v
        /\ request'.order = order
    BY <1>1
  <1>4. backend \in Backend
    BY DEF PagesInv
  <1>5. ASSUME order # "none"
        PROVE  PagesUpTo(all)'
    <2>1. PICK asks : AsksFor(asks, op, v)
      BY DEF AsksFor
    <2>2. PICK V : V = {ValueOf(kind, m) : m \in AskedFor(asks)}
      OBVIOUS
    <2>3. all \in Seq(V)
      <3>1. MeansPieces(kind, op, v, order, asks)
        BY <2>1, MeantIs
      <3>2. QED BY <2>2, <3>1, Zenon DEF MeansPieces
    <2>4. offset \in 0..Len(all) /\ pages = SubSeq(all, 1, offset)
      <3>1. CASE request = NoRequest
        <4>1. offset = 0 /\ pages = <<>>
          BY <3>1 DEF PagesInv, NoRequest
        <4> HIDE DEF all
        <4>2. SubSeq(all, 1, 0) = <<>> /\ 0 \in 0..Len(all)
          BY <2>3
        <4>3. QED BY <4>1, <4>2
      <3>2. CASE request = req
        <4>1. /\ request.what = "page" /\ request.kind = kind /\ request.op = op /\ request.v = v
              /\ request.order = order
          BY <3>2
        <4>2. PagesUpTo(all)
          BY <1>5, <4>1, Zenon DEF PagesInv
        <4>3. QED BY <4>2, Zenon DEF PagesUpTo
      <3>3. QED BY <1>1, <3>1, <3>2, Zenon
    <2>5. page = Page(all, limit, offset)
      <3>1. offset \in Nat
        <4> HIDE DEF all
        <4>1. QED BY <2>3, <2>4
      <3>2. QED BY <1>2, <1>4, <1>5, <3>1, PageMeant, Zenon
    <2>6. Continues(all, limit, offset)
      <3> HIDE DEF all
      <3>1. QED BY <2>3, <2>4, NextPages
    <2>7. /\ pages \o page = SubSeq(all, 1, offset') /\ offset' \in 0..Len(all)
          /\ ended' => offset' = Len(all)
      <3> HIDE DEF all
      <3>1. QED BY <1>2, <2>4, <2>5, <2>6, Zenon DEF Continues
    <2>8. QED BY <1>2, <2>7, Zenon DEF PagesUpTo
  <1>6. QED BY <1>1, <1>3, <1>4, <1>5, Zenon DEF PagesInv

\* Every step keeps PagesInv.
LEMMA PagesStep ==
  ASSUME TimesDiffer, PagesInv, [Next]_vars
  PROVE  PagesInv'
  <1>1. ASSUME request'.what # "page", client # "pages", backend' = backend, UNCHANGED <<offset, pages>>
        PROVE  PagesInv'
    <2>1. request.what # "page"
      BY <1>1 DEF PagesInv
    <2>2. QED BY <1>1, <2>1 DEF PagesInv
  <1>2. ASSUME NEW sel \in Selections, AddSelected(sel)
        PROVE  PagesInv'
    BY <1>1, <1>2 DEF AddSelected
  <1>3. CASE AskText \/ AskRegex \/ AskTime \/ AskBrokenDown
    <2>1. ASSUME NEW op, NEW val, NEW nulls, Ask(op, val, nulls)
          PROVE  PagesInv'
      BY <1>1, <2>1 DEF Ask
    <2>2. QED BY <1>3, <2>1, Zenon DEF AskText, AskRegex, AskTime, AskBrokenDown
  <1>4. ASSUME NEW pairs \in Written, NEW tail \in Tails, NewSettings(pairs, tail)
        PROVE  PagesInv'
    BY <1>1, <1>4 DEF NewSettings
  <1>5. CASE \E op \in {"EQUAL", "NOT_EQUAL_NOCASE"}, v \in UNION {m.fields : m \in Messages},
                order \in {"asc", "desc", "none"}, limit \in -1..MaxLimit,
                kind \in {"idents", "values", "distinct"} : NextPage(kind, op, v, order, limit)
    <2>1. PICK op \in {"EQUAL", "NOT_EQUAL_NOCASE"}, v \in UNION {m.fields : m \in Messages},
               order \in {"asc", "desc", "none"}, limit \in -1..MaxLimit,
               kind \in {"idents", "values", "distinct"} : NextPage(kind, op, v, order, limit)
      BY <1>5, Zenon
    <2>2. limit \in Int /\ limit >= -1
      BY ClientAssumption
    <2>3. op \in PageOperators /\ kind \in PageKinds
      BY DEF PageOperators, PageKinds
    <2>4. QED BY <2>1, <2>2, <2>3, PageStep, Zenon
  <1>6. ASSUME NEW string \in StringValues, StoreString(string)
        PROVE  PagesInv'
    BY <1>1, <1>6 DEF StoreString
  <1>7. ASSUME NEW d \in DataValues, StoreData(d.adtype, d.data)
        PROVE  PagesInv'
    BY <1>1, <1>7 DEF StoreData
  <1>8. ASSUME NEW time \in TimeValues, NEW has_usec \in BOOLEAN, StoreTime(time, has_usec)
        PROVE  PagesInv'
    BY <1>1, <1>8 DEF StoreTime
  <1>9. CASE UNCHANGED vars
    BY <1>9, Zenon DEF vars, PagesInv, PagesUpTo
  <1>10. QED BY <1>2, <1>3, <1>4, <1>5, <1>6, <1>7, <1>8, <1>9, Zenon DEF Next

\* A client that asks page after page, in the order of the creation time, gets every
\* message that has a field it asked for, in order and none twice, for every set of
\* messages of different creation times, every size of its pages and every plugin:
\* PagesPartition of every such specification.  Messages of the same time the server
\* may return in another order on the next page.
THEOREM PagesCorrect ==
  ASSUME TimesDiffer
  PROVE  Spec => []PagesPartition
  <1>1. Init => PagesInv
    BY DEF Init, PagesInv, NoRequest
  <1>2. PagesInv /\ [Next]_vars => PagesInv'
    BY PagesStep
  <1>3. ASSUME PagesInv
        PROVE  PagesPartition
    <2>1. SUFFICES ASSUME request.what = "page", request.order # "none"
                   PROVE  LET all == Meant(request.kind, request.op, request.v, request.order)
                          IN  IsPrefix(pages, all) /\ (ended => pages = all)
      BY Zenon DEF PagesPartition
    <2> DEFINE all == Meant(request.kind, request.op, request.v, request.order)
    <2>2. PagesUpTo(all)
      BY <1>3, <2>1, Zenon DEF PagesInv
    <2>3. PICK asks : AsksFor(asks, request.op, request.v)
      BY DEF AsksFor
    <2>4. PICK V : V = {ValueOf(request.kind, m) : m \in AskedFor(asks)}
      OBVIOUS
    <2>5. all \in Seq(V)
      <3>1. MeansPieces(request.kind, request.op, request.v, request.order, asks)
        BY <2>3, MeantIs
      <3>2. QED BY <2>4, <3>1, Zenon DEF MeansPieces
    <2> HIDE DEF all
    <2>6. /\ offset \in Nat /\ offset <= Len(all) /\ pages = SubSeq(all, 1, offset)
          /\ ended => offset = Len(all)
      BY <2>2, <2>5 DEF PagesUpTo
    <2>7. pages \in Seq(V) /\ Len(pages) = offset /\ SubSeq(pages, 1, offset) = pages
      BY <2>5, <2>6
    <2>8. SubSeq(all, 1, Len(all)) = all
      BY <2>5
    <2>9. IsPrefix(pages, all) /\ (ended => pages = all)
      BY <2>6, <2>7, <2>8, Zenon DEF IsPrefix
    <2>10. QED BY <2>9 DEF all
  <1>4. QED BY <1>1, <1>2, <1>3, PTL DEF Spec

-----------------------------------------------------------------------------
(***************************************************************************)
(* Settings                                                                *)
(***************************************************************************)

\* Whether the character at k of a value from i on is escaped.
EscapedAt(str, i, k) == EscapedFrom(str, i)[k]

\* A backslash that is not escaped escapes the next character of the value.
LEMMA EscapedFromNext ==
  ASSUME NEW V, NEW str \in Seq(V), NEW i \in 1..Len(str) + 1
  PROVE  \A k \in i..Len(str) :
           EscapedAt(str, i, k) <=> (k > i /\ str[k - 1] = "\\" /\ ~EscapedAt(str, i, k - 1))
  <1> DEFINE Body(f, k) == k > i /\ str[k - 1] = "\\" /\ ~f[k - 1]
             IsF(f, m) == f = [k \in i..m |-> Body(f, k)]
             Has(m) == \E f : IsF(f, m)
             S == {d \in Nat : Has(i - 1 + d)}
             next == CHOOSE f : IsF(f, Len(str))
  <1>1. i \in Nat /\ i >= 1
    OBVIOUS
  <1>2. Has(i - 1)
    <2>1. i..i - 1 = {}
      BY <1>1
    <2>2. IsF([k \in i..i - 1 |-> FALSE], i - 1)
      BY <2>1
    <2> HIDE DEF IsF
    <2>3. QED BY <2>2
  <1>3. ASSUME NEW m \in Nat, m >= i - 1, Has(m)
        PROVE  Has(m + 1)
    <2> HIDE DEF IsF, Body
    <2>1. PICK f : IsF(f, m)
      BY <1>3
    <2> DEFINE g == [k \in i..m + 1 |-> IF k = m + 1 THEN Body(f, k) ELSE f[k]]
    <2>2. \A k \in i..m : f[k] = Body(f, k)
      BY <2>1, Zenon DEF IsF
    <2>3. (\A k \in i..m : g[k] = f[k]) /\ g[m + 1] = Body(f, m + 1)
      BY <1>1, <1>3
    <2> HIDE DEF g
    <2>4. ASSUME NEW k \in i..m + 1
          PROVE  Body(g, k) = Body(f, k)
      <3>1. k > i => k - 1 \in i..m
        BY <1>1
      <3>2. k > i => g[k - 1] = f[k - 1]
        BY <2>3, <3>1
      <3>3. CASE k > i
        <4>1. g[k - 1] = f[k - 1]
          BY <3>2, <3>3
        <4>2. QED BY <4>1, Zenon DEF Body
      <3>4. CASE ~(k > i)
        BY <3>4, Zenon DEF Body
      <3>5. QED BY <3>3, <3>4
    <2>5. ASSUME NEW k \in i..m + 1
          PROVE  g[k] = Body(g, k)
      <3>1. CASE k = m + 1
        BY <2>3, <2>4, <3>1
      <3>2. CASE k # m + 1
        <4>1. k \in i..m
          BY <1>1, <3>2
        <4>2. QED BY <2>2, <2>3, <2>4, <4>1
      <3>3. QED BY <3>1, <3>2
    <2>6. IsF(g, m + 1)
      BY <2>5, Zenon DEF IsF, g
    <2>7. QED BY <2>6, Zenon
  <1>4. Has(Len(str))
    <2> HIDE DEF Has
    <2>1. 0 \in S
      <3>1. i - 1 + 0 = i - 1
        BY <1>1
      <3>2. QED BY <1>2, <3>1
    <2>2. ASSUME NEW d \in Nat, d \in S
          PROVE  d + 1 \in S
      <3>1. i - 1 + d \in Nat /\ i - 1 + d >= i - 1 /\ (i - 1 + d) + 1 = i - 1 + (d + 1) /\ Has(i - 1 + d)
        BY <1>1, <2>2
      <3>2. Has((i - 1 + d) + 1)
        BY <1>3, <3>1
      <3>3. QED BY <3>1, <3>2
    <2> HIDE DEF S
    <2>3. \A d \in Nat : d \in S
      BY <2>1, <2>2, Induction
    <2>4. Len(str) - (i - 1) \in Nat /\ i - 1 + (Len(str) - (i - 1)) = Len(str)
      OBVIOUS
    <2>5. Len(str) - (i - 1) \in S
      BY <2>3, <2>4
    <2>6. Has(i - 1 + (Len(str) - (i - 1)))
      BY <2>5 DEF S
    <2>7. QED BY <2>4, <2>6
  <1>5. IsF(next, Len(str))
    BY <1>4, Zenon
  <1>6. EscapedFrom(str, i) = next
    BY Zenon DEF EscapedFrom
  <1> HIDE DEF next
  <1>7. \A k \in i..Len(str) : next[k] <=> Body(next, k)
    BY <1>5, Zenon
  <1>8. QED BY <1>6, <1>7, Zenon DEF EscapedAt

\* str has value from first on, with a backslash before what is special; pos is where
\* each character of value ends.
Escapes(str, first, value, special, pos) ==
  /\ pos[0] = 0 /\ first + pos[Len(value)] <= Len(str) + 1
  /\ \A j \in 1..Len(value) :
       /\ value[j] \in special =>
            /\ pos[j] = pos[j - 1] + 2 /\ str[first + pos[j - 1]] = "\\"
            /\ str[first + pos[j - 1] + 1] = value[j]
       /\ value[j] \notin special => pos[j] = pos[j - 1] + 1 /\ str[first + pos[j - 1]] = value[j]

\* Which characters are escaped.
EscapedOnes(str, first, value, special, pos) ==
  /\ \A j \in 0..Len(value) : first + pos[j] <= Len(str) => ~EscapedAt(str, first, first + pos[j])
  /\ \A j \in 1..Len(value) : value[j] \in special => EscapedAt(str, first, first + pos[j - 1] + 1)

\* Those with a backslash before them, and no others.
LEMMA EscapesOnes ==
  ASSUME NEW V, NEW str \in Seq(V), NEW first \in 1..Len(str) + 1, NEW value \in Seq(V),
         NEW special, "\\" \in special, NEW pos \in [0..Len(value) -> Nat],
         Escapes(str, first, value, special, pos)
  PROVE  /\ \A j \in 1..Len(value) : pos[j - 1] < pos[j] /\ pos[j] <= pos[Len(value)]
         /\ EscapedOnes(str, first, value, special, pos)
  <1> DEFINE n == Len(value)
             N == Len(str)
             E(k) == EscapedAt(str, first, k)
  <1>1. n \in Nat /\ N \in Nat /\ first \in Nat /\ first >= 1 /\ pos \in [0..n -> Nat]
    OBVIOUS
  <1>2. \A k \in first..N : E(k) <=> (k > first /\ str[k - 1] = "\\" /\ ~E(k - 1))
    BY EscapedFromNext, Zenon
  <1>3. pos[0] = 0 /\ first + pos[n] <= N + 1
    BY DEF Escapes
  <1>4. ASSUME NEW j \in 1..n
        PROVE  /\ j \in 0..n /\ j - 1 \in 0..n /\ pos[j] \in Nat /\ pos[j - 1] \in Nat
               /\ value[j] \in special =>
                    /\ pos[j] = pos[j - 1] + 2 /\ str[first + pos[j - 1]] = "\\"
                    /\ str[first + pos[j - 1] + 1] = value[j]
               /\ value[j] \notin special => pos[j] = pos[j - 1] + 1 /\ str[first + pos[j - 1]] = value[j]
    <2>1. j \in 0..n /\ j - 1 \in 0..n
      BY <1>1
    <2>2. QED BY <1>1, <2>1, Zenon DEF Escapes
  <1> HIDE DEF n, N, E
  <1>5. ASSUME NEW j \in 1..n
        PROVE  pos[j - 1] < pos[j] /\ pos[j] \in Nat /\ pos[j - 1] \in Nat
    <2>1. pos[j] \in Nat /\ pos[j - 1] \in Nat /\ (pos[j] = pos[j - 1] + 1 \/ pos[j] = pos[j - 1] + 2)
      BY <1>4, Zenon
    <2>2. QED BY <2>1
  <1>6. \A j \in 1..n : pos[j] <= pos[n]
    <2>1. \A i, j \in 0..n : i < j => pos[i] < pos[j]
      BY <1>1, <1>5, Increasing
    <2>2. QED BY <1>1, <2>1
  <1> DEFINE P(j) == first + pos[j] <= N => ~E(first + pos[j])
             S == {j \in Nat : j <= n => P(j)}
  <1>7. P(0)
    <2>1. first + pos[0] = first
      BY <1>1, <1>3
    <2>2. ASSUME first <= N
          PROVE  ~E(first)
      <3>1. first \in first..N /\ ~(first > first)
        BY <1>1, <2>2
      <3>2. QED BY <1>2, <3>1, Zenon
    <2>3. QED BY <2>1, <2>2, Zenon
  <1>8. ASSUME NEW j \in 1..n, P(j - 1)
        PROVE  P(j) /\ (value[j] \in special => E(first + pos[j - 1] + 1))
    <2> DEFINE a == first + pos[j - 1]
    <2>1. pos[j - 1] \in Nat /\ pos[j] \in Nat /\ pos[n] \in Nat /\ pos[j - 1] < pos[j] /\ pos[j] <= pos[n]
      <3>1. n \in 0..n
        BY <1>1
      <3>2. pos[n] \in Nat
        BY <1>1, <3>1
      <3>3. QED BY <1>5, <1>6, <3>2, Zenon
    <2>2. a \in Nat /\ a >= first /\ pos[j - 1] < pos[j] /\ first + pos[j] <= N + 1 /\ a <= N
      BY <1>1, <1>3, <2>1
    <2>3. ~E(a)
      BY <1>8, <2>2, Zenon
    <2>4. CASE value[j] \in special
      <3>1. pos[j] = pos[j - 1] + 2 /\ str[a] = "\\"
        BY <1>4, <2>4, Zenon
      <3>2. first + pos[j] = a + 2 /\ str[a] = "\\"
        BY <1>1, <2>1, <3>1
      <3> HIDE DEF a
      <3>3. a + 1 \in first..N /\ a + 1 > first /\ (a + 1) - 1 = a
        BY <1>1, <2>2, <3>2
      <3>4. E(a + 1)
        BY <1>2, <2>3, <3>2, <3>3, Zenon
      <3>5. ASSUME a + 2 <= N
            PROVE  ~E(a + 2)
        <4>1. a + 2 \in first..N /\ (a + 2) - 1 = a + 1
          BY <1>1, <2>2, <3>5
        <4>2. QED BY <1>2, <3>4, <4>1, Zenon
      <3>6. QED BY <3>2, <3>4, <3>5, Zenon DEF a
    <2>5. CASE value[j] \notin special
      <3>1. pos[j] = pos[j - 1] + 1 /\ str[a] = value[j]
        BY <1>4, <2>5, Zenon
      <3>2. str[a] # "\\"
        BY <2>5, <3>1, Zenon
      <3>3. first + pos[j] = a + 1 /\ str[a] # "\\"
        BY <1>1, <2>1, <3>1, <3>2
      <3> HIDE DEF a
      <3>4. ASSUME a + 1 <= N
            PROVE  ~E(a + 1)
        <4>1. a + 1 \in first..N /\ (a + 1) - 1 = a
          BY <1>1, <2>2, <3>4
        <4>2. QED BY <1>2, <3>3, <4>1, Zenon
      <3>5. QED BY <2>5, <3>3, <3>4, Zenon
    <2>6. QED BY <2>4, <2>5, Zenon
  <1>9. \A j \in Nat : j \in S
    <2> HIDE DEF P
    <2>1. 0 \in S
      BY <1>7
    <2>2. ASSUME NEW j \in Nat, j \in S
          PROVE  j + 1 \in S
      <3>1. CASE j + 1 <= n
        <4>1. j <= n /\ j + 1 \in 1..n /\ (j + 1) - 1 = j
          BY <1>1, <3>1
        <4>2. P((j + 1) - 1)
          BY <2>2, <4>1
        <4>3. P(j + 1)
          BY <1>8, <4>1, <4>2, Zenon
        <4>4. QED BY <4>3
      <3>2. QED BY <3>1
    <2> HIDE DEF S
    <2>3. QED BY <2>1, <2>2, Induction
  <1>10. \A j \in 0..n : P(j)
    <2> HIDE DEF P
    <2>1. QED BY <1>1, <1>9
  <1>11. ASSUME NEW j \in 1..n, value[j] \in special
         PROVE  E(first + pos[j - 1] + 1)
    <2> HIDE DEF P
    <2>1. P(j - 1)
      BY <1>4, <1>10
    <2>2. QED BY <1>8, <1>11, <2>1, Zenon
  <1>12. QED BY <1>5, <1>6, <1>10, <1>11, Zenon DEF EscapedOnes, n, N, E

\* What is left of the characters of a value, without the backslashes.
Unescaped(str, first, len) ==
  [k \in 1..len |-> IF str[first + k - 1] = "\\" /\ ~EscapedAt(str, first, first + k - 1)
                    THEN <<>> ELSE <<str[first + k - 1]>>]

\* Character j of an escaped value: where it is, and what is left of it.
CharAt(str, first, value, special, pos, j) ==
  LET piece == Unescaped(str, first, pos[Len(value)])
      a     == pos[j - 1]
  IN  /\ a \in Nat /\ pos[j] \in Nat /\ pos[Len(value)] \in Nat /\ pos[j] <= pos[Len(value)]
      /\ value[j] \in special =>
           /\ pos[j] = a + 2 /\ piece[a + 1] = <<>> /\ piece[a + 2] = <<value[j]>>
           /\ str[first + a] = "\\" /\ EscapedAt(str, first, first + a + 1)
      /\ value[j] \notin special =>
           pos[j] = a + 1 /\ piece[a + 1] = <<value[j]>> /\ str[first + a] = value[j]

\* The characters of an escaped value, one after the other.
LEMMA EscapesEach ==
  ASSUME NEW V, NEW str \in Seq(V), NEW first \in 1..Len(str) + 1, NEW value \in Seq(V),
         NEW special, "\\" \in special, NEW pos \in [0..Len(value) -> Nat],
         Escapes(str, first, value, special, pos), NEW j \in 1..Len(value)
  PROVE  CharAt(str, first, value, special, pos, j)
  <1> DEFINE n == Len(value)
             N == Len(str)
             a == pos[j - 1]
             piece == Unescaped(str, first, pos[n])
             E(k) == EscapedAt(str, first, k)
  <1>1. n \in Nat /\ N \in Nat /\ first \in Nat /\ j - 1 \in 0..n /\ j \in 0..n /\ n \in 0..n
    OBVIOUS
  <1>2. a \in Nat /\ pos[j] \in Nat /\ pos[n] \in Nat
    BY <1>1
  <1>3. pos[j - 1] < pos[j] /\ pos[j] <= pos[n] /\ EscapedOnes(str, first, value, special, pos)
    BY EscapesOnes, Zenon
  <1>4. first + pos[n] <= N + 1
    BY DEF Escapes
  <1>5. \A k \in 1..pos[n] : piece[k] = IF str[first + k - 1] = "\\" /\ ~E(first + k - 1)
                                       THEN <<>> ELSE <<str[first + k - 1]>>
    BY Zenon DEF Unescaped
  <1>6. a + 1 \in 1..pos[n] /\ first + (a + 1) - 1 = first + a /\ first + a <= N
    BY <1>1, <1>2, <1>3, <1>4
  <1>7. CASE value[j] \in special
    <2>1. pos[j] = a + 2 /\ str[first + a] = "\\" /\ str[first + a + 1] = value[j]
      BY <1>7, Zenon DEF Escapes
    <2>2. ~E(first + a) /\ E(first + a + 1)
      BY <1>1, <1>3, <1>6, <1>7, Zenon DEF EscapedOnes
    <2> HIDE DEF piece, a, n, N, E
    <2>3. piece[a + 1] = <<>>
      BY <1>5, <1>6, <2>1, <2>2, Zenon
    <2>4. a + 2 \in 1..pos[n] /\ first + (a + 2) - 1 = first + a + 1
      BY <1>1, <1>2, <1>3, <2>1
    <2>5. piece[a + 2] = <<value[j]>>
      BY <1>5, <2>1, <2>2, <2>4, Zenon
    <2>6. QED BY <1>2, <1>3, <1>7, <2>1, <2>2, <2>3, <2>5, Zenon DEF CharAt, piece, a, n, E
  <1>8. CASE value[j] \notin special
    <2>1. pos[j] = a + 1 /\ str[first + a] = value[j]
      BY <1>8, Zenon DEF Escapes
    <2>2. str[first + a] # "\\"
      BY <1>8, <2>1, Zenon
    <2> HIDE DEF piece, a, n, N, E
    <2>3. piece[a + 1] = <<value[j]>>
      BY <1>5, <1>6, <2>1, <2>2, Zenon
    <2>4. QED BY <1>2, <1>3, <1>8, <2>1, <2>3, Zenon DEF CharAt, piece, a, n, E
  <1>9. QED BY <1>7, <1>8

\* Where a value ends.
EndOf(str, first, stop) ==
  Min({k \in first..Len(str) : str[k] = stop /\ ~EscapedAt(str, first, k)} \cup {Len(str) + 1})

\* The end of a value, or of the string.
StopsAt(str, stop, e) == e <= Len(str) => str[e] = stop

\* A value ends at the first of its ends that is not escaped.
LEMMA EscapesEnd ==
  ASSUME NEW V, NEW str \in Seq(V), NEW first \in 1..Len(str) + 1, NEW value \in Seq(V),
         NEW special, "\\" \in special, NEW pos \in [0..Len(value) -> Nat],
         Escapes(str, first, value, special, pos), NEW stop \in special, stop # "\\",
         NEW e, e = first + pos[Len(value)], StopsAt(str, stop, e)
  PROVE  EndOf(str, first, stop) = e
  <1> DEFINE n == Len(value)
             N == Len(str)
             E(k) == EscapedAt(str, first, k)
             T == {k \in first..N : str[k] = stop /\ ~E(k)} \cup {N + 1}
             x == first + pos[n]
  <1>1. n \in Nat /\ N \in Nat /\ first \in Nat /\ n \in 0..n /\ pos[n] \in Nat /\ pos \in [0..n -> Nat]
    OBVIOUS
  <1>2. pos[0] = 0 /\ x <= N + 1
    BY DEF Escapes
  <1>3. x \in Nat /\ x >= first
    BY <1>1
  <1>4. EscapedOnes(str, first, value, special, pos)
    BY EscapesOnes, Zenon
  <1>5. x <= N => ~E(x) /\ str[x] = stop
    BY <1>1, <1>4, Zenon DEF EscapedOnes, StopsAt
  <1>6. x \in T
    <2> HIDE DEF x, E, N
    <2>1. CASE x <= N
      <3>1. x \in first..N
        BY <1>1, <1>3, <2>1
      <3>2. QED BY <1>5, <2>1, <3>1, Zenon
    <2>2. CASE ~(x <= N)
      <3>1. x = N + 1
        BY <1>1, <1>2, <1>3, <2>2
      <3>2. QED BY <3>1, Zenon
    <2>3. QED BY <2>1, <2>2
  <1>7. ASSUME NEW k \in first..N, k < x, str[k] = stop, ~E(k)
        PROVE  FALSE
    <2> DEFINE q == k - first + 1
    <2>1. q \in 1..pos[n] /\ k \in Nat /\ q \in Nat /\ k = first + q - 1
      BY <1>1, <1>7
    <2> HIDE DEF q
    <2>2. PICK j \in 1..n : pos[j - 1] < q /\ q <= pos[j]
      BY <1>1, <1>2, <2>1, InPiece
    <2> DEFINE a == pos[j - 1]
    <2>3. /\ a \in Nat /\ pos[j] \in Nat
          /\ value[j] \in special => pos[j] = a + 2 /\ str[first + a] = "\\" /\ E(first + a + 1)
          /\ value[j] \notin special => pos[j] = a + 1 /\ str[first + a] = value[j]
      <3>1. CharAt(str, first, value, special, pos, j)
        BY EscapesEach, Zenon
      <3>2. QED BY <3>1, Zenon DEF CharAt
    <2> HIDE DEF a, E, x, n, N
    <2>4. CASE value[j] \in special
      <3>1. pos[j] = a + 2 /\ str[first + a] = "\\" /\ E(first + a + 1)
        BY <2>3, <2>4, Zenon
      <3>2. a < q /\ q <= pos[j]
        BY <2>2 DEF a
      <3>3. k = first + a \/ k = first + a + 1
        BY <1>1, <2>1, <2>3, <3>1, <3>2
      <3>4. QED BY <1>7, <3>1, <3>3, Zenon
    <2>5. CASE value[j] \notin special
      <3>1. pos[j] = a + 1 /\ str[first + a] = value[j]
        BY <2>3, <2>5, Zenon
      <3>2. a < q /\ q <= pos[j]
        BY <2>2 DEF a
      <3>3. k = first + a
        BY <1>1, <2>1, <2>3, <3>1, <3>2
      <3>4. QED BY <1>7, <2>5, <3>1, <3>3, Zenon
    <2>6. QED BY <2>4, <2>5
  <1>8. T \subseteq Int /\ \A y \in T : x <= y
    <2> HIDE DEF x, E
    <2>1. QED BY <1>1, <1>2, <1>3, <1>7
  <1> HIDE DEF T, x
  <1>9. Min(T) = x
    BY <1>6, <1>8, LeastIs
  <1>10. QED BY <1>9, Zenon DEF EndOf, T, x, N, E, n

\* Without its backslashes, an escaped value is the value.
LEMMA EscapesBack ==
  ASSUME NEW V, NEW str \in Seq(V), NEW first \in 1..Len(str) + 1, NEW value \in Seq(V),
         NEW special, "\\" \in special, NEW pos \in [0..Len(value) -> Nat],
         Escapes(str, first, value, special, pos)
  PROVE  FlattenSeq(Unescaped(str, first, pos[Len(value)])) = value
  <1> DEFINE n == Len(value)
             N == Len(str)
             L == pos[n]
             piece == Unescaped(str, first, L)
  <1>1. n \in Nat /\ N \in Nat /\ first \in Nat /\ n \in 0..n /\ L \in Nat /\ pos \in [0..n -> Nat]
    OBVIOUS
  <1>2. pos[0] = 0 /\ first + L <= N + 1
    BY DEF Escapes
  <1>3. piece \in [1..L -> Seq(V)]
    <2>1. ASSUME NEW k \in 1..L
          PROVE  (IF str[first + k - 1] = "\\" /\ ~EscapedAt(str, first, first + k - 1)
                  THEN <<>> ELSE <<str[first + k - 1]>>) \in Seq(V)
      <3>1. first + k - 1 \in 1..N
        BY <1>1, <1>2
      <3>2. str[first + k - 1] \in V
        BY <3>1
      <3>3. <<str[first + k - 1]>> \in Seq(V) /\ <<>> \in Seq(V)
        BY <3>2
      <3>4. QED BY <3>3, Zenon
    <2>2. QED BY <2>1, Zenon DEF Unescaped
  <1> HIDE DEF piece, L
  <1>4. PICK at \in [0..L -> Nat] : Placed(piece, L, at)
    BY <1>1, <1>3, FlattenAt, Zenon
  <1>5. at[0] = 0 /\ at[L] = Len(FlattenSeq(piece)) /\ FlattenSeq(piece) \in Seq(V)
    BY <1>1, <1>3, <1>4, FlattenAt, Zenon DEF Placed
  <1>6. ASSUME NEW q \in 1..L
        PROVE  /\ at[q] = at[q - 1] + Len(piece[q]) /\ at[q] \in Nat /\ at[q - 1] \in Nat
               /\ \A k \in 1..Len(piece[q]) : FlattenSeq(piece)[at[q - 1] + k] = piece[q][k]
    <2>1. q \in 0..L /\ q - 1 \in 0..L
      BY <1>1
    <2>2. at[q] \in Nat /\ at[q - 1] \in Nat
      BY <2>1
    <2>3. QED BY <1>4, <2>2, Zenon DEF Placed
  <1>7. ASSUME NEW q \in 1..L, NEW c, piece[q] = <<c>>
        PROVE  at[q] = at[q - 1] + 1 /\ FlattenSeq(piece)[at[q - 1] + 1] = c
    <2>1. Len(<<c>>) = 1 /\ <<c>>[1] = c /\ 1 \in 1..1
      OBVIOUS
    <2>2. QED BY <1>6, <1>7, <2>1
  <1>8. ASSUME NEW q \in 1..L, piece[q] = <<>>
        PROVE  at[q] = at[q - 1]
    <2>1. Len(<<>>) = 0
      OBVIOUS
    <2>2. at[q] = at[q - 1] + 0 /\ at[q - 1] \in Nat
      BY <1>6, <1>8, <2>1
    <2>3. QED BY <2>2
  <1>9. ASSUME NEW j \in 1..n
        PROVE  /\ pos[j] \in 1..L /\ at[pos[j]] = at[pos[j - 1]] + 1
               /\ FlattenSeq(piece)[at[pos[j - 1]] + 1] = value[j]
    <2> DEFINE a == pos[j - 1]
    <2>1. CharAt(str, first, value, special, pos, j)
      BY EscapesEach, Zenon DEF n
    <2>2. /\ a \in Nat /\ pos[j] \in Nat /\ pos[j] <= L
          /\ value[j] \in special => pos[j] = a + 2 /\ piece[a + 1] = <<>> /\ piece[a + 2] = <<value[j]>>
          /\ value[j] \notin special => pos[j] = a + 1 /\ piece[a + 1] = <<value[j]>>
      BY <2>1, Zenon DEF CharAt, piece, L, n
    <2> HIDE DEF a, n
    <2>3. CASE value[j] \in special
      <3>1. pos[j] = a + 2 /\ piece[a + 1] = <<>> /\ piece[a + 2] = <<value[j]>>
        BY <2>2, <2>3, Zenon
      <3>2. a + 1 \in 1..L /\ a + 2 \in 1..L /\ (a + 1) - 1 = a /\ (a + 2) - 1 = a + 1
        BY <1>1, <2>2, <3>1
      <3>3. at[a + 1] = at[a]
        BY <1>8, <3>1, <3>2
      <3>4. at[a + 2] = at[a + 1] + 1 /\ FlattenSeq(piece)[at[a + 1] + 1] = value[j]
        BY <1>7, <3>1, <3>2
      <3>5. QED BY <3>1, <3>2, <3>3, <3>4, Zenon DEF a
    <2>4. CASE value[j] \notin special
      <3>1. pos[j] = a + 1 /\ piece[a + 1] = <<value[j]>>
        BY <2>2, <2>4, Zenon
      <3>2. a \in Nat /\ pos[j] \in Nat /\ pos[j] <= L
        BY <2>2, Zenon
      <3>3. a + 1 \in 1..L /\ (a + 1) - 1 = a
        BY <1>1, <3>1, <3>2
      <3>4. at[a + 1] = at[a] + 1 /\ FlattenSeq(piece)[at[a] + 1] = value[j]
        BY <1>7, <3>1, <3>3
      <3>5. QED BY <3>1, <3>3, <3>4, Zenon DEF a
    <2>5. QED BY <2>3, <2>4
  <1> HIDE DEF n
  <1> DEFINE S == {j \in Nat : j <= n => at[pos[j]] = j}
  <1>10. \A j \in Nat : j \in S
    <2>1. 0 \in S
      BY <1>2, <1>5
    <2>2. ASSUME NEW j \in Nat, j \in S
          PROVE  j + 1 \in S
      <3>1. CASE j + 1 <= n
        <4>1. j <= n /\ j + 1 \in 1..n /\ (j + 1) - 1 = j
          BY <1>1, <3>1
        <4>2. at[pos[j]] = j
          BY <2>2, <4>1
        <4>3. at[pos[j + 1]] = at[pos[j]] + 1
          BY <1>9, <4>1
        <4>4. QED BY <4>2, <4>3
      <3>2. QED BY <3>1
    <2> HIDE DEF S
    <2>3. QED BY <2>1, <2>2, Induction
  <1>11. at[L] = n
    BY <1>1, <1>10 DEF L
  <1>12. ASSUME NEW j \in 1..n
         PROVE  FlattenSeq(piece)[j] = value[j]
    <2>1. at[pos[j - 1]] = j - 1 /\ (j - 1) + 1 = j
      BY <1>1, <1>10
    <2>2. QED BY <1>9, <2>1
  <1>13. Len(FlattenSeq(piece)) = Len(value) /\ \A j \in 1..Len(FlattenSeq(piece)) : FlattenSeq(piece)[j] = value[j]
    BY <1>5, <1>11, <1>12 DEF n
  <1>14. FlattenSeq(piece) = value
    BY <1>5, <1>13, SeqEqual
  <1>15. QED BY <1>14, Zenon DEF piece, L, n

\* get_value, for any end of a value and any quotes.
GetValue(str, i, blank, quotes) ==
  LET quoted == i <= Len(str) /\ str[i] \in quotes
      first  == IF quoted THEN i + 1 ELSE i
      stop   == IF quoted THEN str[i] ELSE blank
      last   == EndOf(str, first, stop)
      next   == IF last > Len(str) THEN last ELSE last + 1
  IN  IF next > Len(str) /\ quoted THEN [ret |-> -1]
      ELSE [ret |-> 1, next |-> next, value |-> FlattenSeq(Unescaped(str, first, last - first))]

\* get_value is this, for a blank and the quotes.
LEMMA GetValueIs ==
  ASSUME NEW str, NEW i
  PROVE  get_value(str, i) = GetValue(str, i, " ", Quotes)
  BY Zenon DEF get_value, GetValue, EndOf, Unescaped, EscapedAt

\* The value was read, and ends at e with a quote.
QuotedIs(str, i, blank, quotes, value, e) ==
  GetValue(str, i, blank, quotes) =
    IF e = Len(str) THEN [ret |-> -1] ELSE [ret |-> 1, next |-> e + 1, value |-> value]

\* A quoted value is read up to its closing quote, and is refused at the very end.
LEMMA QuotedRead ==
  ASSUME NEW V, NEW str \in Seq(V), NEW blank, NEW quotes, NEW i \in 1..Len(str),
         NEW value \in Seq(V), NEW special, "\\" \in special, NEW stop \in special, stop # "\\",
         NEW pos \in [0..Len(value) -> Nat], NEW f \in 1..Len(str) + 1, f = i + 1,
         Escapes(str, f, value, special, pos), NEW e \in 1..Len(str), e = f + pos[Len(value)],
         str[i] = stop, stop \in quotes, StopsAt(str, stop, e)
  PROVE  QuotedIs(str, i, blank, quotes, value, e)
  <1> DEFINE N == Len(str)
             last == EndOf(str, f, stop)
  <1>1. N \in Nat /\ i <= N /\ f \in 1..N + 1 /\ i \in Nat /\ e \in Nat /\ e <= N
    OBVIOUS
  <1>2. last = e
    BY EscapesEnd, Zenon
  <1>3. FlattenSeq(Unescaped(str, f, pos[Len(value)])) = value
    BY <1>1, EscapesBack, Zenon
  <1>4. pos[Len(value)] \in Nat
    OBVIOUS
  <1> HIDE DEF last
  <1>5. last - f = pos[Len(value)] /\ ~(last > N) /\ (last + 1 > N <=> e = N)
    BY <1>1, <1>2, <1>4
  <1> DEFINE next == IF last > N THEN last ELSE last + 1
  <1>6. next = e + 1
    BY <1>2, <1>5
  <1>7. next > N <=> e = N
    BY <1>2, <1>5, <1>6
  <1>8. GetValue(str, i, blank, quotes) =
          IF next > N THEN [ret |-> -1]
          ELSE [ret |-> 1, next |-> next, value |-> FlattenSeq(Unescaped(str, f, last - f))]
    BY <1>1, Zenon DEF GetValue, last
  <1> HIDE DEF next, N
  <1>9. CASE e = N
    BY <1>7, <1>8, <1>9, Zenon DEF QuotedIs, N
  <1>10. CASE e # N
    BY <1>3, <1>5, <1>6, <1>7, <1>8, <1>10, Zenon DEF QuotedIs, N
  <1>11. QED BY <1>9, <1>10

\* The value was read, and ends before e.
UnquotedIs(str, i, blank, quotes, value, e) ==
  GetValue(str, i, blank, quotes) =
    [ret |-> 1, next |-> IF e > Len(str) THEN e ELSE e + 1, value |-> value]

\* A value that is not quoted is read up to a blank, or to the end.
LEMMA UnquotedRead ==
  ASSUME NEW V, NEW str \in Seq(V), NEW blank, NEW quotes, NEW i \in 1..Len(str) + 1,
         NEW value \in Seq(V), NEW special, "\\" \in special, blank \in special, blank # "\\",
         quotes \subseteq special, "\\" \notin quotes, blank \notin quotes,
         NEW pos \in [0..Len(value) -> Nat], Escapes(str, i, value, special, pos),
         NEW e \in 1..Len(str) + 1, e = i + pos[Len(value)], StopsAt(str, blank, e)
  PROVE  UnquotedIs(str, i, blank, quotes, value, e)
  <1> DEFINE N == Len(str)
             n == Len(value)
             quoted == i <= N /\ str[i] \in quotes
             last == EndOf(str, i, blank)
             next == IF last > N THEN last ELSE last + 1
  <1>1. N \in Nat /\ i \in Nat /\ e \in Nat /\ n \in Nat
    OBVIOUS
  <1>2. last = e
    BY EscapesEnd, Zenon
  <1>3. FlattenSeq(Unescaped(str, i, pos[n])) = value
    BY EscapesBack, Zenon
  <1>4. pos[n] \in Nat
    OBVIOUS
  <1>5. ~quoted
    <2> SUFFICES ASSUME i <= N, str[i] \in quotes PROVE FALSE
      BY Zenon
    <2>1. pos[0] = 0
      BY DEF Escapes
    <2>2. CASE n = 0
      <3>1. e = i
        BY <1>1, <2>1, <2>2
      <3>2. QED BY <3>1, Zenon DEF StopsAt
    <2>3. CASE n # 0
      <3>1. 1 \in 1..n /\ 1 - 1 = 0 /\ i + 0 = i
        BY <1>1, <2>3
      <3>2. CharAt(str, i, value, special, pos, 1)
        BY <3>1, EscapesEach, Zenon
      <3>3. str[i] = "\\" \/ (value[1] \notin special /\ str[i] = value[1])
        BY <2>1, <3>1, <3>2, Zenon DEF CharAt
      <3>4. QED BY <3>3, Zenon
    <2>4. QED BY <2>2, <2>3
  <1>6. GetValue(str, i, blank, quotes) =
          [ret |-> 1, next |-> next, value |-> FlattenSeq(Unescaped(str, i, last - i))]
    BY <1>5, Zenon DEF GetValue
  <1> HIDE DEF last
  <1>7. last - i = pos[n]
    BY <1>1, <1>2, <1>4
  <1>8. QED BY <1>2, <1>3, <1>6, <1>7, Zenon DEF UnquotedIs

\* SkipOver stays within the string.
LEMMA SkipWithin ==
  ASSUME NEW V, NEW str \in Seq(V), NEW i \in 1..Len(str) + 1, NEW chars
  PROVE  SkipOver(str, i, chars) \in i..Len(str) + 1
  <1> DEFINE N == Len(str)
             S == {j \in i..N + 1 : j > N \/ str[j] \notin chars}
  <1>1. N \in Nat /\ i \in Nat /\ i <= N + 1
    OBVIOUS
  <1> HIDE DEF N
  <1>2. N + 1 \in S /\ S \subseteq Nat /\ S \subseteq Int
    BY <1>1
  <1>3. S \subseteq i..N + 1
    OBVIOUS
  <1> HIDE DEF S
  <1>4. PICK x \in S : \A y \in S : x <= y
    BY <1>2, LeastOf
  <1>5. Min(S) = x
    BY <1>2, <1>4, LeastIs
  <1>6. QED BY <1>3, <1>5, Zenon DEF SkipOver, S, N

\* SkipOver finds the first other character.
LEMMA SkipTo ==
  ASSUME NEW V, NEW str \in Seq(V), NEW i \in 1..Len(str) + 1, NEW chars, NEW e \in i..Len(str) + 1,
         e > Len(str) \/ str[e] \notin chars, \A j \in i..e - 1 : str[j] \in chars
  PROVE  SkipOver(str, i, chars) = e
  <1> DEFINE N == Len(str)
             S == {j \in i..N + 1 : j > N \/ str[j] \notin chars}
  <1>1. N \in Nat /\ i \in Nat /\ e \in Nat /\ e <= N + 1
    OBVIOUS
  <1>2. e \in S
    BY Zenon
  <1>3. ASSUME NEW j \in S, ~(e <= j)
        PROVE  FALSE
    <2>1. j \in i..e - 1 /\ ~(j > N)
      BY <1>1, <1>3
    <2>2. QED BY <1>3, <2>1, Zenon
  <1>4. S \subseteq Int
    BY <1>1
  <1> HIDE DEF S
  <1>5. Min(S) = e
    BY <1>2, <1>3, <1>4, LeastIs
  <1>6. QED BY <1>5, Zenon DEF SkipOver, S

\* get_name, for any blank.
GetName(str, i, blank) ==
  LET first == SkipOver(str, i, {blank})
      last  == SkipOver(str, first, NameChars)
  IN  IF first > Len(str) THEN [ret |-> 0]
      ELSE IF last > Len(str) \/ last = first THEN [ret |-> -1]
      ELSE IF str[last] # "=" THEN [ret |-> -1]
      ELSE [ret |-> 1, name |-> SubSeq(str, first, last - 1), next |-> last + 1]

\* A name starts here, or after the blank that is here.
StartsFrom(str, i, blank, b) ==
  /\ b = i \/ (b = i + 1 /\ i <= Len(str) /\ str[i] = blank)
  /\ b > Len(str) \/ str[b] # blank

\* The blank is skipped.
LEMMA SkipBlank ==
  ASSUME NEW V, NEW str \in Seq(V), NEW i \in 1..Len(str) + 1, NEW blank, NEW b, StartsFrom(str, i, blank, b)
  PROVE  b \in 1..Len(str) + 1 /\ SkipOver(str, i, {blank}) = b
  <1> DEFINE N == Len(str)
  <1>1. N \in Nat /\ i \in Nat /\ i <= N + 1
    OBVIOUS
  <1>2. b \in i..N + 1
    BY <1>1 DEF StartsFrom
  <1>3. b > N \/ str[b] \notin {blank}
    BY Zenon DEF StartsFrom
  <1>4. ASSUME NEW j \in i..b - 1
        PROVE  str[j] \in {blank}
    <2>1. CASE b = i
      BY <1>1, <1>2, <2>1
    <2>2. CASE b = i + 1 /\ str[i] = blank
      <3>1. j = i
        BY <1>1, <2>2
      <3>2. QED BY <2>2, <3>1, Zenon
    <2>3. QED BY <2>1, <2>2, Zenon DEF StartsFrom
  <1>5. SkipOver(str, i, {blank}) = b
    BY <1>2, <1>3, <1>4, SkipTo, Zenon
  <1>6. QED BY <1>1, <1>2, <1>5

\* A name and "=" from b on.
NamedAt(str, b, name) ==
  /\ b + Len(name) <= Len(str) /\ str[b + Len(name)] = "="
  /\ \A k \in 1..Len(name) : str[b + k - 1] = name[k]

\* A name before "=" is read.
LEMMA NameRead ==
  ASSUME NEW V, NEW str \in Seq(V), NEW i \in 1..Len(str) + 1, NEW blank, NEW b, StartsFrom(str, i, blank, b),
         NEW name \in Seq(NameChars), Len(name) > 0, "=" \notin NameChars, NamedAt(str, b, name)
  PROVE  GetName(str, i, blank) = [ret |-> 1, name |-> name, next |-> b + Len(name) + 1]
  <1> DEFINE N == Len(str)
             l == Len(name)
             last == b + l
  <1>1. b \in 1..N + 1 /\ SkipOver(str, i, {blank}) = b
    BY SkipBlank, Zenon
  <1>2. last <= N /\ str[last] = "=" /\ \A k \in 1..l : str[b + k - 1] = name[k]
    BY Zenon DEF NamedAt
  <1>3. N \in Nat /\ l \in Nat /\ b \in Nat /\ b >= 1 /\ l > 0 /\ last <= N
    BY <1>1, <1>2
  <1>4. SkipOver(str, b, NameChars) = last
    <2>1. last \in b..N + 1 /\ str[last] \notin NameChars
      BY <1>3, <1>2
    <2>2. ASSUME NEW j \in b..last - 1
          PROVE  str[j] \in NameChars
      <3>1. j - b + 1 \in 1..l /\ b + (j - b + 1) - 1 = j
        BY <1>3
      <3>2. str[j] = name[j - b + 1] /\ name[j - b + 1] \in NameChars
        BY <1>2, <3>1
      <3>3. QED BY <3>2
    <2> HIDE DEF last
    <2>3. QED BY <1>1, <2>1, <2>2, SkipTo, Zenon
  <1>5. ~(b > N) /\ ~(last > N) /\ last # b
    BY <1>3
  <1>6. SubSeq(str, b, last - 1) = name
    <2> DEFINE u == SubSeq(str, (b - 1) + 1, (b - 1) + l)
    <2>1. b - 1 \in Nat /\ (b - 1) + l <= Len(str) /\ (b - 1) + 1 = b /\ (b - 1) + l = last - 1
      BY <1>3
    <2>2. u \in Seq(V) /\ Len(u) = l /\ \A k \in 1..l : u[k] = str[(b - 1) + k]
      BY <1>3, <2>1, SubSeqAt
    <2> HIDE DEF u
    <2>3. \A k \in 1..l : u[k] = name[k]
      <3>1. \A k \in 1..l : (b - 1) + k = b + k - 1
        BY <1>3
      <3>2. QED BY <1>2, <2>2, <3>1
    <2>4. name \in Seq(V)
      <3>1. \A k \in 1..l : b + k - 1 \in 1..N
        BY <1>3
      <3>2. \A k \in 1..l : name[k] \in V
        BY <1>2, <3>1
      <3>3. QED BY <3>2
    <2>5. u = name
      BY <2>2, <2>3, <2>4, SeqEqual
    <2>6. QED BY <2>1, <2>5, Zenon DEF u
  <1>7. str[last] = "="
    BY <1>2
  <1> HIDE DEF last
  <1>8. QED BY <1>1, <1>4, <1>5, <1>6, <1>7, Zenon DEF GetName, last

\* No name is read at the end, and it is an error when there is something else.
LEMMA NoName ==
  ASSUME NEW V, NEW str \in Seq(V), NEW i \in 1..Len(str) + 1, NEW blank, NEW b, StartsFrom(str, i, blank, b)
  PROVE  /\ b > Len(str) => GetName(str, i, blank) = [ret |-> 0]
         /\ b = Len(str) => GetName(str, i, blank) = [ret |-> -1]
  <1> DEFINE N == Len(str)
             last == SkipOver(str, b, NameChars)
  <1>1. b \in 1..N + 1 /\ SkipOver(str, i, {blank}) = b
    BY SkipBlank, Zenon
  <1>2. N \in Nat /\ b \in Nat
    BY <1>1
  <1>3. last \in b..N + 1
    BY <1>1, SkipWithin, Zenon
  <1>4. CASE b > N
    BY <1>1, <1>2, <1>4 DEF GetName
  <1>5. CASE b = N
    <2> HIDE DEF last
    <2>1. ~(b > N) /\ (last > N \/ last = b)
      BY <1>2, <1>3, <1>5
    <2>2. QED BY <1>1, <1>5, <2>1, Zenon DEF GetName, last
  <1>6. QED BY <1>2, <1>4, <1>5

\* The value starts after the name.
LEMMA NameNext ==
  ASSUME NEW V, NEW str \in Seq(V), NEW i \in 1..Len(str) + 1, NEW blank, GetName(str, i, blank).ret = 1
  PROVE  GetName(str, i, blank).next \in i + 1..Len(str) + 1
  <1> DEFINE N == Len(str)
             first == SkipOver(str, i, {blank})
             last == SkipOver(str, first, NameChars)
             r == [ret |-> 1, name |-> SubSeq(str, first, last - 1), next |-> last + 1]
  <1>1. N \in Nat /\ i \in Nat /\ i >= 1
    OBVIOUS
  <1>2. first \in i..N + 1
    BY SkipWithin, Zenon
  <1>3. first \in 1..N + 1
    BY <1>1, <1>2
  <1>4. last \in first..N + 1
    BY <1>3, SkipWithin, Zenon
  <1>5. [ret |-> 0].ret # 1 /\ [ret |-> -1].ret # 1
    OBVIOUS
  <1>6. r.next = last + 1
    BY Zenon
  <1> HIDE DEF first, last, r
  <1>7. GetName(str, i, blank) = r /\ ~(last > N)
    BY <1>5, Zenon DEF GetName, first, last, r
  <1>8. last + 1 \in i + 1..N + 1
    BY <1>1, <1>2, <1>4, <1>7
  <1>9. QED BY <1>6, <1>7, <1>8, Zenon

\* The next name starts after the value.
LEMMA ValueNext ==
  ASSUME NEW V, NEW str \in Seq(V), NEW i \in 1..Len(str) + 1, NEW blank, NEW quotes,
         ~(GetValue(str, i, blank, quotes).ret < 0)
  PROVE  GetValue(str, i, blank, quotes).next \in i..Len(str) + 1
  <1> DEFINE N == Len(str)
             quoted == i <= N /\ str[i] \in quotes
             first == IF quoted THEN i + 1 ELSE i
             stop == IF quoted THEN str[i] ELSE blank
             last == EndOf(str, first, stop)
             next == IF last > N THEN last ELSE last + 1
             r == [ret |-> 1, next |-> next, value |-> FlattenSeq(Unescaped(str, first, last - first))]
  <1>1. N \in Nat /\ i \in Nat /\ i >= 1 /\ i <= N + 1
    OBVIOUS
  <1>2. first \in i..N + 1
    <2> HIDE DEF N
    <2>1. QED BY <1>1
  <1> HIDE DEF first, stop
  <1>3. last \in first..N + 1
    <2> DEFINE S == {k \in first..N : str[k] = stop /\ ~EscapedAt(str, first, k)} \cup {N + 1}
    <2> HIDE DEF N
    <2>1. N + 1 \in S /\ S \subseteq Nat /\ S \subseteq Int /\ S \subseteq first..N + 1
      BY <1>1, <1>2
    <2> HIDE DEF S
    <2>2. PICK x \in S : \A y \in S : x <= y
      BY <2>1, LeastOf
    <2>3. Min(S) = x
      BY <2>1, <2>2, LeastIs
    <2>4. QED BY <2>1, <2>3, Zenon DEF EndOf, S, N
  <1>4. [ret |-> -1].ret < 0
    OBVIOUS
  <1>5. r.next = next
    BY Zenon
  <1> HIDE DEF last, r
  <1>6. next \in i..N + 1
    <2> HIDE DEF N
    <2>1. QED BY <1>1, <1>2, <1>3
  <1> HIDE DEF next
  <1>7. GetValue(str, i, blank, quotes) = r
    BY <1>4, Zenon DEF GetValue, first, stop, last, next, r
  <1>8. QED BY <1>5, <1>6, <1>7, Zenon

\* What set_from_string does at a position, for any blank and any quotes.
SetFrom(str, from, i, blank, quotes) ==
  LET name == GetName(str, i, blank)
  IN  IF name.ret # 1 THEN [ret |-> name.ret, hash |-> <<>>]
      ELSE LET value == GetValue(str, name.next, blank, quotes)
           IN  IF value.ret < 0 THEN [ret |-> -1, hash |-> <<>>]
               ELSE [ret  |-> from[value.next].ret,
                     hash |-> SetBefore(from[value.next].hash, name.name, value.value)]

\* set_from_string for any blank and any quotes.
SetAll(str, blank, quotes) ==
  (CHOOSE f : f = [i \in 1..Len(str) + 1 |-> SetFrom(str, f, i, blank, quotes)])[1]

\* set_from_string is this, for a blank and the quotes.
LEMMA SetAllIs ==
  ASSUME NEW str
  PROVE  set_from_string(str) = SetAll(str, " ", Quotes)
  BY Zenon DEF set_from_string, SetAll, SetFrom, get_name, GetName, get_value, GetValue, EndOf, Unescaped, EscapedAt

\* A position is only looked at after the ones that follow it.
LEMMA SetFromLater ==
  ASSUME NEW V, NEW str \in Seq(V), NEW blank, NEW quotes, NEW i \in 1..Len(str) + 1, NEW f, NEW g,
         \A k \in i + 1..Len(str) + 1 : f[k] = g[k]
  PROVE  SetFrom(str, f, i, blank, quotes) = SetFrom(str, g, i, blank, quotes)
  <1> DEFINE N == Len(str)
             name == GetName(str, i, blank)
             value == GetValue(str, name.next, blank, quotes)
  <1>1. N \in Nat /\ i \in Nat /\ i >= 1
    OBVIOUS
  <1>2. CASE name.ret # 1
    BY <1>2, Zenon DEF SetFrom
  <1>3. CASE name.ret = 1
    <2>1. name.next \in i + 1..N + 1
      BY <1>3, NameNext, Zenon
    <2> HIDE DEF name
    <2>2. name.next \in 1..N + 1
      BY <1>1, <2>1
    <2>3. CASE value.ret < 0
      BY <1>3, <2>3, Zenon DEF SetFrom, name
    <2>4. CASE ~(value.ret < 0)
      <3>1. value.next \in name.next..N + 1
        BY <2>2, <2>4, ValueNext, Zenon
      <3> HIDE DEF value
      <3>2. value.next \in i + 1..N + 1
        BY <1>1, <2>1, <3>1
      <3>3. f[value.next] = g[value.next]
        BY <3>2, Zenon
      <3>4. QED BY <1>3, <2>4, <3>3, Zenon DEF SetFrom, name, value
    <2>5. QED BY <2>3, <2>4
  <1>4. QED BY <1>2, <1>3

\* from is what set_from_string does at every position.
FromEach(str, from, blank, quotes) ==
  \A i \in 1..Len(str) + 1 : from[i] = SetFrom(str, from, i, blank, quotes)

\* set_from_string reads a string from its end.
LEMMA SetAllFrom ==
  ASSUME NEW V, NEW str \in Seq(V), NEW blank, NEW quotes
  PROVE  \E f : SetAll(str, blank, quotes) = f[1] /\ FromEach(str, f, blank, quotes)
  <1> DEFINE n == Len(str)
             From(f, i) == SetFrom(str, f, i, blank, quotes)
             IsF(f, m) == f = [i \in m..n + 1 |-> From(f, i)]
             Has(m) == \E f : IsF(f, m)
             S == {m \in Nat : m <= n + 1 => Has(n + 2 - m)}
             from == CHOOSE f : IsF(f, 1)
  <1>1. n \in Nat
    OBVIOUS
  <1>2. Has(n + 2)
    <2>1. (n + 2)..n + 1 = {}
      BY <1>1
    <2> DEFINE f == [i \in {} |-> <<>>]
    <2> HIDE DEF From
    <2>2. f = [i \in {} |-> From(f, i)]
      <3> HIDE DEF n
      <3>1. QED OBVIOUS
    <2>3. IsF(f, n + 2)
      <3> HIDE DEF n, f
      <3>1. QED BY <2>1, <2>2
    <2> HIDE DEF IsF
    <2>4. QED BY <2>3
  <1>3. ASSUME NEW m \in 1..n + 1, Has(m + 1)
        PROVE  Has(m)
    <2> HIDE DEF IsF
    <2>1. PICK f : IsF(f, m + 1)
      BY <1>3
    <2> DEFINE g == [i \in m..n + 1 |-> IF i = m THEN From(f, i) ELSE f[i]]
    <2>2. \A i \in (m + 1)..n + 1 : f[i] = From(f, i)
      BY <2>1, Zenon DEF IsF
    <2> HIDE DEF n, From
    <2>3. \A i \in (m + 1)..n + 1 : g[i] = f[i]
      BY <1>1
    <2>4. g[m] = From(f, m)
      BY <1>1
    <2> HIDE DEF g
    <2>5. ASSUME NEW i \in m..n + 1
          PROVE  From(g, i) = From(f, i)
      <3>1. i \in 1..Len(str) + 1
        BY <1>1 DEF n
      <3>2. \A k \in i + 1..n + 1 : k \in (m + 1)..n + 1
        BY <1>1
      <3>3. \A k \in i + 1..Len(str) + 1 : g[k] = f[k]
        BY <2>3, <3>2, Zenon DEF n
      <3>4. QED BY <3>1, <3>3, SetFromLater, Zenon DEF From
    <2>6. ASSUME NEW i \in m..n + 1
          PROVE  g[i] = From(g, i)
      <3>1. CASE i = m
        BY <2>4, <2>5, <3>1
      <3>2. CASE i # m
        <4>1. i \in (m + 1)..n + 1
          BY <1>1, <3>2
        <4>2. QED BY <2>2, <2>3, <2>5, <4>1
      <3>3. QED BY <3>1, <3>2
    <2>7. IsF(g, m)
      BY <2>6, Zenon DEF IsF, g
    <2>8. QED BY <2>7, Zenon
  <1>4. Has(1)
    <2> HIDE DEF Has, n
    <2>1. 0 \in S
      BY <1>1, <1>2
    <2>2. ASSUME NEW m \in Nat, m \in S
          PROVE  m + 1 \in S
      <3>1. CASE m + 1 <= n + 1
        <4>1. Has(n + 2 - m) /\ n + 2 - m = (n + 2 - (m + 1)) + 1 /\ n + 2 - (m + 1) \in 1..n + 1
          BY <1>1, <2>2, <3>1
        <4>2. Has(n + 2 - (m + 1))
          BY <1>3, <4>1
        <4>3. QED BY <4>2
      <3>2. QED BY <3>1
    <2> HIDE DEF S
    <2>3. n + 1 \in S
      BY <1>1, <2>1, <2>2, Induction
    <2>4. Has(n + 2 - (n + 1)) /\ n + 2 - (n + 1) = 1
      BY <1>1, <2>3 DEF S
    <2>5. QED BY <2>4
  <1>5. IsF(from, 1)
    BY <1>4, Zenon
  <1>6. SetAll(str, blank, quotes) = from[1]
    BY Zenon DEF SetAll
  <1> HIDE DEF from
  <1>7. \A i \in 1..n + 1 : from[i] = From(from, i)
    BY <1>5, Zenon
  <1>8. FromEach(str, from, blank, quotes)
    BY <1>7, Zenon DEF FromEach
  <1>9. QED BY <1>6, <1>8, Zenon

\* s is in str after a characters.
At(str, a, s) == a + Len(s) <= Len(str) /\ \A k \in 1..Len(s) : str[a + k] = s[k]

\* The length of a concatenation.
LEMMA ConcatLen ==
  ASSUME NEW V, NEW a \in Seq(V), NEW b \in Seq(V)
  PROVE  a \o b \in Seq(V) /\ Len(a \o b) = Len(a) + Len(b) /\ Len(b) \in Nat
  OBVIOUS

\* Both parts of a concatenation are where it is.
LEMMA AtConcat ==
  ASSUME NEW V, NEW str \in Seq(V), NEW a \in Nat, NEW x \in Seq(V), NEW y \in Seq(V), At(str, a, x \o y)
  PROVE  At(str, a, x) /\ At(str, a + Len(x), y)
  <1> DEFINE N == Len(str)
             t == x \o y
             l == Len(x)
             m == Len(y)
  <1>1. /\ Len(t) = l + m /\ l \in Nat /\ m \in Nat /\ N \in Nat
        /\ \A k \in 1..l : t[k] = x[k]
        /\ \A k \in 1..m : l + k \in 1..l + m /\ t[l + k] = y[k]
    BY ConcatAt
  <1>2. a + Len(t) <= N /\ \A k \in 1..Len(t) : str[a + k] = t[k]
    BY DEF At
  <1> HIDE DEF t, l, m, N
  <1>3. a + l <= N /\ (a + l) + m <= N
    BY <1>1, <1>2
  <1>4. ASSUME NEW k \in 1..l
        PROVE  str[a + k] = x[k]
    <2>1. k \in 1..Len(t)
      BY <1>1
    <2>2. QED BY <1>1, <1>2, <2>1, Zenon
  <1>5. ASSUME NEW k \in 1..m
        PROVE  str[(a + l) + k] = y[k]
    <2>1. l + k \in 1..Len(t) /\ a + (l + k) = (a + l) + k
      BY <1>1
    <2>2. str[a + (l + k)] = t[l + k] /\ t[l + k] = y[k]
      BY <1>1, <1>2, <2>1, Zenon
    <2>3. QED BY <2>1, <2>2
  <1>6. QED BY <1>3, <1>4, <1>5, Zenon DEF At, l, m, N

\* One character.
LEMMA AtOne ==
  ASSUME NEW str, NEW a \in Nat, NEW c, At(str, a, <<c>>)
  PROVE  a + 1 <= Len(str) /\ str[a + 1] = c
  <1>1. Len(<<c>>) = 1 /\ <<c>>[1] = c /\ 1 \in 1..1
    OBVIOUS
  <1>2. QED BY <1>1, Zenon DEF At

\* The sequences of s, one after the other in str.
AllAt(str, a, s, n, pos) ==
  /\ pos[0] = 0 /\ pos[n] = Len(FlattenSeq(s))
  /\ \A i \in 1..n : pos[i] = pos[i - 1] + Len(s[i]) /\ At(str, a + pos[i - 1], s[i])

\* Each sequence of a flattened one is where it is.
LEMMA AtFlatten ==
  ASSUME NEW V, NEW str \in Seq(V), NEW a \in Nat, NEW n \in Nat, NEW s \in [1..n -> Seq(V)],
         At(str, a, FlattenSeq(s))
  PROVE  \E pos \in [0..n -> Nat] : AllAt(str, a, s, n, pos)
  <1> DEFINE t == FlattenSeq(s)
             N == Len(str)
  <1>1. t \in Seq(V)
    BY FlattenAt, Zenon
  <1>2. PICK pos \in [0..n -> Nat] : Placed(s, n, pos)
    BY FlattenAt, Zenon
  <1>3. pos[0] = 0 /\ pos[n] = Len(t)
    BY <1>2, Zenon DEF Placed
  <1>4. a + Len(t) <= N /\ \A k \in 1..Len(t) : str[a + k] = t[k]
    BY Zenon DEF At
  <1>5. N \in Nat /\ Len(t) \in Nat
    BY <1>1
  <1> HIDE DEF t, N
  <1>6. ASSUME NEW i \in 1..n
        PROVE  pos[i] = pos[i - 1] + Len(s[i]) /\ At(str, a + pos[i - 1], s[i])
    <2> DEFINE p == pos[i - 1]
               l == Len(s[i])
    <2>1. pos[i] = p + l /\ pos[i] <= pos[n] /\ \A k \in 1..l : t[p + k] = s[i][k]
      BY <1>2, Zenon DEF Placed, t
    <2>2. p \in Nat /\ pos[i] \in Nat /\ s[i] \in Seq(V) /\ l \in Nat
      OBVIOUS
    <2> HIDE DEF p, l
    <2>3. (a + p) + l <= N
      BY <1>3, <1>4, <1>5, <2>1, <2>2
    <2>4. ASSUME NEW k \in 1..l
          PROVE  str[(a + p) + k] = s[i][k]
      <3>1. p + k \in 1..Len(t) /\ a + (p + k) = (a + p) + k
        BY <1>3, <1>5, <2>1, <2>2
      <3>2. str[a + (p + k)] = t[p + k] /\ t[p + k] = s[i][k]
        BY <1>4, <2>1, <3>1, Zenon
      <3>3. QED BY <3>1, <3>2
    <2>5. QED BY <2>1, <2>3, <2>4, Zenon DEF At, p, l, N
  <1>7. AllAt(str, a, s, n, pos)
    BY <1>3, <1>6, Zenon DEF AllAt, t
  <1>8. QED BY <1>7, Zenon

\* A value with the backslashes.
LEMMA EscapeSeq ==
  ASSUME NEW V, NEW value \in Seq(V), NEW special, "\\" \in V
  PROVE  Escape(value, special) \in Seq(V)
  <1> DEFINE n == Len(value)
             s == [i \in 1..n |-> IF value[i] \in special THEN <<"\\", value[i]>> ELSE <<value[i]>>]
  <1>1. n \in Nat /\ DOMAIN value = 1..n
    OBVIOUS
  <1>2. Escape(value, special) = FlattenSeq(s)
    BY <1>1, Zenon DEF Escape
  <1>3. s \in [1..n -> Seq(V)]
    <2>1. ASSUME NEW i \in 1..n
          PROVE  (IF value[i] \in special THEN <<"\\", value[i]>> ELSE <<value[i]>>) \in Seq(V)
      <3>1. value[i] \in V
        OBVIOUS
      <3>2. <<"\\", value[i]>> \in Seq(V) /\ <<value[i]>> \in Seq(V)
        BY <3>1
      <3>3. QED BY <3>2, Zenon
    <2>2. QED BY <2>1, Zenon
  <1> HIDE DEF s, n
  <1>4. QED BY <1>1, <1>2, <1>3, FlattenAt, Zenon

\* A value that is written, with the backslashes.
LEMMA EscapeAt ==
  ASSUME NEW V, NEW str \in Seq(V), NEW a \in Nat, NEW value \in Seq(V), NEW special, "\\" \in V,
         At(str, a, Escape(value, special))
  PROVE  \E pos \in [0..Len(value) -> Nat] : /\ Escapes(str, a + 1, value, special, pos)
                                            /\ pos[Len(value)] = Len(Escape(value, special))
  <1> DEFINE n == Len(value)
             s == [i \in 1..n |-> IF value[i] \in special THEN <<"\\", value[i]>> ELSE <<value[i]>>]
  <1>1. n \in Nat /\ DOMAIN value = 1..n
    OBVIOUS
  <1>2. Escape(value, special) = FlattenSeq(s)
    BY <1>1, Zenon DEF Escape
  <1>3. \A i \in 1..n : s[i] = IF value[i] \in special THEN <<"\\", value[i]>> ELSE <<value[i]>>
    BY Zenon
  <1>4. s \in [1..n -> Seq(V)]
    <2>1. ASSUME NEW i \in 1..n
          PROVE  (IF value[i] \in special THEN <<"\\", value[i]>> ELSE <<value[i]>>) \in Seq(V)
      <3>1. value[i] \in V
        OBVIOUS
      <3>2. <<"\\", value[i]>> \in Seq(V) /\ <<value[i]>> \in Seq(V)
        BY <3>1
      <3>3. QED BY <3>2, Zenon
    <2>2. QED BY <2>1, Zenon
  <1> HIDE DEF s, n
  <1>5. PICK pos \in [0..n -> Nat] : AllAt(str, a, s, n, pos)
    BY <1>1, <1>2, <1>4, AtFlatten, Zenon
  <1>6. pos[0] = 0 /\ pos[n] = Len(FlattenSeq(s))
    BY <1>5, Zenon DEF AllAt
  <1>7. ASSUME NEW i \in 1..n
        PROVE  /\ value[i] \in special =>
                    /\ pos[i] = pos[i - 1] + 2 /\ str[a + 1 + pos[i - 1]] = "\\"
                    /\ str[a + 1 + pos[i - 1] + 1] = value[i]
               /\ value[i] \notin special => pos[i] = pos[i - 1] + 1 /\ str[a + 1 + pos[i - 1]] = value[i]
    <2> DEFINE p == pos[i - 1]
    <2>1. pos[i] = p + Len(s[i]) /\ At(str, a + p, s[i])
      BY <1>5, Zenon DEF AllAt
    <2>2. p \in Nat
      BY <1>1
    <2> HIDE DEF p
    <2>3. CASE value[i] \in special
      <3> DEFINE w == <<"\\", value[i]>>
      <3>1. s[i] = w
        BY <1>3, <2>3, Zenon
      <3>2. Len(w) = 2 /\ w[1] = "\\" /\ w[2] = value[i] /\ 1 \in 1..2 /\ 2 \in 1..2
        OBVIOUS
      <3>3. str[(a + p) + 1] = "\\" /\ str[(a + p) + 2] = value[i]
        BY <2>1, <3>1, <3>2, Zenon DEF At
      <3>4. (a + p) + 1 = a + 1 + p /\ (a + p) + 2 = a + 1 + p + 1
        BY <2>2
      <3>5. pos[i] = p + 2
        BY <2>1, <3>1, <3>2, Zenon
      <3> HIDE DEF w
      <3>6. QED BY <2>3, <3>3, <3>4, <3>5, Zenon DEF p
    <2>4. CASE value[i] \notin special
      <3> DEFINE w == <<value[i]>>
      <3>1. s[i] = w
        BY <1>3, <2>4, Zenon
      <3>2. Len(w) = 1 /\ w[1] = value[i] /\ 1 \in 1..1
        OBVIOUS
      <3>3. str[(a + p) + 1] = value[i]
        BY <2>1, <3>1, <3>2, Zenon DEF At
      <3>4. (a + p) + 1 = a + 1 + p
        BY <2>2
      <3>5. pos[i] = p + 1
        BY <2>1, <3>1, <3>2, Zenon
      <3> HIDE DEF w
      <3>6. QED BY <2>4, <3>3, <3>4, <3>5, Zenon DEF p
    <2>5. QED BY <2>3, <2>4, Zenon
  <1>8. a + 1 + pos[n] <= Len(str) + 1
    <2>1. a + Len(FlattenSeq(s)) <= Len(str)
      BY <1>2, Zenon DEF At
    <2>2. QED BY <1>1, <1>6, <2>1
  <1>9. Escapes(str, a + 1, value, special, pos)
    BY <1>6, <1>7, <1>8, Zenon DEF Escapes, n
  <1>10. pos \in [0..Len(value) -> Nat] /\ pos[Len(value)] = Len(Escape(value, special))
    BY <1>2, <1>6, Zenon DEF n
  <1>11. QED BY <1>9, <1>10, Zenon

\* A setting as it is written, when special is what a value that is not quoted
\* has to escape.
ValueText(pair, special) ==
  IF pair.quoted THEN <<"'">> \o Escape(pair.value, {"'", "\\"}) \o <<"'">>
  ELSE Escape(pair.value, special)
PairText(pair, special) == pair.name \o <<"=">> \o ValueText(pair, special)

\* Its characters.
LEMMA PairSeq ==
  ASSUME NEW V, NEW pair, pair.name \in Seq(V), pair.value \in Seq(V), NEW special,
         "\\" \in V, "=" \in V, "'" \in V
  PROVE  PairText(pair, special) \in Seq(V) /\ (Len(pair.name) > 0 => Len(PairText(pair, special)) > 0)
  <1> DEFINE q == Escape(pair.value, {"'", "\\"})
             u == Escape(pair.value, special)
             x == IF pair.quoted THEN <<"'">> \o q \o <<"'">> ELSE u
             name == pair.name
  <1>1. q \in Seq(V) /\ u \in Seq(V)
    BY EscapeSeq, Zenon
  <1>2. <<"=">> \in Seq(V) /\ <<"'">> \in Seq(V)
    OBVIOUS
  <1>3. name \in Seq(V)
    OBVIOUS
  <1> HIDE DEF q, u, name
  <1>4. <<"'">> \o q \o <<"'">> \in Seq(V)
    BY <1>1, <1>2
  <1>5. x \in Seq(V)
    BY <1>1, <1>4, Zenon
  <1>6. PairText(pair, special) = (name \o <<"=">>) \o x
    BY Zenon DEF PairText, ValueText, q, u, name
  <1> HIDE DEF x
  <1>7. (name \o <<"=">>) \o x \in Seq(V) /\ (Len(name) > 0 => Len((name \o <<"=">>) \o x) > 0)
    BY <1>2, <1>3, <1>5
  <1>8. QED BY <1>6, <1>7, Zenon DEF name

\* Its name is read, and its value starts after d characters.
NameOfPair(V, str, a, i, blank, special, pair, d) ==
  /\ d \in Nat /\ ValueText(pair, special) \in Seq(V) /\ At(str, d, ValueText(pair, special))
  /\ a + Len(PairText(pair, special)) = d + Len(ValueText(pair, special))
  /\ GetName(str, i, blank) = [ret |-> 1, name |-> pair.name, next |-> d + 1]

\* The name of a setting is read where it is written.
LEMMA PairNamed ==
  ASSUME NEW V, NEW str \in Seq(V), NEW a \in Nat, NEW blank, NEW special,
         "\\" \in V, "=" \in V, "'" \in V, NameChars \subseteq V, "=" \notin NameChars,
         NEW pair, pair.name \in Seq(NameChars), Len(pair.name) > 0, pair.value \in Seq(V),
         At(str, a, PairText(pair, special)), NEW i \in 1..Len(str) + 1, StartsFrom(str, i, blank, a + 1)
  PROVE  \E d : NameOfPair(V, str, a, i, blank, special, pair, d)
  <1> DEFINE name == pair.name
             l == Len(name)
             d == a + (l + 1)
             q == Escape(pair.value, {"'", "\\"})
             u == Escape(pair.value, special)
             x == IF pair.quoted THEN <<"'">> \o q \o <<"'">> ELSE u
             eq == <<"=">>
             h == name \o eq
  <1>1. q \in Seq(V) /\ u \in Seq(V)
    BY EscapeSeq, Zenon
  <1>2. eq \in Seq(V) /\ <<"'">> \in Seq(V) /\ Len(eq) = 1
    OBVIOUS
  <1>3. name \in Seq(V) /\ l \in Nat /\ l > 0
    OBVIOUS
  <1>4. PairText(pair, special) = h \o x
    BY Zenon DEF PairText, ValueText
  <1> HIDE DEF q, u, eq
  <1>5. <<"'">> \o q \o <<"'">> \in Seq(V)
    BY <1>1, <1>2
  <1>6. x \in Seq(V)
    BY <1>1, <1>5, Zenon
  <1> HIDE DEF x
  <1>7. h \in Seq(V) /\ Len(h) = l + 1
    <2>1. h \in Seq(V) /\ Len(h) = Len(name) + Len(eq)
      <3> HIDE DEF name
      <3>1. QED BY <1>2, <1>3, ConcatAt, Zenon
    <2>2. QED BY <1>2, <2>1, Zenon
  <1>8. At(str, a, h) /\ At(str, d, x) /\ Len(h \o x) = (l + 1) + Len(x) /\ Len(x) \in Nat
    <2> HIDE DEF h, l
    <2>1. At(str, a, h \o x)
      BY <1>4
    <2>2. At(str, a, h) /\ At(str, a + Len(h), x)
      BY <1>6, <1>7, <2>1, AtConcat, Zenon
    <2>3. Len(h \o x) = Len(h) + Len(x) /\ Len(x) \in Nat
      BY <1>6, <1>7
    <2>4. QED BY <1>7, <2>2, <2>3, Zenon
  <1>9. At(str, a, name) /\ At(str, a + l, eq)
    BY <1>2, <1>3, <1>8, AtConcat, Zenon
  <1>10. (a + l) + 1 <= Len(str) /\ str[(a + l) + 1] = "="
    <2>1. a + l \in Nat
      BY <1>3
    <2>2. QED BY <1>9, <2>1, AtOne, Zenon DEF eq
  <1>11. \A k \in 1..l : str[a + k] = name[k]
    BY <1>9, Zenon DEF At
  <1> HIDE DEF l
  <1>12. /\ (a + 1) + l = (a + l) + 1 /\ (a + 1) + l + 1 = d + 1 /\ d \in Nat
         /\ a + ((l + 1) + Len(x)) = d + Len(x) /\ \A k \in 1..l : (a + 1) + k - 1 = a + k
    BY <1>3, <1>8
  <1>13. /\ (a + 1) + l <= Len(str) /\ str[(a + 1) + l] = "="
         /\ \A k \in 1..l : str[(a + 1) + k - 1] = name[k]
    BY <1>10, <1>11, <1>12
  <1>14. GetName(str, i, blank) = [ret |-> 1, name |-> name, next |-> (a + 1) + l + 1]
    <2>1. NamedAt(str, a + 1, name)
      BY <1>13, Zenon DEF NamedAt, l
    <2>2. QED BY <2>1, NameRead, Zenon DEF l
  <1>15. x = ValueText(pair, special)
    BY Zenon DEF x, q, u, ValueText
  <1>16. a + Len(PairText(pair, special)) = d + Len(x)
    BY <1>4, <1>8, <1>12, Zenon
  <1>17. GetName(str, i, blank) = [ret |-> 1, name |-> name, next |-> d + 1]
    BY <1>12, <1>14, Zenon
  <1> HIDE DEF d
  <1>18. NameOfPair(V, str, a, i, blank, special, pair, d)
    BY <1>6, <1>8, <1>12, <1>15, <1>16, <1>17, Zenon DEF NameOfPair
  <1>19. QED BY <1>18, Zenon

\* What set_from_string does with a setting that ends after e characters: it is set
\* before what follows, unless its closing quote is the last character.
PairParsed(str, from, i, blank, quotes, pair, e) ==
  SetFrom(str, from, i, blank, quotes) =
    IF pair.quoted /\ e = Len(str) THEN [ret |-> -1, hash |-> <<>>]
    ELSE LET c == IF ~pair.quoted /\ e < Len(str) THEN e + 2 ELSE e + 1
         IN  [ret |-> from[c].ret, hash |-> SetBefore(from[c].hash, pair.name, pair.value)]

\* The blank and the quotes are what a value has to escape.
Ends(blank, quotes, special) ==
  /\ "\\" \in special /\ blank \in special /\ blank # "\\" /\ quotes \subseteq special
  /\ "'" \in quotes /\ "\\" \notin quotes /\ blank \notin quotes

\* A quoted setting is parsed where it is written.
LEMMA QuotedParsed ==
  ASSUME NEW V, NEW str \in Seq(V), NEW a \in Nat, NEW blank, NEW quotes, NEW special, "\\" \in V, "'" \in V,
         Ends(blank, quotes, special), NEW pair, pair.value \in Seq(V), pair.quoted,
         NEW i \in 1..Len(str) + 1, NEW d, NameOfPair(V, str, a, i, blank, special, pair, d), NEW from
  PROVE  PairParsed(str, from, i, blank, quotes, pair, a + Len(PairText(pair, special)))
  <1> DEFINE N == Len(str)
             val == pair.value
             both == {"'", "\\"}
             esc == Escape(val, both)
             u == <<"'">>
             whole == u \o esc \o u
             end == a + Len(PairText(pair, special))
             L == Len(esc)
  <1>1. esc \in Seq(V) /\ u \in Seq(V) /\ Len(u) = 1 /\ N \in Nat
    BY EscapeSeq
  <1>2. ValueText(pair, special) = whole
    BY Zenon DEF ValueText
  <1>3. /\ d \in Nat /\ At(str, d, whole) /\ end = d + Len(whole)
        /\ GetName(str, i, blank) = [ret |-> 1, name |-> pair.name, next |-> d + 1]
    BY <1>2, Zenon DEF NameOfPair
  <1> HIDE DEF esc, u, end, val
  <1>4. u \o esc \in Seq(V) /\ Len(u \o esc) = 1 + L /\ Len(whole) = (1 + L) + 1 /\ L \in Nat
    <2>1. u \o esc \in Seq(V) /\ Len(u \o esc) = Len(u) + L /\ L \in Nat
      BY <1>1, ConcatLen, Zenon
    <2>2. Len(whole) = Len(u \o esc) + Len(u)
      <3> DEFINE h == u \o esc
      <3>1. h \in Seq(V) /\ u \in Seq(V)
        BY <1>1, <2>1, Zenon
      <3> HIDE DEF h
      <3>2. Len(h \o u) = Len(h) + Len(u)
        BY <3>1, ConcatLen
      <3>3. QED BY <3>2, Zenon DEF h
    <2>3. QED BY <1>1, <2>1, <2>2
  <1>5. At(str, d, u) /\ At(str, d + 1, esc) /\ At(str, d + (1 + L), u)
    <2>1. At(str, d, u \o esc) /\ At(str, d + Len(u \o esc), u)
      BY <1>1, <1>3, <1>4, AtConcat, Zenon
    <2>2. At(str, d, u) /\ At(str, d + Len(u), esc)
      BY <1>1, <1>3, <2>1, AtConcat, Zenon
    <2>3. QED BY <1>1, <1>4, <2>1, <2>2, Zenon
  <1>6. d + 1 \in Nat /\ d + (1 + L) \in Nat
    BY <1>3, <1>4
  <1>7. /\ d + 1 <= N /\ str[d + 1] = "'"
        /\ (d + (1 + L)) + 1 <= N /\ str[(d + (1 + L)) + 1] = "'"
    BY <1>3, <1>5, <1>6, AtOne, Zenon DEF u
  <1>8. PICK pos \in [0..Len(val) -> Nat] :
          Escapes(str, (d + 1) + 1, val, both, pos) /\ pos[Len(val)] = L
    <2>1. val \in Seq(V)
      BY Zenon DEF val
    <2>2. At(str, d + 1, Escape(val, both))
      BY <1>5, Zenon DEF esc
    <2>3. L = Len(Escape(val, both))
      BY Zenon DEF esc
    <2> HIDE DEF both, L
    <2>4. \E pos \in [0..Len(val) -> Nat] :
            Escapes(str, (d + 1) + 1, val, both, pos) /\ pos[Len(val)] = Len(Escape(val, both))
      BY <1>6, <2>1, <2>2, EscapeAt
    <2>5. QED BY <2>3, <2>4
  <1> DEFINE j == d + 1
             start == (d + 1) + 1
             g == (d + (1 + L)) + 1
  <1>9. j \in 1..N /\ start \in 1..N + 1 /\ start = j + 1 /\ g \in 1..N /\ g = start + L /\ end = g
    BY <1>1, <1>3, <1>4, <1>7
  <1>10. "'" \in both /\ "\\" \in both /\ "'" # "\\" /\ "'" \in quotes /\ StopsAt(str, "'", g)
    BY <1>7 DEF Ends, StopsAt
  <1>11. GetValue(str, j, blank, quotes) =
           IF g = N THEN [ret |-> -1] ELSE [ret |-> 1, next |-> g + 1, value |-> val]
    <2> DEFINE quote == "'"
    <2>1. val \in Seq(V) /\ str[j] = quote /\ g = start + pos[Len(val)] /\ Escapes(str, start, val, both, pos)
      BY <1>7, <1>8, <1>9, Zenon DEF val
    <2>2. quote \in both /\ "\\" \in both /\ quote # "\\" /\ quote \in quotes /\ StopsAt(str, quote, g)
      BY <1>10, Zenon
    <2> HIDE DEF j, start, g, both, quote
    <2>3. QuotedIs(str, j, blank, quotes, val, g)
      BY <1>9, <2>1, <2>2, QuotedRead, Zenon
    <2>4. QED BY <2>3, Zenon DEF QuotedIs
  <1> HIDE DEF g, N, j
  <1> DEFINE nm == GetName(str, i, blank)
             vl == GetValue(str, nm.next, blank, quotes)
  <1>12. nm.ret = 1 /\ nm.name = pair.name /\ nm.next = j
    BY <1>3 DEF j
  <1>13. CASE end = N
    <2>1. vl = [ret |-> -1]
      BY <1>9, <1>11, <1>12, <1>13, Zenon
    <2>2. vl.ret < 0
      BY <2>1
    <2>3. SetFrom(str, from, i, blank, quotes) = [ret |-> -1, hash |-> <<>>]
      BY <1>12, <2>2, Zenon DEF SetFrom
    <2>4. QED BY <1>13, <2>3, Zenon DEF PairParsed, end, N
  <1>14. CASE end # N
    <2>1. vl = [ret |-> 1, next |-> end + 1, value |-> val]
      BY <1>9, <1>11, <1>12, <1>14, Zenon
    <2>2. ~(vl.ret < 0) /\ vl.next = end + 1 /\ vl.value = val
      BY <2>1
    <2> HIDE DEF nm
    <2>3. SetFrom(str, from, i, blank, quotes) =
            [ret |-> from[end + 1].ret, hash |-> SetBefore(from[end + 1].hash, pair.name, val)]
      BY <1>12, <2>2, Zenon DEF SetFrom, nm
    <2>4. QED BY <1>14, <2>3, Zenon DEF PairParsed, end, N, val
  <1>15. QED BY <1>13, <1>14

\* And one that is not quoted.
LEMMA UnquotedParsed ==
  ASSUME NEW V, NEW str \in Seq(V), NEW a \in Nat, NEW blank, NEW quotes, NEW special, "\\" \in V,
         Ends(blank, quotes, special), NEW pair, pair.value \in Seq(V), ~pair.quoted,
         NEW i \in 1..Len(str) + 1, NEW d, NameOfPair(V, str, a, i, blank, special, pair, d), NEW from,
         StopsAt(str, blank, a + Len(PairText(pair, special)) + 1)
  PROVE  PairParsed(str, from, i, blank, quotes, pair, a + Len(PairText(pair, special)))
  <1> DEFINE N == Len(str)
             val == pair.value
             esc == Escape(val, special)
             end == a + Len(PairText(pair, special))
             L == Len(esc)
  <1>1. esc \in Seq(V) /\ N \in Nat
    BY EscapeSeq
  <1>2. ValueText(pair, special) = esc
    BY Zenon DEF ValueText
  <1>3. /\ d \in Nat /\ At(str, d, esc) /\ end = d + L
        /\ GetName(str, i, blank) = [ret |-> 1, name |-> pair.name, next |-> d + 1]
    BY <1>2, Zenon DEF NameOfPair
  <1>4. d + L <= N /\ L \in Nat
    BY <1>1, <1>3 DEF At
  <1> HIDE DEF val
  <1>5. PICK pos \in [0..Len(val) -> Nat] : Escapes(str, d + 1, val, special, pos) /\ pos[Len(val)] = L
    <2>1. val \in Seq(V)
      BY Zenon DEF val
    <2>2. \E pos \in [0..Len(val) -> Nat] :
            Escapes(str, d + 1, val, special, pos) /\ pos[Len(val)] = Len(Escape(val, special))
      BY <1>3, <2>1, EscapeAt
    <2>3. QED BY <2>2
  <1> HIDE DEF esc, L, end
  <1> DEFINE j == d + 1
             g == end + 1
  <1>6. j \in 1..N + 1 /\ g \in 1..N + 1 /\ g = j + L
    BY <1>1, <1>3, <1>4
  <1>7. UnquotedIs(str, j, blank, quotes, val, g)
    <2>1. /\ val \in Seq(V) /\ g = j + pos[Len(val)] /\ Escapes(str, j, val, special, pos)
          /\ StopsAt(str, blank, g)
      BY <1>5, <1>6, Zenon DEF val, end
    <2>2. /\ "\\" \in special /\ blank \in special /\ blank # "\\" /\ quotes \subseteq special
          /\ "\\" \notin quotes /\ blank \notin quotes
      BY Zenon DEF Ends
    <2> HIDE DEF j, g
    <2>3. QED BY <1>6, <2>1, <2>2, UnquotedRead, Zenon
  <1> DEFINE nm == GetName(str, i, blank)
             vl == GetValue(str, nm.next, blank, quotes)
             c == IF end < N THEN end + 2 ELSE end + 1
  <1>8. (IF g > N THEN g ELSE g + 1) = c
    BY <1>1, <1>3, <1>4
  <1> HIDE DEF j, g
  <1>9. nm.ret = 1 /\ nm.name = pair.name /\ nm.next = j
    BY <1>3 DEF j
  <1> HIDE DEF c
  <1>10. vl = [ret |-> 1, next |-> c, value |-> val]
    BY <1>7, <1>8, <1>9, Zenon DEF UnquotedIs
  <1>11. ~(vl.ret < 0) /\ vl.next = c /\ vl.value = val
    BY <1>10
  <1> HIDE DEF nm
  <1>12. SetFrom(str, from, i, blank, quotes) =
           [ret |-> from[c].ret, hash |-> SetBefore(from[c].hash, pair.name, val)]
    BY <1>9, <1>11, Zenon DEF SetFrom, nm
  <1>13. QED BY <1>12, Zenon DEF PairParsed, c, end, val

\* A setting is parsed where it is written.
LEMMA PairRead ==
  ASSUME NEW V, NEW str \in Seq(V), NEW a \in Nat, NEW blank, NEW quotes, NEW special,
         "\\" \in V, "=" \in V, "'" \in V, NameChars \subseteq V, "=" \notin NameChars,
         Ends(blank, quotes, special), NEW pair, pair.name \in Seq(NameChars), Len(pair.name) > 0,
         pair.value \in Seq(V), At(str, a, PairText(pair, special)),
         NEW i \in 1..Len(str) + 1, StartsFrom(str, i, blank, a + 1),
         StopsAt(str, blank, a + Len(PairText(pair, special)) + 1), NEW from
  PROVE  PairParsed(str, from, i, blank, quotes, pair, a + Len(PairText(pair, special)))
  <1>1. PICK d : NameOfPair(V, str, a, i, blank, special, pair, d)
    BY PairNamed, Zenon
  <1>2. CASE pair.quoted
    BY <1>1, <1>2, QuotedParsed, Zenon
  <1>3. CASE ~pair.quoted
    BY <1>1, <1>3, UnquotedParsed, Zenon
  <1>4. QED BY <1>2, <1>3, Zenon

\* hash has the names of the settings from i on, each with its last value.
HoldsSettings(pairs, n, hash, i) ==
  /\ DOMAIN hash = {pairs[k].name : k \in i..n}
  /\ \A k \in i..n : (\A l \in k + 1..n : pairs[l].name # pairs[k].name) => hash[pairs[k].name] = pairs[k].value

\* A setting is added before the ones that follow it.
LEMMA HoldsStep ==
  ASSUME NEW pairs, NEW n \in Nat, NEW i \in 1..n, NEW hash, HoldsSettings(pairs, n, hash, i + 1)
  PROVE  HoldsSettings(pairs, n, SetBefore(hash, pairs[i].name, pairs[i].value), i)
  <1> DEFINE D == {pairs[k].name : k \in i + 1..n}
             E == {pairs[k].name : k \in i..n}
             h == SetBefore(hash, pairs[i].name, pairs[i].value)
  <1>1. DOMAIN hash = D
    BY Zenon DEF HoldsSettings
  <1>2. i \in i..n /\ \A k : k \in i..n <=> (k = i \/ k \in i + 1..n)
    OBVIOUS
  <1>3. E = D \cup {pairs[i].name}
    BY <1>2, Zenon
  <1>4. h = [m \in E |-> IF m \in D THEN hash[m] ELSE pairs[i].value]
    BY <1>1, <1>3, Zenon DEF SetBefore
  <1> HIDE DEF h
  <1>5. DOMAIN h = E
    BY <1>4, Zenon
  <1>6. ASSUME NEW k \in i..n, \A l \in k + 1..n : pairs[l].name # pairs[k].name
        PROVE  h[pairs[k].name] = pairs[k].value
    <2>1. CASE k = i
      <3>1. pairs[k].name \in E /\ pairs[k].name \notin D
        BY <1>6, <2>1, Zenon
      <3>2. QED BY <1>4, <2>1, <3>1, Zenon
    <2>2. CASE k \in i + 1..n
      <3>1. pairs[k].name \in E /\ pairs[k].name \in D
        BY <2>2, Zenon
      <3>2. hash[pairs[k].name] = pairs[k].value
        BY <1>6, <2>2, Zenon DEF HoldsSettings
      <3>3. QED BY <1>4, <3>1, <3>2, Zenon
    <2>3. QED BY <1>2, <2>1, <2>2, Zenon
  <1>7. QED BY <1>5, <1>6, Zenon DEF HoldsSettings, h

\* Settings with a name and a value.
ProperPairs(V, pairs, n) ==
  \A i \in 1..n : pairs[i].name \in Seq(NameChars) /\ Len(pairs[i].name) > 0 /\ pairs[i].value \in Seq(V)

\* Settings written one after the other: pair i after at[i] characters, each but the
\* last with a blank after it, and left characters after the last, of which the
\* first is a blank.
Chained(str, pairs, n, blank, special, left, at) ==
  /\ at[1] = 0 /\ (left <= 1 => at[n + 1] = Len(str)) /\ (left = 2 => at[n + 1] + 1 = Len(str))
  /\ \A i \in 1..n + 1 : at[i] + 1 > Len(str) \/ str[at[i] + 1] # blank
  /\ \A i \in 1..n : LET e == at[i] + Len(PairText(pairs[i], special))
                     IN  /\ At(str, at[i], PairText(pairs[i], special)) /\ e \in Nat /\ e <= Len(str)
                         /\ e < Len(str) => str[e + 1] = blank /\ at[i + 1] = e + 1
                         /\ e = Len(str) <=> i = n /\ left = 0
                         /\ e = Len(str) => at[i + 1] = e

\* All of the string are settings, the last of which is not a quoted one at its end.
AllSettings(pairs, n, left) == left <= 1 /\ ~(left = 0 /\ pairs[n].quoted)

\* What set_from_string has to return from setting i on.
Right(pairs, n, left, result, i) ==
  IF AllSettings(pairs, n, left) THEN result.ret = 0 /\ HoldsSettings(pairs, n, result.hash, i) ELSE result.ret = -1

\* The settings are read one after the other, from the last one on.
LEMMA SettingsRead ==
  ASSUME NEW V, NEW str \in Seq(V), NEW blank, NEW quotes, NEW special,
         "\\" \in V, "=" \in V, "'" \in V, NameChars \subseteq V, "=" \notin NameChars,
         Ends(blank, quotes, special), NEW pairs, NEW n \in Nat, n > 0,
         ProperPairs(V, pairs, n),
         NEW left \in 0..2, NEW at \in [1..n + 1 -> Nat], Chained(str, pairs, n, blank, special, left, at),
         NEW from, FromEach(str, from, blank, quotes)
  PROVE  Right(pairs, n, left, from[1], 1)
  <1> DEFINE N == Len(str)
             Text(i) == PairText(pairs[i], special)
             e(i) == at[i] + Len(Text(i))
             Starts(x, i) == StartsFrom(str, x, blank, at[i] + 1)
             Closed == left = 0 /\ pairs[n].quoted
             Good(i) == \A x \in 1..N + 1 : Starts(x, i) => Right(pairs, n, left, from[x], i)
  <1>1. N \in Nat /\ at[n + 1] \in Nat /\ 1 \in 1..n /\ n + 1 \in 1..n + 1
    OBVIOUS
  <1>2. at[1] = 0 /\ (left <= 1 => at[n + 1] = N) /\ (left = 2 => at[n + 1] + 1 = N)
    BY Zenon DEF Chained
  <1>3. \A i \in 1..n + 1 : at[i] + 1 > N \/ str[at[i] + 1] # blank
    BY Zenon DEF Chained
  <1>4. ASSUME NEW i \in 1..n
        PROVE  /\ At(str, at[i], Text(i)) /\ e(i) \in Nat /\ e(i) <= N
               /\ e(i) < N => str[e(i) + 1] = blank /\ at[i + 1] = e(i) + 1
               /\ e(i) = N <=> i = n /\ left = 0
               /\ e(i) = N => at[i + 1] = e(i)
    BY Zenon DEF Chained
  <1>5. ASSUME NEW x \in 1..N + 1, Starts(x, n + 1), ~Closed
        PROVE  Right(pairs, n, left, from[x], n + 1)
    <2> DEFINE b == at[n + 1] + 1
               nm == GetName(str, x, blank)
    <2>1. (b > N => nm = [ret |-> 0]) /\ (b = N => nm = [ret |-> -1])
      BY <1>5, NoName, Zenon
    <2>2. from[x] = SetFrom(str, from, x, blank, quotes)
      BY Zenon DEF FromEach
    <2> HIDE DEF nm, b
    <2>3. CASE left <= 1
      <3>1. b > N
        BY <1>1, <1>2, <2>3 DEF b
      <3>2. nm = [ret |-> 0]
        BY <2>1, <3>1, Zenon
      <3>3. nm.ret = 0 /\ nm.ret # 1
        BY <3>2
      <3>4. from[x] = [ret |-> 0, hash |-> <<>>]
        BY <2>2, <3>3, Zenon DEF SetFrom, nm
      <3>5. from[x].ret = 0 /\ from[x].hash = <<>>
        BY <3>4
      <3>6. HoldsSettings(pairs, n, <<>>, n + 1)
        <4>1. n + 1..n = {} /\ DOMAIN <<>> = {}
          OBVIOUS
        <4>2. {pairs[k].name : k \in n + 1..n} = {}
          BY <4>1, Zenon
        <4>3. QED BY <4>1, <4>2, Zenon DEF HoldsSettings
      <3>7. AllSettings(pairs, n, left)
        BY <1>5, <2>3, Zenon DEF AllSettings
      <3>8. QED BY <3>5, <3>6, <3>7, Zenon DEF Right
    <2>4. CASE ~(left <= 1)
      <3>1. b = N
        BY <1>1, <1>2, <2>4 DEF b
      <3>2. nm = [ret |-> -1]
        BY <2>1, <3>1, Zenon
      <3>3. nm.ret = -1 /\ nm.ret # 1
        BY <3>2
      <3>4. from[x] = [ret |-> -1, hash |-> <<>>]
        BY <2>2, <3>3, Zenon DEF SetFrom, nm
      <3>5. from[x].ret = -1
        BY <3>4
      <3>6. ~AllSettings(pairs, n, left)
        BY <2>4, Zenon DEF AllSettings
      <3>7. QED BY <3>5, <3>6, Zenon DEF Right
    <2>5. QED BY <2>3, <2>4
  <1>6. ASSUME NEW i \in 1..n, (i = n /\ Closed) \/ Good(i + 1)
        PROVE  Good(i)
    <2> SUFFICES ASSUME NEW x \in 1..N + 1, Starts(x, i)
                 PROVE  Right(pairs, n, left, from[x], i)
      BY Zenon
    <2> DEFINE pair == pairs[i]
               end == e(i)
    <2>1. at[i] \in Nat /\ i + 1 \in 1..n + 1 /\ at[i + 1] \in Nat
      OBVIOUS
    <2>2. StopsAt(str, blank, end + 1)
      <3>1. end + 1 <= N => end < N
        BY <1>1, <1>4
      <3>2. QED BY <1>4, <3>1, Zenon DEF StopsAt
    <2>3. PairParsed(str, from, x, blank, quotes, pair, end)
      <3>1. /\ pair.name \in Seq(NameChars) /\ Len(pair.name) > 0 /\ pair.value \in Seq(V)
            /\ At(str, at[i], PairText(pair, special)) /\ StartsFrom(str, x, blank, at[i] + 1)
            /\ StopsAt(str, blank, at[i] + Len(PairText(pair, special)) + 1)
        BY <1>4, <2>2, Zenon DEF ProperPairs
      <3> HIDE DEF pair
      <3> DEFINE a == at[i]
      <3> HIDE DEF a
      <3>2. a \in Nat
        BY <2>1 DEF a
      <3>3. PairParsed(str, from, x, blank, quotes, pair, a + Len(PairText(pair, special)))
        BY <3>1, <3>2, PairRead, Zenon DEF a
      <3>4. QED BY <3>3, Zenon DEF a, pair
    <2>4. from[x] = SetFrom(str, from, x, blank, quotes)
      BY Zenon DEF FromEach
    <2> HIDE DEF end
    <2>5. CASE pair.quoted /\ end = N
      <3>1. from[x] = [ret |-> -1, hash |-> <<>>]
        BY <2>3, <2>4, <2>5, Zenon DEF PairParsed
      <3>2. from[x].ret = -1
        BY <3>1
      <3>3. i = n /\ left = 0
        BY <1>4, <2>5, Zenon DEF end
      <3>4. ~AllSettings(pairs, n, left)
        BY <2>5, <3>3, Zenon DEF AllSettings
      <3>5. QED BY <3>2, <3>4, Zenon DEF Right
    <2>6. CASE ~(pair.quoted /\ end = N)
      <3> DEFINE c == IF ~pair.quoted /\ end < N THEN end + 2 ELSE end + 1
                 r == [ret |-> from[c].ret, hash |-> SetBefore(from[c].hash, pair.name, pair.value)]
      <3>1. from[x] = r
        BY <2>3, <2>4, <2>6, Zenon DEF PairParsed
      <3>2. from[x].ret = from[c].ret /\ from[x].hash = SetBefore(from[c].hash, pair.name, pair.value)
        <4> HIDE DEF c, pair
        <4>1. QED BY <3>1
      <3>3. end \in Nat /\ end <= N
        BY <1>4, Zenon DEF end
      <3>4. c \in 1..N + 1 /\ Starts(c, i + 1)
        <4> DEFINE b == at[i + 1] + 1
        <4>1. b > N \/ str[b] # blank
          BY <1>3, <2>1, Zenon
        <4>2. CASE end < N
          <5>1. str[end + 1] = blank /\ at[i + 1] = end + 1
            BY <1>4, <4>2, Zenon DEF end
          <5>2. CASE ~pair.quoted
            <6>1. c = end + 2
              BY <4>2, <5>2, Zenon
            <6>2. c \in 1..N + 1 /\ b = c
              BY <1>1, <3>3, <4>2, <5>1, <6>1
            <6>3. QED BY <4>1, <6>2, Zenon DEF StartsFrom
          <5>3. CASE pair.quoted
            <6>1. c = end + 1
              BY <5>3, Zenon
            <6> HIDE DEF c
            <6>2. c \in 1..N + 1 /\ b = c + 1 /\ c <= N /\ str[c] = blank
              BY <1>1, <3>3, <4>2, <5>1, <6>1
            <6>3. QED BY <4>1, <6>2, Zenon DEF StartsFrom
          <5>4. QED BY <5>2, <5>3, Zenon
        <4>3. CASE ~(end < N)
          <5>1. c = end + 1 /\ end = N
            BY <1>1, <3>3, <4>3
          <5>2. at[i + 1] = end
            BY <1>4, <5>1, Zenon DEF end
          <5>3. c \in 1..N + 1 /\ b = c
            BY <1>1, <3>3, <5>1, <5>2
          <5>4. QED BY <4>1, <5>3, Zenon DEF StartsFrom
        <4>4. QED BY <4>2, <4>3
      <3> HIDE DEF c
      <3>5. ~(i = n /\ Closed)
        BY <1>4, <2>6, Zenon DEF end
      <3>6. Right(pairs, n, left, from[c], i + 1)
        BY <1>6, <3>4, <3>5, Zenon
      <3>7. CASE AllSettings(pairs, n, left)
        <4>1. from[c].ret = 0 /\ HoldsSettings(pairs, n, from[c].hash, i + 1)
          BY <3>6, <3>7, Zenon DEF Right
        <4>2. HoldsSettings(pairs, n, SetBefore(from[c].hash, pair.name, pair.value), i)
          BY <4>1, HoldsStep, Zenon
        <4>3. QED BY <3>2, <3>7, <4>1, <4>2, Zenon DEF Right
      <3>8. CASE ~AllSettings(pairs, n, left)
        BY <3>2, <3>6, <3>8, Zenon DEF Right
      <3>9. QED BY <3>7, <3>8
    <2>7. QED BY <2>5, <2>6
  <1> HIDE DEF Good, Closed
  <1> DEFINE S == {d \in Nat : d < n => Good(n - d)}
  <1>7. Good(n)
    <2>1. n \in 1..n
      OBVIOUS
    <2>2. Closed \/ Good(n + 1)
      BY <1>5, Zenon DEF Good
    <2>3. QED BY <1>6, <2>1, <2>2, Zenon
  <1>8. \A d \in Nat : d \in S
    <2>1. 0 \in S
      BY <1>7
    <2>2. ASSUME NEW d \in Nat, d \in S
          PROVE  d + 1 \in S
      <3>1. CASE d + 1 < n
        <4>1. d < n /\ n - (d + 1) \in 1..n /\ (n - (d + 1)) + 1 = n - d
          BY <3>1
        <4>2. Good((n - (d + 1)) + 1)
          BY <2>2, <4>1
        <4>3. Good(n - (d + 1))
          BY <1>6, <4>1, <4>2, Zenon
        <4>4. QED BY <4>3
      <3>2. QED BY <3>1
    <2> HIDE DEF S
    <2>3. QED BY <2>1, <2>2, Induction
  <1>9. Good(1)
    <2>1. n - 1 \in Nat /\ n - 1 < n /\ n - (n - 1) = 1
      OBVIOUS
    <2>2. n - 1 \in S
      BY <1>8, <2>1
    <2>3. Good(n - (n - 1))
      BY <2>1, <2>2 DEF S
    <2>4. QED BY <2>1, <2>3
  <1>10. 1 \in 1..N + 1 /\ at[1] + 1 = 1 /\ 1 \in 1..n + 1
    BY <1>1, <1>2
  <1>11. Starts(1, 1)
    BY <1>3, <1>10, Zenon DEF StartsFrom
  <1>12. QED BY <1>9, <1>10, <1>11, Zenon DEF Good

\* Settings with a blank between them.
Spaced(pairs, n, blank, special) ==
  [i \in 1..n |-> (IF i = 1 THEN <<>> ELSE <<blank>>) \o PairText(pairs[i], special)]

\* The tail is empty, or a blank and at most one other character.
TailFits(blank, tail) ==
  Len(tail) <= 2 /\ (Len(tail) > 0 => tail[1] = blank) /\ (Len(tail) = 2 => tail[2] # blank)

\* They are one after the other, before the tail.
LEMMA SettingsChained ==
  ASSUME NEW V, NEW blank \in V, NEW special, blank \notin NameChars,
         "\\" \in V, "=" \in V, "'" \in V, NameChars \subseteq V, NEW pairs, NEW n \in Nat, n > 0,
         ProperPairs(V, pairs, n),
         NEW tail \in Seq(V), TailFits(blank, tail)
  PROVE  LET str == FlattenSeq(Spaced(pairs, n, blank, special)) \o tail
         IN  /\ str \in Seq(V)
             /\ \E at \in [1..n + 1 -> Nat] : Chained(str, pairs, n, blank, special, Len(tail), at)
  <1> DEFINE s == Spaced(pairs, n, blank, special)
             flat == FlattenSeq(s)
             str == flat \o tail
             N == Len(str)
             Text(i) == PairText(pairs[i], special)
             Sep(i) == IF i = 1 THEN <<>> ELSE <<blank>>
             T == Len(tail)
  <1>1. ASSUME NEW i \in 1..n
        PROVE  /\ Text(i) \in Seq(V) /\ Len(Text(i)) > 0 /\ Len(Text(i)) \in Nat /\ Text(i)[1] # blank
               /\ Sep(i) \in Seq(V) /\ Len(Sep(i)) = (IF i = 1 THEN 0 ELSE 1) /\ s[i] = Sep(i) \o Text(i)
               /\ s[i] \in Seq(V)
    <2> DEFINE pair == pairs[i]
    <2>1. pair.name \in Seq(NameChars) /\ Len(pair.name) > 0 /\ pair.value \in Seq(V)
      BY Zenon DEF ProperPairs
    <2>2. pair.name \in Seq(V)
      <3> DEFINE name == pair.name
      <3>1. name \in Seq(NameChars)
        BY <2>1, Zenon
      <3> HIDE DEF name
      <3>2. name \in Seq(V)
        BY <3>1
      <3>3. QED BY <3>2, Zenon DEF name
    <2> HIDE DEF pair
    <2>3. PairText(pair, special) \in Seq(V) /\ Len(PairText(pair, special)) > 0
      BY <2>1, <2>2, PairSeq, Zenon
    <2>4. PairText(pair, special)[1] # blank
      <3> DEFINE name == pair.name
                 x == ValueText(pair, special)
      <3>1. PairText(pair, special) = (name \o <<"=">>) \o x
        BY Zenon DEF PairText
      <3>2. x \in Seq(V)
        <4>1. Escape(pair.value, {"'", "\\"}) \in Seq(V) /\ Escape(pair.value, special) \in Seq(V)
          BY <2>1, EscapeSeq, Zenon
        <4> DEFINE q == Escape(pair.value, {"'", "\\"})
        <4> HIDE DEF q
        <4>2. q \in Seq(V)
          BY <4>1, Zenon DEF q
        <4>3. <<"'">> \o q \o <<"'">> \in Seq(V)
          BY <4>2
        <4>4. QED BY <4>1, <4>3, Zenon DEF ValueText, q
      <3>3. name \in Seq(NameChars) /\ Len(name) > 0 /\ name \in Seq(V)
        BY <2>1, <2>2, Zenon
      <3> HIDE DEF name, x
      <3>4. ((name \o <<"=">>) \o x)[1] = name[1] /\ name[1] \in NameChars
        BY <3>2, <3>3
      <3>5. QED BY <3>1, <3>4, Zenon
    <2>5. <<>> \in Seq(V) /\ Len(<<>>) = 0 /\ <<blank>> \in Seq(V) /\ Len(<<blank>>) = 1
      OBVIOUS
    <2>6. Sep(i) \in Seq(V) /\ Len(Sep(i)) = (IF i = 1 THEN 0 ELSE 1)
      <3>1. CASE i = 1
        <4>1. Sep(i) = <<>> /\ (IF i = 1 THEN 0 ELSE 1) = 0
          BY <3>1, Zenon
        <4> HIDE DEF Sep
        <4>2. QED BY <2>5, <4>1, Zenon
      <3>2. CASE i # 1
        <4>1. Sep(i) = <<blank>> /\ (IF i = 1 THEN 0 ELSE 1) = 1
          BY <3>2, Zenon
        <4> HIDE DEF Sep
        <4>2. QED BY <2>5, <4>1, Zenon
      <3>3. QED BY <3>1, <3>2, Zenon
    <2>7. s[i] = Sep(i) \o Text(i)
      BY Zenon DEF Spaced
    <2> DEFINE t == Text(i)
               w == Sep(i)
    <2>8. t \in Seq(V) /\ Len(t) > 0 /\ t[1] # blank
      BY <2>3, <2>4, Zenon DEF pair
    <2> HIDE DEF t, w
    <2>9. Len(t) \in Nat /\ (w \in Seq(V) => w \o t \in Seq(V))
      BY <2>8
    <2>10. QED BY <2>6, <2>7, <2>8, <2>9, Zenon DEF t, w
  <1>2. s \in [1..n -> Seq(V)]
    BY <1>1, Zenon DEF Spaced
  <1> HIDE DEF s
  <1>3. flat \in Seq(V)
    BY <1>2, FlattenAt, Zenon
  <1> HIDE DEF flat
  <1>4. str \in Seq(V) /\ N \in Nat /\ T \in Nat /\ N = Len(flat) + T /\ Len(flat) \in Nat
    BY <1>3
  <1>5. At(str, 0, flat) /\ At(str, Len(flat), tail)
    <2>1. 0 + N <= N /\ \A k \in 1..N : 0 + k = k
      BY <1>4
    <2>2. At(str, 0, flat \o tail)
      BY <2>1 DEF At
    <2> HIDE DEF str
    <2>3. At(str, 0, flat) /\ At(str, 0 + Len(flat), tail)
      BY <1>3, <1>4, <2>2, AtConcat
    <2>4. 0 + Len(flat) = Len(flat)
      BY <1>4
    <2>5. QED BY <2>3, <2>4
  <1> HIDE DEF str
  <1>6. PICK pos \in [0..n -> Nat] : AllAt(str, 0, s, n, pos)
    BY <1>2, <1>4, <1>5, AtFlatten, Zenon DEF flat
  <1>7. pos[0] = 0 /\ pos[n] = Len(flat)
    BY <1>6, Zenon DEF AllAt, flat
  <1> DEFINE at == [i \in 1..n + 1 |-> IF i = 1 THEN 0
                                      ELSE IF i = n + 1 /\ T = 0 THEN pos[n] ELSE pos[i - 1] + 1]
  <1>8. at \in [1..n + 1 -> Nat] /\ n \in 0..n /\ pos[n] \in Nat
    <2>1. \A i \in 1..n + 1 : i # 1 => i - 1 \in 0..n
      OBVIOUS
    <2> HIDE DEF T
    <2>2. QED BY <2>1
  <1>9. ASSUME NEW i \in 1..n
        PROVE  /\ i - 1 \in 0..n /\ pos[i - 1] \in Nat /\ pos[i] \in Nat
               /\ at[i] = pos[i - 1] + Len(Sep(i)) /\ at[i] \in Nat
    <2>1. i - 1 \in 0..n /\ i \in 0..n /\ i \in 1..n + 1 /\ i # n + 1
      OBVIOUS
    <2>2. pos[i - 1] \in Nat /\ pos[i] \in Nat
      BY <2>1
    <2>3. at[i] = IF i = 1 THEN 0 ELSE pos[i - 1] + 1
      <3> HIDE DEF T
      <3>1. QED BY <2>1
    <2> HIDE DEF at
    <2>4. Len(Sep(i)) = IF i = 1 THEN 0 ELSE 1
      BY <1>1, Zenon
    <2> DEFINE w == Sep(i)
    <2> HIDE DEF w
    <2>5. Len(w) = IF i = 1 THEN 0 ELSE 1
      BY <2>4, Zenon DEF w
    <2>6. at[i] = pos[i - 1] + Len(w) /\ at[i] \in Nat
      <3>1. CASE i = 1
        <4>1. pos[i - 1] = 0
          BY <1>7, <3>1
        <4>2. QED BY <2>3, <2>5, <3>1, <4>1
      <3>2. CASE i # 1
        BY <2>2, <2>3, <2>5, <3>2
      <3>3. QED BY <3>1, <3>2
    <2>7. QED BY <2>1, <2>2, <2>6, Zenon DEF w
  <1>10. at[1] = 0 /\ at[n + 1] = (IF T = 0 THEN pos[n] ELSE pos[n] + 1) /\ \A i \in 1..n - 1 : at[i + 1] = pos[i] + 1
    <2>1. 1 \in 1..n + 1 /\ n + 1 \in 1..n + 1 /\ n + 1 # 1 /\ (n + 1) - 1 = n
      OBVIOUS
    <2>2. \A i \in 1..n - 1 : i + 1 \in 1..n + 1 /\ i + 1 # 1 /\ i + 1 # n + 1 /\ (i + 1) - 1 = i
      OBVIOUS
    <2> HIDE DEF T
    <2>3. QED BY <2>1, <2>2
  <1> HIDE DEF at
  <1>11. ASSUME NEW i \in 1..n
         PROVE  /\ At(str, at[i], Text(i)) /\ at[i] + Len(Text(i)) = pos[i] /\ pos[i - 1] < pos[i]
                /\ at[i] + 1 <= N /\ str[at[i] + 1] # blank
                /\ i # 1 => str[pos[i - 1] + 1] = blank
    <2> DEFINE w == Sep(i)
               t == Text(i)
    <2>1. /\ w \in Seq(V) /\ t \in Seq(V) /\ s[i] = w \o t /\ Len(t) > 0 /\ Len(t) \in Nat /\ t[1] # blank
          /\ Len(w) = (IF i = 1 THEN 0 ELSE 1) /\ at[i] = pos[i - 1] + Len(w) /\ at[i] \in Nat
          /\ pos[i - 1] \in Nat /\ pos[i] \in Nat
      BY <1>1, <1>9, Zenon
    <2>2. pos[i] = pos[i - 1] + Len(s[i]) /\ At(str, 0 + pos[i - 1], s[i])
      BY <1>6, Zenon DEF AllAt
    <2>3. i # 1 => w = <<blank>>
      BY Zenon
    <2> HIDE DEF w, t
    <2>4. Len(w \o t) = Len(w) + Len(t) /\ Len(w) \in Nat /\ 0 + pos[i - 1] = pos[i - 1]
      <3>1. w \in Seq(V) /\ t \in Seq(V) /\ pos[i - 1] \in Nat
        BY <2>1, Zenon
      <3>2. Len(w \o t) = Len(w) + Len(t) /\ Len(w) \in Nat
        BY <3>1
      <3>3. 0 + pos[i - 1] = pos[i - 1]
        BY <3>1
      <3>4. QED BY <3>2, <3>3, Zenon
    <2>5. At(str, pos[i - 1], w \o t)
      BY <2>1, <2>2, <2>4, Zenon
    <2>6. At(str, pos[i - 1], w) /\ At(str, pos[i - 1] + Len(w), t)
      <3> DEFINE p == pos[i - 1]
      <3>1. p \in Nat /\ At(str, p, w \o t)
        BY <2>1, <2>5, Zenon
      <3> HIDE DEF p
      <3>2. At(str, p, w) /\ At(str, p + Len(w), t)
        BY <1>4, <2>1, <3>1, AtConcat
      <3>3. QED BY <3>2, Zenon DEF p
    <2>7. At(str, at[i], t)
      BY <2>1, <2>6, Zenon
    <2>8. at[i] + Len(t) <= N /\ str[at[i] + 1] = t[1]
      <3>1. 1 \in 1..Len(t)
        BY <2>1
      <3>2. QED BY <2>7, <3>1, Zenon DEF At
    <2>9. at[i] + Len(t) = pos[i] /\ pos[i - 1] < pos[i] /\ at[i] + 1 <= N
      <3>1. pos[i] = pos[i - 1] + (Len(w) + Len(t))
        BY <2>1, <2>2, <2>4, Zenon
      <3> DEFINE p == pos[i - 1]
                 l == Len(w)
                 m == Len(t)
      <3>2. /\ at[i] = p + l /\ p \in Nat /\ l \in Nat /\ m \in Nat /\ m > 0 /\ at[i] + m <= N /\ N \in Nat
            /\ pos[i] = p + (l + m) /\ at[i] \in Nat
        BY <1>4, <2>1, <2>4, <2>8, <3>1, Zenon
      <3> HIDE DEF N, p, l, m
      <3>3. at[i] + m = pos[i] /\ p < pos[i] /\ at[i] + 1 <= N
        BY <3>2
      <3>4. QED BY <3>3, Zenon DEF p, l, m
    <2>10. ASSUME i # 1
           PROVE  str[pos[i - 1] + 1] = blank
      <3> DEFINE p == pos[i - 1]
      <3>1. p \in Nat /\ At(str, p, <<blank>>)
        BY <2>1, <2>3, <2>6, <2>10, Zenon
      <3> HIDE DEF p
      <3>2. str[p + 1] = blank
        BY <3>1, AtOne, Zenon
      <3>3. QED BY <3>2, Zenon DEF p
    <2>11. QED BY <2>1, <2>7, <2>8, <2>9, <2>10, Zenon DEF t
  <1>12. \A i, j \in 0..n : i < j => pos[i] < pos[j]
    BY <1>11, Increasing
  <1>13. T > 0 => str[pos[n] + 1] = blank
    <2>1. T > 0 => 1 \in 1..Len(tail) /\ tail[1] = blank
      BY <1>4 DEF TailFits
    <2>2. QED BY <1>5, <1>7, <2>1, Zenon DEF At
  <1>14. T = 2 => str[pos[n] + 2] # blank
    <2>1. T = 2 => 2 \in 1..Len(tail) /\ tail[2] # blank
      BY DEF TailFits
    <2>2. QED BY <1>5, <1>7, <2>1, Zenon DEF At
  <1>15. N = pos[n] + T /\ T \in 0..2
    <2>1. N = pos[n] + T /\ T \in Nat /\ T <= 2
      BY <1>4, <1>7, Zenon DEF TailFits
    <2> HIDE DEF N, T
    <2>2. QED BY <2>1
  <1> HIDE DEF T, N
  <1>16. (T <= 1 => at[n + 1] = N) /\ (T = 2 => at[n + 1] + 1 = N)
    BY <1>4, <1>8, <1>10, <1>15
  <1>17. ASSUME NEW i \in 1..n + 1
         PROVE  at[i] + 1 > N \/ str[at[i] + 1] # blank
    <2>1. CASE i = n + 1
      <3>1. CASE T = 2
        <4>1. at[n + 1] + 1 = pos[n] + 2
          BY <1>8, <1>10, <3>1
        <4>2. QED BY <1>14, <2>1, <3>1, <4>1
      <3>2. CASE T # 2
        BY <1>4, <1>15, <1>16, <2>1, <3>2
      <3>3. QED BY <3>1, <3>2
    <2>2. CASE i # n + 1
      <3>1. i \in 1..n
        BY <2>2
      <3>2. QED BY <1>11, <3>1, Zenon
    <2>3. QED BY <2>1, <2>2
  <1>18. ASSUME NEW i \in 1..n
         PROVE  LET e == at[i] + Len(Text(i))
                IN  /\ At(str, at[i], Text(i)) /\ e \in Nat /\ e <= N
                    /\ e < N => str[e + 1] = blank /\ at[i + 1] = e + 1
                    /\ e = N <=> i = n /\ T = 0
                    /\ e = N => at[i + 1] = e
    <2> DEFINE e == at[i] + Len(Text(i))
    <2>1. At(str, at[i], Text(i)) /\ e = pos[i] /\ pos[i] \in Nat
      BY <1>9, <1>11, Zenon
    <2> HIDE DEF e
    <2>2. CASE i = n
      <3>1. e <= N /\ (e = N <=> T = 0) /\ (e < N => T > 0)
        BY <1>8, <1>15, <2>1, <2>2
      <3>2. (T > 0 => at[i + 1] = e + 1) /\ (T = 0 => at[i + 1] = e)
        BY <1>8, <1>10, <1>15, <2>1, <2>2
      <3>3. e < N => str[e + 1] = blank
        BY <1>13, <2>1, <2>2, <3>1, Zenon
      <3>4. QED BY <2>1, <2>2, <3>1, <3>2, <3>3, Zenon DEF e
    <2>3. CASE i # n
      <3>1. i \in 1..n - 1 /\ i \in 0..n /\ i < n /\ i + 1 \in 1..n /\ i + 1 # 1 /\ (i + 1) - 1 = i
        BY <2>3
      <3>2. pos[i] < pos[n]
        BY <1>8, <1>12, <3>1
      <3>3. e < N
        <4>1. e = pos[i] /\ pos[i] \in Nat /\ pos[n] \in Nat /\ T \in 0..2 /\ N = pos[n] + T
          BY <1>8, <1>15, <2>1, Zenon
        <4>2. QED BY <3>2, <4>1
      <3>4. at[i + 1] = e + 1
        BY <1>10, <2>1, <3>1, Zenon
      <3>5. str[e + 1] = blank
        <4>1. str[pos[(i + 1) - 1] + 1] = blank
          BY <1>11, <3>1, Zenon
        <4>2. QED BY <2>1, <3>1, <4>1, Zenon
      <3>6. e \in Nat /\ e <= N /\ e # N
        BY <1>4, <2>1, <3>3
      <3>7. QED BY <2>1, <2>3, <3>3, <3>4, <3>5, <3>6, Zenon DEF e
    <2>4. QED BY <2>2, <2>3, Zenon
  <1>19. Chained(str, pairs, n, blank, special, T, at)
    BY <1>10, <1>16, <1>17, <1>18, Zenon DEF Chained, N
  <1>20. QED BY <1>4, <1>8, <1>19, Zenon DEF str, flat, s, T

\* What set_from_string returns for settings that are written one after the other.
LEMMA SettingsParsed ==
  ASSUME NEW V, NEW blank \in V, NEW quotes, NEW special, blank \notin NameChars, "=" \notin NameChars,
         "\\" \in V, "=" \in V, "'" \in V, NameChars \subseteq V, Ends(blank, quotes, special),
         NEW pairs, NEW n \in Nat, n > 0,
         ProperPairs(V, pairs, n),
         NEW tail \in Seq(V), TailFits(blank, tail)
  PROVE  Right(pairs, n, Len(tail), SetAll(FlattenSeq(Spaced(pairs, n, blank, special)) \o tail, blank, quotes), 1)
  <1> DEFINE str == FlattenSeq(Spaced(pairs, n, blank, special)) \o tail
             left == Len(tail)
  <1>1. str \in Seq(V) /\ \E at \in [1..n + 1 -> Nat] : Chained(str, pairs, n, blank, special, left, at)
    BY SettingsChained
  <1>2. left \in 0..2
    <2> HIDE DEF str
    <2>1. left \in Nat /\ left <= 2
      BY DEF TailFits
    <2> HIDE DEF left
    <2>2. QED BY <2>1
  <1> HIDE DEF str, left
  <1>3. PICK at \in [1..n + 1 -> Nat] : Chained(str, pairs, n, blank, special, left, at)
    BY <1>1, Zenon
  <1>4. PICK from : SetAll(str, blank, quotes) = from[1] /\ FromEach(str, from, blank, quotes)
    BY <1>1, SetAllFrom, Zenon
  <1>5. Right(pairs, n, left, from[1], 1)
    BY <1>1, <1>2, <1>3, <1>4, SettingsRead, Zenon
  <1>6. QED BY <1>4, <1>5, Zenon DEF str, left

\* A tail with at most one other character, and how long it is.
TailOf(blank, c, d, tail) == tail \in {<<>>, <<blank>>, <<blank, c>>, <<blank, d>>}
TailKind(blank, tail) == (Len(tail) <= 1 <=> tail \in {<<>>, <<blank>>}) /\ (Len(tail) = 0 <=> tail = <<>>)

\* The tails a client may write.
LEMMA TailIs ==
  ASSUME NEW V, NEW blank \in V, NEW c \in V, NEW d \in V, c # blank, d # blank,
         NEW tail, TailOf(blank, c, d, tail)
  PROVE  tail \in Seq(V) /\ TailFits(blank, tail) /\ TailKind(blank, tail)
  <1>1. CASE tail = <<>>
    BY <1>1 DEF TailFits, TailKind
  <1>2. CASE tail = <<blank>>
    BY <1>2 DEF TailFits, TailKind
  <1>3. CASE tail = <<blank, c>>
    BY <1>3 DEF TailFits, TailKind
  <1>4. CASE tail = <<blank, d>>
    BY <1>4 DEF TailFits, TailKind
  <1>5. QED BY <1>1, <1>2, <1>3, <1>4, Zenon DEF TailOf

\* What a client gets for its settings: SettingsRoundTrip of one request.
SettingsFor(pairs, tail, got) ==
  LET meant == MeantSettings(pairs)
  IN  IF tail \in {<<>>, <<" ">>} /\ ~(tail = <<>> /\ Last(pairs).quoted)
      THEN /\ got # <<>>
           /\ \A name \in {<<"h">>, <<"u">>} :
                setting(got[1], name) =
                  IF name \in DOMAIN meant THEN <<meant[name]>>
                  ELSE IF name = <<"h">> THEN <<<<"localhost">>>> ELSE <<>>
      ELSE got = <<>>

\* The last value of each name is the one that is meant.
LEMMA HoldsMeant ==
  ASSUME NEW pairs, NEW n \in Nat, DOMAIN pairs = 1..n, NEW hash, HoldsSettings(pairs, n, hash, 1)
  PROVE  /\ DOMAIN hash = DOMAIN MeantSettings(pairs)
         /\ \A name \in DOMAIN hash : hash[name] = MeantSettings(pairs)[name]
  <1> DEFINE D == {pairs[i].name : i \in 1..n}
             Of(name) == {i \in 1..n : pairs[i].name = name}
             meant == MeantSettings(pairs)
  <1>1. DOMAIN hash = D
    BY Zenon DEF HoldsSettings
  <1>2. meant = [name \in D |-> pairs[Max(Of(name))].value]
    BY Zenon DEF MeantSettings
  <1> HIDE DEF meant
  <1>3. DOMAIN meant = D
    BY <1>2, Zenon
  <1>4. ASSUME NEW name \in D
        PROVE  hash[name] = meant[name]
    <2> DEFINE S == Of(name)
    <2>1. S \subseteq 1..n /\ S # {}
      BY Zenon
    <2>2. \A i : i \in S <=> i \in 1..n /\ pairs[i].name = name
      BY Zenon
    <2> HIDE DEF S
    <2>3. PICK x \in S : \A y \in S : x >= y
      BY <2>1, GreatestOf
    <2>4. S \subseteq Int
      BY <2>1
    <2>5. Max(S) = x
      BY <2>3, <2>4, GreatestIs
    <2>6. x \in 1..n /\ pairs[x].name = name
      BY <2>2, <2>3, Zenon
    <2>7. ASSUME NEW l \in x + 1..n, pairs[l].name = name
          PROVE  FALSE
      <3>1. l \in 1..n /\ ~(x >= l)
        BY <2>6
      <3>2. QED BY <2>2, <2>3, <2>7, <3>1, Zenon
    <2>8. hash[name] = pairs[x].value
      BY <2>6, <2>7, Zenon DEF HoldsSettings
    <2>9. meant[name] = pairs[Max(S)].value
      BY <1>2, Zenon DEF S
    <2>10. QED BY <2>5, <2>8, <2>9, Zenon
  <1>5. QED BY <1>1, <1>3, <1>4, Zenon DEF meant

\* A client gets the settings it wrote.
LEMMA SettingsGot ==
  ASSUME NEW pairs \in Written, NEW tail \in Tails
  PROVE  SettingsFor(pairs, tail, settings_new_from_string(WriteSettings(pairs, tail)))
  <1> DEFINE n == Len(pairs)
             special == {" ", "'", "\"", "\\"}
             A == UNION {ToSet(pairs[i].value) : i \in 1..n}
             C == {" ", "'", "\\", "=", "?"}
             V == A \cup (NameChars \cup C)
             str == WriteSettings(pairs, tail)
             set == SetAll(str, " ", Quotes)
             left == Len(tail)
  <1>1. /\ pairs \in Seq(ToSet(pairs)) /\ pairs # <<>>
        /\ \A i \in DOMAIN pairs : /\ pairs[i].name \in Seq(NameChars) /\ pairs[i].name # <<>>
                                   /\ pairs[i].value \in Seq(ToSet(pairs[i].value))
    BY WrittenAssumption, Zenon
  <1>2. n \in Nat /\ n > 0 /\ DOMAIN pairs = 1..n /\ Last(pairs) = pairs[n]
    <2>1. pairs \in Seq(ToSet(pairs)) /\ pairs # <<>>
      BY <1>1, Zenon
    <2> DEFINE W == ToSet(pairs)
    <2>2. pairs \in Seq(W)
      BY <2>1, Zenon
    <2> HIDE DEF W
    <2>3. n \in Nat /\ n > 0 /\ DOMAIN pairs = 1..n
      <3> HIDE DEF V, special, str, set, left
      <3>1. QED BY <2>1, <2>2
    <2>4. QED BY <2>3, Zenon DEF Last
  <1>3. /\ " " \in V /\ "'" \in V /\ "\\" \in V /\ "=" \in V /\ "?" \in V /\ "u" \in V /\ NameChars \subseteq V
        /\ " " \notin NameChars /\ "=" \notin NameChars /\ "?" # " " /\ "u" # " "
    <2>1. " " \in C /\ "'" \in C /\ "\\" \in C /\ "=" \in C /\ "?" \in C
      BY Zenon
    <2>2. "u" \in NameChars
      BY Zenon DEF NameChars
    <2>3. C \subseteq V /\ NameChars \subseteq V
      <3> HIDE DEF A, C
      <3>1. QED BY Zenon
    <2>4. " " \notin NameChars
      BY Zenon DEF NameChars
    <2>5. "=" \notin NameChars
      BY Zenon DEF NameChars
    <2>6. "?" # " " /\ "u" # " "
      BY Zenon
    <2> HIDE DEF V, C
    <2>7. QED BY <2>1, <2>2, <2>3, <2>4, <2>5, <2>6, Zenon
  <1>4. Ends(" ", Quotes, special)
    BY Zenon DEF Ends, Quotes
  <1>5. ASSUME NEW i \in 1..n
        PROVE  pairs[i].name \in Seq(NameChars) /\ Len(pairs[i].name) > 0 /\ pairs[i].value \in Seq(V)
    <2> DEFINE name == pairs[i].name
               value == pairs[i].value
               W == ToSet(value)
    <2>1. name \in Seq(NameChars) /\ name # <<>> /\ value \in Seq(W)
      BY <1>1, <1>2, Zenon
    <2>2. W \subseteq V
      BY Zenon
    <2> HIDE DEF name, value, W, V, special, str, set, left, n
    <2>3. Len(name) > 0 /\ value \in Seq(V)
      BY <2>1, <2>2
    <2>4. QED BY <2>1, <2>3, Zenon DEF name, value
  <1>6. str = FlattenSeq(Spaced(pairs, n, " ", special)) \o tail
    BY <1>2, Zenon DEF WriteSettings, WritePair, Spaced, PairText, ValueText
  <1> HIDE DEF V, special, n
  <1>7. /\ tail \in Seq(V) /\ TailFits(" ", tail)
        /\ (left <= 1 <=> tail \in {<<>>, <<" ">>}) /\ (left = 0 <=> tail = <<>>)
    <2>1. TailOf(" ", "?", "u", tail)
      BY Zenon DEF Tails, TailOf
    <2>2. tail \in Seq(V) /\ TailFits(" ", tail) /\ TailKind(" ", tail)
      BY <1>3, <2>1, TailIs, Zenon
    <2>3. QED BY <2>2, Zenon DEF TailKind
  <1>8. ProperPairs(V, pairs, n)
    BY <1>5, Zenon DEF ProperPairs
  <1>9. Right(pairs, n, left, set, 1)
    BY <1>2, <1>3, <1>4, <1>6, <1>8, <1>7, SettingsParsed, Zenon
  <1>10. set_from_string(str) = set
    BY SetAllIs, Zenon
  <1> DEFINE got == settings_new_from_string(str)
  <1>11. got = IF set.ret < 0 THEN <<>> ELSE <<set.hash>>
    BY <1>10, Zenon DEF settings_new_from_string
  <1>12. AllSettings(pairs, n, left) <=> tail \in {<<>>, <<" ">>} /\ ~(tail = <<>> /\ Last(pairs).quoted)
    BY <1>2, <1>7, Zenon DEF AllSettings
  <1>13. CASE AllSettings(pairs, n, left)
    <2>1. set.ret = 0 /\ HoldsSettings(pairs, n, set.hash, 1)
      BY <1>9, <1>13, Zenon DEF Right
    <2> DEFINE hash == set.hash
               ret == set.ret
    <2>2. got = <<hash>>
      <3>1. ret = 0
        BY <2>1, Zenon
      <3>2. ~(0 < 0)
        BY SMT
      <3>3. QED BY <1>11, <3>1, <3>2, Zenon
    <2> HIDE DEF hash, got
    <2>3. <<hash>> # <<>> /\ <<hash>>[1] = hash
      <3> HIDE DEF str, set, left, ret
      <3>1. QED BY SMT
    <2>4. /\ DOMAIN hash = DOMAIN MeantSettings(pairs)
          /\ \A name \in DOMAIN hash : hash[name] = MeantSettings(pairs)[name]
      BY <1>2, <2>1, HoldsMeant, Zenon DEF hash
    <2>5. \A name \in {<<"h">>, <<"u">>} :
            setting(hash, name) =
              IF name \in DOMAIN MeantSettings(pairs) THEN <<MeantSettings(pairs)[name]>>
              ELSE IF name = <<"h">> THEN <<<<"localhost">>>> ELSE <<>>
      BY <2>4, Zenon DEF setting
    <2>6. got # <<>> /\ got[1] = hash
      BY <2>2, <2>3, Zenon
    <2>7. SettingsFor(pairs, tail, got)
      BY <1>12, <1>13, <2>5, <2>6, Zenon DEF SettingsFor
    <2>8. QED BY <2>7, Zenon DEF got
  <1>14. CASE ~AllSettings(pairs, n, left)
    <2>1. set.ret = -1
      BY <1>9, <1>14, Zenon DEF Right
    <2>2. -1 < 0
      BY SMT
    <2>3. got = <<>>
      BY <1>11, <2>1, <2>2, Zenon
    <2> HIDE DEF got
    <2>4. SettingsFor(pairs, tail, got)
      BY <1>12, <1>14, <2>3, Zenon DEF SettingsFor
    <2>5. QED BY <2>4, Zenon DEF got
  <1>15. QED BY <1>13, <1>14, Zenon

\* Every step keeps SettingsRoundTrip.
LEMMA SettingsStep ==
  ASSUME SettingsRoundTrip, [Next]_vars
  PROVE  SettingsRoundTrip'
  <1>1. ASSUME request'.what # "settings"
        PROVE  SettingsRoundTrip'
    BY <1>1, Zenon DEF SettingsRoundTrip
  <1>2. ASSUME NEW pairs \in Written, NEW tail \in Tails, NewSettings(pairs, tail)
        PROVE  SettingsRoundTrip'
    <2>1. /\ request' = [what |-> "settings", pairs |-> pairs, tail |-> tail]
          /\ answer' = settings_new_from_string(WriteSettings(pairs, tail))
      BY <1>2, Zenon DEF NewSettings
    <2>2. request'.pairs = pairs /\ request'.tail = tail
      BY <2>1
    <2>3. SettingsFor(pairs, tail, answer')
      BY <2>1, SettingsGot, Zenon
    <2>4. QED BY <2>2, <2>3, Zenon DEF SettingsRoundTrip, SettingsFor
  <1>3. ASSUME NEW op, NEW val, NEW nulls, Ask(op, val, nulls)
        PROVE  SettingsRoundTrip'
    <2>1. request' = [what |-> "criterion", op |-> op, val |-> val, nulls |-> nulls]
      BY <1>3, Zenon DEF Ask
    <2>2. request'.what # "settings"
      BY <2>1
    <2>3. QED BY <1>1, <2>2, Zenon
  <1>4. ASSUME AskText \/ AskRegex \/ AskTime \/ AskBrokenDown
        PROVE  SettingsRoundTrip'
    BY <1>3, <1>4, Zenon DEF AskText, AskRegex, AskTime, AskBrokenDown
  <1>5. ASSUME NEW sel \in Selections, AddSelected(sel)
        PROVE  SettingsRoundTrip'
    <2>1. request' = [what |-> "selection", sel |-> sel]
      BY <1>5, Zenon DEF AddSelected
    <2>2. request'.what # "settings"
      BY <2>1
    <2>3. QED BY <1>1, <2>2, Zenon
  <1>6. ASSUME NEW kind, NEW op, NEW v, NEW order, NEW limit, NextPage(kind, op, v, order, limit)
        PROVE  SettingsRoundTrip'
    <2>1. request' = [what |-> "page", kind |-> kind, op |-> op, v |-> v, order |-> order]
      BY <1>6, Zenon DEF NextPage
    <2>2. request'.what # "settings"
      BY <2>1
    <2>3. QED BY <1>1, <2>2, Zenon
  <1>7. ASSUME NEW string \in StringValues, StoreString(string)
        PROVE  SettingsRoundTrip'
    <2>1. request' = [what |-> "string", string |-> string]
      BY <1>7, Zenon DEF StoreString
    <2>2. request'.what # "settings"
      BY <2>1
    <2>3. QED BY <1>1, <2>2, Zenon
  <1>8. ASSUME NEW d \in DataValues, StoreData(d.adtype, d.data)
        PROVE  SettingsRoundTrip'
    <2>1. request' = [what |-> "data", adtype |-> d.adtype, data |-> d.data]
      BY <1>8, Zenon DEF StoreData
    <2>2. request'.what # "settings"
      BY <2>1
    <2>3. QED BY <1>1, <2>2, Zenon
  <1>9. ASSUME NEW time \in TimeValues, NEW has_usec \in BOOLEAN, StoreTime(time, has_usec)
        PROVE  SettingsRoundTrip'
    <2>1. request' = [what |-> "time", time |-> time, has_usec |-> has_usec]
      BY <1>9, Zenon DEF StoreTime
    <2>2. request'.what # "settings"
      BY <2>1
    <2>3. QED BY <1>1, <2>2, Zenon
  <1>10. CASE UNCHANGED vars
    BY <1>10, Zenon DEF vars, SettingsRoundTrip
  <1>11. QED BY <1>2, <1>4, <1>5, <1>6, <1>7, <1>8, <1>9, <1>10, Zenon DEF Next

\* Settings come back as the client wrote them, whatever their number, their names
\* and the characters of their values: SettingsRoundTrip of every specification of a
\* client.
THEOREM SettingsCorrect == Spec => []SettingsRoundTrip
  <1>1. Init => SettingsRoundTrip
    <2>1. ASSUME Init
          PROVE  SettingsRoundTrip
      <3>1. request = [what |-> "nothing"]
        BY <2>1, Zenon DEF Init, NoRequest
      <3>2. request.what # "settings"
        BY <3>1
      <3>3. QED BY <3>2, Zenon DEF SettingsRoundTrip
    <2>2. QED BY <2>1
  <1>2. SettingsRoundTrip /\ [Next]_vars => SettingsRoundTrip'
    BY SettingsStep
  <1>3. QED BY <1>1, <1>2, PTL DEF Spec
=============================================================================
