------------------------------ MODULE SqlCriteria ------------------------------
(***************************************************************************)
(* How a criterion, a limit and an offset become SQL: the build functions   *)
(* of src/src/requiemdb-sql.c and of the three SQL plugins, and what the    *)
(* servers make of the result.                                              *)
(*                                                                         *)
(* The text of a clause is abstracted to what the server reads in it: an    *)
(* SQL operator to its relation and whether it ignores case, a constraint   *)
(* to its operator and its value.  Quoting a value is the client library's, *)
(* and the server reads back what was quoted.  A field is <<>> for NULL, or *)
(* <<value>>; a text is a sequence of characters.  A build function returns *)
(* <<>> for an error and <<condition>> otherwise.                           *)
(***************************************************************************)
EXTENDS Integers, Sequences, FiniteSets, SequencesExt

Backend == {"mysql", "pgsql", "sqlite3"}

-----------------------------------------------------------------------------
(***************************************************************************)
(* Criterion operators (librequiem) and SQL operators                      *)
(***************************************************************************)

\* The operators with the bits SUBSTR, NOCASE and NOT of librequiem.
SubstrOperators == {"SUBSTR", "SUBSTR_NOCASE", "NOT_SUBSTR", "NOT_SUBSTR_NOCASE"}
RegexOperators  == {"REGEX", "REGEX_NOCASE", "NOT_REGEX", "NOT_REGEX_NOCASE"}
EqualOperators  == {"EQUAL", "EQUAL_NOCASE", "NOT_EQUAL", "NOT_EQUAL_NOCASE"}
OrderOperators  == {"GREATER", "GREATER_OR_EQUAL", "LESSER", "LESSER_OR_EQUAL"}
NullOperators   == {"NULL", "NOT_NULL"}

NocaseOperators ==
  {"EQUAL_NOCASE", "NOT_EQUAL_NOCASE", "SUBSTR_NOCASE", "NOT_SUBSTR_NOCASE",
   "REGEX_NOCASE", "NOT_REGEX_NOCASE"}

NotOperators ==
  {"NOT_EQUAL", "NOT_EQUAL_NOCASE", "NOT_SUBSTR", "NOT_SUBSTR_NOCASE",
   "NOT_REGEX", "NOT_REGEX_NOCASE", "NOT_NULL"}

\* An SQL operator: the relation, and whether the server ignores case.
Exact(rel) == [rel |-> rel, fold |-> FALSE]
Fold(rel)  == [rel |-> rel, fold |-> TRUE]

\* The comparisons, which need no collation: the same in the three plugins.
OrderTable ==
  [GREATER |-> Exact(">"), GREATER_OR_EQUAL |-> Exact(">="),
   LESSER |-> Exact("<"), LESSER_OR_EQUAL |-> Exact("<="),
   NULL |-> Exact("IS NULL"), NOT_NULL |-> Exact("IS NOT NULL")]

\* get_operator_string of mysql.c: "... BINARY" compares bytes, without it the
\* collation of the column ignores case.  The two NOT REGEXP are swapped.
mysql_operators ==
  [EQUAL      |-> Exact("="),          EQUAL_NOCASE      |-> Fold("="),
   NOT_EQUAL  |-> Exact("!="),         NOT_EQUAL_NOCASE  |-> Fold("!="),
   SUBSTR     |-> Exact("LIKE"),       SUBSTR_NOCASE     |-> Fold("LIKE"),
   NOT_SUBSTR |-> Exact("NOT LIKE"),   NOT_SUBSTR_NOCASE |-> Fold("NOT LIKE"),
   REGEX      |-> Exact("REGEXP"),     REGEX_NOCASE      |-> Fold("REGEXP"),
   NOT_REGEX  |-> Fold("NOT REGEXP"),  NOT_REGEX_NOCASE  |-> Exact("NOT REGEXP")]

\* get_operator_string of pgsql.c: ILIKE, ~* and !~* ignore case; there is no
\* operator for EQUAL_NOCASE.
pgsql_operators ==
  [EQUAL      |-> Exact("="),          NOT_EQUAL         |-> Exact("!="),
   SUBSTR     |-> Exact("LIKE"),       SUBSTR_NOCASE     |-> Fold("LIKE"),
   NOT_SUBSTR |-> Exact("NOT LIKE"),   NOT_SUBSTR_NOCASE |-> Fold("NOT LIKE"),
   REGEX      |-> Exact("REGEXP"),     REGEX_NOCASE      |-> Fold("REGEXP"),
   NOT_REGEX  |-> Exact("NOT REGEXP"), NOT_REGEX_NOCASE  |-> Fold("NOT REGEXP")]

\* get_operator_string of sqlite3.c: LIKE ignores case whatever the criterion
\* asks for, and the function behind REGEXP does not.
sqlite3_operators ==
  [EQUAL      |-> Exact("="),          EQUAL_NOCASE      |-> Exact("="),
   NOT_EQUAL  |-> Exact("!="),         NOT_EQUAL_NOCASE  |-> Exact("!="),
   SUBSTR     |-> Fold("LIKE"),        SUBSTR_NOCASE     |-> Fold("LIKE"),
   NOT_SUBSTR |-> Fold("NOT LIKE"),    NOT_SUBSTR_NOCASE |-> Fold("NOT LIKE"),
   REGEX      |-> Exact("REGEXP"),     REGEX_NOCASE      |-> Exact("REGEXP"),
   NOT_REGEX  |-> Exact("NOT REGEXP"), NOT_REGEX_NOCASE  |-> Exact("NOT REGEXP")]

\* get_operator_string, <<>> for NULL.
get_operator_string(b, op) ==
  LET tbl == CASE b = "mysql"   -> mysql_operators
               [] b = "pgsql"   -> pgsql_operators
               [] b = "sqlite3" -> sqlite3_operators
  IN  IF op \in DOMAIN tbl THEN <<tbl[op]>>
      ELSE IF op \in DOMAIN OrderTable THEN <<OrderTable[op]>> ELSE <<>>

-----------------------------------------------------------------------------
(***************************************************************************)
(* Conditions: [or_null, not, tests], which reads                          *)
(*   (field IS NULL OR NOT (test AND test ...))                            *)
(* A test is "null", "not null", a comparison of the field or of a part of *)
(* its time.                                                               *)
(***************************************************************************)

Condition(tests) == [or_null |-> FALSE, not |-> FALSE, tests |-> tests]

\* "field operator value", or "lower(field) operator lower(value)".
Compare(sqlop, lower, v) == [test |-> "compare", sqlop |-> sqlop, lower |-> lower, value |-> v]

\* sql_build_constraint_string of mysql.c.
mysql_build_constraint(op, v) ==
  LET found == get_operator_string("mysql", op)
  IN  IF found = <<>> THEN <<>> ELSE <<Condition({Compare(found[1], FALSE, v)})>>

\* sql_build_constraint_string of pgsql.c: lower() where there is no operator.
pgsql_build_constraint(op, v) ==
  LET found == get_operator_string("pgsql", op)
  IN  IF found # <<>> THEN <<Condition({Compare(found[1], FALSE, v)})>>
      ELSE IF op = "EQUAL_NOCASE" THEN <<Condition({Compare(Exact("="), TRUE, v)})>>
      ELSE IF op = "NOT_EQUAL_NOCASE" THEN <<Condition({Compare(Exact("!="), TRUE, v)})>>
      ELSE <<>>

\* sql_build_constraint_string of sqlite3.c: lower() with every NOCASE operator.
sqlite3_build_constraint(op, v) ==
  LET found == get_operator_string("sqlite3", op)
  IN  IF found = <<>> THEN <<>>
      ELSE <<Condition({Compare(found[1], op \in NocaseOperators, v)})>>

\* _requiemdb_plugin_sql_build_constraint_string.
build_constraint_string(b, op, v) ==
  CASE b = "mysql"   -> mysql_build_constraint(op, v)
    [] b = "pgsql"   -> pgsql_build_constraint(op, v)
    [] b = "sqlite3" -> sqlite3_build_constraint(op, v)

-----------------------------------------------------------------------------
(***************************************************************************)
(* Values                                                                  *)
(***************************************************************************)

\* Position i of a pattern is escaped by the backslash before it: escape_next.
EscapedIn(pattern) ==
  LET escape_next[i \in 1..Len(pattern)] ==
        i > 1 /\ pattern[i - 1] = "\\" /\ ~escape_next[i - 1]
  IN  escape_next

\* Mutant of LikeValue: the star of "\*" is converted too.
LikeValueAll(pattern) ==
  FlattenSeq([i \in 1..Len(pattern) |->
    IF pattern[i] = "%" THEN <<"\\", "%">>
    ELSE IF pattern[i] = "*" THEN <<"%">> ELSE <<pattern[i]>>])

\* build_criterion_fixed_sql_like_value: "%" is always escaped, "*" becomes "%"
\* unless it is escaped, and every other character is copied, "\" too.
LikeValue(pattern) ==
  FlattenSeq([i \in 1..Len(pattern) |->
    IF pattern[i] = "%" THEN <<"\\", "%">>
    ELSE IF pattern[i] = "*" /\ ~EscapedIn(pattern)[i] THEN <<"%">> ELSE <<pattern[i]>>])

\* requiemdb_sql_time_to_timestamp: the timestamp of the SQL column has seconds,
\* in UTC; offset and microseconds are columns of their own.
Timestamp(time) == time.sec

\* build_criterion_fixed_sql_value.  A value is [type, v] with type "time" or
\* "text".
FixedSqlValue(val, op) ==
  IF val.type = "time" THEN Timestamp(val.v)
  ELSE IF op \in SubstrOperators THEN LikeValue(val.v)
  ELSE val.v

\* build_criterion_fixed_value.
FixedValue(b, op, val) == build_constraint_string(b, op, FixedSqlValue(val, op))

\* build_criterion_regex.
Regex(b, op, regex) == build_constraint_string(b, op, regex)

-----------------------------------------------------------------------------
(***************************************************************************)
(* Broken-down times: a struct tm whose unset fields are -1                *)
(***************************************************************************)

TmFields == {"tm_year", "tm_mon", "tm_yday", "tm_mday", "tm_wday", "tm_hour", "tm_min", "tm_sec"}

\* "part of the time = value".
PartTest(part, value) == [test |-> "part", part |-> part, value |-> value]

\* sql_build_time_constraint_string of mysql.c, called with a GMT offset of 0:
\* DAYOFWEEK counts the days from 1.
mysql_time_constraint(part, value) ==
  PartTest(part, IF part = "tm_wday" THEN (value % 7) + 1 ELSE value)

\* sql_build_time_constraint_string of pgsql.c: the same number for DOW, which
\* counts from 0.
pgsql_time_constraint(part, value) ==
  PartTest(part, IF part = "tm_wday" THEN (value % 7) + 1 ELSE value)

\* sql_build_time_constraint_string of sqlite3.c: %w counts from 0.
sqlite3_time_constraint(part, value) ==
  PartTest(part, IF part = "tm_wday" THEN value % 7 ELSE value)

\* _requiemdb_plugin_sql_build_time_constraint_string.
build_time_constraint_string(b, part, value) ==
  CASE b = "mysql"   -> mysql_time_constraint(part, value)
    [] b = "pgsql"   -> pgsql_time_constraint(part, value)
    [] b = "sqlite3" -> sqlite3_time_constraint(part, value)

\* The SQL year and month of a struct tm.
PartValue(lt, part) ==
  CASE part = "tm_year" -> lt[part] + 1900
    [] part = "tm_mon"  -> lt[part] + 1
    [] OTHER            -> lt[part]

\* build_criterion_broken_down_time_equal: one test for every field that is set.
BrokenDownTimeEqual(b, lt) ==
  Condition({build_time_constraint_string(b, part, PartValue(lt, part)) :
               part \in {p \in TmFields : lt[p] # -1}})

\* build_criterion_broken_down_time, and ..._not_equal, which negates it.
BrokenDownTime(b, op, lt) ==
  CASE op = "EQUAL"     -> <<BrokenDownTimeEqual(b, lt)>>
    [] op = "NOT_EQUAL" -> <<[BrokenDownTimeEqual(b, lt) EXCEPT !.not = TRUE]>>
    [] OTHER            -> <<>>

-----------------------------------------------------------------------------
(***************************************************************************)
(* requiemdb_sql_build_criterion_string                                    *)
(***************************************************************************)

\* The constraint of a criterion that needs a value: by the type of the value.
Constraint(b, op, val) ==
  CASE val.type = "regex"       -> Regex(b, op, val.v)
    [] val.type = "broken down" -> BrokenDownTime(b, op, val.v)
    [] OTHER                    -> FixedValue(b, op, val)

\* Mutant of build_criterion_string: NULL fields are not added to a negation.
build_criterion_stringNoNull(b, op, val) ==
  IF op = "NULL" THEN <<Condition({[test |-> "null"]})>>
  ELSE IF op = "NOT_NULL" THEN <<Condition({[test |-> "not null"]})>>
  ELSE Constraint(b, op, val)

\* A negated operator adds the fields that are NULL.
build_criterion_string(b, op, val) ==
  IF op = "NULL" THEN <<Condition({[test |-> "null"]})>>
  ELSE IF op = "NOT_NULL" THEN <<Condition({[test |-> "not null"]})>>
  ELSE LET built == Constraint(b, op, val)
       IN  IF built = <<>> THEN <<>> ELSE <<[built[1] EXCEPT !.or_null = op \in NotOperators]>>

-----------------------------------------------------------------------------
(***************************************************************************)
(* What the server selects: three-valued logic                             *)
(***************************************************************************)

Lower(text) == [i \in DOMAIN text |-> IF text[i] = "A" THEN "a" ELSE text[i]]

\* Does the text match the pattern, with these characters for any sequence of
\* characters, for any one and for the escape, <<>> for none?  from[i] is where in
\* the text the pattern from i on matches the rest of it.
Matches(pattern, text, any, one, escape) ==
  LET from[i \in 1..Len(pattern) + 1] ==
        IF i > Len(pattern) THEN {Len(text) + 1}
        ELSE IF <<pattern[i]>> = any THEN {j \in 1..Len(text) + 1 : \E k \in from[i + 1] : j <= k}
        ELSE IF <<pattern[i]>> = escape /\ i < Len(pattern)
        THEN {j \in 1..Len(text) : text[j] = pattern[i + 1] /\ j + 1 \in from[i + 2]}
        ELSE {j \in 1..Len(text) :
                (<<pattern[i]>> = one \/ text[j] = pattern[i]) /\ j + 1 \in from[i + 1]}
  IN  1 \in from[1]

\* LIKE: the escape of MySQL and PostgreSQL is "\", sqlite3 has none by default.
Like(b, pattern, text) ==
  Matches(pattern, text, <<"%">>, <<"_">>, IF b = "sqlite3" THEN <<>> ELSE <<"\\">>)

\* A regular expression without special characters is found anywhere in a text.
Found(regex, text) ==
  \E i \in 0..Len(text) - Len(regex) : SubSeq(text, i + 1, i + Len(regex)) = regex

Related(b, rel, x, v) ==
  CASE rel = "="          -> x = v
    [] rel = "!="         -> x # v
    [] rel = ">"          -> x > v
    [] rel = ">="         -> x >= v
    [] rel = "<"          -> x < v
    [] rel = "<="         -> x <= v
    [] rel = "LIKE"       -> Like(b, v, x)
    [] rel = "NOT LIKE"   -> ~Like(b, v, x)
    [] rel = "REGEXP"     -> Found(v, x)
    [] rel = "NOT REGEXP" -> ~Found(v, x)

\* The part of a time the plugin's expression extracts.
Extract(b, part, time) ==
  CASE part = "tm_year" -> time[part] + 1900
    [] part = "tm_mon"  -> time[part] + 1
    [] part = "tm_wday" -> IF b = "mysql" THEN time[part] + 1 ELSE time[part]
    [] OTHER            -> time[part]

Holds(b, test, x) ==
  IF test.test = "part" THEN Extract(b, test.part, x) = test.value
  ELSE LET low == test.lower \/ test.sqlop.fold
       IN  Related(b, test.sqlop.rel, IF low THEN Lower(x) ELSE x,
                   IF low THEN Lower(test.value) ELSE test.value)

\* "T", "F" or "N", for unknown.
Truth(b, test, field) ==
  CASE test.test = "null"     -> IF field = <<>> THEN "T" ELSE "F"
    [] test.test = "not null" -> IF field = <<>> THEN "F" ELSE "T"
    [] OTHER -> IF field = <<>> THEN "N" ELSE IF Holds(b, test, field[1]) THEN "T" ELSE "F"

And(S) == IF "F" \in S THEN "F" ELSE IF "N" \in S THEN "N" ELSE "T"
Not(t) == CASE t = "T" -> "F" [] t = "F" -> "T" [] OTHER -> "N"

\* A row is selected when its condition is true.
Selects(b, cond, field) ==
  LET tests == And({Truth(b, test, field) : test \in cond.tests})
  IN  \/ cond.or_null /\ field = <<>>
      \/ (IF cond.not THEN Not(tests) ELSE tests) = "T"

-----------------------------------------------------------------------------
(***************************************************************************)
(* LIMIT and OFFSET                                                        *)
(***************************************************************************)

\* " LIMIT a" or " LIMIT a, b"; " LIMIT a OFFSET b"; a negative number is left
\* out, or stands for all.
Clause(form, a, b) == [form |-> form, a |-> a, b |-> b]
NoClause == Clause("none", -1, -1)
All == -1

\* sql_build_limit_offset_string of mysql.c; its UINT64_MAX is All.
mysql_limit_offset(limit, offset) ==
  IF limit >= 0 /\ offset >= 0 THEN Clause("a, b", offset, limit)
  ELSE IF limit >= 0 THEN Clause("a", limit, All)
  ELSE IF offset >= 0 THEN Clause("a, b", offset, All) ELSE NoClause

\* sql_build_limit_offset_string of pgsql.c.
pgsql_limit_offset(limit, offset) ==
  IF limit >= 0 /\ offset >= 0 THEN Clause("a OFFSET b", limit, offset)
  ELSE IF limit >= 0 THEN Clause("a", limit, All)
  ELSE IF offset >= 0 THEN Clause("a OFFSET b", All, offset) ELSE NoClause

\* sql_build_limit_offset_string of sqlite3.c.
sqlite3_limit_offset(limit, offset) ==
  IF limit >= 0 /\ offset >= 0 THEN Clause("a, b", offset, limit)
  ELSE IF limit >= 0 THEN Clause("a", limit, All)
  ELSE IF offset >= 0 THEN Clause("a, b", offset, All) ELSE NoClause

\* requiemdb_sql_build_limit_offset_string.
build_limit_offset_string(b, limit, offset) ==
  CASE b = "mysql"   -> mysql_limit_offset(limit, offset)
    [] b = "pgsql"   -> pgsql_limit_offset(limit, offset)
    [] b = "sqlite3" -> sqlite3_limit_offset(limit, offset)

\* The rows a server keeps of those a query selects.
Window(clause, rows) ==
  LET skip == CASE clause.form = "a, b"       -> clause.a
                [] clause.form = "a OFFSET b" -> clause.b
                [] OTHER                      -> 0
      take == CASE clause.form = "a, b"       -> clause.b
                [] clause.form = "none"       -> All
                [] OTHER                      -> clause.a
  IN  SubSeq(rows, skip + 1, IF take = All \/ skip + take > Len(rows) THEN Len(rows) ELSE skip + take)
=============================================================================
