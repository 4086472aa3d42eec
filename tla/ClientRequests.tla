------------------------------ MODULE ClientRequests ------------------------------
(***************************************************************************)
(* What a client asks of the library, in the words of the client, and what  *)
(* it gets: a database named by a settings string, selected paths named by  *)
(* strings, the messages a criterion selects, their idents page by page, and *)
(* the values of a message it stored.  The client does one of the five.     *)
(***************************************************************************)
EXTENDS SqlCriteria, ClientStrings, SqlValues

CONSTANTS
  Texts,       \* values of a text field: sequences of characters
  Patterns,    \* the texts a criterion compares with
  Moments,     \* broken-down times of a time field
  BrokenDown,  \* struct tm of a criterion
  Messages,    \* the messages: [ident, time, fields], fields a set of texts
  Written,     \* settings a client may mean: sequences of [name, value, quoted]
  KnownPaths,  \* the paths of the IDMEF tree
  Selections,  \* selected paths a client may mean: [fn, path, filters], closed or not
  StringValues, \* the strings of a message: optional texts, of bytes other than NUL
  DataValues,  \* additional data: [adtype, data]
  TimeValues,  \* times: optional [utc, gmtoff, usec]
  MaxSelected, \* bound on the paths of a selection
  MaxLimit     \* bound on the size of a page

ASSUME ClientAssumption == MaxSelected \in Nat /\ MaxLimit \in Nat

\* Texts are sequences of characters.
ASSUME TextsAssumption == \A text \in Texts \cup Patterns : text \in Seq(ToSet(text))

\* Every field of a struct tm is an int, and a criterion sets one.
ASSUME TmAssumption ==
  /\ Moments \cup BrokenDown \subseteq [TmFields -> Int]
  /\ \A lt \in BrokenDown : \E p \in TmFields : lt[p] # -1

\* The database has finitely many messages; their idents are a primary key.
ASSUME MessagesAssumption ==
  /\ IsFiniteSet(Messages)
  /\ \A m \in Messages : m.time \in Int /\ IsFiniteSet(m.fields)
  /\ \A m, n \in Messages : m # n => m.ident # n.ident

\* Additional data: the type it says it has, and the data, of bytes or a number; a
\* string has no NUL.
IsData(adtype, data) ==
  \/ /\ <<adtype, data.type>> \in {<<"BOOLEAN", "byte">>, <<"BYTE", "byte">>, <<"CHARACTER", "char">>}
     /\ data.v \in Seq(Byte) /\ Len(data.v) = 1
  \/ adtype \in {"STRING", "INTEGER"} /\ data.type = "char string" /\ data.v \in Seq(Byte \ {NUL})
  \/ adtype = "BYTE_STRING" /\ data.type = "byte string" /\ data.v \in Seq(Byte)
  \/ adtype = "INTEGER" /\ data.type = "uint32" /\ data.v \in Nat
  \/ adtype = "NTPSTAMP" /\ data.type = "uint64" /\ data.v \in Nat

\* The values of a message, as the types of librequiem have them.
ASSUME ValuesAssumption ==
  /\ \A s \in StringValues \ {<<>>} : s = <<s[1]>> /\ s[1] \in Seq(Byte \ {NUL})
  /\ \A d \in DataValues : IsData(d.adtype, d.data)
  /\ \A t \in TimeValues \ {<<>>} :
       t = <<t[1]>> /\ t[1] \in [utc : [{"tm_year", "tm_mon", "tm_mday", "tm_hour", "tm_min", "tm_sec"} -> Int],
                                gmtoff : Int, usec : Int]

VARIABLES
  backend,   \* SQL plugin of the database
  client,    \* what the client does: "settings", "selection", "criterion", "pages",
             \* "values"
  request,   \* its last request
  answer,    \* what it got
  selection, \* struct requiemdb_path_selection: the selected paths
  asked,     \* what it meant by each of them
  offset,    \* where its next page starts
  pages,     \* the idents of its pages so far
  ended      \* the last page was empty, or was the rest; or the process crashed

vars == <<backend, client, request, answer, selection, asked, offset, pages, ended>>

Seconds == 0..2
NoRequest == [what |-> "nothing"]

-----------------------------------------------------------------------------
(***************************************************************************)
(* Settings                                                                *)
(***************************************************************************)

\* How a client writes a value: what would end it, and "\", after a backslash.
Escape(value, special) ==
  FlattenSeq([i \in DOMAIN value |->
    IF value[i] \in special THEN <<"\\", value[i]>> ELSE <<value[i]>>])

WritePair(pair) ==
  pair.name \o <<"=">> \o
  (IF pair.quoted THEN <<"'">> \o Escape(pair.value, {"'", "\\"}) \o <<"'">>
   ELSE Escape(pair.value, {" ", "'", "\"", "\\"}))

\* The pairs with a space between them, and what comes after the last one.
WriteSettings(pairs, tail) ==
  FlattenSeq([i \in DOMAIN pairs |-> (IF i = 1 THEN <<>> ELSE <<" ">>) \o WritePair(pairs[i])]) \o tail

\* The tails: nothing, spaces, or something that is no setting.
Tails == {<<>>, <<" ">>, <<" ", "?">>, <<" ", "u">>}

\* A client gives at least one setting, with a name that is one and any text as its
\* value.
ASSUME WrittenAssumption ==
  \A pairs \in Written :
    /\ pairs \in Seq(ToSet(pairs)) /\ pairs # <<>>
    /\ \A i \in DOMAIN pairs : /\ pairs[i].name \in Seq(NameChars) /\ pairs[i].name # <<>>
                               /\ pairs[i].value \in Seq(ToSet(pairs[i].value))

\* requiemdb_sql_settings_new_from_string.
NewSettings(pairs, tail) ==
  /\ client = "settings" /\ request = NoRequest
  /\ request' = [what |-> "settings", pairs |-> pairs, tail |-> tail]
  /\ answer' = settings_new_from_string(WriteSettings(pairs, tail))
  /\ UNCHANGED <<backend, client, selection, asked, offset, pages, ended>>

-----------------------------------------------------------------------------
(***************************************************************************)
(* Selected paths                                                          *)
(***************************************************************************)

FilterNames ==
  [GROUP_BY |-> <<"group", "_by">>, ORDER_DESC |-> <<"order", "_desc">>, ORDER_ASC |-> <<"order", "_asc">>,
   SHORT |-> <<"order">>, EMPTY |-> <<>>, UNKNOWN |-> <<"order", "_by">>]

\* The string of a selected path; the filters in this order.
WriteSelected(sel) ==
  (IF sel.fn = "none" THEN sel.path
   ELSE <<sel.fn, "(">> \o sel.path \o (IF sel.closed THEN <<")">> ELSE <<>>)) \o
  FlattenSeq([i \in DOMAIN sel.filters |->
    <<IF i = 1 THEN "/" ELSE ",">> \o FilterNames[sel.filters[i]]])

\* A path has no "/" and starts with no function, and it is no known path up to the
\* end of one of its indexes.
ASSUME SelectionsAssumption ==
  /\ <<>> \notin KnownPaths
  /\ \A sel \in Selections :
       /\ sel.fn \in function_table \cup {"none"} /\ (sel.fn = "none" => sel.closed)
       /\ sel.filters \in Seq(DOMAIN FilterNames)
       /\ sel.path \in Seq(ToSet(sel.path) \ {"/"})
       /\ sel.path = <<>> \/ sel.path[1] \notin function_table
       /\ \A k \in DOMAIN sel.path : sel.path[k] = ")" => SubSeq(sel.path, 1, k - 1) \notin KnownPaths

\* requiemdb_selected_path_new_string, then requiemdb_path_selection_add.
AddSelected(sel) ==
  /\ client = "selection" /\ Len(selection) < MaxSelected
  /\ LET new == selected_path_new_string(WriteSelected(sel), KnownPaths)
     IN  selection' = selection \o new /\ asked' = IF new = <<>> THEN asked ELSE Append(asked, sel)
  /\ request' = [what |-> "selection", sel |-> sel]
  /\ UNCHANGED <<backend, client, answer, offset, pages, ended>>

-----------------------------------------------------------------------------
(***************************************************************************)
(* Criteria                                                                *)
(***************************************************************************)

\* The fields a criterion of this value may be about, and whether NULL is one.
FieldsFor(type, nulls) ==
  nulls \cup {<<x>> : x \in CASE type = "time"        -> Seconds
                              [] type = "broken down" -> Moments
                              [] OTHER                -> Texts}

\* sqlite3_regexp gives regexec the text of the field without a look at it, and
\* NULL has none: the process does not survive.  A negation asks for NULL first.
RegexpCrashes(op, nulls) ==
  backend = "sqlite3" /\ op \in {"REGEX", "REGEX_NOCASE"} /\ nulls # {}

\* requiemdb_sql_build_criterion_string, and the query: the fields selected, or
\* none for an error.
Ask(op, val, nulls) ==
  /\ client = "criterion" /\ request = NoRequest
  /\ request' = [what |-> "criterion", op |-> op, val |-> val, nulls |-> nulls]
  /\ ended' = RegexpCrashes(op, nulls)
  /\ LET built == build_criterion_string(backend, op, val)
     IN  answer' = IF built = <<>> \/ ended' THEN {}
                   ELSE {f \in FieldsFor(val.type, nulls) : Selects(backend, built[1], f)}
  /\ UNCHANGED <<backend, client, selection, asked, offset, pages>>

AskText == \E op \in EqualOperators \cup SubstrOperators \cup NullOperators, v \in Patterns :
             Ask(op, [type |-> "text", v |-> v], {<<>>})

AskRegex == \E op \in RegexOperators, v \in Texts, nulls \in {{}, {<<>>}} :
              v # <<>> /\ Ask(op, [type |-> "regex", v |-> v], nulls)

AskTime == \E op \in OrderOperators \cup {"EQUAL", "NOT_EQUAL"}, s \in Seconds :
             Ask(op, [type |-> "time", v |-> [sec |-> s]], {<<>>})

AskBrokenDown == \E op \in {"EQUAL", "NOT_EQUAL", "GREATER"}, lt \in BrokenDown :
                   Ask(op, [type |-> "broken down", v |-> lt], {<<>>})

-----------------------------------------------------------------------------
(***************************************************************************)
(* Pages                                                                   *)
(***************************************************************************)

\* The rows of the join of the messages with their fields that the condition keeps.
Joined(cond) ==
  UNION {{[ident |-> m.ident, time |-> m.time, field |-> f] :
            f \in {x \in m.fields : Selects(backend, cond, <<x>>)}} : m \in Messages}

\* ORDER BY the creation time, or its negation for a descending order.
Key(order, time) == IF order = "desc" THEN -time ELSE time

\* The orders the server may return them in: by the time of the message, with rows
\* of the same time in any order, or any.
Ordered(rows, order) ==
  {seq \in SetToSeqs(rows) :
     order = "none" \/ \A i, j \in DOMAIN seq : i < j => Key(order, seq[i].time) <= Key(order, seq[j].time)}

\* The k-th of a finite set of numbers.
Nth(S, k) == CHOOSE x \in S : Cardinality({y \in S : y <= x}) = k

\* DISTINCT: the first of the rows that are equal.
Distinct(seq) ==
  LET first == {i \in DOMAIN seq : \A j \in 1..i - 1 : seq[j] # seq[i]}
  IN  [k \in 1..Cardinality(first) |-> seq[Nth(first, k)]]

\* Mutant of SelectDistinct: the column without DISTINCT.
SelectDistinctAll(rows) == [i \in DOMAIN rows |-> rows[i].ident]

\* SELECT DISTINCT(top_table._ident).
SelectDistinct(rows) == Distinct([i \in DOMAIN rows |-> rows[i].ident])

\* get_message_idents of classic.c: the idents it may return.
get_message_idents(cond, order, limit, off) ==
  {Window(build_limit_offset_string(backend, limit, off), SelectDistinct(rows)) :
     rows \in Ordered(Joined(cond), order)}

\* classic_get_values of classic.c, for the time of the messages: the values it may
\* return, one for every row of the join unless they are to be distinct.
get_values(cond, distinct, order, limit, off) ==
  {LET times == [i \in DOMAIN rows |-> rows[i].time]
   IN  Window(build_limit_offset_string(backend, limit, off), IF distinct THEN Distinct(times) ELSE times) :
     rows \in Ordered(Joined(cond), order)}

\* requiemdb_get_alert_idents, or requiemdb_get_values, for one page of the client,
\* which goes on where the last one ended; limit -1 asks for all the rest.  A client
\* keeps to one kind of page, one order and one criterion.
NextPage(kind, op, v, order, limit) ==
  /\ client = "pages" /\ ~ended
  /\ request' = [what |-> "page", kind |-> kind, op |-> op, v |-> v, order |-> order]
  /\ request \in {NoRequest, request'}
  /\ LET cond == build_criterion_string(backend, op, [type |-> "text", v |-> v])[1]
     IN  \E page \in IF kind = "idents" THEN get_message_idents(cond, order, limit, offset)
                     ELSE get_values(cond, kind = "distinct", order, limit, offset) :
           /\ pages' = pages \o page
           /\ ended' = (limit = All \/ (limit > 0 /\ page = <<>>))
           /\ offset' = offset + Len(page)
  /\ UNCHANGED <<backend, client, answer, selection, asked>>

-----------------------------------------------------------------------------
(***************************************************************************)
(* Values of a message, stored and read back                               *)
(***************************************************************************)

StoreString(string) ==
  /\ client = "values" /\ request = NoRequest
  /\ request' = [what |-> "string", string |-> string]
  /\ answer' = get_string(backend, Sent(backend, FALSE, Stored(sql_escape(backend, string))))
  /\ UNCHANGED <<backend, client, selection, asked, offset, pages, ended>>

StoreData(adtype, data) ==
  /\ client = "values" /\ request = NoRequest
  /\ request' = [what |-> "data", adtype |-> adtype, data |-> data]
  /\ answer' \in DataBack(backend, adtype, data)
  /\ UNCHANGED <<backend, client, selection, asked, offset, pages, ended>>

StoreTime(time, has_usec) ==
  /\ client = "values" /\ request = NoRequest
  /\ request' = [what |-> "time", time |-> time, has_usec |-> has_usec]
  /\ answer' = get_timestamp(time_to_timestamp(time, has_usec), has_usec)
  /\ UNCHANGED <<backend, client, selection, asked, offset, pages, ended>>

-----------------------------------------------------------------------------
Init ==
  /\ backend \in Backend
  /\ client \in {"settings", "selection", "criterion", "pages", "values"}
  /\ request = NoRequest /\ answer = {}
  /\ selection = <<>> /\ asked = <<>>
  /\ offset = 0 /\ pages = <<>> /\ ended = FALSE

Next ==
  \/ \E pairs \in Written, tail \in Tails : NewSettings(pairs, tail)
  \/ \E sel \in Selections : AddSelected(sel)
  \/ AskText \/ AskRegex \/ AskTime \/ AskBrokenDown
  \/ \E op \in {"EQUAL", "NOT_EQUAL_NOCASE"}, v \in UNION {m.fields : m \in Messages},
        order \in {"asc", "desc", "none"}, limit \in -1..MaxLimit,
        kind \in {"idents", "values", "distinct"} : NextPage(kind, op, v, order, limit)
  \/ \E string \in StringValues : StoreString(string)
  \/ \E d \in DataValues : StoreData(d.adtype, d.data)
  \/ \E time \in TimeValues, has_usec \in BOOLEAN : StoreTime(time, has_usec)

Spec == Init /\ [][Next]_vars

-----------------------------------------------------------------------------
(***************************************************************************)
(* Properties                                                              *)
(***************************************************************************)

\* What an operator means of two times, its negation aside.
TimeBase(op, x, sec) ==
  CASE op = "GREATER" -> x > sec [] op = "GREATER_OR_EQUAL" -> x >= sec
    [] op = "LESSER"  -> x < sec [] op = "LESSER_OR_EQUAL"  -> x <= sec
    [] OTHER          -> x = sec

\* What a criterion means, whatever the plugin: a NULL field answers the negated
\* operators and NULL only, and the others compare texts, times or the parts of a
\* time that are set.
Base(op, val, x) ==
  LET low == op \in NocaseOperators
      l(y) == IF low THEN Lower(y) ELSE y
  IN  CASE val.type = "time" -> TimeBase(op, x, val.v.sec)
        [] val.type = "broken down" ->
             \A p \in TmFields : val.v[p] = -1 \/ x[p] = (IF p = "tm_wday" THEN val.v[p] % 7 ELSE val.v[p])
        [] op \in SubstrOperators -> Matches(l(val.v), l(x), <<"*">>, <<>>, <<"\\">>)
        [] op \in RegexOperators  -> Found(l(val.v), l(x))
        [] OTHER                  -> l(x) = l(val.v)

Means(op, val, field) ==
  IF op = "NULL" THEN field = <<>>
  ELSE IF field = <<>> THEN op \in NotOperators \ {"NOT_NULL"}
  ELSE op = "NOT_NULL" \/ (Base(op, val, field[1]) <=> op \notin NotOperators)

\* Where the plugins are known to answer otherwise: MySQL has the two NOT REGEXP
\* swapped, PostgreSQL's days of the week are one off, a broken-down time only
\* knows EQUAL and NOT_EQUAL, and sqlite3 does not survive a REGEXP on a NULL field.
KnownDeviation(op, val) ==
  \/ ended
  \/ backend = "mysql" /\ op \in {"NOT_REGEX", "NOT_REGEX_NOCASE"}
  \/ val.type = "broken down" /\ op = "GREATER"
  \/ val.type = "broken down" /\ backend = "pgsql" /\ val.v.tm_wday # -1

\* The rows a criterion selects are the ones it means, with every SQL plugin:
\* requiemdb_sql_build_criterion_string, the operator tables and the time
\* constraints agree with each other and with the three-valued logic of SQL.
CriterionSelects ==
  request.what = "criterion" =>
    \/ request.op \in SubstrOperators
    \/ KnownDeviation(request.op, request.val)
    \/ answer = {f \in FieldsFor(request.val.type, request.nulls) : Means(request.op, request.val, f)}

\* A pattern LIKE cannot be given faithfully: "_" is not escaped, "%" is escaped
\* once more when the client did, a last "\" escapes nothing, and sqlite3 has
\* no escape at all and no LIKE that minds case.
LikeDeviation(op, pattern) ==
  LET escaped == EscapedIn(pattern) IN
  \/ \E i \in DOMAIN pattern :
       \/ pattern[i] = "_"
       \/ pattern[i] = "%" /\ escaped[i]
       \/ pattern[i] = "\\" /\ i = Len(pattern) /\ ~escaped[i]
  \/ backend = "sqlite3" /\ (op \notin NocaseOperators \/ \E i \in DOMAIN pattern : pattern[i] \in {"\\", "%"})

\* "Always escape %, since these are SQL specific", "Convert unescaped * to %
\* character": a pattern of the client selects the texts it matches with "*" for
\* any characters, "\" before a character for that character and "%" for itself.
LikeMatchesPattern ==
  request.what = "criterion" =>
    (request.op \in SubstrOperators /\ ~LikeDeviation(request.op, request.val.v) =>
       answer = {f \in FieldsFor("text", request.nulls) : Means(request.op, request.val, f)})

\* What a paging client means, in its order: the ident of every message that has a
\* field it asks for, or the time of it, once or for every such field.
Asked(op, v, m) == {x \in m.fields : Means(op, [type |-> "text", v |-> v], <<x>>)}

Meant(kind, op, v, order) ==
  LET asked_for  == {m \in Messages : Asked(op, v, m) # {}}
      message(k) == CHOOSE m \in asked_for :
                      Key(order, m.time) = Nth({Key(order, n.time) : n \in asked_for}, k)
      copies(m)  == IF kind = "values" THEN Cardinality(Asked(op, v, m)) ELSE 1
      value(m)   == IF kind = "idents" THEN m.ident ELSE m.time
  IN  FlattenSeq([k \in 1..Cardinality(asked_for) |->
                    [i \in 1..copies(message(k)) |-> value(message(k))]])

\* A client that asks for idents or values in the order of the creation time, page
\* after page of any size, gets every message that has a field it asked for, in
\* order: its ident once, although the join has a row for every such field, and its
\* values as often as there are rows, or once when they are to be distinct.
PagesPartition ==
  request.what = "page" /\ request.order # "none" =>
    LET all == Meant(request.kind, request.op, request.v, request.order)
    IN  IsPrefix(pages, all) /\ (ended => pages = all)

\* The settings the client means: the last value of every name.
MeantSettings(pairs) ==
  [name \in {pairs[i].name : i \in DOMAIN pairs} |->
     pairs[Max({i \in DOMAIN pairs : pairs[i].name = name})].value]

\* Settings come back as the client wrote them, whatever characters their values
\* have and however they are quoted, with "localhost" for the host that was not
\* given; and a string that is not all settings gives none.  A quoted value at the
\* very end of the string is refused.
SettingsRoundTrip ==
  request.what = "settings" =>
    LET pairs == request.pairs
        meant == MeantSettings(pairs)
    IN  IF request.tail \in {<<>>, <<" ">>} /\ ~(request.tail = <<>> /\ Last(pairs).quoted)
        THEN /\ answer # <<>>
             /\ \A name \in {<<"h">>, <<"u">>} :
                  setting(answer[1], name) =
                    IF name \in DOMAIN meant THEN <<meant[name]>>
                    ELSE IF name = <<"h">> THEN <<<<"localhost">>>> ELSE <<>>
        ELSE answer = <<>>

\* A selection holds what the client asked for, in order: a path that has indexes
\* in parentheses, within a function or not, and the flags of the filters it named
\* in full; nothing is added for a string that was refused.
SelectionRoundTrip ==
  /\ Len(selection) = Len(asked)
  /\ \A i \in DOMAIN asked :
       LET sel == asked[i] IN
       /\ sel.closed /\ selection[i].path = sel.path
       /\ ToSet(sel.filters) \subseteq {"GROUP_BY", "ORDER_DESC", "ORDER_ASC"} =>
            selection[i].flags = ToSet(sel.filters) \cup ({sel.fn} \ {"none"})
       /\ "UNKNOWN" \notin ToSet(sel.filters)

\* Additional data the code does not give back: an empty piece (sqlite3 takes it
\* for NULL); a byte, a boolean or a character that is a digit, which is written as
\* it is and read as the number it shows, or NUL; data of another type than the
\* additional data says; and with PostgreSQL whatever a bytea shows otherwise than
\* it is, since only byte strings are unescaped.
SmallTypes == {"BOOLEAN", "BYTE", "CHARACTER"}

DataDeviation(adtype, data) ==
  \/ backend = "sqlite3" /\ data.type \in {"char string", "byte string"} /\ data.v = <<>>
  \/ adtype \in SmallTypes /\ data.v[1] \in Digits \cup {NUL}
  \/ adtype = "INTEGER" /\ data.type # "uint32"
  \/ /\ backend = "pgsql" /\ adtype # "BYTE_STRING"
     /\ data.type \in {"byte", "char", "char string"} /\ ByteaOut(data.v) # data.v

\* What is read back of a stored message is what was written, with every SQL
\* plugin: a string, whatever its bytes, where sqlite3 makes none of an empty one;
\* additional data, except that a byte, a boolean and a character come back as a
\* string of that byte; a time, to the second where it has no column for more.
ValuesRoundTrip ==
  /\ request.what = "string" =>
       \/ answer = request.string
       \/ backend = "sqlite3" /\ request.string = <<<<>>>> /\ answer = <<>>
  /\ request.what = "data" =>
       \/ DataDeviation(request.adtype, request.data)
       \/ /\ answer # <<>>
          /\ answer[1].type = IF request.adtype \in SmallTypes THEN "char string" ELSE request.data.type
          /\ answer[1].v = request.data.v
  /\ request.what = "time" =>
       answer = IF request.time = <<>> \/ request.has_usec THEN request.time
                ELSE <<[request.time[1] EXCEPT !.usec = 0]>>
=============================================================================
