------------------------------- MODULE SqlValues -------------------------------
(***************************************************************************)
(* The way of a value into a column and back: escaping by the SQL plugins   *)
(* (requiemdb-plugin-sql.c, and the escape functions of requiemdb-sql.c),   *)
(* the conversions of additional data (get_data of classic-insert.c and the *)
(* switch of get_additional_data in classic-get.c), numbers (the functions  *)
(* requiemdb_sql_field_to_uint8 and so on) and timestamps.                  *)
(*                                                                         *)
(* A byte is a number, a text a sequence of bytes.  An optional value is    *)
(* <<>> or <<value>>, and so is a field, <<>> for NULL.                     *)
(***************************************************************************)
EXTENDS Integers, Sequences, SequencesExt

Byte == 0..255
NUL == 0
Digits == 48..57
Backslash == 92

\* What C functions take of a text: all up to the first NUL.
CString(text) ==
  LET nul == SelectInSeq(text, LAMBDA c : c = NUL)
  IN  IF nul = 0 THEN text ELSE SubSeq(text, 1, nul - 1)

-----------------------------------------------------------------------------
(***************************************************************************)
(* Escaping: the literal put into the query                                *)
(***************************************************************************)

\* A quoted literal stands for its text: the client library of the server escapes
\* what the server would not read as it is.
Quoted(text) == [form |-> "quoted", text |-> text]
NullLiteral  == [form |-> "null", text |-> <<>>]

\* bin2hex, between X' and '.
bin2hex(text) ==
  [form |-> "hex",
   text |-> [i \in 1..2 * Len(text) |->
               IF i % 2 = 1 THEN text[(i + 1) \div 2] \div 16 ELSE text[i \div 2] % 16]]

\* sql_escape_binary of mysql.c, and of pgsql.c (PQescapeBytea): every byte.
mysql_escape_binary(text) == Quoted(text)
pgsql_escape_binary(text) == Quoted(text)

\* sql_escape of pgsql.c and of sqlite3.c, whose library functions stop at a NUL.
pgsql_escape(text)   == Quoted(CString(text))
sqlite3_escape(text) == Quoted(CString(text))

\* _requiemdb_plugin_sql_escape_binary: sqlite3 has no function of its own.
plugin_escape_binary(b, text) ==
  CASE b = "mysql" -> mysql_escape_binary(text)
    [] b = "pgsql" -> pgsql_escape_binary(text)
    [] OTHER       -> bin2hex(text)

\* _requiemdb_plugin_sql_escape: MySQL has none but the binary one.
plugin_escape(b, text) ==
  CASE b = "pgsql"   -> pgsql_escape(text)
    [] b = "sqlite3" -> sqlite3_escape(text)
    [] OTHER         -> plugin_escape_binary(b, text)

\* requiemdb_sql_escape: a string that is not there is NULL.
sql_escape(b, string) == IF string = <<>> THEN NullLiteral ELSE plugin_escape(b, CString(string[1]))

-----------------------------------------------------------------------------
(***************************************************************************)
(* The server                                                              *)
(***************************************************************************)

\* What the server stores for a literal.
Stored(literal) ==
  CASE literal.form = "null" -> <<>>
    [] literal.form = "hex"  -> <<[i \in 1..Len(literal.text) \div 2 |->
                                     16 * literal.text[2 * i - 1] + literal.text[2 * i]]>>
    [] OTHER                 -> <<literal.text>>

\* PostgreSQL sends a bytea as text: a backslash twice, and the bytes that cannot
\* be printed as backslash and three octal digits.
ByteaOut(text) ==
  FlattenSeq([i \in DOMAIN text |->
    LET c == text[i] IN
    IF c = Backslash THEN <<c, c>>
    ELSE IF c \in 32..126 THEN <<c>>
    ELSE <<Backslash, 48 + (c \div 64), 48 + ((c \div 8) % 8), 48 + (c % 8)>>])

\* PQunescapeBytea, the way back; a backslash before anything else is left out.
ByteaIn(text) ==
  LET from[i \in 1..Len(text) + 1] ==
        IF i > Len(text) THEN <<>>
        ELSE IF text[i] # Backslash THEN <<text[i]>> \o from[i + 1]
        ELSE IF i + 1 <= Len(text) /\ text[i + 1] = Backslash THEN <<Backslash>> \o from[i + 2]
        ELSE IF i + 3 <= Len(text) /\ \A k \in 1..3 : text[i + k] \in 48..55
        THEN <<64 * (text[i + 1] - 48) + 8 * (text[i + 2] - 48) + text[i + 3] - 48>> \o from[i + 4]
        ELSE from[i + 1]
  IN  from[1]

\* What a query gives back of a column that is binary or is not.
Sent(b, binary, field) ==
  IF field # <<>> /\ binary /\ b = "pgsql" THEN <<ByteaOut(field[1])>> ELSE field

-----------------------------------------------------------------------------
(***************************************************************************)
(* Reading a field                                                         *)
(***************************************************************************)

\* sql_resource_field_copy and sql_fetch_field of sqlite3.c: no text, no field.
FieldRead(b, field) == IF b = "sqlite3" /\ field = <<<<>>>> THEN <<>> ELSE field

\* sql_unescape_binary of pgsql.c.
pgsql_unescape_binary(text) == ByteaIn(text)

\* _requiemdb_plugin_sql_unescape_binary: the others have no function for it.
unescape_binary(b, text) == IF b = "pgsql" THEN pgsql_unescape_binary(text) ELSE text

\* How many digits a text begins with, and the number they show.
Leading(s) ==
  CHOOSE n \in 0..Len(s) : /\ \A i \in 1..n : s[i] \in Digits
                           /\ n = Len(s) \/ s[n + 1] \notin Digits

NumberIn(s) ==
  LET value[k \in 0..Leading(s)] == IF k = 0 THEN 0 ELSE 10 * value[k - 1] + s[k] - 48
  IN  value[Leading(s)]

\* sscanf of an unsigned number.
Scan(text) ==
  LET s == CString(text)
  IN  IF s = <<>> THEN [ret |-> -1]
      ELSE IF Leading(s) = 0 THEN [ret |-> 0]
      ELSE [ret |-> 1, value |-> NumberIn(s)]

\* requiemdb_sql_field_to_uint8: <<>> for an error.
field_to_uint8(text) ==
  LET scanned == Scan(text)
  IN  IF scanned.ret <= 0 THEN <<>> ELSE IF scanned.value > 255 THEN <<>> ELSE <<scanned.value>>

\* What an integer nobody has set may hold.
Uninitialised == 0..1

\* requiemdb_sql_field_to_uint32 and the other wide ones, the values they may give:
\* a text that is no number is not an error, and leaves the value as it was.
field_to_uint(text) ==
  LET scanned == Scan(text)
  IN  IF scanned.ret < 0 THEN {} ELSE IF scanned.ret = 0 THEN Uninitialised ELSE {scanned.value}

\* _get_string.
get_string(b, field) == FieldRead(b, field)

-----------------------------------------------------------------------------
(***************************************************************************)
(* Additional data: [type, v], v a number or the bytes                     *)
(***************************************************************************)

CharString(text) == [type |-> "char string", v |-> CString(text)]

\* The bytes idmef_data_get_data and _get_len give: a string with its NUL.
Memory(data) == IF data.type = "char string" THEN Append(data.v, NUL) ELSE data.v

\* idmef_data_to_string of a number.
Decimal(n) ==
  LET text[k \in 0..n] == (IF k < 10 THEN <<>> ELSE text[k \div 10]) \o <<48 + (k % 10)>>
  IN  text[n]

\* Mutant of get_data: the string is written with its NUL.
get_dataTerminated(b, data) ==
  plugin_escape_binary(b, IF data.type \in {"uint32", "uint64"} THEN Decimal(data.v) ELSE Memory(data))

\* get_data of classic-insert.c: a byte and a character as they are, a string
\* without its NUL, anything else as text.
get_data(b, data) ==
  LET bytes == Memory(data)
  IN  plugin_escape_binary(b,
        CASE data.type \in {"byte", "byte string"} -> bytes
          [] data.type = "char string" -> SubSeq(bytes, 1, Len(bytes) - 1)
          [] data.type = "char"        -> SubSeq(bytes, 1, 1)
          [] OTHER                     -> Decimal(data.v))

\* A byte or a character is looked for as a number, and is a string otherwise.
SmallData(type, text) ==
  LET n == field_to_uint8(text) IN IF n = <<>> THEN CharString(text) ELSE [type |-> type, v |-> n]

WideData(type, text) ==
  LET values == field_to_uint(text)
  IN  IF values = {} THEN {CharString(text)} ELSE {[type |-> type, v |-> n] : n \in values}

\* The switch of get_additional_data on the type of the additional data: the data
\* it may give.
additional_data_of(b, adtype, text) ==
  CASE adtype \in {"BOOLEAN", "BYTE"} -> {SmallData("byte", text)}
    [] adtype = "CHARACTER"           -> {SmallData("char", text)}
    [] adtype = "STRING"              -> {CharString(text)}
    [] adtype = "INTEGER"             -> WideData("uint32", text)
    [] adtype = "NTPSTAMP"            -> WideData("uint64", text)
    [] adtype = "BYTE_STRING"         -> {[type |-> "byte string", v |-> unescape_binary(b, text)]}

\* What additional data comes back as, a set of optional data.
DataBack(b, adtype, data) ==
  LET field == FieldRead(b, Sent(b, TRUE, Stored(get_data(b, data))))
  IN  IF field = <<>> THEN {<<>>} ELSE {<<d>> : d \in additional_data_of(b, adtype, field[1])}

-----------------------------------------------------------------------------
(***************************************************************************)
(* Times: [utc, gmtoff, usec], utc the broken-down time gmtime_r gives     *)
(***************************************************************************)

\* _requiemdb_plugin_sql_build_timestamp_string.
build_timestamp_string(lt) ==
  <<lt.tm_year + 1900, lt.tm_mon + 1, lt.tm_mday, lt.tm_hour, lt.tm_min, lt.tm_sec>>

\* requiemdb_sql_time_to_timestamp: the columns of an optional time; some times
\* have no column for the microseconds.
time_to_timestamp(time, has_usec) ==
  IF time = <<>> THEN [time |-> <<>>, gmtoff |-> <<>>, usec |-> <<>>]
  ELSE [time |-> <<build_timestamp_string(time[1].utc)>>, gmtoff |-> <<time[1].gmtoff>>,
        usec |-> IF has_usec THEN <<time[1].usec>> ELSE <<>>]

\* requiemdb_sql_time_from_timestamp; requiem_timegm takes utc for what it is.
time_from_timestamp(buf, gmtoff, usec) ==
  [utc |-> [tm_year |-> buf[1] - 1900, tm_mon |-> buf[2] - 1, tm_mday |-> buf[3],
            tm_hour |-> buf[4], tm_min |-> buf[5], tm_sec |-> buf[6]],
   gmtoff |-> gmtoff, usec |-> usec]

\* _get_timestamp of the columns of a time, with or without one for microseconds.
get_timestamp(columns, has_usec) ==
  IF columns.time = <<>> THEN <<>>
  ELSE <<time_from_timestamp(columns.time[1], columns.gmtoff[1],
                             IF has_usec THEN columns.usec[1] ELSE 0)>>
=============================================================================
