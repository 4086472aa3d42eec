------------------------------ MODULE ClientStrings ------------------------------
(***************************************************************************)
(* The two small languages a client writes: the settings of a database      *)
(* (requiemdb-sql-settings.c), "name=value name='value' ...", and selected  *)
(* paths (requiemdb-path-selection.c), "function(path)/filter,filter".      *)
(*                                                                         *)
(* A string is a sequence of characters or, where the code only compares    *)
(* whole words, of words: the words of a filter are as long as what two     *)
(* filters have in common.                                                  *)
(***************************************************************************)
EXTENDS Integers, Sequences, FiniteSets, SequencesExt

\* The first position from i on whose character is not one of these.
SkipOver(str, i, chars) == Min({j \in i..Len(str) + 1 : j > Len(str) \/ str[j] \notin chars})

-----------------------------------------------------------------------------
(***************************************************************************)
(* Settings                                                                *)
(***************************************************************************)

Quotes == {"'", "\""}

\* Characters isalnum() or '_' accepts: one for each name a setting may have.
NameChars == {"h", "u"}

\* get_name: [ret |-> 0] at the end, -1 for an error, or the name and where its
\* value starts.
get_name(str, i) ==
  LET first == SkipOver(str, i, {" "})
      last  == SkipOver(str, first, NameChars)
  IN  IF first > Len(str) THEN [ret |-> 0]
      ELSE IF last > Len(str) \/ last = first THEN [ret |-> -1]
      ELSE IF str[last] # "=" THEN [ret |-> -1]
      ELSE [ret |-> 1, name |-> SubSeq(str, first, last - 1), next |-> last + 1]

\* Whether the backslash before position k escapes it, in a value from i on.
EscapedFrom(str, i) ==
  LET escaped[k \in i..Len(str)] == k > i /\ str[k - 1] = "\\" /\ ~escaped[k - 1]
  IN  escaped

\* Mutant of get_value: an escaped end of string ends the value.
get_valueUnescaped(str, i) ==
  LET quoted  == i <= Len(str) /\ str[i] \in Quotes
      first   == IF quoted THEN i + 1 ELSE i
      stop    == IF quoted THEN str[i] ELSE " "
      escaped == EscapedFrom(str, first)
      last    == Min({k \in first..Len(str) : str[k] = stop} \cup {Len(str) + 1})
      next    == IF last > Len(str) THEN last ELSE last + 1
  IN  IF next > Len(str) /\ quoted THEN [ret |-> -1]
      ELSE [ret |-> 1, next |-> next,
            value |-> FlattenSeq([k \in 1..last - first |->
                        IF str[first + k - 1] = "\\" /\ ~escaped[first + k - 1]
                        THEN <<>> ELSE <<str[first + k - 1]>>])]

\* get_value: up to the quote it starts with, or a space.  A quoted value with
\* nothing after its closing quote is refused like one that is not closed.
get_value(str, i) ==
  LET quoted  == i <= Len(str) /\ str[i] \in Quotes
      first   == IF quoted THEN i + 1 ELSE i
      stop    == IF quoted THEN str[i] ELSE " "
      escaped == EscapedFrom(str, first)
      last    == Min({k \in first..Len(str) : str[k] = stop /\ ~escaped[k]} \cup {Len(str) + 1})
      next    == IF last > Len(str) THEN last ELSE last + 1
  IN  IF next > Len(str) /\ quoted THEN [ret |-> -1]
      ELSE [ret |-> 1, next |-> next,
            value |-> FlattenSeq([k \in 1..last - first |->
                        IF str[first + k - 1] = "\\" /\ ~escaped[first + k - 1]
                        THEN <<>> ELSE <<str[first + k - 1]>>])]

\* The settings when a value was set before all of hash.
SetBefore(hash, name, value) ==
  [n \in DOMAIN hash \cup {name} |-> IF n \in DOMAIN hash THEN hash[n] ELSE value]

\* requiemdb_sql_settings_set_from_string: a later value of a name replaces an
\* earlier one, and what was set before an error stays set.
set_from_string(str) ==
  LET from[i \in 1..Len(str) + 1] ==
        LET name == get_name(str, i)
        IN  IF name.ret # 1 THEN [ret |-> name.ret, hash |-> <<>>]
            ELSE LET value == get_value(str, name.next)
                 IN  IF value.ret < 0 THEN [ret |-> -1, hash |-> <<>>]
                     ELSE [ret  |-> from[value.next].ret,
                           hash |-> SetBefore(from[value.next].hash, name.name, value.value)]
  IN  from[1]

\* requiemdb_sql_settings_new_from_string: <<>> when the object was destroyed.
settings_new_from_string(str) ==
  LET set == set_from_string(str)
  IN  IF set.ret < 0 THEN <<>> ELSE <<set.hash>>

\* requiemdb_sql_settings_get_host, ..._get_user and the others: a host that is
\* not set is "localhost", a user has no default.
setting(hash, name) ==
  IF name \in DOMAIN hash THEN <<hash[name]>>
  ELSE IF name = <<"h">> THEN <<<<"localhost">>>> ELSE <<>>

-----------------------------------------------------------------------------
(***************************************************************************)
(* Selected paths                                                          *)
(***************************************************************************)

\* filter_table of parse_filter.
filter_table ==
  << [name |-> <<"group", "_by">>,   flag |-> "GROUP_BY"],
     [name |-> <<"order", "_desc">>, flag |-> "ORDER_DESC"],
     [name |-> <<"order", "_asc">>,  flag |-> "ORDER_ASC"] >>

\* function_table of parse_function, without the "(" that ends each name.
function_table == {"min", "max", "avg", "std", "count"}

\* Mutant of parse_filter: only the first word is compared.
parse_filterShort(str) ==
  LET word  == IF str = <<>> THEN <<>> ELSE <<str[1]>>
      found == {k \in DOMAIN filter_table : IsPrefix(word, filter_table[k].name)}
  IN  IF found = {} THEN {} ELSE {filter_table[Min(found)].flag}

\* parse_filter: the first entry whose name starts with the filter, an empty
\* filter included; {} for an error.
parse_filter(str) ==
  LET found == {k \in DOMAIN filter_table : IsPrefix(str, filter_table[k].name)}
  IN  IF found = {} THEN {} ELSE {filter_table[Min(found)].flag}

\* parse_filters: the filters between the commas; {} when one is not known.
parse_filters(str) ==
  LET commas  == {k \in 1..Len(str) : str[k] = ","} \cup {0, Len(str) + 1}
      filters == {parse_filter(SubSeq(str, k + 1, Min({c \in commas : c > k}) - 1)) :
                    k \in commas \ {Len(str) + 1}}
  IN  IF {} \in filters THEN {} ELSE UNION filters

\* parse_function: the function at the start of the string, if any.
parse_function(str) ==
  IF Len(str) > 1 /\ str[1] \in function_table /\ str[2] = "(" THEN {str[1]} ELSE {}

\* The path is what is between the first "(" and the last ")" after a function,
\* and what is before the "/" otherwise; <<>> for an error.
PathText(str) ==
  LET open    == {k \in DOMAIN str : str[k] = "("}
      closing == {k \in DOMAIN str : str[k] = ")"}
      slash   == {k \in DOMAIN str : str[k] = "/"} \cup {Len(str) + 1}
  IN  IF parse_function(str) = {} THEN SubSeq(str, 1, Min(slash) - 1)
      ELSE IF closing = {} THEN <<>> ELSE SubSeq(str, Min(open) + 1, Max(closing) - 1)

\* requiemdb_selected_path_new_string: <<>> for an error, or the selected path,
\* given the paths idmef_path_new_fast knows.
selected_path_new_string(str, known) ==
  LET slash   == {k \in DOMAIN str : str[k] = "/"}
      filters == IF slash = {} THEN {} ELSE parse_filters(SubSeq(str, Min(slash) + 1, Len(str)))
  IN  IF (slash # {} /\ filters = {}) \/ PathText(str) \notin known THEN <<>>
      ELSE <<[path |-> PathText(str), flags |-> filters \cup parse_function(str)]>>
=============================================================================
