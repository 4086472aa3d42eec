---------------------------- MODULE MCClientRequests ----------------------------
(***************************************************************************)
(* Instances of ClientRequests for TLC.                                    *)
(***************************************************************************)
EXTENDS ClientRequests

Strings(chars, n) == UNION {[1..k -> chars] : k \in 0..n}

MCTexts    == Strings({"a", "A", "*", "%", "\\"}, 2)
MCPatterns == Strings({"a", "A", "*", "%", "\\", "_"}, 3)

Tm(year, mon, mday, wday, hour, sec) ==
  [tm_year : year, tm_mon : mon, tm_mday : mday, tm_wday : wday, tm_hour : hour, tm_sec : sec,
   tm_yday : {-1, 366}, tm_min : {-1, 59}]

\* December 31st of a leap year and others; the yday of a criterion counts from 1.
MCMoments ==
  {tm \in Tm({108, 109}, {0, 11}, {31}, 0..6, {0, 23}, {0}) : tm.tm_yday # -1 /\ tm.tm_min # -1}

MCBrokenDown ==
  {tm \in Tm({-1, 108}, {-1, 0, 11}, {-1, 30}, {-1, 0, 6, 7}, {-1, 23}, {-1, 0}) :
     /\ tm.tm_yday = -1 \/ tm.tm_year # -1
     /\ tm.tm_min = -1
     /\ \E p \in TmFields : tm[p] # -1}

\* Two messages have two fields that one criterion selects; times are not in the
\* order of the idents.
MCMessages ==
  { [ident |-> 1, time |-> 20, fields |-> {<<"a">>, <<"A">>}],
    [ident |-> 2, time |-> 10, fields |-> {<<"a">>, <<"*">>, <<"%">>}],
    [ident |-> 3, time |-> 30, fields |-> {<<"*">>}] }

MCPairs ==
  [name : {<<"h">>, <<"u">>}, quoted : BOOLEAN,
   value : { <<>>, <<"v">>, <<" ">>, <<"'">>, <<"\\">>, <<"v", " ", "u">>, <<"\\", "'">>, <<"'", "v">> }]

MCWritten == [1..1 -> MCPairs] \cup [1..2 -> MCPairs]

MCKnownPaths == {<<"alert.ident">>, <<"alert.source", "(", "0", ")", ".ident">>}

MCSelections ==
  {sel \in [fn : {"none", "min", "count"}, path : MCKnownPaths \cup {<<"nothing">>}, closed : BOOLEAN,
            filters : {<<>>, <<"GROUP_BY">>, <<"ORDER_ASC">>, <<"ORDER_DESC">>, <<"GROUP_BY", "ORDER_ASC">>,
                       <<"ORDER_DESC", "GROUP_BY">>, <<"SHORT">>, <<"EMPTY">>, <<"UNKNOWN">>}] :
     sel.fn = "none" => sel.closed}

\* NUL, a newline, a quote, digits, a backslash, letters, the greatest byte.
MCBytes == {0, 10, 39, 48, 53, 92, 97, 255}

MCBytesStrings == UNION {[1..k -> MCBytes] : k \in 0..2} \cup {<<92, 48, 48, 48>>, <<92, 92, 255, 0, 97>>}

MCStringValues == {<<>>} \cup {<<s>> : s \in {t \in MCBytesStrings : 0 \notin {t[i] : i \in DOMAIN t}}}

MCDataValues ==
  {[adtype |-> a, data |-> [type |-> "byte", v |-> <<c>>]] : a \in {"BOOLEAN", "BYTE"}, c \in MCBytes}
    \cup {[adtype |-> "CHARACTER", data |-> [type |-> "char", v |-> <<c>>]] : c \in MCBytes}
    \cup {[adtype |-> a, data |-> [type |-> "char string", v |-> s[1]]] :
             a \in {"STRING", "INTEGER"}, s \in MCStringValues \ {<<>>}}
    \cup {[adtype |-> "BYTE_STRING", data |-> [type |-> "byte string", v |-> s]] : s \in MCBytesStrings}
    \cup {[adtype |-> "INTEGER", data |-> [type |-> "uint32", v |-> n]] : n \in {0, 9, 10, 255, 300}}
    \cup {[adtype |-> "NTPSTAMP", data |-> [type |-> "uint64", v |-> n]] : n \in {0, 9, 10, 255, 300}}

MCTimeValues ==
  {<<>>} \cup {<<[utc |-> utc, gmtoff |-> off, usec |-> usec]>> :
                 utc \in [tm_year : {70, 108}, tm_mon : {0, 11}, tm_mday : {1, 31}, tm_hour : {0, 23},
                          tm_min : {0, 59}, tm_sec : {0, 59}],
                 off \in {-3600, 0, 7200}, usec \in {0, 999}}
=============================================================================
