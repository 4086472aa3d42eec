------------------------------- MODULE ClassicGet -------------------------------
(***************************************************************************)
(* How the classic format rebuilds a message from the rows                  *)
(* (plugins/format/classic/classic-get.c).  One operator per get function;  *)
(* R is the set of the rows the session sees.  A function that finds no     *)
(* row adds no child.                                                       *)
(***************************************************************************)
EXTENDS ClassicInsert, FiniteSets

CONSTANT
    \* Whether the SQL plugin's fetch_field answers 0, as for a NULL, when the
    \* field has length zero: sqlite3 does, pgsql and mysql do not.
    EmptyIsNull

ASSUME EmptyIsNullAssumption == EmptyIsNull \in BOOLEAN

\* What classic_get_alert and classic_get_heartbeat return for an ident that has
\* no row (REQUIEMDB_ERROR_INVALID_MESSAGE_IDENT).
NotFound == [type |-> "error"]

-----------------------------------------------------------------------------
(* Queries *)

\* SELECT ... WHERE _parent_type = pt AND _message_ident = id AND _parentN_index = p.
Select(R, t, pt, id, p) == {r \in R : r.t = t /\ r.pt = pt /\ r.id = id /\ r.p = p}

\* ... AND _index != -1 ORDER BY _index ASC.
Ordered(S) ==
    LET listed == {r \in S : r.i # -1}
    IN  [k \in 1 .. Cardinality(listed) |->
            CHOOSE r \in listed : Cardinality({q \in listed : q.i < r.i}) = k - 1]

\* The child built from the first row, if there is one.
First(S, Get(_)) == IF S = {} THEN << >> ELSE <<Get(CHOOSE r \in S : TRUE)>>

\* One child per row, each with the counter the caller numbers it by.
Each(S, Get(_, _)) == LET s == Ordered(S) IN [k \in DOMAIN s |-> Get(k - 1, s[k])]

\* Objects without children.
Leaf(r) == [v |-> r.v]
Leaves(S) == Each(S, LAMBDA k, r : Leaf(r))

\* _get_string_listed: a field fetch_field says is NULL adds no element.
get_string_listed(S) == Leaves({r \in S : ~(EmptyIsNull /\ r.v = Empty)})

\* Conversion of an int to the parameter of type char of get_process_arg.
AsChar(n) == ((n + 128) % 256) - 128

-----------------------------------------------------------------------------
get_analyzer_time(R, id, pt) == First(Select(R, "analyzer_time", pt, id, << >>), Leaf)

get_detect_time(R, id) == First(Select(R, "detect_time", NoType, id, << >>), Leaf)

get_create_time(R, id, pt) == First(Select(R, "create_time", pt, id, << >>), Leaf)

get_user_id(R, id, pt, parent, file, access) ==
    Leaves(Select(R, "user_id", pt, id, <<parent, file, access>>))

get_user(R, id, pt, parent) ==
    First(Select(R, "user", pt, id, <<parent>>), LAMBDA r :
        [v |-> r.v, user_id |-> get_user_id(R, id, pt, parent, 0, 0)])

get_process_arg(R, id, pt, parent) ==
    get_string_listed(Select(R, "process_arg", pt, id, <<AsChar(parent)>>))

get_process_env(R, id, pt, parent) ==
    get_string_listed(Select(R, "process_env", pt, id, <<parent>>))

get_process(R, id, pt, parent) ==
    First(Select(R, "process", pt, id, <<parent>>), LAMBDA r :
        [v |-> r.v, arg |-> get_process_arg(R, id, pt, parent),
         env |-> get_process_env(R, id, pt, parent)])

get_web_service_arg(R, id, pt, parent) ==
    get_string_listed(Select(R, "web_service_arg", pt, id, <<parent>>))

get_web_service(R, id, pt, parent) ==
    First(Select(R, "web_service", pt, id, <<parent>>), LAMBDA r :
        [v |-> r.v, arg |-> get_web_service_arg(R, id, pt, parent)])

get_snmp_service(R, id, pt, parent) ==
    First(Select(R, "snmp_service", pt, id, <<parent>>), Leaf)

get_service(R, id, pt, parent) ==
    First(Select(R, "service", pt, id, <<parent>>), LAMBDA r :
        [v |-> r.v, web_service |-> get_web_service(R, id, pt, parent),
         snmp_service |-> get_snmp_service(R, id, pt, parent)])

get_address(R, id, pt, parent) == Leaves(Select(R, "address", pt, id, <<parent>>))

get_node(R, id, pt, parent) ==
    First(Select(R, "node", pt, id, <<parent>>), LAMBDA r :
        [v |-> r.v, address |-> get_address(R, id, pt, parent)])

get_analyzer(R, id, pt) ==
    Each(Select(R, "analyzer", pt, id, << >>), LAMBDA k, r :
        [v |-> r.v, node |-> get_node(R, id, pt, k), process |-> get_process(R, id, pt, k)])

-----------------------------------------------------------------------------
get_action(R, id) == Leaves(Select(R, "action", NoType, id, << >>))

get_confidence(R, id) == First(Select(R, "confidence", NoType, id, << >>), Leaf)

get_impact(R, id) == First(Select(R, "impact", NoType, id, << >>), Leaf)

get_assessment(R, id) ==
    First(Select(R, "assessment", NoType, id, << >>), LAMBDA r :
        [impact |-> get_impact(R, id), confidence |-> get_confidence(R, id),
         action |-> get_action(R, id)])

-----------------------------------------------------------------------------
get_file_access_permission(R, id, target, file, access) ==
    get_string_listed(Select(R, "file_access_permission", NoType, id,
                             <<target, file, access>>))

\* Mutant of get_file_access: the copy of the last access is counted as well.
CountFileAccess(R, id, target, file) ==
    LET count == Cardinality(Select(R, "file_access", NoType, id, <<target, file>>))
    IN  [c \in 1 .. count |->
            [user_id |-> get_user_id(R, id, "F", target, file, c - 1),
             permission |-> get_file_access_permission(R, id, target, file, c - 1)]]

\* The accesses are counted, not read: the k-th is taken to have index k.
get_file_access(R, id, target, file) ==
    LET count == Cardinality({r \in Select(R, "file_access", NoType, id, <<target, file>>) :
                                  r.i # -1})
    IN  [c \in 1 .. count |->
            [user_id |-> get_user_id(R, id, "F", target, file, c - 1),
             permission |-> get_file_access_permission(R, id, target, file, c - 1)]]

get_linkage(R, id, target, file) ==
    Leaves(Select(R, "linkage", NoType, id, <<target, file>>))

get_inode(R, id, target, file) ==
    First(Select(R, "inode", NoType, id, <<target, file>>), Leaf)

get_checksum(R, id, target, file) ==
    Leaves(Select(R, "checksum", NoType, id, <<target, file>>))

get_file(R, id, target) ==
    Each(Select(R, "file", NoType, id, <<target>>), LAMBDA k, r :
        [v |-> r.v, file_access |-> get_file_access(R, id, target, k),
         linkage |-> get_linkage(R, id, target, k),
         inode |-> get_inode(R, id, target, k),
         checksum |-> get_checksum(R, id, target, k)])

-----------------------------------------------------------------------------
get_source(R, id) ==
    Each(Select(R, "source", NoType, id, << >>), LAMBDA k, r :
        [v |-> r.v, node |-> get_node(R, id, "S", k), user |-> get_user(R, id, "S", k),
         process |-> get_process(R, id, "S", k), service |-> get_service(R, id, "S", k)])

get_target(R, id) ==
    Each(Select(R, "target", NoType, id, << >>), LAMBDA k, r :
        [v |-> r.v, node |-> get_node(R, id, "T", k), user |-> get_user(R, id, "T", k),
         process |-> get_process(R, id, "T", k), service |-> get_service(R, id, "T", k),
         file |-> get_file(R, id, k)])

\* An element whose data fetch_field says is NULL ends the loop: it is kept,
\* the ones after it are not read, and the function answers 0.
get_additional_data(R, id, pt) ==
    LET s == Leaves(Select(R, "additional_data", pt, id, << >>))
        stop == {k \in DOMAIN s : EmptyIsNull /\ s[k].v = Empty}
    IN  IF stop = {} THEN s
        ELSE SubSeq(s, 1, CHOOSE k \in stop : \A j \in stop : k <= j)

get_reference(R, id) == Leaves(Select(R, "reference", NoType, id, << >>))

get_classification(R, id) ==
    First(Select(R, "classification", NoType, id, << >>), LAMBDA r :
        [v |-> r.v, reference |-> get_reference(R, id)])

get_alertident(R, id, pt) == Leaves(Select(R, "alertident", pt, id, << >>))

get_tool_alert(R, id) ==
    First(Select(R, "tool_alert", NoType, id, << >>), LAMBDA r :
        [v |-> r.v, alertident |-> get_alertident(R, id, "T")])

get_correlation_alert(R, id) ==
    First(Select(R, "correlation_alert", NoType, id, << >>), LAMBDA r :
        [v |-> r.v, alertident |-> get_alertident(R, id, "C")])

get_overflow_alert(R, id) == First(Select(R, "overflow_alert", NoType, id, << >>), Leaf)

-----------------------------------------------------------------------------
get_alert_messageid(R, id) == Select(R, "alert", NoType, id, << >>)

classic_get_alert(R, id) ==
    LET S == get_alert_messageid(R, id)
        Own == {r \in R : r.id = id}
    IN  IF S = {} THEN NotFound
        ELSE [type |-> "alert", v |-> (CHOOSE r \in S : TRUE).v,
              assessment |-> get_assessment(Own, id),
              analyzer |-> get_analyzer(Own, id, "A"),
              create_time |-> get_create_time(Own, id, "A"),
              detect_time |-> get_detect_time(Own, id),
              analyzer_time |-> get_analyzer_time(Own, id, "A"),
              source |-> get_source(Own, id),
              target |-> get_target(Own, id),
              classification |-> get_classification(Own, id),
              additional_data |-> get_additional_data(Own, id, "A"),
              tool_alert |-> get_tool_alert(Own, id),
              correlation_alert |-> get_correlation_alert(Own, id),
              overflow_alert |-> get_overflow_alert(Own, id)]

get_heartbeat_row(R, id) == Select(R, "heartbeat", NoType, id, << >>)

classic_get_heartbeat(R, id) ==
    LET S == get_heartbeat_row(R, id)
        Own == {r \in R : r.id = id}
    IN  IF S = {} THEN NotFound
        ELSE [type |-> "heartbeat", v |-> (CHOOSE r \in S : TRUE).v,
              analyzer |-> get_analyzer(Own, id, "H"),
              create_time |-> get_create_time(Own, id, "H"),
              analyzer_time |-> get_analyzer_time(Own, id, "H"),
              additional_data |-> get_additional_data(Own, id, "H")]

=============================================================================
