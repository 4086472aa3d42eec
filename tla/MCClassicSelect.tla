----------------------------- MODULE MCClassicSelect -----------------------------
(* Instances of ClassicSelect for TLC: a path for every table and every position *)
(* of a list, over an alert with every kind of child, a correlation alert and a  *)
(* heartbeat.                                                                   *)
EXTENDS ClassicSelect, ClassicSamples

MCAlerts == <<Full(<<1>>), Correlation(<<2>>)>>
MCHeartbeats == <<Heartbeat(<<4>>, Two(<<4>>))>>

\* An element that is not a list, and one that is.
S(n) == <<n, {Forbidden}>>
L(n) == <<n, {Undefined, LAST_ELEMENT, 0}>>

\* The paths of a shape, with every index.
Paths(shape) ==
    {[k \in DOMAIN shape |-> [n |-> shape[k][1], x |-> x[k]]] :
        x \in {f \in [DOMAIN shape -> {Forbidden, Undefined, LAST_ELEMENT, 0}] :
                    \A k \in DOMAIN shape : f[k] \in shape[k][2]}}

A == S("alert")
H == S("heartbeat")
F == <<A, <<"target", {LAST_ELEMENT}>>, L("file")>>

Shapes == {
    <<A, S("messageid")>>,
    <<A, S("detect_time")>>,
    <<A, S("create_time")>>,
    <<A, S("classification"), S("text")>>,
    <<A, S("classification"), L("reference"), S("name")>>,
    <<A, S("assessment"), S("impact"), S("severity")>>,
    <<A, S("assessment"), L("action"), S("category")>>,
    <<A, L("analyzer"), S("name")>>,
    <<A, L("analyzer"), S("process"), S("name")>>,
    <<A, L("analyzer"), S("process"), L("arg")>>,
    <<A, L("additional_data"), S("data")>>,
    <<A, L("source"), S("spoofed")>>,
    <<A, L("source"), S("node"), S("name")>>,
    <<A, L("source"), S("node"), L("address"), S("address")>>,
    <<A, L("source"), S("user"), L("user_id"), S("name")>>,
    <<A, L("source"), S("service"), S("port")>>,
    <<A, L("source"), S("service"), S("web_service"), S("url")>>,
    <<A, L("source"), S("service"), S("web_service"), L("arg")>>,
    <<A, L("target"), S("service"), S("snmp_service"), S("oid")>>,
    <<A, L("target"), S("user"), L("user_id"), S("name")>>,
    <<A, S("tool_alert"), S("name")>>,
    <<A, S("tool_alert"), L("alertident"), S("alertident")>>,
    <<A, S("correlation_alert"), L("alertident"), S("alertident")>>,
    F \o <<S("name")>>,
    F \o <<L("linkage"), S("path")>>,
    F \o <<L("checksum"), S("key")>>,
    F \o <<S("inode"), S("number")>>,
    F \o <<L("file_access"), S("user_id"), S("name")>>,
    F \o <<L("file_access"), L("permission")>>,
    <<H, S("messageid")>>,
    <<H, S("create_time")>>,
    <<H, L("analyzer"), S("name")>>,
    <<H, L("analyzer"), S("node"), L("address"), S("address")>>,
    <<H, L("additional_data"), S("data")>>}

MCPaths == UNION {Paths(s) : s \in Shapes}

\* The criteria come on top of any two fields: one of them, a path the selection has
\* joined already, a list, or a path of the other class.
MCCriteria == UNION {Paths(s) : s \in {
    <<A, S("messageid")>>, <<A, S("create_time")>>, <<H, S("create_time")>>,
    <<A, <<"source", {Undefined, 0}>>, S("node"), S("name")>>,
    <<A, L("analyzer"), S("process"), <<"arg", {0}>> >>}}

\* Fields with a function and an order.
Ordered == UNION {Paths(s) : s \in {
    <<A, S("messageid")>>, <<A, S("detect_time")>>,
    F \o <<S("modify_time")>>, F \o <<S("inode"), S("change_time")>>,
    F \o <<S("inode"), S("number")>>}}

MCSelectable ==
    {[path |-> p, fn |-> "none", mod |-> FALSE] : p \in MCPaths}
        \cup [path : Ordered, fn : {"none", "MIN", "COUNT"}, mod : {TRUE}]

=============================================================================
