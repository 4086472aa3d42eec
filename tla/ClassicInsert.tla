----------------------------- MODULE ClassicInsert -----------------------------
(***************************************************************************)
(* The rows the classic format writes for an IDMEF message                  *)
(* (plugins/format/classic/classic-insert.c).                               *)
(*                                                                         *)
(* A message is a tree of records.  Every object has a value v, which       *)
(* stands for its scalar fields (Empty for a string or a piece of data of   *)
(* length zero), and one field per kind of child, named as in an IDMEF      *)
(* path and holding the sequence of the children; an optional child is a    *)
(* sequence of at most one.  Escaping and formatting the scalar fields are  *)
(* left out: a value is written and read back as it is.                     *)
(*                                                                         *)
(* One operator per insert function gives the set of the rows its INSERTs   *)
(* write.  Their order and the failure of one of them are the business of   *)
(* RequiemdbSql: here a message is written whole or not at all.             *)
(***************************************************************************)
EXTENDS Integers, Sequences

Empty == << >>

\* _parent_type of the tables that have no such column, and _index of those
\* that have no _index.
NoType == "none"
NoIndex == -2

-----------------------------------------------------------------------------
(* The shape of a message: the children of each object, lists or optional. *)

IsList(x) == x \in Seq({x[k] : k \in DOMAIN x})
ListOf(Shape(_), x) == IsList(x) /\ \A k \in DOMAIN x : Shape(x[k])
IsOption(x) == IsList(x) /\ Len(x) <= 1
OptionOf(Shape(_), x) == IsOption(x) /\ \A k \in DOMAIN x : Shape(x[k])

IsLeaf(x) == x = [v |-> x.v]
IsNode(node) ==
    /\ node = [v |-> node.v, address |-> node.address]
    /\ ListOf(IsLeaf, node.address)
IsUser(user) ==
    /\ user = [v |-> user.v, user_id |-> user.user_id]
    /\ ListOf(IsLeaf, user.user_id)
IsProcess(process) ==
    /\ process = [v |-> process.v, arg |-> process.arg, env |-> process.env]
    /\ ListOf(IsLeaf, process.arg) /\ ListOf(IsLeaf, process.env)
IsWebService(web) == web = [v |-> web.v, arg |-> web.arg] /\ ListOf(IsLeaf, web.arg)
IsService(service) ==
    /\ service = [v |-> service.v, web_service |-> service.web_service,
                  snmp_service |-> service.snmp_service]
    /\ OptionOf(IsWebService, service.web_service) /\ OptionOf(IsLeaf, service.snmp_service)
IsFileAccess(access) ==
    /\ access = [user_id |-> access.user_id, permission |-> access.permission]
    /\ ListOf(IsLeaf, access.user_id) /\ Len(access.user_id) = 1
    /\ ListOf(IsLeaf, access.permission)
IsFile(file) ==
    /\ file = [v |-> file.v, file_access |-> file.file_access, linkage |-> file.linkage,
               inode |-> file.inode, checksum |-> file.checksum]
    /\ ListOf(IsFileAccess, file.file_access)
    /\ ListOf(IsLeaf, file.linkage) /\ OptionOf(IsLeaf, file.inode)
    /\ ListOf(IsLeaf, file.checksum)
IsEnd(x) ==
    /\ OptionOf(IsNode, x.node) /\ OptionOf(IsUser, x.user)
    /\ OptionOf(IsProcess, x.process) /\ OptionOf(IsService, x.service)
IsSource(source) ==
    /\ source = [v |-> source.v, node |-> source.node, user |-> source.user,
                 process |-> source.process, service |-> source.service]
    /\ IsEnd(source)
IsTarget(target) ==
    /\ target = [v |-> target.v, node |-> target.node, user |-> target.user,
                 process |-> target.process, service |-> target.service, file |-> target.file]
    /\ IsEnd(target) /\ ListOf(IsFile, target.file)
IsAnalyzer(analyzer) ==
    /\ analyzer = [v |-> analyzer.v, node |-> analyzer.node, process |-> analyzer.process]
    /\ OptionOf(IsNode, analyzer.node) /\ OptionOf(IsProcess, analyzer.process)
IsAssessment(x) ==
    /\ x = [impact |-> x.impact, confidence |-> x.confidence, action |-> x.action]
    /\ OptionOf(IsLeaf, x.impact) /\ OptionOf(IsLeaf, x.confidence) /\ ListOf(IsLeaf, x.action)
IsClassification(x) ==
    x = [v |-> x.v, reference |-> x.reference] /\ ListOf(IsLeaf, x.reference)
HasIdents(x) == x = [v |-> x.v, alertident |-> x.alertident] /\ ListOf(IsLeaf, x.alertident)

IsAlert(m) ==
    /\ m = [type |-> "alert", v |-> m.v, assessment |-> m.assessment, analyzer |-> m.analyzer,
            create_time |-> m.create_time, detect_time |-> m.detect_time,
            analyzer_time |-> m.analyzer_time, source |-> m.source, target |-> m.target,
            classification |-> m.classification, additional_data |-> m.additional_data,
            tool_alert |-> m.tool_alert, correlation_alert |-> m.correlation_alert,
            overflow_alert |-> m.overflow_alert]
    /\ OptionOf(IsLeaf, m.detect_time) /\ OptionOf(IsLeaf, m.overflow_alert)
    /\ OptionOf(IsAssessment, m.assessment) /\ OptionOf(IsClassification, m.classification)
    /\ OptionOf(HasIdents, m.tool_alert) /\ OptionOf(HasIdents, m.correlation_alert)
    /\ ListOf(IsSource, m.source) /\ ListOf(IsTarget, m.target)

IsHeartbeat(m) ==
    m = [type |-> "heartbeat", v |-> m.v, analyzer |-> m.analyzer, create_time |-> m.create_time,
         analyzer_time |-> m.analyzer_time, additional_data |-> m.additional_data]

IsMessage(m) ==
    /\ (m.type = "alert" /\ IsAlert(m)) \/ (m.type = "heartbeat" /\ IsHeartbeat(m))
    /\ OptionOf(IsLeaf, m.create_time) /\ OptionOf(IsLeaf, m.analyzer_time)
    /\ ListOf(IsAnalyzer, m.analyzer) /\ ListOf(IsLeaf, m.additional_data)

-----------------------------------------------------------------------------
(* A row: table t, _parent_type pt, _message_ident id, <<_parent0_index, ...>> *)
(* p, _index i and the value v of the other columns.                           *)

Row(t, pt, id, p, i, v) ==
    [t |-> t, pt |-> pt, id |-> id, p |-> p, i |-> i, v |-> v]

\* The loop over a list: the elements at 0, 1, ..., then the last one again,
\* with everything below it, at index -1.
Listed(Insert(_, _), list) ==
    (UNION {Insert(k - 1, list[k]) : k \in DOMAIN list})
        \cup IF list = << >> THEN {} ELSE Insert(-1, list[Len(list)])

\* The loop of insert_process over its arguments and environment, which keeps
\* the last element in a variable and then inserts nothing at -1.
ListedOnce(Insert(_, _), list) ==
    UNION {Insert(k - 1, list[k]) : k \in DOMAIN list}

\* if ( ! object ) return 0;
Optional(Insert(_), child) == UNION {Insert(child[k]) : k \in DOMAIN child}

-----------------------------------------------------------------------------
insert_address(pt, id, parent, index, address) ==
    {Row("address", pt, id, <<parent>>, index, address.v)}

insert_node(pt, id, parent, node) ==
    {Row("node", pt, id, <<parent>>, NoIndex, node.v)}
        \cup Listed(LAMBDA k, x : insert_address(pt, id, parent, k, x), node.address)

\* Mutant of insert_user_id: the index of the file access is left at 0.
InsertUserIdOfFile(pt, id, parent, file, access, index, userId) ==
    {Row("user_id", pt, id, <<parent, file, 0>>, index, userId.v)}

\* The user of a source or target has 0 for the two indexes of a file access.
insert_user_id(pt, id, parent, file, access, index, userId) ==
    {Row("user_id", pt, id, <<parent, file, access>>, index, userId.v)}

insert_user(pt, id, parent, user) ==
    {Row("user", pt, id, <<parent>>, NoIndex, user.v)}
        \cup Listed(LAMBDA k, x : insert_user_id(pt, id, parent, 0, 0, k, x),
                    user.user_id)

insert_process_arg(pt, id, parent, index, arg) ==
    {Row("process_arg", pt, id, <<parent>>, index, arg.v)}

insert_process_env(pt, id, parent, index, env) ==
    {Row("process_env", pt, id, <<parent>>, index, env.v)}

insert_process(pt, id, parent, process) ==
    {Row("process", pt, id, <<parent>>, NoIndex, process.v)}
        \cup ListedOnce(LAMBDA k, x : insert_process_arg(pt, id, parent, k, x),
                        process.arg)
        \cup ListedOnce(LAMBDA k, x : insert_process_env(pt, id, parent, k, x),
                        process.env)

insert_snmp_service(pt, id, parent, snmp) ==
    {Row("snmp_service", pt, id, <<parent>>, NoIndex, snmp.v)}

insert_web_service_arg(pt, id, parent, index, arg) ==
    {Row("web_service_arg", pt, id, <<parent>>, index, arg.v)}

insert_web_service(pt, id, parent, web) ==
    {Row("web_service", pt, id, <<parent>>, NoIndex, web.v)}
        \cup Listed(LAMBDA k, x : insert_web_service_arg(pt, id, parent, k, x), web.arg)

\* The service's type says which of the two it has: never both.
insert_service(pt, id, parent, service) ==
    {Row("service", pt, id, <<parent>>, NoIndex, service.v)}
        \cup Optional(LAMBDA x : insert_web_service(pt, id, parent, x),
                      service.web_service)
        \cup Optional(LAMBDA x : insert_snmp_service(pt, id, parent, x),
                      service.snmp_service)

-----------------------------------------------------------------------------
insert_inode(id, target, file, inode) ==
    {Row("inode", NoType, id, <<target, file>>, NoIndex, inode.v)}

insert_linkage(id, target, file, index, linkage) ==
    {Row("linkage", NoType, id, <<target, file>>, index, linkage.v)}

insert_file_access_permission(id, target, file, access, index, permission) ==
    {Row("file_access_permission", NoType, id, <<target, file, access>>, index,
         permission.v)}

\* The user_id, which IDMEF requires, is inserted at index 0 only, without a
\* copy at -1.
insert_file_access(id, target, file, index, access) ==
    {Row("file_access", NoType, id, <<target, file>>, index, Empty)}
        \cup Listed(LAMBDA k, x :
                        insert_file_access_permission(id, target, file, index, k, x),
                    access.permission)
        \cup insert_user_id("F", id, target, file, index, 0, access.user_id[1])

insert_checksum(id, target, file, index, checksum) ==
    {Row("checksum", NoType, id, <<target, file>>, index, checksum.v)}

insert_file(id, target, index, file) ==
    {Row("file", NoType, id, <<target>>, index, file.v)}
        \cup Listed(LAMBDA k, x : insert_file_access(id, target, index, k, x),
                    file.file_access)
        \cup Listed(LAMBDA k, x : insert_linkage(id, target, index, k, x), file.linkage)
        \cup Optional(LAMBDA x : insert_inode(id, target, index, x), file.inode)
        \cup Listed(LAMBDA k, x : insert_checksum(id, target, index, k, x), file.checksum)

-----------------------------------------------------------------------------
insert_source(id, index, source) ==
    {Row("source", NoType, id, << >>, index, source.v)}
        \cup Optional(LAMBDA x : insert_node("S", id, index, x), source.node)
        \cup Optional(LAMBDA x : insert_user("S", id, index, x), source.user)
        \cup Optional(LAMBDA x : insert_process("S", id, index, x), source.process)
        \cup Optional(LAMBDA x : insert_service("S", id, index, x), source.service)

insert_target(id, index, target) ==
    {Row("target", NoType, id, << >>, index, target.v)}
        \cup Optional(LAMBDA x : insert_node("T", id, index, x), target.node)
        \cup Optional(LAMBDA x : insert_user("T", id, index, x), target.user)
        \cup Optional(LAMBDA x : insert_process("T", id, index, x), target.process)
        \cup Optional(LAMBDA x : insert_service("T", id, index, x), target.service)
        \cup Listed(LAMBDA k, x : insert_file(id, index, k, x), target.file)

insert_analyzer(pt, id, index, analyzer) ==
    {Row("analyzer", pt, id, << >>, index, analyzer.v)}
        \cup Optional(LAMBDA x : insert_node(pt, id, index, x), analyzer.node)
        \cup Optional(LAMBDA x : insert_process(pt, id, index, x), analyzer.process)

insert_reference(id, index, reference) ==
    {Row("reference", NoType, id, << >>, index, reference.v)}

insert_classification(id, classification) ==
    {Row("classification", NoType, id, << >>, NoIndex, classification.v)}
        \cup Listed(LAMBDA k, x : insert_reference(id, k, x), classification.reference)

insert_additional_data(pt, id, index, data) ==
    {Row("additional_data", pt, id, << >>, index, data.v)}

insert_createtime(pt, id, time) == {Row("create_time", pt, id, << >>, NoIndex, time.v)}

insert_detecttime(id, time) == {Row("detect_time", NoType, id, << >>, NoIndex, time.v)}

insert_analyzertime(pt, id, time) ==
    {Row("analyzer_time", pt, id, << >>, NoIndex, time.v)}

-----------------------------------------------------------------------------
insert_impact(id, impact) == {Row("impact", NoType, id, << >>, NoIndex, impact.v)}

insert_action(id, index, action) == {Row("action", NoType, id, << >>, index, action.v)}

insert_confidence(id, confidence) ==
    {Row("confidence", NoType, id, << >>, NoIndex, confidence.v)}

insert_assessment(id, assessment) ==
    {Row("assessment", NoType, id, << >>, NoIndex, Empty)}
        \cup Optional(LAMBDA x : insert_impact(id, x), assessment.impact)
        \cup Optional(LAMBDA x : insert_confidence(id, x), assessment.confidence)
        \cup Listed(LAMBDA k, x : insert_action(id, k, x), assessment.action)

insert_overflow_alert(id, overflow) ==
    {Row("overflow_alert", NoType, id, << >>, NoIndex, overflow.v)}

insert_alertident(pt, id, index, alertident) ==
    {Row("alertident", pt, id, << >>, index, alertident.v)}

\* The copy at -1 is guarded by "if ( ret < 0 )" instead of by last_alertident,
\* so a tool alert that goes well has none.
insert_tool_alert(id, tool) ==
    {Row("tool_alert", NoType, id, << >>, NoIndex, tool.v)}
        \cup ListedOnce(LAMBDA k, x : insert_alertident("T", id, k, x), tool.alertident)

insert_correlation_alert(id, correlation) ==
    {Row("correlation_alert", NoType, id, << >>, NoIndex, correlation.v)}
        \cup Listed(LAMBDA k, x : insert_alertident("C", id, k, x),
                    correlation.alertident)

-----------------------------------------------------------------------------
(* The row of the message itself, whose id is _ident, and what is written once *)
(* its ident is known.                                                         *)

message_row(m, id) == Row(m.type, NoType, id, << >>, NoIndex, m.v)

insert_alert(id, m) ==
    Optional(LAMBDA x : insert_createtime("A", id, x), m.create_time)
        \cup Optional(LAMBDA x : insert_detecttime(id, x), m.detect_time)
        \cup Optional(LAMBDA x : insert_analyzertime("A", id, x), m.analyzer_time)
        \cup Optional(LAMBDA x : insert_assessment(id, x), m.assessment)
        \cup Optional(LAMBDA x : insert_tool_alert(id, x), m.tool_alert)
        \cup Optional(LAMBDA x : insert_overflow_alert(id, x), m.overflow_alert)
        \cup Optional(LAMBDA x : insert_correlation_alert(id, x), m.correlation_alert)
        \cup Listed(LAMBDA k, x : insert_analyzer("A", id, k, x), m.analyzer)
        \cup Listed(LAMBDA k, x : insert_source(id, k, x), m.source)
        \cup Listed(LAMBDA k, x : insert_target(id, k, x), m.target)
        \cup Optional(LAMBDA x : insert_classification(id, x), m.classification)
        \cup Listed(LAMBDA k, x : insert_additional_data("A", id, k, x), m.additional_data)

insert_heartbeat(id, m) ==
    Listed(LAMBDA k, x : insert_analyzer("H", id, k, x), m.analyzer)
        \cup Optional(LAMBDA x : insert_createtime("H", id, x), m.create_time)
        \cup Optional(LAMBDA x : insert_analyzertime("H", id, x), m.analyzer_time)
        \cup Listed(LAMBDA k, x : insert_additional_data("H", id, k, x), m.additional_data)

=============================================================================
