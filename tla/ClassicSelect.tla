------------------------------ MODULE ClassicSelect ------------------------------
(***************************************************************************)
(* How the classic format turns a selection of IDMEF paths and criteria     *)
(* into one SELECT over joined tables (classic-path-resolve.c,              *)
(* classic-sql-join.c, classic-sql-select.c), for the values of the paths   *)
(* and for the idents of the messages, and how classic_get_next_values      *)
(* reads the row that comes back (classic.c).                               *)
(*                                                                         *)
(* A path is a sequence of elements [n |-> name, x |-> index], from "alert" *)
(* or "heartbeat" to the field, and the code's depth d is position d + 1.   *)
(* The index of an element is Forbidden when the element is not a list,     *)
(* Undefined when the path gives none, -1 for the last and 0, 1, ...        *)
(* otherwise.                                                               *)
(***************************************************************************)
EXTENDS ClassicInsert, FiniteSets, SequencesExt

CONSTANTS
    \* The messages in the database: sequences, by ident.
    Alerts, Heartbeats,
    \* The fields that may be selected: [path, fn, mod], with an SQL function or "none"
    \* and whether the result is ordered or grouped by the field.
    Selectable,
    \* The paths of the criteria.
    Criteria,
    \* Bounds on the number of fields and of criteria of a query.
    MaxFields, MaxCriteria

ASSUME BoundsAssumption == MaxFields \in Nat \ {0} /\ MaxCriteria \in Nat

VARIABLES
    \* The query that is built: "values" or "idents".
    query,
    \* struct classic_sql_join: "none" or the class of the top table, and the tables.
    top, tables,
    \* The fields selected so far: [sel, tbl], with the position of their table in
    \* the join, 0 for the top table.
    fields,
    \* struct classic_sql_select: the columns, as positions in fields, field_count, and
    \* [field, at] for every ORDER BY or GROUP BY.
    columns, field_count, modifiers,
    \* The paths of the criteria, with their tables, and whether resolving failed.
    where, failed

vars == <<query, top, tables, fields, columns, field_count, modifiers, where, failed>>

Undefined == -3
Forbidden == -4
LAST_ELEMENT == -1

-----------------------------------------------------------------------------
(* Paths *)

LastOf(path) == path[Len(path)]
ClassOf(path) == path[Len(path) - 1]

MessageTimes == {"create_time", "detect_time", "analyzer_time"}
FileTimes == {"create_time", "modify_time", "access_time"}

\* idmef_path_get_value_type(path, -1) == IDMEF_VALUE_TYPE_TIME
IsTime(path) ==
    \/ ClassOf(path).n \in {"alert", "heartbeat"} /\ LastOf(path).n \in MessageTimes
    \/ ClassOf(path).n = "file" /\ LastOf(path).n \in FileTimes
    \/ ClassOf(path).n = "inode" /\ LastOf(path).n = "change_time"

\* The fields that live in the top table itself.
InTopTable(path) == Len(path) = 2 /\ ~IsTime(path)

resolve_table_name(path) ==
    LET class == ClassOf(path).n
        child == LastOf(path).n
    IN  CASE class \in {"alert", "heartbeat"} /\ child \in MessageTimes -> child
          [] class = "process" /\ child = "arg" -> "process_arg"
          [] class = "process" /\ child = "env" -> "process_env"
          [] class = "file_access" /\ child = "permission" -> "file_access_permission"
          [] class = "web_service" /\ child = "arg" -> "web_service_arg"
          [] OTHER -> class

\* A name of a field stands for SQL columns: their number.  The times of a message
\* come with an offset and microseconds when they are selected without a function.
message_field_columns(path, fn) ==
    IF fn = "none" /\ LastOf(path).n \in MessageTimes THEN 3 ELSE 1

\* Those of a file come with an offset, and 0 for the microseconds.
file_field_columns(path, fn) ==
    IF fn = "none" /\ LastOf(path).n \in FileTimes THEN 3 ELSE 1

\* Mutant of resolve_field_columns: the context of a function is not told apart.
ColumnsInAnyContext(path, fn) ==
    CASE ClassOf(path).n \in {"alert", "heartbeat"} -> message_field_columns(path, "none")
      [] ClassOf(path).n = "file" -> file_field_columns(path, "none")
      [] OTHER -> 1

\* search_path, which finds the resolver of the class: the default one, and those of
\* SNMP services and checksums, name one column.
resolve_field_columns(path, fn) ==
    CASE ClassOf(path).n \in {"alert", "heartbeat"} -> message_field_columns(path, fn)
      [] ClassOf(path).n = "file" -> file_field_columns(path, fn)
      [] OTHER -> 1

\* What a path given by librequiem is: it starts at the message, no class below is a
\* message, and the last element is an index of a list when it names one of the lists
\* of strings.
StringLists == {<<"process", "arg">>, <<"process", "env">>, <<"web_service", "arg">>,
                <<"file_access", "permission">>}

IsPath(path) ==
    /\ IsList(path) /\ Len(path) >= 2
    /\ \A k \in DOMAIN path : path[k].n \in {"alert", "heartbeat"} <=> k = 1
    /\ <<ClassOf(path).n, LastOf(path).n>> \in StringLists => LastOf(path).x # Forbidden

IsSelected(sel) ==
    /\ IsPath(sel.path)
    /\ sel.fn \in {"none", "MIN", "MAX", "AVG", "STD", "COUNT"}
    /\ sel.mod \in BOOLEAN

ASSUME PathsAssumption ==
    /\ \A sel \in Selectable : IsSelected(sel)
    /\ \A path \in Criteria : IsPath(path)

-----------------------------------------------------------------------------
(* The parent type a table is joined with. *)

resolve_target_parent_type(path) ==
    IF Len(path) = 3 THEN NoType
    ELSE IF path[3].n # "file" THEN "T"
    ELSE IF Len(path) > 4 /\ path[4].n = "file_access" /\ path[5].n = "user_id" THEN "F"
    ELSE NoType

resolve_alert_parent_type(path) ==
    CASE path[2].n \in {"classification", "assessment", "overflow_alert"} -> NoType
      [] path[2].n = "tool_alert" -> IF path[3].n = "alertident" THEN "T" ELSE NoType
      [] path[2].n = "correlation_alert" -> IF path[3].n = "alertident" THEN "C" ELSE NoType
      [] path[2].n = "source" -> IF Len(path) > 3 THEN "S" ELSE NoType
      [] path[2].n = "target" -> resolve_target_parent_type(path)
      [] OTHER -> IF LastOf(path).n = "detect_time" THEN NoType ELSE "A"

resolve_parent_type(path) ==
    IF path[1].n = "heartbeat" THEN "H" ELSE resolve_alert_parent_type(path)

-----------------------------------------------------------------------------
(* The index constraints. *)

\* Mutant of resolve_parents: the loop stops one element early.
ResolveFewerParents(path) ==
    SelectSeq(SubSeq(path, 2, Len(path) - 3), LAMBDA e : e.x # Forbidden)

\* The listed elements above the last two give _parent0_index, _parent1_index, ...
resolve_parents(path) ==
    SelectSeq(SubSeq(path, 2, Len(path) - 2), LAMBDA e : e.x # Forbidden)

\* The last of the last two elements that is listed gives _index.
resolve_own(path) ==
    IF LastOf(path).x # Forbidden THEN LastOf(path).x ELSE ClassOf(path).x

\* The constraint an index puts on a column: != -1 when it is undefined.
add_index_constraint(x, value) ==
    IF x >= LAST_ELEMENT THEN value = x ELSE value # -1

\* struct classic_sql_joined_table.
new_table(path) ==
    [path |-> path, t |-> resolve_table_name(path), pt |-> resolve_parent_type(path),
     parents |-> resolve_parents(path), own |-> resolve_own(path)]

\* The rows of message id that LEFT JOIN ... ON matches.
joined_rows(R, table, id) ==
    {r \in R :
        /\ r.t = table.t
        /\ r.id = id
        /\ table.pt # NoType => r.pt = table.pt
        /\ \A l \in DOMAIN table.parents : add_index_constraint(table.parents[l].x, r.p[l])
        /\ table.own # Forbidden => add_index_constraint(table.own, r.i)}

-----------------------------------------------------------------------------
(* The join. *)

\* Mutant of same_table: the last element is never compared.
SameObject(path, other) ==
    Len(path) = Len(other) /\ Front(path) = Front(other)

\* The test of classic_sql_join_lookup_table.
same_table(path, other) ==
    /\ Len(path) = Len(other)
    /\ IF LastOf(path).x # Forbidden \/ (IsTime(path) /\ ClassOf(path).n # "file")
       THEN path = other
       ELSE Front(path) = Front(other)

\* The position of the table classic_sql_join_lookup_table returns, or 0.
lookup_table(path) == SelectInSeq(tables, LAMBDA table : same_table(path, table.path))

\* No table: the path is of another class than the top table.
Conflict == -1

\* Mutant of classic_path_resolve: classes are not compared.
ResolveAnyClass(path) ==
    LET found == lookup_table(path)
    IN  IF InTopTable(path) THEN [tbl |-> 0, top |-> top, tables |-> tables]
        ELSE IF found # 0 THEN [tbl |-> found, top |-> top, tables |-> tables]
        ELSE [tbl |-> Len(tables) + 1, top |-> IF top = "none" THEN path[1].n ELSE top,
              tables |-> Append(tables, new_table(path))]

\* The table of a path, and the join with it.  Classes are compared only when a
\* table is added.
classic_path_resolve(path) ==
    LET found == lookup_table(path)
    IN  IF InTopTable(path) THEN [tbl |-> 0, top |-> top, tables |-> tables]
        ELSE IF found # 0 THEN [tbl |-> found, top |-> top, tables |-> tables]
        ELSE IF top \notin {"none", path[1].n}
             THEN [tbl |-> Conflict, top |-> top, tables |-> tables]
        ELSE [tbl |-> Len(tables) + 1, top |-> path[1].n,
              tables |-> Append(tables, new_table(path))]

-----------------------------------------------------------------------------
\* The column get_message_idents selects.
ident(class) ==
    [path |-> <<[n |-> class, x |-> Forbidden], [n |-> "_ident", x |-> Forbidden]>>,
     fn |-> "none", mod |-> FALSE]

\* The sort of get_message_idents.
by_create_time(class) ==
    [path |-> <<[n |-> class, x |-> Forbidden], [n |-> "create_time", x |-> Forbidden]>>,
     fn |-> "none", mod |-> TRUE]

\* classic_get_values starts with nothing; get_message_idents with the class of the
\* top table and its _ident.
Init ==
    /\ tables = << >> /\ modifiers = {} /\ where = << >> /\ failed = FALSE
    /\ \/ /\ query = "values" /\ top = "none"
          /\ fields = << >> /\ columns = << >> /\ field_count = 0
       \/ /\ query = "idents" /\ top \in {"alert", "heartbeat"}
          /\ fields = <<[sel |-> ident(top), tbl |-> 0]>>
          /\ columns = <<1>> /\ field_count = 1

\* Mutant of order_position: written before field_count is incremented.
PositionBefore(count) == count

\* The number of the column ORDER BY and GROUP BY name for the field added after
\* count others.
order_position(count) == count + 1

\* classic_sql_select_add_field.
add_field(sel, tbl) ==
    /\ fields' = Append(fields, [sel |-> sel, tbl |-> tbl])
    /\ columns' = columns \o [k \in 1 .. resolve_field_columns(sel.path, sel.fn) |->
                                    Len(fields) + 1]
    /\ field_count' = field_count + 1
    /\ modifiers' = IF sel.mod
                    THEN modifiers \cup {[field |-> Len(fields) + 1,
                                          at |-> order_position(field_count)]}
                    ELSE modifiers

\* classic_path_resolve_selected.
resolve_selected(sel) ==
    LET r == classic_path_resolve(sel.path)
    IN  /\ ~failed /\ where = << >>
        /\ top' = r.top /\ tables' = r.tables /\ failed' = (r.tbl = Conflict)
        /\ IF r.tbl = Conflict THEN UNCHANGED <<fields, columns, field_count, modifiers>>
                              ELSE add_field(sel, r.tbl)
        /\ UNCHANGED <<query, where>>

\* The next path of the selection of classic_get_values.
Select(sel) ==
    /\ query = "values" /\ Len(fields) < MaxFields
    /\ resolve_selected(sel)

\* get_message_idents_set_order.
SetOrder ==
    /\ query = "idents" /\ Len(fields) = 1
    /\ resolve_selected(by_create_time(top))

\* classic_path_resolve_criterion, after the selection.
Criterion(path) ==
    LET r == classic_path_resolve(path)
    IN  /\ ~failed /\ fields # << >> /\ Len(where) < MaxCriteria
        /\ top' = r.top /\ tables' = r.tables /\ failed' = (r.tbl = Conflict)
        /\ where' = IF r.tbl = Conflict THEN where
                    ELSE Append(where, [path |-> path, tbl |-> r.tbl])
        /\ UNCHANGED <<query, fields, columns, field_count, modifiers>>

Next ==
    \/ \E sel \in Selectable : Select(sel)
    \/ SetOrder
    \/ \E path \in Criteria : Criterion(path)

Spec == Init /\ [][Next]_vars

-----------------------------------------------------------------------------
(* Reading the row. *)

\* Number of columns get_value takes for a field.
get_value_columns(sel) ==
    IF IsTime(sel.path) /\ sel.fn \notin {"MIN", "MAX", "AVG", "STD", "COUNT"} THEN 3 ELSE 1

\* The column classic_get_next_values starts reading field k at.
sql_cnt(k) ==
    1 + FoldLeft(LAMBDA n, f : n + get_value_columns(f.sel), 0, SubSeq(fields, 1, k - 1))

-----------------------------------------------------------------------------
(* The rows of the messages, and the elements of a message a path reaches. *)

Rows ==
    UNION {insert_alert(i, Alerts[i]) : i \in DOMAIN Alerts}
        \cup UNION {insert_heartbeat(i, Heartbeats[i]) : i \in DOMAIN Heartbeats}

Elements(list, x) ==
    IF x < LAST_ELEMENT THEN ToSet(list)
    ELSE LET k == IF x = LAST_ELEMENT THEN Len(list) ELSE x + 1
         IN  {list[j] : j \in DOMAIN list \cap {k}}

\* The objects whose fields the path names, or the elements of its list.
Reached(m, path) ==
    LET steps == IF LastOf(path).x # Forbidden \/ Len(path) = 2
                 THEN Tail(path) ELSE Front(Tail(path))
    IN  FoldLeft(LAMBDA S, e : UNION {Elements(o[e.n], e.x) : o \in S}, {m}, steps)

-----------------------------------------------------------------------------
(* Properties.  Each says for which selections it holds. *)

\* The joins a query has made: for the selection and for the criteria.
Uses == {[path |-> fields[k].sel.path, tbl |-> fields[k].tbl] : k \in DOMAIN fields}
            \cup {where[k] : k \in DOMAIN where}

\* Paths the rows cannot answer: those below a file access that end in the list of
\* permissions, whose _parent2_index is not constrained, and the last argument or
\* environment string of a process and the last alertident of a tool alert, which
\* have no copy at -1.
Answerable(path) ==
    /\ LastOf(path).n # "permission"
    /\ ~(ClassOf(path).n = "process" /\ LastOf(path).x = LAST_ELEMENT)
    /\ ~(path[2].n = "tool_alert" /\ ClassOf(path).x = LAST_ELEMENT)

\* A table joined for a path has exactly one row for every element of the message
\* the path reaches, and that element's value: the indexes a path gives select the
\* rows insert wrote for those elements, -1 selects the last element at every
\* level, and no index at all leaves out the copies of the last.
RowsAnswerPath ==
    \A u \in {w \in Uses : w.tbl # 0 /\ Answerable(tables[w.tbl].path)} :
        LET table == tables[u.tbl]
            messages == IF table.path[1].n = "alert" THEN Alerts ELSE Heartbeats
        IN  \A i \in DOMAIN messages :
                LET R == joined_rows(Rows, table, i)
                    E == Reached(messages[i], table.path)
                IN  /\ {r.v : r \in R} = {e.v : e \in E}
                    /\ Cardinality(R) = Cardinality(E)

\* A list of strings that is joined before a field of the object it belongs to: the
\* field is then looked up in the table of the list.
ListFirst(path, tbl) ==
    LastOf(tables[tbl].path).x # Forbidden /\ LastOf(path).x = Forbidden

\* A field is named in a table that holds it and for the object its path gives:
\* fields of the same object share a join, so that their values belong together,
\* and fields of different objects never do.
FieldsShareObject ==
    \A u \in {w \in Uses : w.tbl # 0} :
        \/ ListFirst(u.path, u.tbl)
        \/ /\ resolve_table_name(u.path) = tables[u.tbl].t
           /\ resolve_parents(u.path) = tables[u.tbl].parents
           /\ resolve_own(u.path) = tables[u.tbl].own

\* classic_get_next_values reads a field from the column the field was written to,
\* unless an inode's change time was selected before it: that one is written as one
\* column and read as three.
ReadsOwnColumn ==
    \A k \in DOMAIN fields :
        \/ \E j \in 1 .. k - 1 : /\ ClassOf(fields[j].sel.path).n = "inode"
                                 /\ IsTime(fields[j].sel.path)
        \/ sql_cnt(k) \in DOMAIN columns /\ columns[sql_cnt(k)] = k
            /\ (sql_cnt(k) > 1 => columns[sql_cnt(k) - 1] = k - 1)

\* ORDER BY and GROUP BY name the column of their field, unless a time written as
\* three columns was selected before it: field_count counts it as one.
OrdersOwnColumn ==
    \A c \in modifiers :
        \/ \E j \in 1 .. c.field - 1 :
                resolve_field_columns(fields[j].sel.path, fields[j].sel.fn) > 1
        \/ c.at \in DOMAIN columns /\ columns[c.at] = c.field

\* No query reads tables of alerts and tables of heartbeats, which their idents would
\* join to each other: every path that has a table is of the class the query is FROM.
OneTopClass ==
    \A u \in {w \in Uses : w.tbl # 0} : u.path[1].n = top

=============================================================================
