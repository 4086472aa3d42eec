----------------------------- MODULE ClassicSamples -----------------------------
(* Messages for the instances of ClassicStore and ClassicSelect.  Values are     *)
(* sequences of numbers, all different within a list.                           *)
EXTENDS ClassicInsert

Elem(a) == [v |-> a]
Two(a) == <<Elem(a \o <<1>>), Elem(a \o <<2>>)>>

Node(a) == [v |-> a, address |-> Two(a)]
User(a) == [v |-> a, user_id |-> Two(a)]
Process(a) == [v |-> a, arg |-> Two(a), env |-> Two(a)]
Web(a) == [v |-> a, web_service |-> <<[v |-> a, arg |-> Two(a)]>>, snmp_service |-> << >>]
Snmp(a) == [v |-> a, web_service |-> << >>, snmp_service |-> <<Elem(a)>>]
Access(a) == [user_id |-> <<Elem(a)>>, permission |-> Two(a)]
File(a) == [v |-> a, file_access |-> <<Access(a \o <<1>>), Access(a \o <<2>>)>>,
            linkage |-> Two(a), inode |-> <<Elem(a)>>, checksum |-> Two(a)]
Bare(a) == [v |-> a, node |-> << >>, user |-> << >>, process |-> << >>, service |-> << >>]
Source(a) == [v |-> a, node |-> <<Node(a)>>, user |-> <<User(a)>>,
              process |-> <<Process(a)>>, service |-> <<Web(a)>>]
Target(a) == [v |-> a, node |-> <<Node(a)>>, user |-> <<User(a)>>,
              process |-> <<Process(a)>>, service |-> <<Snmp(a)>>,
              file |-> <<File(a \o <<1>>), File(a \o <<2>>)>>]
Analyzer(a) == [v |-> a, node |-> <<Node(a)>>, process |-> <<Process(a)>>]

Alert(a) ==
    [type |-> "alert", v |-> a, assessment |-> << >>, analyzer |-> <<Analyzer(a)>>,
     create_time |-> <<Elem(a)>>, detect_time |-> << >>, analyzer_time |-> << >>,
     source |-> << >>, target |-> << >>, classification |-> << >>,
     additional_data |-> << >>, tool_alert |-> << >>, correlation_alert |-> << >>,
     overflow_alert |-> << >>]

\* A tool alert with every kind of child, and an empty piece of data at the end.
Full(a) ==
    [Alert(a) EXCEPT
        !.assessment = <<[impact |-> <<Elem(a)>>, confidence |-> <<Elem(a)>>,
                          action |-> Two(a)]>>,
        !.analyzer = <<Analyzer(a \o <<1>>), Analyzer(a \o <<2>>)>>,
        !.detect_time = <<Elem(a)>>, !.analyzer_time = <<Elem(a)>>,
        !.source = <<Source(a \o <<1>>), Bare(a \o <<2>>), Source(a \o <<3>>)>>,
        !.target = <<Target(a \o <<1>>)>>,
        !.classification = <<[v |-> a, reference |-> Two(a)]>>,
        !.additional_data = <<Elem(a), Elem(Empty)>>,
        !.tool_alert = <<[v |-> a, alertident |-> Two(a)]>>]

Correlation(a) ==
    [Alert(a) EXCEPT !.source = <<Bare(a \o <<1>>), Source(a \o <<2>>)>>,
                     !.correlation_alert = <<[v |-> a, alertident |-> Two(a)]>>]

Overflow(a) == [Alert(a) EXCEPT !.overflow_alert = <<Elem(a)>>]

\* A heartbeat whose first piece of data is empty, and one it does not trouble.
Heartbeat(a, data) ==
    [type |-> "heartbeat", v |-> a, analyzer |-> <<Analyzer(a), Analyzer(a \o <<2>>)>>,
     create_time |-> <<Elem(a)>>, analyzer_time |-> <<Elem(a)>>, additional_data |-> data]

=============================================================================
