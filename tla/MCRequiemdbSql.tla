----------------------------- MODULE MCRequiemdbSql -----------------------------
(***************************************************************************)
(* Instances of RequiemdbSql for TLC.                                      *)
(***************************************************************************)
EXTENDS RequiemdbSqlStore, TLC

CONSTANTS t1, t2, m1, m2

BothThreads == {t1, t2}
OneThread   == {t1}
NoThreads   == {}
TwoMessages == {m1, m2}
Loaded      == {m2}      \* m2 is stored from the start, m1 can be inserted

AllChecked     == {}
FirstUnchecked == {1}    \* an INSERT followed by others of the same message
LastUnchecked  == {2}    \* the INSERT that ends the message (NStatements = 2)
=============================================================================
