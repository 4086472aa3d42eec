---------------------------- MODULE MCRequiemdbResult ----------------------------
(***************************************************************************)
(* Instances of RequiemdbResult for TLC.                                   *)
(***************************************************************************)
EXTENDS RequiemdbResult

CONSTANTS t1, t2

BothThreads == {t1, t2}
AllBackends == {"mysql", "pgsql", "sqlite3"}
MysqlOnly   == {"mysql"}
=============================================================================
