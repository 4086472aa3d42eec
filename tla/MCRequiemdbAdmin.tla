---------------------------- MODULE MCRequiemdbAdmin ----------------------------
(***************************************************************************)
(* Values of the constants of RequiemdbAdmin for TLC.                      *)
(***************************************************************************)
EXTENDS RequiemdbAdmin

MCLimits == {-1, 3}

=============================================================================
