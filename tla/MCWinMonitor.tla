---------------------------- MODULE MCWinMonitor ----------------------------
(***************************************************************************)
(* Small instances of WinMonitor for TLC.                                  *)
(***************************************************************************)
EXTENDS WinMonitor
=============================================================================
