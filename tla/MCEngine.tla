------------------------------ MODULE MCEngine ------------------------------
(***************************************************************************)
(* Small instances of Engine for TLC.                                      *)
(***************************************************************************)
EXTENDS Engine, TLC

\* Listener calls are interchangeable: each returns before its task is used
\* again.  (Not for the liveness runs.)
Symmetry == Permutations(Callers)
=============================================================================
