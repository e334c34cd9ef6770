----------------------------- MODULE MCApiServer -----------------------------
(***************************************************************************)
(* Small instances of ApiServer for TLC.                                   *)
(***************************************************************************)
EXTENDS ApiServer, TLC

\* Requests are interchangeable.  (Not for the liveness runs.)
Symmetry == Permutations(Requests)
=============================================================================
