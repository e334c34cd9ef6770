---------------------------- MODULE MCEnginePool ----------------------------
(***************************************************************************)
(* Small instances of EnginePool for TLC.                                  *)
(***************************************************************************)
EXTENDS EnginePool, TLC

\* Coroutines are interchangeable.
Symmetry == Permutations(Coroutines)
=============================================================================
