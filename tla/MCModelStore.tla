---------------------------- MODULE MCModelStore ----------------------------
(***************************************************************************)
(* Small instances of ModelStore for TLC.                                  *)
(***************************************************************************)
EXTENDS ModelStore
=============================================================================
