---------------------------- MODULE MCEventStream ----------------------------
(***************************************************************************)
(* Small instances of EventStream, and of ProofWait in it, for TLC.        *)
(***************************************************************************)
EXTENDS EventStream
=============================================================================
