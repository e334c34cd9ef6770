----------------------------- MODULE MCScheduler -----------------------------
(* Scheduler for TLC: wins and proof keys are model values.                *)
EXTENDS Scheduler, TLC

Symmetry == Permutations(MonitorWins) \cup Permutations(DebugWins)
                \cup Permutations(ProofKeys)
=============================================================================
