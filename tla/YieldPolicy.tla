----------------------------- MODULE YieldPolicy -----------------------------
(***************************************************************************)
(* The WindowPoSt policy: what EvaluateWindowPost decides for a deadline,  *)
(* and how far away the deadline is (policy.go, lotus/types.go).  A        *)
(* deadline is a record with the fields of lotus.DeadlineInfo the policy   *)
(* reads.  A decision keeps its state and SecondsUntilNextChange.          *)
(***************************************************************************)
EXTENDS Integers

CONSTANTS
    GracefulYieldThresholdSec,
    HardStopThresholdSec,
    ResumeDelayAfterCloseSec

ASSUME ThresholdAssumption ==
    /\ GracefulYieldThresholdSec \in Nat
    /\ HardStopThresholdSec \in Nat
    /\ ResumeDelayAfterCloseSec \in Nat

EpochDuration == 30

SecondsUntil(target, now) ==
    IF target - now < 0 THEN 0 ELSE (target - now) * EpochDuration

SecondsUntilOpen(info) == SecondsUntil(info.open, info.currentEpoch)

SecondsUntilClose(info) == SecondsUntil(info.close, info.currentEpoch)

IsOpen(info) == info.open <= info.currentEpoch /\ info.currentEpoch < info.close

Decide(state, until) == [state |-> state, until |-> until]

\* Mutant: the countdown of the safe zone runs to the opening of the window.
AvailableDecisionUntilOpen(info) == Decide("AVAILABLE", SecondsUntilOpen(info))

\* Safe zone: far from the deadline.
AvailableDecision(info) ==
    Decide("AVAILABLE", SecondsUntilOpen(info) - GracefulYieldThresholdSec)

EvaluateWindowPost(info) ==
    CASE IsOpen(info) ->
           Decide("WINDOW_POST", SecondsUntilClose(info) + ResumeDelayAfterCloseSec)
      [] ~IsOpen(info) /\ SecondsUntilOpen(info) <= HardStopThresholdSec ->
           Decide("WINDOW_POST", SecondsUntilOpen(info))
      [] ~IsOpen(info) /\ SecondsUntilOpen(info) > HardStopThresholdSec
           /\ SecondsUntilOpen(info) <= GracefulYieldThresholdSec ->
           Decide("YIELDING", SecondsUntilOpen(info) - HardStopThresholdSec)
      [] OTHER -> AvailableDecision(info)
=============================================================================
