SPECIFICATION Spec
CONSTANTS
    Poll = poll
    MonitorWins = {w1}
    DebugWins = {d1}
    ProofKeys = {k1, k2}
    FailSafeOnDisconnect = TRUE
    ProofDetectionEnabled = TRUE
    MaxCompletedProofs = 0
SYMMETRY Symmetry
INVARIANTS TypeOK MonitorExclusion WinningHasOwner YieldIsStillDue
PROPERTY OnlyTimersEndWinning
