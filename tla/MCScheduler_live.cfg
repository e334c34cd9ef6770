SPECIFICATION FairSpec
CONSTANTS
    Poll = poll
    MonitorWins = {w1}
    DebugWins = {d1}
    ProofKeys = {k1}
    FailSafeOnDisconnect = TRUE
    ProofDetectionEnabled = TRUE
    MaxCompletedProofs = 1
PROPERTIES WinningEnds MonitorEnds DecisionHeals
