SPECIFICATION Spec
CONSTANTS
    Poll = poll
    MonitorWins = {w1, w2}
    DebugWins = {}
    ProofKeys = {k1}
    FailSafeOnDisconnect = FALSE
    ProofDetectionEnabled = TRUE
    MaxCompletedProofs = 1
INVARIANT WinWindowHeld
