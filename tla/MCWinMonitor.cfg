SPECIFICATION FairSpec
CONSTANTS
    MaxWins = 3
    ChannelCap = 1
    LogWatched = TRUE
    RowsInOrder = TRUE
    Rotations = {TRUE, FALSE}
    MaxRotations = 1
    MaxTruncations = 1
    MaxSplits = 1
    MaxRestarts = 1
    MaxFaults = 2
CHECK_DEADLOCK FALSE
INVARIANTS RecognisedOnce WholeWinsRecognised
PROPERTIES  RecognisedWinsHeld
