SPECIFICATION EFairSpec
CONSTANTS
    Partitions = {p1, p2}
    RowsUpFront = TRUE
    MaxWait = 2
    MaxErrors = 1
    Subscribers = {s1}
    Capacity = 2
CHECK_DEADLOCK FALSE
INVARIANT DoneMeansAllProved
PROPERTIES WaitReturns ResumeReachesSubscribers
