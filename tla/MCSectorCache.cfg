SPECIFICATION Spec
CONSTANTS
    GracefulYieldThresholdSec = 80
    HardStopThresholdSec = 40
    ResumeDelayAfterCloseSec = 5
    WPoStPeriodDeadlines = 3
    WPoStChallengeWindow = 3
    SectorCacheRefreshEpochs = 4
    FailSafeOnDisconnect = TRUE
    InitialSectors <- AnyLayout
    Sealing = {1}
    StartEpoch = 9
    MaxEpoch = 20
    NONE = NONE
INVARIANTS
    TypeOK
    LookAheadMatchesChain
    
    YieldedBeforeOpen
    
