SPECIFICATION FairSpec
CONSTANTS
    Parts = 2
    Files = {config, shard1, shard2}
    Config = config
    Weights = {shard1, shard2}
    Pinnings = {TRUE, FALSE}
    Holders = {"primary", "secondary"}
    Alterations = {{}, {"primary"}}
    MaxFaults = 4
INVARIANTS TypeOK CompleteIsWhole SuccessMeansWhole
PROPERTY ModelArrives
CHECK_DEADLOCK FALSE
