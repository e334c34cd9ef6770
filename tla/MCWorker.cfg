SPECIFICATION WFairSpec
CONSTANTS
    Callers = {c1, c2}
    Switchers = {}
    Recovery = recovery
    Models = {m1}
    ConfiguredModel = m1
    MaxRequests = 1
    MaxAttempts = 1
    MaxCrashes = 1
    NONE = NONE
    Links = {"up", "refused", "silent"}
    MaxFaults = 1
    MaxChanges = 2
PROPERTIES YieldReleasesGpu FailSafePauses PromptPauseIsUndone CallsReturn DeadRecovers
CHECK_DEADLOCK FALSE
