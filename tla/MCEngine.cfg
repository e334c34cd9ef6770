SPECIFICATION Spec
CONSTANTS
    Callers = {c1, c2}
    Switchers = {s1}
    Recovery = recovery
    Models = {m1, m2}
    ConfiguredModel = m1
    MaxRequests = 2
    MaxAttempts = 2
    MaxCrashes = 1
    NONE = NONE
SYMMETRY Symmetry
INVARIANTS TypeOK SingleCore StateTellsVram LoneYieldEndsUnloaded UncrashedAccepts
PROPERTY ImplementsContract
