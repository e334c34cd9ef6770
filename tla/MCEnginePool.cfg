SPECIFICATION Spec
SYMMETRY Symmetry
CONSTANTS
    N = 2
    Coroutines = {c1, c2}
    Switch = switch
    Models = {m1, m2}
    Configured = m1
    MaxDispatched = 2
    NONE = NONE
INVARIANTS LoneYieldUnloadsAll 
