SPECIFICATION FairSpec
CONSTANTS
    Requests = {r1, r2}
    Models = {m1, m2}
    ConfiguredModel = m1
    NONE = NONE
    MaxCrashes = 1
    MaxYields = 1
    MaxRestarts = 1
INVARIANT AnswerFromModelAsked
PROPERTIES ReceiptForWholeGeneration RequestsAnswered
CHECK_DEADLOCK FALSE
