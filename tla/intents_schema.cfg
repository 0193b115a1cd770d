CONSTANTS
    i1 = i1
    i2 = i2
    Intents = {i1, i2}
    Approvals = {i2}
    Finality = "safe"
    BatchSize = 2
    Prompt = TRUE
    StableOutcome = TRUE
    MaxHeight = 2
    MaxForks = 2
SPECIFICATION Spec
INVARIANT ConfirmedOnlyByApplier
CHECK_DEADLOCK FALSE
