CONSTANTS
    i1 = i1
    i2 = i2
    Intents = {i1, i2}
    Approvals = {}
    Finality = "safe"
    BatchSize = 1
    Prompt = TRUE
    StableOutcome = TRUE
    MaxHeight = 2
    MaxForks = 1
SPECIFICATION LiveSpec
PROPERTY LateHashConfirms
CHECK_DEADLOCK FALSE
