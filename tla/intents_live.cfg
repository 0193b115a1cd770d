CONSTANTS
    i1 = i1
    i2 = i2
    Intents = {i1, i2}
    Approvals = {}
    Finality = "safe"
    BatchSize = 2
    Prompt = FALSE
    StableOutcome = TRUE
    MaxHeight = 1
    MaxForks = 2
SPECIFICATION LiveSpec
PROPERTIES LateHashConfirms SubmittedMovesOn
CHECK_DEADLOCK FALSE
