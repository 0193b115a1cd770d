\* finality latest: two intents, one an approval, over two blocks and two forks
CONSTANTS
    i1 = i1
    i2 = i2
    Intents = {i1, i2}
    Approvals = {i2}
    Finality = "latest"
    BatchSize = 2
    Prompt = TRUE
    StableOutcome = TRUE
    MaxHeight = 2
    MaxForks = 2
SPECIFICATION ReconciledSpec
INVARIANTS ConfirmedOnEvent EventNotGivenUp
PROPERTIES EndsOnce LateHashConfirms
CHECK_DEADLOCK FALSE
