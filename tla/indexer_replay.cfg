\* finality latest, a reorganisation while the checkpoint has no hash
SPECIFICATION Spec
CONSTANTS
    Workers = {w1}
    Events = {a, b}
    NoEvent = NoEvent
    Finalities = {"latest"}
    RangeSize = 2
    ReorgWindow = 2
    Replayed = {"latest"}
    QuietTicks = TRUE
    MaxHeight = 3
    MaxMined = 5
    MaxReplays = 1
INVARIANTS
    CaughtUpMeansAgreement
CHECK_DEADLOCK FALSE
