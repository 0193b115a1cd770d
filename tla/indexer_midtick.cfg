\* finality latest, a reorganisation during a tick
SPECIFICATION Spec
CONSTANTS
    Workers = {w1}
    Events = {a, b}
    NoEvent = NoEvent
    Finalities = {"latest"}
    RangeSize = 2
    ReorgWindow = 2
    Replayed = {}
    QuietTicks = FALSE
    MaxHeight = 3
    MaxMined = 5
    MaxReplays = 0
INVARIANTS
    CaughtUpMeansAgreement
CHECK_DEADLOCK FALSE
