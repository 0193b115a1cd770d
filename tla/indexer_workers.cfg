\* two workers, one of which lost its lock
SPECIFICATION Spec
CONSTANTS
    Workers = {w1, w2}
    Events = {a, b}
    NoEvent = NoEvent
    Finalities = {"safe", "latest"}
    RangeSize = 2
    ReorgWindow = 2
    QuietTicks = TRUE
    Replayed = {"safe"}
    MaxHeight = 3
    MaxMined = 5
    MaxReplays = 1
INVARIANTS
    CaughtUpMeansAgreement
    EffectsFollowProjection
CHECK_DEADLOCK FALSE
