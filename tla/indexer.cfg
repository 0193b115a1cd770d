\* both finalities, ticks that fail, a replay; with latest, reorganisations between ticks
SPECIFICATION LiveSpec
CONSTANTS
    Workers = {w1}
    Events = {a, b}
    NoEvent = NoEvent
    Finalities = {"safe", "latest"}
    RangeSize = 2
    ReorgWindow = 2
    QuietTicks = TRUE
    Replayed = {"safe"}
    MaxHeight = 3
    MaxMined = 5
    MaxReplays = 1
INVARIANTS
    CaughtUpMeansAgreement
    EffectsFollowProjection
PROPERTIES
    CatchesUp
CHECK_DEADLOCK FALSE
