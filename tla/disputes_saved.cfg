CONSTANTS
    Whole = 2
    Shares = {0, 1}
    Manifests = {m1}
    SavesApart = FALSE
    MaxEvents = 3
SPECIFICATION Spec
INVARIANT AttachedToStanding
CHECK_DEADLOCK FALSE
