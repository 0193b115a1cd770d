CONSTANTS
    Whole = 2
    Shares = {0, 1}
    Manifests = {m1}
    SavesApart = TRUE
    MaxEvents = 3
SPECIFICATION Spec
INVARIANT DisputeResolvedOnChain
CHECK_DEADLOCK FALSE
