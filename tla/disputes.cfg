CONSTANTS
    Whole = 2
    Shares = {0, 1}
    Manifests = {m1}
    SavesApart = TRUE
    MaxEvents = 6
SPECIFICATION Spec
INVARIANTS RowsFollowEvents NeverStuck ShownAsDecided
CHECK_DEADLOCK FALSE
