\* an issue is cancelled between the undo's read of it and its write
SPECIFICATION Spec
CONSTANTS
    Developers = {d1, d2}
    NoDeveloper = NoDeveloper
    MaxReservations = 2
    MaxRequests = 1
    CancelAlone = TRUE
    ReorgsApart = TRUE
    CapturesApart = TRUE
    UndosApart = FALSE
PROPERTIES
    CancelledForGood
CHECK_DEADLOCK FALSE
