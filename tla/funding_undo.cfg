\* a deposit is reorganised away after a later selection
SPECIFICATION LiveSpec
CONSTANTS
    Developers = {d1}
    NoDeveloper = NoDeveloper
    MaxReservations = 2
    MaxRequests = 1
    CancelAlone = TRUE
    ReorgsApart = FALSE
    CapturesApart = TRUE
    UndosApart = TRUE
PROPERTIES
    HoldEnds
CHECK_DEADLOCK FALSE
