\* a reservation is cancelled between the capture's reads of it and of its issue
SPECIFICATION Spec
CONSTANTS
    Developers = {d1, d2}
    NoDeveloper = NoDeveloper
    MaxReservations = 2
    MaxRequests = 1
    CancelAlone = TRUE
    ReorgsApart = TRUE
    CapturesApart = FALSE
    UndosApart = TRUE
INVARIANTS
    HeldExactlyWhileReserved
CHECK_DEADLOCK FALSE
