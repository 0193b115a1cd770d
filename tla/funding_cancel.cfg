\* other transactions commit between the two steps of cancelIssue
SPECIFICATION Spec
CONSTANTS
    Developers = {d1, d2}
    NoDeveloper = NoDeveloper
    MaxReservations = 2
    MaxRequests = 1
    CancelAlone = FALSE
    ReorgsApart = TRUE
    CapturesApart = TRUE
    UndosApart = TRUE
INVARIANTS
    FundedNotCancelled
CHECK_DEADLOCK FALSE
