\* one issue, two developers, two selections; cancelIssue undisturbed, and
\* reorganisations apart from selections
SPECIFICATION Spec
CONSTANTS
    Developers = {d1, d2}
    NoDeveloper = NoDeveloper
    MaxReservations = 2
    MaxRequests = 1
    CancelAlone = TRUE
    ReorgsApart = TRUE
    CapturesApart = TRUE
    UndosApart = TRUE
SYMMETRY DeveloperSymmetry
INVARIANTS
    HeldExactlyWhileReserved
    FundedExactlyInProgress
PROPERTIES
    CancelledForGood
CHECK_DEADLOCK FALSE
