\* three requests, two providers, a row that is deleted and created again
SPECIFICATION Spec
CONSTANTS
    Requests = {r1, r2, r3}
    NoOne = NoOne
    Providers = 2
    TIMEOUT = 1
    LEASE = 2
    MaxTime = 3
    MaxRows = 2
INVARIANTS
    OneAsksAtATime
    LogTellsReport
PROPERTIES
    ReportsInOrder
CHECK_DEADLOCK FALSE
