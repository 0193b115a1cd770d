\* one bounty through every window, governance frozen, and its projection call by call
SPECIFICATION BoundedMirrorSpec
CONSTANTS
    Addr = {c, d, a, f, o}
    NoAddr = NoAddr
    Ids = {e1}
    Hashes = {h1}
    NoHash = NoHash
    Amounts = {101}
    Bps = {0, 3300, 10000, 10001}
    MAX_BPS = 10000
    PLATFORM_FEE_BPS = 250
    Refusing = {c, d, a, o}
    REVIEW_PERIOD = 2
    EVIDENCE_RESPONSE_PERIOD = 1
    CHALLENGE_PERIOD = 2
    FINAL_RULING_NOTICE_PERIOD = 1
    ARBITER_STALL_PERIOD = 3
    MaxTime = 13
    Owner = o
    Arbiter = a
    FeeRecipient = f
    Clients = {c}
    Developers = {d, f}
    MaxDeadline = 2
    Horizon = 6
    Handovers = {}
    Null = Null
    Rejected = Rejected
INVARIANTS
    TypeOK
    PrincipalFullyAllocated
    OutcomeMatchesProcess
    WindowsMeet
    NoStranding
    FoldAcceptsChain
    ProjectionMatchesChain
    BalancesMatchChain
PROPERTIES
    TermsFrozen
CHECK_DEADLOCK FALSE
