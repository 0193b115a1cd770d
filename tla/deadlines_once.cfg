\* two milestones of one kind
SPECIFICATION AvailabilitySpec
CONSTANTS
    Addr = {c, d, a, f, o}
    NoAddr = NoAddr
    Ids = {e1}
    Hashes = {h1}
    NoHash = NoHash
    Amounts = {101}
    Bps = {0}
    MAX_BPS = 10000
    PLATFORM_FEE_BPS = 250
    Refusing = {}
    REVIEW_PERIOD = 1
    EVIDENCE_RESPONSE_PERIOD = 1
    CHALLENGE_PERIOD = 1
    FINAL_RULING_NOTICE_PERIOD = 1
    ARBITER_STALL_PERIOD = 2
    EvidenceNotice = 1
    MaxTime = 6
    Owner = o
    Arbiter = a
    FeeRecipient = f
    Clients = {c}
    Developers = {d}
    MaxDeadline = 2
    Horizon = 3
    Handovers = {}
    SettledShare = 0
INVARIANTS
    EveryMilestoneTold
CHECK_DEADLOCK FALSE
