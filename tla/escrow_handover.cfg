\* one bounty while the platform roles change hands; nobody is obliged to act
\* but the callers of exits and claims
SPECIFICATION LiveHandoverSpec
CONSTANTS
    Addr = {c, d, a, f, o, x}
    NoAddr = NoAddr
    Ids = {e1}
    Hashes = {h1}
    NoHash = NoHash
    Amounts = {81}
    Bps = {3300}
    MAX_BPS = 10000
    PLATFORM_FEE_BPS = 250
    Refusing = {d, f}
    REVIEW_PERIOD = 1
    EVIDENCE_RESPONSE_PERIOD = 1
    CHALLENGE_PERIOD = 1
    FINAL_RULING_NOTICE_PERIOD = 1
    ARBITER_STALL_PERIOD = 2
    MaxTime = 7
    Owner = o
    Arbiter = a
    FeeRecipient = f
    Clients = {c}
    Developers = {d}
    MaxDeadline = 2
    Horizon = 2
    Handovers = {x}
INVARIANTS
    RolesDistinct
PROPERTIES
    EventuallyResolved
    CreditsGetPaid
CHECK_DEADLOCK FALSE
