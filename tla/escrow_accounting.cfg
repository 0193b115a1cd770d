\* two bounties with overlapping parties, and the fee recipient handed over;
\* shares in hundredths, so that few amounts stand for the roundings
SPECIFICATION AccountingSpec
CONSTANTS
    Addr = {c, d, a, f, o}
    NoAddr = NoAddr
    Ids = {e1, e2}
    Hashes = {h1}
    NoHash = NoHash
    Amounts = {12}
    Bps = {33}
    MAX_BPS = 100
    PLATFORM_FEE_BPS = 20
    Refusing = {}
    REVIEW_PERIOD = 1
    EVIDENCE_RESPONSE_PERIOD = 1
    CHALLENGE_PERIOD = 1
    FINAL_RULING_NOTICE_PERIOD = 1
    ARBITER_STALL_PERIOD = 2
    MaxTime = 3
    Owner = o
    Arbiter = a
    FeeRecipient = f
    Clients = {c, d}
    Developers = {d, f}
    MaxDeadline = 2
    Horizon = 1
    Handovers = {d}
SYMMETRY IdSymmetry
INVARIANTS
    FullyBacked
    TotalsMatch
    CreditsFollowResolutions
PROPERTIES
    KeepsPromise
CHECK_DEADLOCK FALSE
