CONSTANTS
    m1 = m1
    m2 = m2
    Mobile = {m1, m2}
    Trim <- Spaces
    Calls = 3
    Limit = 1
    Modes <- AllModes
SPECIFICATION FairSpec
INVARIANTS TypeOK DailyLimit TokensGenuine
PROPERTIES CodeStable LimitEndsWithDay
CHECK_DEADLOCK FALSE
