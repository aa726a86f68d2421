CONSTANTS
    u1 = u1
    u2 = u2
    u3 = u3
    NoUser = NoUser
    End = End
    User = {u1, u2, u3}
    Call = {c1, c2}
    Ask <- TwoFollowed
    Loader = {l1, l2}
    Loads <- SharedLists
    CacheMax = 2
    Modes <- Extremes
SPECIFICATION SpecCache
INVARIANTS TypeOKCache ListsTruthful
CHECK_DEADLOCK FALSE
