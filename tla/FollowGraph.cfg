CONSTANTS
    u1 = u1
    u2 = u2
    NoUser = NoUser
    User = {u1, u2}
    Call = {c1, c2, c3}
    Ask <- TwoUsers
    Modes <- AllModes
SPECIFICATION Spec
INVARIANTS TypeOK CountsMatchUnlessStale CountsMatch
CHECK_DEADLOCK FALSE
