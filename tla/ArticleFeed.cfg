CONSTANTS
    Article = {1, 2}
    Writer = {w1, w2}
    MQ = MQ
    Loader = {l1, l2}
    End = End
    DefaultLimit = 2
    Modes <- SomeModes
SPECIFICATION Spec
INVARIANTS TypeOK FeedTruthful ClosedIsComplete SearchAgrees
SYMMETRY Alike
CHECK_DEADLOCK FALSE
