CONSTANTS
    Article = {1, 2, 3, 4}
    End = 99
    MaxTime = 6
    MaxLikes = 3
    MaxQueue = 2
    Modes <- AllModes
SPECIFICATION FairSpec
INVARIANTS TypeOK NothingSkipped LikesAgree
PROPERTIES PagingEnds
CHECK_DEADLOCK FALSE
