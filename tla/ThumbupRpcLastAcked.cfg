CONSTANTS
    User = {u1}
    Request = {r1, r2, r3}
    NoRequest = NoRequest
    RequestTypes <- LikeTypes
    Modes <- Reliable
SPECIFICATION Spec
PROPERTIES LastAckedIntentReachedMQ
CHECK_DEADLOCK FALSE
