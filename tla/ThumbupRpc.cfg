CONSTANTS
    User = {u1}
    Request = {r1, r2, r3}
    NoRequest = NoRequest
    RequestTypes <- AllTypes
    Modes <- AllModes
SPECIFICATION Spec
INVARIANTS TypeOK DoneMeansPushed AtMostOneHolder FailedRequestFreesKey AckedIntentReachedMQ
PROPERTIES KeyLifecycle
CHECK_DEADLOCK FALSE
SYMMETRY Alike
