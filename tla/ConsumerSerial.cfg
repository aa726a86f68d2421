CONSTANTS
    u1 = u1
    u2 = u2
    u3 = u3
    User = {u1, u2}
    Message <- ManyMessages
    Processor = {p1}
    Reader = {}
    MaxDeliveries = 2
    Failures = {"call", "delete"}
SPECIFICATION Spec
INVARIANTS TypeOK CacheCoherent
PROPERTIES LedgerSpec AckMeansRecorded
CHECK_DEADLOCK FALSE
