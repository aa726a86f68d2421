CONSTANTS
    u1 = u1
    u2 = u2
    u3 = u3
    User = {u1, u2}
    Message <- ThreeMessages
    Processor = {p1, p2}
    Reader = {r1}
    MaxDeliveries = 1
    Failures = {}
SPECIFICATION FairSpec
INVARIANTS CountsNeverInvented
PROPERTIES AckedWasOnRecord TransactionEnds
CHECK_DEADLOCK FALSE
