CONSTANTS
    u1 = u1
    u2 = u2
    u3 = u3
    User = {u1}
    Message <- OneUser
    Processor = {p1, p2}
    Reader = {}
    MaxDeliveries = 2
    Failures = {}
SPECIFICATION Spec
INVARIANTS CountsMatchRecords
CHECK_DEADLOCK FALSE
