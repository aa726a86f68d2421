CONSTANTS
    h1 = h1
    h2 = h2
    Host = {h1, h2}
    Statement = {1, 2, 3}
    Modes <- AllModes
SPECIFICATION FairSpec
INVARIANTS TypeOK StaysListed Accounted
PROPERTIES EntriesGo
CHECK_DEADLOCK FALSE
