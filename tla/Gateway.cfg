CONSTANTS
    c1 = c1
    c2 = c2
    Call = {c1, c2}
    Asks <- AllAndOne
    Modes <- AllModes
SPECIFICATION Spec
INVARIANTS TypeOK NoFalseSuccess ServedAsAsked RefusedMeansUntouched CodesAreGenuine
CHECK_DEADLOCK FALSE
