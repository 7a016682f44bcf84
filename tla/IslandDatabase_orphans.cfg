SPECIFICATION Spec
CONSTANTS
    b4 = b4
    b1 = b1
    b2 = b2
    b3 = b3
    Bodies = {b1, b2, b3}
    Islands = {0, 1, 2, 3}
    Static = Static
    SleepThreshold = 1
    Kinds = {TRUE}
    Removable = {TRUE}
    Toggles = FALSE
SYMMETRY MCSymmetry
CHECK_DEADLOCK FALSE
INVARIANTS
    AssertionsHold
