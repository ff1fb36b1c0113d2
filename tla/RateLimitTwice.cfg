\* Three calls that find no window, and a limit of one.
CONSTANTS
    Calls = {c1, c2, c3}
    Limit = 1
    Length = 2
    Horizon = 3
SPECIFICATION Spec
SYMMETRY Symmetric
CHECK_DEADLOCK FALSE
INVARIANT
    AtMostTwicePerWindow
