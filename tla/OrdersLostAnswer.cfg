SPECIFICATION Spec
CONSTANTS
    v1 = v1
    v2 = v2
    Variants = {v1, v2}
    Checkouts = {o1, o2}
    Requests = {r1, r2}
    MaxQuantity = 1
    InitialStock <- Shelf
    Targets = {"CONFIRMED", "CANCELLED"}
    Notes = {""}
    NoNote = ""
    ORDER_CODE_ATTEMPTS = 3
    Faults = {"saveAnswer"}
SYMMETRY Symmetric
INVARIANTS
    LiveOrderHoldsItsLines
CHECK_DEADLOCK FALSE
