SPECIFICATION FairSpec
CONSTANTS
    v1 = v1
    v2 = v2
    Variants = {v1, v2}
    Checkouts = {o1, o2}
    Requests = {r1, r2}
    MaxQuantity = 1
    InitialStock <- LastUnits
    Targets = {"CONFIRMED", "CANCELLED"}
    Notes = {""}
    NoNote = ""
    ORDER_CODE_ATTEMPTS = 1
    Faults = {"saveAnswer"}
INVARIANTS
    NothingLeftBehind
PROPERTIES
    CheckoutIsAnswered
    CancelledStockComesBack
CHECK_DEADLOCK FALSE
