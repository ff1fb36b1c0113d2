\* One tab and one renewal whose answer is lost.
CONSTANTS
    a = a
    b = b
    c1 = c1
    c2 = c2
    c3 = c3
    None = None
    Refused = Refused
    Tabs = {a}
    Calls = {c1, c2, c3}
    TabOf <- OneTab
    Users = {"ana"}
    First = "ana"
    Losses = TRUE
    SignIns = 0
    Expiries = 3
SPECIFICATION Spec
CHECK_DEADLOCK FALSE
INVARIANT
    LossIsForgiven
