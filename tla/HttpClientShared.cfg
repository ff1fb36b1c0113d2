\* One signs out while a renewal is on its way, and another signs in.
CONSTANTS
    a = a
    b = b
    c1 = c1
    c2 = c2
    c3 = c3
    None = None
    Refused = Refused
    Tabs = {a}
    Calls = {c1, c2}
    TabOf <- OneTab
    Users = {"ana", "bia"}
    First = "ana"
    Losses = FALSE
    SignIns = 1
    Expiries = 3
SPECIFICATION Spec
CHECK_DEADLOCK FALSE
INVARIANT
    UserAndPairTogether
