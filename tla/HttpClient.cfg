\* Three calls of one tab, two expiries, one sign-in, anything lost.
CONSTANTS
    a = a
    b = b
    c1 = c1
    c2 = c2
    c3 = c3
    None = None
    Refused = Refused
    Tabs = {a}
    Calls = {c1, c2, c3}
    TabOf <- OneTab
    Users = {"ana"}
    First = "ana"
    Losses = TRUE
    SignIns = 1
    Expiries = 2
SPECIFICATION FairSpec
CHECK_DEADLOCK FALSE
INVARIANTS
    NobodyIsThrownOut
PROPERTIES
    RenewedForCause
    KeptUntilRefused
    CallsEnd
