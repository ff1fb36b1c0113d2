\* Two tabs with the pair they both read when they opened.
CONSTANTS
    a = a
    b = b
    c1 = c1
    c2 = c2
    c3 = c3
    None = None
    Refused = Refused
    Tabs = {a, b}
    Calls = {c1, c2}
    TabOf <- TwoTabs
    Users = {"ana"}
    First = "ana"
    Losses = FALSE
    SignIns = 0
    Expiries = 3
SPECIFICATION Spec
CHECK_DEADLOCK FALSE
INVARIANT
    TwoTabsLiveTogether
