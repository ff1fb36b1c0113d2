\* What the code does not keep: TLC stops at the first property; leave one to see it.
SPECIFICATION Spec
CONSTANTS
    c1 = c1
    c2 = c2
    c3 = c3
    c4 = c4
    c5 = c5
    p1 = p1
    r1 = r1
    r2 = r2
    None = None
    Same = Same
    Ids = {c1, c2, c3, c4, c5}
    Slugs = {"a", "b", "c", "d"}
    Products = {p1}
    Requests = {r1, r2}
    FirstTree <- Tree
    FirstProducts <- Shelf
    NewCategories <- Bodies
    Changes <- Patches
    Files <- Lists
    Tried <- Names
    MaxHistory = 1
    MaxRequests = 3
INVARIANTS
    OneLevelAlways
    AddressIsGivenOnce
    NoAddressIsForgotten
PROPERTIES
    RemovalSparesProducts
CHECK_DEADLOCK FALSE
