SPECIFICATION CatalogSpec
CONSTANTS
    v1 = v1
    v2 = v2
    Variants = {v1, v2}
    Checkouts = {o1}
    Requests = {r1}
    Edits = {e1}
    Products = {"p"}
    ProductOf <- OneProduct
    Patches <- Bodies
    MaxQuantity = 1
    InitialStock <- Shelf
    Targets = {"CANCELLED"}
    Notes = {""}
    NoNote = ""
    ORDER_CODE_ATTEMPTS = 3
    Faults = {}
SYMMETRY Symmetric
INVARIANTS
    OrderedVariantsStay
CHECK_DEADLOCK FALSE
