SPECIFICATION Spec
CONSTANTS
    small = small
    large = large
    None = None
    Items = {small, large}
    Customers = {c1}
    Ways <- Formas
    FirstCatalog <- Loja
    Rules <- Regras
    StoreMinimum = 5000
    FirstLines <- Sacola
    FirstStash <- Guardada
    Deals <- Mudancas
    Requests = {1, 2}
    MAX_LINE_QUANTITY = 2
    MAX_CART_LINES = 2
    MaxPicks = 1
    MaxVisits = 2
    MaxLogins = 2
    MaxShopChanges = 1
    Faulty = TRUE
INVARIANTS
    UnitsAreKept
    NothingOrderedTwice
    ChargedWhatWasSeen
    PricesHold
CHECK_DEADLOCK FALSE
