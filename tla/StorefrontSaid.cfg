\* What the code does not keep: TLC stops at the first property; leave one to see it.
SPECIFICATION Spec
CONSTANTS
    small = small
    large = large
    None = None
    Items = {small, large}
    Customers = {c1}
    Ways <- Formas
    FirstCatalog <- Loja
    Rules <- Regras
    StoreMinimum = 5000
    FirstLines <- Vazia
    FirstStash <- Nada
    Deals <- Aumentos
    Requests = {1, 2}
    MAX_LINE_QUANTITY = 2
    MAX_CART_LINES = 2
    MaxPicks = 3
    MaxVisits = 1
    MaxLogins = 1
    MaxShopChanges = 2
    Faulty = TRUE
INVARIANTS
    PickedIsNeverLost
    OneOrderPerBag
    ModalComparesWhatWasSeen
PROPERTIES
    OrderIsOfTheQuote
CHECK_DEADLOCK FALSE
