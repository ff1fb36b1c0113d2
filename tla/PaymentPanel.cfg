SPECIFICATION Spec
CONSTANTS
    e1 = e1
    e2 = e2
    None = None
    Editors = {e1, e2}
    Fits <- Pairs
    Inputs <- Typing
    FirstRules <- Loja
    Totals <- Amounts
    MaxEdits = 3
    MaxSaves = 2
    MaxFetches = 1
SYMMETRY Symmetric
INVARIANTS
    RulesFitTogether
    ShopKeepsItsWord
    InstalmentsClose
PROPERTIES
    ColleagueIsNotUndone
CHECK_DEADLOCK FALSE
