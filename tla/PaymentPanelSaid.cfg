\* What the code does not keep: TLC stops at the first property; leave one to see it.
SPECIFICATION Spec
CONSTANTS
    e1 = e1
    e2 = e2
    None = None
    Editors = {e1, e2}
    Fits <- PairsOfTwo
    Inputs <- TypingAnything
    FirstRules <- Loja
    Totals <- Amounts
    MaxEdits = 2
    MaxSaves = 2
    MaxFetches = 1
INVARIANTS
    PixKeyIsOfItsType
PROPERTIES
    OnlyTypedIsSaved
    TypingSurvivesTheAnswer
CHECK_DEADLOCK FALSE
