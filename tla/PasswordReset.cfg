\* Two runs on the customer, two asks for a link and two resets.
CONSTANTS
    Runs = {r1, r2}
    Asks = {f1, f2}
    Resets = {x1, x2}
    MAX_RESET_ATTEMPTS = 1
SPECIFICATION ResetSpec
SYMMETRY Symmetric
CHECK_DEADLOCK FALSE
INVARIANTS
    LinkSetsOnePassword
    OlderLinkIsDead
    AccessEndsWithThePassword
    SweptStaysSwept
PROPERTIES
    NewAskStopsOlderResets
