\* One run on the customer, one ask for a link and three resets, with two wrong
\* tokens enough to end a link.
CONSTANTS
    Runs = {r1}
    Asks = {f1}
    Resets = {x1, x2, x3}
    MAX_RESET_ATTEMPTS = 2
SPECIFICATION ResetSpec
SYMMETRY Symmetric
CHECK_DEADLOCK FALSE
INVARIANTS
    FewWrongTokensEndTheLink
