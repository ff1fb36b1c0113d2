\* What the code does not keep: TLC stops at the first property; leave one to see it.
\* Two runs on the customer, two asks for a link and two resets.
CONSTANTS
    Runs = {r1, r2}
    Asks = {f1, f2}
    Resets = {x1, x2}
    MAX_RESET_ATTEMPTS = 1
SPECIFICATION ResetSpec
SYMMETRY Symmetric
CHECK_DEADLOCK FALSE
INVARIANTS
    OneLinkAlive
    ResetEndsEverySession
