\* Five invocations on one account, of any kind and in any order.
CONSTANTS
    Runs = {r1, r2, r3, r4, r5}
SPECIFICATION Spec
SYMMETRY Symmetric
CHECK_DEADLOCK FALSE
INVARIANTS
    OneOpenTokenPerSession
    ClosedStaysClosed
    OldAccessIsRefused
    RefusedForAReason
