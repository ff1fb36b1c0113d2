\* Three calls, one allowed in a window of two ticks, and time for two windows.
CONSTANTS
    Calls = {c1, c2, c3}
    Limit = 1
    Length = 2
    Horizon = 5
SPECIFICATION FairSpec
CHECK_DEADLOCK FALSE
INVARIANTS
    PlacesAreDistinct
    RefusedAreOverLimit
    RetryAfterIsHonest
PROPERTY
    CallsAreAnswered
