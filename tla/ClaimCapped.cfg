\* Three tokens per three seconds, exact clocks.
SPECIFICATION LimiterSpec
CONSTANTS
    Limit = 3
    Window = 3
    Skew = 0
    Buffer = 2
    MaxTime = 6
    Callers = {a}
INVARIANT
    CappedPerWindow
