\* Two tokens, refilled every two units; a bucket idle for more than six is forgotten.
SPECIFICATION LimiterSpec
CONSTANTS
    Key = {k1, k2}
    Burst = 2
    Every = 2
    IdleAfter = 6
    Lag = 1
    Caller = {p1, p2}
    MaxTime = 9
    k1 = k1
    k2 = k2
    p1 = p1
    p2 = p2
INVARIANTS
    LimiterTypeOK
    CloseToExact
CHECK_DEADLOCK FALSE
