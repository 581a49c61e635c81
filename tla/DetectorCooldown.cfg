SPECIFICATION MCSpec
CONSTANTS
    Key = {k1, k2, k3}
    Value <- Events
    Time = {1, 2, 3, 4}
    Uid = {u1, u2}
    None = None
    Span = 2
    MaxKeys = 1
    MaxValues = 3
    MaxTotal = 3
    Filtered = {k3}
    MinEvents = 2
    MaxReported = 2
    Cooldown = 2
    MinPeriod = 1
    MaxPeriod = 2
    Suspicious <- PeriodicGate
    MaxCalls = 6
SYMMETRY Symmetry
CHECK_DEADLOCK FALSE
INVARIANT
    CooldownHolds
