SPECIFICATION LoggedSpec
CONSTANTS
    Key = {k1, k2, k3}
    Value = {u, v}
    Time = {1, 2, 3, 4, 5}
    None = None
    Span = 2
    MaxKeys = 2
    MaxValues = 2
    MaxTotal = 3
    MaxAdds = 4
SYMMETRY WindowSymmetry
CHECK_DEADLOCK FALSE
INVARIANTS
    TypeOK
    KeysHoldValues
    CountExact
    WithinCapacity
    Chronological
    ExactUntilEvicted
    LossAccounted
PROPERTY
    AcceptedKeySurvives
