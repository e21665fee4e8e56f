CONSTANTS
    Peer = {p}
    Task = {c1, c2}
    None = None
    MaxAttempts = 1
    BackoffCap = 1
SPECIFICATION Spec
PROPERTY RelayFallback
CHECK_DEADLOCK FALSE
SYMMETRY TaskSymmetry
