CONSTANTS
    Peer = {p}
    Task = {c1, c2, c3}
    None = None
    MaxAttempts = 2
    BackoffCap = 2
SPECIFICATION Spec
INVARIANTS TypeOK ReservationExclusive EntriesHaveEventTask 
CHECK_DEADLOCK FALSE
SYMMETRY TaskSymmetry
