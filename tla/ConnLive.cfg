CONSTANTS
    Peer = {p}
    Task = {c1, c2}
    None = None
    MaxAttempts = 1
    BackoffCap = 1
SPECIFICATION TaskSpec
PROPERTIES ReservationReleased ClosedEntryRemoved
CHECK_DEADLOCK FALSE
