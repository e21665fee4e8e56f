CONSTANTS
    Blob = {b1}
    Poison = {}
    MaxConn = 1
    EventCap = 2
    None = None
    End = End
    Other = Other
SPECIFICATION Spec
INVARIANT DeletedWasStored
CHECK_DEADLOCK FALSE
