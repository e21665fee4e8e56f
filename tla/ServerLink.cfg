CONSTANTS
    Server = {s1}
    First = s1
    Reachable = {s1}
    Blob = {b1}
    Cap = 1
    MaxCmds = 1
    None = None
SPECIFICATION LiveSpec
INVARIANTS TypeOK QueuedUntilCut
PROPERTIES LossNoticed  
CHECK_DEADLOCK FALSE
