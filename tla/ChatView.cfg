CONSTANTS
    User = {"loop", "task", "dispatch", "ui"}
    Msg = {s1, r1, r2}
    Mine = {s1}
    Blobs = {r2}
    Old = Old
    MaxGen = 2
    None = None
    Peer = Peer
    Elsewhere = Elsewhere
    MaxWipe = 1
SPECIFICATION Spec
INVARIANTS TypeOK StoredUntilPurged  
PROPERTY ImplementsLog
CHECK_DEADLOCK FALSE
