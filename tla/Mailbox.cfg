CONSTANTS
    Blob = {b1, b2, bad}
    Poison = {bad}
    MaxConn = 2
    EventCap = 2
    None = None
    End = End
    Other = Other
SPECIFICATION LiveSpec
INVARIANTS TypeOK DeletedWasHandled
PROPERTY MailboxEmpties
