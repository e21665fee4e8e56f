CONSTANTS
    Late = 0
    Delay = 0
    MaxLost = 0
    None = None
    Slip = 0
    MaxAttempts = 5
    BackoffCap = 30
SPECIFICATION LookupSpec
INVARIANT FriendFindsClient
CHECK_DEADLOCK FALSE
