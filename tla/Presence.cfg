CONSTANTS
    Late = 2
    Delay = 3
    MaxLost = 1
    None = None
SPECIFICATION Spec
INVARIANTS TypeOK OnlineWhileConnected OfflineAfterTtl AddressSettles 
