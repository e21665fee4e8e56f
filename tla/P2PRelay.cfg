CONSTANTS
    PeerA = "A"
    PeerB = "B"
    Punch = {n1}
    Text = {"x", "y"}
    MaxChat = 2
    RelayRouted = TRUE
SPECIFICATION Spec
INVARIANTS  NonceUnique DeliveredByCounterpart
PROPERTY ImplementsChannel
CHECK_DEADLOCK FALSE
