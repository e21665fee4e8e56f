CONSTANTS
    PeerA = "A"
    PeerB = "B"
    Punch = {n1, n2}
    Text = {"x"}
    MaxChat = 1
    RelayRouted = FALSE
SPECIFICATION Spec
INVARIANTS TypeOK NonceUnique DeliveredByCounterpart EndedByPeer
PROPERTY ImplementsChannel
CHECK_DEADLOCK FALSE
SYMMETRY PunchSymmetry
