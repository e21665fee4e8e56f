CONSTANTS
    Peer = {p1, p2}
    Name = {n}
    Id = {i1, i2}
    None = None
SPECIFICATION Spec
INVARIANTS TypeOK OneIdentity PeersLoadable AliasesKept
