\* Every driver; three nodes, ttl and window equal as in DefaultConfig (both 15 s).
SPECIFICATION Spec
CONSTANTS
    Nodes = {n1, n2, n3}
    NoNode = NoNode
    TTL = 3
    Window = 3
    Resolution = 3
    MaxNow = 6
SYMMETRY Symmetry
INVARIANTS
    Exclusive
    LeaderInv
    Recognised
PROPERTY ImplementsLease
