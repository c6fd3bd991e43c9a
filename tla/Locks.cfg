\* Every driver; three nodes, a ttl of one second of three ticks.
SPECIFICATION Spec
CONSTANTS
    Nodes = {n1, n2, n3}
    NoNode = NoNode
    TTL = 3
    Resolution = 3
    MaxNow = 5
SYMMETRY Symmetry
INVARIANTS
    Exclusive
    LockInv
PROPERTY ImplementsLease
