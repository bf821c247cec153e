SPECIFICATION FairSpec
CONSTANTS
    Producers = {p1, p2}
    Nodes = {n1, n2, n3}
    NULL = NULL
    NoOwner = NoOwner
    Network = Network
    MaxItems = 3
INVARIANT
    ListOwnsItsNodes
PROPERTIES
    QueueIsFifo
    DestroyedWithoutLeak
