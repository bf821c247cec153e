SPECIFICATION FairSpec
CONSTANTS
    Controls = {c1, c2}
    Bidi = {b1}
    Uni = {u1}
    None = None
    Server = Server
    QueueCap = 2
INVARIANTS
    RoutedToOwnSession
    NoStaleUse
    ClosedLeavesNothing
PROPERTY
    DatagramsServed
