SPECIFICATION FairSpec
CONSTANTS
    Peers = {p1, p2}
    NoPeer = NoPeer
    Behaviours = {"exits", "closes", "waits"}
    MaxPolls = 2
INVARIANTS
    ReaderFindsItsState
    ListedPeersAreLive
    StdinCloseIsEof
    RemovedLeavesNothing
    ExitLeavesNothing
PROPERTIES
    RemovalFinishesIfOutputEnds
    ShutdownFinishesIfOutputEnds
