SPECIFICATION FairSpec
CONSTANTS
    Peers = {p1, p2}
    NoPeer = NoPeer
    Behaviours = {"waits"}
    MaxPolls = 2
PROPERTY
    RemovalFinishes
