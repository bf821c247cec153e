SPECIFICATION Spec
CONSTANTS
    Peers = {p1, p2}
    NoPeer = NoPeer
    Behaviours = {"exits"}
    MaxPolls = 2
INVARIANT
    OnlySigtermEnds
