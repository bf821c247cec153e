SPECIFICATION FairSpec
CONSTANTS
    Streams = {s1, s2}
    ControlStream = ctl
    NoStream = none
    MaxFrames = 2
    MaxPeerEvents = 2
    WakeCap = 1
    WakeRead = 1
INVARIANTS
    StreamIsReliableSuffix
    FinSound
    QueuedDatagramIsArmed
    DatagramsInOrder
    PeerStreamDelivered
PROPERTIES
    RelayIsFifo
    FinLastIfEofSeenAtDrain
    EveryFrameHanded
    FinEventually
