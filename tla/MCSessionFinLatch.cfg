SPECIFICATION Spec
CONSTANTS
    Streams = {s1, s2}
    ControlStream = ctl
    NoStream = none
    MaxFrames = 2
    MaxPeerEvents = 2
    WakeCap = 2
    WakeRead = 1
INVARIANT
    LatchedFinIsEmitted
