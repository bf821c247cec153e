SPECIFICATION FairSpec
CONSTANTS
    Sizes = {2, 3}
    PIPE_BUF = 2
    InCap = 3
    OutCap = 2
    ErrCap = 1
    BUF_CAP = 3
    MaxFrames = 1
CHECK_DEADLOCK FALSE
PROPERTY
    StderrForwarded
