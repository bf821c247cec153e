SPECIFICATION PartsSpec
CONSTANTS
    Q = 1
    MaxPayload = 5
    Frames <- FittingFrames
    Garbage <- BadBytes
    MaxWrites = 3
    MaxLen = 9
    MaxChars = 6
    HostVars = {"HOME", "LANG"}
    MaxNames = 7
    Children = {c1, c2}
CHECK_DEADLOCK FALSE
INVARIANTS
    DeliversSent
    BytesConserved
    BlocksOnlyWhenIncomplete
    AcceptsTheFormat
    ReencodesShorter
    VarintRoundTrip
    BuildRoundTrips
    SplitFindsWords
    EnvIsTerminated
    Win32HandlesBalanced
PROPERTIES
    ReturnsAfterClose
    DecisionIsFinal
