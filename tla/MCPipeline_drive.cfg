SPECIFICATION MCSpec
CONSTANTS
    Files = {f}
    Errors <- MCErrors
    None = None
    Error = Error
    Unparsable = Unparsable
    Outputs <- MCOutputs
    Ratings = {20, 40, 60, 75}
    Encoders = {"nvenc", "videotoolbox", "libx265"}
    IntRange = 4294968
    LongRange = 2000000000
    MinSizePerHour = 2048
    MinBpp = 40
    MinBppHevc = 150
    MinPotential = 1000
    MaxMoves = 1
    MaxFaults = 2
INVARIANTS TypeOK ActiveIsDriven RowKeepsProbe MoreBitsNeverSpared ColourReachesEncoder
PROPERTIES FollowsWorkflow MovesOn ProbeFailureIsFinal
CHECK_DEADLOCK FALSE
