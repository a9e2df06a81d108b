SPECIFICATION Spec
CONSTANTS
    Word = 1048576
    SamplesPerBlock = 3
    Uint32 = 16
    HeaderSize = 8
    maxFrameSize = 288
    Headers <- Tracks0
    Bodies <- Bodies0
    Jobs <- Jobs0
CHECK_DEADLOCK FALSE
INVARIANTS
    WavIsWhole
    TablesAreRead
    BitsAreRead
    AcceptedInBounds
    
    TracksKept
    BundleRestored
    StreamIsPrefix
