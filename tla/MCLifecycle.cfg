SPECIFICATION FairSpec
CONSTANTS
    Buffer = 2
    PassMax = 2
INVARIANTS
    SamplerJoined
    ProbeReleased
    TracedStreamIsOwned
PROPERTIES
    ShutdownCompletes
    SamplerFailureIsFatal
CHECK_DEADLOCK FALSE
