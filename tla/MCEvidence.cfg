SPECIFICATION FairEvidenceSpec
CONSTANTS
    Path = {p1}
    Capacity = 2
    Sample <- MCTime
    ZeroSample = zero
    Retention = 2
    MaxTime = 5
    Buffer = 2
    MaxKills = 2
    Never = never
INVARIANTS
    MarksAreSound
    TrajectoryKept
PROPERTIES
    EvictionsAreLate
    Reclaimed
