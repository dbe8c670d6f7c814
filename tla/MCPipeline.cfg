SPECIFICATION Spec
CONSTANTS
    Capacity = 1
    MaxMemory = 1
    MaxEvents = 2
    Unknown = unknown
INVARIANTS
    PeakIsHonest
    EveryKillAccounted
    CountedAreListed
