SPECIFICATION FairSpec
CONSTANTS
    slice = slice
    scope = scope
    Path = {slice}
    Ancestors <- Flat
    Grouped = {}
    Pid <- TwoPids
    RSS <- MCRSS
    Buffer = 1
    MaxKills = 2
    MaxFaults = 1
    NoPath = nopath
    Unknown = unknown
INVARIANTS
    VictimIsDead
PROPERTIES
    EventsAreKills
    ObservedKillNamesVictim
    KillsReported
    StreamCloses
