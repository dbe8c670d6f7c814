SPECIFICATION Spec
CONSTANTS
    slice = slice
    scope = scope
    Path = {slice}
    Ancestors <- Flat
    Grouped = {}
    Pid <- MCPid
    RSS <- MCRSS
    Buffer = 1
    MaxKills = 3
    MaxFaults = 1
    NoPath = nopath
    Unknown = unknown
INVARIANTS
    TypeOK
    VictimIsDead
PROPERTIES
    EventsAreKills
    ObservedKillNamesVictim
