SPECIFICATION Spec
CONSTANTS
    slice = slice
    scope = scope
    Path = {slice, scope}
    Ancestors <- Nested
    Grouped = {}
    Pid <- OnePid
    RSS <- MCRSS
    Buffer = 1
    MaxKills = 1
    MaxFaults = 0
    NoPath = nopath
    Unknown = unknown
INVARIANTS
    AncestorsNotBlamed
