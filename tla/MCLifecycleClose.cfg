SPECIFICATION FairSpec
CONSTANTS
    Buffer = 2
    PassMax = 2
INVARIANTS
    NothingSentAfterClose
CHECK_DEADLOCK FALSE
