SPECIFICATION FairSpec
CONSTANTS
    Buffer = 2
    PassMax = 2
PROPERTIES
    BlindnessShows
CHECK_DEADLOCK FALSE
