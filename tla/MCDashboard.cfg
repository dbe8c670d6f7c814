SPECIFICATION FairSpec
CONSTANTS
    Capacity = 2
    MaxReports = 3
    Interval = 2
    FetchTimeout = 5
    MaxFetches = 2
INVARIANTS
    PanesAgree
    ScreenIsOneMoment
PROPERTIES
    SelectionFollows
    Recovers
