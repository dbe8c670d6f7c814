SPECIFICATION HistorySpec
CONSTANTS
    Capacity = 5
    Sample <- MCSample
    ZeroSample = zero
    Unlimited = 5
    PageCounterMax = 4
    MaxSeconds = 3
    RowLimit = 3
    MaxBytes = 2
    MaxGap = 2
    MaxTime = 2
    Limits = {1, 3}
    Uncapped = uncapped
INVARIANTS
    ReadersAgree
    TrendIsLeastSquares
    ProjectionFollowsGrowth
    NoCeilingNoRatio
    RowsTellTheStory
PROPERTIES
    ImplementsWindow
CHECK_DEADLOCK FALSE
