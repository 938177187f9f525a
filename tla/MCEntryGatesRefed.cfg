SPECIFICATION Spec
CONSTANTS
    Listed <- MCListed
    Sides = {"LONG"}
    Sources = {"GRID"}
    Results <- MCResults
    Lookback = 1
    LossLimit = 2
    StopDuration = 2
    CoolDuration = 1
    PerPair = TRUE
    PerSide = FALSE
    PerSource = FALSE
    CandleLimit = 3
    MaxNow = 4
    MaxTrades = 0
    MaxTrouble = 1
INVARIANT EachBarOnce
CHECK_DEADLOCK FALSE
