SPECIFICATION Spec
CONSTANTS
    Listed <- MCListed
    Sides = {"LONG"}
    Sources = {"GRID", "TREND"}
    Results <- MCResults
    Lookback = 1
    LossLimit = 2
    StopDuration = 2
    CoolDuration = 1
    PerPair = TRUE
    PerSide = FALSE
    PerSource = FALSE
    CandleLimit = 3
    MaxNow = 5
    MaxTrades = 2
    MaxTrouble = 2
INVARIANTS TypeOK NoBlindEntry HeldWhileDue
CHECK_DEADLOCK FALSE
