SPECIFICATION RunSpec
CONSTANTS
    Listed <- MCListed
    CMult <- MCCMult
    QtyStep = 2
    MinQty = 2
    MinCost = 5000
    TotalPct = 90
    SinglePct = 70
    GridPct = 60
    LossPct = 10
    PausePct <- MCPausePct
    Wel <- MCWel
    AllowancePct = 8
    UnstuckAt = 70
    UnstuckClose = 50
    UnstuckDist = 0
    PriceStep = 360
    InitDist = 0
    InitPct = 25
    Spacing = 500
    WeWeight = 50
    DoubleDown = 100
    AggressiveDoubleDown = 200
    Compression = 75
    MaxLevels = 3
    MarkupStart = 500
    MarkupEnd = 1000
    CloseQtyPct = 50
    TrailAt = 500
    TrailBack = 400
    TrailDouble = 100
    AggressiveAt = 40
    PanicOpposite = TRUE
    OverlayFloor = 25
    OverlaySizing = 150
    FundingVeto = 20
    WeakAggr = 80
    StrongAggr = 50
    EntryPct = 50
    StopLoss = 5
    TakeProfit = 10
    KellyWindow = 2
    KellyMin = 1
    KellyPart = 5
    Candles <- MCCandles
    Moods <- MCMoods
    Start = 100000
    MakerFee = 1
    TakerFee = 2
    Slippage = 5
    BarHours = 12
    FundingHours = 8
    YellowPct = 5
    OrangePct = 12
    RedPct = 17
    CooldownBars = 2
    LiquidationPct = 78
    MaxBars = 4
PROPERTY EntriesNotSampled
CHECK_DEADLOCK FALSE
