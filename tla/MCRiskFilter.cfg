SPECIFICATION Spec
CONSTANTS
    Listed <- MCListed
    CMult <- MCCMult
    QtyStep = 2
    MinQty = 2
    MinCost = 10
    TotalPct = 90
    SinglePct = 60
    GridPct = 50
    LossPct = 10
    PausePct <- MCPausePct
    Wel <- MCWel
    AllowancePct = 8
    UnstuckAt = 70
    UnstuckClose = 50
    UnstuckDist = 0
    Accounts <- MCAccounts
    Wanted <- MCWanted
    MaxOrders = 3
INVARIANTS TypeOK CapsHold LossBudgetHeld ExitsSurvive
CHECK_DEADLOCK FALSE
