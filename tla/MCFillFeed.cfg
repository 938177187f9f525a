SPECIFICATION FairSpec
CONSTANTS
    Feeds <- Histories
    BotStart = 2
    PageSize = 2
    MaxPages = 3
    Cap = 6
    Escalate = 2
    Whole = TRUE
    Failing = TRUE
INVARIANTS TypeOK EachTradeOnce QuietMeansCurrent
PROPERTY BookedOrParked
