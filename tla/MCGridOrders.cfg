SPECIFICATION FairSpec
CONSTANTS
    Limit = 2
    Prices = {1, 2}
    Batch = 1
    Window = 2
    MaxFills = 3
    MaxTrouble = 2
INVARIANTS TypeOK BookBounded
PROPERTIES QueueKept Settles
