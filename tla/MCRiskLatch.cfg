SPECIFICATION FairSpec
CONSTANTS
    Yellow = 1
    Orange = 2
    Red = 3
    Worst = 3
    Smooth = TRUE
    Cooldown = 3
    AutoRelease = 4
INVARIANTS TypeOK CooldownServed
PROPERTIES LatchHolds ReleasedBelowRed
