SPECIFICATION FairSpec
CONSTANTS
    Requests = {q1, q2}
    Orders = {o1}
    MaxStarts = 2
    MaxPos = 1
INVARIANTS TypeOK OneTrader StatusTruthful KillIsFinal
PROPERTIES RequestsEnd DeathIsNoticed
