SPECIFICATION Spec
CONSTANTS
    Requests = {q1, q2}
    Orders = {o1}
    MaxStarts = 1
    MaxPos = 1
INVARIANT ZeroIsClean
