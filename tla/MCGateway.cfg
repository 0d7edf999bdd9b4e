CONSTANTS
    w1 = w1
    w2 = w2
    b1 = b1
    b2 = b2
    r1 = r1
    r2 = r2
    Never = Never
    Reads <- TwoReads
    Writes <- OneWrite
    Readbacks <- OneReadback
    ReadbackOf <- Pair
    Threshold = 2
    Cooldown = 1
    Capacity = 4
    Cost = 3
    MaxTime = 2
SPECIFICATION Spec
CHECK_DEADLOCK FALSE
INVARIANT TypeOK
INVARIANT OutageTripsBreaker
INVARIANT EveryReturnAudited
 
INVARIANT RateBound
PROPERTY WriteReturns
 
