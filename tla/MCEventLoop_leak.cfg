CONSTANTS
    i1 = i1
    i2 = i2
    b1 = b1
    b2 = b2
    s1 = s1
    c1 = c1
    c2 = c2
    Callers <- Few
    Interactive <- Person
    Streamed = {}
    Limit = 1
    MaxAttempts = 2
    KeepsResult = FALSE
    Runs <- TwoChats
    Streaming = {}
    MaxSteps = 2
    MaxCalls = 1
    Budget = 3
    MaxClears = 0
SPECIFICATION EventLoopSpec
CHECK_DEADLOCK FALSE
INVARIANT SlotsAccounted
