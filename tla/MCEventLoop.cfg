CONSTANTS
    i1 = i1
    i2 = i2
    b1 = b1
    b2 = b2
    s1 = s1
    c1 = c1
    c2 = c2
    Callers <- AllCallers
    Interactive <- People
    Streamed <- Streams
    Limit = 2
    MaxAttempts = 2
    KeepsResult = FALSE
    Runs <- Tabs
    Streaming <- StreamTabs
    MaxSteps = 2
    MaxCalls = 2
    Budget = 3
    MaxClears = 1
SPECIFICATION EventLoopSpec
CHECK_DEADLOCK FALSE
INVARIANTS
    EngineWithinLimit
    WorkConserving
    WholeTurns
    NoUnattendedAfterRead
PROPERTIES
    ImplementsSlots
    NoneHangs
    EveryRunEnds
