CONSTANTS
    hello = hello
    r1 = r1
    r2 = r2
    Requests <- HelloAndTwo
    Hello <- hello
    k1 = k1
    k2 = k2
    JobKeys <- TwoJobs
    Times = {1}
    Offset <- Jitter
    DayLength = 3
    WorkDays = {0, 1, 2, 3, 4}
    Interval = 2
    MaxConcurrency = 1
    Horizon = 5
    MaxEdits = 2
    MaxRestarts = 1
    t1 = t1
    v1 = v1
    v2 = v2
    v1o = v1o
    vp = vp
    Absent = Absent
    Unset = Unset
    Unseen = Unseen
    Tools <- OneTool
    Versions <- FourVersions
    Fingerprint <- FingerprintOf
    Poisoned <- PoisonedOnes
    Hints <- HintsOf
    Overrides <- NoOverride
    Logins = {l1, l2}
    Callbacks = {c1, c2}
    NoLogin = NoLogin
    MaxLosses = 1
    Payloads = {"p1", "p2"}
    Contents <- TwoPayloads
    Texts = {"m1", "m2", "m3"}
    Deliveries = {d1, d2, d3}
    NoPayload = NoPayload
    doc = doc
    NoMark = NoMark
    NoDoc = NoDoc
    Docs <- OneDoc
    MaxWrites = 1
    MaxFaults = 0
    MaxCrashes = 0
SPECIFICATION ServicesSpec
CHECK_DEADLOCK FALSE
INVARIANT NothingSkipped
