SPECIFICATION FairSpec
CONSTANTS
    c1 = c1
    e1 = e1
    e2 = e2
    e3 = e3
    Consumer = {c1}
    Event = {e1, e2, e3}
    Poison = {e2, e3}
    MaxMsgs = 3
    MaxLen = 0
    BatchSize = 1
    ClaimIdle = 2
    LockTTL = 2
    DoneTTL = 3
    Backend = "redis"
    Concurrency = 1
    Faults = {"crash"}
    MaxCrashes = 1
    Pace = "prompt"
    MaxGap = 0
    MaxRun = 0
PROPERTY EventuallySettled
