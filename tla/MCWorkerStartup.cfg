SPECIFICATION FairSpec
CONSTANTS
    c1 = c1
    e1 = e1
    Consumer = {c1}
    Event = {e1}
    Poison = {}
    MaxMsgs = 2
    MaxLen = 0
    BatchSize = 1
    ClaimIdle = 2
    LockTTL = 3
    DoneTTL = 3
    Backend = "redis"
    Concurrency = 1
    Faults = {}
    MaxCrashes = 1
    Pace = "prompt"
    MaxGap = 1
    MaxRun = 1
PROPERTY BufferedIsProcessed
