SPECIFICATION Spec
CONSTANTS
    c1 = c1
    e1 = e1
    Consumer = {c1}
    Event = {e1}
    Poison = {}
    MaxMsgs = 1
    MaxLen = 0
    BatchSize = 1
    ClaimIdle = 1
    LockTTL = 3
    DoneTTL = 3
    Backend = "redis"
    Concurrency = 1
    Faults = {"minio"}
    MaxCrashes = 0
    Pace = "timely"
    MaxGap = 1
    MaxRun = 1
INVARIANT AckedIsArchived
