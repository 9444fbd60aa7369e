SPECIFICATION Spec
SYMMETRY ConsumerSymmetry
CONSTANTS
    c1 = c1
    c2 = c2
    e1 = e1
    e2 = e2
    Consumer = {c1, c2}
    Event = {e1, e2}
    Poison = {e2}
    MaxMsgs = 2
    MaxLen = 0
    BatchSize = 2
    ClaimIdle = 2
    LockTTL = 3
    DoneTTL = 3
    Backend = "redis"
    Concurrency = 2
    Faults = {"crash", "xadd"}
    MaxCrashes = 1
    Pace = "timely"
    MaxGap = 1
    MaxRun = 1
INVARIANTS TypeOK ExclusivePipeline NotReprocessedWithinWindow LockLasts
PROPERTY ProcessedOncePerWindow
