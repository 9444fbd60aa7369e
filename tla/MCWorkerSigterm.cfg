SPECIFICATION Spec
SYMMETRY ConsumerSymmetry
CONSTANTS
    c1 = c1
    c2 = c2
    e1 = e1
    Consumer = {c1, c2}
    Event = {e1}
    Poison = {}
    MaxMsgs = 2
    MaxLen = 0
    BatchSize = 1
    ClaimIdle = 2
    LockTTL = 3
    DoneTTL = 3
    Backend = "redis"
    Concurrency = 1
    Faults = {"cancel"}
    MaxCrashes = 1
    Pace = "timely"
    MaxGap = 1
    MaxRun = 1
INVARIANT NotReprocessedWithinWindow
