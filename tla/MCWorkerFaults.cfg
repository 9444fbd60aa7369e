SPECIFICATION Spec
SYMMETRY ConsumerSymmetry
CONSTANTS
    c1 = c1
    c2 = c2
    e1 = e1
    e2 = e2
    Consumer = {c1, c2}
    Event = {e1, e2}
    Poison = {e2}
    MaxMsgs = 2
    MaxLen = 1
    BatchSize = 2
    ClaimIdle = 1
    LockTTL = 1
    DoneTTL = 1
    Backend = "redis"
    Concurrency = 2
    Faults = {"crash", "cancel", "redis", "xadd"}
    MaxCrashes = 1
    Pace = "any"
    MaxGap = 0
    MaxRun = 0
INVARIANTS Accounted AckedIsArchived
PROPERTY AtLeastOnceDelivery
