SPECIFICATION SystemFairSpec
CONSTANTS
    c1 = c1
    c2 = c2
    e1 = e1
    e2 = e2
    r1 = r1
    NoEvent = NoEvent
    Consumer = {c1, c2}
    Event = {e1, e2}
    Poison = {e2}
    Single = {}
    Batch = {r1}
    Body <- MCBody
    MaxMsgs = 2
    MaxLen = 0
    BatchSize = 1
    ClaimIdle = 2
    LockTTL = 3
    DoneTTL = 2
    Backend = "redis"
    Concurrency = 1
    Faults = {"crash", "xadd"}
    MaxCrashes = 1
    Pace = "prompt"
    MaxGap = 0
    MaxRun = 0
INVARIANTS AcceptedIsAccounted OnePassPerPayload
PROPERTIES AcceptedIsProcessed EventuallySettled
