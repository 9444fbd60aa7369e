SPECIFICATION IngestionFairSpec
CONSTANTS
    e1 = e1
    e2 = e2
    e3 = e3
    r1 = r1
    r2 = r2
    r3 = r3
    r4 = r4
    r5 = r5
    NoEvent = NoEvent
    Event = {e1, e2, e3}
    Poison = {}
    Single = {r1, r2}
    Batch = {r3, r4, r5}
    Body <- MCBody
    MaxMsgs = 3
    MaxLen = 0
    BatchSize = 1
    ClaimIdle = 0
INVARIANTS IngestionTypeOK AcceptedIsBuffered RejectedBuffersNothing OneEventIdPerPayload BatchPrefix
PROPERTY EveryHandlerReturns
CHECK_DEADLOCK FALSE
