SPECIFICATION Spec
CONSTANTS
    Lower <- MCLower
    Upper <- MCUpper
    Trim <- MCTrim
    Atoi <- MCAtoi
    HostPort <- MCHostPort
    Year <- MCYear
    RawEvent <- MCRawEvent
    MaxDeliveries = 3
INVARIANTS TypeOK RetryAgrees NoNeedlessPoison EndpointsAreGiven InvalidByPortOnly SeverityFitsAction
CHECK_DEADLOCK FALSE
PROPERTY KeepsContract
