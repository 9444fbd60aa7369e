SPECIFICATION FairSpec
CONSTANT Settings <- SmallPool
PROPERTY StartReturns
CHECK_DEADLOCK FALSE
