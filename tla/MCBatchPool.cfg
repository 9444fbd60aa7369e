SPECIFICATION FairSpec
CONSTANT Settings <- Various
INVARIANTS TypeOK TokenPerGoroutine PoolBound OnlyLateSpawnDeadlocks
PROPERTIES BatchCompletes SequentialStartReturns
CHECK_DEADLOCK FALSE
