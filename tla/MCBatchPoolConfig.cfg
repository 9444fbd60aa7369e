SPECIFICATION Spec
CONSTANT Settings <- NoRecovery
INVARIANT ZeroDisablesRecovery
CHECK_DEADLOCK FALSE
