SPECIFICATION RequestsSpec
CONSTANT MaxRounds = 1
INVARIANT DependenciesWork
CHECK_DEADLOCK FALSE
