SPECIFICATION EssenceSpec
CONSTANTS
    Posts = {p1, p2}
    MaxListChanges = 2
    MaxMisread = 1
    MaxFailed = 0
INVARIANT FailedFetchTellsNothing
CHECK_DEADLOCK FALSE
