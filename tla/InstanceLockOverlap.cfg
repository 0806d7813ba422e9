CONSTANTS
    Procs = {p1, p2}
    NoLock = NoLock
    Torn = Torn
    OneAtATime = FALSE
    ProbeSupported = TRUE
    ProbeReliable = TRUE
SPECIFICATION Spec
INVARIANTS
    Exclusive
