CONSTANTS
    Accounts = {a1}
    AutoRestart = TRUE
    MayHang = FALSE
    StopCommands = {}
    Signals = {}
SPECIFICATION HostingFairSpec
PROPERTIES
    StopEndsAll
CHECK_DEADLOCK FALSE
