CONSTANTS
    Accounts = {a1}
    AutoRestart = TRUE
    MayHang = FALSE
    StopCommands = {}
    Signals = {}
SPECIFICATION HostingSpec
INVARIANTS
    ConfigErrorNotRestarted
CHECK_DEADLOCK FALSE
