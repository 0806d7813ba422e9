CONSTANTS
    Sockets = {s1, s2}
    NoSocket = NoSocket
    HelloIds = {h1, h2, h3}
    NoId = NoId
    PingOn = TRUE
    MaxAttempt = 1
    Channels = {g1, g2}
    NoChannel = NoChannel
    Commands = {c1, c2}
    Queries = {q1}
    Owners = {k1}
    ReloadsIdle = FALSE
    Accounts = {a1, a2}
    AutoRestart = TRUE
    MayHang = TRUE
    StopCommands = {"all", "one"}
    Signals = {"boot", "self"}
SPECIFICATION MCSpec
SYMMETRY MCSymmetry
INVARIANTS
    OneLiveConnection
    BindingsFresh
    FilterReleased
    AnsweredOnce
    OneStopPerRequest
    OnlyAskedStop
PROPERTIES
    NoStaleAnswer
    NoStartAfterStop
CHECK_DEADLOCK FALSE
