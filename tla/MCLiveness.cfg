CONSTANTS
    Accounts = {a1, a2}
    LoginAccounts = {l1, l2}
    NoAccount = NoAccount
    QrOnly = FALSE
    AutoRestart = TRUE
    MayHang = TRUE
    StopCommands = {}
    Signals = {}
    Sockets = {s1, s2}
    NoSocket = NoSocket
    HelloIds = {h1, h2, h3}
    NoId = NoId
    PingOn = TRUE
    MaxAttempt = 2
SPECIFICATION MCSpec
INVARIANTS
    SingleSocket
    WakeupPending
    AckBeforeUse
    OneAssembly
    AnnouncedIsServed
    ReadyMeansServed
PROPERTIES
    ImplementsLink
    HandshakeResolves
    ComesUp
    SocketsReleased
    ControlReleased
    BootConcludes
    SupervisorEnds
    StopReachesAll
CHECK_DEADLOCK FALSE
