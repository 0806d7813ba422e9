CONSTANTS
    Sockets = {s1, s2}
    NoSocket = NoSocket
    HelloIds = {h1, h2, h3}
    NoId = NoId
    PingOn = TRUE
    MaxAttempt = 1
    Channels = {g1}
    NoChannel = NoChannel
    Commands = {c1}
    Queries = {q1}
    Owners = {k1}
    ReloadsIdle = TRUE
SPECIFICATION BridgeSpec
INVARIANT StopCloses
CHECK_DEADLOCK FALSE
