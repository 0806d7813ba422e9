SPECIFICATION ComponentsSpec
CONSTANTS
    QrAccounts = {a1}
    NetworkRetryMax = 2
    MaxNews = 1
    MaxRenewals = 1
    CacheUids = {u1, u2}
    CacheReaders = {r1, r2}
    MaxVersion = 3
    MaxWire = 1
    Sends = {s1, s2}
    MaxNow = 1
    Msgs = {m1, m2, m3, m4}
    NoMsg = NoMsg
    MaxId = 3
    Posts = {p1, p2}
    MaxListChanges = 3
    MaxMisread = 1
    MaxFailed = 1
    Peers = {p1, p2}
    MaxTurns = 4
    MaxRounds = 2
    MaxPending = 3
    MaxSignals = 2
    MaxAttempts = 1
    MaxLosses = 3
    Boots = {b1, b2}
    QqFiles = {wrapper, dll}
    Wrapper = wrapper
    MaxBoots = 3
    Procs = {q1, q2, q3}
    NoLock = NoLock
    Torn = Torn
    OneAtATime = TRUE
    ProbeSupported = TRUE
    ProbeReliable = TRUE
INVARIANTS
    HandleIsWaited
    CacheCurrent
    IdsOneToOne
    FailedChangedNothing
    OkMeansDone
    EssenceReportedOnce
    LedgerIsFriends
    PinEventsAlternate
    EventsReported
    StoppedIsQuiet
    ReconnectsUntilLimit
    LoadsWhole
    Exclusive
    LockNamesHolder
PROPERTIES
    LoginEnds
    ImplementsDelivery
    SendSettles
    RefusedForCause
CHECK_DEADLOCK FALSE
