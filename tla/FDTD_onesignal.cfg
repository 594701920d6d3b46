\* One signal of either kind, at any point.
CONSTANTS
    r1 = r1
    r2 = r2
    r3 = r3
    r4 = r4
    s1 = s1
    c1 = c1
    c2 = c2
    t1 = t1
    t2 = t2
    t3 = t3
    t4 = t4
    NumPorts = 1
    MaxTimes = 3
    Receivers = {r1}
    Senders = {s1}
    Cleaners = {c1}
    Forced = {}
    IdOf <- OwnIds
    NoExec = NoExec
    Free = Free
    Main = Main
    LoggingRaises = FALSE
    Signals = {"SIGHUP", "SIGTERM"}
    MaxSignals = 1
SPECIFICATION FairSpec
INVARIANTS
    MainFreesTheLock
    RequestsFreeTheLock
PROPERTIES
    HupCountsAcknowledged
    RequestsEnd
    ShutdownEnds
CHECK_DEADLOCK FALSE
