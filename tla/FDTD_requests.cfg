\* A receiver with a port of the user, a sender and two cleanups, all of one transfer id.
CONSTANTS
    r1 = r1
    r2 = r2
    r3 = r3
    r4 = r4
    s1 = s1
    c1 = c1
    c2 = c2
    t1 = t1
    t2 = t2
    t3 = t3
    t4 = t4
    NumPorts = 2
    MaxTimes = 3
    Receivers = {r1}
    Senders = {s1}
    Cleaners = {c1, c2}
    Forced = {r1}
    IdOf <- SharedIds
    NoExec = NoExec
    Free = Free
    Main = Main
    LoggingRaises = FALSE
    Signals = {}
    MaxSignals = 0
SPECIFICATION Spec
INVARIANTS
    TypeOK
    ContainerSound
    StartedIdKnown
    SpawnedIsRegistered
PROPERTIES
    CleanupSeesStarted
    StartsRefined
CHECK_DEADLOCK FALSE
