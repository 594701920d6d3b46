\* Two copies at once and a third that only takes a port: two ports to be had from the
\* daemon, a user port that is one of them and one that is not; two ids, so that they
\* may collide.
CONSTANTS
    t1 = t1
    t2 = t2
    t3 = t3
    i1 = i1
    i2 = i2
    NumPorts = 2
    MaxTimes = 3
    Receivers = {t1, t2, t3}
    Ids = {i1, i2}
    UserPorts = {1, 3}
    Nobody = Nobody
SYMMETRY Interchangeable
CONSTRAINT ThirdTakesAPort
SPECIFICATION Spec
INVARIANTS
    MeetsOwnServer
    SendsOwnFiles
    WithinCapacityExclusive
CHECK_DEADLOCK FALSE
