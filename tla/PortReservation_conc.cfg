\* Four concurrent callers on three ports.
CONSTANTS
    NumPorts = 3
    Receivers = {r1, r2, r3, r4}
    MaxTimes = 4
SPECIFICATION PortSpec
INVARIANTS
    NoStaleReservation
PROPERTIES
    SurplusNeverShrinks
    PoolRefined
CHECK_DEADLOCK FALSE
