CONSTANTS
    NumPorts = 2
    Receivers = {r1, r2}
    MaxTimes = 3
SPECIFICATION PortSpec
INVARIANTS
    Exclusive
CHECK_DEADLOCK FALSE
