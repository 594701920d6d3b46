\* Three invocations, one of which may be killed.
CONSTANTS
    Instances = {i1, i2, i3}
    Nobody = Nobody
    MaxCrashes = 1
SPECIFICATION DaemonizeSpec
INVARIANTS
    PidFileNamesServer
    NoFileLeftBehind
CHECK_DEADLOCK FALSE
