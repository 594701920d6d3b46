\* A start and two cleanups of one transfer, two messages each before the closing one.
CONSTANTS
    Starts = {s1}
    Cleanups = {c1, c2}
    MaxMsgs = 2
SPECIFICATION Spec
INVARIANTS
    KeptUnlessClosed
    LeakBounded
CHECK_DEADLOCK FALSE
