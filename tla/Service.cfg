\* Three calls of any kind and two ids: two starts of one id and a cleanup may meet.
CONSTANTS
    c1 = c1
    c2 = c2
    c3 = c3
    Calls = {c1, c2, c3}
    Ids = {"i1", "i2"}
    Ports = {"p1"}
    NoCall = NoCall
SYMMETRY Interchangeable
SPECIFICATION Spec
INVARIANTS
    HeldIsDone
    ProcessesAccounted
    StartsAnswer
CHECK_DEADLOCK FALSE
