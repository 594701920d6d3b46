\* Two transfers, every call may fail or lose its answer, and one signal.
CONSTANTS
    Transfers = {t1, t2}
    NoTransfer = NoTransfer
    MaxSignals = 1
SPECIFICATION FairSpec
INVARIANTS
    ClientTypeOK
    StartedIsCleanedUp
    ExitZeroMeansPerformed
PROPERTIES
    CleanedOnceSenderFirst
    
CHECK_DEADLOCK FALSE
