\* Up to three lines on each stream, two fit into a pipe.
CONSTANTS
    MaxLines = 3
    PipeSize = 2
    Modes = {"log", "wait"}
SPECIFICATION FairSpec
INVARIANTS
    StreamTypeOK
    StatusIsTrue
    FailureLogComplete
PROPERTIES
    ChannelRefined
    StreamEnds
CHECK_DEADLOCK FALSE
