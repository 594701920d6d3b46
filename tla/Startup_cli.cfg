\* Counterexample: a boolean of the file replaces a text of the command line.
\* Two options, a file of up to two sections, a copyjobfile of up to three lines.
CONSTANTS
    Names = {"timeout", "debug"}
    MandInt = {"timeout"}
    MandStr = {"debug"}
    Texts = {"DEBUG", "'DEBUG'", "info", "logThreads", "30", "true", "'"}
    Keys = {"a:1-b:1", "a:2-b:1"}
    MaxSections = 2
    MaxLines = 3
SPECIFICATION Spec
INVARIANT CommandLineWins
CHECK_DEADLOCK FALSE
