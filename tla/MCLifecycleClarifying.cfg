SPECIFICATION FairSpec
CONSTANTS
    c1 = c1
    c2 = c2
    Run = run
    NoRun = NoRun
    NoCaller = NoCaller
    Callers = {c1}
    ConfirmationModes = {TRUE}
    Kinds = {"decompose", "advance", "execute", "orchestrate"}
    MaxRecords = 1
    MaxRestarts = 0
CHECK_DEADLOCK FALSE
PROPERTIES
    ClarifyingBlocksWork
