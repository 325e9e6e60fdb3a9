SPECIFICATION FairCheckSpec
CONSTANTS
    Checks = {check}
    NoCheck = NoCheck
    MayWait = {TRUE, FALSE}
    MaxCheckFaults = 0
    MaxCheckCrashes = 0
CHECK_DEADLOCK FALSE
PROPERTIES
    TerminalIsFinal
