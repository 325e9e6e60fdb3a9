SPECIFICATION FairLiveSpec
CONSTANTS
    mA = mA
    mB = mB
    c1 = c1
    c2 = c2
    Run = run
    NoRun = NoRun
    NoCaller = NoCaller
    Callers = {c1, c2}
    Global = global
    ModuleList <- TwoModules
    Package <- ShortPackages
    DocReflowOnce = {mA}
    DocFail = {}
    TestFail = {}
    SecurityFail = {}
    MaxModuleReflows = 1
    ReleaseRequiresApproval = FALSE
    MaxLoops = 3
    Fingerprints = {fp}
    NoFingerprint = NoFingerprint
    DiscussionBudget = 1
    Talkative = {"doc-manager"}
    MayInterrupt = {TRUE, FALSE}
    ManualApi = FALSE
    Checks = {check}
    NoCheck = NoCheck
    MayWait = {TRUE, FALSE}
    MaxCheckFaults = 2
    MaxCheckCrashes = 1
CHECK_DEADLOCK FALSE
INVARIANTS
    LiveTypeOK
    
    FinishedHasReport
PROPERTIES
    CallsReturn
    UnwaitedIsFinal
    CheckEnds
