SPECIFICATION Spec
CONSTANTS
    mA = mA
    mB = mB
    c1 = c1
    c2 = c2
    Run = run
    NoRun = NoRun
    NoCaller = NoCaller
    Callers = {c1}
    Global = global
    ModuleList <- OneModule
    Package <- ShortPackage
    DocReflowOnce = {mA}
    DocFail = {}
    TestFail = {}
    SecurityFail = {}
    MaxModuleReflows = 1
    ReleaseRequiresApproval = FALSE
    MaxLoops = 3
    Fingerprints = {fp}
    NoFingerprint = NoFingerprint
    DiscussionBudget = 1
    Talkative = {"doc-manager"}
    MayInterrupt = {FALSE}
    ManualApi = TRUE
CHECK_DEADLOCK FALSE
PROPERTIES
    ImplementsScheduler
