SPECIFICATION Spec
CONSTANTS
    mA = mA
    mB = mB
    c1 = c1
    c2 = c2
    Run = run
    NoRun = NoRun
    NoCaller = NoCaller
    Callers = {c1}
    Global = global
    ModuleList <- OneModule
    Package <- TwoBranches
    DocReflowOnce = {mA}
    DocFail = {}
    TestFail = {}
    SecurityFail = {}
    MaxModuleReflows = 1
    ReleaseRequiresApproval = FALSE
    MaxLoops = 12
    Fingerprints = {fp}
    NoFingerprint = NoFingerprint
    DiscussionBudget = 1
    Talkative = {}
    MayInterrupt = {}
    ManualApi = FALSE
CHECK_DEADLOCK FALSE
INVARIANTS
    StagesInOrder
