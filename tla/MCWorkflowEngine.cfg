SPECIFICATION Spec
CONSTANTS
    mA = mA
    mB = mB
    c1 = c1
    c2 = c2
    Run = run
    NoRun = NoRun
    NoCaller = NoCaller
    Callers = {c1, c2}
    Global = global
    ModuleList <- TwoModules
    Package <- TwoPackages
    DocReflowOnce = {mA}
    DocFail = {}
    TestFail = {}
    SecurityFail = {}
    MaxModuleReflows = 1
    ReleaseRequiresApproval = FALSE
    MaxLoops = 12
    Fingerprints = {fp}
    NoFingerprint = NoFingerprint
    DiscussionBudget = 1
    Talkative = {"module-dev"}
    MayInterrupt = {TRUE, FALSE}
    ManualApi = FALSE
SYMMETRY Callers2
CHECK_DEADLOCK FALSE
INVARIANTS
    IntegrationAfterModules
    
    OneExecution
    EvidenceComplete

    
