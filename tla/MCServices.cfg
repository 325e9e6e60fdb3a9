SPECIFICATION ServicesSpec
CONSTANTS
    c1 = c1
    Docs = {"policy"}
    Policies = {p, q}
    Default = p
    Torn = Torn
    Keys = {k, NoneKey}
    NoKey = NoKey
    NoneKey = NoneKey
    MaxAudits = 4
    MaxApprovals = 1
    MaxPurges = 2
    MaxNumbered = 5
    MaxTroubles = 1
    ProjectIds <- TwoProjects
    RunIds <- OneRun
    MemKeys <- AliasedKeys
    Values = {v}
    MaxVersion = 2
    MaxRows = 2
    MaxMemoryFaults = 1
    MaxMemoryCrashes = 1
    MaxCommands = 2
    MaxPolicyRuns = 3
    MaxCommandCrashes = 1
    Restarting = {"auto_if_no_requirements"}
    Flags = {"absent", "true"}
    Calls = {w1, w2}
    MaxRetries = 2
    MaxLayerRestarts = 1
    Run = run
    NoRun = NoRun
    NoCaller = NoCaller
    Callers = {c1}
    ConfirmationModes = {TRUE}
    Kinds = {"advance", "execute", "orchestrate"}
    MaxRecords = 1
    MaxRestarts = 1
    Strategies = {"balanced"}
    Unreadable = Unreadable
    Malformed = Malformed
    Down = Down
    RouterConfigs <- ThreeConfigs
    DefaultRouter <- RouterInCode
    Words = {"test", "audit"}
    Matrices <- TwoMatrices
    DefaultMatrix <- MatrixInCode
    MatrixSignals <- FewSignals
    RegistryTexts <- FiveTexts
    DefaultRegistry <- RegistryInCode
    DefaultExecutors <- ExecutorsInCode
    RolePolicies = {p, q}
    MaxPolicyEdits = 3
    MaxWriteFaults = 1
CHECK_DEADLOCK FALSE
INVARIANTS
    ServicesTypeOK
    PolicyStoreAtRest
    RollbackOnce
    StoredUnlessAliased
    OneFlowPerCommand
    StoredRunsExist
    TaskShowsLatest
    ToldWhatWasSaid
    AdviceApplies
    RulesDecideAlike
    RoutingFollowsFiles
