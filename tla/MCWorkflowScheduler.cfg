SPECIFICATION Spec
CONSTANTS
    i1 = i1
    i2 = i2
    i3 = i3
    r1 = r1
    r2 = r2
    Runs = {r1, r2}
    NoRun = NoRun
    Items = {i1, i2, i3}
    Fingerprints = {fp}
    NoFingerprint = NoFingerprint
    Budget <- MCBudget
    MaxBudget = 2
SYMMETRY MCSymmetry
INVARIANTS
    TypeOK
    RunsAreIsolated
    RunStatusSound
    DiscussionSound
    DependenciesBeforeWork
PROPERTIES
    FailureIsFinal
    CanceledRunIsInert
    ImplementsTaskGraph
CHECK_DEADLOCK FALSE
