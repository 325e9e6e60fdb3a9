SPECIFICATION Spec
CONSTANTS
    c1 = c1
    c2 = c2
    Run = run
    NoRun = NoRun
    NoCaller = NoCaller
    Callers = {c1, c2}
    ConfirmationModes = {TRUE, FALSE}
    Kinds = {"decompose", "advance", "execute", "orchestrate"}
    MaxRecords = 2
    MaxRestarts = 1
SYMMETRY CallerSymmetry
CHECK_DEADLOCK FALSE
INVARIANTS
    ApprovedIsBuilt
    AcceptedSound
PROPERTIES
    DecisionIsSound
    CanceledStays
