SPECIFICATION Spec
CONSTANTS
    t1 = t1
    t2 = t2
    k1 = k1
    k2 = k2
    k3 = k3
    c1 = c1
    c2 = c2
    Projects = {project}
    NoProject = NoProject
    Tasks = {t1, t2}
    NoTask = NoTask
    Commands = {k1, k2, k3}
    NoCommand = NoCommand
    Clients = {c1, c2}
    NoClient = NoClient
    MaxCrashes = 1
SYMMETRY Symmetry
CHECK_DEADLOCK FALSE
INVARIANTS
    StoreLoads
