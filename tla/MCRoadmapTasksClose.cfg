CONSTANTS
    s1 = s1
    s2 = s2
    Session = {s1, s2}
    NoSession = NoSession
    NoTask = NoTask
    Inputs <- MCInputs
    Dropped = {"ui", "ux"}
    MaxTasks = 2
    MaxBatch = 2
    MaxCrashes = 0
SPECIFICATION Spec
SYMMETRY Symmetry
PROPERTIES
    CloseCitesOwnReport
CHECK_DEADLOCK FALSE
