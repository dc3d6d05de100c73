CONSTANTS
    s1 = s1
    s2 = s2
    Session = {s1, s2}
    NoSession = NoSession
    NoTask = NoTask
    Inputs <- MCInputs
    Dropped = {"ui", "ux"}
    MaxTasks = 2
    MaxBatch = 2
    MaxCrashes = 1
SPECIFICATION Spec
SYMMETRY Symmetry
INVARIANTS
    TypeOK
    NothingLost
    FreshIds
    RepeatedCreateAbsorbed
PROPERTIES
    NoResurrection
    CloseCitesReportWhileIdsUnique
CHECK_DEADLOCK FALSE
