CONSTANTS
    Session = {s1, s2, s3}
    MaxHandoff = 2
    MaxDeletes = 2
    MaxCalls = 6
    MaxCrashes = 1
SPECIFICATION Spec
SYMMETRY Symmetry
INVARIANTS
    NeverQueuedAgain
    StartedIsRunning
    TornOnlyByTwoOrDeath
PROPERTIES
    LatestIsLatest
    PurgeSparesAnnounced
CHECK_DEADLOCK FALSE
