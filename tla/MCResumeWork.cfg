CONSTANTS
    Segment = {"src", "a", "b", "**"}
    Name = {"TASK-001", "TASK-002"}
    Absent = Absent
    Session = {s1, s2}
    Scope <- MCScope
    Ask <- MCAsk
    TTL = {1}
    Keep = 2
    MaxClaims = 3
    MaxWaits = 0
    MaxTime = 2
    Tasks = 2
    ScopesOf <- MCScopesOf
    Executable <- MCExecutable
    MaxResumes = 2
    MaxUpdates = 1
SPECIFICATION ResumeSpec
SYMMETRY Symmetry
INVARIANTS
    ResumeTypeOK
    WorkersApart
PROPERTIES
    RefusedOnlyByRace
CHECK_DEADLOCK FALSE
