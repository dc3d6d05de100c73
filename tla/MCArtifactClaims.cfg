CONSTANTS
    Segment = {"src", "a", "b", "**"}
    Name = {}
    Absent = Absent
    Session = {s1, s2}
    Scope <- MCScope
    Ask <- MCAsk
    TTL = {2}
    Keep = 2
    MaxClaims = 3
    MaxWaits = 1
    MaxTime = 2
    MaxDepth = 3
SPECIFICATION Spec
SYMMETRY Symmetry
INVARIANTS
    TypeOK
    WriteExclusion
    OverlapIffSharedFile
    PendingHasBlockers
    ReadyStaleOnlyByNewest
PROPERTIES
    RecordsOnlyEnd
CHECK_DEADLOCK FALSE
