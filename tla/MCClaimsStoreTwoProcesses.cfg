CONSTANTS
    Segment = {"src", "a", "**"}
    Name = {}
    Absent = Absent
    s1 = s1
    s2 = s2
    p1 = p1
    p2 = p2
    NoCall = NoCall
    Session = {s1, s2}
    Process = {p1, p2}
    ProcessOf <- TwoProcesses
    Scope <- MCScope
    Ask <- MCAsk
    Call <- MCCall
    TTL = {2}
    Keep = 4
    MaxTime = 2
    MaxCalls = 2
    MaxCrashes = 0
SPECIFICATION Spec
INVARIANTS
    HolderExclusion
CHECK_DEADLOCK FALSE
