CONSTANTS
    Path <- MCPath
    Request <- MCRequest
    Caller = {c1, c2, c3}
SPECIFICATION FairSpec
INVARIANTS
    MutualExclusion
    NobodyStuck
PROPERTIES
    EveryCallReturns
    ImplementsHostQueue
