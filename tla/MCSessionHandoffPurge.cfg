CONSTANTS
    Session = {s1, s2}
    MaxHandoff = 2
    MaxDeletes = 2
    MaxCalls = 4
    MaxCrashes = 0
SPECIFICATION Spec
PROPERTIES
    ActiveHandoffRetained
CHECK_DEADLOCK FALSE
