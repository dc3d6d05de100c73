SPECIFICATION Spec
CONSTANTS
    R1 = R1
    R2 = R2
    Repos = {R1, R2}
    NoRepo = NoRepo
    Torn = Torn
    Cwd = NoRepo
    Sections <- MCSections
    Calls = {c1, c2}
    Mixes <- MCMixes
INVARIANTS PanelCoherent BlockLandsWhereShown ChoiceKept
PROPERTY OffIsHonoured
CHECK_DEADLOCK FALSE
