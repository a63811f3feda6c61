SPECIFICATION FairSpec
CONSTANTS
    c1 = c1
    c2 = c2
    w1 = w1
    w2 = w2
    None = None
    Cases = {c1}
    Workers = {w1, w2}
    Positions = {0, 1, 2}
    CountModulus = 4
    Plans <- MCCreatedPlans2
    ModerationResults <- MCStubs
    FaultKinds = {"process"}
    MaxFaults = 1
PROPERTIES RecoversAfterRestart
