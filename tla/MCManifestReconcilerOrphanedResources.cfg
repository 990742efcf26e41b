CONSTANTS
    w1 = w1
    w2 = w2
    Workers <- MCWorkers
    NInstalls = 2
    Slots = 2
    MaxGeneration = 2
    MaxRestarts = 0
    MaxOrphans = 0
    Faults = FALSE
    ChartPathInstalls = {1}
SPECIFICATION Spec
INVARIANT NoOrphanedResources
