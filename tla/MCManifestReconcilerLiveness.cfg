\* Liveness of the fault-free reconciler: deletion completes and the
\* Manifest settles Ready with what the current spec renders applied.
CONSTANTS
    w1 = w1
    w2 = w2
    Workers <- MCWorkers
    NInstalls = 2
    Slots = 2
    MaxGeneration = 2
    MaxRestarts = 1
    MaxOrphans = 0
    Faults = FALSE
    ChartPathInstalls = {1}
SPECIFICATION FairSpec
PROPERTIES
    DeletionCompletes
    ReadyEventually
