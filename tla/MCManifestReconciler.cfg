\* Safety of the reconciler with every fault enabled: two installs, two
\* workers, two live collectors, one spec update, one restart.
CONSTANTS
    w1 = w1
    w2 = w2
    Workers <- MCWorkers
    NInstalls = 2
    Slots = 2
    MaxGeneration = 2
    MaxRestarts = 1
    MaxOrphans = 1
    Faults = TRUE
    ChartPathInstalls = {1}
SYMMETRY WorkerSymmetry
SPECIFICATION Spec
INVARIANT TypeOK
INVARIANT FinalizerWhileManaged
INVARIANT ResponsesBalanced
INVARIANT ReadyImpliesInstalled
PROPERTY DeletionTransitions
PROPERTY StatusContract
