\* Two workers, three requests, SetWorkerPoolSize(3) before StartWorkers,
\* and the context cancelled at any point.
CONSTANTS
    InitialSize = 2
    SizeRequests <- MCPositiveSizes
    MaxRequests = 3
SPECIFICATION Spec
PROPERTY RequestsServed
