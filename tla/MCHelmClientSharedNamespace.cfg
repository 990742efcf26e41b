\* Two workers processing jobs through the same cached renderer's client.
CONSTANTS
    w1 = w1  w2 = w2  i1 = i1  nsA = nsA  nsDefault = nsDefault
    Workers <- MCTwoWorkers
    Installs = {i1}
    Namespaces <- MCNamespaces
    Default = nsDefault
    MaxJobs = 2
    MaxResources = 1
    Faults = FALSE
SPECIFICATION Spec
INVARIANT ResourcesInTargetNamespace
