\* One worker taking three jobs in turn through the cached renderer's client.
CONSTANTS
    w1 = w1  w2 = w2  i1 = i1  nsA = nsA  nsDefault = nsDefault
    Workers <- MCOneWorker
    Installs = {i1}
    Namespaces <- MCNamespaces
    Default = nsDefault
    MaxJobs = 3
    MaxResources = 2
    Faults = TRUE
SPECIFICATION Spec
INVARIANT ReadyCheckMatchesReference
INVARIANT ResourcesInTargetNamespace
