\* GetInstallInfos on every Manifest with at most two installs and two
\* config entries, with registry and API server failures.
CONSTANTS
    c1 = c1
    c2 = c2
    Charts <- MCCharts
    MaxInstalls = 2
    MaxConfigs = 2
    Faults = TRUE
SYMMETRY ChartSymmetry
SPECIFICATION Spec
INVARIANT OutcomeMatchesReference
