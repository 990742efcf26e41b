\* A Manifest with two installs: every returned job should carry its own
\* install's chart.
CONSTANTS
    c1 = c1
    c2 = c2
    Charts <- MCCharts
    MaxInstalls = 2
    MaxConfigs = 0
    Faults = FALSE
SPECIFICATION Spec
INVARIANT JobsMatchInstalls
