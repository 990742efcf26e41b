\* Four Manifests: two of owner k in ns1, one of another owner labelled k
\* in ns2, one without label; one OCI chart path (m1's), one pre-rendered
\* path (m3's); two override values, two spec edits, with failures.
CONSTANTS
    m1 = m1
    m2 = m2
    m3 = m3
    m4 = m4
    k = k
    ns1 = ns1
    ns2 = ns2
    p1 = p1
    p2 = p2
    v1 = v1
    v2 = v2
    noLabel = noLabel
    noPath = noPath
    Manifests <- MCManifests
    Label <- MCLabel
    Namespace <- MCNamespace
    ChartPath <- MCChartPath
    PreRendered = {p2}
    Values = {v1, v2}
    NoLabel = noLabel
    NoPath = noPath
    MaxEdits = 1
    Faults = TRUE
SPECIFICATION Spec
INVARIANT RendererTargetsJobCluster
