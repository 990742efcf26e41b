\* One Manifest with an OCI chart extracted to p1, whose overrides the
\* user changes once.
CONSTANTS
    m1 = m1
    m2 = m2
    m3 = m3
    m4 = m4
    k = k
    ns1 = ns1
    ns2 = ns2
    p1 = p1
    p2 = p2
    v1 = v1
    v2 = v2
    noLabel = noLabel
    noPath = noPath
    Manifests <- MCOneManifest
    Label <- MCSharedLabel
    Namespace <- MCSharedNamespace
    ChartPath <- MCSharedChartPath
    PreRendered = {}
    Values = {v1, v2}
    NoLabel = noLabel
    NoPath = noPath
    MaxEdits = 1
    Faults = FALSE
SPECIFICATION Spec
INVARIANT AppliesOwnOverrides
