\* Three charts; rounds of up to three responses, so that a round can report
\* one chart twice.
CONSTANTS
    c1 = c1
    c2 = c2
    c3 = c3
    Charts <- MCCharts
    MaxResponses = 3
SPECIFICATION Spec
INVARIANT ConditionsReflectLatest
