--------------------------- MODULE MCPreparePhase ---------------------------
(* Small instances of PreparePhase for TLC.                                *)
EXTENDS PreparePhase, TLC

CONSTANTS c1, c2

\* Two install names, so that a Manifest can carry two different charts.
MCCharts == {c1, c2}

\* Install names only ever meet in equality tests.
ChartSymmetry == Permutations(MCCharts)
=============================================================================
