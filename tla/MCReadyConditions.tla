------------------------- MODULE MCReadyConditions --------------------------
(* Small instances of ReadyConditions for TLC.                             *)
EXTENDS ReadyConditions, TLC

CONSTANTS c1, c2, c3

MCCharts == {c1, c2, c3}
=============================================================================
