---------------------------- MODULE MCHelmClient ----------------------------
(* HelmClient instantiated for TLC.                                        *)
EXTENDS HelmClient, TLC

CONSTANTS w1, w2, i1, nsA, nsDefault

MCOneWorker == {w1}
MCTwoWorkers == {w1, w2}
MCNamespaces == {nsDefault, nsA}
=============================================================================
