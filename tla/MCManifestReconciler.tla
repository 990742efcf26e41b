------------------------ MODULE MCManifestReconciler ------------------------
(* Small instances of ManifestReconciler for TLC.                          *)
EXTENDS ManifestReconciler, TLC

CONSTANTS w1, w2

\* Two install workers (WorkersConcurrentManifests = 2).
MCWorkers == {w1, w2}

\* Workers are interchangeable goroutines reading one channel.
WorkerSymmetry == Permutations(MCWorkers)
=============================================================================
