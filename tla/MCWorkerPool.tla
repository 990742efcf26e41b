---------------------------- MODULE MCWorkerPool ----------------------------
(* WorkerPool instantiated for TLC: the pool sizes of the runs.            *)
EXTENDS WorkerPool

\* SetWorkerPoolSize called with a positive size (it restores the initial one)
MCPositiveSizes == {InitialSize + 1}

=============================================================================
