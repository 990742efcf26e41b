----------------------------- MODULE WorkerPool -----------------------------
(***************************************************************************)
(* The install worker pool (ManifestWorkerPool, src/operator/controllers/  *)
(* workers.go): its size, set by NewManifestWorkers and SetWorkerPoolSize  *)
(* before StartWorkers starts that many goroutines on the unbuffered       *)
(* DeployChan, and the workers' receive, handle and respond loop until the *)
(* controller's context is cancelled.                                      *)
(*                                                                         *)
(* - size, initialSize: the fields of ManifestWorkerPool.                  *)
(* - started: whether StartWorkers has run.                                *)
(* - workers: each worker goroutine ("unstarted" when the loop of          *)
(*   StartWorkers did not reach it).                                       *)
(* - pending: reconciles blocked sending a request on DeployChan.          *)
(* - issued: requests sent so far (bounded by MaxRequests).                *)
(* - ctxDone: the controller's context is cancelled; the collectors that   *)
(*   read the response channels have returned.                             *)
(***************************************************************************)
EXTENDS Integers

CONSTANTS
    InitialSize,   \* workersConcurrentManifests given to NewManifestWorkers
    SizeRequests,  \* arguments SetWorkerPoolSize may be called with
    MaxRequests    \* bound: requests sent on DeployChan

ASSUME WorkerPoolAssumption ==
    /\ InitialSize \in Nat \ {0}
    /\ SizeRequests \subseteq Int
    /\ MaxRequests \in Nat

VARIABLES size, started, workers, pending, issued, ctxDone

vars == <<size, started, workers, pending, issued, ctxDone>>

\* the goroutines StartWorkers may start: size never exceeds InitialSize
Ids == 1..InitialSize

WorkerStates == {"unstarted", "idle", "busy", "responding", "exited"}

TypeOK ==
    /\ size \in SizeRequests \cup {InitialSize}
    /\ started \in BOOLEAN
    /\ workers \in [Ids -> WorkerStates]
    /\ pending \in 0..MaxRequests
    /\ issued \in 0..MaxRequests
    /\ ctxDone \in BOOLEAN

\* NewManifestWorkers
Init ==
    /\ size = InitialSize
    /\ started = FALSE
    /\ workers = [w \in Ids |-> "unstarted"]
    /\ pending = 0
    /\ issued = 0
    /\ ctxDone = FALSE

\* SetWorkerPoolSize: a positive size restores the initial size, any other
\* value is taken as it is
SetWorkerPoolSize(newSize) ==
    /\ ~started
    /\ size' = IF newSize > 0 THEN InitialSize ELSE newSize
    /\ UNCHANGED <<started, workers, pending, issued, ctxDone>>

\* StartWorkers: for worker := 1; worker <= GetWorkerPoolSize(); worker++
StartWorkers ==
    /\ ~started
    /\ started' = TRUE
    /\ workers' = [w \in Ids |-> IF w <= size THEN "idle" ELSE "unstarted"]
    /\ UNCHANGED <<size, pending, issued, ctxDone>>

\* sendJobToInstallChannel blocks on the unbuffered DeployChan until a
\* worker receives (it does not select on the context)
SendRequest ==
    /\ started
    /\ issued < MaxRequests
    /\ pending' = pending + 1
    /\ issued' = issued + 1
    /\ UNCHANGED <<size, started, workers, ctxDone>>

\* the select of an idle worker takes a request ...
ReceiveRequest(w) ==
    /\ workers[w] = "idle" /\ pending > 0
    /\ workers' = [workers EXCEPT ![w] = "busy"]
    /\ pending' = pending - 1
    /\ UNCHANGED <<size, started, issued, ctxDone>>

\* ... or returns once the context is done
WorkerExits(w) ==
    /\ workers[w] = "idle" /\ ctxDone
    /\ workers' = [workers EXCEPT ![w] = "exited"]
    /\ UNCHANGED <<size, started, pending, issued, ctxDone>>

\* handlerFn (HandleCharts) returns its response
HandleRequest(w) ==
    /\ workers[w] = "busy"
    /\ workers' = [workers EXCEPT ![w] = "responding"]
    /\ UNCHANGED <<size, started, pending, issued, ctxDone>>

\* mutant: the worker returns after its first request (no for loop)
SendResponseNoLoop(w) ==
    /\ workers[w] = "responding" /\ ~ctxDone
    /\ workers' = [workers EXCEPT ![w] = "exited"]
    /\ UNCHANGED <<size, started, pending, issued, ctxDone>>

\* deployChart.ResponseChan <- response: an unbuffered send that completes
\* only while the collector of the round still reads
SendResponse(w) ==
    /\ workers[w] = "responding" /\ ~ctxDone
    /\ workers' = [workers EXCEPT ![w] = "idle"]
    /\ UNCHANGED <<size, started, pending, issued, ctxDone>>

\* the manager, started after SetupWithManager, stops and cancels the
\* controller's context
CancelContext ==
    /\ started /\ ~ctxDone
    /\ ctxDone' = TRUE
    /\ UNCHANGED <<size, started, workers, pending, issued>>

\* nothing is left to do: every request was sent and taken, or the
\* controller has stopped
Quiescent ==
    /\ (issued = MaxRequests /\ pending = 0 /\ \A w \in Ids : workers[w] # "busy") \/ ctxDone
    /\ UNCHANGED vars

Next ==
    \/ \E n \in SizeRequests : SetWorkerPoolSize(n)
    \/ StartWorkers
    \/ SendRequest
    \/ \E w \in Ids : ReceiveRequest(w) \/ WorkerExits(w) \/ HandleRequest(w) \/ SendResponse(w)
    \/ CancelContext
    \/ Quiescent

\* the Go scheduler runs every runnable goroutine; SetupWithManager always
\* calls StartWorkers; reconciles and the manager's shutdown are not forced
Fairness ==
    /\ WF_vars(StartWorkers)
    /\ \A w \in Ids : /\ WF_vars(ReceiveRequest(w)) /\ WF_vars(WorkerExits(w))
                      /\ WF_vars(HandleRequest(w)) /\ WF_vars(SendResponse(w))

Spec == Init /\ [][Next]_vars /\ Fairness

-----------------------------------------------------------------------------
\* A reconcile blocked sending a request on DeployChan is served by a
\* worker unless the controller stops (spec 4.10: producers block until a
\* worker is free; the pool has WorkersConcurrentManifests workers).
RequestsServed == (pending > 0) ~> (pending = 0 \/ ctxDone)

=============================================================================
