------------------------- MODULE ManifestReconciler -------------------------
(***************************************************************************)
(* The Manifest reconciler of the module-manager operator, for a single    *)
(* Manifest object (src/unnamed/part_005, ManifestReconciler), together    *)
(* with the install worker pool it feeds (src/operator/controllers/        *)
(* workers.go, StartWorkers) and the target cluster the workers write to.  *)
(*                                                                         *)
(* - manifest: the Manifest as the API server stores it (metadata and      *)
(*   status); every write of the controller either lands atomically or     *)
(*   fails (optimistic concurrency turns a racing write into a conflict).  *)
(* - reconcile: the one Reconcile call of this key that may be in flight   *)
(*   (controller-runtime never runs two reconciles of one key at once);    *)
(*   it is busy while sendJobToInstallChannel blocks on DeployChan.        *)
(* - rounds: the response collectors (ResponseHandlerFunc goroutines), one *)
(*   per dispatch round, each with its own unbuffered response channel.    *)
(* - workers: the install workers; a worker holds at most one request.     *)
(* - cluster: for each install, which generation of the Manifest spec its  *)
(*   rendered resources on the target cluster come from (0: absent).       *)
(* - rendered: for each install with a static chart path, the generation   *)
(*   whose rendering getManifestForChartPath has cached in the file beside *)
(*   the chart (0: none); the cache is read before any rendering, so once  *)
(*   written it is what every later install and check of that chart uses.  *)
(***************************************************************************)
EXTENDS Naturals, FiniteSets

CONSTANTS
    NInstalls,      \* len(manifestObj.Spec.Installs)
    Workers,        \* the worker goroutines started by StartWorkers
    Slots,          \* bound: response collectors alive at the same time
    MaxGeneration,  \* bound: spec updates (metadata.generation)
    MaxRestarts,    \* bound: controller process restarts
    MaxOrphans,     \* bound: collectors left waiting by a failed preparation
    Faults,         \* whether API calls, preparation and installs may fail
    ChartPathInstalls \* installs whose InstallInfo carries a static ChartPath

ASSUME ConstantsAssumption ==
    /\ NInstalls \in Nat \ {0}
    /\ IsFiniteSet(Workers)
    /\ Slots \in Nat \ {0}
    /\ MaxGeneration \in Nat \ {0}
    /\ MaxRestarts \in Nat
    /\ MaxOrphans \in Nat
    /\ Faults \in BOOLEAN
    /\ ChartPathInstalls \subseteq 1..NInstalls

VARIABLES manifest, reconcile, rounds, workers, cluster, orphans, restarts,
          rendered

vars == <<manifest, reconcile, rounds, workers, cluster, orphans, restarts,
          rendered>>

Installs == 1..NInstalls
Rounds == 1..Slots
Generations == 1..MaxGeneration

\* v1alpha1.ManifestState; "Initial" stands for the empty state of a fresh
\* Manifest (the code's "", the case HandleInitialState handles)
States == {"Initial", "Processing", "Deleting", "Error", "Ready"}

\* manifest.CreateMode and manifest.DeletionMode
Modes == {"create", "delete"}

\* what an InstallResponse tells the collector: Err # nil, !Ready, or Ready
Results == {"error", "processing", "ready"}

ManifestRecords ==
    [exists: BOOLEAN, deletionTimestamp: BOOLEAN, finalizer: BOOLEAN,
     state: States, generation: Generations, observedGeneration: 0..MaxGeneration]

RoundRecords ==
    [active: BOOLEAN, mode: Modes, gen: Generations,
     received: 0..NInstalls, errorState: BOOLEAN, processing: BOOLEAN]

WorkerRecords ==
    [phase: {"idle", "busy", "responding"}, round: Rounds, install: Installs,
     result: Results]

ReconcileRecords ==
    [busy: BOOLEAN, round: Rounds, next: Installs]

FreeRound ==
    [active |-> FALSE, mode |-> "create", gen |-> 1,
     received |-> 0, errorState |-> FALSE, processing |-> FALSE]

IdleWorker == [phase |-> "idle", round |-> 1, install |-> 1, result |-> "ready"]

NoReconcile == [busy |-> FALSE, round |-> 1, next |-> 1]

-----------------------------------------------------------------------------
(* Calls to the API server.                                                *)

\* A write of the controller lands, or (when faults are possible) fails
\* with a conflict or a transient error and leaves the object as it was.
ApiWrite(new) ==
    \/ manifest' = new
    \/ Faults /\ UNCHANGED manifest

\* updateManifestStatus: set the state and stamp the observed generation
\* with the generation of the object being written.
updateManifestStatus(m, state) ==
    [m EXCEPT !.state = state, !.observedGeneration = m.generation]

-----------------------------------------------------------------------------
(* Reconcile: the checks made before the switch on the status.             *)

ReconcileEnabled == manifest.exists /\ ~reconcile.busy

\* The deletion timestamp is set but the status is not Deleting yet.
ReconcileMarkDeleting ==
    /\ ReconcileEnabled
    /\ manifest.deletionTimestamp /\ manifest.state # "Deleting"
    /\ ApiWrite(updateManifestStatus(manifest, "Deleting"))
    /\ UNCHANGED <<reconcile, rounds, workers, cluster, orphans, restarts, rendered>>

\* The finalizer is missing: add it with an Update and return.
ReconcileAddFinalizer ==
    /\ ReconcileEnabled
    /\ ~(manifest.deletionTimestamp /\ manifest.state # "Deleting")
    /\ ~manifest.finalizer
    /\ ApiWrite([manifest EXCEPT !.finalizer = TRUE])
    /\ UNCHANGED <<reconcile, rounds, workers, cluster, orphans, restarts, rendered>>

\* Both early returns were passed: Reconcile switches on the status.
\* Mutant: the status switch is reached without the finalizer check.
ReachesStateSwitchUnguarded ==
    /\ ReconcileEnabled
    /\ ~(manifest.deletionTimestamp /\ manifest.state # "Deleting")

ReachesStateSwitch ==
    /\ ReconcileEnabled
    /\ ~(manifest.deletionTimestamp /\ manifest.state # "Deleting")
    /\ manifest.finalizer

HandleInitialState ==
    /\ ReachesStateSwitch /\ manifest.state = "Initial"
    /\ ApiWrite(updateManifestStatus(manifest, "Processing"))
    /\ UNCHANGED <<reconcile, rounds, workers, cluster, orphans, restarts, rendered>>

HandleErrorState ==
    /\ ReachesStateSwitch /\ manifest.state = "Error"
    /\ ApiWrite(updateManifestStatus(manifest, "Processing"))
    /\ UNCHANGED <<reconcile, rounds, workers, cluster, orphans, restarts, rendered>>

(***************************************************************************)
(* sendJobToInstallChannel: a collector goroutine is started for           *)
(* len(Installs) responses, then GetInstallInfos prepares the requests     *)
(* from the Manifest as read; when it fails the call returns and the       *)
(* collector is left waiting for responses nobody sends (an orphan,        *)
(* counted in orphans).  Otherwise Reconcile blocks sending the requests,  *)
(* in order, on the unbuffered DeployChan.                                 *)
(***************************************************************************)
\* The collector of free slot r is started and GetInstallInfos succeeds.
StartRound(mode, r) ==
    /\ ~rounds[r].active
    /\ rounds' = [rounds EXCEPT ![r] =
                    [FreeRound EXCEPT !.active = TRUE, !.mode = mode,
                                      !.gen = manifest.generation]]
    /\ reconcile' = [busy |-> TRUE, round |-> r, next |-> 1]
    /\ UNCHANGED <<manifest, workers, cluster, orphans, restarts, rendered>>

\* GetInstallInfos fails after the collector was started.
PrepareFails ==
    /\ Faults /\ orphans < MaxOrphans
    /\ orphans' = orphans + 1
    /\ UNCHANGED <<manifest, reconcile, rounds, workers, cluster, restarts, rendered>>

sendJobToInstallChannel(mode) ==
    \/ \E r \in Rounds : StartRound(mode, r)
    \/ PrepareFails

HandleProcessingState ==
    /\ ReachesStateSwitch /\ manifest.state = "Processing"
    /\ sendJobToInstallChannel("create")

HandleDeletingState ==
    /\ ReachesStateSwitch /\ manifest.state = "Deleting"
    /\ sendJobToInstallChannel("delete")

(***************************************************************************)
(* getManifestForChartPath: a manifest pre-rendered in the chart directory *)
(* (left out: none is), else the file cached beside a static chart path,   *)
(* else a fresh rendering of the spec; step 4 writes that rendering to the *)
(* cache file when the chart path is static.  A permission error on the    *)
(* write is only logged and the rendering is used uncached.                *)
(***************************************************************************)
Rendering(i, gen) == IF rendered[i] # 0 THEN rendered[i] ELSE gen

\* The cache after getManifestForChartPath ran for the installs in S.
CacheRendering(S, gen) ==
    [i \in Installs |->
        IF i \in S \cap ChartPathInstalls THEN Rendering(i, gen) ELSE rendered[i]]

(***************************************************************************)
(* HandleReadyState: a generation change sends the Manifest back to        *)
(* Processing.  Otherwise the installs are checked in order by             *)
(* consistencyCheck: one is ready when the resources on the cluster are    *)
(* what getManifestForChartPath renders for the current spec (which caches *)
(* that rendering).  The first install that is not ready (or whose check   *)
(* fails) makes it Processing, a failure to build the library operations   *)
(* makes it Error; if all are ready nothing is written.                    *)
(***************************************************************************)
\* Mutant: the check only asks that the resources exist.
ConsistentAnyGeneration(i) == cluster[i] # 0

Consistent(i) == cluster[i] = Rendering(i, manifest.generation)

\* The installs consistencyCheck visits: up to the first one not ready.
CheckedInstalls ==
    IF \A i \in Installs : Consistent(i) THEN Installs
    ELSE 1..(CHOOSE k \in Installs : ~Consistent(k) /\ \A j \in 1..(k - 1) : Consistent(j))

HandleReadyState ==
    /\ ReachesStateSwitch /\ manifest.state = "Ready"
    /\ IF manifest.generation # manifest.observedGeneration
       THEN /\ ApiWrite(updateManifestStatus(manifest, "Processing"))
            /\ UNCHANGED rendered
       ELSE \/ /\ \A i \in Installs : Consistent(i)
               /\ rendered' = CacheRendering(Installs, manifest.generation)
               /\ UNCHANGED manifest
            \/ /\ ~\A i \in Installs : Consistent(i)
               /\ rendered' = CacheRendering(CheckedInstalls, manifest.generation)
               /\ ApiWrite(updateManifestStatus(manifest, "Processing"))
            \* a check fails, or a cache write is refused, part-way through
            \/ /\ Faults
               /\ \E k \in 0..NInstalls :
                    rendered' = CacheRendering(1..k, manifest.generation)
               /\ \/ UNCHANGED manifest
                  \/ ApiWrite(updateManifestStatus(manifest, "Processing"))
                  \/ ApiWrite(updateManifestStatus(manifest, "Error"))
    /\ UNCHANGED <<reconcile, rounds, workers, cluster, orphans, restarts>>

-----------------------------------------------------------------------------
(* The worker pool.                                                        *)

\* Mutant: the send loop runs one index past the last install.
SendJobPastEnd(w) ==
    /\ reconcile.busy
    /\ workers[w].phase = "idle"
    /\ workers' = [workers EXCEPT ![w] =
                     [phase |-> "busy", round |-> reconcile.round,
                      install |-> reconcile.next, result |-> "ready"]]
    /\ reconcile' = IF reconcile.next = NInstalls + 1
                    THEN NoReconcile
                    ELSE [reconcile EXCEPT !.next = @ + 1]
    /\ UNCHANGED <<manifest, rounds, cluster, orphans, restarts, rendered>>

\* Mutant: Reconcile stops one request short of len(Installs).
SendJobShort(w) ==
    /\ reconcile.busy
    /\ workers[w].phase = "idle"
    /\ workers' = [workers EXCEPT ![w] =
                     [phase |-> "busy", round |-> reconcile.round,
                      install |-> reconcile.next, result |-> "ready"]]
    /\ reconcile' = IF reconcile.next >= NInstalls - 1
                    THEN NoReconcile
                    ELSE [reconcile EXCEPT !.next = @ + 1]
    /\ UNCHANGED <<manifest, rounds, cluster, orphans, restarts, rendered>>

\* Reconcile's send on DeployChan meets worker w's receive.
SendJob(w) ==
    /\ reconcile.busy
    /\ workers[w].phase = "idle"
    /\ workers' = [workers EXCEPT ![w] =
                     [phase |-> "busy", round |-> reconcile.round,
                      install |-> reconcile.next, result |-> "ready"]]
    /\ reconcile' = IF reconcile.next = NInstalls
                    THEN NoReconcile
                    ELSE [reconcile EXCEPT !.next = @ + 1]
    /\ UNCHANGED <<manifest, rounds, cluster, orphans, restarts, rendered>>

(***************************************************************************)
(* What Install and Uninstall (operations.install/uninstall) can do to the *)
(* cluster and report.  Both take the manifest from getManifestForChartPath *)
(* and apply it with renderSrc.Install: uninstall too (only the CRs and    *)
(* CRDs are removed), so both modes leave the rendering on the cluster.    *)
(* The call may fail or stop before it applies, and the rendering may stay *)
(* uncached.  The response is ready, still processing (a readiness or      *)
(* custom-state check says not ready, custom resources still being         *)
(* deleted) or an error; ready implies applied.  Without faults every call *)
(* caches, applies and reports ready.                                      *)
(***************************************************************************)
Outcomes ==
    IF Faults
    THEN {o \in [cached: BOOLEAN, applied: BOOLEAN, result: Results] :
            o.result = "ready" => o.applied}
    ELSE {[cached |-> TRUE, applied |-> TRUE, result |-> "ready"]}

\* HandleCharts, run by worker w on the request it received.
HandleCharts(w) ==
    /\ workers[w].phase = "busy"
    /\ LET r == workers[w].round
           i == workers[w].install
       IN \E o \in Outcomes :
            /\ cluster' = IF o.applied
                          THEN [cluster EXCEPT ![i] = Rendering(i, rounds[r].gen)]
                          ELSE cluster
            /\ rendered' = IF o.cached
                           THEN CacheRendering({i}, rounds[r].gen)
                           ELSE rendered
            /\ workers' = [workers EXCEPT ![w].phase = "responding",
                                          ![w].result = o.result]
    /\ UNCHANGED <<manifest, reconcile, rounds, orphans, restarts>>

\* Mutant: the collector only records errors, not a not-ready response.
DeliverResponseNoProcessing(w) ==
    /\ workers[w].phase = "responding"
    /\ LET r == workers[w].round
           res == workers[w].result
       IN /\ rounds[r].active
          /\ rounds[r].received < NInstalls
          /\ rounds' = [rounds EXCEPT
                          ![r].received = @ + 1,
                          ![r].errorState = @ \/ res = "error"]
    /\ workers' = [workers EXCEPT ![w] = IdleWorker]
    /\ UNCHANGED <<manifest, reconcile, cluster, orphans, restarts, rendered>>

\* Worker w's send on the round's response channel meets the collector's
\* receive; an error takes precedence over processing.
DeliverResponse(w) ==
    /\ workers[w].phase = "responding"
    /\ LET r == workers[w].round
           res == workers[w].result
       IN /\ rounds[r].active
          /\ rounds[r].received < NInstalls
          /\ rounds' = [rounds EXCEPT
                          ![r].received = @ + 1,
                          ![r].errorState = @ \/ res = "error",
                          ![r].processing = @ \/ res = "processing"]
    /\ workers' = [workers EXCEPT ![w] = IdleWorker]
    /\ UNCHANGED <<manifest, reconcile, cluster, orphans, restarts, rendered>>

-----------------------------------------------------------------------------
(* The collector after its last response.                                  *)

\* Mutant: the end state ignores the deletion timestamp.
EndStateIgnoringDeletion(m, errorState, processing) ==
    IF errorState THEN "Error"
    ELSE IF processing THEN "Processing" ELSE "Ready"

\* setProcessedState: the state the collector writes.
EndState(m, errorState, processing) ==
    IF errorState THEN "Error"
    ELSE IF ~m.deletionTimestamp
         THEN IF processing THEN "Processing" ELSE "Ready"
         ELSE "Deleting"

\* Mutant: the finalizer is removed only when a response was not ready.
ResponseHandlerFuncInverted(r) ==
    /\ rounds[r].active
    /\ rounds[r].received = NInstalls
    /\ rounds' = [rounds EXCEPT ![r] = FreeRound]
    /\ LET m == manifest
           errorState == rounds[r].errorState
           processing == rounds[r].processing
       IN \/ ~m.exists /\ UNCHANGED manifest
          \/ /\ m.exists
             /\ ~errorState /\ m.deletionTimestamp /\ processing
             /\ manifest' = [m EXCEPT !.finalizer = FALSE, !.exists = FALSE]
          \/ /\ m.exists
             /\ ~(~errorState /\ m.deletionTimestamp /\ processing)
             /\ ApiWrite(updateManifestStatus(m, EndState(m, errorState, processing)))
    /\ UNCHANGED <<reconcile, workers, cluster, orphans, restarts, rendered>>

(***************************************************************************)
(* ResponseHandlerFunc after reading all len(Installs) responses: read the *)
(* latest Manifest (gone: return); if no response was an error or still    *)
(* processing and the deletion timestamp is set, remove the finalizer (the *)
(* API server then deletes the object); if that Update fails, or in every  *)
(* other case, setProcessedState writes the end state.                     *)
(***************************************************************************)
ResponseHandlerFunc(r) ==
    /\ rounds[r].active
    /\ rounds[r].received = NInstalls
    /\ rounds' = [rounds EXCEPT ![r] = FreeRound]
    /\ LET m == manifest
           errorState == rounds[r].errorState
           processing == rounds[r].processing
       IN \/ ~m.exists /\ UNCHANGED manifest
          \/ /\ m.exists
             /\ ~errorState /\ m.deletionTimestamp /\ ~processing
             /\ \/ manifest' = [m EXCEPT !.finalizer = FALSE, !.exists = FALSE]
                \/ Faults /\ ApiWrite(updateManifestStatus(m, EndState(m, TRUE, processing)))
          \/ /\ m.exists
             /\ ~(~errorState /\ m.deletionTimestamp /\ ~processing)
             /\ ApiWrite(updateManifestStatus(m, EndState(m, errorState, processing)))
    /\ UNCHANGED <<reconcile, workers, cluster, orphans, restarts, rendered>>

-----------------------------------------------------------------------------
(* The environment: users of the API server and process restarts.          *)

\* A user deletes the Manifest: without a finalizer it is gone at once.
UserDelete ==
    /\ manifest.exists /\ ~manifest.deletionTimestamp
    /\ manifest' = IF manifest.finalizer
                   THEN [manifest EXCEPT !.deletionTimestamp = TRUE]
                   ELSE [manifest EXCEPT !.deletionTimestamp = TRUE, !.exists = FALSE]
    /\ UNCHANGED <<reconcile, rounds, workers, cluster, orphans, restarts, rendered>>

\* A user changes the spec: the API server bumps metadata.generation.
UserUpdateSpec ==
    /\ manifest.exists /\ manifest.generation < MaxGeneration
    /\ manifest' = [manifest EXCEPT !.generation = @ + 1]
    /\ UNCHANGED <<reconcile, rounds, workers, cluster, orphans, restarts, rendered>>

\* Some goroutine of the controller can still take a step.
Working ==
    \/ reconcile.busy
    \/ \E r \in Rounds : rounds[r].active
    \/ \E w \in Workers : workers[w].phase # "idle"

InFlight == Working \/ orphans > 0

\* The controller process restarts: every goroutine and channel is lost;
\* the API server and the target cluster keep their state, and the cached
\* renderings survive when the chart directory does (a restarted process in
\* the same container) or are gone (a new container).
Restart ==
    /\ InFlight /\ restarts < MaxRestarts
    /\ restarts' = restarts + 1
    /\ reconcile' = NoReconcile
    /\ rounds' = [r \in Rounds |-> FreeRound]
    /\ workers' = [w \in Workers |-> IdleWorker]
    /\ orphans' = 0
    /\ rendered' \in {rendered, [i \in Installs |-> 0]}
    /\ UNCHANGED <<manifest, cluster>>

\* The Manifest is gone and no goroutine can take a step (orphaned
\* collectors stay blocked for good): the controller is idle.
Terminated ==
    /\ ~manifest.exists /\ ~Working
    /\ UNCHANGED vars

-----------------------------------------------------------------------------
Init ==
    /\ manifest = [exists |-> TRUE, deletionTimestamp |-> FALSE, finalizer |-> FALSE,
                   state |-> "Initial", generation |-> 1, observedGeneration |-> 0]
    /\ reconcile = NoReconcile
    /\ rounds = [r \in Rounds |-> FreeRound]
    /\ workers = [w \in Workers |-> IdleWorker]
    /\ cluster = [i \in Installs |-> 0]
    /\ orphans = 0
    /\ restarts = 0
    /\ rendered = [i \in Installs |-> 0]

ReconcileStep ==
    \/ ReconcileMarkDeleting
    \/ ReconcileAddFinalizer
    \/ HandleInitialState
    \/ HandleProcessingState
    \/ HandleDeletingState
    \/ HandleErrorState
    \/ HandleReadyState

Next ==
    \/ ReconcileStep
    \/ \E w \in Workers : SendJob(w) \/ HandleCharts(w) \/ DeliverResponse(w)
    \/ \E r \in Rounds : ResponseHandlerFunc(r)
    \/ UserDelete
    \/ UserUpdateSpec
    \/ Restart
    \/ Terminated

Spec == Init /\ [][Next]_vars

\* The controller's goroutines are scheduled fairly; users and restarts are not.
Fairness ==
    /\ WF_vars(ReconcileStep)
    /\ \A w \in Workers : WF_vars(SendJob(w)) /\ WF_vars(HandleCharts(w))
                          /\ WF_vars(DeliverResponse(w))
    /\ \A r \in Rounds : WF_vars(ResponseHandlerFunc(r))

FairSpec == Spec /\ Fairness

-----------------------------------------------------------------------------
(* Properties.                                                             *)

\* Every variable has the shape the code gives it.
TypeOK ==
    /\ manifest \in ManifestRecords
    /\ reconcile \in ReconcileRecords
    /\ rounds \in [Rounds -> RoundRecords]
    /\ workers \in [Workers -> WorkerRecords]
    /\ cluster \in [Installs -> 0..MaxGeneration]
    /\ orphans \in 0..MaxOrphans
    /\ restarts \in 0..MaxRestarts
    /\ rendered \in [Installs -> 0..MaxGeneration]

\* Spec P2 (Reconcile's finalizer check before the status switch, and the
\* collector's finalizer removal): a Manifest that the controller has given
\* a status, or that is being deleted, carries the finalizer while it exists.
FinalizerWhileManaged ==
    manifest.exists /\ (manifest.state # "Initial" \/ manifest.deletionTimestamp)
        => manifest.finalizer

\* Requests of round r that a worker holds, and that Reconcile has not sent.
Holding(r) == Cardinality({w \in Workers : workers[w].phase # "idle" /\ workers[w].round = r})
Unsent(r) == IF reconcile.busy /\ reconcile.round = r THEN NInstalls + 1 - reconcile.next ELSE 0

\* Spec P1 (sendJobToInstallChannel, the worker loop, ResponseHandlerFunc):
\* the responses a collector has read, the requests workers hold for it and
\* the requests still to be sent add up to len(Installs) for a round whose
\* requests were sent, and to 0 for a free slot: no response is lost,
\* duplicated or delivered to the wrong collector.
ResponsesBalanced ==
    \A r \in Rounds :
        rounds[r].received + Holding(r) + Unsent(r)
            = IF rounds[r].active THEN NInstalls ELSE 0

\* setProcessedState: a Manifest reported Ready has the resources of every
\* install applied on the target cluster.
ReadyImpliesInstalled ==
    manifest.exists /\ manifest.state = "Ready" => \A i \in Installs : cluster[i] # 0

\* Reconcile and setProcessedState: once the deletion timestamp is set a
\* status write moves the Manifest only into Deleting, or into Error when
\* a response or the finalizer removal failed; never Ready or Processing.
DeletionTransitions ==
    [][manifest.deletionTimestamp /\ manifest'.state # manifest.state
         => manifest'.state \in {"Deleting", "Error"}]_vars

\* HandleDeletingState and the collector's finalizer removal: a deleted
\* Manifest eventually disappears from the API server.
DeletionCompletes ==
    manifest.deletionTimestamp ~> ~manifest.exists

\* Processing, the collectors and HandleReadyState's consistency check: a
\* Manifest that is not deleted eventually settles Ready, its observed
\* generation the current one, with every install holding on the cluster
\* what getManifestForChartPath renders for the current spec; in
\* particular an install applied from an older spec by a round that
\* raced a spec update is detected and applied again.
ReadyEventually ==
    <>[](\/ manifest.deletionTimestamp
         \/ /\ manifest.state = "Ready"
            /\ manifest.observedGeneration = manifest.generation
            /\ \A i \in Installs : cluster[i] = Rendering(i, manifest.generation))

\* The finalizer exists so that the Manifest is gone only after its
\* resources were removed from the target cluster (spec 3, 4.1).
NoOrphanedResources ==
    ~manifest.exists => \A i \in Installs : cluster[i] = 0

\* Spec 4.1: a collector reads its len(Installs) responses or aborts on
\* cancellation; every collector goroutine eventually ends.
CollectorsTerminate ==
    /\ \A r \in Rounds : rounds[r].active ~> ~rounds[r].active
    /\ orphans > 0 ~> orphans = 0


\* The installs whose resources are on the target cluster.
AppliedInstalls == {i \in Installs : cluster[i] # 0}

\* The status contract of the controller (ManifestStatus), seen through the
\* Manifest's status, deletion timestamp and existence and the cluster.
Status == INSTANCE ManifestStatus
    WITH InstallSet <- Installs, status <- manifest.state,
         deleting <- manifest.deletionTimestamp, present <- manifest.exists,
         applied <- AppliedInstalls

\* Reconcile, the collectors and the workers together keep the promises of
\* ManifestStatus: no return to Initial, only Deleting or Error once the
\* deletion timestamp is set, Ready only with every install applied,
\* resources never removed outside a deletion (the workers never remove
\* any: uninstall re-applies them), and no disappearance of a
\* Manifest that already has a status.
StatusContract == Status!Spec

=============================================================================
