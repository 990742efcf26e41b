# TLA+ models of the module-manager Manifest controller

This directory holds TLA+ models of the Manifest controller (sources under
`src/`). It includes TLC configurations that model-check the models on small
instances, and TLAPS proofs of the central invariants for every instance.

## 1. The system and its parts

| Part | Source | State it keeps | Operations |
|---|---|---|---|
| Reconciler | `src/unnamed/part_005` (`ManifestReconciler`) | none in memory; the Manifest object (finalizer, deletion timestamp, `status.state`, `observedGeneration`) lives in the API server | `Reconcile` and its handlers `HandleInitialState`, `HandleProcessingState`, `HandleDeletingState`, `HandleErrorState`, `HandleReadyState`; `sendJobToInstallChannel`; the collector `ResponseHandlerFunc` with `setProcessedState`; `updateManifest`, `updateManifestStatus` |
| WorkerPool | `src/operator/controllers/workers.go` | `size`, `initialSize`; W goroutines reading the unbuffered `DeployChan` | `NewManifestWorkers`, `SetWorkerPoolSize`, `StartWorkers` loop: receive a request or return on `ctx.Done`, call `HandleCharts`, send the response on the request's own channel |
| InstallPipeline | `src/operator/pkg/manifest/operations.go` | the resources on the target cluster | `install`, `uninstall`, `consistencyCheck` (`VerifyResources`) |
| PreparePhase | `src/internal/pkg/prepare/deploy.go` | the `InstallInfo` objects it allocates | `GetInstallInfos`: `parseCrds`, `getDestinationConfigAndClient`, `parseConfigs`, `parseInstallations` |
| ArtifactStore | `src/unnamed/part_000` | the extracted-chart directories on disk | `GetPathFromExtractedTarGz`, `writeTarGzContent`, `DecodeUncompressedLayer` |
| AuthResolver, ClusterResolver | `src/internal/pkg/prepare/deploy.go` | none | keychain from pull secrets; remote cluster config from a secret |
| RendererCache, RendererFactory | `src/operator/pkg/manifest/operations.go` (the cache itself is not in `src/`) | cache key -> renderer; rendered manifest on disk per chart path | `newOperations`, `discoverCacheKey`, `getManifestProcessor`, `getManifestForChartPath` |
| HelmClient | `src/operator/pkg/manifest/client.go` | the kube client's `Namespace`, shared by every job of one cached renderer | `NewInstallActionClient`, `HandleNamespace`, `GetTargetResources`, `PerformCreate`/`PerformUpdate`, `CheckReadyState`/`checkReady` |
| StatusConditions | `src/operator/internal/pkg/util/manifest.go` | the Manifest's `status.conditions` | `AddReadyConditionForResponses`, `AddReadyConditionForObjects`, `getReadyConditionForComponent` |
| ApplyEngine | `src/unnamed/part_002` | none | concurrent server-side apply of one install's objects |
| Labeling & Transforms, Rate limiter | `transform.go`, `part_005` | none | pure transformations; requeue delays |

How the parts interact:

1. `Reconcile` reads the Manifest.
2. In Processing or Deleting it starts a collector goroutine with a fresh
   unbuffered response channel.
3. It calls `GetInstallInfos`, then sends one `OperationRequest` per install on
   `DeployChan`. It blocks until a worker takes each one.
4. A worker runs `HandleCharts`, which calls `install` or `uninstall` against
   the target cluster. It then sends an `InstallResponse` to that round's
   collector.
5. After N responses the collector re-reads the Manifest. It removes the
   finalizer when all responses were ready and the deletion timestamp is set.
   Otherwise it writes the end state computed by `setProcessedState`.
6. `Reconcile` may start a new round for the same Manifest while earlier rounds
   are still in flight. Processing requeues after the failure interval, and
   every status write triggers a watch event.

What makes this hard:

- Several collectors of one Manifest run concurrently with the user's spec
  updates and deletes.
- Every API write can fail with a conflict.
- Preparation can fail after the collector has started.
- The process can restart mid-round, losing every goroutine and channel but
  keeping the cluster and the API server state.
- Workers of different Manifests share the renderer cache, the rendered
  manifests on disk and, through a cached renderer, one Helm kube client.

## 2. Modules

### ManifestReconciler.tla: Reconciler, WorkerPool and the install effects, one Manifest

**Variables**

| Variable | Models |
|---|---|
| `manifest` | The Manifest in the API server: `exists`, `deletionTimestamp`, `finalizer`, `state`, `generation`, `observedGeneration`. `"Initial"` stands for the code's empty state `""`. Conditions and messages are left out; no property reads them. |
| `reconcile` | The single `Reconcile` call of this key that may be blocked sending requests. controller-runtime never runs two reconciles of one key at once. `next` is the index of the next request to send. |
| `rounds[r]` | The collector of dispatch round `r`: its mode, the spec generation its requests were prepared from, the number of responses read, and the `errorState` / `processing` flags. |
| `workers[w]` | A worker: idle, busy (inside `HandleCharts`) or responding (blocked on the response send). |
| `cluster[i]` | Which generation's rendering of install `i` is applied on the target cluster. `0` means absent; once applied, nothing makes it absent again. |
| `rendered[i]` | The generation whose rendering `getManifestForChartPath` cached in the file beside install `i`'s chart path (`0`: none). Only installs in the constant `ChartPathInstalls` (a static `ChartPath`) ever get one. |
| `orphans` | Collectors left waiting after `GetInstallInfos` failed. |
| `restarts` | Process restarts so far. |

**Correspondence of actions to code**

- Each step of `Reconcile` is one action, with its early returns as guards:
  `ReconcileMarkDeleting`, `ReconcileAddFinalizer`, then the switch
  (`HandleInitialState`, `HandleProcessingState`, `HandleDeletingState`,
  `HandleErrorState`, `HandleReadyState`).
- `sendJobToInstallChannel` is either `StartRound` (collector started,
  preparation succeeded, Reconcile now sends) or `PrepareFails` (collector
  started, preparation failed, the collector is orphaned).
- The channel rendezvous are `SendJob(w)` (DeployChan) and `DeliverResponse(w)`
  (response channel).
- `HandleCharts(w)` runs `install` or `uninstall`. Both take the manifest from
  `getManifestForChartPath` (`Rendering`: the cached file if any, else a
  fresh rendering of the round's generation) and apply it with
  `renderSrc.Install`; `uninstall` only removes the CRs and CRDs around that
  call (`operations.go:269`). So both modes leave `Rendering(i, gen)` on the
  cluster. The call may also cache the rendering (`CacheRendering`), fail
  before applying, or apply with a refused cache write (a permission error,
  only logged).
- `ResponseHandlerFunc(r)` is the collector after its last response. It covers
  the re-read, the finalizer removal and its failure, and `setProcessedState`.
- Every API write goes through `ApiWrite`. It lands atomically, or, when
  `Faults` is TRUE, fails and leaves the object unchanged. This is how
  optimistic concurrency shows a racing write.
- `HandleReadyState` runs `consistencyCheck` on the installs in order.
  `Consistent(i)` holds when the cluster holds what `getManifestForChartPath`
  renders for the current spec: the cached file when there is one, whatever
  generation it came from. The check caches the renderings of the installs it
  visits (`CheckedInstalls`: up to the first one that is not ready).
- The environment:
  - `UserDelete` sets the deletion timestamp. The object goes at once if it has
    no finalizer.
  - `UserUpdateSpec` increments the generation.
  - `Restart` loses every goroutine and channel. The cached files survive
    (same container) or are gone (a new container).
  - `Terminated` is the idle end once the Manifest is gone.

**Data abstractions**

- An install's content is the generation it was rendered from.
- A manifest pre-rendered in the chart directory (step 1 of
  `getManifestForChartPath`) is left out: no install has one.
- An install call's effect is applied or not, and cached or not.
- Its report is one of ready, not ready, or error. Ready implies applied, as
  `install` and `uninstall` return `ready` only after their last step.
- Uninstall is modelled by what the code does: it re-applies the rendering.
  Spec 4.9 (uninstall, step 2) says the apply path for deletion mode drives
  removal, but nothing in the call tells it the round is a deletion (see
  the findings).

### ManifestStatus.tla: the abstract status contract

What the controller promises about one Manifest, as seen from the API server
and the target cluster. Its four variables are the reported state, the
deletion request, whether the object exists, and the set of installs whose
resources are applied. Its actions are:

- `WriteStatus(s)`: never back to Initial; only Deleting or Error once
  deletion was requested; Ready only with every install applied.
- `RequestDeletion`: the object may vanish at once only if it never had a
  status.
- `Remove`: the object vanishes after deletion was requested.
- `ChangeResources`: installs are added at any time, and removed only while
  deleting and reporting Deleting or Error. The controller never removes
  any, which the contract allows.

`ManifestReconciler` defines the mapping `Status == INSTANCE ManifestStatus
WITH ...`:

- `status <- manifest.state`;
- `deleting <- manifest.deletionTimestamp`;
- `present <- manifest.exists`;
- `applied <- AppliedInstalls`, the installs with a non-zero `cluster` entry.

`StatusContract == Status!Spec` is checked by TLC in `core_safety` and proved
in `ManifestStatusRefinement.tla`.

### ManifestReconcilerProofs.tla, ManifestReconcilerBalance.tla, ManifestStatusRefinement.tla

The TLAPS proofs (section 4). Each extends the previous one.

### MCManifestReconciler.tla

Instantiates the model with two symmetric worker model values for TLC.

### PreparePhase.tla: GetInstallInfos of one Manifest

- `input` is the Manifest spec: its installs (name and source kind), whether
  it has a CRD layer, `remote`, the cache-key label, what the config layer
  decodes to, and the configs array. `Init` takes every such spec.
- `pc` has one step per call that reads a registry or the API server:
  `ParseCrds`, `GetDestinationConfigAndClient`, `ParseConfigs`, then one
  `ParseInstallation` per install and `InstallationsParsed`. Each error
  return is `Fail`. `EnvironmentFails` is a registry or API call failing, when
  `Faults` is TRUE.
- `heap` holds the `InstallInfo` objects the call allocates. A pointer is an
  index into it. `ParseInstallation` does what the loop does: it copies the
  pointer `baseDeployInfo`, writes the chart through it and appends it.
- `GetConfigAndValuesForInstall` is the scan of the configs array: the first
  map with the install's name wins, and an element that is not a map fails
  the lookup. The loop is written in closed form: `LookupStops` is the set of
  indices where it returns or breaks, and the result is decided at the least
  of them. TLC confirmed it equal to a recursive scan for every config list
  up to length 3.
- `OutcomeMatchesReference` compares the result with a reference stated over
  the whole input (`WellFormed`, `ConfigAccepted`), not step by step.
  `JobsMatchInstalls` says every job carries its own install's chart.

### RendererCache.tla: renderer and rendered-manifest caches, several Manifests

- Each Manifest has at most one job in flight (`job[m]`). The job walks
  through `GetDestinationConfigAndClient` (the cluster resolution of the
  preparation), `LookupRenderer` and `CreateRenderer` (the two halves of
  `newOperations`), `GetManifestForChartPath`, `WriteToFile`,
  `FinishWriteToFile` and `Apply`. Every step that reads or writes shared
  state is a step of its own, so jobs of different Manifests interleave
  between them.
- `cache` maps a cache key (label, namespace) to the cluster config the
  stored renderer was built on. `file` is the rendered manifest per chart
  path: absent, being written, written, or torn by a failed write.
- Renderings are abstracted to the overrides they were made from. `"partial"`
  stands for a prefix, and `"preRendered"` for a chart that ships its manifest.
- The user may change a Manifest's overrides (`UserUpdateOverrides`, at most
  `MaxEdits` times). `spec.remote` is fixed per Manifest.

### ReadyConditions.tla: the Ready conditions of the status

- `conditions` is `status.conditions`. `RecordResponses` is a collector
  calling `AddReadyConditionForResponses` with the non-empty sequence of
  responses it read (`pending`).
- `AddReadyConditionForResponses` is one iteration of that function's loop:
  it takes the head of `pending`, computes its status (`ConditionStatus`) and
  calls `AddReadyConditionForObjects`. The loop works on the collector's
  in-memory copy of the Manifest, which nothing else reads before the status
  is written, so its iterations are separate steps without exposing anything
  the code hides.
- `AddReadyConditionForObjects` and `FirstCondition` translate the Go
  functions: append a condition when none has the chart's name, then
  overwrite the first matching one.
- `latest` is a history variable: the last response seen per chart.

### WorkerPool.tla: the install worker pool

- `size` and `started` come from the pool struct and `StartWorkers`.
- `workers[w]` is unstarted, idle (in the `select`), busy (in `HandleCharts`),
  responding (blocked on the unbuffered response send) or exited.
- `pending` counts reconciles blocked on `DeployChan`. `issued` is bounded
  by `MaxRequests`.
- `ctxDone` is the controller's context being cancelled. Once it is, the
  collectors have returned on `ctx.Done` (part_005:318), so a response
  send can no longer complete.
- `SetWorkerPoolSize` is translated as written: a positive argument restores
  the initial size, and any other value is taken as it is.
- `Quiescent` is the stutter of a pool with nothing left to do.

### HelmClient.tla: one cached renderer's Helm client, several workers

- `clientNs` is `h.kubeClient.Namespace`, one field that every job of the
  renderer shares.
- `nsExists` records which namespaces exist. `placed` is the set of resources
  on the cluster, each with the namespace it landed in and the namespace its
  job targeted.
- A job runs `NewInstallActionClient` (flags choose the install, create or
  delete mode, the namespace, `CreateNamespace` and whether transforms are
  configured), then `HandleNamespace`, `GetTargetResources`,
  `ApplyResources` and, when creating, `CheckReadyState`.
- `GetTargetResources` models what Helm's `Build` does with a resource that
  names no namespace. Without transforms it takes the client's current
  namespace. With transforms, `overrideNamespace` sets the target.
- `CheckReady` is the `Visit` of `checkReady` over the outcomes `IsReady`
  reports. The visit ends at the first failed `IsReady` (`VisitErrors`), so
  the resources visited are `Visited`: all of them, or those up to the
  first failure. `resourcesReady` is FALSE when a visited resource is not
  ready. TLC confirmed this closed form equal to a step-by-step visit for
  every outcome list up to length 5. `ReferenceReadiness` is the reference it
  is checked against.
- `JobsEnded` is the stutter once every job was taken and has ended.

### Proof modules of the components

`PreparePhaseProofs`, `RendererCacheProofs`, `ReadyConditionsProofs` and
`HelmClientProofs` each extend their component's module and hold its TLAPS
proofs (section 4).

### MC modules

`MCPreparePhase`, `MCRendererCache`, `MCReadyConditions`, `MCWorkerPool` and
`MCHelmClient` give the constants model values and small sets. Only
`MCPreparePhase` declares a symmetry, over chart names, which no property
distinguishes.

## 3. Runs

All runs use 2 installs, 2 workers, 2 collector slots, 2 spec generations, and
`MaxRestarts`/`MaxOrphans` as listed. Two installs are enough for a round to be
half done, for both workers to hold requests of one round, and for two rounds of
one Manifest to interleave. Two generations give a spec update racing a round.
`ChartPathInstalls = {1}`: install 1 has a static chart path, so its rendering
is cached, and install 2 is rendered afresh on every call. The runs thus see
both a cache that pins the old rendering and a stale install that the
consistency check must catch.

| Run | cfg | Result | What it shows |
|---|---|---|---|
| core_safety | `MCManifestReconciler.cfg` (Faults, 1 restart, 1 orphan) | pass, 2.0M states | `FinalizerWhileManaged` (spec P2): a Manifest with a status or a deletion timestamp has the finalizer while it exists. `ResponsesBalanced` (P1): responses read + requests held by workers + requests unsent = N for every live round, and 0 for a free slot, so no response is lost, duplicated or misrouted. `ReadyImpliesInstalled`: Ready means every install's resources are on the cluster. `DeletionTransitions`: once deleted, a status write goes only to Deleting or Error. `StatusContract`: the behaviour, seen through the refinement mapping, is a behaviour of `ManifestStatus`. |
| core_liveness | `MCManifestReconcilerLiveness.cfg` (no faults, 1 restart) | pass | `DeletionCompletes`: a deleted Manifest disappears. `ReadyEventually`: an undeleted Manifest settles Ready at its current generation, each install holding what `getManifestForChartPath` renders for the current spec. The freshly rendered install 2 may be left with the old spec by a round that raced an update, while the collector stamps the new generation. `HandleReadyState`'s check must catch it. For install 1 the cached old rendering is what the code promises (see `stale_rendering`). |
| orphaned_resources | `...OrphanedResources.cfg` | violation | `NoOrphanedResources` fails. A Delete round re-applies the resources through `uninstall`'s `renderSrc.Install`, then removes the finalizer. A Create round finishing after a delete also removes the finalizer. Either way the Manifest is gone while its resources remain. |
| collector_leak | `...CollectorLeak.cfg` | violation | `CollectorsTerminate` fails. A collector started before a failed `GetInstallInfos` waits for ever. |

Every property of a passing run has a mutant in `PROJECT.json`. The mutant is a
plausible code bug that TLC catches:

- a missing finalizer check;
- a send loop one past the end, and one that stops one short;
- a collector that ignores "not ready";
- an end state ignoring deletion;
- an inverted finalizer-removal guard;
- a consistency check that only asks that the resources exist.

**Fairness.** Weak fairness applies to `Reconcile`'s steps (any of them), to
each worker's three steps, and to each collector's last step. Users and
restarts get no fairness. This is justified because:

- Goroutines are scheduled by the Go runtime.
- Processing, Error and Ready requeue after a jittered interval.
- Status writes trigger watch events.
- The periodic resync re-queues a Deleting Manifest, which is not requeued
  explicitly.

The liveness run disables faults. With faults a write can fail for ever, and
nothing in the code retries beyond the requeue.

**Bounds.** `MaxGeneration`, `MaxRestarts` and `MaxOrphans` cap counters that
are unbounded in the code. `Slots` caps the number of collectors alive at once.
With 2 slots, two rounds of one Manifest overlap, which is the case the ordering
hazards need.

### Runs of the component modules

| Run | cfg | Result | What it shows |
|---|---|---|---|
| prepare_reference | `MCPreparePhase.cfg`: 2 installs, 2 config entries, faults | pass, 355,730 states | `OutcomeMatchesReference`: `GetInstallInfos` fails exactly when the spec is not well formed or a call failed. Otherwise it returns one job per install. This holds over every spec these bounds allow, including the EOF tolerance of `parseConfigs` and a config entry that is not a map. |
| prepare_aliased_jobs | `MCPreparePhaseAliasedJobs.cfg`: 2 installs | violation | `JobsMatchInstalls` fails. Both jobs are the same `InstallInfo` and carry the second install's chart. |
| renderer_cache | `MCRendererCache.cfg`: 4 Manifests (two of owner k in ns1, one labelled k in ns2, one unlabelled), one OCI chart path (m1's), one pre-rendered path (m3's), 1 edit, faults | pass, 1,634,304 states | `RendererTargetsJobCluster`: the renderer a job uses, cached or created by a racing job, targets the cluster its preparation resolved. The ns2 Manifest shows the key must include the namespace. |
| stale_rendering | `MCRendererCacheStaleRendering.cfg` | violation | `AppliesOwnOverrides` fails. After an overrides edit, the rendered manifest cached under the chart path is applied. |
| ready_conditions | `MCReadyConditions.cfg`: 3 charts, rounds of up to 3 responses | pass, 929,305 states | `ConditionsReflectLatest`: one Ready condition per chart, stating its latest response, after any sequence of rounds (repeats within a round included). |
| worker_pool | `MCWorkerPool.cfg`: 2 workers, 3 requests, `SetWorkerPoolSize` with a positive size | pass, 147 states | `RequestsServed`: a reconcile blocked on `DeployChan` is served unless the controller stops. |
| helm_client | `MCHelmClient.cfg`: 1 worker, 3 jobs, 2 namespaces, up to 2 resources per check, faults | pass, 1,674 states | `ReadyCheckMatchesReference`: `checkReady` reports ready exactly when every resource is ready, and an error when `IsReady` failed. `ResourcesInTargetNamespace`: one worker's jobs, with namespace creation and deletion, place every resource in the namespace its job targeted. |
| shared_helm_namespace | `MCHelmClientSharedNamespace.cfg`: 2 workers, 2 jobs | violation | `ResourcesInTargetNamespace` fails. Another job's `HandleNamespace` changes the shared client namespace before `Build`. |

**Mutants of the component runs:**

- `parseConfigs` without the EOF tolerance;
- a cache key of the label alone;
- a condition status that tests readiness before the error;
- a worker that returns after one request;
- a `checkReady` that counts only errors;
- a `HandleNamespace` that sets the client namespace only past its early return.

Each mutant is caught by its run.

**Fairness of WorkerPool.** Weak fairness applies to `StartWorkers`, which
`SetupWithManager` always calls, and to each worker's steps, which the Go
scheduler runs. Sending requests and cancelling the context get no fairness:
they are the reconciler's and the manager's choice.

**Bounds of the component runs.**
- Two installs are the smallest case where a pointer copy can alias.
- Four Manifests cover the cases that matter for the cache key: the same key
  twice, the same label in another namespace, and no label.
- Rounds of three responses over three charts allow a repeat inside a round
  next to a new chart.
- Two workers are the smallest pool where the shared namespace can race. The
  pass run uses one worker, because two always race.

## 4. What is proved (TLAPS)

### ManifestReconcilerProofs.tla

These hold for every value of the constants allowed by `ConstantsAssumption`.

**`TypeCorrect`: `Spec => []TypeOK`.**
- The proof is inductive, with one step per action.
- Record updates are split into per-variable sub-steps.
- It uses the lemmas `StatusWriteType`, `ApiWriteType`, `EndStateType` and
  `DefaultsType`.

**`FinalizerKept`: `Spec => []FinalizerWhileManaged`.**
- `FinalizerWhileManaged` alone is not inductive. A collector's status write
  keeps the finalizer bit of the object it re-read, so the proof must know that
  object has the finalizer.
- The strengthening `RoundsStarted` says that while any collector is active
  and the Manifest exists, its state is not Initial. Rounds start only from
  Processing and Deleting, and no write sets the initial state.
- `FinalizerInv` (their conjunction) was checked with TLC before it was proved.
- The step proof has one case per action and uses `TypeOK` from
  `TypeCorrect`.

**`DeletionTransitionsHold`: `Spec => DeletionTransitions`.**
- This is an action property, proved directly from `TypeOK`.
- Every status write goes through `updateManifestStatus`. Its value is
  `EndState`, `"Deleting"` or `"Processing"`.
- `"Processing"` is written only behind `ReachesStateSwitch` with a state
  other than Deleting. That guard rules out a deletion timestamp.

### ManifestReconcilerBalance.tla

**`ResponsesBalancedHolds`: `Spec => []ResponsesBalanced`.**
- With `TypeOK` this invariant is inductive.
- The counting lemmas handle the cases where a worker takes a request
  (`TakeRequest`) or returns it (`ReturnRequest`). They work on the set
  `HoldersOf(ws, r)` of workers holding a request of round `r`, and change
  its cardinality by one through `FS_AddElement` and `FS_RemoveElement`.
- A restart empties every holder set (`NoHolders`).
- These lemmas are stated pointwise: for a new worker map that agrees with
  the old one off `w`. The provers do not match a lemma whose statement
  contains an `EXCEPT`.

**`ReadyInvariant`: `Spec => []ReadyInv`, and `ReadyInstalled`:
`Spec => []ReadyImpliesInstalled`.**

`ReadyImpliesInstalled` is not inductive. A collector writes Ready from the
responses it read, so the proof must know that a `ready` response means the
install is on the cluster, and stays there until the status is written. The
inductive invariant `ReadyInv` adds these conjuncts:

- `HeldActive` and `SendingActive`: a worker holding a request, and a
  Reconcile call still sending, belong to an active round.
- `HeldSent`: a held request's install index is below the sender's next index.
- `DeletingMarked`: a Deleting state implies a deletion timestamp. The
  delete-mode case of `StartRound` needs it.
- `DeleteRoundsDeleting`: an active delete round implies a deletion timestamp
  and a state of Deleting or Error. The collector's Ready case needs it: a
  round whose collector writes Ready is a create round, whose installs
  `DeliveredApplied` covers.
- `DeliveredApplied`: in a clean round (create mode, every response so far
  ready, no deletion timestamp), every install that was sent and is no longer
  held by a worker is non-zero on the cluster.
- `ReadyResponseApplied`: a ready response of a create round that a worker is
  about to deliver, while no deletion timestamp is set, is for an install
  that is non-zero on the cluster.

`ReadyInv` was checked with TLC on the `core_safety` instance
before it was proved. The step proof has one lemma per action.
`ResponsesBalanced` is used twice. A free slot has no holders, so a round
starts clean. A collector that read `NInstalls` responses has no request held
or unsent, so every install was answered.

### ManifestStatusRefinement.tla

**`StatusRefinement`: `Spec => StatusContract`.** `ManifestReconciler`
implements `ManifestStatus` under the mapping of section 2. Initial states map
to the initial state. Every step maps to a contract step or to a stutter:

| Controller step | Contract step |
|---|---|
| `ReconcileMarkDeleting`, `HandleInitialState`, `HandleErrorState`, `HandleReadyState`, a collector's status write | `WriteStatus` (lemma `StatusWriteRefines`; a failed write is a stutter) |
| collector's finalizer removal | `Remove` |
| `UserDelete` | `RequestDeletion` |
| `HandleCharts` | `ChangeResources` (lemma `HandleChartsRefines`) |
| finalizer add, round start, `SendJob`, `DeliverResponse`, spec update, restart, termination | stutter (`ContractStutter`) |

The step proof uses four invariants:
- `TypeOK`;
- `FinalizerWhileManaged`: a finalizer-less `UserDelete` finds the state
  Initial;
- `ReadyInv`'s `HeldActive` and the lemma `RenderingType`: a worker's
  `HandleCharts` applies a non-zero rendering, so no install is removed;
- `ReadyImpliesInstalled` in the next state: a landed Ready write has every
  install applied.

### RendererCacheProofs.tla

**`RendererTargetsJobClusterHolds`: `Spec => []RendererTargetsJobCluster`.**
It holds for every set of Manifests, labels, namespaces, chart paths and
values allowed by `RendererCacheAssumption`.

The property is not inductive. A job that hits the cache takes the cached
renderer, and nothing in the property says that renderer matches the job's
cluster. The inductive invariant `IInv` adds four facts:

- `OwnersAgree`: Manifests with the same cache key agree on `remote`.
- `CacheHoldsOwnerCluster`: a renderer cached under a key was built on that
  key's owner cluster (`OwnerCluster`: the kubeconfig secret named by the key
  when remote, else the host).
- `JobTargetsOwner`: a job in flight has its owner cluster as its
  ClusterInfo, and the renderer it holds, if any, targets that cluster.
- `WritingJobs`: the typing facts of the write steps.

`GetDestinationConfigAndClient` on a hit takes the cached cluster, and
`CreateRenderer` stores the job's cluster. Both preserve
`CacheHoldsOwnerCluster` because the key determines the owner cluster
(lemma `OwnerClusterOfKey`). `IInv` was checked with TLC on the
`renderer_cache` instance (1,634,304 states) before it was proved.

The proof has one lemma per action (`GetDestinationStep`, `LookupRendererStep`,
`CreateRendererStep`, ...), then `InitIInv` and `NextIInv`. The theorem
combines them with PTL.

`spec.remote` does not change in this model, and the theorem relies on it.
If an owner switched between remote and local, its renderer would stay
cached on the old cluster, because nothing evicts it. That would break
`CacheHoldsOwnerCluster` (hazard `operations.go:81`).

### ReadyConditionsProofs.tla

**`ConditionsReflectLatestHolds`: `Spec => []ConditionsReflectLatest`.**
- It holds for every set of charts and every bound on a call's responses,
  under one hypothesis: `NoResponse`, the history variable's marker for a
  chart no response has named yet, is not itself a response. With chart
  names as model values, as in the run, this always holds.
- The property is not inductive as it stands. The inductive invariant
  `CondInv` splits it into `UniqueReasons`, `ConditionsStateLatest` (each
  condition states its chart's latest response) and
  `RespondedChartsHaveCondition`, plus `TypeOK`. TLC checked it on the
  `ready_conditions` instance (929,305 states) before it was proved.
- Uniqueness is what makes the step work. `FirstConditionFound` shows that
  with unique reasons `getReadyConditionForComponent` finds the one
  condition of the chart, or none. So the loop's iteration either appends
  the chart's first condition or overwrites its only one.
- `ConditionStatusIsSpecStatus` shows that the code's if-chain gives the
  status spec 4.1 asks for.

### HelmClientProofs.tla

**`ReadyCheckMatchesReferenceHolds`: `Spec => []ReadyCheckMatchesReference`.**
- It holds for every number of workers, installs, namespaces and jobs.
- `CheckReadyIsReference` is the core. When some `IsReady` fails, the least
  failing index exists (`LeastIndex`, from `WFMin` and the well-foundedness
  of `<` on `Nat`). The visit ends there, and that resource is not ready, so
  both `checkReady` and the reference report an error and not ready.
  Otherwise every resource is visited.
- The inductive invariant `ReadyInv` says a job carries outcomes only after
  `CheckReadyState`, and then its `ready`/`err` are `CheckReady` of them.
  Every other step keeps the outcomes empty (`NoOutcomesYet`,
  `MoveKeepsReadyInv`).

**`SingleWorkerResourcesInTargetNamespace`: with `Workers = {w0}`,
`Spec => []ResourcesInTargetNamespace`.**
- The hypothesis is a single worker. This is the `helm_client` instance, and
  two workers break the property (run `shared_helm_namespace`).
- The inductive invariant `NsInv` adds two facts. `BuildTargetsOwnNs`: a job
  about to `Build` has transforms or finds the shared client at its own
  namespace. `BuiltInOwnNs`: a built job holds its resources in its target
  namespace.
- `JobShape` gives the typing the step needs. `NsInv` was checked with TLC
  (1 worker, 2 installs, 3 namespaces, 4 jobs; 63,196 states).
- Record updates `[workers EXCEPT ![w].f = ...]` are taken apart field by
  field with Zenon, because the SMT backend does not accept them.

### PreparePhaseProofs.tla

**`OutcomeMatchesReferenceHolds`: `Spec => []OutcomeMatchesReference`.**
- It holds for every set of installs, config shapes and names allowed by the
  module's assumption.
- `LookupMatchesReference` shows that the closed-form lookup, followed by the
  two `strvals.ParseInto` calls, succeeds exactly when `ConfigAccepted`
  holds. It needs the least stop of the loop (`LeastIndex`, via `WFMin`).
- The inductive invariant `PrepInv` tracks, step by step, what the calls
  already established: the destination is cached when remote; the configs
  decoded; each install handled so far has a supported source and an
  accepted config; and `deployInfos` has one entry per handled install.
  TLC checked it on the `prepare_reference` instance (355,730 states).
- Every error return (`Fail`) keeps `PrepInv` through one lemma
  (`FailKeepsPrepInv`).

### Model-checked only

- Liveness: `DeletionCompletes`, `ReadyEventually` and `RequestsServed` need
  fairness and ENABLED, which TLAPS does not handle here.
- `ResourcesInTargetNamespace` for two or more workers is violated (a
  finding). Only its single-worker form is proved.
- The violated properties (`NoOrphanedResources`, `CollectorsTerminate`,
  `JobsMatchInstalls`, `AppliesOwnOverrides`) are findings, shown by TLC's
  counterexamples.
- The loops of `getConfigAndValuesForInstall` and `checkReady` are modelled
  in closed form (least stop index). A recursive function would be opaque to
  the provers: unfolding one needs the library's `RecursiveFcnOfNat`
  theorem, which takes an operator parameter the installed provers cannot
  instantiate. The closed forms were checked equal to the step-by-step loops
  by TLC on bounded inputs; that equality is not proved.

## 5. Findings

- **Orphaned resources** (`part_005:343`). The finalizer removal does not check
  the round's mode.
- **Uninstall re-applies** (`operations.go:269`). `uninstall` calls
  `renderSrc.Install` with the same arguments as `install`. Spec 4.9 says the
  apply path for deletion mode drives removal. Nothing tells the call that
  this is a deletion, so a completed Delete round leaves the resources in
  place.
- **Leaked collector** (`part_005:170`). The collector starts before
  preparation and is cancelled only at shutdown.
- **Aliased install jobs** (`deploy.go:214`). `deployInfo := baseDeployInfo`
  copies a pointer, so every job of a multi-install Manifest carries the last
  chart.
- **Rendered manifest reused after a spec change** (`operations.go:296`). The
  cache is keyed by chart path only.
- **Shared Helm namespace** (`client.go:166`). Concurrent jobs of one cached
  renderer overwrite `kubeClient.Namespace`.

## 6. Not modelled

- **ArtifactStore** (`part_000`). The file is a concatenation of library code;
  the callers that would run it concurrently, and any locking around them, are
  not in this repository. Its hazard (a partial extraction taken for a cache
  hit) is listed without a property.
- **ApplyEngine** (`part_002`). Concurrent server-side apply with error
  aggregation. It is not modelled yet. Its outcome (applied, not ready, error)
  is what `ManifestReconciler` and `HelmClient` abstract to.
- **HelmClient plumbing.** `DownloadChart`, `getGenericConfig`,
  `newRestClient` and `assignRestMapping` only call into Helm and the REST
  mapper.
- **Custom-resource readiness** (`util/manifest.go:92-155`). This reads the
  cluster and is abstracted to a readiness outcome.
- **Helm/Kustomize rendering, labels and transforms, the rate limiter.**
  These are pure data transformations or timing.
- **AuthResolver.** A lookup with one error path.
