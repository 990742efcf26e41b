--------------------------- MODULE RendererCache ---------------------------
(***************************************************************************)
(* Install jobs of several Manifests sharing the process-wide renderer     *)
(* cache and the on-disk rendered-manifest cache:                          *)
(*  - the cluster resolution of the preparation                            *)
(*    (getDestinationConfigAndClient, src/internal/pkg/prepare/deploy.go), *)
(*    which takes the ClusterInfo of a renderer cached for the owner;      *)
(*  - newOperations (src/operator/pkg/manifest/operations.go), which looks *)
(*    the renderer up by the cache-key label and namespace and, on a miss, *)
(*    builds one from the job's cluster config and stores it;              *)
(*  - getManifestForChartPath (same file), which reads a pre-rendered or   *)
(*    a cached rendered manifest under the chart path, or renders and      *)
(*    writes the result there;                                             *)
(*  - the apply, which sends the chart's resources through the renderer    *)
(*    and the CRDs and custom resources through the job's ClusterInfo.     *)
(* Each job step is a step of its own because the cache, the file and the  *)
(* Manifest may change between them: workers run concurrently, and so do   *)
(* reconciles of different Manifests.                                      *)
(*                                                                         *)
(* - remote, overrides: the parts of the Manifest specs the jobs read;     *)
(*   the user may change the overrides (at most MaxEdits times).           *)
(* - cache: the renderer stored per cache key, identified by the cluster   *)
(*   config it was built from.                                             *)
(* - file: the rendered manifest on disk per chart path.                   *)
(* - job: the job of each Manifest in flight.                              *)
(***************************************************************************)
EXTENDS Naturals

CONSTANTS
    Manifests,    \* the Manifest objects
    Label,        \* Label[m]: value of the cache-key label, or NoLabel
    Namespace,    \* Namespace[m]
    ChartPath,    \* ChartPath[m]: path of the chart on disk, or NoPath
    PreRendered,  \* chart paths that ship a rendered manifest
    Values,       \* the chart overrides a Manifest may carry
    NoLabel, NoPath,
    MaxEdits,     \* bound: edits of the Manifest specs by the user
    Faults        \* whether API, discovery and file system calls may fail

ASSUME RendererCacheAssumption ==
    /\ NoPath \notin PreRendered
    /\ Values # {}
    /\ MaxEdits \in Nat /\ Faults \in BOOLEAN

VARIABLES remote, overrides, edits, cache, file, job

vars == <<remote, overrides, edits, cache, file, job>>

Paths == {ChartPath[m] : m \in Manifests} \ {NoPath}

\* client.ObjectKey{Name: label, Namespace: namespace}
Keys == [name: {Label[m] : m \in Manifests} \cup {NoLabel},
         namespace: {Namespace[m] : m \in Manifests}]

\* the cluster a config reaches: the host cluster, or the remote cluster
\* whose kubeconfig is the secret named after the owner in a namespace
Host == [name |-> "host", namespace |-> "host"]
NoCluster == [name |-> "none", namespace |-> "none"]
Clusters == {Host} \cup Keys

\* a rendered manifest: the rendering of some overrides, the rendered
\* manifest shipped under the chart path, or the prefix of a file read
\* while another worker was writing it
Renderings == Values \cup {"preRendered", "partial"}

JobSteps == {"idle", "prepared", "creating", "rendering", "writing", "flushing", "applying"}

JobRecords ==
    [pc: JobSteps, info: Clusters \cup {NoCluster}, values: Values,
     renderer: Clusters \cup {NoCluster}, manifest: Renderings \cup {"none"}]

\* a file being written, or left behind by a write that failed midway,
\* holds a prefix of its content
FileStates == [state: {"absent", "writing", "written", "torn"}, content: Values]

IdleJob(m) ==
    [pc |-> "idle", info |-> NoCluster, values |-> overrides[m],
     renderer |-> NoCluster, manifest |-> "none"]

TypeOK ==
    /\ remote \in [Manifests -> BOOLEAN]
    /\ overrides \in [Manifests -> Values]
    /\ edits \in 0..MaxEdits
    /\ cache \in [Keys -> Clusters \cup {NoCluster}]
    /\ file \in [Paths -> FileStates]
    /\ job \in [Manifests -> JobRecords]

\* the key under which getDestinationConfigAndClient looks the renderer up
KymaNsName(m) == [name |-> Label[m], namespace |-> Namespace[m]]

\* the config the default RESTConfigGetter reads: the kubeconfig secret
\* named after the owner label, in the Manifest's namespace
SecretCluster(m) == [name |-> Label[m], namespace |-> Namespace[m]]

\* a job step of m: only m's job changes
JobStep(m, j) ==
    /\ job' = [job EXCEPT ![m] = j]
    /\ UNCHANGED <<remote, overrides, edits>>

\* the job ends with an error; the next reconcile starts over
JobFails(m) ==
    Faults /\ JobStep(m, IdleJob(m)) /\ UNCHANGED <<cache, file>>

\* GetInstallInfos reaching getDestinationConfigAndClient: a local
\* Manifest gets the host ClusterInfo; a remote one needs the label, takes
\* the ClusterInfo of the processor cached for the owner, and else reads
\* the kubeconfig secret.  The job also reads the Manifest's overrides.
GetDestinationConfigAndClient(m) ==
    /\ job[m].pc = "idle"
    /\ LET Prepared(c) ==
             JobStep(m, [IdleJob(m) EXCEPT !.pc = "prepared", !.info = c])
             /\ UNCHANGED <<cache, file>>
       IN \/ ~remote[m] /\ Prepared(Host)
          \/ /\ remote[m] /\ Label[m] = NoLabel
             /\ JobStep(m, IdleJob(m)) /\ UNCHANGED <<cache, file>>
          \/ /\ remote[m] /\ Label[m] # NoLabel
             /\ \/ cache[KymaNsName(m)] # NoCluster /\ Prepared(cache[KymaNsName(m)])
                \/ cache[KymaNsName(m)] = NoCluster /\ Prepared(SecretCluster(m))
                \/ JobFails(m)

\* mutant: a cache key of the label alone, shared across namespaces
DiscoverCacheKeyByLabel(m) ==
    [name |-> Label[m], namespace |-> CHOOSE n \in {Namespace[x] : x \in Manifests} : TRUE]

\* discoverCacheKey: the cache-key label and the Manifest's namespace
DiscoverCacheKey(m) == [name |-> Label[m], namespace |-> Namespace[m]]

\* the first half of newOperations: with a cache-key label, cache.Get;
\* a hit is used as it is, a miss leads to creating a renderer
LookupRenderer(m) ==
    /\ job[m].pc = "prepared"
    /\ LET key == DiscoverCacheKey(m)
           hit == Label[m] # NoLabel /\ cache[key] # NoCluster
       IN JobStep(m, IF hit
                     THEN [job[m] EXCEPT !.pc = "rendering", !.renderer = cache[key]]
                     ELSE [job[m] EXCEPT !.pc = "creating"])
    /\ UNCHANGED <<cache, file>>

\* the second half of newOperations: getMemCacheClient and
\* getManifestProcessor build a renderer on the job's cluster config,
\* cache.Set stores it when the Manifest has a cache-key label (the last
\* of two racing creators wins)
CreateRenderer(m) ==
    /\ job[m].pc = "creating"
    /\ \/ /\ JobStep(m, [job[m] EXCEPT !.pc = "rendering", !.renderer = job[m].info])
          /\ cache' = IF Label[m] # NoLabel
                      THEN [cache EXCEPT ![DiscoverCacheKey(m)] = job[m].info]
                      ELSE cache
          /\ UNCHANGED file
       \/ JobFails(m)

\* getManifestForChartPath, steps 1 to 3: the pre-rendered manifest under
\* the chart path; else the cached rendered file (GetCachedResources: an
\* empty file counts as absent, a file being written or torn yields what
\* has been written, which may be nothing); else GetRawManifest renders the job's overrides, and
\* a job with a chart path goes on to write the result (step 4)
GetManifestForChartPath(m) ==
    /\ job[m].pc = "rendering"
    /\ LET p == ChartPath[m]
           Use(r) == JobStep(m, [job[m] EXCEPT !.pc = "applying", !.manifest = r])
           Render == IF p = NoPath
                     THEN Use(job[m].values)
                     ELSE JobStep(m, [job[m] EXCEPT !.pc = "writing",
                                                    !.manifest = job[m].values])
       IN \/ p \in PreRendered /\ Use("preRendered")
          \/ /\ p \in Paths \ PreRendered
             /\ \/ file[p].state = "written" /\ Use(file[p].content)
                \/ file[p].state \in {"writing", "torn"} /\ (Use("partial") \/ Render)
                \/ file[p].state = "absent" /\ Render
          \/ p = NoPath /\ Render
          \/ JobFails(m)
    /\ UNCHANGED <<cache, file>>

\* step 4, util.WriteToFile under the chart path.  os.WriteFile opens the
\* file with O_TRUNC, which a permission error (tolerated) stops before
\* anything changes; other errors fail the job.  Then it writes the
\* rendering, which readers see growing (FinishWriteToFile).
WriteToFile(m) ==
    /\ job[m].pc = "writing"
    /\ LET p == ChartPath[m]
       IN \/ /\ file' = [file EXCEPT ![p] = [state |-> "writing", content |-> job[m].manifest]]
             /\ JobStep(m, [job[m] EXCEPT !.pc = "flushing"])
          \/ JobStep(m, [job[m] EXCEPT !.pc = "applying"]) /\ UNCHANGED file
          \/ JobFails(m)
    /\ UNCHANGED cache

\* the write returns: complete, or failed midway (a full disk, a lost
\* mount), leaving a torn file and failing the job
FinishWriteToFile(m) ==
    /\ job[m].pc = "flushing"
    /\ LET p == ChartPath[m]
       IN \/ /\ file' = [file EXCEPT ![p].state = "written"]
             /\ JobStep(m, [job[m] EXCEPT !.pc = "applying"])
          \/ /\ Faults
             /\ file' = [file EXCEPT ![p].state = "torn"]
             /\ JobStep(m, IdleJob(m))
    /\ UNCHANGED cache

\* install: the chart's resources go through the renderer, the CRDs and
\* custom resources through the job's ClusterInfo; the job is done
Apply(m) ==
    /\ job[m].pc = "applying"
    /\ JobStep(m, IdleJob(m))
    /\ UNCHANGED <<cache, file>>

\* the user changes a Manifest's overrides
UserUpdateOverrides(m) ==
    /\ edits < MaxEdits
    /\ \E v \in Values \ {overrides[m]} : overrides' = [overrides EXCEPT ![m] = v]
    /\ edits' = edits + 1
    /\ UNCHANGED <<remote, cache, file, job>>

Init ==
    /\ remote \in [Manifests -> BOOLEAN]
    /\ \A m1, m2 \in Manifests : KymaNsName(m1) = KymaNsName(m2) => remote[m1] = remote[m2]
    /\ overrides \in [Manifests -> Values]
    /\ edits = 0
    /\ cache = [k \in Keys |-> NoCluster]
    /\ file = [p \in Paths |-> [state |-> "absent", content |-> CHOOSE v \in Values : TRUE]]
    /\ job = [m \in Manifests |-> IdleJob(m)]

Next ==
    \/ \E m \in Manifests :
          \/ GetDestinationConfigAndClient(m) \/ LookupRenderer(m) \/ CreateRenderer(m)
          \/ GetManifestForChartPath(m) \/ WriteToFile(m) \/ FinishWriteToFile(m)
          \/ Apply(m)
          \/ UserUpdateOverrides(m)

Spec == Init /\ [][Next]_vars

-----------------------------------------------------------------------------
\* A job sends the chart's resources to the cluster its CRDs and custom
\* resources go to: the renderer newOperations hands it, cached or fresh,
\* was built on the cluster config the preparation resolved for the job.
\* (Spec 4.6 lets racing creators overwrite each other because renderers of
\* one owner are equivalent; this is what makes them so.)
RendererTargetsJobCluster ==
    \A m \in Manifests :
        job[m].renderer # NoCluster => job[m].renderer = job[m].info

\* A job applies the rendering of the overrides it was prepared with (the
\* chart flags of its own Manifest, spec 4.2 step 6), whenever it applies a
\* rendering of overrides at all.
AppliesOwnOverrides ==
    \A m \in Manifests :
        job[m].pc = "applying" /\ job[m].manifest \in Values
            => job[m].manifest = job[m].values

=============================================================================
