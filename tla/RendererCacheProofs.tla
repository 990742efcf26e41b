----------------------- MODULE RendererCacheProofs -------------------------
(***************************************************************************)
(* Proof, for every value of the constants, that without owners switching *)
(* between remote and local installation every job's renderer targets the *)
(* cluster its preparation resolved (RendererTargetsJobCluster).           *)
(*                                                                         *)
(* The property alone is not inductive: a cache hit hands the job whatever *)
(* renderer another Manifest stored.  The strengthening says what the      *)
(* cache holds: the renderer stored under an owner's key was built on the  *)
(* owner's cluster (the host for a local owner, the owner's kubeconfig     *)
(* secret for a remote one), and every Manifest of an owner agrees on      *)
(* spec.remote; and what a job in flight holds: the owner's cluster as its *)
(* ClusterInfo, and no renderer or that one.                               *)
(***************************************************************************)
EXTENDS RendererCache, TLAPS

\* the cluster the renderers of m's owner reach
OwnerCluster(m) == IF remote[m] THEN SecretCluster(m) ELSE Host

\* all Manifests of an owner are remote, or none is
OwnersAgree ==
    \A m1, m2 \in Manifests :
        KymaNsName(m1) = KymaNsName(m2) => remote[m1] = remote[m2]

\* a renderer cached under m's key was built on the cluster of m's owner
CacheHoldsOwnerCluster ==
    \A m \in Manifests :
        Label[m] # NoLabel =>
            cache[DiscoverCacheKey(m)] \in {NoCluster, OwnerCluster(m)}

\* a job in flight targets its owner's cluster, through its renderer too
JobTargetsOwner(m) ==
    /\ job[m].pc = "idle" => job[m].renderer = NoCluster
    /\ job[m].pc # "idle" => job[m].info = OwnerCluster(m)
    /\ job[m].renderer \in {NoCluster, job[m].info}

\* a job writing the rendered manifest holds a rendering of overrides and
\* has a chart path
WritingJobs ==
    \A m \in Manifests :
        job[m].pc \in {"writing", "flushing"} =>
            job[m].manifest \in Values /\ ChartPath[m] \in Paths

IInv ==
    /\ TypeOK
    /\ WritingJobs
    /\ OwnersAgree
    /\ CacheHoldsOwnerCluster
    /\ \A m \in Manifests : JobTargetsOwner(m)

-----------------------------------------------------------------------------
(* Lemmas about the keys, clusters and records the actions build.          *)

\* The key a Manifest's renderer is cached under is a cache key, and
\* the key the cluster resolution reads is the same.
LEMMA KeyOfManifest ==
    ASSUME NEW m \in Manifests
    PROVE  /\ DiscoverCacheKey(m) \in Keys
           /\ KymaNsName(m) = DiscoverCacheKey(m)
           /\ SecretCluster(m) = DiscoverCacheKey(m)
  BY DEF DiscoverCacheKey, KymaNsName, SecretCluster, Keys

\* Manifests with one cache key have one owner cluster.
LEMMA OwnerClusterOfKey ==
    ASSUME OwnersAgree, NEW m1 \in Manifests, NEW m2 \in Manifests,
           DiscoverCacheKey(m1) = DiscoverCacheKey(m2)
    PROVE  OwnerCluster(m1) = OwnerCluster(m2)
  BY KeyOfManifest DEF OwnersAgree, OwnerCluster

\* A Manifest's owner cluster is a cluster.
LEMMA OwnerClusterType ==
    ASSUME TypeOK, NEW m \in Manifests
    PROVE  OwnerCluster(m) \in Clusters
  BY KeyOfManifest DEF OwnerCluster, Clusters, TypeOK

\* The job a Manifest starts over with is well formed.
LEMMA IdleJobType ==
    ASSUME TypeOK, NEW m \in Manifests
    PROVE  IdleJob(m) \in JobRecords
  BY DEF IdleJob, JobRecords, JobSteps, TypeOK

\* A step of m's job keeps every other job, and leaves a well-formed
\* job table when m's new job is well formed.
LEMMA JobStepFacts ==
    ASSUME TypeOK, NEW m \in Manifests, NEW j \in JobRecords, JobStep(m, j)
    PROVE  /\ job' \in [Manifests -> JobRecords]
           /\ job'[m] = j
           /\ \A x \in Manifests \ {m} : job'[x] = job[x]
           /\ remote' = remote /\ overrides' = overrides /\ edits' = edits
  BY DEF JobStep, TypeOK
\* what JobTargetsOwner asks of a job of m
TargetsOwner(m, j) ==
    /\ j.pc \in {"writing", "flushing"} => j.manifest \in Values /\ ChartPath[m] \in Paths
    /\ j.pc = "idle" => j.renderer = NoCluster
    /\ j.pc # "idle" => j.info = OwnerCluster(m)
    /\ j.renderer \in {NoCluster, j.info}

\* A step of m's job that leaves the renderer cache alone keeps the
\* invariant when m's new job targets m's owner.
LEMMA JobOnlyStep ==
    ASSUME IInv, NEW m \in Manifests, NEW j \in JobRecords, TargetsOwner(m, j),
           JobStep(m, j), cache' = cache, file' \in [Paths -> FileStates]
    PROVE  IInv'
<1>1. /\ job' \in [Manifests -> JobRecords]
      /\ job'[m] = j
      /\ \A x \in Manifests \ {m} : job'[x] = job[x]
      /\ remote' = remote /\ overrides' = overrides /\ edits' = edits
  BY JobStepFacts DEF IInv
<1>2. TypeOK'
  BY <1>1 DEF IInv, TypeOK
<1>3. WritingJobs'
  BY <1>1 DEF IInv, WritingJobs, TargetsOwner
<1>4. OwnersAgree'
  BY <1>1 DEF IInv, OwnersAgree, KymaNsName
<1>5. CacheHoldsOwnerCluster'
  BY <1>1 DEF IInv, CacheHoldsOwnerCluster, OwnerCluster, DiscoverCacheKey, SecretCluster
<1>6. ASSUME NEW x \in Manifests PROVE JobTargetsOwner(x)'
  <2>1. OwnerCluster(x)' = OwnerCluster(x)
    BY <1>1 DEF OwnerCluster, SecretCluster
  <2>2. CASE x = m
    BY <1>1, <2>1, <2>2 DEF TargetsOwner, JobTargetsOwner
  <2>3. CASE x # m
    BY <1>1, <2>1, <2>3 DEF IInv, JobTargetsOwner
  <2>. QED  BY <2>2, <2>3
<1>. QED  BY <1>2, <1>4, <1>5, <1>6, <1>3 DEF IInv

\* The job a Manifest starts over with targets its owner.
LEMMA IdleJobTargetsOwner ==
    ASSUME TypeOK, NEW m \in Manifests
    PROVE  TargetsOwner(m, IdleJob(m))
  BY DEF TargetsOwner, IdleJob

\* A failed job keeps the invariant.
LEMMA JobFailsStep ==
    ASSUME IInv, NEW m \in Manifests, JobFails(m)
    PROVE  IInv'
  BY IdleJobType, IdleJobTargetsOwner, JobOnlyStep DEF JobFails, IInv, TypeOK

-----------------------------------------------------------------------------
(* One lemma per job step: each keeps the invariant.                       *)

\* The cluster resolution gives the job its owner's cluster: the host,
\* the cached renderer's cluster (which is the owner's) or the owner's
\* kubeconfig secret.
LEMMA GetDestinationStep ==
    ASSUME IInv, NEW m \in Manifests, GetDestinationConfigAndClient(m)
    PROVE  IInv'
<1>. USE DEF IInv
<1>1. ASSUME NEW c \in Clusters, c = OwnerCluster(m),
             JobStep(m, [IdleJob(m) EXCEPT !.pc = "prepared", !.info = c]),
             UNCHANGED <<cache, file>>
      PROVE  IInv'
  <2>. DEFINE j == [IdleJob(m) EXCEPT !.pc = "prepared", !.info = c]
  <2>1. j \in JobRecords
    BY IdleJobType DEF JobRecords, IdleJob, JobSteps
  <2>2. TargetsOwner(m, j)
    BY <1>1 DEF TargetsOwner, IdleJob
  <2>. QED  BY <1>1, <2>1, <2>2, JobOnlyStep DEF TypeOK
<1>2. CASE ~remote[m] /\ JobStep(m, [IdleJob(m) EXCEPT !.pc = "prepared", !.info = Host])
                    /\ UNCHANGED <<cache, file>>
  BY <1>2, <1>1 DEF OwnerCluster, Clusters
<1>3. CASE remote[m] /\ Label[m] = NoLabel /\ JobStep(m, IdleJob(m)) /\ UNCHANGED <<cache, file>>
  BY <1>3, IdleJobType, IdleJobTargetsOwner, JobOnlyStep DEF TypeOK
<1>4. CASE /\ remote[m] /\ Label[m] # NoLabel /\ cache[KymaNsName(m)] # NoCluster
           /\ JobStep(m, [IdleJob(m) EXCEPT !.pc = "prepared", !.info = cache[KymaNsName(m)]])
           /\ UNCHANGED <<cache, file>>
  <2>1. cache[KymaNsName(m)] = OwnerCluster(m)
    BY <1>4, KeyOfManifest DEF CacheHoldsOwnerCluster
  <2>. QED  BY <1>4, <2>1, <1>1, OwnerClusterType
<1>5. CASE /\ remote[m] /\ Label[m] # NoLabel /\ cache[KymaNsName(m)] = NoCluster
           /\ JobStep(m, [IdleJob(m) EXCEPT !.pc = "prepared", !.info = SecretCluster(m)])
           /\ UNCHANGED <<cache, file>>
  BY <1>5, <1>1, OwnerClusterType DEF OwnerCluster
<1>6. CASE JobFails(m)
  BY <1>6, JobFailsStep
<1>. QED  BY <1>2, <1>3, <1>4, <1>5, <1>6 DEF GetDestinationConfigAndClient

\* A step of m's job that keeps its cluster and renderer and moves it on
\* to another step in flight, possibly with a rendered manifest, keeps
\* the invariant.
LEMMA KeepTargetStep ==
    ASSUME IInv, NEW m \in Manifests, job[m].pc # "idle",
           NEW pc \in JobSteps \ {"idle"}, NEW r \in Renderings \cup {"none"},
           pc \in {"writing", "flushing"} => r \in Values /\ ChartPath[m] \in Paths,
           JobStep(m, [job[m] EXCEPT !.pc = pc, !.manifest = r]),
           cache' = cache, file' \in [Paths -> FileStates]
    PROVE  IInv'
<1>. DEFINE j == [job[m] EXCEPT !.pc = pc, !.manifest = r]
<1>1. j \in JobRecords
  BY DEF IInv, TypeOK, JobRecords
<1>2. TargetsOwner(m, j)
  BY DEF IInv, JobTargetsOwner, TargetsOwner, TypeOK, JobRecords
<1>. QED  BY <1>1, <1>2, JobOnlyStep

\* On a hit the job takes the cached renderer, which was built on its
\* owner's cluster; on a miss it goes on to create one.
LEMMA LookupRendererStep ==
    ASSUME IInv, NEW m \in Manifests, LookupRenderer(m)
    PROVE  IInv'
<1>. USE DEF IInv
<1>. DEFINE key == DiscoverCacheKey(m)
            hit == Label[m] # NoLabel /\ cache[key] # NoCluster
<1>1. job[m].pc = "prepared" /\ UNCHANGED <<cache, file>>
  BY DEF LookupRenderer
<1>2. CASE hit
  <2>. DEFINE j == [job[m] EXCEPT !.pc = "rendering", !.renderer = cache[key]]
  <2>1. cache[key] = OwnerCluster(m)
    BY <1>2, KeyOfManifest DEF CacheHoldsOwnerCluster
  <2>2. job[m].info = OwnerCluster(m)
    BY <1>1 DEF JobTargetsOwner
  <2>3. j \in JobRecords
    <3>1. cache[key] \in Clusters \cup {NoCluster}
      BY KeyOfManifest DEF TypeOK
    <3>. QED  BY <3>1 DEF TypeOK, JobRecords, JobSteps
  <2>4. TargetsOwner(m, j)
    BY <1>1, <2>1, <2>2 DEF TargetsOwner, TypeOK, JobRecords
  <2>5. JobStep(m, j)
    BY <1>2 DEF LookupRenderer
  <2>. QED  BY <1>1, <2>3, <2>4, <2>5, JobOnlyStep DEF TypeOK
<1>3. CASE ~hit
  <2>1. [job[m] EXCEPT !.pc = "creating"]
          = [job[m] EXCEPT !.pc = "creating", !.manifest = job[m].manifest]
    BY DEF TypeOK, JobRecords
  <2>2. JobStep(m, [job[m] EXCEPT !.pc = "creating", !.manifest = job[m].manifest])
    BY <1>3, <2>1 DEF LookupRenderer
  <2>. QED  BY <1>1, <2>2, KeepTargetStep DEF TypeOK, JobRecords, JobSteps
<1>. QED  BY <1>2, <1>3

\* The created renderer is built on the job's cluster, its owner's, and
\* is stored under the owner's key, where every Manifest of the owner
\* expects the owner's cluster.
LEMMA CreateRendererStep ==
    ASSUME IInv, NEW m \in Manifests, CreateRenderer(m)
    PROVE  IInv'
<1>. USE DEF IInv
<1>1. CASE JobFails(m)
  BY <1>1, JobFailsStep
<1>2. CASE /\ JobStep(m, [job[m] EXCEPT !.pc = "rendering", !.renderer = job[m].info])
           /\ cache' = IF Label[m] # NoLabel
                       THEN [cache EXCEPT ![DiscoverCacheKey(m)] = job[m].info]
                       ELSE cache
           /\ UNCHANGED file
           /\ job[m].pc = "creating"
  <2>. DEFINE j == [job[m] EXCEPT !.pc = "rendering", !.renderer = job[m].info]
  <2>1. job[m].info = OwnerCluster(m)
    BY <1>2 DEF JobTargetsOwner
  <2>2. j \in JobRecords
    BY DEF TypeOK, JobRecords, JobSteps
  <2>3. TargetsOwner(m, j)
    BY <1>2, <2>1 DEF TargetsOwner, TypeOK, JobRecords
  <2>4. /\ job' \in [Manifests -> JobRecords]
        /\ job'[m] = j
        /\ \A x \in Manifests \ {m} : job'[x] = job[x]
        /\ remote' = remote /\ overrides' = overrides /\ edits' = edits
    BY <1>2, <2>2, JobStepFacts
  <2>5. cache' \in [Keys -> Clusters \cup {NoCluster}]
    BY <1>2, <2>1, KeyOfManifest, OwnerClusterType DEF TypeOK
  <2>6. TypeOK'
    BY <1>2, <2>4, <2>5 DEF TypeOK
  <2>7. WritingJobs'
    BY <2>3, <2>4 DEF WritingJobs, TargetsOwner
  <2>8. OwnersAgree'
    BY <2>4 DEF OwnersAgree, KymaNsName
  <2>9. CacheHoldsOwnerCluster'
    <3> SUFFICES ASSUME NEW x \in Manifests, Label[x] # NoLabel
                 PROVE  cache'[DiscoverCacheKey(x)] \in {NoCluster, OwnerCluster(x)'}
      BY DEF CacheHoldsOwnerCluster
    <3>1. OwnerCluster(x)' = OwnerCluster(x)
      BY <2>4 DEF OwnerCluster, SecretCluster
    <3>2. CASE Label[m] # NoLabel /\ DiscoverCacheKey(x) = DiscoverCacheKey(m)
      <4>1. cache'[DiscoverCacheKey(x)] = job[m].info
        BY <1>2, <3>2, KeyOfManifest DEF TypeOK
      <4>2. OwnerCluster(x) = OwnerCluster(m)
        BY <3>2, OwnerClusterOfKey
      <4>. QED  BY <2>1, <3>1, <4>1, <4>2
    <3>3. CASE ~(Label[m] # NoLabel /\ DiscoverCacheKey(x) = DiscoverCacheKey(m))
      <4>1. cache'[DiscoverCacheKey(x)] = cache[DiscoverCacheKey(x)]
        BY <1>2, <3>3, KeyOfManifest DEF TypeOK
      <4>. QED  BY <3>1, <4>1 DEF CacheHoldsOwnerCluster
    <3>. QED  BY <3>2, <3>3
  <2>10. ASSUME NEW x \in Manifests PROVE JobTargetsOwner(x)'
    <3>1. OwnerCluster(x)' = OwnerCluster(x)
      BY <2>4 DEF OwnerCluster, SecretCluster
    <3>2. CASE x = m
      BY <2>3, <2>4, <3>1, <3>2 DEF TargetsOwner, JobTargetsOwner
    <3>3. CASE x # m
      BY <2>4, <3>1, <3>3 DEF JobTargetsOwner
    <3>. QED  BY <3>2, <3>3
  <2>. QED  BY <2>6, <2>7, <2>8, <2>9, <2>10
<1>. QED  BY <1>1, <1>2 DEF CreateRenderer

\* Reading the pre-rendered or cached manifest, or rendering, leaves the
\* job's cluster and renderer alone.
LEMMA GetManifestStep ==
    ASSUME IInv, NEW m \in Manifests, GetManifestForChartPath(m)
    PROVE  IInv'
<1>. USE DEF IInv
<1>. DEFINE p == ChartPath[m]
<1>1. job[m].pc = "rendering" /\ UNCHANGED <<cache, file>>
  BY DEF GetManifestForChartPath
<1>2. ASSUME NEW r \in Renderings \cup {"none"},
             JobStep(m, [job[m] EXCEPT !.pc = "applying", !.manifest = r])
      PROVE  IInv'
  BY <1>1, <1>2, KeepTargetStep DEF TypeOK, JobSteps
<1>3. ASSUME p # NoPath,
             JobStep(m, [job[m] EXCEPT !.pc = "writing", !.manifest = job[m].values])
      PROVE  IInv'
  <2>1. job[m].values \in Values /\ p \in Paths
    BY <1>3 DEF TypeOK, JobRecords, Paths
  <2>. QED  BY <1>1, <1>3, <2>1, KeepTargetStep DEF TypeOK, JobSteps, Renderings
<1>4. job[m].values \in Renderings
  BY DEF TypeOK, JobRecords, Renderings
<1>5. ASSUME NEW q \in Paths PROVE file[q].content \in Renderings
  BY DEF TypeOK, FileStates, Renderings
<1>6. "preRendered" \in Renderings /\ "partial" \in Renderings
  BY DEF Renderings
<1>. QED  BY <1>2, <1>3, <1>4, <1>5, <1>6, JobFailsStep DEF GetManifestForChartPath

\* Starting the write records the job's rendering in the file, which the
\* type of the file table admits.
LEMMA WriteToFileStep ==
    ASSUME IInv, NEW m \in Manifests, WriteToFile(m)
    PROVE  IInv'
<1>. USE DEF IInv
<1>. DEFINE p == ChartPath[m]
<1>1. job[m].pc = "writing" /\ UNCHANGED cache
  BY DEF WriteToFile
<1>2. job[m].manifest \in Values /\ p \in Paths
  BY <1>1 DEF WritingJobs
<1>3. CASE /\ file' = [file EXCEPT ![p] = [state |-> "writing", content |-> job[m].manifest]]
           /\ JobStep(m, [job[m] EXCEPT !.pc = "flushing"])
  <2>1. file' \in [Paths -> FileStates]
    BY <1>2, <1>3 DEF TypeOK, FileStates
  <2>2. [job[m] EXCEPT !.pc = "flushing"]
          = [job[m] EXCEPT !.pc = "flushing", !.manifest = job[m].manifest]
    BY DEF TypeOK, JobRecords
  <2>. QED  BY <1>1, <1>2, <1>3, <2>1, <2>2, KeepTargetStep DEF TypeOK, JobSteps, Renderings
<1>4. CASE JobStep(m, [job[m] EXCEPT !.pc = "applying"]) /\ UNCHANGED file
  <2>1. [job[m] EXCEPT !.pc = "applying"]
          = [job[m] EXCEPT !.pc = "applying", !.manifest = job[m].manifest]
    BY DEF TypeOK, JobRecords
  <2>. QED  BY <1>1, <1>4, <2>1, KeepTargetStep DEF TypeOK, JobRecords, JobSteps
<1>5. CASE JobFails(m)
  BY <1>5, JobFailsStep
<1>. QED  BY <1>3, <1>4, <1>5 DEF WriteToFile

\* The write completing or tearing changes only the file's state.
LEMMA FinishWriteStep ==
    ASSUME IInv, NEW m \in Manifests, FinishWriteToFile(m)
    PROVE  IInv'
<1>. USE DEF IInv
<1>. DEFINE p == ChartPath[m]
<1>1. job[m].pc = "flushing" /\ UNCHANGED cache
  BY DEF FinishWriteToFile
<1>2. p \in Paths
  BY <1>1 DEF WritingJobs
<1>3. CASE /\ file' = [file EXCEPT ![p].state = "written"]
           /\ JobStep(m, [job[m] EXCEPT !.pc = "applying"])
  <2>1. file' \in [Paths -> FileStates]
    BY <1>2, <1>3 DEF TypeOK, FileStates
  <2>2. [job[m] EXCEPT !.pc = "applying"]
          = [job[m] EXCEPT !.pc = "applying", !.manifest = job[m].manifest]
    BY DEF TypeOK, JobRecords
  <2>. QED  BY <1>1, <1>3, <2>1, <2>2, KeepTargetStep DEF TypeOK, JobRecords, JobSteps
<1>4. CASE /\ file' = [file EXCEPT ![p].state = "torn"]
           /\ JobStep(m, IdleJob(m))
  <2>1. file' \in [Paths -> FileStates]
    BY <1>2, <1>4 DEF TypeOK, FileStates
  <2>. QED  BY <1>1, <1>4, <2>1, IdleJobType, IdleJobTargetsOwner, JobOnlyStep
<1>. QED  BY <1>3, <1>4 DEF FinishWriteToFile

\* The applied job starts over.
LEMMA ApplyStep ==
    ASSUME IInv, NEW m \in Manifests, Apply(m)
    PROVE  IInv'
<1>1. JobStep(m, IdleJob(m)) /\ cache' = cache /\ file' \in [Paths -> FileStates]
  BY DEF Apply, IInv, TypeOK
<1>2. IdleJob(m) \in JobRecords /\ TargetsOwner(m, IdleJob(m))
  BY IdleJobType, IdleJobTargetsOwner DEF IInv
<1>. QED  BY <1>1, <1>2, JobOnlyStep

\* The user's edit of the overrides changes no job, cache entry or file.
LEMMA UserUpdateStep ==
    ASSUME IInv, NEW m \in Manifests, UserUpdateOverrides(m)
    PROVE  IInv'
<1>. USE DEF IInv
<1>1. overrides' \in [Manifests -> Values] /\ edits' \in 0..MaxEdits
  <2>1. PICK v \in Values \ {overrides[m]} : overrides' = [overrides EXCEPT ![m] = v]
    BY DEF UserUpdateOverrides
  <2>2. edits < MaxEdits /\ edits' = edits + 1
    BY DEF UserUpdateOverrides
  <2>3. overrides' \in [Manifests -> Values]
    BY <2>1 DEF TypeOK
  <2>4. edits' \in 0..MaxEdits
    BY <2>2, RendererCacheAssumption DEF TypeOK
  <2>. QED  BY <2>3, <2>4
<1>2. UNCHANGED <<remote, cache, file, job>>
  BY DEF UserUpdateOverrides
<1>3. TypeOK'
  BY <1>1, <1>2 DEF TypeOK
<1>4. WritingJobs' /\ OwnersAgree'
  BY <1>2 DEF WritingJobs, OwnersAgree, KymaNsName
<1>5. CacheHoldsOwnerCluster' /\ \A x \in Manifests : JobTargetsOwner(x)'
  BY <1>2 DEF CacheHoldsOwnerCluster, JobTargetsOwner, OwnerCluster, DiscoverCacheKey,
              SecretCluster
<1>. QED  BY <1>3, <1>4, <1>5

-----------------------------------------------------------------------------
\* The initial states satisfy the invariant: no job is in flight and the
\* cache is empty.
LEMMA InitIInv == Init => IInv
<1> SUFFICES ASSUME Init PROVE IInv
  OBVIOUS
<1>1. \A m \in Manifests : IdleJob(m) \in JobRecords /\ TargetsOwner(m, IdleJob(m))
  <2>1. overrides \in [Manifests -> Values]
    BY DEF Init
  <2>. QED  BY <2>1 DEF IdleJob, JobRecords, JobSteps, TargetsOwner
<1>2. (CHOOSE v \in Values : TRUE) \in Values
  BY RendererCacheAssumption
<1>3. TypeOK
  <2>1. edits \in 0..MaxEdits
    BY RendererCacheAssumption DEF Init
  <2>2. file \in [Paths -> FileStates]
    BY <1>2 DEF Init, FileStates
  <2>3. job \in [Manifests -> JobRecords]
    BY <1>1 DEF Init
  <2>4. cache \in [Keys -> Clusters \cup {NoCluster}]
    BY DEF Init
  <2>. QED  BY <2>1, <2>2, <2>3, <2>4 DEF Init, TypeOK
<1>4. WritingJobs /\ OwnersAgree /\ CacheHoldsOwnerCluster
  BY KeyOfManifest DEF Init, IdleJob, WritingJobs, OwnersAgree, CacheHoldsOwnerCluster
<1>5. \A m \in Manifests : JobTargetsOwner(m)
  BY <1>1 DEF Init, IdleJob, JobTargetsOwner, TargetsOwner
<1>. QED  BY <1>3, <1>4, <1>5 DEF IInv

\* Every step of Next, and a stuttering step, keeps the invariant.
LEMMA NextIInv == IInv /\ [Next]_vars => IInv'
<1> SUFFICES ASSUME IInv, [Next]_vars PROVE IInv'
  OBVIOUS
<1>1. ASSUME NEW m \in Manifests,
             \/ GetDestinationConfigAndClient(m) \/ LookupRenderer(m)
             \/ CreateRenderer(m) \/ GetManifestForChartPath(m)
             \/ WriteToFile(m) \/ FinishWriteToFile(m) \/ Apply(m)
             \/ UserUpdateOverrides(m)
      PROVE  IInv'
  BY <1>1, GetDestinationStep, LookupRendererStep, CreateRendererStep, GetManifestStep,
     WriteToFileStep, FinishWriteStep, ApplyStep, UserUpdateStep
<1>2. CASE UNCHANGED vars
  BY <1>2 DEF vars, IInv, TypeOK, WritingJobs, OwnersAgree, CacheHoldsOwnerCluster,
              JobTargetsOwner, OwnerCluster, KymaNsName, DiscoverCacheKey, SecretCluster
<1>. QED  BY <1>1, <1>2 DEF Next

\* Without owners switching between remote and local installation, a job
\* never sends the chart's resources through a renderer built for another
\* cluster than the one its CRDs and custom resources go to: the renderer
\* newOperations takes from the cache under the owner's key
\* (operations.go) was built on the cluster getDestinationConfigAndClient
\* (deploy.go) resolves for every Manifest of that owner.
THEOREM RendererTargetsJobClusterHolds == Spec => []RendererTargetsJobCluster
<1>1. IInv => RendererTargetsJobCluster
  BY DEF IInv, JobTargetsOwner, RendererTargetsJobCluster
<1>. QED  BY <1>1, InitIInv, NextIInv, PTL DEF Spec
=============================================================================
