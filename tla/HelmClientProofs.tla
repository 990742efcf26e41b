-------------------------- MODULE HelmClientProofs --------------------------
(***************************************************************************)
(* Proofs about HelmClient.  ReadyCheckMatchesReference holds for every    *)
(* number of workers: checkReady's visit, which ends at the first failed   *)
(* IsReady, reports what the reference readiness of all resources says.   *)
(* ResourcesInTargetNamespace holds for every                              *)
(* set of installs and namespaces and every number of jobs when one worker *)
(* uses the cached renderer's client: between HandleNamespace and          *)
(* GetTargetResources nobody else can move h.kubeClient.Namespace.  With   *)
(* two workers it fails (run shared_helm_namespace).                       *)
(***************************************************************************)
EXTENDS HelmClient, WellFoundedInduction, TLAPS

\* The fields of a job record.
JobFields ==
    {"pc", "install", "mode", "ns", "createNs", "transforms", "resNs",
     "outcomes", "ready", "err"}

\* The typing the proof needs: every worker's job is a record of the job
\* fields with a step, a namespace and the resource namespace it built.
\* (The values checkReady stores play no part in the namespaces.)
JobShape ==
    /\ DOMAIN workers = Workers
    /\ \A w \in Workers :
          /\ DOMAIN workers[w] = JobFields
          /\ workers[w].pc \in Steps
          /\ workers[w].ns \in Namespaces
          /\ workers[w].resNs \in Namespaces
          /\ workers[w].transforms \in BOOLEAN

\* A job that passed HandleNamespace builds into its own namespace: either
\* its transforms set it, or the shared client still points at it.
BuildTargetsOwnNs ==
    \A w \in Workers :
        workers[w].pc = "build" => workers[w].transforms \/ clientNs = workers[w].ns

\* A job that built its resources holds them in its target namespace.
BuiltInOwnNs ==
    \A w \in Workers : workers[w].pc = "apply" => workers[w].resNs = workers[w].ns

\* The inductive invariant ResourcesInTargetNamespace rests on.
NsInv ==
    /\ JobShape
    /\ BuildTargetsOwnNs
    /\ BuiltInOwnNs
    /\ ResourcesInTargetNamespace


-----------------------------------------------------------------------------
(* Steps of a single worker w0.                                            *)

\* A step of w0 keeps the invariant when its new job has the shape and
\* satisfies the two worker conjuncts and every placed resource is in its
\* target namespace.
LEMMA JobUpdate ==
    ASSUME NEW w0, Workers = {w0},
           DOMAIN workers' = Workers, DOMAIN workers'[w0] = JobFields,
           workers'[w0].pc \in Steps, workers'[w0].ns \in Namespaces,
           workers'[w0].resNs \in Namespaces, workers'[w0].transforms \in BOOLEAN,
           workers'[w0].pc = "build" => workers'[w0].transforms \/ clientNs' = workers'[w0].ns,
           workers'[w0].pc = "apply" => workers'[w0].resNs = workers'[w0].ns,
           \A r \in placed' : r.ns = r.target
    PROVE  NsInv'
  BY DEF NsInv, JobShape, BuildTargetsOwnNs, BuiltInOwnNs, ResourcesInTargetNamespace

LEMMA InitNsInv ==
    ASSUME HelmClientAssumption
    PROVE  Init => NsInv
<1> SUFFICES ASSUME Init PROVE NsInv
  OBVIOUS
<1>1. \A w \in Workers : /\ DOMAIN workers[w] = JobFields /\ workers[w].pc = "idle"
                         /\ workers[w].ns = Default /\ workers[w].resNs = Default
                         /\ workers[w].transforms = FALSE
  BY Zenon DEF Init, IdleJob, JobFields
<1>. QED  BY <1>1 DEF Init, NsInv, JobShape, BuildTargetsOwnNs, BuiltInOwnNs,
                      ResourcesInTargetNamespace, Steps

LEMMA NextNsInv ==
    ASSUME HelmClientAssumption, NEW w0, Workers = {w0}
    PROVE  NsInv /\ [Next]_vars => NsInv'
<1> SUFFICES ASSUME NsInv, [Next]_vars PROVE NsInv'
  OBVIOUS
<1>. DEFINE job == workers[w0]
            new == workers'[w0]
<1>0. /\ DOMAIN workers = Workers
      /\ DOMAIN job = JobFields /\ job.pc \in Steps /\ job.ns \in Namespaces
      /\ job.resNs \in Namespaces /\ job.transforms \in BOOLEAN
  BY DEF NsInv, JobShape
<1>1. CASE NewInstallActionClient(w0)
  <2>1. PICK i \in Installs, m \in {"create", "delete"}, n \in Namespaces,
             c \in BOOLEAN, t \in BOOLEAN :
          workers' = [workers EXCEPT ![w0] =
                        [IdleJob EXCEPT !.pc = "namespace", !.install = i, !.mode = m,
                                        !.ns = n, !.createNs = c, !.transforms = t]]
    BY <1>1 DEF NewInstallActionClient
  <2>2. /\ DOMAIN workers' = Workers /\ DOMAIN new = JobFields /\ new.pc = "namespace"
        /\ new.ns \in Namespaces /\ new.resNs = Default /\ new.transforms \in BOOLEAN
    BY <1>0, <2>1, Zenon DEF IdleJob, JobFields
  <2>3. UNCHANGED placed
    BY <1>1 DEF NewInstallActionClient
  <2>. QED  BY <2>2, <2>3, JobUpdate, HelmClientAssumption
            DEF NsInv, ResourcesInTargetNamespace, Steps
<1>2. CASE HandleNamespace(w0)
  <2>1. clientNs' = job.ns /\ job.pc = "namespace"
    BY <1>2 DEF HandleNamespace
  <2>2. \A r \in placed' : r.ns = r.target
    BY <1>2, <2>1 DEF HandleNamespace, JobFails, NsInv, ResourcesInTargetNamespace
  <2>3. CASE workers' = [workers EXCEPT ![w0].pc = "build"]
    <3>1. /\ DOMAIN workers' = Workers /\ DOMAIN new = JobFields /\ new.pc = "build"
          /\ new.ns = job.ns /\ new.resNs = job.resNs /\ new.transforms = job.transforms
      BY <1>0, <2>3, Zenon DEF JobFields
    <3>. QED  BY <1>0, <2>1, <2>2, <3>1, JobUpdate DEF Steps
  <2>4. CASE workers' = [workers EXCEPT ![w0].pc = "done", ![w0].err = TRUE]
    <3>1. /\ DOMAIN workers' = Workers /\ DOMAIN new = JobFields /\ new.pc = "done"
          /\ new.ns = job.ns /\ new.resNs = job.resNs /\ new.transforms = job.transforms
      BY <1>0, <2>4, Zenon DEF JobFields
    <3>. QED  BY <1>0, <2>2, <3>1, JobUpdate DEF Steps
  <2>. QED  BY <1>2, <2>3, <2>4 DEF HandleNamespace, JobFails
<1>3. CASE GetTargetResources(w0)
  <2>1. job.pc = "build" /\ UNCHANGED <<clientNs, placed>>
    BY <1>3 DEF GetTargetResources
  <2>2. job.transforms \/ clientNs = job.ns
    BY <2>1 DEF NsInv, BuildTargetsOwnNs
  <2>3. /\ DOMAIN workers' = Workers /\ DOMAIN new = JobFields /\ new.pc = "apply"
        /\ new.ns = job.ns /\ new.transforms = job.transforms
        /\ new.resNs = IF job.transforms THEN job.ns ELSE clientNs
    BY <1>0, <1>3, Zenon DEF GetTargetResources, JobFields
  <2>4. new.resNs = new.ns /\ new.resNs \in Namespaces
    BY <1>0, <2>2, <2>3
  <2>. QED  BY <1>0, <2>1, <2>3, <2>4, JobUpdate
            DEF NsInv, ResourcesInTargetNamespace, Steps
<1>4. CASE ApplyResources(w0)
  <2>1. job.pc = "apply" /\ job.resNs = job.ns
    BY <1>4 DEF ApplyResources, NsInv, BuiltInOwnNs
  <2>2. \A r \in placed' : r.ns = r.target
    BY <1>4, <2>1 DEF ApplyResources, JobFails, NsInv, ResourcesInTargetNamespace
  <2>3. ASSUME NEW st \in {"check", "done"}, workers' = [workers EXCEPT ![w0].pc = st]
        PROVE  NsInv'
    <3>1. /\ DOMAIN workers' = Workers /\ DOMAIN new = JobFields /\ new.pc = st
          /\ new.ns = job.ns /\ new.resNs = job.resNs /\ new.transforms = job.transforms
      BY <1>0, <2>3, Zenon DEF JobFields
    <3>. QED  BY <1>0, <2>2, <3>1, JobUpdate DEF Steps
  <2>4. CASE workers' = [workers EXCEPT ![w0].pc = "done", ![w0].err = TRUE]
    <3>1. /\ DOMAIN workers' = Workers /\ DOMAIN new = JobFields /\ new.pc = "done"
          /\ new.ns = job.ns /\ new.resNs = job.resNs /\ new.transforms = job.transforms
      BY <1>0, <2>4, Zenon DEF JobFields
    <3>. QED  BY <1>0, <2>2, <3>1, JobUpdate DEF Steps
  <2>. QED  BY <1>4, <2>3, <2>4 DEF ApplyResources, JobFails
<1>5. CASE CheckReadyState(w0)
  <2>1. PICK o \in SeqUpTo(Outcomes, MaxResources) \ {<< >>} :
          workers' = [workers EXCEPT ![w0].pc = "done", ![w0].outcomes = o,
                                     ![w0].ready = CheckReady(o).ready,
                                     ![w0].err = CheckReady(o).err]
    BY <1>5 DEF CheckReadyState
  <2>2. /\ DOMAIN workers' = Workers /\ DOMAIN new = JobFields /\ new.pc = "done"
        /\ new.ns = job.ns /\ new.resNs = job.resNs /\ new.transforms = job.transforms
    BY <1>0, <2>1, Zenon DEF JobFields
  <2>3. UNCHANGED placed
    BY <1>5 DEF CheckReadyState
  <2>. QED  BY <1>0, <2>2, <2>3, JobUpdate DEF NsInv, ResourcesInTargetNamespace, Steps
<1>6. CASE JobsEnded \/ UNCHANGED vars
  BY <1>6 DEF JobsEnded, vars, NsInv, JobShape, BuildTargetsOwnNs, BuiltInOwnNs,
              ResourcesInTargetNamespace
<1>. QED  BY <1>1, <1>2, <1>3, <1>4, <1>5, <1>6 DEF Next

\* HandleNamespace and GetTargetResources of one job: with a single worker
\* on the cached renderer's client, every resource placed on the cluster is
\* in the namespace its job's flags targeted, for every set of installs and
\* namespaces and every number of jobs.
THEOREM SingleWorkerResourcesInTargetNamespace ==
    ASSUME NEW w0, Workers = {w0}
    PROVE  Spec => []ResourcesInTargetNamespace
<1>1. Init => NsInv
  BY InitNsInv, HelmClientAssumption
<1>2. NsInv /\ [Next]_vars => NsInv'
  BY NextNsInv, HelmClientAssumption
<1>3. NsInv => ResourcesInTargetNamespace
  BY DEF NsInv
<1>. QED  BY <1>1, <1>2, <1>3, PTL DEF Spec

-----------------------------------------------------------------------------
(* checkReady, for every number of workers.                                *)

\* A set of naturals that is not empty has a least element.
LEMMA LeastIndex ==
    ASSUME NEW T \in SUBSET Nat, T # {}
    PROVE  \E x \in T : \A y \in T : x <= y
<1>. DEFINE R == OpToRel(<, Nat)
<1>1. \E x \in T : \A y \in T : ~(<<y, x>> \in R)
  BY NatLessThanWellFounded, WFMin
<1>2. \A x, y \in T : <<y, x>> \in R <=> y < x
  BY DEF OpToRel
<1>3. \A x, y \in T : ~(y < x) => x <= y
  OBVIOUS
<1>. HIDE DEF R
<1>. QED  BY <1>1, <1>2, <1>3, Zenon

\* checkReady's visit, which stops at the first resource whose IsReady
\* fails, gives the readiness of the whole list: an error iff some
\* resource failed, ready iff every resource is ready.
LEMMA CheckReadyIsReference ==
    ASSUME NEW o \in Seq(Outcomes)
    PROVE  CheckReady(o) = ReferenceReadiness(o)
<1>. DEFINE errs == VisitErrors(o)
            m == CHOOSE i \in errs : \A j \in errs : i <= j
<1>1. CASE errs = {}
  <2>1. Visited(o) = 1..Len(o)
    BY <1>1 DEF Visited
  <2>2. \A i \in 1..Len(o) : o[i] # "error"
    BY <1>1 DEF VisitErrors
  <2>. QED  BY <1>1, <2>1, <2>2 DEF CheckReady, ReferenceReadiness
<1>2. CASE errs # {}
  <2>1. m \in errs
    <3>1. errs \in SUBSET Nat
      BY DEF VisitErrors
    <3>. QED  BY <1>2, <3>1, LeastIndex
  <2>2. Visited(o) = 1..m
    BY <1>2 DEF Visited
  <2>3. m \in 1..Len(o) /\ o[m] = "error"
    BY <2>1 DEF VisitErrors
  <2>4. CheckReady(o) = [ready |-> FALSE, err |-> TRUE]
    <3>1. ~\A i \in Visited(o) : o[i] = "ready"
      BY <2>2, <2>3
    <3>. QED  BY <1>2, <3>1 DEF CheckReady
  <2>5. ReferenceReadiness(o) = [ready |-> FALSE, err |-> TRUE]
    BY <2>3 DEF ReferenceReadiness
  <2>. QED  BY <2>4, <2>5
<1>. QED  BY <1>1, <1>2

\* A job holds readiness results only once checkReady ran, and then they
\* are what checkReady gave for the outcomes it visited.
JobReady(job) ==
    /\ job.outcomes \in Seq(Outcomes)
    /\ job.outcomes # << >> =>
          /\ job.pc = "done"
          /\ job.ready = CheckReady(job.outcomes).ready
          /\ job.err = CheckReady(job.outcomes).err

\* The inductive invariant ReadyCheckMatchesReference rests on.
ReadyInv ==
    /\ DOMAIN workers = Workers
    /\ \A w \in Workers : DOMAIN workers[w] = JobFields /\ JobReady(workers[w])

\* A step of one worker v keeps ReadyInv when v's new job is a job record
\* with readiness results from checkReady, and no other job changes.
LEMMA ReadyUpdate ==
    ASSUME ReadyInv, NEW v \in Workers,
           DOMAIN workers' = Workers, DOMAIN workers'[v] = JobFields,
           JobReady(workers'[v]),
           \A u \in Workers : u # v => workers'[u] = workers[u]
    PROVE  ReadyInv'
  BY DEF ReadyInv

\* A step that keeps a job's outcomes before checkReady ran keeps none.
LEMMA NoOutcomesYet ==
    ASSUME NEW job, NEW new, JobReady(job), job.pc # "done",
           new.outcomes = job.outcomes
    PROVE  JobReady(new)
  BY DEF JobReady

LEMMA InitReadyInv ==
    Init => ReadyInv
<1> SUFFICES ASSUME Init PROVE ReadyInv
  OBVIOUS
<1>1. DOMAIN IdleJob = JobFields /\ IdleJob.outcomes = << >>
  BY Zenon DEF IdleJob, JobFields
<1>2. JobReady(IdleJob)
  BY <1>1 DEF JobReady
<1>3. DOMAIN workers = Workers /\ \A w \in Workers : workers[w] = IdleJob
  BY DEF Init
<1>. QED  BY <1>1, <1>2, <1>3 DEF ReadyInv

\* A step of a worker that only moves the job on, or ends it with an
\* error (JobFails), before checkReady ran.
LEMMA MoveKeepsReadyInv ==
    ASSUME ReadyInv, NEW v \in Workers, workers[v].pc \in {"namespace", "build", "apply"},
           NEW st, NEW ns,
           \/ workers' = [workers EXCEPT ![v].pc = st]
           \/ workers' = [workers EXCEPT ![v].pc = st, ![v].resNs = ns]
           \/ workers' = [workers EXCEPT ![v].pc = "done", ![v].err = TRUE]
    PROVE  ReadyInv'
<1>. DEFINE job == workers[v]
            new == workers'[v]
<1>1. DOMAIN workers = Workers /\ DOMAIN job = JobFields /\ JobReady(job)
  BY DEF ReadyInv
<1>2. /\ DOMAIN workers' = Workers /\ DOMAIN new = JobFields
      /\ new.outcomes = job.outcomes
      /\ \A u \in Workers : u # v => workers'[u] = workers[u]
  <2>1. CASE workers' = [workers EXCEPT ![v].pc = st]
    BY <1>1, <2>1, Zenon DEF JobFields
  <2>2. CASE workers' = [workers EXCEPT ![v].pc = st, ![v].resNs = ns]
    BY <1>1, <2>2, Zenon DEF JobFields
  <2>3. CASE workers' = [workers EXCEPT ![v].pc = "done", ![v].err = TRUE]
    BY <1>1, <2>3, Zenon DEF JobFields
  <2>. QED  BY <2>1, <2>2, <2>3
<1>3. JobReady(new)
  BY <1>1, <1>2, NoOutcomesYet
<1>. QED  BY <1>2, <1>3, ReadyUpdate

LEMMA NextReadyInv ==
    ReadyInv /\ [Next]_vars => ReadyInv'
<1> SUFFICES ASSUME ReadyInv, [Next]_vars PROVE ReadyInv'
  OBVIOUS
<1>1. CASE \E v \in Workers : NewInstallActionClient(v)
  <2>1. PICK v \in Workers, i \in Installs, m \in {"create", "delete"}, n \in Namespaces,
             c \in BOOLEAN, t \in BOOLEAN :
          workers' = [workers EXCEPT ![v] =
                        [IdleJob EXCEPT !.pc = "namespace", !.install = i, !.mode = m,
                                        !.ns = n, !.createNs = c, !.transforms = t]]
    BY <1>1 DEF NewInstallActionClient
  <2>2. /\ DOMAIN workers' = Workers /\ DOMAIN workers'[v] = JobFields
        /\ workers'[v].outcomes = << >>
        /\ \A u \in Workers : u # v => workers'[u] = workers[u]
    BY <2>1, Zenon DEF ReadyInv, IdleJob, JobFields
  <2>3. JobReady(workers'[v])
    BY <2>2 DEF JobReady
  <2>. QED  BY <2>2, <2>3, ReadyUpdate
<1>2. CASE \E v \in Workers : HandleNamespace(v)
  <2>1. PICK v \in Workers : HandleNamespace(v)
    BY <1>2
  <2>2. workers[v].pc = "namespace"
    BY <2>1 DEF HandleNamespace
  <2>3. \/ workers' = [workers EXCEPT ![v].pc = "build"]
        \/ workers' = [workers EXCEPT ![v].pc = "done", ![v].err = TRUE]
    BY <2>1 DEF HandleNamespace, JobFails
  <2>. QED  BY <2>2, <2>3, MoveKeepsReadyInv DEF Steps
<1>3. CASE \E v \in Workers : GetTargetResources(v)
  <2>1. PICK v \in Workers : GetTargetResources(v)
    BY <1>3
  <2>2. workers[v].pc = "build"
    BY <2>1 DEF GetTargetResources
  <2>3. workers' = [workers EXCEPT ![v].pc = "apply",
                     ![v].resNs = IF workers[v].transforms THEN workers[v].ns ELSE clientNs]
    BY <2>1 DEF GetTargetResources
  <2>. QED  BY <2>2, <2>3, MoveKeepsReadyInv
<1>4. CASE \E v \in Workers : ApplyResources(v)
  <2>1. PICK v \in Workers : ApplyResources(v)
    BY <1>4
  <2>2. workers[v].pc = "apply"
    BY <2>1 DEF ApplyResources
  <2>3. \/ workers' = [workers EXCEPT ![v].pc = "check"]
        \/ workers' = [workers EXCEPT ![v].pc = "done"]
        \/ workers' = [workers EXCEPT ![v].pc = "done", ![v].err = TRUE]
    BY <2>1 DEF ApplyResources, JobFails
  <2>. QED  BY <2>2, <2>3, MoveKeepsReadyInv
<1>5. CASE \E v \in Workers : CheckReadyState(v)
  <2>1. PICK v \in Workers, o \in SeqUpTo(Outcomes, MaxResources) \ {<< >>} :
          workers' = [workers EXCEPT ![v].pc = "done", ![v].outcomes = o,
                                     ![v].ready = CheckReady(o).ready,
                                     ![v].err = CheckReady(o).err]
    BY <1>5 DEF CheckReadyState
  <2>2. /\ DOMAIN workers' = Workers /\ DOMAIN workers'[v] = JobFields
        /\ workers'[v].pc = "done" /\ workers'[v].outcomes = o
        /\ workers'[v].ready = CheckReady(o).ready /\ workers'[v].err = CheckReady(o).err
        /\ \A u \in Workers : u # v => workers'[u] = workers[u]
    BY <2>1, Zenon DEF ReadyInv, JobFields
  <2>3. o \in Seq(Outcomes)
    BY HelmClientAssumption DEF SeqUpTo
  <2>4. JobReady(workers'[v])
    BY <2>2, <2>3 DEF JobReady
  <2>. QED  BY <2>2, <2>4, ReadyUpdate
<1>6. CASE JobsEnded \/ UNCHANGED vars
  BY <1>6 DEF JobsEnded, vars, ReadyInv, JobReady
<1>. QED  BY <1>1, <1>2, <1>3, <1>4, <1>5, <1>6 DEF Next

\* checkReady (CheckReadyState) of any job of any worker, however the
\* workers interleave: the readiness an install's job reports is the
\* reference readiness of the resources visited - ready iff all are
\* ready, an error iff IsReady failed on one.
THEOREM ReadyCheckMatchesReferenceHolds ==
    Spec => []ReadyCheckMatchesReference
<1>1. Init => ReadyInv
  BY InitReadyInv
<1>2. ReadyInv /\ [Next]_vars => ReadyInv'
  BY NextReadyInv
<1>3. ReadyInv => ReadyCheckMatchesReference
  <2> SUFFICES ASSUME ReadyInv, NEW w \in Workers,
                      workers[w].pc = "done", workers[w].outcomes # << >>
               PROVE  [ready |-> workers[w].ready, err |-> workers[w].err]
                         = ReferenceReadiness(workers[w].outcomes)
    BY DEF ReadyCheckMatchesReference
  <2>1. JobReady(workers[w])
    BY DEF ReadyInv
  <2>2. CheckReady(workers[w].outcomes) = ReferenceReadiness(workers[w].outcomes)
    BY <2>1, CheckReadyIsReference DEF JobReady
  <2>3. [ready |-> workers[w].ready, err |-> workers[w].err] = CheckReady(workers[w].outcomes)
    BY <2>1 DEF JobReady, CheckReady
  <2>. QED  BY <2>2, <2>3
<1>. QED  BY <1>1, <1>2, <1>3, PTL DEF Spec
=============================================================================
