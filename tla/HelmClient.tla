----------------------------- MODULE HelmClient -----------------------------
(***************************************************************************)
(* The HelmClient of one cached renderer (src/operator/pkg/manifest/       *)
(* client.go), used by the workers that process installs of the owner the *)
(* renderer is cached for.  Each job configures an action client           *)
(* (NewInstallActionClient), points the shared kube client at its          *)
(* namespace and creates or deletes that namespace (HandleNamespace),      *)
(* builds its resources (GetTargetResources), applies or removes them      *)
(* (PerformCreate / PerformUpdate) and, when installing, checks their      *)
(* readiness (CheckReadyState, checkReady).                                *)
(*                                                                         *)
(* - clientNs: h.kubeClient.Namespace, one field shared by all jobs.       *)
(* - nsExists: which namespaces exist on the target cluster.               *)
(* - placed: the resources on the cluster: the install they belong to,     *)
(*   the namespace they are in and the namespace their job targeted.       *)
(* - workers: each worker's job and where it is in it.                     *)
(* - issued: jobs taken so far (bounded by MaxJobs).                       *)
(***************************************************************************)
EXTENDS Naturals, Sequences

CONSTANTS
    Workers,       \* worker goroutines sharing the cached renderer
    Installs,      \* install names (one namespaced resource each)
    Namespaces,    \* namespaces a job's flags may name
    Default,       \* v1.NamespaceDefault
    MaxJobs,       \* bound: jobs taken in total
    MaxResources,  \* bound: resources visited by one readiness check
    Faults         \* whether API server calls may fail

ASSUME HelmClientAssumption ==
    /\ Default \in Namespaces
    /\ MaxJobs \in Nat /\ MaxResources \in Nat \ {0} /\ Faults \in BOOLEAN

VARIABLES clientNs, nsExists, placed, workers, issued

vars == <<clientNs, nsExists, placed, workers, issued>>

\* what readyChecker.IsReady reports for one resource
Outcomes == {"ready", "notReady", "error"}

SeqUpTo(S, n) == UNION {[1..k -> S] : k \in 0..n}

Resources == [install: Installs, ns: Namespaces, target: Namespaces]

Steps == {"idle", "namespace", "build", "apply", "check", "done"}

Jobs ==
    [pc: Steps, install: Installs, mode: {"create", "delete"}, ns: Namespaces,
     createNs: BOOLEAN, transforms: BOOLEAN, resNs: Namespaces,
     outcomes: SeqUpTo(Outcomes, MaxResources), ready: BOOLEAN, err: BOOLEAN]

TypeOK ==
    /\ clientNs \in Namespaces
    /\ nsExists \in [Namespaces -> BOOLEAN]
    /\ placed \subseteq Resources
    /\ workers \in [Workers -> Jobs]
    /\ issued \in 0..MaxJobs

IdleJob ==
    [pc |-> "idle", install |-> CHOOSE i \in Installs : TRUE, mode |-> "create",
     ns |-> Default, createNs |-> FALSE, transforms |-> FALSE, resNs |-> Default,
     outcomes |-> << >>, ready |-> FALSE, err |-> FALSE]

\* the kube client starts without a namespace, which Build resolves to the
\* default namespace; the default namespace always exists
Init ==
    /\ clientNs = Default
    /\ nsExists \in {f \in [Namespaces -> BOOLEAN] : f[Default]}
    /\ placed = {}
    /\ workers = [w \in Workers |-> IdleJob]
    /\ issued = 0

\* the job ends with an error response
JobFails(w) ==
    /\ workers' = [workers EXCEPT ![w].pc = "done", ![w].err = TRUE]

\* NewInstallActionClient: SetDefaultClientConfig sets Namespace to the
\* default namespace and SetFlags overrides Namespace and CreateNamespace
\* from the job's flags; the job also names its install, its mode and
\* whether resource transforms are configured
NewInstallActionClient(w) ==
    /\ workers[w].pc \in {"idle", "done"}
    /\ issued < MaxJobs
    /\ \E i \in Installs, m \in {"create", "delete"}, n \in Namespaces,
          c \in BOOLEAN, t \in BOOLEAN :
         workers' = [workers EXCEPT ![w] =
                       [IdleJob EXCEPT !.pc = "namespace", !.install = i, !.mode = m,
                                       !.ns = n, !.createNs = c, !.transforms = t]]
    /\ issued' = issued + 1
    /\ UNCHANGED <<clientNs, nsExists, placed>>

\* mutant: the kube client's namespace is set only past the early return
HandleNamespaceLateOverride(w) ==
    LET job == workers[w] IN
    /\ job.pc = "namespace"
    /\ IF ~job.createNs \/ job.ns = Default
       THEN /\ workers' = [workers EXCEPT ![w].pc = "build"]
            /\ UNCHANGED <<clientNs, nsExists, placed>>
       ELSE /\ clientNs' = job.ns
            /\ workers' = [workers EXCEPT ![w].pc = "build"]
            /\ IF job.mode = "create"
               THEN nsExists' = [nsExists EXCEPT ![job.ns] = TRUE] /\ UNCHANGED placed
               ELSE /\ nsExists' = [nsExists EXCEPT ![job.ns] = FALSE]
                    /\ placed' = {r \in placed : r.ns # job.ns}
    /\ UNCHANGED issued

\* HandleNamespace: point the shared kube client at the job's namespace;
\* unless CreateNamespace is off or the namespace is the default one,
\* create it (createNamespace tolerates AlreadyExists) or delete it
\* (deleteNamespace; the API server removes what the namespace holds)
HandleNamespace(w) ==
    LET job == workers[w] IN
    /\ job.pc = "namespace"
    /\ clientNs' = job.ns
    /\ IF ~job.createNs \/ job.ns = Default
       THEN /\ workers' = [workers EXCEPT ![w].pc = "build"]
            /\ UNCHANGED <<nsExists, placed>>
       ELSE \/ /\ workers' = [workers EXCEPT ![w].pc = "build"]
               /\ IF job.mode = "create"
                  THEN nsExists' = [nsExists EXCEPT ![job.ns] = TRUE] /\ UNCHANGED placed
                  ELSE /\ nsExists' = [nsExists EXCEPT ![job.ns] = FALSE]
                       /\ placed' = {r \in placed : r.ns # job.ns}
            \/ Faults /\ JobFails(w) /\ UNCHANGED <<nsExists, placed>>
    /\ UNCHANGED issued

\* GetTargetResources: without transforms kubeClient.Build gives a
\* namespaced resource that names no namespace the kube client's current
\* namespace; with transforms convertToInfo leaves it empty and
\* overrideNamespace (setNamespaceIfNotPresent) sets the target namespace
GetTargetResources(w) ==
    LET job == workers[w] IN
    /\ job.pc = "build"
    /\ workers' = [workers EXCEPT ![w].pc = "apply",
                                  ![w].resNs = IF job.transforms THEN job.ns ELSE clientNs]
    /\ UNCHANGED <<clientNs, nsExists, placed, issued>>

\* PerformCreate / PerformUpdate (kubeClient.Create, Update) for an
\* install; removal in delete mode.  Creating in a namespace that does not
\* exist fails with NotFound.
ApplyResources(w) ==
    LET job == workers[w]
        res == [install |-> job.install, ns |-> job.resNs, target |-> job.ns]
    IN /\ job.pc = "apply"
       /\ \/ /\ job.mode = "create" /\ nsExists[job.resNs]
             /\ placed' = {r \in placed : r.install # job.install \/ r.ns # job.resNs} \cup {res}
             /\ workers' = [workers EXCEPT ![w].pc = "check"]
          \/ /\ job.mode = "delete"
             /\ placed' = {r \in placed : r.install # job.install \/ r.ns # job.resNs}
             /\ workers' = [workers EXCEPT ![w].pc = "done"]
          \/ /\ (job.mode = "create" /\ ~nsExists[job.resNs]) \/ Faults
             /\ JobFails(w) /\ UNCHANGED placed
       /\ UNCHANGED <<clientNs, nsExists, issued>>

\* checkReady: the resources whose IsReady fails; the callback returns
\* the error, which ends resourceList.Visit
VisitErrors(outcomes) == {i \in 1..Len(outcomes) : outcomes[i] = "error"}

\* mutant: a not-ready resource only counts when IsReady also failed
CheckReadyErrorOnly(outcomes) ==
    [ready |-> VisitErrors(outcomes) = {}, err |-> VisitErrors(outcomes) # {}]

\* checkReady: resourceList.Visit calls IsReady on each resource in turn
\* and ends at the first resource whose IsReady fails
Visited(outcomes) ==
    LET errs == VisitErrors(outcomes)
    IN IF errs = {} THEN 1..Len(outcomes)
       ELSE 1..(CHOOSE i \in errs : \A j \in errs : i <= j)

\* checkReady: a not-ready or failed resource sets resourcesReady to its
\* ready value (FALSE); the error, if any, is the result of the visit
CheckReady(outcomes) ==
    [ready |-> \A i \in Visited(outcomes) : outcomes[i] = "ready",
     err |-> VisitErrors(outcomes) # {}]

\* CheckReadyState on the applied resources of an install
CheckReadyState(w) ==
    /\ workers[w].pc = "check"
    /\ \E outcomes \in SeqUpTo(Outcomes, MaxResources) \ {<< >>} :
         LET result == CheckReady(outcomes)
         IN workers' = [workers EXCEPT ![w].pc = "done", ![w].outcomes = outcomes,
                                       ![w].ready = result.ready, ![w].err = result.err]
    /\ UNCHANGED <<clientNs, nsExists, placed, issued>>

\* every job was taken and has ended
JobsEnded ==
    /\ issued = MaxJobs
    /\ \A w \in Workers : workers[w].pc \in {"idle", "done"}
    /\ UNCHANGED vars

Next ==
    \/ JobsEnded
    \/ \E w \in Workers :
        \/ NewInstallActionClient(w)
        \/ HandleNamespace(w)
        \/ GetTargetResources(w)
        \/ ApplyResources(w)
        \/ CheckReadyState(w)

Spec == Init /\ [][Next]_vars

-----------------------------------------------------------------------------
\* The readiness of a set of resources (spec 4.7 isReady, 4.8): ready when
\* every resource is ready, an error when IsReady failed on any of them.
ReferenceReadiness(outcomes) ==
    [ready |-> \A i \in 1..Len(outcomes) : outcomes[i] = "ready",
     err |-> \E i \in 1..Len(outcomes) : outcomes[i] = "error"]

\* The result checkReady gives an install after its resources were visited
\* is the reference readiness of what IsReady reported.
ReadyCheckMatchesReference ==
    \A w \in Workers :
        workers[w].pc = "done" /\ workers[w].outcomes # << >> =>
            [ready |-> workers[w].ready, err |-> workers[w].err]
                = ReferenceReadiness(workers[w].outcomes)

\* Every resource a job placed on the cluster is in the namespace the
\* job's flags targeted (spec 4.7: the renderer handles the namespace
\* an install's flags request; spec 5: the only in-process shared state is
\* the RendererCache's maps), however the jobs sharing the
\* cached renderer's kube client interleave.
ResourcesInTargetNamespace == \A r \in placed : r.ns = r.target
=============================================================================
