--------------------- MODULE ManifestStatusRefinement ----------------------
(***************************************************************************)
(* ManifestReconciler implements ManifestStatus: every step of Reconcile,  *)
(* the workers, the collectors, the users and restarts is, seen through    *)
(* the mapping of ManifestReconciler!Status, a step of the contract or a   *)
(* stutter.  The step proof rests on the type invariant, on                *)
(* FinalizerWhileManaged and on ReadyInv.                                  *)
(***************************************************************************)
EXTENDS ManifestReconcilerBalance

-----------------------------------------------------------------------------
(* Lemmas on single steps.                                                 *)

\* A step that keeps the status, the deletion timestamp, the existence and
\* the cluster is a stutter of the contract.
LEMMA ContractStutter ==
    ASSUME manifest'.state = manifest.state,
           manifest'.deletionTimestamp = manifest.deletionTimestamp,
           manifest'.exists = manifest.exists, cluster' = cluster
    PROVE  [Status!Next]_Status!vars
  BY DEF Status!vars, AppliedInstalls

\* A status write, landed or failed, of a state the contract allows is a
\* WriteStatus step or a stutter.
LEMMA StatusWriteRefines ==
    ASSUME manifest.exists, NEW s \in States \ {"Initial"},
           manifest.deletionTimestamp => s \in {"Deleting", "Error"},
           s = "Ready" => \A i \in Installs : cluster[i] # 0,
           ApiWrite(updateManifestStatus(manifest, s)), cluster' = cluster
    PROVE  [Status!Next]_Status!vars
<1>1. CASE manifest' = updateManifestStatus(manifest, s)
  <2>1. /\ manifest'.state = s
        /\ manifest'.deletionTimestamp = manifest.deletionTimestamp
        /\ manifest'.exists = manifest.exists
    BY <1>1, StatusWriteFields
  <2>2. s = "Ready" => AppliedInstalls = Installs
    BY DEF AppliedInstalls
  <2>3. Status!WriteStatus(s)
    BY <2>1, <2>2 DEF Status!WriteStatus, Status!StatusStates, States, AppliedInstalls
  <2>. QED  BY <2>3 DEF Status!Next, States, Status!StatusStates
<1>2. CASE UNCHANGED manifest
  BY <1>2, ContractStutter
<1>. QED  BY <1>1, <1>2 DEF ApiWrite

\* HandleCharts changes the cluster only: a ChangeResources step.  Install
\* and uninstall both apply the rendering, so no resources are removed.
LEMMA HandleChartsRefines ==
    ASSUME TypeOK, ReadyInv, NEW w \in Workers, HandleCharts(w)
    PROVE  Status!ChangeResources
<1>. DEFINE r == workers[w].round
            i == workers[w].install
<1>1. r \in Rounds /\ i \in Installs
  BY DEF TypeOK, WorkerRecords
<1>2. PICK o \in Outcomes :
        cluster' = IF o.applied
                   THEN [cluster EXCEPT ![i] = Rendering(i, rounds[r].gen)]
                   ELSE cluster
  BY DEF HandleCharts
<1>3. Rendering(i, rounds[r].gen) # 0
  <2>1. rounds[r].gen \in Generations
    BY <1>1 DEF TypeOK, RoundRecords
  <2>. QED  BY <1>1, <2>1, RenderingType DEF TypeOK, Generations
<1>4. \A j \in Installs : cluster[j] # 0 => cluster'[j] # 0
  BY <1>1, <1>2, <1>3 DEF TypeOK
<1>5. AppliedInstalls \subseteq AppliedInstalls' /\ AppliedInstalls' \in SUBSET Installs
  BY <1>4 DEF AppliedInstalls
<1>. QED  BY <1>5 DEF HandleCharts, Status!ChangeResources

-----------------------------------------------------------------------------
\* Every status the controller writes, every deletion, every disappearance
\* of the Manifest and every change of the resources on the cluster keeps
\* the promises of ManifestStatus, for every number of installs, workers
\* and slots: the controller implements its status contract.
THEOREM StatusRefinement == Spec => StatusContract
<1>1. Init => Status!Init
  BY DEF Init, Status!Init, AppliedInstalls
<1>2. /\ TypeOK /\ FinalizerWhileManaged /\ ReadyInv /\ ReadyImpliesInstalled'
      /\ [Next]_vars
      => [Status!Next]_Status!vars
  <2> SUFFICES ASSUME TypeOK, FinalizerWhileManaged, ReadyInv,
                      ReadyImpliesInstalled', [Next]_vars
               PROVE  [Status!Next]_Status!vars
    OBVIOUS
  <2>1. CASE ReconcileMarkDeleting
    BY <2>1, StatusWriteRefines DEF ReconcileMarkDeleting, ReconcileEnabled, States
  <2>2. CASE ReconcileAddFinalizer
    <3>1. CASE manifest' = [manifest EXCEPT !.finalizer = TRUE]
      BY <2>2, <3>1, ContractStutter DEF ReconcileAddFinalizer, TypeOK, ManifestRecords
    <3>2. CASE UNCHANGED manifest
      BY <2>2, <3>2, ContractStutter DEF ReconcileAddFinalizer
    <3>. QED  BY <2>2, <3>1, <3>2 DEF ReconcileAddFinalizer, ApiWrite
  <2>3. CASE HandleInitialState \/ HandleErrorState
    BY <2>3, StatusWriteRefines
    DEF HandleInitialState, HandleErrorState, ReachesStateSwitch, ReconcileEnabled, States
  <2>4. CASE HandleReadyState
    <3>1. manifest.exists /\ ~manifest.deletionTimestamp /\ UNCHANGED cluster
      BY <2>4 DEF HandleReadyState, ReachesStateSwitch, ReconcileEnabled
    <3>2. CASE UNCHANGED manifest
      BY <3>1, <3>2, ContractStutter
    <3>3. CASE ~UNCHANGED manifest
      <4>1. PICK st \in {"Processing", "Error"} :
                ApiWrite(updateManifestStatus(manifest, st))
        BY <2>4, <3>3 DEF HandleReadyState
      <4>. QED  BY <3>1, <4>1, StatusWriteRefines DEF States
    <3>. QED  BY <3>2, <3>3
  <2>5. CASE HandleProcessingState \/ HandleDeletingState
    <3>1. UNCHANGED <<manifest, cluster>>
      BY <2>5 DEF HandleProcessingState, HandleDeletingState, sendJobToInstallChannel,
                  StartRound, PrepareFails
    <3>. QED  BY <3>1, ContractStutter
  <2>6. ASSUME NEW w \in Workers, SendJob(w) \/ DeliverResponse(w)
        PROVE  [Status!Next]_Status!vars
    BY <2>6, ContractStutter DEF SendJob, DeliverResponse
  <2>7. ASSUME NEW w \in Workers, HandleCharts(w)
        PROVE  [Status!Next]_Status!vars
    BY <2>7, HandleChartsRefines DEF Status!Next
  <2>8. ASSUME NEW r \in Rounds, ResponseHandlerFunc(r)
        PROVE  [Status!Next]_Status!vars
    <3>. DEFINE e == rounds[r].errorState
                p == rounds[r].processing
    <3>1. UNCHANGED cluster
      BY <2>8 DEF ResponseHandlerFunc
    <3>2. \A x, y : /\ EndState(manifest, x, y) \in States \ {"Initial"}
                    /\ manifest.deletionTimestamp
                          => EndState(manifest, x, y) \in {"Deleting", "Error"}
      BY DEF EndState, States
    <3>3. CASE UNCHANGED manifest
      BY <3>1, <3>3, ContractStutter
    <3>4. CASE /\ manifest.exists /\ manifest.deletionTimestamp
               /\ manifest' = [manifest EXCEPT !.finalizer = FALSE, !.exists = FALSE]
      <4>1. Status!Remove
        BY <3>1, <3>4 DEF Status!Remove, TypeOK, ManifestRecords, AppliedInstalls
      <4>. QED  BY <4>1 DEF Status!Next
    <3>5. CASE /\ manifest.exists
               /\ ApiWrite(updateManifestStatus(manifest, EndState(manifest, TRUE, p)))
      <4>1. EndState(manifest, TRUE, p) = "Error"
        BY DEF EndState
      <4>. QED  BY <3>1, <3>2, <3>5, <4>1, StatusWriteRefines
    <3>6. CASE /\ manifest.exists
               /\ manifest' = updateManifestStatus(manifest, EndState(manifest, e, p))
      <4>. DEFINE st == EndState(manifest, e, p)
      <4>1. st = "Ready" => \A i \in Installs : cluster[i] # 0
        <5>1. st = "Ready" => manifest'.exists /\ manifest'.state = "Ready"
          BY <3>6, StatusWriteFields
        <5>. QED  BY <3>1, <5>1 DEF ReadyImpliesInstalled
      <4>2. ApiWrite(updateManifestStatus(manifest, st))
        BY <3>6 DEF ApiWrite
      <4>. QED  BY <3>1, <3>2, <3>6, <4>1, <4>2, StatusWriteRefines
    <3>7. CASE Faults /\ UNCHANGED manifest
      BY <3>1, <3>7, ContractStutter
    <3>. QED  BY <2>8, <3>3, <3>4, <3>5, <3>6, <3>7 DEF ResponseHandlerFunc, ApiWrite
  <2>9. CASE UserDelete
    <3>1. Status!RequestDeletion
      <4>1. manifest'.state = manifest.state /\ manifest'.deletionTimestamp
            /\ manifest'.exists \in BOOLEAN
        BY <2>9 DEF UserDelete, TypeOK, ManifestRecords
      <4>2. ~manifest'.exists => manifest.state = "Initial"
        BY <2>9 DEF UserDelete, TypeOK, ManifestRecords, FinalizerWhileManaged
      <4>. QED  BY <2>9, <4>1, <4>2 DEF UserDelete, Status!RequestDeletion, AppliedInstalls
    <3>. QED  BY <3>1 DEF Status!Next
  <2>10. CASE UserUpdateSpec \/ Restart \/ Terminated \/ UNCHANGED vars
    <3>1. UNCHANGED cluster /\ manifest'.state = manifest.state
          /\ manifest'.deletionTimestamp = manifest.deletionTimestamp
          /\ manifest'.exists = manifest.exists
      BY <2>10 DEF UserUpdateSpec, Restart, Terminated, vars, TypeOK, ManifestRecords
    <3>. QED  BY <3>1, ContractStutter
  <2>. QED  BY <2>1, <2>2, <2>3, <2>4, <2>5, <2>6, <2>7, <2>8, <2>9, <2>10
       DEF Next, ReconcileStep
<1>. QED  BY <1>1, <1>2, TypeCorrect, FinalizerKept, ReadyInvariant, ReadyInstalled,
             PTL DEF Spec, StatusContract, Status!Spec

=============================================================================
