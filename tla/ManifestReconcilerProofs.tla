---------------------- MODULE ManifestReconcilerProofs ----------------------
(***************************************************************************)
(* Proofs about ManifestReconciler for every value of its constants: the   *)
(* type invariant, and that a Manifest the controller manages keeps its    *)
(* finalizer while it exists.                                              *)
(***************************************************************************)
EXTENDS ManifestReconciler, TLAPS

-----------------------------------------------------------------------------
(* Lemmas about the writes to the Manifest.                                *)

\* updateManifestStatus keeps a Manifest well formed.
LEMMA StatusWriteType ==
    ASSUME NEW m \in ManifestRecords, NEW s \in States
    PROVE  updateManifestStatus(m, s) \in ManifestRecords
<1>1. m.generation \in 0..MaxGeneration
  BY DEF ManifestRecords, Generations
<1>. QED  BY <1>1 DEF updateManifestStatus, ManifestRecords

\* A write of a well-formed object leaves a well-formed object, whether it
\* lands or fails.
LEMMA ApiWriteType ==
    ASSUME manifest \in ManifestRecords, NEW new \in ManifestRecords, ApiWrite(new)
    PROVE  manifest' \in ManifestRecords
  BY DEF ApiWrite

\* Every state the collector writes is a ManifestState.
LEMMA EndStateType ==
    ASSUME NEW m, NEW e, NEW p
    PROVE  EndState(m, e, p) \in States
  BY DEF EndState, States

\* The records a slot, a worker and Reconcile are reset to are well formed.
LEMMA DefaultsType ==
    /\ FreeRound \in RoundRecords
    /\ IdleWorker \in WorkerRecords
    /\ NoReconcile \in ReconcileRecords
  BY ConstantsAssumption
  DEF FreeRound, RoundRecords, IdleWorker, WorkerRecords, NoReconcile,
      ReconcileRecords, Modes, Generations, Rounds, Installs, Results

\* getManifestForChartPath yields the rendering of some generation.
LEMMA RenderingType ==
    ASSUME rendered \in [Installs -> 0..MaxGeneration],
           NEW i \in Installs, NEW g \in Generations
    PROVE  Rendering(i, g) \in Generations
  BY DEF Rendering, Generations

\* Caching renderings keeps the cache well formed.
LEMMA CacheRenderingType ==
    ASSUME rendered \in [Installs -> 0..MaxGeneration],
           NEW S, NEW g \in Generations
    PROVE  CacheRendering(S, g) \in [Installs -> 0..MaxGeneration]
<1>1. \A i \in Installs : Rendering(i, g) \in 0..MaxGeneration
  BY RenderingType DEF Generations
<1>. QED  BY <1>1 DEF CacheRendering

-----------------------------------------------------------------------------
\* The type invariant holds in every reachable state.
THEOREM TypeCorrect == Spec => []TypeOK
<1>1. Init => TypeOK
  BY ConstantsAssumption
  DEF Init, TypeOK, ManifestRecords, RoundRecords, WorkerRecords,
      ReconcileRecords, FreeRound, IdleWorker, NoReconcile, Installs, Rounds,
      Generations, States, Modes, Results
<1>2. TypeOK /\ [Next]_vars => TypeOK'
  <2> SUFFICES ASSUME TypeOK, [Next]_vars PROVE TypeOK'
    OBVIOUS
  <2>. USE DEF TypeOK
  <2>1. CASE ReconcileMarkDeleting
    BY <2>1, StatusWriteType, ApiWriteType DEF ReconcileMarkDeleting, States
  <2>2. CASE ReconcileAddFinalizer
    <3>1. [manifest EXCEPT !.finalizer = TRUE] \in ManifestRecords
      BY DEF ManifestRecords
    <3>. QED  BY <2>2, <3>1, ApiWriteType DEF ReconcileAddFinalizer
  <2>3. CASE HandleInitialState
    BY <2>3, StatusWriteType, ApiWriteType DEF HandleInitialState, States
  <2>4. CASE HandleErrorState
    BY <2>4, StatusWriteType, ApiWriteType DEF HandleErrorState, States
  <2>5. CASE HandleReadyState
    <3>1. /\ updateManifestStatus(manifest, "Processing") \in ManifestRecords
          /\ updateManifestStatus(manifest, "Error") \in ManifestRecords
      BY StatusWriteType DEF States
    <3>2. manifest' \in ManifestRecords
      BY <2>5, <3>1, ApiWriteType DEF HandleReadyState
    <3>3. manifest.generation \in Generations
      BY DEF ManifestRecords, Generations
    <3>4. rendered' \in [Installs -> 0..MaxGeneration]
      <4>1. \A S : CacheRendering(S, manifest.generation) \in [Installs -> 0..MaxGeneration]
        BY <3>3, CacheRenderingType
      <4>. QED  BY <2>5, <4>1 DEF HandleReadyState
    <3>. QED  BY <2>5, <3>2, <3>4 DEF HandleReadyState
  <2>6. ASSUME NEW mode \in Modes, sendJobToInstallChannel(mode)
        PROVE TypeOK'
    <3>1. ASSUME NEW r \in Rounds, StartRound(mode, r) PROVE TypeOK'
      <4>1. [FreeRound EXCEPT !.active = TRUE, !.mode = mode,
                              !.gen = manifest.generation] \in RoundRecords
        BY DefaultsType DEF FreeRound, RoundRecords, ManifestRecords, Generations
      <4>2. [busy |-> TRUE, round |-> r, next |-> 1] \in ReconcileRecords
        BY ConstantsAssumption DEF ReconcileRecords, Installs
      <4>. QED  BY <3>1, <4>1, <4>2 DEF StartRound
    <3>2. CASE PrepareFails
      BY <3>2, ConstantsAssumption DEF PrepareFails
    <3>. QED  BY <2>6, <3>1, <3>2 DEF sendJobToInstallChannel
  <2>7. CASE HandleProcessingState
    BY <2>7, <2>6 DEF HandleProcessingState, Modes
  <2>8. CASE HandleDeletingState
    BY <2>8, <2>6 DEF HandleDeletingState, Modes
  <2>9. ASSUME NEW w \in Workers, SendJob(w) PROVE TypeOK'
    <3>1. [phase |-> "busy", round |-> reconcile.round,
           install |-> reconcile.next, result |-> "ready"] \in WorkerRecords
      BY DEF WorkerRecords, ReconcileRecords, Results
    <3>2. reconcile.next # NInstalls => reconcile.next + 1 \in Installs
      BY ConstantsAssumption DEF ReconcileRecords, Installs
    <3>3. reconcile' \in ReconcileRecords
      BY <2>9, <3>2, DefaultsType DEF SendJob, ReconcileRecords
    <3>. QED  BY <2>9, <3>1, <3>3 DEF SendJob
  <2>10. ASSUME NEW w \in Workers, HandleCharts(w) PROVE TypeOK'
    <3>. DEFINE r == workers[w].round
                i == workers[w].install
    <3>1. r \in Rounds /\ i \in Installs
      BY DEF WorkerRecords
    <3>2. Rendering(i, rounds[r].gen) \in 0..MaxGeneration
      BY <3>1, RenderingType DEF RoundRecords, Generations
    <3>3. PICK o \in Outcomes :
            /\ cluster' = IF o.applied
                          THEN [cluster EXCEPT ![i] = Rendering(i, rounds[r].gen)]
                          ELSE cluster
            /\ rendered' = IF o.cached
                           THEN CacheRendering({i}, rounds[r].gen)
                           ELSE rendered
            /\ workers' = [workers EXCEPT ![w].phase = "responding",
                                          ![w].result = o.result]
      BY <2>10 DEF HandleCharts
    <3>4. o.result \in Results
      BY DEF Outcomes, Results
    <3>5. cluster' \in [Installs -> 0..MaxGeneration]
      BY <3>1, <3>2, <3>3
    <3>6. workers' \in [Workers -> WorkerRecords]
      BY <3>3, <3>4 DEF WorkerRecords
    <3>7. rendered' \in [Installs -> 0..MaxGeneration]
      BY <3>1, <3>3, CacheRenderingType DEF RoundRecords
    <3>. QED  BY <2>10, <3>5, <3>6, <3>7 DEF HandleCharts
  <2>11. ASSUME NEW w \in Workers, DeliverResponse(w) PROVE TypeOK'
    <3>. DEFINE r == workers[w].round
    <3>1. r \in Rounds
      BY DEF WorkerRecords
    <3>2. rounds[r].received < NInstalls => rounds[r].received + 1 \in 0..NInstalls
      BY <3>1, ConstantsAssumption DEF RoundRecords
    <3>3. rounds' \in [Rounds -> RoundRecords]
      BY <2>11, <3>1, <3>2 DEF DeliverResponse, RoundRecords
    <3>4. workers' \in [Workers -> WorkerRecords]
      BY <2>11, DefaultsType DEF DeliverResponse
    <3>. QED  BY <2>11, <3>3, <3>4 DEF DeliverResponse
  <2>12. ASSUME NEW r \in Rounds, ResponseHandlerFunc(r) PROVE TypeOK'
    <3>1. rounds' \in [Rounds -> RoundRecords]
      BY <2>12, DefaultsType DEF ResponseHandlerFunc
    <3>2. manifest' \in ManifestRecords
      <4>1. [manifest EXCEPT !.finalizer = FALSE, !.exists = FALSE] \in ManifestRecords
        BY DEF ManifestRecords
      <4>2. \A e, p \in BOOLEAN :
              updateManifestStatus(manifest, EndState(manifest, e, p)) \in ManifestRecords
        BY StatusWriteType, EndStateType
      <4>. QED  BY <2>12, <4>1, <4>2, ApiWriteType DEF ResponseHandlerFunc, RoundRecords
    <3>. QED  BY <2>12, <3>1, <3>2 DEF ResponseHandlerFunc
  <2>13. CASE UserDelete
    BY <2>13 DEF UserDelete, ManifestRecords
  <2>14. CASE UserUpdateSpec
    <3>1. manifest.generation + 1 \in Generations
      BY <2>14, ConstantsAssumption DEF UserUpdateSpec, ManifestRecords, Generations
    <3>. QED  BY <2>14, <3>1 DEF UserUpdateSpec, ManifestRecords
  <2>15. CASE Restart
    <3>1. restarts + 1 \in 0..MaxRestarts
      BY <2>15, ConstantsAssumption DEF Restart
    <3>. QED  BY <2>15, <3>1, DefaultsType, ConstantsAssumption DEF Restart
  <2>16. CASE Terminated \/ UNCHANGED vars
    BY <2>16 DEF Terminated, vars
  <2>. QED
    BY <2>1, <2>2, <2>3, <2>4, <2>5, <2>7, <2>8, <2>9, <2>10, <2>11, <2>12,
       <2>13, <2>14, <2>15, <2>16 DEF Next, ReconcileStep
<1>. QED
  BY <1>1, <1>2, PTL DEF Spec

-----------------------------------------------------------------------------
(* The finalizer of a managed Manifest.                                    *)

\* A collector is only running for a Manifest that has left the initial
\* state: rounds are started by HandleProcessingState and
\* HandleDeletingState, and no write ever resets the status to "".
RoundsStarted ==
    \A r \in Rounds : rounds[r].active /\ manifest.exists => manifest.state # "Initial"

\* The inductive strengthening of FinalizerWhileManaged.
FinalizerInv == FinalizerWhileManaged /\ RoundsStarted

\* A status write changes only the state and the observed generation.
LEMMA StatusWriteFields ==
    ASSUME NEW m, NEW s
    PROVE  LET n == updateManifestStatus(m, s)
           IN  /\ n.exists = m.exists
               /\ n.deletionTimestamp = m.deletionTimestamp
               /\ n.finalizer = m.finalizer
               /\ n.state = s
  BY DEF updateManifestStatus

\* A status write of a state other than "Initial" to a Manifest that holds
\* the finalizer keeps FinalizerInv, whether it lands or fails.
LEMMA StatusWriteKeepsInv ==
    ASSUME TypeOK, FinalizerInv, NEW s \in States \ {"Initial"},
           manifest.exists => manifest.finalizer,
           ApiWrite(updateManifestStatus(manifest, s)),
           \A r \in Rounds : rounds'[r].active => rounds[r].active
    PROVE  FinalizerInv'
  <1>1. CASE manifest' = updateManifestStatus(manifest, s)
    BY <1>1, StatusWriteFields DEF FinalizerInv, FinalizerWhileManaged, RoundsStarted
  <1>2. CASE UNCHANGED manifest
    BY <1>2 DEF FinalizerInv, FinalizerWhileManaged, RoundsStarted
  <1>. QED  BY <1>1, <1>2 DEF ApiWrite

\* Spec P2 for every instance: while a Manifest that the controller gave a
\* status, or that is being deleted, exists, it carries the finalizer.
THEOREM FinalizerKept == Spec => []FinalizerWhileManaged
<1>1. Init => FinalizerInv
  BY DEF Init, FinalizerInv, FinalizerWhileManaged, RoundsStarted, FreeRound
<1>2. TypeOK /\ FinalizerInv /\ [Next]_vars => FinalizerInv'
  <2> SUFFICES ASSUME TypeOK, FinalizerInv, [Next]_vars PROVE FinalizerInv'
    OBVIOUS
  <2>. DEFINE Keep == manifest.exists => manifest.finalizer
  <2>1. CASE ReconcileMarkDeleting
    <3>1. Keep
      BY <2>1 DEF ReconcileMarkDeleting, ReconcileEnabled, FinalizerInv,
                  FinalizerWhileManaged
    <3>. QED  BY <2>1, <3>1, StatusWriteKeepsInv DEF ReconcileMarkDeleting, States
  <2>2. CASE ReconcileAddFinalizer
    <3>1. UNCHANGED rounds
      BY <2>2 DEF ReconcileAddFinalizer
    <3>2. CASE manifest' = [manifest EXCEPT !.finalizer = TRUE]
      <4>1. /\ manifest'.finalizer
            /\ manifest'.exists = manifest.exists
            /\ manifest'.state = manifest.state
        BY <3>2 DEF TypeOK, ManifestRecords
      <4>. QED  BY <3>1, <4>1 DEF FinalizerInv, FinalizerWhileManaged, RoundsStarted
    <3>3. CASE UNCHANGED manifest
      BY <3>1, <3>3 DEF FinalizerInv, FinalizerWhileManaged, RoundsStarted
    <3>. QED  BY <2>2, <3>2, <3>3 DEF ReconcileAddFinalizer, ApiWrite
  <2>3. CASE HandleInitialState \/ HandleErrorState
    BY <2>3, StatusWriteKeepsInv
    DEF HandleInitialState, HandleErrorState, ReachesStateSwitch, States
  <2>4. CASE HandleReadyState
    <3>1. Keep /\ UNCHANGED rounds
      BY <2>4 DEF HandleReadyState, ReachesStateSwitch
    <3>2. CASE UNCHANGED manifest
      BY <3>1, <3>2 DEF FinalizerInv, FinalizerWhileManaged, RoundsStarted
    <3>3. CASE ~UNCHANGED manifest
      <4>1. \E s \in {"Processing", "Error"} : ApiWrite(updateManifestStatus(manifest, s))
        BY <2>4, <3>3 DEF HandleReadyState
      <4>. QED  BY <3>1, <4>1, StatusWriteKeepsInv DEF States
    <3>. QED  BY <3>2, <3>3
  <2>5. CASE HandleProcessingState \/ HandleDeletingState
    <3>1. manifest.state \in {"Processing", "Deleting"}
      BY <2>5 DEF HandleProcessingState, HandleDeletingState
    <3>2. PICK mode \in Modes : sendJobToInstallChannel(mode)
      BY <2>5 DEF HandleProcessingState, HandleDeletingState, Modes
    <3>3. ASSUME NEW r \in Rounds, StartRound(mode, r) PROVE FinalizerInv'
      BY <3>1, <3>3 DEF StartRound, FinalizerInv, FinalizerWhileManaged, RoundsStarted
    <3>4. CASE PrepareFails
      BY <3>4 DEF PrepareFails, FinalizerInv, FinalizerWhileManaged, RoundsStarted
    <3>. QED  BY <3>2, <3>3, <3>4 DEF sendJobToInstallChannel
  <2>6. ASSUME NEW w \in Workers,
               SendJob(w) \/ HandleCharts(w) \/ DeliverResponse(w)
        PROVE  FinalizerInv'
    <3>1. UNCHANGED manifest /\ \A r \in Rounds : rounds'[r].active = rounds[r].active
      <4>1. CASE SendJob(w) \/ HandleCharts(w)
        BY <4>1 DEF SendJob, HandleCharts
      <4>2. CASE DeliverResponse(w)
        <5>1. workers[w].round \in Rounds
          BY DEF TypeOK, WorkerRecords
        <5>2. rounds \in [Rounds -> RoundRecords]
          BY DEF TypeOK
        <5>. QED  BY <4>2, <5>1, <5>2 DEF DeliverResponse, RoundRecords
      <4>. QED  BY <2>6, <4>1, <4>2
    <3>. QED  BY <3>1 DEF FinalizerInv, FinalizerWhileManaged, RoundsStarted
  <2>7. ASSUME NEW r \in Rounds, ResponseHandlerFunc(r) PROVE FinalizerInv'
    <3>1. \A q \in Rounds : rounds'[q].active => rounds[q].active
      BY <2>7 DEF ResponseHandlerFunc, FreeRound, TypeOK
    <3>2. manifest.exists => manifest.finalizer
      BY <2>7 DEF ResponseHandlerFunc, FinalizerInv, FinalizerWhileManaged,
                  RoundsStarted
    <3>3. CASE ~manifest'.exists
      BY <3>3 DEF FinalizerInv, FinalizerWhileManaged, RoundsStarted
    <3>4. CASE manifest'.exists
      <4>1. PICK s \in States \ {"Initial"} :
                ApiWrite(updateManifestStatus(manifest, s))
        <5>. DEFINE e == rounds[r].errorState
                    p == rounds[r].processing
        <5>1. \A x, y \in BOOLEAN : EndState(manifest, x, y) \in States \ {"Initial"}
          BY DEF EndState, States
        <5>2. e \in BOOLEAN /\ p \in BOOLEAN
          BY DEF TypeOK, RoundRecords
        <5>3. manifest'.exists => manifest.exists
          BY <2>7, <3>4 DEF ResponseHandlerFunc
        <5>4. CASE ~e /\ manifest.deletionTimestamp /\ ~p
          <6>1. manifest' # [manifest EXCEPT !.finalizer = FALSE, !.exists = FALSE]
            BY <3>4 DEF TypeOK, ManifestRecords
          <6>2. ApiWrite(updateManifestStatus(manifest, EndState(manifest, TRUE, p)))
            BY <2>7, <3>4, <5>3, <5>4, <6>1 DEF ResponseHandlerFunc
          <6>. QED  BY <5>1, <5>2, <6>2
        <5>5. CASE ~(~e /\ manifest.deletionTimestamp /\ ~p)
          <6>1. ApiWrite(updateManifestStatus(manifest, EndState(manifest, e, p)))
            BY <2>7, <3>4, <5>3, <5>5 DEF ResponseHandlerFunc
          <6>. QED  BY <5>1, <5>2, <6>1
        <5>. QED  BY <5>4, <5>5
      <4>. QED  BY <3>1, <3>2, <4>1, StatusWriteKeepsInv
    <3>. QED  BY <3>3, <3>4
  <2>8. CASE UserDelete
    BY <2>8 DEF UserDelete, FinalizerInv, FinalizerWhileManaged, RoundsStarted
  <2>9. CASE UserUpdateSpec
    BY <2>9 DEF UserUpdateSpec, FinalizerInv, FinalizerWhileManaged, RoundsStarted
  <2>10. CASE Restart
    BY <2>10 DEF Restart, FreeRound, FinalizerInv, FinalizerWhileManaged, RoundsStarted
  <2>11. CASE Terminated \/ UNCHANGED vars
    BY <2>11 DEF Terminated, vars, FinalizerInv, FinalizerWhileManaged, RoundsStarted
  <2>. QED
    BY <2>1, <2>2, <2>3, <2>4, <2>5, <2>6, <2>7, <2>8, <2>9, <2>10, <2>11
    DEF Next, ReconcileStep
<1>. QED
  BY <1>1, <1>2, TypeCorrect, PTL DEF Spec, FinalizerInv
-----------------------------------------------------------------------------
\* Reconcile and setProcessedState, for every instance: once the deletion
\* timestamp is set, every status change is to Deleting or Error.  The
\* status switch is reached with the timestamp set only in Deleting, and
\* setProcessedState writes Deleting or Error when the timestamp is set.
THEOREM DeletionTransitionsHold == Spec => DeletionTransitions
<1>. DEFINE A == manifest.deletionTimestamp /\ manifest'.state # manifest.state
                   => manifest'.state \in {"Deleting", "Error"}
<1>1. ASSUME NEW st, manifest.deletionTimestamp => st \in {"Deleting", "Error"},
             ApiWrite(updateManifestStatus(manifest, st))
      PROVE  A
  BY <1>1, StatusWriteFields DEF ApiWrite
<1>2. TypeOK /\ [Next]_vars => A
  <2> SUFFICES ASSUME TypeOK, [Next]_vars PROVE A
    OBVIOUS
  <2>1. CASE ReconcileMarkDeleting
    BY <2>1, <1>1 DEF ReconcileMarkDeleting
  <2>2. CASE ReconcileAddFinalizer
    <3>1. CASE manifest' = [manifest EXCEPT !.finalizer = TRUE]
      BY <3>1 DEF TypeOK, ManifestRecords
    <3>. QED  BY <2>2, <3>1 DEF ReconcileAddFinalizer, ApiWrite
  <2>3. CASE HandleInitialState \/ HandleErrorState \/ HandleReadyState
    <3>1. ~manifest.deletionTimestamp
      BY <2>3 DEF HandleInitialState, HandleErrorState, HandleReadyState,
                  ReachesStateSwitch
    <3>. QED  BY <3>1
  <2>4. CASE HandleProcessingState \/ HandleDeletingState
    BY <2>4 DEF HandleProcessingState, HandleDeletingState, sendJobToInstallChannel,
                StartRound, PrepareFails
  <2>5. CASE \E w \in Workers : SendJob(w) \/ HandleCharts(w) \/ DeliverResponse(w)
    BY <2>5 DEF SendJob, HandleCharts, DeliverResponse
  <2>6. ASSUME NEW r \in Rounds, ResponseHandlerFunc(r) PROVE A
    <3>. DEFINE e == rounds[r].errorState
                p == rounds[r].processing
    <3>1. \A x, y : manifest.deletionTimestamp
                       => EndState(manifest, x, y) \in {"Deleting", "Error"}
      BY DEF EndState
    <3>2. CASE manifest' = [manifest EXCEPT !.finalizer = FALSE, !.exists = FALSE]
      BY <3>2 DEF TypeOK, ManifestRecords
    <3>3. CASE ApiWrite(updateManifestStatus(manifest, EndState(manifest, TRUE, p)))
      BY <3>1, <3>3, <1>1
    <3>4. CASE ApiWrite(updateManifestStatus(manifest, EndState(manifest, e, p)))
      BY <3>1, <3>4, <1>1
    <3>. QED  BY <2>6, <3>2, <3>3, <3>4 DEF ResponseHandlerFunc
  <2>7. CASE UserDelete
    BY <2>7 DEF UserDelete
  <2>8. CASE UserUpdateSpec \/ Restart \/ Terminated \/ UNCHANGED vars
    <3>1. manifest'.state = manifest.state
      <4>1. CASE UserUpdateSpec
        BY <4>1 DEF UserUpdateSpec, TypeOK, ManifestRecords
      <4>2. CASE Restart \/ Terminated \/ UNCHANGED vars
        BY <4>2 DEF Restart, Terminated, vars
      <4>. QED  BY <2>8, <4>1, <4>2
    <3>. QED  BY <3>1
  <2>. QED  BY <2>1, <2>2, <2>3, <2>4, <2>5, <2>6, <2>7, <2>8 DEF Next, ReconcileStep
<1>. QED  BY <1>2, TypeCorrect, PTL DEF Spec, DeletionTransitions
=============================================================================
