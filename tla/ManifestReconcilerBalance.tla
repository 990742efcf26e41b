--------------------- MODULE ManifestReconcilerBalance ----------------------
(***************************************************************************)
(* Proofs, for every value of the constants, that the requests and the     *)
(* responses of every dispatch round balance (ResponsesBalanced), and that *)
(* a Manifest reported Ready has every install applied                     *)
(* (ReadyImpliesInstalled).                                                *)
(***************************************************************************)
EXTENDS ManifestReconcilerProofs, FiniteSetTheorems

\* The workers that hold a request of round r in the worker map ws.
HoldersOf(ws, r) == {w \in Workers : ws[w].phase # "idle" /\ ws[w].round = r}

-----------------------------------------------------------------------------
(* Counting the requests workers hold.                                     *)

\* The holders of a round are finitely many, whatever the worker map.
LEMMA HoldersFinite ==
    ASSUME NEW ws, NEW r
    PROVE  /\ IsFiniteSet(HoldersOf(ws, r))
           /\ Cardinality(HoldersOf(ws, r)) \in Nat
<1>1. HoldersOf(ws, r) \in SUBSET Workers
  BY DEF HoldersOf
<1>2. IsFiniteSet(HoldersOf(ws, r))
  BY <1>1, ConstantsAssumption, FS_Subset
<1>. QED  BY <1>2, FS_CardinalityType

\* Holding counts the holders, in every state.
LEMMA HoldingDef ==
    ASSUME NEW r
    PROVE  /\ Holding(r) = Cardinality(HoldersOf(workers, r))
           /\ Holding(r)' = Cardinality(HoldersOf(workers', r))
  BY DEF Holding, HoldersOf

\* A round nobody holds a request of has no holders.
LEMMA NoHolders ==
    ASSUME NEW ws, NEW r, Cardinality(HoldersOf(ws, r)) = 0,
           NEW w \in Workers, ws[w].phase # "idle"
    PROVE  ws[w].round # r
<1>1. HoldersOf(ws, r) = {}
  BY HoldersFinite, FS_EmptySet
<1>. QED  BY <1>1 DEF HoldersOf

\* A worker taking a request of round q adds itself to the holders of q,
\* and leaves the holders of every other round as they were.
LEMMA TakeRequest ==
    ASSUME NEW ws, NEW ws2, NEW w \in Workers, ws[w].phase = "idle",
           ws2[w].phase # "idle", NEW q, ws2[w].round = q,
           \A x \in Workers \ {w} : ws2[x] = ws[x], NEW r
    PROVE  Cardinality(HoldersOf(ws2, r))
             = IF r = q THEN Cardinality(HoldersOf(ws, r)) + 1
               ELSE Cardinality(HoldersOf(ws, r))
<1>1. CASE r = q
  <2>1. HoldersOf(ws2, r) = HoldersOf(ws, r) \cup {w}
    BY <1>1 DEF HoldersOf
  <2>2. w \notin HoldersOf(ws, r)
    BY DEF HoldersOf
  <2>3. IsFiniteSet(HoldersOf(ws, r))
    BY HoldersFinite
  <2>4. Cardinality(HoldersOf(ws, r) \cup {w}) = Cardinality(HoldersOf(ws, r)) + 1
    BY <2>2, <2>3, FS_AddElement
  <2>. QED  BY <1>1, <2>1, <2>4
<1>2. CASE r # q
  <2>1. HoldersOf(ws2, r) = HoldersOf(ws, r)
    BY <1>2 DEF HoldersOf
  <2>. QED  BY <1>2, <2>1
<1>. QED  BY <1>1, <1>2

\* A worker that returns to idle leaves the holders of its round.
LEMMA ReturnRequest ==
    ASSUME NEW ws, NEW ws2, NEW w \in Workers, ws[w].phase # "idle",
           ws2[w].phase = "idle", \A x \in Workers \ {w} : ws2[x] = ws[x], NEW r
    PROVE  Cardinality(HoldersOf(ws2, r))
             = IF r = ws[w].round THEN Cardinality(HoldersOf(ws, r)) - 1
               ELSE Cardinality(HoldersOf(ws, r))
<1>1. CASE r = ws[w].round
  <2>1. HoldersOf(ws2, r) = HoldersOf(ws, r) \ {w}
    BY <1>1 DEF HoldersOf
  <2>2. w \in HoldersOf(ws, r)
    BY <1>1 DEF HoldersOf
  <2>3. IsFiniteSet(HoldersOf(ws, r))
    BY HoldersFinite
  <2>4. Cardinality(HoldersOf(ws, r) \ {w}) = Cardinality(HoldersOf(ws, r)) - 1
    BY <2>2, <2>3, FS_RemoveElement
  <2>. QED  BY <1>1, <2>1, <2>4
<1>2. CASE r # ws[w].round
  <2>1. HoldersOf(ws2, r) = HoldersOf(ws, r)
    BY <1>2 DEF HoldersOf
  <2>. QED  BY <1>2, <2>1
<1>. QED  BY <1>1, <1>2

\* Holding and Unsent are natural numbers, before and after a step.
LEMMA CountsNat ==
    ASSUME NEW r
    PROVE  /\ Holding(r) \in Nat /\ Holding(r)' \in Nat
           /\ TypeOK => Unsent(r) \in Nat
           /\ TypeOK' => Unsent(r)' \in Nat
<1>1. Holding(r) \in Nat /\ Holding(r)' \in Nat
  BY HoldingDef, HoldersFinite
<1>2. TypeOK => Unsent(r) \in Nat
  BY ConstantsAssumption DEF TypeOK, ReconcileRecords, Installs, Unsent
<1>3. TypeOK' => Unsent(r)' \in Nat
  BY ConstantsAssumption DEF TypeOK, ReconcileRecords, Installs, Unsent
<1>. QED  BY <1>1, <1>2, <1>3

-----------------------------------------------------------------------------
(* Every request sent is answered once, to its own collector.              *)

\* The balance of one round: read responses, requests held by workers and
\* requests not yet sent add up to len(Installs) while the round is active.
Balanced(r) ==
    rounds[r].received + Holding(r) + Unsent(r)
        = IF rounds[r].active THEN NInstalls ELSE 0

\* A step that leaves Reconcile's send loop, the collectors and the workers
\* alone keeps every round balanced.
LEMMA BalanceUnchanged ==
    ASSUME NEW r, Balanced(r), UNCHANGED <<reconcile, rounds, workers>>
    PROVE  Balanced(r)'
  BY DEF Balanced, Holding, Unsent

\* A free slot balances at 0, so nobody holds a request of it, and Reconcile
\* is not sending it.
LEMMA FreeRoundEmpty ==
    ASSUME TypeOK, NEW r \in Rounds, Balanced(r), ~rounds[r].active
    PROVE  Holding(r) = 0 /\ Unsent(r) = 0
  BY CountsNat DEF Balanced, TypeOK, RoundRecords

\* A round that has read len(Installs) responses has none left to read.
LEMMA FullRoundEmpty ==
    ASSUME TypeOK, NEW r \in Rounds, Balanced(r), rounds[r].active,
           rounds[r].received = NInstalls
    PROVE  Holding(r) = 0 /\ Unsent(r) = 0
  BY CountsNat, ConstantsAssumption DEF Balanced

\* Spec P1, for every number of installs, workers and slots: the requests
\* Reconcile sends, the ones the workers hold and the responses each
\* collector reads balance, so no response is lost, duplicated or read by
\* another Manifest's collector.
THEOREM ResponsesBalancedHolds == Spec => []ResponsesBalanced
<1>1. Init => ResponsesBalanced
  <2> SUFFICES ASSUME Init, NEW r \in Rounds PROVE Balanced(r)
    BY DEF ResponsesBalanced, Balanced
  <2>1. HoldersOf(workers, r) = {}
    BY DEF Init, HoldersOf, IdleWorker
  <2>2. Holding(r) = 0
    BY <2>1, HoldingDef, HoldersFinite, FS_EmptySet
  <2>. QED  BY <2>2 DEF Init, FreeRound, NoReconcile, Unsent, Balanced
<1>2. TypeOK /\ TypeOK' /\ ResponsesBalanced /\ [Next]_vars => ResponsesBalanced'
  <2> SUFFICES ASSUME TypeOK, TypeOK', ResponsesBalanced, [Next]_vars,
                      NEW q \in Rounds
               PROVE  Balanced(q)'
    BY DEF ResponsesBalanced, Balanced
  <2>0. Balanced(q)
    BY DEF ResponsesBalanced, Balanced
  <2>1. ASSUME NEW mode, NEW r \in Rounds, ReconcileEnabled, StartRound(mode, r)
        PROVE  Balanced(q)'
    <3>1. Holding(q)' = Holding(q)
      BY <2>1 DEF StartRound, Holding
    <3>2. Unsent(q) = 0
      BY <2>1 DEF ReconcileEnabled, Unsent
    <3>3. CASE q = r
      <4>1. Holding(q) = 0
        BY <2>0, <2>1, <3>3, FreeRoundEmpty DEF StartRound
      <4>2. rounds'[q].received = 0 /\ rounds'[q].active
        BY <2>1, <3>3 DEF StartRound, TypeOK, FreeRound
      <4>3. Unsent(q)' = NInstalls
        BY <2>1, <3>3, ConstantsAssumption DEF StartRound, Unsent
      <4>. QED  BY <3>1, <4>1, <4>2, <4>3, ConstantsAssumption DEF Balanced
    <3>4. CASE q # r
      <4>1. rounds'[q] = rounds[q]
        BY <2>1, <3>4 DEF StartRound, TypeOK
      <4>2. Unsent(q)' = 0
        BY <2>1, <3>4 DEF StartRound, Unsent
      <4>. QED  BY <2>0, <3>1, <3>2, <4>1, <4>2 DEF Balanced
    <3>. QED  BY <3>3, <3>4
  <2>2. CASE ReconcileStep
    <3>1. ASSUME NEW mode, ReachesStateSwitch, sendJobToInstallChannel(mode)
          PROVE  Balanced(q)'
      <4>1. CASE \E r \in Rounds : StartRound(mode, r)
        BY <3>1, <4>1, <2>1 DEF ReachesStateSwitch
      <4>2. CASE PrepareFails
        BY <2>0, <4>2, BalanceUnchanged DEF PrepareFails
      <4>. QED  BY <3>1, <4>1, <4>2 DEF sendJobToInstallChannel
    <3>2. CASE HandleProcessingState
      BY <3>1, <3>2 DEF HandleProcessingState
    <3>3. CASE HandleDeletingState
      BY <3>1, <3>3 DEF HandleDeletingState
    <3>4. CASE ~HandleProcessingState /\ ~HandleDeletingState
      <4>1. UNCHANGED <<reconcile, rounds, workers>>
        BY <2>2, <3>4
        DEF ReconcileStep, ReconcileMarkDeleting, ReconcileAddFinalizer,
            HandleInitialState, HandleErrorState, HandleReadyState
      <4>. QED  BY <2>0, <4>1, BalanceUnchanged
    <3>. QED  BY <3>2, <3>3, <3>4
  <2>3. ASSUME NEW w \in Workers, SendJob(w) PROVE Balanced(q)'
    <3>1. Cardinality(HoldersOf(workers', q))
            = IF q = reconcile.round THEN Cardinality(HoldersOf(workers, q)) + 1
              ELSE Cardinality(HoldersOf(workers, q))
      <4>1. /\ workers[w].phase = "idle"
            /\ workers'[w].phase # "idle"
            /\ workers'[w].round = reconcile.round
            /\ \A x \in Workers \ {w} : workers'[x] = workers[x]
        BY <2>3 DEF SendJob, TypeOK
      <4>. QED  BY <4>1, TakeRequest
    <3>2. Holding(q)' = IF q = reconcile.round THEN Holding(q) + 1 ELSE Holding(q)
      BY <3>1, HoldingDef
    <3>3. Unsent(q)' = IF q = reconcile.round THEN Unsent(q) - 1 ELSE Unsent(q)
      BY <2>3, ConstantsAssumption DEF SendJob, Unsent, NoReconcile, TypeOK,
         ReconcileRecords, Installs
    <3>4. rounds' = rounds
      BY <2>3 DEF SendJob
    <3>5. rounds[q].received \in Nat
      BY DEF TypeOK, RoundRecords
    <3>. QED  BY <2>0, <3>2, <3>3, <3>4, <3>5, CountsNat DEF Balanced
  <2>4. ASSUME NEW w \in Workers, HandleCharts(w) PROVE Balanced(q)'
    <3>1. HoldersOf(workers', q) = HoldersOf(workers, q)
      BY <2>4 DEF HandleCharts, HoldersOf, TypeOK
    <3>2. Holding(q)' = Holding(q)
      BY <3>1, HoldingDef
    <3>. QED  BY <2>0, <2>4, <3>2 DEF HandleCharts, Balanced, Unsent
  <2>5. ASSUME NEW w \in Workers, DeliverResponse(w) PROVE Balanced(q)'
    <3>. DEFINE r == workers[w].round
    <3>1. Cardinality(HoldersOf(workers', q))
            = IF q = r THEN Cardinality(HoldersOf(workers, q)) - 1
              ELSE Cardinality(HoldersOf(workers, q))
      <4>1. /\ workers[w].phase # "idle"
            /\ workers'[w].phase = "idle"
            /\ \A x \in Workers \ {w} : workers'[x] = workers[x]
        BY <2>5 DEF DeliverResponse, TypeOK, IdleWorker
      <4>. QED  BY <4>1, ReturnRequest
    <3>2. Holding(q)' = IF q = r THEN Holding(q) - 1 ELSE Holding(q)
      BY <3>1, HoldingDef
    <3>3. r \in Rounds
      BY DEF TypeOK, WorkerRecords
    <3>4. rounds'[q] = IF q = r
                       THEN [rounds[q] EXCEPT
                               !.received = @ + 1,
                               !.errorState = @ \/ workers[w].result = "error",
                               !.processing = @ \/ workers[w].result = "processing"]
                       ELSE rounds[q]
      BY <2>5, <3>3 DEF DeliverResponse, TypeOK
    <3>5. /\ rounds'[q].received = IF q = r THEN rounds[q].received + 1
                                   ELSE rounds[q].received
          /\ rounds'[q].active = rounds[q].active
      BY <3>4 DEF TypeOK, RoundRecords
    <3>6. Unsent(q)' = Unsent(q)
      BY <2>5 DEF DeliverResponse, Unsent
    <3>. QED  BY <2>0, <3>2, <3>5, <3>6, CountsNat DEF Balanced, TypeOK, RoundRecords
  <2>6. ASSUME NEW r \in Rounds, ResponseHandlerFunc(r) PROVE Balanced(q)'
    <3>1. Holding(q)' = Holding(q) /\ Unsent(q)' = Unsent(q)
      BY <2>6 DEF ResponseHandlerFunc, Holding, Unsent
    <3>2. CASE q = r
      <4>1. Holding(q) = 0 /\ Unsent(q) = 0
        BY <2>0, <2>6, <3>2, FullRoundEmpty DEF ResponseHandlerFunc
      <4>2. rounds'[q] = FreeRound
        BY <2>6, <3>2 DEF ResponseHandlerFunc, TypeOK
      <4>. QED  BY <3>1, <4>1, <4>2 DEF FreeRound, Balanced
    <3>3. CASE q # r
      <4>1. rounds'[q] = rounds[q]
        BY <2>6, <3>3 DEF ResponseHandlerFunc, TypeOK
      <4>. QED  BY <2>0, <3>1, <4>1 DEF Balanced
    <3>. QED  BY <3>2, <3>3
  <2>7. CASE Restart
    <3>1. HoldersOf(workers', q) = {}
      BY <2>7 DEF Restart, HoldersOf, IdleWorker
    <3>2. Holding(q)' = 0
      BY <3>1, HoldingDef, HoldersFinite, FS_EmptySet
    <3>. QED  BY <2>7, <3>2 DEF Restart, FreeRound, NoReconcile, Unsent, Balanced
  <2>8. CASE UserDelete \/ UserUpdateSpec \/ Terminated \/ UNCHANGED vars
    <3>1. UNCHANGED <<reconcile, rounds, workers>>
      BY <2>8 DEF UserDelete, UserUpdateSpec, Terminated, vars
    <3>. QED  BY <2>0, <3>1, BalanceUnchanged
  <2>. QED  BY <2>2, <2>3, <2>4, <2>5, <2>6, <2>7, <2>8 DEF Next
<1>. QED  BY <1>1, <1>2, TypeCorrect, PTL DEF Spec

-----------------------------------------------------------------------------
(* A Manifest reported Ready has every install applied.                    *)

\* The next request Reconcile sends for round r (len(Installs) + 1 when it
\* sends none), and the workers holding a request of r.
Pos(r) == IF reconcile.busy /\ reconcile.round = r THEN reconcile.next ELSE NInstalls + 1
Holders(r) == HoldersOf(workers, r)

\* A worker holds a request of an active round only.
HeldActive ==
    \A w \in Workers : workers[w].phase # "idle" => rounds[workers[w].round].active

\* Reconcile sends the requests of an active round only.
SendingActive == reconcile.busy => rounds[reconcile.round].active

\* A worker holds a request Reconcile has already sent.
HeldSent ==
    \A w \in Workers : workers[w].phase # "idle" => workers[w].install < Pos(workers[w].round)

\* Deleting is written only once the deletion timestamp is set.
DeletingMarked == manifest.state = "Deleting" => manifest.deletionTimestamp

\* A delete round runs only while the Manifest is being deleted, and its
\* status is Deleting or Error until the round's collector ends.
DeleteRoundsDeleting ==
    \A r \in Rounds : rounds[r].active /\ rounds[r].mode = "delete" =>
        /\ manifest.deletionTimestamp
        /\ manifest.state \in {"Deleting", "Error"}

\* A create round whose responses so far were all ready, of a Manifest that
\* is not being deleted: the one whose collector may write Ready.
CleanRound(r) ==
    /\ rounds[r].active /\ rounds[r].mode = "create"
    /\ ~rounds[r].errorState /\ ~rounds[r].processing
    /\ ~manifest.deletionTimestamp

\* In a clean round every install whose request was sent and answered has
\* its resources on the cluster.
DeliveredApplied ==
    \A r \in Rounds : CleanRound(r) =>
        \A i \in 1..Pos(r) - 1 :
            (\A w \in Holders(r) : workers[w].install # i) => cluster[i] # 0

\* A ready response of a create round, not yet read, is applied.
ReadyResponseApplied ==
    \A w \in Workers :
        /\ workers[w].phase = "responding" /\ workers[w].result = "ready"
        /\ rounds[workers[w].round].mode = "create"
        /\ ~manifest.deletionTimestamp
        => cluster[workers[w].install] # 0

\* The inductive invariant ReadyImpliesInstalled rests on.
ReadyInv ==
    /\ HeldActive /\ SendingActive /\ HeldSent /\ DeletingMarked
    /\ DeleteRoundsDeleting /\ DeliveredApplied /\ ReadyResponseApplied
    /\ ReadyImpliesInstalled

\* A step that touches only the Manifest, never clears the deletion
\* timestamp, and writes a state that fits the active delete rounds and
\* keeps Ready justified, keeps ReadyInv.
LEMMA ManifestOnlyStep ==
    ASSUME ReadyInv, UNCHANGED <<reconcile, rounds, workers, cluster>>,
           manifest.deletionTimestamp => manifest'.deletionTimestamp,
           DeletingMarked',
           \A r \in Rounds : rounds[r].active /\ rounds[r].mode = "delete"
                                => manifest'.state \in {"Deleting", "Error"},
           ReadyImpliesInstalled'
    PROVE  ReadyInv'
<1>1. (HeldActive /\ SendingActive /\ HeldSent)'
  BY DEF ReadyInv, HeldActive, SendingActive, HeldSent, Pos
<1>2. DeleteRoundsDeleting'
  BY DEF ReadyInv, DeleteRoundsDeleting
<1>3. \A r \in Rounds : CleanRound(r)' => CleanRound(r)
  BY DEF CleanRound
<1>4. DeliveredApplied'
  BY <1>3 DEF ReadyInv, DeliveredApplied, Pos, Holders, HoldersOf
<1>5. ReadyResponseApplied'
  BY DEF ReadyInv, ReadyResponseApplied
<1>. QED  BY <1>1, <1>2, <1>4, <1>5 DEF ReadyInv

\* A status write other than Ready, by a step that touches only the
\* Manifest, keeps ReadyInv whether it lands or fails.
LEMMA StatusWriteKeepsReadyInv ==
    ASSUME ReadyInv, UNCHANGED <<reconcile, rounds, workers, cluster>>,
           NEW st, st # "Ready", st = "Deleting" => manifest.deletionTimestamp,
           (\E r \in Rounds : rounds[r].active /\ rounds[r].mode = "delete")
               => st \in {"Deleting", "Error"},
           ApiWrite(updateManifestStatus(manifest, st))
    PROVE  ReadyInv'
<1>1. CASE manifest' = updateManifestStatus(manifest, st)
  BY <1>1, StatusWriteFields, ManifestOnlyStep
  DEF ReadyInv, DeletingMarked, ReadyImpliesInstalled
<1>2. CASE UNCHANGED manifest
  BY <1>2, ManifestOnlyStep
  DEF ReadyInv, DeletingMarked, DeleteRoundsDeleting, ReadyImpliesInstalled
<1>. QED  BY <1>1, <1>2 DEF ApiWrite

\* With no active delete round, any state fits.
LEMMA NoDeleteRound ==
    ASSUME ReadyInv,
           ~manifest.deletionTimestamp \/ manifest.state \notin {"Deleting", "Error"}
    PROVE  ~\E r \in Rounds : rounds[r].active /\ rounds[r].mode = "delete"
  BY DEF ReadyInv, DeleteRoundsDeleting

\* Reconcile's writes before the collectors: marking Deleting, adding the
\* finalizer and the status switch of HandleInitialState, HandleErrorState
\* and HandleReadyState.
LEMMA ReconcileWritesKeepReadyInv ==
    ASSUME TypeOK, ReadyInv,
           \/ ReconcileMarkDeleting \/ ReconcileAddFinalizer
           \/ HandleInitialState \/ HandleErrorState \/ HandleReadyState
    PROVE  ReadyInv'
<1>1. CASE ReconcileMarkDeleting
  BY <1>1, StatusWriteKeepsReadyInv DEF ReconcileMarkDeleting
<1>2. CASE ReconcileAddFinalizer
  <2>1. CASE manifest' = [manifest EXCEPT !.finalizer = TRUE]
    <3>1. /\ manifest'.deletionTimestamp = manifest.deletionTimestamp
          /\ manifest'.state = manifest.state
          /\ manifest'.exists = manifest.exists
      BY <2>1 DEF TypeOK, ManifestRecords
    <3>. QED  BY <1>2, <3>1, ManifestOnlyStep
         DEF ReconcileAddFinalizer, ReadyInv, DeletingMarked, DeleteRoundsDeleting,
             ReadyImpliesInstalled
  <2>2. CASE UNCHANGED manifest
    BY <1>2, <2>2, ManifestOnlyStep
    DEF ReconcileAddFinalizer, ReadyInv, DeletingMarked, DeleteRoundsDeleting,
        ReadyImpliesInstalled
  <2>. QED  BY <1>2, <2>1, <2>2 DEF ReconcileAddFinalizer, ApiWrite
<1>3. CASE HandleInitialState \/ HandleErrorState
  <2>1. ~manifest.deletionTimestamp \/ manifest.state \notin {"Deleting", "Error"}
    BY <1>3 DEF HandleInitialState, HandleErrorState, ReachesStateSwitch
  <2>. QED  BY <1>3, <2>1, NoDeleteRound, StatusWriteKeepsReadyInv
       DEF HandleInitialState, HandleErrorState
<1>4. CASE HandleReadyState
  <2>1. ~\E r \in Rounds : rounds[r].active /\ rounds[r].mode = "delete"
    BY <1>4, NoDeleteRound DEF HandleReadyState
  <2>2. UNCHANGED <<reconcile, rounds, workers, cluster>>
    BY <1>4 DEF HandleReadyState
  <2>3. CASE UNCHANGED manifest
    BY <2>1, <2>2, <2>3, ManifestOnlyStep
    DEF ReadyInv, DeletingMarked, ReadyImpliesInstalled
  <2>4. CASE ~UNCHANGED manifest
    <3>1. PICK st \in {"Processing", "Error"} :
              ApiWrite(updateManifestStatus(manifest, st))
      BY <1>4, <2>4 DEF HandleReadyState
    <3>. QED  BY <2>1, <2>2, <3>1, StatusWriteKeepsReadyInv
  <2>. QED  BY <2>3, <2>4
<1>. QED  BY <1>1, <1>2, <1>3, <1>4

\* Nobody holds a request of a free slot.
LEMMA FreeRoundUnheld ==
    ASSUME TypeOK, ResponsesBalanced, NEW r \in Rounds, ~rounds[r].active
    PROVE  \A w \in Workers : workers[w].phase # "idle" => workers[w].round # r
<1>1. Holding(r) = 0
  BY FreeRoundEmpty DEF ResponsesBalanced, Balanced
<1>. QED  BY <1>1, HoldingDef, NoHolders

\* HandleProcessingState and HandleDeletingState start the collector of a
\* free slot: nobody holds a request of it and none is sent yet.
LEMMA StartRoundKeepsReadyInv ==
    ASSUME TypeOK, ResponsesBalanced, ReadyInv, NEW mode, NEW r \in Rounds,
           ~reconcile.busy, StartRound(mode, r),
           mode = "delete" => manifest.state = "Deleting"
    PROVE  ReadyInv'
<1>1. \A w \in Workers : workers[w].phase # "idle" => workers[w].round # r
  BY FreeRoundUnheld DEF StartRound
<1>2. \A q \in Rounds \ {r} : rounds'[q] = rounds[q] /\ Pos(q)' = Pos(q)
  BY DEF StartRound, TypeOK, Pos
<1>3. rounds'[r].active /\ rounds'[r].mode = mode /\ Pos(r)' = 1
  BY DEF StartRound, TypeOK, Pos, FreeRound
<1>4. UNCHANGED <<manifest, workers, cluster>>
  BY DEF StartRound
<1>5. (HeldActive /\ HeldSent /\ ReadyResponseApplied)'
  <2>1. \A w \in Workers : workers[w].phase # "idle" =>
            /\ workers[w].round \in Rounds \ {r}
            /\ workers[w].install \in Installs
    BY <1>1 DEF TypeOK, WorkerRecords
  <2>. QED  BY <1>2, <1>4, <2>1
       DEF ReadyInv, HeldActive, HeldSent, ReadyResponseApplied
<1>6. SendingActive'
  BY <1>3 DEF StartRound, SendingActive
<1>7. DeleteRoundsDeleting'
  BY <1>2, <1>3, <1>4 DEF ReadyInv, DeleteRoundsDeleting, DeletingMarked
<1>8. DeliveredApplied'
  <2> SUFFICES ASSUME NEW q \in Rounds, CleanRound(q)'
               PROVE  \A i \in 1..Pos(q)' - 1 :
                          (\A w \in Holders(q)' : workers'[w].install # i)
                              => cluster'[i] # 0
    BY DEF DeliveredApplied
  <2>1. CASE q = r
    BY <1>3, <2>1
  <2>2. CASE q # r
    BY <1>2, <1>4, <2>2 DEF ReadyInv, DeliveredApplied, CleanRound, Holders, HoldersOf
  <2>. QED  BY <2>1, <2>2
<1>. QED  BY <1>4, <1>5, <1>6, <1>7, <1>8
     DEF ReadyInv, DeletingMarked, ReadyImpliesInstalled

\* The next request of a round is one of 1..len(Installs) + 1.
LEMMA PosRange ==
    ASSUME TypeOK, NEW q
    PROVE  Pos(q) \in 1..NInstalls + 1
  BY ConstantsAssumption DEF TypeOK, ReconcileRecords, Installs, Pos

\* Reconcile's send of the next request of its round to an idle worker.
LEMMA SendJobKeepsReadyInv ==
    ASSUME TypeOK, ReadyInv, NEW w \in Workers, SendJob(w)
    PROVE  ReadyInv'
<1>. DEFINE r0 == reconcile.round
            n == reconcile.next
<1>1. /\ r0 \in Rounds /\ n \in Installs /\ rounds[r0].active
      /\ Pos(r0) = n
  BY DEF SendJob, TypeOK, ReconcileRecords, ReadyInv, SendingActive, Pos
<1>2. /\ workers'[w] = [phase |-> "busy", round |-> r0, install |-> n, result |-> "ready"]
      /\ workers[w].phase = "idle"
      /\ \A x \in Workers \ {w} : workers'[x] = workers[x]
      /\ UNCHANGED <<manifest, rounds, cluster>>
  BY DEF SendJob, TypeOK
<1>3. \A q \in Rounds : Pos(q)' = IF q = r0 THEN n + 1 ELSE Pos(q)
  BY ConstantsAssumption DEF SendJob, Pos, NoReconcile, Installs
<1>4. (HeldActive /\ SendingActive)'
  BY <1>1, <1>2 DEF SendJob, ReadyInv, HeldActive, SendingActive, NoReconcile
<1>5. HeldSent'
  <2>1. \A x \in Workers : workers[x].phase # "idle" => Pos(workers[x].round) \in Nat
    BY ConstantsAssumption DEF TypeOK, WorkerRecords, ReconcileRecords, Installs, Pos
  <2> SUFFICES ASSUME NEW x \in Workers, workers'[x].phase # "idle"
               PROVE  (workers[x].install < Pos(workers[x].round))'
    BY DEF HeldSent
  <2>2. CASE x = w
    BY <1>1, <1>2, <2>2, ConstantsAssumption
    DEF Pos, SendJob, NoReconcile, Installs
  <2>3. CASE x # w
    <3>1. workers[x].install < Pos(workers[x].round)
      BY <1>2, <2>3 DEF ReadyInv, HeldSent
    <3>2. workers[x].install \in Nat /\ reconcile.next \in Nat
      BY DEF TypeOK, WorkerRecords, ReconcileRecords, Installs
    <3>3. workers'[x] = workers[x]
      BY <1>2, <2>3
    <3>. QED  BY <3>1, <3>2, <3>3, ConstantsAssumption
         DEF Pos, SendJob, NoReconcile
  <2>. QED  BY <2>2, <2>3
<1>6. DeliveredApplied'
  <2> SUFFICES ASSUME NEW q \in Rounds, CleanRound(q)', NEW i \in 1..Pos(q)' - 1,
                      \A x \in Holders(q)' : workers'[x].install # i
               PROVE  cluster'[i] # 0
    BY DEF DeliveredApplied
  <2>1. CleanRound(q)
    BY <1>2 DEF CleanRound
  <2>2. \A x \in Holders(q) : x \in Holders(q)' /\ x # w
    BY <1>2 DEF Holders, HoldersOf
  <2>3. CASE i < Pos(q)
    <3>1. i \in 1..Pos(q) - 1
      BY <2>3, ConstantsAssumption DEF Pos, TypeOK, ReconcileRecords, Installs
    <3>2. \A x \in Holders(q) : workers[x].install # i
      <4> SUFFICES ASSUME NEW x \in Holders(q) PROVE workers[x].install # i
        OBVIOUS
      <4>1. x \in Workers \ {w} /\ x \in Holders(q)'
        BY <2>2 DEF Holders, HoldersOf
      <4>. QED  BY <1>2, <4>1
    <3>. QED  BY <1>2, <2>1, <3>1, <3>2 DEF ReadyInv, DeliveredApplied
  <2>4. CASE ~(i < Pos(q))
    <3>1. q = r0 /\ i = n
      <4>1. Pos(q) \in Nat /\ n \in Nat /\ i \in Nat
        BY PosRange, <1>1 DEF Installs
      <4>. QED  BY <1>1, <1>3, <2>4, <4>1
    <3>2. w \in Holders(q)'
      BY <1>2, <3>1 DEF Holders, HoldersOf
    <3>. QED  BY <1>2, <3>1, <3>2
  <2>. QED  BY <2>3, <2>4
<1>7. ReadyResponseApplied'
  BY <1>2 DEF ReadyInv, ReadyResponseApplied
<1>. QED  BY <1>2, <1>4, <1>5, <1>6, <1>7
     DEF ReadyInv, DeletingMarked, DeleteRoundsDeleting, ReadyImpliesInstalled

\* HandleCharts: install and uninstall leave the rendering on the cluster
\* when they apply, and they report ready only when they applied.
LEMMA HandleChartsKeepsReadyInv ==
    ASSUME TypeOK, ReadyInv, NEW w \in Workers, HandleCharts(w)
    PROVE  ReadyInv'
<1>. DEFINE r == workers[w].round
            i == workers[w].install
<1>1. /\ r \in Rounds /\ i \in Installs /\ rounds[r].active
      /\ workers[w].phase = "busy"
  BY DEF HandleCharts, TypeOK, WorkerRecords, ReadyInv, HeldActive
<1>2. PICK o \in Outcomes :
        /\ cluster' = IF o.applied
                      THEN [cluster EXCEPT ![i] = Rendering(i, rounds[r].gen)]
                      ELSE cluster
        /\ workers' = [workers EXCEPT ![w].phase = "responding",
                                      ![w].result = o.result]
  BY DEF HandleCharts
<1>3. /\ workers'[w].round = r /\ workers'[w].install = i
      /\ workers'[w].phase = "responding" /\ workers'[w].result = o.result
      /\ \A x \in Workers \ {w} : workers'[x] = workers[x]
      /\ UNCHANGED <<manifest, reconcile, rounds>>
  <2>1. workers[w] \in WorkerRecords /\ DOMAIN workers = Workers
    BY DEF TypeOK
  <2>2. workers'[w] = [workers[w] EXCEPT !.phase = "responding", !.result = o.result]
    BY <1>2, <2>1
  <2>3. /\ workers'[w].round = r /\ workers'[w].install = i
        /\ workers'[w].phase = "responding" /\ workers'[w].result = o.result
    BY <2>1, <2>2 DEF WorkerRecords
  <2>4. \A x \in Workers \ {w} : workers'[x] = workers[x]
    BY <1>2, <2>1
  <2>. QED  BY <2>3, <2>4 DEF HandleCharts
<1>4. \A x \in Workers : (workers'[x].phase # "idle") = (workers[x].phase # "idle")
                         /\ workers'[x].round = workers[x].round
                         /\ workers'[x].install = workers[x].install
  BY <1>1, <1>3
<1>5. (HeldActive /\ SendingActive /\ HeldSent /\ DeletingMarked /\ DeleteRoundsDeleting)'
  BY <1>3, <1>4 DEF ReadyInv, HeldActive, SendingActive, HeldSent, Pos, DeletingMarked,
                    DeleteRoundsDeleting
<1>6. \A q \in Rounds : Holders(q)' = Holders(q)
  BY <1>4 DEF Holders, HoldersOf
<1>7. Rendering(i, rounds[r].gen) # 0
  <2>1. rounds[r].gen \in Generations
    BY <1>1 DEF TypeOK, RoundRecords
  <2>. QED  BY <1>1, <2>1, RenderingType DEF TypeOK, Generations
<1>8. ReadyInv'
  <2>2. Rendering(i, rounds[r].gen) # 0
    BY <1>7
  <2>3. \A j \in Installs : cluster[j] # 0 => cluster'[j] # 0
    BY <1>1, <1>2, <2>2 DEF TypeOK
  <2>4. o.result = "ready" => cluster'[i] # 0
    BY <1>1, <1>2, <2>2 DEF Outcomes, TypeOK
  <2>5. DeliveredApplied'
    <3> SUFFICES ASSUME NEW q \in Rounds, CleanRound(q)', NEW j \in 1..Pos(q)' - 1,
                        \A x \in Holders(q)' : workers'[x].install # j
                 PROVE  cluster'[j] # 0
      BY DEF DeliveredApplied
    <3>1. CleanRound(q) /\ Pos(q)' = Pos(q)
      BY <1>3 DEF CleanRound, Pos
    <3>2. j \in Installs
      BY <3>1, PosRange, ConstantsAssumption DEF Installs
    <3>3. \A x \in Holders(q) : workers[x].install # j
      BY <1>4, <1>6 DEF Holders, HoldersOf
    <3>. QED  BY <2>3, <3>1, <3>2, <3>3 DEF ReadyInv, DeliveredApplied
  <2>6. ReadyResponseApplied'
    <3> SUFFICES ASSUME NEW x \in Workers,
                        workers'[x].phase = "responding", workers'[x].result = "ready",
                        rounds'[workers'[x].round].mode = "create",
                        ~manifest'.deletionTimestamp
                 PROVE  cluster'[workers'[x].install] # 0
      BY DEF ReadyResponseApplied
    <3>1. CASE x = w
      BY <1>3, <2>4, <3>1
    <3>2. CASE x # w
      <4>1. cluster[workers[x].install] # 0 /\ workers[x].install \in Installs
        BY <1>3, <3>2 DEF ReadyInv, ReadyResponseApplied, TypeOK, WorkerRecords
      <4>. QED  BY <1>3, <2>3, <3>2, <4>1
    <3>. QED  BY <3>1, <3>2
  <2>7. ReadyImpliesInstalled'
    BY <1>3, <2>3 DEF ReadyInv, ReadyImpliesInstalled
  <2>. QED  BY <1>5, <2>5, <2>6, <2>7 DEF ReadyInv
<1>. QED  BY <1>8

\* DeliverResponse: the collector reads a response.  A clean round stays
\* clean only when the response was ready, and a ready response of a create
\* round was applied.
LEMMA DeliverResponseKeepsReadyInv ==
    ASSUME TypeOK, ReadyInv, NEW w \in Workers, DeliverResponse(w)
    PROVE  ReadyInv'
<1>. DEFINE r == workers[w].round
            i == workers[w].install
            res == workers[w].result
<1>1. /\ r \in Rounds /\ i \in Installs /\ res \in Results
      /\ workers[w].phase = "responding"
  BY DEF DeliverResponse, TypeOK, WorkerRecords
<1>2. /\ workers'[w] = IdleWorker
      /\ \A x \in Workers \ {w} : workers'[x] = workers[x]
      /\ UNCHANGED <<manifest, reconcile, cluster>>
  BY DEF DeliverResponse, TypeOK
<1>3. /\ \A q \in Rounds \ {r} : rounds'[q] = rounds[q]
      /\ rounds'[r].active = rounds[r].active /\ rounds'[r].mode = rounds[r].mode
      /\ rounds'[r].errorState = (rounds[r].errorState \/ res = "error")
      /\ rounds'[r].processing = (rounds[r].processing \/ res = "processing")
  BY <1>1 DEF DeliverResponse, TypeOK, RoundRecords
<1>4. \A q \in Rounds : /\ rounds'[q].active = rounds[q].active
                        /\ rounds'[q].mode = rounds[q].mode
  BY <1>3
<1>5. \A x \in Workers : workers'[x].phase # "idle" =>
          /\ x # w /\ workers'[x] = workers[x] /\ workers[x].round \in Rounds
  BY <1>2 DEF IdleWorker, TypeOK, WorkerRecords
<1>6. (HeldActive /\ SendingActive)'
  BY <1>2, <1>4, <1>5 DEF ReadyInv, HeldActive, SendingActive, TypeOK, ReconcileRecords
<1>7. HeldSent'
  BY <1>2, <1>5 DEF ReadyInv, HeldSent, Pos
<1>8. (DeletingMarked /\ DeleteRoundsDeleting /\ ReadyImpliesInstalled)'
  BY <1>2, <1>4 DEF ReadyInv, DeletingMarked, DeleteRoundsDeleting, ReadyImpliesInstalled
<1>9. ReadyResponseApplied'
  BY <1>2, <1>4, <1>5 DEF ReadyInv, ReadyResponseApplied
<1>10. DeliveredApplied'
  <2> SUFFICES ASSUME NEW q \in Rounds, CleanRound(q)', NEW j \in 1..Pos(q)' - 1,
                      \A x \in Holders(q)' : workers'[x].install # j
               PROVE  cluster'[j] # 0
    BY DEF DeliveredApplied
  <2>1. CleanRound(q) /\ Pos(q)' = Pos(q)
    BY <1>2, <1>3 DEF CleanRound, Pos
  <2>2. \A x \in Holders(q) \ {w} : workers[x].install # j
    BY <1>2 DEF Holders, HoldersOf
  <2>3. CASE w \in Holders(q) /\ i = j
    <3>1. q = r /\ res = "ready"
      BY <1>1, <1>3, <2>3 DEF CleanRound, Holders, HoldersOf, Results
    <3>2. rounds[r].mode = "create" /\ ~manifest.deletionTimestamp
      BY <2>1, <3>1 DEF CleanRound
    <3>. QED  BY <1>1, <1>2, <2>3, <3>1, <3>2 DEF ReadyInv, ReadyResponseApplied
  <2>4. CASE ~(w \in Holders(q) /\ i = j)
    <3>1. \A x \in Holders(q) : workers[x].install # j
      BY <2>2, <2>4
    <3>. QED  BY <1>2, <2>1, <3>1 DEF ReadyInv, DeliveredApplied
  <2>. QED  BY <2>3, <2>4
<1>. QED  BY <1>6, <1>7, <1>8, <1>9, <1>10 DEF ReadyInv

\* ResponseHandlerFunc after the last response: nobody holds a request of
\* the round and none is left to send, so a Ready write comes from a clean
\* round whose every install was applied.
LEMMA ResponseHandlerKeepsReadyInv ==
    ASSUME TypeOK, ResponsesBalanced, ReadyInv, NEW r \in Rounds,
           ResponseHandlerFunc(r)
    PROVE  ReadyInv'
<1>. DEFINE e == rounds[r].errorState
            p == rounds[r].processing
<1>1. Holding(r) = 0 /\ Unsent(r) = 0
  BY FullRoundEmpty DEF ResponseHandlerFunc, ResponsesBalanced, Balanced
<1>2. \A w \in Workers : workers[w].phase # "idle" => workers[w].round # r
  BY <1>1, HoldingDef, NoHolders
<1>3. ~(reconcile.busy /\ reconcile.round = r) /\ Pos(r) = NInstalls + 1
  BY <1>1, ConstantsAssumption DEF Unsent, Pos, TypeOK, ReconcileRecords, Installs
<1>4. /\ \A q \in Rounds \ {r} : rounds'[q] = rounds[q]
      /\ ~rounds'[r].active
      /\ UNCHANGED <<reconcile, workers, cluster>>
  BY DEF ResponseHandlerFunc, TypeOK, FreeRound
<1>5. /\ manifest'.deletionTimestamp = manifest.deletionTimestamp
      /\ manifest'.exists => manifest.exists
      /\ \/ manifest'.state = manifest.state
         \/ manifest'.state = "Error"
         \/ manifest'.state = EndState(manifest, e, p) /\ manifest'.exists
  <2>1. CASE UNCHANGED manifest
    BY <2>1
  <2>2. CASE manifest' = [manifest EXCEPT !.finalizer = FALSE, !.exists = FALSE]
    BY <2>2 DEF TypeOK, ManifestRecords
  <2>3. CASE manifest' = updateManifestStatus(manifest, EndState(manifest, TRUE, p))
    BY <2>3, StatusWriteFields DEF EndState
  <2>4. CASE /\ manifest.exists
             /\ manifest' = updateManifestStatus(manifest, EndState(manifest, e, p))
    BY <2>4, StatusWriteFields
  <2>. QED  BY <2>1, <2>2, <2>3, <2>4 DEF ResponseHandlerFunc, ApiWrite
<1>6. (HeldActive /\ SendingActive /\ HeldSent /\ ReadyResponseApplied)'
  <2>1. \A x \in Workers : workers[x].phase # "idle" => workers[x].round \in Rounds \ {r}
    BY <1>2 DEF TypeOK, WorkerRecords
  <2>2. HeldActive'
    BY <1>4, <2>1 DEF ReadyInv, HeldActive
  <2>3. SendingActive'
    BY <1>3, <1>4 DEF ReadyInv, SendingActive, TypeOK, ReconcileRecords
  <2>4. HeldSent'
    BY <1>4 DEF ReadyInv, HeldSent, Pos
  <2>5. ReadyResponseApplied'
    BY <1>4, <1>5, <2>1 DEF ReadyInv, ReadyResponseApplied
  <2>. QED  BY <2>2, <2>3, <2>4, <2>5
<1>7. (DeletingMarked /\ DeleteRoundsDeleting)'
  BY <1>4, <1>5 DEF ReadyInv, DeletingMarked, DeleteRoundsDeleting, EndState
<1>8. DeliveredApplied'
  BY <1>4, <1>5
  DEF ReadyInv, DeliveredApplied, CleanRound, Pos, Holders, HoldersOf
<1>9. ReadyImpliesInstalled'
  <2> SUFFICES ASSUME manifest'.exists, manifest'.state = "Ready"
               PROVE  \A i \in Installs : cluster'[i] # 0
    BY DEF ReadyImpliesInstalled
  <2>1. CASE manifest'.state = manifest.state
    BY <1>4, <1>5, <2>1 DEF ReadyInv, ReadyImpliesInstalled
  <2>2. CASE manifest'.state # manifest.state
    <3>1. EndState(manifest, e, p) = "Ready"
      BY <1>5, <2>2
    <3>2. ~e /\ ~p /\ ~manifest.deletionTimestamp
      BY <3>1 DEF EndState
    <3>3. rounds[r].mode = "create"
      BY <3>2 DEF ResponseHandlerFunc, ReadyInv, DeleteRoundsDeleting, TypeOK,
                  RoundRecords, Modes
    <3>4. CleanRound(r)
      BY <3>2, <3>3 DEF ResponseHandlerFunc, CleanRound
    <3>5. Holders(r) = {}
      BY <1>2 DEF Holders, HoldersOf
    <3>. QED  BY <1>3, <1>4, <3>4, <3>5, ConstantsAssumption
         DEF ReadyInv, DeliveredApplied, Installs
  <2>. QED  BY <2>1, <2>2
<1>. QED  BY <1>6, <1>7, <1>8, <1>9 DEF ReadyInv

\* A restart loses every goroutine: no round, request or send survives.
LEMMA RestartKeepsReadyInv ==
    ASSUME ReadyInv, Restart
    PROVE  ReadyInv'
  BY DEF Restart, ReadyInv, HeldActive, SendingActive, HeldSent, DeletingMarked,
         DeleteRoundsDeleting, DeliveredApplied, CleanRound, ReadyResponseApplied,
         ReadyImpliesInstalled, FreeRound, IdleWorker, NoReconcile

\* ReadyInv holds in every reachable state, for every number of installs,
\* workers and slots.
THEOREM ReadyInvariant == Spec => []ReadyInv
<1>1. Init => ReadyInv
  BY DEF Init, ReadyInv, HeldActive, SendingActive, HeldSent, DeletingMarked,
         DeleteRoundsDeleting, DeliveredApplied, CleanRound, ReadyResponseApplied,
         ReadyImpliesInstalled, FreeRound, IdleWorker, NoReconcile
<1>2. TypeOK /\ ResponsesBalanced /\ ReadyInv /\ [Next]_vars => ReadyInv'
  <2> SUFFICES ASSUME TypeOK, ResponsesBalanced, ReadyInv, [Next]_vars
               PROVE  ReadyInv'
    OBVIOUS
  <2>1. CASE \/ ReconcileMarkDeleting \/ ReconcileAddFinalizer
             \/ HandleInitialState \/ HandleErrorState \/ HandleReadyState
    BY <2>1, ReconcileWritesKeepReadyInv
  <2>2. CASE HandleProcessingState \/ HandleDeletingState
    <3>1. PICK mode \in Modes :
              /\ sendJobToInstallChannel(mode)
              /\ mode = "delete" => manifest.state = "Deleting"
              /\ ~reconcile.busy
      BY <2>2 DEF HandleProcessingState, HandleDeletingState, ReachesStateSwitch,
                  ReconcileEnabled, Modes
    <3>2. CASE PrepareFails
      BY <3>2, ManifestOnlyStep
      DEF PrepareFails, ReadyInv, DeletingMarked, DeleteRoundsDeleting,
          ReadyImpliesInstalled
    <3>. QED  BY <3>1, <3>2, StartRoundKeepsReadyInv DEF sendJobToInstallChannel
  <2>3. ASSUME NEW w \in Workers, SendJob(w) \/ HandleCharts(w) \/ DeliverResponse(w)
        PROVE  ReadyInv'
    BY <2>3, SendJobKeepsReadyInv, HandleChartsKeepsReadyInv,
       DeliverResponseKeepsReadyInv
  <2>4. ASSUME NEW r \in Rounds, ResponseHandlerFunc(r) PROVE ReadyInv'
    BY <2>4, ResponseHandlerKeepsReadyInv
  <2>5. CASE UserDelete
    <3>1. ~\E r \in Rounds : rounds[r].active /\ rounds[r].mode = "delete"
      BY <2>5, NoDeleteRound DEF UserDelete
    <3>2. /\ manifest'.deletionTimestamp /\ manifest'.state = manifest.state
          /\ manifest'.exists => manifest.exists
      BY <2>5 DEF UserDelete, TypeOK, ManifestRecords
    <3>. QED  BY <2>5, <3>1, <3>2, ManifestOnlyStep
         DEF UserDelete, ReadyInv, DeletingMarked, ReadyImpliesInstalled
  <2>6. CASE UserUpdateSpec
    <3>1. /\ manifest'.deletionTimestamp = manifest.deletionTimestamp
          /\ manifest'.state = manifest.state /\ manifest'.exists = manifest.exists
      BY <2>6 DEF UserUpdateSpec, TypeOK, ManifestRecords
    <3>. QED  BY <2>6, <3>1, ManifestOnlyStep
         DEF UserUpdateSpec, ReadyInv, DeletingMarked, DeleteRoundsDeleting,
             ReadyImpliesInstalled
  <2>7. CASE Restart
    BY <2>7, RestartKeepsReadyInv
  <2>8. CASE Terminated \/ UNCHANGED vars
    BY <2>8, ManifestOnlyStep
    DEF Terminated, vars, ReadyInv, DeletingMarked, DeleteRoundsDeleting,
        ReadyImpliesInstalled
  <2>. QED  BY <2>1, <2>2, <2>3, <2>4, <2>5, <2>6, <2>7, <2>8 DEF Next, ReconcileStep
<1>. QED  BY <1>1, <1>2, TypeCorrect, ResponsesBalancedHolds, PTL DEF Spec

\* setProcessedState, for every number of installs, workers and slots: a
\* Manifest reported Ready has the resources of every install applied on
\* the target cluster.
THEOREM ReadyInstalled == Spec => []ReadyImpliesInstalled
  BY ReadyInvariant, PTL DEF ReadyInv

=============================================================================
