------------------------ MODULE ReadyConditionsProofs ------------------------
(***************************************************************************)
(* Proofs about ReadyConditions.  ConditionsReflectLatest holds for every  *)
(* set of charts and every bound on a call's responses: each iteration of  *)
(* the loop of AddReadyConditionForResponses finds the chart's condition   *)
(* with getReadyConditionForComponent, and as reasons are unique that is   *)
(* the only one, so overwriting it (or appending one when there is none)   *)
(* keeps one condition per chart, stating its latest response.             *)
(***************************************************************************)
EXTENDS ReadyConditions, TLAPS

\* Every condition is for a chart some response named, and states the
\* result of that chart's latest response.
ConditionsStateLatest ==
    \A i \in 1..Len(conditions) :
        /\ latest[conditions[i].reason] # NoResponse
        /\ conditions[i].status = SpecStatus(latest[conditions[i].reason])

\* Every chart some response named has a condition.
RespondedChartsHaveCondition ==
    \A c \in Charts :
        latest[c] # NoResponse => \E i \in 1..Len(conditions) : conditions[i].reason = c

\* No two conditions share a reason.
UniqueReasons ==
    \A i, j \in 1..Len(conditions) :
        i # j => conditions[i].reason # conditions[j].reason

\* The inductive invariant ConditionsReflectLatest rests on.
CondInv ==
    /\ TypeOK
    /\ UniqueReasons
    /\ ConditionsStateLatest
    /\ RespondedChartsHaveCondition

-----------------------------------------------------------------------------
\* The status the loop of AddReadyConditionForResponses computes is the one
\* spec 4.1 asks for: error first, then processing.
LEMMA ConditionStatusIsSpecStatus ==
    ASSUME NEW r \in Responses
    PROVE  ConditionStatus(r) = SpecStatus(r)
<1>1. r.err \in BOOLEAN /\ r.ready \in BOOLEAN
  BY DEF Responses
<1>2. CASE r.err
  BY <1>2, Zenon DEF ConditionStatus, SpecStatus
<1>3. CASE ~r.err /\ r.ready
  BY <1>3, Zenon DEF ConditionStatus, SpecStatus
<1>4. CASE ~r.err /\ ~r.ready
  BY <1>4, Zenon DEF ConditionStatus, SpecStatus
<1>. QED  BY <1>1, <1>2, <1>3, <1>4

\* getReadyConditionForComponent: with unique reasons, the chart's condition
\* is the one found; with no condition for the chart, none is.
LEMMA FirstConditionFound ==
    ASSUME NEW conds \in Seq(Conditions), NEW chart,
           \A i, j \in 1..Len(conds) : i # j => conds[i].reason # conds[j].reason
    PROVE  /\ \A k \in 1..Len(conds) : conds[k].reason = chart => FirstCondition(conds, chart) = k
           /\ (\A k \in 1..Len(conds) : conds[k].reason # chart) => FirstCondition(conds, chart) = 0
<1>. DEFINE hits == {i \in 1..Len(conds) : conds[i].reason = chart}
<1>1. ASSUME NEW k \in 1..Len(conds), conds[k].reason = chart
      PROVE  FirstCondition(conds, chart) = k
  <2>1. hits = {k}
    BY <1>1
  <2>. QED  BY <2>1 DEF FirstCondition
<1>2. ASSUME \A k \in 1..Len(conds) : conds[k].reason # chart
      PROVE  FirstCondition(conds, chart) = 0
  <2>1. hits = {}
    BY <1>2
  <2>. QED  BY <2>1 DEF FirstCondition
<1>. QED  BY <1>1, <1>2

LEMMA InitCondInv ==
    Init => CondInv
  BY DEF Init, CondInv, TypeOK, UniqueReasons, ConditionsStateLatest,
         RespondedChartsHaveCondition

\* NoResponse, the history variable's value before a chart's first
\* response, is not a response.
LEMMA NextCondInv ==
    ASSUME NoResponse \notin Responses
    PROVE  CondInv /\ [Next]_vars => CondInv'
<1> SUFFICES ASSUME CondInv, [Next]_vars PROVE CondInv'
  OBVIOUS
<1>1. CASE RecordResponses
  <2>1. pending' \in Seq(Responses)
    <3>1. SeqUpTo(Responses, MaxResponses) \subseteq Seq(Responses)
      BY ReadyConditionsAssumption DEF SeqUpTo
    <3>. QED  BY <1>1, <3>1 DEF RecordResponses
  <2>. QED  BY <1>1, <2>1 DEF RecordResponses, CondInv, TypeOK, UniqueReasons,
                              ConditionsStateLatest, RespondedChartsHaveCondition
<1>2. CASE AddReadyConditionForResponses
  <2>. DEFINE r == Head(pending)
              c == r.chart
              new == [reason |-> c, status |-> ConditionStatus(r), installInfo |-> TRUE]
  <2>0. /\ conditions \in Seq(Conditions)
        /\ latest \in [Charts -> Responses \cup {NoResponse}]
        /\ pending \in Seq(Responses) /\ pending # << >>
    BY <1>2 DEF CondInv, TypeOK, AddReadyConditionForResponses
  <2>a. r \in Responses
    BY <2>0
  <2>b. c \in Charts
    BY <2>a DEF Responses
  <2>c. new \in Conditions
    BY <2>b, <2>a, Zenon DEF Conditions, Statuses, ConditionStatus, Responses
  <2>d. new.status = SpecStatus(r)
    BY <2>a, ConditionStatusIsSpecStatus
  <2>e. conditions' = AddReadyConditionForObjects(conditions, c, ConditionStatus(r))
    BY <1>2 DEF AddReadyConditionForResponses
  <2>1. /\ latest'[c] = r /\ r # NoResponse
        /\ \A d \in Charts : d # c => latest'[d] = latest[d]
        /\ latest' \in [Charts -> Responses \cup {NoResponse}]
        /\ pending' \in Seq(Responses)
    BY <1>2, <2>0, <2>a, <2>b DEF AddReadyConditionForResponses
  <2>2. CASE \A k \in 1..Len(conditions) : conditions[k].reason # c
    <3>1. conditions' = Append(conditions, new)
      <4>1. FirstCondition(conditions, c) = 0
        BY <2>0, <2>2, FirstConditionFound DEF CondInv, UniqueReasons
      <4>. QED  BY <2>e, <4>1 DEF AddReadyConditionForObjects
    <3>2. /\ conditions' \in Seq(Conditions) /\ Len(conditions') = Len(conditions) + 1
          /\ conditions'[Len(conditions) + 1] = new
          /\ \A k \in 1..Len(conditions) : conditions'[k] = conditions[k]
      BY <2>0, <2>c, <3>1
    <3>3. UniqueReasons'
      BY <2>2, <3>2 DEF CondInv, UniqueReasons
    <3>4. ConditionsStateLatest'
      <4> SUFFICES ASSUME NEW i \in 1..Len(conditions')
                   PROVE  /\ latest'[conditions'[i].reason] # NoResponse
                          /\ conditions'[i].status = SpecStatus(latest'[conditions'[i].reason])
        BY DEF ConditionsStateLatest
      <4>1. CASE i \in 1..Len(conditions)
        <5>0. i \in 1..Len(conditions) /\ conditions[i] \in Conditions
          BY <2>0, <2>2, <3>2, <4>1, <2>0
        <5>1. conditions'[i] = conditions[i] /\ conditions[i].reason # c
          BY <2>2, <3>2, <4>1, <5>0
        <5>a. conditions[i].reason \in Charts
          BY <5>0, Zenon DEF Conditions
        <5>2. latest'[conditions[i].reason] = latest[conditions[i].reason]
          BY <2>1, <5>1, <5>a
        <5>. QED  BY <4>1, <5>1, <5>2 DEF CondInv, ConditionsStateLatest
      <4>2. CASE i = Len(conditions) + 1
        BY <2>1, <2>d, <3>2, <4>2
      <4>. QED  BY <2>0, <3>2, <4>1, <4>2
    <3>5. RespondedChartsHaveCondition'
      <4> SUFFICES ASSUME NEW d \in Charts, latest'[d] # NoResponse
                   PROVE  \E i \in 1..Len(conditions') : conditions'[i].reason = d
        BY DEF RespondedChartsHaveCondition
      <4>1. CASE d = c
        BY <2>0, <3>2, <4>1
      <4>2. CASE d # c
        <5>1. PICK i \in 1..Len(conditions) : conditions[i].reason = d
          BY <2>1, <4>2 DEF CondInv, RespondedChartsHaveCondition
        <5>. QED  BY <2>0, <3>2, <5>1
      <4>. QED  BY <4>1, <4>2
    <3>. QED  BY <2>1, <3>2, <3>3, <3>4, <3>5 DEF CondInv, TypeOK
  <2>3. CASE \E k \in 1..Len(conditions) : conditions[k].reason = c
    <3>1. PICK k \in 1..Len(conditions) : conditions[k].reason = c
      BY <2>3
    <3>2. conditions' = [conditions EXCEPT ![k] = new]
      <4>1. FirstCondition(conditions, c) = k
        BY <2>0, <3>1, FirstConditionFound DEF CondInv, UniqueReasons
      <4>2. k # 0
        OBVIOUS
      <4>. QED  BY <2>e, <4>1, <4>2 DEF AddReadyConditionForObjects
    <3>3. /\ conditions' \in Seq(Conditions) /\ Len(conditions') = Len(conditions)
          /\ conditions'[k] = new
          /\ \A j \in 1..Len(conditions) : j # k => conditions'[j] = conditions[j]
      BY <2>0, <2>c, <3>2
    <3>4. \A j \in 1..Len(conditions) : conditions'[j].reason = conditions[j].reason
      BY <3>1, <3>3
    <3>5. UniqueReasons'
      BY <3>3, <3>4 DEF CondInv, UniqueReasons
    <3>6. \A j \in 1..Len(conditions) : j # k => conditions[j].reason # c
      BY <3>1 DEF CondInv, UniqueReasons
    <3>7. ConditionsStateLatest'
      <4> SUFFICES ASSUME NEW i \in 1..Len(conditions')
                   PROVE  /\ latest'[conditions'[i].reason] # NoResponse
                          /\ conditions'[i].status = SpecStatus(latest'[conditions'[i].reason])
        BY DEF ConditionsStateLatest
      <4>1. CASE i # k
        <5>0. i \in 1..Len(conditions) /\ conditions[i] \in Conditions
          BY <2>0, <3>3, <3>6, <4>1, <2>0
        <5>1. conditions'[i] = conditions[i] /\ conditions[i].reason # c
          BY <3>3, <3>6, <4>1, <5>0
        <5>a. conditions[i].reason \in Charts
          BY <5>0, Zenon DEF Conditions
        <5>2. latest'[conditions[i].reason] = latest[conditions[i].reason]
          BY <2>1, <5>1, <5>a
        <5>. QED  BY <3>3, <5>1, <5>2 DEF CondInv, ConditionsStateLatest
      <4>2. CASE i = k
        BY <2>1, <2>d, <3>3, <4>2
      <4>. QED  BY <4>1, <4>2
    <3>8. RespondedChartsHaveCondition'
      <4> SUFFICES ASSUME NEW d \in Charts, latest'[d] # NoResponse
                   PROVE  \E i \in 1..Len(conditions') : conditions'[i].reason = d
        BY DEF RespondedChartsHaveCondition
      <4>1. CASE d = c
        BY <3>1, <3>3, <3>4, <4>1
      <4>2. CASE d # c
        <5>1. PICK i \in 1..Len(conditions) : conditions[i].reason = d
          BY <2>1, <4>2 DEF CondInv, RespondedChartsHaveCondition
        <5>. QED  BY <3>3, <3>4, <5>1
      <4>. QED  BY <4>1, <4>2
    <3>. QED  BY <2>1, <3>3, <3>5, <3>7, <3>8 DEF CondInv, TypeOK
  <2>. QED  BY <2>2, <2>3
<1>3. CASE UNCHANGED vars
  BY <1>3 DEF vars, CondInv, TypeOK, UniqueReasons, ConditionsStateLatest,
              RespondedChartsHaveCondition
<1>. QED  BY <1>1, <1>2, <1>3 DEF Next

\* The loop of AddReadyConditionForResponses over the rounds the collector
\* hands it: the status keeps exactly one Ready condition per chart some
\* response named, stating that chart's latest response, for every set of
\* charts and every bound on a call's responses.  (NoResponse, the model's
\* marker for a chart not yet named, must differ from every response.)
THEOREM ConditionsReflectLatestHolds ==
    ASSUME NoResponse \notin Responses
    PROVE  Spec => []ConditionsReflectLatest
<1>1. Init => CondInv
  BY InitCondInv
<1>2. CondInv /\ [Next]_vars => CondInv'
  BY NextCondInv
<1>3. CondInv => ConditionsReflectLatest
  <2> SUFFICES ASSUME CondInv PROVE ConditionsReflectLatest
    OBVIOUS
  <2>1. ASSUME NEW c \in Charts, latest[c] # NoResponse
        PROVE  \E i \in 1..Len(conditions) :
                  conditions[i].reason = c /\ conditions[i].status = SpecStatus(latest[c])
    BY <2>1 DEF CondInv, RespondedChartsHaveCondition, ConditionsStateLatest
  <2>2. ASSUME NEW c \in Charts, NEW i \in 1..Len(conditions), conditions[i].reason = c
        PROVE  latest[c] # NoResponse
    BY <2>2 DEF CondInv, ConditionsStateLatest
  <2>. QED  BY <2>1, <2>2 DEF CondInv, UniqueReasons, ConditionsReflectLatest
<1>. QED  BY <1>1, <1>2, <1>3, PTL DEF Spec
=============================================================================
