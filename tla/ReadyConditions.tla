-------------------------- MODULE ReadyConditions --------------------------
(***************************************************************************)
(* The per-install Ready conditions of a Manifest's status, as the         *)
(* collector records the install responses of a round                      *)
(* (AddReadyConditionForResponses, AddReadyConditionForObjects and         *)
(* getReadyConditionForComponent, src/operator/internal/pkg/util/          *)
(* manifest.go).  The collector of a round hands over its responses, and   *)
(* the loop of AddReadyConditionForResponses handles one per step.         *)
(*                                                                         *)
(* - conditions: status.conditions, in order.                              *)
(* - pending: the responses of the current call not yet handled.           *)
(* - latest: history variable, the result of the last response seen per    *)
(*   chart name (NoResponse before the first).                             *)
(***************************************************************************)
EXTENDS Naturals, Sequences

CONSTANTS
    Charts,       \* response.ChartName values
    MaxResponses  \* bound: responses handled by one call

ASSUME ReadyConditionsAssumption == MaxResponses \in Nat \ {0}

VARIABLES conditions, latest, pending

vars == <<conditions, latest, pending>>

\* v1alpha1.ManifestConditionStatus
Statuses == {"True", "False", "Unknown"}

\* a Ready condition: Reason is the chart name; InstallInfo is always set,
\* as json.Marshal never yields an empty string (a nil map is "null")
Conditions == [reason: Charts, status: Statuses, installInfo: BOOLEAN]

\* an InstallResponse: its ChartName, whether Err # nil, and Ready
Responses == [chart: Charts, err: BOOLEAN, ready: BOOLEAN]

\* the value of latest for a chart no response has named yet
NoResponse == [chart |-> "none", err |-> FALSE, ready |-> FALSE]

SeqUpTo(S, n) == UNION {[1..k -> S] : k \in 0..n}

TypeOK ==
    /\ conditions \in Seq(Conditions)
    /\ latest \in [Charts -> Responses \cup {NoResponse}]
    /\ pending \in Seq(Responses)

\* mutant: the not-ready test ahead of the error test
ConditionStatusNotReadyFirst(response) ==
    IF ~response.ready THEN "Unknown"
    ELSE IF response.err THEN "False"
    ELSE "True"

\* AddReadyConditionForResponses: the status and message of a response
ConditionStatus(response) ==
    IF response.err THEN "False"
    ELSE IF ~response.ready THEN "Unknown"
    ELSE "True"

\* getReadyConditionForComponent: the index of the first Ready condition
\* whose reason is the chart (0 when none)
FirstCondition(conds, chart) ==
    LET hits == {i \in 1..Len(conds) : conds[i].reason = chart}
    IN IF hits = {} THEN 0 ELSE CHOOSE i \in hits : \A j \in hits : i <= j

\* AddReadyConditionForObjects for one install item: a new condition is
\* appended when none exists; then the first matching condition is
\* overwritten with the updated copy
AddReadyConditionForObjects(conds, chart, status) ==
    LET new == [reason |-> chart, status |-> status, installInfo |-> TRUE]
        i == FirstCondition(conds, chart)
    IN IF i = 0 THEN Append(conds, new) ELSE [conds EXCEPT ![i] = new]

Init ==
    /\ conditions = << >>
    /\ latest = [c \in Charts |-> NoResponse]
    /\ pending = << >>

\* the collector of a round calls AddReadyConditionForResponses with the
\* responses it read
RecordResponses ==
    /\ pending = << >>
    /\ \E responses \in SeqUpTo(Responses, MaxResponses) \ {<< >>} :
          pending' = responses
    /\ UNCHANGED <<conditions, latest>>

\* one iteration of the loop of AddReadyConditionForResponses: the status
\* of the response, then AddReadyConditionForObjects for its chart
AddReadyConditionForResponses ==
    /\ pending # << >>
    /\ LET response == Head(pending)
       IN /\ conditions' = AddReadyConditionForObjects(conditions, response.chart,
                                                       ConditionStatus(response))
          /\ latest' = [latest EXCEPT ![response.chart] = response]
    /\ pending' = Tail(pending)

Next == RecordResponses \/ AddReadyConditionForResponses

Spec == Init /\ [][Next]_vars

-----------------------------------------------------------------------------
\* spec 4.1 and 7: an error is reported as False whatever Ready says; a
\* response without error is True when ready and Unknown otherwise
SpecStatus(response) ==
    CASE response.err -> "False"
      [] ~response.err /\ response.ready -> "True"
      [] ~response.err /\ ~response.ready -> "Unknown"

\* The status carries one Ready condition per chart, and it states the
\* result of the chart's most recent response (spec 4.1: error dominates,
\* then processing; spec 7: a condition's reason is the chart) - whatever
\* rounds, repeated charts and orders of responses came before.
ConditionsReflectLatest ==
    /\ \A i, j \in 1..Len(conditions) :
          i # j => conditions[i].reason # conditions[j].reason
    /\ \A c \in Charts :
          latest[c] # NoResponse <=>
              \E i \in 1..Len(conditions) :
                  conditions[i].reason = c /\ conditions[i].status = SpecStatus(latest[c])
=============================================================================
