------------------------- MODULE PreparePhaseProofs -------------------------
(***************************************************************************)
(* Proofs about PreparePhase: GetInstallInfos fails exactly on a Manifest  *)
(* that is not well formed or on a failed registry or API server call, and *)
(* returns one job per install otherwise (OutcomeMatchesReference), for    *)
(* every set of charts and every number of installs and config entries.    *)
(***************************************************************************)
EXTENDS PreparePhase, WellFoundedInduction, TLAPS

\* What GetInstallInfos has established when it is at step pc: no job is
\* built before the loop of parseInstallations; the cluster
\* step passed only with the cache-key label on a remote Manifest; the
\* config step passed only on a decodable layer and stored its configs; the
\* loop of parseInstallations has appended one job for each install before
\* idx, and each of those installs is well formed.
PrepInv ==
    /\ input \in Inputs
    /\ pc \in Steps
    /\ deployInfos \in Seq(Nat)
    /\ idx \in Nat \ {0}
    /\ pc \in {"crds", "cluster", "configs"} => idx = 1 /\ deployInfos = << >>
    /\ pc \in {"configs", "installs", "done"} => (input.remote => input.cacheKey)
    /\ pc \in {"installs", "done"} =>
          /\ input.configLayer \notin {"notMap", "badList"}
          /\ configs = DecodedConfigs
          /\ idx - 1 <= Len(input.installs)
          /\ Len(deployInfos) = idx - 1
          /\ \A i \in 1..idx - 1 :
                /\ SupportedSource(input.installs[i])
                /\ ConfigAccepted(input.installs[i].name, DecodedConfigs)
    /\ pc = "done" => idx = Len(input.installs) + 1
    /\ OutcomeMatchesReference


-----------------------------------------------------------------------------
(* Lemmas on the operators.                                                *)

\* A non-empty set of naturals has a least element (from the
\* well-foundedness of < on Nat).
LEMMA LeastIndex ==
    ASSUME NEW T \in SUBSET Nat, T # {}
    PROVE  \E x \in T : \A y \in T : x <= y
<1>. DEFINE R == OpToRel(<, Nat)
<1>1. \E x \in T : \A y \in T : ~(<<y, x>> \in R)
  BY NatLessThanWellFounded, WFMin
<1>2. \A x, y \in T : <<y, x>> \in R <=> y < x
  BY DEF OpToRel
<1>3. \A x, y \in T : ~(y < x) => x <= y
  OBVIOUS
<1>. HIDE DEF R
<1>. QED  BY <1>1, <1>2, <1>3, Zenon

\* The lookup of getConfigAndValuesForInstall followed by the two
\* strvals.ParseInto calls succeeds exactly when the reference accepts the
\* configs for the install.
LEMMA LookupMatchesReference ==
    ASSUME NEW name, NEW cfgs \in Seq(ConfigItems)
    PROVE  ParseChartConfigAndValues(name, cfgs) <=> ConfigAccepted(name, cfgs)
<1>. DEFINE stops == LookupStops(name, cfgs)
            k == CHOOSE i \in stops : \A j \in stops : i <= j
<1>1. CASE stops = {}
  <2>1. \A i \in 1..Len(cfgs) : cfgs[i].shape # "notMap" /\ cfgs[i].name # name
    BY <1>1 DEF LookupStops
  <2>2. ConfigAccepted(name, cfgs)
    BY <2>1 DEF ConfigAccepted
  <2>. QED  BY <1>1, <2>2 DEF ParseChartConfigAndValues, GetConfigAndValuesForInstall
<1>2. CASE stops # {}
  <2>0. stops \in SUBSET Nat /\ Len(cfgs) \in Nat
    BY DEF LookupStops
  <2>1. k \in stops /\ \A j \in stops : k <= j
    <3>1. \E x \in stops : \A y \in stops : x <= y
      BY <1>2, <2>0, LeastIndex
    <3>. QED  BY <3>1
  <2>2. /\ k \in 1..Len(cfgs)
        /\ cfgs[k].shape = "notMap" \/ cfgs[k].name = name
        /\ \A j \in 1..k - 1 : cfgs[j].shape # "notMap" /\ cfgs[j].name # name
    <3>1. k \in 1..Len(cfgs) /\ (cfgs[k].shape = "notMap" \/ cfgs[k].name = name)
      BY <2>1 DEF LookupStops
    <3>2. \A j \in 1..k - 1 : j \notin stops
      BY <2>0, <2>1, <3>1
    <3>3. \A j \in 1..k - 1 : j \in 1..Len(cfgs)
      BY <2>0, <3>1
    <3>. QED  BY <3>1, <3>2, <3>3 DEF LookupStops
  <2>3. cfgs[k] \in ConfigItems
    BY <2>2
  <2>4. ParseChartConfigAndValues(name, cfgs) <=> cfgs[k].shape = "ok"
    BY <1>2, <2>2, <2>3 DEF ParseChartConfigAndValues, GetConfigAndValuesForInstall, ConfigItems
  <2>5. ConfigAccepted(name, cfgs) <=> cfgs[k].shape = "ok"
    <3>1. \A j \in 1..k - 1 : ~Matches(cfgs[j], name)
      BY <2>2 DEF Matches
    <3>2. ASSUME cfgs[k].shape = "ok" PROVE ConfigAccepted(name, cfgs)
      <4>1. Matches(cfgs[k], name)
        BY <2>2, <3>2 DEF Matches
      <4>2. SUFFICES ASSUME NEW i \in 1..Len(cfgs), \A j \in 1..i - 1 : ~Matches(cfgs[j], name)
                     PROVE  /\ cfgs[i].shape # "notMap"
                            /\ cfgs[i].name = name => cfgs[i].shape = "ok"
        BY DEF ConfigAccepted
      <4>3. CASE i < k
        <5>1. i \in 1..k - 1
          BY <2>2, <4>3
        <5>. QED  BY <2>2, <5>1
      <4>4. CASE i = k
        BY <3>2, <4>4
      <4>5. CASE i > k
        BY <2>0, <2>2, <4>1, <4>2, <4>5
      <4>. QED  BY <2>0, <2>2, <4>3, <4>4, <4>5
    <3>3. ASSUME ConfigAccepted(name, cfgs) PROVE cfgs[k].shape = "ok"
      BY <2>2, <3>1, <3>3 DEF ConfigAccepted
    <3>. QED  BY <3>2, <3>3
  <2>. QED  BY <2>4, <2>5
<1>. QED  BY <1>1, <1>2

\* A bounded sequence is a sequence.
LEMMA SeqUpToSeq ==
    ASSUME NEW S, NEW n \in Nat
    PROVE  SeqUpTo(S, n) \subseteq Seq(S)
  BY DEF SeqUpTo

\* The configs the reference judges are a sequence of config items.
LEMMA DecodedConfigsType ==
    ASSUME PrepareAssumption, input \in Inputs
    PROVE  DecodedConfigs \in Seq(ConfigItems)
  BY SeqUpToSeq DEF DecodedConfigs, Inputs

-----------------------------------------------------------------------------
(* The invariant.                                                          *)

LEMMA InitPrepInv ==
    Init => PrepInv
  BY DEF Init, PrepInv, Steps, OutcomeMatchesReference

\* An error return with the spec not well formed, or after a failed call.
LEMMA FailKeepsPrepInv ==
    ASSUME PrepInv, NEW b \in BOOLEAN, Fail(b), ~b => ~WellFormed,
           UNCHANGED <<input, idx>>
    PROVE  PrepInv'
  BY DEF Fail, PrepInv, Steps, OutcomeMatchesReference, DecodedConfigs, WellFormed

LEMMA NextPrepInv ==
    ASSUME PrepareAssumption
    PROVE  PrepInv /\ [Next]_vars => PrepInv'
<1> SUFFICES ASSUME PrepInv, [Next]_vars PROVE PrepInv'
  OBVIOUS
<1>0. EnvironmentFails => PrepInv'
  BY FailKeepsPrepInv DEF EnvironmentFails
<1>1. CASE ParseCrds
  BY <1>0, <1>1 DEF ParseCrds, PrepInv, Steps, OutcomeMatchesReference, DecodedConfigs
<1>2. CASE GetDestinationConfigAndClient
  <2>1. CASE ~input.remote \/ input.cacheKey
    <3>1. \/ pc' = "configs" /\ UNCHANGED <<input, deployInfos, idx, envFailed>>
          \/ EnvironmentFails
      BY <1>2, <2>1, Zenon DEF GetDestinationConfigAndClient
    <3>2. pc = "cluster"
      BY <1>2 DEF GetDestinationConfigAndClient
    <3>3. (pc' = "configs" /\ UNCHANGED <<input, deployInfos, idx, envFailed>>) => PrepInv'
      BY <2>1, <3>2 DEF PrepInv, Steps, OutcomeMatchesReference
    <3>. QED  BY <1>0, <3>1, <3>3
  <2>2. CASE input.remote /\ ~input.cacheKey
    <3>1. Fail(FALSE) /\ UNCHANGED <<input, idx>>
      BY <1>2, <2>2 DEF GetDestinationConfigAndClient
    <3>. QED  BY <2>2, <3>1, FailKeepsPrepInv DEF WellFormed
  <2>. QED  BY <2>1, <2>2
<1>3. CASE ParseConfigs
  <2>1. CASE /\ input.configLayer \in {"none", "eof", "noConfigs", "list"}
             /\ configs' = IF input.configLayer = "list" THEN input.configs ELSE << >>
             /\ pc' = "installs"
             /\ UNCHANGED <<input, heap, deployInfos, idx, envFailed>>
    BY <1>3, <2>1 DEF ParseConfigs, PrepInv, Steps, OutcomeMatchesReference, DecodedConfigs
  <2>2. CASE input.configLayer \in {"notMap", "badList"} /\ Fail(FALSE)
             /\ UNCHANGED <<input, configs, heap, idx>>
    BY <2>2, FailKeepsPrepInv DEF WellFormed
  <2>3. CASE input.configLayer # "none" /\ EnvironmentFails
    BY <1>0, <2>3
  <2>. QED  BY <1>3, <2>1, <2>2, <2>3 DEF ParseConfigs
<1>4. CASE ParseInstallation
  <2>. DEFINE install == input.installs[idx]
  <2>1. pc = "installs" /\ idx \in 1..Len(input.installs)
    BY <1>4 DEF ParseInstallation, PrepInv
  <2>2. configs = DecodedConfigs /\ DecodedConfigs \in Seq(ConfigItems)
    BY <2>1, DecodedConfigsType DEF PrepInv
  <2>3. ParseChartConfigAndValues(install.name, configs)
            <=> ConfigAccepted(install.name, DecodedConfigs)
    BY <2>2, LookupMatchesReference
  <2>4. CASE /\ SupportedSource(install)
             /\ ParseChartConfigAndValues(install.name, configs)
             /\ heap' = [heap EXCEPT ![1].chart = install.name]
             /\ deployInfos' = Append(deployInfos, 1)
             /\ idx' = idx + 1
             /\ UNCHANGED <<input, pc, configs, envFailed>>
    <3>0. /\ deployInfos' = Append(deployInfos, 1) /\ idx' = idx + 1
          /\ UNCHANGED <<input, pc, configs, envFailed>>
          /\ SupportedSource(install)
      BY <2>4
    <3>1. ConfigAccepted(install.name, DecodedConfigs)
      BY <2>3, <2>4
    <3>2. /\ deployInfos' \in Seq(Nat)
          /\ Len(deployInfos') = idx' - 1
          /\ idx' - 1 <= Len(input.installs)
      BY <2>1, <3>0 DEF PrepInv
    <3>3. \A i \in 1..idx' - 1 :
              /\ SupportedSource(input.installs[i])
              /\ ConfigAccepted(input.installs[i].name, DecodedConfigs)
      BY <2>1, <3>0, <3>1 DEF PrepInv
    <3>. QED  BY <2>1, <2>2, <3>0, <3>2, <3>3 DEF PrepInv, Steps, OutcomeMatchesReference,
                                               DecodedConfigs
  <2>5. CASE /\ ~SupportedSource(install) \/ ~ParseChartConfigAndValues(install.name, configs)
             /\ Fail(FALSE)
             /\ UNCHANGED <<input, configs, heap, idx>>
    <3>1. ~WellFormed
      BY <2>1, <2>3, <2>5 DEF WellFormed
    <3>. QED  BY <2>5, <3>1, FailKeepsPrepInv
  <2>6. CASE install.kind = "Oci" /\ EnvironmentFails
    BY <1>0, <2>6
  <2>. QED  BY <1>4, <2>4, <2>5, <2>6 DEF ParseInstallation
<1>5. CASE InstallationsParsed
  <2>1. pc = "installs" /\ idx = Len(input.installs) + 1
    BY <1>5 DEF InstallationsParsed, PrepInv
  <2>2. WellFormed
    BY <2>1 DEF PrepInv, WellFormed
  <2>. QED  BY <1>5, <2>1, <2>2 DEF InstallationsParsed, PrepInv, Steps, OutcomeMatchesReference,
                                   DecodedConfigs, WellFormed
<1>6. CASE Returned \/ UNCHANGED vars
  BY <1>6 DEF Returned, vars, PrepInv, OutcomeMatchesReference, DecodedConfigs, WellFormed
<1>. QED  BY <1>1, <1>2, <1>3, <1>4, <1>5, <1>6 DEF Next

\* GetInstallInfos, for every Manifest with any number of installs and
\* config entries: it returns an error exactly when the spec is not well
\* formed or a registry or API server call failed, and on success it
\* returns one job per install.
THEOREM OutcomeMatchesReferenceHolds == Spec => []OutcomeMatchesReference
<1>1. Init => PrepInv
  BY InitPrepInv
<1>2. PrepInv /\ [Next]_vars => PrepInv'
  BY NextPrepInv, PrepareAssumption
<1>3. PrepInv => OutcomeMatchesReference
  BY DEF PrepInv
<1>. QED  BY <1>1, <1>2, <1>3, PTL DEF Spec
=============================================================================
