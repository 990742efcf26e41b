--------------------------- MODULE PreparePhase ----------------------------
(***************************************************************************)
(* The preparation of the install jobs of one Manifest:                    *)
(* GetInstallInfos of src/internal/pkg/prepare/deploy.go and the helpers   *)
(* it calls.  It fetches the CRD layer, resolves the target cluster,       *)
(* decodes the config layer and then builds one InstallInfo per entry of   *)
(* spec.installs.                                                          *)
(*                                                                         *)
(* - input: the Manifest spec being prepared (installs, config layer,      *)
(*   remote flag and cache-key label); it does not change during a call.   *)
(* - pc: where GetInstallInfos is, one step per call that reads the API    *)
(*   server or a registry; "done" and "failed" are its two returns.        *)
(* - configs: the configs array decoded from the config layer.             *)
(* - heap: the InstallInfo objects allocated by the call; a pointer is an  *)
(*   index of heap.  deployInfos: the returned []*types.InstallInfo.       *)
(* - idx: the index of the install the loop of parseInstallations is at.   *)
(* - envFailed: history variable, TRUE once a registry or API server call  *)
(*   failed (an outcome of the environment rather than of the spec).       *)
(***************************************************************************)
EXTENDS Naturals, Sequences

CONSTANTS
    Charts,       \* install names (spec.installs[i].name)
    MaxInstalls,  \* bound: len(spec.installs)
    MaxConfigs,   \* bound: len of the configs array of the config layer
    Faults        \* whether registry and API server calls may fail

ASSUME PrepareAssumption ==
    /\ MaxInstalls \in Nat /\ MaxConfigs \in Nat /\ Faults \in BOOLEAN

VARIABLES input, pc, configs, heap, deployInfos, idx, envFailed

vars == <<input, pc, configs, heap, deployInfos, idx, envFailed>>

\* types.GetSpecType of an install source: the three supported variants,
\* the NilRefType, and a type the switch of getChartInfoForInstall does not
\* know.  "Invalid" is a source GetSpecType or codec.Decode rejects.
SourceKinds == {"Helm", "Oci", "Kustomize", "Nil", "Unsupported", "Invalid"}

InstallItems == [name: Charts, kind: SourceKinds]

\* an element of the configs array: not a map, a map whose overrides and
\* clientConfig are strings strvals parses, a map lacking one of them, or a
\* map whose strings strvals.ParseInto rejects
ConfigItems == [name: Charts, shape: {"notMap", "ok", "malformed", "badFlags"}]

\* what descriptor.DecodeUncompressedLayer yields for spec.config: no
\* config layer (empty type), io.EOF, a value that is not a map, a map
\* without "configs", a "configs" that is not an array, or an array
ConfigLayers == {"none", "eof", "notMap", "noConfigs", "badList", "list"}

SeqUpTo(S, n) == UNION {[1..k -> S] : k \in 0..n}

Inputs ==
    [installs: SeqUpTo(InstallItems, MaxInstalls), crds: BOOLEAN,
     remote: BOOLEAN, cacheKey: BOOLEAN, configLayer: ConfigLayers,
     configs: SeqUpTo(ConfigItems, MaxConfigs)]

\* types.ClusterInfo of the jobs: the host cluster, the ClusterInfo of the
\* renderer cached for the owner, or a config fetched by a RESTConfigGetter
Clusters == {"none", "host", "cached", "fetched"}

InfoRecords == [cluster: Clusters, chart: Charts \cup {"none"}]

Steps == {"crds", "cluster", "configs", "installs", "done", "failed"}

TypeOK ==
    /\ input \in Inputs
    /\ pc \in Steps
    /\ configs \in SeqUpTo(ConfigItems, MaxConfigs)
    /\ heap \in SeqUpTo(InfoRecords, 1)
    /\ deployInfos \in Seq(DOMAIN heap)
    /\ idx \in 1..MaxInstalls + 1
    /\ envFailed \in BOOLEAN

Init ==
    /\ input \in Inputs
    /\ input.configLayer # "list" => input.configs = << >>
    /\ pc = "crds"
    /\ configs = << >>
    /\ heap = << >>
    /\ deployInfos = << >>
    /\ idx = 1
    /\ envFailed = FALSE

\* an error return of GetInstallInfos: nil slice and the error
Fail(byEnvironment) ==
    /\ pc' = "failed"
    /\ deployInfos' = << >>
    /\ envFailed' = byEnvironment

\* a call to a registry or to the API server failing (getCredSecrets,
\* GetPathFromExtractedTarGz, DecodeUncompressedLayer, a RESTConfigGetter)
EnvironmentFails ==
    Faults /\ Fail(TRUE) /\ UNCHANGED <<input, configs, heap, idx>>

\* parseCrds: when spec.crds has a type, getChartPath pulls the layer with
\* the keychain of configKeyChain (GetAuthnKeychain when a credential
\* selector is set) and GetCRDsFromPath reads it; then ToUnstructured
ParseCrds ==
    /\ pc = "crds"
    /\ \/ pc' = "cluster" /\ UNCHANGED <<input, configs, heap, deployInfos, idx, envFailed>>
       \/ input.crds /\ EnvironmentFails

\* getDestinationConfigAndClient, then the baseDeployInfo literal: a local
\* Manifest targets the host cluster; a remote one needs the cache-key
\* label, takes the ClusterInfo of a cached processor for the owner, or
\* else calls the RESTConfigGetter
GetDestinationConfigAndClient ==
    /\ pc = "cluster"
    /\ LET Resolved(c) ==
             /\ heap' = << [cluster |-> c, chart |-> "none"] >>
             /\ pc' = "configs"
             /\ UNCHANGED <<input, configs, deployInfos, idx, envFailed>>
       IN \/ ~input.remote /\ Resolved("host")
          \/ input.remote /\ ~input.cacheKey /\ Fail(FALSE)
             /\ UNCHANGED <<input, configs, heap, idx>>
          \/ input.remote /\ input.cacheKey
             /\ \/ Resolved("cached")
                \/ Resolved("fetched")
                \/ EnvironmentFails

\* mutant: parseConfigs without its EOF tolerance
ParseConfigsNoEOF ==
    /\ pc = "configs"
    /\ \/ /\ input.configLayer \in {"none", "noConfigs", "list"}
          /\ configs' = IF input.configLayer = "list" THEN input.configs ELSE << >>
          /\ pc' = "installs"
          /\ UNCHANGED <<input, heap, deployInfos, idx, envFailed>>
       \/ input.configLayer \in {"notMap", "badList", "eof"} /\ Fail(FALSE)
          /\ UNCHANGED <<input, configs, heap, idx>>
       \/ input.configLayer # "none" /\ EnvironmentFails

\* parseConfigs: EOF and ErrUnexpectedEOF are tolerated as "no configs"
ParseConfigs ==
    /\ pc = "configs"
    /\ \/ /\ input.configLayer \in {"none", "eof", "noConfigs", "list"}
          /\ configs' = IF input.configLayer = "list" THEN input.configs ELSE << >>
          /\ pc' = "installs"
          /\ UNCHANGED <<input, heap, deployInfos, idx, envFailed>>
       \/ input.configLayer \in {"notMap", "badList"} /\ Fail(FALSE)
          /\ UNCHANGED <<input, configs, heap, idx>>
       \/ input.configLayer # "none" /\ EnvironmentFails

\* the indices where the loop of getConfigAndValuesForInstall returns or
\* breaks: an element that is not a map, or a map named like the install
LookupStops(name, cfgs) ==
    {i \in 1..Len(cfgs) : cfgs[i].shape = "notMap" \/ cfgs[i].name = name}

\* getConfigAndValuesForInstall: the loop ends at the first stop; a
\* non-map, or a match without string overrides and clientConfig, is an
\* error.  "none": no element matched (two empty strings).
GetConfigAndValuesForInstall(name, cfgs) ==
    LET stops == LookupStops(name, cfgs)
        i == CHOOSE i \in stops : \A j \in stops : i <= j
    IN IF stops = {} THEN "none"
       ELSE IF cfgs[i].shape \in {"notMap", "malformed"} THEN "error"
       ELSE cfgs[i].shape

\* parseChartConfigAndValues: the lookup and both strvals.ParseInto succeed
ParseChartConfigAndValues(name, cfgs) ==
    GetConfigAndValuesForInstall(name, cfgs) \in {"none", "ok"}

\* getChartInfoForInstall: the Helm, OCI and Kustomize variants decode
\* into a ChartInfo; the Nil type, an unknown type and a source that does
\* not decode are errors
SupportedSource(install) == install.kind \in {"Helm", "Oci", "Kustomize"}

\* one iteration of the loop of parseInstallations:
\*   deployInfo := baseDeployInfo   (a copy of the pointer)
\*   deployInfo.ChartInfo = chartInfo; deployInfos = append(deployInfos, deployInfo)
\* an OCI source pulls its chart (createOciChartInfo, getChartPath) first
ParseInstallation ==
    /\ pc = "installs"
    /\ idx <= Len(input.installs)
    /\ LET install == input.installs[idx]
           deployInfo == 1
       IN \/ /\ SupportedSource(install)
             /\ ParseChartConfigAndValues(install.name, configs)
             /\ heap' = [heap EXCEPT ![deployInfo].chart = install.name]
             /\ deployInfos' = Append(deployInfos, deployInfo)
             /\ idx' = idx + 1
             /\ UNCHANGED <<input, pc, configs, envFailed>>
          \/ /\ ~SupportedSource(install) \/ ~ParseChartConfigAndValues(install.name, configs)
             /\ Fail(FALSE)
             /\ UNCHANGED <<input, configs, heap, idx>>
          \/ install.kind = "Oci" /\ EnvironmentFails

\* the loop of parseInstallations ends and GetInstallInfos returns the jobs
InstallationsParsed ==
    /\ pc = "installs"
    /\ idx > Len(input.installs)
    /\ pc' = "done"
    /\ UNCHANGED <<input, configs, heap, deployInfos, idx, envFailed>>

Returned == pc \in {"done", "failed"} /\ UNCHANGED vars

Next ==
    \/ ParseCrds
    \/ GetDestinationConfigAndClient
    \/ ParseConfigs
    \/ ParseInstallation
    \/ InstallationsParsed
    \/ Returned

Spec == Init /\ [][Next]_vars

-----------------------------------------------------------------------------
(***************************************************************************)
(* The reference: when spec section 4.2 lets a Manifest's preparation      *)
(* succeed, stated over the whole input rather than step by step.  A       *)
(* config entry decides an install when it is the first map carrying the   *)
(* install's name; every entry before it must be a map.                    *)
(***************************************************************************)
Matches(c, name) == c.shape # "notMap" /\ c.name = name

ConfigAccepted(name, cfgs) ==
    \A i \in 1..Len(cfgs) :
        (\A j \in 1..i - 1 : ~Matches(cfgs[j], name))
            => /\ cfgs[i].shape # "notMap"
               /\ cfgs[i].name = name => cfgs[i].shape = "ok"

DecodedConfigs == IF input.configLayer = "list" THEN input.configs ELSE << >>

WellFormed ==
    /\ input.remote => input.cacheKey
    /\ input.configLayer \notin {"notMap", "badList"}
    /\ \A i \in 1..Len(input.installs) :
          /\ SupportedSource(input.installs[i])
          /\ ConfigAccepted(input.installs[i].name, DecodedConfigs)

\* GetInstallInfos returns an error exactly when the spec of the Manifest
\* is not well formed or a registry or API server call failed, and when it
\* returns, it returns one job per install (a job list for a partly parsed
\* Manifest would make the collector wait for responses that never come)
OutcomeMatchesReference ==
    /\ pc = "failed" => (~WellFormed \/ envFailed)
    /\ pc = "done" => WellFormed /\ Len(deployInfos) = Len(input.installs)

\* every job returned by GetInstallInfos carries the chart of its own
\* install (spec 4.2: "Returns an ordered list of InstallJobs", one per
\* install), which parseInstallations' pointer copy of baseDeployInfo breaks
JobsMatchInstalls ==
    pc = "done" =>
        \A i \in 1..Len(deployInfos) : heap[deployInfos[i]].chart = input.installs[i].name
=============================================================================
