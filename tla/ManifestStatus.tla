--------------------------- MODULE ManifestStatus ---------------------------
(***************************************************************************)
(* What the module-manager controller promises about one Manifest, seen    *)
(* from the API server and the target cluster: the status it reports, the  *)
(* deletion request, the object's existence, and which installs have their *)
(* resources on the cluster.  ManifestReconciler implements it under the   *)
(* mapping given there (StatusContract).                                   *)
(***************************************************************************)
CONSTANT InstallSet            \* the installs of the Manifest's spec

VARIABLES
    status,     \* status.state
    deleting,   \* the deletion timestamp is set
    present,    \* the object exists on the API server
    applied     \* the installs whose resources are on the target cluster

vars == <<status, deleting, present, applied>>

StatusStates == {"Initial", "Processing", "Deleting", "Error", "Ready"}

TypeOK ==
    /\ status \in StatusStates
    /\ deleting \in BOOLEAN
    /\ present \in BOOLEAN
    /\ applied \in SUBSET InstallSet

Init ==
    /\ status = "Initial"
    /\ deleting = FALSE
    /\ present = TRUE
    /\ applied = {}

\* The controller writes a status: never back to Initial, only Deleting or
\* Error once deletion was requested, and Ready only with every install
\* applied.
WriteStatus(s) ==
    /\ present
    /\ s \in StatusStates \ {"Initial"}
    /\ deleting => s \in {"Deleting", "Error"}
    /\ s = "Ready" => applied = InstallSet
    /\ status' = s
    /\ UNCHANGED <<deleting, present, applied>>

\* A user requests deletion; the object goes at once only if the controller
\* never gave it a status.
RequestDeletion ==
    /\ present /\ ~deleting
    /\ deleting' = TRUE
    /\ present' \in BOOLEAN
    /\ present' = FALSE => status = "Initial"
    /\ UNCHANGED <<status, applied>>

\* The object disappears after deletion was requested.
Remove ==
    /\ present /\ deleting
    /\ present' = FALSE
    /\ UNCHANGED <<status, deleting, applied>>

\* Installs are applied at any time; resources are removed only while the
\* Manifest is being deleted and reports Deleting or Error.
ChangeResources ==
    /\ applied' \in SUBSET InstallSet
    /\ ~(applied \subseteq applied') =>
          deleting /\ status \in {"Deleting", "Error"}
    /\ UNCHANGED <<status, deleting, present>>

Next ==
    \/ \E s \in StatusStates : WriteStatus(s)
    \/ RequestDeletion
    \/ Remove
    \/ ChangeResources

Spec == Init /\ [][Next]_vars

=============================================================================
