--------------------------- MODULE RegistrySyncer ---------------------------
(***************************************************************************)
(* The registry syncer of one workload cluster, over its life: Apply from  *)
(* the AfterControlPlaneInitialized and BeforeClusterUpgrade hooks,        *)
(* Cleanup from BeforeClusterDelete                                        *)
(* (pkg/handlers/lifecycle/registry/handler.go,                            *)
(*  registry/cncfdistribution/handler.go, registry/syncer/syncer.go).      *)
(*                                                                         *)
(* The syncer's HelmChartProxy is owned by the management cluster, so that *)
(* the deletion of the workload cluster does not collect it: only Cleanup  *)
(* removes it.  Both operations are guarded by shouldApplyRegistrySyncer,  *)
(* evaluated on the configuration of the moment.                           *)
(***************************************************************************)
EXTENDS Naturals

CONSTANTS MaxErrors     \* bound on API errors

ASSUME MaxErrorsIsNat == MaxErrors \in Nat

VARIABLES
    mgmt,       \* the management cluster: none (bootstrap), self, other
    gate,       \* feature gate SynchronizeWorkloadClusterRegistry
    skip,       \* has the cluster the skip annotation?
    addon,      \* registry add-on of the cluster: absent, invalid, unknown, enabled
    mgmtAddon,  \* registry add-on of the management cluster
    hcp,        \* does the syncer's HelmChartProxy exist?
    stage,      \* the cluster's life: running, deleting, gone
    answer,     \* what the last hook answered
    changed,    \* was the configuration changed since the proxy was applied?
    errors      \* API errors so far

config == <<mgmt, gate, skip, addon, mgmtAddon>>
syncerVars == <<config, hcp, stage, answer, changed, errors>>

Addons == {"absent", "invalid", "unknown", "enabled"}

SyncerInit ==
    /\ mgmt \in {"none", "self", "other"}
    /\ gate \in BOOLEAN
    /\ skip \in BOOLEAN
    /\ addon \in Addons
    /\ mgmtAddon \in {"absent", "invalid", "enabled"}
    /\ hcp = FALSE
    /\ stage = "running"
    /\ answer = "Unset"
    /\ changed = FALSE
    /\ errors = 0

-----------------------------------------------------------------------------

Fault == errors < MaxErrors /\ errors' = errors + 1

\* The part of shouldApplyRegistrySyncer before the management cluster's own
\* add-on is read.
Candidate == mgmt = "other" /\ gate /\ ~skip /\ addon # "absent"

\* shouldApplyRegistrySyncer: yes, no, or an error
ShouldApply ==
    IF ~Candidate THEN "no"
    ELSE IF mgmtAddon = "invalid" THEN "error"
    ELSE IF mgmtAddon = "absent" THEN "no" ELSE "yes"

SlipRaw(verdict) == verdict

\* The status the provider's error, or its absence, is turned into.
Status(verdict) == IF verdict = "error" THEN "Failure" ELSE "Success"

\* The registry handler's own guards, shared by apply and BeforeClusterDelete.
HandlerAnswer ==
    CASE addon = "absent" -> "Unset"
      [] addon \in {"invalid", "unknown"} -> "Failure"
      [] OTHER -> Status(ShouldApply)

\* Does a call of the handler reach the syncer's HelmChartProxy?
Reaches == addon = "enabled" /\ ShouldApply = "yes"

\* RegistryHandler.apply -> CNCFDistribution.Apply -> RegistrySyncer.Apply.
\* The syncer's server-side apply is the last step; nothing removes a proxy
\* that is no longer wanted.
Apply ==
    /\ stage = "running"
    /\ answer' = HandlerAnswer
    /\ hcp' = (hcp \/ Reaches)
    /\ changed' = (changed /\ ~Reaches)
    /\ UNCHANGED <<config, stage, errors>>

\* A step of Apply fails: the certificate, the add-on's own chart, the read of
\* the management cluster, or the apply itself, which may have taken effect.
ApplyFails ==
    /\ stage = "running" /\ addon = "enabled" /\ Fault
    /\ answer' = "Failure"
    /\ \/ UNCHANGED <<hcp, changed>>
       \/ Reaches /\ hcp' = TRUE /\ changed' = FALSE
    /\ UNCHANGED <<config, stage>>

\* RegistryHandler.BeforeClusterDelete -> Cleanup; Cluster API calls it again
\* after a failure and otherwise lets the deletion proceed.
Cleanup ==
    /\ stage = "deleting"
    /\ answer' = HandlerAnswer
    /\ hcp' = (hcp /\ ~Reaches)
    /\ stage' = IF answer' = "Failure" THEN "deleting" ELSE "gone"
    /\ UNCHANGED <<config, changed, errors>>

SlipFailsOpen == "gone"

\* The stage after a hook call that met an API error.
StageAfterError == "deleting"

CleanupFails ==
    /\ stage = "deleting" /\ addon = "enabled" /\ Fault
    /\ answer' = "Failure"
    /\ stage' = StageAfterError
    /\ hcp' \in {hcp, hcp /\ ~Reaches}
    /\ UNCHANGED <<config, changed>>

-----------------------------------------------------------------------------
(* Users and the management cluster (external) *)

RequestDelete ==
    /\ stage = "running"
    /\ stage' = "deleting"
    /\ UNCHANGED <<config, hcp, answer, changed, errors>>

\* Somebody edits the cluster or the management cluster.
Reconfigure ==
    /\ stage # "gone"
    /\ \/ skip' = ~skip /\ UNCHANGED <<mgmt, gate, addon, mgmtAddon>>
       \/ mgmtAddon' \in {"absent", "enabled"} \ {mgmtAddon}
          /\ UNCHANGED <<mgmt, gate, skip, addon>>
       \/ addon' \in {"absent", "enabled"} \ {addon} /\ UNCHANGED <<mgmt, gate, skip, mgmtAddon>>
       \/ gate' = ~gate /\ UNCHANGED <<mgmt, skip, addon, mgmtAddon>>
    /\ changed' = TRUE
    /\ UNCHANGED <<hcp, stage, answer, errors>>

SyncerNext ==
    \/ Apply \/ ApplyFails \/ Cleanup \/ CleanupFails
    \/ RequestDelete \/ Reconfigure

SyncerSpec == SyncerInit /\ [][SyncerNext]_syncerVars

-----------------------------------------------------------------------------
(* Properties *)

\* The range of every variable.
SyncerTypeOK ==
    /\ mgmt \in {"none", "self", "other"}
    /\ gate \in BOOLEAN /\ skip \in BOOLEAN
    /\ addon \in Addons
    /\ mgmtAddon \in {"absent", "invalid", "enabled"}
    /\ hcp \in BOOLEAN
    /\ stage \in {"running", "deleting", "gone"}
    /\ answer \in {"Unset", "Success", "Failure"}
    /\ changed \in BOOLEAN
    /\ errors \in 0 .. MaxErrors

\* A deleted cluster leaves its syncer behind only if the configuration that
\* shouldApplyRegistrySyncer reads was edited after the proxy was last applied:
\* no failed, half-done or repeated call of either hook makes it leak.
LeaksOnlyAfterReconfiguration ==
    stage = "gone" /\ hcp => changed
=============================================================================
