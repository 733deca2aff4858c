-------------------------- MODULE KonnectorCleanup --------------------------
(***************************************************************************)
(* BeforeClusterDelete of the Konnector Agent handler                      *)
(* (pkg/handlers/lifecycle/konnectoragent/handler.go) under Cluster API,   *)
(* which calls the hook again after every failure and lets the deletion of *)
(* the Cluster proceed after a success.                                    *)
(*                                                                         *)
(* Each API call of the handler is a step of its own, so that the Cluster  *)
(* controller (phase), the add-on provider CAAPH and the agent (uninstall, *)
(* unregistration from Prism Central) and the clock move between them.     *)
(***************************************************************************)
EXTENDS Integers

CONSTANTS
    Timeout,    \* helmUninstallTimeout, in ticks of the clock
    MaxFaults   \* bound on API errors and restarts of the manager

ASSUME TimeoutIsNat == Timeout \in Nat
ASSUME MaxFaultsIsNat == MaxFaults \in Nat

VARIABLES
    addon,      \* the addon variable in the request: noTopology, absent, invalid, enabled
    exists,     \* is the Cluster object still there?
    phase,      \* Cluster.status.phase
    cpReady,    \* is condition ControlPlaneInitialized true?
    uuid,       \* has the Cluster its UUID annotation?
    hcp,        \* the agent's HelmChartProxy: absent, present, deleting
    age,        \* how long the HelmChartProxy has been deleting
    registered, \* is the cluster registered in Prism Central?
    pc,         \* where the hook is
    answer,     \* its response
    allowed,    \* Cluster API has let the deletion proceed
    faults,     \* faults so far
    pcFault,    \* the last call that was let through met a Prism Central error
    forced,     \* somebody dropped the HelmChartProxy's finalizers by hand
    late        \* history: the cluster registered after the lookup that let it go

clusterVars == <<addon, exists, cpReady, uuid>>
vars == <<clusterVars, phase, hcp, age, registered, pc, answer, allowed, faults, pcFault, forced, late>>

Phases == {"Pending", "Provisioning", "Provisioned", "Deleting"}
PCs == {"idle", "getCluster", "lookup", "status", "delete", "answered"}

NoAnswer == [status |-> "Unset", retry |-> 0]
Success == [status |-> "Success", retry |-> 0]

\* SetStatus(ResponseStatusFailure), with or without SetRetryAfterSeconds
Fail(seconds) == [status |-> "Failure", retry |-> seconds]

Answers == [status : {"Unset", "Success", "Failure"}, retry : {0, 5}]

\* The agent was installed only on a provisioned cluster with a UUID and may or
\* may not have registered it yet; its variable may have been removed since.
Init ==
    /\ addon \in {"noTopology", "absent", "invalid", "enabled"}
    /\ exists = TRUE
    /\ phase \in Phases \ {"Deleting"}
    /\ cpReady \in BOOLEAN
    /\ uuid \in BOOLEAN
    /\ hcp \in {"absent", "present"}
    /\ hcp = "present" => uuid /\ cpReady
    /\ cpReady => phase = "Provisioned"
    /\ registered \in BOOLEAN
    /\ registered => hcp = "present"
    /\ age = 0
    /\ pc = "idle"
    /\ answer = NoAnswer
    /\ allowed = FALSE
    /\ faults = 0
    /\ pcFault = FALSE /\ forced = FALSE /\ late = FALSE

-----------------------------------------------------------------------------
(* The hook *)

Answer(a) == pc' = "answered" /\ answer' = a
GoTo(step) == pc' = step /\ answer' = answer

\* One more API error, or a restart of the manager.
Fault == faults < MaxFaults /\ faults' = faults + 1
NoFault == faults' = faults

\* The handler is called: it decides on the request alone first.
Begin ==
    /\ pc = "idle" /\ ~allowed
    /\ CASE addon \in {"noTopology", "absent"} -> Answer(Success)
         [] addon = "invalid" -> Answer(Fail(0))
         [] OTHER -> GoTo("getCluster")
    /\ pcFault' = FALSE
    /\ UNCHANGED <<clusterVars, phase, hcp, age, registered, allowed, faults, forced, late>>

SlipSkipDeleting == phase \in {"Pending", "Provisioning", "Deleting"}

\* The phases in which there is nothing to clean up; Deleting is not one.
SkipPhase == phase \in {"Pending", "Provisioning"}

\* Read the Cluster with its status and decide whether to skip.
GetCluster ==
    /\ pc = "getCluster"
    /\ IF ~exists \/ SkipPhase \/ ~cpReady THEN Answer(Success) ELSE GoTo("lookup")
    /\ UNCHANGED <<clusterVars, phase, hcp, age, registered, allowed, faults, pcFault, forced, late>>

GetClusterFails ==
    /\ pc = "getCluster" /\ Fault
    /\ Answer(Fail(5))
    /\ UNCHANGED <<clusterVars, phase, hcp, age, registered, allowed, pcFault, forced, late>>

\* isClusterRegisteredInPC: an unregistered cluster comes back as an error,
\* and any error means success.
Lookup ==
    /\ pc = "lookup"
    /\ IF registered THEN GoTo("status") ELSE Answer(Success)
    /\ UNCHANGED <<clusterVars, phase, hcp, age, registered, allowed, faults, pcFault, forced, late>>

\* Credentials, kubeconfig, workload API server or Prism Central fail.
LookupFails ==
    /\ pc = "lookup" /\ Fault
    /\ Answer(Success)
    /\ pcFault' = TRUE
    /\ UNCHANGED <<clusterVars, phase, hcp, age, registered, allowed, forced, late>>

SlipMissingIsNotStarted ==
    CASE ~uuid -> "completed"
      [] hcp = "deleting" -> IF age > Timeout THEN "timed-out" ELSE "in-progress"
      [] OTHER -> "not-started"

\* checkCleanupStatus
CleanupStatus ==
    CASE ~uuid \/ hcp = "absent" -> "completed"
      [] hcp = "deleting" -> IF age > Timeout THEN "timed-out" ELSE "in-progress"
      [] OTHER -> "not-started"

CheckStatus ==
    /\ pc = "status"
    /\ CASE CleanupStatus = "completed" -> Answer(Success)
         [] CleanupStatus = "timed-out" -> Answer(Fail(0))
         [] CleanupStatus = "in-progress" -> Answer(Fail(5))
         [] CleanupStatus = "not-started" -> GoTo("delete")
    /\ UNCHANGED <<clusterVars, phase, hcp, age, registered, allowed, faults, pcFault, forced, late>>

CheckStatusFails ==
    /\ pc = "status" /\ Fault
    /\ Answer(Fail(0))
    /\ UNCHANGED <<clusterVars, phase, hcp, age, registered, allowed, pcFault, forced, late>>

\* deleteHelmChartProxy: get and delete; a missing object is not an error.
DeleteHCP ==
    /\ pc = "delete"
    /\ hcp' = IF hcp = "present" THEN "deleting" ELSE hcp
    /\ age' = IF hcp = "present" THEN 0 ELSE age
    /\ Answer(Fail(5))
    /\ UNCHANGED <<clusterVars, phase, registered, allowed, faults, pcFault, forced, late>>

\* An error of either call; a Delete whose answer is lost has taken effect.
DeleteFails ==
    /\ pc = "delete" /\ Fault
    /\ Answer(Fail(0))
    /\ \/ UNCHANGED <<hcp, age>>
       \/ hcp = "present" /\ hcp' = "deleting" /\ age' = 0
    /\ UNCHANGED <<clusterVars, phase, registered, allowed, pcFault, forced, late>>

\* The manager restarts: the call is lost and its caller sees an error.
Restart ==
    /\ pc \notin {"idle", "answered"} /\ Fault
    /\ Answer(Fail(0))
    /\ UNCHANGED <<clusterVars, phase, hcp, age, registered, allowed, pcFault, forced, late>>

HookStep ==
    \/ GetCluster \/ Lookup \/ CheckStatus \/ DeleteHCP
HookFault ==
    \/ GetClusterFails \/ LookupFails \/ CheckStatusFails \/ DeleteFails \/ Restart

-----------------------------------------------------------------------------
(* Its caller and the other controllers (external) *)

\* Cluster API: a success lets the deletion proceed, a failure is retried.
Consume ==
    /\ pc = "answered"
    /\ pc' = "idle"
    /\ answer' = NoAnswer
    /\ allowed' = (answer.status # "Failure")
    /\ UNCHANGED <<clusterVars, phase, hcp, age, registered, faults, pcFault, forced, late>>

\* The Cluster controller reflects the deletion timestamp in the phase.
PhaseDeleting ==
    /\ phase # "Deleting"
    /\ phase' = "Deleting"
    /\ UNCHANGED <<clusterVars, hcp, age, registered, pc, answer, allowed, faults, pcFault, forced, late>>

\* Somebody strips the Cluster's finalizers while the hook is being retried.
ClusterRemoved ==
    /\ exists /\ Fault
    /\ exists' = FALSE
    /\ UNCHANGED <<addon, cpReady, uuid, phase, hcp, age, registered, pc, answer,
                   allowed, pcFault, forced, late>>

\* The installed agent registers the cluster when it comes up, however late:
\* between the hook's calls, and after the hook has looked.
Register ==
    /\ hcp = "present" /\ ~registered
    /\ registered' = TRUE
    /\ late' = (late \/ allowed \/ (pc = "answered" /\ answer.status # "Failure"))
    /\ UNCHANGED <<clusterVars, phase, hcp, age, pc, answer, allowed, faults, pcFault, forced>>

\* The chart's uninstall unregisters the cluster ...
Unregister ==
    /\ hcp = "deleting" /\ registered /\ ~allowed
    /\ registered' = FALSE
    /\ UNCHANGED <<clusterVars, phase, hcp, age, pc, answer, allowed, faults, pcFault, forced, late>>

\* ... and CAAPH drops its finalizer when the uninstall is done.
Uninstalled ==
    /\ hcp = "deleting" /\ ~registered
    /\ hcp' = "absent"
    /\ UNCHANGED <<clusterVars, phase, age, registered, pc, answer, allowed, faults, pcFault, forced, late>>

\* Somebody follows the advice of the timeout's message.
FinalizerRemoved ==
    /\ hcp = "deleting" /\ age > Timeout
    /\ hcp' = "absent" /\ forced' = TRUE
    /\ UNCHANGED <<clusterVars, phase, age, registered, pc, answer, allowed, faults, pcFault, late>>

Tick ==
    /\ hcp = "deleting" /\ age <= Timeout
    /\ age' = age + 1
    /\ UNCHANGED <<clusterVars, phase, hcp, registered, pc, answer, allowed, faults, pcFault, forced, late>>

Next ==
    \/ Begin \/ HookStep \/ HookFault \/ Consume
    \/ PhaseDeleting \/ ClusterRemoved \/ Register \/ Unregister \/ Uninstalled
    \/ FinalizerRemoved \/ Tick

Spec == Init /\ [][Next]_vars

\* The hook's goroutine runs, Cluster API retries, the clock moves.
Fairness ==
    /\ WF_vars(Begin)
    /\ WF_vars(HookStep)
    /\ WF_vars(Consume)
    /\ WF_vars(Tick)

FairSpec == Spec /\ Fairness

\* In addition the agent's uninstall makes progress.
HealthySpec == FairSpec /\ WF_vars(Unregister) /\ WF_vars(Uninstalled)

-----------------------------------------------------------------------------
(* Properties *)

\* The range of every variable.
TypeOK ==
    /\ addon \in {"noTopology", "absent", "invalid", "enabled"}
    /\ exists \in BOOLEAN /\ cpReady \in BOOLEAN /\ uuid \in BOOLEAN
    /\ phase \in Phases
    /\ hcp \in {"absent", "present", "deleting"}
    /\ age \in 0 .. Timeout + 1
    /\ registered \in BOOLEAN
    /\ pc \in PCs
    /\ answer \in Answers
    /\ allowed \in BOOLEAN
    /\ faults \in 0 .. MaxFaults
    /\ pcFault \in BOOLEAN /\ forced \in BOOLEAN /\ late \in BOOLEAN

\* The deletion of a cluster that has the add-on and a registration nobody
\* forced out or failed to read.
ReleasedWhileRegistered ==
    allowed /\ addon = "enabled" /\ exists /\ ~pcFault /\ ~forced /\ registered

\* The deletion never overtakes the unregistration of a cluster that was registered
\* when the releasing call looked, however the agent's start, the phase, the uninstall
\* and the retries interleave: only a registration that begins after that lookup
\* is left behind.
DeletionWaitsForUnregistration == ReleasedWhileRegistered => late

\* The hook lets go as soon as the agent is unregistered or its chart gone,
\* after a timeout too: a late end of the uninstall, by itself or by force, is never
\* missed.
DeletionEventuallyAllowed == addon # "invalid" => <>allowed
=============================================================================
