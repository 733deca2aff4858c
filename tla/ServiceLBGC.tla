---------------------------- MODULE ServiceLBGC ----------------------------
(***************************************************************************)
(* The load-balancer garbage collector: BeforeClusterDelete of             *)
(* pkg/handlers/lifecycle/servicelbgc/handler.go and deleter.go, retried   *)
(* by Cluster API, while the cloud provider of the workload cluster hands  *)
(* out and takes back load balancers and users create Services.            *)
(***************************************************************************)
EXTENDS Integers, FiniteSets

CONSTANTS
    Services,   \* the Services users may create in the workload cluster
    MaxFaults   \* bound on API errors

ASSUME ServicesFinite == IsFiniteSet(Services)
ASSUME MaxFaultsIsNat == MaxFaults \in Nat

VARIABLES
    present,    \* is there a Cluster object?
    gc,         \* annotation loadbalancer-gc: absent, true, false, invalid
    cpReady,    \* is condition ControlPlaneInitialized true?
    phase,      \* Cluster.status.phase
    svc,        \* state of each Service of type LoadBalancer
    pc,         \* where the hook is
    todo,       \* Services of the list not yet looked at by the loop
    snapshot,   \* the state of each Service in the list
    failed,     \* svcsFailedToBeDeleted
    still,      \* svcsStillExisting
    answer,     \* the response
    reason,     \* why the last answer was given
    allowed,    \* Cluster API has let the deletion proceed
    late,       \* Services whose load balancer came up after the last list
    faults      \* API errors so far

config == <<gc, cpReady, present>>
hook == <<pc, todo, snapshot, failed, still, answer, reason>>
vars == <<config, phase, svc, hook, allowed, late, faults>>

Phases == {"Pending", "Provisioning", "Provisioned", "Deleting"}

\* A Service has no load balancer yet (pending), has one (exposed), or is
\* being deleted while the cloud provider takes the load balancer down.
SvcStates == {"none", "pending", "exposed", "terminating"}
HasLB(s) == svc[s] \in {"exposed", "terminating"}

Init ==
    /\ present = TRUE
    /\ gc \in {"absent", "true", "false", "invalid"}
    /\ cpReady \in BOOLEAN
    /\ phase \in Phases \ {"Deleting"}
    /\ cpReady => phase = "Provisioned"
    /\ svc \in [Services -> {"none", "pending", "exposed"}]
    /\ ~cpReady => \A s \in Services : svc[s] = "none"
    /\ pc = "idle"
    /\ todo = {}
    /\ snapshot = svc
    /\ failed = {}
    /\ still = {}
    /\ answer = "Unset"
    /\ reason = "none"
    /\ allowed = FALSE
    /\ late = {}
    /\ faults = 0

-----------------------------------------------------------------------------
(* The hook *)

Fault == faults < MaxFaults /\ faults' = faults + 1

Answer(status, why) ==
    /\ pc' = "answered" /\ answer' = status /\ reason' = why
    /\ UNCHANGED <<todo, snapshot, failed, still>>

GoTo(step) ==
    /\ pc' = step
    /\ UNCHANGED <<todo, snapshot, failed, still, answer, reason>>

Begin ==
    /\ pc = "idle" /\ ~allowed
    /\ GoTo("getCluster")
    /\ UNCHANGED <<config, phase, svc, allowed, late, faults>>

\* strconv.ParseBool of the annotation, "true" when it is not set
Wanted == gc \in {"absent", "true"}

\* The phases in which shouldDeleteServicesWithLoadBalancer skips a cluster.
SkippedPhases == {"Pending", "Provisioning", "Deleting"}

\* shouldDeleteServicesWithLoadBalancer, and the answers it leads to: an
\* unparsable annotation fails, a skip leaves the response as it is.
GetCluster ==
    /\ pc = "getCluster" /\ present
    /\ CASE gc = "invalid" -> Answer("Failure", "annotation")
         [] ~Wanted \/ ~cpReady -> Answer("Unset", "skipped")
         [] phase \in SkippedPhases -> Answer("Unset", "phase")
         [] OTHER -> GoTo("remote")
    /\ UNCHANGED <<config, phase, svc, allowed, late, faults>>

GetClusterNotFound ==
    /\ pc = "getCluster" /\ ~present
    /\ Answer("Success", "notFound")
    /\ UNCHANGED <<config, phase, svc, allowed, late, faults>>

GetClusterFails ==
    /\ pc = "getCluster" /\ Fault
    /\ Answer("Failure", "api")
    /\ UNCHANGED <<config, phase, svc, allowed, late>>

RemoteClient ==
    /\ pc = "remote"
    /\ GoTo("list")
    /\ UNCHANGED <<config, phase, svc, allowed, late, faults>>

RemoteClientFails ==
    /\ pc = "remote" /\ Fault
    /\ Answer("Failure", "api")
    /\ UNCHANGED <<config, phase, svc, allowed, late>>

SlipKeepLists == UNCHANGED <<failed, still>>

\* var svcsFailedToBeDeleted, svcsStillExisting []ctrlclient.ObjectKey
FreshLists == failed' = {} /\ still' = {}

\* c.List(ctx, services)
List ==
    /\ pc = "list"
    /\ pc' = "loop"
    /\ snapshot' = svc
    /\ todo' = {s \in Services : svc[s] # "none"}
    /\ FreshLists
    /\ late' = {}
    /\ UNCHANGED <<config, phase, svc, answer, reason, allowed, faults>>

\* The list's error is neither of the two the handler knows: success.
ListFails ==
    /\ pc = "list" /\ Fault
    /\ Answer("Success", "listError")
    /\ UNCHANGED <<config, phase, svc, allowed, late>>

SlipSkipTerminating(s) == snapshot[s] = "exposed"

\* needsDelete: a LoadBalancer Service with an address
NeedsDelete(s) == snapshot[s] \in {"exposed", "terminating"}

\* Every Service that needs deletion counts as existing, also when Delete is
\* about to be called on it.
StillAfter(s) == IF NeedsDelete(s) THEN still \cup {s} ELSE still

\* One iteration of the loop: Delete is called on what is not terminating yet;
\* a Service that has gone meanwhile is not an error.
LoopStep(s, deleteFails) ==
    /\ pc = "loop"
    /\ s \in todo
    /\ todo' = todo \ {s}
    /\ still' = StillAfter(s)
    /\ LET deletes == NeedsDelete(s) /\ snapshot[s] # "terminating"
       IN  /\ IF deleteFails
              THEN deletes /\ Fault /\ failed' = failed \cup {s} /\ svc' = svc
              ELSE /\ failed' = failed /\ faults' = faults
                   /\ svc' = IF deletes /\ svc[s] = "exposed"
                             THEN [svc EXCEPT ![s] = "terminating"] ELSE svc
    /\ UNCHANGED <<config, phase, pc, snapshot, answer, reason, allowed, late>>

LoopEnds ==
    /\ pc = "loop" /\ todo = {}
    /\ IF failed \cup still # {} THEN Answer("Failure", "services") ELSE Answer("Success", "clean")
    /\ UNCHANGED <<config, phase, svc, allowed, late, faults>>

HookStep ==
    \/ GetCluster \/ GetClusterNotFound \/ RemoteClient \/ List \/ LoopEnds
    \/ \E s \in Services : LoopStep(s, FALSE)
HookFault ==
    \/ GetClusterFails \/ RemoteClientFails \/ ListFails
    \/ \E s \in Services : LoopStep(s, TRUE)

-----------------------------------------------------------------------------
(* Its caller, the other controllers and the users (external) *)

Consume ==
    /\ pc = "answered"
    /\ pc' = "idle"
    /\ answer' = "Unset"
    /\ allowed' = (answer # "Failure")
    /\ UNCHANGED <<config, phase, svc, todo, snapshot, failed, still, reason, late, faults>>

\* Somebody drops the Cluster's finalizers by hand.
ClusterRemoved ==
    /\ present
    /\ present' = FALSE
    /\ UNCHANGED <<gc, cpReady, phase, svc, hook, allowed, late, faults>>

PhaseDeleting ==
    /\ phase # "Deleting" /\ present
    /\ phase' = "Deleting"
    /\ UNCHANGED <<config, svc, hook, allowed, late, faults>>

\* A user creates a Service of type LoadBalancer.
UserCreates(s) ==
    /\ svc[s] = "none" /\ cpReady /\ ~allowed
    /\ svc' = [svc EXCEPT ![s] = "pending"]
    /\ UNCHANGED <<config, phase, hook, allowed, late, faults>>

\* The cloud provider gives a Service its load balancer ...
Provision(s) ==
    /\ svc[s] = "pending" /\ ~allowed
    /\ svc' = [svc EXCEPT ![s] = "exposed"]
    /\ late' = late \cup {s}
    /\ UNCHANGED <<config, phase, hook, allowed, faults>>

\* ... and takes it back, dropping the Service's finalizer.
Reclaim(s) ==
    /\ svc[s] = "terminating" /\ ~allowed
    /\ svc' = [svc EXCEPT ![s] = "none"]
    /\ UNCHANGED <<config, phase, hook, allowed, late, faults>>

Environment ==
    \/ PhaseDeleting \/ ClusterRemoved
    \/ \E s \in Services : UserCreates(s) \/ Provision(s) \/ Reclaim(s)

Next == Begin \/ HookStep \/ HookFault \/ Consume \/ Environment

Spec == Init /\ [][Next]_vars

\* The hook runs, Cluster API retries, the cloud provider does its work; users
\* stop creating Services in a cluster they are deleting.
FairSpec ==
    /\ Spec
    /\ WF_vars(Begin) /\ WF_vars(HookStep) /\ WF_vars(Consume)
    /\ \A s \in Services : WF_vars(Reclaim(s))
    /\ <>[][\A s \in Services : ~UserCreates(s)]_vars

-----------------------------------------------------------------------------
(* Properties *)

\* The range of every variable.
TypeOK ==
    /\ gc \in {"absent", "true", "false", "invalid"}
    /\ cpReady \in BOOLEAN /\ present \in BOOLEAN
    /\ phase \in Phases
    /\ svc \in [Services -> SvcStates]
    /\ snapshot \in [Services -> SvcStates]
    /\ todo \subseteq Services /\ failed \subseteq still /\ still \subseteq Services
    /\ late \subseteq Services
    /\ pc \in {"idle", "getCluster", "remote", "list", "loop", "answered"}
    /\ answer \in {"Unset", "Success", "Failure"}
    /\ reason \in {"none", "annotation", "skipped", "phase", "api", "listError",
                   "services", "clean", "notFound"}
    /\ allowed \in BOOLEAN
    /\ faults \in 0 .. MaxFaults

OptedIn == gc \in {"absent", "true"} /\ cpReady

\* A cluster that did not opt out is not deleted while a load balancer that
\* existed when the hook last looked is still there, however the deletions, the
\* cloud provider and failing calls interleave.  A Cluster removed by force is let
\* go, and so are one that a call finds in phase Deleting (deleter.go:158) and one
\* whose Services could not be listed (handler.go:112).
LoadBalancersCollected ==
    allowed /\ OptedIn /\ reason \notin {"listError", "phase", "notFound"} =>
        \A s \in Services : HasLB(s) => s \in late

\* Once users stop creating Services the hook lets the deletion proceed.
DeletionEventuallyAllowed == gc # "invalid" => <>allowed
=============================================================================
