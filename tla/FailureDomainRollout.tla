------------------------ MODULE FailureDomainRollout ------------------------
(***************************************************************************)
(* The failure domain rollout controller                                   *)
(* (pkg/controllers/failuredomainrollout/controller.go) for one cluster,   *)
(* next to the KubeadmControlPlane (KCP) controller of Cluster API, which  *)
(* replaces the control plane's machines, and to the users who edit both.  *)
(*                                                                         *)
(* A reconcile reads the Cluster and the KCP, then lists the machines, and *)
(* ends with an Update of the KCP that carries the resource version it     *)
(* read: other actors step between the reads and the Update.  The          *)
(* controller watches Clusters only.                                       *)
(***************************************************************************)
EXTENDS Naturals, FiniteSets, FiniteSetsExt, Functions

CONSTANTS
    FD,             \* names of failure domains
    NoFD,           \* the failure domain of a machine that has none
    ReplicaChoices, \* values of KCP.spec.replicas
    MaxEdits,       \* bound on the users' edits
    MaxFaults       \* bound on API errors

ASSUME ConstantsOK ==
    /\ IsFiniteSet(FD) /\ FD # {}
    /\ NoFD \notin FD
    /\ ReplicaChoices \subseteq Nat \ {0} /\ ReplicaChoices # {}
    /\ MaxEdits \in Nat /\ MaxFaults \in Nat

VARIABLES
    \* The Cluster
    domains,    \* status.failureDomains: enabled or disabled for control planes, or removed
    stage,      \* unmanaged (no topology or no ref), missing (no KCP yet), present,
                \* deleting (the Cluster), kcpDeleting (the KCP too)
    paused,     \* {"cluster", "kcp"}: which objects are paused
    \* The KCP and its machines
    replicas,   \* spec.replicas
    after,      \* spec.rollout.after: never, recent (under 15 minutes), past
    observed,   \* is status.observedGeneration the generation?
    old, new,   \* machines per failure domain that are outdated, up to date
    \* The controller
    queued,     \* is the cluster in the work queue?
    timer,      \* is a RequeueAfter or a back-off running?
    read,       \* the objects the reconcile under way has read, or Idle
    touched,    \* was the KCP written since it was read?
    edits, faults

clusterVars == <<domains, stage, paused>>
kcpVars == <<replicas, after, observed, old, new>>
ctlVars == <<queued, timer, read, touched>>
vars == <<clusterVars, kcpVars, ctlVars, edits, faults>>

Places == FD \cup {NoFD}
Total(count) == FoldFunction(+, 0, count)
NoMachines == [p \in Places |-> 0]
Idle == [busy |-> FALSE]

-----------------------------------------------------------------------------
(* The decision: pure functions of the objects read.  A distribution counts *)
(* the machines of each failure domain; the code's map holds the nonzero    *)
(* ones only.                                                               *)

Used(dist) == {f \in FD : dist[f] > 0}

\* getMachineDistribution: machines without a failure domain are not counted
Distribution == [f \in FD |-> old[f] + new[f]]

\* getAvailableFailureDomains
Available(doms) == {f \in FD : doms[f] = "enabled"}

\* calculateMaxIdealPerFD
MaxIdealPerFD(n, available) ==
    IF available = 0 THEN n
    ELSE n \div available + (IF n % available > 0 THEN 1 ELSE 0)

\* hasSuboptimalDistribution
HasSuboptimalDistribution(dist, n, available) ==
    \E f \in Used(dist) : dist[f] > MaxIdealPerFD(n, available)

MaxPerFD(dist) == Max({0} \cup {dist[f] : f \in FD})
FDsAtMax(dist) == Cardinality({f \in Used(dist) : dist[f] = MaxPerFD(dist)})

OptimalFDsAtMax(n, available) ==
    IF n % available = 0 THEN available ELSE n % available

SlipNotStrict(dist, n, available) ==
    /\ Used(dist) # {} /\ n # 0 /\ available > Cardinality(Used(dist))
    /\ MaxIdealPerFD(n, available) <= MaxPerFD(dist)

\* canImproveWithMoreFDs
CanImproveWithMoreFDs(dist, n, available) ==
    /\ Used(dist) # {} /\ n # 0 /\ available > Cardinality(Used(dist))
    /\ \/ MaxIdealPerFD(n, available) < MaxPerFD(dist)
       \/ /\ MaxIdealPerFD(n, available) = MaxPerFD(dist)
          /\ OptimalFDsAtMax(n, available) < FDsAtMax(dist)

\* shouldImproveDistribution
ShouldImprove(dist, n, available) ==
    \/ HasSuboptimalDistribution(dist, n, available)
    \/ /\ available > Cardinality(Used(dist))
       /\ CanImproveWithMoreFDs(dist, n, available)

SlipOnlyRemoved(dist, doms) == \E f \in Used(dist) : doms[f] = "removed"

\* The first loop of shouldTriggerRollout: a used domain is removed or disabled.
UsesInvalidDomain(dist, doms) == \E f \in Used(dist) : doms[f] # "enabled"

\* shouldTriggerRollout
ShouldTrigger(dist, doms, n) ==
    \/ UsesInvalidDomain(dist, doms)
    \/ ShouldImprove(dist, n, Cardinality(Available(doms)))

\* UpToDateReplicas < Replicas
Outdated == Total(old) > 0

\* shouldSkipRollout: triggered under 15 minutes ago, or machines are outdated
\* (by the KCP's replica counts or by its MachinesUpToDate condition).
ShouldSkipRollout == after = "recent" \/ Outdated

-----------------------------------------------------------------------------
(* The controller *)

Init ==
    /\ domains \in [FD -> {"enabled", "disabled", "removed"}]
    /\ stage \in {"unmanaged", "missing"}
    /\ paused = {}
    /\ replicas \in ReplicaChoices
    /\ after = "never" /\ observed = FALSE
    /\ old = NoMachines /\ new = NoMachines
    /\ queued = TRUE /\ timer = FALSE
    /\ read = Idle /\ touched = FALSE
    /\ edits = 0 /\ faults = 0

\* shouldSkipClusterReconciliation, KCP not found, areResourcesDeleting and
\* areResourcesPaused: the reconcile ends and asks for nothing.
NothingToDo ==
    \/ stage # "present"
    \/ \A f \in FD : domains[f] = "removed"
    \/ paused # {}

\* Reconcile up to the list of machines: Get the Cluster and the KCP.
ReadObjects ==
    /\ queued /\ ~read.busy
    /\ queued' = FALSE
    /\ \/ /\ NothingToDo
          /\ UNCHANGED <<timer, read, touched>>
       \/ /\ ~NothingToDo /\ ~observed          \* areResourcesUpdating
          /\ timer' = TRUE
          /\ UNCHANGED <<read, touched>>
       \/ /\ ~NothingToDo /\ observed
          /\ read' = [busy |-> TRUE, domains |-> domains, replicas |-> replicas,
                      skip |-> ShouldSkipRollout]
          /\ touched' = FALSE
          /\ UNCHANGED timer
    /\ UNCHANGED <<clusterVars, kcpVars, edits, faults>>

NeedsRollout == ShouldTrigger(Distribution, read.domains, read.replicas)

SlipLastWriterWins == FALSE

\* The API server refuses an Update whose resource version is not the current one.
Conflict == touched

\* metav1.Now()
Now == "recent"

\* The Update with spec.rollout.after = now: every machine is now outdated and
\* the KCP has a new generation.
TriggerRollout ==
    /\ read.busy /\ NeedsRollout /\ ~read.skip /\ ~Conflict
    /\ after' = Now /\ observed' = FALSE
    /\ old' = [p \in Places |-> old[p] + new[p]]
    /\ new' = NoMachines
    /\ read' = Idle
    /\ UNCHANGED <<clusterVars, replicas, queued, timer, touched, edits, faults>>

\* The reconcile ends without a write: nothing is needed, a rollout is recent or
\* under way (requeue after 5 or 2 minutes), or the Update conflicts (back-off).
EndReconcile ==
    /\ read.busy
    /\ \/ ~NeedsRollout /\ UNCHANGED timer
       \/ NeedsRollout /\ (read.skip \/ Conflict) /\ timer' = TRUE
    /\ read' = Idle
    /\ UNCHANGED <<clusterVars, kcpVars, queued, touched, edits, faults>>

\* A Get, the List or the Update fails: the work queue backs off and retries.
ReconcileFails ==
    /\ faults < MaxFaults
    /\ \/ queued /\ ~read.busy /\ queued' = FALSE
       \/ read.busy /\ UNCHANGED queued
    /\ read' = Idle /\ timer' = TRUE
    /\ faults' = faults + 1
    /\ UNCHANGED <<clusterVars, kcpVars, touched, edits>>

TimerFires ==
    /\ timer
    /\ timer' = FALSE /\ queued' = TRUE
    /\ UNCHANGED <<clusterVars, kcpVars, read, touched, edits, faults>>

\* The periodic resync of the manager's cache hands every Cluster to the controller.
Resync ==
    /\ ~queued
    /\ queued' = TRUE
    /\ UNCHANGED <<clusterVars, kcpVars, timer, read, touched, edits, faults>>

-----------------------------------------------------------------------------
(* The KCP controller (external).  It places a machine in the available     *)
(* domain with the fewest up-to-date machines, then the fewest machines,    *)
(* and removes one, outdated ones first, from a domain that is no longer    *)
(* available, else from the one with the most.                              *)

KcpRuns == stage \in {"present", "deleting"} /\ paused = {}

KcpObserves ==
    /\ KcpRuns /\ ~observed
    /\ observed' = TRUE /\ touched' = TRUE
    /\ UNCHANGED <<clusterVars, replicas, after, old, new, queued, timer, read, edits, faults>>

Fewer(f, g) ==
    \/ new[f] < new[g]
    \/ new[f] = new[g] /\ old[f] + new[f] <= old[g] + new[g]

PlaceIn(p) ==
    IF Available(domains) = {} THEN p = NoFD
    ELSE p \in Available(domains) /\ \A g \in Available(domains) : Fewer(p, g)

\* A rolling update adds one machine beyond spec.replicas before it removes one.
KcpAddsMachine ==
    /\ KcpRuns /\ observed
    /\ LET n == Total(old) + Total(new)
       IN n < replicas \/ (n = replicas /\ Outdated)
    /\ \E p \in Places : PlaceIn(p) /\ new' = [new EXCEPT ![p] = @ + 1]
    /\ touched' = TRUE
    /\ UNCHANGED <<clusterVars, replicas, after, observed, old, queued, timer, read, edits, faults>>

RemoveFrom(p, count) ==
    /\ count[p] > 0
    /\ LET gone == {q \in Places : count[q] > 0 /\ q \notin Available(domains)}
       IN IF gone # {} THEN p \in gone ELSE \A q \in Places : count[q] <= count[p]

KcpRemovesMachine ==
    /\ KcpRuns /\ observed
    /\ Total(old) + Total(new) > replicas
    /\ \E p \in Places :
          IF Outdated
          THEN RemoveFrom(p, old) /\ old' = [old EXCEPT ![p] = @ - 1] /\ UNCHANGED new
          ELSE RemoveFrom(p, new) /\ new' = [new EXCEPT ![p] = @ - 1] /\ UNCHANGED old
    /\ touched' = TRUE
    /\ UNCHANGED <<clusterVars, replicas, after, observed, queued, timer, read, edits, faults>>

FifteenMinutesPass ==
    /\ after = "recent"
    /\ after' = "past"
    /\ UNCHANGED <<clusterVars, replicas, observed, old, new, ctlVars, edits, faults>>

-----------------------------------------------------------------------------
(* Users and the infrastructure provider.  An edit of the Cluster is seen by *)
(* the controller's watch; an edit of the KCP is not.                        *)

Edit == edits < MaxEdits /\ edits' = edits + 1

DomainChanges ==
    /\ Edit /\ stage \notin {"deleting", "kcpDeleting"}
    /\ \E f \in FD, s \in {"enabled", "disabled", "removed"} :
          /\ s # domains[f]
          /\ domains' = [domains EXCEPT ![f] = s]
    /\ queued' = TRUE
    /\ UNCHANGED <<stage, paused, kcpVars, timer, read, touched, faults>>

ControlPlaneAppears ==
    /\ stage \in {"unmanaged", "missing"}
    /\ stage' = "present"
    /\ queued' = (queued \/ stage = "unmanaged")
    /\ UNCHANGED <<domains, paused, kcpVars, timer, read, touched, edits, faults>>

Scale ==
    /\ Edit /\ stage = "present"
    /\ replicas' \in ReplicaChoices \ {replicas}
    /\ observed' = FALSE /\ touched' = TRUE
    /\ UNCHANGED <<clusterVars, after, old, new, queued, timer, read, faults>>

PauseCluster ==
    /\ Edit /\ stage = "present"
    /\ paused' = IF "cluster" \in paused THEN paused \ {"cluster"} ELSE paused \cup {"cluster"}
    /\ queued' = TRUE
    /\ UNCHANGED <<domains, stage, kcpVars, timer, read, touched, faults>>

PauseKcp ==
    /\ Edit /\ stage = "present"
    /\ paused' = IF "kcp" \in paused THEN paused \ {"kcp"} ELSE paused \cup {"kcp"}
    /\ touched' = TRUE
    /\ UNCHANGED <<domains, stage, kcpVars, queued, timer, read, faults>>

Delete ==
    /\ Edit /\ stage = "present"
    /\ stage' = "deleting" /\ queued' = TRUE
    /\ UNCHANGED <<domains, paused, kcpVars, timer, read, touched, faults>>

\* Cluster API deletes the KCP of a Cluster that is being deleted.
KcpIsDeleted ==
    /\ stage = "deleting"
    /\ stage' = "kcpDeleting" /\ touched' = TRUE
    /\ UNCHANGED <<domains, paused, kcpVars, queued, timer, read, edits, faults>>

Controller == ReadObjects \/ TriggerRollout \/ EndReconcile \/ ReconcileFails \/ TimerFires \/ Resync
Kcp == KcpObserves \/ KcpAddsMachine \/ KcpRemovesMachine \/ FifteenMinutesPass
Users == \/ DomainChanges \/ ControlPlaneAppears \/ Scale
         \/ PauseCluster \/ PauseKcp \/ Delete \/ KcpIsDeleted

Next == Controller \/ Kcp \/ Users

Spec == Init /\ [][Next]_vars

\* The controller's workers, its timers and resync, and the KCP controller keep
\* running; nothing is assumed of the users.
FairSpec ==
    /\ Spec
    /\ WF_vars(ReadObjects) /\ WF_vars(TriggerRollout \/ EndReconcile)
    /\ WF_vars(TimerFires) /\ WF_vars(Resync)
    /\ WF_vars(Kcp)

-----------------------------------------------------------------------------
(* Properties *)

Reads == [busy : {TRUE}, domains : [FD -> {"enabled", "disabled", "removed"}],
          replicas : ReplicaChoices, skip : BOOLEAN]

\* The range of every variable.
TypeOK ==
    /\ domains \in [FD -> {"enabled", "disabled", "removed"}]
    /\ stage \in {"unmanaged", "missing", "present", "deleting", "kcpDeleting"}
    /\ paused \subseteq {"cluster", "kcp"}
    /\ replicas \in ReplicaChoices
    /\ after \in {"never", "recent", "past"}
    /\ observed \in BOOLEAN
    /\ old \in [Places -> Nat] /\ new \in [Places -> Nat]
    /\ queued \in BOOLEAN /\ timer \in BOOLEAN /\ touched \in BOOLEAN
    /\ read \in Reads \cup {Idle}
    /\ edits \in 0 .. MaxEdits /\ faults \in 0 .. MaxFaults

\* shouldSkipRollout and the optimistic Update together: whatever happened
\* between the reads and the write, no rollout is started while machines of an
\* earlier one are outdated, in the 15 minutes after one, or while the KCP is
\* paused, being deleted or not reconciled.
RolloutsNeverOverlap ==
    [][TriggerRollout => /\ ~Outdated /\ after # "recent" /\ observed
                         /\ "kcp" \notin paused /\ stage # "kcpDeleting"]_vars

\* The machines there are use only available domains and are spread evenly.
WellSpread(dist, doms) ==
    /\ Used(dist) \subseteq Available(doms)
    /\ \A f, g \in Available(doms) : dist[f] <= dist[g] + 1

\* shouldTriggerRollout: a control plane with as many machines as replicas, spread
\* evenly over the failure domains that were read, is left alone.
OnlyBadPlacementsRollOut ==
    [][TriggerRollout /\ Total(old) + Total(new) = read.replicas
          => ~WellSpread(Distribution, read.domains)]_vars

\* The control plane is managed, and the cluster has failure domains.
Eligible == stage = "present" /\ paused = {} /\ \E f \in FD : domains[f] # "removed"

\* Nobody uses a removed or disabled failure domain, or more of one than the
\* ideal maximum.
WellPlaced ==
    /\ \A f \in FD : old[f] + new[f] > 0 => domains[f] = "enabled"
    /\ LET k == Cardinality(Available(domains))
       IN k > 0 => \A f \in FD : (old[f] + new[f] - 1) * k < replicas

\* Once the users stop editing, the control plane ends up and stays well placed,
\* whatever wake-ups were missed because only Clusters are watched.
EventuallyWellPlaced == <>[](Eligible => WellPlaced)
=============================================================================
