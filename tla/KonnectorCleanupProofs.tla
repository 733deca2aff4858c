----------------------- MODULE KonnectorCleanupProofs -----------------------
(***************************************************************************)
(* Proof that the deletion of a cluster does not overtake the Konnector    *)
(* Agent's unregistration.  A registered cluster has an initialized        *)
(* control plane, a UUID and, unless forced out, its proxy; each of the    *)
(* handler's early successes contradicts one of these, except the lookup   *)
(* of a cluster whose agent has not registered it yet: a registration that *)
(* comes after that answer is what `late' records.                         *)
(***************************************************************************)
EXTENDS KonnectorCleanup, TLAPS

\* What the registration of a cluster implies.
RegisteredMeans ==
    registered => /\ hcp # "absent" \/ forced
                  /\ uuid /\ cpReady
                  /\ phase \notin {"Pending", "Provisioning"}

\* An installed agent finds the same, registered or not.
InstalledMeans ==
    hcp = "present" => /\ uuid /\ cpReady
                       /\ phase \notin {"Pending", "Provisioning"}

\* The deletion may proceed.
MayProceed == addon # "enabled" \/ ~exists \/ pcFault \/ forced \/ ~registered \/ late

CleanupInv ==
    /\ phase \in Phases
    /\ allowed \in BOOLEAN
    /\ RegisteredMeans
    /\ InstalledMeans
    /\ pc = "answered" /\ answer.status # "Failure" => MayProceed
    /\ allowed => MayProceed /\ pc = "idle"

LEMMA InitCleanupInv == Init => CleanupInv
  BY DEF Init, CleanupInv, RegisteredMeans, InstalledMeans, MayProceed, Phases

LEMMA CleanupInvInductive == CleanupInv /\ [Next]_vars => CleanupInv'
<1> SUFFICES ASSUME CleanupInv, [Next]_vars PROVE CleanupInv'
  OBVIOUS
<1> USE DEF CleanupInv, RegisteredMeans, InstalledMeans, MayProceed, clusterVars
<1>1. CASE Begin
  BY <1>1 DEF Begin, Answer, GoTo, Success, Fail
<1>2. CASE GetCluster
  BY <1>2 DEF GetCluster, SkipPhase, Answer, GoTo
<1>3. CASE Lookup \/ LookupFails
  BY <1>3 DEF Lookup, LookupFails, Answer, GoTo
<1>4. CASE CheckStatus
  <2>1. CleanupStatus \in {"completed", "timed-out", "in-progress", "not-started"}
    BY DEF CleanupStatus
  <2>2. CleanupStatus = "completed" => ~uuid \/ hcp = "absent"
    BY DEF CleanupStatus
  <2>3. \/ CleanupStatus = "completed" /\ pc' = "answered"
        \/ pc' = "answered" /\ answer'.status = "Failure"
        \/ pc' = "delete"
    <3>1. CASE CleanupStatus = "completed"
      BY <1>4, <3>1 DEF CheckStatus, Answer
    <3>2. CASE CleanupStatus = "timed-out"
      BY <1>4, <3>2 DEF CheckStatus, Answer, Fail
    <3>3. CASE CleanupStatus = "in-progress"
      BY <1>4, <3>3 DEF CheckStatus, Answer, Fail
    <3>4. CASE CleanupStatus = "not-started"
      BY <1>4, <3>4 DEF CheckStatus, GoTo
    <3> QED
      BY <2>1, <3>1, <3>2, <3>3, <3>4
  <2>4. ~allowed /\ UNCHANGED <<clusterVars, phase, hcp, registered, allowed, pcFault, forced, late>>
    BY <1>4 DEF CheckStatus
  <2> QED
    BY <2>2, <2>3, <2>4
<1>5. CASE DeleteHCP
  BY <1>5 DEF DeleteHCP, Answer, Fail
<1>6. CASE GetClusterFails \/ CheckStatusFails \/ DeleteFails \/ Restart
  BY <1>6 DEF GetClusterFails, CheckStatusFails, DeleteFails, Restart, Answer, Fail
<1>7. CASE Consume
  BY <1>7 DEF Consume
<1>8. CASE PhaseDeleting \/ ClusterRemoved
  BY <1>8 DEF PhaseDeleting, ClusterRemoved, Phases
<1>9. CASE Register
  <2>1. RegisteredMeans' /\ InstalledMeans'
    BY <1>9 DEF Register
  <2>2. (allowed \/ (pc = "answered" /\ answer.status # "Failure")) => late'
    BY <1>9, Zenon DEF Register
  <2>3. UNCHANGED <<phase, pc, answer, allowed>>
    BY <1>9 DEF Register
  <2> QED
    BY <2>1, <2>2, <2>3
<1>10. CASE Unregister \/ Uninstalled \/ FinalizerRemoved \/ Tick
  BY <1>10 DEF Unregister, Uninstalled, FinalizerRemoved, Tick
<1>11. CASE UNCHANGED vars
  BY <1>11 DEF vars
<1> QED
  BY <1>1, <1>2, <1>3, <1>4, <1>5, <1>6, <1>7, <1>8, <1>9, <1>10, <1>11
     DEF Next, HookStep, HookFault

\* handler.go BeforeClusterDelete: for every timeout, and however the phase, the
\* agent's start, its uninstall, retries and failures interleave, the deletion of a
\* cluster with the add-on waits for its unregistration unless the registration could
\* not be read, the HelmChartProxy was forced out, or the agent registered only
\* after the releasing call's lookup.
THEOREM WaitsForUnregistration == Spec => []DeletionWaitsForUnregistration
<1>1. CleanupInv => DeletionWaitsForUnregistration
  BY DEF CleanupInv, MayProceed, DeletionWaitsForUnregistration, ReleasedWhileRegistered
<1> QED
  BY InitCleanupInv, CleanupInvInductive, <1>1, PTL DEF Spec

\* The range of the Cluster's and the handler's variables, and of the numbers.
ClusterOK ==
    /\ addon \in {"noTopology", "absent", "invalid", "enabled"}
    /\ exists \in BOOLEAN /\ cpReady \in BOOLEAN /\ uuid \in BOOLEAN
    /\ phase \in Phases
AgentOK ==
    /\ hcp \in {"absent", "present", "deleting"} /\ registered \in BOOLEAN
    /\ allowed \in BOOLEAN /\ pcFault \in BOOLEAN /\ forced \in BOOLEAN /\ late \in BOOLEAN
CallOK == pc \in PCs /\ answer \in Answers
CountsOK == age \in 0 .. Timeout + 1 /\ faults \in 0 .. MaxFaults

LEMMA ClusterTyped == ClusterOK /\ [Next]_vars => ClusterOK'
  BY DEF ClusterOK, Next, vars, clusterVars, Begin, HookStep, GetCluster, Lookup, CheckStatus, DeleteHCP,
     HookFault, GetClusterFails, LookupFails, CheckStatusFails, DeleteFails, Restart, Consume, PhaseDeleting,
     ClusterRemoved, Register, Unregister, Uninstalled, FinalizerRemoved, Tick, Phases

LEMMA AgentTyped == AgentOK /\ [Next]_vars => AgentOK'
  BY DEF AgentOK, Next, vars, clusterVars, Begin, HookStep, GetCluster, Lookup, CheckStatus, DeleteHCP,
     HookFault, GetClusterFails, LookupFails, CheckStatusFails, DeleteFails, Restart, Consume, PhaseDeleting,
     ClusterRemoved, Register, Unregister, Uninstalled, FinalizerRemoved, Tick

LEMMA CallTyped == CallOK /\ [Next]_vars => CallOK'
<1> SUFFICES ASSUME CallOK, [Next]_vars PROVE CallOK'
  OBVIOUS
<1>1. {Success, NoAnswer, Fail(0), Fail(5)} \subseteq Answers
  BY DEF Success, NoAnswer, Fail, Answers
<1>2. \/ UNCHANGED <<pc, answer>>
      \/ \E a \in {Success, Fail(0), Fail(5)} : Answer(a)
      \/ \E step \in PCs : GoTo(step)
      \/ pc' = "idle" /\ answer' = NoAnswer
  <2>1. CASE Begin \/ HookStep
    <3>1. CleanupStatus \in {"completed", "timed-out", "in-progress", "not-started"}
      BY DEF CleanupStatus
    <3>2. {"getCluster", "lookup", "status", "delete"} \subseteq PCs
      BY DEF PCs
    <3>3. CASE CheckStatus
      BY <3>1, <3>2, <3>3, Zenon DEF CheckStatus
    <3>4. CASE Begin
      BY <3>2, <3>4, Zenon DEF Begin
    <3>5. CASE GetCluster
      BY <3>2, <3>5, Zenon DEF GetCluster
    <3>6. CASE Lookup
      BY <3>2, <3>6, Zenon DEF Lookup
    <3>7. CASE DeleteHCP
      BY <3>7, Zenon DEF DeleteHCP
    <3> QED
      BY <2>1, <3>3, <3>4, <3>5, <3>6, <3>7, Zenon DEF HookStep
  <2>2. CASE HookFault \/ Consume
    BY <2>2, Zenon DEF HookFault, GetClusterFails, LookupFails, CheckStatusFails, DeleteFails, Restart, Consume
  <2>3. CASE PhaseDeleting \/ ClusterRemoved \/ Register \/ Unregister \/ Uninstalled \/ FinalizerRemoved \/ Tick \/ UNCHANGED vars
    BY <2>3 DEF PhaseDeleting, ClusterRemoved, Register, Unregister, Uninstalled, FinalizerRemoved, Tick, vars
  <2> QED
    BY <2>1, <2>2, <2>3 DEF Next
<1>3. ASSUME NEW a \in {Success, Fail(0), Fail(5)}, Answer(a) PROVE CallOK'
  BY <1>1, <1>3, Zenon DEF CallOK, Answer, PCs
<1>4. ASSUME NEW step \in PCs, GoTo(step) PROVE CallOK'
  BY <1>4, Zenon DEF CallOK, GoTo
<1>5. ASSUME pc' = "idle", answer' = NoAnswer PROVE CallOK'
  BY <1>1, <1>5, Zenon DEF CallOK, PCs
<1>6. ASSUME UNCHANGED <<pc, answer>> PROVE CallOK'
  BY <1>6 DEF CallOK
<1> QED
  BY <1>2, <1>3, <1>4, <1>5, <1>6, Zenon

LEMMA CountsTyped == CountsOK /\ [Next]_vars => CountsOK'
<1> SUFFICES ASSUME CountsOK, [Next]_vars PROVE CountsOK'
  OBVIOUS
<1>1. /\ age' \in {age, 0} \/ (age <= Timeout /\ age' = age + 1)
      /\ faults' = faults \/ Fault
  <2>1. CASE HookStep \/ Begin
    BY <2>1, Zenon DEF HookStep, Begin, GetCluster, Lookup, CheckStatus, DeleteHCP
  <2>2. CASE HookFault
    BY <2>2, Zenon DEF HookFault, GetClusterFails, LookupFails, CheckStatusFails, DeleteFails, Restart
  <2>3. CASE Consume \/ PhaseDeleting \/ ClusterRemoved \/ Register \/ Unregister \/ Uninstalled \/ FinalizerRemoved \/ Tick
    BY <2>3, Zenon DEF Consume, PhaseDeleting, ClusterRemoved, Register, Unregister, Uninstalled, FinalizerRemoved, Tick
  <2> QED
    BY <2>1, <2>2, <2>3 DEF Next, vars
<1> QED
  BY <1>1, TimeoutIsNat, MaxFaultsIsNat DEF CountsOK, Fault

\* Every variable keeps its range, for any timeout and any bound on faults.
THEOREM TypeCorrect == Spec => []TypeOK
<1>1. Init => ClusterOK /\ AgentOK /\ CallOK /\ CountsOK
  <2>1. Init => ClusterOK /\ AgentOK
    BY Zenon DEF Init, ClusterOK, AgentOK
  <2>2. Init => CallOK
    BY DEF Init, CallOK, PCs, Answers, NoAnswer
  <2>3. Init => CountsOK
    BY TimeoutIsNat, MaxFaultsIsNat DEF Init, CountsOK
  <2> QED
    BY <2>1, <2>2, <2>3
<1>2. ClusterOK /\ AgentOK /\ CallOK /\ CountsOK => TypeOK
  BY Zenon DEF ClusterOK, AgentOK, CallOK, CountsOK, TypeOK
<1> QED
  BY <1>1, <1>2, ClusterTyped, AgentTyped, CallTyped, CountsTyped, PTL DEF Spec
=============================================================================
