------------------------- MODULE ServiceLBGCProofs -------------------------
(***************************************************************************)
(* Proof that the load-balancer collector leaves nothing behind that it    *)
(* could have seen.  The property speaks of the state after the hook's     *)
(* answer was consumed, so the invariant follows the evidence from the     *)
(* list through the loop and the answer: a load balancer is either newer   *)
(* than the list, still to be looked at, or on the list that blocks.       *)
(***************************************************************************)
EXTENDS ServiceLBGC, TLAPS

States == {"none", "pending", "exposed", "terminating"}

\* The part of the type invariant that the proof needs.
Shapes ==
    /\ svc \in [Services -> States]
    /\ snapshot \in [Services -> States]
    /\ pc \in {"idle", "getCluster", "remote", "list", "loop", "answered"}
    /\ allowed \in BOOLEAN

Old(s) == s \in Services /\ HasLB(s) /\ s \notin late

\* In the loop, every load balancer older than the list is in the list, and is
\* either still to be looked at or known to exist.
LoopKnows ==
    pc = "loop" => \A s \in Services : Old(s) => NeedsDelete(s) /\ (s \in todo \/ s \in still)

\* An answer that lets the deletion proceed is backed by the loop, by an opt-out
\* a missing control plane or a missing Cluster, or is one of the two known gaps.
Backed ==
    reason \in {"listError", "phase", "notFound"} \/ ~OptedIn \/ \A s \in Services : ~Old(s)

AnswerKnows == pc = "answered" /\ answer # "Failure" => Backed

GCInv == Shapes /\ LoopKnows /\ AnswerKnows /\ (allowed => Backed /\ pc = "idle")

LEMMA InitGCInv == Init => GCInv
  BY DEF Init, GCInv, Shapes, States, LoopKnows, AnswerKnows

LEMMA GCInvInductive == GCInv /\ [Next]_vars => GCInv'
<1> SUFFICES ASSUME GCInv, [Next]_vars PROVE GCInv'
  OBVIOUS
<1> USE DEF GCInv, Shapes, LoopKnows, AnswerKnows, Backed, Old, HasLB, OptedIn, config
<1>1. CASE Begin
  BY <1>1 DEF Begin, GoTo
<1>2. CASE GetCluster
  <2>1. UNCHANGED <<gc, cpReady, svc, snapshot, late, allowed, todo, still>> /\ ~allowed
    BY <1>2 DEF GetCluster, Answer, GoTo
  <2>2. \/ pc' = "answered" /\ answer' = "Failure"
        \/ pc' = "answered" /\ (~OptedIn \/ reason' = "phase")
        \/ pc' = "remote"
    BY <1>2 DEF GetCluster, Wanted, SkippedPhases, Answer, GoTo
  <2> QED
    BY <2>1, <2>2
<1>3. CASE GetClusterFails \/ RemoteClientFails \/ GetClusterNotFound
  BY <1>3 DEF GetClusterFails, RemoteClientFails, GetClusterNotFound, Answer
<1>4. CASE RemoteClient
  BY <1>4 DEF RemoteClient, GoTo
<1>5. CASE List
  BY <1>5 DEF List, NeedsDelete, States
<1>6. CASE ListFails
  BY <1>6 DEF ListFails, Answer
<1>7. ASSUME NEW s \in Services, NEW f \in BOOLEAN, LoopStep(s, f) PROVE GCInv'
  <2>1. /\ pc = "loop" /\ todo' = todo \ {s} /\ still' = StillAfter(s)
        /\ UNCHANGED <<gc, cpReady, pc, snapshot, answer, reason, allowed, late>>
    BY <1>7 DEF LoopStep
  <2>2. svc' = svc \/ (svc[s] = "exposed" /\ svc' = [svc EXCEPT ![s] = "terminating"])
    BY <1>7 DEF LoopStep
  <2>3. \A t \in Services : HasLB(t)' <=> HasLB(t)
    BY <2>2
  <2>4. svc' \in [Services -> States]
    BY <2>2 DEF States
  <2>5. \A t \in Services : NeedsDelete(t)' <=> NeedsDelete(t)
    BY <2>1 DEF NeedsDelete
  <2>6. LoopKnows'
    BY <2>1, <2>3, <2>5 DEF StillAfter
  <2> QED
    BY <2>1, <2>3, <2>4, <2>6
<1>8. CASE LoopEnds
  BY <1>8 DEF LoopEnds, Answer
<1>9. CASE Consume
  BY <1>9 DEF Consume
<1>10. CASE PhaseDeleting \/ ClusterRemoved
  BY <1>10 DEF PhaseDeleting, ClusterRemoved, hook, NeedsDelete
<1>11. ASSUME NEW s \in Services, UserCreates(s) \/ Provision(s) \/ Reclaim(s) PROVE GCInv'
  <2>1. /\ UNCHANGED <<gc, cpReady, pc, todo, snapshot, still, answer, reason, allowed>>
        /\ late \subseteq late'
        /\ ~allowed
    BY <1>11 DEF UserCreates, Provision, Reclaim, hook
  <2>2. \A t \in Services : Old(t)' => Old(t)
    BY <1>11 DEF UserCreates, Provision, Reclaim
  <2>3. svc' \in [Services -> States]
    BY <1>11 DEF UserCreates, Provision, Reclaim, States
  <2> QED
    BY <2>1, <2>2, <2>3 DEF NeedsDelete
<1>12. CASE UNCHANGED vars
  BY <1>12 DEF vars, hook, NeedsDelete
<1> QED
  BY <1>1, <1>2, <1>3, <1>4, <1>5, <1>6, <1>7, <1>8, <1>9, <1>10, <1>11, <1>12
     DEF Next, HookStep, HookFault, Environment

\* handler.go BeforeClusterDelete and deleter.go: for every set of Services and
\* every interleaving with users and the cloud provider, a cluster that opted in
\* is only let through when every load balancer older than the list is gone.
THEOREM NothingLeftBehind == Spec => []LoadBalancersCollected
<1>1. GCInv => LoadBalancersCollected
  BY DEF GCInv, Backed, Old, LoadBalancersCollected
<1> QED
  BY InitGCInv, GCInvInductive, <1>1, PTL DEF Spec

\* The range of the Cluster's variables, of the Services and of the handler's.
ClusterOK ==
    /\ gc \in {"absent", "true", "false", "invalid"}
    /\ cpReady \in BOOLEAN /\ present \in BOOLEAN
    /\ phase \in Phases /\ allowed \in BOOLEAN
SetsOK ==
    /\ svc \in [Services -> SvcStates] /\ snapshot \in [Services -> SvcStates]
    /\ todo \subseteq Services /\ failed \subseteq still /\ still \subseteq Services
    /\ late \subseteq Services
CallOK ==
    /\ pc \in {"idle", "getCluster", "remote", "list", "loop", "answered"}
    /\ answer \in {"Unset", "Success", "Failure"}
    /\ reason \in {"none", "annotation", "skipped", "phase", "api", "listError",
                   "services", "clean", "notFound"}

LEMMA ClusterTyped == ClusterOK /\ [Next]_vars => ClusterOK'
  BY DEF ClusterOK, Next, vars, config, Begin, HookStep, GetCluster, GetClusterNotFound, RemoteClient, List, LoopStep,
     LoopEnds, HookFault, GetClusterFails, RemoteClientFails, ListFails, Consume, Environment, ClusterRemoved,
     PhaseDeleting, UserCreates, Provision, Reclaim, Phases

\* A Service whose Delete fails is one that still exists: the loop calls Delete on
\* nothing else (deleter.go:50).
LEMMA SetsTyped == SetsOK /\ [Next]_vars => SetsOK'
<1> SUFFICES ASSUME SetsOK, [Next]_vars PROVE SetsOK'
  OBVIOUS
<1> USE DEF SetsOK
<1>1. ASSUME UNCHANGED <<svc, snapshot, todo, failed, still, late>> PROVE SetsOK'
  BY <1>1
<1>2. ASSUME NEW s \in Services, NEW f \in BOOLEAN, LoopStep(s, f) PROVE SetsOK'
  <2>1. svc' \in [Services -> SvcStates]
    BY <1>2 DEF LoopStep, SvcStates
  <2>2. failed' \subseteq still' /\ still' \subseteq Services
    BY <1>2 DEF LoopStep, StillAfter, NeedsDelete
  <2> QED
    BY <1>2, <2>1, <2>2 DEF LoopStep
<1>3. CASE List
  BY <1>3 DEF List, FreshLists
<1>4. ASSUME NEW s \in Services, UserCreates(s) \/ Provision(s) \/ Reclaim(s) PROVE SetsOK'
  BY <1>4 DEF UserCreates, Provision, Reclaim, hook, SvcStates
<1>5. CASE Begin \/ GetCluster \/ GetClusterNotFound \/ RemoteClient \/ LoopEnds
  BY <1>5, <1>1 DEF Begin, GetCluster, GetClusterNotFound, RemoteClient, LoopEnds, Answer, GoTo
<1>6. CASE GetClusterFails \/ RemoteClientFails \/ ListFails
  BY <1>6, <1>1 DEF GetClusterFails, RemoteClientFails, ListFails, Answer
<1>7. CASE Consume \/ ClusterRemoved \/ PhaseDeleting \/ UNCHANGED vars
  BY <1>7, <1>1 DEF Consume, ClusterRemoved, PhaseDeleting, hook, vars
<1> QED
  BY <1>2, <1>3, <1>4, <1>5, <1>6, <1>7 DEF Next, HookStep, HookFault, Environment

LEMMA CallTyped == CallOK /\ [Next]_vars => CallOK'
<1> SUFFICES ASSUME CallOK, [Next]_vars PROVE CallOK'
  OBVIOUS
<1> USE DEF CallOK
<1>1. ASSUME UNCHANGED <<pc, answer, reason>> PROVE CallOK'
  BY <1>1
<1>2. CASE Begin \/ RemoteClient
  BY <1>2 DEF Begin, RemoteClient, GoTo
<1>3. CASE GetCluster
  BY <1>3, Zenon DEF GetCluster, Answer, GoTo
<1>4. CASE GetClusterNotFound \/ LoopEnds
  BY <1>4, Zenon DEF GetClusterNotFound, LoopEnds, Answer
<1>5. CASE List \/ Consume
  BY <1>5, Zenon DEF List, Consume
<1>6. CASE GetClusterFails \/ RemoteClientFails \/ ListFails
  BY <1>6, Zenon DEF GetClusterFails, RemoteClientFails, ListFails, Answer
<1>7. ASSUME NEW s \in Services, NEW f \in BOOLEAN, LoopStep(s, f) PROVE CallOK'
  BY <1>7, <1>1 DEF LoopStep
<1>8. CASE Environment \/ UNCHANGED vars
  BY <1>8, <1>1 DEF Environment, ClusterRemoved, PhaseDeleting, UserCreates, Provision, Reclaim, hook, vars
<1> QED
  BY <1>2, <1>3, <1>4, <1>5, <1>6, <1>7, <1>8 DEF Next, HookStep, HookFault

LEMMA FaultsTyped == faults \in 0 .. MaxFaults /\ [Next]_vars => faults' \in 0 .. MaxFaults
  BY MaxFaultsIsNat
     DEF Next, vars, Fault, Begin, HookStep, GetCluster, GetClusterNotFound, RemoteClient, List, LoopStep,
     LoopEnds, HookFault, GetClusterFails, RemoteClientFails, ListFails, Consume, Environment, ClusterRemoved,
     PhaseDeleting, UserCreates, Provision, Reclaim

\* Every variable keeps its range; above all, what failed to be deleted counts as
\* existing, so that an answer that names the one names the other.
THEOREM TypeCorrect == Spec => []TypeOK
<1> DEFINE Typed == ClusterOK /\ SetsOK /\ CallOK /\ faults \in 0 .. MaxFaults
<1>1. Init => Typed
  <2>1. Init => ClusterOK /\ CallOK
    BY Zenon DEF Init, ClusterOK, CallOK
  <2>2. Init => SetsOK /\ faults \in 0 .. MaxFaults
    BY MaxFaultsIsNat DEF Init, SetsOK, SvcStates
  <2> QED
    BY <2>1, <2>2
<1>2. Typed => TypeOK
  BY Zenon DEF ClusterOK, SetsOK, CallOK, TypeOK
<1>3. Typed /\ [Next]_vars => Typed'
  BY ClusterTyped, SetsTyped, CallTyped, FaultsTyped, Zenon
<1> QED
  BY <1>1, <1>2, <1>3, PTL DEF Spec
=============================================================================
