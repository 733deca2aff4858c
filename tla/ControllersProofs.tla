--------------------------- MODULE ControllersProofs ---------------------------
(***************************************************************************)
(* Proofs about the two controllers of the manager.                        *)
(*                                                                         *)
(* The failure domain rollout controller never starts a rollout on top of  *)
(* another one.  Its guards are evaluated on objects read some steps       *)
(* before the write, so the property rests on an invariant that links the  *)
(* objects read to the current ones for as long as nobody wrote the KCP.   *)
(* Nor does it replace the machines of a control plane that is spread      *)
(* evenly: the sums over its failure domains leave no better placement.    *)
(*                                                                         *)
(* The namespace sync controller never leaves a copied ClusterClass        *)
(* without its Templates, for any namespaces, classes, references, caches  *)
(* and failures.  The invariant follows the reconcile under way: the       *)
(* Templates of the class it is copying are in the namespace, except those *)
(* it still has to copy.                                                   *)
(***************************************************************************)
EXTENDS FailureDomainRollout, NamespaceSync, FiniteSetTheorems, WellFoundedInduction, TLAPS

------------------------------------------------------------------------------
(* The failure domain rollout controller *)

\* What the controller read of the KCP still holds until somebody writes it.
ReadStillHolds ==
    read.busy /\ ~touched =>
        /\ read.skip = FALSE => after # "recent" /\ ~Outdated
        /\ observed
        /\ "kcp" \notin paused
        /\ stage # "kcpDeleting"

ReadInv ==
    /\ read = Idle \/ (read.busy = TRUE /\ read.skip \in BOOLEAN)
    /\ ReadStillHolds

LEMMA InitReadInv == Init => ReadInv
  BY DEF Init, ReadInv, ReadStillHolds, Idle

LEMMA SkipIsBoolean == ShouldSkipRollout \in BOOLEAN
  BY DEF ShouldSkipRollout

LEMMA ReadInvInductive == ReadInv /\ [Next]_vars => ReadInv'
<1> SUFFICES ASSUME ReadInv, [Next]_vars PROVE ReadInv'
  OBVIOUS
<1> USE DEF ReadInv, ReadStillHolds, Idle, Outdated
<1>1. CASE ReadObjects
  <2>1. CASE UNCHANGED <<read, touched>>
    BY <1>1, <2>1 DEF ReadObjects, clusterVars, kcpVars
  <2>2. CASE ~UNCHANGED <<read, touched>>
    <3>1. /\ read' = [busy |-> TRUE, domains |-> domains, replicas |-> replicas,
                      skip |-> ShouldSkipRollout]
          /\ ~NothingToDo /\ observed
          /\ UNCHANGED <<clusterVars, kcpVars>>
      BY <1>1, <2>2 DEF ReadObjects
    <3>2. read'.busy = TRUE /\ read'.skip = ShouldSkipRollout
      BY <3>1
    <3>3. read'.skip = FALSE => after # "recent" /\ ~Outdated
      BY <3>2 DEF ShouldSkipRollout
    <3>4. UNCHANGED <<after, old, observed, paused, stage>>
      BY <3>1 DEF clusterVars, kcpVars
    <3>5. observed /\ "kcp" \notin paused /\ stage # "kcpDeleting"
      BY <3>1 DEF NothingToDo
    <3> QED
      BY <3>2, <3>3, <3>4, <3>5, SkipIsBoolean
  <2> QED
    BY <2>1, <2>2
<1>2. CASE TriggerRollout
  BY <1>2 DEF TriggerRollout, clusterVars
<1>3. CASE EndReconcile
  BY <1>3 DEF EndReconcile, clusterVars, kcpVars
<1>4. CASE ReconcileFails
  BY <1>4 DEF ReconcileFails, clusterVars, kcpVars
<1>5. CASE TimerFires \/ Resync
  BY <1>5 DEF TimerFires, Resync, clusterVars, kcpVars
<1>6. CASE KcpObserves \/ KcpAddsMachine \/ KcpRemovesMachine
  BY <1>6 DEF KcpObserves, KcpAddsMachine, KcpRemovesMachine
<1>7. CASE FifteenMinutesPass
  BY <1>7 DEF FifteenMinutesPass, clusterVars, ctlVars
<1>8. CASE DomainChanges \/ PauseCluster
  BY <1>8 DEF DomainChanges, PauseCluster, kcpVars
<1>9. CASE ControlPlaneAppears
  BY <1>9 DEF ControlPlaneAppears, kcpVars
<1>10. CASE Delete
  BY <1>10 DEF Delete, kcpVars
<1>11. CASE Scale \/ PauseKcp \/ KcpIsDeleted
  BY <1>11 DEF Scale, PauseKcp, KcpIsDeleted
<1>12. CASE UNCHANGED vars
  BY <1>12 DEF vars, clusterVars, kcpVars, ctlVars
<1> QED
  BY <1>1, <1>2, <1>3, <1>4, <1>5, <1>6, <1>7, <1>8, <1>9, <1>10, <1>11, <1>12
     DEF Next, Controller, Kcp, Users

\* shouldSkipRollout and the optimistic Update of Reconcile: for every set of
\* failure domains, every replica count and every interleaving, a rollout is only
\* started on a KCP that is settled at the moment of the write.
THEOREM NoOverlap == Spec => RolloutsNeverOverlap
<1>1. ReadInv /\ TriggerRollout =>
          /\ ~Outdated /\ after # "recent" /\ observed
          /\ "kcp" \notin paused /\ stage # "kcpDeleting"
  BY DEF ReadInv, ReadStillHolds, Idle, TriggerRollout, Conflict
<1>2. ReadInv /\ [Next]_vars =>
          [TriggerRollout => /\ ~Outdated /\ after # "recent" /\ observed
                             /\ "kcp" \notin paused /\ stage # "kcpDeleting"]_vars
  BY <1>1
<1> QED
  BY InitReadInv, ReadInvInductive, <1>2, PTL DEF Spec, RolloutsNeverOverlap

\* The ranges of the Cluster, of the KCP, of its machines, of the reconcile's reads
\* and of the flags and counters.
ClusterOK ==
    /\ domains \in [FD -> {"enabled", "disabled", "removed"}]
    /\ stage \in {"unmanaged", "missing", "present", "deleting", "kcpDeleting"}
    /\ paused \subseteq {"cluster", "kcp"}
KcpOK == replicas \in ReplicaChoices /\ after \in {"never", "recent", "past"}
MachinesOK == old \in [Places -> Nat] /\ new \in [Places -> Nat]
ReadOK == read \in Reads \cup {Idle}
FlagsOK == observed \in BOOLEAN /\ queued \in BOOLEAN /\ timer \in BOOLEAN /\ touched \in BOOLEAN
CountsOK == edits \in 0 .. MaxEdits /\ faults \in 0 .. MaxFaults

LEMMA ClusterTyped == ClusterOK /\ [Next]_vars => ClusterOK'
<1> SUFFICES ASSUME ClusterOK, [Next]_vars PROVE ClusterOK'
  OBVIOUS
<1> USE DEF ClusterOK
<1>1. ASSUME UNCHANGED clusterVars PROVE ClusterOK'
  BY <1>1 DEF clusterVars
<1>2. CASE Controller \/ Kcp \/ UNCHANGED vars
  BY <1>2, <1>1, Zenon DEF Controller, ReadObjects, TriggerRollout, EndReconcile, ReconcileFails, TimerFires, Resync,
     Kcp, KcpObserves, KcpAddsMachine, KcpRemovesMachine, FifteenMinutesPass, vars, clusterVars
<1>3. CASE DomainChanges \/ ControlPlaneAppears \/ Scale
  BY <1>3 DEF DomainChanges, ControlPlaneAppears, Scale, clusterVars
<1>4. CASE PauseCluster \/ PauseKcp \/ Delete \/ KcpIsDeleted
  BY <1>4 DEF PauseCluster, PauseKcp, Delete, KcpIsDeleted
<1> QED
  BY <1>2, <1>3, <1>4 DEF Next, Users

LEMMA KcpTyped == KcpOK /\ [Next]_vars => KcpOK'
  BY DEF KcpOK, Next, Controller, Kcp, Users, vars, kcpVars, ReadObjects, TriggerRollout, Now, EndReconcile,
     ReconcileFails, TimerFires, Resync, KcpObserves, KcpAddsMachine, KcpRemovesMachine, FifteenMinutesPass,
     DomainChanges, ControlPlaneAppears, Scale, PauseCluster, PauseKcp, Delete, KcpIsDeleted

\* Machines are never counted below zero: the KCP only removes one that is there.
LEMMA MachinesTyped == MachinesOK /\ [Next]_vars => MachinesOK'
<1> SUFFICES ASSUME MachinesOK, [Next]_vars PROVE MachinesOK'
  OBVIOUS
<1> USE DEF MachinesOK
<1>1. ASSUME UNCHANGED <<old, new>> PROVE MachinesOK'
  BY <1>1
<1>2. CASE TriggerRollout
  BY <1>2 DEF TriggerRollout, NoMachines
<1>3. CASE KcpAddsMachine
  BY <1>3 DEF KcpAddsMachine
<1>4. CASE KcpRemovesMachine
  <2>1. PICK p \in Places : IF Outdated
                            THEN RemoveFrom(p, old) /\ old' = [old EXCEPT ![p] = @ - 1] /\ UNCHANGED new
                            ELSE RemoveFrom(p, new) /\ new' = [new EXCEPT ![p] = @ - 1] /\ UNCHANGED old
    BY <1>4, Zenon DEF KcpRemovesMachine
  <2>2. RemoveFrom(p, old) => old[p] > 0
    BY Zenon DEF RemoveFrom
  <2>3. RemoveFrom(p, new) => new[p] > 0
    BY Zenon DEF RemoveFrom
  <2>4. CASE Outdated
    BY <2>1, <2>2, <2>4
  <2>5. CASE ~Outdated
    BY <2>1, <2>3, <2>5
  <2> QED
    BY <2>4, <2>5
<1>5. CASE ReadObjects \/ EndReconcile \/ ReconcileFails \/ TimerFires \/ Resync
  BY <1>5, <1>1, Zenon DEF ReadObjects, EndReconcile, ReconcileFails, TimerFires, Resync, kcpVars
<1>6. CASE KcpObserves \/ FifteenMinutesPass \/ Users \/ UNCHANGED vars
  BY <1>6, <1>1, Zenon DEF KcpObserves, FifteenMinutesPass, Users, DomainChanges, ControlPlaneAppears, Scale,
     PauseCluster, PauseKcp, Delete, KcpIsDeleted, vars, kcpVars
<1> QED
  BY <1>2, <1>3, <1>4, <1>5, <1>6 DEF Next, Controller, Kcp

LEMMA ReadTyped == ClusterOK /\ KcpOK /\ ReadOK /\ [Next]_vars => ReadOK'
<1> SUFFICES ASSUME ClusterOK, KcpOK, ReadOK, [Next]_vars PROVE ReadOK'
  OBVIOUS
<1>1. CASE read' = read \/ read' = Idle
  BY <1>1, Zenon DEF ReadOK
<1>2. CASE read' = [busy |-> TRUE, domains |-> domains, replicas |-> replicas, skip |-> ShouldSkipRollout]
  BY <1>2, SkipIsBoolean DEF ReadOK, Reads, ClusterOK, KcpOK
<1>3. \/ read' = read \/ read' = Idle
      \/ read' = [busy |-> TRUE, domains |-> domains, replicas |-> replicas, skip |-> ShouldSkipRollout]
  BY Zenon DEF Next, Controller, Kcp, Users, vars, ctlVars, ReadObjects, TriggerRollout, EndReconcile,
     ReconcileFails, TimerFires, Resync, KcpObserves, KcpAddsMachine, KcpRemovesMachine, FifteenMinutesPass,
     DomainChanges, ControlPlaneAppears, Scale, PauseCluster, PauseKcp, Delete, KcpIsDeleted
<1> QED
  BY <1>1, <1>2, <1>3

LEMMA FlagsTyped == FlagsOK /\ [Next]_vars => FlagsOK'
  BY DEF FlagsOK, Next, Controller, Kcp, Users, vars, kcpVars, ctlVars, ReadObjects, TriggerRollout, EndReconcile,
     ReconcileFails, TimerFires, Resync, KcpObserves, KcpAddsMachine, KcpRemovesMachine, FifteenMinutesPass,
     DomainChanges, ControlPlaneAppears, Scale, PauseCluster, PauseKcp, Delete, KcpIsDeleted

LEMMA CountsTyped == CountsOK /\ [Next]_vars => CountsOK'
  BY ConstantsOK
     DEF CountsOK, Edit, Next, Controller, Kcp, Users, vars, ReadObjects, TriggerRollout, EndReconcile,
     ReconcileFails, TimerFires, Resync, KcpObserves, KcpAddsMachine, KcpRemovesMachine, FifteenMinutesPass,
     DomainChanges, ControlPlaneAppears, Scale, PauseCluster, PauseKcp, Delete, KcpIsDeleted

\* Every variable keeps its range, for any failure domains and replica counts: in
\* particular no number of machines ever drops below zero.
THEOREM TypeCorrect == Spec => []TypeOK
<1> DEFINE Typed == ClusterOK /\ KcpOK /\ MachinesOK /\ ReadOK /\ FlagsOK /\ CountsOK
<1>1. Init => Typed
  <2>1. Init => ClusterOK /\ KcpOK /\ ReadOK /\ FlagsOK
    BY Zenon DEF Init, ClusterOK, KcpOK, ReadOK, FlagsOK
  <2>2. Init => MachinesOK /\ CountsOK
    BY ConstantsOK DEF Init, MachinesOK, CountsOK, NoMachines
  <2> QED
    BY <2>1, <2>2
<1>2. Typed => TypeOK
  BY Zenon DEF ClusterOK, KcpOK, MachinesOK, ReadOK, FlagsOK, CountsOK, TypeOK
<1>3. Typed /\ [Next]_vars => Typed'
  BY ClusterTyped, KcpTyped, MachinesTyped, ReadTyped, FlagsTyped, CountsTyped, Zenon
<1> QED
  BY <1>1, <1>2, <1>3, PTL DEF Spec

------------------------------------------------------------------------------
(* Which placements are rolled out: sums over failure domains *)

\* Induction over the natural numbers, by the least counterexample.
LEMMA Induct == ASSUME NEW S, 0 \in S, \A n \in Nat : n \in S => n + 1 \in S
                PROVE  Nat \subseteq S
<1> DEFINE T == Nat \ S
<1> SUFFICES ASSUME T # {} PROVE FALSE
  OBVIOUS
<1> HIDE DEF T
<1>1. T \subseteq Nat
  BY DEF T
<1>2. PICK x \in T : \A y \in T : ~ (<<y, x>> \in OpToRel(<, Nat))
  BY <1>1, NatLessThanWellFounded, WFMin
<1>3. x \in Nat /\ x \notin S /\ x # 0
  BY <1>1 DEF T
<1>4. x - 1 \in Nat /\ x - 1 < x /\ (x - 1) + 1 = x
  BY <1>3
<1>5. x - 1 \in S
  BY <1>2, <1>3, <1>4 DEF OpToRel, T
<1> QED BY <1>3, <1>4, <1>5

\* The element that a fold takes out of a set first.
Some(s) == CHOOSE x \in s : TRUE

\* The sums of f over the subsets of S.
Sums(f, S, g) ==
    g = [s \in SUBSET S |-> IF s = {} THEN 0 ELSE f[Some(s)] + g[s \ {Some(s)}]]

LEMMA TakeOne ==
    ASSUME NEW S, IsFiniteSet(S), NEW s \in SUBSET S, s # {}
    PROVE  /\ Some(s) \in s /\ s \ {Some(s)} \in SUBSET S
           /\ IsFiniteSet(s) /\ Cardinality(s) \in Nat \ {0}
           /\ Cardinality(s \ {Some(s)}) = Cardinality(s) - 1
<1>1. Some(s) \in s
  BY DEF Some
<1>2. IsFiniteSet(s)
  BY FS_Subset
<1> QED BY <1>1, <1>2, FS_RemoveElement, FS_CardinalityType, FS_EmptySet

\* Induction over the subsets of a finite set.
LEMMA SubsetInduct ==
    ASSUME NEW S, IsFiniteSet(S), NEW P, {} \in P,
           \A s \in SUBSET S : s # {} /\ s \ {Some(s)} \in P => s \in P
    PROVE  SUBSET S \subseteq P
<1> DEFINE K == {k \in Nat : \A s \in SUBSET S : Cardinality(s) = k => s \in P}
<1>1. \A s \in SUBSET S : Cardinality(s) \in Nat /\ (Cardinality(s) = 0 => s = {})
  BY FS_Subset, FS_CardinalityType, FS_EmptySet
<1>2. 0 \in K
  BY <1>1
<1>3. ASSUME NEW k \in Nat, k \in K PROVE k + 1 \in K
  <2> SUFFICES ASSUME NEW s \in SUBSET S, Cardinality(s) = k + 1 PROVE s \in P
    OBVIOUS
  <2>1. s # {}
    BY FS_EmptySet
  <2>2. s \ {Some(s)} \in SUBSET S /\ Cardinality(s \ {Some(s)}) = k
    BY <2>1, TakeOne
  <2> QED BY <1>3, <2>1, <2>2
<1> HIDE DEF K
<1>4. Nat \subseteq K
  BY <1>2, <1>3, Induct
<1> QED BY <1>1, <1>4 DEF K

LEMMA SumsExist ==
    ASSUME NEW S, IsFiniteSet(S), NEW f PROVE \E g : Sums(f, S, g)
<1> DEFINE At(g, s) == g[s] = IF s = {} THEN 0 ELSE f[Some(s)] + g[s \ {Some(s)}]
           K == {k \in Nat : \E g : \A s \in SUBSET S : Cardinality(s) <= k => At(g, s)}
<1>1. \A s \in SUBSET S : Cardinality(s) \in Nat /\ (Cardinality(s) = 0 => s = {})
  BY FS_Subset, FS_CardinalityType, FS_EmptySet
<1>2. 0 \in K
  <2> DEFINE g == [s \in SUBSET S |-> 0]
  <2>1. \A s \in SUBSET S : Cardinality(s) <= 0 => At(g, s)
    BY <1>1
  <2> QED BY <2>1
<1>3. ASSUME NEW k \in Nat, k \in K PROVE k + 1 \in K
  <2>1. PICK h : \A s \in SUBSET S : Cardinality(s) <= k => At(h, s)
    BY <1>3
  <2> DEFINE g == [s \in SUBSET S |-> IF s = {} THEN 0 ELSE f[Some(s)] + h[s \ {Some(s)}]]
  <2>2. ASSUME NEW s \in SUBSET S, Cardinality(s) <= k PROVE g[s] = h[s]
    BY <2>1, <2>2
  <2>3. ASSUME NEW s \in SUBSET S, Cardinality(s) <= k + 1 PROVE At(g, s)
    <3>1. CASE s = {}
      BY <3>1
    <3>2. CASE s # {}
      <4>1. s \ {Some(s)} \in SUBSET S /\ Cardinality(s \ {Some(s)}) <= k
        BY <2>3, <3>2, TakeOne
      <4>2. g[s \ {Some(s)}] = h[s \ {Some(s)}]
        BY <2>2, <4>1
      <4>3. g[s] = f[Some(s)] + h[s \ {Some(s)}]
        BY <3>2
      <4> QED BY <3>2, <4>2, <4>3
    <3> QED BY <3>1, <3>2
  <2>4. k + 1 \in Nat
    OBVIOUS
  <2> HIDE DEF g, At
  <2> QED BY <2>3, <2>4
<1>4. Nat \subseteq K
  <2> HIDE DEF K
  <2> QED BY <1>2, <1>3, Induct
<1>5. Cardinality(S) \in Nat
  BY FS_CardinalityType
<1>6. PICK h : \A s \in SUBSET S : Cardinality(s) <= Cardinality(S) => At(h, s)
  BY <1>4, <1>5
<1>7. \A s \in SUBSET S : Cardinality(s) <= Cardinality(S)
  BY FS_Subset
<1> DEFINE g == [s \in SUBSET S |-> h[s]]
<1>8. ASSUME NEW s \in SUBSET S
      PROVE  g[s] = IF s = {} THEN 0 ELSE f[Some(s)] + g[s \ {Some(s)}]
  BY <1>6, <1>7
<1>9. Sums(f, S, g)
  <2>1. g = [s \in SUBSET S |-> g[s]]
    OBVIOUS
  <2> HIDE DEF g
  <2> QED BY <1>8, <2>1 DEF Sums
<1> QED BY <1>9

\* Total is the sum over the whole domain.
LEMMA TotalIsSum ==
    ASSUME NEW S, IsFiniteSet(S), NEW f, DOMAIN f = S
    PROVE  \E g : Sums(f, S, g) /\ Total(f) = g[S]
<1>1. Total(f) = (CHOOSE g : Sums(f, S, g))[S]
  BY DEF Total, FoldFunction, FoldFunctionOnSet, MapThenFoldSet, Sums, Some
<1>2. Sums(f, S, CHOOSE g : Sums(f, S, g))
  BY SumsExist
<1> QED BY <1>1, <1>2

\* Two counts that are together at least c everywhere in A, and more in B.
LEMMA TotalsAtLeast ==
    ASSUME NEW S, IsFiniteSet(S), NEW f \in [S -> Nat], NEW h \in [S -> Nat], NEW c \in Nat,
           NEW A \in SUBSET S, NEW B \in SUBSET A,
           \A x \in A : f[x] + h[x] >= c, \A x \in B : f[x] + h[x] >= c + 1
    PROVE  Total(f) + Total(h) >= c * Cardinality(A) + Cardinality(B)
<1>1. PICK sf : Sums(f, S, sf) /\ Total(f) = sf[S]
  BY TotalIsSum
<1>2. PICK sh : Sums(h, S, sh) /\ Total(h) = sh[S]
  BY TotalIsSum
<1> DEFINE n(s, X) == Cardinality(s \cap X)
           P == {s \in SUBSET S : /\ sf[s] \in Nat /\ sh[s] \in Nat
                                  /\ sf[s] + sh[s] >= c * n(s, A) + n(s, B)}
<1>3. \A s \in SUBSET S : \A X : IsFiniteSet(s \cap X) /\ n(s, X) \in Nat
  BY FS_Subset, FS_CardinalityType
<1>4. {} \in P
  <2>1. sf[{}] = 0 /\ sh[{}] = 0
    BY <1>1, <1>2 DEF Sums
  <2>2. n({}, A) = 0 /\ n({}, B) = 0
    BY FS_EmptySet
  <2>3. c * 0 = 0
    OBVIOUS
  <2> QED BY <2>1, <2>2, <2>3
<1>5. ASSUME NEW s \in SUBSET S, s # {}, s \ {Some(s)} \in P PROVE s \in P
  <2> DEFINE x == Some(s)
             t == s \ {Some(s)}
  <2>1. x \in s /\ x \in S /\ t \in SUBSET S
    BY <1>5, TakeOne
  <2>2. sf[s] = f[x] + sf[t] /\ sh[s] = h[x] + sh[t]
    BY <1>1, <1>2, <1>5 DEF Sums
  <2>3. f[x] \in Nat /\ h[x] \in Nat
    BY <2>1
  <2>4. sf[t] \in Nat /\ sh[t] \in Nat /\ sf[t] + sh[t] >= c * n(t, A) + n(t, B)
    BY <1>5
  <2>5. ASSUME NEW X PROVE n(s, X) = IF x \in X THEN n(t, X) + 1 ELSE n(t, X)
    <3>1. CASE x \in X
      <4>1. x \in s \cap X /\ (s \cap X) \ {x} = t \cap X
        BY <2>1, <3>1
      <4>2. Cardinality((s \cap X) \ {x}) = Cardinality(s \cap X) - 1
        <5> DEFINE u == s \cap X
        <5>1. IsFiniteSet(u) /\ x \in u
          BY <1>3, <4>1
        <5> HIDE DEF u, x
        <5>2. Cardinality(u \ {x}) = Cardinality(u) - 1
          BY <5>1, FS_RemoveElement
        <5> QED BY <5>2 DEF u
      <4>3. n(t, X) = n(s, X) - 1
        BY <4>1, <4>2
      <4>4. n(s, X) \in Nat
        BY <1>3
      <4> HIDE DEF n, x, t
      <4> QED BY <3>1, <4>3, <4>4
    <3>2. CASE x \notin X
      <4>1. s \cap X = t \cap X
        BY <3>2
      <4> QED BY <3>2, <4>1
    <3> QED BY <3>1, <3>2
  <2>6. n(t, A) \in Nat /\ n(t, B) \in Nat
    BY <1>3, <2>1
  <2>7. c * (n(t, A) + 1) = c * n(t, A) + c /\ c * n(t, A) \in Nat
    <3> HIDE DEF n
    <3> QED BY <2>6
  <2>8. /\ x \in A => f[x] + h[x] >= c
        /\ x \in B => x \in A /\ f[x] + h[x] >= c + 1
    OBVIOUS
  <2>9. n(s, A) = (IF x \in A THEN n(t, A) + 1 ELSE n(t, A))
        /\ n(s, B) = (IF x \in B THEN n(t, B) + 1 ELSE n(t, B))
    BY <2>5
  <2> HIDE DEF n, x, t
  <2>10. sf[s] \in Nat /\ sh[s] \in Nat
    BY <2>2, <2>3, <2>4
  <2>11. sf[s] + sh[s] >= c * n(s, A) + n(s, B)
    <3>1. CASE x \in B
      BY <2>2, <2>3, <2>4, <2>6, <2>7, <2>8, <2>9, <3>1
    <3>2. CASE x \in A /\ x \notin B
      BY <2>2, <2>3, <2>4, <2>6, <2>7, <2>8, <2>9, <3>2
    <3>3. CASE x \notin A
      BY <2>2, <2>3, <2>4, <2>6, <2>7, <2>8, <2>9, <3>3
    <3> QED BY <3>1, <3>2, <3>3
  <2> QED BY <2>10, <2>11
<1>6. S \in P
  <2> HIDE DEF P
  <2> QED BY <1>4, <1>5, SubsetInduct
<1>7. S \cap A = A /\ S \cap B = B
  OBVIOUS
<1> QED BY <1>1, <1>2, <1>6, <1>7

\* shouldTriggerRollout says no for n machines that are spread evenly over
\* available domains, of which some may have no failure domain at all: there are
\* at least c machines for every domain with that many.
LEMMA EvenIsKept ==
    ASSUME NEW dist \in [FD -> Nat], NEW doms, NEW n \in Nat \ {0}, WellSpread(dist, doms),
           \A c \in Nat : \A A \in SUBSET FD : \A B \in SUBSET A :
               (\A x \in A : dist[x] >= c) /\ (\A x \in B : dist[x] >= c + 1)
                   => n >= c * Cardinality(A) + Cardinality(B)
    PROVE  ~ShouldTrigger(dist, doms, n)
<1> DEFINE avail == Available(doms)
           k == Cardinality(avail)
<1>1. IsFiniteSet(FD) /\ avail \in SUBSET FD /\ IsFiniteSet(avail) /\ k \in Nat
  BY ConstantsOK, FS_Subset, FS_CardinalityType DEF Available
<1>2. Used(dist) \subseteq avail /\ \A f, g \in avail : dist[f] <= dist[g] + 1
  BY DEF WellSpread
<1>3. Used(dist) \in SUBSET FD /\ \A f \in FD : dist[f] \in Nat /\ (f \in Used(dist) <=> dist[f] > 0)
  BY DEF Used
<1>4. IsFiniteSet(Used(dist)) /\ Cardinality(Used(dist)) \in Nat
  BY <1>1, <1>3, FS_Subset, FS_CardinalityType
<1>5. ~UsesInvalidDomain(dist, doms)
  BY <1>2 DEF UsesInvalidDomain, Available
<1>6. k > 0 => /\ n = k * (n \div k) + (n % k)
               /\ (n % k) \in 0 .. k - 1 /\ (n \div k) \in Nat
  <2> HIDE DEF k
  <2> QED BY <1>1
<1> HIDE DEF k, avail
<1>7. ~HasSuboptimalDistribution(dist, n, k)
  <2> SUFFICES ASSUME NEW f \in Used(dist), dist[f] > MaxIdealPerFD(n, k) PROVE FALSE
    BY DEF HasSuboptimalDistribution
  <2> DEFINE c == MaxIdealPerFD(n, k)
  <2>1. f \in avail /\ dist[f] \in Nat
    BY <1>2, <1>3
  <2>2. k > 0
    BY <1>1, <2>1, FS_EmptySet DEF k, avail
  <2>3. c = n \div k + (IF n % k > 0 THEN 1 ELSE 0) /\ c \in Nat
    BY <1>6, <2>2 DEF MaxIdealPerFD
  <2> HIDE DEF c
  <2>4. \A x \in avail : dist[x] >= c
    <3> TAKE x \in avail
    <3>1. dist[f] <= dist[x] + 1 /\ dist[x] \in Nat
      BY <1>1, <1>2, <1>3, <2>1
    <3> QED BY <2>1, <2>3, <3>1 DEF c
  <2>5. \A x \in {f} : dist[x] >= c + 1
    BY <2>1, <2>3 DEF c
  <2>6. Cardinality({f}) = 1
    BY FS_Singleton
  <2>7. n >= c * k + 1
    <3>1. {f} \in SUBSET avail
      BY <2>1
    <3>2. n >= c * Cardinality(avail) + Cardinality({f})
      BY <1>1, <2>3, <2>4, <2>5, <3>1
    <3> QED BY <2>6, <3>2 DEF k
  <2>8. c * k >= n
    <3> DEFINE q == n \div k
               r == n % k
    <3>1. q \in Nat /\ r \in Nat /\ r < k /\ n = k * q + r /\ c = q + (IF r > 0 THEN 1 ELSE 0)
      BY <1>1, <1>6, <2>2, <2>3
    <3> HIDE DEF q, r
    <3>2. (q + 1) * k = k * q + k /\ q * k = k * q
      BY <1>1, <3>1
    <3> QED BY <1>1, <3>1, <3>2
  <2> QED BY <1>1, <2>3, <2>7, <2>8
<1>8. ~CanImproveWithMoreFDs(dist, n, k)
  <2> SUFFICES ASSUME CanImproveWithMoreFDs(dist, n, k) PROVE FALSE
    OBVIOUS
  <2> DEFINE u == Cardinality(Used(dist))
  <2>1. Used(dist) # {} /\ k > u
    BY DEF CanImproveWithMoreFDs
  <2>2. PICK g \in avail : g \notin Used(dist)
    <3>1. ASSUME avail \subseteq Used(dist) PROVE FALSE
      <4>1. k <= u
        BY <1>4, <3>1, FS_Subset DEF k
      <4> QED BY <1>1, <1>4, <2>1, <4>1
    <3> QED BY <3>1
  <2>3. dist[g] = 0
    BY <1>1, <1>3, <2>2
  <2>4. \A f \in Used(dist) : dist[f] = 1
    <3> TAKE f \in Used(dist)
    <3>1. dist[f] <= dist[g] + 1 /\ dist[f] \in Nat /\ dist[f] > 0
      BY <1>2, <1>3, <2>2
    <3> QED BY <2>3, <3>1
  <2>5. MaxPerFD(dist) = 1
    <3> DEFINE M == {0} \cup {dist[f] : f \in FD}
    <3>1. 1 \in M
      BY <1>3, <2>1, <2>4
    <3>2. \A y \in M : y \in Nat /\ 1 >= y
      <4> SUFFICES ASSUME NEW f \in FD PROVE dist[f] \in Nat /\ 1 >= dist[f]
        OBVIOUS
      <4> QED BY <1>3, <2>4
    <3> HIDE DEF M
    <3>3. \E m \in M : \A y \in M : m >= y
      BY <3>1, <3>2
    <3>4. Max(M) \in M /\ \A y \in M : Max(M) >= y
      BY <3>3 DEF Max
    <3>5. Max(M) = 1
      BY <3>1, <3>2, <3>4
    <3> QED BY <3>5 DEF MaxPerFD, M
  <2>6. FDsAtMax(dist) = u
    <3>1. {f \in Used(dist) : dist[f] = MaxPerFD(dist)} = Used(dist)
      BY <2>4, <2>5
    <3> QED BY <3>1 DEF FDsAtMax
  <2>7. n >= u
    <3>1. n >= 0 * u + u
      <4>1. \A x \in Used(dist) : dist[x] >= 0 /\ dist[x] >= 0 + 1
        BY <2>4
      <4> QED BY <1>3, <4>1
    <3>2. 0 * u = 0
      BY <1>4
    <3> QED BY <1>4, <3>1, <3>2
  <2> HIDE DEF u
  <2>8. u \in Nat /\ k > 0
    BY <1>1, <1>4, <2>1 DEF u
  <2>9. \/ MaxIdealPerFD(n, k) < 1
        \/ MaxIdealPerFD(n, k) = 1 /\ OptimalFDsAtMax(n, k) < u
    BY <2>5, <2>6 DEF CanImproveWithMoreFDs
  <2> DEFINE q == n \div k
             r == n % k
  <2>10. q \in Nat /\ r \in Nat /\ r < k /\ n = k * q + r
    BY <1>1, <1>6, <2>8
  <2>11. /\ MaxIdealPerFD(n, k) = q + (IF r > 0 THEN 1 ELSE 0)
         /\ OptimalFDsAtMax(n, k) = IF r = 0 THEN k ELSE r
    BY <2>8 DEF MaxIdealPerFD, OptimalFDsAtMax
  <2> HIDE DEF q, r
  <2>12. k * 0 = 0 /\ k * 1 = k
    BY <1>1
  <2>13. CASE q = 0
    BY <1>1, <2>1, <2>7, <2>8, <2>9, <2>10, <2>11, <2>12, <2>13
  <2>14. CASE q # 0
    BY <1>1, <2>1, <2>8, <2>9, <2>10, <2>11, <2>14
  <2> QED BY <2>13, <2>14
<1> QED BY <1>5, <1>7, <1>8 DEF ShouldTrigger, ShouldImprove, k, avail

\* shouldTriggerRollout: whatever the failure domains and the number of replicas,
\* the controller never writes rollout.after for a control plane that has as many
\* machines as replicas, spread evenly over the available failure domains it read.
THEOREM OnlyBadRollOut == Spec => OnlyBadPlacementsRollOut
<1>1. ASSUME TypeOK, TriggerRollout, Total(old) + Total(new) = read.replicas,
             WellSpread(Distribution, read.domains)
      PROVE  FALSE
  <2>1. read.busy /\ ShouldTrigger(Distribution, read.domains, read.replicas)
    BY <1>1 DEF TriggerRollout, NeedsRollout
  <2>2. read \in Reads
    BY <1>1, <2>1 DEF TypeOK, Idle
  <2>3. read.replicas \in Nat \ {0}
    BY <2>2, ConstantsOK DEF Reads
  <2>4. IsFiniteSet(Places) /\ FD \subseteq Places
    BY ConstantsOK, FS_Union, FS_Singleton DEF Places
  <2>5. old \in [Places -> Nat] /\ new \in [Places -> Nat]
    BY <1>1 DEF TypeOK
  <2>6. Distribution \in [FD -> Nat] /\ \A x \in FD : Distribution[x] = old[x] + new[x]
    BY <2>4, <2>5 DEF Distribution
  <2>7. ASSUME NEW c \in Nat, NEW A \in SUBSET FD, NEW B \in SUBSET A,
               \A x \in A : Distribution[x] >= c, \A x \in B : Distribution[x] >= c + 1
        PROVE  read.replicas >= c * Cardinality(A) + Cardinality(B)
    <3>1. A \in SUBSET Places
      BY <2>4
    <3>2. \A x \in A : old[x] + new[x] >= c
      BY <2>6, <2>7
    <3>3. \A x \in B : old[x] + new[x] >= c + 1
      BY <2>6, <2>7
    <3> QED BY <1>1, <2>4, <2>5, <3>1, <3>2, <3>3, TotalsAtLeast
  <2>8. ~ShouldTrigger(Distribution, read.domains, read.replicas)
    BY <1>1, <2>3, <2>6, <2>7, EvenIsKept
  <2> QED BY <2>1, <2>8
<1>2. TypeOK /\ [Next]_vars =>
          [TriggerRollout /\ Total(old) + Total(new) = read.replicas
             => ~WellSpread(Distribution, read.domains)]_vars
  BY <1>1
<1> QED BY <1>2, TypeCorrect, PTL DEF Spec, OnlyBadPlacementsRollOut

------------------------------------------------------------------------------
(* The namespace sync controller *)

\* What copyClusterClassAndTemplates has done so far for its current class.
Progressing ==
    \A n \in Namespace : work[n].class # NoClass =>
        Refs[work[n].class] \subseteq copies[n] \cup work[n].todo

CopyInv == SyncTypeOK /\ Progressing /\ CopiedClassesAreComplete

LEMMA InitCopyInv == SyncInit => CopyInv
  BY SyncConstantsOK DEF SyncInit, SyncIdle, CopyInv, SyncTypeOK, Objects, Progressing, CopiedClassesAreComplete

\* Steps that leave copies and work alone keep the two structural parts.
LEMMA FrameCopyInv ==
    ASSUME CopyInv, UNCHANGED <<copies, work>>
    PROVE  Progressing' /\ CopiedClassesAreComplete'
  BY DEF CopyInv, Progressing, CopiedClassesAreComplete

LEMMA CopyInvInductive == CopyInv /\ [SyncNext]_syncVars => CopyInv'
<1> SUFFICES ASSUME CopyInv, [SyncNext]_syncVars PROVE CopyInv'
  OBVIOUS
<1> USE SyncConstantsOK DEF CopyInv, Objects
<1>1. CASE ClassEvent
  <2>1. queue' \subseteq Namespace /\ syncFaults' \in 0 .. MaxSyncFaults
    BY <1>1 DEF ClassEvent, Enqueued, SyncTypeOK
  <2> QED
    BY <1>1, <2>1, FrameCopyInv DEF ClassEvent, SyncTypeOK, apiVars
<1>2. CASE Relist \/ TemplateEvent
  BY <1>2, FrameCopyInv DEF Relist, TemplateEvent, SyncTypeOK, apiVars, cacheVars
<1>3. CASE EditSource \/ EditLabel
  BY <1>3, FrameCopyInv DEF EditSource, EditLabel, SyncEdit, SyncTypeOK, cacheVars
<1>4. ASSUME NEW n \in Namespace, NamespaceEvent(n) PROVE CopyInv'
  BY <1>4, FrameCopyInv DEF NamespaceEvent, SyncTypeOK, apiVars
<1>5. ASSUME NEW n \in Namespace, CopyEvent(n) PROVE CopyInv'
  <2>1. queue' \subseteq Namespace /\ syncFaults' \in 0 .. MaxSyncFaults
    BY <1>5 DEF CopyEvent, Enqueued, SyncTypeOK
  <2> QED
    BY <1>5, <2>1, FrameCopyInv DEF CopyEvent, SyncTypeOK, apiVars
<1>6. ASSUME NEW n \in Namespace, Start(n) PROVE CopyInv'
  <2>1. work' = [work EXCEPT ![n] = Between(classCache)] /\ UNCHANGED copies
    BY <1>6 DEF Start, apiVars
  <2>2. SyncTypeOK'
    BY <1>6, <2>1 DEF Start, Between, SyncTypeOK, apiVars, cacheVars
  <2>3. Progressing'
    BY <2>1 DEF Between, SyncTypeOK, Progressing
  <2>4. CopiedClassesAreComplete'
    BY <2>1 DEF CopiedClassesAreComplete
  <2> QED
    BY <2>2, <2>3, <2>4
<1>7. ASSUME NEW n \in Namespace, NextClass(n) PROVE CopyInv'
  <2>1. PICK c \in work[n].left :
            work' = [work EXCEPT ![n] = [busy |-> TRUE, left |-> work[n].left \ {c},
                                         class |-> c, todo |-> Refs[c]]]
    BY <1>7 DEF NextClass
  <2>2. c \in Class /\ Refs[c] \in SUBSET Template /\ work[n].left \in SUBSET Class
    BY DEF SyncTypeOK
  <2> QED
    BY <1>7, <2>1, <2>2
       DEF NextClass, SyncTypeOK, Progressing, CopiedClassesAreComplete, apiVars, cacheVars
<1>8. ASSUME NEW n \in Namespace, CopyTemplate(n) PROVE CopyInv'
  <2>1. PICK t \in work[n].todo :
            /\ copies' = [copies EXCEPT ![n] = copies[n] \cup {t}]
            /\ work' = [work EXCEPT ![n].todo = work[n].todo \ {t}]
    BY <1>8 DEF CopyTemplate
  <2>2. t \in Template /\ t \notin Class
    BY DEF SyncTypeOK
  <2>3. SyncTypeOK'
    BY <1>8, <2>1, <2>2 DEF CopyTemplate, SyncTypeOK, cacheVars
  <2>4. Progressing'
    BY <2>1 DEF Progressing, SyncTypeOK
  <2>5. CopiedClassesAreComplete'
    BY <2>1, <2>2 DEF CopiedClassesAreComplete, SyncTypeOK
  <2> QED
    BY <2>3, <2>4, <2>5
<1>9. ASSUME NEW n \in Namespace, CopyClass(n) PROVE CopyInv'
  <2> DEFINE c == work[n].class
  <2>1. /\ copies' = [copies EXCEPT ![n] = copies[n] \cup {c}]
        /\ work' = [work EXCEPT ![n] = Between(work[n].left)]
        /\ c # NoClass /\ work[n].todo = {}
    BY <1>9 DEF CopyClass, TemplatesCopied
  <2>2. c \in Class /\ Refs[c] \subseteq copies[n]
    BY <2>1 DEF SyncTypeOK, Progressing
  <2>3. SyncTypeOK'
    <3>1. Between(work[n].left) \in [busy : BOOLEAN, left : SUBSET Class,
                                     class : Class \cup {NoClass}, todo : SUBSET Template]
      BY DEF Between, SyncTypeOK
    <3> QED
      BY <1>9, <2>1, <2>2, <3>1 DEF CopyClass, SyncTypeOK, cacheVars
  <2>4. Progressing'
    BY <2>1 DEF Between, Progressing, SyncTypeOK
  <2>5. CopiedClassesAreComplete'
    BY <2>1, <2>2 DEF CopiedClassesAreComplete, SyncTypeOK
  <2> QED
    BY <2>3, <2>4, <2>5
<1>10. ASSUME NEW n \in Namespace, Finish(n) \/ Fail(n) PROVE CopyInv'
  <2>1. work' = [work EXCEPT ![n] = SyncIdle] /\ UNCHANGED <<copies, apiVars, cacheVars, syncEdits>>
    BY <1>10 DEF Finish, Fail, apiVars
  <2>2. queue' \subseteq Namespace /\ syncFaults' \in 0 .. MaxSyncFaults
    BY <1>10 DEF Finish, Fail, SyncTypeOK
  <2>3. SyncTypeOK'
    BY <2>1, <2>2 DEF SyncIdle, SyncTypeOK, apiVars, cacheVars
  <2>4. Progressing'
    BY <2>1 DEF SyncIdle, SyncTypeOK, Progressing
  <2>5. CopiedClassesAreComplete'
    BY <2>1 DEF CopiedClassesAreComplete
  <2> QED
    BY <2>3, <2>4, <2>5
<1>11. CASE UNCHANGED syncVars
  BY <1>11, FrameCopyInv DEF syncVars, apiVars, cacheVars, SyncTypeOK
<1> QED
  BY <1>1, <1>2, <1>3, <1>4, <1>5, <1>6, <1>7, <1>8, <1>9, <1>10, <1>11
     DEF SyncNext, Reconcile

\* copyClusterClassAndTemplates: for every set of namespaces, classes and
\* references, a ClusterClass is only ever in a target namespace together with all
\* the Templates it references.
THEOREM CopiesComplete == SyncSpec => []CopiedClassesAreComplete
<1>1. CopyInv => CopiedClassesAreComplete
  BY DEF CopyInv
<1> QED
  BY InitCopyInv, CopyInvInductive, <1>1, PTL DEF SyncSpec

\* Every variable keeps its range, for every set of namespaces, classes and
\* references: work that is under way is only ever on an object there can be.
THEOREM SyncTypeCorrect == SyncSpec => []SyncTypeOK
<1>1. CopyInv => SyncTypeOK
  BY DEF CopyInv
<1> QED
  BY InitCopyInv, CopyInvInductive, <1>1, PTL DEF SyncSpec
=============================================================================
