------------------------- MODULE AddonHandlersProofs -------------------------
(***************************************************************************)
(* Proofs about the add-on handlers, for every set of add-ons, nodes and   *)
(* faults.  First what holds of the scripts: which steps they have, and in *)
(* which order.  Then what one step of the system changes: a handler makes *)
(* its step, fails or skips ahead, beside it CAAPH and the workload        *)
(* cluster go on.  The invariants say what the steps that are done in a    *)
(* call have achieved and that nothing takes it back until the call ends.  *)
(***************************************************************************)
EXTENDS AddonHandlers, TLAPS

------------------------------------------------------------------------------
(* The scripts *)

\* Two objects that the scripts write: the autoscaler's ClusterResourceSet and the
\* annotation that forces the rollout of Cilium.
AutoscalerCRSObject == <<"ClusterResourceSet", "cluster-autoscaler">>
Restart == <<"RestartedAt", "cilium">>

\* What a single step s of the script of a may do under the request q: which objects it
\* deletes, which it writes and by which call, which releases it applies and removes.
StepFacts(a, q, s) ==
    /\ s.del # {} => s.op = "call"
    /\ \A o \in s.del :
          \/ o \in KubeProxy
          \/ o = AutoscalerCRSObject /\ a = "autoscaler-crs" /\ q.hook = "BeforeClusterDelete"
          \/ o[1] = "Privileged"
    /\ \A k \in Kinds : <<"Ready", k>> \in s.put => s.op = "await"
    /\ <<"ClusterResourceSet", "calico">> \in s.put => a = "calico-crs"
    /\ <<"ClusterResourceSet", "nfd">> \in s.put => a = "nfd-crs"
    /\ AutoscalerCRSObject \in s.put =>
          a = "autoscaler-crs" /\ q.hook # "BeforeClusterDelete"
    /\ Restart \in s.put => s.op = "call" /\ q.disabled
    /\ \A o \in s.put \cap Needs(a) : s.op \in {"call", "update"}
    /\ \A ns \in PrivilegedNamespace(a) : <<"Privileged", ns>> \in s.put => s.op = "call"
    /\ s.op = "apply" =>
          \/ a \in HelmAddons /\ s.on = Release(a)
             /\ (a = "autoscaler" => q.hook # "BeforeClusterDelete")
          \/ a = "cilium" /\ s.on = "cilium-preflight"
    /\ s.op = "remove" =>
          \/ a = "cilium" /\ s.on = "cilium-preflight"
          \/ a = "autoscaler" /\ s.on = "cluster-autoscaler" /\ q.hook = "BeforeClusterDelete"
    /\ s.op \in {"ifInstalled", "awaitConfig"} => a \in CiliumCNI

\* The step with which an add-on that needs something is deployed.
Deploys(a, s) ==
    \/ s.op = "apply" /\ s.on = Release(a)
    \/ <<"ClusterResourceSet", "calico">> \in s.put
    \/ <<"ClusterResourceSet", "nfd">> \in s.put

\* It comes after the steps that write what the add-on needs.
NeedsFirst(a, S) ==
    \A i \in DOMAIN S : Deploys(a, S[i]) =>
        \A o \in Needs(a) : \E j \in 1 .. i - 1 : o \in S[j].put

\* A step that takes away the label of a namespace of pods is followed by one that sets it.
Relabels(a, S) ==
    \A i \in DOMAIN S :
        \A ns \in {"ntnx-system", "node-feature-discovery", "metallb-system"} :
            <<"Privileged", ns>> \in S[i].del =>
                /\ ns \in PrivilegedNamespace(a)
                /\ \E j \in DOMAIN S : j > i /\ <<"Privileged", ns>> \in S[j].put

\* forceCiliumRollout follows the wait for the configuration, its wait the annotation, and
\* cleanupKubeProxy that wait.
RolloutOrdered(S) ==
    \A i \in DOMAIN S :
        /\ Restart \in S[i].put => i > 1 /\ S[i - 1].op = "awaitConfig"
        /\ S[i].op = "awaitRollout" => i > 1 /\ Restart \in S[i - 1].put
        /\ <<"DaemonSet", "kube-proxy">> \in S[i].del => i > 1 /\ S[i - 1].op = "awaitRollout"

\* The waits for both preflight resources precede the apply of Cilium.
PreflightFirst(q, S) ==
    \A i \in DOMAIN S : (S[i].op = "apply" /\ S[i].on = "cilium" /\ RunsPreflight(q)) =>
        \A k \in Kinds : \E j \in 1 .. i - 1 : S[j].op = "await" /\ <<"Ready", k>> \in S[j].put

\* isKubeProxyInstalled skips the five steps of the migration, up to the removal of the
\* preflight release or the end.
SkipsMigration(S) ==
    \A i \in DOMAIN S : S[i].op = "ifInstalled" =>
        /\ \A j \in i + 1 .. i + 5 : j \in DOMAIN S /\ S[j].op \notin {"apply", "await", "remove"}
        /\ i + 6 \in DOMAIN S => S[i + 6].op = "remove"

\* A removal is the last step.
RemovesLast(S) == \A i \in DOMAIN S : S[i].op = "remove" => i = Len(S)

\* The order of the steps of a script.
OrderFacts(a, q, S) ==
    /\ NeedsFirst(a, S)
    /\ Relabels(a, S)
    /\ RolloutOrdered(S)
    /\ PreflightFirst(q, S)
    /\ SkipsMigration(S)
    /\ RemovesLast(S)

\* The steps of which every script but Cilium's consists.
Ordinary(s) ==
    /\ s.op \in {"call", "get", "update", "apply", "wait"}
    /\ Restart \notin s.put
    /\ <<"DaemonSet", "kube-proxy">> \notin s.del
    /\ s.op = "apply" => s.on # "cilium"

\* A script of such steps has nothing else to order than what is needed and the labels.
LEMMA OrdinaryOrder ==
    ASSUME NEW a, NEW q, NEW S, \A i \in DOMAIN S : Ordinary(S[i]),
           NeedsFirst(a, S), Relabels(a, S)
    PROVE OrderFacts(a, q, S)
BY DEF OrderFacts, Ordinary, RolloutOrdered, PreflightFirst, SkipsMigration, RemovesLast

\* The steps that a script does not lack.
ExistenceFacts(a, q, S) ==
    /\ (a \in HelmAddons /\ q.hook # "BeforeClusterDelete") =>
          \E i \in DOMAIN S : S[i].op = "apply" /\ S[i].on = Release(a)
    /\ \A ns \in PrivilegedNamespace(a) : \E i \in DOMAIN S : <<"Privileged", ns>> \in S[i].put
    /\ (a = "cilium" /\ RunsPreflight(q)) =>
          \E i \in DOMAIN S : S[i].op = "remove" /\ S[i].on = "cilium-preflight"
    /\ (a = "autoscaler" /\ q.hook = "BeforeClusterDelete") =>
          \E i \in DOMAIN S : S[i].op = "remove" /\ S[i].on = "cluster-autoscaler"
    /\ (a = "autoscaler-crs" /\ q.hook = "BeforeClusterDelete") =>
          \E i \in DOMAIN S : AutoscalerCRSObject \in S[i].del

\* All of it, for a script S of a under the request q.
ScriptFacts(a, q, S) ==
    /\ Len(S) \in Nat \ {0}
    /\ DOMAIN S = 1 .. Len(S)
    /\ \A i \in DOMAIN S : StepFacts(a, q, S[i])
    /\ OrderFacts(a, q, S)
    /\ ExistenceFacts(a, q, S)

\* The add-ons of which only a chart is applied.
LEMMA ChartScripts ==
    ASSUME NEW q, NEW a \in {"calico", "aws-ccm", "snapshot", "cosi", "aws-lb"}
    PROVE ScriptFacts(a, q, Script(a, q))
<1>. DEFINE S == Script(a, q)
<1>1. /\ DOMAIN S = 1 .. 2 /\ Len(S) = 2
      /\ S[1] = Put({})
      /\ S[2] = Step("apply", Release(a), {}, {})
  <2>1. S = HelmChartFor \o Apply(Release(a))
    BY DEF Script, CalicoHelm, AWSCCMHelm, SnapshotHelm, COSI,
           AWSLoadBalancerController, Release
  <2>. QED BY <2>1 DEF HelmChartFor, Apply
<1>2. \A i \in DOMAIN S : StepFacts(a, q, S[i])
  BY <1>1 DEF StepFacts, Put, Step, Release, Needs, PrivilegedNamespace, HelmAddons,
        AutoscalerCRSObject, Restart
<1>3. OrderFacts(a, q, S)
  <2>1. \A i \in DOMAIN S : Ordinary(S[i])
    BY <1>1 DEF Ordinary, Put, Step, Restart, Release
  <2>2. NeedsFirst(a, S)
    BY <1>1 DEF NeedsFirst, Deploys, Put, Step, Release, Needs
  <2>3. Relabels(a, S)
    BY <1>1 DEF Relabels, Put, Step, PrivilegedNamespace
  <2>. QED BY <2>1, <2>2, <2>3, OrdinaryOrder
<1>4. ExistenceFacts(a, q, S)
  BY <1>1 DEF ExistenceFacts, Put, Step, Release, PrivilegedNamespace, HelmAddons
<1>. QED BY <1>1, <1>2, <1>3, <1>4 DEF ScriptFacts

\* A chart and storage classes.
LEMMA StorageScripts ==
    ASSUME NEW q, NEW a \in {"aws-ebs", "local-path"}
    PROVE ScriptFacts(a, q, Script(a, q))
<1>. DEFINE S == Script(a, q)
<1>1. /\ DOMAIN S = 1 .. 3 /\ Len(S) = 3
      /\ S[1] = Put({})
      /\ S[2] = Step("apply", Release(a), {}, {})
      /\ S[3] = Put({<<"StorageClass", Release(a)>>})
  <2>1. S = HelmChartFor \o Apply(Release(a)) \o CreateStorageClassesOnRemote(Release(a))
    BY DEF Script, AWSEBSHelm, LocalPathHelm, Release
  <2>. QED BY <2>1 DEF HelmChartFor, Apply, CreateStorageClassesOnRemote
<1>2. \A i \in DOMAIN S : StepFacts(a, q, S[i])
  BY <1>1 DEF StepFacts, Put, Step, Release, Needs, PrivilegedNamespace, HelmAddons,
        AutoscalerCRSObject, Restart
<1>3. OrderFacts(a, q, S)
  <2>1. \A i \in DOMAIN S : Ordinary(S[i])
    BY <1>1 DEF Ordinary, Put, Step, Restart, Release
  <2>2. NeedsFirst(a, S)
    BY <1>1 DEF NeedsFirst, Deploys, Put, Step, Release, Needs
  <2>3. Relabels(a, S)
    BY <1>1 DEF Relabels, Put, Step, PrivilegedNamespace
  <2>. QED BY <2>1, <2>2, <2>3, OrdinaryOrder
<1>4. ExistenceFacts(a, q, S)
  BY <1>1 DEF ExistenceFacts, Put, Step, Release, PrivilegedNamespace, HelmAddons
<1>. QED BY <1>1, <1>2, <1>3, <1>4 DEF ScriptFacts

\* A ConfigMap and a ClusterResourceSet that refers to it.
LEMMA ResourceSetScripts ==
    ASSUME NEW q, NEW a \in {"aws-ccm-crs", "snapshot-crs"}
    PROVE ScriptFacts(a, q, Script(a, q))
<1>. DEFINE S == Script(a, q)
<1>1. PICK x \in {"aws-ccm", "snapshot-controller"} : S = ApplyCRS(x)
  BY DEF Script, AWSCCMCRS, SnapshotCRS
<1>2. /\ DOMAIN S = 1 .. 2 /\ Len(S) = 2
      /\ S[1] = Put({<<"ConfigMap", x>>})
      /\ S[2] = Put({<<"ClusterResourceSet", x>>})
  BY <1>1 DEF ApplyCRS
<1>3. /\ x \notin {"calico", "nfd", "cluster-autoscaler"}
      /\ a \notin HelmAddons /\ Needs(a) = {} /\ PrivilegedNamespace(a) = {}
  BY DEF HelmAddons, Needs, PrivilegedNamespace
<1>4. \A i \in DOMAIN S : StepFacts(a, q, S[i])
  BY <1>2, <1>3 DEF StepFacts, Put, Step, Restart, AutoscalerCRSObject
<1>5. OrderFacts(a, q, S)
  <2>1. \A i \in DOMAIN S : Ordinary(S[i])
    BY <1>2 DEF Ordinary, Put, Step, Restart
  <2>2. NeedsFirst(a, S) /\ Relabels(a, S)
    BY <1>2, <1>3 DEF NeedsFirst, Relabels, Put, Step
  <2>. QED BY <2>1, <2>2, OrdinaryOrder
<1>6. ExistenceFacts(a, q, S)
  BY <1>3 DEF ExistenceFacts
<1>. QED BY <1>2, <1>4, <1>5, <1>6 DEF ScriptFacts

\* The same with storage classes.
LEMMA StorageResourceSetScripts ==
    ASSUME NEW q, NEW a \in {"aws-ebs-crs", "local-path-crs"}
    PROVE ScriptFacts(a, q, Script(a, q))
<1>. DEFINE S == Script(a, q)
<1>1. PICK x \in {"aws-ebs-csi", "local-path"} : S = ApplyCRS(x) \o CreateStorageClassesOnRemote(x)
  BY DEF Script, AWSEBSCRS, LocalPathCRS
<1>2. /\ DOMAIN S = 1 .. 3 /\ Len(S) = 3
      /\ S[1] = Put({<<"ConfigMap", x>>})
      /\ S[2] = Put({<<"ClusterResourceSet", x>>})
      /\ S[3] = Put({<<"StorageClass", x>>})
  BY <1>1 DEF ApplyCRS, CreateStorageClassesOnRemote
<1>3. /\ x \notin {"calico", "nfd", "cluster-autoscaler"}
      /\ a \notin HelmAddons /\ Needs(a) = {} /\ PrivilegedNamespace(a) = {}
  BY DEF HelmAddons, Needs, PrivilegedNamespace
<1>4. \A i \in DOMAIN S : StepFacts(a, q, S[i])
  BY <1>2, <1>3 DEF StepFacts, Put, Step, Restart, AutoscalerCRSObject
<1>5. OrderFacts(a, q, S)
  <2>1. \A i \in DOMAIN S : Ordinary(S[i])
    BY <1>2 DEF Ordinary, Put, Step, Restart
  <2>2. NeedsFirst(a, S) /\ Relabels(a, S)
    BY <1>2, <1>3 DEF NeedsFirst, Relabels, Put, Step
  <2>. QED BY <2>1, <2>2, OrdinaryOrder
<1>6. ExistenceFacts(a, q, S)
  BY <1>3 DEF ExistenceFacts
<1>. QED BY <1>2, <1>4, <1>5, <1>6 DEF ScriptFacts

\* Node feature discovery by a ClusterResourceSet.
LEMMA NFDResourceSetScript ==
    ASSUME NEW q
    PROVE ScriptFacts("nfd-crs", q, Script("nfd-crs", q))
<1>. DEFINE S == Script("nfd-crs", q)
<1>1. /\ DOMAIN S = 1 .. 2 /\ Len(S) = 2
      /\ S[1] = Put({<<"ConfigMap", "nfd">>})
      /\ S[2] = Put({<<"ClusterResourceSet", "nfd">>})
  <2>1. S = NFDCRS
    BY DEF Script
  <2>. QED BY <2>1 DEF NFDCRS, ApplyCRS
<1>2. \A i \in DOMAIN S : StepFacts("nfd-crs", q, S[i])
  BY <1>1 DEF StepFacts, Put, Step, Release, Needs, PrivilegedNamespace, HelmAddons,
        AutoscalerCRSObject, Restart
<1>3. OrderFacts("nfd-crs", q, S)
  <2>1. \A i \in DOMAIN S : Ordinary(S[i])
    BY <1>1 DEF Ordinary, Put, Step, Restart
  <2>2. NeedsFirst("nfd-crs", S)
    BY <1>1 DEF NeedsFirst, Deploys, Put, Step, Release, Needs
  <2>3. Relabels("nfd-crs", S)
    BY <1>1 DEF Relabels, Put, Step, PrivilegedNamespace
  <2>. QED BY <2>1, <2>2, <2>3, OrdinaryOrder
<1>4. ExistenceFacts("nfd-crs", q, S)
  BY <1>1 DEF ExistenceFacts, Put, Step, Release, PrivilegedNamespace, HelmAddons
<1>. QED BY <1>1, <1>2, <1>3, <1>4 DEF ScriptFacts

\* Calico by a ClusterResourceSet.
LEMMA CalicoResourceSetScript ==
    ASSUME NEW q
    PROVE ScriptFacts("calico-crs", q, Script("calico-crs", q))
<1>. DEFINE S == Script("calico-crs", q)
<1>1. /\ DOMAIN S = 1 .. 4 /\ Len(S) = 4
      /\ S[1] = Put({<<"ConfigMap", "tigera-operator-1">>})
      /\ S[2] = Put({<<"ConfigMap", "tigera-operator-2">>})
      /\ S[3] = Put({<<"ConfigMap", "calico">>})
      /\ S[4] = Put({<<"ClusterResourceSet", "calico">>})
  <2>1. S = CalicoCRS
    BY DEF Script
  <2>. QED BY <2>1 DEF CalicoCRS
<1>2. \A i \in DOMAIN S : StepFacts("calico-crs", q, S[i])
  BY <1>1 DEF StepFacts, Put, Step, Release, Needs, PrivilegedNamespace, HelmAddons,
        AutoscalerCRSObject, Restart
<1>3. OrderFacts("calico-crs", q, S)
  <2>1. \A i \in DOMAIN S : Ordinary(S[i])
    BY <1>1 DEF Ordinary, Put, Step, Restart
  <2>2. NeedsFirst("calico-crs", S)
    BY <1>1 DEF NeedsFirst, Deploys, Put, Step, Release, Needs
  <2>3. Relabels("calico-crs", S)
    BY <1>1 DEF Relabels, Put, Step, PrivilegedNamespace
  <2>. QED BY <2>1, <2>2, <2>3, OrdinaryOrder
<1>4. ExistenceFacts("calico-crs", q, S)
  BY <1>1 DEF ExistenceFacts, Put, Step, Release, PrivilegedNamespace, HelmAddons
<1>. QED BY <1>1, <1>2, <1>3, <1>4 DEF ScriptFacts

\* Nutanix Flow.
LEMMA FlowScript ==
    ASSUME NEW q
    PROVE ScriptFacts("flow", q, Script("flow", q))
<1>. DEFINE S == Script("flow", q)
<1>1. /\ DOMAIN S = 1 .. 13 /\ Len(S) = 13
      /\ S[1] = Put({})
      /\ S[2] = Step("get", "flow-pull-secret", {}, {})
      /\ S[3] = Step("update", "flow-pull-secret", {<<"OwnerReference", "flow-pull-secret">>}, {})
      /\ S[4] = EnsureNamespaceWithName("flow-cni-system")
      /\ S[5] = Put({<<"Secret", "flow-cni-system/pull">>})
      /\ S[6] = EnsureNamespaceWithName("flow-cns-system")
      /\ S[7] = Put({<<"Secret", "flow-cns-system/pull">>})
      /\ S[8] = EnsureNamespaceWithName("ovn-kubernetes")
      /\ S[9] = Put({<<"Secret", "ovn-kubernetes/pull">>})
      /\ S[10] = Step("get", "flow-values", {}, {})
      /\ S[11] = Step("update", "flow-values", {<<"OwnerReference", "flow-values">>}, {})
      /\ S[12] = Step("apply", "flow-cni", {}, {})
      /\ S[13] = Step("wait", "flow-cni", {}, {})
  <2>1. S = NutanixFlow
    BY DEF Script
  <2>. QED BY <2>1 DEF NutanixFlow, FlowNamespaces, HelmChartFor, Apply, ApplyAndWait,
        EnsureClusterOwnerReferenceForObject, CopySecretToRemoteCluster
<1>2. \A i \in DOMAIN S : StepFacts("flow", q, S[i])
  BY <1>1 DEF StepFacts, Put, Step, EnsureNamespaceWithName, Release, Needs,
        PrivilegedNamespace, HelmAddons, AutoscalerCRSObject, Restart
<1>3. OrderFacts("flow", q, S)
  <2>1. \A i \in DOMAIN S : Ordinary(S[i])
    BY <1>1 DEF Ordinary, Put, Step, EnsureNamespaceWithName, Restart
  <2>2. NeedsFirst("flow", S)
    BY <1>1 DEF NeedsFirst, Deploys, Put, Step, EnsureNamespaceWithName, Release, Needs
  <2>3. Relabels("flow", S)
    BY <1>1 DEF Relabels, Put, Step, EnsureNamespaceWithName, PrivilegedNamespace
  <2>. QED BY <2>1, <2>2, <2>3, OrdinaryOrder
<1>4. ExistenceFacts("flow", q, S)
  BY <1>1 DEF ExistenceFacts, Put, Step, EnsureNamespaceWithName, Release, PrivilegedNamespace,
        HelmAddons
<1>. QED BY <1>1, <1>2, <1>3, <1>4 DEF ScriptFacts

\* Multus.
LEMMA MultusScript ==
    ASSUME NEW q
    PROVE ScriptFacts("multus", q, Script("multus", q))
<1>. DEFINE S == Script("multus", q)
<1>1. /\ DOMAIN S = 1 .. 3 /\ Len(S) = 3
      /\ S[1] = Put({})
      /\ S[2] = Step("apply", "multus", {}, {})
      /\ S[3] = Step("wait", "multus", {}, {})
  <2>1. S = Multus
    BY DEF Script
  <2>. QED BY <2>1 DEF Multus, HelmChartFor, Apply, ApplyAndWait
<1>2. \A i \in DOMAIN S : StepFacts("multus", q, S[i])
  BY <1>1 DEF StepFacts, Put, Step, Release, Needs, PrivilegedNamespace, HelmAddons,
        AutoscalerCRSObject, Restart
<1>3. OrderFacts("multus", q, S)
  <2>1. \A i \in DOMAIN S : Ordinary(S[i])
    BY <1>1 DEF Ordinary, Put, Step, Restart
  <2>2. NeedsFirst("multus", S)
    BY <1>1 DEF NeedsFirst, Deploys, Put, Step, Release, Needs
  <2>3. Relabels("multus", S)
    BY <1>1 DEF Relabels, Put, Step, PrivilegedNamespace
  <2>. QED BY <2>1, <2>2, <2>3, OrdinaryOrder
<1>4. ExistenceFacts("multus", q, S)
  BY <1>1 DEF ExistenceFacts, Put, Step, Release, PrivilegedNamespace, HelmAddons
<1>. QED BY <1>1, <1>2, <1>3, <1>4 DEF ScriptFacts

\* Nutanix CCM.
LEMMA NutanixCCMScript ==
    ASSUME NEW q
    PROVE ScriptFacts("nutanix-ccm", q, Script("nutanix-ccm", q))
<1>. DEFINE S == Script("nutanix-ccm", q)
<1>1. /\ DOMAIN S = 1 .. 6 /\ Len(S) = 6
      /\ S[1] = Step("get", "pc-credentials", {}, {})
      /\ S[2] = Step("update", "pc-credentials", {<<"OwnerReference", "pc-credentials">>}, {})
      /\ S[3] = EnsureNamespaceWithName("kube-system")
      /\ S[4] = Put({<<"Secret", "kube-system/nutanix-ccm">>})
      /\ S[5] = Put({})
      /\ S[6] = Step("apply", "nutanix-ccm", {}, {})
  <2>1. S = NutanixCCM
    BY DEF Script
  <2>. QED BY <2>1 DEF NutanixCCM, HelmChartFor, Apply, EnsureClusterOwnerReferenceForObject,
        CopySecretToRemoteCluster
<1>2. \A i \in DOMAIN S : StepFacts("nutanix-ccm", q, S[i])
  BY <1>1 DEF StepFacts, Put, Step, EnsureNamespaceWithName, Release, Needs,
        PrivilegedNamespace, HelmAddons, AutoscalerCRSObject, Restart
<1>3. OrderFacts("nutanix-ccm", q, S)
  <2>1. \A i \in DOMAIN S : Ordinary(S[i])
    BY <1>1 DEF Ordinary, Put, Step, EnsureNamespaceWithName, Restart
  <2>2. NeedsFirst("nutanix-ccm", S)
    BY <1>1 DEF NeedsFirst, Deploys, Put, Step, EnsureNamespaceWithName, Release, Needs
  <2>3. Relabels("nutanix-ccm", S)
    BY <1>1 DEF Relabels, Put, Step, EnsureNamespaceWithName, PrivilegedNamespace
  <2>. QED BY <2>1, <2>2, <2>3, OrdinaryOrder
<1>4. ExistenceFacts("nutanix-ccm", q, S)
  BY <1>1 DEF ExistenceFacts, Put, Step, EnsureNamespaceWithName, Release, PrivilegedNamespace,
        HelmAddons
<1>. QED BY <1>1, <1>2, <1>3, <1>4 DEF ScriptFacts

\* Nutanix CSI.
LEMMA NutanixCSIScript ==
    ASSUME NEW q
    PROVE ScriptFacts("nutanix-csi", q, Script("nutanix-csi", q))
<1>. DEFINE S == Script("nutanix-csi", q)
<1>1. /\ DOMAIN S = 1 .. 8 /\ Len(S) = 8
      /\ S[1] = Put({})
      /\ S[2] = Step("get", "pc-credentials", {}, {})
      /\ S[3] = Step("update", "pc-credentials", {<<"OwnerReference", "pc-credentials">>}, {})
      /\ S[4] = EnsureNamespaceWithName("ntnx-system")
      /\ S[5] = Put({<<"Secret", "ntnx-system/nutanix-csi">>})
      /\ S[6] = EnsureNamespaceWithMetadata("ntnx-system")
      /\ S[7] = Step("apply", "nutanix-csi", {}, {})
      /\ S[8] = Put({<<"StorageClass", "nutanix-csi">>})
  <2>1. S = NutanixCSI
    BY DEF Script
  <2>. QED BY <2>1 DEF NutanixCSI, HelmChartFor, Apply, CreateStorageClassesOnRemote,
        EnsureClusterOwnerReferenceForObject, CopySecretToRemoteCluster
<1>2. \A i \in DOMAIN S : StepFacts("nutanix-csi", q, S[i])
  BY <1>1 DEF StepFacts, Put, Step, EnsureNamespaceWithName, EnsureNamespaceWithMetadata,
        Release, Needs, PrivilegedNamespace, HelmAddons, AutoscalerCRSObject, Restart
<1>3. OrderFacts("nutanix-csi", q, S)
  <2>1. \A i \in DOMAIN S : Ordinary(S[i])
    BY <1>1 DEF Ordinary, Put, Step, EnsureNamespaceWithName, EnsureNamespaceWithMetadata,
          Restart
  <2>2. NeedsFirst("nutanix-csi", S)
    BY <1>1 DEF NeedsFirst, Deploys, Put, Step, EnsureNamespaceWithName,
          EnsureNamespaceWithMetadata, Release, Needs
  <2>3. Relabels("nutanix-csi", S)
    BY <1>1 DEF Relabels, Put, Step, EnsureNamespaceWithName, EnsureNamespaceWithMetadata,
          PrivilegedNamespace
  <2>. QED BY <2>1, <2>2, <2>3, OrdinaryOrder
<1>4. ExistenceFacts("nutanix-csi", q, S)
  BY <1>1 DEF ExistenceFacts, Put, Step, EnsureNamespaceWithName, EnsureNamespaceWithMetadata,
        Release, PrivilegedNamespace, HelmAddons
<1>. QED BY <1>1, <1>2, <1>3, <1>4 DEF ScriptFacts

\* Node feature discovery.
LEMMA NFDScript ==
    ASSUME NEW q
    PROVE ScriptFacts("nfd", q, Script("nfd", q))
<1>. DEFINE S == Script("nfd", q)
<1>1. /\ DOMAIN S = 1 .. 3 /\ Len(S) = 3
      /\ S[1] = Put({})
      /\ S[2] = EnsureNamespaceWithMetadata("node-feature-discovery")
      /\ S[3] = Step("apply", "nfd", {}, {})
  <2>1. S = NFDHelm
    BY DEF Script
  <2>. QED BY <2>1 DEF NFDHelm, HelmChartFor, Apply
<1>2. \A i \in DOMAIN S : StepFacts("nfd", q, S[i])
  BY <1>1 DEF StepFacts, Put, Step, EnsureNamespaceWithMetadata, Release, Needs,
        PrivilegedNamespace, HelmAddons, AutoscalerCRSObject, Restart
<1>3. OrderFacts("nfd", q, S)
  <2>1. \A i \in DOMAIN S : Ordinary(S[i])
    BY <1>1 DEF Ordinary, Put, Step, EnsureNamespaceWithMetadata, Restart
  <2>2. NeedsFirst("nfd", S)
    BY <1>1 DEF NeedsFirst, Deploys, Put, Step, EnsureNamespaceWithMetadata, Release, Needs
  <2>3. Relabels("nfd", S)
    BY <1>1 DEF Relabels, Put, Step, EnsureNamespaceWithMetadata, PrivilegedNamespace
  <2>. QED BY <2>1, <2>2, <2>3, OrdinaryOrder
<1>4. ExistenceFacts("nfd", q, S)
  BY <1>1 DEF ExistenceFacts, Put, Step, EnsureNamespaceWithMetadata, Release,
        PrivilegedNamespace, HelmAddons
<1>. QED BY <1>1, <1>2, <1>3, <1>4 DEF ScriptFacts

\* The Konnector Agent.
LEMMA KonnectorScript ==
    ASSUME NEW q
    PROVE ScriptFacts("konnector", q, Script("konnector", q))
<1>. DEFINE S == Script("konnector", q)
<1>1. /\ DOMAIN S = 1 .. 7 /\ Len(S) = 7
      /\ S[1] = Step("get", "pc-credentials", {}, {})
      /\ S[2] = Step("update", "pc-credentials", {<<"OwnerReference", "pc-credentials">>}, {})
      /\ S[3] = EnsureNamespaceWithName("ntnx-system")
      /\ S[4] = Put({<<"Secret", "ntnx-system/konnector-agent">>})
      /\ S[5] = EnsureNamespaceWithMetadata("ntnx-system")
      /\ S[6] = Put({})
      /\ S[7] = Step("apply", "konnector-agent", {}, {})
  <2>1. S = KonnectorAgent
    BY DEF Script
  <2>. QED BY <2>1 DEF KonnectorAgent, HelmChartFor, Apply,
        EnsureClusterOwnerReferenceForObject, CopySecretToRemoteCluster
<1>2. \A i \in DOMAIN S : StepFacts("konnector", q, S[i])
  BY <1>1 DEF StepFacts, Put, Step, EnsureNamespaceWithName, EnsureNamespaceWithMetadata,
        Release, Needs, PrivilegedNamespace, HelmAddons, AutoscalerCRSObject, Restart
<1>3. OrderFacts("konnector", q, S)
  <2>1. \A i \in DOMAIN S : Ordinary(S[i])
    BY <1>1 DEF Ordinary, Put, Step, EnsureNamespaceWithName, EnsureNamespaceWithMetadata,
          Restart
  <2>2. NeedsFirst("konnector", S)
    BY <1>1 DEF NeedsFirst, Deploys, Put, Step, EnsureNamespaceWithName,
          EnsureNamespaceWithMetadata, Release, Needs
  <2>3. Relabels("konnector", S)
    BY <1>1 DEF Relabels, Put, Step, EnsureNamespaceWithName, EnsureNamespaceWithMetadata,
          PrivilegedNamespace
  <2>. QED BY <2>1, <2>2, <2>3, OrdinaryOrder
<1>4. ExistenceFacts("konnector", q, S)
  BY <1>1 DEF ExistenceFacts, Put, Step, EnsureNamespaceWithName, EnsureNamespaceWithMetadata,
        Release, PrivilegedNamespace, HelmAddons
<1>. QED BY <1>1, <1>2, <1>3, <1>4 DEF ScriptFacts

\* MetalLB.
LEMMA MetalLBScript ==
    ASSUME NEW q
    PROVE ScriptFacts("metallb", q, Script("metallb", q))
<1>. DEFINE S == Script("metallb", q)
<1>1. /\ DOMAIN S = 1 .. 6 /\ Len(S) = 6
      /\ S[1] = EnsureNamespaceWithMetadata("metallb-system")
      /\ S[2] = Put({})
      /\ S[3] = Step("apply", "metallb", {}, {})
      /\ S[4] = Step("wait", "metallb", {}, {})
      /\ S[5] = Put({<<"IPAddressPool", "metallb">>})
      /\ S[6] = Put({<<"L2Advertisement", "metallb">>})
  <2>1. S = MetalLB
    BY DEF Script
  <2>. QED BY <2>1 DEF MetalLB, HelmChartFor, Apply, ApplyAndWait
<1>2. \A i \in DOMAIN S : StepFacts("metallb", q, S[i])
  BY <1>1 DEF StepFacts, Put, Step, EnsureNamespaceWithMetadata, Release, Needs,
        PrivilegedNamespace, HelmAddons, AutoscalerCRSObject, Restart
<1>3. OrderFacts("metallb", q, S)
  <2>1. \A i \in DOMAIN S : Ordinary(S[i])
    BY <1>1 DEF Ordinary, Put, Step, EnsureNamespaceWithMetadata, Restart
  <2>2. NeedsFirst("metallb", S)
    BY <1>1 DEF NeedsFirst, Deploys, Put, Step, EnsureNamespaceWithMetadata, Release, Needs
  <2>3. Relabels("metallb", S)
    BY <1>1 DEF Relabels, Put, Step, EnsureNamespaceWithMetadata, PrivilegedNamespace
  <2>. QED BY <2>1, <2>2, <2>3, OrdinaryOrder
<1>4. ExistenceFacts("metallb", q, S)
  BY <1>1 DEF ExistenceFacts, Put, Step, EnsureNamespaceWithMetadata, Release,
        PrivilegedNamespace, HelmAddons
<1>. QED BY <1>1, <1>2, <1>3, <1>4 DEF ScriptFacts

\* The cluster autoscaler.
LEMMA AutoscalerScript ==
    ASSUME NEW q
    PROVE ScriptFacts("autoscaler", q, Script("autoscaler", q))
<1>. DEFINE S == Script("autoscaler", q)
<1>1. S = AutoscalerHelm(q)
  BY DEF Script
<1>2. CASE q.hook = "BeforeClusterDelete"
  <2>1. DOMAIN S = 1 .. 1 /\ Len(S) = 1 /\ S[1] = Step("remove", "cluster-autoscaler", {}, {})
    BY <1>1, <1>2 DEF AutoscalerHelm
  <2>2. \A i \in DOMAIN S : StepFacts("autoscaler", q, S[i])
    BY <2>1, <1>2 DEF StepFacts, Step, Restart, AutoscalerCRSObject
  <2>3. OrderFacts("autoscaler", q, S)
    <3>1. NeedsFirst("autoscaler", S) /\ Relabels("autoscaler", S)
      BY <2>1 DEF NeedsFirst, Relabels, Needs, Step
    <3>2. RolloutOrdered(S) /\ PreflightFirst(q, S)
      BY <2>1 DEF RolloutOrdered, PreflightFirst, Step, Restart
    <3>3. SkipsMigration(S) /\ \A i \in DOMAIN S : i = 1
      BY <2>1 DEF SkipsMigration, Step
    <3>. QED BY <3>1, <3>2, <3>3, <2>1 DEF OrderFacts, RemovesLast
  <2>4. ExistenceFacts("autoscaler", q, S)
    BY <2>1, <1>2 DEF ExistenceFacts, Step, PrivilegedNamespace
  <2>. QED BY <2>1, <2>2, <2>3, <2>4 DEF ScriptFacts
<1>3. CASE q.hook # "BeforeClusterDelete"
  <2>1. /\ DOMAIN S = 1 .. 2 /\ Len(S) = 2
        /\ S[1] = Put({})
        /\ S[2] = Step("apply", "cluster-autoscaler", {}, {})
    BY <1>1, <1>3 DEF AutoscalerHelm, HelmChartFor, Apply
  <2>2. \A i \in DOMAIN S : StepFacts("autoscaler", q, S[i])
    BY <2>1, <1>3 DEF StepFacts, Put, Step, Release, HelmAddons, Restart, AutoscalerCRSObject
  <2>3. OrderFacts("autoscaler", q, S)
    <3>1. \A i \in DOMAIN S : Ordinary(S[i])
      BY <2>1 DEF Ordinary, Put, Step, Restart
    <3>2. NeedsFirst("autoscaler", S) /\ Relabels("autoscaler", S)
      BY <2>1 DEF NeedsFirst, Relabels, Needs, Put, Step
    <3>. QED BY <3>1, <3>2, OrdinaryOrder
  <2>4. ExistenceFacts("autoscaler", q, S)
    BY <2>1, <1>3 DEF ExistenceFacts, Step, Release, PrivilegedNamespace
  <2>. QED BY <2>1, <2>2, <2>3, <2>4 DEF ScriptFacts
<1>. QED BY <1>2, <1>3

\* The cluster autoscaler by a ClusterResourceSet.
LEMMA AutoscalerCRSScript ==
    ASSUME NEW q
    PROVE ScriptFacts("autoscaler-crs", q, Script("autoscaler-crs", q))
<1>. DEFINE S == Script("autoscaler-crs", q)
<1>1. S = AutoscalerCRS(q)
  BY DEF Script
<1>2. CASE q.hook = "BeforeClusterDelete"
  <2>1. DOMAIN S = 1 .. 1 /\ Len(S) = 1 /\ S[1] = Delete(AutoscalerCRSObject)
    BY <1>1, <1>2 DEF AutoscalerCRS, AutoscalerCRSObject
  <2>2. \A i \in DOMAIN S : StepFacts("autoscaler-crs", q, S[i]) /\ Ordinary(S[i])
    BY <2>1, <1>2 DEF StepFacts, Ordinary, Step, Delete, Restart, AutoscalerCRSObject
  <2>3. NeedsFirst("autoscaler-crs", S) /\ Relabels("autoscaler-crs", S)
    BY <2>1 DEF NeedsFirst, Relabels, Needs, Delete, Step, AutoscalerCRSObject
  <2>4. ExistenceFacts("autoscaler-crs", q, S)
    BY <2>1, <1>2 DEF ExistenceFacts, Delete, Step, PrivilegedNamespace, HelmAddons
  <2>. QED BY <2>1, <2>2, <2>3, <2>4, OrdinaryOrder DEF ScriptFacts
<1>3. CASE q.hook # "BeforeClusterDelete"
  <2>1. /\ DOMAIN S = 1 .. 3 /\ Len(S) = 3
        /\ S[1] = Put({<<"ConfigMap", "cluster-autoscaler">>})
        /\ S[2] = EnsureNamespaceWithName("cluster-namespace")
        /\ S[3] = Put({AutoscalerCRSObject})
    BY <1>1, <1>3 DEF AutoscalerCRS, AutoscalerCRSObject
  <2>2. \A i \in DOMAIN S : StepFacts("autoscaler-crs", q, S[i]) /\ Ordinary(S[i])
    BY <2>1, <1>3 DEF StepFacts, Ordinary, Put, Step, EnsureNamespaceWithName, Restart,
          AutoscalerCRSObject, Needs, PrivilegedNamespace
  <2>3. NeedsFirst("autoscaler-crs", S) /\ Relabels("autoscaler-crs", S)
    BY <2>1 DEF NeedsFirst, Relabels, Needs, Put, Step, EnsureNamespaceWithName
  <2>4. ExistenceFacts("autoscaler-crs", q, S)
    BY <2>1, <1>3 DEF ExistenceFacts, Step, PrivilegedNamespace, HelmAddons
  <2>. QED BY <2>1, <2>2, <2>3, <2>4, OrdinaryOrder DEF ScriptFacts
<1>. QED BY <1>2, <1>3

\* Cilium, with and without the preflight release and the migration from kube-proxy.
LEMMA CiliumScript ==
    ASSUME NEW q
    PROVE ScriptFacts("cilium", q, Script("cilium", q))
<1>. DEFINE S == Script("cilium", q)
<1>1. S = CiliumHelm(q) /\ NeedsFirst("cilium", S)
  BY DEF Script, NeedsFirst, Needs
<1>2. CASE RunsPreflight(q) /\ q.disabled
  <2>1. /\ DOMAIN S = 1 .. 15 /\ Len(S) = 15
        /\ S[1] = Put({})
        /\ S[2] = Step("softUpdate", "cilium-values", {<<"OwnerReference", "cilium-values">>}, {})
        /\ S[3] = Step("apply", "cilium-preflight", {}, {})
        /\ S[4] = Step("wait", "cilium-preflight", {}, {})
        /\ S[5] = Step("await", "none", {<<"Ready", "DaemonSet">>}, {})
        /\ S[6] = Step("await", "none", {<<"Ready", "Deployment">>}, {})
        /\ S[7] = Step("apply", "cilium", {}, {})
        /\ S[8] = Step("wait", "cilium", {}, {})
        /\ S[9] = Step("ifInstalled", "none", {}, {})
        /\ S[10] = Step("awaitConfig", "none", {}, {})
        /\ S[11] = Put({Restart})
        /\ S[12] = Step("awaitRollout", "none", {}, {})
        /\ S[13] = Delete(<<"DaemonSet", "kube-proxy">>)
        /\ S[14] = Delete(<<"ConfigMap", "kube-proxy">>)
        /\ S[15] = Step("remove", "cilium-preflight", {}, {})
    BY <1>1, <1>2 DEF CiliumHelm, CiliumValues, CiliumRunApply, HelmChartFor, ApplyAndWait,
          Apply, CiliumPreflight, KubeProxyMigration, ForceCiliumRollout,
          CleanupKubeProxy, Restart
  <2>2. \A i \in DOMAIN S : StepFacts("cilium", q, S[i])
    BY <1>2, <2>1 DEF StepFacts, Put, Step, Delete, Release, Needs, PrivilegedNamespace,
          HelmAddons, AutoscalerCRSObject, Restart, Kinds, KubeProxy, CiliumCNI
  <2>3. Relabels("cilium", S)
    BY <1>2, <2>1 DEF Relabels, Put, Step, Delete
  <2>4. RolloutOrdered(S)
    BY <1>2, <2>1 DEF RolloutOrdered, Restart, Put, Step, Delete
  <2>5. PreflightFirst(q, S)
    BY <1>2, <2>1 DEF PreflightFirst, Kinds, Put, Step, Delete
  <2>6. SkipsMigration(S)
    BY <1>2, <2>1 DEF SkipsMigration, Put, Step, Delete
  <2>7. \A i \in DOMAIN S : S[i].op = "remove" => i = 15
    BY <1>2, <2>1 DEF Put, Step, Delete
  <2>8. ExistenceFacts("cilium", q, S)
    BY <1>2, <2>1 DEF ExistenceFacts, Step, Release, PrivilegedNamespace, HelmAddons
  <2>9. DOMAIN S = 1 .. 15 /\ Len(S) = 15
    BY <2>1
  <2>10. RemovesLast(S)
    BY <2>7, <2>9 DEF RemovesLast
  <2>11. OrderFacts("cilium", q, S)
    BY <1>1, <2>3, <2>4, <2>5, <2>6, <2>10 DEF OrderFacts
  <2>. QED BY <2>2, <2>8, <2>9, <2>11 DEF ScriptFacts
<1>3. CASE RunsPreflight(q) /\ ~q.disabled
  <2>1. /\ DOMAIN S = 1 .. 9 /\ Len(S) = 9
        /\ S[1] = Put({})
        /\ S[2] = Step("softUpdate", "cilium-values", {<<"OwnerReference", "cilium-values">>}, {})
        /\ S[3] = Step("apply", "cilium-preflight", {}, {})
        /\ S[4] = Step("wait", "cilium-preflight", {}, {})
        /\ S[5] = Step("await", "none", {<<"Ready", "DaemonSet">>}, {})
        /\ S[6] = Step("await", "none", {<<"Ready", "Deployment">>}, {})
        /\ S[7] = Step("apply", "cilium", {}, {})
        /\ S[8] = Step("wait", "cilium", {}, {})
        /\ S[9] = Step("remove", "cilium-preflight", {}, {})
    BY <1>1, <1>3 DEF CiliumHelm, CiliumValues, CiliumRunApply, HelmChartFor, ApplyAndWait,
          Apply, CiliumPreflight
  <2>2. \A i \in DOMAIN S : StepFacts("cilium", q, S[i])
    BY <1>3, <2>1 DEF StepFacts, Put, Step, Delete, Release, Needs, PrivilegedNamespace,
          HelmAddons, AutoscalerCRSObject, Restart, Kinds, KubeProxy, CiliumCNI
  <2>3. Relabels("cilium", S)
    BY <1>3, <2>1 DEF Relabels, Put, Step, Delete
  <2>4. RolloutOrdered(S)
    BY <1>3, <2>1 DEF RolloutOrdered, Restart, Put, Step, Delete
  <2>5. PreflightFirst(q, S)
    BY <1>3, <2>1 DEF PreflightFirst, Kinds, Put, Step, Delete
  <2>6. SkipsMigration(S)
    BY <1>3, <2>1 DEF SkipsMigration, Put, Step, Delete
  <2>7. \A i \in DOMAIN S : S[i].op = "remove" => i = 9
    BY <1>3, <2>1 DEF Put, Step, Delete
  <2>8. ExistenceFacts("cilium", q, S)
    BY <1>3, <2>1 DEF ExistenceFacts, Step, Release, PrivilegedNamespace, HelmAddons
  <2>9. DOMAIN S = 1 .. 9 /\ Len(S) = 9
    BY <2>1
  <2>10. RemovesLast(S)
    BY <2>7, <2>9 DEF RemovesLast
  <2>11. OrderFacts("cilium", q, S)
    BY <1>1, <2>3, <2>4, <2>5, <2>6, <2>10 DEF OrderFacts
  <2>. QED BY <2>2, <2>8, <2>9, <2>11 DEF ScriptFacts
<1>4. CASE ~RunsPreflight(q) /\ q.disabled
  <2>1. /\ DOMAIN S = 1 .. 10 /\ Len(S) = 10
        /\ S[1] = Put({})
        /\ S[2] = Step("softUpdate", "cilium-values", {<<"OwnerReference", "cilium-values">>}, {})
        /\ S[3] = Step("apply", "cilium", {}, {})
        /\ S[4] = Step("wait", "cilium", {}, {})
        /\ S[5] = Step("ifInstalled", "none", {}, {})
        /\ S[6] = Step("awaitConfig", "none", {}, {})
        /\ S[7] = Put({Restart})
        /\ S[8] = Step("awaitRollout", "none", {}, {})
        /\ S[9] = Delete(<<"DaemonSet", "kube-proxy">>)
        /\ S[10] = Delete(<<"ConfigMap", "kube-proxy">>)
    BY <1>1, <1>4 DEF CiliumHelm, CiliumValues, CiliumRunApply, HelmChartFor, ApplyAndWait,
          Apply, KubeProxyMigration, ForceCiliumRollout,
          CleanupKubeProxy, Restart
  <2>2. \A i \in DOMAIN S : StepFacts("cilium", q, S[i])
    BY <1>4, <2>1 DEF StepFacts, Put, Step, Delete, Release, Needs, PrivilegedNamespace,
          HelmAddons, AutoscalerCRSObject, Restart, Kinds, KubeProxy, CiliumCNI
  <2>3. Relabels("cilium", S)
    BY <1>4, <2>1 DEF Relabels, Put, Step, Delete
  <2>4. RolloutOrdered(S)
    BY <1>4, <2>1 DEF RolloutOrdered, Restart, Put, Step, Delete
  <2>5. PreflightFirst(q, S)
    BY <1>4, <2>1 DEF PreflightFirst, Kinds, Put, Step, Delete
  <2>6. SkipsMigration(S)
    BY <1>4, <2>1 DEF SkipsMigration, Put, Step, Delete
  <2>7. \A i \in DOMAIN S : S[i].op = "remove" => i = 10
    BY <1>4, <2>1 DEF Put, Step, Delete
  <2>8. ExistenceFacts("cilium", q, S)
    BY <1>4, <2>1 DEF ExistenceFacts, Step, Release, PrivilegedNamespace, HelmAddons
  <2>9. DOMAIN S = 1 .. 10 /\ Len(S) = 10
    BY <2>1
  <2>10. RemovesLast(S)
    BY <2>7, <2>9 DEF RemovesLast
  <2>11. OrderFacts("cilium", q, S)
    BY <1>1, <2>3, <2>4, <2>5, <2>6, <2>10 DEF OrderFacts
  <2>. QED BY <2>2, <2>8, <2>9, <2>11 DEF ScriptFacts
<1>5. CASE ~RunsPreflight(q) /\ ~q.disabled
  <2>1. /\ DOMAIN S = 1 .. 4 /\ Len(S) = 4
        /\ S[1] = Put({})
        /\ S[2] = Step("softUpdate", "cilium-values", {<<"OwnerReference", "cilium-values">>}, {})
        /\ S[3] = Step("apply", "cilium", {}, {})
        /\ S[4] = Step("wait", "cilium", {}, {})
    BY <1>1, <1>5 DEF CiliumHelm, CiliumValues, CiliumRunApply, HelmChartFor, ApplyAndWait,
          Apply
  <2>2. \A i \in DOMAIN S : StepFacts("cilium", q, S[i])
    BY <1>5, <2>1 DEF StepFacts, Put, Step, Delete, Release, Needs, PrivilegedNamespace,
          HelmAddons, AutoscalerCRSObject, Restart, Kinds, KubeProxy, CiliumCNI
  <2>3. Relabels("cilium", S)
    BY <1>5, <2>1 DEF Relabels, Put, Step, Delete
  <2>4. RolloutOrdered(S)
    BY <1>5, <2>1 DEF RolloutOrdered, Restart, Put, Step, Delete
  <2>5. PreflightFirst(q, S)
    BY <1>5, <2>1 DEF PreflightFirst, Kinds, Put, Step, Delete
  <2>6. SkipsMigration(S)
    BY <1>5, <2>1 DEF SkipsMigration, Put, Step, Delete
  <2>7. \A i \in DOMAIN S : S[i].op = "remove" => i = 4
    BY <1>5, <2>1 DEF Put, Step, Delete
  <2>8. ExistenceFacts("cilium", q, S)
    BY <1>5, <2>1 DEF ExistenceFacts, Step, Release, PrivilegedNamespace, HelmAddons
  <2>9. DOMAIN S = 1 .. 4 /\ Len(S) = 4
    BY <2>1
  <2>10. RemovesLast(S)
    BY <2>7, <2>9 DEF RemovesLast
  <2>11. OrderFacts("cilium", q, S)
    BY <1>1, <2>3, <2>4, <2>5, <2>6, <2>10 DEF OrderFacts
  <2>. QED BY <2>2, <2>8, <2>9, <2>11 DEF ScriptFacts
<1>. QED BY <1>2, <1>3, <1>4, <1>5

\* Cilium by a ClusterResourceSet, with the same migration.
LEMMA CiliumCRSScript ==
    ASSUME NEW q
    PROVE ScriptFacts("cilium-crs", q, Script("cilium-crs", q))
<1>. DEFINE S == Script("cilium-crs", q)
<1>1. S = CiliumCRS(q)
  BY DEF Script
<1>2. /\ "cilium-crs" \notin HelmAddons /\ Needs("cilium-crs") = {}
      /\ PrivilegedNamespace("cilium-crs") = {} /\ "cilium-crs" \in CiliumCNI
  BY DEF HelmAddons, Needs, PrivilegedNamespace, CiliumCNI
<1>3. NeedsFirst("cilium-crs", S) /\ ExistenceFacts("cilium-crs", q, S)
  BY <1>2 DEF NeedsFirst, ExistenceFacts
<1>4. CASE q.disabled
  <2>1. /\ DOMAIN S = 1 .. 8 /\ Len(S) = 8
        /\ S[1] = Put({<<"ConfigMap", "cilium">>})
        /\ S[2] = Put({<<"ClusterResourceSet", "cilium">>})
        /\ S[3] = Step("ifInstalled", "none", {}, {})
        /\ S[4] = Step("awaitConfig", "none", {}, {})
        /\ S[5] = Put({Restart})
        /\ S[6] = Step("awaitRollout", "none", {}, {})
        /\ S[7] = Delete(<<"DaemonSet", "kube-proxy">>)
        /\ S[8] = Delete(<<"ConfigMap", "kube-proxy">>)
    BY <1>1, <1>4 DEF CiliumCRS, CiliumRunApply, ApplyCRS, KubeProxyMigration,
          ForceCiliumRollout, CleanupKubeProxy, Restart
  <2>2. \A i \in DOMAIN S : StepFacts("cilium-crs", q, S[i])
    BY <1>2, <1>4, <2>1 DEF StepFacts, Put, Step, Delete, AutoscalerCRSObject, Restart, Kinds,
          KubeProxy
  <2>3. Relabels("cilium-crs", S)
    BY <2>1 DEF Relabels, Put, Step, Delete
  <2>4. RolloutOrdered(S)
    BY <2>1 DEF RolloutOrdered, Restart, Put, Step, Delete
  <2>5. PreflightFirst(q, S)
    BY <2>1 DEF PreflightFirst, Kinds, Put, Step, Delete
  <2>6. SkipsMigration(S)
    BY <2>1 DEF SkipsMigration, Put, Step, Delete
  <2>7. RemovesLast(S)
    BY <2>1 DEF RemovesLast, Put, Step, Delete
  <2>8. OrderFacts("cilium-crs", q, S)
    BY <1>3, <2>3, <2>4, <2>5, <2>6, <2>7 DEF OrderFacts
  <2>. QED BY <1>3, <2>1, <2>2, <2>8 DEF ScriptFacts
<1>5. CASE ~q.disabled
  <2>1. /\ DOMAIN S = 1 .. 2 /\ Len(S) = 2
        /\ S[1] = Put({<<"ConfigMap", "cilium">>})
        /\ S[2] = Put({<<"ClusterResourceSet", "cilium">>})
    BY <1>1, <1>5 DEF CiliumCRS, CiliumRunApply, ApplyCRS
  <2>2. \A i \in DOMAIN S : StepFacts("cilium-crs", q, S[i])
    BY <1>2, <2>1 DEF StepFacts, Put, Step, AutoscalerCRSObject, Restart
  <2>3. OrderFacts("cilium-crs", q, S)
    <3>1. \A i \in DOMAIN S : Ordinary(S[i])
      BY <2>1 DEF Ordinary, Put, Step, Restart
    <3>2. Relabels("cilium-crs", S)
      BY <2>1 DEF Relabels, Put, Step
    <3>. QED BY <1>3, <3>1, <3>2, OrdinaryOrder
  <2>. QED BY <1>3, <2>1, <2>2, <2>3 DEF ScriptFacts
<1>. QED BY <1>4, <1>5

\* What holds of the script of every add-on, whatever the configuration.
LEMMA EveryScript ==
    ASSUME NEW q, NEW a \in Addons
    PROVE ScriptFacts(a, q, Script(a, q))
BY ChartScripts, StorageScripts, ResourceSetScripts, StorageResourceSetScripts,
   NFDResourceSetScript, CalicoResourceSetScript, FlowScript, MultusScript, NutanixCCMScript,
   NutanixCSIScript, NFDScript, KonnectorScript, MetalLBScript, AutoscalerScript,
   AutoscalerCRSScript, CiliumScript, CiliumCRSScript
   DEF Addons, HelmAddons, CRSAddons

------------------------------------------------------------------------------
(* Type correctness *)

\* The releases and add-ons by name.
LEMMA ReleaseNames ==
    /\ \A a \in HelmAddons : Release(a) # "cilium-preflight"
    /\ \A a \in HelmAddons : Release(a) = "cilium" => a = "cilium"
    /\ \A a, b \in HelmAddons : Release(a) = Release(b) => a = b
BY DEF HelmAddons, Release

\* The states of a HelmChartProxy and of a pod.
Proxies == [want : Specs \cup {NoSpec}, have : Specs \cup {NoSpec}, deleting : BOOLEAN]
PodStates == [template : (0..2) \X BOOLEAN, kpr : BOOLEAN]

\* The initial states are well typed.
LEMMA TypeInit ==
    ASSUME Init
    PROVE TypeOK
<1>1. NoProxy \in Proxies
  BY DEF NoProxy, Proxies
<1>2. hcp \in [ReleasesOf(active) -> Proxies] /\ cached \in [ReleasesOf(active) -> Proxies]
  <2>1. hcp = [r \in ReleasesOf(active) |-> NoProxy] /\ cached = hcp
    BY DEF Init
  <2>. QED BY <1>1, <2>1
<1>3. pods \in [Nodes -> PodStates]
  <2>1. NoPod \in PodStates
    <3>1. \A v \in 0..2, b \in BOOLEAN : <<v, b>> \in (0..2) \X BOOLEAN
      OBVIOUS
    <3>2. 0 \in 0..2
      OBVIOUS
    <3>. QED BY <3>1, <3>2, Zenon DEF NoPod, PodStates
  <2>2. pods = [n \in Nodes |-> NoPod]
    BY DEF Init
  <2>. QED BY <2>1, <2>2
<1>4. config \in [version : 1..2, disabled : BOOLEAN, skip : BOOLEAN, created : BOOLEAN,
                  replaces : BOOLEAN]
  <2>1. config \in [version : {1}, disabled : BOOLEAN, skip : {FALSE}, created : BOOLEAN,
                    replaces : BOOLEAN]
    BY DEF Init
  <2>2. {1} \subseteq 1..2 /\ {FALSE} \subseteq BOOLEAN
    OBVIOUS
  <2>3. \A V, W, A, B : V \subseteq W /\ A \subseteq B =>
          [version : V, disabled : BOOLEAN, skip : A, created : BOOLEAN, replaces : BOOLEAN]
            \subseteq [version : W, disabled : BOOLEAN, skip : B, created : BOOLEAN,
                       replaces : BOOLEAN]
    OBVIOUS
  <2>. QED BY <2>1, <2>2, <2>3, Zenon
<1>5. req \in [hook : {"none", "AfterControlPlaneInitialized", "BeforeClusterUpgrade",
                      "BeforeClusterDelete"},
               version : 1..2, disabled : BOOLEAN, skip : BOOLEAN]
  BY DEF Init
<1>6. /\ st \in [active -> {"off", "run", "ok", "failed"}]
      /\ pc \in [active -> Nat \ {0}]
      /\ seen \in [active -> BOOLEAN]
  BY DEF Init, AllOff, AtStart, NothingSeen
<1>7. /\ active \in AddonSets /\ calling \in BOOLEAN /\ stage = "initialize"
      /\ passed \subseteq Kinds /\ faults = 0
  BY DEF Init
<1>. QED BY <1>2, <1>3, <1>4, <1>5, <1>6, <1>7, MaxFaultsAssumption
    DEF TypeOK, Proxies, PodStates

\* An apply or a delete of a HelmChartProxy keeps the type of hcp.
LEMMA ProxyTypes ==
    ASSUME NEW R, NEW h \in [R -> Proxies], NEW r, NEW v \in Specs, NEW b \in BOOLEAN
    PROVE /\ [h EXCEPT ![r].want = v] \in [R -> Proxies]
          /\ [h EXCEPT ![r].deleting = b] \in [R -> Proxies]
<1>1. r \in R => /\ [h[r] EXCEPT !.want = v] \in Proxies
                 /\ [h[r] EXCEPT !.deleting = b] \in Proxies
  BY DEF Proxies
<1>2. ASSUME NEW p, r \in R => p \in Proxies
      PROVE [h EXCEPT ![r] = p] \in [R -> Proxies]
  BY <1>2, Zenon
<1>. QED BY <1>1, <1>2, Zenon

\* A new step of a handler keeps the types of st and pc.
LEMMA GoToTypes ==
    ASSUME TypeOK, NEW a \in active, NEW i \in Nat \ {0}, GoTo(a, i), active' = active
    PROVE /\ st' \in [active' -> {"off", "run", "ok", "failed"}]
          /\ pc' \in [active' -> Nat \ {0}]
BY DEF TypeOK, GoTo

\* What the workload cluster has of Cilium, by whichever strategy.
LEMMA CiliumTypes ==
    ASSUME TypeOK
    PROVE Cilium.version \in 0..2 /\ Cilium.kpr \in BOOLEAN
<1>1. Proxy("cilium").have \in Specs \cup {NoSpec}
  BY DEF TypeOK, Proxy, NoProxy
<1>2. ASSUME NEW s \in Specs \cup {NoSpec}
      PROVE s.version \in 0..2 /\ s.kpr \in BOOLEAN
  <2>1. CASE s \in Specs
    BY <2>1 DEF Specs
  <2>2. CASE s = NoSpec
    BY <2>2 DEF NoSpec
  <2>. QED BY <2>1, <2>2
<1>3. config.replaces \in BOOLEAN
  BY DEF TypeOK
<1>4. CASE "cilium-crs" \in active /\ Manifests \in objs
  BY <1>3, <1>4 DEF Cilium
<1>5. CASE "cilium-crs" \in active /\ Manifests \notin objs
  BY <1>5 DEF Cilium, NoSpec
<1>6. CASE "cilium-crs" \notin active
  BY <1>1, <1>2, <1>6 DEF Cilium
<1>. QED BY <1>4, <1>5, <1>6

\* Every step keeps the types.
LEMMA TypeNext ==
    ASSUME TypeOK, [Next]_vars
    PROVE TypeOK'
<1>. USE DEF TypeOK
<1>1. CASE UNCHANGED vars
  BY <1>1 DEF vars, handlers, world, ReleasesOf
<1>2. CASE BeginCall
  BY <1>2 DEF BeginCall, world, Hook, ReleasesOf
<1>3. CASE Return
  <2>1. /\ st' \in [active -> {"off", "run", "ok", "failed"}]
        /\ pc' \in [active -> Nat \ {0}]
        /\ seen' \in [active -> BOOLEAN]
    BY <1>3 DEF Return, AllOff, AtStart, NothingSeen
  <2>2. stage' \in {stage, "running", "upgraded", "deleted"}
    BY <1>3 DEF Return, NextStage
  <2>. QED BY <1>3, <2>1, <2>2 DEF Return, world, ReleasesOf
<1>4. ASSUME NEW a \in active, HandlerStep(a)
      PROVE TypeOK'
  <2>1. pc[a] \in Nat \ {0} /\ pc[a] + 1 \in Nat \ {0}
    OBVIOUS
  <2>2. pc[a] + 1 + Len(KubeProxyMigration) \in Nat \ {0}
    <3>1. Len(KubeProxyMigration) = 5
      BY DEF KubeProxyMigration, ForceCiliumRollout, CleanupKubeProxy
    <3>. QED BY <3>1, <2>1
  <2>3. CASE Call(a)
    BY <2>3, <2>1, GoToTypes DEF Call, GoOn, unchangedOutside, ReleasesOf
  <2>4. CASE GetObject(a)
    BY <2>4, <2>1, GoToTypes DEF GetObject, GoOn, unchangedOutside, world, Owned, ReleasesOf
  <2>5. CASE UpdateOwner(a)
    BY <2>5, <2>1, GoToTypes DEF UpdateOwner, GoOn, GiveUp, unchangedOutside, ReleasesOf
  <2>6. CASE ApplyRelease(a)
    <3>1. SpecFor(Current(a).on) \in Specs
      BY DEF SpecFor, Specs
    <3>2. hcp' \in [ReleasesOf(active) -> Proxies]
      <4>1. hcp \in [ReleasesOf(active) -> Proxies]
        BY DEF Proxies
      <4>2. hcp' = [hcp EXCEPT ![Current(a).on].want = SpecFor(Current(a).on)]
        BY <2>6 DEF ApplyRelease
      <4>. QED BY <3>1, <4>1, <4>2, ProxyTypes
    <3>. QED
      BY <2>6, <3>2, <2>1, GoToTypes DEF ApplyRelease, GoOn, unchangedOutside, ReleasesOf, Proxies
  <2>7. CASE RemoveRelease(a)
    <3>1. hcp' \in [ReleasesOf(active) -> Proxies]
      <4>1. (hcp[Current(a).on].want # NoSpec) \in BOOLEAN
        OBVIOUS
      <4>2. [version |-> 1, kpr |-> FALSE] \in Specs
        BY DEF Specs
      <4>3. hcp \in [ReleasesOf(active) -> Proxies]
        BY DEF Proxies
      <4>4. hcp' = [hcp EXCEPT ![Current(a).on].deleting = hcp[Current(a).on].want # NoSpec]
        BY <2>7 DEF RemoveRelease
      <4>. QED BY <4>1, <4>2, <4>3, <4>4, ProxyTypes
    <3>. QED
      BY <2>7, <3>1, <2>1, GoToTypes DEF RemoveRelease, GoOn, unchangedOutside, ReleasesOf, Proxies
  <2>8. CASE WaitEnds(a)
    BY <2>8, <2>1, GoToTypes DEF WaitEnds, GoOn, unchangedOutside, world, ReleasesOf
  <2>9. CASE WaitTimesOut(a)
    BY <2>9 DEF WaitTimesOut, GiveUp, unchangedOutside, world, ReleasesOf
  <2>10. CASE LookForKubeProxy(a)
    BY <2>10, <2>1, <2>2, GoToTypes
       DEF LookForKubeProxy, GoOn, unchangedOutside, world, ReleasesOf
  <2>. QED BY <1>4, <2>3, <2>4, <2>5, <2>6, <2>7, <2>8, <2>9, <2>10 DEF HandlerStep
<1>5. ASSUME NEW r \in DOMAIN hcp, Deploy(r)
      PROVE TypeOK'
  BY <1>5 DEF Deploy, environment, handlers, ReleasesOf
<1>6. ASSUME NEW r \in DOMAIN hcp, Uninstall(r)
      PROVE TypeOK'
  BY <1>6 DEF Uninstall, environment, handlers, ReleasesOf, NoProxy
<1>7. ASSUME NEW r \in DOMAIN hcp, CacheCatchesUp(r)
      PROVE TypeOK'
  BY <1>7 DEF CacheCatchesUp, environment, handlers, ReleasesOf
<1>8. ASSUME NEW k \in Kinds, PreflightPasses(k)
      PROVE TypeOK'
  BY <1>8 DEF PreflightPasses, environment, handlers, ReleasesOf
<1>9. ASSUME NEW n \in Nodes, StartPod(n)
      PROVE TypeOK'
  <2>1. Cilium.version \in 0..2 /\ Cilium.kpr \in BOOLEAN
    BY CiliumTypes
  <2>2. Template \in (0..2) \X BOOLEAN
    <3>1. ASSUME NEW v \in 0..2, NEW b \in BOOLEAN
          PROVE <<v, b>> \in (0..2) \X BOOLEAN
      OBVIOUS
    <3>2. (<<"RestartedAt", "cilium">> \in objs) \in BOOLEAN
      OBVIOUS
    <3>. QED BY <2>1, <3>1, <3>2, Zenon DEF Template
  <2>3. pods' \in [Nodes -> [template : (0..2) \X BOOLEAN, kpr : BOOLEAN]]
    BY <1>9, <2>1, <2>2 DEF StartPod
  <2>. QED BY <1>9, <2>3 DEF StartPod, environment, handlers, ReleasesOf
<1>10. CASE StartUpgrade
  BY <1>10 DEF StartUpgrade, handlers, world, ReleasesOf
<1>11. CASE StartDelete
  BY <1>11 DEF StartDelete, handlers, world, ReleasesOf
<1>12. ASSUME NEW a \in active, CallFails(a)
       PROVE TypeOK'
  <2>1. faults' \in 0..MaxFaults
    BY <1>12, MaxFaultsAssumption DEF CallFails
  <2>2. st' \in [active -> {"off", "run", "ok", "failed"}] /\ pc' \in [active -> Nat \ {0}]
    <3>1. pc[a] + 1 \in Nat \ {0}
      OBVIOUS
    <3>. QED BY <1>12, <3>1, GoToTypes DEF CallFails, GoOn, GiveUp, unchangedOutside
  <2>. QED BY <1>12, <2>1, <2>2 DEF CallFails, unchangedOutside, world, ReleasesOf
<1>13. CASE ManagerRestarts
  <2>1. /\ st' \in [active -> {"off", "run", "ok", "failed"}]
        /\ pc' \in [active -> Nat \ {0}]
        /\ seen' \in [active -> BOOLEAN]
    BY <1>13 DEF ManagerRestarts, AllOff, AtStart, NothingSeen
  <2>2. faults' \in 0..MaxFaults
    BY <1>13, MaxFaultsAssumption DEF ManagerRestarts
  <2>. QED BY <1>13, <2>1, <2>2 DEF ManagerRestarts, ReleasesOf
<1>14. CASE DisableKubeProxy
  BY <1>14 DEF DisableKubeProxy, environment, handlers, world, ReleasesOf
<1>15. CASE SkipPreflight
  BY <1>15 DEF SkipPreflight, environment, handlers, world, ReleasesOf
<1>16. CASE ApplyManifests
  BY <1>16 DEF ApplyManifests, environment, handlers, ReleasesOf
<1>. QED
  BY <1>1, <1>2, <1>3, <1>4, <1>5, <1>6, <1>7, <1>8, <1>9, <1>10, <1>11, <1>12, <1>13, <1>14,
     <1>15, <1>16 DEF Next, Calls, Surroundings

------------------------------------------------------------------------------
(* What a step of a handler does *)

\* The script of an add-on of the cluster.
LEMMA ScriptsOfActive ==
    ASSUME TypeOK, NEW a \in active
    PROVE a \in Addons /\ ScriptFacts(a, req, ScriptOf(a))
<1>1. a \in Addons
  BY AddonSetsAssumption DEF TypeOK
<1>. QED BY <1>1, EveryScript DEF ScriptOf

\* The current step of a has been made.
Made(a) ==
    LET s == Current(a)
    IN \/ s.op = "call" /\ objs' = (objs \ s.del) \cup s.put /\ hcp' = hcp
       \/ s.op = "softUpdate" /\ objs' \in {objs, (objs \ s.del) \cup s.put} /\ hcp' = hcp
       \/ s.op = "update" /\ objs' = objs \cup s.put /\ hcp' = hcp
       \/ s.op = "apply" /\ objs' = objs /\ hcp' = [hcp EXCEPT ![s.on].want = SpecFor(s.on)]
       \/ s.op = "remove" /\ objs' = objs
          /\ hcp' = [hcp EXCEPT ![s.on].deleting = hcp[s.on].want # NoSpec]
       \/ s.op \in Waits /\ Holds(s) /\ objs' = objs /\ hcp' = hcp
       \/ s.op \in {"get", "ifInstalled"} /\ objs' = objs /\ hcp' = hcp

\* The handler of a goes on at position i, or has returned.
Reaches(a, i) ==
    /\ pc'[a] = i
    /\ st'[a] = IF i > Len(ScriptOf(a)) THEN "ok" ELSE "run"

\* The handler of a returns with an error, and nothing was written.
Fails(a) == st'[a] = "failed" /\ objs' = objs /\ hcp' = hcp

\* isKubeProxyInstalled is false: the five steps of the migration count as done.
SkipsAhead(a) ==
    Current(a).op = "ifInstalled" /\ Reaches(a, pc[a] + 6) /\ objs' = objs /\ hcp' = hcp

\* A step of the handler of a, one of the three.
Moves(a) ==
    /\ Turn(a)
    /\ UNCHANGED <<active, stage, calling, config, req, pods, passed>>
    /\ \A b \in active \ {a} : st'[b] = st[b] /\ pc'[b] = pc[b]
    /\ \/ Reaches(a, pc[a] + 1) /\ Made(a)
       \/ Fails(a)
       \/ SkipsAhead(a)

\* GoTo and GiveUp leave the other handlers alone.
LEMMA GoToReaches ==
    ASSUME TypeOK, NEW a \in active, NEW i, GoTo(a, i)
    PROVE Reaches(a, i) /\ \A b \in active \ {a} : st'[b] = st[b] /\ pc'[b] = pc[b]
BY DEF TypeOK, GoTo, Reaches

\* An error ends the call of one handler only.
LEMMA GiveUpFails ==
    ASSUME TypeOK, NEW a \in active, GiveUp(a)
    PROVE st'[a] = "failed" /\ \A b \in active \ {a} : st'[b] = st[b] /\ pc'[b] = pc[b]
BY DEF TypeOK, GiveUp

\* A step that is made goes on with the next one.
LEMMA MadeMoves ==
    ASSUME TypeOK, NEW a \in active, Turn(a), Made(a), GoOn(a),
           UNCHANGED <<unchangedOutside, pods, passed>>
    PROVE Moves(a)
<1>1. Reaches(a, pc[a] + 1) /\ \A b \in active \ {a} : st'[b] = st[b] /\ pc'[b] = pc[b]
  BY GoToReaches DEF GoOn
<1>. QED BY <1>1 DEF Moves, unchangedOutside

\* Whatever a handler does, a step of it is made, skipped or fails.
LEMMA HandlersMove ==
    ASSUME TypeOK, NEW a \in active, HandlerStep(a) \/ CallFails(a)
    PROVE Moves(a)
<1>1. CASE Call(a)
  <2>1. Made(a)
    BY <1>1 DEF Call, At, Made, Current
  <2>. QED BY <1>1, <2>1, MadeMoves DEF Call, At
<1>2. CASE GetObject(a)
  <2>1. Made(a)
    BY <1>2 DEF GetObject, At, Made, Current, world
  <2>. QED BY <1>2, <2>1, MadeMoves DEF GetObject, At, world
<1>3. CASE UpdateOwner(a)
  <2>1. CASE seen[a] = Owned(a)
    <3>1. Made(a)
      BY <1>3, <2>1 DEF UpdateOwner, At, Made, Current
    <3>. QED BY <1>3, <2>1, <3>1, MadeMoves DEF UpdateOwner, At
  <2>2. CASE seen[a] # Owned(a)
    BY <1>3, <2>2, GiveUpFails DEF UpdateOwner, At, Moves, Fails, unchangedOutside
  <2>. QED BY <2>1, <2>2
<1>4. CASE ApplyRelease(a)
  <2>1. Made(a)
    BY <1>4 DEF ApplyRelease, At, Made, Current
  <2>. QED BY <1>4, <2>1, MadeMoves DEF ApplyRelease, At
<1>5. CASE RemoveRelease(a)
  <2>1. Made(a)
    BY <1>5 DEF RemoveRelease, At, Made, Current
  <2>. QED BY <1>5, <2>1, MadeMoves DEF RemoveRelease, At
<1>6. CASE WaitEnds(a)
  <2>1. Made(a)
    BY <1>6 DEF WaitEnds, At, Made, Current, world
  <2>. QED BY <1>6, <2>1, MadeMoves DEF WaitEnds, At, world
<1>7. CASE WaitTimesOut(a)
  BY <1>7, GiveUpFails DEF WaitTimesOut, At, Moves, Fails, unchangedOutside, world
<1>8. CASE LookForKubeProxy(a)
  <2>1. Len(KubeProxyMigration) = 5
    BY DEF KubeProxyMigration, ForceCiliumRollout, CleanupKubeProxy
  <2>2. pc[a] + 1 + 5 = pc[a] + 6
    BY DEF TypeOK
  <2>. QED BY <1>8, <2>1, <2>2, GoToReaches
     DEF LookForKubeProxy, At, GoOn, Moves, Made, SkipsAhead, unchangedOutside, world, Current
<1>9. CASE CallFails(a)
  <2>1. CASE Current(a).op = "softUpdate"
    BY <1>9, <2>1, GoToReaches DEF CallFails, GoOn, Moves, Made, unchangedOutside, world
  <2>2. CASE Current(a).op # "softUpdate"
    BY <1>9, <2>2, GiveUpFails DEF CallFails, Moves, Fails, unchangedOutside, world
  <2>. QED BY <2>1, <2>2
<1>. QED BY <1>1, <1>2, <1>3, <1>4, <1>5, <1>6, <1>7, <1>8, <1>9 DEF HandlerStep

------------------------------------------------------------------------------
(* Calls *)

\* A call is one of the hook that Cluster API waits for, its handlers are within their
\* scripts, and between two calls no handler runs.
CallInv ==
    /\ calling => Hook # "none" /\ req.hook = Hook
    /\ calling => \A a \in Called(Hook) : st[a] # "off"
    /\ ~calling => \A a \in active : st[a] = "off"
    /\ \A a \in active : st[a] \in {"run", "off"} => pc[a] <= Len(ScriptOf(a))
    /\ \A a \in active : st[a] = "off" => pc[a] = 1

\* It holds before the first call.
LEMMA CallInvInit ==
    ASSUME Init
    PROVE CallInv
<1>1. TypeOK
  BY TypeInit
<1>2. \A a \in active : st[a] = "off" /\ pc[a] = 1
  BY DEF Init, AllOff, AtStart
<1>3. \A a \in active : 1 <= Len(ScriptOf(a))
  BY <1>1, ScriptsOfActive DEF ScriptFacts
<1>. QED BY <1>2, <1>3 DEF CallInv, Init

\* A call is begun with every handler it needs at its start, and ends with none running.
LEMMA CallInvNext ==
    ASSUME TypeOK, TypeOK', CallInv, [Next]_vars
    PROVE CallInv'
<1>1. ASSUME NEW a \in active, HandlerStep(a) \/ CallFails(a)
      PROVE CallInv'
  <2>1. Moves(a)
    BY <1>1, HandlersMove
  <2>2. /\ UNCHANGED <<active, stage, calling, req>>
        /\ Turn(a)
        /\ \A b \in active \ {a} : st'[b] = st[b] /\ pc'[b] = pc[b]
    BY <2>1 DEF Moves
  <2>3. st'[a] # "off" /\ (st'[a] = "run" => pc'[a] <= Len(ScriptOf(a)))
    BY <2>1, ScriptsOfActive DEF Moves, Reaches, Fails, SkipsAhead, ScriptFacts, TypeOK
  <2>4. \A b \in active : ScriptOf(b)' = ScriptOf(b)
    BY <2>2 DEF ScriptOf
  <2>5. calling /\ Hook' = Hook /\ Called(Hook)' = Called(Hook) /\ Called(Hook) \subseteq active
    BY <2>2 DEF Hook, Called, Turn
  <2>6. \A b \in active : /\ st'[b] \in {"run", "off"} => pc'[b] <= Len(ScriptOf(b)')
                          /\ st'[b] = "off" => pc'[b] = 1
                          /\ st'[b] = "off" => st[b] = "off"
    BY <2>2, <2>3, <2>4 DEF CallInv
  <2>. QED BY <2>2, <2>5, <2>6 DEF CallInv
<1>2. CASE BeginCall
  <2>1. \A a \in active : pc'[a] = 1 /\ st'[a] = IF a \in Called(Hook) THEN "run" ELSE "off"
    BY <1>2 DEF BeginCall, CallInv
  <2>2. \A a \in active : 1 <= Len(ScriptOf(a)')
    <3>1. ASSUME NEW a \in active
          PROVE ScriptFacts(a, req', Script(a, req'))
      <4>1. a \in Addons
        BY AddonSetsAssumption DEF TypeOK
      <4>. QED BY <4>1, EveryScript
    <3>. QED BY <3>1 DEF ScriptFacts, ScriptOf
  <2>3. Hook' = Hook /\ Called(Hook)' = Called(Hook) /\ active' = active
    BY <1>2 DEF BeginCall, Hook, Called
  <2>4. Called(Hook) \subseteq active
    BY DEF Called
  <2>. QED BY <1>2, <2>1, <2>2, <2>3, <2>4 DEF BeginCall, CallInv
<1>3. CASE Return \/ ManagerRestarts
  <2>1. /\ calling' = FALSE /\ UNCHANGED <<active, req>>
        /\ \A a \in active : st'[a] = "off" /\ pc'[a] = 1
    BY <1>3 DEF Return, ManagerRestarts, AllOff, AtStart
  <2>2. \A a \in active : 1 <= Len(ScriptOf(a)) /\ ScriptOf(a)' = ScriptOf(a)
    BY <2>1, ScriptsOfActive DEF ScriptFacts, ScriptOf
  <2>. QED BY <2>1, <2>2 DEF CallInv
<1>4. CASE StartUpgrade \/ StartDelete
  <2>1. ~calling /\ UNCHANGED <<active, calling, req, st, pc>>
    BY <1>4 DEF StartUpgrade, StartDelete, CallInv, Hook, handlers
  <2>2. \A a \in active : ScriptOf(a)' = ScriptOf(a)
    BY <2>1 DEF ScriptOf
  <2>. QED BY <2>1, <2>2 DEF CallInv, TypeOK
<1>5. CASE UNCHANGED <<active, stage, calling, req, st, pc>>
  <2>1. \A a \in active : ScriptOf(a)' = ScriptOf(a)
    BY <1>5 DEF ScriptOf
  <2>2. Hook' = Hook /\ Called(Hook)' = Called(Hook)
    BY <1>5 DEF Hook, Called
  <2>. QED BY <1>5, <2>1, <2>2 DEF CallInv
<1>. QED
  BY <1>1, <1>2, <1>3, <1>4, <1>5
     DEF Next, Calls, Surroundings, ApplyManifests, Deploy, Uninstall, CacheCatchesUp,
         PreflightPasses, StartPod, DisableKubeProxy, SkipPreflight, environment, handlers,
         vars

------------------------------------------------------------------------------
(* What has been done in a call, and what a step changes *)

\* a has made its step i in the current call, or skipped it.
Did(a, i) == IF st[a] = "run" THEN i < pc[a] ELSE st[a] = "ok"

\* The current step of a handler that runs.
LEMMA CurrentFacts ==
    ASSUME TypeOK, CallInv, NEW a \in active, st[a] = "run"
    PROVE /\ pc[a] \in DOMAIN ScriptOf(a) /\ pc[a] \in Nat \ {0}
          /\ StepFacts(a, req, Current(a))
          /\ ScriptFacts(a, req, ScriptOf(a))
<1>1. ScriptFacts(a, req, ScriptOf(a))
  BY ScriptsOfActive
<1>2. pc[a] \in Nat \ {0} /\ pc[a] <= Len(ScriptOf(a))
  BY DEF TypeOK, CallInv
<1>3. pc[a] \in DOMAIN ScriptOf(a)
  BY <1>1, <1>2 DEF ScriptFacts
<1>. QED BY <1>1, <1>2, <1>3 DEF ScriptFacts, Current

\* A step is done once its handler has made it or skips it.
LEMMA DidNext ==
    ASSUME TypeOK, TypeOK', CallInv, [Next]_vars,
           NEW a \in active', NEW i \in DOMAIN ScriptOf(a)', Did(a, i)'
    PROVE /\ a \in active /\ active' = active /\ req' = req
          /\ i \in DOMAIN ScriptOf(a) /\ ScriptOf(a)' = ScriptOf(a)
          /\ \/ Did(a, i)
             \/ Moves(a) /\ Made(a) /\ i = pc[a]
             \/ Moves(a) /\ SkipsAhead(a) /\ i \in pc[a] .. pc[a] + 5
<1>1. ASSUME NEW b \in active, HandlerStep(b) \/ CallFails(b)
      PROVE /\ active' = active /\ req' = req
            /\ \/ Did(a, i)
               \/ Moves(a) /\ Made(a) /\ i = pc[a]
               \/ Moves(a) /\ SkipsAhead(a) /\ i \in pc[a] .. pc[a] + 5
  <2>1. Moves(b)
    BY <1>1, HandlersMove
  <2>2. UNCHANGED <<active, req>> /\ Turn(b) /\ ScriptOf(a)' = ScriptOf(a)
    BY <2>1 DEF Moves, ScriptOf
  <2>3. CASE a # b
    BY <2>1, <2>2, <2>3 DEF Moves, Did
  <2>4. CASE a = b
    <3>1. pc[a] \in Nat /\ st[a] = "run" /\ i \in Nat
      <4>1. DOMAIN ScriptOf(a) = 1 .. Len(ScriptOf(a)) /\ Len(ScriptOf(a)) \in Nat
        BY <2>2, ScriptsOfActive DEF ScriptFacts
      <4>. QED BY <2>2, <2>4, <4>1 DEF Turn, TypeOK
    <3>2. CASE Reaches(a, pc[a] + 1) /\ Made(a)
      <4>1. i < pc[a] + 1
        <5>1. i \in 1 .. Len(ScriptOf(a)) /\ Len(ScriptOf(a)) \in Nat
          BY <2>2, ScriptsOfActive DEF ScriptFacts
        <5>. QED BY <3>1, <3>2, <5>1 DEF Reaches, Did
      <4>. QED BY <2>1, <2>2, <2>4, <3>1, <3>2, <4>1 DEF Did
    <3>3. CASE Fails(a)
      BY <3>3 DEF Fails, Did
    <3>4. CASE SkipsAhead(a)
      <4>1. i < pc[a] + 6
        <5>1. i \in 1 .. Len(ScriptOf(a)) /\ Len(ScriptOf(a)) \in Nat
          BY <2>2, ScriptsOfActive DEF ScriptFacts
        <5>. QED BY <3>1, <3>4, <5>1 DEF Reaches, Did, SkipsAhead
      <4>. QED BY <2>1, <2>2, <2>4, <3>1, <3>4, <4>1 DEF Did
    <3>. QED BY <2>1, <2>4, <3>2, <3>3, <3>4 DEF Moves
  <2>. QED BY <2>3, <2>4
<1>2. ~BeginCall
  <2>1. ASSUME BeginCall
        PROVE active' = active /\ pc'[a] = 1 /\ st'[a] \in {"run", "off"}
    BY <2>1 DEF BeginCall, CallInv
  <2>2. i \in Nat \ {0}
    <3>1. TypeOK' => ScriptFacts(a, req', ScriptOf(a)')
      <4>1. a \in Addons
        BY AddonSetsAssumption DEF TypeOK
      <4>. QED BY <4>1, EveryScript DEF ScriptOf
    <3>. QED BY <3>1 DEF ScriptFacts
  <2>. QED BY <2>1, <2>2 DEF Did
<1>3. ~Return /\ ~ManagerRestarts
  BY DEF Return, ManagerRestarts, AllOff, Did
<1>4. CASE UNCHANGED <<active, req, st, pc>>
  BY <1>4 DEF Did, ScriptOf
<1>5. active' = active /\ req' = req
      /\ \/ Did(a, i)
         \/ Moves(a) /\ Made(a) /\ i = pc[a]
         \/ Moves(a) /\ SkipsAhead(a) /\ i \in pc[a] .. pc[a] + 5
  BY <1>1, <1>2, <1>3, <1>4
     DEF Next, Calls, Surroundings, ApplyManifests, Deploy, Uninstall, CacheCatchesUp,
         PreflightPasses, StartPod, DisableKubeProxy, SkipPreflight, StartUpgrade, StartDelete,
         environment, handlers, vars
<1>. QED BY <1>5 DEF ScriptOf

\* The add-ons and the releases of a cluster stay the same.
LEMMA AddOnsStay ==
    ASSUME TypeOK, TypeOK', [Next]_vars
    PROVE active' = active /\ DOMAIN hcp' = DOMAIN hcp /\ DOMAIN hcp = ReleasesOf(active)
<1>1. active' = active
  BY DEF Next, Calls, Surroundings, ApplyManifests, HandlerStep, Call, GetObject, UpdateOwner,
         ApplyRelease, RemoveRelease, WaitEnds, WaitTimesOut, LookForKubeProxy, CallFails,
         unchangedOutside, BeginCall, Return, ManagerRestarts, CacheCatchesUp, StartPod,
         Deploy, Uninstall, PreflightPasses, DisableKubeProxy, SkipPreflight, StartUpgrade,
         StartDelete, environment, world, vars
<1>. QED BY <1>1 DEF TypeOK, ReleasesOf

\* An object goes only by a step that deletes it; the preflight pods may stop being ready.
LEMMA Lost ==
    ASSUME TypeOK, CallInv, [Next]_vars, NEW o \in objs, o \notin objs'
    PROVE \/ \E k \in Kinds : o = <<"Ready", k>>
          \/ \E a \in active : Moves(a) /\ Made(a) /\ Current(a).op = "call" /\ o \in Current(a).del
<1>1. ASSUME NEW a \in active, HandlerStep(a) \/ CallFails(a)
      PROVE Moves(a) /\ Made(a) /\ Current(a).op \in {"call", "softUpdate"} /\ o \in Current(a).del
  <2>1. Moves(a)
    BY <1>1, HandlersMove
  <2>2. Made(a)
    BY <2>1 DEF Moves, Fails, SkipsAhead
  <2>. QED BY <2>1, <2>2 DEF Made
<1>2. CASE UNCHANGED objs
  BY <1>2
<1>3. ASSUME NEW r, Deploy(r) \/ Uninstall(r)
      PROVE \E k \in Kinds : o = <<"Ready", k>>
  BY <1>3 DEF Deploy, Uninstall, Kinds
<1>4. ASSUME NEW k, PreflightPasses(k) \/ ApplyManifests
      PROVE FALSE
  BY <1>4 DEF PreflightPasses, ApplyManifests
<1>5. ASSUME NEW a \in active, o \in Current(a).del, Moves(a)
      PROVE Current(a).op = "call"
  BY <1>5, CurrentFacts DEF Moves, Turn, StepFacts
<1>. QED
  BY <1>1, <1>2, <1>3, <1>4, <1>5
     DEF Next, Calls, Surroundings, BeginCall, Return, ManagerRestarts, CacheCatchesUp, StartPod,
         DisableKubeProxy, SkipPreflight, StartUpgrade, StartDelete, world, vars

\* An object comes only by a step that writes it, by the ClusterResourceSet controller, or is a
\* preflight resource that is ready.
LEMMA Gained ==
    ASSUME TypeOK, [Next]_vars, NEW o \in objs', o \notin objs, o # Manifests
    PROVE \/ \E k \in Kinds : o = <<"Ready", k>> /\ passed' = passed \cup {k}
          \/ \E a \in active : Moves(a) /\ Made(a) /\ o \in Current(a).put
                               /\ Current(a).op \in {"call", "softUpdate", "update"}
<1>1. ASSUME NEW a \in active, HandlerStep(a) \/ CallFails(a)
      PROVE Moves(a) /\ Made(a) /\ o \in Current(a).put
            /\ Current(a).op \in {"call", "softUpdate", "update"}
  <2>1. Moves(a)
    BY <1>1, HandlersMove
  <2>2. Made(a)
    BY <2>1 DEF Moves, Fails, SkipsAhead
  <2>. QED BY <2>1, <2>2 DEF Made
<1>2. CASE UNCHANGED objs
  BY <1>2
<1>3. ASSUME NEW r, Deploy(r) \/ Uninstall(r)
      PROVE FALSE
  BY <1>3 DEF Deploy, Uninstall
<1>4. ASSUME NEW k \in Kinds, PreflightPasses(k)
      PROVE o = <<"Ready", k>> /\ passed' = passed \cup {k}
  BY <1>4 DEF PreflightPasses
<1>5. ~ApplyManifests
  BY DEF ApplyManifests
<1>. QED
  BY <1>1, <1>2, <1>3, <1>4, <1>5
     DEF Next, Calls, Surroundings, BeginCall, Return, ManagerRestarts, CacheCatchesUp, StartPod,
         DisableKubeProxy, SkipPreflight, StartUpgrade, StartDelete, world, vars

\* A HelmChartProxy changes by the apply or the delete of a handler and by CAAPH.
Applies(a, r) ==
    /\ Moves(a) /\ Made(a) /\ Current(a).op = "apply" /\ Current(a).on = r
    /\ hcp'[r].want = SpecFor(r) /\ hcp'[r].have = hcp[r].have
    /\ hcp'[r].deleting = hcp[r].deleting
\* A handler deletes a HelmChartProxy, which is kept until the release is uninstalled.
Removes(a, r) ==
    /\ Moves(a) /\ Made(a) /\ Current(a).op = "remove" /\ Current(a).on = r
    /\ hcp'[r].want = hcp[r].want /\ hcp'[r].have = hcp[r].have
    /\ hcp'[r].deleting <=> hcp[r].want # NoSpec
\* CAAPH uninstalls or installs the release.
Uninstalled(r) == hcp[r].deleting /\ hcp'[r] = NoProxy
Installed(r) ==
    /\ hcp'[r].want = hcp[r].want /\ hcp'[r].have = hcp[r].want
    /\ hcp'[r].deleting = hcp[r].deleting

\* A HelmChartProxy changes in one of these ways.
LEMMA ProxyNext ==
    ASSUME TypeOK, [Next]_vars, NEW r \in DOMAIN hcp, hcp'[r] # hcp[r]
    PROVE \/ \E a \in active : Applies(a, r) \/ Removes(a, r)
          \/ Uninstalled(r)
          \/ Installed(r)
<1>1. ASSUME NEW a \in active, HandlerStep(a) \/ CallFails(a)
      PROVE Applies(a, r) \/ Removes(a, r)
  <2>1. Moves(a)
    BY <1>1, HandlersMove
  <2>2. Made(a)
    BY <2>1 DEF Moves, Fails, SkipsAhead
  <2>3. CASE /\ Current(a).op = "apply"
             /\ hcp' = [hcp EXCEPT ![Current(a).on].want = SpecFor(Current(a).on)]
    <3>1. Current(a).on = r
      BY <2>3 DEF TypeOK
    <3>. QED BY <2>1, <2>2, <2>3, <3>1 DEF Applies, TypeOK
  <2>4. CASE /\ Current(a).op = "remove"
             /\ hcp' = [hcp EXCEPT ![Current(a).on].deleting = hcp[Current(a).on].want # NoSpec]
    <3>1. Current(a).on = r
      BY <2>4 DEF TypeOK
    <3>2. /\ hcp'[r].want = hcp[r].want /\ hcp'[r].have = hcp[r].have
          /\ hcp'[r].deleting = (hcp[r].want # NoSpec)
      BY <2>4, <3>1 DEF TypeOK
    <3>3. hcp'[r].deleting <=> hcp[r].want # NoSpec
      BY <3>2
    <3>. QED BY <2>1, <2>2, <2>4, <3>1, <3>2, <3>3 DEF Removes
  <2>. QED BY <2>2, <2>3, <2>4 DEF Made
<1>2. CASE UNCHANGED hcp
  BY <1>2
<1>3. ASSUME NEW q \in DOMAIN hcp, Deploy(q)
      PROVE Installed(r)
  BY <1>3 DEF Deploy, Installed, TypeOK
<1>4. ASSUME NEW q \in DOMAIN hcp, Uninstall(q)
      PROVE Uninstalled(r)
  BY <1>4 DEF Uninstall, Uninstalled, TypeOK
<1>. QED
  BY <1>1, <1>2, <1>3, <1>4
     DEF Next, Calls, Surroundings, ApplyManifests, BeginCall, Return, ManagerRestarts,
         CacheCatchesUp, StartPod, PreflightPasses, DisableKubeProxy, SkipPreflight,
         StartUpgrade, StartDelete, world, vars

------------------------------------------------------------------------------
(* Nothing is deployed too early *)

\* What an add-on needs and a step of its handler has written is there.
Prepared ==
    \A a \in active : \A i \in DOMAIN ScriptOf(a) :
        Did(a, i) => ScriptOf(a)[i].put \cap Needs(a) \subseteq objs

\* No step takes away what an add-on needs.
LEMMA NeedsKept ==
    ASSUME TypeOK, CallInv, [Next]_vars, NEW a, NEW o \in Needs(a), o \in objs
    PROVE o \in objs'
<1>1. \A k \in Kinds : o # <<"Ready", k>>
  BY DEF Needs, Kinds
<1>2. ASSUME NEW b \in active, Moves(b), o \in Current(b).del
      PROVE FALSE
  <2>1. \/ o \in KubeProxy
        \/ o = AutoscalerCRSObject
        \/ o[1] = "Privileged"
    BY <1>2, CurrentFacts DEF Moves, Turn, StepFacts
  <2>. QED BY <2>1 DEF Needs, KubeProxy, AutoscalerCRSObject
<1>. QED BY <1>1, <1>2, Lost

\* What a step has written for an add-on stays, and a made step has written it.
LEMMA PreparedNext ==
    ASSUME TypeOK, TypeOK', CallInv, [Next]_vars, Prepared
    PROVE Prepared'
<1>1. SUFFICES ASSUME NEW a \in active', NEW i \in DOMAIN ScriptOf(a)', Did(a, i)',
                      NEW o \in ScriptOf(a)[i].put \cap Needs(a)
               PROVE o \in objs'
  <2>1. \A a \in active' : \A i \in DOMAIN ScriptOf(a)' :
          Did(a, i)' => ScriptOf(a)' = ScriptOf(a)
    BY DidNext
  <2>2. \A a : Needs(a)' = Needs(a)
    BY DEF Needs
  <2>. QED BY <2>1, <2>2 DEF Prepared
<1>2. a \in active /\ i \in DOMAIN ScriptOf(a)
  BY <1>1, DidNext
<1>3. CASE Did(a, i)
  BY <1>2, <1>3, NeedsKept DEF Prepared
<1>4. CASE Moves(a) /\ Made(a) /\ i = pc[a]
  <2>1. ScriptOf(a)[i] = Current(a) /\ st[a] = "run"
    BY <1>4 DEF Current, Moves, Turn
  <2>2. Current(a).op \in {"call", "update"} /\ o \in Current(a).put
    BY <1>2, <2>1, CurrentFacts DEF StepFacts
  <2>. QED BY <1>4, <2>2 DEF Made, Waits
<1>5. CASE Moves(a) /\ SkipsAhead(a)
  <2>1. Current(a).op = "ifInstalled" /\ st[a] = "run"
    BY <1>5 DEF SkipsAhead, Moves, Turn
  <2>2. a \in CiliumCNI
    BY <1>2, <2>1, CurrentFacts DEF StepFacts
  <2>. QED BY <2>2 DEF Needs, CiliumCNI
<1>. QED BY <1>1, <1>3, <1>4, <1>5, DidNext

\* An add-on that is about to be deployed has what it needs.
LEMMA ReadyToDeploy ==
    ASSUME TypeOK, CallInv, Prepared, NEW a \in active, st[a] = "run", Deploys(a, Current(a))
    PROVE Needs(a) \subseteq objs
<1>1. SUFFICES ASSUME NEW o \in Needs(a)
               PROVE o \in objs
  OBVIOUS
<1>2. /\ NeedsFirst(a, ScriptOf(a))
      /\ DOMAIN ScriptOf(a) = 1 .. Len(ScriptOf(a)) /\ Len(ScriptOf(a)) \in Nat
      /\ pc[a] \in DOMAIN ScriptOf(a) /\ pc[a] \in Nat
  BY CurrentFacts DEF ScriptFacts, OrderFacts
<1>3. PICK j \in 1 .. pc[a] - 1 : o \in ScriptOf(a)[j].put
  BY <1>2 DEF NeedsFirst, Current
<1>4. j \in DOMAIN ScriptOf(a) /\ Did(a, j)
  BY <1>2, <1>3 DEF Did
<1>. QED BY <1>3, <1>4 DEF Prepared

\* A release or a ClusterResourceSet appears by its own handler, after what it needs.
LEMMA DeployedNext ==
    ASSUME TypeOK, TypeOK', CallInv, Prepared, [Next]_vars, NothingDeployedTooEarly
    PROVE NothingDeployedTooEarly'
<1>1. active' = active
  BY AddOnsStay
<1>2. SUFFICES ASSUME NEW a \in active, Deployed(a)', NEW o \in Needs(a)
               PROVE o \in objs'
  BY <1>1 DEF NothingDeployedTooEarly
<1>3. CASE Deployed(a)
  BY <1>3, NeedsKept DEF NothingDeployedTooEarly
<1>4. ASSUME st[a] = "run", Deploys(a, Current(a))
      PROVE o \in objs'
  BY <1>4, ReadyToDeploy, NeedsKept
<1>5. CASE a \in HelmAddons /\ ~Deployed(a)
  <2>. DEFINE r == Release(a)
  <2>1. r \in DOMAIN hcp
    BY <1>5 DEF TypeOK, ReleasesOf
  <2>2. hcp[r].want = NoSpec /\ hcp'[r].want # NoSpec
    BY <1>2, <1>5 DEF Deployed
  <2>3. ~Installed(r) /\ ~Uninstalled(r)
    BY <2>2 DEF Installed, Uninstalled, NoProxy
  <2>4. PICK b \in active : Applies(b, r) \/ Removes(b, r)
    BY <2>1, <2>2, <2>3, ProxyNext
  <2>5. Applies(b, r)
    BY <2>2, <2>4 DEF Removes
  <2>6. st[b] = "run" /\ Current(b).op = "apply" /\ Current(b).on = Release(a)
    BY <2>5 DEF Applies, Moves, Turn
  <2>7. b = a
    BY <1>5, <2>6, CurrentFacts, ReleaseNames DEF StepFacts
  <2>. QED BY <1>4, <2>6, <2>7 DEF Deploys
<1>6. CASE a \notin HelmAddons /\ ~Deployed(a)
  <2>1. PICK name \in {"calico", "nfd"} : /\ <<"ClusterResourceSet", name>> \in objs'
                                           /\ <<"ConfigMap", name>> \in Needs(a)
    BY <1>2, <1>6 DEF Deployed
  <2>2. <<"ClusterResourceSet", name>> \notin objs
    BY <1>6, <2>1 DEF Deployed
  <2>3. \A k \in Kinds : <<"ClusterResourceSet", name>> # <<"Ready", k>>
    OBVIOUS
  <2>4. PICK b \in active : Moves(b) /\ <<"ClusterResourceSet", name>> \in Current(b).put
    BY <2>1, <2>2, <2>3, Gained DEF Manifests
  <2>5. st[b] = "run"
    BY <2>4 DEF Moves, Turn
  <2>6. a = b
    <3>1. CASE name = "calico"
      BY <2>1, <2>4, <2>5, <3>1, CurrentFacts DEF StepFacts, Needs
    <3>2. CASE name = "nfd"
      BY <2>1, <2>4, <2>5, <3>2, CurrentFacts DEF StepFacts, Needs
    <3>. QED BY <3>1, <3>2
  <2>. QED BY <1>4, <2>1, <2>4, <2>5, <2>6 DEF Deploys
<1>. QED BY <1>3, <1>5, <1>6

------------------------------------------------------------------------------
(* A success means that every add-on was applied *)

\* Only the preflight release and, at the deletion, the autoscaler are uninstalled.
DeletedOnly ==
    \A r \in DOMAIN hcp : hcp[r].deleting =>
        \/ r = "cilium-preflight"
        \/ r = "cluster-autoscaler" /\ stage \in {"delete", "deleted"}

\* A release whose apply is done asks for what the request asks for.
Applied ==
    \A a \in active : \A i \in DOMAIN ScriptOf(a) :
        Did(a, i) /\ ScriptOf(a)[i].op = "apply" /\ ScriptOf(a)[i].on # "cilium-preflight" =>
            hcp[ScriptOf(a)[i].on].want = SpecFor(ScriptOf(a)[i].on)

\* A cluster that is being deleted stays so.
LEMMA DeletionStays ==
    ASSUME [Next]_vars, stage \in {"delete", "deleted"}
    PROVE stage' \in {"delete", "deleted"}
BY DEF Next, Calls, Surroundings, ApplyManifests, HandlerStep, Call, GetObject, UpdateOwner,
       ApplyRelease, RemoveRelease, WaitEnds, WaitTimesOut, LookForKubeProxy, CallFails,
       unchangedOutside, BeginCall, Return, NextStage, ManagerRestarts, CacheCatchesUp,
       StartPod, Deploy, Uninstall, PreflightPasses, DisableKubeProxy, SkipPreflight,
       StartUpgrade, StartDelete, environment, vars

\* The hook of a call determines where the cluster is in its life.
LEMMA CallStage ==
    ASSUME CallInv, calling
    PROVE /\ req.hook = "AfterControlPlaneInitialized" <=> stage = "initialize"
          /\ req.hook = "BeforeClusterUpgrade" <=> stage = "upgrade"
          /\ req.hook = "BeforeClusterDelete" <=> stage = "delete"
          /\ stage \in {"initialize", "upgrade", "delete"}
BY DEF CallInv, Hook

\* A removal is the Cilium handler's of its preflight release, or part of the deletion.
LEMMA DeletedOnlyNext ==
    ASSUME TypeOK, TypeOK', CallInv, [Next]_vars, DeletedOnly
    PROVE DeletedOnly'
<1>1. SUFFICES ASSUME NEW r \in DOMAIN hcp, hcp'[r].deleting, r # "cilium-preflight"
               PROVE r = "cluster-autoscaler" /\ stage' \in {"delete", "deleted"}
  BY AddOnsStay DEF DeletedOnly
<1>2. CASE hcp[r].deleting
  BY <1>1, <1>2, DeletionStays DEF DeletedOnly
<1>3. CASE ~hcp[r].deleting
  <2>1. ~Installed(r) /\ ~Uninstalled(r) /\ hcp'[r] # hcp[r]
    BY <1>1, <1>3 DEF Installed, Uninstalled
  <2>2. PICK a \in active : Applies(a, r) \/ Removes(a, r)
    BY <2>1, ProxyNext
  <2>3. Removes(a, r)
    BY <1>1, <1>3, <2>2 DEF Applies
  <2>4. calling /\ st[a] = "run" /\ stage' = stage /\ Current(a).op = "remove" /\ Current(a).on = r
    BY <2>3 DEF Removes, Moves, Turn
  <2>5. r = "cluster-autoscaler" /\ req.hook = "BeforeClusterDelete"
    BY <1>1, <2>4, CurrentFacts DEF StepFacts
  <2>. QED BY <2>4, <2>5, CallStage
<1>. QED BY <1>2, <1>3

\* Nobody applies a release with another configuration before the call has ended, and none
\* that is waited for is uninstalled.
LEMMA AppliedNext ==
    ASSUME TypeOK, TypeOK', CallInv, DeletedOnly, [Next]_vars, Applied
    PROVE Applied'
<1>1. SUFFICES ASSUME NEW a \in active', NEW i \in DOMAIN ScriptOf(a)', Did(a, i)',
                      ScriptOf(a)[i].op = "apply", ScriptOf(a)[i].on # "cilium-preflight"
               PROVE hcp'[ScriptOf(a)[i].on].want = SpecFor(ScriptOf(a)[i].on)
  <2>1. \A a \in active' : \A i \in DOMAIN ScriptOf(a)' :
          Did(a, i)' => ScriptOf(a)' = ScriptOf(a) /\ req' = req
    BY DidNext
  <2>2. req' = req => \A r : SpecFor(r)' = SpecFor(r)
    BY DEF SpecFor
  <2>. QED BY <2>1, <2>2 DEF Applied
<1>. DEFINE r == ScriptOf(a)[i].on
<1>2. a \in active /\ i \in DOMAIN ScriptOf(a) /\ ScriptFacts(a, req, ScriptOf(a))
  BY <1>1, DidNext, ScriptsOfActive
<1>3. a \in HelmAddons /\ r = Release(a) /\ (a = "autoscaler" => req.hook # "BeforeClusterDelete")
  BY <1>1, <1>2 DEF ScriptFacts, StepFacts
<1>4. r \in DOMAIN hcp
  BY <1>2, <1>3 DEF TypeOK, ReleasesOf
<1>5. CASE Did(a, i)
  <2>1. hcp[r].want = SpecFor(r)
    BY <1>1, <1>2, <1>5 DEF Applied
  <2>2. ~hcp[r].deleting
    <3>1. calling
      BY <1>2, <1>5 DEF CallInv, Did
    <3>2. r = "cluster-autoscaler" => a = "autoscaler"
      BY <1>3, ReleaseNames DEF HelmAddons, Release
    <3>. QED BY <1>1, <1>3, <1>4, <3>1, <3>2, CallStage DEF DeletedOnly
  <2>3. CASE \E b \in active : Applies(b, r) \/ Removes(b, r)
    BY <2>1, <2>3 DEF Applies, Removes
  <2>4. CASE Installed(r)
    BY <2>1, <2>4 DEF Installed
  <2>. QED BY <1>4, <2>1, <2>2, <2>3, <2>4, ProxyNext DEF Uninstalled
<1>6. CASE Moves(a) /\ Made(a) /\ i = pc[a]
  <2>1. ScriptOf(a)[i] = Current(a)
    BY <1>6 DEF Current
  <2>2. hcp' = [hcp EXCEPT ![r].want = SpecFor(r)]
    BY <1>1, <1>6, <2>1 DEF Made, Waits
  <2>. QED BY <1>4, <2>2 DEF TypeOK
<1>7. CASE Moves(a) /\ SkipsAhead(a) /\ i \in pc[a] .. pc[a] + 5
  <2>1. SkipsMigration(ScriptOf(a)) /\ pc[a] \in DOMAIN ScriptOf(a) /\ pc[a] \in Nat
    BY <1>2, <1>7, CurrentFacts DEF ScriptFacts, OrderFacts, Moves, Turn
  <2>2. ScriptOf(a)[pc[a]].op = "ifInstalled"
    BY <1>7 DEF SkipsAhead, Current
  <2>3. \A j \in pc[a] + 1 .. pc[a] + 5 : ScriptOf(a)[j].op # "apply"
    BY <2>1, <2>2 DEF SkipsMigration
  <2>4. i = pc[a] \/ i \in pc[a] + 1 .. pc[a] + 5
    BY <1>7, <2>1
  <2>. QED BY <1>1, <2>2, <2>3, <2>4
<1>. QED BY <1>1, <1>5, <1>6, <1>7, DidNext

\* While a call is answered, a namespace without its label gets it from a handler that is
\* not done, unless one of those has failed.
Relabeller(b, ns) ==
    /\ ns \in PrivilegedNamespace(b)
    /\ \/ st[b] = "failed"
       \/ st[b] = "run" /\ \E i \in DOMAIN ScriptOf(b) :
                              i >= pc[b] /\ <<"Privileged", ns>> \in ScriptOf(b)[i].put
\* No namespace is without its label at the end of a call that succeeds.
Labelled ==
    calling /\ stage # "delete" =>
        \A a \in active : \A ns \in PrivilegedNamespace(a) :
            <<"Privileged", ns>> \in objs \/ \E b \in active : Relabeller(b, ns)

\* Within a call a handler stays where it is or makes a step.
LEMMA HandlerNext ==
    ASSUME TypeOK, CallInv, [Next]_vars, calling, calling', NEW b \in active
    PROVE /\ UNCHANGED <<active, stage, req>>
          /\ (st'[b] = st[b] /\ pc'[b] = pc[b]) \/ Moves(b)
<1>1. ASSUME NEW a \in active, HandlerStep(a) \/ CallFails(a)
      PROVE /\ UNCHANGED <<active, stage, req>>
            /\ (st'[b] = st[b] /\ pc'[b] = pc[b]) \/ Moves(b)
  <2>1. Moves(a)
    BY <1>1, HandlersMove
  <2>. QED BY <2>1 DEF Moves
<1>2. CASE UNCHANGED <<active, stage, req, st, pc>>
  BY <1>2
<1>. QED
  BY <1>1, <1>2
     DEF Next, Calls, Surroundings, ApplyManifests, BeginCall, Return, ManagerRestarts,
         CacheCatchesUp, StartPod, Deploy, Uninstall, PreflightPasses, DisableKubeProxy,
         SkipPreflight, StartUpgrade, StartDelete, CallInv, Hook, environment, handlers, vars

\* The handler that takes a label away puts it back later.
LEMMA LabelPutBack ==
    ASSUME TypeOK, CallInv, [Next]_vars,
           NEW ns \in {"ntnx-system", "node-feature-discovery", "metallb-system"},
           <<"Privileged", ns>> \in objs, <<"Privileged", ns>> \notin objs'
    PROVE \E b \in active : Relabeller(b, ns)'
<1>1. PICK b \in active : Moves(b) /\ Made(b) /\ Current(b).op = "call"
                         /\ <<"Privileged", ns>> \in Current(b).del
  <2>1. \A k \in Kinds : <<"Privileged", ns>> # <<"Ready", k>>
    OBVIOUS
  <2>. QED BY <2>1, Lost
<1>2. st[b] = "run" /\ UNCHANGED <<active, req>> /\ Reaches(b, pc[b] + 1)
  BY <1>1 DEF Moves, Turn, Fails, SkipsAhead
<1>3. /\ pc[b] \in Nat /\ pc[b] \in DOMAIN ScriptOf(b)
      /\ Relabels(b, ScriptOf(b))
      /\ DOMAIN ScriptOf(b) = 1 .. Len(ScriptOf(b)) /\ Len(ScriptOf(b)) \in Nat
  BY <1>2, CurrentFacts DEF ScriptFacts, OrderFacts
<1>4. ns \in PrivilegedNamespace(b)
      /\ \E j \in DOMAIN ScriptOf(b) : j > pc[b] /\ <<"Privileged", ns>> \in ScriptOf(b)[j].put
  BY <1>1, <1>3 DEF Relabels, Current
<1>5. PICK j \in DOMAIN ScriptOf(b) : j > pc[b] /\ <<"Privileged", ns>> \in ScriptOf(b)[j].put
  BY <1>4
<1>6. st'[b] = "run" /\ j >= pc'[b]
  BY <1>2, <1>3, <1>5 DEF Reaches
<1>7. ScriptOf(b)' = ScriptOf(b) /\ PrivilegedNamespace(b)' = PrivilegedNamespace(b)
  BY <1>2 DEF ScriptOf, PrivilegedNamespace
<1>. QED BY <1>2, <1>4, <1>5, <1>6, <1>7 DEF Relabeller

\* A handler that is to set a label stays so until it has set it or fails.
LEMMA RelabellerNext ==
    ASSUME TypeOK, CallInv, [Next]_vars, calling, calling', NEW b \in active, NEW ns,
           Relabeller(b, ns)
    PROVE <<"Privileged", ns>> \in objs' \/ Relabeller(b, ns)'
<1>1. ScriptOf(b)' = ScriptOf(b) /\ PrivilegedNamespace(b)' = PrivilegedNamespace(b)
  BY HandlerNext DEF ScriptOf, PrivilegedNamespace
<1>2. CASE st'[b] = st[b] /\ pc'[b] = pc[b]
  BY <1>1, <1>2 DEF Relabeller
<1>3. CASE Moves(b)
  <2>1. st[b] = "run"
    BY <1>3 DEF Moves, Turn
  <2>2. PICK i \in DOMAIN ScriptOf(b) : i >= pc[b] /\ <<"Privileged", ns>> \in ScriptOf(b)[i].put
    BY <2>1 DEF Relabeller
  <2>3. /\ pc[b] \in Nat /\ StepFacts(b, req, Current(b))
        /\ DOMAIN ScriptOf(b) = 1 .. Len(ScriptOf(b)) /\ Len(ScriptOf(b)) \in Nat
    BY <2>1, CurrentFacts DEF ScriptFacts
  <2>4. ns \in PrivilegedNamespace(b)
    BY DEF Relabeller
  <2>5. CASE Reaches(b, pc[b] + 1) /\ Made(b)
    <3>1. CASE i = pc[b]
      <4>1. Current(b).op = "call" /\ <<"Privileged", ns>> \in Current(b).put
        BY <2>2, <2>3, <2>4, <3>1 DEF StepFacts, Current
      <4>. QED BY <2>5, <4>1 DEF Made, Waits
    <3>2. CASE i > pc[b]
      <4>1. st'[b] = "run" /\ i >= pc'[b]
        BY <2>3, <2>5, <3>2 DEF Reaches
      <4>. QED BY <1>1, <2>2, <2>4, <4>1 DEF Relabeller
    <3>. QED BY <2>2, <2>3, <3>1, <3>2
  <2>6. CASE Fails(b)
    BY <1>1, <2>4, <2>6 DEF Fails, Relabeller
  <2>7. CASE SkipsAhead(b)
    <3>1. b \in CiliumCNI
      BY <2>3, <2>7 DEF SkipsAhead, StepFacts
    <3>. QED BY <2>4, <3>1 DEF PrivilegedNamespace, CiliumCNI
  <2>. QED BY <1>3, <2>5, <2>6, <2>7 DEF Moves
<1>. QED BY <1>2, <1>3, HandlerNext

\* The two handlers that write one namespace, in whatever order their calls interleave.
LEMMA LabelledNext ==
    ASSUME TypeOK, TypeOK', CallInv, [Next]_vars, Labelled
    PROVE Labelled'
<1>1. SUFFICES ASSUME calling', stage' # "delete", NEW a \in active,
                      NEW ns \in PrivilegedNamespace(a)
               PROVE <<"Privileged", ns>> \in objs' \/ \E b \in active : Relabeller(b, ns)'
  <2>1. \A a : PrivilegedNamespace(a)' = PrivilegedNamespace(a)
    BY DEF PrivilegedNamespace
  <2>. QED BY <2>1, AddOnsStay DEF Labelled
<1>2. ns \in {"ntnx-system", "node-feature-discovery", "metallb-system"}
  BY DEF PrivilegedNamespace
<1>3. CASE calling
  <2>1. stage' = stage /\ active' = active
    BY <1>1, <1>3, HandlerNext
  <2>2. CASE <<"Privileged", ns>> \in objs
    BY <1>2, <2>1, <2>2, LabelPutBack
  <2>3. CASE <<"Privileged", ns>> \notin objs
    <3>1. PICK b \in active : Relabeller(b, ns)
      BY <1>1, <1>3, <2>1, <2>3 DEF Labelled
    <3>. QED BY <1>1, <1>3, <3>1, RelabellerNext
  <2>. QED BY <2>2, <2>3
<1>4. CASE ~calling
  <2>1. BeginCall
    <3>1. ASSUME NEW b \in active, HandlerStep(b) \/ CallFails(b)
          PROVE FALSE
      BY <1>4, <3>1, HandlersMove DEF Moves, Turn
    <3>. QED BY <1>1, <1>4, <3>1
       DEF Next, Calls, Surroundings, ApplyManifests, Return, ManagerRestarts, CacheCatchesUp,
           StartPod, Deploy, Uninstall, PreflightPasses, DisableKubeProxy, SkipPreflight,
           StartUpgrade, StartDelete, environment, vars
  <2>2. st'[a] = "run" /\ pc'[a] = 1
    BY <1>1, <1>4, <2>1 DEF BeginCall, CallInv, Called, Hook
  <2>3. ScriptFacts(a, req', ScriptOf(a)')
    <3>1. a \in Addons
      BY AddonSetsAssumption DEF TypeOK
    <3>. QED BY <3>1, EveryScript DEF ScriptOf
  <2>4. PICK i \in DOMAIN ScriptOf(a)' : <<"Privileged", ns>> \in ScriptOf(a)'[i].put
    BY <2>3 DEF ScriptFacts, ExistenceFacts
  <2>5. i >= 1
    BY <2>3 DEF ScriptFacts
  <2>6. PrivilegedNamespace(a)' = PrivilegedNamespace(a)
    BY DEF PrivilegedNamespace
  <2>. QED BY <2>2, <2>4, <2>5, <2>6 DEF Relabeller
<1>. QED BY <1>3, <1>4

\* Between two calls no handler moves, and only a call in which every handler returns
\* without an error lets the cluster go on.
LEMMA StageNext ==
    ASSUME TypeOK, CallInv, [Next]_vars, stage' \in {"running", "upgraded", "deleted"}
    PROVE /\ req' = req
          /\ \/ /\ calling /\ UNCHANGED <<objs, hcp>>
                /\ stage \in {"initialize", "upgrade", "delete"}
                /\ stage' = "running" => stage = "initialize"
                /\ stage' = "upgraded" => stage = "upgrade"
                /\ stage' = "deleted" => stage = "delete"
                /\ \A a \in Called(Hook) : st[a] = "ok"
             \/ /\ ~calling /\ stage' = stage
                /\ \A a \in active : ~Moves(a)
<1>1. CASE Return
  <2>1. calling /\ stage \in {"initialize", "upgrade", "delete"} /\ stage' = NextStage
        /\ UNCHANGED <<objs, hcp, req>> /\ Answer = "Success"
        /\ \A a \in active : st[a] # "run"
    BY <1>1, CallStage DEF Return, world
  <2>2. \A a \in active : st[a] # "failed"
    BY <2>1 DEF Answer
  <2>3. \A a \in Called(Hook) : a \in active /\ st[a] # "off"
    BY <2>1 DEF CallInv, Called
  <2>4. \A a \in Called(Hook) : st[a] = "ok"
    BY <2>1, <2>2, <2>3 DEF TypeOK
  <2>. QED BY <2>1, <2>4 DEF NextStage
<1>2. CASE ~Return
  <2>1. stage' = stage
    BY <1>2 DEF Next, Calls, Surroundings, ApplyManifests, HandlerStep, Call, GetObject,
           UpdateOwner, ApplyRelease, RemoveRelease, WaitEnds, WaitTimesOut, LookForKubeProxy,
           CallFails, unchangedOutside, BeginCall, ManagerRestarts, CacheCatchesUp, StartPod,
           Deploy, Uninstall, PreflightPasses, DisableKubeProxy, SkipPreflight, StartUpgrade,
           StartDelete, environment, vars
  <2>2. ~calling
    BY <2>1, CallStage
  <2>3. \A a \in active : ~Moves(a)
    BY <2>2 DEF Moves, Turn
  <2>4. req' = req
    <3>1. ~BeginCall
      BY <2>1 DEF BeginCall, Hook
    <3>. QED BY <1>2, <3>1 DEF Next, Calls, Surroundings, ApplyManifests, HandlerStep, Call,
           GetObject, UpdateOwner, ApplyRelease, RemoveRelease, WaitEnds, WaitTimesOut,
           LookForKubeProxy, CallFails, unchangedOutside, ManagerRestarts, CacheCatchesUp,
           StartPod, Deploy, Uninstall, PreflightPasses, DisableKubeProxy, SkipPreflight,
           StartUpgrade, StartDelete, environment, vars
  <2>. QED BY <2>1, <2>2, <2>3, <2>4
<1>. QED BY <1>1, <1>2

\* The last call left everything applied, and no handler runs until the next upgrade.
LEMMA SuccessNext ==
    ASSUME TypeOK, TypeOK', CallInv, DeletedOnly, Applied, Labelled, [Next]_vars,
           SuccessMeansApplied
    PROVE SuccessMeansApplied'
<1>1. SUFFICES ASSUME stage' \in {"running", "upgraded"}, NEW a \in active
               PROVE /\ a \in HelmAddons => hcp'[Release(a)].want = SpecFor(Release(a))
                     /\ \A ns \in PrivilegedNamespace(a) : <<"Privileged", ns>> \in objs'
  <2>1. stage' \in {"running", "upgraded"} => \A r : SpecFor(r)' = SpecFor(r)
    BY StageNext DEF SpecFor
  <2>2. \A a : PrivilegedNamespace(a)' = PrivilegedNamespace(a) /\ Release(a)' = Release(a)
    BY DEF PrivilegedNamespace, Release
  <2>. QED BY <1>1, <2>1, <2>2, AddOnsStay DEF SuccessMeansApplied
<1>2. a \in HelmAddons => Release(a) \in DOMAIN hcp /\ Release(a) # "cilium-preflight"
  BY ReleaseNames DEF TypeOK, ReleasesOf
<1>3. CASE calling
  <2>1. /\ UNCHANGED <<objs, hcp>> /\ stage \in {"initialize", "upgrade"}
        /\ \A b \in active : st[b] = "ok"
    BY <1>1, <1>3, StageNext DEF Called, Hook
  <2>2. ScriptFacts(a, req, ScriptOf(a))
    BY ScriptsOfActive
  <2>3. ASSUME a \in HelmAddons
        PROVE hcp[Release(a)].want = SpecFor(Release(a))
    <3>1. req.hook # "BeforeClusterDelete"
      BY <1>3, <2>1, CallStage
    <3>2. PICK i \in DOMAIN ScriptOf(a) : ScriptOf(a)[i].op = "apply"
                                         /\ ScriptOf(a)[i].on = Release(a)
      BY <2>2, <2>3, <3>1 DEF ScriptFacts, ExistenceFacts
    <3>3. Did(a, i)
      BY <2>1 DEF Did
    <3>. QED BY <1>2, <2>3, <3>2, <3>3 DEF Applied
  <2>4. ASSUME NEW ns \in PrivilegedNamespace(a)
        PROVE <<"Privileged", ns>> \in objs
    BY <1>3, <2>1 DEF Labelled, Relabeller
  <2>. QED BY <2>1, <2>3, <2>4
<1>4. CASE ~calling
  <2>1. stage' = stage /\ \A b \in active : ~Moves(b)
    BY <1>1, <1>4, StageNext
  <2>2. ASSUME a \in HelmAddons
        PROVE hcp'[Release(a)].want = SpecFor(Release(a))
    <3>1. hcp[Release(a)].want = SpecFor(Release(a))
      BY <1>1, <2>1, <2>2 DEF SuccessMeansApplied
    <3>2. ~Uninstalled(Release(a))
      BY <1>1, <1>2, <2>1, <2>2 DEF Uninstalled, DeletedOnly
    <3>3. \A b \in active : ~Applies(b, Release(a)) /\ ~Removes(b, Release(a))
      BY <2>1 DEF Applies, Removes
    <3>. QED BY <1>2, <2>2, <3>1, <3>2, <3>3, ProxyNext DEF Installed
  <2>3. ASSUME NEW ns \in PrivilegedNamespace(a)
        PROVE <<"Privileged", ns>> \in objs'
    <3>1. <<"Privileged", ns>> \in objs
      BY <1>1, <2>1 DEF SuccessMeansApplied
    <3>2. \A k \in Kinds : <<"Privileged", ns>> # <<"Ready", k>>
      OBVIOUS
    <3>. QED BY <2>1, <3>1, <3>2, Lost
  <2>. QED BY <2>2, <2>3
<1>. QED BY <1>3, <1>4

------------------------------------------------------------------------------
(* Nothing is left behind *)

\* A release whose removal is done is gone or being deleted, and so is the autoscaler's
\* ClusterResourceSet, which only the autoscaler's handler writes.
Removed ==
    /\ \A a \in active : \A i \in DOMAIN ScriptOf(a) :
          Did(a, i) =>
             /\ ScriptOf(a)[i].op = "remove" => Gone(ScriptOf(a)[i].on)
             /\ AutoscalerCRSObject \in ScriptOf(a)[i].del => AutoscalerCRSObject \notin objs
    /\ AutoscalerCRSObject \in objs => "autoscaler-crs" \in active

\* Only the handler that applies a release or removes it brings it back.
LEMMA GoneNext ==
    ASSUME TypeOK, TypeOK', [Next]_vars, NEW r, Gone(r), \A a \in active : ~Applies(a, r)
    PROVE Gone(r)'
<1>1. r \in DOMAIN hcp <=> r \in DOMAIN hcp'
  BY AddOnsStay
<1>2. CASE r \notin DOMAIN hcp
  BY <1>1, <1>2 DEF Gone, Proxy
<1>3. CASE r \in DOMAIN hcp
  <2>1. hcp[r].want = NoSpec \/ hcp[r].deleting
    BY <1>3 DEF Gone, Proxy
  <2>2. hcp'[r].want = NoSpec \/ hcp'[r].deleting
    BY <1>3, <2>1, ProxyNext DEF Removes, Uninstalled, Installed, NoProxy
  <2>. QED BY <1>1, <1>3, <2>2 DEF Gone, Proxy
<1>. QED BY <1>2, <1>3

\* What was removed is not applied again in the same call.
LEMMA RemovedNext ==
    ASSUME TypeOK, TypeOK', CallInv, [Next]_vars, Removed
    PROVE Removed'
<1>1. ASSUME NEW a \in active', NEW i \in DOMAIN ScriptOf(a)', Did(a, i)',
             ScriptOf(a)[i].op = "remove", NEW r, r = ScriptOf(a)[i].on
      PROVE Gone(r)'
  <2>1. a \in active /\ i \in DOMAIN ScriptOf(a) /\ ScriptFacts(a, req, ScriptOf(a))
        /\ ScriptOf(a)' = ScriptOf(a)
    BY <1>1, DidNext, ScriptsOfActive
  <2>2. \/ a = "cilium" /\ r = "cilium-preflight"
        \/ a = "autoscaler" /\ r = "cluster-autoscaler" /\ req.hook = "BeforeClusterDelete"
    BY <1>1, <2>1 DEF ScriptFacts, StepFacts
  <2>3. i = Len(ScriptOf(a)) /\ i \in Nat
    BY <1>1, <2>1 DEF ScriptFacts, OrderFacts, RemovesLast
  <2>4. CASE Did(a, i)
    <3>1. Gone(r)
      BY <1>1, <2>1, <2>4 DEF Removed
    <3>2. ASSUME NEW b \in active, Applies(b, r)
          PROVE FALSE
      <4>1. st[b] = "run" /\ Current(b).op = "apply" /\ Current(b).on = r
        BY <3>2 DEF Applies, Moves, Turn
      <4>2. b = a /\ a = "cilium"
        BY <2>2, <4>1, CurrentFacts, ReleaseNames DEF StepFacts, HelmAddons, Release
      <4>3. pc[a] \in 1 .. Len(ScriptOf(a)) /\ Len(ScriptOf(a)) \in Nat
        BY <4>1, <4>2, CurrentFacts DEF ScriptFacts
      <4>4. st[a] = "run" /\ i < pc[a]
        BY <2>4, <4>1, <4>2 DEF Did
      <4>. QED BY <2>3, <4>3, <4>4
    <3>. QED BY <3>1, <3>2, GoneNext
  <2>5. CASE Moves(a) /\ Made(a) /\ i = pc[a]
    <3>1. Current(a).op = "remove" /\ r = Current(a).on
      BY <1>1, <2>5 DEF Current
    <3>2. hcp' = [hcp EXCEPT ![r].deleting = hcp[r].want # NoSpec]
      BY <2>5, <3>1 DEF Made, Waits
    <3>3. CASE r \in DOMAIN hcp
      <4>1. hcp'[r].want = hcp[r].want /\ hcp'[r].deleting = (hcp[r].want # NoSpec)
        <5>1. hcp \in [ReleasesOf(active) -> Proxies]
          BY DEF TypeOK, Proxies
        <5>2. hcp[r] \in Proxies
          BY <3>3, <5>1
        <5>3. hcp'[r] = [hcp[r] EXCEPT !.deleting = hcp[r].want # NoSpec]
          BY <3>2, <3>3, <5>1
        <5>. QED BY <5>2, <5>3 DEF Proxies
      <4>2. hcp'[r].deleting <=> hcp[r].want # NoSpec
        BY <4>1
      <4>. QED BY <3>3, <4>1, <4>2, AddOnsStay DEF Gone, Proxy
    <3>4. CASE r \notin DOMAIN hcp
      BY <3>4, AddOnsStay DEF Gone, Proxy, NoProxy
    <3>. QED BY <3>3, <3>4
  <2>6. CASE Moves(a) /\ SkipsAhead(a) /\ i \in pc[a] .. pc[a] + 5
    <3>1. SkipsMigration(ScriptOf(a)) /\ pc[a] \in DOMAIN ScriptOf(a) /\ pc[a] \in Nat
      BY <2>1, <2>6, CurrentFacts DEF ScriptFacts, OrderFacts, Moves, Turn
    <3>2. ScriptOf(a)[pc[a]].op = "ifInstalled"
      BY <2>6 DEF SkipsAhead, Current
    <3>3. \A j \in pc[a] + 1 .. pc[a] + 5 : ScriptOf(a)[j].op # "remove"
      BY <3>1, <3>2 DEF SkipsMigration
    <3>4. i = pc[a] \/ i \in pc[a] + 1 .. pc[a] + 5
      BY <2>6, <3>1
    <3>. QED BY <1>1, <3>2, <3>3, <3>4
  <2>. QED BY <1>1, <2>4, <2>5, <2>6, DidNext
<1>2. ASSUME AutoscalerCRSObject \notin objs, AutoscalerCRSObject \in objs'
      PROVE \E b \in active : /\ b = "autoscaler-crs" /\ req.hook # "BeforeClusterDelete"
                              /\ Moves(b) /\ Made(b) /\ AutoscalerCRSObject \in Current(b).put
  <2>1. \A k \in Kinds : AutoscalerCRSObject # <<"Ready", k>>
    BY DEF AutoscalerCRSObject
  <2>2. PICK b \in active : Moves(b) /\ Made(b) /\ AutoscalerCRSObject \in Current(b).put
    BY <1>2, <2>1, Gained DEF Manifests, AutoscalerCRSObject
  <2>. QED BY <2>2, CurrentFacts DEF StepFacts, Moves, Turn
<1>3. ASSUME NEW a \in active', NEW i \in DOMAIN ScriptOf(a)', Did(a, i)',
             AutoscalerCRSObject \in ScriptOf(a)[i].del
      PROVE AutoscalerCRSObject \notin objs'
  <2>1. a \in active /\ i \in DOMAIN ScriptOf(a) /\ ScriptFacts(a, req, ScriptOf(a))
    BY <1>3, DidNext, ScriptsOfActive
  <2>2. req.hook = "BeforeClusterDelete" /\ ScriptOf(a)[i].op = "call"
        /\ AutoscalerCRSObject \notin ScriptOf(a)[i].put
    <3>1. StepFacts(a, req, ScriptOf(a)[i])
      BY <2>1 DEF ScriptFacts
    <3>. QED BY <1>3, <3>1 DEF StepFacts, AutoscalerCRSObject, KubeProxy
  <2>3. CASE Did(a, i)
    BY <1>2, <1>3, <2>1, <2>2, <2>3 DEF Removed
  <2>4. CASE Moves(a) /\ Made(a) /\ i = pc[a]
    <3>1. Current(a) = ScriptOf(a)[i]
      BY <2>4 DEF Current
    <3>. QED BY <1>3, <2>2, <2>4, <3>1 DEF Made, Waits
  <2>5. CASE Moves(a) /\ SkipsAhead(a)
    <3>1. a \in CiliumCNI
      BY <2>1, <2>5, CurrentFacts DEF StepFacts, SkipsAhead, Moves, Turn
    <3>2. StepFacts(a, req, ScriptOf(a)[i])
      BY <2>1 DEF ScriptFacts
    <3>. QED BY <1>3, <3>1, <3>2 DEF StepFacts, AutoscalerCRSObject, KubeProxy, CiliumCNI
  <2>. QED BY <1>3, <2>3, <2>4, <2>5, DidNext
<1>4. AutoscalerCRSObject \in objs' => "autoscaler-crs" \in active'
  BY <1>2, AddOnsStay DEF Removed
<1>. QED
  <2>1. \A a \in active' : \A i \in DOMAIN ScriptOf(a)' :
          Did(a, i)' => ScriptOf(a)' = ScriptOf(a)
    BY DidNext
  <2>. QED BY <1>1, <1>3, <1>4, <2>1 DEF Removed

\* A hook succeeds after the removal that ends its script, or when there was nothing.
LEMMA LeftBehindNext ==
    ASSUME TypeOK, TypeOK', CallInv, Removed, [Next]_vars, NothingLeftBehind
    PROVE NothingLeftBehind'
<1>1. ASSUME stage' = "upgraded", RunsPreflight(req)
      PROVE Gone("cilium-preflight")'
  <2>1. CASE calling
    <3>1. UNCHANGED <<objs, hcp>> /\ stage = "upgrade" /\ \A a \in active : st[a] = "ok"
      BY <1>1, <2>1, StageNext DEF Called, Hook
    <3>2. Gone("cilium-preflight")
      <4>1. CASE "cilium" \in active
        <5>1. ScriptFacts("cilium", req, ScriptOf("cilium"))
          BY <4>1, ScriptsOfActive
        <5>2. PICK i \in DOMAIN ScriptOf("cilium") :
                 /\ ScriptOf("cilium")[i].op = "remove"
                 /\ ScriptOf("cilium")[i].on = "cilium-preflight"
          BY <1>1, <5>1 DEF ScriptFacts, ExistenceFacts
        <5>3. Did("cilium", i)
          BY <3>1, <4>1 DEF Did
        <5>. QED BY <4>1, <5>2, <5>3 DEF Removed
      <4>2. CASE "cilium" \notin active
        <5>1. "cilium-preflight" \notin DOMAIN hcp
          BY <4>2, ReleaseNames DEF TypeOK, ReleasesOf
        <5>. QED BY <5>1 DEF Gone, Proxy, NoProxy
      <4>. QED BY <4>1, <4>2
    <3>. QED BY <3>1, <3>2 DEF Gone, Proxy
  <2>2. CASE ~calling
    <3>1. stage = "upgraded" /\ \A a \in active : ~Moves(a)
      BY <1>1, <2>2, StageNext
    <3>2. Gone("cilium-preflight")
      BY <1>1, <3>1 DEF NothingLeftBehind
    <3>. QED BY <3>1, <3>2, GoneNext DEF Applies
  <2>. QED BY <2>1, <2>2
<1>2. ASSUME stage' = "deleted"
      PROVE Gone("cluster-autoscaler")' /\ AutoscalerCRSObject \notin objs'
  <2>1. CASE calling
    <3>1. UNCHANGED <<objs, hcp>> /\ stage = "delete" /\ req.hook = "BeforeClusterDelete"
          /\ \A a \in active \cap Autoscalers : st[a] = "ok"
      BY <1>2, <2>1, StageNext, CallStage DEF Called, Hook
    <3>2. Gone("cluster-autoscaler")
      <4>1. CASE "autoscaler" \in active
        <5>1. ScriptFacts("autoscaler", req, ScriptOf("autoscaler"))
          BY <4>1, ScriptsOfActive
        <5>2. PICK i \in DOMAIN ScriptOf("autoscaler") :
                 /\ ScriptOf("autoscaler")[i].op = "remove"
                 /\ ScriptOf("autoscaler")[i].on = "cluster-autoscaler"
          BY <3>1, <5>1 DEF ScriptFacts, ExistenceFacts
        <5>3. Did("autoscaler", i)
          BY <3>1, <4>1 DEF Did, Autoscalers
        <5>. QED BY <4>1, <5>2, <5>3 DEF Removed
      <4>2. CASE "autoscaler" \notin active
        <5>1. "cluster-autoscaler" \notin DOMAIN hcp
          <6>1. \A a \in HelmAddons : Release(a) = "cluster-autoscaler" => a = "autoscaler"
            BY ReleaseNames DEF HelmAddons, Release
          <6>. QED BY <4>2, <6>1 DEF TypeOK, ReleasesOf
        <5>. QED BY <5>1 DEF Gone, Proxy, NoProxy
      <4>. QED BY <4>1, <4>2
    <3>3. AutoscalerCRSObject \notin objs
      <4>1. CASE "autoscaler-crs" \in active
        <5>1. ScriptFacts("autoscaler-crs", req, ScriptOf("autoscaler-crs"))
          BY <4>1, ScriptsOfActive
        <5>2. PICK i \in DOMAIN ScriptOf("autoscaler-crs") :
                 AutoscalerCRSObject \in ScriptOf("autoscaler-crs")[i].del
          BY <3>1, <5>1 DEF ScriptFacts, ExistenceFacts
        <5>3. Did("autoscaler-crs", i)
          BY <3>1, <4>1 DEF Did, Autoscalers
        <5>. QED BY <4>1, <5>2, <5>3 DEF Removed
      <4>. QED BY <4>1 DEF Removed
    <3>. QED BY <3>1, <3>2, <3>3 DEF Gone, Proxy
  <2>2. CASE ~calling
    <3>1. stage = "deleted" /\ \A a \in active : ~Moves(a)
      BY <1>2, <2>2, StageNext
    <3>2. Gone("cluster-autoscaler") /\ AutoscalerCRSObject \notin objs
      BY <3>1 DEF NothingLeftBehind, AutoscalerCRSObject
    <3>3. AutoscalerCRSObject \notin objs'
      <4>1. \A k \in Kinds : AutoscalerCRSObject # <<"Ready", k>>
        BY DEF AutoscalerCRSObject
      <4>. QED BY <3>1, <3>2, <4>1, Gained DEF Manifests, AutoscalerCRSObject
    <3>. QED BY <3>1, <3>2, <3>3, GoneNext DEF Applies
  <2>. QED BY <2>1, <2>2
<1>3. stage' \in {"upgraded", "deleted"} => req' = req
  BY StageNext
<1>. QED BY <1>1, <1>2, <1>3 DEF NothingLeftBehind, AutoscalerCRSObject

------------------------------------------------------------------------------
(* An upgrade waits for its preflight release *)

\* A preflight resource that is ready has been so, and a wait for it that is done has seen
\* it.
PreflightAwaited ==
    /\ \A k \in Kinds : <<"Ready", k>> \in objs => k \in passed
    /\ \A a \in active : \A i \in DOMAIN ScriptOf(a) : \A k \in Kinds :
          Did(a, i) /\ ScriptOf(a)[i].op = "await" /\ <<"Ready", k>> \in ScriptOf(a)[i].put =>
              k \in passed

\* What has been ready during the upgrade remains noted.
LEMMA PassedStays ==
    ASSUME [Next]_vars
    PROVE passed \subseteq passed'
BY DEF Next, Calls, Surroundings, ApplyManifests, HandlerStep, Call, GetObject, UpdateOwner,
       ApplyRelease, RemoveRelease, WaitEnds, WaitTimesOut, LookForKubeProxy, CallFails,
       BeginCall, Return, ManagerRestarts, CacheCatchesUp, StartPod, Deploy, Uninstall,
       PreflightPasses, DisableKubeProxy, SkipPreflight, StartUpgrade, StartDelete, vars

\* No handler makes a preflight resource ready, and the waits are not skipped.
LEMMA PreflightAwaitedNext ==
    ASSUME TypeOK, TypeOK', CallInv, [Next]_vars, PreflightAwaited
    PROVE PreflightAwaited'
<1>1. ASSUME NEW k \in Kinds, <<"Ready", k>> \in objs'
      PROVE k \in passed'
  <2>1. CASE <<"Ready", k>> \in objs
    BY <2>1, PassedStays DEF PreflightAwaited
  <2>2. CASE <<"Ready", k>> \notin objs
    <3>1. ASSUME NEW a \in active, Moves(a), Made(a), <<"Ready", k>> \in Current(a).put,
                 Current(a).op \in {"call", "softUpdate", "update"}
          PROVE FALSE
      BY <3>1, CurrentFacts DEF StepFacts, Moves, Turn
    <3>2. PICK l \in Kinds : <<"Ready", k>> = <<"Ready", l>> /\ passed' = passed \cup {l}
      BY <1>1, <2>2, <3>1, Gained DEF Manifests
    <3>. QED BY <3>2
  <2>. QED BY <2>1, <2>2
<1>2. ASSUME NEW a \in active', NEW i \in DOMAIN ScriptOf(a)', NEW k \in Kinds, Did(a, i)',
             ScriptOf(a)[i].op = "await", <<"Ready", k>> \in ScriptOf(a)[i].put
      PROVE k \in passed'
  <2>1. a \in active /\ i \in DOMAIN ScriptOf(a) /\ ScriptFacts(a, req, ScriptOf(a))
    BY <1>2, DidNext, ScriptsOfActive
  <2>2. CASE Did(a, i)
    BY <1>2, <2>1, <2>2, PassedStays DEF PreflightAwaited
  <2>3. CASE Moves(a) /\ Made(a) /\ i = pc[a]
    <3>1. Current(a) = ScriptOf(a)[i]
      BY <2>3 DEF Current
    <3>2. Holds(Current(a))
      BY <1>2, <2>3, <3>1 DEF Made
    <3>3. <<"Ready", k>> \in objs
      BY <1>2, <3>1, <3>2 DEF Holds
    <3>. QED BY <3>3, PassedStays DEF PreflightAwaited
  <2>4. CASE Moves(a) /\ SkipsAhead(a) /\ i \in pc[a] .. pc[a] + 5
    <3>1. SkipsMigration(ScriptOf(a)) /\ pc[a] \in DOMAIN ScriptOf(a) /\ pc[a] \in Nat
      BY <2>1, <2>4, CurrentFacts DEF ScriptFacts, OrderFacts, Moves, Turn
    <3>2. ScriptOf(a)[pc[a]].op = "ifInstalled"
      BY <2>4 DEF SkipsAhead, Current
    <3>3. \A j \in pc[a] + 1 .. pc[a] + 5 : ScriptOf(a)[j].op # "await"
      BY <3>1, <3>2 DEF SkipsMigration
    <3>4. i = pc[a] \/ i \in pc[a] + 1 .. pc[a] + 5
      BY <2>4, <3>1
    <3>. QED BY <1>2, <3>2, <3>3, <3>4
  <2>. QED BY <1>2, <2>2, <2>3, <2>4, DidNext
<1>. QED
  <2>1. \A a \in active' : \A i \in DOMAIN ScriptOf(a)' :
          Did(a, i)' => ScriptOf(a)' = ScriptOf(a)
    BY DidNext
  <2>2. Kinds' = Kinds
    BY DEF Kinds
  <2>. QED BY <1>1, <1>2, <2>1, <2>2 DEF PreflightAwaited

\* The step behind UpgradeWaitsForPreflight.
LEMMA CiliumChanges ==
    ASSUME TypeOK, TypeOK', CallInv, DeletedOnly, PreflightAwaited, [Next]_vars,
           Proxy("cilium")'.want # Proxy("cilium").want, RunsPreflight(req)
    PROVE passed = Kinds
<1>1. "cilium" \in DOMAIN hcp /\ hcp'["cilium"].want # hcp["cilium"].want
  BY AddOnsStay DEF Proxy
<1>2. ~hcp["cilium"].deleting
  BY <1>1 DEF DeletedOnly
<1>3. PICK a \in active : Applies(a, "cilium")
  BY <1>1, <1>2, ProxyNext DEF Removes, Uninstalled, Installed
<1>4. st[a] = "run" /\ Current(a).op = "apply" /\ Current(a).on = "cilium"
  BY <1>3 DEF Applies, Moves, Turn
<1>5. /\ PreflightFirst(req, ScriptOf(a))
      /\ DOMAIN ScriptOf(a) = 1 .. Len(ScriptOf(a)) /\ Len(ScriptOf(a)) \in Nat
      /\ pc[a] \in DOMAIN ScriptOf(a)
  BY <1>4, CurrentFacts DEF ScriptFacts, OrderFacts
<1>6. ASSUME NEW k \in Kinds
      PROVE k \in passed
  <2>1. PICK j \in 1 .. pc[a] - 1 :
           ScriptOf(a)[j].op = "await" /\ <<"Ready", k>> \in ScriptOf(a)[j].put
    BY <1>4, <1>5 DEF PreflightFirst, Current
  <2>2. j \in DOMAIN ScriptOf(a) /\ Did(a, j)
    BY <1>4, <1>5 DEF Did
  <2>. QED BY <2>1, <2>2 DEF PreflightAwaited
<1>. QED BY <1>6 DEF TypeOK

------------------------------------------------------------------------------
(* Services stay routed *)

\* Cilium replaces kube-proxy only after the user has disabled it, first in what the
\* HelmChartProxy asks for, then in what is deployed.
Configured ==
    /\ req.disabled => config.disabled
    /\ Proxy("cilium").want.kpr => req.disabled
    /\ Proxy("cilium").have.kpr => Proxy("cilium").want.kpr

\* The rollout is forced after that, and a pod with its annotation replaces kube-proxy.
Restarted ==
    /\ Restart \in objs => Cilium.kpr
    /\ \A n \in Nodes : \A v \in 0..2 : pods[n].template = <<v, TRUE>> => pods[n].kpr

\* Every Cilium pod runs with the replacement of kube-proxy, and so will those that follow.
AllReplaced == Restart \in objs /\ \A n \in Nodes : pods[n].kpr

\* What each step of the migration relies on, and what holds without kube-proxy.
Migrating ==
    /\ \A a \in active : st[a] = "run" =>
          /\ Restart \in Current(a).put => Cilium.kpr
          /\ Current(a).op = "awaitRollout" => Restart \in objs
          /\ <<"DaemonSet", "kube-proxy">> \in Current(a).del => AllReplaced
    /\ config.created /\ ~KubeProxyInstalled => AllReplaced

\* The Cilium release is applied for the request, then deployed, and never uninstalled.
LEMMA CiliumNext ==
    ASSUME TypeOK, TypeOK', DeletedOnly, [Next]_vars
    PROVE \/ /\ Proxy("cilium")'.want = Proxy("cilium").want
             /\ Proxy("cilium")'.have = Proxy("cilium").have
          \/ /\ Proxy("cilium")'.want = SpecFor("cilium") /\ req' = req /\ config' = config
             /\ Proxy("cilium")'.have = Proxy("cilium").have
          \/ /\ Proxy("cilium")'.want = Proxy("cilium").want
             /\ Proxy("cilium")'.have = Proxy("cilium").want
<1>1. CASE "cilium" \notin DOMAIN hcp
  BY <1>1, AddOnsStay DEF Proxy
<1>2. CASE "cilium" \in DOMAIN hcp
  <2>1. ~hcp["cilium"].deleting
    BY <1>2 DEF DeletedOnly
  <2>2. CASE hcp'["cilium"] = hcp["cilium"]
    BY <1>2, <2>2, AddOnsStay DEF Proxy
  <2>3. ASSUME NEW a \in active, Applies(a, "cilium") \/ Removes(a, "cilium")
        PROVE \/ /\ hcp'["cilium"].want = SpecFor("cilium") /\ req' = req /\ config' = config
                 /\ hcp'["cilium"].have = hcp["cilium"].have
              \/ /\ hcp'["cilium"].want = hcp["cilium"].want
                 /\ hcp'["cilium"].have = hcp["cilium"].have
    BY <2>3 DEF Applies, Removes, Moves
  <2>. QED BY <1>2, <2>1, <2>2, <2>3, ProxyNext, AddOnsStay DEF Proxy, Uninstalled, Installed
<1>. QED BY <1>1, <1>2

\* Users only disable kube-proxy, and a call takes the configuration as it is.
LEMMA ConfigNext ==
    ASSUME TypeOK, [Next]_vars
    PROVE /\ config.disabled => config'.disabled
          /\ config'.created <=> config.created
          /\ config'.replaces <=> config.replaces
          /\ req' = req \/ (config' = config /\ hcp' = hcp /\ (req'.disabled <=> config.disabled))
<1>1. ASSUME NEW a \in active, HandlerStep(a) \/ CallFails(a)
      PROVE config' = config /\ req' = req
  BY <1>1, HandlersMove DEF Moves
<1>2. CASE BeginCall
  BY <1>2 DEF BeginCall, world
<1>3. CASE StartUpgrade
  BY <1>3 DEF StartUpgrade, TypeOK
<1>4. CASE DisableKubeProxy \/ SkipPreflight
  BY <1>4 DEF DisableKubeProxy, SkipPreflight, environment, TypeOK
<1>5. CASE UNCHANGED <<config, req>>
  BY <1>5
<1>. QED
  BY <1>1, <1>2, <1>3, <1>4, <1>5
     DEF Next, Calls, Surroundings, ApplyManifests, Return, ManagerRestarts, CacheCatchesUp,
         StartPod, Deploy, Uninstall, PreflightPasses, StartDelete, environment, vars

\* The request is copied from the configuration, the release applied from the request.
LEMMA ConfiguredNext ==
    ASSUME TypeOK, TypeOK', DeletedOnly, Configured, [Next]_vars
    PROVE Configured'
<1>1. req'.disabled => config'.disabled
  BY ConfigNext DEF Configured
<1>2. Proxy("cilium").want.kpr => req'.disabled
  BY ConfigNext DEF Configured
<1>3. SpecFor("cilium").kpr <=> req.disabled
  BY DEF SpecFor, TypeOK
<1>. QED BY <1>1, <1>2, <1>3, CiliumNext DEF Configured

\* The annotation stays.
LEMMA RestartStays ==
    ASSUME TypeOK, CallInv, [Next]_vars, Restart \in objs
    PROVE Restart \in objs'
<1>1. \A k \in Kinds : Restart # <<"Ready", k>>
  BY DEF Restart
<1>2. ASSUME NEW a \in active, Moves(a), Restart \in Current(a).del
      PROVE FALSE
  BY <1>2, CurrentFacts DEF Moves, Turn, StepFacts, Restart, KubeProxy, AutoscalerCRSObject
<1>. QED BY <1>1, <1>2, Lost

\* So do the manifests of the ClusterResourceSet.
LEMMA ManifestsStay ==
    ASSUME TypeOK, CallInv, [Next]_vars, Manifests \in objs
    PROVE Manifests \in objs'
<1>1. \A k \in Kinds : Manifests # <<"Ready", k>>
  BY DEF Manifests
<1>2. ASSUME NEW a \in active, Moves(a), Manifests \in Current(a).del
      PROVE FALSE
  BY <1>2, CurrentFacts DEF Moves, Turn, StepFacts, Manifests, KubeProxy, AutoscalerCRSObject
<1>. QED BY <1>1, <1>2, Lost

\* Once Cilium replaces kube-proxy it continues to.
LEMMA ReplacementStays ==
    ASSUME TypeOK, TypeOK', CallInv, DeletedOnly, Configured, [Next]_vars, Cilium.kpr
    PROVE Cilium'.kpr
<1>1. active' = active
  BY AddOnsStay
<1>2. CASE "cilium-crs" \in active
  <2>1. Manifests \in objs /\ config.replaces
    BY <1>2 DEF Cilium, NoSpec
  <2>2. Manifests \in objs' /\ config'.replaces
    BY <2>1, ManifestsStay, ConfigNext
  <2>. QED BY <1>1, <1>2, <2>2 DEF Cilium
<1>3. CASE "cilium-crs" \notin active
  BY <1>1, <1>3, CiliumNext DEF Cilium, Configured
<1>. QED BY <1>2, <1>3

\* The pod of a node stays or starts with the template and the configuration of the moment.
LEMMA PodNext ==
    ASSUME TypeOK, [Next]_vars, NEW n \in Nodes
    PROVE \/ pods'[n] = pods[n]
          \/ /\ pods'[n].template = Template
             /\ pods'[n].kpr <=> Cilium.kpr
             /\ UNCHANGED <<objs, hcp>>
<1>1. ASSUME NEW a \in active, HandlerStep(a) \/ CallFails(a)
      PROVE pods' = pods
  BY <1>1, HandlersMove DEF Moves
<1>2. ASSUME NEW m \in Nodes, StartPod(m)
      PROVE \/ pods'[n] = pods[n]
            \/ /\ pods'[n].template = Template
               /\ pods'[n].kpr <=> Cilium.kpr
               /\ UNCHANGED <<objs, hcp>>
  <2>1. pods'[n] = pods[n] \/ pods'[n] = [template |-> Template, kpr |-> Cilium.kpr]
    BY <1>2 DEF StartPod, TypeOK
  <2>. QED BY <1>2, <2>1 DEF StartPod
<1>3. CASE UNCHANGED pods
  BY <1>3
<1>. QED
  BY <1>1, <1>2, <1>3
     DEF Next, Calls, Surroundings, ApplyManifests, BeginCall, Return, ManagerRestarts,
         CacheCatchesUp, Deploy, Uninstall, PreflightPasses, DisableKubeProxy, SkipPreflight,
         StartUpgrade, StartDelete, world, vars

\* The annotation is set after the configuration has arrived, so a pod that starts with it
\* has the replacement.
LEMMA RestartedNext ==
    ASSUME TypeOK, TypeOK', CallInv, DeletedOnly, Configured, Migrating, Restarted, [Next]_vars
    PROVE Restarted'
<1>1. ASSUME Restart \in objs'
      PROVE Cilium'.kpr
  <2>1. CASE Restart \in objs
    BY <2>1, ReplacementStays DEF Restarted
  <2>2. CASE Restart \notin objs
    <3>1. \A k \in Kinds : Restart # <<"Ready", k>>
      BY DEF Restart
    <3>2. PICK a \in active : Moves(a) /\ Restart \in Current(a).put
      BY <1>1, <2>2, <3>1, Gained DEF Manifests, Restart
    <3>3. Cilium.kpr
      BY <3>2 DEF Migrating, Moves, Turn
    <3>. QED BY <3>3, ReplacementStays
  <2>. QED BY <2>1, <2>2
<1>2. ASSUME NEW n \in Nodes, NEW v \in 0..2, pods'[n].template = <<v, TRUE>>
      PROVE pods'[n].kpr
  <2>1. CASE pods'[n] = pods[n]
    BY <1>2, <2>1 DEF Restarted
  <2>2. CASE pods'[n].template = Template /\ (pods'[n].kpr <=> Cilium.kpr)
    <3>1. <<Cilium.version, Restart \in objs>> = <<v, TRUE>>
      BY <1>2, <2>2 DEF Template, Restart
    <3>2. \A x, b : <<x, b>> = <<v, TRUE>> => b = TRUE
      OBVIOUS
    <3>3. Restart \in objs
      BY <3>1, <3>2, Zenon
    <3>. QED BY <2>2, <3>3 DEF Restarted
  <2>. QED BY <2>1, <2>2, PodNext
<1>. QED BY <1>1, <1>2 DEF Restarted

\* Once every pod replaces kube-proxy they all continue to.
LEMMA AllReplacedStays ==
    ASSUME TypeOK, TypeOK', CallInv, Restarted, AllReplaced, [Next]_vars
    PROVE AllReplaced'
BY RestartStays, PodNext DEF AllReplaced, Restarted

\* After the wait for the rollout every pod has been replaced.
LEMMA RolloutReplaces ==
    ASSUME TypeOK, Restarted, RolledOut, Restart \in objs
    PROVE AllReplaced
<1>1. Cilium.version \in 0..2
  BY CiliumTypes
<1>2. Template = <<Cilium.version, TRUE>>
  <2>1. (Restart \in objs) = TRUE
    OBVIOUS
  <2>2. Template = <<Cilium.version, Restart \in objs>>
    BY DEF Template, Restart
  <2>. QED BY <2>1, <2>2, Zenon
<1>3. \A n \in Nodes : pods[n].template = <<Cilium.version, TRUE>>
  BY <1>2 DEF RolledOut
<1>. QED BY <1>1, <1>3 DEF Restarted, AllReplaced

\* Where a handler that runs may be after a step.
LEMMA PositionNext ==
    ASSUME TypeOK, CallInv, CallInv', [Next]_vars, NEW a \in active, active' = active,
           st'[a] = "run"
    PROVE \/ st[a] = "run" /\ pc'[a] = pc[a] /\ req' = req
          \/ Moves(a) /\ req' = req
          \/ pc'[a] = 1
<1>1. calling'
  BY DEF CallInv
<1>2. CASE calling
  BY <1>1, <1>2, HandlerNext
<1>3. CASE ~calling
  <2>1. st[a] = "off" /\ pc[a] = 1
    BY <1>3 DEF CallInv
  <2>2. \A b \in active : ~HandlerStep(b) /\ ~CallFails(b)
    BY <1>3, HandlersMove DEF Moves, Turn
  <2>3. pc' = pc
    BY <1>1, <1>3, <2>2
       DEF Next, Calls, Surroundings, ApplyManifests, BeginCall, Return, ManagerRestarts,
           CacheCatchesUp, StartPod, Deploy, Uninstall, PreflightPasses, DisableKubeProxy,
           SkipPreflight, StartUpgrade, StartDelete, environment, handlers, vars
  <2>. QED BY <2>1, <2>3
<1>. QED BY <1>2, <1>3

\* Each step of the migration leaves what the next one relies on, whatever others do
\* meanwhile.
LEMMA MigratingNext ==
    ASSUME TypeOK, TypeOK', CallInv, CallInv', DeletedOnly, Configured, Restarted, Migrating,
           [Next]_vars
    PROVE Migrating'
<1>1. /\ Cilium.kpr => Cilium'.kpr
      /\ Restart \in objs => Restart \in objs'
      /\ AllReplaced => AllReplaced'
  BY ReplacementStays, RestartStays, AllReplacedStays
<1>2. ASSUME NEW a \in active, st'[a] = "run"
      PROVE /\ Restart \in Current(a)'.put => Cilium'.kpr
            /\ Current(a)'.op = "awaitRollout" => Restart \in objs'
            /\ <<"DaemonSet", "kube-proxy">> \in Current(a)'.del => AllReplaced'
  <2>1. CASE st[a] = "run" /\ pc'[a] = pc[a] /\ req' = req
    <3>1. Current(a)' = Current(a)
      BY <2>1 DEF Current, ScriptOf
    <3>. QED BY <1>1, <2>1, <3>1 DEF Migrating
  <2>2. CASE Moves(a) /\ req' = req
    <3>1. /\ st[a] = "run" /\ pc[a] \in DOMAIN ScriptOf(a) /\ pc[a] \in Nat \ {0}
          /\ StepFacts(a, req, Current(a)) /\ ScriptFacts(a, req, ScriptOf(a))
      BY <2>2, CurrentFacts DEF Moves, Turn
    <3>2. ScriptOf(a)' = ScriptOf(a) /\ pc'[a] <= Len(ScriptOf(a))
      BY <1>2, <2>2, AddOnsStay DEF CallInv, ScriptOf
    <3>3. CASE Reaches(a, pc[a] + 1) /\ Made(a)
      <4>1. pc[a] + 1 \in DOMAIN ScriptOf(a) /\ Current(a)' = ScriptOf(a)[pc[a] + 1]
            /\ pc[a] + 1 - 1 = pc[a]
        BY <3>1, <3>2, <3>3 DEF Reaches, ScriptFacts, Current
      <4>2. /\ Restart \in Current(a)'.put => Current(a).op = "awaitConfig"
            /\ Current(a)'.op = "awaitRollout" => Restart \in Current(a).put
            /\ <<"DaemonSet", "kube-proxy">> \in Current(a)'.del => Current(a).op = "awaitRollout"
        BY <3>1, <4>1 DEF ScriptFacts, OrderFacts, RolloutOrdered, Current
      <4>3. ASSUME Current(a).op = "awaitConfig"
            PROVE Cilium.kpr
        BY <3>3, <4>3 DEF Made, Holds
      <4>4. ASSUME Restart \in Current(a).put
            PROVE Restart \in objs'
        <5>1. Current(a).op = "call"
          BY <3>1, <4>4 DEF StepFacts
        <5>. QED BY <3>3, <4>4, <5>1 DEF Made, Waits
      <4>5. ASSUME Current(a).op = "awaitRollout"
            PROVE AllReplaced
        <5>1. RolledOut
          BY <3>3, <4>5 DEF Made, Holds
        <5>2. Restart \in objs
          BY <3>1, <4>5 DEF Migrating
        <5>. QED BY <5>1, <5>2, RolloutReplaces
      <4>. QED BY <1>1, <4>2, <4>3, <4>4, <4>5
    <3>4. CASE SkipsAhead(a)
      <4>1. pc[a] + 6 \in DOMAIN ScriptOf(a) /\ Current(a)' = ScriptOf(a)[pc[a] + 6]
            /\ ScriptOf(a)[pc[a]].op = "ifInstalled"
        BY <3>1, <3>2, <3>4 DEF SkipsAhead, Reaches, ScriptFacts, Current
      <4>2. Current(a)'.op = "remove" /\ StepFacts(a, req, Current(a)')
        BY <3>1, <4>1 DEF ScriptFacts, OrderFacts, SkipsMigration
      <4>. QED BY <4>2 DEF StepFacts
    <3>. QED BY <1>2, <2>2, <3>3, <3>4 DEF Moves, Fails
  <2>3. CASE pc'[a] = 1
    <3>1. ScriptFacts(a, req', Script(a, req'))
      <4>1. a \in Addons
        BY AddonSetsAssumption DEF TypeOK
      <4>. QED BY <4>1, EveryScript
    <3>2. Current(a)' = Script(a, req')[1] /\ 1 \in DOMAIN Script(a, req')
      BY <2>3, <3>1 DEF Current, ScriptOf, ScriptFacts
    <3>3. Restart \notin Current(a)'.put /\ Current(a)'.op # "awaitRollout"
          /\ <<"DaemonSet", "kube-proxy">> \notin Current(a)'.del
      BY <3>1, <3>2 DEF ScriptFacts, OrderFacts, RolloutOrdered
    <3>. QED BY <3>3
  <2>. QED BY <1>2, <2>1, <2>2, <2>3, PositionNext, AddOnsStay
<1>3. ASSUME config'.created, <<"DaemonSet", "kube-proxy">> \notin objs'
      PROVE AllReplaced'
  <2>1. CASE <<"DaemonSet", "kube-proxy">> \notin objs
    BY <1>1, <1>3, <2>1, ConfigNext DEF Migrating, KubeProxyInstalled
  <2>2. CASE <<"DaemonSet", "kube-proxy">> \in objs
    <3>1. \A k \in Kinds : <<"DaemonSet", "kube-proxy">> # <<"Ready", k>>
      OBVIOUS
    <3>2. PICK a \in active : Moves(a) /\ <<"DaemonSet", "kube-proxy">> \in Current(a).del
      BY <1>3, <2>2, <3>1, Lost
    <3>. QED BY <1>1, <3>2 DEF Migrating, Moves, Turn
  <2>. QED BY <2>1, <2>2
<1>. QED BY <1>2, <1>3, AddOnsStay DEF Migrating, KubeProxyInstalled

------------------------------------------------------------------------------
(* The theorems *)

\* The inductive invariant.
IInv ==
    /\ TypeOK
    /\ CallInv
    /\ Prepared
    /\ NothingDeployedTooEarly
    /\ DeletedOnly
    /\ Applied
    /\ Labelled
    /\ SuccessMeansApplied
    /\ Removed
    /\ NothingLeftBehind
    /\ PreflightAwaited
    /\ Configured
    /\ Restarted
    /\ Migrating

\* It holds initially: nothing is deployed, and kube-proxy is there if the cluster has it.
LEMMA IInvInit ==
    ASSUME Init
    PROVE IInv
<1>1. TypeOK /\ CallInv
  BY TypeInit, CallInvInit
<1>2. \A a \in active : \A i : ~Did(a, i)
  BY DEF Init, AllOff, Did
<1>3. /\ stage = "initialize" /\ ~calling /\ passed = {}
      /\ \A a \in active : st[a] = "off"
      /\ hcp = [r \in ReleasesOf(active) |-> NoProxy]
      /\ objs = IF config.created THEN KubeProxy ELSE {}
      /\ pods = [n \in Nodes |-> NoPod]
      /\ req.disabled = FALSE
  BY DEF Init, AllOff
<1>4. \A r : Proxy(r).want = NoSpec /\ Proxy(r).have = NoSpec /\ ~Proxy(r).deleting
  BY <1>3 DEF Proxy, NoProxy
<1>5. objs \subseteq {<<"DaemonSet", "kube-proxy">>, <<"ConfigMap", "kube-proxy">>}
  BY <1>3 DEF KubeProxy
<1>6. Prepared /\ Applied /\ DeletedOnly /\ Labelled
  BY <1>2, <1>3 DEF Prepared, Applied, DeletedOnly, Labelled, NoProxy
<1>7. SuccessMeansApplied /\ NothingLeftBehind
  BY <1>3 DEF SuccessMeansApplied, NothingLeftBehind
<1>8. NothingDeployedTooEarly
  <2>1. ASSUME NEW a \in active \cap HelmAddons
        PROVE hcp[Release(a)].want = NoSpec
    BY <1>3 DEF ReleasesOf, NoProxy
  <2>. QED BY <1>5, <2>1 DEF NothingDeployedTooEarly, Deployed
<1>9. Removed /\ PreflightAwaited
  BY <1>2, <1>5 DEF Removed, PreflightAwaited, AutoscalerCRSObject
<1>10. Configured /\ Restarted /\ Migrating
  <2>1. Configured
    BY <1>3, <1>4 DEF Configured, NoSpec
  <2>2. Restarted
    <3>1. Restart \notin objs
      BY <1>5 DEF Restart
    <3>2. ASSUME NEW n \in Nodes, NEW v
          PROVE pods[n].template # <<v, TRUE>>
      <4>1. pods[n].template = <<0, FALSE>>
        BY <1>3 DEF NoPod
      <4>2. <<0, FALSE>> # <<v, TRUE>>
        OBVIOUS
      <4>. QED BY <4>1, <4>2
    <3>. QED BY <3>1, <3>2 DEF Restarted
  <2>3. Migrating
    BY <1>3 DEF Migrating, KubeProxyInstalled, KubeProxy
  <2>. QED BY <2>1, <2>2, <2>3
<1>. QED BY <1>1, <1>6, <1>7, <1>8, <1>9, <1>10 DEF IInv

\* Every step keeps it.
LEMMA IInvNext ==
    ASSUME IInv, [Next]_vars
    PROVE IInv'
<1>1. TypeOK'
  BY TypeNext DEF IInv
<1>2. CallInv'
  BY <1>1, CallInvNext DEF IInv
<1>3. Prepared' /\ NothingDeployedTooEarly'
  BY <1>1, PreparedNext, DeployedNext DEF IInv
<1>4. DeletedOnly' /\ Applied'
  BY <1>1, DeletedOnlyNext, AppliedNext DEF IInv
<1>5. Labelled' /\ SuccessMeansApplied'
  BY <1>1, LabelledNext, SuccessNext DEF IInv
<1>6. Removed' /\ NothingLeftBehind'
  BY <1>1, RemovedNext, LeftBehindNext DEF IInv
<1>7. PreflightAwaited'
  BY <1>1, PreflightAwaitedNext DEF IInv
<1>8. Configured' /\ Restarted' /\ Migrating'
  BY <1>1, <1>2, ConfiguredNext, RestartedNext, MigratingNext DEF IInv
<1>. QED BY <1>1, <1>2, <1>3, <1>4, <1>5, <1>6, <1>7, <1>8 DEF IInv

\* The inductive invariant holds throughout the life of a cluster with any add-ons.
THEOREM Invariant == Spec => []IInv
<1>. QED BY IInvInit, IInvNext, PTL DEF Spec

\* Every variable keeps its range, for any add-ons, nodes and bound on faults.
THEOREM TypeCorrect == Spec => []TypeOK
<1>1. IInv => TypeOK
  BY DEF IInv
<1>. QED BY <1>1, Invariant, PTL

\* The order of the calls in each handler's apply: whatever the interleaving of the handlers,
\* the failures and the restarts, nothing is deployed before what it needs exists.
THEOREM DeployedInOrder == Spec => []NothingDeployedTooEarly
<1>1. IInv => NothingDeployedTooEarly
  BY DEF IInv
<1>. QED BY <1>1, Invariant, PTL

\* The parallel runner of the hooks and the handlers together: Cluster API goes on only when
\* every add-on was applied as the request asks and every namespace has its label.
THEOREM SuccessIsComplete == Spec => []SuccessMeansApplied
<1>1. IInv => SuccessMeansApplied
  BY DEF IInv
<1>. QED BY <1>1, Invariant, PTL

\* runApply, forceCiliumRollout, cleanupKubeProxy: kube-proxy leaves a cluster only when every
\* Cilium pod serves its node ports and Services, for any number of nodes.
THEOREM AlwaysRouted == Spec => []ServicesStayRouted
<1>1. IInv => ServicesStayRouted
  BY DEF IInv, Migrating, AllReplaced, ServicesStayRouted
<1>. QED BY <1>1, Invariant, PTL

\* The deletes at the end of the Cilium handler and in BeforeClusterDelete of the autoscaler
\* are never lost by an error or a restart.
THEOREM AllRemoved == Spec => []NothingLeftBehind
<1>1. IInv => NothingLeftBehind
  BY DEF IInv
<1>. QED BY <1>1, Invariant, PTL

\* runPreflight before runApply: an upgrade changes Cilium only after both preflight
\* resources have been ready.
THEOREM PreflightFirstOnUpgrade == Spec => UpgradeWaitsForPreflight
<1>1. IInv /\ [Next]_vars =>
        [ (Proxy("cilium")'.want # Proxy("cilium").want /\ RunsPreflight(req))
            => passed = Kinds ]_vars
  <2>. SUFFICES ASSUME IInv, [Next]_vars,
                       Proxy("cilium")'.want # Proxy("cilium").want, RunsPreflight(req)
                PROVE passed = Kinds
    OBVIOUS
  <2>1. TypeOK'
    BY TypeNext DEF IInv
  <2>. QED BY <2>1, CiliumChanges DEF IInv
<1>. QED BY <1>1, Invariant, PTL DEF Spec, UpgradeWaitsForPreflight
==============================================================================
