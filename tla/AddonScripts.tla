---------------------------- MODULE AddonScripts ----------------------------
(***************************************************************************)
(* What each add-on handler of pkg/handlers/lifecycle does in one call of  *)
(* a hook, as the sequence of its calls to API servers.  AddonHandlers     *)
(* runs these scripts in parallel.                                         *)
(*                                                                         *)
(* An object of the management or the workload cluster is a pair <<kind,   *)
(* name>>; that a namespace has the privileged label, that an object has   *)
(* the cluster as an owner and that the template of a DaemonSet has an     *)
(* annotation are pairs too.  Manifests, values and templates are left     *)
(* out, and a read of one (a default ConfigMap, the source Secret, the     *)
(* values template) is part of the call that follows: when either fails,   *)
(* the handler returns at the same point with nothing written.             *)
(***************************************************************************)
EXTENDS Sequences, Integers

\* One call: its kind, the release or object it is about, and the objects it
\* writes and removes.
Step(op, on, put, del) == [op |-> op, on |-> on, put |-> put, del |-> del]
Put(objects) == Step("call", "none", objects, {})
Delete(object) == Step("call", "none", {}, {object})

------------------------------------------------------------------------------
(* The helpers shared by the handlers. *)

\* Get the object and Update it with the cluster's owner reference; the Update
\* carries the resource version that was read.
EnsureClusterOwnerReferenceForObject(object) ==
    <<Step("get", object, {}, {}),
      Step("update", object, {<<"OwnerReference", object>>}, {})>>

\* Server-side apply of a Namespace without labels.  All handlers apply with
\* one field manager, so a label that an earlier apply set is removed.
EnsureNamespaceWithName(ns) ==
    Step("call", "none", {<<"Namespace", ns>>}, {<<"Privileged", ns>>})

EnsureNamespaceWithMetadata(ns) ==
    Put({<<"Namespace", ns>>, <<"Privileged", ns>>})

\* The source Secret is read, the namespace ensured, the copy applied.
CopySecretToRemoteCluster(secret, ns) ==
    <<EnsureNamespaceWithName(ns), Put({<<"Secret", secret>>})>>

\* Look the chart up in the ConfigMap of the extensions.
HelmChartFor == <<Put({})>>

\* Apply of helmaddon.go without and with the default waiter: the values
\* template is read, the HelmChartProxy applied.
Apply(release) == <<Step("apply", release, {}, {})>>
ApplyAndWait(release) ==
    Apply(release) \o <<Step("wait", release, {}, {})>>

\* The ClusterResourceSet strategy of most add-ons: read the default ConfigMap,
\* copy it to the cluster's namespace, refer to it in a ClusterResourceSet.
ApplyCRS(addon) ==
    <<Put({<<"ConfigMap", addon>>}), Put({<<"ClusterResourceSet", addon>>})>>

CreateStorageClassesOnRemote(addon) == <<Put({<<"StorageClass", addon>>})>>

------------------------------------------------------------------------------
(* CNI *)

CalicoHelm == HelmChartFor \o Apply("tigera-operator")

\* The Tigera operator's manifests are several ConfigMaps, the installation one
\* more; the ClusterResourceSet refers to all of them.
CalicoCRS ==
    <<Put({<<"ConfigMap", "tigera-operator-1">>}),
      Put({<<"ConfigMap", "tigera-operator-2">>}),
      Put({<<"ConfigMap", "calico">>}),
      Put({<<"ClusterResourceSet", "calico">>})>>

\* A failure to set the owner reference on the values is recorded in the
\* response and then overwritten: the handler does not return.
CiliumValues ==
    <<Step("softUpdate", "cilium-values", {<<"OwnerReference", "cilium-values">>}, {})>>

\* Mutant: the Deployment, which validates policies, is not waited for.
SlipForgetDeployment ==
    ApplyAndWait("cilium-preflight") \o <<Step("await", "none", {<<"Ready", "DaemonSet">>}, {})>>

\* Apply the preflight release, wait for it, then for its DaemonSet and its
\* Deployment.
CiliumPreflight ==
    ApplyAndWait("cilium-preflight")
        \o <<Step("await", "none", {<<"Ready", "DaemonSet">>}, {}),
             Step("await", "none", {<<"Ready", "Deployment">>}, {})>>

\* forceCiliumRollout: the annotation is set once; then wait for the DaemonSet.
ForceCiliumRollout ==
    <<Put({<<"RestartedAt", "cilium">>}), Step("awaitRollout", "none", {}, {})>>

CleanupKubeProxy ==
    <<Delete(<<"DaemonSet", "kube-proxy">>), Delete(<<"ConfigMap", "kube-proxy">>)>>

\* Mutant: the rollout is forced before the new configuration has arrived.
SlipRestartTooEarly == ForceCiliumRollout \o CleanupKubeProxy

\* The part of runApply after isKubeProxyInstalled.
KubeProxyMigration ==
    <<Step("awaitConfig", "none", {}, {})>> \o ForceCiliumRollout \o CleanupKubeProxy

\* Apply with either strategy, then the migration away from kube-proxy if it is
\* disabled and still installed.
CiliumRunApply(strategy, q) ==
    strategy
        \o IF q.disabled
           THEN <<Step("ifInstalled", "none", {}, {})>> \o KubeProxyMigration
           ELSE <<>>

\* The preflight release is applied before an upgrade, unless the annotation
\* asks to skip it, and deleted at the end.
RunsPreflight(q) == q.hook = "BeforeClusterUpgrade" /\ ~q.skip

\* Mutant: a migration returns before the clean-up.
SlipKeepPreflight(q) ==
    HelmChartFor
        \o CiliumValues
        \o (IF RunsPreflight(q) THEN CiliumPreflight ELSE <<>>)
        \o CiliumRunApply(ApplyAndWait("cilium"), q)
        \o (IF RunsPreflight(q) /\ ~q.disabled
            THEN <<Step("remove", "cilium-preflight", {}, {})>> ELSE <<>>)

CiliumHelm(q) ==
    HelmChartFor
        \o CiliumValues
        \o (IF RunsPreflight(q) THEN CiliumPreflight ELSE <<>>)
        \o CiliumRunApply(ApplyAndWait("cilium"), q)
        \o (IF RunsPreflight(q)
            THEN <<Step("remove", "cilium-preflight", {}, {})>> ELSE <<>>)

CiliumCRS(q) == CiliumRunApply(ApplyCRS("cilium"), q)

FlowNamespaces == <<"flow-cni-system", "flow-cns-system", "ovn-kubernetes">>
NutanixFlow ==
    HelmChartFor
        \o EnsureClusterOwnerReferenceForObject("flow-pull-secret")
        \o CopySecretToRemoteCluster("flow-cni-system/pull", FlowNamespaces[1])
        \o CopySecretToRemoteCluster("flow-cns-system/pull", FlowNamespaces[2])
        \o CopySecretToRemoteCluster("ovn-kubernetes/pull", FlowNamespaces[3])
        \o EnsureClusterOwnerReferenceForObject("flow-values")
        \o ApplyAndWait("flow-cni")

Multus == HelmChartFor \o ApplyAndWait("multus")

------------------------------------------------------------------------------
(* CCM and CSI.  The Nutanix add-ons use one credentials Secret. *)

\* Mutant: the release is applied before its credentials are copied.
SlipCopyLast ==
    EnsureClusterOwnerReferenceForObject("pc-credentials")
        \o HelmChartFor
        \o Apply("nutanix-ccm")
        \o CopySecretToRemoteCluster("kube-system/nutanix-ccm", "kube-system")

NutanixCCM ==
    EnsureClusterOwnerReferenceForObject("pc-credentials")
        \o CopySecretToRemoteCluster("kube-system/nutanix-ccm", "kube-system")
        \o HelmChartFor
        \o Apply("nutanix-ccm")

AWSCCMHelm == HelmChartFor \o Apply("aws-ccm")
AWSCCMCRS == ApplyCRS("aws-ccm")

NutanixCSI ==
    HelmChartFor
        \o EnsureClusterOwnerReferenceForObject("pc-credentials")
        \o CopySecretToRemoteCluster("ntnx-system/nutanix-csi", "ntnx-system")
        \o <<EnsureNamespaceWithMetadata("ntnx-system")>>
        \o Apply("nutanix-csi")
        \o CreateStorageClassesOnRemote("nutanix-csi")

AWSEBSHelm ==
    HelmChartFor \o Apply("aws-ebs-csi") \o CreateStorageClassesOnRemote("aws-ebs-csi")
AWSEBSCRS == ApplyCRS("aws-ebs-csi") \o CreateStorageClassesOnRemote("aws-ebs-csi")
LocalPathHelm ==
    HelmChartFor \o Apply("local-path") \o CreateStorageClassesOnRemote("local-path")
LocalPathCRS == ApplyCRS("local-path") \o CreateStorageClassesOnRemote("local-path")

SnapshotHelm == HelmChartFor \o Apply("snapshot-controller")
SnapshotCRS == ApplyCRS("snapshot-controller")

------------------------------------------------------------------------------
(* The other add-ons. *)

COSI == HelmChartFor \o Apply("cosi-controller")

AWSLoadBalancerController == HelmChartFor \o Apply("aws-lb-controller")

NFDHelm ==
    HelmChartFor \o <<EnsureNamespaceWithMetadata("node-feature-discovery")>> \o Apply("nfd")
NFDCRS == ApplyCRS("nfd")

\* Mutant: the labels are set before the copy, which takes them away.
SlipLabelFirst ==
    EnsureClusterOwnerReferenceForObject("pc-credentials")
        \o <<EnsureNamespaceWithMetadata("ntnx-system")>>
        \o CopySecretToRemoteCluster("ntnx-system/konnector-agent", "ntnx-system")
        \o HelmChartFor
        \o Apply("konnector-agent")

KonnectorAgent ==
    EnsureClusterOwnerReferenceForObject("pc-credentials")
        \o CopySecretToRemoteCluster("ntnx-system/konnector-agent", "ntnx-system")
        \o <<EnsureNamespaceWithMetadata("ntnx-system")>>
        \o HelmChartFor
        \o Apply("konnector-agent")

\* The configuration is polled: both objects are applied again in each round.
MetalLB ==
    <<EnsureNamespaceWithMetadata("metallb-system")>>
        \o HelmChartFor
        \o ApplyAndWait("metallb")
        \o <<Put({<<"IPAddressPool", "metallb">>}), Put({<<"L2Advertisement", "metallb">>})>>

\* findTargetCluster reads the management cluster.  What is created there is not
\* owned by the cluster, so a deletion removes it.  In which namespace the objects
\* are is left out.
AutoscalerHelm(q) ==
    IF q.hook = "BeforeClusterDelete"
    THEN <<Step("remove", "cluster-autoscaler", {}, {})>>
    ELSE HelmChartFor \o Apply("cluster-autoscaler")

AutoscalerCRS(q) ==
    IF q.hook = "BeforeClusterDelete"
    THEN <<Delete(<<"ClusterResourceSet", "cluster-autoscaler">>)>>
    ELSE <<Put({<<"ConfigMap", "cluster-autoscaler">>}),
           EnsureNamespaceWithName("cluster-namespace"),
           Put({<<"ClusterResourceSet", "cluster-autoscaler">>})>>

------------------------------------------------------------------------------
(* The add-ons by name, one name per strategy. *)

HelmAddons ==
    {"calico", "cilium", "flow", "multus", "nutanix-ccm", "aws-ccm", "nutanix-csi",
     "aws-ebs", "local-path", "snapshot", "cosi", "aws-lb", "nfd", "konnector", "metallb",
     "autoscaler"}
CRSAddons ==
    {"calico-crs", "cilium-crs", "aws-ccm-crs", "aws-ebs-crs", "local-path-crs",
     "snapshot-crs", "nfd-crs", "autoscaler-crs"}
Addons == HelmAddons \cup CRSAddons

Script(a, q) ==
    CASE a = "calico" -> CalicoHelm
      [] a = "calico-crs" -> CalicoCRS
      [] a = "cilium" -> CiliumHelm(q)
      [] a = "cilium-crs" -> CiliumCRS(q)
      [] a = "flow" -> NutanixFlow
      [] a = "multus" -> Multus
      [] a = "nutanix-ccm" -> NutanixCCM
      [] a = "aws-ccm" -> AWSCCMHelm
      [] a = "aws-ccm-crs" -> AWSCCMCRS
      [] a = "nutanix-csi" -> NutanixCSI
      [] a = "aws-ebs" -> AWSEBSHelm
      [] a = "aws-ebs-crs" -> AWSEBSCRS
      [] a = "local-path" -> LocalPathHelm
      [] a = "local-path-crs" -> LocalPathCRS
      [] a = "snapshot" -> SnapshotHelm
      [] a = "snapshot-crs" -> SnapshotCRS
      [] a = "cosi" -> COSI
      [] a = "aws-lb" -> AWSLoadBalancerController
      [] a = "nfd" -> NFDHelm
      [] a = "nfd-crs" -> NFDCRS
      [] a = "konnector" -> KonnectorAgent
      [] a = "metallb" -> MetalLB
      [] a = "autoscaler" -> AutoscalerHelm(q)
      [] a = "autoscaler-crs" -> AutoscalerCRS(q)

\* The Helm release of an add-on.
Release(a) ==
    CASE a = "calico" -> "tigera-operator"
      [] a = "flow" -> "flow-cni"
      [] a = "aws-ebs" -> "aws-ebs-csi"
      [] a = "snapshot" -> "snapshot-controller"
      [] a = "cosi" -> "cosi-controller"
      [] a = "aws-lb" -> "aws-lb-controller"
      [] a = "konnector" -> "konnector-agent"
      [] a = "autoscaler" -> "cluster-autoscaler"
      [] OTHER -> a

Releases == {Release(a) : a \in HelmAddons} \cup {"cilium-preflight"}

\* The CSI handler loops over the providers; every other handler deploys one
\* add-on.
Providers == {"nutanix-csi", "aws-ebs", "aws-ebs-crs", "local-path", "local-path-crs"}
SameHandler(a, b) == a = b \/ {a, b} \subseteq Providers
==============================================================================
