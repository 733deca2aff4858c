-------------------------- MODULE ClusterAdmission --------------------------
(***************************************************************************)
(* The webhooks on Clusters (pkg/webhook/cluster, pkg/webhook/addons and   *)
(* pkg/metro): what they write into a Cluster that is created or updated,  *)
(* and which Clusters they refuse.                                         *)
(*                                                                         *)
(* A Cluster's specification s is [provider, v6, cfg, wc, pools, skip]:    *)
(* the variables clusterConfig and workerConfig as in PatchHandlers, the   *)
(* machine deployments with an optional override of workerConfig and a     *)
(* failure domain ("" for none), and the annotations that skip a webhook.  *)
(* An IP address is a number below FirstName, a host name one from there;  *)
(* 0 is what stands in the place of an address in the templates of a class.*)
(***************************************************************************)
EXTENDS ProviderPatches

FirstName == 100
IsIP(host) == 0 < host /\ host < FirstName

(* The workerConfig of a pool: an override replaces the default. *)
WorkerConfig(s, i) == IF Has(s.pools[i], "override") THEN s.pools[i].override ELSE s.wc

----------------------------------------------------------------------------
(* nutanix_validator.go *)

VirtualIPAddress(endpoint) ==
    IF Has(endpoint, "virtualIP") THEN OrElse(endpoint.virtualIP, "address", endpoint.host) ELSE endpoint.host
IsIPInRange(range, ip) == range[1] <= ip /\ ip <= range[2]

(* Only addresses are compared: a name may resolve to anything. *)
PrismCentralIsControlPlane(cfg) ==
    LET vip == VirtualIPAddress(cfg["nutanix.controlPlaneEndpoint"])
        pc == cfg["nutanix.prismCentralEndpoint"].host
    IN IsIP(vip) /\ IsIP(pc) /\ vip = pc
PrismCentralInLoadBalancerRange(cfg) ==
    LET lb == OrElse(cfg, "addons.serviceLoadBalancer", [provider |-> "none"])
        pc == cfg["nutanix.prismCentralEndpoint"].host
    IN /\ lb.provider = "MetalLB" /\ Has(lb, "ranges") /\ IsIP(pc)
       /\ \E i \in DOMAIN lb.ranges : IsIPInRange(lb.ranges[i], pc)

SlipFailureDomainXORMachineDetails(hasFailureDomain, details) ==
    /\ Has(details, "cluster") \/ hasFailureDomain
    /\ (OrElse(details, "subnets", <<>>) # <<>>) \/ hasFailureDomain
FailureDomainXORMachineDetails(hasFailureDomain, details) ==
    /\ Has(details, "cluster") = ~hasFailureDomain
    /\ (OrElse(details, "subnets", <<>>) # <<>>) = ~hasFailureDomain
ControlPlanePlaced(cfg) ==
    Has(cfg, "controlPlane.nutanix.machineDetails") =>
        FailureDomainXORMachineDetails(OrElse(cfg, "controlPlane.nutanix.failureDomains", <<>>) # <<>>,
                                       cfg["controlPlane.nutanix.machineDetails"])
WorkersPlaced(s) ==
    \A i \in DOMAIN s.pools :
        LET wc == WorkerConfig(s, i) IN
        Has(wc, "nutanix.machineDetails") =>
            FailureDomainXORMachineDetails(s.pools[i].failureDomain # "", wc["nutanix.machineDetails"])
NutanixAllows(s) ==
    s.provider = "nutanix" =>
        /\ Has(s.cfg, "nutanix.prismCentralEndpoint") =>
             ~PrismCentralIsControlPlane(s.cfg) /\ ~PrismCentralInLoadBalancerRange(s.cfg)
        /\ ControlPlanePlaced(s.cfg)
        /\ WorkersPlaced(s)

----------------------------------------------------------------------------
(* cilium_configuration_validator.go: without kube-proxy, values of one's  *)
(* own must turn on its replacement.  A ConfigMap that is missing, or has  *)
(* no values, says nothing.                                                *)
CiliumAllows(s) ==
    \/ "cilium" \in s.skip
    \/ OrElse(s.cfg, "kubeProxy.mode", "") # "disabled"
    \/ OrElse(s.cfg, "addons.cni", "") # "Cilium"
    \/ OrElse(s.cfg, "addons.cni.values", "none") \in {"none", "missing", "replaces kube-proxy"}

----------------------------------------------------------------------------
(* kubeletconfiguration_validator.go *)

HasCPUReservation(kubelet) ==
    \E f \in {"systemReserved", "kubeReserved"} \cap DOMAIN kubelet : "cpu" \in kubelet[f]
EvictionThresholdsValid(kubelet) ==
    \A f \in {"evictionHard", "evictionSoft"} \cap DOMAIN kubelet : "malformed" \notin kubelet[f]
ValidateKubeletConfig(kubelet) ==
    /\ Has(kubelet, "automaticReservations") =>
         {"systemReserved", "kubeReserved", "evictionHard"} \cap DOMAIN kubelet = {}
    /\ OrElse(kubelet, "cpuManagerPolicy", "none") = "static" => HasCPUReservation(kubelet)
    /\ EvictionThresholdsValid(kubelet)
(* The control plane's, the default's and that of every pool.  Without the  *)
(* clusterConfig variable none is looked at; every class requires it.      *)
WorkerKubelets(s) ==
    {OrElse(wc, "kubeletConfiguration", NoVariables) : wc \in {s.wc} \cup {WorkerConfig(s, i) : i \in DOMAIN s.pools}}
KubeletAllows(s) ==
    \A k \in WorkerKubelets(s) \cup {OrElse(s.cfg, "controlPlane.kubeletConfiguration", NoVariables)} :
        ValidateKubeletConfig(k)

----------------------------------------------------------------------------
(* metro.go and metro_clusters.go: volumes of a cluster that spans two     *)
(* sites must not be bound to one of them.                                 *)

MetroFailureDomains == {"metro-a", "metrosite-a"}
IsMetroCluster(s) ==
    \/ \E i \in DOMAIN OrElse(s.cfg, "controlPlane.nutanix.failureDomains", <<>>) :
           s.cfg["controlPlane.nutanix.failureDomains"][i] \in MetroFailureDomains
    \/ \E i \in DOMAIN s.pools : s.pools[i].failureDomain \in MetroFailureDomains

(* Each Nutanix storage class with its affinity, "" for none. *)
Affinities(cfg) == OrElse(cfg, "addons.csi.nutanix.storageClasses", NoVariables)
DefaultCSIComputeAffinity(cfg) ==
    With(cfg, "addons.csi.nutanix.storageClasses",
         [c \in DOMAIN Affinities(cfg) |-> IF Affinities(cfg)[c] = "" THEN "DISABLED" ELSE Affinities(cfg)[c]])
MetroDefaulter(s) ==
    IF IsMetroCluster(s) /\ Has(s.cfg, "addons.csi.nutanix.storageClasses")
    THEN [s EXCEPT !.cfg = DefaultCSIComputeAffinity(@)] ELSE s
MetroAllows(s) ==
    IsMetroCluster(s) => \A c \in DOMAIN Affinities(s.cfg) : Affinities(s.cfg)[c] \in {"", "DISABLED"}

----------------------------------------------------------------------------
(* addons/registry/autoenabler.go: a workload cluster gets the registry    *)
(* add-on its management cluster has, on creation and on every update.     *)

AutoEnables(s, upstream) ==
    /\ upstream
    /\ "registry" \notin s.skip
    /\ ~Has(s.cfg, "addons.registry")
    /\ ~Has(s.cfg, "globalImageRegistryMirror")
AutoEnabler(s, upstream) ==
    IF AutoEnables(s, upstream) THEN [s EXCEPT !.cfg = With(@, "addons.registry", "CNCF Distribution")] ELSE s

----------------------------------------------------------------------------
(* clusteruuidlabeler.go: 0 stands for no annotation. *)

UUIDDefaulter(old, uuid, new) == IF uuid # 0 THEN uuid ELSE IF old # 0 THEN old ELSE new
UUIDAllows(old, uuid) == uuid # 0 /\ (old = 0 \/ uuid = old)

(* The handlers as the server chains them; the first denial counts. *)
Defaulted(s, upstream) == AutoEnabler(MetroDefaulter(s), upstream)
Allowed(s) == NutanixAllows(s) /\ CiliumAllows(s) /\ KubeletAllows(s) /\ MetroAllows(s)
============================================================================
