-------------------------- MODULE ProviderPatches --------------------------
(***************************************************************************)
(* The mutators of each provider (handlers/nutanix, aws, eks and docker)   *)
(* and the order in which the meta patch handlers run them.  CAPI calls    *)
(* the cluster configuration handler for all templates and then the worker *)
(* configuration handler on the result.                                    *)
(***************************************************************************)
EXTENDS RegistryPatches

(* Nutanix. *)
NutanixCluster(t) == InfrastructureCluster(t, "NutanixClusterTemplate")

NutanixControlPlaneEndpoint(c, t) ==
    LET endpoint == Get(c.cfg, "nutanix.controlPlaneEndpoint") IN
    IF ~endpoint.found THEN t
    ELSE MutateIfApplicable(t, NutanixCluster(t),
           Put(t, "controlPlaneEndpoint", <<endpoint.v.host, endpoint.v.port>>))

(* The trust bundle is given in base64 and written decoded; a URL that does *)
(* not parse, such as one whose port is too large, has the host 0.          *)
NutanixPrismCentralEndpoint(c, t) ==
    LET pc == Get(c.cfg, "nutanix.prismCentralEndpoint") IN
    IF ~pc.found THEN t
    ELSE MutateIfApplicable(t, NutanixCluster(t),
           IF pc.v.host = 0 \/ OrElse(pc.v, "additionalTrustBundle", "") = "not base64" THEN Fail(t)
           ELSE Put(t, "prismCentral", pc.v))

(* The cluster and the subnets only replace the template's where they are  *)
(* set, and not by no subnets; an image excludes an image lookup, and one  *)
(* of them must be there.                                                  *)
NutanixMachineDetails(t, details, selected) ==
    LET set == {n \in {"cluster", "subnets"} : Has(details, n) /\ (n = "subnets" => details[n] # <<>>)}
        placed == [n \in set |-> details[n]]
        image == IF Has(details, "image") THEN "image" ELSE "imageLookup"
        kept == [n \in DOMAIN t.fields \ {"image", "imageLookup"} |-> t.fields[n]]
    IN MutateIfApplicable(t, selected,
         IF ~Has(details, image) THEN Fail(t)
         ELSE [t EXCEPT !.fields = With(With(Over(placed, kept), "size", details.size), image, details[image])])
NutanixControlPlaneMachineDetails(c, t) ==
    LET details == Get(c.cfg, "controlPlane.nutanix.machineDetails") IN
    IF ~details.found THEN t
    ELSE NutanixMachineDetails(t, details.v, InfrastructureControlPlaneMachines(t, "NutanixMachineTemplate"))
NutanixWorkerMachineDetails(c, t) ==
    LET details == Get(c.wc, "nutanix.machineDetails") IN
    IF ~details.found THEN t
    ELSE NutanixMachineDetails(t, details.v, InfrastructureWorkerMachineTemplates(t, "NutanixMachineTemplate"))

NutanixControlPlaneFailureDomains(c, t) ==
    IF OrElse(c.cfg, "controlPlane.nutanix.failureDomains", <<>>) = <<>> THEN t
    ELSE Copies(t, c.cfg, "controlPlane.nutanix.failureDomains", NutanixCluster(t), "controlPlaneFailureDomains")

----------------------------------------------------------------------------
(* AWS and EKS. *)

AWSCluster(t) == InfrastructureCluster(t, "AWSClusterTemplate")
AWSControlPlaneMachines(t) == InfrastructureControlPlaneMachines(t, "AWSMachineTemplate")
AWSWorkerMachines(t) == InfrastructureWorkerMachineTemplates(t, "AWSMachineTemplate")

(* A rule that is there is not added again: AWS clusters run this twice. *)
CalicoRules == <<"typha", "bgp", "IP-in-IP", "node metrics", "typha metrics">>
AddOrUpdateCNIIngressRules(rules, new) ==
    FoldLeft(LAMBDA rs, r : IF Contains(rs, r) THEN rs ELSE Append(rs, r), rules, new)
Calico(c, t) ==
    IF OrElse(c.cfg, "addons.cni", "none") # "Calico" THEN t
    ELSE MutateIfApplicable(t, AWSCluster(t),
           Put(t, "cniIngressRules",
               AddOrUpdateCNIIngressRules(OrElse(t.fields, "cniIngressRules", <<>>), CalicoRules)))

(* Only subnets with an identifier are written, and a VPC only with one;   *)
(* "none" is an empty identifier.                                          *)
Network(t, v, path, selected) ==
    LET network == Get(v, path)
        vpc == IF OrElse(network.v, "vpc", "none") = "none" THEN t ELSE Put(t, "vpc", network.v.vpc)
        written == {i \in DOMAIN network.v.subnets : network.v.subnets[i] # "none"}
    IN CASE ~network.found -> t
         [] network.found /\ OrElse(network.v, "subnets", <<>>) = <<>> -> MutateIfApplicable(t, selected, vpc)
         [] OTHER -> MutateIfApplicable(t, selected,
                       Put(vpc, "subnets", Keep(network.v.subnets, written)))
AWSNetwork(c, t) == Network(t, c.cfg, "aws.network", AWSCluster(t))
EKSNetwork(c, t) == Network(t, c.cfg, "eks.network", ManagedControlPlane(t))

AWSRegion(c, t) == Copies(t, c.cfg, "aws.region", AWSCluster(t), "region")
EKSRegion(c, t) == Copies(t, c.cfg, "eks.region", ManagedControlPlane(t), "region")
AWSIdentityRef(c, t) == Copies(t, c.cfg, "aws.identityRef", AWSCluster(t), "identityRef")
EKSIdentityRef(c, t) == Copies(t, c.cfg, "eks.identityRef", ManagedControlPlane(t), "identityRef")
AWSControlPlaneLoadBalancer(c, t) ==
    Copies(t, c.cfg, "aws.controlPlaneLoadBalancer", AWSCluster(t), "controlPlaneLoadBalancer.scheme")

AWSClusterTags(c, t) == Copies(t, c.cfg, "aws.additionalTags", AWSCluster(t), "additionalTags")
EKSClusterTags(c, t) == Copies(t, c.cfg, "eks.additionalTags", ManagedControlPlane(t), "additionalTags")
MachineTags(t, v, path, selected) == Copies(t, v, path, selected, "additionalTags")
AWSControlPlaneTags(c, t) == MachineTags(t, c.cfg, "controlPlane.aws.additionalTags", AWSControlPlaneMachines(t))
AWSWorkerTags(c, t) == MachineTags(t, c.wc, "aws.additionalTags", AWSWorkerMachines(t))
EKSWorkerTags(c, t) == MachineTags(t, c.wc, "eks.additionalTags", AWSWorkerMachines(t))

AWSControlPlaneIAMInstanceProfile(c, t) ==
    Copies(t, c.cfg, "controlPlane.aws.iamInstanceProfile", AWSControlPlaneMachines(t), "iamInstanceProfile")
WorkerIAMInstanceProfile(t, v, path) == Copies(t, v, path, AWSWorkerMachines(t), "iamInstanceProfile")
EKSWorkerIAMInstanceProfile(c, t) == WorkerIAMInstanceProfile(t, c.wc, "eks.iamInstanceProfile")
AWSControlPlaneInstanceType(c, t) ==
    Copies(t, c.cfg, "controlPlane.aws.instanceType", AWSControlPlaneMachines(t), "instanceType")
WorkerInstanceType(t, v, path) == Copies(t, v, path, AWSWorkerMachines(t), "instanceType")
EKSWorkerInstanceType(c, t) == WorkerInstanceType(t, c.wc, "eks.instanceType")

(* An AMI by its identifier or by a look-up, or both. *)
AMI(t, v, path, selected) ==
    LET ami == Get(v, path)
        id == IF Has(ami.v, "id") THEN Put(t, "ami", ami.v.id) ELSE t
    IN IF ~ami.found THEN t
       ELSE MutateIfApplicable(t, selected, IF Has(ami.v, "lookup") THEN Put(id, "imageLookup", ami.v.lookup) ELSE id)
AWSControlPlaneAMI(c, t) == AMI(t, c.cfg, "controlPlane.aws.ami", AWSControlPlaneMachines(t))
AWSWorkerAMI(c, t) == AMI(t, c.wc, "aws.ami", AWSWorkerMachines(t))
EKSWorkerAMI(c, t) == AMI(t, c.wc, "eks.ami", AWSWorkerMachines(t))

SecurityGroups(t, v, path, selected) == Copies(t, v, path, selected, "additionalSecurityGroups")
AWSControlPlaneSecurityGroups(c, t) ==
    SecurityGroups(t, c.cfg, "controlPlane.aws.additionalSecurityGroups", AWSControlPlaneMachines(t))
AWSWorkerSecurityGroups(c, t) == SecurityGroups(t, c.wc, "aws.additionalSecurityGroups", AWSWorkerMachines(t))
EKSWorkerSecurityGroups(c, t) == SecurityGroups(t, c.wc, "eks.additionalSecurityGroups", AWSWorkerMachines(t))

(* The root volume and the others replace the template's where they are set. *)
Volumes(t, v, path, selected) ==
    LET volumes == Get(v, path)
        root == IF Has(volumes.v, "root") THEN Put(t, "rootVolume", volumes.v.root) ELSE t
    IN IF ~volumes.found THEN t
       ELSE MutateIfApplicable(t, selected,
              IF OrElse(volumes.v, "nonroot", <<>>) = <<>> THEN root
              ELSE Put(root, "nonRootVolumes", volumes.v.nonroot))
AWSControlPlaneVolumes(c, t) == Volumes(t, c.cfg, "controlPlane.aws.volumes", AWSControlPlaneMachines(t))
AWSWorkerVolumes(c, t) == Volumes(t, c.wc, "aws.volumes", AWSWorkerMachines(t))
EKSWorkerVolumes(c, t) == Volumes(t, c.wc, "eks.volumes", AWSWorkerMachines(t))

(* A placement group is set on the machines and found out again on the     *)
(* node, by a script that labels it.                                       *)
PlacementGroupDiscovery == "/etc/kubernetes/node-feature-discovery/placementgroup_discovery.sh"
DiscoversPlacementGroup(t, v, path, selected) ==
    IF ~Has(v, path) THEN t
    ELSE MutateIfApplicable(t, selected,
           AddPre(AddFiles(t, <<File(PlacementGroupDiscovery, <<"discovery">>)>>), <<PlacementGroupDiscovery>>))
AWSControlPlanePlacementGroup(c, t) ==
    Copies(t, c.cfg, "controlPlane.aws.placementGroup", AWSControlPlaneMachines(t), "placementGroupName")
WorkerPlacementGroup(t, v, path) == Copies(t, v, path, AWSWorkerMachines(t), "placementGroupName")
EKSWorkerPlacementGroup(c, t) == WorkerPlacementGroup(t, c.wc, "eks.placementGroup")
AWSControlPlanePlacementGroupNFD(c, t) ==
    DiscoversPlacementGroup(t, c.cfg, "controlPlane.aws.placementGroup", ControlPlane(t))
AWSWorkerPlacementGroupNFD(c, t) ==
    DiscoversPlacementGroup(t, c.wc, "aws.placementGroup", WorkersKubeadmConfigTemplate(t))
EKSWorkerPlacementGroupNFD(c, t) == DiscoversPlacementGroup(t, c.wc, "eks.placementGroup", Nodeadm(t))

----------------------------------------------------------------------------
(* Docker: the default image is the one of the version of the machines. *)

CustomImage(t, v, path, minor, selected) ==
    MutateIfApplicable(t, selected, Put(t, "customImage", OrElse(v, path, <<"kindest/node", minor>>)))
DockerControlPlaneCustomImage(c, t) ==
    CustomImage(t, c.cfg, "controlPlane.docker.customImage", OrElse(c.builtin, "cp", 0),
                InfrastructureControlPlaneMachines(t, "DockerMachineTemplate"))
DockerWorkerCustomImage(c, t) ==
    CustomImage(t, c.wc, "docker.customImage", OrElse(c.builtin, "md", 0),
                InfrastructureWorkerMachineTemplates(t, "DockerMachineTemplate"))

----------------------------------------------------------------------------
(* The order of the meta patch handlers, by the names of the packages. *)

MetaMutators == <<"auditpolicy", "etcd", "coredns", "extraapiservercertsans", "httpproxy",
    "kubernetesimagerepository", "credentials", "mirrors", "calico", "users", "containerdmetrics",
    "containerdunprivilegedports", "encryptionatrest", "autorenewcerts", "kubeproxymode",
    "podsecurityadmission", "ntp", "containerdapplypatchesandrestart">>
ControlPlaneMetaMutators == <<"cp taints", "cp noderegistration", "externalcloudprovider",
    "cp kubeletconfiguration", "sortextraargs">>
WorkerMetaMutators == <<"taints", "noderegistration", "kubeletconfiguration", "sortextraargs">>

NutanixMetaPatchHandler == <<"controlplaneendpoint", "controlplanevirtualip", "prismcentralendpoint",
    "cp machinedetails", "controlplanefailuredomains">> \o MetaMutators \o ControlPlaneMetaMutators
AWSMetaPatchHandler == <<"calico", "aws tags", "aws region", "aws network", "aws lb", "aws cp tags",
    "aws identityref", "aws cp iam", "aws cp instancetype", "aws cp ami", "aws cp securitygroups",
    "aws cp volumes", "aws cp placementgroup", "aws cp placementgroupnfd">>
    \o MetaMutators \o ControlPlaneMetaMutators
DockerMetaPatchHandler == <<"cp customimage">> \o MetaMutators \o ControlPlaneMetaMutators
EKSMetaPatchHandler == <<"eks region", "eks network", "eks identityref", "eks tags", "users",
    "kubeproxymode", "ntp">>
MetaPatchHandler(provider) ==
    CASE provider = "nutanix" -> NutanixMetaPatchHandler [] provider = "aws" -> AWSMetaPatchHandler
      [] provider = "docker" -> DockerMetaPatchHandler [] provider = "eks" -> EKSMetaPatchHandler
MetaWorkerPatchHandler(provider) ==
    CASE provider = "nutanix" -> <<"machinedetails">> \o WorkerMetaMutators
      [] provider = "aws" -> <<"aws w tags", "aws w iam", "aws w instancetype", "aws w ami",
           "aws w securitygroups", "aws w volumes", "aws w placementgroup", "aws w placementgroupnfd">>
           \o WorkerMetaMutators
      [] provider = "docker" -> <<"customimage">> \o WorkerMetaMutators
      [] provider = "eks" -> <<"eks w iam", "eks w instancetype", "eks w ami", "eks w securitygroups",
           "eks w volumes", "eks w placementgroup", "eks w placementgroupnfd", "eks w tags", "taints">>

MutateAWS(name, c, t) ==
    CASE name = "aws tags" -> AWSClusterTags(c, t)
      [] name = "aws region" -> AWSRegion(c, t)
      [] name = "aws network" -> AWSNetwork(c, t)
      [] name = "aws lb" -> AWSControlPlaneLoadBalancer(c, t)
      [] name = "aws identityref" -> AWSIdentityRef(c, t)
      [] name = "aws cp tags" -> AWSControlPlaneTags(c, t)
      [] name = "aws cp iam" -> AWSControlPlaneIAMInstanceProfile(c, t)
      [] name = "aws cp instancetype" -> AWSControlPlaneInstanceType(c, t)
      [] name = "aws cp ami" -> AWSControlPlaneAMI(c, t)
      [] name = "aws cp securitygroups" -> AWSControlPlaneSecurityGroups(c, t)
      [] name = "aws cp volumes" -> AWSControlPlaneVolumes(c, t)
      [] name = "aws cp placementgroup" -> AWSControlPlanePlacementGroup(c, t)
      [] name = "aws cp placementgroupnfd" -> AWSControlPlanePlacementGroupNFD(c, t)
      [] name = "aws w tags" -> AWSWorkerTags(c, t)
      [] name = "aws w iam" -> WorkerIAMInstanceProfile(t, c.wc, "aws.iamInstanceProfile")
      [] name = "aws w instancetype" -> WorkerInstanceType(t, c.wc, "aws.instanceType")
      [] name = "aws w ami" -> AWSWorkerAMI(c, t)
      [] name = "aws w securitygroups" -> AWSWorkerSecurityGroups(c, t)
      [] name = "aws w volumes" -> AWSWorkerVolumes(c, t)
      [] name = "aws w placementgroup" -> WorkerPlacementGroup(t, c.wc, "aws.placementGroup")
      [] name = "aws w placementgroupnfd" -> AWSWorkerPlacementGroupNFD(c, t)
      [] name = "eks region" -> EKSRegion(c, t)
      [] name = "eks network" -> EKSNetwork(c, t)
      [] name = "eks identityref" -> EKSIdentityRef(c, t)
      [] name = "eks tags" -> EKSClusterTags(c, t)
      [] name = "eks w iam" -> EKSWorkerIAMInstanceProfile(c, t)
      [] name = "eks w instancetype" -> EKSWorkerInstanceType(c, t)
      [] name = "eks w ami" -> EKSWorkerAMI(c, t)
      [] name = "eks w securitygroups" -> EKSWorkerSecurityGroups(c, t)
      [] name = "eks w volumes" -> EKSWorkerVolumes(c, t)
      [] name = "eks w placementgroup" -> EKSWorkerPlacementGroup(c, t)
      [] name = "eks w placementgroupnfd" -> EKSWorkerPlacementGroupNFD(c, t)
      [] name = "eks w tags" -> EKSWorkerTags(c, t)

Mutate(name, c, t) ==
    CASE name = "auditpolicy" -> AuditPolicy(c, t)
      [] name = "etcd" -> Etcd(c, t)
      [] name = "coredns" -> CoreDNS(c, t)
      [] name = "extraapiservercertsans" -> ExtraAPIServerCertSANs(c, t)
      [] name = "httpproxy" -> HTTPProxy(c, t)
      [] name = "kubernetesimagerepository" -> KubernetesImageRepository(c, t)
      [] name = "credentials" -> IF c.v6 THEN V6Credentials(c, t) ELSE Credentials(c, t)
      [] name = "mirrors" -> Mirrors(c, t)
      [] name = "calico" -> Calico(c, t)
      [] name = "users" -> Users(c, t)
      [] name = "containerdmetrics" -> ContainerdMetrics(c, t)
      [] name = "containerdunprivilegedports" -> ContainerdUnprivilegedPorts(c, t)
      [] name = "encryptionatrest" -> EncryptionAtRest(c, t)
      [] name = "autorenewcerts" -> AutoRenewCerts(c, t)
      [] name = "kubeproxymode" -> KubeProxyMode(c, t)
      [] name = "podsecurityadmission" -> PodSecurityAdmission(c, t)
      [] name = "ntp" -> NTP(c, t)
      [] name = "containerdapplypatchesandrestart" -> ContainerdApplyPatchesAndRestart(c, t)
      [] name = "cp taints" -> ControlPlaneTaints(c, t)
      [] name = "taints" -> WorkerTaints(c, t)
      [] name = "cp noderegistration" -> ControlPlaneNodeRegistration(c, t)
      [] name = "noderegistration" -> WorkerNodeRegistration(c, t)
      [] name = "externalcloudprovider" -> ExternalCloudProvider(c, t)
      [] name = "cp kubeletconfiguration" -> ControlPlaneKubeletConfiguration(c, t)
      [] name = "kubeletconfiguration" -> WorkerKubeletConfiguration(c, t)
      [] name = "sortextraargs" -> SortExtraArgs(c, t)
      [] name = "controlplaneendpoint" -> NutanixControlPlaneEndpoint(c, t)
      [] name = "controlplanevirtualip" -> ControlPlaneVirtualIP(c, t)
      [] name = "prismcentralendpoint" -> NutanixPrismCentralEndpoint(c, t)
      [] name = "cp machinedetails" -> NutanixControlPlaneMachineDetails(c, t)
      [] name = "machinedetails" -> NutanixWorkerMachineDetails(c, t)
      [] name = "controlplanefailuredomains" -> NutanixControlPlaneFailureDomains(c, t)
      [] name = "cp customimage" -> DockerControlPlaneCustomImage(c, t)
      [] name = "customimage" -> DockerWorkerCustomImage(c, t)
      [] OTHER -> MutateAWS(name, c, t)

(* The mutators run one after another until one fails. *)
RunMutators(names, c, t) ==
    LET run[n \in 0..Len(names)] ==
          IF n = 0 THEN t
          ELSE LET before == run[n - 1] IN IF before.err THEN before ELSE Mutate(names[n], c, before)
    IN run[Len(names)]
(* The worker handler runs after the other, and not at all if that fails. *)
GeneratePatches(c, t) == RunMutators(MetaPatchHandler(c.provider) \o MetaWorkerPatchHandler(c.provider), c, t)

----------------------------------------------------------------------------
(* The templates of the classes that the mutators start from. *)

Admission == "/etc/kubernetes/admission.yaml"
EventRateLimit == "/etc/kubernetes/eventratelimit-config.yaml"
KubeletDefaults == <<File("/etc/kubernetes/patches/kubeletconfiguration0+strategic.json", <<"eviction">>),
                     File("/etc/kubernetes/patches/kubeletconfiguration1+strategic.json", <<"benchmark">>)>>
External(provider) == IF provider = "docker" THEN <<>> ELSE <<<<"cloud-provider", "external">>>>
KubeadmControlPlaneTemplate(provider) ==
    [Template("KubeadmControlPlaneTemplate", "controlPlaneRef", "none") EXCEPT
       !.args = [apiServer |-> << <<"profiling", "false">>, <<"service-account-lookup", "true">>,
                      <<"enable-admission-plugins", <<"DenyServiceExternalIPs", "EventRateLimit", "NodeRestriction">> >>,
                      <<"admission-control-config-file", Admission>>, <<"tls-cipher-suites", "secure">> >>,
                 controllerManager |-> External(provider) \o << <<"terminated-pod-gc-threshold", "10000">>,
                      <<"profiling", "false">>, <<"tls-min-version", "TLS1.2">> >>,
                 scheduler |-> << <<"profiling", "false">>, <<"tls-min-version", "TLS1.2">> >>,
                 etcd |-> <<>>, kubeletInit |-> External(provider), kubeletJoin |-> External(provider)],
       !.volumes = << <<"admission-config", Admission>>, <<"eventratelimit-config", EventRateLimit>> >>,
       !.files = (IF provider = "nutanix" THEN <<File(KubeVIP, <<"kube-vip", 0, 0>>)>> ELSE <<>>)
                 \o KubeletDefaults
                 \o <<File(Admission, <<"EventRateLimit">>), File(EventRateLimit, <<"limits">>)>>]
KubeadmConfigTemplate(provider, pool) ==
    [Template("KubeadmConfigTemplate", "mdBootstrapRef", pool) EXCEPT
       !.args["kubeletJoin"] = External(provider), !.files = KubeletDefaults]

Kinds(provider) ==
    CASE provider = "nutanix" -> <<"NutanixClusterTemplate", "NutanixMachineTemplate">>
      [] provider = "docker" -> <<"DockerClusterTemplate", "DockerMachineTemplate">>
      [] provider = "aws" -> <<"AWSClusterTemplate", "AWSMachineTemplate">>
      [] provider = "eks" -> <<"AWSManagedClusterTemplate", "AWSMachineTemplate">>
MachineTemplate(provider, holder, pool) ==
    LET t == Template(Kinds(provider)[2], holder, pool)
    IN IF provider = "nutanix" THEN Put(t, "image", "placeholder") ELSE t
ManagedControlPlaneTemplate ==
    Put(Template("AWSManagedControlPlaneTemplate", "controlPlaneRef", "none"), "kubeProxy.disable", TRUE)

InfrastructureTemplate(provider) == Template(Kinds(provider)[1], "infrastructureRef", "none")
ControlPlaneTemplate(provider) ==
    IF provider = "eks" THEN ManagedControlPlaneTemplate ELSE KubeadmControlPlaneTemplate(provider)
BootstrapTemplate(provider, pool) ==
    IF provider = "eks" THEN Template("NodeadmConfigTemplate", "mdBootstrapRef", pool)
    ELSE KubeadmConfigTemplate(provider, pool)
============================================================================
