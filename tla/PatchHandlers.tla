--------------------------- MODULE PatchHandlers ---------------------------
(***************************************************************************)
(* The mutators behind the GeneratePatches hook (pkg/handlers/*/mutation   *)
(* and common/pkg/capi/clustertopology).  A mutator is an operator from a  *)
(* context and a template to a template; the context c holds what one      *)
(* request item carries (the variables clusterConfig and workerConfig and  *)
(* the builtin versions) and what the mutators read from the API server    *)
(* while they run (module Topology decides when).                          *)
(*                                                                         *)
(* A template keeps what the handlers write: the files, the commands, the  *)
(* extra arguments of each component, the volumes of the API server and    *)
(* one entry of fields for every other field.  The text of a file is its   *)
(* inputs, or what a Secret holds.                                         *)
(***************************************************************************)
EXTENDS Naturals, Sequences, FiniteSets, SequencesExt, TLC

ArgLists == {"apiServer", "controllerManager", "scheduler", "etcd", "kubeletInit", "kubeletJoin"}

NoVariables == [n \in {} |-> 0]

Template(kind, holder, pool) ==
    [kind |-> kind, holder |-> holder, pool |-> pool, files |-> <<>>, pre |-> <<>>, post |-> <<>>,
     args |-> [l \in ArgLists |-> <<>>], volumes |-> <<>>, fields |-> NoVariables, err |-> FALSE]

(* variables.Get: a variable is a function from the paths it sets to their *)
(* values, so a path below an absent field is not found either.            *)
Get(v, path) == [found |-> path \in DOMAIN v, v |-> IF path \in DOMAIN v THEN v[path] ELSE 0]

Has(v, n) == n \in DOMAIN v
OrElse(v, n, default) == IF Has(v, n) THEN v[n] ELSE default
With(v, path, value) == [n \in DOMAIN v \cup {path} |-> IF n = path THEN value ELSE v[n]]
(* f, and g where f says nothing. *)
Over(f, g) == [n \in DOMAIN f \cup DOMAIN g |-> IF Has(f, n) THEN f[n] ELSE g[n]]

(* The elements of s at some of its indices, in their order. *)
Keep(s, indices) == FlattenSeq([i \in DOMAIN s |-> IF i \in indices THEN <<s[i]>> ELSE <<>>])

----------------------------------------------------------------------------
(* What a selector matches: the kind and who refers to the template. *)

MatchesInfrastructure(t) == t.holder = "infrastructureRef"
MatchesControlPlane(t) == t.holder \in {"controlPlaneRef", "machineInfrastructureRef"}
MatchesMachineDeploymentClass(t) == t.holder \in {"mdBootstrapRef", "mdInfrastructureRef"}

InfrastructureCluster(t, kind) == t.kind = kind /\ MatchesInfrastructure(t)
ControlPlane(t) == t.kind = "KubeadmControlPlaneTemplate" /\ MatchesControlPlane(t)
ManagedControlPlane(t) == t.kind = "AWSManagedControlPlaneTemplate" /\ MatchesControlPlane(t)
InfrastructureControlPlaneMachines(t, kind) == t.kind = kind /\ MatchesControlPlane(t)
WorkersConfigTemplate(t, kind) == t.kind = kind /\ MatchesMachineDeploymentClass(t)
WorkersKubeadmConfigTemplate(t) == WorkersConfigTemplate(t, "KubeadmConfigTemplate")
InfrastructureWorkerMachineTemplates(t, kind) == t.kind = kind /\ MatchesMachineDeploymentClass(t)
Nodeadm(t) == WorkersConfigTemplate(t, "NodeadmConfigTemplate")
Kubeadm(t) == ControlPlane(t) \/ WorkersKubeadmConfigTemplate(t)

(* A template that the selector does not match is left as it is. *)
MutateIfApplicable(t, selected, mutated) == IF selected THEN mutated ELSE t

Fail(t) == [t EXCEPT !.err = TRUE]
Put(t, field, v) == [t EXCEPT !.fields = With(@, field, v)]
File(path, body) == [path |-> path, body |-> body, from |-> "none"]
FromSecret(path, name) == [path |-> path, body |-> <<>>, from |-> name]
AddFiles(t, fs) == [t EXCEPT !.files = @ \o fs]
AddPre(t, cmds) == [t EXCEPT !.pre = @ \o cmds]
HasFile(t, path) == \E i \in DOMAIN t.files : t.files[i].path = path
HasArg(t, l, name) == \E i \in DOMAIN t.args[l] : t.args[l][i][1] = name
ArgValue(t, l, name) == t.args[l][CHOOSE i \in DOMAIN t.args[l] : t.args[l][i][1] = name][2]

(* Extra arguments are only added where the template has none of that name. *)
AddArg(t, l, name, v) ==
    IF HasArg(t, l, name) THEN t ELSE [t EXCEPT !.args[l] = Append(@, <<name, v>>)]
(* nvs names no argument twice. *)
AddArgs(t, l, nvs) ==
    [t EXCEPT !.args[l] = @ \o Keep(nvs, {i \in DOMAIN nvs : ~HasArg(t, l, nvs[i][1])})]

(* The mutators that copy one variable into one field. *)
Copies(t, v, path, selected, field) ==
    LET x == Get(v, path) IN
    IF x.found THEN MutateIfApplicable(t, selected, Put(t, field, x.v)) ELSE t

----------------------------------------------------------------------------
(* The generic mutators of kubeadm clusters. *)

AuditPolicyPath == "/etc/kubernetes/audit-policy.yaml"
AuditPolicy(c, t) ==
    MutateIfApplicable(t, ControlPlane(t),
      LET a == AddArgs(AddFiles(t, <<File(AuditPolicyPath, <<"auditPolicy">>)>>), "apiServer",
                       << <<"audit-log-path", "audit.log">>, <<"audit-log-maxage", "30">>,
                          <<"audit-log-maxbackup", "90">>, <<"audit-log-maxsize", "100">>,
                          <<"audit-log-compress", "true">>, <<"audit-policy-file", AuditPolicyPath>> >>)
      IN [a EXCEPT !.volumes = @ \o << <<"audit-policy", AuditPolicyPath>>, <<"audit-logs", "/var/log/audit/">> >>])

Etcd(c, t) ==
    LET image == Get(c.cfg, "etcd.image")
        withArgs == AddArgs(t, "etcd", << <<"auto-tls", "false">>, <<"cipher-suites", "secure">>,
                                          <<"peer-auto-tls", "false">>, <<"tls-min-version", "TLS1.2">> >>)
        withTag == IF Has(image.v, "tag") THEN Put(withArgs, "etcd.tag", image.v.tag) ELSE withArgs
    IN MutateIfApplicable(t, ControlPlane(t),
         IF ~image.found THEN withArgs
         ELSE IF Has(image.v, "repository") THEN Put(withTag, "etcd.repository", image.v.repository)
         ELSE withTag)

(* The tag of the variable, or else of the template, or else the default   *)
(* of the Kubernetes version the Cluster names, as this mutator read it.   *)
CoreDNSVersions == 22..37
CoreDNS(c, t) ==
    LET var == Get(c.cfg, "dns.coreDNS")
        image == OrElse(c.cfg, "dns.coreDNS.image", NoVariables)
        repo == IF Has(image, "repository") THEN Put(t, "dns.repository", image.repository) ELSE t
    IN IF ~var.found THEN t
       ELSE MutateIfApplicable(t, ControlPlane(t),
              CASE Has(image, "tag") -> Put(repo, "dns.tag", image.tag)
                [] ~Has(image, "tag") /\ Has(t.fields, "dns.tag") -> repo
                [] OTHER -> IF c.seen.coredns \in CoreDNSVersions
                            THEN Put(repo, "dns.tag", <<"default for", c.seen.coredns>>)
                            ELSE Fail(repo))

DefaultAPIServerSANs(provider) ==
    CASE provider = "docker" -> {"localhost", "127.0.0.1", "0.0.0.0", "host.docker.internal"}
      [] provider = "nutanix" -> {"localhost", "127.0.0.1", "0.0.0.0"}
      [] OTHER -> {}
ExtraAPIServerCertSANs(c, t) ==
    LET sans == ToSet(OrElse(c.cfg, "extraAPIServerCertSANs", <<>>)) \cup DefaultAPIServerSANs(c.provider)
    IN IF sans = {} THEN t ELSE MutateIfApplicable(t, ControlPlane(t), Put(t, "certSANs", sans))

(* The same systemd drop-in for containerd and for the kubelet. *)
HTTPProxy(c, t) ==
    LET var == Get(c.cfg, "proxy")
        body == <<"proxy", var.v>>
    IN IF ~var.found \/ DOMAIN var.v = {} THEN t
       ELSE MutateIfApplicable(t, Kubeadm(t),
              AddFiles(t, <<File("containerd.service.d/http-proxy.conf", body),
                            File("kubelet.service.d/http-proxy.conf", body)>>))

KubernetesImageRepository(c, t) ==
    Copies(t, c.cfg, "kubernetesImageRepository", ControlPlane(t), "imageRepository")

(* Password authentication is enabled for the users that have a hash. *)
BootstrapUser(u) == Over(u, [lockPassword |-> ~Has(u, "hashedPassword")])
Users(c, t) ==
    LET users == Get(c.cfg, "users") IN
    IF ~users.found THEN t
    ELSE MutateIfApplicable(t, Kubeadm(t) \/ Nodeadm(t),
           Put(t, "users", [i \in DOMAIN users.v |-> BootstrapUser(users.v[i])]))

ContainerdMetrics(c, t) ==
    MutateIfApplicable(t, Kubeadm(t), AddFiles(t, <<File("patches/metrics-config.toml", <<"metrics">>)>>))
ContainerdUnprivilegedPorts(c, t) ==
    MutateIfApplicable(t, Kubeadm(t),
      AddFiles(t, <<File("patches/unprivileged-ports-config.toml", <<"unprivilegedPorts">>)>>))

(* Runs after every mutator that may have written a containerd patch file. *)
ApplyPatches == "/etc/caren/containerd/apply-patches.sh"
Restart == "/etc/caren/containerd/restart.sh"
ContainerdApplyPatchesAndRestart(c, t) ==
    MutateIfApplicable(t, Kubeadm(t),
      AddPre(AddFiles(t, <<File(ApplyPatches, <<"applyPatches">>), File(Restart, <<"restart">>)>>),
             <<ApplyPatches, Restart>>))

AutoRenewCerts(c, t) ==
    LET days == Get(c.cfg, "controlPlane.autoRenewCertificates.daysBeforeExpiry") IN
    MutateIfApplicable(t, ControlPlane(t),
      IF days.found /\ days.v # 0 THEN Put(t, "rolloutBefore", days.v)
      ELSE [t EXCEPT !.fields = [n \in DOMAIN @ \ {"rolloutBefore"} |-> @[n]]])

KubeProxyConfig == "/etc/kubernetes/kubeproxy-config.yaml"
KubeProxyMode(c, t) ==
    LET mode == Get(c.cfg, "kubeProxy.mode") IN
    CASE ~mode.found -> t
      [] mode.found /\ ControlPlane(t) ->
           CASE mode.v = "disabled" -> Put(t, "skipPhases", {"addon/kube-proxy"})
             [] mode.v \in {"iptables", "nftables"} ->
                  AddPre(AddFiles(t, <<File(KubeProxyConfig, <<mode.v>>)>>), <<KubeProxyConfig>>)
             [] OTHER -> Fail(t)
      [] OTHER -> MutateIfApplicable(t, ManagedControlPlane(t) /\ mode.v = "disabled",
                                     Put(t, "kubeProxy.disable", TRUE))

(* admissionconfiguration.AddPlugin: the plugin joins the file, the volumes *)
(* and the list of plugins that the template may already have.              *)
AdmissionConfig(t) ==
    IF HasArg(t, "apiServer", "admission-control-config-file")
    THEN ArgValue(t, "apiServer", "admission-control-config-file") ELSE "/etc/kubernetes/admission.yaml"
AddVolume(t, name, path) ==
    IF \E i \in DOMAIN t.volumes : t.volumes[i][2] = path THEN t
    ELSE [t EXCEPT !.volumes = Append(@, <<name, path>>)]
AddPlugin(t, name, path, content) ==
    LET config == AdmissionConfig(t)
        \* The body of an admission configuration is the sequence of its plugins: that of a
        \* class, or one made here, which parses.
        withConfig == IF ~HasFile(t, config) THEN AddFiles(t, <<File(config, <<name>>)>>)
                      ELSE [t EXCEPT !.files = [i \in DOMAIN @ |->
                              IF @[i].path = config /\ ~Contains(@[i].body, name)
                              THEN File(config, Append(@[i].body, name)) ELSE @[i]]]
        withFile == IF HasFile(t, path) THEN withConfig ELSE AddFiles(withConfig, <<File(path, content)>>)
        withVolumes == AddVolume(AddVolume(withFile, "admission-config", config), name, path)
        withArg == AddArg(withVolumes, "apiServer", "admission-control-config-file", config)
    IN IF ~HasArg(t, "apiServer", "enable-admission-plugins")
       THEN AddArg(withArg, "apiServer", "enable-admission-plugins", <<name>>)
       ELSE [withArg EXCEPT !.args["apiServer"] = [i \in DOMAIN @ |->
               IF @[i][1] = "enable-admission-plugins" /\ ~Contains(@[i][2], name)
               THEN <<@[i][1], Append(@[i][2], name)>> ELSE @[i]]]

PodSecurityAdmission(c, t) ==
    LET psa == Get(c.cfg, "podSecurityAdmission") IN
    IF ~psa.found THEN t
    ELSE MutateIfApplicable(t, ControlPlane(t),
           AddPlugin(t, "PodSecurity", "/etc/kubernetes/pod-security-admission.yaml", <<"psa", psa.v>>))

NTP(c, t) ==
    LET servers == Get(c.cfg, "ntp.servers") IN
    IF ~servers.found \/ servers.v = <<>> THEN t
    ELSE MutateIfApplicable(t, Kubeadm(t) \/ Nodeadm(t), Put(t, "ntp", servers.v))

(* New taints follow the ones the template has. *)
Taints(t, taints, lists) ==
    [t EXCEPT !.fields = Over([l \in lists |-> OrElse(t.fields, l, <<>>) \o taints], @)]
ControlPlaneTaints(c, t) ==
    LET taints == Get(c.cfg, "controlPlane.taints") IN
    IF ~taints.found THEN t
    ELSE MutateIfApplicable(t, ControlPlane(t), Taints(t, taints.v, {"initTaints", "joinTaints"}))
WorkerTaints(c, t) ==
    LET taints == Get(c.wc, "taints") IN
    IF ~taints.found THEN t
    ELSE MutateIfApplicable(
           MutateIfApplicable(t, WorkersKubeadmConfigTemplate(t), Taints(t, taints.v, {"joinTaints"})),
           Nodeadm(t), Put(t, "kubeletFlags", Append(OrElse(t.fields, "kubeletFlags", <<>>), taints.v)))

ControlPlaneNodeRegistration(c, t) ==
    LET ignore == Get(c.cfg, "controlPlane.nodeRegistration.ignorePreflightErrors") IN
    IF ~ignore.found \/ ignore.v = <<>> THEN t
    ELSE MutateIfApplicable(t, ControlPlane(t), Taints(t, ignore.v, {"initIgnore", "joinIgnore"}))
WorkerNodeRegistration(c, t) ==
    LET ignore == Get(c.wc, "nodeRegistration.ignorePreflightErrors") IN
    IF ~ignore.found \/ ignore.v = <<>> THEN t
    ELSE MutateIfApplicable(t, WorkersKubeadmConfigTemplate(t), Taints(t, ignore.v, {"joinIgnore"}))

(* By the builtin version, the one the control plane is at or goes to. *)
ExternalCloudProvider(c, t) ==
    IF ~Has(c.builtin, "cp") \/ c.builtin.cp >= 33 THEN t
    ELSE MutateIfApplicable(t, ControlPlane(t), AddArg(t, "apiServer", "cloud-provider", "external"))

(* Names in their alphabetical order. *)
ArgOrder == << "admission-control-config-file", "audit-log-compress", "audit-log-maxage",
    "audit-log-maxbackup", "audit-log-maxsize", "audit-log-path", "audit-policy-file", "auto-tls",
    "cipher-suites", "cloud-provider", "enable-admission-plugins", "encryption-provider-config",
    "image-credential-provider-bin-dir", "image-credential-provider-config", "peer-auto-tls",
    "profiling", "service-account-lookup", "terminated-pod-gc-threshold", "tls-cipher-suites",
    "tls-min-version" >>
Before(a, b) == \E i, j \in DOMAIN ArgOrder : i < j /\ ArgOrder[i] = a[1] /\ ArgOrder[j] = b[1]
SortExtraArgs(c, t) ==
    LET lists == IF ControlPlane(t) THEN ArgLists
                 ELSE IF WorkersKubeadmConfigTemplate(t) THEN {"kubeletJoin"} ELSE {}
    IN [t EXCEPT !.args = [l \in ArgLists |-> IF l \in lists THEN SortSeq(@[l], Before) ELSE @[l]]]

----------------------------------------------------------------------------
(* The kubelet's configuration: a patch file for what kubelet itself reads *)
(* and a script, run before kubeadm, for automatic reservations.           *)

KubeletPatch == "/etc/kubernetes/patches/kubeletconfiguration99+strategic.json"
ComputeReservations == "/etc/caren/compute-kubelet-reservations.sh"

(* The deprecated limit of the whole cluster, where there is no newer one. *)
ApplyDeprecatedMaxParallelImagePulls(c, kubelet) ==
    IF Has(c.cfg, "maxParallelImagePullsPerNode")
    THEN Over(kubelet, [maxParallelImagePulls |-> c.cfg["maxParallelImagePullsPerNode"]]) ELSE kubelet

(* Enforcing a reservation needs the cgroup it is enforced on. *)
ReservedCgroups(kubelet) ==
    LET enforced == OrElse(kubelet, "enforceNodeAllocatable", {}) IN
    {g \in {"system-reserved", "kube-reserved"} :
        enforced \cap {g, IF g = "system-reserved" THEN "system-reserved-compressible"
                                                   ELSE "kube-reserved-compressible"} # {}}
RenderKubeletConfigPatch(kubelet) ==
    File(KubeletPatch, <<[f \in DOMAIN kubelet \ {"automaticReservations"} |-> kubelet[f]], ReservedCgroups(kubelet)>>)

KubeletConfiguration(c, t, set, selected) ==
    LET kubelet == ApplyDeprecatedMaxParallelImagePulls(c, set)
        patched == IF DOMAIN kubelet \ {"automaticReservations"} = {} THEN t
                   ELSE AddFiles(t, <<RenderKubeletConfigPatch(kubelet)>>)
    IN MutateIfApplicable(t, selected,
         IF Has(kubelet, "automaticReservations")
         THEN AddPre(AddFiles(patched, <<File(ComputeReservations, <<"reservations">>)>>), <<ComputeReservations>>)
         ELSE patched)
ControlPlaneKubeletConfiguration(c, t) ==
    KubeletConfiguration(c, t, OrElse(c.cfg, "controlPlane.kubeletConfiguration", NoVariables), ControlPlane(t))
WorkerKubeletConfiguration(c, t) ==
    KubeletConfiguration(c, t, OrElse(c.wc, "kubeletConfiguration", NoVariables), WorkersKubeadmConfigTemplate(t))

----------------------------------------------------------------------------
(* The virtual IP of the control plane: kube-vip's static Pod is a file of *)
(* the class, which is filled in, or removed where there is no virtual IP. *)

KubeVIP == "/etc/kubernetes/manifests/kube-vip.yaml"
ConfigureForKubeVIP == "/etc/caren/configure-for-kube-vip.sh"
DeleteFiles(t, path) == [t EXCEPT !.files = Keep(@, {i \in DOMAIN @ : @[i].path # path})]
SlipMergeFiles(t, fs) == AddFiles(t, fs)
MergeFiles(t, fs) ==
    LET same(path) == CHOOSE i \in DOMAIN fs : fs[i].path = path
        merged == [i \in DOMAIN t.files |-> IF \E j \in DOMAIN fs : fs[j].path = t.files[i].path
                                            THEN fs[same(t.files[i].path)] ELSE t.files[i]]
    IN [t EXCEPT !.files = merged \o Keep(fs, {i \in DOMAIN fs : ~HasFile(t, fs[i].path)})]

(* Kubernetes 1.29 and later: the static Pod starts with another identity, *)
(* by the version of the Cluster as this mutator read it.                  *)
KubeVIPFromTemplate(c, t, endpoint) ==
    LET pod == File(KubeVIP, <<"kube-vip", OrElse(endpoint.virtualIP, "address", endpoint.host),
                               OrElse(endpoint.virtualIP, "port", endpoint.port)>>)
        hack == c.seen.virtualip >= 29
        merged == MergeFiles(t, IF hack THEN <<pod, File(ConfigureForKubeVIP, <<"configure">>)>> ELSE <<pod>>)
    IN CASE ~HasFile(t, KubeVIP) -> Fail(t)
         [] HasFile(t, KubeVIP) /\ ~hack -> merged
         [] OTHER -> [AddPre(merged, <<ConfigureForKubeVIP>>) EXCEPT !.post = Append(@, ConfigureForKubeVIP)]
ControlPlaneVirtualIP(c, t) ==
    LET endpoint == Get(c.cfg, "nutanix.controlPlaneEndpoint") IN
    IF ~endpoint.found THEN t
    ELSE MutateIfApplicable(t, ControlPlane(t),
           IF Has(endpoint.v, "virtualIP") THEN KubeVIPFromTemplate(c, t, endpoint.v)
           ELSE DeleteFiles(t, KubeVIP))
============================================================================
