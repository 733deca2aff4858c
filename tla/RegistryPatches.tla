-------------------------- MODULE RegistryPatches --------------------------
(***************************************************************************)
(* The mutators that read Secrets while they run: image registry           *)
(* credentials (handlers/generic/mutation/generic/imageregistries, and the *)
(* previous version under handlers/v6), containerd mirrors and CAs         *)
(* (.../mirrors) and the encryption of etcd (.../kubeadm/encryptionatrest).*)
(*                                                                         *)
(* A user's Secret is [user, ca]: which credentials and which CA it holds, *)
(* 0 for none.  c.secrets is what the credentials mutator read, c.cas what *)
(* the mirrors mutator read later.  A registry is [url, secret] with an    *)
(* optional secret, a URL is [host, path] as the user spelled it.          *)
(***************************************************************************)
EXTENDS PatchHandlers

KnownRegistryProviders == {"ecr", "gcr", "acr"}
NoSecret == [user |-> 0, ca |-> 0]

(* The Secret of a registry, none where it names none. *)
SecretForImageRegistryCredentials(secrets, r) == IF Has(r, "secret") THEN secrets[r.secret] ELSE NoSecret
SecretMissing(secrets, r) == Has(r, "secret") /\ r.secret \notin DOMAIN secrets

(* path.Clean and path.Join: neither a trailing slash nor "/" is kept. *)
Clean(path) == CASE path \in {"", "/"} -> "" [] path \in {"/nutanix", "/nutanix/"} -> "/nutanix" [] OTHER -> path
RegistryHostWithPath(url) == <<url.host, Clean(url.path)>>

ImageRegistries(c) == OrElse(c.cfg, "imageRegistries", <<>>)
GlobalMirror(c) == IF Has(c.cfg, "globalImageRegistryMirror") THEN <<c.cfg["globalImageRegistryMirror"]>> ELSE <<>>

----------------------------------------------------------------------------
(* Credentials: what kubelet's credential provider is told. *)

ProviderConfig(secrets, r, mirror) ==
    LET s == SecretForImageRegistryCredentials(secrets, r)
    IN [url |-> r.url, user |-> s.user, ca |-> s.ca # 0, mirror |-> mirror]
ProviderConfigs(c) ==
    [i \in DOMAIN ImageRegistries(c) |-> ProviderConfig(c.secrets, ImageRegistries(c)[i], FALSE)]
    \o [i \in DOMAIN GlobalMirror(c) |-> ProviderConfig(c.secrets, GlobalMirror(c)[i], TRUE)]

RequiresStaticCredentials(config) == config.url.host \notin KnownRegistryProviders
LacksCredentials(config) == config.user = 0 /\ RequiresStaticCredentials(config)
NeedsConfiguration(config) == ~LacksCredentials(config)
InvalidRegistry(config) == LacksCredentials(config) /\ ~config.mirror /\ ~config.ca

DockerHub == [host |-> "registry-1.docker.io", path |-> ""]
HasDockerHubRegistry(registries) ==
    \E i \in DOMAIN registries : registries[i].url \in {DockerHub, [host |-> "docker.io", path |-> ""]}

DeclaredRegistries(c) ==
    LET configs == ProviderConfigs(c)
    IN Keep(configs, {i \in DOMAIN configs : NeedsConfiguration(configs[i])})
(* Docker Hub is always configured, so that credentials for it can be      *)
(* delivered later without new nodes.                                      *)
RegistriesThatNeedConfiguration(c) ==
    DeclaredRegistries(c)
    \o (IF HasDockerHubRegistry(ImageRegistries(c)) THEN <<>>
        ELSE <<[url |-> DockerHub, user |-> 0, ca |-> FALSE, mirror |-> FALSE]>>)
(* The previous version adds no registry to the declared ones. *)
V6RegistriesThatNeedConfiguration(c) == DeclaredRegistries(c)
Configs(c) == IF c.v6 THEN V6RegistriesThatNeedConfiguration(c) ELSE RegistriesThatNeedConfiguration(c)

CredentialsFail(c) ==
    \/ \E i \in DOMAIN ImageRegistries(c) : SecretMissing(c.secrets, ImageRegistries(c)[i])
    \/ \E i \in DOMAIN GlobalMirror(c) : SecretMissing(c.secrets, GlobalMirror(c)[i])
    \/ \E i \in DOMAIN ProviderConfigs(c) : InvalidRegistry(ProviderConfigs(c)[i])
ConfigsRequireStaticCredentials(configs) == \E i \in DOMAIN configs : RequiresStaticCredentials(configs[i])

(* The generated Secret: one entry per host, and docker.io for Docker Hub. *)
(* The path only counts for the Nutanix organisation on Docker Hub.        *)
IsDockerHubNutanixOrgURL(url) ==
    url.host \in {"docker.io", "registry-1.docker.io"} /\ Clean(url.path) = "/nutanix"
EntriesAt(config, path) ==
    LET entry(host) == [host |-> <<host, path>>, user |-> config.user]
    IN IF config.url.host = "registry-1.docker.io" THEN <<entry("registry-1.docker.io"), entry("docker.io")>>
       ELSE <<entry(config.url.host)>>
CredentialEntries(config) == EntriesAt(config, IF IsDockerHubNutanixOrgURL(config.url) THEN "/nutanix" ELSE "")
V6CredentialEntries(config) == EntriesAt(config, "")
KubeletStaticCredentialProviderSecretContents(c) ==
    LET configs == Configs(c)
        static == Keep(configs, {i \in DOMAIN configs : RequiresStaticCredentials(configs[i])})
    IN FlattenSeq([i \in DOMAIN static |->
         IF c.v6 THEN V6CredentialEntries(static[i]) ELSE CredentialEntries(static[i])])
(* No Secret is applied where no registry needs static credentials. *)
GeneratesSecret(c) == ConfigsRequireStaticCredentials(Configs(c))

(* Entries are the members of one JSON object: the last one of a host counts. *)
CredentialsServed(contents, host) ==
    LET of == {i \in DOMAIN contents : contents[i].host = host}
    IN IF of = {} THEN 0 ELSE contents[CHOOSE i \in of : \A j \in of : j <= i].user

(* Which provider serves which hosts; hosts and providers are sorted, so   *)
(* neither the order of the variable nor that of a Go map shows.           *)
DynamicCredentialProvider(host) == IF host[1] \in KnownRegistryProviders THEN host[1] ELSE "static"
TemplateDynamicCredentialProviderConfig(configs) ==
    LET hosts == [i \in DOMAIN configs |-> RegistryHostWithPath(configs[i].url)]
        mirrors == Keep(configs, {i \in DOMAIN configs : configs[i].mirror})
    IN [mirror |-> IF mirrors = <<>> THEN <<>> ELSE RegistryHostWithPath(Last(mirrors).url),
        providers |-> [p \in {DynamicCredentialProvider(hosts[i]) : i \in DOMAIN hosts} |->
                         [h \in {hosts[i] : i \in {j \in DOMAIN hosts : DynamicCredentialProvider(hosts[j]) = p}} |->
                            Cardinality({i \in DOMAIN hosts : hosts[i] = h})]]]

InstallProviders == "/etc/caren/install-kubelet-credential-providers.sh"
ImageCredentialProviderConfig == "/etc/kubernetes/image-credential-provider-config.yaml"
DynamicProviderConfig == "/etc/kubernetes/dynamic-credential-provider-config.yaml"
StaticCredentials == "/etc/kubernetes/static-image-credentials.json"
GeneratedCredentials == "generated credentials"
SlipCredentialFiles(configs) ==
    << File(InstallProviders, <<"install">>),
       File(ImageCredentialProviderConfig, [i \in DOMAIN configs |-> RegistryHostWithPath(configs[i].url)]),
       File(DynamicProviderConfig, <<TemplateDynamicCredentialProviderConfig(configs)>>) >>
    \o IF ConfigsRequireStaticCredentials(configs)
       THEN <<File(StaticCredentials, [i \in DOMAIN configs |-> configs[i].user])>> ELSE <<>>
CredentialFiles(configs) ==
    << File(InstallProviders, <<"install">>),
       File(ImageCredentialProviderConfig, [i \in DOMAIN configs |-> RegistryHostWithPath(configs[i].url)]),
       File(DynamicProviderConfig, <<TemplateDynamicCredentialProviderConfig(configs)>>) >>
    \o IF ConfigsRequireStaticCredentials(configs)
       THEN <<FromSecret(StaticCredentials, GeneratedCredentials)>> ELSE <<>>
AddImageCredentialProviderArgs(t, l) ==
    AddArgs(t, l, << <<"image-credential-provider-bin-dir", "image-credential-provider">>,
                     <<"image-credential-provider-config", ImageCredentialProviderConfig>> >>)

ConfigureCredentials(c, t, configs) ==
    LET prepared == AddPre(AddFiles(t, CredentialFiles(configs)), <<InstallProviders>>)
        joined == AddImageCredentialProviderArgs(prepared, "kubeletJoin")
    IN CASE CredentialsFail(c) -> Fail(t)
         [] ~CredentialsFail(c) /\ ~Kubeadm(t) -> t
         [] OTHER -> IF ControlPlane(t) THEN AddImageCredentialProviderArgs(joined, "kubeletInit") ELSE joined
Credentials(c, t) == ConfigureCredentials(c, t, RegistriesThatNeedConfiguration(c))
(* The previous version does nothing where no registry needs configuration. *)
V6Credentials(c, t) ==
    IF ~CredentialsFail(c) /\ V6RegistriesThatNeedConfiguration(c) = <<>> THEN t
    ELSE ConfigureCredentials(c, t, V6RegistriesThatNeedConfiguration(c))

----------------------------------------------------------------------------
(* Mirrors: what containerd is told. *)

ContainerdConfig(secrets, r, mirror) ==
    LET s == SecretForImageRegistryCredentials(secrets, r)
    IN [url |-> r.url, mirror |-> mirror, ca |-> s.ca, secret |-> IF s.ca # 0 THEN r.secret ELSE "none"]
(* The registry add-on is a mirror with a CA of its own. *)
RegistryAddonCA == "registry add-on CA"
RegistryAddonConfig == [url |-> [host |-> "registry add-on", path |-> ""], mirror |-> TRUE, ca |-> 1,
                        secret |-> RegistryAddonCA]
ContainerdConfigs(c) ==
    [i \in DOMAIN GlobalMirror(c) |-> ContainerdConfig(c.cas, GlobalMirror(c)[i], TRUE)]
    \o [i \in DOMAIN ImageRegistries(c) |-> ContainerdConfig(c.cas, ImageRegistries(c)[i], FALSE)]
    \o (IF Has(c.cfg, "addons.registry") THEN <<RegistryAddonConfig>> ELSE <<>>)

(* One CA file per host; two different CAs for one host are refused. *)
WithCA(configs) == Keep(configs, {i \in DOMAIN configs : configs[i].secret # "none"})
ConflictingCAs(configs) ==
    \E i, j \in DOMAIN configs : /\ configs[i].url.host = configs[j].url.host
                                 /\ configs[i].secret # "none" /\ configs[j].secret # "none"
                                 /\ configs[i].ca # configs[j].ca
NeedContainerdConfiguration(configs) == \E i \in DOMAIN configs : configs[i].mirror \/ configs[i].ca # 0
MirrorsFail(c) ==
    \/ \E i \in DOMAIN ImageRegistries(c) : SecretMissing(c.cas, ImageRegistries(c)[i])
    \/ \E i \in DOMAIN GlobalMirror(c) : SecretMissing(c.cas, GlobalMirror(c)[i])
    \/ NeedContainerdConfiguration(ContainerdConfigs(c)) /\ ConflictingCAs(ContainerdConfigs(c))

HostsFile == "/etc/containerd/certs.d/_default/hosts.toml"
CAFilePath(host) == "/etc/containerd/certs.d/ca.crt of " \o host
ContainerdFiles(configs) ==
    LET mirrors == Keep(configs, {i \in DOMAIN configs : configs[i].mirror})
        cas == WithCA(configs)
        firstOfHost(i) == \A j \in DOMAIN cas : j < i => cas[j].url.host # cas[i].url.host
        files == [i \in DOMAIN cas |-> IF firstOfHost(i)
                    THEN <<FromSecret(CAFilePath(cas[i].url.host), cas[i].secret)>> ELSE <<>>]
    IN (IF mirrors = <<>> THEN <<>>
        ELSE <<File(HostsFile, [i \in DOMAIN mirrors |->
                      <<mirrors[i].url.host, Clean(mirrors[i].url.path), mirrors[i].ca # 0>>])>>)
       \o FlattenSeq(files) \o <<File("patches/registry-config.toml", <<"registry config">>)>>

Mirrors(c, t) ==
    LET configs == ContainerdConfigs(c) IN
    CASE MirrorsFail(c) -> Fail(t)
      [] ~MirrorsFail(c) /\ ~NeedContainerdConfiguration(configs) -> t
      [] OTHER -> MutateIfApplicable(t, Kubeadm(t), AddFiles(t, ContainerdFiles(configs)))

----------------------------------------------------------------------------
(* Encryption at rest: the template names the Secret, never the key. *)

EncryptionConfig == "/etc/kubernetes/pki/encryptionconfig.yaml"
EncryptionKey == "encryption key"
EncryptionAtRest(c, t) ==
    IF ~Has(c.cfg, "encryptionAtRest") THEN t
    ELSE MutateIfApplicable(t, ControlPlane(t),
           AddArg(AddFiles(t, <<FromSecret(EncryptionConfig, EncryptionKey)>>),
                  "apiServer", "encryption-provider-config", EncryptionConfig))
============================================================================
