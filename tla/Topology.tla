------------------------------ MODULE Topology ------------------------------
(***************************************************************************)
(* A Cluster on its way from the user to the templates of its machines:    *)
(* the webhooks admit it (module ClusterAdmission), the BeforeClusterCreate*)
(* hook prepares it, and then, on every reconcile for as long as the       *)
(* Cluster lives, CAPI calls GeneratePatches, whose mutators are those of  *)
(* PatchHandlers, RegistryPatches and ProviderPatches.                     *)
(*                                                                         *)
(* Most mutators are functions of the request.  The others also talk to    *)
(* the API server: a call is the sequence of these steps, and the Cluster, *)
(* its Secrets and other calls may change between any two of them.  Reads  *)
(* come from the manager's cache, which lags behind the API server.        *)
(***************************************************************************)
EXTENDS ClusterAdmission

CONSTANTS
    Requests,       \* a sequence of the specifications that a user may submit
    Contents,       \* for each user's Secret the sequence of its successive contents
    Versions,       \* minor versions of Kubernetes
    Legacy,         \* those that a Cluster may have had before there were webhooks
    MaxEvents       \* how often the user writes the Cluster again or changes a Secret, or a call
                    \* fails, times out or is lost in a crash

SecretNames == DOMAIN Contents
(* "key" is the encryption key, "ca" the registry add-on's CA, "version"   *)
(* spec.topology.version of the Cluster.                                   *)
Objects == SecretNames \cup {"key", "ca", "version"}

(* The registries that the variables name, and their Secrets. *)
DeclaredIn(s) ==
    OrElse(s.cfg, "imageRegistries", <<>>)
    \o (IF Has(s.cfg, "globalImageRegistryMirror") THEN <<s.cfg["globalImageRegistryMirror"]>> ELSE <<>>)
NamedSecrets(s) ==
    LET registries == DeclaredIn(s)
    IN {registries[i].secret : i \in {j \in DOMAIN registries : Has(registries[j], "secret")}}

(* Files of the nodes by whose paths others know them; no CA has such a    *)
(* path, whatever its host.                                                *)
NodeFiles == {KubeVIP, KubeletPatch, ComputeReservations}

IsList(s) == s \in Seq(Range(s))
WellFormed(s) ==
    /\ DOMAIN s = {"provider", "v6", "cfg", "wc", "pools", "skip"}
    /\ s.provider \in {"nutanix", "aws", "eks", "docker"} /\ s.v6 \in BOOLEAN
    /\ s.skip \subseteq {"cilium", "registry"}
    /\ IsList(s.pools) /\ IsList(OrElse(s.cfg, "imageRegistries", <<>>))
    /\ NamedSecrets(s) \subseteq SecretNames
    /\ \A i \in DOMAIN DeclaredIn(s) : CAFilePath(DeclaredIn(s)[i].url.host) \notin NodeFiles
ASSUME RequestsAssumption ==
    /\ IsList(Requests) /\ \A i \in DOMAIN Requests : WellFormed(Requests[i])
    /\ Legacy \subseteq DOMAIN Requests /\ MaxEvents \in Nat
    /\ Versions \subseteq Nat \ {0} /\ Versions # {}
ASSUME AddonCAAssumption == CAFilePath(RegistryAddonConfig.url.host) \notin NodeFiles
ASSUME SecretsAssumption ==
    /\ \A n \in SecretNames :
         /\ Contents[n] # <<>> /\ IsList(Contents[n])
         /\ \A i \in DOMAIN Contents[n] : Contents[n][i].user \in Nat /\ Contents[n][i].ca \in Nat
    /\ {"key", "ca", "version", "none", GeneratedCredentials, EncryptionKey, RegistryAddonCA} \cap SecretNames = {}

VARIABLES
    cluster,    \* the Cluster: the request it came from (0: none), the registry add-on, its UUID
    store,      \* what the API server holds of each object, 0 for nothing
    cache,      \* what the manager's cache shows of it
    owned,      \* the user's Secrets that the Cluster owns
    generated,  \* the contents of the credentials Secret that the handlers generate
    management, \* whether the management cluster has the registry add-on
    created,    \* whether BeforeClusterCreate has been answered
    builtin,    \* the version of the control plane that CAPI last asked for
    call,       \* the GeneratePatches call that CAPI waits for
    zombie,     \* a call that it has given up, and whose handler still runs
    answer,     \* the last answer that CAPI used
    events      \* how many events there were so far
vars == <<cluster, store, cache, owned, generated, management, created, builtin, call, zombie, answer, events>>

----------------------------------------------------------------------------
(* The specification as the webhooks leave it. *)
Table == Requests
ContentsOf == Contents
(* f itself, as a table: TLC evaluates it once, to compare it. *)
Tabulated(f) == CHOOSE table \in {f} : table = f
Defaults == Tabulated([i \in DOMAIN Table |-> Tabulated([registry \in BOOLEAN |-> Defaulted(Table[i], registry)])])
Admitted == Tabulated([i \in DOMAIN Table |-> Tabulated([registry \in BOOLEAN |-> Allowed(Defaults[i][registry])])])
SpecOf(x) == Defaults[x.spec][x.registry]

SecretsNamed == Tabulated([i \in DOMAIN Table |-> NamedSecrets(Table[i])])

(* The steps of the mutators on the control plane's template (t = 0) and   *)
(* on the bootstrap template of pool t.                                    *)
OneStep(op, t) == <<[op |-> op, t |-> t]>>
When(condition, steps) == IF condition THEN steps ELSE <<>>
RegistrySteps(s, t) ==
    LET declared == Has(s.cfg, "imageRegistries") \/ Has(s.cfg, "globalImageRegistryMirror") IN
    When(~s.v6 \/ declared, OneStep("credentials", t) \o OneStep("apply", t))
    \o When(declared \/ Has(s.cfg, "addons.registry"), OneStep("mirrors", t))
VirtualIPRead(s) == Has(OrElse(s.cfg, "nutanix.controlPlaneEndpoint", NoVariables), "virtualIP")
Program(s) ==
    IF s.provider = "eks" THEN <<>>
    ELSE When(VirtualIPRead(s), OneStep("virtualip", 0))
         \o When(Has(s.cfg, "dns.coreDNS"), OneStep("coredns", 0))
         \o RegistrySteps(s, 0)
         \o When(Has(s.cfg, "encryptionAtRest"), OneStep("keyExists", 0) \o OneStep("keyCreate", 0))
         \o FlattenSeq([t \in DOMAIN s.pools |-> RegistrySteps(s, t)])
Programs == Tabulated([i \in DOMAIN Table |-> Tabulated([registry \in BOOLEAN |-> Program(Defaults[i][registry])])])
ProgramOf(x) == Programs[x.spec][x.registry]

NoCall == [spec |-> 0, registry |-> FALSE, cp |-> 0, reads |-> <<>>]
Current(x) == ProgramOf(x)[Len(x.reads) + 1]
Done(x) == Len(x.reads) = Len(ProgramOf(x))

(* The Secrets that were there when they were read. *)
Present(read) == [n \in {m \in DOMAIN read : read[m] # 0} |-> ContentsOf[n][read[n]]]
(* What a call has read: the Secrets or the version at a step that its     *)
(* program has, and has behind it.                                         *)
Place(x, op, t) == SelectInSeq(ProgramOf(x), LAMBDA p : p = [op |-> op, t |-> t])
HasRead(x, op, t) == Place(x, op, t) \in DOMAIN x.reads
SecretsRead(x, op, t) ==
    IF ~HasRead(x, op, t) THEN NoVariables
    ELSE Present(x.reads[Place(x, op, t)])
VersionSeen(x, op) == IF HasRead(x, op, 0) THEN x.reads[Place(x, op, 0)] ELSE 0

(* The context of the mutators for the templates t of a call. *)
ContextOf(s, t, cp, seen, secrets, cas) ==
    [provider |-> s.provider, v6 |-> s.v6, cfg |-> s.cfg, wc |-> IF t = 0 THEN s.wc ELSE WorkerConfig(s, t),
     builtin |-> [cp |-> cp, md |-> cp], seen |-> seen, secrets |-> secrets, cas |-> cas]
Context(x, t) ==
    ContextOf(SpecOf(x), t, x.cp, [virtualip |-> VersionSeen(x, "virtualip"), coredns |-> VersionSeen(x, "coredns")],
              SecretsRead(x, "credentials", t), SecretsRead(x, "mirrors", t))

(* What the registry mutators make of the Secrets that they read. *)
SecretReads(s) ==
    LET all == [NamedSecrets(s) -> UNION {0..Len(ContentsOf[n]) : n \in SecretNames}]
    IN {r \in all : \A n \in DOMAIN r : r[n] <= Len(ContentsOf[n])}
(* Those that found every Secret. *)
CompleteReads(s) == {r \in SecretReads(s) : \A n \in DOMAIN r : r[n] # 0}
NoVersions == [virtualip |-> 0, coredns |-> 0]
CredentialsRead ==
    Tabulated([i \in DOMAIN Table |-> Tabulated([read \in SecretReads(Table[i]) |->
        LET c == ContextOf(Table[i], 0, 0, NoVersions, Present(read), NoVariables)
            fails == CredentialsFail(c)
        IN [fails |-> fails, nothing |-> ~fails /\ c.v6 /\ Configs(c) = <<>>, generates |-> ~fails /\ GeneratesSecret(c),
            contents |-> IF fails THEN <<>> ELSE KubeletStaticCredentialProviderSecretContents(c)]])])
MirrorsReadFails ==
    Tabulated([i \in DOMAIN Table |-> Tabulated([registry \in BOOLEAN |-> Tabulated([read \in SecretReads(Table[i]) |->
        MirrorsFail(ContextOf(Defaults[i][registry], 0, 0, NoVersions, NoVariables, Present(read)))])])])

----------------------------------------------------------------------------
(* The answer to a call.  A template depends on a few of the reads, so all *)
(* the answers there can be are tabulated.                                 *)

Relevant(program, t) ==
    {i \in DOMAIN program : program[i].t = t /\ program[i].op \in {"virtualip", "coredns", "credentials", "mirrors"}}
ReadsOf(x, t) == [i \in Relevant(ProgramOf(x), t) |-> x.reads[i]]
(* What a call can have read that did not fail for want of a Secret. *)
PossibleReads(s, program, t) ==
    LET versioned == {i \in Relevant(program, t) : program[i].op \in {"virtualip", "coredns"}}
    IN {[i \in Relevant(program, t) |-> IF i \in versioned THEN v[i] ELSE r[i]] :
            v \in [versioned -> Versions], r \in [Relevant(program, t) \ versioned -> CompleteReads(s)]}

(* A call that has read r, and else what there was at first. *)
Lowest == CHOOSE v \in Versions : \A w \in Versions : v <= w
FirstRead(i, registry, k) ==
    IF Programs[i][registry][k].op \in {"credentials", "mirrors"} THEN [n \in NamedSecrets(Table[i]) |-> 1] ELSE Lowest
CallWith(i, registry, cp, r) ==
    [spec |-> i, registry |-> registry, cp |-> cp,
     reads |-> [k \in DOMAIN Programs[i][registry] |-> IF k \in DOMAIN r THEN r[k] ELSE FirstRead(i, registry, k)]]
NodeTemplate(x, t) ==
    GeneratePatches(Context(x, t), IF t = 0 THEN ControlPlaneTemplate(SpecOf(x).provider)
                                   ELSE BootstrapTemplate(SpecOf(x).provider, SpecOf(x).pools[t].name))
NodeTemplates ==
    Tabulated([i \in DOMAIN Table |-> Tabulated([registry \in BOOLEAN |-> Tabulated([t \in 0..Len(Table[i].pools) |->
        Tabulated([k \in Versions \X PossibleReads(Table[i], Programs[i][registry], t) |->
                     NodeTemplate(CallWith(i, registry, k[1], k[2]), t)])])])])
NodeTemplateOf(x, t) == NodeTemplates[x.spec][x.registry][t][<<x.cp, ReadsOf(x, t)>>]

(* The templates that no read has a part in: of the mutators that read, the*)
(* registries' do nothing to them, but they fail for want of a Secret.     *)
WithoutRegistries(c) ==
    [c EXCEPT !.cfg = [n \in DOMAIN @ \ {"imageRegistries", "globalImageRegistryMirror"} |-> @[n]]]
ClusterTemplate(x) ==
    GeneratePatches(WithoutRegistries(Context(x, 0)), InfrastructureTemplate(SpecOf(x).provider))
Machines(x, t) ==
    GeneratePatches(WithoutRegistries(Context(x, t)), IF t = 0 THEN MachineTemplate(SpecOf(x).provider, "machineInfrastructureRef", "")
                                   ELSE MachineTemplate(SpecOf(x).provider, "mdInfrastructureRef", SpecOf(x).pools[t].name))

(* Mutators that read nothing fail for every call: on the template of the  *)
(* infrastructure cluster, which comes first, or on that of machines.      *)
ClusterTemplateFails ==
    Tabulated([i \in DOMAIN Table |-> ClusterTemplate(CallWith(i, FALSE, 0, <<>>)).err])
MachinesFail ==
    Tabulated([i \in DOMAIN Table |->
        \E t \in 0..Len(Table[i].pools) : Machines(CallWith(i, FALSE, 0, <<>>), t).err])

----------------------------------------------------------------------------
(* The user, the management cluster and the webhooks. *)

Event == events < MaxEvents /\ events' = events + 1

Submit(i, uuid, keep) ==
    LET registry == keep \/ AutoEnables(Table[i], management)
        uuidOf == UUIDDefaulter(cluster.uuid, uuid, cluster.uuid + 1)
    IN /\ IF cluster.spec = 0 THEN UNCHANGED events ELSE Event
       /\ cluster.spec # 0 => Table[i].provider = Table[cluster.spec].provider
       /\ keep => cluster.registry
       /\ Admitted[i][registry] /\ UUIDAllows(cluster.uuid, uuidOf)
       /\ cluster' = [spec |-> i, registry |-> registry, uuid |-> uuidOf]
          /\ UNCHANGED <<store, cache, owned, generated, management, created, builtin, call, zombie, answer>>
Upgrade(v) ==
    /\ cluster.spec # 0 /\ Event /\ v > store["version"]
    /\ store' = [store EXCEPT !["version"] = v]
    /\ UNCHANGED <<cluster, cache, owned, generated, management, created, builtin, call, zombie, answer>>
(* A Secret is created, changed, or deleted, and with it its owners. *)
Rotate(s, content) ==
    /\ Event /\ content # store[s]
    /\ store' = [store EXCEPT ![s] = content]
    /\ owned' = IF content = 0 THEN owned \ {s} ELSE owned
    /\ UNCHANGED <<cluster, cache, generated, management, created, builtin, call, zombie, answer>>
EnableManagementRegistry ==
    /\ ~management /\ Event /\ management' = TRUE
    /\ UNCHANGED <<cluster, store, cache, owned, generated, created, builtin, call, zombie, answer>>

(* An event reaches the informer. *)
Sync(o) ==
    /\ cache[o] # store[o]
    /\ cache' = [cache EXCEPT ![o] = store[o]]
    /\ UNCHANGED <<cluster, store, owned, generated, management, created, builtin, call, zombie, answer, events>>

----------------------------------------------------------------------------
(* CAPI.  The registry handler prepares a CA for a Cluster that has the    *)
(* add-on when it is created.                                              *)

BeforeClusterCreate ==
    /\ cluster.spec # 0 /\ ~created
    /\ created' = TRUE
    /\ store' = IF Has(SpecOf(cluster).cfg, "addons.registry") THEN [store EXCEPT !["ca"] = 1] ELSE store
    /\ UNCHANGED <<cluster, cache, owned, generated, management, builtin, call, zombie, answer, events>>

Begin(cp) ==
    /\ created /\ call = NoCall
    /\ builtin' = cp
    /\ call' = IF ClusterTemplateFails[cluster.spec] THEN NoCall
               ELSE [spec |-> cluster.spec, registry |-> cluster.registry, cp |-> cp, reads |-> <<>>]
    /\ UNCHANGED <<cluster, store, cache, owned, generated, management, created, zombie, answer, events>>
(* Without an error CAPI uses the answer. *)
Fails(x) == MachinesFail[x.spec] \/ \E t \in 0..Len(SpecOf(x).pools) : NodeTemplateOf(x, t).err
Finish ==
    /\ call # NoCall /\ Done(call)
    /\ answer' = IF Fails(call) THEN answer ELSE call
    /\ call' = NoCall
    /\ UNCHANGED <<cluster, store, cache, owned, generated, management, created, builtin, zombie, events>>

----------------------------------------------------------------------------
(* One step of a call x.  A step that fails ends the call. *)

CachedSecrets(x) == [n \in SecretsNamed[x.spec] |-> cache[n]]
Read(x) ==
    LET op == Current(x).op IN
    CASE op \in {"virtualip", "coredns"} -> cache["version"]
      [] op \in {"credentials", "mirrors"} -> CachedSecrets(x)
      [] op = "keyExists" -> cache["key"]
      [] OTHER -> 0

(* The credentials mutator: the Secrets that the API server holds get an   *)
(* owner, then the generated one is applied.  A failure between the two    *)
(* leaves nothing but owners, which the next call sets again.  The mutator *)
(* of the previous version may find nothing to configure.                  *)
SlipOwnerReferenceFails(x) == FALSE
OwnerReferenceFails(x) == \E n \in SecretsNamed[x.spec] : store[n] = 0
SlipCreateSecretIfNeeded(read) == IF read.generates /\ generated = <<>> THEN read.contents ELSE generated
CreateSecretIfNeeded(read) == IF read.generates THEN read.contents ELSE generated
(* Create never replaces an object: it fails where there is one. *)
CreateEncryptionKey == [store EXCEPT !["key"] = @ + 1]

(* The read before a step that writes is the one it acts on. *)
CredentialsAt(x) == CredentialsRead[x.spec][Last(x.reads)]
KeyFound(x) == Last(x.reads) # 0
SlipKeyConflict(x) == FALSE
KeyConflict(x) == ~KeyFound(x) /\ store["key"] # 0
SlipAddonCAMissing(x) == FALSE
AddonCAMissing(x) == Has(SpecOf(x).cfg, "addons.registry") /\ cache["ca"] = 0
StepFails(x) ==
    LET p == Current(x) IN
    CASE p.op = "credentials" -> CredentialsRead[x.spec][CachedSecrets(x)].fails
      [] p.op = "apply" -> ~CredentialsAt(x).nothing /\ OwnerReferenceFails(x)
      [] p.op = "mirrors" -> MirrorsReadFails[x.spec][x.registry][CachedSecrets(x)] \/ AddonCAMissing(x)
      [] p.op = "keyCreate" -> KeyConflict(x)
      [] OTHER -> FALSE
Writes(x) ==
    LET p == Current(x) IN
    CASE p.op = "apply" /\ ~CredentialsAt(x).nothing ->
           /\ owned' = owned \cup SecretsNamed[x.spec]
           /\ generated' = CreateSecretIfNeeded(CredentialsAt(x))
           /\ UNCHANGED store
      [] p.op = "keyCreate" /\ ~KeyFound(x) -> store' = CreateEncryptionKey /\ UNCHANGED <<owned, generated>>
      [] OTHER -> UNCHANGED <<store, owned, generated>>
Advance(x, x2) ==
    LET fails == StepFails(x) IN
    /\ x2 = IF fails THEN NoCall ELSE [x EXCEPT !.reads = Append(@, Read(x))]
    /\ IF fails THEN UNCHANGED <<store, owned, generated>> ELSE Writes(x)
    /\ UNCHANGED <<cluster, cache, management, created, builtin, answer, events>>

Step == call # NoCall /\ ~Done(call) /\ Advance(call, call') /\ UNCHANGED zombie
(* Nobody waits for the answer of an abandoned call. *)
ZombieStep == zombie # NoCall /\ ~Done(zombie) /\ Advance(zombie, zombie') /\ UNCHANGED call
ZombieEnds ==
    /\ zombie # NoCall /\ Done(zombie) /\ zombie' = NoCall
    /\ UNCHANGED <<cluster, store, cache, owned, generated, management, created, builtin, call, answer, events>>

----------------------------------------------------------------------------
(* Faults: an error of the API server, a call that CAPI gives up while its *)
(* handler still runs, a restart, which fills the cache anew.              *)

APIError ==
    /\ call # NoCall /\ ~Done(call) /\ Event /\ call' = NoCall
    /\ UNCHANGED <<cluster, store, cache, owned, generated, management, created, builtin, zombie, answer>>
Timeout ==
    /\ call # NoCall /\ ~Done(call) /\ zombie = NoCall /\ Event
    /\ zombie' = call /\ call' = NoCall
    /\ UNCHANGED <<cluster, store, cache, owned, generated, management, created, builtin, answer>>
Crash ==
    /\ call # NoCall \/ zombie # NoCall
    /\ Event /\ call' = NoCall /\ zombie' = NoCall /\ cache' = store
    /\ UNCHANGED <<cluster, store, owned, generated, management, created, builtin, answer>>

----------------------------------------------------------------------------
(* A Cluster that is new, or older than the webhooks. *)
Init ==
    /\ \E i \in {0} \cup Legacy :
         /\ cluster = [spec |-> i, registry |-> FALSE, uuid |-> 0]
         /\ created = (i # 0)
    /\ store = [o \in Objects |-> CASE o = "version" -> Lowest [] o \in SecretNames -> 1 [] o = "key" -> 0
                  [] o = "ca" -> IF created /\ Has(SpecOf(cluster).cfg, "addons.registry") THEN 1 ELSE 0]
    /\ cache = store
    /\ owned = {} /\ generated = <<>> /\ management = FALSE
    /\ builtin = Lowest
    /\ call = NoCall /\ zombie = NoCall /\ answer = NoCall
    /\ events = 0

Reconcile == \E cp \in {builtin, store["version"]} : Begin(cp)
Next ==
    \/ \E i \in DOMAIN Table, uuid \in {0, cluster.uuid, 9} \ (IF cluster.spec = 0 THEN {9} ELSE {}), keep \in BOOLEAN : Submit(i, uuid, keep)
    \/ \E v \in Versions : Upgrade(v)
    \/ \E s \in SecretNames : \E content \in 0..Len(Contents[s]) : Rotate(s, content)
    \/ EnableManagementRegistry
    \/ \E o \in Objects : Sync(o)
    \/ BeforeClusterCreate
    \/ Reconcile
    \/ Step
    \/ Finish
    \/ ZombieStep
    \/ ZombieEnds
    \/ APIError \/ Timeout \/ Crash

(* CAPI reconciles every Cluster periodically, handlers run, and informers *)
(* deliver; nothing is assumed of the user or of faults.                   *)
Fairness ==
    /\ WF_vars(BeforeClusterCreate) /\ WF_vars(Reconcile) /\ WF_vars(Step) /\ WF_vars(Finish) /\ WF_vars(ZombieStep \/ ZombieEnds)
    /\ WF_vars(\E o \in Objects : Sync(o))
Spec == Init /\ [][Next]_vars /\ Fairness

----------------------------------------------------------------------------
(* Every variable has its type; a Secret that is owned is there, and no    *)
(* call is past the end of its program.                                    *)
TypeOK ==
    /\ cluster \in [spec : 0..Len(Table), registry : BOOLEAN, uuid : Nat]
    /\ \A o \in Objects : \A f \in {store, cache} :
         f[o] \in CASE o = "version" -> Versions [] o \in SecretNames -> 0..Len(ContentsOf[o]) [] o = "ca" -> {0, 1} [] OTHER -> Nat
    /\ owned \subseteq {s \in SecretNames : store[s] # 0} /\ created \in BOOLEAN /\ management \in BOOLEAN /\ builtin \in Versions
    /\ \A i \in DOMAIN generated : generated[i].user \in Nat
    /\ \A x \in {call, zombie, answer} :
         x # NoCall => x.spec \in DOMAIN Table /\ x.cp \in Versions /\ Len(x.reads) <= Len(ProgramOf(x))
    /\ events \in 0..MaxEvents

(* encryptionatrest/inject.go:108, "we do not rotate or override the       *)
(* secret keys": once there is a key, no call replaces it, however old the *)
(* cache it decides by and however many calls run at once.                 *)
KeyNeverReplaced == [][store["key"] # 0 => store'["key"] = store["key"]]_vars

----------------------------------------------------------------------------
(* What mutators that know nothing of each other must agree on. *)

PathsOnce(t) ==
    /\ \A i, j \in DOMAIN t.files : t.files[i].path = t.files[j].path => i = j
    /\ \A i, j \in DOMAIN t.volumes : t.volumes[i][2] = t.volumes[j][2] => i = j
ArgsOnceInOrder(t) ==
    Kubeadm(t) => \A l \in ArgLists : \A i, j \in DOMAIN t.args[l] : i < j =>
        /\ t.args[l][i][1] # t.args[l][j][1]
        /\ ControlPlane(t) \/ l = "kubeletJoin" => Before(t.args[l][i], t.args[l][j])
(* What a command, an argument or a volume names is delivered as a file. *)
FileArgs == {"admission-control-config-file", "audit-policy-file", "encryption-provider-config",
             "image-credential-provider-config"}
FilesDelivered(t) ==
    /\ \A cmd \in ToSet(t.pre) \cup ToSet(t.post) : HasFile(t, cmd)
    /\ \A l \in ArgLists : \A i \in DOMAIN t.args[l] : t.args[l][i][1] \in FileArgs => HasFile(t, t.args[l][i][2])
    /\ \A i \in DOMAIN t.volumes : t.volumes[i][2] # "/var/log/audit/" => HasFile(t, t.volumes[i][2])
(* containerd gets its patches before it restarts, once. *)
RestartsOnce(t) ==
    Kubeadm(t) => \E i \in DOMAIN t.pre :
        /\ t.pre[i] = ApplyPatches /\ i + 1 \in DOMAIN t.pre /\ t.pre[i + 1] = Restart
        /\ \A j \in DOMAIN t.pre \ {i, i + 1} : t.pre[j] \notin {ApplyPatches, Restart}
(* Every plugin of the admission configuration is enabled. *)
PluginsEnabled(t) ==
    ControlPlane(t) => \E i \in DOMAIN t.files :
        /\ t.files[i].path = AdmissionConfig(t)
        /\ ToSet(t.files[i].body) \subseteq ToSet(ArgValue(t, "apiServer", "enable-admission-plugins"))
Coherent(t) ==
    PathsOnce(t) /\ ArgsOnceInOrder(t) /\ FilesDelivered(t) /\ RestartsOnce(t) /\ PluginsEnabled(t)
CoherentIn(templates) == Tabulated([k \in DOMAIN templates |-> templates[k].err \/ Coherent(templates[k])])
CoherentNodes ==
    Tabulated([i \in DOMAIN Table |-> Tabulated([registry \in BOOLEAN |->
        Tabulated([t \in 0..Len(Table[i].pools) |-> CoherentIn(NodeTemplates[i][registry][t])])])])
CoherentClusters ==
    Tabulated([i \in DOMAIN Table |->
        LET rules == OrElse(ClusterTemplate(CallWith(i, FALSE, Lowest, <<>>)).fields, "cniIngressRules", <<>>)
        IN IsInjective(rules)])
(* The mutators of a provider write one template after another, some of    *)
(* them twice, into lists that kubeadm and containerd take as they are:    *)
(* the templates CAPI uses name no file, volume or argument twice, deliver *)
(* every file they name and restart containerd once it has its patches.    *)
TemplatesCoherent ==
    answer # NoCall =>
        /\ CoherentClusters[answer.spec]
        /\ \A t \in 0..Len(SpecOf(answer).pools) :
             CoherentNodes[answer.spec][answer.registry][t][<<answer.cp, ReadsOf(answer, t)>>]

----------------------------------------------------------------------------
(* What the webhooks must have refused, for the mutators do not look.      *)

SetByHand == {"systemReserved", "kubeReserved", "evictionHard"}
ReservedOneWay(t) ==
    \A i \in DOMAIN t.files : t.files[i].path = KubeletPatch /\ HasFile(t, ComputeReservations) =>
        DOMAIN t.files[i].body[1] \cap SetByHand = {}
PlacedOnce(t, hasFailureDomain, details) ==
    details => Has(t.fields, "cluster") = ~hasFailureDomain /\ Has(t.fields, "subnets") = ~hasFailureDomain
PrismCentralReachable(cfg, cp, infra) ==
    LET pc == infra.fields["prismCentral"].host
        lb == OrElse(cfg, "addons.serviceLoadBalancer", [provider |-> "none"])
    IN Has(infra.fields, "prismCentral") /\ IsIP(pc) =>
         /\ \A i \in DOMAIN cp.files : cp.files[i].path = KubeVIP => cp.files[i].body[2] # pc
         /\ lb.provider = "MetalLB" /\ Has(lb, "ranges") => \A i \in DOMAIN lb.ranges : ~IsIPInRange(lb.ranges[i], pc)
(* Without kube-proxy Cilium routes Services, where its values are known. *)
ServicesRouted(s, cp) ==
    (/\ "addon/kube-proxy" \in OrElse(cp.fields, "skipPhases", {})
     /\ OrElse(s.cfg, "addons.cni", "") = "Cilium" /\ "cilium" \notin s.skip)
    => OrElse(s.cfg, "addons.cni.values", "none") # "keeps kube-proxy"
Sound(s, infra, nodes, machines) ==
    /\ \A t \in DOMAIN nodes : ReservedOneWay(nodes[t])
    /\ PrismCentralReachable(s.cfg, nodes[0], infra) /\ ServicesRouted(s, nodes[0])
    /\ s.provider = "nutanix" =>
         /\ PlacedOnce(machines[0], Has(infra.fields, "controlPlaneFailureDomains"),
                       Has(s.cfg, "controlPlane.nutanix.machineDetails"))
         /\ \A t \in DOMAIN s.pools : PlacedOnce(machines[t], s.pools[t].failureDomain # "",
                                                 Has(WorkerConfig(s, t), "nutanix.machineDetails"))
    /\ IsMetroCluster(s) => \A c \in DOMAIN Affinities(s.cfg) : Affinities(s.cfg)[c] = "DISABLED"
SoundClusters ==
    Tabulated([i \in DOMAIN Table |-> Tabulated([registry \in BOOLEAN |->
        LET x == CallWith(i, registry, Lowest, <<>>)
        IN Sound(Defaults[i][registry], ClusterTemplate(x), [t \in 0..Len(Table[i].pools) |-> NodeTemplate(x, t)],
                 [t \in 0..Len(Table[i].pools) |-> Machines(x, t)])])])
(* nutanix_validator.go, kubeletconfiguration_validator.go and             *)
(* metro_clusters.go against the mutators: no Cluster that was admitted, by*)
(* any sequence of writes, gets machines that are placed twice or nowhere, *)
(* reserves resources in two ways, takes Prism Central's address for its   *)
(* control plane or its Services, routes no Services or binds the volumes  *)
(* of a metro cluster to one site.  A Cluster that is older than the       *)
(* webhooks may be one that they would have refused.                       *)
AdmittedClustersSound ==
    answer # NoCall /\ (answer.spec \in Legacy => Admitted[answer.spec][answer.registry])
    => SoundClusters[answer.spec][answer.registry]

----------------------------------------------------------------------------
RefersTo(t, name) == \E i \in DOMAIN t.files : t.files[i].from = name
NodesNeed(x, name) == \E t \in 0..Len(SpecOf(x).pools) : RefersTo(NodeTemplateOf(x, t), name)
IsThere(name) ==
    CASE name = GeneratedCredentials -> generated # <<>>
      [] name = EncryptionKey -> store["key"] # 0
      [] name = RegistryAddonCA -> store["ca"] # 0
(* The files of the nodes come from Secrets that the handlers make on the  *)
(* way, in steps of their own: whatever else happens, the Secrets behind   *)
(* the templates that CAPI uses are there.                                 *)
SecretsBehindTemplates ==
    answer # NoCall =>
        \A name \in {GeneratedCredentials, EncryptionKey, RegistryAddonCA} : NodesNeed(answer, name) => IsThere(name)

(* What two calls have read differs in the contents of Secrets only.       *)
SameShape(x, y) ==
    \A i \in DOMAIN x.reads :
        LET op == ProgramOf(x)[i].op
            shape(n, k) == [user |-> ContentsOf[n][k].user # 0, ca |-> ContentsOf[n][k].ca # 0]
        IN CASE op \in {"virtualip", "coredns"} -> x.reads[i] = y.reads[i]
             [] op \in {"credentials", "mirrors"} -> \A n \in DOMAIN x.reads[i] : shape(n, x.reads[i][n]) = shape(n, y.reads[i][n])
             [] OTHER -> TRUE
(* inject.go:138-141, "credential delivery works (without node rollout)":  *)
(* from one answer to the next, neither new credentials or CAs nor calls   *)
(* that fail, run twice or find the encryption key there change a template *)
(* and so replace machines.                                                *)
NoSpuriousRollout ==
    [][(/\ answer # NoCall /\ answer'.spec = answer.spec /\ answer'.registry = answer.registry
        /\ answer'.cp = answer.cp /\ SameShape(answer, answer'))
       => \A t \in 0..Len(SpecOf(answer).pools) : NodeTemplateOf(answer, t) = NodeTemplateOf(answer', t)]_answer

(* The Cluster as it is now can be answered, if nothing goes wrong. *)
SecretsNow(x) == [n \in SecretsNamed[x.spec] |-> store[n]]
Answerable ==
    /\ cluster.spec # 0 /\ ~ClusterTemplateFails[cluster.spec] /\ ~MachinesFail[cluster.spec]
    /\ ~CredentialsRead[cluster.spec][SecretsNow(cluster)].fails
    /\ ~MirrorsReadFails[cluster.spec][cluster.registry][SecretsNow(cluster)]
    /\ Has(SpecOf(cluster).cfg, "addons.registry") => store["ca"] # 0
(* The generated Secret has the user's credentials of every registry whose *)
(* host no later one names.                                                *)
Served(i, read) ==
    LET s == Table[i]
        c == ContextOf(s, 0, 0, NoVersions, Present(read), NoVariables)
        entries(config) == IF s.v6 THEN V6CredentialEntries(config) ELSE CredentialEntries(config)
        hosts(config) == {e.host : e \in ToSet(entries(config))}
    IN \A k \in DOMAIN Configs(c) :
         (/\ RequiresStaticCredentials(Configs(c)[k])
          /\ \A l \in DOMAIN Configs(c) : l > k => hosts(Configs(c)[l]) \cap hosts(Configs(c)[k]) = {})
         => \A h \in hosts(Configs(c)[k]) : CredentialsServed(generated, h) = Configs(c)[k].user
UpToDate ==
    /\ answer.spec = cluster.spec /\ answer.registry = cluster.registry
    /\ \A i \in DOMAIN answer.reads :
         LET op == ProgramOf(answer)[i].op IN
         CASE op \in {"virtualip", "coredns"} -> answer.reads[i] = store["version"]
           [] op \in {"credentials", "mirrors"} -> answer.reads[i] = SecretsNow(cluster)
           [] OTHER -> TRUE
    /\ CredentialsRead[cluster.spec][SecretsNow(cluster)].nothing \/ SecretsNamed[cluster.spec] \subseteq owned
    /\ CredentialsRead[cluster.spec][SecretsNow(cluster)].generates => Served(cluster.spec, SecretsNow(cluster))
(* Calls may be abandoned with old credentials in hand, decide by an old   *)
(* cache or see two versions at once: once the user and the faults rest,   *)
(* the templates come from the Cluster as it is, its Secrets are its own   *)
(* and the nodes are served the credentials that the user gave.            *)
Converges == <>[](Answerable => UpToDate)
============================================================================
