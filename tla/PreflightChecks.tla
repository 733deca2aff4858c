--------------------------- MODULE PreflightChecks ---------------------------
(***************************************************************************)
(* The preflight checks themselves (pkg/webhook/preflight/generic and      *)
(* pkg/webhook/preflight/nutanix): what each checker's Init builds, and    *)
(* what each check answers.                                                *)
(*                                                                         *)
(* Every operator takes the request r and the set bad of the API calls     *)
(* that return an error.  A request carries the Cluster's relevant fields  *)
(* and the outside world the checks ask about: the management cluster's    *)
(* objects (r.fds, r.metros, r.sites) and Prism Central (r.pes, r.subnets, *)
(* r.images, r.containers).  A resource identifier is [by, v], by being    *)
(* uuid, name, lookup or nil, or none for a machine that names neither an  *)
(* image nor a lookup; objects of the management cluster are named by      *)
(* numbers, which stand for the order of their names; a CIDR is its prefix *)
(* length and the set of address units it covers.                          *)
(***************************************************************************)
EXTENDS Naturals, Sequences, FiniteSets, SequencesExt

-----------------------------------------------------------------------------
(* Check results *)

Pass == [allowed |-> TRUE, internal |-> FALSE, panic |-> FALSE,
         causes |-> {}, warnings |-> {}]
Warn(w) == [Pass EXCEPT !.warnings = {w}]
Fail(cause) == [Pass EXCEPT !.allowed = FALSE, !.causes = {cause}]
FailInternal(cause) == [Fail(cause) EXCEPT !.internal = TRUE]
Denied == [Pass EXCEPT !.allowed = FALSE]     \* a denial that names no cause
Panic == [Pass EXCEPT !.panic = TRUE]

\* A result to which several findings were appended.
Together(R) ==
    [allowed  |-> \A x \in R : x.allowed,
     internal |-> \E x \in R : x.internal,
     panic    |-> \E x \in R : x.panic,
     causes   |-> UNION {x.causes : x \in R},
     warnings |-> UNION {x.warnings : x \in R}]

\* A check: its kind, what it is about, whether building it met an error, and
\* its result when Init already knows it.
Check(kind, arg, err) == [kind |-> kind, arg |-> arg, err |-> err, result |-> Pass]
Known(kind, res) == [kind |-> kind, arg |-> {}, err |-> FALSE, result |-> res]

-----------------------------------------------------------------------------
(* Prism Central, by identifier *)

Err == [err |-> TRUE, found |-> {}]
Found(S) == [err |-> FALSE, found |-> S]

\* By UUID the API returns the one object or an error, by name every object of
\* that name, possibly none.
Lookup(S, id, call, bad) ==
    LET byUUID == {x \in S : x.uuid = id.v} IN
    IF call \in bad \/ (id.by = "uuid" /\ byUUID = {}) THEN Err
    ELSE Found(IF id.by = "uuid" THEN byUUID ELSE {x \in S : x.name = id.v})

getClusters(r, id, bad) == Lookup(r.pes, id, "clusters", bad)
getSubnets(r, id, bad) == Lookup(r.subnets, id, "subnets", bad)
getVMImages(r, id, bad) == Lookup(r.images, id, "images", bad)

getStorageContainers(r, pe, name, bad) ==
    IF "containers" \in bad THEN Err
    ELSE Found({s \in r.containers : s.name = name /\ s.pe = pe})

\* Subnets of the Prism Element, or overlay subnets, which belong to none.
OnPE(S, pe) == {s \in S : s.pe \in {"", pe}}

-----------------------------------------------------------------------------
(* Generic checker *)

\* newConfigurationCheck: the variable is unmarshalled; on an error the empty
\* configuration is kept.
GenericConfiguration(r) ==
    Known("genericConfig", IF r.config = "bad" THEN FailInternal("unmarshal") ELSE Pass)

newRegistryCheck(r) ==
    IF r.config = "bad" THEN <<>>
    ELSE [k \in 1 .. Len(r.registries) |-> Check("registry", {r.registries[k]}, FALSE)]

\* checkRegistry.  A registry is [url, secret, up]: how its URL parses, whether
\* it names a credentials Secret, and whether it answers a ping.
RunRegistry(chk, bad) ==
    LET reg == CHOOSE x \in chk.arg : TRUE IN
    IF reg.url = "empty" THEN Pass
    ELSE IF reg.url \in {"unparsable", "scheme"} THEN Fail("registryURL")
    ELSE IF reg.secret # "none" /\ "secret" \in bad THEN FailInternal("registrySecret")
    ELSE IF reg.secret = "missing" THEN Fail("registrySecret")
    ELSE IF reg.up /\ "ping" \notin bad THEN Pass ELSE Fail("ping")

GenericInit(r) == <<GenericConfiguration(r)>> \o newRegistryCheck(r)

-----------------------------------------------------------------------------
(* Nutanix checker: the three pseudo-checks whose factories run in order, in *)
(* Init, and fill the dependencies of the others                             *)

\* newConfigurationCheck.  The configuration is kept only if it has a Nutanix
\* part; a worker's comes from its override or from the cluster-wide variable.
ConfigSpec(r) == r.config # "bad" /\ (r.nutanix \/ r.cp # {})
WorkerConfigs(r) == {k \in DOMAIN r.workers : r.workers[k].nutanix}

NutanixConfiguration(r) ==
    Known("config", IF r.config = "bad" THEN FailInternal("unmarshal") ELSE Pass)

\* newClient: a client for the endpoint, from the cache or a new one.
newClient(bad) == "client" \notin bad

\* newCredentialsCheck, its second half: the client, and a call with it.
ClientResult(r, bad) ==
    IF ~newClient(bad) THEN FailInternal("client")
    ELSE IF "users" \in bad THEN FailInternal("validate")
    ELSE IF r.credentials = "valid" THEN Pass ELSE Fail("validate")

\* Its first half: the Secret and the trust bundle the client needs.
SecretResult(r, bad) ==
    IF "secret" \in bad THEN FailInternal("secret")
    ELSE IF r.credentials \in {"noSecret", "empty", "noKey", "unparsable", "trustBundle"}
    THEN Fail("secret") ELSE ClientResult(r, bad)

\* Its guards.
CredentialsResult(r, bad) ==
    IF ~ConfigSpec(r) /\ WorkerConfigs(r) = {} THEN Pass
    ELSE IF ~ConfigSpec(r) \/ ~r.nutanix THEN Fail("nutanixMissing")
    ELSE IF r.credentials = "url" THEN Fail("url") ELSE SecretResult(r, bad)

nclient(r, bad) ==
    ConfigSpec(r) /\ r.nutanix /\ CredentialsResult(r, bad).allowed

\* convertStringToIntList: a version that is no list of numbers, as master,
\* counts as 9999.
Unparsable == <<9999>>
Component(v, k) == IF k <= Len(v) THEN v[k] ELSE 0

\* CompareVersions(v, w) = -1
CompareVersions(v, w) ==
    \E k \in 1 .. 4 :
        /\ Component(v, k) < Component(w, k)
        /\ \A l \in 1 .. k - 1 : Component(v, l) = Component(w, l)

is202XPcVersion(v) == v[1] \in 2020 .. 2029 /\ Len(v) > 1
is7XPcVersion(v) == v[1] = 7 /\ Len(v) > 1

SlipPlainCompare(v, w) == CompareVersions(v, w)

\* ComparePCVersions(v, w) = -1
ComparePCVersions(v, w) ==
    IF is7XPcVersion(v) /\ is202XPcVersion(w) THEN FALSE
    ELSE (is7XPcVersion(w) /\ is202XPcVersion(v)) \/ CompareVersions(v, w)

MinSupported == <<7, 5>>

\* newPrismCentralVersionCheck: its result, and whether a version is kept.
VersionResult(r, skipped, bad) ==
    IF skipped \/ ~nclient(r, bad) THEN Pass
    ELSE IF "version" \in bad THEN FailInternal("version")
    ELSE IF r.pcVersion = <<>> \/ ComparePCVersions(r.pcVersion, MinSupported)
    THEN Fail("version") ELSE Pass

pcVersion(r, skipped, bad) ==
    skipped \/ (nclient(r, bad) /\ VersionResult(r, skipped, bad).allowed)

-----------------------------------------------------------------------------
(* Failure domains *)

cpPools(r) == IF ConfigSpec(r) THEN r.cp ELSE {}

\* The failure domain references of the control plane and of the workers, in
\* order; a reference is [kind, name], kind being fd, metro or site.
failureDomains(r) ==
    (IF cpPools(r) = {} THEN <<>> ELSE (CHOOSE p \in r.cp : TRUE).fds)
        \o FlattenSeq([k \in DOMAIN r.workers |-> r.workers[k].fds])

\* getFailureDomainNames: the NutanixFailureDomains behind a reference, or an
\* error.
getFailureDomainNames(r, ref, bad) ==
    LET site == r.sites[ref.name]
        metro == IF ref.kind = "metro" THEN ref.name ELSE site.metro
        noMetro == metro \notin DOMAIN r.metros \/ "metro" \in bad
    IN
    CASE ref.kind = "fd" -> Found({ref.name})
      [] ref.kind = "metro" -> IF noMetro THEN Err ELSE Found(r.metros[metro])
      [] ref.kind = "site" ->
           IF ref.name \notin DOMAIN r.sites \/ "site" \in bad THEN Err
           ELSE IF noMetro \/ site.preferred \notin r.metros[metro] THEN Err
           ELSE Found(r.metros[metro])

\* One check per resolved name, or one that reports the error.
Resolved(r, kind, ref, bad) ==
    LET names == getFailureDomainNames(r, ref, bad) IN
    IF names.err THEN <<Check("fd", {ref.name}, TRUE)>>
    ELSE SetToSeq({Check(kind, {n}, FALSE) : n \in names.found})

newFailureDomainChecks(r, bad) ==
    FlattenSeq([k \in DOMAIN failureDomains(r) |->
                    Resolved(r, "fd", failureDomains(r)[k], bad)])

\* failureDomainCheck.Run
RunFailureDomain(r, chk, bad) ==
    LET name == CHOOSE n \in chk.arg : TRUE
        fd == r.fds[name]
        pes == getClusters(r, fd.pe, bad)
        pe == CHOOSE x \in pes.found : TRUE
        Subnet(id) ==
            LET s == getSubnets(r, id, bad) IN
            IF s.err THEN FailInternal("subnet")
            ELSE IF Cardinality(OnPE(s.found, pe.uuid)) # 1 THEN Fail("subnet") ELSE Pass
    IN
    IF chk.err THEN Fail("fdReference")
    ELSE IF "fd" \in bad THEN FailInternal("fd")
    ELSE IF name \notin DOMAIN r.fds THEN Fail("fd")
    ELSE IF pes.err THEN FailInternal("pe")
    ELSE IF Cardinality(pes.found) # 1 THEN Fail("pe")
    ELSE IF pe.uuid = "" THEN Panic
    ELSE Together({Pass} \cup {Subnet(id) : id \in fd.subnets})

-----------------------------------------------------------------------------
(* Machine images *)

\* Control plane and worker pools with a Nutanix configuration, as indices
\* into the workers; 0 is the control plane.
Pools(r) == (IF cpPools(r) = {} THEN {} ELSE {0}) \cup WorkerConfigs(r)
Pool(r, k) == IF k = 0 THEN CHOOSE p \in r.cp : TRUE ELSE r.workers[k]

newVMImageChecks(r) == SetToSeq({Check("image", {k}, FALSE) : k \in Pools(r)})
newVMImageKubernetesVersionChecks(r) ==
    IF r.version = "" THEN <<>>
    ELSE SetToSeq({Check("imageVersion", {k}, FALSE) : k \in Pools(r)})

\* imageCheck.Run.  A machine with neither an image nor a lookup is denied
\* without a cause.
RunImage(r, chk, bad) ==
    LET id == Pool(r, CHOOSE k \in chk.arg : TRUE).image
        images == getVMImages(r, id, bad)
    IN
    IF id.by = "lookup" THEN Warn("imageLookup")
    ELSE IF id.by = "none" THEN Denied
    ELSE IF images.err THEN FailInternal("image")
    ELSE IF Cardinality(images.found) = 1 THEN Pass ELSE Fail("image")

\* imageKubernetesVersionCheck.Run.  A missing image is left to the image check;
\* of several, the first one listed is looked at.
RunImageVersion(r, chk, bad) ==
    LET id == Pool(r, CHOOSE k \in chk.arg : TRUE).image
        images == getVMImages(r, id, bad)
        first == CHOOSE i \in images.found : TRUE
    IN
    IF id.by = "lookup" THEN Warn("imageLookup")
    ELSE IF id.by = "none" THEN Pass
    ELSE IF images.err THEN FailInternal("image")
    ELSE IF images.found = {} \/ r.version \in first.versions THEN Pass
    ELSE Fail("imageVersion")

-----------------------------------------------------------------------------
(* Storage containers *)

newStorageContainerChecks(r, bad) ==
    LET Of(k) == LET p == Pool(r, k) IN
            IF p.fds = <<>> THEN <<Check("storage", {k}, FALSE)>>
            ELSE FlattenSeq([n \in DOMAIN p.fds |-> Resolved(r, "storageFD", p.fds[n], bad)])
    IN IF ~ConfigSpec(r) \/ r.csi = "none" THEN <<>>
       ELSE FlattenSeq([n \in DOMAIN SetToSeq(Pools(r)) |-> Of(SetToSeq(Pools(r))[n])])

\* storageContainerCheck.Run, once the Prism Element's identifier is known.
ContainersOn(r, id, bad) ==
    LET pes == getClusters(r, id, bad)
        pe == CHOOSE x \in pes.found : TRUE
        Container(name) ==
            LET s == getStorageContainers(r, pe.uuid, name, bad) IN
            IF s.err \/ Cardinality(s.found) > 1 THEN FailInternal("container")
            ELSE IF s.found = {} THEN Fail("container") ELSE Pass
        Class(name) ==
            IF pes.err THEN FailInternal("pe")
            ELSE IF Cardinality(pes.found) # 1 THEN Fail("pe")
            ELSE IF pe.uuid = "" THEN Panic ELSE Container(name)
    IN IF r.storageClasses = {} THEN Pass
       ELSE IF id.by = "nil" THEN Panic
       ELSE Together({Class(name) : name \in r.storageClasses})

RunStorage(r, chk, bad) ==
    LET arg == CHOOSE x \in chk.arg : TRUE IN
    IF r.csi = "noClasses" THEN Fail("storageClasses")
    ELSE IF chk.kind = "storage" THEN ContainersOn(r, Pool(r, arg).pe, bad)
    ELSE IF "fd" \in bad THEN FailInternal("fd")
    ELSE IF arg \notin DOMAIN r.fds THEN Fail("fd")
    ELSE ContainersOn(r, r.fds[arg].pe, bad)

-----------------------------------------------------------------------------
(* CIDRs *)

prefixesOverlap(a, b) == a.addrs \cap b.addrs # {}
BadCIDR == [bits |-> 0, addrs |-> {}]     \* a block that does not parse

\* parseCIDRBlocks: one bad block and none is returned.
parseCIDRBlocks(blocks) == IF BadCIDR \in blocks THEN {} ELSE blocks

validatePodCIDR(p) ==
    IF p.bits >= 24 THEN Fail("podCIDR") ELSE IF p.bits >= 21 THEN Warn("podCIDR") ELSE Pass
validateServiceCIDR(p) ==
    IF p.bits >= 24 THEN Fail("serviceCIDR") ELSE IF p.bits > 20 THEN Warn("serviceCIDR") ELSE Pass
NotOverlapping(S, T, cause) ==
    IF \E p \in S, q \in T : prefixesOverlap(p, q) THEN Fail(cause) ELSE Pass

\* collectNutanixSubnets: the subnets named by machineDetails, with the pool's
\* Prism Element; the control plane first, the workers in the order in which the
\* map happens to be iterated.
collectNutanixSubnets(r) ==
    LET Of(k) == [n \in DOMAIN Pool(r, k).subnets |->
                     [id |-> Pool(r, k).subnets[n], pe |-> Pool(r, k).pe]]
        order == <<0>> \o r.order
    IN FlattenSeq([n \in DOMAIN order |->
                       IF order[n] \in Pools(r) THEN Of(order[n]) ELSE <<>>])

\* filterSubnetsByPECluster: an unresolvable Prism Element filters nothing.
filterSubnetsByPECluster(r, S, pe, bad) ==
    LET pes == getClusters(r, pe, bad) IN
    IF pe.by = "nil" THEN S
    ELSE IF pe.by = "uuid" THEN OnPE(S, pe.v)
    ELSE IF pes.err \/ Cardinality(pes.found) # 1 THEN S
    ELSE OnPE(S, (CHOOSE x \in pes.found : TRUE).uuid)

\* resolvePEClusterUUID panics: the one Prism Element of that name has no
\* identifier.
PanicsOn(r, sub, bad) ==
    LET s == getSubnets(r, sub.id, bad)
        pes == getClusters(r, sub.pe, bad)
    IN /\ sub.id.by = "name" /\ ~s.err /\ Cardinality(s.found) > 1
       /\ sub.pe.by = "name" /\ ~pes.err /\ Cardinality(pes.found) = 1
       /\ \A x \in pes.found : x.uuid = ""

\* The prefixes found for one reference, or an error: also one that does not
\* parse (extractIPv4PrefixesFromSubnet).
prefixesOf(r, sub, bad) ==
    LET s == getSubnets(r, sub.id, bad)
        kept == IF sub.id.by = "name" /\ Cardinality(s.found) > 1
                THEN filterSubnetsByPECluster(r, s.found, sub.pe, bad) ELSE s.found
        prefixes == UNION {x.prefixes : x \in kept}
    IN IF s.err \/ Cardinality(kept) # 1 \/ BadCIDR \in prefixes THEN Err
       ELSE Found(prefixes)

\* resolveNodeSubnets: the prefixes of a subnet are cached by its identifier
\* alone, so that a later reference gets those of the first one with the same
\* identifier.
resolveNodeSubnets(r, bad) ==
    LET subs == collectNutanixSubnets(r)
        First(n) == CHOOSE m \in 1 .. n :
                        subs[m].id = subs[n].id /\ \A l \in 1 .. m - 1 : subs[l].id # subs[n].id
        Of(n) == prefixesOf(r, subs[First(n)], bad)
    IN IF \E n \in DOMAIN subs : Of(n).err THEN Err
       ELSE Found(UNION {Of(n).found : n \in DOMAIN subs})

\* It panics on a reference before any of the others meets an error.
resolvePanics(r, bad) ==
    LET subs == collectNutanixSubnets(r)
        Looked(n) == \A m \in 1 .. n - 1 : subs[m].id # subs[n].id     \* not cached
    IN \E n \in DOMAIN subs :
           /\ Looked(n) /\ PanicsOn(r, subs[n], bad)
           /\ \A m \in 1 .. n - 1 : Looked(m) => ~prefixesOf(r, subs[m], bad).err

\* cidrValidationCheck.Run
RunCIDR(r, client, bad) ==
    LET pods == parseCIDRBlocks(r.pods)
        services == parseCIDRBlocks(r.services)
        nodes == resolveNodeSubnets(r, bad)
        own == {IF BadCIDR \in r.pods \cup r.services THEN Fail("parse") ELSE Pass,
                NotOverlapping(pods, services, "podService")}
               \cup {validatePodCIDR(p) : p \in pods}
               \cup {validateServiceCIDR(p) : p \in services}
    IN IF collectNutanixSubnets(r) = <<>> \/ ~client THEN Together(own)
       ELSE IF resolvePanics(r, bad) THEN Panic
       ELSE IF nodes.err THEN Together(own \cup {FailInternal("resolve")})
       ELSE Together(own \cup {NotOverlapping(pods, nodes.found, "podNode"),
                               NotOverlapping(services, nodes.found, "serviceNode")})

-----------------------------------------------------------------------------
(* Control plane endpoint *)

\* controlPlaneEndpointCheck.Run: a dial that fails, for whatever reason, passes.
RunEndpoint(r, bad) ==
    IF r.controlPlaneRef \/ ~r.endpointInUse \/ "dial" \in bad THEN Pass ELSE Fail("endpoint")

-----------------------------------------------------------------------------
(* Metro *)

isMetro(ref) == ref.kind \in {"metro", "site"}

\* metroNameFromFailureDomain: the metro behind a reference; Found({}) if it is
\* a plain failure domain.
metroNameFromFailureDomain(r, ref, bad) ==
    IF ref.kind = "metro" THEN Found({ref.name})
    ELSE IF ref.kind = "fd" THEN Found({})
    ELSE IF ref.name \notin DOMAIN r.sites \/ "site" \in bad THEN Err
    ELSE Found({r.sites[ref.name].metro})

Refs(r) == Range(failureDomains(r))

\* referencedMetros, split in the metros that resolve and the references that
\* do not.
metroNames(r, bad) ==
    UNION {metroNameFromFailureDomain(r, ref, bad).found : ref \in Refs(r)}
unresolvedMetros(r, bad) ==
    {ref.name : ref \in {x \in Refs(r) : metroNameFromFailureDomain(r, x, bad).err}}

\* clusterFailureDomainNames: all names, and whether some reference failed.
clusterFailureDomainNames(r, bad) ==
    [err   |-> \E ref \in Refs(r) : getFailureDomainNames(r, ref, bad).err,
     found |-> UNION {getFailureDomainNames(r, ref, bad).found : ref \in Refs(r)}]

newMetroChecks(r, bad) ==
    LET names == metroNames(r, bad)
        fds == clusterFailureDomainNames(r, bad)
        Over(kind) == Check(kind, fds.found, fds.err)
    IN SetToSeq({Check("metro", {n}, FALSE) : n \in names}
                \cup {Check("metro", {n}, TRUE) : n \in unresolvedMetros(r, bad)})
       \o (IF Cardinality(names) > 1 THEN <<Check("singleMetro", names, FALSE)>> ELSE <<>>)
       \o (IF names = {} THEN <<>>
           ELSE <<Over("scale"), Over("hosting"), Over("latency"),
                  Check("nodePools", {}, FALSE), Check("sites", names, FALSE),
                  Check("vha", names, FALSE)>>)

\* singleMetroCheck.Run
RunSingleMetro(chk) == IF Cardinality(chk.arg) > 1 THEN Fail("manyMetros") ELSE Pass

\* clusterNodePools and allNodePoolsMetroCheck.Run: every control plane and
\* worker pool, also one without failure domains, is on metro failure domains.
RunNodePools(r) ==
    LET NodePool(fds) ==
            IF fds # <<>> /\ \A n \in DOMAIN fds : isMetro(fds[n]) THEN Pass ELSE Fail("nodePool")
    IN Together({NodePool(p.fds) : p \in cpPools(r)}
                \cup {NodePool(r.workers[k].fds) : k \in DOMAIN r.workers})

\* metroSitesIdentityCheck.Run and reportDuplicateSiteField: two sites of one
\* metro share a preferred failure domain or a label.
RunSites(r, chk, bad) ==
    IF "listSites" \in bad THEN FailInternal("sites")
    ELSE IF \E s, t \in DOMAIN r.sites :
                /\ s # t
                /\ r.sites[s].metro = r.sites[t].metro /\ r.sites[s].metro \in chk.arg
                /\ \/ r.sites[s].preferred = r.sites[t].preferred
                   \/ r.sites[s].label = r.sites[t].label /\ r.sites[s].label # ""
    THEN Fail("sites") ELSE Pass

\* metroVHACategoryNameCheck.Run: k8s-vha-capx-{cluster}-{metro}-default-0 is at
\* most 64 characters long; lengths stand for the names.
prismCategoryValueMaxLen == 64
vhaCategoryLen(r, metro) == 13 + r.nameLen + 1 + r.metroLen[metro] + 10
RunVHA(r, chk) ==
    IF \E m \in chk.arg : vhaCategoryLen(r, m) > prismCategoryValueMaxLen
    THEN Fail("vha") ELSE Pass

\* failureDomainPrismElementUUID
failureDomainPE(r, name, bad) ==
    LET pes == getClusters(r, r.fds[name].pe, bad) IN
    IF name \notin DOMAIN r.fds \/ "fd" \in bad THEN Err
    ELSE IF pes.err \/ Cardinality(pes.found) # 1 THEN Err
    ELSE IF \E x \in pes.found : x.uuid = "" THEN Err
    ELSE Found({x.uuid : x \in pes.found})

AllPEs(r, names, bad) ==
    IF \E n \in names : failureDomainPE(r, n, bad).err THEN Err
    ELSE Found(UNION {failureDomainPE(r, n, bad).found : n \in names})

metroPrismElementCount == 2
metroMaxRTTMillis == 5

\* clusterPrismElementScaleCheck.Run
RunScale(r, chk, bad) ==
    LET pes == AllPEs(r, chk.arg, bad) IN
    IF chk.err THEN Fail("metroReference")
    ELSE IF pes.err THEN FailInternal("metroPE")
    ELSE IF Cardinality(pes.found) # metroPrismElementCount THEN Fail("scale") ELSE Pass

\* GetPrismCentralHostingClusterExtID: the first host that is known, or none.
GetHosting(r, bad) == IF "hosting" \in bad THEN Err ELSE Found({r.hosting} \ {""})

\* prismCentralMetroHostingCheck.Run: an unknown host passes; the names are
\* walked in order until one fails or is the host.
RunHosting(r, chk, bad) ==
    LET On(n) == failureDomainPE(r, n, bad)
        host == GetHosting(r, bad)
        problems == {n \in chk.arg : On(n).err \/ host.found \subseteq On(n).found}
        first == CHOOSE n \in problems : \A m \in problems : n <= m
    IN
    IF chk.err THEN Fail("metroReference")
    ELSE IF host.err THEN FailInternal("hosting")
    ELSE IF host.found = {} \/ problems = {} THEN Pass
    ELSE IF On(first).err THEN FailInternal("metroPE") ELSE Fail("hosting")

\* interClusterRTTMillis: the first round trip time reported (-1: none is).
interClusterRTTMillis(r, bad) ==
    IF "rtt" \in bad THEN Err ELSE Found(IF r.rtt < 0 THEN {} ELSE {r.rtt})

\* metroReplicationLatencyCheck.Run: only between exactly two Prism Elements,
\* and an unknown time passes.
RunLatency(r, chk, bad) ==
    LET pes == AllPEs(r, chk.arg, bad)
        rtt == interClusterRTTMillis(r, bad)
    IN
    IF chk.err THEN Fail("metroReference")
    ELSE IF pes.err THEN FailInternal("metroPE")
    ELSE IF Cardinality(pes.found) # metroPrismElementCount THEN Pass
    ELSE IF rtt.err THEN FailInternal("rtt")
    ELSE IF \E ms \in rtt.found : ms > metroMaxRTTMillis THEN Fail("latency") ELSE Pass

\* checkSubnetConsistency over the subnets found for each failure domain.
checkSubnetConsistency(byFD) ==
    LET all == UNION {byFD[n] : n \in DOMAIN byFD}
        layers == {s.layer : s \in all}
        Profiles(n) == {<<s.layer, s.vlan, s.cidr>> : s \in byFD[n]}
    IN IF all = {} THEN Pass
       ELSE IF \E s \in all : s.vpc THEN Fail("vpc")
       ELSE IF Cardinality(layers) > 1 THEN Fail("layers")
       ELSE IF ~(layers \subseteq {"VLAN", "OVERLAY"}) THEN Fail("layer")
       ELSE IF \E m, n \in {x \in DOMAIN byFD : byFD[x] # {}} : Profiles(m) # Profiles(n)
       THEN Fail("profiles") ELSE Pass

\* metroCheck.Run: getMetro, evaluateFailureDomains (getFailureDomain,
\* resolvePrismElement, collectSubnetAttributes), then the two guardrails.
RunMetro(r, chk, bad) ==
    LET name == CHOOSE n \in chk.arg : TRUE
        fds == r.metros[name]
        PEs(n) == getClusters(r, r.fds[n].pe, bad)
        UUID(n) == (CHOOSE x \in PEs(n).found : TRUE).uuid
        Subnets(n) == {getSubnets(r, id, bad) : id \in r.fds[n].subnets}
        One(n) ==
            IF "fd" \in bad THEN FailInternal("fd")
            ELSE IF n \notin DOMAIN r.fds THEN Fail("fd")
            ELSE IF PEs(n).err THEN FailInternal("pe")
            ELSE IF Cardinality(PEs(n).found) # 1 THEN Fail("pe")
            ELSE IF UUID(n) = "" THEN FailInternal("pe")
            ELSE IF \E s \in Subnets(n) : s.err THEN FailInternal("subnet") ELSE Pass
        each == Together({Pass} \cup {One(n) : n \in fds})
        byFD == [n \in fds |-> OnPE(UNION {s.found : s \in Subnets(n)}, UUID(n))]
    IN IF chk.err THEN Fail("metroReference")
       ELSE IF "getMetro" \in bad THEN FailInternal("metro")
       ELSE IF name \notin DOMAIN r.metros THEN Fail("metro")
       ELSE IF ~each.allowed THEN each
       ELSE Together({checkSubnetConsistency(byFD),
                      IF Cardinality({UUID(n) : n \in fds}) = metroPrismElementCount
                      THEN Pass ELSE Fail("metroScale")})

-----------------------------------------------------------------------------
(* The Nutanix checker as a whole *)

\* nutanixChecker.Init: configuration, credentials and version in this order,
\* then the others, most of them only if there is a client and a version.
NutanixInit(r, skipped, bad) ==
    LET client == nclient(r, bad)
        ready == client /\ pcVersion(r, skipped, bad)
        If(checks) == IF ready THEN checks ELSE <<>>
    IN <<NutanixConfiguration(r),
         Known("credentials", CredentialsResult(r, bad)),
         Known("version", VersionResult(r, skipped, bad))>>
       \o If(newFailureDomainChecks(r, bad))
       \o If(newVMImageChecks(r))
       \o If(newVMImageKubernetesVersionChecks(r))
       \o <<Check("cidr", {client}, FALSE)>>
       \o If(newStorageContainerChecks(r, bad))
       \o <<Check("endpoint", {}, FALSE)>>
       \o If(newMetroChecks(r, bad))

\* Name() of each check.
Name(chk) ==
    CASE chk.kind = "genericConfig" -> "GenericConfiguration"
      [] chk.kind = "registry" -> "Registry"
      [] chk.kind = "config" -> "NutanixConfiguration"
      [] chk.kind = "credentials" -> "NutanixCredentials"
      [] chk.kind = "version" -> "NutanixPrismCentralVersion"
      [] chk.kind = "fd" -> "NutanixFailureDomain"
      [] chk.kind = "image" -> "NutanixVMImage"
      [] chk.kind = "imageVersion" -> "NutanixVMImageKubernetesVersion"
      [] chk.kind = "cidr" -> "NutanixCIDRValidation"
      [] chk.kind \in {"storage", "storageFD"} -> "NutanixStorageContainer"
      [] chk.kind = "endpoint" -> "NutanixControlPlaneEndpoint"
      [] OTHER -> "NutanixMetro"

\* Run(ctx) of each check.
Run(r, chk, bad) ==
    CASE chk.kind = "registry" -> RunRegistry(chk, bad)
      [] chk.kind = "fd" -> RunFailureDomain(r, chk, bad)
      [] chk.kind = "image" -> RunImage(r, chk, bad)
      [] chk.kind = "imageVersion" -> RunImageVersion(r, chk, bad)
      [] chk.kind = "cidr" -> RunCIDR(r, TRUE \in chk.arg, bad)
      [] chk.kind \in {"storage", "storageFD"} -> RunStorage(r, chk, bad)
      [] chk.kind = "endpoint" -> RunEndpoint(r, bad)
      [] chk.kind = "metro" -> RunMetro(r, chk, bad)
      [] chk.kind = "singleMetro" -> RunSingleMetro(chk)
      [] chk.kind = "scale" -> RunScale(r, chk, bad)
      [] chk.kind = "hosting" -> RunHosting(r, chk, bad)
      [] chk.kind = "latency" -> RunLatency(r, chk, bad)
      [] chk.kind = "nodePools" -> RunNodePools(r)
      [] chk.kind = "sites" -> RunSites(r, chk, bad)
      [] chk.kind = "vha" -> RunVHA(r, chk)
      [] OTHER -> chk.result
=============================================================================
