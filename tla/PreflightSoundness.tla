------------------------- MODULE PreflightSoundness -------------------------
(***************************************************************************)
(* What an admitted Cluster must satisfy: for every check its name stands  *)
(* for a statement about the Cluster's nodes, the management cluster and   *)
(* Prism Central, written without the code of the checks.                  *)
(***************************************************************************)
EXTENDS Preflight

\* Objects an identifier stands for.
Named(S, id) == {x \in S : IF id.by = "uuid" THEN x.uuid = id.v ELSE x.name = id.v}
ThePE(r, id) == {x.uuid : x \in Named(r.pes, id)} \ {""}
IsOne(S) == Cardinality(S) = 1

\* The pools of nodes, and the failure domains behind one.
AllPools(r) == r.cp \cup Range(r.workers)
RefExists(r, ref) ==
    CASE ref.kind = "fd" -> TRUE
      [] ref.kind = "metro" -> ref.name \in DOMAIN r.metros
      [] ref.kind = "site" -> /\ ref.name \in DOMAIN r.sites
                              /\ r.sites[ref.name].metro \in DOMAIN r.metros
                              /\ r.sites[ref.name].preferred \in r.metros[r.sites[ref.name].metro]
FDs(r, ref) ==
    CASE ref.kind = "fd" -> {ref.name}
      [] ref.kind = "metro" -> r.metros[ref.name]
      [] ref.kind = "site" -> r.metros[r.sites[ref.name].metro]
PoolFDs(r, p) == UNION {FDs(r, ref) : ref \in Range(p.fds)}

\* The Prism Elements on which a pool's machines are created.
PoolPEs(r, p) ==
    IF p.fds = <<>> THEN ThePE(r, p.pe)
    ELSE UNION {ThePE(r, r.fds[n].pe) : n \in PoolFDs(r, p)}

FailureDomainOK(r, n) ==
    /\ n \in DOMAIN r.fds
    /\ IsOne(Named(r.pes, r.fds[n].pe)) /\ IsOne(ThePE(r, r.fds[n].pe))
    /\ \A id \in r.fds[n].subnets :
        IsOne({s \in Named(r.subnets, id) : s.pe = "" \/ {s.pe} = ThePE(r, r.fds[n].pe)})

\* The subnets of a pool's machines that machineDetails name.
PoolSubnets(r, p) ==
    UNION {{s \in Named(r.subnets, id) : s.pe = "" \/ {s.pe} = ThePE(r, p.pe)}
               : id \in Range(p.subnets)}
Blocks(r) == r.pods \cup r.services
Clear(a, b) == a.addrs \cap b.addrs = {}

MetroPools(r) == \E p \in AllPools(r) : \E ref \in Range(p.fds) : ref.kind # "fd"
MetroRefs(r) == {ref \in UNION {Range(p.fds) : p \in AllPools(r)} : ref.kind # "fd"}
MetroOf(r, ref) == IF ref.kind = "metro" THEN ref.name ELSE r.sites[ref.name].metro
MetrosUsed(r) == {MetroOf(r, ref) : ref \in MetroRefs(r)}
MetroPEs(r) == UNION {PoolPEs(r, p) : p \in AllPools(r)}

\* The subnets of a failure domain, and the networks they are: those of the
\* metros in use that have any must be one.
FDSubnets(r, n) ==
    {s \in UNION {Named(r.subnets, id) : id \in r.fds[n].subnets} :
        s.pe = "" \/ {s.pe} = ThePE(r, r.fds[n].pe)}
Network(r, n) == {<<s.layer, s.vlan, s.cidr>> : s \in FDSubnets(r, n)}
MetroFDs(r) == UNION {r.metros[m] : m \in MetrosUsed(r)}
SiteOf(r, s) == r.sites[s].metro \in MetrosUsed(r)

MetroOK(r) ==
    /\ IsOne(MetrosUsed(r))
    /\ \A p \in AllPools(r) : p.fds # <<>> /\ \A ref \in Range(p.fds) : ref.kind # "fd"
    /\ Cardinality(MetroPEs(r)) = 2
    /\ r.hosting \notin MetroPEs(r)
    /\ r.rtt <= 5
    /\ \A s, t \in DOMAIN r.sites :
           s # t /\ SiteOf(r, s) /\ SiteOf(r, t) => r.sites[s].preferred # r.sites[t].preferred
    /\ \A m \in MetrosUsed(r) : r.nameLen + r.metroLen[m] <= 40
    /\ \A n \in MetroFDs(r) : \A s \in FDSubnets(r, n) :
           ~s.vpc /\ s.layer \in {"VLAN", "OVERLAY"}
    /\ \A m, n \in MetroFDs(r) :
           Network(r, m) # {} /\ Network(r, n) # {} => Network(r, m) = Network(r, n)

\* A release from 7.5 on; those named by a year and a month are older.
Yearly(v) == Len(v) > 1 /\ v[1] \in 2020 .. 2029
Supported(v) ==
    /\ v # <<>> /\ ~Yearly(v)
    /\ v[1] > 7 \/ (v[1] = 7 /\ Len(v) > 1 /\ v[2] >= 5)

UsesNutanix(r) == r.nutanix \/ r.cp # {} \/ \E p \in Range(r.workers) : p.nutanix

\* The statement a check's name stands for.
Holds(r, name) ==
    CASE name \in {"GenericConfiguration", "NutanixConfiguration"} -> r.config = "ok"
      [] name = "Registry" ->
           \A x \in Range(r.registries) :
               x.url = "empty" \/ (x.url = "ok" /\ x.secret # "missing" /\ x.up)
      [] name = "NutanixCredentials" ->
           UsesNutanix(r) => r.nutanix /\ r.credentials = "valid"
      [] name = "NutanixPrismCentralVersion" ->
           UsesNutanix(r) => Supported(r.pcVersion)
      [] name = "NutanixFailureDomain" ->
           UsesNutanix(r) => \A p \in AllPools(r) : \A ref \in Range(p.fds) :
               RefExists(r, ref) /\ \A n \in FDs(r, ref) : FailureDomainOK(r, n)
      [] name = "NutanixVMImage" ->
           \A p \in AllPools(r) :
               p.nutanix => p.image.by = "lookup" \/ IsOne(Named(r.images, p.image))
      [] name = "NutanixVMImageKubernetesVersion" ->
           \A p \in AllPools(r) :
               r.version # "" /\ p.nutanix /\ p.image.by \notin {"lookup", "none"} =>
               \A i \in Named(r.images, p.image) :
                   IsOne(Named(r.images, p.image)) => r.version \in i.versions
      [] name = "NutanixCIDRValidation" ->
           /\ \A b \in Blocks(r) : b # BadCIDR /\ b.bits < 24
           /\ \A b \in r.pods, c \in r.services : Clear(b, c)
           /\ \A b \in Blocks(r), p \in AllPools(r) : \A s \in PoolSubnets(r, p) :
                  \A x \in s.prefixes : Clear(b, x)
      [] name = "NutanixStorageContainer" ->
           \A p \in AllPools(r) : r.csi # "none" /\ p.nutanix =>
               /\ r.csi = "classes"
               /\ \A n \in r.storageClasses :
                    /\ PoolPEs(r, p) # {}
                    /\ \A pe \in PoolPEs(r, p) :
                        \E c \in r.containers : c.name = n /\ c.pe = pe
      [] name = "NutanixControlPlaneEndpoint" -> r.controlPlaneRef \/ ~r.endpointInUse
      [] name = "NutanixMetro" -> UsesNutanix(r) /\ MetroPools(r) => MetroOK(r)

CheckNames ==
    {"GenericConfiguration", "Registry", "NutanixConfiguration", "NutanixCredentials",
     "NutanixPrismCentralVersion", "NutanixFailureDomain", "NutanixVMImage",
     "NutanixVMImageKubernetesVersion", "NutanixCIDRValidation", "NutanixStorageContainer",
     "NutanixControlPlaneEndpoint", "NutanixMetro"}

\* The checks that are lost with another one that is skipped.
Needs(name) ==
    CASE name = "Registry" -> {"GenericConfiguration"}
      [] name \in {"NutanixCredentials", "NutanixPrismCentralVersion"} ->
           {"NutanixConfiguration", "NutanixCredentials"}
      [] name \in {"NutanixFailureDomain", "NutanixVMImage", "NutanixVMImageKubernetesVersion",
                   "NutanixMetro", "NutanixCIDRValidation"} ->
           {"NutanixConfiguration", "NutanixCredentials"}
      \* A reference that does not resolve is reported as a failure domain's.
      [] name = "NutanixStorageContainer" ->
           {"NutanixConfiguration", "NutanixCredentials", "NutanixFailureDomain"}
      [] OTHER -> {}

\* Do two pools use the same subnet name on different Prism Elements?
SharedSubnetName(r) ==
    \E p, q \in AllPools(r) :
        p.pe # q.pe /\ Range(p.subnets) \cap Range(q.subnets) # {}

Admitted == phase = "done" /\ resp.allowed /\ inited = Checkers

\* A Cluster the checks admitted satisfies the statement of every check that it
\* did not skip and that did not depend on a skipped one.  Two exceptions: the
\* endpoint check passes when its dial fails, as it does once the context expired,
\* and node subnets are cached by name across Prism Elements.
AdmittedIsSound ==
    Admitted => \A name \in CheckNames :
        \/ \E n \in Needs(name) \cup {name} : For(req, n)
        \/ name = "NutanixControlPlaneEndpoint" /\ (Expired \/ faults > 0)
        \/ name = "NutanixCIDRValidation" /\ SharedSubnetName(req)
        \/ Holds(req, name)
=============================================================================
