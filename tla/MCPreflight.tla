---------------------------- MODULE MCPreflight ----------------------------
(***************************************************************************)
(* The requests of the preflight runs: three Clusters that pass every      *)
(* check (pools with machineDetails, pools on failure domains, a metro     *)
(* cluster), each with one thing changed, and that again in one of several *)
(* modes (a check skipped, an API error, a service that hangs).            *)
(***************************************************************************)
EXTENDS PreflightSoundness

Id(v) == [by |-> "name", v |-> v]
UUID(v) == [by |-> "uuid", v |-> v]
Nil == [by |-> "nil", v |-> ""]
NoImage == [by |-> "none", v |-> ""]
Block(bits, addrs) == [bits |-> bits, addrs |-> addrs]
Subnet(uuid, name, pe, prefix) ==
    [uuid |-> uuid, name |-> name, pe |-> pe, layer |-> "VLAN", vlan |-> 10,
     cidr |-> "c", vpc |-> FALSE, prefixes |-> {prefix}]
FD(pe, subnet) == [pe |-> Id(pe), subnets |-> {Id(subnet)}]
OnMachine(pe) ==
    [nutanix |-> TRUE, fds |-> <<>>, pe |-> Id(pe), subnets |-> <<Id("net")>>, image |-> Id("img")]
OnFD(kind, name) ==
    [nutanix |-> TRUE, fds |-> <<[kind |-> kind, name |-> name]>>, pe |-> Nil,
     subnets |-> <<>>, image |-> UUID("i1")]

\* Pools that name Prism Element pe1 and its subnet net.
Plain ==
    [op |-> "create", decodes |-> TRUE, deleting |-> FALSE, topology |-> TRUE, paused |-> FALSE,
     specChanged |-> FALSE, skip |-> {}, faulty |-> FALSE, hung |-> {}, config |-> "ok",
     nutanix |-> TRUE, cp |-> {OnMachine("pe1")}, workers |-> <<OnMachine("pe1")>>, order |-> <<1>>,
     registries |-> <<>>, credentials |-> "valid", pcVersion |-> <<7, 5>>, version |-> "v1",
     fds |-> (1 :> FD("pe1", "net") @@ 2 :> FD("pe2", "net")),
     metros |-> (1 :> {1, 2}), sites |-> (1 :> [metro |-> 1, preferred |-> 1, label |-> "a"]
                                          @@ 2 :> [metro |-> 1, preferred |-> 2, label |-> "b"]),
     pes |-> {[uuid |-> "u1", name |-> "pe1"], [uuid |-> "u2", name |-> "pe2"]},
     subnets |-> {Subnet("s1", "net", "u1", Block(24, {4})), Subnet("s2", "net", "u2", Block(24, {5}))},
     images |-> {[uuid |-> "i1", name |-> "img", versions |-> {"v1"}]},
     containers |-> {[name |-> "c1", pe |-> "u1"], [name |-> "c1", pe |-> "u2"]},
     csi |-> "classes", storageClasses |-> {"c1"},
     pods |-> {Block(16, {1, 2})}, services |-> {Block(20, {3})},
     controlPlaneRef |-> FALSE, endpointInUse |-> FALSE, hosting |-> "u9", rtt |-> 5,
     nameLen |-> 20, metroLen |-> (1 :> 20 @@ 2 :> 5)]

OnDomains == [Plain EXCEPT !.cp = {OnFD("fd", 1)}, !.workers = <<OnFD("fd", 2)>>]
Metro == [Plain EXCEPT !.cp = {OnFD("metro", 1)}, !.workers = <<OnFD("site", 2)>>]

\* Changes that make sense for every Cluster.
Changes ==
    {"none", "delete", "undecodable", "deleting", "classless", "paused", "update", "update spec",
     "bad config", "no nutanix", "nothing nutanix", "url", "no secret", "denied", "old version",
     "2024", "master", "no version", "no image", "two images", "wrong image", "lookup",
     "no container", "two containers", "no classes", "no csi", "big pods", "tight pods",
     "bad services", "overlap", "node overlap", "endpoint", "endpoint and ref", "registry ok",
     "registry down", "registry scheme", "registry secret", "no pe", "two pes", "no uuid",
     "no subnet", "foreign", "no kubernetes version", "imageless", "imageless pools",
     "no uuid, no csi", "bad prefix"}

\* Changes of Prism Central that pools on failure domains meet in their own way.
CloudChanges ==
    {"none", "no container", "node overlap", "no pe", "two pes", "no uuid", "no subnet"}
DomainChanges == {"no fd", "same pe", "more pools"}
MetroChanges ==
    {"no metro", "no site", "not preferred", "two metros", "far", "unknown rtt", "hosting",
     "unknown hosting", "same label", "same preferred", "long name", "vpc", "external", "vlan",
     "overlay and vlan", "bare pool", "fd pool", "other sites", "no network"}

SetSubnets(r, S) == [r EXCEPT !.subnets = S]
Each(r, Change(_)) == {Change(s) : s \in r.subnets}

Change(r, c) ==
    CASE c = "none" -> r
      [] c = "delete" -> [r EXCEPT !.op = "delete"]
      [] c = "undecodable" -> [r EXCEPT !.decodes = FALSE]
      [] c = "deleting" -> [r EXCEPT !.op = "update", !.deleting = TRUE]
      [] c = "classless" -> [r EXCEPT !.topology = FALSE]
      [] c = "paused" -> [r EXCEPT !.paused = TRUE]
      [] c = "update" -> [r EXCEPT !.op = "update"]
      [] c = "update spec" -> [r EXCEPT !.op = "update", !.specChanged = TRUE]
      [] c = "bad config" -> [r EXCEPT !.config = "bad"]
      [] c = "no nutanix" -> [r EXCEPT !.nutanix = FALSE]
      [] c = "nothing nutanix" -> [r EXCEPT !.nutanix = FALSE, !.cp = {}, !.workers = <<>>,
                                            !.order = <<>>, !.csi = "none"]
      [] c = "foreign" -> [r EXCEPT !.nutanix = FALSE, !.cp = {}, !.csi = "noClasses",
                                    !.workers = <<[OnFD("fd", 3) EXCEPT !.nutanix = FALSE]>>]
      [] c = "no kubernetes version" -> [r EXCEPT !.version = ""]
      [] c = "url" -> [r EXCEPT !.credentials = "url"]
      [] c = "no secret" -> [r EXCEPT !.credentials = "noSecret"]
      [] c = "denied" -> [r EXCEPT !.credentials = "denied"]
      [] c = "old version" -> [r EXCEPT !.pcVersion = <<7, 3>>]
      [] c = "2024" -> [r EXCEPT !.pcVersion = <<2024, 3>>]
      [] c = "master" -> [r EXCEPT !.pcVersion = Unparsable]
      [] c = "no version" -> [r EXCEPT !.pcVersion = <<>>]
      [] c = "no image" -> [r EXCEPT !.images = {}]
      [] c = "two images" -> [r EXCEPT !.images = @ \cup {[uuid |-> "i2", name |-> "img",
                                                          versions |-> {"v1"}]}]
      [] c = "wrong image" -> [r EXCEPT !.version = "v2"]
      [] c = "lookup" -> [r EXCEPT !.workers[1].image = [by |-> "lookup", v |-> ""]]
      [] c = "imageless" -> [r EXCEPT !.workers[1].image = NoImage]
      [] c = "imageless pools" ->
           [r EXCEPT !.workers[1].image = NoImage, !.cp = {[p EXCEPT !.image = NoImage] : p \in @}]
      [] c = "no container" -> [r EXCEPT !.containers = {[name |-> "c1", pe |-> "u2"]}]
      [] c = "two containers" -> [r EXCEPT !.storageClasses = {"c1", "c2"}]
      [] c = "no classes" -> [r EXCEPT !.csi = "noClasses"]
      [] c = "no csi" -> [r EXCEPT !.csi = "none"]
      [] c = "big pods" -> [r EXCEPT !.pods = {Block(24, {1})}]
      [] c = "tight pods" -> [r EXCEPT !.pods = {Block(21, {1})}]
      [] c = "bad services" -> [r EXCEPT !.services = {BadCIDR}]
      [] c = "overlap" -> [r EXCEPT !.services = {Block(20, {2})}]
      [] c = "node overlap" -> [r EXCEPT !.pods = {Block(16, {4})}]
      [] c = "endpoint" -> [r EXCEPT !.endpointInUse = TRUE]
      [] c = "endpoint and ref" -> [r EXCEPT !.endpointInUse = TRUE, !.controlPlaneRef = TRUE]
      [] c = "registry ok" -> [r EXCEPT !.registries = <<[url |-> "ok", secret |-> "found", up |-> TRUE]>>]
      [] c = "registry down" ->
           [r EXCEPT !.registries = <<[url |-> "ok", secret |-> "none", up |-> FALSE],
                                      [url |-> "empty", secret |-> "none", up |-> FALSE]>>]
      [] c = "registry scheme" -> [r EXCEPT !.registries = <<[url |-> "scheme", secret |-> "none", up |-> TRUE]>>]
      [] c = "registry secret" -> [r EXCEPT !.registries = <<[url |-> "ok", secret |-> "missing", up |-> TRUE]>>]
      [] c = "no pe" -> [r EXCEPT !.pes = {x \in @ : x.name # "pe1"}]
      [] c = "two pes" -> [r EXCEPT !.pes = @ \cup {[uuid |-> "u3", name |-> "pe1"]}]
      [] c = "no uuid" -> [r EXCEPT !.pes = {[x EXCEPT !.uuid = IF x.name = "pe1" THEN "" ELSE @] : x \in @}]
      [] c = "no uuid, no csi" ->
           [r EXCEPT !.pes = {[x EXCEPT !.uuid = ""] : x \in @}, !.csi = "none"]
      [] c = "bad prefix" -> SetSubnets(r, Each(r, LAMBDA s : [s EXCEPT !.prefixes = @ \cup {BadCIDR}]))
      [] c = "no subnet" -> SetSubnets(r, {s \in r.subnets : s.pe # "u1"})
      [] c = "no fd" -> [r EXCEPT !.fds = (2 :> FD("pe2", "net"))]
      [] c = "same pe" -> [r EXCEPT !.fds[2] = FD("pe1", "net")]
      [] c = "more pools" -> [r EXCEPT !.workers = @ \o <<OnFD("fd", 1)>>, !.order = <<2, 1>>]
      [] c = "no metro" -> [r EXCEPT !.metros = (2 :> {1, 2})]
      [] c = "no site" -> [r EXCEPT !.sites = (1 :> r.sites[1])]
      [] c = "not preferred" -> [r EXCEPT !.sites[2].preferred = 3]
      [] c = "two metros" -> [r EXCEPT !.metros = (1 :> {1, 2} @@ 2 :> {1, 2}), !.cp = {OnFD("metro", 2)}]
      [] c = "far" -> [r EXCEPT !.rtt = 6]
      [] c = "unknown rtt" -> [r EXCEPT !.rtt = 0 - 1]
      [] c = "hosting" -> [r EXCEPT !.hosting = "u2"]
      [] c = "unknown hosting" -> [r EXCEPT !.hosting = ""]
      [] c = "same label" -> [r EXCEPT !.sites[2].label = "a"]
      [] c = "same preferred" -> [r EXCEPT !.sites[2].preferred = 1]
      [] c = "other sites" ->
           [r EXCEPT !.sites = @ @@ 3 :> [metro |-> 2, preferred |-> 1, label |-> "a"]]
      [] c = "no network" -> [r EXCEPT !.fds[2].subnets = {}]
      [] c = "long name" -> [r EXCEPT !.nameLen = 21]
      [] c = "vpc" -> SetSubnets(r, Each(r, LAMBDA s : [s EXCEPT !.vpc = TRUE]))
      [] c = "external" -> SetSubnets(r, Each(r, LAMBDA s : [s EXCEPT !.layer = "EXTERNAL"]))
      [] c = "vlan" -> SetSubnets(r, Each(r, LAMBDA s : [s EXCEPT !.vlan = IF s.pe = "u1" THEN 11 ELSE 10]))
      [] c = "overlay and vlan" ->
           SetSubnets(r, Each(r, LAMBDA s : [s EXCEPT !.layer = IF s.pe = "u1" THEN "OVERLAY" ELSE "VLAN"]))
      [] c = "bare pool" -> [r EXCEPT !.workers = <<OnMachine("pe1")>>]
      [] c = "fd pool" -> [r EXCEPT !.workers = <<OnFD("fd", 1)>>]

Mode(r, m) ==
    CASE m = "none" -> r
      [] m = "faulty" -> [r EXCEPT !.faulty = TRUE]
      [] m = "prism hangs" -> [r EXCEPT !.hung = {"clusters", "subnets"}]
      [] m = "users hang" -> [r EXCEPT !.hung = {"users"}]
      [] OTHER -> [r EXCEPT !.skip = {m}]

SkipModes == {"all", " ", "NutanixVMImage", "NutanixCredentials", "NutanixPrismCentralVersion"}
FaultModes == {"faulty", "prism hangs", "users hang"}
Base == [Plain |-> Plain, OnDomains |-> OnDomains, Metro |-> Metro]

\* A request is named by its Cluster, its change and its mode.
Names ==
    ({"Plain"} \X Changes \X {"none"})
        \cup ({"OnDomains"} \X (DomainChanges \cup CloudChanges) \X {"none"})
        \cup ({"Metro"} \X (MetroChanges \cup DomainChanges \cup CloudChanges) \X {"none"})
        \cup ({"Plain", "OnDomains", "Metro"} \X {"none"} \X FaultModes)
        \cup ({"Plain"} \X {"none", "no image", "denied", "old version", "endpoint", "overlap"}
                 \X SkipModes)
        \cup ({"Plain"} \X {"endpoint", "imageless"} \X {"faulty"})
        \cup ({"Metro"} \X {"far"} \X {"NutanixVMImage", "NutanixCredentials", "NutanixMetro"})
RequestOf(n) == Mode(Change(Base[n[1]], n[2]), n[3])
\* After the deadline either all of these calls fail, or those to Prism Central that
\* callWithContext does not abandon are answered.
MCLateFailures == {Given, Given \ {"users", "version", "rtt"}}
\* The merge with one of its own entries makes TLC tabulate the function.
MCRequest ==
    LET n1 == <<"Plain", "none", "none">>
    IN (n1 :> RequestOf(n1)) @@ [n \in Names |-> RequestOf(n)]
=============================================================================
