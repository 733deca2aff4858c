----------------------------- MODULE MCTopology -----------------------------
(***************************************************************************)
(* Clusters of every provider.  Between them they set every variable that  *)
(* a mutator reads and meet every rule of a webhook.                       *)
(***************************************************************************)
EXTENDS Topology

url(host, path) == [host |-> host, path |-> path]
registry(host, secret) == [url |-> url(host, ""), secret |-> secret]
details(fields) == [image |-> "os", size |-> 4] @@ fields
here == [cluster |-> "pe", subnets |-> <<"net">>]
pool(name, fd) == [name |-> name, failureDomain |-> fd]
spec(provider, cfg, wc, pools) ==
    [provider |-> provider, v6 |-> FALSE, cfg |-> cfg, wc |-> wc, pools |-> pools, skip |-> {}]

(* Everything a kubeadm cluster can have. *)
kubeadm ==
    ("dns.coreDNS" :> TRUE) @@ ("etcd.image" :> [repository |-> "etcd", tag |-> "3"]) @@ ("proxy" :> [http |-> "proxy"])
    @@ ("users" :> <<[name |-> "a"], [name |-> "b", hashedPassword |-> "hash"]>>) @@ ("ntp.servers" :> <<"time">>)
    @@ ("podSecurityAdmission" :> "baseline") @@ ("kubernetesImageRepository" :> "images")
    @@ ("extraAPIServerCertSANs" :> <<"localhost", "api">>) @@ ("maxParallelImagePullsPerNode" :> 5)
    @@ ("controlPlane.taints" :> <<"cp">>) @@ ("controlPlane.nodeRegistration.ignorePreflightErrors" :> <<"swap">>)
    @@ ("controlPlane.autoRenewCertificates.daysBeforeExpiry" :> 30)
pinned(affinity) == ("addons.csi.nutanix.storageClasses" :> [fast |-> affinity, slow |-> ""])

nutanix(vip, pc) ==
    ("nutanix.controlPlaneEndpoint" :> [host |-> 10, port |-> 6443, virtualIP |-> vip])
    @@ ("nutanix.prismCentralEndpoint" :> [host |-> pc, additionalTrustBundle |-> "base64"])
onePlace == ("controlPlane.nutanix.machineDetails" :> details(here))
twoSites == ("controlPlane.nutanix.machineDetails" :> details(NoVariables))
            @@ ("controlPlane.nutanix.failureDomains" :> <<"metro-a", "metrosite-a">>)
worker(fields) == ("nutanix.machineDetails" :> details(fields)) @@ ("taints" :> <<"w">>)
                  @@ ("nodeRegistration.ignorePreflightErrors" :> <<"swap">>)

nutanixFull ==
    kubeadm @@ nutanix([provider |-> "KubeVIP"], 11) @@ onePlace
    @@ ("encryptionAtRest" :> {"secretbox"}) @@ ("imageRegistries" :> <<registry("private", "s1")>>)
    @@ ("controlPlane.kubeletConfiguration" :> [automaticReservations |-> TRUE, enforceNodeAllocatable |-> {"kube-reserved"}])
nutanixMetro ==
    nutanix([provider |-> "KubeVIP", address |-> 12, port |-> 443], 11) @@ twoSites @@ pinned("") @@ kubeadm
    @@ ("globalImageRegistryMirror" :> [url |-> url("mirror", "/cache/"), secret |-> "s2"])
    @@ ("kubeProxy.mode" :> "nftables")
nutanixPlain ==
    ("nutanix.controlPlaneEndpoint" :> [host |-> FirstName, port |-> 6443])
    @@ ("nutanix.prismCentralEndpoint" :> [host |-> 11]) @@ onePlace
    @@ ("kubeProxy.mode" :> "disabled") @@ ("addons.cni" :> "Cilium") @@ ("addons.registry" :> "CNCF Distribution")
    @@ ("addons.serviceLoadBalancer" :> [provider |-> "MetalLB", ranges |-> << <<20, 29>> >>])

(* What the webhooks refuse, each for a reason of its own. *)
refused ==
    << spec("nutanix", nutanix([provider |-> "KubeVIP", address |-> 11], 11) @@ nutanixFull, worker(here), <<pool("a", "")>>),
       spec("nutanix", ("addons.serviceLoadBalancer" :> [provider |-> "MetalLB", ranges |-> << <<5, 15>> >>]) @@ nutanixPlain,
            worker(here), <<pool("a", "")>>),
       spec("nutanix", onePlace @@ nutanixMetro, worker(NoVariables), <<pool("a", "metro-a")>>),
       spec("nutanix", nutanixFull, worker(here), <<pool("a", "fd")>>),
       spec("nutanix", pinned("REQUIRED") @@ nutanixMetro, worker(NoVariables), <<pool("a", "metro-a")>>),
       spec("nutanix", ("addons.cni.values" :> "keeps kube-proxy") @@ nutanixPlain, worker(here), <<pool("a", "")>>),
       spec("nutanix", ("controlPlane.kubeletConfiguration" :> [automaticReservations |-> TRUE, kubeReserved |-> {"cpu"}])
            @@ nutanixFull, worker(here), <<pool("a", "")>>) >>
(* Admitted, but no call for them ever succeeds. *)
brokenPrismCentral(endpoint) ==
    spec("nutanix", ("nutanix.prismCentralEndpoint" :> endpoint) @@ nutanixFull, worker(here), <<pool("a", "")>>)

machine(prefix) ==
    (prefix \o "instanceType" :> "large") @@ (prefix \o "iamInstanceProfile" :> "nodes")
    @@ (prefix \o "ami" :> [id |-> "ami", lookup |-> "ubuntu"]) @@ (prefix \o "additionalTags" :> {"team"})
    @@ (prefix \o "additionalSecurityGroups" :> <<"sg">>) @@ (prefix \o "placementGroup" :> "pg")
    @@ (prefix \o "volumes" :> [root |-> 80, nonroot |-> <<100>>])
network == [vpc |-> "vpc", subnets |-> <<"subnet", "none">>]
aws ==
    ("aws.region" :> "us") @@ ("aws.network" :> network) @@ ("aws.identityRef" :> "id") @@ ("aws.additionalTags" :> {"team"})
    @@ ("aws.controlPlaneLoadBalancer" :> "internal") @@ ("addons.cni" :> "Calico") @@ machine("controlPlane.aws.")
    @@ ("imageRegistries" :> <<[url |-> url("ecr", "/team")], registry("docker.io", "s1")>>)
    @@ ("encryptionAtRest" :> {"aescbc"})
eks ==
    ("eks.region" :> "us") @@ ("eks.network" :> network) @@ ("eks.identityRef" :> "id") @@ ("eks.additionalTags" :> {"team"})
    @@ ("users" :> <<[name |-> "a"]>>) @@ ("kubeProxy.mode" :> "disabled") @@ ("ntp.servers" :> <<"time">>)
docker ==
    ("controlPlane.docker.customImage" :> "kind") @@ ("kubeProxy.mode" :> "iptables")
    @@ ("imageRegistries" :> <<[url |-> url("registry-1.docker.io", "/nutanix"), secret |-> "s1"], registry("private", "s2")>>)
    @@ ("controlPlane.kubeletConfiguration" :> [cpuManagerPolicy |-> "static", kubeReserved |-> {"cpu"}])
    @@ ("encryptionAtRest" :> {"aescbc"})

requests ==
    << spec("nutanix", nutanixFull, worker(here), <<pool("a", "")>>),
       spec("nutanix", nutanixMetro, worker(NoVariables), <<pool("a", "metro-a")>>),
       [spec("nutanix", nutanixPlain, worker(NoVariables), <<pool("a", "fd"), [override |-> worker(here)] @@ pool("b", "")>>)
        EXCEPT !.skip = {"registry"}],
       spec("aws", aws, machine("aws.") @@ ("taints" :> <<"w">>), <<pool("a", "")>>),
       spec("eks", eks, machine("eks.") @@ ("taints" :> <<"w">>), <<pool("a", "")>>),
       spec("docker", docker, NoVariables, <<pool("a", "")>>),
       [spec("docker", docker, ("docker.customImage" :> "kind"), <<pool("a", "")>>) EXCEPT !.v6 = TRUE],
       brokenPrismCentral([host |-> 11, additionalTrustBundle |-> "not base64"]),
       brokenPrismCentral([host |-> 0]) >> \o refused
contents == [s1 |-> <<[user |-> 1, ca |-> 1], [user |-> 2, ca |-> 2]>>,
             s2 |-> <<[user |-> 1, ca |-> 1], [user |-> 0, ca |-> 2]>>]
versions == {28, 33}
============================================================================
