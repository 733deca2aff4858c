---------------------------- MODULE AddonHandlers ----------------------------
(***************************************************************************)
(* The add-on handlers of pkg/handlers/lifecycle over a cluster's life:    *)
(* AfterControlPlaneInitialized until it succeeds, BeforeClusterUpgrade    *)
(* until it succeeds, BeforeClusterDelete.  In each call the handlers run  *)
(* in parallel, one call to an API server at a time (AddonScripts), next   *)
(* to CAAPH, which deploys the releases, to a cache that lags, to the      *)
(* DaemonSet controller and to users.  A failed call is repeated.          *)
(***************************************************************************)
EXTENDS AddonScripts, FiniteSets

CONSTANTS
    AddonSets,  \* the sets of add-ons a cluster may have
    Nodes,      \* the nodes of the workload cluster
    MaxFaults   \* bound on API errors and restarts of the manager

ASSUME AddonSetsAssumption == AddonSets \subseteq SUBSET Addons
ASSUME NodesAssumption == IsFiniteSet(Nodes)
ASSUME MaxFaultsAssumption == MaxFaults \in Nat

VARIABLES
    active,     \* the add-ons of the cluster
    stage,      \* where Cluster API is in the cluster's life
    calling,    \* is a hook being called?
    config,     \* what users and the installed extensions ask for
    req,        \* the configuration in the request of the current or last call
    st,         \* per add-on: off, run, ok or failed in the current call
    pc,         \* per add-on: the next step of its script
    seen,       \* per add-on: had the object an owner when it was read?
    objs,       \* the objects
    hcp,        \* the HelmChartProxies
    cached,     \* the HelmChartProxies in the manager's cache
    pods,       \* the Cilium pod of each node
    passed,     \* the preflight resources that have been ready during the upgrade
    faults      \* API errors and restarts so far

handlers == <<st, pc, seen>>
world == <<objs, hcp, cached, pods>>
vars == <<active, stage, calling, config, req, handlers, world, passed, faults>>

\* What a HelmChartProxy asks for: the chart's version and, for Cilium, whether
\* it replaces kube-proxy.
NoSpec == [version |-> 0, kpr |-> FALSE]
Specs == [version : 1..2, kpr : BOOLEAN]
NoProxy == [want |-> NoSpec, have |-> NoSpec, deleting |-> FALSE]

\* Mutant: a chart the extensions do not have.
SlipNextVersion(r) ==
    [version |-> req.version + 1,
     kpr |-> r \in {"cilium", "cilium-preflight"} /\ req.disabled]

SpecFor(r) ==
    [version |-> req.version,
     kpr |-> r \in {"cilium", "cilium-preflight"} /\ req.disabled]

\* Ready with the observed generation being the current one.
Ready(proxy) == proxy.want # NoSpec /\ proxy.have = proxy.want
Proxy(r) == IF r \in DOMAIN hcp THEN hcp[r] ELSE NoProxy

\* The releases whose deployment a handler waits for.
Waited == {"cilium", "cilium-preflight", "flow-cni", "multus", "metallb"}
ReleasesOf(addons) ==
    {Release(a) : a \in addons \cap HelmAddons}
        \cup (IF "cilium" \in addons THEN {"cilium-preflight"} ELSE {})

Hook == CASE stage = "initialize" -> "AfterControlPlaneInitialized"
          [] stage = "upgrade" -> "BeforeClusterUpgrade"
          [] stage = "delete" -> "BeforeClusterDelete"
          [] OTHER -> "none"
Autoscalers == {"autoscaler", "autoscaler-crs"}
Called(hook) == IF hook = "BeforeClusterDelete" THEN active \cap Autoscalers ELSE active

KubeProxy == {<<"DaemonSet", "kube-proxy">>, <<"ConfigMap", "kube-proxy">>}
KubeProxyInstalled == <<"DaemonSet", "kube-proxy">> \in objs

\* The strategies of Cilium.  Of its ClusterResourceSet the manifests decide whether
\* Cilium replaces kube-proxy, those of the charts directory do not.
CiliumCNI == {"cilium", "cilium-crs"}
Manifests == <<"Applied", "cilium">>

\* Cilium as the workload cluster has it.
Cilium ==
    IF "cilium-crs" \in active
    THEN IF Manifests \in objs THEN [version |-> 1, kpr |-> config.replaces] ELSE NoSpec
    ELSE Proxy("cilium").have

\* The template of the Cilium DaemonSet, and whether all pods run it.
Template == <<Cilium.version, <<"RestartedAt", "cilium">> \in objs>>
NoPod == [template |-> <<0, FALSE>>, kpr |-> FALSE]
RolledOut == \A n \in Nodes : pods[n].template = Template

\* The state of a handler that does not run.
AllOff == [a \in active |-> "off"]
AtStart == [a \in active |-> 1]
NothingSeen == [a \in active |-> FALSE]

Init ==
    /\ active \in AddonSets
    /\ stage = "initialize"
    /\ calling = FALSE
    /\ config \in [version : {1}, disabled : BOOLEAN, skip : {FALSE}, created : BOOLEAN,
                   replaces : BOOLEAN]
    /\ config.created = ~config.disabled
    /\ config.disabled => active \cap CiliumCNI # {}
    /\ config.replaces => "cilium-crs" \in active
    /\ req = [hook |-> "none", version |-> 1, disabled |-> FALSE, skip |-> FALSE]
    /\ st = AllOff
    /\ pc = AtStart
    /\ seen = NothingSeen
    /\ objs = IF config.created THEN KubeProxy ELSE {}
    /\ hcp = [r \in ReleasesOf(active) |-> NoProxy]
    /\ cached = hcp
    /\ pods = [n \in Nodes |-> NoPod]
    /\ passed = {}
    /\ faults = 0

------------------------------------------------------------------------------
(* Cluster API *)

\* The request carries the cluster as it is now; the charts are those of the
\* installed extensions.
BeginCall ==
    /\ ~calling
    /\ Hook # "none"
    /\ calling' = TRUE
    /\ req' = [hook |-> Hook, version |-> config.version,
               disabled |-> config.disabled, skip |-> config.skip]
    /\ st' = [a \in active |-> IF a \in Called(Hook) THEN "run" ELSE "off"]
    /\ UNCHANGED <<active, stage, config, pc, seen, world, passed, faults>>

\* Mutant: one provider's success hides another one's failure.
Answer == IF \E a \in active : st[a] = "failed" THEN "Failure" ELSE "Success"

NextStage == CASE stage = "initialize" -> "running"
               [] stage = "upgrade" -> "upgraded"
               [] OTHER -> "deleted"

\* All handlers have returned: a Failure is retried, a Success lets Cluster API
\* go on.
Return ==
    /\ calling
    /\ \A a \in active : st[a] # "run"
    /\ calling' = FALSE
    /\ stage' = IF Answer = "Success" THEN NextStage ELSE stage
    /\ st' = AllOff
    /\ pc' = AtStart
    /\ seen' = NothingSeen
    /\ UNCHANGED <<active, config, req, world, passed, faults>>

\* A new Kubernetes version; the extensions, and their charts, may have been
\* upgraded before.
StartUpgrade ==
    /\ stage = "running"
    /\ stage' = "upgrade"
    /\ \E v \in {config.version, 2} : config' = [config EXCEPT !.version = v]
    /\ UNCHANGED <<active, calling, req, handlers, world, passed, faults>>

\* Cluster API reconciles a cluster in one place: no hook runs at this time.
\* Of these add-ons only the autoscaler has something to do before a deletion.
StartDelete ==
    /\ ~calling
    /\ stage \notin {"delete", "deleted"}
    /\ active \cap Autoscalers # {}
    /\ stage' = "delete"
    /\ UNCHANGED <<active, calling, config, req, handlers, world, passed, faults>>

------------------------------------------------------------------------------
(* The steps of a handler. *)

ScriptOf(a) == Script(a, req)

\* a runs and, within the CSI handler, no other provider is half-done.
Turn(a) ==
    /\ calling
    /\ st[a] = "run"
    /\ \A b \in active \ {a} :
         SameHandler(a, b) => st[b] # "run" \/ pc[b] = 1

At(a, ops) == Turn(a) /\ ScriptOf(a)[pc[a]].op \in ops
Current(a) == ScriptOf(a)[pc[a]]

\* Go on with the step at position i, or return with success.
GoTo(a, i) ==
    /\ pc' = [pc EXCEPT ![a] = i]
    /\ st' = [st EXCEPT ![a] = IF i > Len(ScriptOf(a)) THEN "ok" ELSE "run"]

GoOn(a) == GoTo(a, pc[a] + 1)

\* Return with an error.
GiveUp(a) ==
    /\ st' = [st EXCEPT ![a] = "failed"]
    /\ UNCHANGED pc

unchangedOutside == <<active, stage, calling, config, req>>

\* A read, an apply or a delete of objects.
Call(a) ==
    /\ At(a, {"call", "softUpdate"})
    /\ objs' = (objs \ Current(a).del) \cup Current(a).put
    /\ GoOn(a)
    /\ UNCHANGED <<unchangedOutside, seen, hcp, cached, pods, passed, faults>>

Owned(a) == <<"OwnerReference", Current(a).on>> \in objs

GetObject(a) ==
    /\ At(a, {"get"})
    /\ seen' = [seen EXCEPT ![a] = Owned(a)]
    /\ GoOn(a)
    /\ UNCHANGED <<unchangedOutside, world, passed, faults>>

\* Mutant: an object that already has an owner is an error.
SlipAlreadyOwned(a) ==
    /\ At(a, {"update"})
    /\ IF ~seen[a] /\ ~Owned(a)
       THEN GoOn(a) /\ objs' = objs \cup Current(a).put
       ELSE GiveUp(a) /\ UNCHANGED objs
    /\ UNCHANGED <<unchangedOutside, seen, hcp, cached, pods, passed, faults>>

\* The Update conflicts if another handler has changed the object since it was
\* read; an Update that changes nothing leaves the version alone.
UpdateOwner(a) ==
    /\ At(a, {"update"})
    /\ IF seen[a] = Owned(a)
       THEN GoOn(a) /\ objs' = objs \cup Current(a).put
       ELSE GiveUp(a) /\ UNCHANGED objs
    /\ UNCHANGED <<unchangedOutside, seen, hcp, cached, pods, passed, faults>>

ApplyRelease(a) ==
    /\ At(a, {"apply"})
    /\ LET r == Current(a).on IN hcp' = [hcp EXCEPT ![r].want = SpecFor(r)]
    /\ GoOn(a)
    /\ UNCHANGED <<unchangedOutside, seen, objs, cached, pods, passed, faults>>

\* A delete leaves the HelmChartProxy until its release is uninstalled; that
\* there is none is no error.
RemoveRelease(a) ==
    /\ At(a, {"remove"})
    /\ LET r == Current(a).on
       IN hcp' = [hcp EXCEPT ![r].deleting = hcp[r].want # NoSpec]
    /\ GoOn(a)
    /\ UNCHANGED <<unchangedOutside, seen, objs, cached, pods, passed, faults>>

\* The conditions of the waits: the HelmChartProxy as the cache has it, objects
\* of the workload cluster as they are.
Holds(step) ==
    CASE step.op = "wait" -> Ready(cached[step.on])
      [] step.op = "await" -> step.put \subseteq objs
      [] step.op = "awaitConfig" -> Cilium.kpr
      [] step.op = "awaitRollout" -> RolledOut

Waits == {"wait", "await", "awaitConfig", "awaitRollout"}

WaitEnds(a) ==
    /\ At(a, Waits)
    /\ Holds(Current(a))
    /\ GoOn(a)
    /\ UNCHANGED <<unchangedOutside, seen, world, passed, faults>>

WaitTimesOut(a) ==
    /\ At(a, Waits)
    /\ ~Holds(Current(a))
    /\ GiveUp(a)
    /\ UNCHANGED <<unchangedOutside, seen, world, passed, faults>>

\* isKubeProxyInstalled: without the DaemonSet the migration counts as done.
LookForKubeProxy(a) ==
    /\ At(a, {"ifInstalled"})
    /\ IF KubeProxyInstalled
       THEN GoOn(a)
       ELSE GoTo(a, pc[a] + 1 + Len(KubeProxyMigration))
    /\ UNCHANGED <<unchangedOutside, seen, world, passed, faults>>

\* A call fails: the handler returns an error, except where it forgets to.
CallFails(a) ==
    /\ Turn(a)
    /\ faults < MaxFaults
    /\ faults' = faults + 1
    /\ IF Current(a).op = "softUpdate" THEN GoOn(a) ELSE GiveUp(a)
    /\ UNCHANGED <<unchangedOutside, seen, world, passed>>

\* The manager restarts: the call is lost, and Cluster API sees an error.
ManagerRestarts ==
    /\ calling
    /\ faults < MaxFaults
    /\ faults' = faults + 1
    /\ calling' = FALSE
    /\ st' = AllOff
    /\ pc' = AtStart
    /\ seen' = NothingSeen
    /\ cached' = hcp
    /\ UNCHANGED <<active, stage, config, req, objs, hcp, pods, passed>>

HandlerStep(a) ==
    \/ Call(a)
    \/ GetObject(a)
    \/ UpdateOwner(a)
    \/ ApplyRelease(a)
    \/ RemoveRelease(a)
    \/ WaitEnds(a)
    \/ WaitTimesOut(a)
    \/ LookForKubeProxy(a)

------------------------------------------------------------------------------
(* CAAPH, the workload cluster, the cache and users. *)

environment == <<active, stage, calling, req, handlers, faults>>

\* CAAPH installs or upgrades a release (of the others no handler and no property
\* sees whether they are deployed).  New preflight pods have to become
\* ready again.
Deploy(r) ==
    /\ r \in Waited
    /\ hcp[r].want # hcp[r].have
    /\ ~hcp[r].deleting
    /\ hcp' = [hcp EXCEPT ![r].have = hcp[r].want]
    /\ objs' = IF r = "cilium-preflight"
               THEN objs \ {<<"Ready", "DaemonSet">>, <<"Ready", "Deployment">>}
               ELSE objs
    /\ UNCHANGED <<environment, config, cached, pods, passed>>

Uninstall(r) ==
    /\ hcp[r].deleting
    /\ hcp' = [hcp EXCEPT ![r] = NoProxy]
    /\ objs' = IF r = "cilium-preflight"
               THEN objs \ {<<"Ready", "DaemonSet">>, <<"Ready", "Deployment">>}
               ELSE objs
    /\ UNCHANGED <<environment, config, cached, pods, passed>>

PreflightPasses(kind) ==
    /\ Proxy("cilium-preflight").have # NoSpec
    /\ <<"Ready", kind>> \notin objs
    /\ objs' = objs \cup {<<"Ready", kind>>}
    /\ passed' = passed \cup {kind}
    /\ UNCHANGED <<environment, config, hcp, cached, pods>>

CacheCatchesUp(r) ==
    /\ r \in Waited
    /\ cached[r] # hcp[r]
    /\ cached' = [cached EXCEPT ![r] = hcp[r]]
    /\ UNCHANGED <<environment, config, objs, hcp, pods, passed>>

\* The ClusterResourceSet controller creates what the manifests of Cilium contain.
ApplyManifests ==
    /\ <<"ClusterResourceSet", "cilium">> \in objs
    /\ Manifests \notin objs
    /\ objs' = objs \cup {Manifests}
    /\ UNCHANGED <<environment, config, hcp, cached, pods, passed>>

\* A Cilium pod starts, from the DaemonSet's template and with the
\* configuration of the moment.
StartPod(n) ==
    /\ Cilium # NoSpec
    /\ pods[n].template # Template
    /\ pods' = [pods EXCEPT ![n] = [template |-> Template, kpr |-> Cilium.kpr]]
    /\ UNCHANGED <<environment, config, objs, hcp, cached, passed>>

\* The mode of kube-proxy can be set once in a running cluster.  (A call has its
\* copy of the cluster, so an edit during a call is one after it.)  Of the handlers
\* only Cilium's asks for it, with either strategy.
DisableKubeProxy ==
    /\ ~calling
    /\ active \cap CiliumCNI # {}
    /\ ~config.disabled
    /\ config' = [config EXCEPT !.disabled = TRUE]
    /\ UNCHANGED <<environment, world, passed>>

\* The annotation skip-cilium-preflight.
SkipPreflight ==
    /\ ~calling
    /\ "cilium" \in active
    /\ ~config.skip
    /\ config' = [config EXCEPT !.skip = TRUE]
    /\ UNCHANGED <<environment, world, passed>>

Kinds == {"DaemonSet", "Deployment"}

\* Cluster API and the handlers it has called.
Calls ==
    \/ BeginCall
    \/ Return
    \/ \E a \in active : HandlerStep(a)

\* What goes on beside them.
Surroundings ==
    \/ \E r \in DOMAIN hcp : Deploy(r) \/ Uninstall(r) \/ CacheCatchesUp(r)
    \/ \E k \in Kinds : PreflightPasses(k)
    \/ ApplyManifests
    \/ \E n \in Nodes : StartPod(n)

Next ==
    \/ Calls
    \/ Surroundings
    \/ StartUpgrade
    \/ StartDelete
    \/ \E a \in active : CallFails(a)
    \/ ManagerRestarts
    \/ DisableKubeProxy
    \/ SkipPreflight

\* Cluster API retries and the goroutines of a call get to run; CAAPH, the watches,
\* the ClusterResourceSet and the DaemonSet controllers make progress.  Users and faults need not.
Fairness == WF_vars(Calls) /\ WF_vars(Surroundings)

Spec == Init /\ [][Next]_vars /\ Fairness

------------------------------------------------------------------------------
(* Properties *)

\* Type invariant: every variable stays within its set.
TypeOK ==
    /\ active \in AddonSets
    /\ stage \in {"initialize", "running", "upgrade", "upgraded", "delete", "deleted"}
    /\ calling \in BOOLEAN
    /\ config \in [version : 1..2, disabled : BOOLEAN, skip : BOOLEAN, created : BOOLEAN,
                   replaces : BOOLEAN]
    /\ req \in [hook : {"none", "AfterControlPlaneInitialized", "BeforeClusterUpgrade",
                        "BeforeClusterDelete"},
                version : 1..2, disabled : BOOLEAN, skip : BOOLEAN]
    /\ st \in [active -> {"off", "run", "ok", "failed"}]
    /\ pc \in [active -> Nat \ {0}]
    /\ seen \in [active -> BOOLEAN]
    /\ hcp \in [ReleasesOf(active) -> [want : Specs \cup {NoSpec}, have : Specs \cup {NoSpec},
                             deleting : BOOLEAN]]
    /\ cached \in [ReleasesOf(active) -> [want : Specs \cup {NoSpec}, have : Specs \cup {NoSpec},
                                deleting : BOOLEAN]]
    /\ pods \in [Nodes -> [template : (0..2) \X BOOLEAN, kpr : BOOLEAN]]
    /\ passed \subseteq Kinds
    /\ faults \in 0..MaxFaults

\* What the pods of a release mount or pull with, and what a ClusterResourceSet
\* refers to.
Needs(a) ==
    CASE a = "nutanix-csi" -> {<<"Secret", "ntnx-system/nutanix-csi">>}
      [] a = "konnector" -> {<<"Secret", "ntnx-system/konnector-agent">>}
      [] a = "nutanix-ccm" -> {<<"Secret", "kube-system/nutanix-ccm">>}
      [] a = "flow" -> {<<"Secret", "flow-cni-system/pull">>, <<"Secret", "flow-cns-system/pull">>,
                        <<"Secret", "ovn-kubernetes/pull">>, <<"OwnerReference", "flow-values">>}
      [] a = "metallb" -> {<<"Namespace", "metallb-system">>}
      [] a = "calico-crs" -> {<<"ConfigMap", "tigera-operator-1">>,
                              <<"ConfigMap", "tigera-operator-2">>, <<"ConfigMap", "calico">>}
      [] a = "nfd-crs" -> {<<"ConfigMap", "nfd">>}
      [] OTHER -> {}

Deployed(a) ==
    IF a \in HelmAddons
    THEN hcp[Release(a)].want # NoSpec
    ELSE \E name \in {"calico", "nfd"} :
           /\ <<"ClusterResourceSet", name>> \in objs
           /\ <<"ConfigMap", name>> \in Needs(a)

\* Whatever the interleaving and wherever an earlier call stopped, a release or a
\* ClusterResourceSet exists only when the Secrets, namespaces, owner references and
\* ConfigMaps it depends on exist (the order of the calls in each handler's apply).
NothingDeployedTooEarly ==
    \A a \in active : Deployed(a) => Needs(a) \subseteq objs

\* The namespaces whose pods are rejected by Pod Security Admission without the
\* privileged label.
PrivilegedNamespace(a) ==
    CASE a \in {"nutanix-csi", "konnector"} -> {"ntnx-system"}
      [] a = "nfd" -> {"node-feature-discovery"}
      [] a = "metallb" -> {"metallb-system"}
      [] OTHER -> {}

\* A hook succeeds only if every add-on was applied with the configuration of that
\* call: no provider that failed is masked by one that did not. The namespaces are then
\* privileged where the add-ons need it, although copying a Secret takes the label away
\* and the CSI and the Konnector Agent handlers write the same namespace in parallel.
SuccessMeansApplied ==
    stage \in {"running", "upgraded"} =>
        /\ \A a \in active \cap HelmAddons : hcp[Release(a)].want = SpecFor(Release(a))
        /\ \A a \in active : \A ns \in PrivilegedNamespace(a) : <<"Privileged", ns>> \in objs

\* In a cluster created with kube-proxy the node ports and Services of each node are
\* always served: kube-proxy goes away only after every Cilium pod runs with its
\* replacement (runApply, forceCiliumRollout, cleanupKubeProxy).
ServicesStayRouted ==
    config.created => KubeProxyInstalled \/ \A n \in Nodes : pods[n].kpr

\* An upgrade changes the Cilium release only after each resource of the preflight
\* release has become ready, unless the request asked to skip it.
UpgradeWaitsForPreflight ==
    [][ (Proxy("cilium")'.want # Proxy("cilium").want /\ RunsPreflight(req)) => passed = Kinds ]_vars

Gone(r) == Proxy(r).want = NoSpec \/ Proxy(r).deleting

\* What a hook has to remove is gone or being deleted when it succeeds, wherever an
\* earlier call stopped: the preflight release of an upgrade, and at the deletion the
\* autoscaler, which lives in the management cluster, where no owner reference to the
\* cluster collects it.
NothingLeftBehind ==
    /\ stage = "upgraded" /\ RunsPreflight(req) => Gone("cilium-preflight")
    /\ stage = "deleted" =>
         Gone("cluster-autoscaler") /\ <<"ClusterResourceSet", "cluster-autoscaler">> \notin objs

\* kube-proxy is to go, but the manifests of the ClusterResourceSet do not replace it:
\* the configuration that runApply waits for never arrives.
WaitsForEver ==
    /\ "cilium-crs" \in active /\ ~config.replaces
    /\ config.disabled /\ KubeProxyInstalled

\* Retries lead to success: with finitely many faults every hook is eventually
\* answered with Success, although handlers conflict on the credentials Secret, time
\* out in their waits and find what earlier calls left - unless Cilium's configuration
\* can never become the one the handler waits for.
HooksEventuallySucceed == Hook # "none" ~> (Hook = "none" \/ WaitsForEver)

\* "Delete the Cilium preflight HelmChartProxy only after Cilium has been deployed"
\* (cni/cilium/handler.go).
PreflightStaysUntilDeployed ==
    [][ (Proxy("cilium-preflight")'.deleting /\ ~Proxy("cilium-preflight").deleting)
          => Ready(Proxy("cilium")) ]_vars
==============================================================================
