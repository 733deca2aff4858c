# A TLA+ verification of the Cluster API runtime extensions

This directory models the part of the repository that decides, retries and
waits: the lifecycle hooks that Cluster API calls while it creates, upgrades and
deletes a workload cluster, and the controllers that run next to them.  The
modules are checked with TLC on small instances and the main safety properties
are proved with TLAPS for every value of the constants.

`PROJECT.json` holds the machine-readable side: which source lines each definition
models (`map`), the runs, the mutants that show that each property can fail, the
hazards, the findings and the theorems.

## 1. The system

The program is one Kubernetes controller manager (`cmd/main.go`) on a management
cluster.  It consists of

* a **runtime extension server**: Cluster API (CAPI) calls it over HTTP for every
  lifecycle event of a cluster built from a ClusterClass and for every patch of
  its templates;
* **admission webhooks** on Cluster objects (defaulting, validation, preflight checks);
* three **controllers** with work queues.

| Component | State it keeps or writes | Operations | What makes it hard |
|---|---|---|---|
| Parallel hook runner (`common/.../lifecycle/parallel.go`) | goroutines, wait group, channel, collected responses | run every handler of a hook, aggregate the answers | interleaving of the handlers, of the sends and of the close; order of arrival |
| Konnector Agent handler (`konnectoragent/handler.go`) | a HelmChartProxy (HCP) per cluster; registration in Prism Central | install/upgrade; clean up before deletion | retries, an uninstall that outlives the timeout, the phase that changes between calls |
| Load-balancer GC (`servicelbgc`) | Services of the workload cluster | list, delete, wait before deletion | Services created and provisioned while it runs; one of several deletes fails |
| Registry add-on (`registry/...`) | root CA secret, a CA copy per cluster, server certificates, the syncer's HCP on the management cluster | set up, apply, clean up | several clusters share one secret, reads through a cache; configuration that changes between apply and clean-up |
| Other add-on handlers (`cni`, `csi`, `ccm`, `clusterautoscaler`, `nfd`, `cosi`, `ingress`, `serviceloadbalancer`) | HCPs, ClusterResourceSets, secrets and objects on the workload cluster | apply on creation and upgrade | order of prerequisites, partial failure and retry, stale readiness |
| Failure-domain rollout controller (`controllers/failuredomainrollout`) | `spec.rollout.after` of the KubeadmControlPlane (KCP) | reconcile | decision on objects read earlier, next to the KCP controller; missed wake-ups |
| Namespace sync controller (`controllers/namespacesync`) | copies of ClusterClasses and Templates | reconcile per namespace | independent caches, half-done copies, missed wake-ups |
| Autoscaler limits controller (`controllers/enforceclusterautoscalerlimits`) | replicas in the Cluster's topology | reconcile | races with the autoscaler and users |
| Preflight webhook (`webhook/preflight`) | none; one answer per request | initialise checkers, run checks, combine | concurrency, panics, skips |
| Cluster webhooks (`webhook/cluster`, `webhook/addons`) | annotations and variables of the Cluster | default and validate on create/update | a sequence of legal updates |
| Mutation handlers (`handlers/generic`, `aws`, `eks`, `docker`, `nutanix`, `v6`) | the templates of the request | patch, one mutator after another | interference of mutators that write the same fields |

**Interactions.**  CAPI calls `BeforeClusterCreate`, `AfterControlPlaneInitialized`,
`BeforeClusterUpgrade` and `BeforeClusterDelete`; each runs *all* handlers of that
hook in parallel (`handlers.go`) and folds their answers into one.  A Failure
(or a retry delay) makes CAPI call the hook again later, from the start: this is
the only retry mechanism of the handlers, and it is the reason why every handler
has to be idempotent.  A handler talks to the management cluster through the
manager's cached client, to a workload cluster through a remote client, and to
CAAPH (the Helm add-on provider) by writing HelmChartProxies and waiting for
their status.  The controllers communicate with everybody through the API server
only, with caches that lag.

**Correctness, in one line per component.**  Runner: no answer is lost and no
failure is masked.  Deletion hooks: the deletion proceeds only when the clean-up is
done, and it does proceed eventually.  Certificates: what nodes trust is what they
are served.  Rollout controller: it never starts a rollout on top of another one,
and bad placements are repaired.  Namespace sync: no copied class refers to a
missing Template, and every target eventually has every class.  Preflight: what is
admitted satisfies every check that was not skipped, whatever hangs or fails.
Webhooks and mutators together: what the webhooks admit is what the mutators can live
with, the templates CAPI uses are coherent and backed by Secrets that exist, machines
are not replaced without a reason, and the templates come to follow the Cluster.

## 2. Modules and how they correspond to the code

### HookContract, ParallelHooks - the hook runner

`HookContract` is the abstract promise to CAPI: handlers finish in any order, and
then there is one answer, a function of the *set* of results.  `ParallelHooks`
is `runHooksInParallel` and `aggregateResponses`: `Spawn`, `HookReturns`, `Send`,
`Done` are the statements of a handler's goroutine, `Close` the closer goroutine,
`Receive`/`EndRange` the caller's `range`, `AggregateNext`/`Return` one iteration and
the end of the fold.  `HookPanics` takes the process down, because nothing recovers in
the goroutine.  A response is its status, whether it has a message and its
retry delay; a message is identified with the handler that wrote it.  `Retryable`
distinguishes the response types that carry a delay.

### KonnectorCleanup - unregistering before deletion

`BeforeClusterDelete` of the Konnector Agent, one action per API call
(`Begin`, `GetCluster`, `Lookup`, `CheckStatus`, `DeleteHCP`), each with its failing
form and the manager's restart.  `Consume` is CAPI: a success lets the deletion
proceed, a failure is retried.  The agent itself (`Register`: an installed agent
registers the cluster when it comes up, however late), the phase, the uninstall by CAAPH, the
unregistration, the clock (`age` of the deletion, in ticks) and an operator who
drops finalizers move in between.

A call that finds the cluster not registered answers Success and leaves the
HelmChartProxy (`handler.go:608-619`), so the agent may register the cluster
afterwards, and nothing undoes that (`ReleasedWhileRegistered`).  The history variable
`late` marks a registration that comes after the lookup of the releasing call; it is all that
`DeletionWaitsForUnregistration` excuses, beside a Prism Central that could not be asked
(`pcFault`), forced finalizers and a Cluster that is gone.  The excuse is needed: without it TLC
finds the deletion of a cluster whose agent was still starting released, and the cluster left registered.  The
comment at `handler.go:584-586` and `docs/content/addons/konnector-agent.md:36-42`
("Waits for cleanup completion") do not speak of this case.

### ServiceLBGC - collecting load balancers

`handler.go` and `deleter.go`: the decision to skip, the remote client, the list, and
one `LoopStep` per Service of the list, whose state is that of the list (`snapshot`)
while the Service moves on.  Users create Services, the cloud provider provisions and
reclaims.  `late` is a history variable: load balancers that came up after the
last list, which no implementation of this kind can see.

### RegistrySyncer - a HelmChartProxy that only Cleanup removes

A cluster's life from the first apply to its deletion, with the guards of the
registry handler and of `shouldApplyRegistrySyncer`, evaluated on the
configuration of the moment; `Reconfigure` edits it.

### RegistryCA - one root CA for all clusters

The three uses of the root CA secret: created if missing and copied to a cluster's
secret (`CheckRoot`, `CreateRoot`, `CopyRoot`), and read to sign a server certificate
(`SignServerCertificate`).  Reads go through the cache; the write is a *forced*
server-side apply, which replaces what is there.  A certificate is the CA that
signed it.  `calm` selects the executions in which first hooks of two clusters do not
overlap and reads are fresh.

### FailureDomainRollout - the rollout controller

The placement arithmetic of the controller as operators over a function from failure
domains to machine counts, and the reconcile in two steps: `ReadObjects`
(Cluster and KCP) and `TriggerRollout`/`EndReconcile` (list the machines, decide, Update
with the resource version that was read).  The KCP controller's placement and
removal of machines, the users' edits, pauses and deletions, timers and the
resync of the cache are further actors.  The controller watches Clusters only: an
edit of the KCP wakes nobody.

### NamespaceSync - copying classes

Events update a cache and then enqueue namespaces; a reconcile lists the cached
source classes and copies, object by object, what its cache does not show.
Namespaces, source classes, source Templates and copies have separate caches.
An AlreadyExists error, which a lagging cache produces, ends the whole reconcile.

### AddonScripts, AddonHandlers - the add-on handlers

`AddonScripts` writes each add-on handler (CNI, CSI, CCM, snapshot controller, COSI,
NFD, load balancers, Konnector Agent, autoscaler; Helm and ClusterResourceSet
strategies) as the sequence of API calls its `apply` makes, with both strategies of
Cilium followed by what `runApply` does after either of them (`CiliumRunApply`: the migration away from kube-proxy), built from operators for the
shared helpers: the owner reference as a read and a conflicting Update, a Secret
copied behind a namespace apply that takes labels away, the apply of a
HelmChartProxy with or without a wait.  `AddonHandlers` runs the scripts of a
cluster's add-ons in parallel, call by call, over the cluster's life: `BeginCall` and
`Return` are CAPI with its retries, `HandlerStep` one call of a handler, `CallFails`
an error at any call, `ManagerRestarts` the loss of a whole call.  Beside them CAAPH
deploys and uninstalls, the manager's cache lags behind the API server
(`CacheCatchesUp`; the waits for HelmChartProxies read it), the preflight pods
become ready, and the DaemonSet controller restarts Cilium pods, which read the
configuration of that moment (`StartPod`).  Users switch kube-proxy off and set the
skip annotation, and a new version of the extensions brings new charts.  A timeout of
a wait is possible whenever its condition does not hold.  Values, manifests and
namespaces on the management cluster are left out, but for one thing: whether Cilium
replaces kube-proxy.  With Helm the request decides that, for the values are a template over the Cluster.  With a
ClusterResourceSet the manifests do (`config.replaces`, constant for the life of a cluster; `ApplyManifests` is the
ClusterResourceSet controller), and the ones in the chart do not replace it.  A user may
disable kube-proxy, at creation or later, with either strategy.  If the manifests do not
replace it, `runApply` waits on every retry for a configuration that never arrives (`WaitsForEver`):
`HooksEventuallySucceed` excuses exactly that state.  The excuse is needed: without it TLC finds the upgrade that is
blocked for ever, although the comment at `cni/cilium/handler.go:332` says that kube-proxy can be disabled in a
running cluster.
`ServicesStayRouted` is about clusters created with kube-proxy; one created without it and with
manifests that do not replace it has no Service routing from the start, whatever the handlers do.
Helm values of a user's own that leave kube-proxy's replacement out are what the Cilium validator
refuses (`ClusterAdmission`); values that its skip annotation lets through are not modelled here, and would
wait in the same way.

### Preflight, PreflightChecks, PreflightSoundness - the preflight webhook

`PreflightChecks` holds the checks as operators: what each checker's `Init` builds from
the request (credentials, configuration, registries, VM images, failure domains, CIDRs,
storage containers, the control plane endpoint, metro clusters) and what each check
answers, given the set of API calls that fail.  The factories hand each other a client
and a version, so one that returns early removes what is built after it.  `Preflight`
is `Handle` for one request: the early returns, then a goroutine per checker
(`InitChecker`), a goroutine per check (`StartCheck`, `RunCheck`), which may panic,
the results stored by index, and the summary.  The context of the checks may expire at
any moment.  From then on the calls that `callWithContext` abandons, a ping and a dial fail
(`Abandoned`); those that merely get the context, and whose client may answer all the same (`Given`: the reads of the
management cluster's cache, the user and version of Prism Central, the round-trip time), fail or not,
in the combinations that `LateFailures` lists; the reads while the checks are built and the creation of the
client do without the context.  A call to a service that hangs ends at the deadline: for
those of `Given` this assumes that the client honours its context.

Three outcomes look odd and are in the code.  A pool with neither an image nor a lookup is denied *without a cause*
(`Denied`; `image.go:85-86`, asserted by `image_test.go:294-303`); the API's validation rule
(`nutanix_node_types.go:30`) normally keeps such a pool out, but the webhook does not rely on it.  A Prism Element without an
identifier makes the CIDR check panic (`PanicsOn`, `cidrvalidation.go:518`), which `Recovered` turns into an internal
error.  A subnet whose prefix does not parse is an internal error (`prefixesOf`).  `PreflightSoundness` says, without the code of the
checks, what each check's name stands for.  `MCPreflight` has the requests: three Clusters
that pass (machineDetails, failure domains, metro), each with one thing changed, and some
of them again with a check skipped, an API error or a service that hangs.

### ClusterAdmission - the webhooks on Clusters

The defaulters (UUID label, metro storage affinity, registry auto-enabler) and the
validators (Nutanix, Cilium, kubelet configuration, metro, UUID) as operators on a
Cluster's specification, with the annotations that skip them.  Each of them finds the
`clusterConfig` variable: the kubelet validator alone could do without it
(`kubeletconfiguration_validator.go:70`), but every class requires the variable (`Required: true`,
e.g. `nutanix/clusterconfig/variables.go:45`) and CAPI refuses a Cluster without it.

### PatchHandlers, RegistryPatches, ProviderPatches - the mutators

Every mutator behind GeneratePatches is an operator from a context (variables, builtin
versions, what was read from the API server) and a template to a template.  A template
keeps its files, commands, extra arguments, volumes and other fields; the text of a file
is the inputs it is made from, and `from` names the Secret that it comes from, if any.
`RegistryPatches` has the mutators that read Secrets (credentials, mirrors, encryption at rest), those of the previous version included, which
differ in the credentials alone; `ProviderPatches` has those of Nutanix, AWS, EKS and
Docker and the order in which the meta patch handlers run them.  A Prism Central URL that does not
parse fails its mutator (`prismcentralendpoint/inject.go:103-106`).  One error is left out: an
admission configuration that does not parse (`admission_configuration.go:107-109`); the file is the class's
own, and the classes of the chart hold one that does.

### Topology - from a written Cluster to the templates in use

The composition: a user submits, changes and upgrades a Cluster and rotates its Secrets;
the webhooks admit it; `BeforeClusterCreate` prepares the registry add-on's CA; then
CAPI calls GeneratePatches on every reconcile.  A call is the sequence of its API
steps: the versions read for kube-vip and CoreDNS, the Secrets read for the credentials,
the owner references and the generated Secret, the Secrets read again for the mirrors, the
look-up and the creation of the encryption key.  Everything else about a call is a function of
these reads and of the request, tabulated once.  Between any two steps objects change,
events reach the manager's cache (`Sync`, one object at a time), calls fail
(`APIError`), are given up by CAPI and run on (`Timeout`, `ZombieStep`), or are lost
in a crash.  Simplifications: the reads of one mutator's Secrets happen at one
instant; setting the owners and applying the generated Secret are one step; machine
deployments have the control plane's version; a Cluster's deletion is not part of it.
Reads of Secrets for templates of infrastructure can only fail a call, which `APIError` covers.

### Proof modules

`ParallelHooksProofs`, `KonnectorCleanupProofs`, `ServiceLBGCProofs`, `AddonHandlersProofs`,
`PreflightProofs` and `TopologyProofs` extend the module they are about; `RegistryProofs`
is about both parts of the registry add-on (`RegistryCA`, `RegistrySyncer`), and
`ControllersProofs` about both controllers (`FailureDomainRollout`, `NamespaceSync`).  The
second module of each pair gives its definitions a prefix (`Syncer...`, `Sync...`), so that
the two can be extended together.

## 3. Runs

Passing runs:

| Run | Instance | What it shows |
|---|---|---|
| `parallel` | 2 handlers, delays {0, 5, 30} | No response is lost or counted twice, no send can block or hit a closed channel, Failure exactly when some handler failed, the shortest delay wins, the call ends, and the runner implements `HookContract` |
| `konnector` | timeout of 2 ticks, 2 faults | The deletion never overtakes the unregistration of a cluster that was registered when the releasing call looked; it is eventually allowed |
| `service_lb_gc` | 2 Services, 2 faults | No load balancer older than the last list survives; the deletion is eventually allowed |
| `registry_syncer` | 2 faults, every configuration | Only an edit of the configuration makes a syncer outlive its cluster |
| `registry_ca` | 2 clusters, 7 key pairs, 1 fault | Without overlapping first hooks nodes trust their registry and the root CA is never replaced; with any overlap every cluster still gets a certificate |
| `fd_rollout` | 2 domains, 1 or 3 replicas, 2 edits, 1 fault | Rollouts never overlap, an even spread is left alone, the control plane ends up well placed |
| `namespace_sync` | 2 namespaces, 2 classes that share a Template, 5 edits, 1 fault | No copied class is incomplete; every target ends up with every class |
| `addons` | every add-on, those that share objects together, 1 node, 1 fault | Prerequisites come before what needs them, a successful hook leaves namespaces privileged and every release at the requested version, kube-proxy goes only after Cilium has replaced it, an upgrade waits for the preflight and cleans it up, a deletion removes the autoscaler, retries lead to success unless the manifests of a ClusterResourceSet can never bring the configuration that is waited for |
| `preflight` | 130 requests, 1 API error, 2 checks of a checker at once | The order of goroutines does not show in the answer, an internal error refuses with a 500 and a cause, a 422 names a cause too unless a pool names no image at all, and an admitted Cluster satisfies every check that it did not skip, also when services hang or the deadline passes |
| `topology` | 16 requests of 4 providers (7 of them refused, 2 never answerable), 2 Secrets with 2 contents each, 2 versions, 2 disturbances | Templates in use are coherent, sound and backed by their Secrets, the encryption key is never replaced, templates do not change without a reason, and they come to follow the Cluster |

Runs that show a disagreement between the code and what is said about it (each has
an entry in `findings`):

| Run | What the trace shows |
|---|---|
| `registry_ca_race` | Two clusters are created together; the second one's hook reads a cache that does not show the first one's write yet, finds no root CA, and its forced write replaces the one that is there |
| `addons_stale_wait` | The wait for Cilium's new chart ends on the cached proxy of the old one, and the preflight release is deleted before Cilium is deployed |

**Bounds.**  Every bound is a constant.  *Two* of everything that can interfere
(handlers, Services, clusters, namespaces, domains) is the least number for which
one can overtake another, and the properties are about pairs or about one
element against the rest.  Two delays besides zero are needed to compare and to
ignore.  A timeout of two ticks lets the uninstall end before, at and after it.
Faults and edits are bounded because each consumes a retry: one fault per
operation is enough to stop it at every step; a second one hits the retry.  Seven key
pairs leave one that no secret of the instance refers to.  Five edits let a label,
a class and its Templates arrive in any order.  One or three replicas are the
usual control planes.  One node is enough for `ServicesStayRouted`, which is about each
node by itself against the state that all of them wait for; together with the
fairness properties a second one exceeds the time of a run, and was checked for the
invariants alone.  The add-ons of `MCAddonHandlers` run together when they share the
credentials Secret, a namespace or a handler; any others write disjoint objects.  In `topology` the first write of a Cluster is free and
everything that disturbs it afterwards (a write, an upgrade, a rotated or deleted Secret, the
registry add-on of the management cluster, an API error, a call given up, a crash) comes
out of one bound of two: every pair of them is explored, in either order and at every step
of a call, which is what two calls or a call and a change need to interfere.  A
Cluster may be older than the webhooks (`Legacy`).  The requests together set every
variable that a mutator reads and break every rule of a webhook once.  Two versions of
Kubernetes lie on either side of the ones that kube-vip and CoreDNS distinguish.  In
`preflight` one thing is wrong at a time, because a check looks at its own part of the
request; skips and faults are combined with it.  Of the calls that may or may not fail past the
deadline the run takes the combinations in `LateFailures`; the proofs take any.  Deadlock checking is off where
a call or a cluster's life really ends.

What some properties leave out, on purpose: `LoadBalancersCollected` speaks of
the last list that was *made*, and an error of the list lets the deletion proceed (section 5);
`LeaksOnlyAfterReconfiguration` excuses an edit of the configuration between apply and clean-up;
the first two properties of `registry_ca` hold under `calm`, and `registry_ca_race` shows why;
in `NamespaceSync` the informers replay their caches every few hours (`Relist`), which repairs a missed event;
`passed` in `AddonHandlers` counts readiness over one upgrade, and not for each deployment of its
preflight release, which retries may apply again; and `SecretsBehindTemplates` is about answers, while a
Cluster that can never be answered is excused from `Converges`.

**Fairness.**  Weak fairness of a goroutine's steps (the Go scheduler), of
CAPI's next call after a failure (its controller requeues), of watches, timers and
the work queue (controller-runtime), and of the KCP controller, CAAPH's uninstall
and the cloud provider where a property is about the outcome of their work.
Nothing is assumed of users, except that they stop creating Services in a cluster
they are deleting (`ServiceLBGC`), and no fault has to happen or not to happen
beyond its bound.  `Topology` assumes that CAPI reconciles a Cluster again and again
(its periodic resync), that the handlers of calls run, abandoned ones too, and that
informers deliver; `Converges` speaks of the states in which the Cluster can be answered
at all (`Answerable`).  `AddonHandlers` assumes
weak fairness of CAPI with the handlers it called, and of everything beside
them taken together (CAAPH, cache, DaemonSet controller), not of each part.

## 4. Proofs

| Theorem | Module | Statement |
|---|---|---|
| `TypeCorrect`, `NoResponseLost`, `SendsAlwaysSafe`, `FailureReported`, `ShortestRetryWins` | `ParallelHooksProofs` | The runner's safety properties, for any finite set of handlers and delays |
| `WaitsForUnregistration`, `TypeCorrect` | `KonnectorCleanupProofs` | The deletion never overtakes the unregistration of a cluster that was registered when the releasing call looked, for any timeout; a registration that begins after that lookup is the one case left |
| `ContractKept` | `ParallelHooksProofs` | The runner implements `HookContract`: every step is a step of the contract or a stutter |
| `NothingLeftBehind`, `TypeCorrect` | `ServiceLBGCProofs` | No load balancer older than the last list survives, for any set of Services |
| `NoLeak`, `SyncerTypeCorrect` | `RegistryProofs` | Without an edit of the configuration no syncer outlives its cluster, however hooks fail and are repeated |
| `TrustHolds`, `RootIsKept`, `TypeCorrect` | `RegistryProofs` | Without overlapping first hooks there is one root CA and every certificate chains to it |
| `NoOverlap`, `TypeCorrect` | `ControllersProofs` | No rollout is started on top of another one, and no number of machines drops below zero |
| `OnlyBadRollOut` | `ControllersProofs` | A rollout is started only for a placement that is bad, for any set of failure domains and any number of machines |
| `CopiesComplete`, `SyncTypeCorrect` | `ControllersProofs` | A copied class is never without its Templates |
| `DeployedInOrder`, `SuccessIsComplete`, `AlwaysRouted`, `AllRemoved`, `PreflightFirstOnUpgrade`, `TypeCorrect` | `AddonHandlersProofs` | The add-on handlers' order, completeness, routing, removal and upgrade properties, for any sets of add-ons, any nodes and any number of faults |
| `InternalErrorsRefused`, `OrderIrrelevant`, `TypeCorrect` | `PreflightProofs` | The answer of the preflight webhook does not depend on the order of its goroutines; an internal error in any check refuses with a 500 and a cause, and a 422 names a cause unless a pool names neither an image nor a lookup; for any well-formed requests and any number of faults |
| `AdmittedClustersAreSound` | `PreflightProofs` | What the preflight webhook admits satisfies the statement of every check that was not skipped, for any well-formed requests, interleavings, failing calls and deadlines |
| `KeyStays` | `TopologyProofs` | For all requests, Secrets and bounds, the encryption key is never replaced |
| `SecretsAreThere`, `Invariant`, `TypeCorrect` | `TopologyProofs` | For all requests, Secrets and bounds, each file of the templates in use that comes from a Secret of the handlers' own has that Secret behind it, however calls fail, time out and overlap |
| `AdmittedAreSound` | `TopologyProofs` | For all requests, Secrets and bounds, the templates that CAPI uses for an admitted Cluster reserve resources one way, place each machine once, leave Prism Central its address, route Services and bind no volumes of a metro cluster to one site |
| `RolloutsHaveAReason` | `TopologyProofs` | For all requests, Secrets and bounds, no template of a node changes from one answer to the next, for the same request and version, because Secrets hold other credentials or CAs or because calls were repeated |

The assumptions are the named ASSUMEs of the component modules (finite sets,
natural bounds, model values that differ from the values they stand beside: `NoResultIsNone`,
`NoAnswerIsNone`); TLC evaluates them in every run.  The one that says more is
`RequestsAreWellFormed` of `Preflight`: each list of a request (pools, references, registries,
subnets, the parts of a version) is a sequence, as a Go slice is; worker pools are visited in an order
that names each of them, as Go visits a map; the API lists finitely many objects; a metro has failure
domains; a pool that is not of Nutanix has no subnets; and what the API server's schema restricts to a
few kinds is of one of them.  `LateFailuresAreGiven` says that only calls that are given the context
may fail or not once it has expired.  `RequestsAssumption` of `Topology` asks the
same of a Cluster's pools and registries, names the four providers, and lets versions be any
natural numbers but 0; `SecretsAssumption` says
that a user's Secret has contents and not the name of one of the handlers' own.  `RequestsAssumption` and
`AddonCAAssumption` also say that the path of a registry's CA, `/etc/containerd/certs.d/<host>/ca.crt`
or the like, is that of none of the three files that others are known by (`NodeFiles`), whatever the host is called.  Where a
module's run does not list its type invariant, `TypeCorrect` proves it for all values of the
constants.

* **Runner.**  `NoResponseLost` is not inductive: that every handler has exited when
  the range ends needs the counter.  `DeliveryInv` adds that the wait group
  counts the goroutines that have not exited (`WaitGroupCounts`), that the channel
  and the collected responses together hold each sent response exactly once
  (`ResponsesAccounted`), and that the closer, the caller and the goroutines move
  through their phases in order (`PhasesOrdered`).  A sequence without repetitions is
  no longer than the set of handlers, hence room in the buffer.  `AnswerInv` adds
  `FoldInv`: what the accumulator holds about the responses folded so far.
  For `ContractKept`, `HookReturns` is the contract's `Finish` and `Return` its `Answer`; all
  other steps (goroutines, channel, fold) stutter.  That the answer returned is the contract's function of the set of results is
  what `FoldInv` says when the fold has ended and every handler's response is in it.
* **Konnector.**  `CleanupInv` says what each program point has established: a
  success in the answer, or a deletion already allowed, implies that the cluster is
  not registered or that one of the excused cases applies, `late` among them.  The agent's registration may
  come at any step, so what a registered cluster implies (`RegisteredMeans`: a UUID, a
  control plane, a phase the hook does not skip) has to hold of an installed agent already (`InstalledMeans`).
* **Load balancers.**  `GCInv` ties the loop's list to the present: a Service with
  a load balancer is still to be looked at, counted as existing, or late.
* **Root CA.**  `CAInv`: only one hook can be about to create, and only while
  there is no root (`SingleCreator`); all that was copied or signed came from it
  (`FromTheRoot`).
* **Rollout.**  `ReadInv` carries the guards from the read to the write: what was
  read of the KCP still holds until somebody writes it, and then the Update conflicts.
  That only bad placements are rolled out is arithmetic over any number of failure domains: the
  machines are a sum over the domains in use, and if the even spread fitted every domain, the sum would
  have to be on both sides of the number of replicas (`TotalsAtLeast`, `EvenIsKept`).
* **Namespace sync.**  `CopyInv` adds `Progressing`: the references of the class being
  copied are in the namespace or still to do.

* **Registry syncer.**  `SyncerInv` adds that a proxy applied under a configuration that was
  never edited is one that the clean-up reaches.
* **Add-on handlers.**  Each property is about the end of a call or about two objects, and nothing in
  it says how far a handler has come.  `IInv` says, for each position in each script, what the calls
  before it have established and nothing since can have undone: the namespace and the Secret that a
  release needs (`Prepared`), the HelmChartProxies written (`Applied`), the labels (`Labelled`: not merely set, but
  set after the last namespace apply that takes them away), the preflight release that was awaited
  (`PreflightAwaited`), Cilium configured and then restarted before kube-proxy goes (`Configured`,
  `Restarted`, `Migrating`), the autoscaler gone when the deletion's call ends (`Removed`, `DeletedOnly`).  `CallInv` ties the
  scripts to the call they belong to, which is what a retry or a restart resets.  `IInv` was checked with
  TLC on the instance of the run before it was proved.  Scripts are concrete sequences, so the lemmas about
  what precedes what in a script are finite cases.
* **Preflight.**  `PreflightInv` says how far each checker's loop has come in its list of checks (`Looped`), that
  every slot already written holds a result of which an internal error denies and has a cause
  (`Judged`), that a checker's results are stored only when all of them are there (`StoredWhenDone`), and that
  the answer is one of the early ones or the summary of all results (`Answered`).  `OrderIrrelevant`
  compares the answer with that of a run of the same checks in their order; it needs `Undisturbed`: while
  no fault and no deadline has hit, the checks are those of the request and each slot holds the one verdict of its
  check.  `InternalErrorsRefused` needs two lemmas for every check: that
  an internal error never comes with permission and has a cause (`Sound...`), and that each other denial names a cause,
  unless the check is the image check of a pool without any image (`RunExplained`).  The latter
  needs to know which kinds of checks there are and what each was built from (`NutanixKinds`, `ListsExplained`), and that a slot
  holds the verdict of the check in its place (`Produced`, `SlotsExplained`).  The checks fold over the
  lists of the request, whose length is unbounded.
* **What preflight admits.**  `AdmittedIsSound` goes from the answer, through goroutines that wrote their
  slots at different times and under different failures, back to the Cluster.  `Produced` is the invariant
  for it: each checker's list is what its `Init` returned under some set of failing calls, and each slot
  written is that of a check that the request skips (`FromSkip`) or the verdict of its check under some set of failing calls, in which the dial
  of the endpoint fails only past the deadline or when a failure was counted.  It is inductive because requests
  do not change and failures stay (`FailuresStay`, `DialExcused`).  An answer that admits then means that each
  check of both lists *passed under some failing calls* (`AdmittedPasses`), and the rest is about operators, not about states:
  *which checks are there* (`NutanixInitHas` and the lemmas `...Has` and `...Have`): a check that
  passed hands the client or the version to the factories after it, so none of those returns early;
  *what each check says* (`VersionHolds`, `FailureDomainsHold`, `StorageHolds`, `CIDRHolds`, `MetroHolds`, ...):
  that a pass, under any failing calls, implies the statement of `PreflightSoundness`, which is written
  without the code.  Folds and loops over lists (flattened lists of checks, the first version component that
  differs, the subnets resolved so far) are again the least-counterexample induction below.

  The proof was worth its length: the statement that TLC had confirmed on the run's requests is false for others, and
  each attempt that failed said where.  Failure domains are looked at only where some part of the Cluster uses Nutanix; the
  storage check leaves references that do not resolve to the failure domains' check, so skipping the latter removes part
  of the former; a version is
  taken for one named by a year only if it has a second part; a version of Kubernetes may be absent; the endpoint check passes when its dial fails by itself, and not only past
  the deadline.  `PreflightSoundness` says these things now, and the requests of `MCPreflight` include them.
* **Encryption key.**  `KeyStep`: the only step that writes the key is `keyCreate` after a
  look-up that found none; the API server refuses it if there is one, so the number of the
  key is constant once it is there, by whatever cache a call decides.

* **Secrets behind templates.**  `SecretsBehindTemplates` relates the answer that CAPI uses, the output of some forty
  mutators, to Secrets that were written on the way, in other steps and perhaps by other
  calls.  Its proof has two halves.
  *What a call has done* is the invariant `TopologyInv` = `ClusterOK` /\ `StoreOK` /\ `GeneratedOK` /\ `CallsOK`: each
  finished step of each call (the one CAPI waits for, the one it gave up, the one it uses) is
  `Backed`: a `mirrors` step that succeeded found the CA, a `keyCreate` or a found key has a key, an
  `apply` whose credentials were to be generated has generated them.  It is inductive because nothing that
  `Backed` speaks of goes away (`Kept`); for that, the cache shows no key and no CA that the API server does not have.
  *What a template needs* is a property of the mutators, `Made`: a file comes from a Secret only if the
  context calls for it, the files known by their paths and the fields that webhooks have rules for hold
  what the variables say, and the admission configuration that a mutator looks up is the class's.
  Nearly every mutator keeps it by what it is built from (`Writers`, `Mutators`); those that look something up
  in the template first have lemmas of their own (`Plugin`, `VirtualIP`, `Kubelet`, `CredentialsMade`,
  `MirrorsMade`).  `RunMade` carries it through the list of mutators by induction, and `ClassTemplates`
  starts it with the templates of the classes.  Sorting the arguments comes after the one mutator that looks one up, in each
  handler, so `Made` need not follow them through the sort.  `TemplateIs` and `ReadsPossible` say that the
  template looked up for a call is the one that its reads give, and `AnswerBacked` puts the two together: if
  the context called for the Secret, the program had the step, and the step was `Backed`.
  `TopologyInv` was checked with TLC on the run's instance first.
* **What the webhooks admit.**  `AdmittedClustersSound` relates validators, which look at the variables, to the
  templates that mutators write, which do not look.  `AdmissionInv` is the part about states: the Cluster, the call
  and the answer in use come from a request that the webhooks admitted (or one older than they are), although
  the Cluster may have been written again since and the registry add-on enabled on the way; and the mutators
  that read nothing did not fail for it.  The rest is about operators, again by `Made`: a kubelet with automatic reservations
  was validated to set nothing by hand (`Reserved`), kube-vip and MetalLB have no address that is Prism Central's
  (`Reachable`), kube-proxy is left out only where Cilium's values replace it (`Routed`), and the storage classes are those
  the defaulter unbinds (`Unbound`).  The placement of machines needs the opposite of `Made`: not only that a mutator
  writes nothing else, but that one *has* written.  `ClusterStep` and `MachineStep` say what each mutator does to a template of
  Nutanix's infrastructure, that all but two fields' writers leave those fields alone, and which failures there are;
  `ClusterRun` and `MachineRun` count through the handlers, for `Ran` says which mutators have had their turn; `Placed` compares
  the outcome with the validator's exclusive or.

  As above, attempts that failed corrected the model: 0 stands for the address that the class's kube-vip manifest leaves open, and
  is no address; details with an empty list of subnets leave the field out; and the templates of the infrastructure are
  tabulated without the registries, whose Secrets no step has read for them.
* **No rollout without a reason.**  `NoSpuriousRollout` compares two runs of the mutators.  `ContextsAlike` says that the
  contexts of two such answers are the same in all but the Secrets and CAs (`SameButSecrets`), and that those are alike
  (`SecretsAlike`): the same Secrets have users and CAs, whatever these are.  `MutatorsSame` says that no mutator but the registries'
  looks at them, `CredentialsTemplate` and `MirrorsTemplate` that these two write what is alike: files that name Secrets, and lists of
  hosts that do not depend on who the user is.  What does depend on the contents is which calls fail: two CAs for one host
  are refused when they differ (`ConflictingCAs`).  So the step needs `AnswerInv`, that CAPI uses no answer that a mutator
  has failed, and `RunsAgree` the fact that a failure of one mutator is not undone by a later one.  The conclusion is about all
  that the templates hold, the order of lists included.

Sums over domains and folds over lists need an induction over data.  The library's induction
theorems take an operator as a parameter, which the provers cannot instantiate; the modules that need one
(`PreflightProofs`, `ControllersProofs`, `TopologyProofs`) prove instead that the *set* of counterexamples has no
least element (`Induct`, from `WFMin` of `WellFoundedInduction`), where the formula is a set of
natural numbers and no operator is passed.

Only model-checked:

* the liveness properties (`CallEnds`, `DeletionEventuallyAllowed` of the Konnector Agent and of the
  load balancers, `EveryRegistryServed`, `EventuallyWellPlaced`, `EveryTargetGetsEveryClass`, `HooksEventuallySucceed`,
  `Converges`): fairness is out of the prover's reach;
* of `Topology`, `TemplatesCoherent`, which relates everything that some forty mutators write to a template,
  their order and their repetitions included, and not what one file or field holds.

## 5. Observations

Besides the findings, the models make these behaviours explicit:

* The Konnector Agent may register a cluster after the deletion hook has found it not registered: the hook then leaves
  the HelmChartProxy in place (`konnectoragent/handler.go:608-619`), the deletion proceeds, and the
  registration stays.
* With Cilium by ClusterResourceSet the hooks wait for a `cilium-config` that replaces kube-proxy once the Cluster
  disables kube-proxy (`cni/cilium/handler.go:365`), but the manifests of the chart say that it does not
  (`charts/.../cni/cilium/manifests/cilium-configmap.yaml:11`): every retry times out, and an upgrade is
  blocked until the manifests change or kube-proxy is enabled again.
* An error of any kind while looking up the registration lets the deletion proceed
  (`konnectoragent/handler.go`, `isClusterRegisteredInPC`); `DeletionWaitsForUnregistration`
  therefore excludes calls that met one.
* The load-balancer GC skips a cluster in phase Deleting (`deleter.go`), so a first
  call that comes after the phase has changed deletes nothing.
* The rollout controller does nothing when `status.failureDomains` is empty, also when
  domains in use have just been removed; and a spread of 3, 3, 1 for seven
  replicas on three domains is not recognised as uneven.
* `copyObjectForCreate` (`namespacesync/copy.go`) says it preserves labels, and clears them.
* `clusterautoscaler` implements `BeforeClusterDelete` too, so it is part of that hook
  although its interface assertions do not list it.
* Cleanup of the registry syncer asks first whether the cluster should have one, by the
  configuration of the moment (`syncer.go:119`): after an edit that says no, the
  HelmChartProxy stays.  The autoscaler's `BeforeClusterDelete` does the same.
* While a control plane scales down, the rollout controller compares the machines there
  are with the ideal spread of fewer (`controller.go:303`): an even placement looks
  overused and is rolled out.
* A failure to set the owner reference on Cilium's values (`cni/cilium/handler.go:233`)
  is written to the response but not returned, and is overwritten by the success at the
  end (`softUpdate` in the model).
* Copying a Secret applies its namespace without labels under the same field manager, so
  it removes the privileged label until the handler's next call sets it again
  (`utils/secrets.go:60`); between the two, pods of the CSI driver or the Konnector
  Agent may be rejected.  After a successful hook the label is there.
* The autoscaler's ClusterResourceSet strategy creates the ConfigMap in the cluster's
  namespace and the ClusterResourceSet in the management cluster's
  (`clusterautoscaler/strategy_crs.go:80`, `:121`), which refers to it by name only.
* With the skip annotation set between two calls of an upgrade, the preflight release of
  the first call stays.
* The comment in `handlers.go` that handlers "are called consecutively" predates the
  parallel runner.
* The clean-up of kube-proxy in the Cilium handler is skipped once the DaemonSet is
  gone: a failure between the two deletes leaves the ConfigMap.
* After `helmUninstallTimeout` the Konnector Agent's hook fails for ever, until the
  HelmChartProxy goes (`handler.go:643`), though the comment at `handler.go:57` speaks of
  giving up and letting the deletion proceed.  An error of the list of Services counts as success
  (`servicelbgc/handler.go:112`), though `docs/.../service-loadbalancer-gc.md` says that the
  hook blocks.
* The rollout controller reads the Cluster's pause and deletion before it updates the KCP, and
  the KCP's resource version does not cover them (`controller.go:148`).  The namespace
  sync controller does not check the namespace's labels again when it reconciles
  (`controller.go:121`), and one class with a missing Template ends the whole
  reconcile (`:147`).
* A Cluster created paused is not checked by the preflight webhook, and the unpause is no
  change of its spec (`preflight.go:140`).  Skipping NutanixCredentials or NutanixConfiguration
  silently drops the checks that depend on them.  "all" skips everything only as the only
  name; a blank element of the list counts as a name.  A panic while the checks are
  built is not recovered.
* The check of the control plane endpoint passes when its dial fails, also because the time is up;
  node subnets are taken from machineDetails only and cached by name across Prism Elements
  (`cidrvalidation.go:336`, `:402`).
* The registry auto-enabler (a feature gate) runs on updates too, though its comment speaks of
  creation: an existing Cluster gets the add-on without the CA that `BeforeClusterCreate`
  would have made, and every GeneratePatches call for it fails from then on.
* A pool that overrides workerConfig without its `nutanix` part replaces the default, and its
  machine template stays without a place; the validator skips it.  A static CPU policy cannot
  be combined with automatic reservations.
* The Cluster that a call hands to its mutators is read anew by each that asks for it
  (`mutation/.../meta`, a sync.Once local to the closure), so that CoreDNS and kube-vip may see
  different versions in one call, and others use the builtin version.
* A GeneratePatches call that CAPI has given up may overwrite the generated Secret with older
  credentials, until the next reconcile.
* Docker Hub is recognised by its URL as spelled: with a trailing slash, or as a global
  mirror, a blank default entry follows the user's and wins (`credentials/inject.go:252`).
* The deprecated limit of parallel image pulls still applies where no newer one is set, though
  a webhook warns that it is ignored (`kubelet_config.go:166`).
* A Cluster created again under its old name, before the old encryption key has been collected,
  may refer to a Secret that is about to go.

## 6. Not modelled, and the plan

Left out on purpose:

* The **autoscaler limits controller**: one read and one optimistic Update of the same object,
  which clears a MachineDeployment's replicas; the value they then get is chosen by
  CAPI's defaulting webhook.  A model would be one of CAPI.
* The **runtime extension server and the manager** (`cmd/main.go`, `common/pkg/server`): start-up
  wiring and I/O.
* **API types, schemas and generated code**: declarations.  A variable that does not parse
  never reaches a handler, for CAPI validates it against its schema.
* Contents of certificates, charts, values, manifests, file texts and messages, build tooling and
  end-to-end tests: data no property is about.
* In `AddonHandlers`, the namespaces of the management cluster and an edit that removes the
  autoscaler add-on before the deletion; in `NamespaceSync`, users who delete copies or
  namespaces; in `Topology`, the deletion of the Cluster.

What could follow: the composition of the deletion hooks with `HookContract` (the deletion
proceeds only when all of them agree in one call; each hook and the runner are modelled, and
the composition is the conjunction of their guarantees); and a proof of `TemplatesCoherent`.
