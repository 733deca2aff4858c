----------------------------- MODULE RegistryCA -----------------------------
(***************************************************************************)
(* The certificate authority of the registry add-on.  One root CA secret   *)
(* on the management cluster signs the registry certificates of every      *)
(* workload cluster (pkg/handlers/lifecycle/registry/utils/tls.go, called  *)
(* from cncfdistribution/handler.go and registry/handler.go):              *)
(*   - BeforeClusterCreate creates the root CA if it does not exist and    *)
(*     copies its certificate to the cluster's CA secret, which the        *)
(*     cluster's nodes trust from their creation on;                       *)
(*   - AfterControlPlaneInitialized and BeforeClusterUpgrade sign a new    *)
(*     server certificate with the root CA of that moment.                 *)
(* The root CA is read through the manager's cache and written with a      *)
(* forced server-side apply, which replaces whatever is there.             *)
(***************************************************************************)
EXTENDS Naturals

CONSTANTS
    Cluster,    \* workload clusters with the registry add-on
    CA,         \* key pairs that can be generated
    NoCA,       \* the secret, or its copy, does not exist
    MaxFaults   \* bound on API errors

ASSUME ConstantsOK ==
    /\ NoCA \notin CA
    /\ MaxFaults \in Nat

VARIABLES
    calm,       \* hooks of two clusters do not overlap before there is a root CA,
                \* and the cache does not lag behind the API server
    root,       \* the root CA secret on the API server
    cache,      \* the root CA secret in the manager's cache
    trusted,    \* each cluster's CA secret
    signer,     \* the CA that signed each cluster's server certificate
    pc,         \* new, create, copy (BeforeClusterCreate), created, running
    faults

vars == <<calm, root, cache, trusted, signer, pc, faults>>

Init ==
    /\ calm \in BOOLEAN
    /\ root \in CA \cup {NoCA} /\ cache = root
    /\ trusted = [c \in Cluster |-> NoCA]
    /\ signer = [c \in Cluster |-> NoCA]
    /\ pc = [c \in Cluster |-> "new"]
    /\ faults = 0

-----------------------------------------------------------------------------

\* SecretForRegistryAddonRootCA, through the cached client (NoCA: NotFound).
RootRead == IF calm THEN root ELSE cache

InSetup == {c \in Cluster : pc[c] \in {"create", "copy"}}

SlipAlwaysCreate == "create"
SlipNeverCreate == "copy"

\* EnsureRegistryAddonRootCASecret: where Setup goes after its first read.
AfterCheck == IF RootRead = NoCA THEN "create" ELSE "copy"

\* RegistryHandler.setup -> Setup -> EnsureRegistryAddonRootCASecret reads.
CheckRoot(c) ==
    /\ pc[c] = "new"
    /\ calm /\ root = NoCA => InSetup = {}
    /\ pc' = [pc EXCEPT ![c] = AfterCheck]
    /\ UNCHANGED <<calm, root, cache, trusted, signer, faults>>

\* generateRegistryAddonRootCAData makes a key pair nobody has seen.
Unseen == CA \ ({root, cache} \cup {trusted[c] : c \in Cluster} \cup {signer[c] : c \in Cluster})

\* EnsureSecretForLocalCluster with ForceOwnership: whatever is there is replaced.
ApplyRoot == root' \in Unseen

\* EnsureRegistryAddonRootCASecret creates the secret.
CreateRoot(c) ==
    /\ pc[c] = "create"
    /\ ApplyRoot
    /\ pc' = [pc EXCEPT ![c] = "copy"]
    /\ UNCHANGED <<calm, cache, trusted, signer, faults>>

\* The hook's state when EnsureCASecretForCluster finds no root CA: a failure,
\* which Cluster API retries from the start.
AfterNotFound == "new"

\* EnsureCASecretForCluster reads the root CA again and copies its certificate.
CopyRoot(c) ==
    /\ pc[c] = "copy"
    /\ IF RootRead = NoCA
       THEN pc' = [pc EXCEPT ![c] = AfterNotFound] /\ UNCHANGED trusted
       ELSE pc' = [pc EXCEPT ![c] = "created"] /\ trusted' = [trusted EXCEPT ![c] = RootRead]
    /\ UNCHANGED <<calm, root, cache, signer, faults>>

\* An API call of Setup fails: Cluster API retries the hook from the start.
SetupFails(c) ==
    /\ pc[c] \in {"new", "create", "copy"} /\ faults < MaxFaults
    /\ pc' = [pc EXCEPT ![c] = "new"]
    /\ faults' = faults + 1
    /\ UNCHANGED <<calm, root, cache, trusted, signer>>

SlipNewKeyPair == CHOOSE k \in CA : k # root

\* The CA that signs a server certificate is the root CA as it is read then.
SigningCA == RootRead

\* RegistryHandler.apply -> EnsureRegistryServerCertificateSecretOnRemoteCluster:
\* AfterControlPlaneInitialized first, BeforeClusterUpgrade every time later.
\* Without a root CA the hook fails, changes nothing and is retried.
SignServerCertificate(c) ==
    /\ pc[c] \in {"created", "running"}
    /\ RootRead # NoCA
    /\ signer' = [signer EXCEPT ![c] = SigningCA]
    /\ pc' = [pc EXCEPT ![c] = "running"]
    /\ UNCHANGED <<calm, root, cache, trusted, faults>>

\* The watch brings the API server's secret to the cache.
CacheSyncs ==
    /\ ~calm /\ cache # root
    /\ cache' = root
    /\ UNCHANGED <<calm, root, trusted, signer, pc, faults>>

Hook(c) ==
    \/ CheckRoot(c) \/ CreateRoot(c) \/ CopyRoot(c)
    \/ SignServerCertificate(c)

Next == CacheSyncs \/ \E c \in Cluster : Hook(c) \/ SetupFails(c)

Spec == Init /\ [][Next]_vars

\* Cluster API keeps calling a hook that failed, and watches deliver.
FairSpec == Spec /\ WF_vars(CacheSyncs) /\ \A c \in Cluster : WF_vars(Hook(c))

-----------------------------------------------------------------------------
(* Properties *)

\* The range of every variable.
TypeOK ==
    /\ calm \in BOOLEAN
    /\ root \in CA \cup {NoCA} /\ cache \in CA \cup {NoCA}
    /\ trusted \in [Cluster -> CA \cup {NoCA}]
    /\ signer \in [Cluster -> CA \cup {NoCA}]
    /\ pc \in [Cluster -> {"new", "create", "copy", "created", "running"}]
    /\ faults \in 0 .. MaxFaults

\* As long as first hooks do not overlap and reads are fresh, the nodes of a
\* cluster trust the registry they are served: the server's certificate, however
\* often it is signed again and whatever failed before, is signed by the CA that
\* was copied to the cluster before it was created.
NodesTrustTheirRegistry ==
    \A c \in Cluster : calm /\ pc[c] = "running" => signer[c] = trusted[c] /\ signer[c] # NoCA

\* Under the same assumption no retry and no other cluster replaces a root CA.
RootKeptWhenCalm == [][calm /\ root # NoCA => root' = root]_vars

\* tls.go:55: "If the secret already exists, we don't need to do anything.":
\* a root CA is never replaced.
RootNeverReplaced == [][root # NoCA => root' = root]_root

\* Every cluster gets its certificate, whatever the cache shows and however the
\* hooks overlap: reading one's own write through a lagging cache only delays.
EveryRegistryServed == \A c \in Cluster : <>(pc[c] = "running")
=============================================================================
