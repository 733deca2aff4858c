-------------------------- MODULE RegistryProofs --------------------------
(***************************************************************************)
(* Proofs about the registry add-on.  Its certificates: the race of two    *)
(* first clusters and the lag of the cache are the only ways to a registry *)
(* that its nodes do not trust; without them the root CA is written once,  *)
(* and every certificate chains to it.  Its syncer: hooks which fail, stop *)
(* half-way or are called again do not make it outlive its cluster.        *)
(***************************************************************************)
EXTENDS RegistryCA, RegistrySyncer, TLAPS

------------------------------------------------------------------------------
(* The certificates *)

\* Only one hook can be about to create the root CA, and only while there is none.
SingleCreator ==
    \A c \in Cluster : pc[c] = "create" =>
        root = NoCA /\ \A d \in Cluster \ {c} : pc[d] \notin {"create", "copy"}

\* A hook that passed the check, and all that was copied or signed, saw the root CA.
FromTheRoot ==
    \A c \in Cluster :
        /\ pc[c] \in {"copy", "created", "running"} => root # NoCA
        /\ pc[c] \in {"created", "running"} => trusted[c] = root
        /\ pc[c] = "running" => signer[c] = root

CAInv == TypeOK /\ (calm => SingleCreator /\ FromTheRoot)

LEMMA InitCAInv == Init => CAInv
  BY ConstantsOK DEF Init, CAInv, TypeOK, SingleCreator, FromTheRoot

LEMMA TypeInductive == TypeOK /\ [Next]_vars => TypeOK'
<1> SUFFICES ASSUME TypeOK, [Next]_vars PROVE TypeOK'
  OBVIOUS
<1> USE ConstantsOK DEF TypeOK
<1>1. ASSUME NEW c \in Cluster, Hook(c) \/ SetupFails(c) PROVE TypeOK'
  <2>1. RootRead \in CA \cup {NoCA}
    BY DEF RootRead
  <2>2. CASE CheckRoot(c)
    BY <2>2 DEF CheckRoot, AfterCheck
  <2>3. CASE CreateRoot(c)
    BY <2>3 DEF CreateRoot, ApplyRoot, Unseen
  <2>4. CASE CopyRoot(c)
    BY <2>1, <2>4 DEF CopyRoot, AfterNotFound
  <2>5. CASE SignServerCertificate(c)
    BY <2>1, <2>5 DEF SignServerCertificate, SigningCA
  <2>6. CASE SetupFails(c)
    BY <2>6 DEF SetupFails
  <2> QED
    BY <1>1, <2>2, <2>3, <2>4, <2>5, <2>6 DEF Hook
<1>2. CASE CacheSyncs
  BY <1>2 DEF CacheSyncs
<1>3. CASE UNCHANGED vars
  BY <1>3 DEF vars
<1> QED
  BY <1>1, <1>2, <1>3 DEF Next

LEMMA CAInvInductive == CAInv /\ [Next]_vars => CAInv'
<1> SUFFICES ASSUME CAInv, [Next]_vars, calm' PROVE (SingleCreator /\ FromTheRoot)'
  BY TypeInductive DEF CAInv
<1>0. calm
  BY DEF Next, Hook, CheckRoot, CreateRoot, CopyRoot, SignServerCertificate, SetupFails,
         CacheSyncs, vars
<1>1. TypeOK /\ SingleCreator /\ FromTheRoot /\ RootRead = root
  BY <1>0 DEF CAInv, RootRead
<1> USE ConstantsOK DEF TypeOK
<1>2. ASSUME NEW c \in Cluster, CheckRoot(c) PROVE (SingleCreator /\ FromTheRoot)'
  <2>1. PICK p \in {"create", "copy"} :
            /\ pc' = [pc EXCEPT ![c] = p]
            /\ p = "create" <=> root = NoCA
    BY <1>1, <1>2 DEF CheckRoot, AfterCheck
  <2>2. root = NoCA => \A d \in Cluster : pc[d] \notin {"create", "copy"}
    BY <1>0, <1>2 DEF CheckRoot, InSetup
  <2>3. pc[c] = "new" /\ UNCHANGED <<root, trusted, signer>>
    BY <1>2 DEF CheckRoot
  <2>4. SingleCreator'
    BY <1>1, <2>1, <2>2, <2>3 DEF SingleCreator
  <2>5. FromTheRoot'
    BY <1>1, <2>1, <2>3 DEF FromTheRoot
  <2> QED
    BY <2>4, <2>5
<1>3. ASSUME NEW c \in Cluster, CreateRoot(c) PROVE (SingleCreator /\ FromTheRoot)'
  <2>1. root = NoCA /\ \A d \in Cluster \ {c} : pc[d] = "new"
    BY <1>1, <1>3 DEF CreateRoot, SingleCreator, FromTheRoot
  <2>2. root' \in CA
    BY <1>3 DEF CreateRoot, ApplyRoot, Unseen
  <2> QED
    BY <1>1, <1>3, <2>1, <2>2 DEF CreateRoot, SingleCreator, FromTheRoot
<1>4. ASSUME NEW c \in Cluster, CopyRoot(c) PROVE (SingleCreator /\ FromTheRoot)'
  <2>1. root # NoCA
    BY <1>1, <1>4 DEF CopyRoot, FromTheRoot
  <2>2. /\ pc' = [pc EXCEPT ![c] = "created"]
        /\ trusted' = [trusted EXCEPT ![c] = root]
        /\ UNCHANGED <<root, signer>>
    BY <1>1, <1>4, <2>1 DEF CopyRoot
  <2> QED
    BY <1>1, <2>1, <2>2 DEF SingleCreator, FromTheRoot
<1>5. ASSUME NEW c \in Cluster, SetupFails(c) PROVE (SingleCreator /\ FromTheRoot)'
  BY <1>1, <1>5 DEF SetupFails, SingleCreator, FromTheRoot
<1>6. ASSUME NEW c \in Cluster, SignServerCertificate(c) PROVE (SingleCreator /\ FromTheRoot)'
  BY <1>1, <1>6 DEF SignServerCertificate, SigningCA, SingleCreator, FromTheRoot
<1>7. CASE CacheSyncs
  BY <1>0, <1>7 DEF CacheSyncs
<1>8. CASE UNCHANGED vars
  BY <1>1, <1>8 DEF vars, SingleCreator, FromTheRoot
<1> QED
  BY <1>2, <1>3, <1>4, <1>5, <1>6, <1>7, <1>8 DEF Next, Hook

\* tls.go EnsureCASecretForCluster and the signing of the server certificate: for
\* every set of clusters, as long as first hooks do not overlap and reads are
\* fresh, the nodes of every cluster trust the certificate of their registry.
THEOREM TrustHolds == Spec => []NodesTrustTheirRegistry
<1>1. CAInv => NodesTrustTheirRegistry
  BY ConstantsOK DEF CAInv, TypeOK, FromTheRoot, NodesTrustTheirRegistry
<1> QED
  BY InitCAInv, CAInvInductive, <1>1, PTL DEF Spec

\* tls.go EnsureRegistryAddonRootCASecret: under the same assumption the forced
\* apply never replaces a root CA that exists.
THEOREM RootIsKept == Spec => RootKeptWhenCalm
<1>1. CAInv /\ [Next]_vars => [calm /\ root # NoCA => root' = root]_vars
  BY DEF CAInv, SingleCreator, Next, Hook, CheckRoot, CreateRoot, CopyRoot,
         SetupFails, SignServerCertificate, CacheSyncs, vars
<1> QED
  BY InitCAInv, CAInvInductive, <1>1, PTL DEF Spec, RootKeptWhenCalm

\* Every variable keeps its range, for any clusters and key pairs.
THEOREM TypeCorrect == Spec => []TypeOK
<1>1. Init => TypeOK
  BY InitCAInv DEF CAInv
<1> QED
  BY <1>1, TypeInductive, PTL DEF Spec

------------------------------------------------------------------------------
(* The syncer *)

\* Every variable of the syncer keeps its range (the hooks of the registry add-on).
THEOREM SyncerTypeCorrect == SyncerSpec => []SyncerTypeOK
<1> DEFINE ConfigOK == /\ mgmt \in {"none", "self", "other"} /\ gate \in BOOLEAN /\ skip \in BOOLEAN
                       /\ addon \in Addons /\ mgmtAddon \in {"absent", "invalid", "enabled"}
           LifeOK == /\ hcp \in BOOLEAN /\ stage \in {"running", "deleting", "gone"}
                     /\ answer \in {"Unset", "Success", "Failure"} /\ changed \in BOOLEAN
           ErrorsOK == errors \in 0 .. MaxErrors
<1>1. SyncerTypeOK <=> ConfigOK /\ LifeOK /\ ErrorsOK
  BY Zenon DEF SyncerTypeOK
<1>2. SyncerInit => ConfigOK /\ LifeOK /\ ErrorsOK
  <2>1. SyncerInit => ConfigOK
    BY Zenon DEF SyncerInit
  <2>2. SyncerInit => LifeOK
    BY Zenon DEF SyncerInit
  <2>3. SyncerInit => ErrorsOK
    BY MaxErrorsIsNat, SMT DEF SyncerInit
  <2> QED BY <2>1, <2>2, <2>3
<1>3. ConfigOK /\ [SyncerNext]_syncerVars => ConfigOK'
  <2> SUFFICES ASSUME ConfigOK, [SyncerNext]_syncerVars PROVE ConfigOK'
      OBVIOUS
  <2>1. CASE UNCHANGED config
    BY <2>1, Zenon DEF config
  <2>2. CASE Reconfigure
    BY <2>2, Zenon DEF Reconfigure, Addons
  <2> QED BY <2>1, <2>2, Zenon
     DEF SyncerNext, syncerVars, Apply, ApplyFails, Cleanup,
         CleanupFails, RequestDelete
<1>4. LifeOK /\ [SyncerNext]_syncerVars => LifeOK'
  <2> SUFFICES ASSUME LifeOK, [SyncerNext]_syncerVars PROVE LifeOK'
      OBVIOUS
  <2>1. HandlerAnswer \in {"Unset", "Success", "Failure"}
    BY SMT DEF HandlerAnswer, Status
  <2>2. /\ (hcp \/ Reaches) \in BOOLEAN
        /\ (changed /\ ~Reaches) \in BOOLEAN
        /\ (hcp /\ ~Reaches) \in BOOLEAN
    BY Zenon
  <2>3. CASE Apply
    BY <2>1, <2>2, <2>3, Zenon DEF Apply
  <2>4. CASE ApplyFails
    BY <2>4, Zenon DEF ApplyFails
  <2>5. CASE Cleanup
    BY <2>1, <2>2, <2>5, Zenon DEF Cleanup
  <2>6. CASE CleanupFails
    BY <2>2, <2>6, Zenon DEF CleanupFails, StageAfterError
  <2>7. CASE RequestDelete
    BY <2>7, Zenon DEF RequestDelete
  <2>8. CASE Reconfigure
    BY <2>8, Zenon DEF Reconfigure
  <2>9. CASE UNCHANGED syncerVars
    BY <2>9, Zenon DEF syncerVars
  <2> QED BY <2>3, <2>4, <2>5, <2>6, <2>7, <2>8, <2>9, Zenon DEF SyncerNext
<1>5. ErrorsOK /\ [SyncerNext]_syncerVars => ErrorsOK'
  BY MaxErrorsIsNat, SMT
     DEF SyncerNext, syncerVars, Apply, ApplyFails, Cleanup,
         CleanupFails, RequestDelete, Reconfigure, Fault
<1>6. SyncerTypeOK' <=> ConfigOK' /\ LifeOK' /\ ErrorsOK'
  BY Zenon DEF SyncerTypeOK
<1> QED BY <1>1, <1>2, <1>3, <1>4, <1>5, <1>6, PTL DEF SyncerSpec

\* A proxy that was applied under the configuration of the moment is one that a cleanup
\* would reach.
AppliedIsReached == hcp /\ ~changed => Reaches

SyncerInv == AppliedIsReached /\ LeaksOnlyAfterReconfiguration

(* Cleanup by the handler of the registry add-on (syncer.go:109): without     *)
(* an edit of the configuration no deleted cluster leaves a syncer behind. *)
THEOREM NoLeak == SyncerSpec => []LeaksOnlyAfterReconfiguration
<1>1. SyncerInit => SyncerInv
  BY DEF SyncerInit, SyncerInv, AppliedIsReached, LeaksOnlyAfterReconfiguration
<1>2. SyncerInv /\ [SyncerNext]_syncerVars => SyncerInv'
  <2> SUFFICES ASSUME SyncerInv, [SyncerNext]_syncerVars PROVE SyncerInv'
      OBVIOUS
  <2> USE DEF SyncerInv, AppliedIsReached, LeaksOnlyAfterReconfiguration
  <2>1. UNCHANGED config => (Reaches' <=> Reaches)
    BY DEF config, Reaches, ShouldApply, Candidate
  <2>2. CASE Apply
    <3>1. AppliedIsReached'
      BY <2>1, <2>2 DEF Apply
    <3>2. stage' # "gone"
      BY <2>2 DEF Apply
    <3> QED BY <3>1, <3>2
  <2>3. CASE ApplyFails
    <3>1. AppliedIsReached'
      <4>1. Reaches' <=> Reaches
        BY <2>1, <2>3, Zenon DEF ApplyFails
      <4>2. UNCHANGED <<hcp, changed>> \/ Reaches
        BY <2>3, Zenon DEF ApplyFails
      <4> QED BY <4>1, <4>2, Zenon
    <3>2. stage' # "gone"
      BY <2>3 DEF ApplyFails
    <3> QED BY <3>1, <3>2
  <2>4. CASE Cleanup
    BY <2>1, <2>4 DEF Cleanup
  <2>5. CASE CleanupFails
    <3>1. AppliedIsReached'
      BY <2>1, <2>5 DEF CleanupFails
    <3>2. stage' # "gone"
      BY <2>5 DEF CleanupFails, StageAfterError
    <3> QED BY <3>1, <3>2
  <2>6. CASE RequestDelete
    BY <2>1, <2>6 DEF RequestDelete
  <2>7. CASE Reconfigure
    BY <2>7 DEF Reconfigure
  <2>8. CASE UNCHANGED syncerVars
    BY <2>1, <2>8 DEF syncerVars
  <2> QED BY <2>2, <2>3, <2>4, <2>5, <2>6, <2>7, <2>8 DEF SyncerNext
<1>3. SyncerInv => LeaksOnlyAfterReconfiguration
  BY DEF SyncerInv
<1> QED BY <1>1, <1>2, <1>3, PTL DEF SyncerSpec
=============================================================================
