---------------------------- MODULE NamespaceSync ----------------------------
(***************************************************************************)
(* The controller that copies ClusterClasses and the Templates they        *)
(* reference from a source namespace to every namespace that matches a     *)
(* label selector (pkg/controllers/namespacesync).                         *)
(*                                                                         *)
(* Namespaces are reconciled concurrently, each by at most one worker.  A  *)
(* reconcile lists the source ClusterClasses, and for each one copies its  *)
(* Templates and then the class itself, creating what its cache does not   *)
(* show.  Namespaces, ClusterClasses and copies are read from caches that  *)
(* lag behind the API server independently of each other.                  *)
(***************************************************************************)
EXTENDS Naturals, FiniteSets

CONSTANTS
    Namespace,     \* namespaces other than the source
    Class,         \* names of ClusterClasses
    Template,      \* names of Templates
    NoClass,       \* no class is being copied
    Refs,          \* the Templates each ClusterClass references
    MaxSyncEdits,  \* bound on the users' edits
    MaxSyncFaults  \* bound on API errors

ASSUME SyncConstantsOK ==
    /\ Class \cap Template = {} /\ NoClass \notin Class
    /\ Refs \in [Class -> SUBSET Template]
    /\ MaxSyncEdits \in Nat /\ MaxSyncFaults \in Nat

VARIABLES
    sources,    \* ClusterClasses and Templates in the source namespace
    classCache, \* the source ClusterClasses in the cache
    tmplCache,  \* the source Templates in the cache
    target,     \* namespaces that match the selector
    nsCache,    \* the same, in the cache
    copies,     \* what exists in each namespace
    copyCache,  \* the same, in the cache
    queue,      \* namespaces in the work queue, or backing off
    work,       \* per namespace under reconciliation: the classes left, the class
                \* being copied, and its Templates left
    syncEdits, syncFaults

apiVars == <<sources, target, copies>>
cacheVars == <<classCache, tmplCache, nsCache, copyCache>>
syncVars == <<apiVars, cacheVars, queue, work, syncEdits, syncFaults>>

SyncIdle == [busy |-> FALSE, left |-> {}, class |-> NoClass, todo |-> {}]
Between(left) == [busy |-> TRUE, left |-> left, class |-> NoClass, todo |-> {}]

SyncInit ==
    /\ sources = {} /\ classCache = {} /\ tmplCache = {}
    /\ target = {} /\ nsCache = {}
    /\ copies = [n \in Namespace |-> {}] /\ copyCache = copies
    /\ queue = {}
    /\ work = [n \in Namespace |-> SyncIdle]
    /\ syncEdits = 0 /\ syncFaults = 0

-----------------------------------------------------------------------------
(* Watches: an event first updates the cache, then maps to requests *)

\* CreateFunc and UpdateFunc: the namespace matches now and did not before.
BecomesTarget(n) == n \in target /\ n \notin nsCache

NamespaceEvent(n) ==
    /\ (n \in target) # (n \in nsCache)
    /\ nsCache' = IF n \in target THEN nsCache \cup {n} ELSE nsCache \ {n}
    /\ queue' = IF BecomesTarget(n) THEN queue \cup {n} ELSE queue
    /\ UNCHANGED <<apiVars, classCache, tmplCache, copyCache, work, syncEdits, syncFaults>>

SlipNoSelector == {queue \cup nsCache \cup {"source"}}

\* clusterClassToNamespaces: every namespace the cache shows as a target, or none
\* when the list fails.
Enqueued == {queue \cup nsCache} \cup IF syncFaults < MaxSyncFaults THEN {queue} ELSE {}

\* A ClusterClass appears in, changes in or leaves the source namespace.
ClassEvent ==
    /\ classCache # sources \cap Class
    /\ classCache' = sources \cap Class
    /\ queue' \in Enqueued
    /\ syncFaults' = IF queue' = queue \cup nsCache THEN syncFaults ELSE syncFaults + 1
    /\ UNCHANGED <<apiVars, tmplCache, nsCache, copyCache, work, syncEdits>>

\* The cache sees the source Templates, which nobody is woken by.
TemplateEvent ==
    /\ tmplCache # sources \cap Template
    /\ tmplCache' = sources \cap Template
    /\ UNCHANGED <<apiVars, classCache, nsCache, copyCache, queue, work, syncEdits, syncFaults>>

\* The cache sees the copies of a namespace; a copied class is a ClusterClass
\* event like any other.
CopyEvent(n) ==
    /\ copyCache[n] # copies[n]
    /\ copyCache' = [copyCache EXCEPT ![n] = copies[n]]
    /\ \/ copies[n] \cap Class = copyCache[n] \cap Class /\ UNCHANGED <<queue, syncFaults>>
       \/ /\ copies[n] \cap Class # copyCache[n] \cap Class
          /\ queue' \in Enqueued
          /\ syncFaults' = IF queue' = queue \cup nsCache THEN syncFaults ELSE syncFaults + 1
    /\ UNCHANGED <<apiVars, classCache, tmplCache, nsCache, work, syncEdits>>

\* The caches are listed again every few hours; only ClusterClass events pass.
Relist ==
    /\ classCache # {}
    /\ queue' = queue \cup nsCache
    /\ UNCHANGED <<apiVars, cacheVars, work, syncEdits, syncFaults>>

-----------------------------------------------------------------------------
(* Reconcile *)

\* listSourceClusterClasses.  The namespace's labels are not looked at again.
Start(n) ==
    /\ n \in queue /\ ~work[n].busy
    /\ queue' = queue \ {n}
    /\ work' = [work EXCEPT ![n] = Between(classCache)]
    /\ UNCHANGED <<apiVars, cacheVars, syncEdits, syncFaults>>

\* copyClusterClassAndTemplates begins with the references of the next class.
NextClass(n) ==
    /\ work[n].busy /\ work[n].class = NoClass
    /\ \E c \in work[n].left :
          work' = [work EXCEPT ![n] = [busy |-> TRUE, left |-> @.left \ {c},
                                       class |-> c, todo |-> Refs[c]]]
    /\ UNCHANGED <<apiVars, cacheVars, queue, syncEdits, syncFaults>>

SlipTargetNamespace(n, t) == t \in copyCache[n]

\* getReference: the Template is read, through the cache, from the source namespace.
Readable(n, t) == t \in tmplCache

\* createIfNotExists: the cache does not show the object, so it is created.
Missing(n, o) == o \notin copyCache[n]

\* The Create of an object that exists after all fails with AlreadyExists.
CreateFails(n, o) == Missing(n, o) /\ o \in copies[n]

CopyTemplate(n) ==
    /\ work[n].class # NoClass
    /\ \E t \in work[n].todo :
          /\ Readable(n, t) /\ ~CreateFails(n, t)
          /\ copies' = [copies EXCEPT ![n] = @ \cup {t}]
          /\ work' = [work EXCEPT ![n].todo = @ \ {t}]
    /\ UNCHANGED <<sources, target, cacheVars, queue, syncEdits, syncFaults>>

SlipClassFirst(n) == work[n].class # NoClass

\* walkReferences has come to its end.
TemplatesCopied(n) == work[n].class # NoClass /\ work[n].todo = {}

CopyClass(n) ==
    /\ TemplatesCopied(n)
    /\ ~CreateFails(n, work[n].class)
    /\ copies' = [copies EXCEPT ![n] = @ \cup {work[n].class}]
    /\ work' = [work EXCEPT ![n] = Between(@.left)]
    /\ UNCHANGED <<sources, target, cacheVars, queue, syncEdits, syncFaults>>

\* Reconcile returns without an error.
Finish(n) ==
    /\ work[n].busy /\ work[n].class = NoClass /\ work[n].left = {}
    /\ work' = [work EXCEPT ![n] = SyncIdle]
    /\ UNCHANGED <<apiVars, cacheVars, queue, syncEdits, syncFaults>>

\* A Template cannot be read, an object exists already, or an API call fails:
\* the whole reconcile ends and is tried again later, from the start.
Fail(n) ==
    /\ work[n].busy
    /\ \/ /\ \/ \E t \in work[n].todo : ~Readable(n, t) \/ CreateFails(n, t)
             \/ TemplatesCopied(n) /\ CreateFails(n, work[n].class)
          /\ UNCHANGED syncFaults
       \/ syncFaults < MaxSyncFaults /\ syncFaults' = syncFaults + 1
    /\ work' = [work EXCEPT ![n] = SyncIdle]
    /\ queue' = queue \cup {n}
    /\ UNCHANGED <<apiVars, cacheVars, syncEdits>>

-----------------------------------------------------------------------------
(* Users *)

SyncEdit == syncEdits < MaxSyncEdits /\ syncEdits' = syncEdits + 1

EditSource ==
    /\ SyncEdit
    /\ \E o \in Class \cup Template :
          sources' = IF o \in sources THEN sources \ {o} ELSE sources \cup {o}
    /\ UNCHANGED <<target, copies, cacheVars, queue, work, syncFaults>>

EditLabel ==
    /\ SyncEdit
    /\ \E n \in Namespace : target' = IF n \in target THEN target \ {n} ELSE target \cup {n}
    /\ UNCHANGED <<sources, copies, cacheVars, queue, work, syncFaults>>

Reconcile(n) ==
    \/ Start(n) \/ NextClass(n) \/ CopyTemplate(n)
    \/ CopyClass(n) \/ Finish(n) \/ Fail(n)

SyncNext ==
    \/ ClassEvent \/ TemplateEvent \/ Relist \/ EditSource \/ EditLabel
    \/ \E n \in Namespace : NamespaceEvent(n) \/ CopyEvent(n) \/ Reconcile(n)

SyncSpec == SyncInit /\ [][SyncNext]_syncVars

\* Watches deliver and workers run; nothing is assumed of the users.
SyncFairSpec ==
    /\ SyncSpec
    /\ WF_syncVars(ClassEvent) /\ WF_syncVars(TemplateEvent) /\ WF_syncVars(Relist)
    /\ \A n \in Namespace :
          /\ WF_syncVars(NamespaceEvent(n)) /\ WF_syncVars(CopyEvent(n))
          /\ WF_syncVars(Reconcile(n))

-----------------------------------------------------------------------------
(* Properties *)

Objects == Class \cup Template

\* The range of every variable.
SyncTypeOK ==
    /\ sources \subseteq Objects /\ classCache \subseteq Class
    /\ tmplCache \subseteq Template
    /\ target \subseteq Namespace /\ nsCache \subseteq Namespace
    /\ queue \subseteq Namespace
    /\ copies \in [Namespace -> SUBSET Objects]
    /\ copyCache \in [Namespace -> SUBSET Objects]
    /\ work \in [Namespace -> [busy : BOOLEAN, left : SUBSET Class,
                               class : Class \cup {NoClass}, todo : SUBSET Template]]
    /\ syncEdits \in 0 .. MaxSyncEdits /\ syncFaults \in 0 .. MaxSyncFaults

\* copyClusterClassAndTemplates: whatever fails half-way and is tried again, a
\* ClusterClass in a namespace never refers to a Template that is not there.
CopiedClassesAreComplete ==
    \A n \in Namespace : \A c \in copies[n] \cap Class : Refs[c] \subseteq copies[n]

\* doc.go:7-8: "For every ClusterClass in the source namespace, the controller
\* creates a copy of it, and all its referenced Templates, in the target
\* namespace": once edits stop, and if no source class lacks a Template, every
\* target has every class, in whatever order labels, classes and their Templates
\* arrived and whichever cache saw them first.
EveryTargetGetsEveryClass ==
    <>[]((\A c \in sources \cap Class : Refs[c] \subseteq sources)
            => \A n \in target : sources \cap Class \subseteq copies[n])
=============================================================================
