--------------------------- MODULE PreflightProofs ---------------------------
(***************************************************************************)
(* Theorems about the preflight webhook (pkg/webhook/preflight): for every *)
(* request and every outcome of the API calls, a result that denies has a  *)
(* cause and an internal error denies; Handle summarises all results and   *)
(* nothing else; the order of the goroutines does not show; and what is    *)
(* admitted satisfies the statement of every check that was not skipped.   *)
(*                                                                         *)
(* Five parts: lists, and the induction their lemmas need (by the least    *)
(* counterexample); what every check may answer; the checks that the       *)
(* checkers build; the invariant of preflight.run and its consequences;    *)
(* and what an admitted Cluster satisfies: where the results come from,    *)
(* which checks are built, and one lemma for each check that passes.       *)
(***************************************************************************)
EXTENDS PreflightSoundness, FiniteSetTheorems, SequenceTheorems, WellFoundedInduction, TLAPS

------------------------------------------------------------------------------
(* Lists *)

\* Induction over the natural numbers, with a set for the property.
LEMMA Induct == ASSUME NEW S, 0 \in S, \A n \in Nat : n \in S => n + 1 \in S
                PROVE Nat \subseteq S
<1> DEFINE T == Nat \ S
<1> SUFFICES ASSUME T # {} PROVE FALSE
  OBVIOUS
<1>1. IsWellFoundedOn(OpToRel(<, Nat), Nat)
  BY NatLessThanWellFounded
<1> HIDE DEF T
<1>2. T \subseteq Nat
  BY DEF T
<1>3. \E x \in T : \A y \in T : ~ (<<y, x>> \in OpToRel(<, Nat))
  BY <1>1, <1>2, WFMin
<1>4. PICK x \in T : \A y \in T : ~ (<<y, x>> \in OpToRel(<, Nat))
  BY <1>3
<1>5. x \in Nat /\ x \notin S /\ x # 0
  BY <1>2 DEF T
<1>6. x - 1 \in Nat /\ x - 1 < x /\ (x-1)+1 = x
  BY <1>5
<1>7. x - 1 \notin T
  BY <1>4, <1>6, <1>5 DEF OpToRel
<1>8. x-1 \in S
  BY <1>6, <1>7 DEF T
<1> QED BY <1>8, <1>6, <1>5

\* A list, its indices and its elements.
LEMMA ListFacts ==
    ASSUME NEW s, IsList(s)
    PROVE  /\ Len(s) \in Nat /\ DOMAIN s = 1 .. Len(s)
           /\ Range(s) = {s[i] : i \in 1 .. Len(s)}
           /\ \A x \in Range(s) : \E i \in 1 .. Len(s) : x = s[i]
  BY LenProperties DEF IsList, Range

LEMMA ListOf == ASSUME NEW A, NEW s \in Seq(A) PROVE IsList(s) /\ Range(s) \subseteq A
  BY SeqOfRange, RangeOfSeq DEF IsList

\* A function on 1 .. n is a list.
LEMMA FunctionIsList ==
    ASSUME NEW n \in Nat, NEW s, s = [i \in 1 .. n |-> s[i]]
    PROVE  IsList(s) /\ Len(s) = n
<1> DEFINE A == Range(s)
<1>1. s \in [1 .. n -> A]
  BY DEF Range
<1>2. s \in Seq(A)
  BY <1>1
<1>3. Len(s) = n
  BY <1>1, <1>2, LenProperties
<1> QED BY <1>2, <1>3 DEF IsList

LEMMA ConcatList ==
    ASSUME NEW s, NEW t, IsList(s), IsList(t)
    PROVE  IsList(s \o t) /\ Range(s \o t) = Range(s) \cup Range(t)
<1> DEFINE A == Range(s) \cup Range(t)
<1>1. s \in Seq(A) /\ t \in Seq(A)
  BY SeqMonotonic DEF IsList
<1> HIDE DEF A
<1>2. s \o t \in Seq(A) /\ Range(s \o t) = Range(s) \cup Range(t)
  BY <1>1, ConcatProperties, RangeConcatenation
<1> QED BY <1>2, ListOf

\* SetToSeq lists the elements of a finite set.
LEMMA SetToSeqList ==
    ASSUME NEW S, IsFiniteSet(S)
    PROVE  IsList(SetToSeq(S)) /\ Range(SetToSeq(S)) \subseteq S
<1> DEFINE n == Cardinality(S)
<1>1. n \in Nat /\ ExistsBijection(1 .. n, S)
  BY FS_CardinalityType
<1>2. PICK f \in [1 .. n -> S] : IsInjective(f)
  BY <1>1 DEF ExistsBijection, Bijection, Injection, IsInjective
<1>3. SetToSeq(S) \in [1 .. n -> S]
  BY <1>2 DEF SetToSeq
<1>4. SetToSeq(S) \in Seq(S)
  BY <1>1, <1>3
<1> QED BY <1>4, ListOf

\* The concatenations of the first m lists of ss.
Concats(ss, m, f) == f = [i \in 1 .. m |-> IF i = 1 THEN ss[i] ELSE f[i - 1] \o ss[i]]

LEMMA ConcatsExist ==
    ASSUME NEW ss PROVE \A m \in Nat : \E f : Concats(ss, m, f)
<1> DEFINE S == {m \in Nat : \E f : Concats(ss, m, f)}
<1>1. 0 \in S
  <2> DEFINE f == [i \in 1 .. 0 |-> ss[i]]
  <2>1. Concats(ss, 0, f)
    BY DEF Concats
  <2> QED BY <2>1, Zenon
<1>2. ASSUME NEW m \in Nat, m \in S PROVE m + 1 \in S
  <2>1. PICK f : Concats(ss, m, f)
    BY <1>2
  <2> DEFINE g == [i \in 1 .. m + 1 |-> IF i = 1 THEN ss[i] ELSE IF i <= m THEN f[i] ELSE f[m] \o ss[i]]
  <2>2. ASSUME NEW i \in 1 .. m + 1
        PROVE  g[i] = IF i = 1 THEN ss[i] ELSE g[i - 1] \o ss[i]
    <3>1. CASE i = 1
      BY <3>1
    <3>2. CASE i # 1 /\ i <= m
      <4>1. i \in 1 .. m /\ i - 1 \in 1 .. m /\ i - 1 \in 1 .. m + 1
        BY <3>2
      <4>2. f[i] = f[i - 1] \o ss[i] /\ (i - 1 = 1 => f[i - 1] = ss[i - 1])
        BY <2>1, <3>2, <4>1 DEF Concats
      <4>3. g[i] = f[i]
        BY <3>2
      <4>4. g[i - 1] = IF i - 1 = 1 THEN ss[i - 1] ELSE f[i - 1]
        BY <4>1
      <4> HIDE DEF g
      <4> QED BY <3>2, <4>2, <4>3, <4>4
    <3>3. CASE i # 1 /\ ~(i <= m)
      <4>1. i = m + 1 /\ m \in 1 .. m /\ m \in 1 .. m + 1
        BY <3>3
      <4>2. m = 1 => f[m] = ss[m]
        BY <2>1, <4>1 DEF Concats
      <4>3. g[m] = IF m = 1 THEN ss[m] ELSE f[m]
        BY <4>1
      <4>4. g[i] = f[m] \o ss[i]
        BY <3>3
      <4> HIDE DEF g
      <4>5. g[m] = f[m] /\ i - 1 = m
        BY <4>1, <4>2, <4>3
      <4>6. g[i - 1] = f[m]
        BY ONLY <4>5, Zenon
      <4>7. g[i] = g[i - 1] \o ss[i]
        BY ONLY <4>4, <4>6, Zenon
      <4> QED BY <3>3, <4>7
    <3> QED BY <3>1, <3>2, <3>3
  <2>3. Concats(ss, m + 1, g)
    <3> HIDE DEF g
    <3> SUFFICES g = [i \in 1 .. m + 1 |-> g[i]]
      BY <2>2 DEF Concats
    <3> QED BY DEF g
  <2> HIDE DEF g
  <2> QED BY <2>3
<1> HIDE DEF S
<1>3. Nat \subseteq S
  BY <1>1, <1>2, Induct
<1> QED BY <1>3 DEF S

\* FlattenSeq concatenates lists: its elements are those of the lists.
LEMMA FlattenList ==
    ASSUME NEW ss, IsList(ss), \A i \in 1 .. Len(ss) : IsList(ss[i])
    PROVE  /\ IsList(FlattenSeq(ss))
           /\ \A x \in Range(FlattenSeq(ss)) : \E i \in 1 .. Len(ss) : x \in Range(ss[i])
<1> DEFINE n == Len(ss)
           Upto(k) == UNION {Range(ss[i]) : i \in 1 .. k}
           f == CHOOSE f : Concats(ss, n, f)
<1>1. n \in Nat
  BY ListFacts
<1>2. Concats(ss, n, f)
  BY <1>1, ConcatsExist
<1>3. CASE n = 0
  <2>1. FlattenSeq(ss) = ss
    BY <1>3 DEF FlattenSeq
  <2> QED BY <2>1, <1>3, ListFacts
<1>4. CASE n > 0
  <2>1. FlattenSeq(ss) = f[n]
    BY <1>4 DEF FlattenSeq, Concats
  <2> HIDE DEF f
  <2> DEFINE S == {k \in Nat : k + 1 <= n => IsList(f[k + 1]) /\ Range(f[k + 1]) \subseteq Upto(n)}
  <2>2. 0 \in S
    <3>1. 1 \in 1 .. n
      BY <1>1, <1>4
    <3>2. f[1] = ss[1]
      BY <1>2, <3>1 DEF Concats
    <3> QED BY <3>1, <3>2
  <2>3. ASSUME NEW k \in Nat, k \in S PROVE k + 1 \in S
    <3>1. CASE k + 2 <= n
      <4>1. k + 2 \in 1 .. n /\ k + 1 <= n /\ k + 2 # 1 /\ (k + 2) - 1 = k + 1
        BY <1>1, <3>1
      <4>2. f[k + 2] = f[k + 1] \o ss[k + 2]
        BY <1>2, <4>1 DEF Concats
      <4>3. IsList(f[k + 1]) /\ Range(f[k + 1]) \subseteq Upto(n)
        BY <2>3, <4>1
      <4>4. IsList(ss[k + 2]) /\ Range(ss[k + 2]) \subseteq Upto(n)
        BY <4>1
      <4>5. IsList(f[k + 2]) /\ Range(f[k + 2]) \subseteq Upto(n)
        BY <4>2, <4>3, <4>4, ConcatList
      <4>6. (k + 1) + 1 = k + 2
        OBVIOUS
      <4> QED BY <4>5, <4>6
    <3>2. CASE ~(k + 2 <= n)
      BY <1>1, <3>2
    <3> QED BY <3>1, <3>2
  <2> HIDE DEF S
  <2>4. Nat \subseteq S
    BY <2>2, <2>3, Induct
  <2>5. n - 1 \in S /\ (n - 1) + 1 = n /\ n <= n
    BY <1>1, <1>4, <2>4
  <2>6. IsList(f[n]) /\ Range(f[n]) \subseteq Upto(n)
    BY <2>5 DEF S
  <2> QED BY <2>1, <2>6
<1> QED BY <1>1, <1>3, <1>4

------------------------------------------------------------------------------
(* Results *)

\* What every check keeps to: an internal error denies and has a cause.
Sound(res) ==
    /\ res.allowed \in BOOLEAN /\ res.internal \in BOOLEAN /\ res.panic \in BOOLEAN
    /\ res.internal => ~res.allowed /\ res.causes # {}

LEMMA PassSound == Sound(Pass)
  BY DEF Sound, Pass
LEMMA WarnSound == ASSUME NEW w PROVE Sound(Warn(w))
  BY DEF Sound, Warn, Pass
LEMMA FailSound == ASSUME NEW c PROVE Sound(Fail(c))
  BY DEF Sound, Fail, Pass
LEMMA FailInternalSound == ASSUME NEW c PROVE Sound(FailInternal(c))
  BY DEF Sound, FailInternal, Fail, Pass
LEMMA DeniedSound == Sound(Denied)
  BY DEF Sound, Denied, Pass
LEMMA PanicSound == Sound(Panic)
  BY DEF Sound, Panic, Pass
LEMMA TogetherSound == ASSUME NEW R, \A x \in R : Sound(x) PROVE Sound(Together(R))
<1> DEFINE t == Together(R)
<1>1. /\ t.allowed = (\A x \in R : x.allowed)
      /\ t.internal = (\E x \in R : x.internal)
      /\ t.panic = (\E x \in R : x.panic)
      /\ t.causes = UNION {x.causes : x \in R}
  BY DEF Together
<1> HIDE DEF t
<1>2. t.allowed \in BOOLEAN /\ t.internal \in BOOLEAN /\ t.panic \in BOOLEAN
  BY <1>1, Zenon
<1>3. ASSUME t.internal PROVE ~t.allowed /\ t.causes # {}
  <2>1. PICK x \in R : x.internal
    BY <1>1, <1>3, Zenon
  <2>2. ~x.allowed /\ x.causes # {}
    BY <2>1, Zenon DEF Sound
  <2>3. ~t.allowed
    BY <1>1, <2>2, Zenon
  <2>4. x.causes \subseteq t.causes
    BY <1>1
  <2> QED BY <2>2, <2>3, <2>4
<1> QED BY <1>2, <1>3, Zenon DEF Sound, t

LEMMA Verdicts ==
    /\ Sound(Pass) /\ Sound(Panic) /\ Sound(Denied)
    /\ \A w : Sound(Warn(w))
    /\ \A c : Sound(Fail(c)) /\ Sound(FailInternal(c))
  BY PassSound, PanicSound, DeniedSound, WarnSound, FailSound, FailInternalSound

LEMMA RegistrySound == ASSUME NEW chk, NEW bad PROVE Sound(RunRegistry(chk, bad))
  BY Verdicts DEF RunRegistry

LEMMA FailureDomainSound == ASSUME NEW r, NEW chk, NEW bad PROVE Sound(RunFailureDomain(r, chk, bad))
  BY Verdicts, TogetherSound DEF RunFailureDomain

LEMMA ImagesSound ==
    ASSUME NEW r, NEW chk, NEW bad
    PROVE  Sound(RunImage(r, chk, bad)) /\ Sound(RunImageVersion(r, chk, bad))
  BY Verdicts DEF RunImage, RunImageVersion

LEMMA ContainersSound == ASSUME NEW r, NEW id, NEW bad PROVE Sound(ContainersOn(r, id, bad))
  BY Verdicts, TogetherSound DEF ContainersOn

LEMMA StorageSound == ASSUME NEW r, NEW chk, NEW bad PROVE Sound(RunStorage(r, chk, bad))
  BY Verdicts, ContainersSound DEF RunStorage

LEMMA CIDRSound == ASSUME NEW r, NEW client, NEW bad PROVE Sound(RunCIDR(r, client, bad))
  BY Verdicts, TogetherSound DEF RunCIDR, validatePodCIDR, validateServiceCIDR, NotOverlapping

LEMMA EndpointSound == ASSUME NEW r, NEW bad PROVE Sound(RunEndpoint(r, bad))
  BY Verdicts DEF RunEndpoint

LEMMA MetroSound == ASSUME NEW r, NEW chk, NEW bad PROVE Sound(RunMetro(r, chk, bad))
<1>1. \A byFD : Sound(checkSubnetConsistency(byFD))
  BY Verdicts DEF checkSubnetConsistency
<1> QED BY <1>1, Verdicts, TogetherSound DEF RunMetro

LEMMA MetroGuardsSound ==
    ASSUME NEW r, NEW chk, NEW bad
    PROVE  /\ Sound(RunSingleMetro(chk)) /\ Sound(RunScale(r, chk, bad))
           /\ Sound(RunHosting(r, chk, bad)) /\ Sound(RunLatency(r, chk, bad))
           /\ Sound(RunSites(r, chk, bad)) /\ Sound(RunVHA(r, chk))
<1>1. Sound(RunSingleMetro(chk))
  BY Verdicts DEF RunSingleMetro
<1>2. Sound(RunScale(r, chk, bad))
  BY Verdicts DEF RunScale
<1>3. Sound(RunHosting(r, chk, bad))
  BY Verdicts DEF RunHosting
<1>4. Sound(RunLatency(r, chk, bad))
  BY Verdicts DEF RunLatency
<1>5. Sound(RunSites(r, chk, bad))
  BY Verdicts DEF RunSites
<1>6. Sound(RunVHA(r, chk))
  BY Verdicts DEF RunVHA
<1> QED BY <1>1, <1>2, <1>3, <1>4, <1>5, <1>6

LEMMA NodePoolsSound == ASSUME NEW r PROVE Sound(RunNodePools(r))
  BY Verdicts, TogetherSound DEF RunNodePools

\* Run of every check, for any request and any failing calls.
LEMMA RunSound ==
    ASSUME NEW r, NEW chk, NEW bad, Sound(chk.result)
    PROVE  Sound(Run(r, chk, bad))
  BY RegistrySound, FailureDomainSound, ImagesSound, StorageSound, CIDRSound, EndpointSound,
     MetroSound, MetroGuardsSound, NodePoolsSound DEF Run

------------------------------------------------------------------------------
(* The checks that the checkers build *)

\* The values of a function on a finite set are finitely many.
LEMMA ImageFinite ==
    ASSUME NEW f, IsFiniteSet(DOMAIN f)
    PROVE  IsFiniteSet(Range(f))
<1>1. f \in Surjection(DOMAIN f, Range(f)) \/ ~(f \in [DOMAIN f -> Range(f)])
  BY DEF Surjection, Range
<1>2. CASE f \in Surjection(DOMAIN f, Range(f))
  BY <1>2, FS_Surjection
<1>3. CASE ~(f \in [DOMAIN f -> Range(f)])
  <2> DEFINE g == [x \in DOMAIN f |-> f[x]]
  <2>1. Range(f) = Range(g) /\ DOMAIN g = DOMAIN f
    BY DEF Range
  <2>2. g \in Surjection(DOMAIN g, Range(g))
    BY DEF Surjection, Range
  <2> QED BY <2>1, <2>2, FS_Surjection
<1> QED BY <1>1, <1>2, <1>3

\* A list of checks, none of which knows a result that is not sound.
SoundList(s) == IsList(s) /\ \A c \in Range(s) : Sound(c.result)

LEMMA ChecksAreSound == \A kind, arg, err : Sound(Check(kind, arg, err).result)
  BY PassSound DEF Check

LEMMA EmptySound == SoundList(<<>>)
  BY FunctionIsList DEF SoundList, IsList, Range

LEMMA OneSound == ASSUME NEW c, Sound(c.result) PROVE SoundList(<<c>>)
<1>1. <<c>> \in Seq({c}) /\ Range(<<c>>) \subseteq {c}
  BY ListOf DEF Range
<1> QED BY <1>1, ListOf DEF SoundList

LEMMA ConcatSound ==
    ASSUME NEW s, NEW t, SoundList(s), SoundList(t) PROVE SoundList(s \o t)
  BY ConcatList DEF SoundList

LEMMA SetSound ==
    ASSUME NEW S, IsFiniteSet(S), \A c \in S : Sound(c.result) PROVE SoundList(SetToSeq(S))
  BY SetToSeqList DEF SoundList

LEMMA FlattenSound ==
    ASSUME NEW n \in Nat, NEW ss, ss = [i \in 1 .. n |-> ss[i]], \A i \in 1 .. n : SoundList(ss[i])
    PROVE  SoundList(FlattenSeq(ss))
<1>1. IsList(ss) /\ Len(ss) = n
  BY FunctionIsList
<1> QED BY <1>1, FlattenList DEF SoundList

LEMMA GenericInitSound ==
    ASSUME NEW r, WellFormed(r) PROVE SoundList(GenericInit(r))
<1>1. Sound(GenericConfiguration(r).result)
  BY Verdicts DEF GenericConfiguration, Known
<1>2. SoundList(<<GenericConfiguration(r)>>)
  BY <1>1, OneSound
<1>3. SoundList(newRegistryCheck(r))
  <2> DEFINE s == [k \in 1 .. Len(r.registries) |-> Check("registry", {r.registries[k]}, FALSE)]
  <2>1. IsList(s)
    BY FunctionIsList, ListFacts DEF WellFormed
  <2>2. \A c \in Range(s) : Sound(c.result)
    BY ChecksAreSound DEF Range
  <2> QED BY <2>1, <2>2, EmptySound DEF newRegistryCheck, SoundList
<1> QED BY <1>2, <1>3, ConcatSound DEF GenericInit

\* The references of a request are a list.
LEMMA FailureDomainsList ==
    ASSUME NEW r, WellFormed(r)
    PROVE  /\ IsList(failureDomains(r))
           /\ \A ref \in Range(failureDomains(r)) : ref.kind \in {"fd", "metro", "site"}
<1> DEFINE Good(fds) == IsList(fds) /\ \A ref \in Range(fds) : ref.kind \in {"fd", "metro", "site"}
<1> DEFINE cp == IF cpPools(r) = {} THEN <<>> ELSE (CHOOSE p \in r.cp : TRUE).fds
           ws == [k \in DOMAIN r.workers |-> r.workers[k].fds]
<1>1. Good(cp)
  <2>1. Good(<<>>)
    BY EmptySound DEF SoundList, Range
  <2>2. ASSUME cpPools(r) # {} PROVE Good((CHOOSE p \in r.cp : TRUE).fds)
    <3>1. (CHOOSE p \in r.cp : TRUE) \in r.cp
      BY <2>2 DEF cpPools
    <3> QED BY <3>1 DEF WellFormed, WellFormedPool
  <2> QED BY <2>1, <2>2
<1>2. Len(r.workers) \in Nat /\ DOMAIN r.workers = 1 .. Len(r.workers)
  BY ListFacts DEF WellFormed
<1>3. IsList(ws) /\ Len(ws) = Len(r.workers)
  BY <1>2, FunctionIsList
<1>4. \A k \in 1 .. Len(ws) : Good(ws[k])
  BY <1>2, <1>3 DEF WellFormed, WellFormedPool, Range
<1> HIDE DEF cp, ws
<1>5. Good(FlattenSeq(ws))
  BY <1>3, <1>4, FlattenList
<1>6. Good(cp \o FlattenSeq(ws))
  BY <1>1, <1>5, ConcatList
<1> QED BY <1>6 DEF failureDomains, cp, ws

LEMMA ResolvedSound ==
    ASSUME NEW r, WellFormed(r), NEW kind, NEW ref, NEW bad,
           ref.kind \in {"fd", "metro", "site"}
    PROVE  SoundList(Resolved(r, kind, ref, bad))
<1> DEFINE names == getFailureDomainNames(r, ref, bad)
           f == [n \in names.found |-> Check(kind, {n}, FALSE)]
<1>1. CASE names.err
  <2>1. SoundList(<<Check("fd", {ref.name}, TRUE)>>)
    BY ChecksAreSound, OneSound
  <2> QED BY <1>1, <2>1 DEF Resolved
<1>2. CASE ~names.err
  <2>1. IsFiniteSet(names.found)
    BY <1>2, FS_Singleton DEF getFailureDomainNames, Found, Err, WellFormed, WellFormedWorld
  <2> HIDE DEF names
  <2>2. IsFiniteSet(Range(f)) /\ Range(f) = {Check(kind, {n}, FALSE) : n \in names.found}
    BY <2>1, ImageFinite DEF Range
  <2>3. SoundList(SetToSeq({Check(kind, {n}, FALSE) : n \in names.found}))
    BY <2>2, SetSound, ChecksAreSound
  <2> QED BY <1>2, <2>3 DEF Resolved, names
<1> QED BY <1>1, <1>2

\* The lists that the checkers build from the references and pools of a request.
LEMMA FlattenOver ==
    ASSUME NEW s, IsList(s), NEW ss, ss = [k \in DOMAIN s |-> ss[k]],
           \A k \in DOMAIN s : SoundList(ss[k])
    PROVE  SoundList(FlattenSeq(ss))
<1>1. Len(s) \in Nat /\ DOMAIN s = 1 .. Len(s)
  BY ListFacts
<1> QED BY <1>1, FlattenSound

LEMMA FailureDomainChecksSound ==
    ASSUME NEW r, WellFormed(r), NEW bad PROVE SoundList(newFailureDomainChecks(r, bad))
<1> DEFINE refs == failureDomains(r)
           ss == [k \in DOMAIN refs |-> Resolved(r, "fd", refs[k], bad)]
<1>1. IsList(refs) /\ \A k \in DOMAIN refs : refs[k].kind \in {"fd", "metro", "site"}
  BY FailureDomainsList DEF Range
<1> HIDE DEF refs
<1>2. \A k \in DOMAIN refs : SoundList(Resolved(r, "fd", refs[k], bad))
  BY <1>1, ResolvedSound
<1>3. SoundList(FlattenSeq(ss))
  BY <1>1, <1>2, FlattenOver
<1> QED BY <1>3 DEF newFailureDomainChecks, refs

LEMMA PoolsFinite ==
    ASSUME NEW r, WellFormed(r)
    PROVE  /\ IsFiniteSet(Pools(r))
           /\ \A k \in Pools(r) : Pool(r, k) \in r.cp \cup Range(r.workers)
<1>1. Len(r.workers) \in Nat /\ DOMAIN r.workers = 1 .. Len(r.workers)
  BY ListFacts DEF WellFormed
<1>2. IsFiniteSet(0 .. Len(r.workers))
  BY <1>1, FS_Interval
<1>3. Pools(r) \subseteq 0 .. Len(r.workers)
  BY <1>1 DEF Pools, WorkerConfigs
<1>4. IsFiniteSet(Pools(r))
  BY <1>2, <1>3, FS_Subset
<1>5. ASSUME NEW k \in Pools(r) PROVE Pool(r, k) \in r.cp \cup Range(r.workers)
  <2>1. CASE k = 0
    <3>1. cpPools(r) # {}
      BY <1>1, <2>1 DEF Pools, WorkerConfigs
    <3> QED BY <2>1, <3>1 DEF Pool, cpPools
  <2>2. CASE k # 0
    BY <2>2 DEF Pools, WorkerConfigs, Pool, Range
  <2> QED BY <2>1, <2>2
<1> QED BY <1>4, <1>5

LEMMA PerPool ==
    ASSUME NEW r, WellFormed(r), NEW kind
    PROVE  SoundList(SetToSeq({Check(kind, {k}, FALSE) : k \in Pools(r)}))
<1> DEFINE f == [k \in Pools(r) |-> Check(kind, {k}, FALSE)]
<1>1. IsFiniteSet(Pools(r))
  BY PoolsFinite
<1>2. IsFiniteSet(Range(f)) /\ Range(f) = {Check(kind, {k}, FALSE) : k \in Pools(r)}
  BY <1>1, ImageFinite DEF Range
<1> QED BY <1>2, SetSound, ChecksAreSound

LEMMA ImageChecksSound ==
    ASSUME NEW r, WellFormed(r)
    PROVE  SoundList(newVMImageChecks(r)) /\ SoundList(newVMImageKubernetesVersionChecks(r))
  BY PerPool, EmptySound DEF newVMImageChecks, newVMImageKubernetesVersionChecks

LEMMA StorageChecksSound ==
    ASSUME NEW r, WellFormed(r), NEW bad PROVE SoundList(newStorageContainerChecks(r, bad))
<1> DEFINE Of(k) == LET p == Pool(r, k) IN
                IF p.fds = <<>> THEN <<Check("storage", {k}, FALSE)>>
                ELSE FlattenSeq([n \in DOMAIN p.fds |-> Resolved(r, "storageFD", p.fds[n], bad)])
           pools == SetToSeq(Pools(r))
           ss == [n \in DOMAIN pools |-> Of(pools[n])]
<1>1. ASSUME NEW k \in Pools(r) PROVE SoundList(Of(k))
  <2> DEFINE p == Pool(r, k)
             fs == [n \in DOMAIN p.fds |-> Resolved(r, "storageFD", p.fds[n], bad)]
  <2>1. p \in r.cp \cup Range(r.workers)
    BY PoolsFinite
  <2>2. IsList(p.fds) /\ \A n \in DOMAIN p.fds : p.fds[n].kind \in {"fd", "metro", "site"}
    BY <2>1 DEF WellFormed, WellFormedPool, Range
  <2> HIDE DEF p
  <2>3. \A n \in DOMAIN p.fds : SoundList(Resolved(r, "storageFD", p.fds[n], bad))
    BY <2>2, ResolvedSound
  <2>4. SoundList(FlattenSeq(fs))
    BY <2>2, <2>3, FlattenOver
  <2>5. SoundList(<<Check("storage", {k}, FALSE)>>)
    BY ChecksAreSound, OneSound
  <2> QED BY <2>4, <2>5 DEF p
<1>2. IsList(pools) /\ Range(pools) \subseteq Pools(r)
  BY PoolsFinite, SetToSeqList
<1> HIDE DEF Of, pools
<1>3. \A n \in DOMAIN pools : SoundList(Of(pools[n]))
  BY <1>1, <1>2 DEF Range
<1>4. SoundList(FlattenSeq(ss))
  BY <1>2, <1>3, FlattenOver
<1> QED BY <1>4, EmptySound DEF newStorageContainerChecks, Of, pools

LEMMA ThreeSound ==
    ASSUME NEW c1, NEW c2, NEW c3, \A c \in {c1, c2, c3} : Sound(c.result)
    PROVE  SoundList(<<c1, c2, c3>>)
<1> DEFINE A == {c1, c2, c3}
<1>1. <<c1, c2, c3>> \in Seq(A)
  OBVIOUS
<1> HIDE DEF A
<1>2. IsList(<<c1, c2, c3>>) /\ Range(<<c1, c2, c3>>) \subseteq A
  BY <1>1, ListOf
<1> QED BY <1>2 DEF SoundList, A

LEMMA SixSound ==
    ASSUME NEW c1, NEW c2, NEW c3, NEW c4, NEW c5, NEW c6,
           \A c \in {c1, c2, c3, c4, c5, c6} : Sound(c.result)
    PROVE  SoundList(<<c1, c2, c3, c4, c5, c6>>)
<1> DEFINE A == {c1, c2, c3, c4, c5, c6}
<1>1. <<c1, c2, c3, c4, c5, c6>> \in Seq(A)
  OBVIOUS
<1> HIDE DEF A
<1>2. IsList(<<c1, c2, c3, c4, c5, c6>>) /\ Range(<<c1, c2, c3, c4, c5, c6>>) \subseteq A
  BY <1>1, ListOf
<1> QED BY <1>2 DEF SoundList, A

\* The metros and the references that do not resolve are finitely many.
LEMMA MetroNamesFinite ==
    ASSUME NEW r, NEW bad, WellFormed(r)
    PROVE  /\ IsFiniteSet(Refs(r)) /\ \A ref \in Refs(r) : ref.kind \in {"fd", "metro", "site"}
           /\ IsFiniteSet(metroNames(r, bad)) /\ IsFiniteSet(unresolvedMetros(r, bad))
<1> DEFINE names == metroNames(r, bad)
           lost == unresolvedMetros(r, bad)
<1>1. IsFiniteSet(Refs(r)) /\ \A ref \in Refs(r) : ref.kind \in {"fd", "metro", "site"}
  <2>1. IsList(failureDomains(r))
    BY FailureDomainsList
  <2>2. IsFiniteSet(DOMAIN failureDomains(r))
    BY <2>1, ListFacts, FS_Interval
  <2> QED BY <2>2, ImageFinite, FailureDomainsList DEF Refs
<1>2. IsFiniteSet(names)
  <2> DEFINE h == [ref \in Refs(r) |-> metroNameFromFailureDomain(r, ref, bad).found]
  <2>1. \A ref \in Refs(r) : IsFiniteSet(metroNameFromFailureDomain(r, ref, bad).found)
    BY <1>1, FS_Singleton, FS_EmptySet DEF metroNameFromFailureDomain, Found, Err
  <2>2. IsFiniteSet(Range(h)) /\ \A x \in Range(h) : IsFiniteSet(x)
    BY <1>1, <2>1, ImageFinite DEF Range
  <2>3. IsFiniteSet(UNION Range(h))
    BY <2>2, FS_UNION
  <2>4. names = UNION Range(h)
    BY DEF metroNames, Range
  <2> QED BY <2>3, <2>4
<1>3. IsFiniteSet(lost)
  <2> DEFINE U == {x \in Refs(r) : metroNameFromFailureDomain(r, x, bad).err}
             h == [ref \in U |-> ref.name]
  <2>1. IsFiniteSet(U)
    BY <1>1, FS_Subset
  <2>2. IsFiniteSet(Range(h))
    BY <2>1, ImageFinite
  <2>3. lost = Range(h)
    BY DEF unresolvedMetros, Range
  <2> QED BY <2>2, <2>3
<1> QED BY <1>1, <1>2, <1>3

LEMMA MetroChecksSound ==
    ASSUME NEW r, WellFormed(r), NEW bad PROVE SoundList(newMetroChecks(r, bad))
<1> DEFINE names == metroNames(r, bad)
           lost == unresolvedMetros(r, bad)
           fds == clusterFailureDomainNames(r, bad)
           Over(kind) == Check(kind, fds.found, fds.err)
           S == {Check("metro", {n}, FALSE) : n \in names}
           T == {Check("metro", {n}, TRUE) : n \in lost}
           f == [n \in names |-> Check("metro", {n}, FALSE)]
           g == [n \in lost |-> Check("metro", {n}, TRUE)]
<1>2. IsFiniteSet(names) /\ IsFiniteSet(lost)
  BY MetroNamesFinite
<1> HIDE DEF names, lost
<1>4. IsFiniteSet(S) /\ IsFiniteSet(T)
  <2>1. IsFiniteSet(Range(f)) /\ Range(f) = S
    BY <1>2, ImageFinite DEF Range
  <2>2. IsFiniteSet(Range(g)) /\ Range(g) = T
    BY <1>2, ImageFinite DEF Range
  <2> QED BY <2>1, <2>2
<1>5. SoundList(SetToSeq(S \cup T))
  BY <1>4, FS_Union, SetSound, ChecksAreSound
<1>6. SoundList(IF Cardinality(names) > 1 THEN <<Check("singleMetro", names, FALSE)>> ELSE <<>>)
  BY ChecksAreSound, OneSound, EmptySound
<1>7. SoundList(<<Over("scale"), Over("hosting"), Over("latency"), Check("nodePools", {}, FALSE),
                  Check("sites", names, FALSE), Check("vha", names, FALSE)>>)
  <2>1. \A kind : Sound(Over(kind).result)
    BY ChecksAreSound
  <2> HIDE DEF Over
  <2> QED BY <2>1, ChecksAreSound, SixSound
<1>8. SoundList(IF names = {} THEN <<>>
                ELSE <<Over("scale"), Over("hosting"), Over("latency"), Check("nodePools", {}, FALSE),
                       Check("sites", names, FALSE), Check("vha", names, FALSE)>>)
  BY <1>7, EmptySound
<1> HIDE DEF S, T
<1>9. SoundList(SetToSeq(S \cup T)
         \o (IF Cardinality(names) > 1 THEN <<Check("singleMetro", names, FALSE)>> ELSE <<>>)
         \o (IF names = {} THEN <<>>
             ELSE <<Over("scale"), Over("hosting"), Over("latency"), Check("nodePools", {}, FALSE),
                    Check("sites", names, FALSE), Check("vha", names, FALSE)>>))
  BY <1>5, <1>6, <1>8, ConcatSound
<1> QED BY <1>9, Zenon DEF newMetroChecks, S, T, names, lost

LEMMA NutanixInitSound ==
    ASSUME NEW r, WellFormed(r), NEW skipped, NEW bad
    PROVE  SoundList(NutanixInit(r, skipped, bad))
<1> DEFINE client == nclient(r, bad)
           ready == client /\ pcVersion(r, skipped, bad)
           If(list) == IF ready THEN list ELSE <<>>
           first == <<NutanixConfiguration(r), Known("credentials", CredentialsResult(r, bad)),
                      Known("version", VersionResult(r, skipped, bad))>>
<1>1. SoundList(first)
  <2>1. Sound(NutanixConfiguration(r).result)
    BY Verdicts DEF NutanixConfiguration, Known
  <2>2. Sound(Known("credentials", CredentialsResult(r, bad)).result)
    BY Verdicts DEF Known, CredentialsResult, SecretResult, ClientResult
  <2>3. Sound(Known("version", VersionResult(r, skipped, bad)).result)
    BY Verdicts DEF Known, VersionResult
  <2> QED BY <2>1, <2>2, <2>3, ThreeSound
<1>2. \A list : SoundList(list) => SoundList(If(list))
  BY EmptySound
<1>3. SoundList(<<Check("cidr", {client}, FALSE)>>) /\ SoundList(<<Check("endpoint", {}, FALSE)>>)
  BY ChecksAreSound, OneSound
<1> HIDE DEF first, If, client
<1>4. /\ SoundList(If(newFailureDomainChecks(r, bad))) /\ SoundList(If(newVMImageChecks(r)))
      /\ SoundList(If(newVMImageKubernetesVersionChecks(r)))
      /\ SoundList(If(newStorageContainerChecks(r, bad))) /\ SoundList(If(newMetroChecks(r, bad)))
  BY <1>2, FailureDomainChecksSound, ImageChecksSound, StorageChecksSound, MetroChecksSound
<1>5. SoundList(first \o If(newFailureDomainChecks(r, bad)) \o If(newVMImageChecks(r))
                \o If(newVMImageKubernetesVersionChecks(r)) \o <<Check("cidr", {client}, FALSE)>>
                \o If(newStorageContainerChecks(r, bad)) \o <<Check("endpoint", {}, FALSE)>>
                \o If(newMetroChecks(r, bad)))
  <2>1. SoundList(first \o If(newFailureDomainChecks(r, bad)) \o If(newVMImageChecks(r)))
    BY <1>1, <1>4, ConcatSound
  <2>2. SoundList(first \o If(newFailureDomainChecks(r, bad)) \o If(newVMImageChecks(r))
                  \o If(newVMImageKubernetesVersionChecks(r)) \o <<Check("cidr", {client}, FALSE)>>)
    BY <2>1, <1>3, <1>4, ConcatSound
  <2> QED BY <2>2, <1>3, <1>4, ConcatSound
<1> QED BY <1>5, Zenon DEF NutanixInit, first, If, client

------------------------------------------------------------------------------
(* The request *)

\* Counting the calls that fail needs finitely many calls.
LEMMA ApiCallsFinite == IsFiniteSet(ApiCalls)
<1> DEFINE f == <<"secret", "client", "users", "version", "clusters", "subnets", "images", "containers",
                  "hosting", "rtt", "ping", "dial", "fd", "getMetro", "listSites", "metro", "site">>
<1>1. DOMAIN f = 1 .. 17
  OBVIOUS
<1>2. Range(f) = ApiCalls
  <2>1. Range(f) = {f[k] : k \in 1 .. 17}
    BY <1>1 DEF Range
  <2> QED BY <2>1 DEF ApiCalls, Abandoned, Given
<1>3. IsFiniteSet(1 .. 17)
  <2>1. 1 \in Int /\ 17 \in Int
    OBVIOUS
  <2> QED BY <2>1, FS_Interval
<1> QED BY <1>1, <1>2, <1>3, ImageFinite

\* Without a counted fault and in time, no call fails.
LEMMA NoFault ==
    ASSUME NEW bad, NEW started, Bad(bad, started), ~Expired, faults = 0, faults' = 0
    PROVE  bad = {}
<1>1. bad \subseteq ApiCalls /\ faults' = faults + Cardinality(bad)
  BY DEF Bad
<1>2. IsFiniteSet(bad)
  BY <1>1, ApiCallsFinite, FS_Subset
<1>3. Cardinality(bad) \in Nat
  BY <1>2, FS_CardinalityType
<1>4. Cardinality(bad) = 0
  BY <1>1, <1>3
<1> QED BY <1>2, <1>4, FS_EmptySet

\* Once every call fails none is counted; the count is bounded and never drops.
LEMMA FaultsBounded ==
    ASSUME NEW bad, NEW started, Bad(bad, started), faults \in 0 .. MaxFaults
    PROVE  faults' \in 0 .. MaxFaults /\ faults' >= faults
<1>1. CASE Expired
  BY <1>1, BoundsAreNat DEF Bad
<1>2. CASE ~Expired
  <2>1. bad \subseteq ApiCalls /\ faults' = faults + Cardinality(bad)
        /\ faults + Cardinality(bad) <= (IF req.faulty THEN MaxFaults ELSE 0)
    BY <1>2 DEF Bad
  <2>2. Cardinality(bad) \in Nat
    BY <2>1, ApiCallsFinite, FS_Subset, FS_CardinalityType
  <2> QED BY <2>1, <2>2, BoundsAreNat
<1> QED BY <1>1, <1>2

\* What Init returns, for any request and any failing calls.
LEMMA ChecksOfSound ==
    ASSUME request \in DOMAIN Request, NEW i, NEW bad
    PROVE  SoundList(ChecksOf(i, bad))
<1>1. WellFormed(req)
  BY RequestsAreWellFormed DEF req, Table
<1> QED BY <1>1, GenericInitSound, NutanixInitSound DEF ChecksOf

------------------------------------------------------------------------------
(* The invariant *)

\* The slots that have been written: those of the checks that were started and are done.
Filled(i) == (1 .. next[i] - 1) \ running[i]

Shape ==
    /\ request \in DOMAIN Request
    /\ phase \in {"handle", "running", "done"}
    /\ inited \subseteq Checkers /\ stored \subseteq inited
    /\ checks = [i \in Checkers |-> checks[i]]
    /\ results = [i \in Checkers |-> [j \in DOMAIN checks[i] |-> results[i][j]]]
    /\ next \in [Checkers -> Nat \ {0}]
    /\ running \in [Checkers -> SUBSET Nat]
    /\ cutoff \in [Checkers -> Nat]

\* Every checker has a list of checks; what its loop has not reached is not running.
Looped ==
    \A i \in Checkers :
        /\ SoundList(checks[i])
        /\ i \notin inited => checks[i] = <<>>
        /\ next[i] <= Len(checks[i]) + 1
        /\ running[i] \subseteq 1 .. next[i] - 1
        /\ cutoff[i] <= next[i]

\* No slot that was written lacks a verdict, and an internal error denies with a cause.
Judged == \A i \in Checkers : \A j \in Filled(i) : Sound(results[i][j])

\* Results are stored when all of them are there.
StoredWhenDone == \A i \in stored : ChecksDone(i)

\* The answer is one of the early ones or the summary of all results.
EarlyAnswer(a) == (a.code = 200 /\ a.allowed = TRUE) \/ (a.code = 400 /\ a.allowed = FALSE)
Answered ==
    /\ phase = "handle" => inited = {}
    /\ phase # "done" => resp = NoResponse
    /\ phase = "done" => \/ inited = {} /\ EarlyAnswer(resp)
                         \/ stored = Checkers /\ resp = Summary(NamedResults)

PreflightInv == Shape /\ Looped /\ Judged /\ StoredWhenDone /\ Answered /\ faults \in 0 .. MaxFaults

LEMMA InitInv == Init => PreflightInv
<1> SUFFICES ASSUME Init PROVE PreflightInv
  OBVIOUS
<1>1. Shape
  BY DEF Init, Shape
<1>2. Looped
  BY EmptySound DEF Init, Looped
<1>3. Judged /\ StoredWhenDone /\ Answered
  BY DEF Init, Judged, Filled, StoredWhenDone, Answered
<1>4. faults \in 0 .. MaxFaults
  BY BoundsAreNat DEF Init
<1> QED BY <1>1, <1>2, <1>3, <1>4 DEF PreflightInv

\* One lemma per action.
LEMMA HandleInv == PreflightInv /\ Handle => PreflightInv'
<1> SUFFICES ASSUME PreflightInv, Handle PROVE PreflightInv'
  OBVIOUS
<1>1. UNCHANGED <<request, cutoff, checks, inited, next, running, results, stored, faults>>
  BY DEF Handle, Answer
<1>2. phase = "handle" /\ inited = {} /\ resp = NoResponse
  BY DEF Handle, PreflightInv, Answered
<1>3. \/ phase' = "done" /\ EarlyAnswer(resp')
      \/ phase' = "running" /\ resp' = resp
  <2>1. EarlyAnswer(Allowed) /\ EarlyAnswer(Errored(400))
        /\ EarlyAnswer([Allowed EXCEPT !.warnings = {"skippedAll"}])
    BY DEF EarlyAnswer, Allowed, Errored, NoResponse
  <2> QED BY <2>1 DEF Handle, Answer
<1>4. Shape'
  BY <1>1, <1>3 DEF PreflightInv, Shape
<1>5. Looped' /\ Judged' /\ StoredWhenDone'
  BY <1>1 DEF PreflightInv, Looped, Judged, Filled, StoredWhenDone, ChecksDone
<1>6. Answered'
  BY <1>1, <1>2, <1>3 DEF Answered
<1> QED BY <1>1, <1>4, <1>5, <1>6 DEF PreflightInv

LEMMA InitCheckerInv ==
    ASSUME PreflightInv, NEW i \in Checkers, InitChecker(i) PROVE PreflightInv'
<1>1. PICK bad \in BadSets :
        /\ Bad(bad, TRUE)
        /\ checks' = [checks EXCEPT ![i] = ChecksOf(i, bad)]
        /\ results' = [results EXCEPT ![i] = [j \in DOMAIN ChecksOf(i, bad) |-> Zero]]
  BY DEF InitChecker
<1>2. /\ phase = "running" /\ i \notin inited /\ inited' = inited \cup {i}
      /\ UNCHANGED <<request, phase, cutoff, next, running, stored, resp>>
  BY DEF InitChecker
<1> DEFINE s == ChecksOf(i, bad)
<1>3. SoundList(s) /\ Len(s) \in Nat /\ DOMAIN s = 1 .. Len(s)
  BY ChecksOfSound, ListFacts DEF PreflightInv, Shape, SoundList
<1>4. checks[i] = <<>> /\ next[i] = 1 /\ running[i] = {}
  BY <1>2 DEF PreflightInv, Shape, Looped
<1> HIDE DEF s
<1>5. Shape'
  BY <1>1, <1>2 DEF PreflightInv, Shape, s
<1>6. Looped'
  <2> SUFFICES ASSUME NEW k \in Checkers
               PROVE  /\ SoundList(checks'[k])
                      /\ k \notin inited' => checks'[k] = <<>>
                      /\ next'[k] <= Len(checks'[k]) + 1
                      /\ running'[k] \subseteq 1 .. next'[k] - 1
                      /\ cutoff'[k] <= next'[k]
    BY DEF Looped
  <2>1. CASE k = i
    <3>1. checks'[k] = s
      BY <1>1, <2>1 DEF PreflightInv, Shape, s
    <3> QED BY <1>2, <1>3, <1>4, <2>1, <3>1 DEF PreflightInv, Looped
  <2>2. CASE k # i
    BY <1>1, <1>2, <2>2 DEF PreflightInv, Shape, Looped
  <2> QED BY <2>1, <2>2
<1>7. Judged'
  <2> SUFFICES ASSUME NEW k \in Checkers, NEW j \in Filled(k)' PROVE Sound(results'[k][j])
    BY DEF Judged
  <2>1. k # i /\ j \in Filled(k)
    BY <1>2, <1>4 DEF Filled
  <2> QED BY <1>1, <2>1 DEF PreflightInv, Shape, Judged
<1>8. StoredWhenDone'
  <2> SUFFICES ASSUME NEW k \in stored PROVE ChecksDone(k)'
    BY <1>2 DEF StoredWhenDone
  <2>1. k # i /\ k \in Checkers /\ ChecksDone(k)
    BY <1>2 DEF PreflightInv, Shape, StoredWhenDone
  <2> QED BY <1>1, <1>2, <2>1 DEF ChecksDone, PreflightInv, Shape
<1>9. Answered'
  BY <1>2 DEF Answered, PreflightInv
<1>10. faults' \in 0 .. MaxFaults
  BY <1>1, FaultsBounded DEF PreflightInv
<1> QED BY <1>5, <1>6, <1>7, <1>8, <1>9, <1>10 DEF PreflightInv

\* Writing a slot leaves the shape of the results and the other slots alone.
LEMMA SlotWritten ==
    ASSUME results = [k \in Checkers |-> [n \in DOMAIN checks[k] |-> results[k][n]]],
           NEW i \in Checkers, NEW j \in DOMAIN checks[i], NEW v,
           results' = [results EXCEPT ![i][j] = v]
    PROVE  /\ results' = [k \in Checkers |-> [n \in DOMAIN checks[k] |-> results'[k][n]]]
           /\ results'[i][j] = v
           /\ \A k \in Checkers : \A n \in DOMAIN checks[k] :
                  ~(k = i /\ n = j) => results'[k][n] = results[k][n]
<1>1. results' = [results EXCEPT ![i] = [results[i] EXCEPT ![j] = v]]
  OBVIOUS
<1>2. results'[i] = [results[i] EXCEPT ![j] = v] /\ DOMAIN results' = Checkers
      /\ \A k \in Checkers : k # i => results'[k] = results[k]
  BY <1>1
<1>3. results[i] = [n \in DOMAIN checks[i] |-> results[i][n]]
  OBVIOUS
<1>4. results'[i] = [n \in DOMAIN checks[i] |-> IF n = j THEN v ELSE results[i][n]]
  BY <1>2, <1>3
<1>5. \A k \in Checkers : results'[k] = [n \in DOMAIN checks[k] |-> results'[k][n]]
  <2> TAKE k \in Checkers
  <2>1. CASE k = i
    <3>1. DOMAIN results'[i] = DOMAIN checks[i] /\ results'[i] = [n \in DOMAIN results'[i] |-> results'[i][n]]
      BY ONLY <1>4
    <3> QED BY ONLY <2>1, <3>1
  <2>2. CASE k # i
    <3>1. results[k] = [n \in DOMAIN checks[k] |-> results[k][n]]
      OBVIOUS
    <3>2. results'[k] = results[k]
      BY <1>2, <2>2
    <3> QED BY ONLY <3>1, <3>2
  <2> QED BY <2>1, <2>2
<1>6. results' = [k \in Checkers |-> results'[k]]
  BY <1>1
<1>7. results' = [k \in Checkers |-> [n \in DOMAIN checks[k] |-> results'[k][n]]]
  BY ONLY <1>5, <1>6
<1>8. results'[i][j] = v
  BY ONLY <1>4, j \in DOMAIN checks[i]
<1>9. \A k \in Checkers : \A n \in DOMAIN checks[k] :
         ~(k = i /\ n = j) => results'[k][n] = results[k][n]
  BY ONLY <1>2, <1>4
<1> QED BY <1>7, <1>8, <1>9

LEMMA ResultsShaped ==
    ASSUME PreflightInv
    PROVE  results = [k \in Checkers |-> [n \in DOMAIN checks[k] |-> results[k][n]]]
  BY DEF PreflightInv, Shape

LEMMA StartCheckInv ==
    ASSUME PreflightInv, NEW i \in Checkers, StartCheck(i) PROVE PreflightInv'
<1> DEFINE j == next[i]
           name == Name(checks[i][j])
<1>1. /\ phase = "running" /\ i \in inited /\ j <= Len(checks[i])
      /\ next' = [next EXCEPT ![i] = j + 1]
      /\ UNCHANGED <<request, phase, cutoff, checks, inited, stored, resp, faults>>
  BY DEF StartCheck
<1>2. \/ results' = [results EXCEPT ![i][j] = Skipped(name)] /\ UNCHANGED running
      \/ running' = [running EXCEPT ![i] = running[i] \cup {j}] /\ UNCHANGED results
  BY DEF StartCheck
<1>3. /\ Len(checks[i]) \in Nat /\ DOMAIN checks[i] = 1 .. Len(checks[i])
      /\ j \in Nat \ {0} /\ j \in DOMAIN checks[i] /\ j \notin running[i]
      /\ running[i] \subseteq 1 .. j - 1
  BY <1>1, ListFacts DEF PreflightInv, Shape, Looped, SoundList
<1> HIDE DEF j, name
<1>4. i \notin stored
  <2>1. ~(j > Len(checks[i]))
    BY <1>1, <1>3
  <2> QED BY <2>1 DEF PreflightInv, StoredWhenDone, ChecksDone, j
<1>5. Shape'
  <2>1. CASE results' = [results EXCEPT ![i][j] = Skipped(name)] /\ UNCHANGED running
    <3>1. results' = [k \in Checkers |-> [n \in DOMAIN checks'[k] |-> results'[k][n]]]
      BY <1>1, <1>3, <2>1, ResultsShaped, SlotWritten
    <3> QED BY <1>1, <1>3, <2>1, <3>1 DEF PreflightInv, Shape
  <2>2. CASE running' = [running EXCEPT ![i] = running[i] \cup {j}] /\ UNCHANGED results
    BY <1>1, <1>3, <2>2 DEF PreflightInv, Shape
  <2> QED BY <1>2, <2>1, <2>2
<1>6. next'[i] = j + 1 /\ \A k \in Checkers : k # i => next'[k] = next[k] /\ running'[k] = running[k]
  BY <1>1, <1>2 DEF PreflightInv, Shape
<1>7. running'[i] = running[i] \/ running'[i] = running[i] \cup {j}
  BY <1>2 DEF PreflightInv, Shape
<1>8. Looped'
  BY <1>1, <1>3, <1>6, <1>7 DEF PreflightInv, Shape, Looped, j
<1>9. Judged'
  <2> SUFFICES ASSUME NEW k \in Checkers, NEW n \in Filled(k)' PROVE Sound(results'[k][n])
    BY DEF Judged
  <2>0. n \in DOMAIN checks[k]
    <3>1. next'[k] \in Nat /\ next'[k] <= Len(checks'[k]) + 1 /\ n \in 1 .. next'[k] - 1
      BY <1>5, <1>8 DEF Shape, Looped, Filled
    <3>2. Len(checks[k]) \in Nat /\ DOMAIN checks[k] = 1 .. Len(checks[k])
      BY ListFacts DEF PreflightInv, Looped, SoundList
    <3> QED BY <1>1, <3>1, <3>2
  <2>1. CASE k = i /\ n = j
    <3>1. results' = [results EXCEPT ![i][j] = Skipped(name)]
      <4>1. j \notin running'[i]
        BY <2>1 DEF Filled
      <4>2. ASSUME running' = [running EXCEPT ![i] = running[i] \cup {j}] PROVE FALSE
        <5>1. running'[i] = running[i] \cup {j}
          BY <4>2 DEF PreflightInv, Shape
        <5> QED BY <4>1, <5>1
      <4> QED BY <1>2, <4>2
    <3>2. results'[i][j] = Skipped(name)
      BY <1>3, <3>1 DEF PreflightInv, Shape
    <3> QED BY <2>1, <3>2, WarnSound DEF Skipped
  <2>2. CASE ~(k = i /\ n = j)
    <3>1. n \in Filled(k)
      BY <1>3, <1>6, <1>7, <2>2 DEF Filled, j
    <3>2. results'[k][n] = results[k][n]
      <4>1. CASE UNCHANGED results
        BY <4>1
      <4>2. CASE results' = [results EXCEPT ![i][j] = Skipped(name)]
        <5>1. \A m \in Checkers : \A l \in DOMAIN checks[m] :
                 ~(m = i /\ l = j) => results'[m][l] = results[m][l]
          BY <1>3, <4>2, ResultsShaped, SlotWritten
        <5> QED BY <2>0, <2>2, <5>1
      <4> QED BY <1>2, <4>1, <4>2
    <3> QED BY <3>1, <3>2 DEF PreflightInv, Judged
  <2> QED BY <2>1, <2>2
<1>10. StoredWhenDone'
  <2> SUFFICES ASSUME NEW k \in stored PROVE ChecksDone(k)'
    BY <1>1 DEF StoredWhenDone
  <2>1. k # i /\ k \in Checkers /\ ChecksDone(k)
    BY <1>4 DEF PreflightInv, Shape, StoredWhenDone
  <2> QED BY <1>1, <1>6, <2>1 DEF ChecksDone
<1>11. Answered'
  BY <1>1 DEF Answered, PreflightInv
<1> QED BY <1>1, <1>5, <1>8, <1>9, <1>10, <1>11 DEF PreflightInv

\* The result of a check's goroutine, panicking or not.
LEMMA RecoveredSound == ASSUME NEW res, Sound(res) PROVE Sound(Recovered(res))
  BY FailInternalSound DEF Recovered

LEMMA RunCheckInv ==
    ASSUME PreflightInv, NEW i \in Checkers, NEW j \in running[i], RunCheck(i, j) PROVE PreflightInv'
<1>1. PICK bad \in BadSets :
        /\ Bad(bad, j < cutoff[i])
        /\ results' = [results EXCEPT ![i][j] = Recovered(Run(req, checks[i][j], bad))]
  BY DEF RunCheck
<1>2. /\ phase = "running"
      /\ running' = [running EXCEPT ![i] = running[i] \ {j}]
      /\ UNCHANGED <<request, phase, cutoff, checks, inited, next, stored, resp>>
  BY DEF RunCheck
<1>3. /\ Len(checks[i]) \in Nat /\ DOMAIN checks[i] = 1 .. Len(checks[i])
      /\ j \in DOMAIN checks[i] /\ j \in 1 .. next[i] - 1
  BY ListFacts DEF PreflightInv, Shape, Looped, SoundList
<1>4. i \notin stored
  BY DEF PreflightInv, StoredWhenDone, ChecksDone
<1>5. Sound(Recovered(Run(req, checks[i][j], bad)))
  <2>1. checks[i][j] \in Range(checks[i])
    BY <1>3 DEF Range
  <2>2. Sound(checks[i][j].result)
    BY <2>1 DEF PreflightInv, Looped, SoundList
  <2> QED BY <2>2, RunSound, RecoveredSound
<1>6. Shape'
  BY <1>1, <1>2 DEF PreflightInv, Shape
<1>7. running'[i] = running[i] \ {j} /\ \A k \in Checkers : k # i => running'[k] = running[k]
  BY <1>2 DEF PreflightInv, Shape
<1>8. Looped'
  BY <1>2, <1>7 DEF PreflightInv, Looped
<1>9. Judged'
  <2> SUFFICES ASSUME NEW k \in Checkers, NEW n \in Filled(k)' PROVE Sound(results'[k][n])
    BY DEF Judged
  <2>1. CASE k = i /\ n = j
    BY <1>1, <1>3, <1>5, <2>1 DEF PreflightInv, Shape
  <2>2. CASE ~(k = i /\ n = j)
    <3>1. n \in Filled(k)
      BY <1>2, <1>7, <2>2 DEF Filled
    <3>2. n \in DOMAIN checks[k]
      <4>1. n \in 1 .. next[k] - 1 /\ next[k] \in Nat /\ next[k] <= Len(checks[k]) + 1
        BY <3>1 DEF Filled, PreflightInv, Shape, Looped
      <4>2. Len(checks[k]) \in Nat /\ DOMAIN checks[k] = 1 .. Len(checks[k])
        BY ListFacts DEF PreflightInv, Looped, SoundList
      <4> QED BY <4>1, <4>2
    <3>3. \A m \in Checkers : \A l \in DOMAIN checks[m] :
             ~(m = i /\ l = j) => results'[m][l] = results[m][l]
      BY <1>1, <1>3, ResultsShaped, SlotWritten
    <3>4. results'[k][n] = results[k][n]
      BY <2>2, <3>2, <3>3
    <3> QED BY <3>1, <3>4 DEF PreflightInv, Judged
  <2> QED BY <2>1, <2>2
<1>10. StoredWhenDone'
  <2> SUFFICES ASSUME NEW k \in stored PROVE ChecksDone(k)'
    BY <1>2 DEF StoredWhenDone
  <2>1. k # i /\ k \in Checkers /\ ChecksDone(k)
    BY <1>4 DEF PreflightInv, Shape, StoredWhenDone
  <2> QED BY <1>2, <1>7, <2>1 DEF ChecksDone
<1>11. Answered'
  BY <1>2 DEF Answered, PreflightInv
<1>12. faults' \in 0 .. MaxFaults
  BY <1>1, FaultsBounded DEF PreflightInv
<1> QED BY <1>6, <1>8, <1>9, <1>10, <1>11, <1>12 DEF PreflightInv

LEMMA OtherStepsInv ==
    ASSUME PreflightInv,
           (\E i \in Checkers : StoreResults(i)) \/ Respond \/ Expire \/ UNCHANGED vars
    PROVE  PreflightInv'
<1> USE DEF PreflightInv
<1>1. ASSUME NEW i \in Checkers, StoreResults(i) PROVE PreflightInv'
  <2>1. /\ phase = "running" /\ ChecksDone(i) /\ stored' = stored \cup {i}
        /\ UNCHANGED <<request, phase, cutoff, checks, inited, next, running, results, resp, faults>>
    BY <1>1 DEF StoreResults
  <2>2. stored' \subseteq inited
    BY <2>1 DEF Shape, ChecksDone
  <2>3. Shape'
    BY <2>1, <2>2 DEF Shape
  <2>4. Looped' /\ Judged'
    BY <2>1 DEF Looped, Judged, Filled
  <2>5. ASSUME NEW k \in stored' PROVE ChecksDone(k)'
    <3>1. ChecksDone(k)
      BY <2>1, <2>5 DEF StoredWhenDone
    <3> QED BY <2>1, <3>1 DEF ChecksDone
  <2>6. StoredWhenDone'
    BY <2>5 DEF StoredWhenDone
  <2>7. Answered'
    BY <2>1 DEF Answered
  <2> QED BY <2>1, <2>3, <2>4, <2>6, <2>7
<1>2. CASE Respond
  <2>1. /\ phase = "running" /\ stored = Checkers /\ phase' = "done" /\ resp' = Summary(NamedResults)
        /\ UNCHANGED <<request, cutoff, checks, inited, next, running, results, stored, faults>>
    BY <1>2 DEF Respond, Answer
  <2>2. NamedResults' = NamedResults
    BY <2>1 DEF NamedResults
  <2>3. Summary(NamedResults') = Summary(NamedResults)
    BY <2>2
  <2>4. Shape' /\ Looped' /\ Judged' /\ StoredWhenDone'
    BY <2>1 DEF Shape, Looped, Judged, Filled, StoredWhenDone, ChecksDone
  <2>5. Answered'
    BY <2>1, <2>3 DEF Answered
  <2> QED BY <2>1, <2>4, <2>5
<1>3. CASE Expire
  <2>1. /\ phase = "running" /\ cutoff' = next
        /\ UNCHANGED <<request, phase, checks, inited, next, running, results, stored, resp, faults>>
    BY <1>3 DEF Expire
  <2>2. Shape'
    BY <2>1 DEF Shape
  <2>3. Looped'
    BY <2>1 DEF Looped, Shape
  <2>4. Judged' /\ StoredWhenDone' /\ Answered'
    BY <2>1 DEF Judged, Filled, StoredWhenDone, ChecksDone, Answered
  <2> QED BY <2>1, <2>2, <2>3, <2>4
<1>4. CASE UNCHANGED vars
  <2>1. UNCHANGED <<request, phase, cutoff, checks, inited, next, running, results, stored, resp, faults>>
    BY <1>4 DEF vars
  <2>2. NamedResults' = NamedResults
    BY <2>1 DEF NamedResults
  <2>3. Summary(NamedResults') = Summary(NamedResults)
    BY <2>2
  <2>4. Shape' /\ Looped' /\ Judged' /\ StoredWhenDone' /\ Answered'
    BY <2>1, <2>3 DEF Shape, Looped, Judged, Filled, StoredWhenDone, ChecksDone, Answered
  <2> QED BY <2>1, <2>4
<1> QED BY <1>1, <1>2, <1>3, <1>4

LEMMA Inductive == PreflightInv /\ [Next]_vars => PreflightInv'
<1> SUFFICES ASSUME PreflightInv, [Next]_vars PROVE PreflightInv'
  OBVIOUS
<1>1. ASSUME NEW i \in Checkers, Checker(i) PROVE PreflightInv'
  BY <1>1, InitCheckerInv, StartCheckInv, RunCheckInv, OtherStepsInv DEF Checker
<1> QED BY <1>1, HandleInv, OtherStepsInv DEF Next, Done

------------------------------------------------------------------------------
(* The theorems *)

\* Handle and the goroutines of preflight.run keep the invariant, for any
\* requests and any bounds.
THEOREM Invariant == Spec => []PreflightInv
<1> QED BY InitInv, Inductive, PTL DEF Spec

\* What Handle summarises: no slot is left with its zero value.
LEMMA ResultsJudged ==
    ASSUME PreflightInv, stored = Checkers
    PROVE  \A x \in NamedResults : Sound(x.result)
<1> SUFFICES ASSUME NEW x \in NamedResults PROVE Sound(x.result)
  OBVIOUS
<1>0. PICK i \in Checkers : \E j \in DOMAIN checks[i] :
        x = [name |-> Name(checks[i][j]), slot |-> <<i, j>>, result |-> results[i][j]]
  BY DEF NamedResults
<1>1. PICK j \in DOMAIN checks[i] : x.result = results[i][j]
  BY <1>0
<1>2. next[i] > Len(checks[i]) /\ running[i] = {}
  BY DEF PreflightInv, StoredWhenDone, ChecksDone
<1>3. Len(checks[i]) \in Nat /\ DOMAIN checks[i] = 1 .. Len(checks[i])
  BY ListFacts DEF PreflightInv, Looped, SoundList
<1>4. next[i] \in Nat
  BY DEF PreflightInv, Shape
<1>5. j \in Filled(i)
  BY <1>2, <1>3, <1>4 DEF Filled
<1> QED BY <1>1, <1>5 DEF PreflightInv, Judged

LEMMA NothingBeforeInit ==
    ASSUME PreflightInv, inited = {}, NEW i \in Checkers
    PROVE  DOMAIN results[i] = {}
<1>1. checks[i] = <<>>
  BY DEF PreflightInv, Looped
<1> QED BY <1>1 DEF PreflightInv, Shape

\* No slot outside the list of checks, no goroutine of a check that the loop of
\* preflight.run has not reached, one of five status codes.
THEOREM TypeCorrect == Spec => []TypeOK
<1>1. PreflightInv => TypeOK
  <2> SUFFICES ASSUME PreflightInv PROVE TypeOK
    OBVIOUS
  <2>1. /\ request \in DOMAIN Request /\ phase \in {"handle", "running", "done"}
        /\ inited \subseteq Checkers /\ stored \subseteq inited /\ faults \in 0 .. MaxFaults
    BY DEF PreflightInv, Shape
  <2>2. ASSUME NEW i \in Checkers
        PROVE  /\ DOMAIN results[i] = DOMAIN checks[i]
               /\ next[i] \in 1 .. Len(checks[i]) + 1
               /\ running[i] \subseteq 1 .. next[i] - 1
               /\ cutoff[i] \in 0 .. next[i]
    <3>1. Len(checks[i]) \in Nat
      BY ListFacts DEF PreflightInv, Looped, SoundList
    <3>2. DOMAIN results[i] = DOMAIN checks[i]
      BY DEF PreflightInv, Shape
    <3>3. next[i] \in Nat \ {0} /\ cutoff[i] \in Nat
      BY DEF PreflightInv, Shape
    <3> QED BY <3>1, <3>2, <3>3 DEF PreflightInv, Looped
  <2>3. resp.code \in {0, 200, 400, 422, 500}
    <3>1. CASE resp = NoResponse
      BY <3>1 DEF NoResponse
    <3>2. CASE EarlyAnswer(resp)
      BY <3>2 DEF EarlyAnswer
    <3>3. CASE resp = Summary(NamedResults)
      BY <3>3 DEF Summary
    <3> QED BY <3>1, <3>2, <3>3 DEF PreflightInv, Answered
  <2> QED BY <2>1, <2>2, <2>3 DEF TypeOK
<1> QED BY <1>1, Invariant, PTL

------------------------------------------------------------------------------
(* The order of the checks *)

InTime == faults = 0 /\ ~Expired /\ req.hung = {}

\* What the check says, whatever runs beside it.
Verdict(c) == IF For(req, Name(c)) THEN Skipped(Name(c)) ELSE Recovered(Run(req, c, {}))

\* While nothing has failed, every list of checks and every slot that was
\* written is what a sequential evaluation gives, and no skipped check runs.
Undisturbed ==
    InTime => \A i \in inited :
                  /\ checks[i] = ChecksOf(i, {})
                  /\ \A j \in running[i] : ~For(req, Name(checks[i][j]))
                  /\ \A j \in Filled(i) : results[i][j] = Verdict(checks[i][j])

\* The request stays what it is.
LEMMA ReqKept == ASSUME request' = request
                 PROVE  /\ req' = req
                        /\ \A i \in Checkers : ChecksOf(i, {})' = ChecksOf(i, {})
                        /\ \A c : Verdict(c)' = Verdict(c)
<1>1. req' = req
  BY DEF req, Table
<1> QED BY <1>1 DEF ChecksOf, Verdict

\* Failures are never taken back.
LEMMA StaysInTime ==
    ASSUME PreflightInv, [Next]_vars, InTime'
    PROVE  InTime /\ request' = request
<1>1. request' = request
  BY DEF Next, Checker, InitChecker, StartCheck, RunCheck, StoreResults, Respond, Expire, Handle,
         Answer, Done, vars
<1>2. req' = req /\ faults \in 0 .. MaxFaults /\ faults' = 0 /\ ~Expired' /\ req.hung = {}
  BY <1>1, ReqKept DEF InTime, PreflightInv
<1>3. ASSUME UNCHANGED <<cutoff, faults>> PROVE InTime
  BY <1>2, <1>3 DEF InTime, Expired
<1>4. ASSUME NEW bad, NEW started, Bad(bad, started), UNCHANGED cutoff PROVE InTime
  <2>1. faults' >= faults
    BY <1>2, <1>4, FaultsBounded
  <2>2. faults = 0
    BY <1>2, <2>1, BoundsAreNat
  <2> QED BY <1>2, <1>4, <2>2 DEF InTime, Expired
<1>5. ASSUME NEW i \in Checkers, Checker(i) PROVE InTime
  <2>1. CASE InitChecker(i)
    BY <2>1, <1>4 DEF InitChecker
  <2>2. CASE \E j \in running[i] : RunCheck(i, j)
    BY <2>2, <1>4 DEF RunCheck
  <2>3. CASE StartCheck(i) \/ StoreResults(i)
    BY <2>3, <1>3 DEF StartCheck, StoreResults
  <2> QED BY <1>5, <2>1, <2>2, <2>3 DEF Checker
<1>6. ASSUME Handle \/ Respond \/ Done \/ UNCHANGED vars PROVE InTime
  <2>1. UNCHANGED <<cutoff, faults>>
    BY <1>6 DEF Handle, Answer, Respond, Done, vars
  <2> QED BY <2>1, <1>3
<1>7. ASSUME Expire PROVE FALSE
  BY <1>2, <1>7 DEF Expire
<1>8. InTime
  BY <1>5, <1>6, <1>7 DEF Next
<1> QED BY <1>1, <1>8

\* No step takes another result from a check than running it alone would.
LEMMA UndisturbedKept == PreflightInv /\ Undisturbed /\ [Next]_vars => Undisturbed'
<1> SUFFICES ASSUME PreflightInv, Undisturbed, [Next]_vars, InTime', NEW k \in inited'
             PROVE  /\ checks'[k] = ChecksOf(k, {})'
                    /\ \A n \in running'[k] : ~For(req', Name(checks'[k][n]))
                    /\ \A n \in Filled(k)' : results'[k][n] = Verdict(checks[k][n])'
  BY DEF Undisturbed
<1> DEFINE Goal == /\ checks'[k] = ChecksOf(k, {})
                   /\ \A n \in running'[k] : ~For(req, Name(checks'[k][n]))
                   /\ \A n \in Filled(k)' : results'[k][n] = Verdict(checks'[k][n])
<1>1. InTime /\ request' = request
  BY StaysInTime
<1>2. PreflightInv'
  BY Inductive
<1>3. k \in Checkers
  BY <1>2 DEF PreflightInv, Shape
<1>4. SUFFICES Goal
  <2>1. req' = req /\ ChecksOf(k, {})' = ChecksOf(k, {})
    BY <1>1, <1>3, ReqKept
  <2>2. ASSUME NEW n PROVE Verdict(checks[k][n])' = Verdict(checks'[k][n])
    BY <2>1 DEF Verdict
  <2> QED BY <2>1, <2>2
<1>5. k \in inited => /\ checks[k] = ChecksOf(k, {})
                      /\ \A n \in running[k] : ~For(req, Name(checks[k][n]))
                      /\ \A n \in Filled(k) : results[k][n] = Verdict(checks[k][n])
  BY <1>1 DEF Undisturbed
<1>6. ASSUME k \in inited, checks'[k] = checks[k], results'[k] = results[k], next'[k] = next[k],
             running'[k] = running[k]
      PROVE  Goal
  <2>1. Filled(k)' = Filled(k)
    BY <1>6 DEF Filled
  <2> QED BY <1>5, <1>6, <2>1
<1>7. ASSUME NEW i \in Checkers, InitChecker(i) PROVE Goal
  <2>1. PICK bad \in BadSets :
          /\ Bad(bad, TRUE)
          /\ checks' = [checks EXCEPT ![i] = ChecksOf(i, bad)]
          /\ results' = [results EXCEPT ![i] = [j \in DOMAIN ChecksOf(i, bad) |-> Zero]]
    BY <1>7 DEF InitChecker
  <2>2. i \notin inited /\ inited' = inited \cup {i} /\ UNCHANGED <<next, running>>
    BY <1>7 DEF InitChecker
  <2>3. bad = {}
    BY <1>1, <2>1, NoFault DEF InTime
  <2>4. CASE k = i
    <3>1. checks'[k] = ChecksOf(k, {})
      BY <2>1, <2>3, <2>4 DEF PreflightInv, Shape
    <3>2. running'[k] = {} /\ next'[k] = 1
      <4>1. checks[k] = <<>> /\ next[k] \in Nat \ {0} /\ next[k] <= Len(checks[k]) + 1
            /\ running[k] \subseteq 1 .. next[k] - 1
        BY <1>3, <2>2, <2>4 DEF PreflightInv, Shape, Looped
      <4> QED BY <2>2, <4>1
    <3>3. Filled(k)' = {}
      BY <3>2 DEF Filled
    <3> QED BY <3>1, <3>2, <3>3
  <2>5. CASE k # i
    BY <1>3, <1>6, <2>1, <2>2, <2>5 DEF PreflightInv, Shape
  <2> QED BY <2>4, <2>5
<1>8. ASSUME NEW i \in Checkers, StartCheck(i) PROVE Goal
  <2> DEFINE j == next[i]
             name == Name(checks[i][j])
  <2>1. /\ i \in inited /\ j <= Len(checks[i]) /\ next' = [next EXCEPT ![i] = j + 1]
        /\ UNCHANGED <<checks, inited>>
    BY <1>8 DEF StartCheck
  <2>2. \/ /\ For(req, name) /\ UNCHANGED running
           /\ results' = [results EXCEPT ![i][j] = Skipped(name)]
        \/ /\ ~For(req, name) /\ UNCHANGED results
           /\ running' = [running EXCEPT ![i] = running[i] \cup {j}]
    BY <1>8 DEF StartCheck
  <2>3. /\ Len(checks[i]) \in Nat /\ DOMAIN checks[i] = 1 .. Len(checks[i])
        /\ j \in Nat \ {0} /\ j \in DOMAIN checks[i]
    BY <2>1, ListFacts DEF PreflightInv, Shape, Looped, SoundList
  <2> HIDE DEF j, name
  <2>4. CASE k # i
    <3>1. results'[k] = results[k] /\ running'[k] = running[k] /\ next'[k] = next[k]
      BY <1>3, <2>1, <2>2, <2>4 DEF PreflightInv, Shape
    <3> QED BY <1>6, <2>1, <2>4, <3>1
  <2>5. CASE k = i
    <3>1. checks'[i] = checks[i] /\ next'[i] = j + 1 /\ checks[i] = ChecksOf(i, {})
      BY <1>5, <2>1, <2>5 DEF PreflightInv, Shape
    <3>2. \A n \in running'[i] : ~For(req, Name(checks[i][n]))
      <4>1. CASE UNCHANGED running
        BY <1>5, <2>5, <2>1, <4>1
      <4>2. CASE ~For(req, name) /\ running' = [running EXCEPT ![i] = running[i] \cup {j}]
        <5>1. running'[i] = running[i] \cup {j}
          BY <4>2 DEF PreflightInv, Shape
        <5> QED BY <1>5, <2>1, <2>5, <4>2, <5>1 DEF name
      <4> QED BY <2>2, <4>1, <4>2
    <3>3. ASSUME NEW n \in Filled(i)' PROVE results'[i][n] = Verdict(checks[i][n])
      <4>0. n \in DOMAIN checks[i]
        <5>1. n \in 1 .. j
          BY <2>3, <3>1 DEF Filled
        <5> QED BY <2>1, <2>3, <5>1
      <4>1. CASE n = j
        <5>1. For(req, name) /\ results' = [results EXCEPT ![i][j] = Skipped(name)]
          <6>1. j \notin running'[i]
            BY <4>1 DEF Filled
          <6>2. ASSUME running' = [running EXCEPT ![i] = running[i] \cup {j}] PROVE FALSE
            <7>1. running'[i] = running[i] \cup {j}
              BY <6>2 DEF PreflightInv, Shape
            <7> QED BY <6>1, <7>1
          <6> QED BY <2>2, <6>2
        <5>2. results'[i][j] = Skipped(name)
          BY <2>3, <5>1, ResultsShaped, SlotWritten
        <5> QED BY <4>1, <5>1, <5>2 DEF Verdict, name
      <4>2. CASE n # j
        <5>1. running'[i] = running[i] \/ running'[i] = running[i] \cup {j}
          BY <2>2 DEF PreflightInv, Shape
        <5>2. n \in Filled(i)
          BY <2>3, <3>1, <4>2, <5>1 DEF Filled, j
        <5>3. results'[i][n] = results[i][n]
          <6>1. CASE UNCHANGED results
            BY <6>1
          <6>2. CASE results' = [results EXCEPT ![i][j] = Skipped(name)]
            <7>1. \A m \in Checkers : \A l \in DOMAIN checks[m] :
                     ~(m = i /\ l = j) => results'[m][l] = results[m][l]
              BY <2>3, <6>2, ResultsShaped, SlotWritten
            <7> QED BY <4>0, <4>2, <7>1
          <6> QED BY <2>2, <6>1, <6>2
        <5> QED BY <1>5, <2>1, <2>5, <5>2, <5>3
      <4> QED BY <4>1, <4>2
    <3> QED BY <2>5, <3>1, <3>2, <3>3
  <2> QED BY <2>4, <2>5
<1>9. ASSUME NEW i \in Checkers, NEW j \in running[i], RunCheck(i, j) PROVE Goal
  <2>1. PICK bad \in BadSets :
          /\ Bad(bad, j < cutoff[i])
          /\ results' = [results EXCEPT ![i][j] = Recovered(Run(req, checks[i][j], bad))]
    BY <1>9 DEF RunCheck
  <2>2. running' = [running EXCEPT ![i] = running[i] \ {j}] /\ UNCHANGED <<checks, inited, next>>
    BY <1>9 DEF RunCheck
  <2>3. bad = {}
    BY <1>1, <2>1, NoFault DEF InTime
  <2>4. /\ Len(checks[i]) \in Nat /\ DOMAIN checks[i] = 1 .. Len(checks[i])
        /\ j \in DOMAIN checks[i]
    BY <1>9, ListFacts DEF PreflightInv, Shape, Looped, SoundList
  <2>5. CASE k # i
    <3>1. results'[k] = results[k] /\ running'[k] = running[k]
      BY <1>3, <2>1, <2>2, <2>5 DEF PreflightInv, Shape
    <3> QED BY <1>6, <2>2, <2>5, <3>1
  <2>6. CASE k = i
    <3>1. running'[i] = running[i] \ {j}
      BY <2>2 DEF PreflightInv, Shape
    <3>2. ~For(req, Name(checks[i][j]))
      BY <1>5, <1>9, <2>2, <2>6
    <3>3. ASSUME NEW n \in Filled(i)' PROVE results'[i][n] = Verdict(checks[i][n])
      <4>1. CASE n = j
        <5>1. results'[i][j] = Recovered(Run(req, checks[i][j], {}))
          BY <2>1, <2>3, <2>4, ResultsShaped, SlotWritten
        <5> QED BY <3>2, <4>1, <5>1 DEF Verdict
      <4>2. CASE n # j
        <5>1. n \in Filled(i)
          BY <2>2, <3>1, <4>2 DEF Filled
        <5>2. n \in DOMAIN checks[i]
          <6>1. n \in 1 .. next[i] - 1 /\ next[i] \in Nat /\ next[i] <= Len(checks[i]) + 1
            BY <5>1 DEF Filled, PreflightInv, Shape, Looped
          <6> QED BY <2>4, <6>1
        <5>3. results'[i][n] = results[i][n]
          <6>1. \A m \in Checkers : \A l \in DOMAIN checks[m] :
                   ~(m = i /\ l = j) => results'[m][l] = results[m][l]
            BY <2>1, <2>4, ResultsShaped, SlotWritten
          <6> QED BY <4>2, <5>2, <6>1
        <5> QED BY <1>5, <2>2, <2>6, <5>1, <5>3
      <4> QED BY <4>1, <4>2
    <3> QED BY <1>5, <2>2, <2>6, <3>1, <3>3
  <2> QED BY <2>5, <2>6
<1>10. ASSUME UNCHANGED <<checks, inited, next, running, results>> PROVE Goal
  BY <1>6, <1>10
<1>11. CASE \/ Handle \/ Respond \/ Expire \/ Done \/ UNCHANGED vars
            \/ \E i \in Checkers : StoreResults(i)
  <2>1. UNCHANGED <<checks, inited, next, running, results>>
    BY <1>11 DEF Handle, Answer, Respond, Expire, Done, vars, StoreResults
  <2> QED BY <2>1, <1>10
<1> HIDE DEF Goal
<1> QED BY <1>7, <1>8, <1>9, <1>11 DEF Next, Checker

\* The summary looks at the names and the results alone.
LEMMA SummaryOfSame ==
    ASSUME NEW A, NEW B,
           \A x \in A : \E y \in B : x.name = y.name /\ x.result = y.result,
           \A y \in B : \E x \in A : x.name = y.name /\ x.result = y.result
    PROVE  Summary(A) = Summary(B)
<1>1. {x.result : x \in A} = {y.result : y \in B}
  OBVIOUS
<1>2. UNION {{<<x.name, c>> : c \in x.result.causes} : x \in A}
      = UNION {{<<y.name, c>> : c \in y.result.causes} : y \in B}
  <2>1. \A x \in A : \E y \in B : {<<x.name, c>> : c \in x.result.causes}
                                  = {<<y.name, c>> : c \in y.result.causes}
    OBVIOUS
  <2>2. \A y \in B : \E x \in A : {<<x.name, c>> : c \in x.result.causes}
                                  = {<<y.name, c>> : c \in y.result.causes}
    OBVIOUS
  <2> QED BY ONLY <2>1, <2>2
<1> DEFINE t(S) == Together(S)
           causes(S) == UNION {{<<x.name, c>> : c \in x.result.causes} : x \in S}
<1>3. t({x.result : x \in A}) = t({x.result : x \in B}) /\ causes(A) = causes(B)
  BY <1>1, <1>2
<1> DEFINE answer(u, cs) ==
             [allowed |-> u.allowed, code |-> IF u.internal THEN 500 ELSE IF u.allowed THEN 200 ELSE 422,
              causes |-> cs, warnings |-> u.warnings]
<1>4. /\ Summary(A) = answer(t({x.result : x \in A}), causes(A))
      /\ Summary(B) = answer(t({x.result : x \in B}), causes(B))
  BY Zenon DEF Summary
<1> HIDE DEF t, causes, answer
<1> QED BY <1>3, <1>4

\* The interleaving of the goroutines of preflight.run does not show: when no
\* call failed or hung, its response is the one of a sequential evaluation.
THEOREM OrderIrrelevant == Spec => []OrderDoesNotMatter
<1>1. Init => Undisturbed
  BY DEF Init, Undisturbed
<1>2. PreflightInv /\ Undisturbed => OrderDoesNotMatter
  <2> SUFFICES ASSUME PreflightInv, Undisturbed, phase = "done", inited = Checkers, InTime
               PROVE  resp = Sequential
    BY DEF OrderDoesNotMatter, InTime
  <2> DEFINE seq == UNION {{[name |-> Name(c), slot |-> 0, result |-> Verdict(c)]
                              : c \in Range(ChecksOf(i, {}))} : i \in Checkers}
  <2>1. stored = Checkers /\ resp = Summary(NamedResults)
    BY DEF PreflightInv, Answered, Checkers
  <2>2. ASSUME NEW i \in Checkers, NEW j \in DOMAIN checks[i]
        PROVE  results[i][j] = Verdict(checks[i][j]) /\ checks[i] = ChecksOf(i, {})
    <3>1. next[i] > Len(checks[i]) /\ running[i] = {}
      BY <2>1 DEF PreflightInv, StoredWhenDone, ChecksDone
    <3>2. Len(checks[i]) \in Nat /\ DOMAIN checks[i] = 1 .. Len(checks[i])
      BY ListFacts DEF PreflightInv, Looped, SoundList
    <3>3. next[i] \in Nat
      BY DEF PreflightInv, Shape
    <3>4. j \in Filled(i)
      BY <3>1, <3>2, <3>3 DEF Filled
    <3> QED BY <3>4 DEF Undisturbed
  <2>3. ASSUME NEW x \in NamedResults
        PROVE  \E y \in seq : x.name = y.name /\ x.result = y.result
    <3>1. PICK i \in Checkers : \E j \in DOMAIN checks[i] :
            x = [name |-> Name(checks[i][j]), slot |-> <<i, j>>, result |-> results[i][j]]
      BY DEF NamedResults
    <3>2. PICK j \in DOMAIN checks[i] :
            x.name = Name(checks[i][j]) /\ x.result = results[i][j]
      BY <3>1
    <3> DEFINE c == checks[i][j]
               y == [name |-> Name(c), slot |-> 0, result |-> Verdict(c)]
    <3>3. c \in Range(ChecksOf(i, {})) /\ x.result = Verdict(c)
      BY <2>2, <3>2 DEF Range
    <3>4. y \in seq
      BY <3>3
    <3> QED BY <3>2, <3>3, <3>4
  <2>4. ASSUME NEW y \in seq
        PROVE  \E x \in NamedResults : x.name = y.name /\ x.result = y.result
    <3>1. PICK i \in Checkers : \E c \in Range(ChecksOf(i, {})) :
            y = [name |-> Name(c), slot |-> 0, result |-> Verdict(c)]
      OBVIOUS
    <3>2. PICK c \in Range(ChecksOf(i, {})) : y.name = Name(c) /\ y.result = Verdict(c)
      BY <3>1
    <3>3. checks[i] = ChecksOf(i, {})
      BY DEF Undisturbed
    <3>4. PICK j \in DOMAIN checks[i] : checks[i][j] = c
      BY <3>2, <3>3 DEF Range
    <3>5. [name |-> Name(checks[i][j]), slot |-> <<i, j>>, result |-> results[i][j]] \in NamedResults
      BY <3>4 DEF NamedResults
    <3> QED BY <2>2, <3>2, <3>4, <3>5
  <2> HIDE DEF seq
  <2>5. Summary(NamedResults) = Summary(seq)
    BY <2>3, <2>4, SummaryOfSame
  <2> QED BY <2>1, <2>5 DEF Sequential, seq, Verdict
<1>3. PreflightInv /\ Undisturbed /\ [Next]_vars => PreflightInv' /\ Undisturbed'
  BY Inductive, UndisturbedKept
<1> QED BY InitInv, <1>1, <1>2, <1>3, PTL DEF Spec

------------------------------------------------------------------------------
(* What an admitted Cluster satisfies *)

\* SetToSeq leaves no element out.
LEMMA SetToSeqAll ==
    ASSUME NEW S, IsFiniteSet(S)
    PROVE  Range(SetToSeq(S)) = S
<1> DEFINE n == Cardinality(S)
           f == SetToSeq(S)
<1>1. n \in Nat /\ ExistsBijection(1 .. n, S)
  BY FS_CardinalityType
<1>2. f \in [1 .. n -> S] /\ IsInjective(f)
  <2>1. \E g \in [1 .. n -> S] : IsInjective(g)
    BY <1>1 DEF ExistsBijection, Bijection, Injection, IsInjective
  <2> QED BY <2>1 DEF SetToSeq
<1>3. IsFiniteSet(1 .. n) /\ Cardinality(1 .. n) = n
  BY <1>1, FS_Interval
<1> HIDE DEF f
<1>4. f \in Injection(1 .. n, S)
  BY <1>2 DEF Injection
<1>5. f \in Surjection(1 .. n, S)
  BY <1>3, <1>4, FS_Injection
<1> QED BY <1>2, <1>5 DEF Surjection, Range, f

\* FlattenSeq leaves no element of its lists out.
LEMMA FlattenAll ==
    ASSUME NEW ss, IsList(ss), \A i \in 1 .. Len(ss) : IsList(ss[i]),
           NEW m \in 1 .. Len(ss)
    PROVE  Range(ss[m]) \subseteq Range(FlattenSeq(ss))
<1> DEFINE n == Len(ss)
           f == CHOOSE f : Concats(ss, n, f)
<1>1. n \in Nat /\ n > 0
  BY ListFacts
<1>2. Concats(ss, n, f)
  BY <1>1, ConcatsExist
<1>3. FlattenSeq(ss) = f[n]
  BY <1>1 DEF FlattenSeq, Concats
<1> HIDE DEF f
<1> DEFINE S == {k \in Nat : k + 1 <= n =>
                     IsList(f[k + 1]) /\ \A i \in 1 .. k + 1 : Range(ss[i]) \subseteq Range(f[k + 1])}
<1>4. 0 \in S
  <2>1. 1 \in 1 .. n
    BY <1>1
  <2>2. f[1] = ss[1]
    BY <1>2, <2>1 DEF Concats
  <2>3. IsList(f[1]) /\ \A i \in 1 .. 1 : Range(ss[i]) \subseteq Range(f[1])
    BY <2>1, <2>2
  <2> QED BY <2>3
<1>5. ASSUME NEW k \in Nat, k \in S PROVE k + 1 \in S
  <2>1. CASE k + 2 <= n
    <3>1. k + 2 \in 1 .. n /\ k + 1 <= n /\ k + 2 # 1 /\ (k + 2) - 1 = k + 1
      BY <1>1, <2>1
    <3>2. f[k + 2] = f[k + 1] \o ss[k + 2]
      BY <1>2, <3>1 DEF Concats
    <3>3. IsList(f[k + 1]) /\ \A i \in 1 .. k + 1 : Range(ss[i]) \subseteq Range(f[k + 1])
      BY <1>5, <3>1
    <3>4. IsList(f[k + 2]) /\ Range(f[k + 2]) = Range(f[k + 1]) \cup Range(ss[k + 2])
      BY <3>1, <3>2, <3>3, ConcatList
    <3>5. \A i \in 1 .. k + 2 : i \in 1 .. k + 1 \/ i = k + 2
      OBVIOUS
    <3>6. (k + 1) + 1 = k + 2
      OBVIOUS
    <3>7. \A i \in 1 .. k + 2 : Range(ss[i]) \subseteq Range(f[k + 2])
      BY <3>3, <3>4, <3>5
    <3> QED BY <3>4, <3>6, <3>7
  <2>2. CASE ~(k + 2 <= n)
    BY <1>1, <2>2
  <2> QED BY <2>1, <2>2
<1> HIDE DEF S
<1>6. Nat \subseteq S
  BY <1>4, <1>5, Induct
<1>7. n - 1 \in S /\ (n - 1) + 1 = n /\ n <= n
  BY <1>1, <1>6
<1>8. \A i \in 1 .. n : Range(ss[i]) \subseteq Range(f[n])
  BY <1>7 DEF S
<1> QED BY <1>3, <1>8

\* A result that a check gave when the calls of some set failed; its dial fails
\* only past the deadline or when a call failed.
FromRun(c, res) ==
    \E bad \in BadSets :
        /\ res = Recovered(Run(req, c, bad))
        /\ "dial" \in bad => Expired \/ faults > 0

\* The result of a check that was skipped.
FromSkip(c, res) == For(req, Name(c)) /\ res = Skipped(Name(c))

\* Every list of checks is what Init returned, and every slot that was written is
\* that of a skipped check or of one that ran.
Produced ==
    \A i \in inited :
        /\ \E bad \in BadSets : checks[i] = ChecksOf(i, bad)
        /\ \A j \in Filled(i) : FromSkip(checks[i][j], results[i][j])
                                \/ FromRun(checks[i][j], results[i][j])

\* The request stays what it is, and so does a failure.
LEMMA FailuresStay ==
    ASSUME PreflightInv, [Next]_vars
    PROVE  /\ req' = req
           /\ Expired \/ faults > 0 => Expired' \/ faults' > 0
           /\ BadSets' = BadSets /\ \A i, bad : ChecksOf(i, bad)' = ChecksOf(i, bad)
<1>1. request' = request
  BY DEF Next, Checker, InitChecker, StartCheck, RunCheck, StoreResults, Respond, Expire, Handle,
         Answer, Done, vars
<1>2. req' = req /\ faults \in 0 .. MaxFaults
  BY <1>1, ReqKept DEF PreflightInv
<1> DEFINE Goal == Expired \/ faults > 0 => Expired' \/ faults' > 0
<1>3. ASSUME UNCHANGED <<cutoff, faults>> PROVE Goal
  BY <1>3 DEF Expired
<1>4. ASSUME NEW bad, NEW started, Bad(bad, started), UNCHANGED cutoff PROVE Goal
  <2>1. faults' \in 0 .. MaxFaults /\ faults' >= faults
    BY <1>2, <1>4, FaultsBounded
  <2>2. Expired' = Expired
    BY <1>4 DEF Expired
  <2> QED BY <1>2, <2>1, <2>2, BoundsAreNat
<1>5. ASSUME NEW i \in Checkers, Checker(i) PROVE Goal
  <2> HIDE DEF Goal
  <2>1. CASE InitChecker(i)
    BY <2>1, <1>4 DEF InitChecker
  <2>2. CASE \E j \in running[i] : RunCheck(i, j)
    BY <2>2, <1>4 DEF RunCheck
  <2>3. CASE StartCheck(i) \/ StoreResults(i)
    BY <2>3, <1>3 DEF StartCheck, StoreResults
  <2> QED BY <1>5, <2>1, <2>2, <2>3 DEF Checker
<1>6. ASSUME Handle \/ Respond \/ Done \/ UNCHANGED vars PROVE Goal
  <2>1. UNCHANGED <<cutoff, faults>>
    BY <1>6 DEF Handle, Answer, Respond, Done, vars
  <2> QED BY <2>1, <1>3
<1>7. ASSUME Expire PROVE Goal
  BY <1>7 DEF Expire
<1>8. Goal
  <2> HIDE DEF Goal
  <2> QED BY <1>5, <1>6, <1>7 DEF Next
<1> QED BY <1>2, <1>8 DEF BadSets, Late, ChecksOf

\* The calls a goroutine finds failing are one of the sets enumerated, and dial
\* is among them only with a failure counted or past the deadline.
LEMMA DialExcused ==
    ASSUME NEW bad, NEW started, Bad(bad, started), faults \in 0 .. MaxFaults, "dial" \in bad
    PROVE  Expired \/ faults' > 0
<1> SUFFICES ASSUME ~Expired PROVE faults' > 0
  OBVIOUS
<1>1. bad \subseteq ApiCalls /\ faults' = faults + Cardinality(bad)
  BY DEF Bad
<1>2. IsFiniteSet(bad)
  BY <1>1, ApiCallsFinite, FS_Subset
<1>3. Cardinality(bad) \in Nat /\ Cardinality(bad) # 0
  BY <1>2, FS_CardinalityType, FS_EmptySet
<1> QED BY <1>1, <1>3, BoundsAreNat

LEMMA ProducedKept == PreflightInv /\ Produced /\ [Next]_vars => Produced'
<1> SUFFICES ASSUME PreflightInv, Produced, [Next]_vars, NEW k \in inited'
             PROVE  /\ \E bad \in BadSets' : checks'[k] = ChecksOf(k, bad)'
                    /\ \A n \in Filled(k)' : FromSkip(checks[k][n], results[k][n])'
                                             \/ FromRun(checks[k][n], results[k][n])'
  BY DEF Produced
<1> DEFINE From(c, res) == \E bad \in BadSets : /\ res = Recovered(Run(req, c, bad))
                                                /\ "dial" \in bad => Expired' \/ faults' > 0
           Goal == /\ \E bad \in BadSets : checks'[k] = ChecksOf(k, bad)
                   /\ \A n \in Filled(k)' : FromSkip(checks'[k][n], results'[k][n])
                                            \/ From(checks'[k][n], results'[k][n])
<1>1. /\ req' = req /\ (Expired \/ faults > 0 => Expired' \/ faults' > 0)
      /\ BadSets' = BadSets /\ \A i, bad : ChecksOf(i, bad)' = ChecksOf(i, bad)
  BY FailuresStay
<1>2. PreflightInv'
  BY Inductive
<1>3. k \in Checkers
  BY <1>2 DEF PreflightInv, Shape
<1>4. SUFFICES Goal
  BY <1>1 DEF FromRun, FromSkip
<1>5. k \in inited =>
        /\ \E bad \in BadSets : checks[k] = ChecksOf(k, bad)
        /\ \A n \in Filled(k) : FromSkip(checks[k][n], results[k][n]) \/ From(checks[k][n], results[k][n])
  BY <1>1 DEF Produced, FromRun
<1> HIDE DEF From
<1>6. ASSUME k \in inited, checks'[k] = checks[k], results'[k] = results[k], next'[k] = next[k],
             running'[k] = running[k]
      PROVE  Goal
  <2>1. Filled(k)' = Filled(k)
    BY <1>6 DEF Filled
  <2> QED BY <1>5, <1>6, <2>1
<1>7. ASSUME NEW i \in Checkers, InitChecker(i) PROVE Goal
  <2>1. PICK bad \in BadSets :
          /\ checks' = [checks EXCEPT ![i] = ChecksOf(i, bad)]
          /\ results' = [results EXCEPT ![i] = [j \in DOMAIN ChecksOf(i, bad) |-> Zero]]
    BY <1>7 DEF InitChecker
  <2>2. i \notin inited /\ inited' = inited \cup {i} /\ UNCHANGED <<next, running>>
    BY <1>7 DEF InitChecker
  <2>3. CASE k = i
    <3>1. checks'[k] = ChecksOf(k, bad)
      BY <2>1, <2>3 DEF PreflightInv, Shape
    <3>2. running'[k] = {} /\ next'[k] = 1
      <4>1. checks[k] = <<>> /\ next[k] \in Nat \ {0} /\ next[k] <= Len(checks[k]) + 1
            /\ running[k] \subseteq 1 .. next[k] - 1
        BY <1>3, <2>2, <2>3 DEF PreflightInv, Shape, Looped
      <4> QED BY <2>2, <4>1
    <3>3. Filled(k)' = {}
      BY <3>2 DEF Filled
    <3> QED BY <3>1, <3>3
  <2>4. CASE k # i
    BY <1>3, <1>6, <2>1, <2>2, <2>4 DEF PreflightInv, Shape
  <2> QED BY <2>3, <2>4
<1>8. ASSUME NEW i \in Checkers, StartCheck(i) PROVE Goal
  <2> DEFINE j == next[i]
             name == Name(checks[i][j])
  <2>1. /\ i \in inited /\ j <= Len(checks[i]) /\ next' = [next EXCEPT ![i] = j + 1]
        /\ UNCHANGED <<checks, inited>>
    BY <1>8 DEF StartCheck
  <2>2. \/ /\ For(req, name) /\ UNCHANGED running
           /\ results' = [results EXCEPT ![i][j] = Skipped(name)]
        \/ /\ ~For(req, name) /\ UNCHANGED results
           /\ running' = [running EXCEPT ![i] = running[i] \cup {j}]
    BY <1>8 DEF StartCheck
  <2>3. /\ Len(checks[i]) \in Nat /\ DOMAIN checks[i] = 1 .. Len(checks[i])
        /\ j \in Nat \ {0} /\ j \in DOMAIN checks[i]
    BY <2>1, ListFacts DEF PreflightInv, Shape, Looped, SoundList
  <2> HIDE DEF j, name
  <2>4. CASE k # i
    <3>1. results'[k] = results[k] /\ running'[k] = running[k] /\ next'[k] = next[k]
      BY <1>3, <2>1, <2>2, <2>4 DEF PreflightInv, Shape
    <3> QED BY <1>6, <2>1, <2>4, <3>1
  <2>5. CASE k = i
    <3>1. checks'[i] = checks[i] /\ next'[i] = j + 1
      BY <2>1, <2>5 DEF PreflightInv, Shape
    <3>2. ASSUME NEW n \in Filled(i)'
          PROVE  FromSkip(checks[i][n], results'[i][n]) \/ From(checks[i][n], results'[i][n])
      <4>0. n \in DOMAIN checks[i]
        <5>1. n \in 1 .. j
          BY <2>3, <3>1 DEF Filled
        <5> QED BY <2>1, <2>3, <5>1
      <4>1. CASE n = j
        <5>1. j \notin running'[i]
          BY <4>1 DEF Filled
        <5>2. ASSUME running' = [running EXCEPT ![i] = running[i] \cup {j}] PROVE FALSE
          <6>1. running'[i] = running[i] \cup {j}
            BY <5>2 DEF PreflightInv, Shape
          <6> QED BY <5>1, <6>1
        <5>3. For(req, name) /\ results' = [results EXCEPT ![i][j] = Skipped(name)]
          BY <2>2, <5>2
        <5>4. results'[i][j] = Skipped(name)
          BY <2>3, <5>3, ResultsShaped, SlotWritten
        <5> QED BY <4>1, <5>3, <5>4 DEF name, FromSkip
      <4>2. CASE n # j
        <5>1. running'[i] = running[i] \/ running'[i] = running[i] \cup {j}
          BY <2>2 DEF PreflightInv, Shape
        <5>2. n \in Filled(i)
          BY <2>3, <3>1, <4>2, <5>1 DEF Filled, j
        <5>3. results'[i][n] = results[i][n]
          <6>1. CASE UNCHANGED results
            BY <6>1
          <6>2. CASE results' = [results EXCEPT ![i][j] = Skipped(name)]
            <7>1. \A m \in Checkers : \A l \in DOMAIN checks[m] :
                     ~(m = i /\ l = j) => results'[m][l] = results[m][l]
              BY <2>3, <6>2, ResultsShaped, SlotWritten
            <7> QED BY <4>0, <4>2, <7>1
          <6> QED BY <2>2, <6>1, <6>2
        <5> QED BY <1>5, <2>1, <2>5, <5>2, <5>3
      <4> QED BY <4>1, <4>2
    <3> QED BY <1>5, <2>1, <2>5, <3>1, <3>2
  <2> QED BY <2>4, <2>5
<1>9. ASSUME NEW i \in Checkers, NEW j \in running[i], RunCheck(i, j) PROVE Goal
  <2>1. PICK bad \in BadSets :
          /\ Bad(bad, j < cutoff[i])
          /\ results' = [results EXCEPT ![i][j] = Recovered(Run(req, checks[i][j], bad))]
    BY <1>9 DEF RunCheck
  <2>2. running' = [running EXCEPT ![i] = running[i] \ {j}]
        /\ UNCHANGED <<checks, inited, next, cutoff>>
    BY <1>9 DEF RunCheck
  <2>3. "dial" \in bad => Expired' \/ faults' > 0
    <3>1. "dial" \in bad => Expired \/ faults' > 0
      BY <2>1, DialExcused DEF PreflightInv
    <3> QED BY <2>2, <3>1 DEF Expired
  <2>4. /\ Len(checks[i]) \in Nat /\ DOMAIN checks[i] = 1 .. Len(checks[i])
        /\ j \in DOMAIN checks[i]
    BY <1>9, ListFacts DEF PreflightInv, Shape, Looped, SoundList
  <2>5. CASE k # i
    <3>1. results'[k] = results[k] /\ running'[k] = running[k]
      BY <1>3, <2>1, <2>2, <2>5 DEF PreflightInv, Shape
    <3> QED BY <1>6, <2>2, <2>5, <3>1
  <2>6. CASE k = i
    <3>1. running'[i] = running[i] \ {j}
      BY <2>2 DEF PreflightInv, Shape
    <3>3. ASSUME NEW n \in Filled(i)'
          PROVE  FromSkip(checks[i][n], results'[i][n]) \/ From(checks[i][n], results'[i][n])
      <4>1. CASE n = j
        <5>1. results'[i][j] = Recovered(Run(req, checks[i][j], bad))
          BY <2>1, <2>4, ResultsShaped, SlotWritten
        <5> QED BY <2>3, <4>1, <5>1 DEF From
      <4>2. CASE n # j
        <5>1. n \in Filled(i)
          BY <2>2, <3>1, <4>2 DEF Filled
        <5>2. n \in DOMAIN checks[i]
          <6>1. n \in 1 .. next[i] - 1 /\ next[i] \in Nat /\ next[i] <= Len(checks[i]) + 1
            BY <5>1 DEF Filled, PreflightInv, Shape, Looped
          <6> QED BY <2>4, <6>1
        <5>3. results'[i][n] = results[i][n]
          <6>1. \A m \in Checkers : \A l \in DOMAIN checks[m] :
                   ~(m = i /\ l = j) => results'[m][l] = results[m][l]
            BY <2>1, <2>4, ResultsShaped, SlotWritten
          <6> QED BY <4>2, <5>2, <6>1
        <5> QED BY <1>5, <2>2, <2>6, <5>1, <5>3
      <4> QED BY <4>1, <4>2
    <3> QED BY <1>5, <2>2, <2>6, <3>1, <3>3
  <2> QED BY <2>5, <2>6
<1>10. ASSUME UNCHANGED <<checks, inited, next, running, results>> PROVE Goal
  BY <1>6, <1>10
<1>11. CASE \/ Handle \/ Respond \/ Expire \/ Done \/ UNCHANGED vars
            \/ \E i \in Checkers : StoreResults(i)
  <2>1. UNCHANGED <<checks, inited, next, running, results>>
    BY <1>11 DEF Handle, Answer, Respond, Expire, Done, vars, StoreResults
  <2> QED BY <2>1, <1>10
<1> HIDE DEF Goal
<1> QED BY <1>7, <1>8, <1>9, <1>11 DEF Next, Checker

\* A check that does not stand in the way of the Cluster.
OK(res) == res.allowed /\ ~res.panic

LEMMA OKVerdicts ==
    /\ OK(Pass) /\ \A w : OK(Warn(w))
    /\ ~OK(Panic) /\ ~OK(Denied) /\ \A c : ~OK(Fail(c)) /\ ~OK(FailInternal(c))
  BY DEF OK, Pass, Warn, Panic, Denied, Fail, FailInternal

LEMMA OKTogether == ASSUME NEW R, OK(Together(R)), NEW x \in R PROVE OK(x)
<1>1. Together(R).allowed = (\A y \in R : y.allowed) /\ Together(R).panic = (\E y \in R : y.panic)
  BY DEF Together
<1> QED BY <1>1, Zenon DEF OK

LEMMA OKRecovered == ASSUME NEW res, Recovered(res).allowed PROVE OK(res)
  BY OKVerdicts DEF Recovered, OK, FailInternal, Fail, Pass

\* The one element of a set of one.
LEMMA OneElement ==
    ASSUME NEW S, IsFiniteSet(S), Cardinality(S) = 1
    PROVE  (CHOOSE x \in S : TRUE) \in S /\ \A y \in S : S = {y}
  BY FS_Singleton

\* What Prism Central answers, when it answers.
LEMMA LookedUp ==
    ASSUME NEW S, NEW id, NEW call, NEW bad, ~Lookup(S, id, call, bad).err
    PROVE  Lookup(S, id, call, bad).found = Named(S, id)
  BY DEF Lookup, Err, Found, Named

LEMMA NamedFinite ==
    ASSUME NEW S, IsFiniteSet(S), NEW id PROVE IsFiniteSet(Named(S, id)) /\ Named(S, id) \subseteq S
  BY FS_Subset DEF Named

\* A Prism Element that resolves to one object with a UUID.
ClusterOf(r, id, bad) == CHOOSE x \in getClusters(r, id, bad).found : TRUE
OnePEFound(r, id, bad) ==
    /\ ~getClusters(r, id, bad).err /\ Cardinality(getClusters(r, id, bad).found) = 1
    /\ ClusterOf(r, id, bad).uuid # ""

LEMMA OnePE ==
    ASSUME NEW r, IsFiniteSet(r.pes), NEW id, NEW bad, OnePEFound(r, id, bad)
    PROVE  /\ ThePE(r, id) = {ClusterOf(r, id, bad).uuid}
           /\ getClusters(r, id, bad).found = {ClusterOf(r, id, bad)}
           /\ IsOne(Named(r.pes, id)) /\ IsOne(ThePE(r, id))
<1> DEFINE pe == ClusterOf(r, id, bad)
<1>1. getClusters(r, id, bad).found = Named(r.pes, id)
  BY LookedUp DEF getClusters, OnePEFound
<1>2. Named(r.pes, id) = {pe}
  <2>1. IsFiniteSet(Named(r.pes, id)) /\ Cardinality(Named(r.pes, id)) = 1
    BY <1>1, NamedFinite DEF OnePEFound
  <2>2. pe \in Named(r.pes, id)
    BY <1>1, <2>1, OneElement DEF ClusterOf
  <2> QED BY <2>1, <2>2, OneElement
<1>3. ThePE(r, id) = {pe.uuid}
  BY <1>2 DEF ThePE, OnePEFound
<1> QED BY <1>1, <1>2, <1>3, FS_Singleton DEF IsOne

\* failureDomainCheck.Run
LEMMA FailureDomainHolds ==
    ASSUME NEW r, WellFormed(r), NEW n, NEW bad,
           OK(RunFailureDomain(r, Check("fd", {n}, FALSE), bad))
    PROVE  FailureDomainOK(r, n)
<1> DEFINE id0 == r.fds[n].pe
           pe == ClusterOf(r, id0, bad)
           Subnet(id) ==
              LET s == getSubnets(r, id, bad) IN
              IF s.err THEN FailInternal("subnet")
              ELSE IF Cardinality(OnPE(s.found, pe.uuid)) # 1 THEN Fail("subnet") ELSE Pass
           all == Together({Pass} \cup {Subnet(id) : id \in r.fds[n].subnets})
<1>1. (CHOOSE x \in {n} : TRUE) = n
  OBVIOUS
<1>2. RunFailureDomain(r, Check("fd", {n}, FALSE), bad) =
        IF "fd" \in bad THEN FailInternal("fd")
        ELSE IF n \notin DOMAIN r.fds THEN Fail("fd")
        ELSE IF getClusters(r, id0, bad).err THEN FailInternal("pe")
        ELSE IF Cardinality(getClusters(r, id0, bad).found) # 1 THEN Fail("pe")
        ELSE IF pe.uuid = "" THEN Panic ELSE all
  BY <1>1 DEF RunFailureDomain, Check, ClusterOf
<1> HIDE DEF all
<1>3. n \in DOMAIN r.fds /\ OnePEFound(r, id0, bad) /\ OK(all)
  BY <1>2, OKVerdicts DEF OnePEFound
<1> HIDE DEF id0, pe
<1>4. ThePE(r, id0) = {pe.uuid} /\ IsOne(Named(r.pes, id0)) /\ IsOne(ThePE(r, id0))
  <2>1. IsFiniteSet(r.pes)
    BY DEF WellFormed, WellFormedWorld
  <2> QED BY <1>3, <2>1, OnePE DEF pe
<1>5. ASSUME NEW id \in r.fds[n].subnets
      PROVE  IsOne({s \in Named(r.subnets, id) : s.pe = "" \/ {s.pe} = ThePE(r, id0)})
  <2>1. OK(Subnet(id))
    <3>1. Subnet(id) \in {Pass} \cup {Subnet(x) : x \in r.fds[n].subnets}
      BY <1>5
    <3> HIDE DEF Subnet
    <3> QED BY <1>3, <3>1, OKTogether DEF all
  <2> DEFINE s == getSubnets(r, id, bad)
  <2>2. ~s.err /\ Cardinality(OnPE(s.found, pe.uuid)) = 1
    BY <2>1, OKVerdicts
  <2>3. s.found = Named(r.subnets, id)
    BY <2>2, LookedUp DEF getSubnets
  <2>4. OnPE(s.found, pe.uuid) = {x \in Named(r.subnets, id) : x.pe = "" \/ {x.pe} = {pe.uuid}}
    BY <2>3 DEF OnPE
  <2> QED BY <1>4, <2>2, <2>4 DEF IsOne
<1> QED BY <1>3, <1>4, <1>5 DEF FailureDomainOK, id0

------------------------------------------------------------------------------
\* References, pools and the checks built for them.

\* The elements of a flattened list are those of its lists.
LEMMA FlattenRange ==
    ASSUME NEW s, IsList(s), NEW ss, ss = [k \in DOMAIN s |-> ss[k]],
           \A k \in DOMAIN s : IsList(ss[k])
    PROVE  Range(FlattenSeq(ss)) = UNION {Range(ss[k]) : k \in DOMAIN s}
<1>1. Len(s) \in Nat /\ DOMAIN s = 1 .. Len(s)
  BY ListFacts
<1>2. IsList(ss) /\ Len(ss) = Len(s)
  BY <1>1, FunctionIsList
<1>3. \A k \in 1 .. Len(ss) : IsList(ss[k])
  BY <1>1, <1>2
<1>4. \A k \in 1 .. Len(ss) : Range(ss[k]) \subseteq Range(FlattenSeq(ss))
  BY <1>2, <1>3, FlattenAll
<1>5. \A x \in Range(FlattenSeq(ss)) : \E k \in 1 .. Len(ss) : x \in Range(ss[k])
  BY <1>2, <1>3, FlattenList
<1> QED BY <1>1, <1>2, <1>4, <1>5

LEMMA PoolsAreWellFormed ==
    ASSUME NEW r, WellFormed(r)
    PROVE  /\ \A p \in AllPools(r) : WellFormedPool(p)
           /\ Len(r.workers) \in Nat /\ DOMAIN r.workers = 1 .. Len(r.workers)
           /\ \A p \in r.cp : r.cp = {p} /\ p.nutanix /\ (CHOOSE q \in r.cp : TRUE) = p
  BY ListFacts DEF WellFormed, AllPools

\* With a configuration, the references are those of all pools.
LEMMA RefsOfPools ==
    ASSUME NEW r, WellFormed(r), r.config = "ok"
    PROVE  Refs(r) = UNION {Range(p.fds) : p \in AllPools(r)}
<1> DEFINE cp == IF cpPools(r) = {} THEN <<>> ELSE (CHOOSE p \in r.cp : TRUE).fds
           ws == [k \in DOMAIN r.workers |-> r.workers[k].fds]
<1>1. cpPools(r) = r.cp
  BY DEF cpPools, ConfigSpec
<1>2. IsList(cp) /\ Range(cp) = UNION {Range(p.fds) : p \in r.cp}
  <2>1. CASE r.cp = {}
    <3>1. cp = <<>> /\ IsList(<<>>) /\ Range(<<>>) = {}
      BY <1>1, <2>1, EmptySound DEF SoundList, Range
    <3> QED BY <2>1, <3>1
  <2>2. CASE r.cp # {}
    <3>1. PICK p : p \in r.cp
      BY <2>2
    <3>2. r.cp = {p} /\ cp = p.fds
      BY <1>1, <3>1, PoolsAreWellFormed
    <3>3. IsList(p.fds)
      BY <3>1 DEF WellFormed, WellFormedPool
    <3> QED BY <3>2, <3>3
  <2> QED BY <2>1, <2>2
<1>3. \A k \in DOMAIN r.workers : IsList(ws[k]) /\ IsList(r.workers[k].fds)
  BY DEF WellFormed, WellFormedPool, Range
<1>4. IsList(r.workers)
  BY DEF WellFormed
<1>5. Range(FlattenSeq(ws)) = UNION {Range(ws[k]) : k \in DOMAIN r.workers}
  <2>1. ws = [k \in DOMAIN r.workers |-> ws[k]]
    OBVIOUS
  <2> HIDE DEF ws
  <2> QED BY <1>3, <1>4, <2>1, FlattenRange
<1>6. IsList(FlattenSeq(ws))
  <2>1. IsList(ws) /\ Len(ws) = Len(r.workers) /\ DOMAIN r.workers = 1 .. Len(r.workers)
    BY <1>4, PoolsAreWellFormed, FunctionIsList
  <2>2. \A k \in 1 .. Len(ws) : IsList(ws[k])
    BY <1>3, <2>1
  <2> HIDE DEF ws
  <2> QED BY <2>1, <2>2, FlattenList
<1>7. UNION {Range(ws[k]) : k \in DOMAIN r.workers} = UNION {Range(p.fds) : p \in Range(r.workers)}
  <2>1. \A k \in DOMAIN r.workers : Range(ws[k]) = Range(r.workers[k].fds)
    OBVIOUS
  <2> HIDE DEF ws
  <2>2. \A k \in DOMAIN r.workers : r.workers[k] \in Range(r.workers)
    BY DEF Range
  <2>3. \A p \in Range(r.workers) : \E k \in DOMAIN r.workers : p = r.workers[k]
    BY DEF Range
  <2> QED BY <2>1, <2>2, <2>3
<1>8. Refs(r) = Range(cp) \cup Range(FlattenSeq(ws))
  <2>1. failureDomains(r) = cp \o FlattenSeq(ws)
    BY DEF failureDomains
  <2> HIDE DEF cp, ws
  <2> QED BY <1>2, <1>6, <2>1, ConcatList DEF Refs
<1> HIDE DEF cp, ws
<1> QED BY <1>2, <1>5, <1>7, <1>8 DEF AllPools

\* A reference that resolves stands for its failure domains.
LEMMA NamesResolved ==
    ASSUME NEW r, NEW ref, ref.kind \in {"fd", "metro", "site"}, NEW bad,
           ~getFailureDomainNames(r, ref, bad).err
    PROVE  /\ getFailureDomainNames(r, ref, bad).found = FDs(r, ref) /\ RefExists(r, ref)
           /\ ref.kind # "fd" => MetroOf(r, ref) \in DOMAIN r.metros
                                 /\ FDs(r, ref) = r.metros[MetroOf(r, ref)]
<1>1. CASE ref.kind = "fd"
  BY <1>1 DEF getFailureDomainNames, Found, Err, FDs, RefExists
<1>2. CASE ref.kind = "metro"
  BY <1>2 DEF getFailureDomainNames, Found, Err, FDs, RefExists, MetroOf
<1>3. CASE ref.kind = "site"
  BY <1>3 DEF getFailureDomainNames, Found, Err, FDs, RefExists, MetroOf
<1> QED BY <1>1, <1>2, <1>3

LEMMA FDsFinite ==
    ASSUME NEW r, WellFormed(r), NEW ref, ref.kind \in {"fd", "metro", "site"}, RefExists(r, ref)
    PROVE  IsFiniteSet(FDs(r, ref)) /\ FDs(r, ref) # {}
<1>1. CASE ref.kind = "fd"
  BY <1>1, FS_Singleton DEF FDs
<1>2. CASE ref.kind = "metro"
  BY <1>2 DEF FDs, RefExists, WellFormed, WellFormedWorld
<1>3. CASE ref.kind = "site"
  BY <1>3 DEF FDs, RefExists, WellFormed, WellFormedWorld
<1> QED BY <1>1, <1>2, <1>3

LEMMA EmptyList == Range(<<>>) = {}
  BY DEF Range

LEMMA RangeOfOne == \A c : Range(<<c>>) = {c}
  BY DEF Range

\* The checks of a reference: one that reports it, or one for each of its domains.
LEMMA ResolvedIsList ==
    ASSUME NEW r, WellFormed(r), NEW ref, ref.kind \in {"fd", "metro", "site"}, NEW kind, NEW bad
    PROVE  IsList(Resolved(r, kind, ref, bad))
  BY ResolvedSound DEF SoundList

LEMMA UnresolvedReported ==
    ASSUME NEW r, NEW ref, NEW kind, NEW bad, getFailureDomainNames(r, ref, bad).err
    PROVE  Check("fd", {ref.name}, TRUE) \in Range(Resolved(r, kind, ref, bad))
  BY RangeOfOne DEF Resolved

LEMMA ResolvedChecks ==
    ASSUME NEW r, NEW ref, NEW kind, NEW bad, WellFormed(r), ref.kind \in {"fd", "metro", "site"},
           ~getFailureDomainNames(r, ref, bad).err
    PROVE  \A n \in FDs(r, ref) : Check(kind, {n}, FALSE) \in Range(Resolved(r, kind, ref, bad))
<1> DEFINE names == getFailureDomainNames(r, ref, bad)
           S == {Check(kind, {n}, FALSE) : n \in FDs(r, ref)}
           f == [n \in FDs(r, ref) |-> Check(kind, {n}, FALSE)]
<1>1. RefExists(r, ref) /\ names.found = FDs(r, ref)
  BY NamesResolved
<1>2. IsFiniteSet(S)
  <2>1. IsFiniteSet(FDs(r, ref))
    BY <1>1, FDsFinite
  <2>2. S = Range(f)
    BY DEF Range
  <2> QED BY <2>1, <2>2, ImageFinite
<1>3. Resolved(r, kind, ref, bad) = SetToSeq(S)
  BY <1>1 DEF Resolved
<1> QED BY <1>1, <1>2, <1>3, SetToSeqAll

IsReady(r, skipped, bad) == nclient(r, bad) /\ pcVersion(r, skipped, bad)

\* nutanixChecker.Init keeps every check that is built.
LEMMA NutanixInitHas ==
    ASSUME NEW r, WellFormed(r), NEW skipped, NEW bad
    PROVE  /\ {NutanixConfiguration(r), Known("credentials", CredentialsResult(r, bad)),
               Known("version", VersionResult(r, skipped, bad)),
               Check("cidr", {nclient(r, bad)}, FALSE), Check("endpoint", {}, FALSE)}
                 \subseteq Range(NutanixInit(r, skipped, bad))
           /\ IsReady(r, skipped, bad) =>
                \A list \in {newFailureDomainChecks(r, bad), newVMImageChecks(r),
                             newVMImageKubernetesVersionChecks(r),
                             newStorageContainerChecks(r, bad), newMetroChecks(r, bad)} :
                    Range(list) \subseteq Range(NutanixInit(r, skipped, bad))
           /\ Range(NutanixInit(r, skipped, bad)) \subseteq
                {NutanixConfiguration(r), Known("credentials", CredentialsResult(r, bad)),
                 Known("version", VersionResult(r, skipped, bad)),
                 Check("cidr", {nclient(r, bad)}, FALSE), Check("endpoint", {}, FALSE)}
                \cup Range(newFailureDomainChecks(r, bad)) \cup Range(newVMImageChecks(r))
                \cup Range(newVMImageKubernetesVersionChecks(r))
                \cup Range(newStorageContainerChecks(r, bad)) \cup Range(newMetroChecks(r, bad))
<1> DEFINE client == nclient(r, bad)
           ready == client /\ pcVersion(r, skipped, bad)
           If(list) == IF ready THEN list ELSE <<>>
           c1 == NutanixConfiguration(r)
           c2 == Known("credentials", CredentialsResult(r, bad))
           c3 == Known("version", VersionResult(r, skipped, bad))
           a == <<c1, c2, c3>>
           b == If(newFailureDomainChecks(r, bad))
           c == If(newVMImageChecks(r))
           d == If(newVMImageKubernetesVersionChecks(r))
           e == <<Check("cidr", {client}, FALSE)>>
           f == If(newStorageContainerChecks(r, bad))
           g == <<Check("endpoint", {}, FALSE)>>
           h == If(newMetroChecks(r, bad))
<1>1. IsList(a) /\ Range(a) = {c1, c2, c3}
  <2> HIDE DEF c1, c2, c3
  <2>1. a \in Seq({c1, c2, c3}) /\ Range(a) = {c1, c2, c3}
    BY DEF Range
  <2> QED BY <2>1, ListOf
<1>2. \A list : SoundList(list) => IsList(If(list))
  BY EmptySound DEF SoundList
<1>3. IsList(e) /\ IsList(g)
  BY ChecksAreSound, OneSound DEF SoundList
<1>4. IsList(b) /\ IsList(c) /\ IsList(d) /\ IsList(f) /\ IsList(h)
  <2> HIDE DEF If
  <2> QED BY <1>2, FailureDomainChecksSound, ImageChecksSound, StorageChecksSound, MetroChecksSound
<1>5. Range(e) = {Check("cidr", {client}, FALSE)} /\ Range(g) = {Check("endpoint", {}, FALSE)}
  BY RangeOfOne
<1>6. NutanixInit(r, skipped, bad) = a \o b \o c \o d \o e \o f \o g \o h
  BY Zenon DEF NutanixInit
<1>7. ready => /\ b = newFailureDomainChecks(r, bad) /\ c = newVMImageChecks(r)
               /\ d = newVMImageKubernetesVersionChecks(r)
               /\ f = newStorageContainerChecks(r, bad) /\ h = newMetroChecks(r, bad)
  OBVIOUS
<1>0. ~ready => \A x \in {b, c, d, f, h} : Range(x) = {}
  BY EmptyList
<1>8. \A x \in {a, b, c, d, e, f, g, h} : IsList(x)
  BY <1>1, <1>3, <1>4
<1> HIDE DEF a, b, c, d, e, f, g, h
<1>9. Range(a \o b \o c \o d \o e \o f \o g \o h) =
        Range(a) \cup Range(b) \cup Range(c) \cup Range(d) \cup Range(e) \cup Range(f) \cup Range(g)
          \cup Range(h)
  <2>1. IsList(a \o b) /\ Range(a \o b) = Range(a) \cup Range(b)
    BY <1>8, ConcatList
  <2>2. IsList(a \o b \o c) /\ Range(a \o b \o c) = Range(a \o b) \cup Range(c)
    BY <1>8, <2>1, ConcatList
  <2>3. IsList(a \o b \o c \o d) /\ Range(a \o b \o c \o d) = Range(a \o b \o c) \cup Range(d)
    BY <1>8, <2>2, ConcatList
  <2>4. IsList(a \o b \o c \o d \o e)
        /\ Range(a \o b \o c \o d \o e) = Range(a \o b \o c \o d) \cup Range(e)
    BY <1>8, <2>3, ConcatList
  <2>5. IsList(a \o b \o c \o d \o e \o f)
        /\ Range(a \o b \o c \o d \o e \o f) = Range(a \o b \o c \o d \o e) \cup Range(f)
    BY <1>8, <2>4, ConcatList
  <2>6. IsList(a \o b \o c \o d \o e \o f \o g)
        /\ Range(a \o b \o c \o d \o e \o f \o g) = Range(a \o b \o c \o d \o e \o f) \cup Range(g)
    BY <1>8, <2>5, ConcatList
  <2>7. Range(a \o b \o c \o d \o e \o f \o g \o h) = Range(a \o b \o c \o d \o e \o f \o g) \cup Range(h)
    BY <1>8, <2>6, ConcatList
  <2> QED BY <2>1, <2>2, <2>3, <2>4, <2>5, <2>6, <2>7
<1> HIDE DEF c1, c2, c3, ready, client
<1>10. {c1, c2, c3, Check("cidr", {client}, FALSE), Check("endpoint", {}, FALSE)}
         \subseteq Range(NutanixInit(r, skipped, bad))
  BY <1>1, <1>5, <1>6, <1>9
<1>11. ready => \A list \in {newFailureDomainChecks(r, bad), newVMImageChecks(r),
                             newVMImageKubernetesVersionChecks(r),
                             newStorageContainerChecks(r, bad), newMetroChecks(r, bad)} :
                    Range(list) \subseteq Range(NutanixInit(r, skipped, bad))
  BY <1>6, <1>7, <1>9
<1>12. Range(NutanixInit(r, skipped, bad)) \subseteq
         {c1, c2, c3, Check("cidr", {client}, FALSE), Check("endpoint", {}, FALSE)}
         \cup Range(newFailureDomainChecks(r, bad)) \cup Range(newVMImageChecks(r))
         \cup Range(newVMImageKubernetesVersionChecks(r))
         \cup Range(newStorageContainerChecks(r, bad)) \cup Range(newMetroChecks(r, bad))
  <2>1. CASE ready
    BY <1>1, <1>5, <1>6, <1>7, <1>9, <2>1
  <2>2. CASE ~ready
    BY <1>0, <1>1, <1>5, <1>6, <1>9, <2>2
  <2> QED BY <2>1, <2>2
<1> QED BY <1>10, <1>11, <1>12 DEF c1, c2, c3, ready, client, IsReady

\* A check list no check of which stands in the way, the skipped ones left aside.
Passes(r, c) == For(r, Name(c)) \/ \E bad : OK(Run(r, c, bad))
Passed(r, list) == \A c \in Range(list) : Passes(r, c)

\* Results that Init knows.
LEMMA KnownResults ==
    ASSUME NEW r, NEW kind \in {"genericConfig", "config", "credentials", "version"}, NEW res, NEW bad
    PROVE  Run(r, Known(kind, res), bad) = res
  BY DEF Run, Known

\* The name of each check.
LEMMA KnownNames ==
    \A res : /\ Name(Known("genericConfig", res)) = "GenericConfiguration"
             /\ Name(Known("config", res)) = "NutanixConfiguration"
             /\ Name(Known("credentials", res)) = "NutanixCredentials"
             /\ Name(Known("version", res)) = "NutanixPrismCentralVersion"
  BY DEF Name, Known

LEMMA NamesOfKinds ==
    /\ \A arg : Name(Check("registry", arg, FALSE)) = "Registry"
    /\ \A arg : Name(Check("fd", arg, FALSE)) = "NutanixFailureDomain"
    /\ \A arg : Name(Check("image", arg, FALSE)) = "NutanixVMImage"
    /\ \A arg : Name(Check("imageVersion", arg, FALSE)) = "NutanixVMImageKubernetesVersion"
    /\ \A arg : Name(Check("cidr", arg, FALSE)) = "NutanixCIDRValidation"
    /\ \A arg : Name(Check("storage", arg, FALSE)) = "NutanixStorageContainer"
    /\ \A arg : Name(Check("storageFD", arg, FALSE)) = "NutanixStorageContainer"
    /\ \A arg : Name(Check("endpoint", arg, FALSE)) = "NutanixControlPlaneEndpoint"
    /\ \A arg : Name(Check("metro", arg, FALSE)) = "NutanixMetro"
    /\ \A arg : Name(Check("singleMetro", arg, FALSE)) = "NutanixMetro"
    /\ \A arg : Name(Check("nodePools", arg, FALSE)) = "NutanixMetro"
    /\ \A arg : Name(Check("sites", arg, FALSE)) = "NutanixMetro"
    /\ \A arg : Name(Check("vha", arg, FALSE)) = "NutanixMetro"
    /\ \A arg : Name(Check("fd", arg, TRUE)) = "NutanixFailureDomain"
    /\ \A arg : Name(Check("metro", arg, TRUE)) = "NutanixMetro"
<1>1. \A arg : Name(Check("registry", arg, FALSE)) = "Registry"
  BY DEF Run, Name, Check
<1>2. \A arg : Name(Check("fd", arg, FALSE)) = "NutanixFailureDomain"
  BY DEF Run, Name, Check
<1>3. \A arg : Name(Check("image", arg, FALSE)) = "NutanixVMImage"
  BY DEF Run, Name, Check
<1>4. \A arg : Name(Check("imageVersion", arg, FALSE)) = "NutanixVMImageKubernetesVersion"
  BY DEF Run, Name, Check
<1>5. \A arg : Name(Check("cidr", arg, FALSE)) = "NutanixCIDRValidation"
  BY DEF Run, Name, Check
<1>6. \A arg : Name(Check("storage", arg, FALSE)) = "NutanixStorageContainer"
  BY DEF Run, Name, Check
<1>7. \A arg : Name(Check("storageFD", arg, FALSE)) = "NutanixStorageContainer"
  BY DEF Run, Name, Check
<1>8. \A arg : Name(Check("endpoint", arg, FALSE)) = "NutanixControlPlaneEndpoint"
  BY DEF Run, Name, Check
<1>9. \A arg : Name(Check("metro", arg, FALSE)) = "NutanixMetro"
  BY DEF Run, Name, Check
<1>10. \A arg : Name(Check("singleMetro", arg, FALSE)) = "NutanixMetro"
  BY DEF Run, Name, Check
<1>11. \A arg : Name(Check("nodePools", arg, FALSE)) = "NutanixMetro"
  BY DEF Run, Name, Check
<1>12. \A arg : Name(Check("sites", arg, FALSE)) = "NutanixMetro"
  BY DEF Run, Name, Check
<1>13. \A arg : Name(Check("vha", arg, FALSE)) = "NutanixMetro"
  BY DEF Run, Name, Check
<1>14. \A arg : Name(Check("fd", arg, TRUE)) = "NutanixFailureDomain"
  BY DEF Run, Name, Check
<1>15. \A arg : Name(Check("metro", arg, TRUE)) = "NutanixMetro"
  BY DEF Run, Name, Check
<1> QED BY <1>1, <1>2, <1>3, <1>4, <1>5, <1>6, <1>7, <1>8, <1>9, <1>10, <1>11, <1>12, <1>13, <1>14, <1>15

LEMMA NamesOverDomains ==
    /\ \A arg, err : Name(Check("scale", arg, err)) = "NutanixMetro"
    /\ \A arg, err : Name(Check("hosting", arg, err)) = "NutanixMetro"
    /\ \A arg, err : Name(Check("latency", arg, err)) = "NutanixMetro"
<1>1. \A arg, err : Name(Check("scale", arg, err)) = "NutanixMetro"
  BY DEF Run, Name, Check
<1>2. \A arg, err : Name(Check("hosting", arg, err)) = "NutanixMetro"
  BY DEF Run, Name, Check
<1>3. \A arg, err : Name(Check("latency", arg, err)) = "NutanixMetro"
  BY DEF Run, Name, Check
<1> QED BY <1>1, <1>2, <1>3

\* What Run is, of a check that is about one thing or about the metros together.
LEMMA RunsOfKinds ==
    /\ \A r, arg, bad : Run(r, Check("registry", arg, FALSE), bad)
         = RunRegistry(Check("registry", arg, FALSE), bad)
    /\ \A r, arg, bad : Run(r, Check("fd", arg, FALSE), bad)
         = RunFailureDomain(r, Check("fd", arg, FALSE), bad)
    /\ \A r, arg, bad : Run(r, Check("image", arg, FALSE), bad)
         = RunImage(r, Check("image", arg, FALSE), bad)
    /\ \A r, arg, bad : Run(r, Check("imageVersion", arg, FALSE), bad)
         = RunImageVersion(r, Check("imageVersion", arg, FALSE), bad)
    /\ \A r, arg, bad : Run(r, Check("cidr", arg, FALSE), bad) = RunCIDR(r, TRUE \in arg, bad)
    /\ \A r, arg, bad : Run(r, Check("storage", arg, FALSE), bad)
         = RunStorage(r, Check("storage", arg, FALSE), bad)
    /\ \A r, arg, bad : Run(r, Check("storageFD", arg, FALSE), bad)
         = RunStorage(r, Check("storageFD", arg, FALSE), bad)
    /\ \A r, arg, bad : Run(r, Check("endpoint", arg, FALSE), bad) = RunEndpoint(r, bad)
    /\ \A r, arg, bad : Run(r, Check("metro", arg, FALSE), bad)
         = RunMetro(r, Check("metro", arg, FALSE), bad)
    /\ \A r, arg, bad : Run(r, Check("singleMetro", arg, FALSE), bad)
         = RunSingleMetro(Check("singleMetro", arg, FALSE))
    /\ \A r, arg, bad : Run(r, Check("nodePools", arg, FALSE), bad) = RunNodePools(r)
    /\ \A r, arg, bad : Run(r, Check("sites", arg, FALSE), bad)
         = RunSites(r, Check("sites", arg, FALSE), bad)
    /\ \A r, arg, bad : Run(r, Check("vha", arg, FALSE), bad) = RunVHA(r, Check("vha", arg, FALSE))
    /\ \A r, arg, bad : Run(r, Check("fd", arg, TRUE), bad)
         = RunFailureDomain(r, Check("fd", arg, TRUE), bad)
    /\ \A r, arg, bad : Run(r, Check("metro", arg, TRUE), bad) = RunMetro(r, Check("metro", arg, TRUE), bad)
<1>1. \A r, arg, bad : Run(r, Check("registry", arg, FALSE), bad)
         = RunRegistry(Check("registry", arg, FALSE), bad)
  BY DEF Run, Name, Check
<1>2. \A r, arg, bad : Run(r, Check("fd", arg, FALSE), bad)
         = RunFailureDomain(r, Check("fd", arg, FALSE), bad)
  BY DEF Run, Name, Check
<1>3. \A r, arg, bad : Run(r, Check("image", arg, FALSE), bad)
         = RunImage(r, Check("image", arg, FALSE), bad)
  BY DEF Run, Name, Check
<1>4. \A r, arg, bad : Run(r, Check("imageVersion", arg, FALSE), bad)
         = RunImageVersion(r, Check("imageVersion", arg, FALSE), bad)
  BY DEF Run, Name, Check
<1>5. \A r, arg, bad : Run(r, Check("cidr", arg, FALSE), bad) = RunCIDR(r, TRUE \in arg, bad)
  BY DEF Run, Name, Check
<1>6. \A r, arg, bad : Run(r, Check("storage", arg, FALSE), bad)
         = RunStorage(r, Check("storage", arg, FALSE), bad)
  BY DEF Run, Name, Check
<1>7. \A r, arg, bad : Run(r, Check("storageFD", arg, FALSE), bad)
         = RunStorage(r, Check("storageFD", arg, FALSE), bad)
  BY DEF Run, Name, Check
<1>8. \A r, arg, bad : Run(r, Check("endpoint", arg, FALSE), bad) = RunEndpoint(r, bad)
  BY DEF Run, Name, Check
<1>9. \A r, arg, bad : Run(r, Check("metro", arg, FALSE), bad)
         = RunMetro(r, Check("metro", arg, FALSE), bad)
  BY DEF Run, Name, Check
<1>10. \A r, arg, bad : Run(r, Check("singleMetro", arg, FALSE), bad)
         = RunSingleMetro(Check("singleMetro", arg, FALSE))
  BY DEF Run, Name, Check
<1>11. \A r, arg, bad : Run(r, Check("nodePools", arg, FALSE), bad) = RunNodePools(r)
  BY DEF Run, Name, Check
<1>12. \A r, arg, bad : Run(r, Check("sites", arg, FALSE), bad)
         = RunSites(r, Check("sites", arg, FALSE), bad)
  BY DEF Run, Name, Check
<1>13. \A r, arg, bad : Run(r, Check("vha", arg, FALSE), bad) = RunVHA(r, Check("vha", arg, FALSE))
  BY DEF Run, Name, Check
<1>14. \A r, arg, bad : Run(r, Check("fd", arg, TRUE), bad)
         = RunFailureDomain(r, Check("fd", arg, TRUE), bad)
  BY DEF Run, Name, Check
<1>15. \A r, arg, bad : Run(r, Check("metro", arg, TRUE), bad) = RunMetro(r, Check("metro", arg, TRUE), bad)
  BY DEF Run, Name, Check
<1> QED BY <1>1, <1>2, <1>3, <1>4, <1>5, <1>6, <1>7, <1>8, <1>9, <1>10, <1>11, <1>12, <1>13, <1>14, <1>15

\* What Run is, of a check over all failure domains of the metros.
LEMMA RunsOverDomains ==
    /\ \A r, arg, err, bad : Run(r, Check("scale", arg, err), bad) = RunScale(r, Check("scale", arg, err), bad)
    /\ \A r, arg, err, bad : Run(r, Check("hosting", arg, err), bad)
         = RunHosting(r, Check("hosting", arg, err), bad)
    /\ \A r, arg, err, bad : Run(r, Check("latency", arg, err), bad)
         = RunLatency(r, Check("latency", arg, err), bad)
<1>1. \A r, arg, err, bad : Run(r, Check("scale", arg, err), bad) = RunScale(r, Check("scale", arg, err), bad)
  BY DEF Run, Name, Check
<1>2. \A r, arg, err, bad : Run(r, Check("hosting", arg, err), bad)
         = RunHosting(r, Check("hosting", arg, err), bad)
  BY DEF Run, Name, Check
<1>3. \A r, arg, err, bad : Run(r, Check("latency", arg, err), bad)
         = RunLatency(r, Check("latency", arg, err), bad)
  BY DEF Run, Name, Check
<1> QED BY <1>1, <1>2, <1>3

\* The generic checks: spec.go and registry.go.
LEMMA GenericHolds ==
    ASSUME NEW r, WellFormed(r), Passed(r, GenericInit(r)), ~For(r, "GenericConfiguration")
    PROVE  /\ r.config = "ok"
           /\ For(r, "Registry") \/ Holds(r, "Registry")
<1>1. IsList(<<GenericConfiguration(r)>>) /\ IsList(newRegistryCheck(r))
  <2>1. Sound(GenericConfiguration(r).result)
    BY Verdicts DEF GenericConfiguration, Known
  <2>2. IsList(<<GenericConfiguration(r)>>)
    BY <2>1, OneSound DEF SoundList
  <2> DEFINE s == [k \in 1 .. Len(r.registries) |-> Check("registry", {r.registries[k]}, FALSE)]
  <2>3. IsList(s)
    BY FunctionIsList, ListFacts DEF WellFormed
  <2>4. IsList(newRegistryCheck(r))
    BY <2>3, EmptySound DEF newRegistryCheck, SoundList
  <2> QED BY <2>2, <2>4
<1>2. Range(GenericInit(r)) = {GenericConfiguration(r)} \cup Range(newRegistryCheck(r))
  BY <1>1, ConcatList, RangeOfOne DEF GenericInit
<1>3. r.config = "ok"
  <2>1. Passes(r, GenericConfiguration(r))
    BY <1>2 DEF Passed
  <2>2. Name(GenericConfiguration(r)) = "GenericConfiguration"
    BY KnownNames DEF GenericConfiguration
  <2>3. \A bad : Run(r, GenericConfiguration(r), bad)
                   = IF r.config = "bad" THEN FailInternal("unmarshal") ELSE Pass
    BY KnownResults DEF GenericConfiguration
  <2>4. r.config # "bad"
    BY <2>1, <2>2, <2>3, OKVerdicts DEF Passes
  <2> QED BY <2>4 DEF WellFormed
<1>4. ASSUME ~For(r, "Registry"), NEW x \in Range(r.registries)
      PROVE  x.url = "empty" \/ (x.url = "ok" /\ x.secret # "missing" /\ x.up)
  <2>1. PICK k \in 1 .. Len(r.registries) : x = r.registries[k]
    BY <1>4, ListFacts DEF WellFormed
  <2> DEFINE c == Check("registry", {x}, FALSE)
  <2>2. c \in Range(newRegistryCheck(r))
    <3>1. newRegistryCheck(r) = [l \in 1 .. Len(r.registries) |-> Check("registry", {r.registries[l]}, FALSE)]
      BY <1>3 DEF newRegistryCheck
    <3> QED BY <2>1, <3>1 DEF Range
  <2>3. Name(c) = "Registry" /\ \A bad : Run(r, c, bad) = RunRegistry(c, bad)
    <3>1. Name(c) = "Registry"
      BY NamesOfKinds
    <3>2. \A bad : Run(r, c, bad) = RunRegistry(c, bad)
      BY RunsOfKinds
    <3> QED BY <3>1, <3>2
  <2>4. PICK bad : OK(RunRegistry(c, bad))
    <3> HIDE DEF c
    <3>1. Passes(r, c)
      BY <1>2, <2>2 DEF Passed
    <3> QED BY <1>4, <2>3, <3>1 DEF Passes
  <2>5. (CHOOSE y \in c.arg : TRUE) = x
    BY DEF Check
  <2>6. x.url \in {"empty", "unparsable", "scheme", "ok"}
    BY DEF WellFormed
  <2> HIDE DEF c
  <2>7. RunRegistry(c, bad) =
          IF x.url = "empty" THEN Pass
          ELSE IF x.url \in {"unparsable", "scheme"} THEN Fail("registryURL")
          ELSE IF x.secret # "none" /\ "secret" \in bad THEN FailInternal("registrySecret")
          ELSE IF x.secret = "missing" THEN Fail("registrySecret")
          ELSE IF x.up /\ "ping" \notin bad THEN Pass ELSE Fail("ping")
    BY <2>5 DEF RunRegistry
  <2> QED BY <2>4, <2>6, <2>7, OKVerdicts
<1>5. For(r, "Registry") \/ Holds(r, "Registry")
  BY <1>4 DEF Holds
<1> QED BY <1>3, <1>5

NutanixList(r, bad) == NutanixInit(r, For(r, "NutanixPrismCentralVersion"), bad)

\* specs.go
LEMMA ConfigurationHolds ==
    ASSUME NEW r, WellFormed(r), NEW bad, Passed(r, NutanixList(r, bad)),
           ~For(r, "NutanixConfiguration")
    PROVE  r.config = "ok"
<1>1. Passes(r, NutanixConfiguration(r))
  BY NutanixInitHas DEF Passed, NutanixList
<1>2. Name(NutanixConfiguration(r)) = "NutanixConfiguration"
  BY KnownNames DEF NutanixConfiguration
<1>3. \A b : Run(r, NutanixConfiguration(r), b) = IF r.config = "bad" THEN FailInternal("unmarshal") ELSE Pass
  BY KnownResults DEF NutanixConfiguration
<1>4. r.config # "bad"
  BY <1>1, <1>2, <1>3, OKVerdicts DEF Passes
<1> QED BY <1>4 DEF WellFormed

\* credentials.go: a Cluster with a Nutanix part has a client.
LEMMA CredentialsHold ==
    ASSUME NEW r, WellFormed(r), NEW bad, Passed(r, NutanixList(r, bad)),
           ~For(r, "NutanixCredentials"), r.config = "ok"
    PROVE  Holds(r, "NutanixCredentials") /\ (UsesNutanix(r) => nclient(r, bad))
<1> DEFINE c == Known("credentials", CredentialsResult(r, bad))
<1>1. OK(CredentialsResult(r, bad))
  <2>1. c \in Range(NutanixList(r, bad))
    BY NutanixInitHas DEF NutanixList
  <2>2. Name(c) = "NutanixCredentials" /\ \A b : Run(r, c, b) = CredentialsResult(r, bad)
    BY KnownNames, KnownResults
  <2> HIDE DEF c
  <2> QED BY <2>1, <2>2 DEF Passed, Passes
<1>2. ASSUME UsesNutanix(r)
      PROVE  r.nutanix /\ ConfigSpec(r) /\ r.credentials = "valid"
  <2>1. ConfigSpec(r) \/ WorkerConfigs(r) # {}
    <3>1. CASE r.nutanix \/ r.cp # {}
      BY <3>1 DEF ConfigSpec
    <3>2. CASE \E p \in Range(r.workers) : p.nutanix
      BY <3>2 DEF WorkerConfigs, Range
    <3> QED BY <1>2, <3>1, <3>2 DEF UsesNutanix
  <2>2. ConfigSpec(r) /\ r.nutanix /\ r.credentials # "url" /\ OK(SecretResult(r, bad))
    BY <1>1, <2>1, OKVerdicts DEF CredentialsResult
  <2>3. OK(ClientResult(r, bad))
    BY <2>2, OKVerdicts DEF SecretResult
  <2>4. r.credentials = "valid"
    BY <2>3, OKVerdicts DEF ClientResult
  <2> QED BY <2>2, <2>4
<1>3. CredentialsResult(r, bad).allowed
  BY <1>1 DEF OK
<1> QED BY <1>2, <1>3 DEF Holds, nclient

\* prismcentralversion.go and utils/version.go: the order of releases.
LEMMA SupportedVersion ==
    ASSUME NEW v, v \in Seq(Nat), v # <<>>, ~ComparePCVersions(v, MinSupported)
    PROVE  Supported(v)
<1> DEFINE w == MinSupported
<1>1. w = <<7, 5>> /\ Len(w) = 2 /\ w[1] = 7 /\ w[2] = 5
  BY DEF MinSupported
<1>2. is7XPcVersion(w) /\ ~is202XPcVersion(w)
  BY <1>1 DEF is7XPcVersion, is202XPcVersion
<1> HIDE DEF w
<1>3. ~is202XPcVersion(v) /\ ~CompareVersions(v, w)
  BY <1>2 DEF ComparePCVersions, w
<1>4. Len(v) \in Nat /\ Len(v) >= 1 /\ v[1] \in Nat /\ (Len(v) > 1 => v[2] \in Nat)
  <2>1. Len(v) \in Nat /\ Len(v) # 0
    BY EmptySeq
  <2> QED BY <2>1
<1>5. Component(v, 1) = v[1] /\ Component(w, 1) = 7 /\ Component(w, 2) = 5
      /\ Component(v, 2) = (IF Len(v) > 1 THEN v[2] ELSE 0)
  BY <1>1, <1>4 DEF Component
<1>6. ~(v[1] < 7)
  <2> SUFFICES ASSUME v[1] < 7 PROVE CompareVersions(v, w)
    BY <1>3
  <2>1. 1 \in 1 .. 4 /\ \A l \in 1 .. 1 - 1 : Component(v, l) = Component(w, l)
    OBVIOUS
  <2> QED BY <1>5, <2>1 DEF CompareVersions
<1>7. v[1] = 7 => ~(Component(v, 2) < 5)
  <2> SUFFICES ASSUME v[1] = 7, Component(v, 2) < 5 PROVE CompareVersions(v, w)
    BY <1>3
  <2>1. 2 \in 1 .. 4 /\ \A l \in 1 .. 2 - 1 : Component(v, l) = Component(w, l)
    BY <1>5
  <2> QED BY <1>5, <2>1 DEF CompareVersions
<1>8. ~Yearly(v)
  BY <1>3 DEF Yearly, is202XPcVersion
<1>9. v[1] > 7 \/ (v[1] = 7 /\ Len(v) > 1 /\ v[2] >= 5)
  BY <1>4, <1>5, <1>6, <1>7
<1> QED BY <1>8, <1>9 DEF Supported

LEMMA VersionHolds ==
    ASSUME NEW r, WellFormed(r), NEW bad, Passed(r, NutanixList(r, bad)),
           UsesNutanix(r) => nclient(r, bad)
    PROVE  /\ For(r, "NutanixPrismCentralVersion") \/ Holds(r, "NutanixPrismCentralVersion")
           /\ UsesNutanix(r) => IsReady(r, For(r, "NutanixPrismCentralVersion"), bad)
<1> DEFINE name == "NutanixPrismCentralVersion"
           c == Known("version", VersionResult(r, For(r, name), bad))
<1>1. CASE For(r, name)
  BY <1>1 DEF IsReady, pcVersion
<1>2. CASE ~For(r, name)
  <2>1. OK(VersionResult(r, For(r, name), bad))
    <3>1. c \in Range(NutanixList(r, bad))
      BY NutanixInitHas DEF NutanixList
    <3>2. Name(c) = name /\ \A b : Run(r, c, b) = VersionResult(r, For(r, name), bad)
      BY KnownNames, KnownResults
    <3> HIDE DEF c
    <3> QED BY <1>2, <3>1, <3>2 DEF Passed, Passes
  <2>2. ASSUME UsesNutanix(r)
        PROVE  Supported(r.pcVersion) /\ IsReady(r, For(r, name), bad)
    <3>1. IsReady(r, For(r, name), bad)
      BY <2>1, <2>2 DEF IsReady, pcVersion, OK
    <3>2. r.pcVersion # <<>> /\ ~ComparePCVersions(r.pcVersion, MinSupported)
      BY <1>2, <2>1, <2>2, OKVerdicts DEF VersionResult
    <3>3. r.pcVersion \in Seq(Nat)
      BY SeqMonotonic DEF WellFormed, WellFormedWorld, IsList
    <3> QED BY <3>1, <3>2, <3>3, SupportedVersion
  <2>3. Holds(r, name)
    BY <2>2 DEF Holds
  <2> QED BY <2>2, <2>3
<1> QED BY <1>1, <1>2

\* A Nutanix pool has an index, by which its checks name it.
LEMMA IndexOfPool ==
    ASSUME NEW r, WellFormed(r), r.config = "ok", NEW p \in AllPools(r), p.nutanix
    PROVE  \E k \in Pools(r) : Pool(r, k) = p
<1>1. CASE p \in r.cp
  <2>1. cpPools(r) = r.cp
    BY <1>1 DEF cpPools, ConfigSpec
  <2>2. 0 \in Pools(r) /\ Pool(r, 0) = p
    BY <1>1, <2>1, PoolsAreWellFormed DEF Pools, Pool
  <2> QED BY <2>2
<1>2. CASE p \in Range(r.workers)
  <2>1. PICK k \in DOMAIN r.workers : p = r.workers[k]
    BY <1>2 DEF Range
  <2>2. k # 0
    BY <2>1, PoolsAreWellFormed
  <2>3. k \in Pools(r) /\ Pool(r, k) = p
    BY <2>1, <2>2 DEF Pools, WorkerConfigs, Pool
  <2> QED BY <2>3
<1> QED BY <1>1, <1>2 DEF AllPools

LEMMA PoolsUseNutanix ==
    ASSUME NEW r, WellFormed(r), NEW p \in AllPools(r), p.nutanix PROVE UsesNutanix(r)
  BY DEF UsesNutanix, AllPools

LEMMA PerPoolHas ==
    ASSUME NEW r, WellFormed(r), NEW kind
    PROVE  \A k \in Pools(r) :
              Check(kind, {k}, FALSE) \in Range(SetToSeq({Check(kind, {l}, FALSE) : l \in Pools(r)}))
<1> DEFINE f == [k \in Pools(r) |-> Check(kind, {k}, FALSE)]
<1>1. IsFiniteSet(Pools(r))
  BY PoolsFinite
<1>2. IsFiniteSet(Range(f)) /\ Range(f) = {Check(kind, {k}, FALSE) : k \in Pools(r)}
  BY <1>1, ImageFinite DEF Range
<1> QED BY <1>2, SetToSeqAll

\* image.go
LEMMA ImageHolds ==
    ASSUME NEW r, WellFormed(r), r.config = "ok", NEW bad, Passed(r, NutanixList(r, bad)),
           UsesNutanix(r) => IsReady(r, For(r, "NutanixPrismCentralVersion"), bad),
           ~For(r, "NutanixVMImage")
    PROVE  Holds(r, "NutanixVMImage")
<1> SUFFICES ASSUME NEW p \in AllPools(r), p.nutanix, p.image.by # "lookup"
             PROVE  IsOne(Named(r.images, p.image))
  BY DEF Holds
<1>1. PICK k \in Pools(r) : Pool(r, k) = p
  BY IndexOfPool
<1> DEFINE c == Check("image", {k}, FALSE)
<1>2. c \in Range(NutanixList(r, bad))
  <2>1. IsReady(r, For(r, "NutanixPrismCentralVersion"), bad)
    BY PoolsUseNutanix
  <2>2. c \in Range(newVMImageChecks(r))
    BY PerPoolHas DEF newVMImageChecks
  <2> HIDE DEF c
  <2> QED BY <2>1, <2>2, NutanixInitHas DEF NutanixList
<1>3. Name(c) = "NutanixVMImage" /\ \A b : Run(r, c, b) = RunImage(r, c, b)
  <2>1. Name(c) = "NutanixVMImage"
    BY NamesOfKinds
  <2>2. \A b : Run(r, c, b) = RunImage(r, c, b)
    BY RunsOfKinds
  <2> QED BY <2>1, <2>2
<1>4. (CHOOSE x \in c.arg : TRUE) = k
  BY DEF Check
<1> HIDE DEF c
<1>5. PICK b : OK(RunImage(r, c, b))
  BY <1>2, <1>3 DEF Passed, Passes
<1>6. ~getVMImages(r, p.image, b).err /\ Cardinality(getVMImages(r, p.image, b).found) = 1
  <2>1. RunImage(r, c, b) =
          IF p.image.by = "lookup" THEN Warn("imageLookup")
          ELSE IF p.image.by = "none" THEN Denied
          ELSE IF getVMImages(r, p.image, b).err THEN FailInternal("image")
          ELSE IF Cardinality(getVMImages(r, p.image, b).found) = 1 THEN Pass ELSE Fail("image")
    BY <1>1, <1>4 DEF RunImage
  <2> QED BY <1>5, <2>1, OKVerdicts
<1>7. getVMImages(r, p.image, b).found = Named(r.images, p.image)
  BY <1>6, LookedUp DEF getVMImages
<1> QED BY <1>6, <1>7 DEF IsOne

LEMMA ImagesFound ==
    ASSUME NEW r, NEW id, NEW bad, ~getVMImages(r, id, bad).err
    PROVE  getVMImages(r, id, bad).found = Named(r.images, id)
  BY LookedUp DEF getVMImages

\* imagekubernetesversioncheck.go
LEMMA ImageVersionHolds ==
    ASSUME NEW r, WellFormed(r), r.config = "ok", NEW bad, Passed(r, NutanixList(r, bad)),
           UsesNutanix(r) => IsReady(r, For(r, "NutanixPrismCentralVersion"), bad),
           ~For(r, "NutanixVMImageKubernetesVersion")
    PROVE  Holds(r, "NutanixVMImageKubernetesVersion")
<1> SUFFICES ASSUME NEW p \in AllPools(r), r.version # "", p.nutanix,
                    p.image.by \notin {"lookup", "none"},
                    NEW i \in Named(r.images, p.image), IsOne(Named(r.images, p.image))
             PROVE  r.version \in i.versions
  BY DEF Holds
<1>1. PICK k \in Pools(r) : Pool(r, k) = p
  BY IndexOfPool
<1> DEFINE c == Check("imageVersion", {k}, FALSE)
<1>2. c \in Range(NutanixList(r, bad))
  <2>1. IsReady(r, For(r, "NutanixPrismCentralVersion"), bad)
    BY PoolsUseNutanix
  <2>2. c \in Range(newVMImageKubernetesVersionChecks(r))
    BY PerPoolHas DEF newVMImageKubernetesVersionChecks
  <2> HIDE DEF c
  <2> QED BY <2>1, <2>2, NutanixInitHas DEF NutanixList
<1>3. Name(c) = "NutanixVMImageKubernetesVersion" /\ \A b : Run(r, c, b) = RunImageVersion(r, c, b)
  <2>1. Name(c) = "NutanixVMImageKubernetesVersion"
    BY NamesOfKinds
  <2>2. \A b : Run(r, c, b) = RunImageVersion(r, c, b)
    BY RunsOfKinds
  <2> QED BY <2>1, <2>2
<1>4. (CHOOSE x \in c.arg : TRUE) = k
  BY DEF Check
<1> HIDE DEF c
<1>5. PICK b : OK(RunImageVersion(r, c, b))
  BY <1>2, <1>3 DEF Passed, Passes
<1> DEFINE images == getVMImages(r, p.image, b)
           found == Named(r.images, p.image)
<1>6. ~images.err /\ (images.found = {} \/ r.version \in (CHOOSE x \in images.found : TRUE).versions)
  <2>1. RunImageVersion(r, c, b) =
          IF p.image.by = "lookup" THEN Warn("imageLookup")
          ELSE IF p.image.by = "none" THEN Pass
          ELSE IF images.err THEN FailInternal("image")
          ELSE IF images.found = {} \/ r.version \in (CHOOSE x \in images.found : TRUE).versions THEN Pass
          ELSE Fail("imageVersion")
    BY <1>1, <1>4 DEF RunImageVersion
  <2> HIDE DEF images
  <2> QED BY <1>5, <2>1, OKVerdicts
<1>7. images.found = found
  <2>1. ~getVMImages(r, p.image, b).err
    BY <1>6
  <2> QED BY <2>1, ImagesFound
<1> HIDE DEF images
<1>8. IsFiniteSet(found) /\ Cardinality(found) = 1 /\ i \in found
  <2>1. IsFiniteSet(r.images)
    BY DEF WellFormed, WellFormedWorld
  <2> QED BY <2>1, NamedFinite DEF IsOne
<1> HIDE DEF found
<1>9. found = {i}
  BY <1>8, OneElement
<1>10. (CHOOSE x \in found : TRUE) = i
  BY <1>9
<1> QED BY <1>6, <1>7, <1>9, <1>10

\* failuredomain.go: every reference resolves to failure domains that exist.
LEMMA FailureDomainsHold ==
    ASSUME NEW r, WellFormed(r), r.config = "ok", NEW bad, Passed(r, NutanixList(r, bad)),
           UsesNutanix(r) => IsReady(r, For(r, "NutanixPrismCentralVersion"), bad),
           ~For(r, "NutanixFailureDomain")
    PROVE  Holds(r, "NutanixFailureDomain")
<1> SUFFICES ASSUME UsesNutanix(r), NEW p \in AllPools(r), NEW ref \in Range(p.fds)
             PROVE  RefExists(r, ref) /\ \A n \in FDs(r, ref) : FailureDomainOK(r, n)
  BY DEF Holds
<1> DEFINE refs == failureDomains(r)
           ss == [k \in DOMAIN refs |-> Resolved(r, "fd", refs[k], bad)]
<1>1. IsList(refs) /\ \A k \in DOMAIN refs : refs[k].kind \in {"fd", "metro", "site"}
  BY FailureDomainsList DEF Range
<1>2. PICK k \in DOMAIN refs : ref = refs[k]
  BY RefsOfPools DEF Refs, Range
<1> DEFINE list == Resolved(r, "fd", ref, bad)
           names == getFailureDomainNames(r, ref, bad)
<1>3. Range(list) \subseteq Range(NutanixList(r, bad))
  <2>1. \A l \in DOMAIN refs : IsList(Resolved(r, "fd", refs[l], bad))
    BY <1>1, ResolvedIsList
  <2>2. Range(FlattenSeq(ss)) = UNION {Range(ss[l]) : l \in DOMAIN refs}
    <3>1. ss = [l \in DOMAIN refs |-> ss[l]] /\ \A l \in DOMAIN refs : IsList(ss[l])
      BY <2>1
    <3> HIDE DEF refs, ss
    <3> QED BY <1>1, <3>1, FlattenRange
  <2>3. ss[k] = list
    BY <1>2
  <2>4. newFailureDomainChecks(r, bad) = FlattenSeq(ss)
    BY DEF newFailureDomainChecks
  <2>5. Range(newFailureDomainChecks(r, bad)) \subseteq Range(NutanixList(r, bad))
    BY NutanixInitHas DEF NutanixList
  <2> HIDE DEF refs, ss, list
  <2> QED BY <1>2, <2>2, <2>3, <2>4, <2>5
<1>4. /\ names.err => Check("fd", {ref.name}, TRUE) \in Range(list)
      /\ ~names.err => /\ RefExists(r, ref)
                       /\ \A n \in FDs(r, ref) : Check("fd", {n}, FALSE) \in Range(list)
  <2>1. ref.kind \in {"fd", "metro", "site"}
    BY <1>1, <1>2
  <2>2. ASSUME getFailureDomainNames(r, ref, bad).err
        PROVE  Check("fd", {ref.name}, TRUE) \in Range(Resolved(r, "fd", ref, bad))
    BY <2>2, UnresolvedReported
  <2>3. ASSUME ~getFailureDomainNames(r, ref, bad).err
        PROVE  /\ RefExists(r, ref)
               /\ \A n \in FDs(r, ref) : Check("fd", {n}, FALSE) \in Range(Resolved(r, "fd", ref, bad))
    <3>1. RefExists(r, ref)
      BY <2>1, <2>3, NamesResolved
    <3>2. \A n \in FDs(r, ref) : Check("fd", {n}, FALSE) \in Range(Resolved(r, "fd", ref, bad))
      BY <2>1, <2>3, ResolvedChecks
    <3> QED BY <3>1, <3>2
  <2> QED BY <2>2, <2>3
<1> HIDE DEF list, names
<1>5. ASSUME names.err PROVE FALSE
  <2> DEFINE c == Check("fd", {ref.name}, TRUE)
  <2>1. c \in Range(NutanixList(r, bad))
    BY <1>3, <1>4, <1>5
  <2>2. Name(c) = "NutanixFailureDomain"
    BY NamesOfKinds
  <2>3. \A b : Run(r, c, b) = RunFailureDomain(r, c, b)
    BY RunsOfKinds
  <2>4. c.err = TRUE
    BY DEF Check
  <2> HIDE DEF c
  <2>5. PICK b : OK(RunFailureDomain(r, c, b))
    BY <2>1, <2>2, <2>3 DEF Passed, Passes
  <2> QED BY <2>4, <2>5, OKVerdicts DEF RunFailureDomain
<1>6. ASSUME NEW n \in FDs(r, ref) PROVE FailureDomainOK(r, n)
  <2> DEFINE c == Check("fd", {n}, FALSE)
  <2>1. c \in Range(NutanixList(r, bad))
    BY <1>3, <1>4, <1>5
  <2>2. Name(c) = "NutanixFailureDomain"
    BY NamesOfKinds
  <2>3. \A b : Run(r, c, b) = RunFailureDomain(r, c, b)
    BY RunsOfKinds
  <2> HIDE DEF c
  <2>5. PICK b : OK(RunFailureDomain(r, c, b))
    BY <2>1, <2>2, <2>3 DEF Passed, Passes
  <2> QED BY <2>5, FailureDomainHolds DEF c
<1> QED BY <1>4, <1>5, <1>6

\* storagecontainer.go, on one Prism Element.
LEMMA ContainersHold ==
    ASSUME NEW r, WellFormed(r), NEW id, NEW bad, OK(ContainersOn(r, id, bad)),
           NEW name \in r.storageClasses
    PROVE  \E pe : ThePE(r, id) = {pe} /\ \E c \in r.containers : c.name = name /\ c.pe = pe
<1> DEFINE pe == ClusterOf(r, id, bad)
           Container(nm) ==
             LET s == getStorageContainers(r, pe.uuid, nm, bad) IN
             IF s.err \/ Cardinality(s.found) > 1 THEN FailInternal("container")
             ELSE IF s.found = {} THEN Fail("container") ELSE Pass
           Class(nm) ==
             IF getClusters(r, id, bad).err THEN FailInternal("pe")
             ELSE IF Cardinality(getClusters(r, id, bad).found) # 1 THEN Fail("pe")
             ELSE IF pe.uuid = "" THEN Panic ELSE Container(nm)
           all == Together({Class(nm) : nm \in r.storageClasses})
<1>1. ContainersOn(r, id, bad) = IF r.storageClasses = {} THEN Pass
                                 ELSE IF id.by = "nil" THEN Panic ELSE all
  BY DEF ContainersOn, ClusterOf
<1>2. OK(Class(name))
  <2> HIDE DEF all
  <2>1. OK(all)
    BY <1>1, OKVerdicts
  <2>2. Class(name) \in {Class(nm) : nm \in r.storageClasses}
    OBVIOUS
  <2> HIDE DEF Class
  <2> QED BY <2>1, <2>2, OKTogether DEF all
<1> HIDE DEF pe
<1>3. OnePEFound(r, id, bad) /\ OK(Container(name))
  <2> HIDE DEF Container
  <2> QED BY <1>2, OKVerdicts DEF OnePEFound, pe
<1>4. ThePE(r, id) = {pe.uuid}
  <2>1. IsFiniteSet(r.pes)
    BY DEF WellFormed, WellFormedWorld
  <2> QED BY <1>3, <2>1, OnePE DEF pe
<1>5. ~getStorageContainers(r, pe.uuid, name, bad).err
      /\ getStorageContainers(r, pe.uuid, name, bad).found # {}
  BY <1>3, OKVerdicts
<1>6. \E c \in r.containers : c.name = name /\ c.pe = pe.uuid
  BY <1>5 DEF getStorageContainers, Err, Found
<1> QED BY <1>4, <1>6

\* The checks of a pool, by Prism Element or by failure domain.
LEMMA StorageChecksHave ==
    ASSUME NEW r, WellFormed(r), r.config = "ok", r.csi # "none", NEW bad, NEW k \in Pools(r),
           ConfigSpec(r)
    PROVE  LET p == Pool(r, k) IN
           /\ p.fds = <<>> =>
                Check("storage", {k}, FALSE) \in Range(newStorageContainerChecks(r, bad))
           /\ \A ref \in Range(p.fds) :
                Range(Resolved(r, "storageFD", ref, bad)) \subseteq Range(newStorageContainerChecks(r, bad))
<1> DEFINE Of(l) == LET p == Pool(r, l) IN
                IF p.fds = <<>> THEN <<Check("storage", {l}, FALSE)>>
                ELSE FlattenSeq([n \in DOMAIN p.fds |-> Resolved(r, "storageFD", p.fds[n], bad)])
           pools == SetToSeq(Pools(r))
           ss == [n \in DOMAIN pools |-> Of(pools[n])]
           Fs(l) == [n \in DOMAIN Pool(r, l).fds |-> Resolved(r, "storageFD", Pool(r, l).fds[n], bad)]
<1>1. ASSUME NEW l \in Pools(r)
      PROVE  /\ IsList(Fs(l)) /\ IsList(FlattenSeq(Fs(l)))
             /\ Range(FlattenSeq(Fs(l))) = UNION {Range(Fs(l)[n]) : n \in DOMAIN Pool(r, l).fds}
             /\ IsList(Of(l))
  <2> DEFINE p == Pool(r, l)
  <2>1. p \in r.cp \cup Range(r.workers)
    BY PoolsFinite
  <2>2. IsList(p.fds) /\ \A n \in DOMAIN p.fds : p.fds[n].kind \in {"fd", "metro", "site"}
    BY <2>1 DEF WellFormed, WellFormedPool, Range
  <2> HIDE DEF p
  <2>3. \A n \in DOMAIN p.fds : IsList(Resolved(r, "storageFD", p.fds[n], bad))
    BY <2>2, ResolvedIsList
  <2> DEFINE fs == [n \in DOMAIN p.fds |-> Resolved(r, "storageFD", p.fds[n], bad)]
  <2>4. fs = [n \in DOMAIN p.fds |-> fs[n]] /\ \A n \in DOMAIN p.fds : IsList(fs[n])
    BY <2>3
  <2> HIDE DEF fs
  <2>5. Range(FlattenSeq(fs)) = UNION {Range(fs[n]) : n \in DOMAIN p.fds}
    BY <2>2, <2>4, FlattenRange
  <2>6. IsList(fs) /\ Len(fs) = Len(p.fds) /\ DOMAIN p.fds = 1 .. Len(p.fds)
    BY <2>2, <2>4, ListFacts, FunctionIsList
  <2>7. IsList(FlattenSeq(fs))
    BY <2>4, <2>6, FlattenList
  <2>8. fs = Fs(l)
    BY DEF fs, p
  <2>9. Of(l) = IF p.fds = <<>> THEN <<Check("storage", {l}, FALSE)>> ELSE FlattenSeq(fs)
    BY DEF fs, p
  <2>10. IsList(Of(l))
    <3>1. IsList(<<Check("storage", {l}, FALSE)>>)
      BY ChecksAreSound, OneSound DEF SoundList
    <3> QED BY <2>7, <2>9, <3>1
  <2> QED BY <2>5, <2>6, <2>7, <2>8, <2>10 DEF p
<1>2. IsList(pools) /\ Range(pools) = Pools(r)
  BY PoolsFinite, SetToSeqList, SetToSeqAll
<1>3. newStorageContainerChecks(r, bad) = FlattenSeq(ss)
  BY DEF newStorageContainerChecks
<1> HIDE DEF Of, pools, Fs
<1>4. Range(FlattenSeq(ss)) = UNION {Range(ss[n]) : n \in DOMAIN pools}
  <2>1. ss = [n \in DOMAIN pools |-> ss[n]] /\ \A n \in DOMAIN pools : IsList(ss[n])
    BY <1>1, <1>2 DEF Range
  <2> HIDE DEF ss
  <2> QED BY <1>2, <2>1, FlattenRange
<1>5. PICK n \in DOMAIN pools : pools[n] = k
  BY <1>2 DEF Range
<1>6. Range(Of(k)) \subseteq Range(newStorageContainerChecks(r, bad))
  <2>1. ss[n] = Of(k)
    BY <1>5
  <2> HIDE DEF ss
  <2> QED BY <1>3, <1>4, <1>5, <2>1
<1>7. ASSUME Pool(r, k).fds = <<>>
      PROVE  Check("storage", {k}, FALSE) \in Range(Of(k))
  BY <1>7, RangeOfOne DEF Of
<1>8. ASSUME NEW ref \in Range(Pool(r, k).fds)
      PROVE  Range(Resolved(r, "storageFD", ref, bad)) \subseteq Range(Of(k))
  <2>1. PICK m \in DOMAIN Pool(r, k).fds : ref = Pool(r, k).fds[m]
    BY <1>8 DEF Range
  <2>2. Fs(k)[m] = Resolved(r, "storageFD", ref, bad)
    BY <2>1 DEF Fs
  <2>3. Pool(r, k).fds # <<>>
    BY <2>1
  <2>4. Of(k) = FlattenSeq(Fs(k))
    BY <2>3 DEF Of, Fs
  <2> QED BY <1>1, <2>1, <2>2, <2>4
<1> QED BY <1>6, <1>7, <1>8

\* What is asked of a pool's checks: those of the list that are not skipped pass.
LEMMA PassedOne ==
    ASSUME NEW r, NEW list, NEW c, Passed(r, list), c \in Range(list), ~For(r, Name(c))
    PROVE  \E b : OK(Run(r, c, b))
  BY DEF Passed, Passes

\* A reference that does not resolve is reported, in the storage checks too.
LEMMA UnresolvedFails ==
    ASSUME NEW r, NEW list, NEW x, Passed(r, list), Check("fd", {x}, TRUE) \in Range(list),
           ~For(r, "NutanixFailureDomain")
    PROVE  FALSE
<1> DEFINE c == Check("fd", {x}, TRUE)
<1>1. Name(c) = "NutanixFailureDomain"
  BY NamesOfKinds
<1>2. \A b : Run(r, c, b) = RunFailureDomain(r, c, b)
  BY RunsOfKinds
<1>3. c.err = TRUE
  BY DEF Check
<1> HIDE DEF c
<1>4. PICK b : OK(RunFailureDomain(r, c, b))
  <2>1. c \in Range(list) /\ ~For(r, Name(c))
    BY <1>1 DEF c
  <2> QED BY <1>2, <2>1, PassedOne
<1> QED BY <1>3, <1>4, OKVerdicts DEF RunFailureDomain

\* storagecontainer.go: on every Prism Element of a pool there is a container for
\* every storage class.
OnElement(r, id) ==
    \A name \in r.storageClasses :
        \E pe : ThePE(r, id) = {pe} /\ \E c \in r.containers : c.name = name /\ c.pe = pe

LEMMA StorageOfPool ==
    ASSUME NEW r, NEW list, NEW k, WellFormed(r), Passed(r, list),
           ~For(r, "NutanixStorageContainer"), Check("storage", {k}, FALSE) \in Range(list)
    PROVE  r.csi # "noClasses" /\ OnElement(r, Pool(r, k).pe)
<1> DEFINE c == Check("storage", {k}, FALSE)
<1>1. Name(c) = "NutanixStorageContainer"
  BY NamesOfKinds
<1>2. \A b : Run(r, c, b) = RunStorage(r, c, b)
  BY RunsOfKinds
<1>3. (CHOOSE x \in c.arg : TRUE) = k /\ c.kind = "storage"
  BY DEF Check
<1> HIDE DEF c
<1>4. PICK b : OK(RunStorage(r, c, b))
  <2>1. c \in Range(list) /\ ~For(r, Name(c))
    BY <1>1 DEF c
  <2> QED BY <1>2, <2>1, PassedOne
<1>5. RunStorage(r, c, b) = IF r.csi = "noClasses" THEN Fail("storageClasses")
                            ELSE ContainersOn(r, Pool(r, k).pe, b)
  <2>1. RunStorage(r, c, b) =
          IF r.csi = "noClasses" THEN Fail("storageClasses")
          ELSE IF c.kind = "storage" THEN ContainersOn(r, Pool(r, CHOOSE x \in c.arg : TRUE).pe, b)
          ELSE IF "fd" \in b THEN FailInternal("fd")
          ELSE IF (CHOOSE x \in c.arg : TRUE) \notin DOMAIN r.fds THEN Fail("fd")
          ELSE ContainersOn(r, r.fds[CHOOSE x \in c.arg : TRUE].pe, b)
    BY DEF RunStorage
  <2> QED BY <1>3, <2>1
<1>6. r.csi # "noClasses" /\ OK(ContainersOn(r, Pool(r, k).pe, b))
  BY <1>4, <1>5, OKVerdicts
<1> QED BY <1>6, ContainersHold DEF OnElement

LEMMA StorageOfDomain ==
    ASSUME NEW r, NEW list, NEW n, WellFormed(r), Passed(r, list),
           ~For(r, "NutanixStorageContainer"), Check("storageFD", {n}, FALSE) \in Range(list)
    PROVE  r.csi # "noClasses" /\ OnElement(r, r.fds[n].pe)
<1> DEFINE c == Check("storageFD", {n}, FALSE)
<1>1. Name(c) = "NutanixStorageContainer"
  BY NamesOfKinds
<1>2. \A b : Run(r, c, b) = RunStorage(r, c, b)
  BY RunsOfKinds
<1>3. (CHOOSE x \in c.arg : TRUE) = n /\ c.kind = "storageFD"
  BY DEF Check
<1> HIDE DEF c
<1>4. PICK b : OK(RunStorage(r, c, b))
  <2>1. c \in Range(list) /\ ~For(r, Name(c))
    BY <1>1 DEF c
  <2> QED BY <1>2, <2>1, PassedOne
<1>5. RunStorage(r, c, b) = IF r.csi = "noClasses" THEN Fail("storageClasses")
                            ELSE IF "fd" \in b THEN FailInternal("fd")
                            ELSE IF n \notin DOMAIN r.fds THEN Fail("fd")
                            ELSE ContainersOn(r, r.fds[n].pe, b)
  <2>1. RunStorage(r, c, b) =
          IF r.csi = "noClasses" THEN Fail("storageClasses")
          ELSE IF c.kind = "storage" THEN ContainersOn(r, Pool(r, CHOOSE x \in c.arg : TRUE).pe, b)
          ELSE IF "fd" \in b THEN FailInternal("fd")
          ELSE IF (CHOOSE x \in c.arg : TRUE) \notin DOMAIN r.fds THEN Fail("fd")
          ELSE ContainersOn(r, r.fds[CHOOSE x \in c.arg : TRUE].pe, b)
    BY DEF RunStorage
  <2> QED BY <1>3, <2>1
<1>6. r.csi # "noClasses" /\ OK(ContainersOn(r, r.fds[n].pe, b))
  BY <1>4, <1>5, OKVerdicts
<1> QED BY <1>6, ContainersHold DEF OnElement

LEMMA StorageHolds ==
    ASSUME NEW r, NEW bad, WellFormed(r), r.config = "ok", Passed(r, NutanixList(r, bad)),
           UsesNutanix(r) => IsReady(r, For(r, "NutanixPrismCentralVersion"), bad),
           ~For(r, "NutanixFailureDomain"), ~For(r, "NutanixStorageContainer")
    PROVE  Holds(r, "NutanixStorageContainer")
<1> DEFINE list == NutanixList(r, bad)
<1> SUFFICES ASSUME NEW p \in AllPools(r), r.csi # "none", p.nutanix
             PROVE  /\ r.csi # "noClasses"
                    /\ \A n \in r.storageClasses :
                         /\ PoolPEs(r, p) # {}
                         /\ \A pe \in PoolPEs(r, p) :
                              \E c \in r.containers : c.name = n /\ c.pe = pe
  BY DEF Holds, WellFormed
<1>1. PICK k \in Pools(r) : Pool(r, k) = p
  BY IndexOfPool
<1>2. IsReady(r, For(r, "NutanixPrismCentralVersion"), bad) /\ ConfigSpec(r)
  BY PoolsUseNutanix DEF IsReady, nclient
<1>3. Range(newStorageContainerChecks(r, bad)) \subseteq Range(list)
  BY <1>2, NutanixInitHas DEF NutanixList
<1> HIDE DEF list
<1>4. /\ p.fds = <<>> => Check("storage", {k}, FALSE) \in Range(list)
      /\ \A ref \in Range(p.fds) : Range(Resolved(r, "storageFD", ref, bad)) \subseteq Range(list)
  <2>1. /\ p.fds = <<>> =>
             Check("storage", {k}, FALSE) \in Range(newStorageContainerChecks(r, bad))
        /\ \A ref \in Range(p.fds) :
             Range(Resolved(r, "storageFD", ref, bad)) \subseteq Range(newStorageContainerChecks(r, bad))
    BY <1>1, <1>2, StorageChecksHave
  <2> QED BY <1>3, <2>1
<1>5. CASE p.fds = <<>>
  <2>1. r.csi # "noClasses" /\ OnElement(r, p.pe)
    BY <1>1, <1>4, <1>5, StorageOfPool DEF list
  <2>2. PoolPEs(r, p) = ThePE(r, p.pe)
    BY <1>5 DEF PoolPEs
  <2> QED BY <2>1, <2>2 DEF OnElement
<1>6. CASE p.fds # <<>>
  <2>1. IsList(p.fds) /\ \A ref \in Range(p.fds) : ref.kind \in {"fd", "metro", "site"}
    BY DEF WellFormed, WellFormedPool, AllPools
  <2>2. PoolPEs(r, p) = UNION {ThePE(r, r.fds[n].pe) : n \in PoolFDs(r, p)}
    BY <1>6 DEF PoolPEs
  <2>3. ASSUME NEW ref \in Range(p.fds)
        PROVE  /\ FDs(r, ref) # {}
               /\ \A n \in FDs(r, ref) : r.csi # "noClasses" /\ OnElement(r, r.fds[n].pe)
    <3>1. ref.kind \in {"fd", "metro", "site"}
      BY <2>1
    <3>2. ~getFailureDomainNames(r, ref, bad).err
      <4>1. ASSUME getFailureDomainNames(r, ref, bad).err PROVE FALSE
        <5>1. Check("fd", {ref.name}, TRUE) \in Range(list)
          BY <1>4, <4>1, UnresolvedReported
        <5> QED BY <5>1, UnresolvedFails DEF list
      <4> QED BY <4>1
    <3>3. RefExists(r, ref)
      BY <3>1, <3>2, NamesResolved
    <3>4. \A n \in FDs(r, ref) : Check("storageFD", {n}, FALSE) \in Range(list)
      <4>1. \A n \in FDs(r, ref) : Check("storageFD", {n}, FALSE) \in Range(Resolved(r, "storageFD", ref, bad))
        BY <3>1, <3>2, ResolvedChecks
      <4> QED BY <1>4, <4>1
    <3>5. FDs(r, ref) # {}
      BY <3>1, <3>3, FDsFinite
    <3>6. \A n \in FDs(r, ref) : r.csi # "noClasses" /\ OnElement(r, r.fds[n].pe)
      BY <3>4, StorageOfDomain DEF list
    <3> QED BY <3>5, <3>6
  <2>4. PICK ref : ref \in Range(p.fds)
    <3>1. Range(p.fds) # {}
      <4>1. p.fds \in Seq(Range(p.fds))
        BY <2>1 DEF IsList
      <4> HIDE DEF IsList
      <4>2. Len(p.fds) \in Nat /\ Len(p.fds) # 0 /\ DOMAIN p.fds = 1 .. Len(p.fds)
        BY <1>6, <4>1, EmptySeq
      <4>3. 1 \in DOMAIN p.fds
        BY <4>2
      <4> QED BY <4>3 DEF Range
    <3> QED BY <3>1
  <2>5. r.csi # "noClasses" /\ PoolFDs(r, p) # {}
    BY <2>3, <2>4 DEF PoolFDs
  <2>6. \A n \in PoolFDs(r, p) : OnElement(r, r.fds[n].pe)
    BY <2>3 DEF PoolFDs
  <2>7. ASSUME NEW name \in r.storageClasses
        PROVE  /\ PoolPEs(r, p) # {}
               /\ \A pe \in PoolPEs(r, p) : \E c \in r.containers : c.name = name /\ c.pe = pe
    <3>1. \A n \in PoolFDs(r, p) :
             \E pe : ThePE(r, r.fds[n].pe) = {pe} /\ \E c \in r.containers : c.name = name /\ c.pe = pe
      BY <2>6 DEF OnElement
    <3>2. \A n \in PoolFDs(r, p) : ThePE(r, r.fds[n].pe) # {}
      BY <3>1
    <3>3. \A n \in PoolFDs(r, p) : \A pe \in ThePE(r, r.fds[n].pe) :
             \E c \in r.containers : c.name = name /\ c.pe = pe
      BY <3>1
    <3> QED BY <2>2, <2>5, <3>2, <3>3
  <2> QED BY <2>5, <2>7
<1> QED BY <1>5, <1>6

\* A set of natural numbers has a least element.
LEMMA LeastOf ==
    ASSUME NEW T, T \subseteq Nat, NEW n \in T
    PROVE  \E m \in T : \A l \in T : m <= l
<1> DEFINE S == {j \in Nat : (\E x \in T : x <= j) => \E m \in T : \A l \in T : m <= l}
<1>1. 0 \in S
  OBVIOUS
<1>2. ASSUME NEW j \in Nat, j \in S PROVE j + 1 \in S
  <2>1. CASE \E x \in T : x <= j
    BY <1>2, <2>1
  <2>2. CASE ~\E x \in T : x <= j
    <3>1. \A l \in T : j + 1 <= l
      BY <2>2
    <3>2. (\E x \in T : x <= j + 1) => j + 1 \in T
      BY <3>1
    <3> QED BY <3>1, <3>2
  <2> QED BY <2>1, <2>2
<1> HIDE DEF S
<1>3. n \in S
  BY <1>1, <1>2, Induct
<1> QED BY <1>3 DEF S

\* The subnets of a pool, as collectNutanixSubnets lists them.
SubnetsOf(r, k) == [n \in DOMAIN Pool(r, k).subnets |->
                       [id |-> Pool(r, k).subnets[n], pe |-> Pool(r, k).pe]]

LEMMA SubnetsOfPool ==
    ASSUME NEW r, NEW k, WellFormed(r), k \in Pools(r)
    PROVE  /\ IsList(SubnetsOf(r, k))
           /\ \A id \in Range(Pool(r, k).subnets) :
                 [id |-> id, pe |-> Pool(r, k).pe] \in Range(SubnetsOf(r, k))
           /\ \A x \in Range(SubnetsOf(r, k)) :
                 x.id \in Range(Pool(r, k).subnets) /\ x.pe = Pool(r, k).pe
<1> DEFINE p == Pool(r, k)
           s == SubnetsOf(r, k)
<1>1. p \in r.cp \cup Range(r.workers)
  BY PoolsFinite
<1>2. IsList(p.subnets)
  BY <1>1 DEF WellFormed, WellFormedPool
<1>3. Len(p.subnets) \in Nat /\ DOMAIN p.subnets = 1 .. Len(p.subnets)
  BY <1>2, ListFacts
<1>4. s = [n \in 1 .. Len(p.subnets) |-> s[n]] /\ DOMAIN s = DOMAIN p.subnets
  BY <1>3 DEF SubnetsOf
<1>5. IsList(s)
  <2> HIDE DEF p, s
  <2> QED BY <1>3, <1>4, FunctionIsList
<1>6. \A n \in DOMAIN p.subnets : s[n] = [id |-> p.subnets[n], pe |-> p.pe]
  BY DEF SubnetsOf
<1> HIDE DEF p, s
<1>7. \A id \in Range(p.subnets) : [id |-> id, pe |-> p.pe] \in Range(s)
  BY <1>4, <1>6 DEF Range
<1>8. \A x \in Range(s) : x.id \in Range(p.subnets) /\ x.pe = p.pe
  <2> SUFFICES ASSUME NEW n \in DOMAIN s PROVE s[n].id \in Range(p.subnets) /\ s[n].pe = p.pe
    BY DEF Range
  <2>1. s[n] = [id |-> p.subnets[n], pe |-> p.pe] /\ p.subnets[n] \in Range(p.subnets)
    BY <1>4, <1>6 DEF Range
  <2> QED BY <2>1
<1> QED BY <1>5, <1>7, <1>8 DEF p, s

\* With a configuration, those of every pool are collected, and no others.
LEMMA CollectedSubnets ==
    ASSUME NEW r, WellFormed(r)
    PROVE  /\ IsList(collectNutanixSubnets(r))
           /\ \A k \in Pools(r) : Range(SubnetsOf(r, k)) \subseteq Range(collectNutanixSubnets(r))
           /\ \A x \in Range(collectNutanixSubnets(r)) :
                 \E k \in Pools(r) : x \in Range(SubnetsOf(r, k))
<1> DEFINE order == <<0>> \o r.order
           ss == [n \in DOMAIN order |-> IF order[n] \in Pools(r) THEN SubnetsOf(r, order[n]) ELSE <<>>]
<1>1. IsList(order) /\ Range(order) = {0} \cup DOMAIN r.workers
  <2>1. IsList(<<0>>) /\ Range(<<0>>) = {0}
    <3>1. <<0>> \in Seq({0}) /\ Range(<<0>>) = {0}
      BY DEF Range
    <3> QED BY <3>1, ListOf
  <2>2. IsList(r.order) /\ Range(r.order) = DOMAIN r.workers
    BY DEF WellFormed
  <2> QED BY <2>1, <2>2, ConcatList
<1>2. Pools(r) \subseteq Range(order)
  BY <1>1 DEF Pools, WorkerConfigs
<1>3. collectNutanixSubnets(r) = FlattenSeq(ss)
  BY Zenon DEF collectNutanixSubnets, SubnetsOf
<1> HIDE DEF order
<1>4. \A n \in DOMAIN order : IsList(ss[n])
  BY SubnetsOfPool, EmptySound DEF SoundList
<1>5. ss = [n \in DOMAIN order |-> ss[n]] /\ DOMAIN ss = DOMAIN order
  OBVIOUS
<1>6. \A n \in DOMAIN order : order[n] \in Pools(r) => ss[n] = SubnetsOf(r, order[n])
  OBVIOUS
<1>7. \A n \in DOMAIN order : order[n] \notin Pools(r) => Range(ss[n]) = {}
  BY DEF Range
<1> HIDE DEF ss
<1>8. Range(FlattenSeq(ss)) = UNION {Range(ss[n]) : n \in DOMAIN order}
  BY <1>1, <1>4, <1>5, FlattenRange
<1>9. IsList(FlattenSeq(ss))
  <2>1. Len(order) \in Nat /\ DOMAIN order = 1 .. Len(order)
    BY <1>1, ListFacts
  <2>2. IsList(ss) /\ Len(ss) = Len(order)
    BY <1>5, <2>1, FunctionIsList
  <2>3. \A n \in 1 .. Len(ss) : IsList(ss[n])
    BY <1>4, <2>1, <2>2
  <2> QED BY <2>2, <2>3, FlattenList
<1>10. ASSUME NEW k \in Pools(r) PROVE Range(SubnetsOf(r, k)) \subseteq Range(FlattenSeq(ss))
  <2>1. PICK n \in DOMAIN order : order[n] = k
    BY <1>2 DEF Range
  <2>2. ss[n] = SubnetsOf(r, k)
    BY <1>6, <2>1
  <2> QED BY <1>8, <2>1, <2>2
<1>11. ASSUME NEW x \in Range(FlattenSeq(ss)) PROVE \E k \in Pools(r) : x \in Range(SubnetsOf(r, k))
  <2>1. PICK n \in DOMAIN order : x \in Range(ss[n])
    BY <1>8
  <2>2. order[n] \in Pools(r)
    BY <1>7, <2>1
  <2> QED BY <1>6, <2>1, <2>2
<1> QED BY <1>3, <1>9, <1>10, <1>11

\* Filtered by its Prism Element, a pool's subnet stays.
LEMMA FilterKeeps ==
    ASSUME NEW r, NEW S, NEW pe, NEW b, NEW s, WellFormed(r), s \in S,
           s.pe = "" \/ {s.pe} = ThePE(r, pe)
    PROVE  s \in filterSubnetsByPECluster(r, S, pe, b)
<1> DEFINE pes == getClusters(r, pe, b)
<1>1. filterSubnetsByPECluster(r, S, pe, b) =
        IF pe.by = "nil" THEN S
        ELSE IF pe.by = "uuid" THEN OnPE(S, pe.v)
        ELSE IF pes.err \/ Cardinality(pes.found) # 1 THEN S
        ELSE OnPE(S, (CHOOSE x \in pes.found : TRUE).uuid)
  BY DEF filterSubnetsByPECluster
<1>2. CASE pe.by = "uuid"
  <2>1. s.pe = "" \/ s.pe = pe.v
    BY <1>2 DEF ThePE, Named
  <2>2. s \in OnPE(S, pe.v)
    BY <2>1 DEF OnPE
  <2> QED BY <1>1, <1>2, <2>2
<1>3. CASE pe.by # "uuid" /\ ~pes.err /\ Cardinality(pes.found) = 1
  <2> DEFINE x == CHOOSE x \in pes.found : TRUE
  <2>1. ~getClusters(r, pe, b).err
    BY <1>3
  <2>2. pes.found = Named(r.pes, pe)
    BY <2>1, LookedUp DEF getClusters
  <2>3. IsFiniteSet(pes.found)
    <3>1. IsFiniteSet(r.pes)
      BY DEF WellFormed, WellFormedWorld
    <3>2. IsFiniteSet(Named(r.pes, pe))
      BY <3>1, NamedFinite
    <3> QED BY <2>2, <3>2
  <2>4. pes.found = {x}
    <3> HIDE DEF pes
    <3> QED BY <1>3, <2>3, OneElement
  <2>5. ThePE(r, pe) \subseteq {x.uuid}
    <3>1. Named(r.pes, pe) = {x}
      BY <2>2, <2>4
    <3> HIDE DEF x, pes
    <3> QED BY <3>1 DEF ThePE
  <2> HIDE DEF x, pes
  <2>6. s \in OnPE(S, x.uuid)
    BY <2>5 DEF OnPE
  <2> QED BY <1>1, <1>3, <2>6 DEF x
<1>4. CASE pe.by # "uuid" /\ (pes.err \/ Cardinality(pes.found) # 1)
  BY <1>1, <1>4
<1> QED BY <1>2, <1>3, <1>4

LEMMA SubnetsFound ==
    ASSUME NEW r, NEW id, NEW bad, ~getSubnets(r, id, bad).err
    PROVE  getSubnets(r, id, bad).found = Named(r.subnets, id)
  BY LookedUp DEF getSubnets

\* What is found or an error.
LEMMA FoundOrErr == ASSUME NEW x, NEW S, x = Err \/ x = Found(S), ~x.err PROVE x = Found(S) /\ x.found = S
  BY DEF Err, Found

\* The prefixes of a subnet on the pool's Prism Element are among those found for it.
LEMMA PrefixesKept ==
    ASSUME NEW r, NEW id, NEW pe, NEW b, NEW s, WellFormed(r),
           ~prefixesOf(r, [id |-> id, pe |-> pe], b).err,
           s \in Named(r.subnets, id), s.pe = "" \/ {s.pe} = ThePE(r, pe)
    PROVE  s.prefixes \subseteq prefixesOf(r, [id |-> id, pe |-> pe], b).found
<1> DEFINE sub == [id |-> id, pe |-> pe]
           got == getSubnets(r, id, b)
           kept == IF id.by = "name" /\ Cardinality(got.found) > 1
                   THEN filterSubnetsByPECluster(r, got.found, pe, b) ELSE got.found
           all == UNION {x.prefixes : x \in kept}
<1>1. prefixesOf(r, sub, b) = IF got.err \/ Cardinality(kept) # 1 \/ BadCIDR \in all THEN Err
                              ELSE Found(all)
  BY DEF prefixesOf
<1>2. ~got.err /\ prefixesOf(r, sub, b).found = all
  <2>1. prefixesOf(r, sub, b) = IF got.err \/ Cardinality(kept) # 1 \/ BadCIDR \in all THEN Err
                                ELSE Found(all)
    BY <1>1
  <2>2. ~prefixesOf(r, sub, b).err
    OBVIOUS
  <2> HIDE DEF all, kept, got, sub
  <2>3. Err.err = TRUE
    BY DEF Err
  <2> QED BY <2>1, <2>2, <2>3, FoundOrErr
<1> HIDE DEF kept
<1>3. got.found = Named(r.subnets, id)
  <2>1. ~getSubnets(r, id, b).err
    BY <1>2
  <2> QED BY <2>1, SubnetsFound
<1>4. s \in kept
  <2>1. s \in filterSubnetsByPECluster(r, got.found, pe, b)
    BY <1>3, FilterKeeps
  <2> QED BY <1>3, <2>1 DEF kept
<1> QED BY <1>2, <1>4

\* The first entry of a list with the same identifier.
Earliest(subs, n, m) == subs[m].id = subs[n].id /\ \A l \in 1 .. m - 1 : subs[l].id # subs[n].id
FirstOf(subs, n) == CHOOSE m \in 1 .. n : Earliest(subs, n, m)

LEMMA FirstExists ==
    ASSUME NEW subs, NEW n, IsList(subs), n \in DOMAIN subs
    PROVE  FirstOf(subs, n) \in DOMAIN subs /\ subs[FirstOf(subs, n)].id = subs[n].id
<1> DEFINE T == {m \in 1 .. n : subs[m].id = subs[n].id}
<1>1. n \in Nat /\ n > 0 /\ 1 .. n \subseteq Nat /\ 1 .. n \subseteq DOMAIN subs
  BY ListFacts
<1>2. n \in 1 .. n /\ T \subseteq 1 .. n
  BY <1>1
<1>3. T \subseteq Nat /\ n \in T
  BY <1>1, <1>2
<1>4. PICK m \in T : \A l \in T : m <= l
  <2> HIDE DEF T
  <2> QED BY <1>3, LeastOf
<1>5. m \in 1 .. n /\ Earliest(subs, n, m)
  <2>1. m \in Nat /\ m <= n
    BY <1>1, <1>4
  <2>2. \A l \in 1 .. m - 1 : l \in 1 .. n /\ ~(m <= l)
    BY <1>1, <2>1
  <2>3. \A l \in 1 .. m - 1 : l \notin T
    BY <1>4, <2>2
  <2> QED BY <1>4, <2>2, <2>3 DEF Earliest
<1>6. FirstOf(subs, n) \in 1 .. n /\ Earliest(subs, n, FirstOf(subs, n))
  BY <1>5 DEF FirstOf
<1> QED BY <1>1, <1>6 DEF Earliest

LEMMA EmptyRange == Range(<<>>) = {} /\ \A s : Range(s) # {} => s # <<>>
  BY DEF Range

\* resolveNodeSubnets, entry by entry.
EntryOf(r, n, b) == prefixesOf(r, collectNutanixSubnets(r)[FirstOf(collectNutanixSubnets(r), n)], b)

LEMMA ResolvedEntries ==
    ASSUME NEW r, NEW b, NEW n, ~resolveNodeSubnets(r, b).err, n \in DOMAIN collectNutanixSubnets(r)
    PROVE  ~EntryOf(r, n, b).err /\ EntryOf(r, n, b).found \subseteq resolveNodeSubnets(r, b).found
<1> DEFINE subs == collectNutanixSubnets(r)
           all == UNION {EntryOf(r, m, b).found : m \in DOMAIN subs}
           some == \E m \in DOMAIN subs : EntryOf(r, m, b).err
<1>1. resolveNodeSubnets(r, b) = IF some THEN Err ELSE Found(all)
  BY Zenon DEF resolveNodeSubnets, EntryOf, FirstOf, Earliest
<1> HIDE DEF all, some
<1>2. Err.err = TRUE
  BY DEF Err
<1>3. ~some /\ resolveNodeSubnets(r, b).found = all
  BY <1>1, <1>2, FoundOrErr
<1> QED BY <1>3 DEF all, some

\* Every subnet of every pool is among those resolved: its prefixes are those found
\* for the first reference of that name.
LEMMA NodesResolved ==
    ASSUME NEW r, NEW b, NEW p, NEW id, NEW s, WellFormed(r), r.config = "ok",
           ~SharedSubnetName(r), ~resolveNodeSubnets(r, b).err,
           p \in AllPools(r), p.nutanix, id \in Range(p.subnets),
           s \in Named(r.subnets, id), s.pe = "" \/ {s.pe} = ThePE(r, p.pe)
    PROVE  s.prefixes \subseteq resolveNodeSubnets(r, b).found
<1> DEFINE subs == collectNutanixSubnets(r)
           sub == [id |-> id, pe |-> p.pe]
<1>1. PICK k \in Pools(r) : Pool(r, k) = p
  BY IndexOfPool
<1>2. IsList(subs) /\ sub \in Range(subs)
  <2>1. sub \in Range(SubnetsOf(r, k))
    BY <1>1, SubnetsOfPool
  <2> HIDE DEF sub
  <2> QED BY <2>1, CollectedSubnets
<1>3. PICK n : n \in DOMAIN subs /\ subs[n] = sub
  <2> HIDE DEF subs, sub
  <2> QED BY <1>2 DEF Range
<1> DEFINE x == subs[FirstOf(subs, n)]
<1>4. x \in Range(subs) /\ x.id = id
  <2>1. FirstOf(subs, n) \in DOMAIN subs /\ x.id = sub.id
    <3> HIDE DEF subs, sub
    <3> QED BY <1>2, <1>3, FirstExists
  <2> QED BY <2>1 DEF Range
<1>5. PICK l \in Pools(r) : x \in Range(SubnetsOf(r, l))
  BY <1>4, CollectedSubnets
<1>6. Pool(r, l).pe = p.pe
  <2>1. x.id \in Range(Pool(r, l).subnets) /\ x.pe = Pool(r, l).pe
    BY <1>5, SubnetsOfPool
  <2>2. Pool(r, l) \in AllPools(r)
    BY PoolsFinite DEF AllPools
  <2> HIDE DEF x
  <2>3. id \in Range(Pool(r, l).subnets) \cap Range(p.subnets)
    BY <1>4, <2>1
  <2> QED BY <2>2, <2>3 DEF SharedSubnetName
<1>7. x = sub
  <2>1. PICK j \in DOMAIN Pool(r, l).subnets : x = [id |-> Pool(r, l).subnets[j], pe |-> Pool(r, l).pe]
    <3> HIDE DEF x
    <3> QED BY <1>5 DEF SubnetsOf, Range
  <2> HIDE DEF x
  <2> QED BY <1>4, <1>6, <2>1
<1>8. EntryOf(r, n, b) = prefixesOf(r, sub, b)
  BY <1>7 DEF EntryOf
<1>9. ~prefixesOf(r, sub, b).err /\ prefixesOf(r, sub, b).found \subseteq resolveNodeSubnets(r, b).found
  <2> HIDE DEF sub
  <2> QED BY <1>3, <1>8, ResolvedEntries
<1>10. s.prefixes \subseteq prefixesOf(r, sub, b).found
  BY <1>9, PrefixesKept
<1> QED BY <1>9, <1>10

\* cidrvalidation.go
LEMMA CIDRHolds ==
    ASSUME NEW r, NEW bad, WellFormed(r), r.config = "ok", Passed(r, NutanixList(r, bad)),
           UsesNutanix(r) => nclient(r, bad),
           ~For(r, "NutanixCIDRValidation"), ~SharedSubnetName(r)
    PROVE  Holds(r, "NutanixCIDRValidation")
<1> DEFINE client == nclient(r, bad)
           c == Check("cidr", {client}, FALSE)
<1>1. c \in Range(NutanixList(r, bad))
  BY NutanixInitHas DEF NutanixList
<1>2. Name(c) = "NutanixCIDRValidation"
  BY NamesOfKinds
<1>3. \A b : Run(r, c, b) = RunCIDR(r, TRUE \in c.arg, b)
  <2>1. c.arg = {client}
    BY DEF Check
  <2>2. \A b : Run(r, c, b) = RunCIDR(r, TRUE \in {client}, b)
    <3> HIDE DEF client
    <3> QED BY RunsOfKinds
  <2> QED BY <2>1, <2>2
<1>4. client => TRUE \in c.arg
  BY Zenon DEF Check
<1> HIDE DEF c, client
<1>5. PICK b : OK(RunCIDR(r, TRUE \in c.arg, b))
  BY <1>1, <1>2, <1>3, PassedOne
<1> DEFINE pods == parseCIDRBlocks(r.pods)
           services == parseCIDRBlocks(r.services)
           nodes == resolveNodeSubnets(r, b)
           parse == IF BadCIDR \in r.pods \cup r.services THEN Fail("parse") ELSE Pass
           own == {parse, NotOverlapping(pods, services, "podService")}
                  \cup {validatePodCIDR(x) : x \in pods} \cup {validateServiceCIDR(x) : x \in services}
           over == {NotOverlapping(pods, nodes.found, "podNode"),
                    NotOverlapping(services, nodes.found, "serviceNode")}
<1>6. RunCIDR(r, TRUE \in c.arg, b) =
        IF collectNutanixSubnets(r) = <<>> \/ ~(TRUE \in c.arg) THEN Together(own)
        ELSE IF resolvePanics(r, b) THEN Panic
        ELSE IF nodes.err THEN Together(own \cup {FailInternal("resolve")})
        ELSE Together(own \cup over)
  BY Zenon DEF RunCIDR
<1> HIDE DEF pods, services, nodes, own, over
<1>7. /\ \A x \in own : OK(x)
      /\ collectNutanixSubnets(r) # <<>> /\ client => ~nodes.err /\ \A x \in over : OK(x)
  <2>1. CASE collectNutanixSubnets(r) = <<>> \/ ~(TRUE \in c.arg)
    <3>1. OK(Together(own))
      BY <1>5, <1>6, <2>1
    <3>2. \A x \in own : OK(x)
      BY <3>1, OKTogether
    <3> QED BY <1>4, <2>1, <3>2
  <2>0. collectNutanixSubnets(r) = <<>> \/ ~(TRUE \in c.arg) \/ ~resolvePanics(r, b)
    BY <1>5, <1>6, OKVerdicts
  <2>2. CASE ~(collectNutanixSubnets(r) = <<>> \/ ~(TRUE \in c.arg)) /\ nodes.err
    <3>1. OK(Together(own \cup {FailInternal("resolve")}))
      BY <1>5, <1>6, <2>0, <2>2
    <3>2. FailInternal("resolve") \in own \cup {FailInternal("resolve")}
      OBVIOUS
    <3>3. OK(FailInternal("resolve"))
      BY <3>1, <3>2, OKTogether
    <3> QED BY <3>3, OKVerdicts
  <2>3. CASE ~(collectNutanixSubnets(r) = <<>> \/ ~(TRUE \in c.arg)) /\ ~nodes.err
    <3>1. OK(Together(own \cup over))
      BY <1>5, <1>6, <2>0, <2>3
    <3>2. \A x \in own \cup over : OK(x)
      BY <3>1, OKTogether
    <3> QED BY <2>3, <3>2
  <2> QED BY <2>1, <2>2, <2>3
<1>8. BadCIDR \notin r.pods \cup r.services
  <2>1. OK(parse)
    BY <1>7 DEF own
  <2> QED BY <2>1, OKVerdicts
<1>9. pods = r.pods /\ services = r.services
  BY <1>8 DEF pods, services, parseCIDRBlocks
<1>10. \A S, T, cause : OK(NotOverlapping(S, T, cause)) => \A x \in S, y \in T : Clear(x, y)
  BY OKVerdicts DEF NotOverlapping, prefixesOverlap, Clear
<1>11. \A x \in r.pods : x.bits < 24
  <2> SUFFICES ASSUME NEW x \in r.pods PROVE x.bits < 24
    OBVIOUS
  <2>1. OK(validatePodCIDR(x))
    BY <1>7, <1>9 DEF own
  <2>2. x.bits \in Nat
    BY DEF WellFormed
  <2> QED BY <2>1, <2>2, OKVerdicts DEF validatePodCIDR
<1>12. \A x \in r.services : x.bits < 24
  <2> SUFFICES ASSUME NEW x \in r.services PROVE x.bits < 24
    OBVIOUS
  <2>1. OK(validateServiceCIDR(x))
    BY <1>7, <1>9 DEF own
  <2>2. x.bits \in Nat
    BY DEF WellFormed
  <2> QED BY <2>1, <2>2, OKVerdicts DEF validateServiceCIDR
<1>13. \A x \in r.pods, y \in r.services : Clear(x, y)
  <2>1. OK(NotOverlapping(pods, services, "podService"))
    BY <1>7 DEF own
  <2> QED BY <1>9, <1>10, <2>1
<1>14. ASSUME NEW x \in Blocks(r), NEW p \in AllPools(r), NEW s \in PoolSubnets(r, p), NEW y \in s.prefixes
       PROVE  Clear(x, y)
  <2> DEFINE Of(id) == {z \in Named(r.subnets, id) : z.pe = "" \/ {z.pe} = ThePE(r, p.pe)}
  <2>0. PoolSubnets(r, p) = UNION {Of(id) : id \in Range(p.subnets)}
    BY DEF PoolSubnets
  <2>1. PICK id \in Range(p.subnets) : s \in Named(r.subnets, id) /\ (s.pe = "" \/ {s.pe} = ThePE(r, p.pe))
    <3>1. PICK id \in Range(p.subnets) : s \in Of(id)
      <4> HIDE DEF Of
      <4> QED BY <2>0
    <3> QED BY <3>1
  <2>2. p.nutanix
    <3>1. WellFormedPool(p)
      BY PoolsAreWellFormed
    <3>2. p.subnets # <<>>
      BY <2>1, EmptyRange
    <3> QED BY <3>1, <3>2 DEF WellFormedPool
  <2>3. client
    BY <2>2, PoolsUseNutanix DEF client
  <2>4. collectNutanixSubnets(r) # <<>>
    <3>1. PICK k \in Pools(r) : Pool(r, k) = p
      BY <2>2, IndexOfPool
    <3>2. [id |-> id, pe |-> p.pe] \in Range(collectNutanixSubnets(r))
      BY <2>1, <3>1, SubnetsOfPool, CollectedSubnets
    <3> QED BY <3>2, EmptyRange
  <2>5. ~nodes.err /\ \A z \in over : OK(z)
    BY <1>7, <2>3, <2>4
  <2>6. y \in nodes.found
    <3>1. ~resolveNodeSubnets(r, b).err
      BY <2>5 DEF nodes
    <3>2. s.prefixes \subseteq resolveNodeSubnets(r, b).found
      BY <2>1, <2>2, <3>1, NodesResolved
    <3> QED BY <3>2 DEF nodes
  <2>7. OK(NotOverlapping(pods, nodes.found, "podNode"))
        /\ OK(NotOverlapping(services, nodes.found, "serviceNode"))
    BY <2>5 DEF over
  <2> QED BY <1>9, <1>10, <2>6, <2>7 DEF Blocks
<1> QED BY <1>8, <1>11, <1>12, <1>13, <1>14 DEF Holds, Blocks

\* newMetroChecks keeps every check.
Over(r, kind, bad) ==
    Check(kind, clusterFailureDomainNames(r, bad).found, clusterFailureDomainNames(r, bad).err)

LEMMA MetroChecksHave ==
    ASSUME NEW r, NEW bad, WellFormed(r)
    PROVE  /\ \A n \in metroNames(r, bad) : Check("metro", {n}, FALSE) \in Range(newMetroChecks(r, bad))
           /\ \A n \in unresolvedMetros(r, bad) :
                 Check("metro", {n}, TRUE) \in Range(newMetroChecks(r, bad))
           /\ Cardinality(metroNames(r, bad)) > 1 =>
                 Check("singleMetro", metroNames(r, bad), FALSE) \in Range(newMetroChecks(r, bad))
           /\ metroNames(r, bad) # {} =>
                 {Over(r, "scale", bad), Over(r, "hosting", bad), Over(r, "latency", bad),
                  Check("nodePools", {}, FALSE), Check("sites", metroNames(r, bad), FALSE),
                  Check("vha", metroNames(r, bad), FALSE)} \subseteq Range(newMetroChecks(r, bad))
<1> DEFINE names == metroNames(r, bad)
           lost == unresolvedMetros(r, bad)
           S == {Check("metro", {n}, FALSE) : n \in names}
           T == {Check("metro", {n}, TRUE) : n \in lost}
           f == [n \in names |-> Check("metro", {n}, FALSE)]
           g == [n \in lost |-> Check("metro", {n}, TRUE)]
           one == Check("singleMetro", names, FALSE)
           c1 == Over(r, "scale", bad)
           c2 == Over(r, "hosting", bad)
           c3 == Over(r, "latency", bad)
           c4 == Check("nodePools", {}, FALSE)
           c5 == Check("sites", names, FALSE)
           c6 == Check("vha", names, FALSE)
           a == SetToSeq(S \cup T)
           b == IF Cardinality(names) > 1 THEN <<one>> ELSE <<>>
           c == IF names = {} THEN <<>> ELSE <<c1, c2, c3, c4, c5, c6>>
<1>1. newMetroChecks(r, bad) = a \o b \o c
  BY Zenon DEF newMetroChecks, Over
<1>2. IsFiniteSet(names) /\ IsFiniteSet(lost)
  BY MetroNamesFinite
<1> HIDE DEF names, lost
<1>3. IsFiniteSet(S \cup T)
  <2>1. IsFiniteSet(Range(f)) /\ Range(f) = S
    BY <1>2, ImageFinite DEF Range
  <2>2. IsFiniteSet(Range(g)) /\ Range(g) = T
    BY <1>2, ImageFinite DEF Range
  <2> HIDE DEF S, T, f, g
  <2> QED BY <2>1, <2>2, FS_Union
<1>4. IsList(a) /\ Range(a) = S \cup T
  <2> HIDE DEF S, T
  <2> QED BY <1>3, SetToSeqList, SetToSeqAll
<1>5. IsList(b) /\ (Cardinality(names) > 1 => one \in Range(b))
  <2>1. IsList(<<one>>)
    BY ChecksAreSound, OneSound DEF SoundList
  <2> HIDE DEF one
  <2>2. IsList(<<>>)
    BY EmptySound DEF SoundList
  <2> QED BY <2>1, <2>2, RangeOfOne
<1> HIDE DEF a, b, one, c1, c2, c3, c4, c5, c6
<1>6. IsList(c) /\ (names # {} => {c1, c2, c3, c4, c5, c6} \subseteq Range(c))
  <2>1. /\ <<c1, c2, c3, c4, c5, c6>> \in Seq({c1, c2, c3, c4, c5, c6})
        /\ Range(<<c1, c2, c3, c4, c5, c6>>) = {c1, c2, c3, c4, c5, c6}
    BY DEF Range
  <2>2. IsList(<<>>)
    BY EmptySound DEF SoundList
  <2>3. IsList(<<c1, c2, c3, c4, c5, c6>>)
    BY <2>1, ListOf
  <2> QED BY <2>1, <2>2, <2>3
<1> HIDE DEF c
<1>7. Range(a \o b \o c) = Range(a) \cup Range(b) \cup Range(c)
  <2>1. IsList(a \o b) /\ Range(a \o b) = Range(a) \cup Range(b)
    BY <1>4, <1>5, ConcatList
  <2>2. Range(a \o b \o c) = Range(a \o b) \cup Range(c)
    BY <1>6, <2>1, ConcatList
  <2> QED BY <2>1, <2>2
<1>8. S \subseteq Range(newMetroChecks(r, bad)) /\ T \subseteq Range(newMetroChecks(r, bad))
  BY <1>1, <1>4, <1>7
<1>9. \A n \in names : Check("metro", {n}, FALSE) \in Range(newMetroChecks(r, bad))
  BY <1>8
<1>10. \A n \in lost : Check("metro", {n}, TRUE) \in Range(newMetroChecks(r, bad))
  BY <1>8
<1>11. Cardinality(names) > 1 => one \in Range(newMetroChecks(r, bad))
  BY <1>1, <1>5, <1>7
<1>12. names # {} => {c1, c2, c3, c4, c5, c6} \subseteq Range(newMetroChecks(r, bad))
  BY <1>1, <1>6, <1>7
<1> QED BY <1>9, <1>10, <1>11, <1>12 DEF names, lost, one, c1, c2, c3, c4, c5, c6

\* A metro reference that does not resolve is reported.
LEMMA LostMetroFails ==
    ASSUME NEW r, NEW list, NEW x, Passed(r, list), Check("metro", {x}, TRUE) \in Range(list),
           ~For(r, "NutanixMetro")
    PROVE  FALSE
<1> DEFINE c == Check("metro", {x}, TRUE)
<1>1. Name(c) = "NutanixMetro"
  BY NamesOfKinds
<1>2. \A b : Run(r, c, b) = RunMetro(r, c, b)
  BY RunsOfKinds
<1>3. c.err = TRUE
  BY DEF Check
<1> HIDE DEF c
<1>4. PICK b : OK(RunMetro(r, c, b))
  <2>1. c \in Range(list) /\ ~For(r, Name(c))
    BY <1>1 DEF c
  <2> QED BY <1>2, <2>1, PassedOne
<1>5. RunMetro(r, c, b) = Fail("metroReference")
  BY <1>3 DEF RunMetro
<1> QED BY <1>4, <1>5, OKVerdicts

\* metroNameFromFailureDomain, where it resolves every reference: the metros in use.
LEMMA MetroNamesUsed ==
    ASSUME NEW r, NEW bad, WellFormed(r), r.config = "ok", unresolvedMetros(r, bad) = {}
    PROVE  metroNames(r, bad) = MetrosUsed(r)
<1> DEFINE got(ref) == metroNameFromFailureDomain(r, ref, bad)
<1>1. Refs(r) = UNION {Range(p.fds) : p \in AllPools(r)}
  BY RefsOfPools
<1>2. \A ref \in Refs(r) : ref.kind \in {"fd", "metro", "site"} /\ ~got(ref).err
  <2>1. \A ref \in Refs(r) : ref.kind \in {"fd", "metro", "site"}
    BY MetroNamesFinite
  <2>2. unresolvedMetros(r, bad) = {ref.name : ref \in {x \in Refs(r) : got(x).err}}
    BY DEF unresolvedMetros
  <2> HIDE DEF got
  <2> QED BY <2>1, <2>2
<1>3. ASSUME NEW ref \in Refs(r)
      PROVE  got(ref).found = IF ref.kind = "fd" THEN {} ELSE {MetroOf(r, ref)}
  BY <1>2 DEF metroNameFromFailureDomain, Found, Err, MetroOf
<1>4. metroNames(r, bad) = UNION {got(ref).found : ref \in Refs(r)}
  BY DEF metroNames
<1>5. MetrosUsed(r) = {MetroOf(r, ref) : ref \in {x \in Refs(r) : x.kind # "fd"}}
  BY <1>1 DEF MetrosUsed, MetroRefs
<1> HIDE DEF got
<1>6. ASSUME NEW m \in metroNames(r, bad) PROVE m \in MetrosUsed(r)
  <2>1. PICK ref \in Refs(r) : m \in got(ref).found
    BY <1>4
  <2>2. ref.kind # "fd" /\ m = MetroOf(r, ref)
    BY <1>3, <2>1
  <2> QED BY <1>5, <2>1, <2>2
<1>7. ASSUME NEW m \in MetrosUsed(r) PROVE m \in metroNames(r, bad)
  <2>1. PICK ref \in Refs(r) : ref.kind # "fd" /\ m = MetroOf(r, ref)
    BY <1>5
  <2>2. m \in got(ref).found
    BY <1>3, <2>1
  <2> QED BY <1>4, <2>1, <2>2
<1> QED BY <1>6, <1>7

\* The Prism Elements of a set of failure domains.
PEsOf(r, names) == UNION {ThePE(r, r.fds[n].pe) : n \in names}

LEMMA ClustersFound ==
    ASSUME NEW r, NEW id, NEW bad, ~getClusters(r, id, bad).err
    PROVE  getClusters(r, id, bad).found = Named(r.pes, id)
  BY LookedUp DEF getClusters

LEMMA DomainPE ==
    ASSUME NEW r, NEW n, NEW bad, ~failureDomainPE(r, n, bad).err
    PROVE  failureDomainPE(r, n, bad).found = ThePE(r, r.fds[n].pe)
<1> DEFINE pes == getClusters(r, r.fds[n].pe, bad)
           all == {x.uuid : x \in pes.found}
           none == n \notin DOMAIN r.fds \/ "fd" \in bad
           some == \E x \in pes.found : x.uuid = ""
<1>1. failureDomainPE(r, n, bad) = IF none THEN Err
                                   ELSE IF pes.err \/ Cardinality(pes.found) # 1 THEN Err
                                   ELSE IF some THEN Err ELSE Found(all)
  BY Zenon DEF failureDomainPE
<1>2. Err.err = TRUE
  BY DEF Err
<1>3. ~pes.err /\ ~some /\ failureDomainPE(r, n, bad).found = all
  <2> HIDE DEF pes, all, none, some
  <2> QED BY <1>1, <1>2, FoundOrErr
<1>4. pes.found = Named(r.pes, r.fds[n].pe)
  <2>1. ~getClusters(r, r.fds[n].pe, bad).err
    BY <1>3
  <2> QED BY <2>1, ClustersFound
<1>5. all = ThePE(r, r.fds[n].pe)
  <2> DEFINE S == Named(r.pes, r.fds[n].pe)
  <2>1. \A x \in S : x.uuid # ""
    BY <1>3, <1>4
  <2>2. all = {x.uuid : x \in S}
    BY <1>4
  <2>3. ThePE(r, r.fds[n].pe) = {x.uuid : x \in S} \ {""}
    BY DEF ThePE
  <2> HIDE DEF S, all
  <2> QED BY <2>1, <2>2, <2>3
<1> QED BY <1>3, <1>5

LEMMA AllPEsFound ==
    ASSUME NEW r, NEW names, NEW bad, ~AllPEs(r, names, bad).err
    PROVE  AllPEs(r, names, bad).found = PEsOf(r, names)
<1> DEFINE all == UNION {failureDomainPE(r, n, bad).found : n \in names}
           some == \E n \in names : failureDomainPE(r, n, bad).err
<1>1. AllPEs(r, names, bad) = IF some THEN Err ELSE Found(all)
  BY DEF AllPEs
<1>2. Err.err = TRUE
  BY DEF Err
<1>3. ~some /\ AllPEs(r, names, bad).found = all
  <2> HIDE DEF all, some
  <2> QED BY <1>1, <1>2, FoundOrErr
<1>4. \A n \in names : failureDomainPE(r, n, bad).found = ThePE(r, r.fds[n].pe)
  BY <1>3, DomainPE
<1>5. all = PEsOf(r, names)
  BY <1>4 DEF PEsOf
<1> QED BY <1>3, <1>5

\* What the three checks over all failure domains of the Cluster say.
DomainNames(r, bad) == clusterFailureDomainNames(r, bad).found

LEMMA ScaleHolds ==
    ASSUME NEW r, NEW bad, NEW list, Passed(r, list), ~For(r, "NutanixMetro"),
           Over(r, "scale", bad) \in Range(list)
    PROVE  /\ ~clusterFailureDomainNames(r, bad).err
           /\ Cardinality(PEsOf(r, DomainNames(r, bad))) = 2
<1> DEFINE c == Over(r, "scale", bad)
<1>1. Name(c) = "NutanixMetro"
  BY NamesOverDomains DEF Over
<1>2. \A b : Run(r, c, b) = RunScale(r, c, b)
  BY RunsOverDomains DEF Over
<1>3. c.arg = DomainNames(r, bad) /\ c.err = clusterFailureDomainNames(r, bad).err
  BY DEF Over, Check, DomainNames
<1> HIDE DEF c
<1>4. PICK b : OK(RunScale(r, c, b))
  <2>1. c \in Range(list) /\ ~For(r, Name(c))
    BY <1>1 DEF c
  <2> QED BY <1>2, <2>1, PassedOne
<1>5. RunScale(r, c, b) = IF c.err THEN Fail("metroReference")
                          ELSE IF AllPEs(r, c.arg, b).err THEN FailInternal("metroPE")
                          ELSE IF Cardinality(AllPEs(r, c.arg, b).found) # 2 THEN Fail("scale") ELSE Pass
  BY DEF RunScale, metroPrismElementCount
<1>6. ~c.err /\ ~AllPEs(r, c.arg, b).err /\ Cardinality(AllPEs(r, c.arg, b).found) = 2
  BY <1>4, <1>5, OKVerdicts
<1>7. AllPEs(r, c.arg, b).found = PEsOf(r, c.arg)
  BY <1>6, AllPEsFound
<1> QED BY <1>3, <1>6, <1>7

LEMMA HostingHolds ==
    ASSUME NEW r, NEW bad, NEW list, Passed(r, list), ~For(r, "NutanixMetro"),
           Over(r, "hosting", bad) \in Range(list)
    PROVE  r.hosting \notin PEsOf(r, DomainNames(r, bad))
<1> DEFINE c == Over(r, "hosting", bad)
<1>1. Name(c) = "NutanixMetro"
  BY NamesOverDomains DEF Over
<1>2. \A b : Run(r, c, b) = RunHosting(r, c, b)
  BY RunsOverDomains DEF Over
<1>3. c.arg = DomainNames(r, bad)
  BY DEF Over, Check, DomainNames
<1> HIDE DEF c
<1>4. PICK b : OK(RunHosting(r, c, b))
  <2>1. c \in Range(list) /\ ~For(r, Name(c))
    BY <1>1 DEF c
  <2> QED BY <1>2, <2>1, PassedOne
<1> DEFINE On(n) == failureDomainPE(r, n, b)
           host == GetHosting(r, b)
           problems == {n \in c.arg : On(n).err \/ host.found \subseteq On(n).found}
           first == CHOOSE n \in problems : \A m \in problems : n <= m
<1>5. RunHosting(r, c, b) = IF c.err THEN Fail("metroReference")
                            ELSE IF host.err THEN FailInternal("hosting")
                            ELSE IF host.found = {} \/ problems = {} THEN Pass
                            ELSE IF On(first).err THEN FailInternal("metroPE") ELSE Fail("hosting")
  BY Zenon DEF RunHosting
<1> HIDE DEF first, problems, host
<1>6. ~host.err /\ (host.found = {} \/ problems = {})
  BY <1>4, <1>5, OKVerdicts
<1>7. host.found = {r.hosting} \ {""}
  BY <1>6 DEF host, GetHosting, Err, Found
<1>8. ASSUME NEW n \in c.arg PROVE r.hosting \notin ThePE(r, r.fds[n].pe)
  <2>1. "" \notin ThePE(r, r.fds[n].pe)
    BY DEF ThePE
  <2>2. CASE r.hosting # ""
    <3>1. n \notin problems /\ host.found = {r.hosting}
      BY <1>6, <1>7, <2>2
    <3>2. ~On(n).err /\ r.hosting \notin On(n).found
      BY <3>1 DEF problems
    <3> QED BY <3>2, DomainPE
  <2> QED BY <2>1, <2>2
<1> QED BY <1>3, <1>8 DEF PEsOf

LEMMA LatencyHolds ==
    ASSUME NEW r, NEW bad, NEW list, WellFormed(r), Passed(r, list), ~For(r, "NutanixMetro"),
           Over(r, "latency", bad) \in Range(list),
           Cardinality(PEsOf(r, DomainNames(r, bad))) = 2
    PROVE  r.rtt <= 5
<1> DEFINE c == Over(r, "latency", bad)
<1>1. Name(c) = "NutanixMetro"
  BY NamesOverDomains DEF Over
<1>2. \A b : Run(r, c, b) = RunLatency(r, c, b)
  BY RunsOverDomains DEF Over
<1>3. c.arg = DomainNames(r, bad)
  BY DEF Over, Check, DomainNames
<1> HIDE DEF c
<1>4. PICK b : OK(RunLatency(r, c, b))
  <2>1. c \in Range(list) /\ ~For(r, Name(c))
    BY <1>1 DEF c
  <2> QED BY <1>2, <2>1, PassedOne
<1> DEFINE pes == AllPEs(r, c.arg, b)
           rtt == interClusterRTTMillis(r, b)
<1>5. RunLatency(r, c, b) =
        IF c.err THEN Fail("metroReference")
        ELSE IF pes.err THEN FailInternal("metroPE")
        ELSE IF Cardinality(pes.found) # 2 THEN Pass
        ELSE IF rtt.err THEN FailInternal("rtt")
        ELSE IF \E ms \in rtt.found : ms > 5 THEN Fail("latency") ELSE Pass
  BY DEF RunLatency, metroPrismElementCount, metroMaxRTTMillis
<1> HIDE DEF rtt, pes
<1>6. ~pes.err
  BY <1>4, <1>5, OKVerdicts
<1>7. pes.found = PEsOf(r, c.arg)
  BY <1>6, AllPEsFound DEF pes
<1>8. ~rtt.err /\ ~\E ms \in rtt.found : ms > 5
  BY <1>3, <1>4, <1>5, <1>7, OKVerdicts
<1>9. rtt.found = IF r.rtt < 0 THEN {} ELSE {r.rtt}
  BY <1>8 DEF rtt, interClusterRTTMillis, Err, Found
<1>10. r.rtt \in Int
  BY DEF WellFormed, WellFormedWorld
<1> QED BY <1>8, <1>9, <1>10

\* The checks about the metros together.
LEMMA SingleMetroHolds ==
    ASSUME NEW r, NEW names, NEW list, Passed(r, list), ~For(r, "NutanixMetro"),
           Cardinality(names) > 1 => Check("singleMetro", names, FALSE) \in Range(list)
    PROVE  ~(Cardinality(names) > 1)
<1> SUFFICES ASSUME Cardinality(names) > 1 PROVE FALSE
  OBVIOUS
<1> DEFINE c == Check("singleMetro", names, FALSE)
<1>1. Name(c) = "NutanixMetro"
  BY NamesOfKinds
<1>2. \A b : Run(r, c, b) = RunSingleMetro(c)
  BY RunsOfKinds
<1>3. c.arg = names
  BY DEF Check
<1>4. c \in Range(list)
  OBVIOUS
<1> HIDE DEF c
<1>5. OK(RunSingleMetro(c))
  BY <1>1, <1>2, <1>4, PassedOne
<1> QED BY <1>3, <1>5, OKVerdicts DEF RunSingleMetro

LEMMA NodePoolsHold ==
    ASSUME NEW r, NEW list, WellFormed(r), r.config = "ok", Passed(r, list), ~For(r, "NutanixMetro"),
           Check("nodePools", {}, FALSE) \in Range(list)
    PROVE  \A p \in AllPools(r) : p.fds # <<>> /\ \A ref \in Range(p.fds) : ref.kind # "fd"
<1> DEFINE c == Check("nodePools", {}, FALSE)
           NodePool(fds) ==
              IF fds # <<>> /\ \A n \in DOMAIN fds : isMetro(fds[n]) THEN Pass ELSE Fail("nodePool")
           all == {NodePool(p.fds) : p \in cpPools(r)}
                  \cup {NodePool(r.workers[k].fds) : k \in DOMAIN r.workers}
<1>1. Name(c) = "NutanixMetro"
  BY NamesOfKinds
<1>2. \A b : Run(r, c, b) = RunNodePools(r)
  BY RunsOfKinds
<1> HIDE DEF c
<1>3. OK(RunNodePools(r))
  <2>1. c \in Range(list) /\ ~For(r, Name(c))
    BY <1>1 DEF c
  <2> QED BY <1>2, <2>1, PassedOne
<1>4. RunNodePools(r) = Together(all)
  BY DEF RunNodePools
<1>5. \A p \in AllPools(r) : NodePool(p.fds) \in all
  <2>1. cpPools(r) = r.cp \/ r.cp = {}
    BY DEF cpPools, ConfigSpec
  <2> HIDE DEF NodePool
  <2> QED BY <2>1 DEF AllPools, Range
<1> HIDE DEF all
<1>6. \A p \in AllPools(r) : OK(NodePool(p.fds))
  BY <1>3, <1>4, <1>5, OKTogether
<1>7. \A p \in AllPools(r) : p.fds # <<>> /\ \A n \in DOMAIN p.fds : isMetro(p.fds[n])
  BY <1>6, OKVerdicts
<1> QED BY <1>7 DEF isMetro, Range

LEMMA SitesHold ==
    ASSUME NEW r, NEW names, NEW list, Passed(r, list), ~For(r, "NutanixMetro"),
           Check("sites", names, FALSE) \in Range(list)
    PROVE  \A s, t \in DOMAIN r.sites :
              s # t /\ r.sites[s].metro = r.sites[t].metro /\ r.sites[s].metro \in names
                  => r.sites[s].preferred # r.sites[t].preferred
<1> DEFINE c == Check("sites", names, FALSE)
<1>1. Name(c) = "NutanixMetro"
  BY NamesOfKinds
<1>2. \A b : Run(r, c, b) = RunSites(r, c, b)
  BY RunsOfKinds
<1>3. c.arg = names
  BY DEF Check
<1> HIDE DEF c
<1>4. PICK b : OK(RunSites(r, c, b))
  <2>1. c \in Range(list) /\ ~For(r, Name(c))
    BY <1>1 DEF c
  <2> QED BY <1>2, <2>1, PassedOne
<1> DEFINE same == \E s, t \in DOMAIN r.sites :
                      /\ s # t
                      /\ r.sites[s].metro = r.sites[t].metro /\ r.sites[s].metro \in c.arg
                      /\ \/ r.sites[s].preferred = r.sites[t].preferred
                         \/ r.sites[s].label = r.sites[t].label /\ r.sites[s].label # ""
<1>5. RunSites(r, c, b) = IF "listSites" \in b THEN FailInternal("sites")
                          ELSE IF same THEN Fail("sites") ELSE Pass
  BY Zenon DEF RunSites
<1>6. ~same
  <2> HIDE DEF same
  <2> QED BY <1>4, <1>5, OKVerdicts
<1> QED BY <1>3, <1>6

LEMMA VHAHolds ==
    ASSUME NEW r, NEW names, NEW list, WellFormed(r), Passed(r, list), ~For(r, "NutanixMetro"),
           Check("vha", names, FALSE) \in Range(list), names \subseteq DOMAIN r.metros
    PROVE  \A m \in names : r.nameLen + r.metroLen[m] <= 40
<1> DEFINE c == Check("vha", names, FALSE)
<1>1. Name(c) = "NutanixMetro"
  BY NamesOfKinds
<1>2. \A b : Run(r, c, b) = RunVHA(r, c)
  BY RunsOfKinds
<1>3. c.arg = names
  BY DEF Check
<1> HIDE DEF c
<1>4. OK(RunVHA(r, c))
  <2>1. c \in Range(list) /\ ~For(r, Name(c))
    BY <1>1 DEF c
  <2> QED BY <1>2, <2>1, PassedOne
<1>5. RunVHA(r, c) = IF \E m \in c.arg : vhaCategoryLen(r, m) > 64 THEN Fail("vha") ELSE Pass
  BY DEF RunVHA, prismCategoryValueMaxLen
<1>6. \A m \in names : ~(vhaCategoryLen(r, m) > 64)
  BY <1>3, <1>4, <1>5, OKVerdicts
<1>7. r.nameLen \in Nat /\ \A m \in names : r.metroLen[m] \in Nat
  BY DEF WellFormed, WellFormedWorld
<1> SUFFICES ASSUME NEW m \in names PROVE r.nameLen + r.metroLen[m] <= 40
  OBVIOUS
<1>8. r.nameLen \in Nat /\ r.metroLen[m] \in Nat /\ ~(13 + r.nameLen + 1 + r.metroLen[m] + 10 > 64)
  BY <1>6, <1>7 DEF vhaCategoryLen
<1> QED BY <1>8

\* checkSubnetConsistency, of the subnets of each failure domain.
ProfilesOf(S) == {<<s.layer, s.vlan, s.cidr>> : s \in S}

LEMMA ConsistencyHolds ==
    ASSUME NEW byFD, OK(checkSubnetConsistency(byFD))
    PROVE  /\ \A n \in DOMAIN byFD : \A s \in byFD[n] : ~s.vpc /\ s.layer \in {"VLAN", "OVERLAY"}
           /\ \A m, n \in DOMAIN byFD :
                 byFD[m] # {} /\ byFD[n] # {} => ProfilesOf(byFD[m]) = ProfilesOf(byFD[n])
<1> DEFINE all == UNION {byFD[n] : n \in DOMAIN byFD}
           layers == {s.layer : s \in all}
           Profiles(n) == {<<s.layer, s.vlan, s.cidr>> : s \in byFD[n]}
           vpc == \E s \in all : s.vpc
           many == Cardinality(layers) > 1
           known == layers \subseteq {"VLAN", "OVERLAY"}
           differ == \E m, n \in {x \in DOMAIN byFD : byFD[x] # {}} : Profiles(m) # Profiles(n)
<1>1. checkSubnetConsistency(byFD) = IF all = {} THEN Pass ELSE IF vpc THEN Fail("vpc")
                                     ELSE IF many THEN Fail("layers") ELSE IF ~known THEN Fail("layer")
                                     ELSE IF differ THEN Fail("profiles") ELSE Pass
  BY Zenon DEF checkSubnetConsistency
<1>2. all = {} \/ (~vpc /\ known /\ ~differ)
  <2> HIDE DEF all, vpc, many, known, differ
  <2> QED BY <1>1, OKVerdicts
<1>3. \A n \in DOMAIN byFD : byFD[n] \subseteq all
  OBVIOUS
<1>4. ASSUME NEW n \in DOMAIN byFD, NEW s \in byFD[n] PROVE ~s.vpc /\ s.layer \in {"VLAN", "OVERLAY"}
  <2>1. s \in all
    BY <1>3
  <2>2. ~vpc /\ known /\ s.layer \in layers
    <3> HIDE DEF vpc, known, differ
    <3> QED BY <1>2, <2>1
  <2> HIDE DEF all, layers
  <2> QED BY <2>1, <2>2
<1>5. ASSUME NEW m \in DOMAIN byFD, NEW n \in DOMAIN byFD, byFD[m] # {}, byFD[n] # {}
      PROVE  ProfilesOf(byFD[m]) = ProfilesOf(byFD[n])
  <2>1. all # {}
    BY <1>3, <1>5
  <2>2. ~differ
    BY <1>2, <2>1
  <2>3. Profiles(m) = Profiles(n)
    <3> HIDE DEF Profiles
    <3> QED BY <1>5, <2>2
  <2> QED BY <2>3 DEF ProfilesOf
<1> QED BY <1>4, <1>5

\* The subnets of a failure domain that metroCheck.Run collects.
DomainSubnets(r, n, b) == {getSubnets(r, id, b) : id \in r.fds[n].subnets}
Collected(r, n, b) ==
    OnPE(UNION {s.found : s \in DomainSubnets(r, n, b)}, ClusterOf(r, r.fds[n].pe, b).uuid)

LEMMA CollectedAreTheirs ==
    ASSUME NEW r, NEW n, NEW b, WellFormed(r), OnePEFound(r, r.fds[n].pe, b),
           \A s \in DomainSubnets(r, n, b) : ~s.err
    PROVE  Collected(r, n, b) = FDSubnets(r, n)
<1> DEFINE U == UNION {s.found : s \in DomainSubnets(r, n, b)}
           V == UNION {Named(r.subnets, id) : id \in r.fds[n].subnets}
           uuid == ClusterOf(r, r.fds[n].pe, b).uuid
<1>1. U = V
  <2>1. \A id \in r.fds[n].subnets : getSubnets(r, id, b).found = Named(r.subnets, id)
    <3> SUFFICES ASSUME NEW id \in r.fds[n].subnets
                 PROVE  getSubnets(r, id, b).found = Named(r.subnets, id)
      OBVIOUS
    <3>1. ~getSubnets(r, id, b).err
      BY DEF DomainSubnets
    <3> QED BY <3>1, SubnetsFound
  <2>2. U = UNION {getSubnets(r, id, b).found : id \in r.fds[n].subnets}
    BY DEF DomainSubnets
  <2> HIDE DEF U
  <2> QED BY <2>1, <2>2
<1>2. ThePE(r, r.fds[n].pe) = {uuid}
  <2>1. IsFiniteSet(r.pes)
    BY DEF WellFormed, WellFormedWorld
  <2> QED BY <2>1, OnePE
<1>3. Collected(r, n, b) = OnPE(U, uuid)
  BY DEF Collected
<1>4. FDSubnets(r, n) = {s \in V : s.pe = "" \/ {s.pe} = ThePE(r, r.fds[n].pe)}
  BY DEF FDSubnets
<1> HIDE DEF U, V, uuid
<1> QED BY <1>1, <1>2, <1>3, <1>4 DEF OnPE

\* metro.go: the failure domains of one metro are on one network.
OnOneNetwork(r, m) ==
    /\ \A n \in r.metros[m] : \A s \in FDSubnets(r, n) : ~s.vpc /\ s.layer \in {"VLAN", "OVERLAY"}
    /\ \A k, n \in r.metros[m] :
          Network(r, k) # {} /\ Network(r, n) # {} => Network(r, k) = Network(r, n)

LEMMA OneMetroHolds ==
    ASSUME NEW r, NEW m, NEW list, WellFormed(r), Passed(r, list), ~For(r, "NutanixMetro"),
           Check("metro", {m}, FALSE) \in Range(list)
    PROVE  m \in DOMAIN r.metros /\ OnOneNetwork(r, m)
<1> DEFINE c == Check("metro", {m}, FALSE)
<1>1. Name(c) = "NutanixMetro"
  BY NamesOfKinds
<1>2. \A b : Run(r, c, b) = RunMetro(r, c, b)
  BY RunsOfKinds
<1>3. (CHOOSE n \in c.arg : TRUE) = m
  BY DEF Check
<1> HIDE DEF c
<1>4. PICK b : OK(RunMetro(r, c, b))
  <2>1. c \in Range(list) /\ ~For(r, Name(c))
    BY <1>1 DEF c
  <2> QED BY <1>2, <2>1, PassedOne
<1> DEFINE name == CHOOSE n \in c.arg : TRUE
           fds == r.metros[name]
           PEs(n) == getClusters(r, r.fds[n].pe, b)
           UUID(n) == (CHOOSE x \in PEs(n).found : TRUE).uuid
           Subnets(n) == {getSubnets(r, id, b) : id \in r.fds[n].subnets}
           One(n) ==
              IF "fd" \in b THEN FailInternal("fd")
              ELSE IF n \notin DOMAIN r.fds THEN Fail("fd")
              ELSE IF PEs(n).err THEN FailInternal("pe")
              ELSE IF Cardinality(PEs(n).found) # 1 THEN Fail("pe")
              ELSE IF UUID(n) = "" THEN FailInternal("pe")
              ELSE IF \E s \in Subnets(n) : s.err THEN FailInternal("subnet") ELSE Pass
           each == Together({Pass} \cup {One(n) : n \in fds})
           byFD == [n \in fds |-> OnPE(UNION {s.found : s \in Subnets(n)}, UUID(n))]
           scale == IF Cardinality({UUID(n) : n \in fds}) = metroPrismElementCount
                    THEN Pass ELSE Fail("metroScale")
<1>5. RunMetro(r, c, b) = IF c.err THEN Fail("metroReference")
                          ELSE IF "getMetro" \in b THEN FailInternal("metro")
                          ELSE IF name \notin DOMAIN r.metros THEN Fail("metro")
                          ELSE IF ~each.allowed THEN each
                          ELSE Together({checkSubnetConsistency(byFD), scale})
  BY Zenon DEF RunMetro
<1>6. name = m
  BY <1>3
<1>7. name \in DOMAIN r.metros /\ each.allowed /\ OK(Together({checkSubnetConsistency(byFD), scale}))
  <2> HIDE DEF name, each, byFD, scale
  <2> QED BY <1>4, <1>5, OKVerdicts DEF OK
<1>8. OK(checkSubnetConsistency(byFD))
  <2> HIDE DEF byFD, scale, name
  <2>1. checkSubnetConsistency(byFD) \in {checkSubnetConsistency(byFD), scale}
    OBVIOUS
  <2> QED BY <1>7, <2>1, OKTogether
<1>9. \A n \in fds : One(n).allowed
  <2> HIDE DEF One, fds
  <2> QED BY <1>7 DEF Together
<1>10. ASSUME NEW n \in fds PROVE byFD[n] = FDSubnets(r, n)
  <2>1. ~PEs(n).err /\ Cardinality(PEs(n).found) = 1 /\ UUID(n) # "" /\ ~\E s \in Subnets(n) : s.err
    <3> DEFINE lost == \E s \in Subnets(n) : s.err
    <3>1. One(n) = IF "fd" \in b THEN FailInternal("fd")
                   ELSE IF n \notin DOMAIN r.fds THEN Fail("fd")
                   ELSE IF PEs(n).err THEN FailInternal("pe")
                   ELSE IF Cardinality(PEs(n).found) # 1 THEN Fail("pe")
                   ELSE IF UUID(n) = "" THEN FailInternal("pe")
                   ELSE IF lost THEN FailInternal("subnet") ELSE Pass
      OBVIOUS
    <3>2. One(n).allowed
      BY <1>9
    <3>3. \A x : Fail(x).allowed = FALSE /\ FailInternal(x).allowed = FALSE
      BY DEF Fail, FailInternal, Pass
    <3> HIDE DEF lost, PEs, UUID, One, fds
    <3>4. ~PEs(n).err /\ Cardinality(PEs(n).found) = 1 /\ UUID(n) # "" /\ ~lost
      BY <3>1, <3>2, <3>3
    <3> QED BY <3>4 DEF lost
  <2>2. UUID(n) = ClusterOf(r, r.fds[n].pe, b).uuid
    BY DEF ClusterOf
  <2>3. OnePEFound(r, r.fds[n].pe, b)
    BY <2>1, <2>2 DEF OnePEFound
  <2>4. Subnets(n) = DomainSubnets(r, n, b)
    BY DEF DomainSubnets
  <2>5. byFD[n] = OnPE(UNION {s.found : s \in Subnets(n)}, UUID(n))
    OBVIOUS
  <2> HIDE DEF byFD, Subnets, UUID, PEs, fds
  <2>6. byFD[n] = Collected(r, n, b)
    BY <2>2, <2>4, <2>5 DEF Collected
  <2> QED BY <2>1, <2>3, <2>4, <2>6, CollectedAreTheirs
<1>11. DOMAIN byFD = fds
  OBVIOUS
<1>12. \A n \in fds : Network(r, n) = ProfilesOf(byFD[n]) /\ (Network(r, n) # {} => byFD[n] # {})
  <2> SUFFICES ASSUME NEW n \in fds
               PROVE  Network(r, n) = ProfilesOf(byFD[n]) /\ (Network(r, n) # {} => byFD[n] # {})
    OBVIOUS
  <2>1. byFD[n] = FDSubnets(r, n)
    BY <1>10
  <2> HIDE DEF byFD, fds
  <2> QED BY <2>1 DEF Network, ProfilesOf
<1>13. OnOneNetwork(r, m)
  <2>1. fds = r.metros[m]
    BY <1>6
  <2> HIDE DEF byFD, fds
  <2>2. \A n \in fds : \A s \in byFD[n] : ~s.vpc /\ s.layer \in {"VLAN", "OVERLAY"}
    BY <1>8, <1>11, ConsistencyHolds
  <2>3. \A k, n \in fds : byFD[k] # {} /\ byFD[n] # {} => ProfilesOf(byFD[k]) = ProfilesOf(byFD[n])
    BY <1>8, <1>11, ConsistencyHolds
  <2>4. \A n \in fds : byFD[n] = FDSubnets(r, n)
    BY <1>10
  <2> QED BY <1>12, <2>1, <2>2, <2>3, <2>4 DEF OnOneNetwork
<1> QED BY <1>6, <1>7, <1>13

\* A reference to a metro makes it one of those in use.
LEMMA OneMetro ==
    ASSUME NEW S, NEW x, IsFiniteSet(S), x \in S, ~(Cardinality(S) > 1)
    PROVE  IsOne(S) /\ S = {x}
<1>1. Cardinality(S) \in Nat /\ Cardinality(S) # 0
  BY FS_CardinalityType, FS_EmptySet
<1>2. Cardinality(S) = 1
  BY <1>1
<1> QED BY <1>2, OneElement DEF IsOne

\* The checks of the metros, together.
LEMMA MetroHolds ==
    ASSUME NEW r, NEW bad, WellFormed(r), r.config = "ok", Passed(r, NutanixList(r, bad)),
           UsesNutanix(r) => IsReady(r, For(r, "NutanixPrismCentralVersion"), bad),
           ~For(r, "NutanixMetro")
    PROVE  Holds(r, "NutanixMetro")
<1> DEFINE list == NutanixList(r, bad)
           names == metroNames(r, bad)
           fds == DomainNames(r, bad)
<1> SUFFICES ASSUME UsesNutanix(r), MetroPools(r) PROVE MetroOK(r)
  BY DEF Holds
<1>1. Range(newMetroChecks(r, bad)) \subseteq Range(list)
  BY NutanixInitHas DEF NutanixList
<1>2. unresolvedMetros(r, bad) = {}
  <2> SUFFICES ASSUME NEW x \in unresolvedMetros(r, bad) PROVE FALSE
    OBVIOUS
  <2>1. Check("metro", {x}, TRUE) \in Range(list)
    BY <1>1, MetroChecksHave
  <2> HIDE DEF list
  <2> QED BY <2>1, LostMetroFails DEF list
<1>3. names = MetrosUsed(r)
  BY <1>2, MetroNamesUsed
<1>0. PICK p0 \in AllPools(r) : \E ref \in Range(p0.fds) : ref.kind # "fd"
  BY DEF MetroPools
<1>4. PICK ref0 \in Range(p0.fds) : ref0.kind # "fd"
  BY <1>0
<1> DEFINE m0 == MetroOf(r, ref0)
<1>5. ref0 \in MetroRefs(r) /\ m0 \in names
  <2>1. ref0 \in MetroRefs(r)
    BY <1>4 DEF MetroRefs
  <2> QED BY <1>3, <2>1 DEF MetrosUsed
<1>6. /\ \A n \in names : Check("metro", {n}, FALSE) \in Range(list)
      /\ Cardinality(names) > 1 => Check("singleMetro", names, FALSE) \in Range(list)
  BY <1>1, MetroChecksHave
<1>7. {Over(r, "scale", bad), Over(r, "hosting", bad), Over(r, "latency", bad),
       Check("nodePools", {}, FALSE), Check("sites", names, FALSE), Check("vha", names, FALSE)}
         \subseteq Range(list)
  BY <1>1, <1>5, MetroChecksHave
<1>8. IsOne(names) /\ names = {m0}
  <2>1. IsFiniteSet(names)
    BY MetroNamesFinite
  <2>2. ~(Cardinality(names) > 1)
    <3> HIDE DEF names
    <3> QED BY <1>6, SingleMetroHolds DEF list
  <2> HIDE DEF names, m0
  <2> QED BY <1>5, <2>1, <2>2, OneMetro
<1> HIDE DEF list, names, m0
<1>9. ~clusterFailureDomainNames(r, bad).err /\ Cardinality(PEsOf(r, fds)) = 2
  BY <1>7, ScaleHolds DEF list
<1>10. r.hosting \notin PEsOf(r, fds)
  BY <1>7, HostingHolds DEF list
<1>11. r.rtt <= 5
  BY <1>7, <1>9, LatencyHolds DEF list
<1>12. \A p \in AllPools(r) : p.fds # <<>> /\ \A ref \in Range(p.fds) : ref.kind # "fd"
  BY <1>7, NodePoolsHold DEF list
<1>13. \A s, t \in DOMAIN r.sites :
          s # t /\ r.sites[s].metro = r.sites[t].metro /\ r.sites[s].metro \in names
              => r.sites[s].preferred # r.sites[t].preferred
  BY <1>7, SitesHold DEF list
<1>14. \A n \in names : n \in DOMAIN r.metros /\ OnOneNetwork(r, n)
  BY <1>6, OneMetroHolds DEF list
<1>15. \A n \in names : r.nameLen + r.metroLen[n] <= 40
  <2>1. names \subseteq DOMAIN r.metros
    BY <1>14
  <2> QED BY <1>7, <2>1, VHAHolds DEF list
<1>16. MetroPEs(r) = PEsOf(r, fds)
  <2>1. fds = UNION {FDs(r, ref) : ref \in Refs(r)}
    <3>1. \A ref \in Refs(r) : ~getFailureDomainNames(r, ref, bad).err
      BY <1>9 DEF clusterFailureDomainNames
    <3>2. \A ref \in Refs(r) : ref.kind \in {"fd", "metro", "site"}
      BY MetroNamesFinite
    <3>3. \A ref \in Refs(r) : getFailureDomainNames(r, ref, bad).found = FDs(r, ref)
      BY <3>1, <3>2, NamesResolved
    <3>4. fds = UNION {getFailureDomainNames(r, ref, bad).found : ref \in Refs(r)}
      BY DEF DomainNames, clusterFailureDomainNames
    <3> HIDE DEF fds
    <3> QED BY <3>3, <3>4
  <2>2. Refs(r) = UNION {Range(p.fds) : p \in AllPools(r)}
    BY RefsOfPools
  <2>3. \A p \in AllPools(r) : PoolPEs(r, p) = UNION {ThePE(r, r.fds[n].pe) : n \in PoolFDs(r, p)}
    BY <1>12 DEF PoolPEs
  <2> HIDE DEF fds
  <2>4. ASSUME NEW n \in fds PROVE \E p \in AllPools(r) : n \in PoolFDs(r, p)
    <3>1. PICK ref \in Refs(r) : n \in FDs(r, ref)
      BY <2>1
    <3>2. PICK p \in AllPools(r) : ref \in Range(p.fds)
      BY <2>2, <3>1
    <3> QED BY <3>1, <3>2 DEF PoolFDs
  <2>5. ASSUME NEW p \in AllPools(r), NEW n \in PoolFDs(r, p) PROVE n \in fds
    <3>1. PICK ref \in Range(p.fds) : n \in FDs(r, ref)
      BY DEF PoolFDs
    <3> QED BY <2>1, <2>2, <3>1
  <2>6. ASSUME NEW x \in MetroPEs(r) PROVE x \in PEsOf(r, fds)
    <3>1. PICK p \in AllPools(r) : x \in PoolPEs(r, p)
      BY DEF MetroPEs
    <3>2. PICK n \in PoolFDs(r, p) : x \in ThePE(r, r.fds[n].pe)
      BY <2>3, <3>1
    <3> QED BY <2>5, <3>2 DEF PEsOf
  <2>7. ASSUME NEW x \in PEsOf(r, fds) PROVE x \in MetroPEs(r)
    <3>1. PICK n \in fds : x \in ThePE(r, r.fds[n].pe)
      BY DEF PEsOf
    <3>2. PICK p \in AllPools(r) : n \in PoolFDs(r, p)
      BY <2>4, <3>1
    <3>3. x \in PoolPEs(r, p)
      BY <2>3, <3>1, <3>2
    <3> QED BY <3>3 DEF MetroPEs
  <2> QED BY <2>6, <2>7
<1>17. ASSUME NEW s \in DOMAIN r.sites, NEW t \in DOMAIN r.sites, s # t, SiteOf(r, s), SiteOf(r, t)
       PROVE  r.sites[s].preferred # r.sites[t].preferred
  <2>1. r.sites[s].metro = m0 /\ r.sites[t].metro = m0
    BY <1>3, <1>8, <1>17 DEF SiteOf
  <2> QED BY <1>5, <1>13, <1>17, <2>1
<1>18. MetroFDs(r) = r.metros[m0] /\ OnOneNetwork(r, m0)
  BY <1>3, <1>5, <1>8, <1>14 DEF MetroFDs
<1> HIDE DEF fds
<1>19. IsOne(MetrosUsed(r)) /\ Cardinality(MetroPEs(r)) = 2 /\ r.hosting \notin MetroPEs(r)
  BY <1>3, <1>8, <1>9, <1>10, <1>16
<1>20. \A n \in MetrosUsed(r) : r.nameLen + r.metroLen[n] <= 40
  BY <1>3, <1>15
<1>21. /\ \A n \in MetroFDs(r) : \A s \in FDSubnets(r, n) : ~s.vpc /\ s.layer \in {"VLAN", "OVERLAY"}
       /\ \A m, n \in MetroFDs(r) :
             Network(r, m) # {} /\ Network(r, n) # {} => Network(r, m) = Network(r, n)
  BY <1>18 DEF OnOneNetwork
<1> QED BY <1>11, <1>12, <1>17, <1>19, <1>20, <1>21 DEF MetroOK

\* controlplaneendpoint.go
LEMMA EndpointHolds ==
    ASSUME NEW r, NEW b, OK(Run(r, Check("endpoint", {}, FALSE), b)), "dial" \notin b
    PROVE  Holds(r, "NutanixControlPlaneEndpoint")
<1>1. Run(r, Check("endpoint", {}, FALSE), b) = RunEndpoint(r, b)
  BY RunsOfKinds
<1> DEFINE passes == r.controlPlaneRef \/ ~r.endpointInUse \/ "dial" \in b
<1>2. RunEndpoint(r, b) = IF passes THEN Pass ELSE Fail("endpoint")
  BY Zenon DEF RunEndpoint
<1>3. passes
  <2> HIDE DEF passes
  <2> QED BY <1>1, <1>2, OKVerdicts
<1>4. Holds(r, "NutanixControlPlaneEndpoint") = (r.controlPlaneRef \/ ~r.endpointInUse)
  BY Zenon DEF Holds
<1> QED BY <1>3, <1>4

\* A Cluster in whose way no check of the two lists stands.
LEMMA WhatPassedHolds ==
    ASSUME NEW r, NEW bad, NEW name, WellFormed(r),
           Passed(r, GenericInit(r)), Passed(r, NutanixList(r, bad)),
           name \in CheckNames, name # "NutanixControlPlaneEndpoint",
           name = "NutanixCIDRValidation" => ~SharedSubnetName(r),
           ~For(r, name), \A n \in Needs(name) : ~For(r, n)
    PROVE  Holds(r, name)
<1>1. CASE name = "GenericConfiguration"
  <2>1. r.config = "ok"
    BY <1>1, GenericHolds
  <2> QED BY <1>1, <2>1 DEF Holds
<1>2. CASE name = "Registry"
  <2>1. ~For(r, "GenericConfiguration") /\ ~For(r, "Registry")
    BY <1>2 DEF Needs
  <2> QED BY <1>2, <2>1, GenericHolds
<1>3. CASE name = "NutanixConfiguration"
  <2>1. r.config = "ok"
    BY <1>3, ConfigurationHolds
  <2> QED BY <1>3, <2>1 DEF Holds
<1>4. ASSUME name \notin {"GenericConfiguration", "Registry", "NutanixConfiguration"}
      PROVE  Holds(r, name)
  <2> DEFINE others == {"NutanixPrismCentralVersion", "NutanixFailureDomain", "NutanixVMImage",
                        "NutanixVMImageKubernetesVersion", "NutanixMetro", "NutanixCIDRValidation",
                        "NutanixStorageContainer"}
  <2>1. name = "NutanixCredentials" \/ name \in others
    BY <1>4 DEF CheckNames
  <2>2. {"NutanixConfiguration", "NutanixCredentials"} \subseteq Needs(name)
    BY <2>1 DEF Needs
  <2>3. r.config = "ok"
    BY <2>2, ConfigurationHolds
  <2>4. Holds(r, "NutanixCredentials") /\ (UsesNutanix(r) => nclient(r, bad))
    BY <2>2, <2>3, CredentialsHold
  <2>5. /\ For(r, "NutanixPrismCentralVersion") \/ Holds(r, "NutanixPrismCentralVersion")
        /\ UsesNutanix(r) => IsReady(r, For(r, "NutanixPrismCentralVersion"), bad)
    BY <2>4, VersionHolds
  <2>6. CASE name = "NutanixCredentials"
    BY <2>4, <2>6
  <2>7. CASE name = "NutanixPrismCentralVersion"
    BY <2>5, <2>7
  <2>8. CASE name = "NutanixFailureDomain"
    BY <2>3, <2>5, <2>8, FailureDomainsHold
  <2>9. CASE name = "NutanixVMImage"
    BY <2>3, <2>5, <2>9, ImageHolds
  <2>10. CASE name = "NutanixVMImageKubernetesVersion"
    BY <2>3, <2>5, <2>10, ImageVersionHolds
  <2>11. CASE name = "NutanixMetro"
    BY <2>3, <2>5, <2>11, MetroHolds
  <2>12. CASE name = "NutanixCIDRValidation"
    BY <2>3, <2>4, <2>12, CIDRHolds
  <2>13. CASE name = "NutanixStorageContainer"
    <3>1. "NutanixFailureDomain" \in Needs(name)
      BY <2>13 DEF Needs
    <3> QED BY <2>3, <2>5, <2>13, <3>1, StorageHolds
  <2> QED BY <2>1, <2>6, <2>7, <2>8, <2>9, <2>10, <2>11, <2>12, <2>13
<1> QED BY <1>1, <1>2, <1>3, <1>4

\* What Handle admits passes every check of both checkers.
LEMMA AdmittedPasses ==
    ASSUME PreflightInv, Produced, Admitted, NEW i \in Checkers
    PROVE  /\ \E bad \in BadSets : checks[i] = ChecksOf(i, bad)
           /\ \A c \in Range(checks[i]) :
                 \/ For(req, Name(c))
                 \/ \E b : OK(Run(req, c, b)) /\ ("dial" \in b => Expired \/ faults > 0)
<1>1. i \in inited /\ stored = Checkers /\ resp = Summary(NamedResults)
  BY DEF Admitted, PreflightInv, Answered, Checkers
<1>2. \A x \in NamedResults : x.result.allowed
  <2> DEFINE R == {x.result : x \in NamedResults}
  <2>1. resp.allowed = Together(R).allowed
    BY <1>1 DEF Summary
  <2>2. Together(R).allowed
    BY <2>1 DEF Admitted
  <2>3. \A y \in R : y.allowed
    <3> HIDE DEF R
    <3> QED BY <2>2 DEF Together
  <2> QED BY <2>3
<1>3. next[i] > Len(checks[i]) /\ running[i] = {} /\ next[i] \in Nat
  BY <1>1 DEF PreflightInv, StoredWhenDone, ChecksDone, Shape
<1>4. Len(checks[i]) \in Nat /\ DOMAIN checks[i] = 1 .. Len(checks[i])
  BY ListFacts DEF PreflightInv, Looped, SoundList
<1>5. ASSUME NEW j \in DOMAIN checks[i], ~For(req, Name(checks[i][j]))
      PROVE  \E b : OK(Run(req, checks[i][j], b)) /\ ("dial" \in b => Expired \/ faults > 0)
  <2>1. j \in Filled(i)
    BY <1>3, <1>4 DEF Filled
  <2>2. PICK b \in BadSets : /\ results[i][j] = Recovered(Run(req, checks[i][j], b))
                             /\ "dial" \in b => Expired \/ faults > 0
    BY <1>1, <1>5, <2>1 DEF Produced, FromRun, FromSkip
  <2>3. results[i][j].allowed
    <3> DEFINE x == [name |-> Name(checks[i][j]), slot |-> <<i, j>>, result |-> results[i][j]]
    <3>1. x \in NamedResults
      BY DEF NamedResults
    <3>2. x.result = results[i][j]
      OBVIOUS
    <3> HIDE DEF x
    <3> QED BY <1>2, <3>1, <3>2
  <2>4. OK(Run(req, checks[i][j], b))
    BY <2>2, <2>3, OKRecovered
  <2> QED BY <2>2, <2>4
<1>6. \E bad \in BadSets : checks[i] = ChecksOf(i, bad)
  BY <1>1 DEF Produced
<1> QED BY <1>5, <1>6 DEF Range

\* What the lists of the Nutanix checker hold, kind by kind.
LEMMA ResolvedKinds ==
    ASSUME NEW r, WellFormed(r), NEW ref, ref.kind \in {"fd", "metro", "site"}, NEW kind, NEW bad
    PROVE  \A c \in Range(Resolved(r, kind, ref, bad)) : c.kind \in {"fd", kind}
<1> DEFINE names == getFailureDomainNames(r, ref, bad)
           S == {Check(kind, {n}, FALSE) : n \in names.found}
           f == [n \in names.found |-> Check(kind, {n}, FALSE)]
<1>1. CASE names.err
  <2>1. Range(Resolved(r, kind, ref, bad)) = {Check("fd", {ref.name}, TRUE)}
    BY <1>1, RangeOfOne DEF Resolved
  <2> QED BY <2>1 DEF Check
<1>2. CASE ~names.err
  <2>1. IsFiniteSet(names.found)
    BY <1>2, FS_Singleton DEF getFailureDomainNames, Found, Err, WellFormed, WellFormedWorld
  <2> HIDE DEF names
  <2>2. IsFiniteSet(S)
    <3>1. IsFiniteSet(Range(f)) /\ Range(f) = S
      BY <2>1, ImageFinite DEF Range
    <3> QED BY <3>1
  <2>3. Resolved(r, kind, ref, bad) = SetToSeq(S)
    BY <1>2 DEF Resolved, names
  <2>4. Range(Resolved(r, kind, ref, bad)) \subseteq S
    BY <2>2, <2>3, SetToSeqList
  <2> QED BY <2>4 DEF Check
<1> QED BY <1>1, <1>2

LEMMA FlattenedKinds ==
    ASSUME NEW s, IsList(s), NEW ss, ss = [k \in DOMAIN s |-> ss[k]], NEW K,
           \A k \in DOMAIN s : IsList(ss[k]) /\ \A c \in Range(ss[k]) : c.kind \in K
    PROVE  IsList(FlattenSeq(ss)) /\ \A c \in Range(FlattenSeq(ss)) : c.kind \in K
<1>1. Len(s) \in Nat /\ DOMAIN s = 1 .. Len(s)
  BY ListFacts
<1>2. IsList(ss) /\ Len(ss) = Len(s)
  BY <1>1, FunctionIsList
<1>3. \A x \in Range(FlattenSeq(ss)) : \E i \in 1 .. Len(ss) : x \in Range(ss[i])
  BY <1>1, <1>2, FlattenList
<1>4. IsList(FlattenSeq(ss))
  BY <1>1, <1>2, FlattenList
<1> QED BY <1>1, <1>2, <1>3, <1>4

LEMMA FailureDomainKinds ==
    ASSUME NEW r, WellFormed(r), NEW bad
    PROVE  \A c \in Range(newFailureDomainChecks(r, bad)) : c.kind = "fd"
<1> DEFINE refs == failureDomains(r)
           ss == [k \in DOMAIN refs |-> Resolved(r, "fd", refs[k], bad)]
<1>1. IsList(refs) /\ \A k \in DOMAIN refs : refs[k].kind \in {"fd", "metro", "site"}
  BY FailureDomainsList DEF Range
<1> HIDE DEF refs
<1>2. \A k \in DOMAIN refs : IsList(ss[k]) /\ \A c \in Range(ss[k]) : c.kind \in {"fd"}
  BY <1>1, ResolvedIsList, ResolvedKinds
<1>3. \A c \in Range(FlattenSeq(ss)) : c.kind \in {"fd"}
  <2>1. ss = [k \in DOMAIN refs |-> ss[k]]
    OBVIOUS
  <2> HIDE DEF ss
  <2> QED BY <1>1, <1>2, <2>1, FlattenedKinds
<1> QED BY <1>3 DEF newFailureDomainChecks, refs

LEMMA PerPoolOnly ==
    ASSUME NEW r, WellFormed(r), NEW kind
    PROVE  Range(SetToSeq({Check(kind, {k}, FALSE) : k \in Pools(r)}))
              \subseteq {Check(kind, {k}, FALSE) : k \in Pools(r)}
<1> DEFINE f == [k \in Pools(r) |-> Check(kind, {k}, FALSE)]
<1>1. IsFiniteSet(Pools(r))
  BY PoolsFinite
<1>2. IsFiniteSet(Range(f)) /\ Range(f) = {Check(kind, {k}, FALSE) : k \in Pools(r)}
  BY <1>1, ImageFinite DEF Range
<1> QED BY <1>2, SetToSeqList

LEMMA StorageKinds ==
    ASSUME NEW r, WellFormed(r), NEW bad
    PROVE  \A c \in Range(newStorageContainerChecks(r, bad)) : c.kind \in {"fd", "storage", "storageFD"}
<1> DEFINE K == {"fd", "storage", "storageFD"}
           Of(k) == LET p == Pool(r, k) IN
                IF p.fds = <<>> THEN <<Check("storage", {k}, FALSE)>>
                ELSE FlattenSeq([n \in DOMAIN p.fds |-> Resolved(r, "storageFD", p.fds[n], bad)])
           pools == SetToSeq(Pools(r))
           ss == [n \in DOMAIN pools |-> Of(pools[n])]
<1>1. ASSUME NEW k \in Pools(r) PROVE IsList(Of(k)) /\ \A c \in Range(Of(k)) : c.kind \in K
  <2> DEFINE p == Pool(r, k)
             fs == [n \in DOMAIN p.fds |-> Resolved(r, "storageFD", p.fds[n], bad)]
  <2>1. p \in r.cp \cup Range(r.workers)
    BY PoolsFinite
  <2>2. IsList(p.fds) /\ \A n \in DOMAIN p.fds : p.fds[n].kind \in {"fd", "metro", "site"}
    BY <2>1 DEF WellFormed, WellFormedPool, Range
  <2> HIDE DEF p
  <2>3. \A n \in DOMAIN p.fds : IsList(fs[n]) /\ \A c \in Range(fs[n]) : c.kind \in K
    BY <2>2, ResolvedIsList, ResolvedKinds
  <2>4. IsList(FlattenSeq(fs)) /\ \A c \in Range(FlattenSeq(fs)) : c.kind \in K
    <3>1. fs = [n \in DOMAIN p.fds |-> fs[n]]
      OBVIOUS
    <3> HIDE DEF fs, K
    <3> QED BY <2>2, <2>3, <3>1, FlattenedKinds
  <2> DEFINE one == <<Check("storage", {k}, FALSE)>>
  <2>5. IsList(one) /\ \A c \in Range(one) : c.kind \in K
    <3>1. IsList(one)
      BY ChecksAreSound, OneSound DEF SoundList
    <3>2. Range(one) = {Check("storage", {k}, FALSE)}
      BY RangeOfOne
    <3> HIDE DEF one
    <3> QED BY <3>1, <3>2 DEF Check
  <2> QED BY <2>4, <2>5 DEF p
<1>2. IsList(pools) /\ Range(pools) \subseteq Pools(r)
  BY PoolsFinite, SetToSeqList
<1> HIDE DEF Of, pools
<1>3. \A n \in DOMAIN pools : IsList(ss[n]) /\ \A c \in Range(ss[n]) : c.kind \in K
  BY <1>1, <1>2 DEF Range
<1>4. \A c \in Range(FlattenSeq(ss)) : c.kind \in K
  <2>1. ss = [n \in DOMAIN pools |-> ss[n]]
    OBVIOUS
  <2> HIDE DEF ss, K
  <2> QED BY <1>2, <1>3, <2>1, FlattenedKinds
<1> QED BY <1>4, EmptyList DEF newStorageContainerChecks, Of, pools

\* The kinds of checks whose Run explains every denial.
Plain ==
    {"registry", "fd", "imageVersion", "cidr", "storage", "storageFD", "endpoint", "metro",
     "singleMetro", "scale", "hosting", "latency", "nodePools", "sites", "vha"}

LEMMA MetroKinds ==
    ASSUME NEW r, WellFormed(r), NEW bad
    PROVE  \A c \in Range(newMetroChecks(r, bad)) : c.kind \in Plain
<1> DEFINE names == metroNames(r, bad)
           lost == unresolvedMetros(r, bad)
           S == {Check("metro", {n}, FALSE) : n \in names} \cup {Check("metro", {n}, TRUE) : n \in lost}
           single == IF Cardinality(names) > 1 THEN <<Check("singleMetro", names, FALSE)>> ELSE <<>>
           six == <<Over(r, "scale", bad), Over(r, "hosting", bad), Over(r, "latency", bad), Check("nodePools", {}, FALSE),
                    Check("sites", names, FALSE), Check("vha", names, FALSE)>>
           rest == IF names = {} THEN <<>> ELSE six
<1>1. IsFiniteSet(S)
  <2> DEFINE f == [n \in names |-> Check("metro", {n}, FALSE)]
             g == [n \in lost |-> Check("metro", {n}, TRUE)]
  <2>1. IsFiniteSet(names) /\ IsFiniteSet(lost)
    BY MetroNamesFinite
  <2> HIDE DEF names, lost
  <2>2. IsFiniteSet(Range(f)) /\ IsFiniteSet(Range(g))
    BY <2>1, ImageFinite
  <2>3. Range(f) \cup Range(g) = S
    BY DEF Range
  <2> QED BY <2>2, <2>3, FS_Union
<1>2. IsList(SetToSeq(S)) /\ \A c \in Range(SetToSeq(S)) : c.kind \in Plain
  <2>1. \A c \in S : c.kind \in Plain
    BY DEF Check, Plain
  <2> HIDE DEF S
  <2> QED BY <1>1, <2>1, SetToSeqList
<1>3. IsList(single) /\ \A c \in Range(single) : c.kind \in Plain
  <2>1. IsList(<<Check("singleMetro", names, FALSE)>>) /\ IsList(<<>>)
    BY ChecksAreSound, OneSound, EmptySound DEF SoundList
  <2>2. Range(<<Check("singleMetro", names, FALSE)>>) = {Check("singleMetro", names, FALSE)}
    BY RangeOfOne
  <2>3. Check("singleMetro", names, FALSE).kind \in Plain
    BY DEF Check, Plain
  <2> QED BY <2>1, <2>2, <2>3, EmptyList
<1>4. IsList(rest) /\ \A c \in Range(rest) : c.kind \in Plain
  <2> DEFINE A == {Over(r, "scale", bad), Over(r, "hosting", bad), Over(r, "latency", bad), Check("nodePools", {}, FALSE),
                   Check("sites", names, FALSE), Check("vha", names, FALSE)}
  <2>1. \A c \in A : c.kind \in Plain
    BY DEF Check, Over, Plain
  <2>2. six \in Seq(A)
    <3> HIDE DEF names
    <3> QED OBVIOUS
  <2> HIDE DEF A, six
  <2>3. IsList(six) /\ Range(six) \subseteq A
    BY <2>2, ListOf
  <2>4. IsList(<<>>)
    BY EmptySound DEF SoundList
  <2> QED BY <2>1, <2>3, <2>4, EmptyList
<1>5. newMetroChecks(r, bad) = SetToSeq(S) \o single \o rest
  BY Zenon DEF newMetroChecks, Over
<1> HIDE DEF S, single, rest
<1>6. IsList(SetToSeq(S) \o single)
      /\ Range(SetToSeq(S) \o single) = Range(SetToSeq(S)) \cup Range(single)
  BY <1>2, <1>3, ConcatList
<1>7. Range(SetToSeq(S) \o single \o rest) = Range(SetToSeq(S) \o single) \cup Range(rest)
  BY <1>4, <1>6, ConcatList
<1> QED BY <1>2, <1>3, <1>4, <1>5, <1>6, <1>7

\* The Nutanix checker's list: an image check is about a pool of machines, and only
\* the three pseudo-checks have a result from the start.
LEMMA NutanixKinds ==
    ASSUME NEW r, WellFormed(r), NEW skipped, NEW bad, NEW c \in Range(NutanixInit(r, skipped, bad))
    PROVE  \/ c.kind \in Plain
           \/ \E k \in Pools(r) : c = Check("image", {k}, FALSE)
           \/ c \in {NutanixConfiguration(r), Known("credentials", CredentialsResult(r, bad)),
                    Known("version", VersionResult(r, skipped, bad))}
<1> DEFINE three == {NutanixConfiguration(r), Known("credentials", CredentialsResult(r, bad)),
                     Known("version", VersionResult(r, skipped, bad))}
           two == {Check("cidr", {nclient(r, bad)}, FALSE), Check("endpoint", {}, FALSE)}
<1>1. \A x \in two : x.kind \in Plain
  BY DEF Check, Plain
<1>2. c \in three \cup two \cup Range(newFailureDomainChecks(r, bad)) \cup Range(newVMImageChecks(r))
           \cup Range(newVMImageKubernetesVersionChecks(r))
           \cup Range(newStorageContainerChecks(r, bad)) \cup Range(newMetroChecks(r, bad))
  BY NutanixInitHas
<1> HIDE DEF three, two
<1>3. \A x \in Range(newVMImageKubernetesVersionChecks(r)) : x.kind \in Plain
  <2>1. \A x \in {Check("imageVersion", {k}, FALSE) : k \in Pools(r)} : x.kind \in Plain
    BY DEF Check, Plain
  <2> QED BY <2>1, PerPoolOnly, EmptyList DEF newVMImageKubernetesVersionChecks
<1>4. Range(newVMImageChecks(r)) \subseteq {Check("image", {k}, FALSE) : k \in Pools(r)}
  BY PerPoolOnly DEF newVMImageChecks
<1>5. \A x \in Range(newFailureDomainChecks(r, bad)) \cup Range(newStorageContainerChecks(r, bad)) :
         x.kind \in Plain
  BY FailureDomainKinds, StorageKinds DEF Plain
<1>6. \A x \in Range(newMetroChecks(r, bad)) : x.kind \in Plain
  BY MetroKinds
<1> QED BY <1>1, <1>2, <1>3, <1>4, <1>5, <1>6 DEF three

LEMMA GenericKinds ==
    ASSUME NEW r, WellFormed(r), NEW c \in Range(GenericInit(r))
    PROVE  c.kind \in Plain \/ c = GenericConfiguration(r)
<1> DEFINE s == [k \in 1 .. Len(r.registries) |-> Check("registry", {r.registries[k]}, FALSE)]
<1>1. IsList(newRegistryCheck(r)) /\ \A x \in Range(newRegistryCheck(r)) : x.kind \in Plain
  <2>1. IsList(s)
    BY FunctionIsList, ListFacts DEF WellFormed
  <2>2. \A x \in Range(s) : x.kind \in Plain
    <3>1. \A x \in Range(s) : \E reg : x = Check("registry", {reg}, FALSE)
      BY DEF Range
    <3>2. \A reg : Check("registry", {reg}, FALSE).kind \in Plain
      BY DEF Check, Plain
    <3> QED BY <3>1, <3>2
  <2>3. IsList(<<>>)
    BY EmptySound DEF SoundList
  <2> QED BY <2>1, <2>2, <2>3, EmptyList DEF newRegistryCheck
<1>2. IsList(<<GenericConfiguration(r)>>)
  <2>1. Sound(GenericConfiguration(r).result)
    BY Verdicts DEF GenericConfiguration, Known
  <2> QED BY <2>1, OneSound DEF SoundList
<1>3. Range(<<GenericConfiguration(r)>>) = {GenericConfiguration(r)}
  BY RangeOfOne
<1>4. Range(GenericInit(r)) = Range(<<GenericConfiguration(r)>>) \cup Range(newRegistryCheck(r))
  BY <1>1, <1>2, ConcatList DEF GenericInit
<1> QED BY <1>1, <1>3, <1>4

\* A denial names its cause.
Explained(res) == res.allowed \/ res.causes # {}

LEMMA ExplainedVerdicts ==
    /\ Explained(Pass) /\ Explained(Panic) /\ \A w : Explained(Warn(w))
    /\ \A c : Explained(Fail(c)) /\ Explained(FailInternal(c))
  BY DEF Explained, Pass, Panic, Warn, Fail, FailInternal

LEMMA ExplainedTogether ==
    ASSUME NEW R, \A x \in R : Explained(x) PROVE Explained(Together(R))
<1> DEFINE t == Together(R)
<1>1. t.allowed = (\A x \in R : x.allowed) /\ t.causes = UNION {x.causes : x \in R}
  BY DEF Together
<1> HIDE DEF t
<1>2. ASSUME ~t.allowed PROVE t.causes # {}
  <2>1. PICK x \in R : ~x.allowed
    BY <1>1, <1>2, Zenon
  <2>2. x.causes # {}
    BY <2>1, Zenon DEF Explained
  <2>3. x.causes \subseteq t.causes
    BY <1>1
  <2> QED BY <2>2, <2>3
<1> QED BY <1>2, Zenon DEF Explained, t

\* Every check but that of an image explains its denials, and that one does if the
\* machine names an image or a lookup.
LEMMA RunExplained ==
    ASSUME NEW r, NEW chk, NEW bad, chk.kind \in Plain \/ Explained(chk.result),
           chk.kind = "image" => Pool(r, CHOOSE k \in chk.arg : TRUE).image.by # "none"
    PROVE  Explained(Run(r, chk, bad))
<1>1. Explained(RunRegistry(chk, bad)) /\ Explained(RunEndpoint(r, bad))
  BY ExplainedVerdicts DEF RunRegistry, RunEndpoint
<1>2. Explained(RunFailureDomain(r, chk, bad))
  BY ExplainedVerdicts, ExplainedTogether DEF RunFailureDomain
<1>3. chk.kind = "image" => Explained(RunImage(r, chk, bad))
  BY ExplainedVerdicts DEF RunImage
<1>4. Explained(RunImageVersion(r, chk, bad))
  BY ExplainedVerdicts DEF RunImageVersion
<1>5. Explained(RunCIDR(r, TRUE \in chk.arg, bad))
  <2> DEFINE pods == parseCIDRBlocks(r.pods)
             services == parseCIDRBlocks(r.services)
             nodes == resolveNodeSubnets(r, bad)
             own == {IF BadCIDR \in r.pods \cup r.services THEN Fail("parse") ELSE Pass,
                     NotOverlapping(pods, services, "podService")}
                    \cup {validatePodCIDR(p) : p \in pods}
                    \cup {validateServiceCIDR(p) : p \in services}
             over == {NotOverlapping(pods, nodes.found, "podNode"),
                      NotOverlapping(services, nodes.found, "serviceNode")}
  <2>1. \A S, T, cause : Explained(NotOverlapping(S, T, cause))
    BY ExplainedVerdicts DEF NotOverlapping
  <2>2. \A p : Explained(validatePodCIDR(p)) /\ Explained(validateServiceCIDR(p))
    BY ExplainedVerdicts DEF validatePodCIDR, validateServiceCIDR
  <2>3. \A x \in own : Explained(x)
    BY <2>1, <2>2, ExplainedVerdicts
  <2>4. \A x \in over \cup {FailInternal("resolve")} : Explained(x)
    BY <2>1, ExplainedVerdicts
  <2>5. RunCIDR(r, TRUE \in chk.arg, bad)
           \in {Together(own), Panic, Together(own \cup {FailInternal("resolve")}), Together(own \cup over)}
    BY Zenon DEF RunCIDR
  <2> HIDE DEF own, over
  <2>6. /\ Explained(Together(own)) /\ Explained(Together(own \cup over))
        /\ Explained(Together(own \cup {FailInternal("resolve")}))
    BY <2>3, <2>4, ExplainedTogether
  <2> QED BY <2>5, <2>6, ExplainedVerdicts
<1>6. Explained(RunStorage(r, chk, bad))
  <2>1. \A id : Explained(ContainersOn(r, id, bad))
    BY ExplainedVerdicts, ExplainedTogether DEF ContainersOn
  <2> QED BY <2>1, ExplainedVerdicts DEF RunStorage
<1>7. Explained(RunMetro(r, chk, bad))
  <2>1. \A byFD : Explained(checkSubnetConsistency(byFD))
    BY ExplainedVerdicts DEF checkSubnetConsistency
  <2> QED BY <2>1, ExplainedVerdicts, ExplainedTogether DEF RunMetro
<1>8. Explained(RunSingleMetro(chk)) /\ Explained(RunScale(r, chk, bad))
  BY ExplainedVerdicts DEF RunSingleMetro, RunScale
<1>9. Explained(RunHosting(r, chk, bad)) /\ Explained(RunLatency(r, chk, bad))
  <2>1. Explained(RunHosting(r, chk, bad))
    BY ExplainedVerdicts DEF RunHosting
  <2>2. Explained(RunLatency(r, chk, bad))
    BY ExplainedVerdicts DEF RunLatency
  <2> QED BY <2>1, <2>2
<1>10. Explained(RunSites(r, chk, bad)) /\ Explained(RunVHA(r, chk))
  BY ExplainedVerdicts DEF RunSites, RunVHA
<1>11. Explained(RunNodePools(r))
  BY ExplainedVerdicts, ExplainedTogether DEF RunNodePools
<1> QED BY <1>1, <1>2, <1>3, <1>4, <1>5, <1>6, <1>7, <1>8, <1>9, <1>10, <1>11
       DEF Run, Plain

\* What Init already knows explains its denials.
LEMMA ListsExplained ==
    ASSUME NEW r, WellFormed(r), NEW skipped, NEW bad,
           NEW c \in Range(GenericInit(r)) \cup Range(NutanixInit(r, skipped, bad))
    PROVE  /\ c.kind \in Plain \/ Explained(c.result)
           /\ c.kind = "image" => \E k \in Pools(r) : c.arg = {k}
<1>1. Explained(CredentialsResult(r, bad)) /\ Explained(VersionResult(r, skipped, bad))
  BY ExplainedVerdicts DEF CredentialsResult, SecretResult, ClientResult, VersionResult
<1>2. CASE c \in Range(GenericInit(r))
  <2>1. CASE c.kind \in Plain
    BY <2>1 DEF Plain
  <2>2. CASE c = GenericConfiguration(r)
    BY <2>2, ExplainedVerdicts DEF GenericConfiguration, Known
  <2> QED BY <1>2, <2>1, <2>2, GenericKinds
<1>3. CASE c \in Range(NutanixInit(r, skipped, bad))
  <2>1. CASE c.kind \in Plain
    BY <2>1 DEF Plain
  <2>2. CASE \E k \in Pools(r) : c = Check("image", {k}, FALSE)
    BY <2>2, ExplainedVerdicts DEF Check
  <2>3. CASE c \in {NutanixConfiguration(r), Known("credentials", CredentialsResult(r, bad)),
                    Known("version", VersionResult(r, skipped, bad))}
    BY <1>1, <2>3, ExplainedVerdicts DEF NutanixConfiguration, Known
  <2> QED BY <1>3, <2>1, <2>2, <2>3, NutanixKinds
<1> QED BY <1>2, <1>3

\* A check that denies names its cause, or a pool names neither an image nor a lookup.
LEMMA SlotsExplained ==
    ASSUME PreflightInv, Produced, stored = Checkers, NEW x \in NamedResults,
           x.result.causes = {}, ~x.result.allowed
    PROVE  Imageless(req) # {}
<1>0. PICK i \in Checkers : \E j \in DOMAIN checks[i] :
        x = [name |-> Name(checks[i][j]), slot |-> <<i, j>>, result |-> results[i][j]]
  BY DEF NamedResults
<1>1. PICK j \in DOMAIN checks[i] : x.result = results[i][j]
  BY <1>0
<1>2. i \in inited /\ next[i] > Len(checks[i]) /\ running[i] = {} /\ next[i] \in Nat
  BY DEF PreflightInv, StoredWhenDone, ChecksDone, Shape
<1>3. Len(checks[i]) \in Nat /\ DOMAIN checks[i] = 1 .. Len(checks[i])
  BY ListFacts DEF PreflightInv, Looped, SoundList
<1>4. j \in Filled(i)
  BY <1>2, <1>3 DEF Filled
<1> DEFINE c == checks[i][j]
<1>5. PICK bad \in BadSets : checks[i] = ChecksOf(i, bad)
  BY <1>2 DEF Produced
<1>6. FromSkip(c, results[i][j]) \/ FromRun(c, results[i][j])
  BY <1>2, <1>4 DEF Produced
<1>7. ~Explained(results[i][j])
  BY <1>1 DEF Explained
<1>8. ~FromSkip(c, results[i][j])
  BY <1>7, ExplainedVerdicts DEF FromSkip, Skipped
<1>9. PICK b : results[i][j] = Recovered(Run(req, c, b))
  BY <1>6, <1>8 DEF FromRun
<1>10. ~Explained(Run(req, c, b))
  BY <1>7, <1>9, ExplainedVerdicts DEF Recovered
<1>11. WellFormed(req)
  BY RequestsAreWellFormed DEF req, Table, PreflightInv, Shape
<1>12. c \in Range(GenericInit(req)) \cup Range(NutanixInit(req, For(req, "NutanixPrismCentralVersion"), bad))
  BY <1>5 DEF ChecksOf, Range
<1> HIDE DEF c
<1>13. /\ c.kind \in Plain \/ Explained(c.result)
       /\ c.kind = "image" => \E k \in Pools(req) : c.arg = {k}
  BY <1>11, <1>12, ListsExplained
<1>14. c.kind = "image" /\ Pool(req, CHOOSE k \in c.arg : TRUE).image.by = "none"
  BY <1>10, <1>13, RunExplained
<1>15. PICK k \in Pools(req) : c.arg = {k}
  BY <1>13, <1>14
<1>16. (CHOOSE n \in c.arg : TRUE) = k
  BY <1>15
<1>17. Pool(req, k) \in req.cp \cup Range(req.workers) /\ Pool(req, k).image.by = "none"
  BY <1>11, <1>14, <1>16, PoolsFinite
<1>18. Pool(req, k).nutanix
  <2>1. CASE k \in WorkerConfigs(req)
    <3>1. k # 0
      <4>1. DOMAIN req.workers = 1 .. Len(req.workers)
        BY <1>11, ListFacts DEF WellFormed
      <4> QED BY <2>1, <4>1 DEF WorkerConfigs
    <3> QED BY <2>1, <3>1 DEF WorkerConfigs, Pool
  <2>2. CASE k \notin WorkerConfigs(req)
    <3>1. k = 0 /\ cpPools(req) # {}
      BY <1>15, <2>2 DEF Pools
    <3>2. Pool(req, k) \in req.cp
      BY <3>1 DEF Pool, cpPools
    <3> QED BY <1>11, <3>2 DEF WellFormed
  <2> QED BY <2>1, <2>2
<1> QED BY <1>17, <1>18 DEF Imageless

\* An admission with an internal error in any of its checks is refused as a 500 that
\* names a cause, and a 422 without a cause has a pool with neither an image nor a
\* lookup: for every request, every set of failing calls, every interleaving and
\* every deadline.
THEOREM InternalErrorsRefused == Spec => []InternalErrorsRefuse
<1>1. Init => Produced
  BY DEF Init, Produced
<1>2. PreflightInv /\ Produced => InternalErrorsRefuse
  <2> SUFFICES ASSUME PreflightInv, Produced, phase = "done"
               PROVE  /\ resp.code = 500 => ~resp.allowed /\ resp.causes # {}
                      /\ resp.code = 422 => resp.causes # {} \/ Imageless(req) # {}
                      /\ (\E i \in Checkers : \E j \in DOMAIN results[i] : results[i][j].internal)
                            => resp.code = 500
    BY DEF InternalErrorsRefuse
  <2>1. CASE inited = {} /\ EarlyAnswer(resp)
    <3>1. resp.code \in {200, 400}
      BY <2>1 DEF EarlyAnswer
    <3>2. \A i \in Checkers : DOMAIN results[i] = {}
      BY <2>1, NothingBeforeInit
    <3> QED BY <3>1, <3>2
  <2>2. CASE stored = Checkers /\ resp = Summary(NamedResults)
    <3> DEFINE R == {x.result : x \in NamedResults}
    <3>1. \A y \in R : Sound(y)
      BY <2>2, ResultsJudged
    <3>2. Sound(Together(R))
      BY <3>1, TogetherSound
    <3>3. /\ resp.allowed = Together(R).allowed
          /\ resp.code = IF Together(R).internal THEN 500 ELSE IF Together(R).allowed THEN 200 ELSE 422
          /\ resp.causes = UNION {{<<x.name, c>> : c \in x.result.causes} : x \in NamedResults}
      BY <2>2 DEF Summary
    <3>4. ASSUME NEW x \in NamedResults, x.result.causes # {} PROVE resp.causes # {}
      <4>1. PICK c : c \in x.result.causes
        BY <3>4
      <4>2. <<x.name, c>> \in resp.causes
        BY <3>3, <4>1
      <4> QED BY <4>2
    <3>5. resp.code = 500 => ~resp.allowed /\ resp.causes # {}
      <4> SUFFICES ASSUME resp.code = 500 PROVE ~resp.allowed /\ resp.causes # {}
        OBVIOUS
      <4>1. Together(R).internal /\ ~resp.allowed
        BY <3>2, <3>3 DEF Sound
      <4>2. PICK x \in NamedResults : x.result.internal
        BY <4>1 DEF Together
      <4>3. x.result.causes # {}
        BY <2>2, <4>2, ResultsJudged DEF Sound
      <4> QED BY <3>4, <4>1, <4>3
    <3>6. resp.code = 422 => resp.causes # {} \/ Imageless(req) # {}
      <4> SUFFICES ASSUME resp.code = 422 PROVE resp.causes # {} \/ Imageless(req) # {}
        OBVIOUS
      <4>1. ~Together(R).allowed
        BY <3>3
      <4>2. PICK x \in NamedResults : ~x.result.allowed
        BY <4>1 DEF Together
      <4>3. CASE x.result.causes # {}
        BY <3>4, <4>3
      <4>4. CASE x.result.causes = {}
        BY <2>2, <4>2, <4>4, SlotsExplained
      <4> QED BY <4>3, <4>4
    <3>7. ASSUME NEW i \in Checkers, NEW j \in DOMAIN results[i], results[i][j].internal
          PROVE  resp.code = 500
      <4>1. j \in DOMAIN checks[i]
        BY DEF PreflightInv, Shape
      <4>2. results[i][j] \in R
        <5>1. [name |-> Name(checks[i][j]), slot |-> <<i, j>>, result |-> results[i][j]] \in NamedResults
          BY <4>1 DEF NamedResults
        <5> QED BY <5>1
      <4>3. Together(R).internal
        BY <3>7, <4>2 DEF Together
      <4> QED BY <3>3, <4>3
    <3> QED BY <3>5, <3>6, <3>7
  <2> QED BY <2>1, <2>2 DEF PreflightInv, Answered
<1> QED BY <1>1, <1>2, InitInv, Inductive, ProducedKept, PTL DEF Spec

\* A Cluster that Handle admits satisfies the statement of every check that it did
\* not skip and that needs none it skipped: for every request, every interleaving
\* of the checks, every call that fails and every deadline that expires.
THEOREM AdmittedClustersAreSound == Spec => []AdmittedIsSound
<1>1. Init => Produced
  BY DEF Init, Produced
<1>2. PreflightInv /\ Produced => AdmittedIsSound
  <2> SUFFICES ASSUME PreflightInv, Produced, Admitted, NEW name \in CheckNames,
                      ~\E n \in Needs(name) \cup {name} : For(req, n),
                      ~(name = "NutanixControlPlaneEndpoint" /\ (Expired \/ faults > 0)),
                      ~(name = "NutanixCIDRValidation" /\ SharedSubnetName(req))
               PROVE  Holds(req, name)
    BY DEF AdmittedIsSound
  <2>1. WellFormed(req)
    BY RequestsAreWellFormed DEF req, Table, PreflightInv, Shape
  <2>2. PICK bad \in BadSets : checks["nutanix"] = NutanixList(req, bad)
    BY AdmittedPasses DEF ChecksOf, Checkers, NutanixList
  <2>3. checks["generic"] = GenericInit(req)
    BY AdmittedPasses DEF ChecksOf, Checkers
  <2>4. \A i \in Checkers : Passed(req, checks[i])
    BY AdmittedPasses DEF Passed, Passes
  <2>5. Passed(req, GenericInit(req)) /\ Passed(req, NutanixList(req, bad))
    BY <2>2, <2>3, <2>4 DEF Checkers
  <2>6. CASE name = "NutanixControlPlaneEndpoint"
    <3> DEFINE c == Check("endpoint", {}, FALSE)
    <3>1. c \in Range(checks["nutanix"])
      BY <2>1, <2>2, NutanixInitHas DEF NutanixList
    <3>2. Name(c) = "NutanixControlPlaneEndpoint"
      BY NamesOfKinds
    <3> HIDE DEF c
    <3>3. ~For(req, Name(c))
      BY <2>6, <3>2
    <3>4. PICK b : OK(Run(req, c, b)) /\ ("dial" \in b => Expired \/ faults > 0)
      BY <3>1, <3>3, AdmittedPasses DEF Checkers
    <3>5. "dial" \notin b
      BY <2>6, <3>4
    <3> QED BY <2>6, <3>4, <3>5, EndpointHolds DEF c
  <2>7. CASE name # "NutanixControlPlaneEndpoint"
    BY <2>1, <2>5, <2>7, WhatPassedHolds
  <2> QED BY <2>6, <2>7
<1> QED BY <1>1, <1>2, InitInv, Inductive, ProducedKept, PTL DEF Spec
==============================================================================
