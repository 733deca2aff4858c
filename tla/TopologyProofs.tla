---------------------------- MODULE TopologyProofs ----------------------------
(***************************************************************************)
(* What the handlers may never do, for every set of requests and Secrets,  *)
(* every number of pools, events and versions.                             *)
(*                                                                         *)
(* TopologyInv is inductive: what a call has read or written so far is     *)
(* backed by what the API server and the generated Secret hold (Backed),   *)
(* and nothing that a call relies on goes away (Kept).  The templates are  *)
(* then followed mutator by mutator: what their files and fields hold is   *)
(* what the context calls for (Made).  So a file comes from a Secret only  *)
(* where the program of the call has a step that made it or found it       *)
(* (AnswerBacked); and since every call is for a Cluster that the webhooks *)
(* have admitted (AdmissionInv), its templates hold nothing that they are  *)
(* there to refuse (SoundSample).                                          *)
(***************************************************************************)
EXTENDS Topology, FiniteSetTheorems, SequenceTheorems, WellFoundedInduction, TLAPS

------------------------------------------------------------------------------
(* Lists *)

\* Induction over the natural numbers, with a set for the property.
LEMMA Induct == ASSUME NEW S, 0 \in S, \A n \in Nat : n \in S => n + 1 \in S
                PROVE Nat \subseteq S
<1> DEFINE U == Nat \ S
<1> SUFFICES ASSUME U # {} PROVE FALSE
  OBVIOUS
<1> HIDE DEF U
<1>1. U \subseteq Nat
  BY DEF U
<1>2. PICK x \in U : \A y \in U : ~ (<<y, x>> \in OpToRel(<, Nat))
  BY <1>1, NatLessThanWellFounded, WFMin
<1>3. x \in Nat /\ x \notin S /\ x # 0
  BY <1>1 DEF U
<1>4. x - 1 \in Nat /\ x - 1 < x /\ (x - 1) + 1 = x
  BY <1>3
<1>5. x - 1 \notin U
  BY <1>2, <1>3, <1>4 DEF OpToRel
<1>6. x - 1 \in S
  BY <1>4, <1>5 DEF U
<1> QED BY <1>3, <1>4, <1>6

\* A list is a sequence of its own elements.
LEMMA ListFacts ==
    ASSUME NEW s, IsList(s)
    PROVE  /\ Len(s) \in Nat /\ DOMAIN s = 1 .. Len(s)
           /\ Range(s) = {s[i] : i \in 1 .. Len(s)}
  BY LenProperties DEF IsList, Range

\* A sequence over a set is a list of elements of that set.
LEMMA ListOf == ASSUME NEW A, NEW s \in Seq(A) PROVE IsList(s) /\ Range(s) \subseteq A
  BY SeqOfRange, RangeOfSeq DEF IsList

\* Concatenation joins the elements.
LEMMA ConcatList ==
    ASSUME NEW s, NEW t, IsList(s), IsList(t)
    PROVE  IsList(s \o t) /\ Range(s \o t) = Range(s) \cup Range(t)
<1> DEFINE A == Range(s) \cup Range(t)
<1>1. s \in Seq(A) /\ t \in Seq(A)
  BY SeqMonotonic DEF IsList
<1> HIDE DEF A
<1>2. s \o t \in Seq(A) /\ Range(s \o t) = Range(s) \cup Range(t)
  BY <1>1, ConcatProperties, RangeConcatenation
<1> QED BY <1>2, ListOf

\* A function on the indices of a list is a list.
LEMMA MapList ==
    ASSUME NEW s, IsList(s), NEW g, g = [i \in DOMAIN s |-> g[i]]
    PROVE  IsList(g) /\ Len(g) = Len(s) /\ DOMAIN g = DOMAIN s
<1> DEFINE A == Range(g)
<1>1. Len(s) \in Nat /\ DOMAIN s = 1 .. Len(s)
  BY ListFacts
<1>2. g \in [1 .. Len(s) -> A]
  BY <1>1 DEF Range
<1>3. g \in Seq(A)
  BY <1>1, <1>2
<1>4. Len(g) = Len(s)
  BY <1>1, <1>2, <1>3, LenProperties
<1> QED BY <1>1, <1>3, <1>4, ListFacts DEF IsList

\* The concatenations of the first m lists of ss.
Concats(ss, m, f) == f = [i \in 1 .. m |-> IF i = 1 THEN ss[i] ELSE f[i - 1] \o ss[i]]

\* The recursive function that FlattenSeq takes a value of exists.
LEMMA ConcatsExist ==
    ASSUME NEW ss PROVE \A m \in Nat : \E f : Concats(ss, m, f)
<1> DEFINE S == {m \in Nat : \E f : Concats(ss, m, f)}
<1>1. 0 \in S
  <2> DEFINE f == [i \in 1 .. 0 |-> ss[i]]
  <2>1. Concats(ss, 0, f)
    BY DEF Concats
  <2> QED BY <2>1, Zenon
<1>2. ASSUME NEW m \in Nat, m \in S PROVE m + 1 \in S
  <2>1. PICK f : Concats(ss, m, f)
    BY <1>2
  <2> DEFINE g == [i \in 1 .. m + 1 |-> IF i = 1 THEN ss[i] ELSE IF i <= m THEN f[i] ELSE f[m] \o ss[i]]
  <2>2. ASSUME NEW i \in 1 .. m + 1
        PROVE  g[i] = IF i = 1 THEN ss[i] ELSE g[i - 1] \o ss[i]
    <3>1. CASE i = 1
      BY <3>1
    <3>2. CASE i # 1 /\ i <= m
      <4>1. i \in 1 .. m /\ i - 1 \in 1 .. m /\ i - 1 \in 1 .. m + 1
        BY <3>2
      <4>2. f[i] = f[i - 1] \o ss[i] /\ (i - 1 = 1 => f[i - 1] = ss[i - 1])
        BY <2>1, <3>2, <4>1 DEF Concats
      <4>3. g[i] = f[i]
        BY <3>2
      <4>4. g[i - 1] = IF i - 1 = 1 THEN ss[i - 1] ELSE f[i - 1]
        BY <4>1
      <4> HIDE DEF g
      <4> QED BY <3>2, <4>2, <4>3, <4>4
    <3>3. CASE i # 1 /\ ~(i <= m)
      <4>1. i = m + 1 /\ m \in 1 .. m /\ m \in 1 .. m + 1
        BY <3>3
      <4>2. m = 1 => f[m] = ss[m]
        BY <2>1, <4>1 DEF Concats
      <4>3. g[m] = IF m = 1 THEN ss[m] ELSE f[m]
        BY <4>1
      <4>4. g[i] = f[m] \o ss[i]
        BY <3>3
      <4> HIDE DEF g
      <4>5. g[m] = f[m] /\ i - 1 = m
        BY <4>1, <4>2, <4>3
      <4>6. g[i - 1] = f[m]
        BY ONLY <4>5, Zenon
      <4>7. g[i] = g[i - 1] \o ss[i]
        BY ONLY <4>4, <4>6, Zenon
      <4> QED BY <3>3, <4>7
    <3> QED BY <3>1, <3>2, <3>3
  <2>3. Concats(ss, m + 1, g)
    <3> HIDE DEF g
    <3> SUFFICES g = [i \in 1 .. m + 1 |-> g[i]]
      BY <2>2 DEF Concats
    <3> QED BY DEF g
  <2> HIDE DEF g
  <2> QED BY <2>3
<1> HIDE DEF S
<1>3. Nat \subseteq S
  BY <1>1, <1>2, Induct
<1> QED BY <1>3 DEF S

\* FlattenSeq appends one list after another.
LEMMA FlattenSteps ==
    ASSUME NEW ss, IsList(ss), Len(ss) > 0
    PROVE  \E f : /\ FlattenSeq(ss) = f[Len(ss)] /\ f[1] = ss[1]
                  /\ \A k \in Nat \ {0} : k + 1 <= Len(ss) => f[k + 1] = f[k] \o ss[k + 1]
<1> DEFINE n == Len(ss)
           f == CHOOSE f : Concats(ss, n, f)
<1>1. n \in Nat
  BY ListFacts
<1>2. Concats(ss, n, f)
  BY <1>1, ConcatsExist
<1>3. FlattenSeq(ss) = f[n]
  BY DEF FlattenSeq, Concats
<1> HIDE DEF f
<1>4. f[1] = ss[1]
  BY <1>1, <1>2 DEF Concats
<1>5. ASSUME NEW k \in Nat \ {0}, k + 1 <= n PROVE f[k + 1] = f[k] \o ss[k + 1]
  <2>1. k + 1 \in 1 .. n /\ k + 1 # 1 /\ (k + 1) - 1 = k
    BY <1>1, <1>5
  <2> QED BY <1>2, <2>1 DEF Concats
<1> QED BY <1>3, <1>4, <1>5

\* What concatenation preserves FlattenSeq preserves.
LEMMA FlattenClosed ==
    ASSUME NEW C, <<>> \in C, \A a, b \in C : a \o b \in C,
           NEW ss, IsList(ss), \A i \in 1 .. Len(ss) : ss[i] \in C
    PROVE  FlattenSeq(ss) \in C
<1>1. Len(ss) \in Nat
  BY ListFacts
<1>2. CASE Len(ss) = 0
  <2>1. ss = <<>>
    BY <1>2, EmptySeq DEF IsList
  <2> QED BY <1>2, <2>1 DEF FlattenSeq
<1>3. CASE Len(ss) > 0
  <2>1. PICK f : /\ FlattenSeq(ss) = f[Len(ss)] /\ f[1] = ss[1]
                 /\ \A k \in Nat \ {0} : k + 1 <= Len(ss) => f[k + 1] = f[k] \o ss[k + 1]
    BY <1>3, FlattenSteps
  <2> DEFINE S == {k \in Nat : k + 1 <= Len(ss) => f[k + 1] \in C}
  <2>2. 0 \in S
    BY <1>1, <1>3, <2>1
  <2>3. ASSUME NEW k \in Nat, k \in S PROVE k + 1 \in S
    <3> SUFFICES ASSUME (k + 1) + 1 <= Len(ss) PROVE f[(k + 1) + 1] \in C
      OBVIOUS
    <3>1. k + 1 \in Nat \ {0} /\ k + 1 <= Len(ss) /\ (k + 1) + 1 \in 1 .. Len(ss)
      BY <1>1
    <3>2. f[k + 1] \in C /\ ss[(k + 1) + 1] \in C
      BY <2>3, <3>1
    <3>3. f[(k + 1) + 1] = f[k + 1] \o ss[(k + 1) + 1]
      BY <2>1, <3>1
    <3> QED BY <3>2, <3>3
  <2> HIDE DEF S
  <2>4. Nat \subseteq S
    BY <2>2, <2>3, Induct
  <2>5. Len(ss) - 1 \in S /\ (Len(ss) - 1) + 1 = Len(ss) /\ Len(ss) <= Len(ss)
    BY <1>1, <1>3, <2>4
  <2> QED BY <2>1, <2>5 DEF S
<1> QED BY <1>1, <1>2, <1>3

\* The elements of FlattenSeq(ss) are those of the lists.
LEMMA FlattenList ==
    ASSUME NEW ss, IsList(ss), \A i \in 1 .. Len(ss) : IsList(ss[i])
    PROVE  /\ IsList(FlattenSeq(ss))
           /\ Range(FlattenSeq(ss)) = UNION {Range(ss[i]) : i \in 1 .. Len(ss)}
<1> DEFINE n == Len(ss)
           Upto(k) == UNION {Range(ss[i]) : i \in 1 .. k}
<1>1. n \in Nat
  BY ListFacts
<1>2. CASE n = 0
  <2>1. ss = <<>>
    BY <1>2, EmptySeq DEF IsList
  <2>2. FlattenSeq(ss) = <<>>
    BY <1>2, <2>1 DEF FlattenSeq
  <2>3. Range(<<>>) = {}
    BY DEF Range
  <2> QED BY <1>2, <2>1, <2>2, <2>3
<1>3. CASE n > 0
  <2>1. PICK f : /\ FlattenSeq(ss) = f[n] /\ f[1] = ss[1]
                 /\ \A k \in Nat \ {0} : k + 1 <= n => f[k + 1] = f[k] \o ss[k + 1]
    BY <1>3, FlattenSteps
  <2> DEFINE S == {k \in Nat : k + 1 <= n => IsList(f[k + 1]) /\ Range(f[k + 1]) = Upto(k + 1)}
  <2>2. 0 \in S
    <3>1. Upto(1) = Range(ss[1]) /\ IsList(ss[1])
      <4>1. 1 .. 1 = {1} /\ 1 \in 1 .. n
        BY <1>1, <1>3
      <4> QED BY <4>1
    <3> QED BY <2>1, <3>1
  <2>3. ASSUME NEW k \in Nat, k \in S PROVE k + 1 \in S
    <3> SUFFICES ASSUME (k + 1) + 1 <= n
                 PROVE  IsList(f[(k + 1) + 1]) /\ Range(f[(k + 1) + 1]) = Upto((k + 1) + 1)
      OBVIOUS
    <3>1. k + 1 \in Nat \ {0} /\ k + 1 <= n /\ (k + 1) + 1 \in 1 .. n
      BY <1>1
    <3>2. IsList(f[k + 1]) /\ Range(f[k + 1]) = Upto(k + 1) /\ IsList(ss[(k + 1) + 1])
      BY <2>3, <3>1
    <3>3. f[(k + 1) + 1] = f[k + 1] \o ss[(k + 1) + 1]
      BY <2>1, <3>1
    <3>4. Upto((k + 1) + 1) = Upto(k + 1) \cup Range(ss[(k + 1) + 1])
      <4>1. 1 .. (k + 1) + 1 = (1 .. k + 1) \cup {(k + 1) + 1}
        OBVIOUS
      <4> QED BY <4>1
    <3> QED BY <3>2, <3>3, <3>4, ConcatList
  <2> HIDE DEF S
  <2>4. Nat \subseteq S
    BY <2>2, <2>3, Induct
  <2>5. n - 1 \in S /\ (n - 1) + 1 = n /\ n <= n
    BY <1>1, <1>3, <2>4
  <2>6. IsList(f[n]) /\ Range(f[n]) = Upto(n)
    BY <2>5 DEF S
  <2> QED BY <2>1, <2>6
<1> QED BY <1>1, <1>2, <1>3

\* Lists of none, one and two elements.
LEMMA Literals ==
    /\ IsList(<<>>) /\ Range(<<>>) = {}
    /\ \A x : IsList(<<x>>) /\ Range(<<x>>) = {x}
    /\ \A x, y : IsList(<<x, y>>) /\ Range(<<x, y>>) = {x, y}
<1>1. IsList(<<>>) /\ Range(<<>>) = {}
  BY EmptySeq DEF IsList, Range
<1>2. ASSUME NEW x PROVE IsList(<<x>>) /\ Range(<<x>>) = {x}
  <2>1. <<x>> \in Seq({x}) /\ Range(<<x>>) = {x}
    BY DEF Range
  <2> QED BY <2>1 DEF IsList
<1>3. ASSUME NEW x, NEW y PROVE IsList(<<x, y>>) /\ Range(<<x, y>>) = {x, y}
  <2>1. <<x, y>> \in Seq({x, y}) /\ Range(<<x, y>>) = {x, y}
    BY DEF Range
  <2> QED BY <2>1 DEF IsList
<1> QED BY <1>1, <1>2, <1>3

\* Keep leaves out elements and nothing else.
LEMMA KeepList ==
    ASSUME NEW s, IsList(s), NEW I
    PROVE  IsList(Keep(s, I)) /\ Range(Keep(s, I)) = {s[i] : i \in I \cap DOMAIN s}
<1> DEFINE g == [i \in DOMAIN s |-> IF i \in I THEN <<s[i]>> ELSE <<>>]
<1>1. IsList(g) /\ Len(g) = Len(s) /\ DOMAIN s = 1 .. Len(s)
  BY MapList, ListFacts
<1>2. \A i \in 1 .. Len(g) : IsList(g[i]) /\ Range(g[i]) = IF i \in I THEN {s[i]} ELSE {}
  BY <1>1, Literals
<1>3. Keep(s, I) = FlattenSeq(g)
  BY DEF Keep
<1> HIDE DEF g
<1>4. IsList(FlattenSeq(g)) /\ Range(FlattenSeq(g)) = UNION {Range(g[i]) : i \in 1 .. Len(g)}
  BY <1>1, <1>2, FlattenList
<1>5. UNION {Range(g[i]) : i \in 1 .. Len(g)} = {s[i] : i \in I \cap DOMAIN s}
  BY <1>1, <1>2
<1> QED BY <1>3, <1>4, <1>5

------------------------------------------------------------------------------
(* The steps of a call *)

Ops == {"virtualip", "coredns", "credentials", "apply", "mirrors", "keyExists", "keyCreate"}

\* A step that writes follows the one that reads for it, and credentials that are
\* read are applied.
InOrder(p) ==
    \A k \in 1 .. Len(p) :
        /\ p[k].op \in Ops
        /\ p[k].op = "credentials" => k < Len(p) /\ p[k + 1].op = "apply"
        /\ p[k].op = "apply" => k > 1 /\ p[k - 1].op = "credentials"
        /\ p[k].op = "keyCreate" => k > 1 /\ p[k - 1].op = "keyExists"
IsProgram(p) == IsList(p) /\ InOrder(p)

\* One program after another is a program: no pair of steps is split.
LEMMA ConcatPrograms ==
    ASSUME NEW a, NEW b, IsProgram(a), IsProgram(b) PROVE IsProgram(a \o b)
<1> DEFINE A == Range(a) \cup Range(b)
<1>1. a \in Seq(A) /\ b \in Seq(A)
  BY SeqMonotonic DEF IsProgram, IsList
<1> HIDE DEF A
<1>2. /\ Len(a) \in Nat /\ Len(b) \in Nat
      /\ Len(a \o b) = Len(a) + Len(b)
      /\ \A i \in 1 .. Len(a) + Len(b) : (a \o b)[i] = IF i <= Len(a) THEN a[i] ELSE b[i - Len(a)]
  BY <1>1, ConcatProperties, LenProperties
<1>3. ASSUME NEW k \in 1 .. Len(a) + Len(b), k <= Len(a)
      PROVE  /\ (a \o b)[k] = a[k] /\ k \in 1 .. Len(a)
             /\ k < Len(a) => (a \o b)[k + 1] = a[k + 1]
             /\ k > 1 => (a \o b)[k - 1] = a[k - 1]
  BY <1>2, <1>3
<1>4. ASSUME NEW k \in 1 .. Len(a) + Len(b), k > Len(a)
      PROVE  /\ (a \o b)[k] = b[k - Len(a)] /\ k - Len(a) \in 1 .. Len(b)
             /\ k < Len(a) + Len(b) => (a \o b)[k + 1] = b[(k - Len(a)) + 1]
             /\ k > Len(a) + 1 => (a \o b)[k - 1] = b[(k - Len(a)) - 1]
  <2>1. (a \o b)[k] = b[k - Len(a)] /\ k - Len(a) \in 1 .. Len(b)
    BY <1>2, <1>4
  <2>2. ASSUME k < Len(a) + Len(b) PROVE (a \o b)[k + 1] = b[(k - Len(a)) + 1]
    <3>1. k + 1 \in 1 .. Len(a) + Len(b) /\ ~(k + 1 <= Len(a)) /\ (k + 1) - Len(a) = (k - Len(a)) + 1
      BY <1>2, <1>4, <2>2
    <3>2. (a \o b)[k + 1] = b[(k + 1) - Len(a)]
      BY <1>2, <3>1
    <3> QED BY <3>1, <3>2
  <2>3. ASSUME k > Len(a) + 1 PROVE (a \o b)[k - 1] = b[(k - Len(a)) - 1]
    <3>1. k - 1 \in 1 .. Len(a) + Len(b) /\ ~(k - 1 <= Len(a)) /\ (k - 1) - Len(a) = (k - Len(a)) - 1
      BY <1>2, <1>4, <2>3
    <3>2. (a \o b)[k - 1] = b[(k - 1) - Len(a)]
      BY <1>2, <3>1
    <3> QED BY <3>1, <3>2
  <2> QED BY <2>1, <2>2, <2>3
<1>5. ASSUME NEW k \in 1 .. Len(a) + Len(b)
      PROVE  /\ (a \o b)[k].op \in Ops
             /\ (a \o b)[k].op = "credentials" => k < Len(a) + Len(b) /\ (a \o b)[k + 1].op = "apply"
             /\ (a \o b)[k].op = "apply" => k > 1 /\ (a \o b)[k - 1].op = "credentials"
             /\ (a \o b)[k].op = "keyCreate" => k > 1 /\ (a \o b)[k - 1].op = "keyExists"
  <2>1. CASE k <= Len(a)
    BY <1>2, <1>3, <2>1 DEF IsProgram, InOrder
  <2>2. CASE k > Len(a)
    <3>1. PICK j : j = k - Len(a)
      OBVIOUS
    <3>2. /\ j \in 1 .. Len(b) /\ (a \o b)[k] = b[j]
          /\ k < Len(a) + Len(b) => (a \o b)[k + 1] = b[j + 1]
          /\ k > Len(a) + 1 => (a \o b)[k - 1] = b[j - 1]
      BY <1>4, <2>2, <3>1
    <3>3. /\ b[j].op \in Ops
          /\ b[j].op = "credentials" => j < Len(b) /\ b[j + 1].op = "apply"
          /\ b[j].op = "apply" => j > 1 /\ b[j - 1].op = "credentials"
          /\ b[j].op = "keyCreate" => j > 1 /\ b[j - 1].op = "keyExists"
      BY <3>2 DEF IsProgram, InOrder
    <3>4. (j < Len(b) => k < Len(a) + Len(b)) /\ (j > 1 => k > Len(a) + 1 /\ k > 1)
      BY <1>2, <3>1
    <3> QED BY <3>2, <3>3, <3>4
  <2> QED BY <1>2, <2>1, <2>2
<1>6. IsList(a \o b)
  BY ConcatList DEF IsProgram
<1> QED BY <1>2, <1>5, <1>6 DEF IsProgram, InOrder

\* What the mutators of one template do is a program.
LEMMA Pieces ==
    ASSUME NEW t
    PROVE  /\ IsProgram(<<>>)
           /\ \A op \in Ops \ {"credentials", "apply", "keyCreate"} :
                IsProgram(OneStep(op, t)) /\ [op |-> op, t |-> t] \in Range(OneStep(op, t))
           /\ IsProgram(OneStep("credentials", t) \o OneStep("apply", t))
           /\ IsProgram(OneStep("keyExists", t) \o OneStep("keyCreate", t))
           /\ [op |-> "credentials", t |-> t] \in Range(OneStep("credentials", t) \o OneStep("apply", t))
           /\ [op |-> "keyCreate", t |-> t] \in Range(OneStep("keyExists", t) \o OneStep("keyCreate", t))
<1>1. \A op : IsList(OneStep(op, t)) /\ Range(OneStep(op, t)) = {[op |-> op, t |-> t]}
  BY Literals DEF OneStep
<1>2. IsProgram(<<>>)
  BY Literals DEF IsProgram, InOrder
<1>3. ASSUME NEW op \in Ops \ {"credentials", "apply", "keyCreate"}
      PROVE  IsProgram(OneStep(op, t)) /\ [op |-> op, t |-> t] \in Range(OneStep(op, t))
  BY <1>1 DEF IsProgram, InOrder, OneStep
<1>4. ASSUME NEW first, NEW second
      PROVE  /\ IsList(OneStep(first, t) \o OneStep(second, t))
             /\ [op |-> second, t |-> t] \in Range(OneStep(first, t) \o OneStep(second, t))
             /\ [op |-> first, t |-> t] \in Range(OneStep(first, t) \o OneStep(second, t))
             /\ OneStep(first, t) \o OneStep(second, t) = <<[op |-> first, t |-> t], [op |-> second, t |-> t]>>
  <2>1. ASSUME NEW x, NEW y PROVE <<x>> \o <<y>> = <<x, y>>
    <3> DEFINE xy == <<x>> \o <<y>>
    <3>1. <<x>> \in Seq({x, y}) /\ <<y>> \in Seq({x, y}) /\ <<x, y>> \in Seq({x, y})
      OBVIOUS
    <3>2. Len(<<x>>) = 1 /\ Len(<<y>>) = 1 /\ Len(<<x, y>>) = 2
      OBVIOUS
    <3>3. xy \in Seq({x, y}) /\ Len(xy) = 2
      BY <3>1, <3>2, ConcatProperties
    <3>4. \A i \in 1 .. 2 : xy[i] = <<x, y>>[i]
      <4>1. \A i \in 1 .. 1 + 1 : xy[i] = IF i <= 1 THEN <<x>>[i] ELSE <<y>>[i - 1]
        BY <3>1, <3>2, ConcatProperties
      <4>2. xy[1] = <<x>>[1] /\ xy[2] = <<y>>[1]
        BY <4>1
      <4>3. 1 .. 2 = {1, 2}
        OBVIOUS
      <4> HIDE DEF xy
      <4> QED BY <4>2, <4>3
    <3> HIDE DEF xy
    <3>5. xy = <<x, y>>
      BY <3>1, <3>2, <3>3, <3>4, SeqEqual
    <3> QED BY <3>5 DEF xy
  <2>2. OneStep(first, t) \o OneStep(second, t) = <<[op |-> first, t |-> t], [op |-> second, t |-> t]>>
    BY <2>1 DEF OneStep
  <2> QED BY <1>1, <2>2, ConcatList
<1>5. ASSUME NEW first, NEW second, 
                 \/ first = "credentials" /\ second = "apply"
                 \/ first = "keyExists" /\ second = "keyCreate"
      PROVE  InOrder(OneStep(first, t) \o OneStep(second, t))
  <2> DEFINE p == <<[op |-> first, t |-> t], [op |-> second, t |-> t]>>
  <2>1. Len(p) = 2 /\ p[1].op = first /\ p[2].op = second
    OBVIOUS
  <2>2. 1 .. 2 = {1, 2}
    OBVIOUS
  <2> HIDE DEF p
  <2>3. InOrder(p)
    BY <1>5, <2>1, <2>2 DEF InOrder, Ops
  <2> QED BY <1>4, <2>3 DEF p
<1>6. /\ IsProgram(OneStep("credentials", t) \o OneStep("apply", t))
      /\ IsProgram(OneStep("keyExists", t) \o OneStep("keyCreate", t))
  BY <1>4, <1>5 DEF IsProgram
<1> QED BY <1>2, <1>3, <1>4, <1>6

Declares(s) == Has(s.cfg, "imageRegistries") \/ Has(s.cfg, "globalImageRegistryMirror")

\* A program under a condition.
LEMMA ProgramWhen ==
    ASSUME NEW c, NEW p, IsProgram(p)
    PROVE  IsProgram(When(c, p)) /\ (c => Range(When(c, p)) = Range(p))
<1>1. IsProgram(<<>>)
  BY Pieces
<1> QED BY <1>1 DEF When

\* The steps of one program after another are those of both.
LEMMA ProgramConcat ==
    ASSUME NEW a, NEW b, IsProgram(a), IsProgram(b)
    PROVE  IsProgram(a \o b) /\ Range(a \o b) = Range(a) \cup Range(b)
  BY ConcatPrograms, ConcatList DEF IsProgram

\* The registry mutators of a template: credentials are read where a registry may need
\* them, mirrors where there is one.
LEMMA RegistryProgram ==
    ASSUME NEW s, NEW t
    PROVE  /\ IsProgram(RegistrySteps(s, t))
           /\ ~s.v6 \/ Declares(s) => [op |-> "credentials", t |-> t] \in Range(RegistrySteps(s, t))
           /\ Has(s.cfg, "addons.registry") => [op |-> "mirrors", t |-> t] \in Range(RegistrySteps(s, t))
<1> DEFINE p == OneStep("credentials", t) \o OneStep("apply", t)
           q == OneStep("mirrors", t)
           P == When(~s.v6 \/ Declares(s), p)
           Q == When(Declares(s) \/ Has(s.cfg, "addons.registry"), q)
<1>1. /\ IsProgram(p) /\ [op |-> "credentials", t |-> t] \in Range(p)
      /\ IsProgram(q) /\ [op |-> "mirrors", t |-> t] \in Range(q)
  BY Pieces DEF Ops
<1> HIDE DEF p, q
<1>2. /\ IsProgram(P) /\ (~s.v6 \/ Declares(s) => Range(P) = Range(p))
      /\ IsProgram(Q) /\ (Declares(s) \/ Has(s.cfg, "addons.registry") => Range(Q) = Range(q))
  BY <1>1, ProgramWhen
<1>3. RegistrySteps(s, t) = P \o Q
  BY Zenon DEF RegistrySteps, Declares, p, q
<1> HIDE DEF P, Q
<1>4. IsProgram(P \o Q) /\ Range(P \o Q) = Range(P) \cup Range(Q)
  BY <1>2, ProgramConcat
<1> QED BY <1>1, <1>2, <1>3, <1>4

\* What a specification needs has its steps in the program.
LEMMA ProgramOK ==
    ASSUME NEW s, IsList(s.pools)
    PROVE  /\ IsProgram(Program(s))
           /\ s.provider # "eks" =>
                /\ ~s.v6 \/ Declares(s) =>
                     \A t \in 0 .. Len(s.pools) : [op |-> "credentials", t |-> t] \in Range(Program(s))
                /\ Has(s.cfg, "addons.registry") => [op |-> "mirrors", t |-> 0] \in Range(Program(s))
                /\ Has(s.cfg, "encryptionAtRest") => [op |-> "keyCreate", t |-> 0] \in Range(Program(s))
<1>1. CASE s.provider = "eks"
  BY <1>1, Pieces DEF Program
<1>2. CASE s.provider # "eks"
  <2> DEFINE V == When(VirtualIPRead(s), OneStep("virtualip", 0))
             C == When(Has(s.cfg, "dns.coreDNS"), OneStep("coredns", 0))
             R == RegistrySteps(s, 0)
             k == OneStep("keyExists", 0) \o OneStep("keyCreate", 0)
             K == When(Has(s.cfg, "encryptionAtRest"), k)
             w == [t \in DOMAIN s.pools |-> RegistrySteps(s, t)]
             W == FlattenSeq(w)
  <2>1. Program(s) = V \o C \o R \o K \o W
    BY <1>2, Zenon DEF Program
  <2>2. IsProgram(V) /\ IsProgram(C)
    <3>1. IsProgram(OneStep("virtualip", 0)) /\ IsProgram(OneStep("coredns", 0))
      BY Pieces DEF Ops
    <3> QED BY <3>1, ProgramWhen
  <2>3. /\ IsProgram(R)
        /\ ~s.v6 \/ Declares(s) => [op |-> "credentials", t |-> 0] \in Range(R)
        /\ Has(s.cfg, "addons.registry") => [op |-> "mirrors", t |-> 0] \in Range(R)
    BY RegistryProgram
  <2>4. IsProgram(K) /\ (Has(s.cfg, "encryptionAtRest") => [op |-> "keyCreate", t |-> 0] \in Range(K))
    <3>1. IsProgram(k) /\ [op |-> "keyCreate", t |-> 0] \in Range(k)
      BY Pieces
    <3> HIDE DEF k
    <3> QED BY <3>1, ProgramWhen
  <2>5. /\ IsProgram(W)
        /\ ~s.v6 \/ Declares(s) => \A t \in 1 .. Len(s.pools) : [op |-> "credentials", t |-> t] \in Range(W)
    <3>1. Len(s.pools) \in Nat /\ DOMAIN s.pools = 1 .. Len(s.pools)
      BY ListFacts
    <3>2. IsList(w) /\ Len(w) = Len(s.pools)
      BY MapList
    <3>3. \A t \in 1 .. Len(s.pools) : w[t] = RegistrySteps(s, t)
      BY <3>1
    <3> HIDE DEF w
    <3>4. \A t \in 1 .. Len(w) :
            /\ IsProgram(w[t])
            /\ ~s.v6 \/ Declares(s) => [op |-> "credentials", t |-> t] \in Range(w[t])
      BY <3>2, <3>3, RegistryProgram
    <3>5. IsList(W) /\ Range(W) = UNION {Range(w[t]) : t \in 1 .. Len(w)}
      BY <3>2, <3>4, FlattenList DEF IsProgram
    <3>6. IsProgram(W)
      <4> DEFINE All == {p \in Seq(UNION {Range(w[t]) : t \in 1 .. Len(w)}) : IsProgram(p)}
                 E == UNION {Range(w[t]) : t \in 1 .. Len(w)}
      <4>1. <<>> \in All
        BY Pieces, EmptySeq
      <4>2. \A a, b \in All : a \o b \in All
        <5> SUFFICES ASSUME NEW a \in All, NEW b \in All PROVE a \o b \in All
          OBVIOUS
        <5>1. a \in Seq(E) /\ b \in Seq(E) /\ IsProgram(a) /\ IsProgram(b)
          OBVIOUS
        <5>2. a \o b \in Seq(E) /\ IsProgram(a \o b)
          BY <5>1, ConcatProperties, ConcatPrograms
        <5> QED BY <5>2
      <4>3. \A t \in 1 .. Len(w) : w[t] \in All
        <5> SUFFICES ASSUME NEW t \in 1 .. Len(w) PROVE w[t] \in All
          OBVIOUS
        <5>1. w[t] \in Seq(Range(w[t])) /\ Range(w[t]) \subseteq E /\ IsProgram(w[t])
          BY <3>4 DEF IsProgram, IsList
        <5> HIDE DEF E
        <5>2. w[t] \in Seq(E)
          BY <5>1, SeqMonotonic
        <5> QED BY <5>1, <5>2 DEF E
      <4> HIDE DEF All
      <4>4. W \in All
        BY <3>2, <4>1, <4>2, <4>3, FlattenClosed
      <4> QED BY <4>4 DEF All
    <3> HIDE DEF W
    <3> QED BY <3>2, <3>4, <3>5, <3>6
  <2> HIDE DEF V, C, R, K, W
  <2>6. IsProgram(V \o C)
    BY <2>2, ProgramConcat
  <2>7. IsProgram(V \o C \o R) /\ Range(R) \subseteq Range(V \o C \o R)
    BY <2>3, <2>6, ProgramConcat
  <2>8. IsProgram(V \o C \o R \o K) /\ Range(R) \cup Range(K) \subseteq Range(V \o C \o R \o K)
    BY <2>4, <2>7, ProgramConcat
  <2>9. /\ IsProgram(V \o C \o R \o K \o W)
        /\ Range(R) \cup Range(K) \cup Range(W) \subseteq Range(V \o C \o R \o K \o W)
    BY <2>5, <2>8, ProgramConcat
  <2>10. ASSUME NEW t \in 0 .. Len(s.pools) PROVE t = 0 \/ t \in 1 .. Len(s.pools)
    BY ListFacts
  <2>11. IsProgram(Program(s)) /\ Range(R) \cup Range(K) \cup Range(W) \subseteq Range(Program(s))
    BY <2>1, <2>9
  <2> QED BY <2>3, <2>4, <2>5, <2>10, <2>11
<1> QED BY <1>1, <1>2

------------------------------------------------------------------------------
(* The tables *)

\* A tabulated function is the function.
LEMMA Tables == \A f : Tabulated(f) = f
  BY DEF Tabulated

\* Every request is well formed.
LEMMA RequestFacts ==
    ASSUME NEW i \in DOMAIN Table
    PROVE  WellFormed(Table[i])
  BY RequestsAssumption DEF Table

\* The webhooks leave all but two of the variables alone.
Rewritten == {"addons.registry", "addons.csi.nutanix.storageClasses"}
Keeps(s, d) ==
    /\ DOMAIN d = {"provider", "v6", "cfg", "wc", "pools", "skip"}
    /\ d.provider = s.provider /\ d.v6 = s.v6 /\ d.pools = s.pools /\ d.wc = s.wc
    /\ DOMAIN d.cfg \ Rewritten = DOMAIN s.cfg \ Rewritten
    /\ \A n \in DOMAIN s.cfg \ Rewritten : d.cfg[n] = s.cfg[n]

\* The defaulters write nothing but the variables that are theirs (Rewritten).
LEMMA DefaultedKeeps == ASSUME NEW s, WellFormed(s), NEW registry PROVE Keeps(s, Defaulted(s, registry))
<1>1. Keeps(s, s)
  BY DEF WellFormed, Keeps
<1>2. ASSUME NEW d, Keeps(s, d), NEW n \in Rewritten, NEW v
      PROVE  Keeps(s, [d EXCEPT !.cfg = With(d.cfg, n, v)])
  <2> DEFINE e == [d EXCEPT !.cfg = With(d.cfg, n, v)]
             w == With(d.cfg, n, v)
  <2>1. /\ DOMAIN e = DOMAIN d /\ e.cfg = w
        /\ e.provider = d.provider /\ e.v6 = d.v6 /\ e.pools = d.pools /\ e.wc = d.wc
    BY <1>2 DEF Keeps
  <2>2. DOMAIN w = DOMAIN d.cfg \cup {n} /\ \A m \in DOMAIN d.cfg \ Rewritten : w[m] = d.cfg[m]
    BY DEF With
  <2> HIDE DEF e, w
  <2>3. Keeps(s, e)
    BY <1>2, <2>1, <2>2 DEF Keeps
  <2> QED BY <2>3 DEF e
<1>3. Keeps(s, MetroDefaulter(s))
  <2>1. \A v : Keeps(s, [s EXCEPT !.cfg = With(s.cfg, "addons.csi.nutanix.storageClasses", v)])
    BY <1>1, <1>2 DEF Rewritten
  <2> QED BY <1>1, <2>1 DEF MetroDefaulter, DefaultCSIComputeAffinity
<1>4. ASSUME NEW d, Keeps(s, d) PROVE Keeps(s, AutoEnabler(d, registry))
  <2>1. Keeps(s, [d EXCEPT !.cfg = With(d.cfg, "addons.registry", "CNCF Distribution")])
    BY <1>2, <1>4 DEF Rewritten
  <2> QED BY <1>4, <2>1 DEF AutoEnabler
<1> QED BY <1>3, <1>4 DEF Defaulted

\* What the tables hold for a request.
LEMMA TableFacts ==
    ASSUME NEW i \in DOMAIN Table, NEW registry \in BOOLEAN
    PROVE  LET s == Defaults[i][registry] IN
           /\ WellFormed(Table[i])
           /\ Keeps(Table[i], s)
           /\ Programs[i][registry] = Program(s) /\ IsProgram(Program(s))
           /\ SecretsNamed[i] = NamedSecrets(Table[i]) /\ NamedSecrets(Table[i]) \subseteq SecretNames
           /\ IsList(Table[i].pools)
           /\ Declares(s) <=> Declares(Table[i])
<1> DEFINE s == Defaults[i][registry]
<1>1. WellFormed(Table[i])
  BY RequestFacts
<1>2. s = Defaulted(Table[i], registry)
  <2>1. Defaults = [j \in DOMAIN Table |-> Tabulated([r \in BOOLEAN |-> Defaulted(Table[j], r)])]
    BY Tables DEF Defaults
  <2>2. Defaults[i] = [r \in BOOLEAN |-> Defaulted(Table[i], r)]
    BY <2>1, Tables
  <2> QED BY <2>2
<1>3. Programs[i][registry] = Program(s)
  <2>1. Programs = [j \in DOMAIN Table |-> Tabulated([r \in BOOLEAN |-> Program(Defaults[j][r])])]
    BY Tables DEF Programs
  <2>2. Programs[i] = [r \in BOOLEAN |-> Program(Defaults[i][r])]
    BY <2>1, Tables
  <2> QED BY <2>2
<1>4. SecretsNamed[i] = NamedSecrets(Table[i])
  BY Tables DEF SecretsNamed
<1> HIDE DEF s
<1>5. Keeps(Table[i], s)
  BY <1>1, <1>2, DefaultedKeeps
<1>6. IsList(s.pools)
  BY <1>1, <1>5 DEF WellFormed, Keeps
<1>7. IsProgram(Program(s))
  BY <1>6, ProgramOK
<1>8. Declares(s) <=> Declares(Table[i])
  BY <1>5 DEF Keeps, Declares, Has, Rewritten
<1>9. IsList(Table[i].pools) /\ NamedSecrets(Table[i]) \subseteq SecretNames
  BY <1>1 DEF WellFormed
<1> QED BY <1>1, <1>3, <1>4, <1>5, <1>7, <1>8, <1>9 DEF s

------------------------------------------------------------------------------
(* What the registry mutators make of the Secrets *)

\* A context whose Secrets hold users and whose registries are a list.
RegistryContext(c) ==
    /\ IsList(ImageRegistries(c))
    /\ \A n \in DOMAIN c.secrets : c.secrets[n].user \in Nat

\* There is one global mirror or none.
LEMMA GlobalMirrorList == ASSUME NEW c PROVE IsList(GlobalMirror(c))
  BY Literals DEF GlobalMirror

\* The registries that the credentials mutator configures, each with a user or 0.
LEMMA ConfigsOK ==
    ASSUME NEW c, RegistryContext(c), ~CredentialsFail(c)
    PROVE  IsList(Configs(c)) /\ \A i \in DOMAIN Configs(c) : Configs(c)[i].user \in Nat
<1> DEFINE I == ImageRegistries(c)
           G == GlobalMirror(c)
           P == [i \in DOMAIN I |-> ProviderConfig(c.secrets, I[i], FALSE)]
           Q == [i \in DOMAIN G |-> ProviderConfig(c.secrets, G[i], TRUE)]
           WithUsers(s) == IsList(s) /\ \A x \in Range(s) : x.user \in Nat
<1>1. ASSUME NEW r, ~SecretMissing(c.secrets, r), NEW m PROVE ProviderConfig(c.secrets, r, m).user \in Nat
  <2>1. SecretForImageRegistryCredentials(c.secrets, r).user \in Nat
    BY <1>1 DEF SecretMissing, SecretForImageRegistryCredentials, NoSecret, RegistryContext
  <2> QED BY <2>1 DEF ProviderConfig
<1>2. WithUsers(P)
  <2>1. IsList(P) /\ DOMAIN P = DOMAIN I
    BY MapList DEF RegistryContext
  <2>2. \A i \in DOMAIN I : P[i].user \in Nat
    BY <1>1 DEF CredentialsFail
  <2> HIDE DEF P
  <2> QED BY <2>1, <2>2 DEF Range
<1>3. WithUsers(Q)
  <2>1. IsList(Q) /\ DOMAIN Q = DOMAIN G
    BY MapList, GlobalMirrorList
  <2>2. \A i \in DOMAIN G : Q[i].user \in Nat
    BY <1>1 DEF CredentialsFail
  <2> HIDE DEF Q
  <2> QED BY <2>1, <2>2 DEF Range
<1>4. ProviderConfigs(c) = P \o Q
  BY DEF ProviderConfigs
<1> HIDE DEF P, Q
<1>5. WithUsers(ProviderConfigs(c))
  BY <1>2, <1>3, <1>4, ConcatList
<1>6. WithUsers(DeclaredRegistries(c))
  <2> DEFINE D == DOMAIN ProviderConfigs(c)
             K == {i \in D : NeedsConfiguration(ProviderConfigs(c)[i])}
  <2>1. DeclaredRegistries(c) = Keep(ProviderConfigs(c), K)
    BY DEF DeclaredRegistries
  <2> HIDE DEF K
  <2>2. /\ IsList(Keep(ProviderConfigs(c), K))
        /\ Range(Keep(ProviderConfigs(c), K)) = {ProviderConfigs(c)[i] : i \in K \cap D}
    BY <1>5, KeepList
  <2> QED BY <1>5, <2>1, <2>2 DEF Range
<1>7. WithUsers(RegistriesThatNeedConfiguration(c))
  <2> DEFINE hub == <<[url |-> DockerHub, user |-> 0, ca |-> FALSE, mirror |-> FALSE]>>
             last == IF HasDockerHubRegistry(I) THEN <<>> ELSE hub
  <2>1. WithUsers(<<>>) /\ WithUsers(hub)
    BY Literals
  <2>2. RegistriesThatNeedConfiguration(c) = DeclaredRegistries(c) \o last
    BY DEF RegistriesThatNeedConfiguration
  <2> HIDE DEF hub
  <2>3. WithUsers(last)
    BY <2>1
  <2> HIDE DEF last
  <2> QED BY <1>6, <2>2, <2>3, ConcatList
<1>8. WithUsers(Configs(c))
  BY <1>6, <1>7 DEF Configs, V6RegistriesThatNeedConfiguration
<1> QED BY <1>8 DEF Range

\* The generated Secret holds something, and entries only.
LEMMA GeneratedOKs ==
    ASSUME NEW c, RegistryContext(c), ~CredentialsFail(c)
    PROVE  LET contents == KubeletStaticCredentialProviderSecretContents(c) IN
           /\ IsList(contents) /\ \A i \in DOMAIN contents : contents[i].user \in Nat
           /\ GeneratesSecret(c) => contents # <<>> /\ Configs(c) # <<>>
<1> DEFINE C == Configs(c)
           K == {i \in DOMAIN C : RequiresStaticCredentials(C[i])}
           static == Keep(C, K)
           E(config) == IF c.v6 THEN V6CredentialEntries(config) ELSE CredentialEntries(config)
           e == [i \in DOMAIN static |-> E(static[i])]
<1>1. IsList(C) /\ \A i \in DOMAIN C : C[i].user \in Nat
  BY ConfigsOK
<1>2. KubeletStaticCredentialProviderSecretContents(c) = FlattenSeq(e)
  BY DEF KubeletStaticCredentialProviderSecretContents
<1>3. ASSUME NEW config, config.user \in Nat
      PROVE  IsList(E(config)) /\ Range(E(config)) # {} /\ \A x \in Range(E(config)) : x.user \in Nat
  <2>1. ASSUME NEW path PROVE LET x == EntriesAt(config, path) IN
                                IsList(x) /\ Range(x) # {} /\ \A y \in Range(x) : y.user \in Nat
    <3> DEFINE entry(host) == [host |-> <<host, path>>, user |-> config.user]
               two == <<entry("registry-1.docker.io"), entry("docker.io")>>
               one == <<entry(config.url.host)>>
    <3>1. IsList(two) /\ Range(two) = {entry("registry-1.docker.io"), entry("docker.io")}
      BY Literals
    <3>2. IsList(one) /\ Range(one) = {entry(config.url.host)}
      BY Literals
    <3>3. EntriesAt(config, path) \in {one, two}
      BY DEF EntriesAt
    <3>4. \A host : entry(host).user \in Nat
      BY <1>3
    <3> HIDE DEF one, two, entry
    <3> QED BY <3>1, <3>2, <3>3, <3>4
  <2> QED BY <2>1 DEF CredentialEntries, V6CredentialEntries
<1>4. IsList(static) /\ Range(static) = {C[i] : i \in K}
  <2>1. K \cap DOMAIN C = K
    OBVIOUS
  <2> HIDE DEF K
  <2> QED BY <1>1, <2>1, KeepList
<1>5. /\ Len(static) \in Nat /\ DOMAIN static = 1 .. Len(static)
      /\ \A i \in DOMAIN static : static[i].user \in Nat
  BY <1>1, <1>4, ListFacts DEF Range
<1>6. IsList(e) /\ Len(e) = Len(static) /\ DOMAIN e = 1 .. Len(static)
  <2> HIDE DEF static, E
  <2> QED BY <1>4, <1>5, MapList
<1>7. \A i \in 1 .. Len(e) : e[i] = E(static[i]) /\ static[i].user \in Nat
  BY <1>5, <1>6
<1>8. \A i \in 1 .. Len(e) : IsList(e[i]) /\ Range(e[i]) # {} /\ \A x \in Range(e[i]) : x.user \in Nat
  <2> HIDE DEF e, E, static
  <2> QED BY <1>3, <1>7
<1> HIDE DEF e, E
<1>9. IsList(FlattenSeq(e)) /\ Range(FlattenSeq(e)) = UNION {Range(e[i]) : i \in 1 .. Len(e)}
  BY <1>6, <1>8, FlattenList
<1>10. \A i \in DOMAIN FlattenSeq(e) : FlattenSeq(e)[i].user \in Nat
  BY <1>8, <1>9 DEF Range
<1>11. ASSUME GeneratesSecret(c) PROVE FlattenSeq(e) # <<>> /\ C # <<>>
  <2>1. K # {}
    BY <1>11 DEF GeneratesSecret, ConfigsRequireStaticCredentials
  <2>2. Range(static) # {} /\ C # <<>>
    BY <1>4, <2>1
  <2> HIDE DEF static, K
  <2>3. 1 \in 1 .. Len(e)
    BY <1>5, <1>6, <2>2 DEF Range
  <2>4. Range(FlattenSeq(e)) # {}
    BY <1>8, <1>9, <2>3
  <2> QED BY <2>2, <2>4 DEF Range
<1> QED BY <1>2, <1>9, <1>10, <1>11

\* The registries of a context with the variables of a request are those that it declares.
LEMMA MissingSecret ==
    ASSUME NEW s, WellFormed(s), NEW c,
           ImageRegistries(c) = OrElse(s.cfg, "imageRegistries", <<>>),
           GlobalMirror(c) = (IF Has(s.cfg, "globalImageRegistryMirror") THEN <<s.cfg["globalImageRegistryMirror"]>> ELSE <<>>),
           NEW n \in NamedSecrets(s)
    PROVE  \/ \E i \in DOMAIN ImageRegistries(c) : Has(ImageRegistries(c)[i], "secret") /\ ImageRegistries(c)[i].secret = n
           \/ \E i \in DOMAIN GlobalMirror(c) : Has(GlobalMirror(c)[i], "secret") /\ GlobalMirror(c)[i].secret = n
<1> DEFINE D == DeclaredIn(s)
<1>1. PICK j \in DOMAIN D : Has(D[j], "secret") /\ D[j].secret = n
  BY DEF NamedSecrets
<1>2. D = ImageRegistries(c) \o GlobalMirror(c)
  BY Zenon DEF DeclaredIn
<1> HIDE DEF D
<1>3. IsList(ImageRegistries(c)) /\ IsList(GlobalMirror(c))
  BY GlobalMirrorList DEF WellFormed
<1>4. Range(D) = Range(ImageRegistries(c)) \cup Range(GlobalMirror(c))
  BY <1>2, <1>3, ConcatList
<1>5. D[j] \in Range(D)
  BY <1>1 DEF Range
<1> QED BY <1>1, <1>4, <1>5 DEF Range

\* A read names the Secrets of the request and a content of each, or none.
LEMMA ReadDomains ==
    ASSUME NEW s, NEW read \in SecretReads(s)
    PROVE  /\ DOMAIN read = NamedSecrets(s)
           /\ \A n \in NamedSecrets(s) : read[n] \in 0 .. Len(ContentsOf[n])
           /\ (\A n \in NamedSecrets(s) : read[n] # 0) => read \in CompleteReads(s)
<1> DEFINE U == UNION {0 .. Len(ContentsOf[n]) : n \in SecretNames}
<1>1. read \in [NamedSecrets(s) -> U] /\ \A n \in DOMAIN read : read[n] <= Len(ContentsOf[n])
  BY DEF SecretReads
<1>2. \A u \in U : u \in Nat
  OBVIOUS
<1> HIDE DEF U
<1>3. DOMAIN read = NamedSecrets(s)
  BY <1>1
<1>4. ASSUME NEW n \in NamedSecrets(s) PROVE read[n] \in 0 .. Len(ContentsOf[n])
  <2>1. read[n] \in Nat /\ read[n] <= Len(ContentsOf[n])
    BY <1>1, <1>2
  <2>2. Len(ContentsOf[n]) \in Int \/ Len(ContentsOf[n]) \notin Int
    OBVIOUS
  <2> QED BY <2>1
<1> QED BY <1>3, <1>4 DEF CompleteReads

\* The Secrets that were there when they were read.
LEMMA PresentUsers ==
    ASSUME NEW s, WellFormed(s), NEW read \in SecretReads(s)
    PROVE  /\ DOMAIN Present(read) = {n \in NamedSecrets(s) : read[n] # 0}
           /\ \A n \in DOMAIN Present(read) : Present(read)[n].user \in Nat
<1>1. DOMAIN read = NamedSecrets(s) /\ \A n \in NamedSecrets(s) : read[n] \in 0 .. Len(ContentsOf[n])
  BY ReadDomains
<1>2. DOMAIN Present(read) = {n \in NamedSecrets(s) : read[n] # 0}
  BY <1>1 DEF Present
<1>3. ASSUME NEW n \in NamedSecrets(s), read[n] # 0 PROVE Present(read)[n].user \in Nat
  <2>1. n \in SecretNames
    BY DEF WellFormed
  <2>2. IsList(Contents[n])
    BY <2>1, SecretsAssumption
  <2>3. read[n] \in DOMAIN Contents[n]
    BY <1>1, <1>3, <2>2, ListFacts DEF ContentsOf
  <2>4. Contents[n][read[n]].user \in Nat
    BY <2>1, <2>3, SecretsAssumption
  <2>5. Present(read)[n] = Contents[n][read[n]]
    BY <1>1, <1>3 DEF Present, ContentsOf
  <2> QED BY <2>4, <2>5
<1> QED BY <1>2, <1>3

CredentialsContext(s, read) == ContextOf(s, 0, 0, NoVersions, Present(read), NoVariables)
MirrorsContext(d, read) == ContextOf(d, 0, 0, NoVersions, NoVariables, Present(read))

\* What the table of the credentials mutator holds.
LEMMA CredentialsReadIs ==
    ASSUME NEW i \in DOMAIN Table, NEW read \in SecretReads(Table[i])
    PROVE  LET c == CredentialsContext(Table[i], read)
               fails == CredentialsFail(c)
           IN CredentialsRead[i][read] =
                [fails |-> fails, nothing |-> ~fails /\ c.v6 /\ Configs(c) = <<>>, generates |-> ~fails /\ GeneratesSecret(c),
                 contents |-> IF fails THEN <<>> ELSE KubeletStaticCredentialProviderSecretContents(c)]
<1> DEFINE row(j) == [r \in SecretReads(Table[j]) |->
                       LET c == CredentialsContext(Table[j], r)
                           fails == CredentialsFail(c)
                       IN [fails |-> fails, nothing |-> ~fails /\ c.v6 /\ Configs(c) = <<>>,
                           generates |-> ~fails /\ GeneratesSecret(c),
                           contents |-> IF fails THEN <<>> ELSE KubeletStaticCredentialProviderSecretContents(c)]]
<1>1. CredentialsRead = [j \in DOMAIN Table |-> Tabulated(row(j))]
  BY Tables, Zenon DEF CredentialsRead, CredentialsContext
<1>2. Tabulated(row(i)) = row(i)
  BY Tables
<1>3. CredentialsRead[i] = row(i)
  BY ONLY <1>1, <1>2, Zenon
<1> QED BY ONLY <1>3, Zenon

\* A Secret that is not there fails the mutator; one that succeeds and needs the
\* generated Secret has contents for it.
LEMMA CredentialsReadFacts ==
    ASSUME NEW i \in DOMAIN Table, NEW read \in SecretReads(Table[i])
    PROVE  LET result == CredentialsRead[i][read] IN
           /\ ~result.fails => read \in CompleteReads(Table[i])
           /\ IsList(result.contents) /\ \A k \in DOMAIN result.contents : result.contents[k].user \in Nat
           /\ result.generates => result.contents # <<>> /\ ~result.nothing
<1> DEFINE s == Table[i]
           c == CredentialsContext(s, read)
           result == CredentialsRead[i][read]
<1>1. WellFormed(s)
  BY RequestFacts
<1>2. /\ ImageRegistries(c) = OrElse(s.cfg, "imageRegistries", <<>>)
      /\ GlobalMirror(c) = (IF Has(s.cfg, "globalImageRegistryMirror") THEN <<s.cfg["globalImageRegistryMirror"]>> ELSE <<>>)
      /\ c.secrets = Present(read)
  <2>1. c.cfg = s.cfg /\ c.secrets = Present(read)
    BY DEF CredentialsContext, ContextOf
  <2> HIDE DEF c, s
  <2> QED BY <2>1, Zenon DEF ImageRegistries, GlobalMirror
<1>3. RegistryContext(c)
  <2> HIDE DEF c, s
  <2> QED BY <1>1, <1>2, PresentUsers DEF RegistryContext, WellFormed, s
<1>4. /\ result.fails <=> CredentialsFail(c)
      /\ result.generates <=> ~CredentialsFail(c) /\ GeneratesSecret(c)
      /\ result.nothing => Configs(c) = <<>>
      /\ result.contents = IF CredentialsFail(c) THEN <<>> ELSE KubeletStaticCredentialProviderSecretContents(c)
  <2> DEFINE fails == CredentialsFail(c)
  <2>1. result =
                [fails |-> fails, nothing |-> ~fails /\ c.v6 /\ Configs(c) = <<>>, generates |-> ~fails /\ GeneratesSecret(c),
                 contents |-> IF fails THEN <<>> ELSE KubeletStaticCredentialProviderSecretContents(c)]
    BY CredentialsReadIs
  <2> HIDE DEF c, s, result
  <2> QED BY <2>1, Zenon
<1>5. ASSUME ~CredentialsFail(c) PROVE read \in CompleteReads(s)
  <2>1. ASSUME NEW n \in NamedSecrets(s), read[n] = 0 PROVE FALSE
    <3>1. n \notin DOMAIN Present(read)
      BY <1>1, <2>1, PresentUsers
    <3> HIDE DEF c
    <3>2. \/ \E j \in DOMAIN ImageRegistries(c) : Has(ImageRegistries(c)[j], "secret") /\ ImageRegistries(c)[j].secret = n
          \/ \E j \in DOMAIN GlobalMirror(c) : Has(GlobalMirror(c)[j], "secret") /\ GlobalMirror(c)[j].secret = n
      BY <1>1, <1>2, MissingSecret
    <3> QED BY <1>2, <1>5, <3>1, <3>2 DEF CredentialsFail, SecretMissing
  <2> QED BY <2>1, ReadDomains
<1>6. CASE CredentialsFail(c)
  BY <1>4, <1>6, Literals
<1>7. CASE ~CredentialsFail(c)
  <2> HIDE DEF c
  <2>1. LET contents == KubeletStaticCredentialProviderSecretContents(c) IN
           /\ IsList(contents) /\ \A k \in DOMAIN contents : contents[k].user \in Nat
           /\ GeneratesSecret(c) => contents # <<>> /\ Configs(c) # <<>>
    BY <1>3, <1>7, GeneratedOKs
  <2> HIDE DEF result
  <2>2. result.contents = KubeletStaticCredentialProviderSecretContents(c)
    BY <1>4, <1>7
  <2>3. /\ ~result.fails => read \in CompleteReads(s)
        /\ IsList(result.contents) /\ \A k \in DOMAIN result.contents : result.contents[k].user \in Nat
        /\ result.generates => result.contents # <<>> /\ ~result.nothing
    BY <1>4, <1>5, <1>7, <2>1, <2>2
  <2> QED BY <2>3 DEF result
<1> QED BY <1>6, <1>7

\* A Secret that is not there fails the mirrors mutator as well.
LEMMA MirrorsReadFacts ==
    ASSUME NEW i \in DOMAIN Table, NEW registry \in BOOLEAN, NEW read \in SecretReads(Table[i]),
           ~MirrorsReadFails[i][registry][read]
    PROVE  read \in CompleteReads(Table[i])
<1> DEFINE s == Table[i]
           d == Defaults[i][registry]
           c == MirrorsContext(d, read)
           row(j, b) == [r \in SecretReads(Table[j]) |-> MirrorsFail(MirrorsContext(Defaults[j][b], r))]
<1>1. WellFormed(s) /\ Keeps(s, d)
  BY TableFacts
<1>2. ~MirrorsFail(c)
  <2>1. MirrorsReadFails = [j \in DOMAIN Table |-> Tabulated([b \in BOOLEAN |-> Tabulated(row(j, b))])]
    BY Tables, Zenon DEF MirrorsReadFails, MirrorsContext
  <2>2. MirrorsReadFails[i] = [b \in BOOLEAN |-> Tabulated(row(i, b))]
    BY ONLY <2>1, Tables, Zenon
  <2>3. MirrorsReadFails[i][registry] = row(i, registry)
    BY ONLY <2>2, Tables, Zenon
  <2>4. MirrorsReadFails[i][registry][read] = MirrorsFail(c)
    BY ONLY <2>3, Zenon
  <2> QED BY <2>4
<1>3. /\ ImageRegistries(c) = OrElse(s.cfg, "imageRegistries", <<>>)
      /\ GlobalMirror(c) = (IF Has(s.cfg, "globalImageRegistryMirror") THEN <<s.cfg["globalImageRegistryMirror"]>> ELSE <<>>)
      /\ c.cas = Present(read)
  <2>1. c.cfg = d.cfg /\ c.cas = Present(read)
    BY DEF MirrorsContext, ContextOf
  <2>2. \A n \in {"imageRegistries", "globalImageRegistryMirror"} :
          (Has(d.cfg, n) <=> Has(s.cfg, n)) /\ (Has(s.cfg, n) => d.cfg[n] = s.cfg[n])
    BY <1>1 DEF Keeps, Rewritten, Has
  <2> HIDE DEF c, s, d
  <2> QED BY <2>1, <2>2 DEF ImageRegistries, GlobalMirror, OrElse
<1>4. ASSUME NEW n \in NamedSecrets(s), read[n] = 0 PROVE FALSE
  <2>1. n \notin DOMAIN Present(read)
    BY <1>1, <1>4, PresentUsers
  <2> HIDE DEF c
  <2>2. \/ \E j \in DOMAIN ImageRegistries(c) : Has(ImageRegistries(c)[j], "secret") /\ ImageRegistries(c)[j].secret = n
        \/ \E j \in DOMAIN GlobalMirror(c) : Has(GlobalMirror(c)[j], "secret") /\ GlobalMirror(c)[j].secret = n
    BY <1>1, <1>3, MissingSecret
  <2> QED BY <1>2, <1>3, <2>1, <2>2 DEF MirrorsFail, SecretMissing
<1> QED BY <1>4, ReadDomains

------------------------------------------------------------------------------
(* The inductive invariant *)

\* What a step of a call found or wrote is still there (st is the API server, gen the
\* generated Secret): the versions and Secrets that were read have a place in the
\* tables, the credentials were applied if a registry needs them, and neither the
\* add-on's CA nor the encryption key goes away.
Backed(x, k, st, gen) ==
    LET op == ProgramOf(x)[k].op IN
    /\ op \in {"virtualip", "coredns"} => x.reads[k] \in Versions
    /\ op \in {"credentials", "mirrors"} => x.reads[k] \in CompleteReads(Table[x.spec])
    /\ op = "apply" => (CredentialsRead[x.spec][x.reads[k - 1]].generates => gen # <<>>)
    /\ op = "mirrors" => (Has(SpecOf(x).cfg, "addons.registry") => st["ca"] # 0)
    /\ op = "keyExists" => (x.reads[k] # 0 => st["key"] # 0)
    /\ op = "keyCreate" => st["key"] # 0
IsCall(x) ==
    /\ DOMAIN x = {"spec", "registry", "cp", "reads"}
    /\ x.spec \in DOMAIN Table /\ x.registry \in BOOLEAN /\ x.cp \in Versions
    /\ IsList(x.reads) /\ Len(x.reads) <= Len(ProgramOf(x))
CallOK(x, st, gen) == x = NoCall \/ (IsCall(x) /\ \A k \in 1 .. Len(x.reads) : Backed(x, k, st, gen))

ClusterOK ==
    /\ cluster \in [spec : 0 .. Len(Table), registry : BOOLEAN, uuid : Nat]
    /\ created \in BOOLEAN /\ management \in BOOLEAN /\ builtin \in Versions
    /\ created => cluster.spec # 0
    /\ events \in 0 .. MaxEvents

ValueOK(o, v) ==
    /\ o = "version" => v \in Versions
    /\ o \in SecretNames => v \in 0 .. Len(ContentsOf[o])
    /\ o = "ca" => v \in {0, 1}
    /\ o = "key" => v \in Nat
ObjectsOK(f) == DOMAIN f = Objects /\ \A o \in Objects : ValueOK(o, f[o])
\* The cache shows no key and no CA that was never there.
StoreOK ==
    /\ ObjectsOK(store) /\ ObjectsOK(cache)
    /\ \A o \in {"key", "ca"} : cache[o] # 0 => store[o] # 0
    /\ owned \subseteq {s \in SecretNames : store[s] # 0}

GeneratedOK == IsList(generated) /\ \A i \in DOMAIN generated : generated[i].user \in Nat
CallsOK ==
    /\ CallOK(call, store, generated) /\ CallOK(zombie, store, generated) /\ CallOK(answer, store, generated)
    /\ answer # NoCall => Done(answer)
TopologyInv == ClusterOK /\ StoreOK /\ GeneratedOK /\ CallsOK

\* Nothing that calls rely on goes away.
Kept(st, gen, st2, gen2) ==
    /\ \A o \in {"key", "ca"} : st[o] # 0 => st2[o] # 0
    /\ gen # <<>> => gen2 # <<>>

\* A call relies on nothing but what is kept.
LEMMA CallKept ==
    ASSUME NEW st, NEW gen, NEW st2, NEW gen2, Kept(st, gen, st2, gen2), NEW x, CallOK(x, st, gen)
    PROVE  CallOK(x, st2, gen2)
<1>1. \A k : Backed(x, k, st, gen) => Backed(x, k, st2, gen2)
  BY DEF Kept, Backed
<1> QED BY <1>1 DEF CallOK

\* The table has one row for each request.
LEMMA TableList == IsList(Table) /\ DOMAIN Table = 1 .. Len(Table) /\ Len(Table) \in Nat
  BY RequestsAssumption, ListFacts DEF Table

\* The program of a call.
LEMMA ProgramOfCall ==
    ASSUME NEW x, IsCall(x)
    PROVE  /\ ProgramOf(x) = Program(SpecOf(x)) /\ IsProgram(ProgramOf(x))
           /\ Len(ProgramOf(x)) \in Nat /\ DOMAIN ProgramOf(x) = 1 .. Len(ProgramOf(x))
           /\ \A k \in 1 .. Len(ProgramOf(x)) : ProgramOf(x)[k].op \in Ops
<1>1. ProgramOf(x) = Program(SpecOf(x)) /\ IsProgram(ProgramOf(x))
  BY TableFacts DEF IsCall, ProgramOf, SpecOf
<1> QED BY <1>1, ListFacts DEF IsProgram, InOrder

\* A list with one more element.
LEMMA AppendList ==
    ASSUME NEW s, IsList(s), NEW e
    PROVE  /\ IsList(Append(s, e)) /\ Len(Append(s, e)) = Len(s) + 1
           /\ Append(s, e)[Len(s) + 1] = e
           /\ \A i \in 1 .. Len(s) : Append(s, e)[i] = s[i]
<1> DEFINE A == Range(s) \cup {e}
<1>1. s \in Seq(A) /\ e \in A
  BY SeqMonotonic DEF IsList
<1> HIDE DEF A
<1>2. /\ Append(s, e) \in Seq(A) /\ Len(Append(s, e)) = Len(s) + 1
      /\ Append(s, e)[Len(s) + 1] = e
      /\ \A i \in 1 .. Len(s) : Append(s, e)[i] = s[i]
  BY <1>1, AppendProperties
<1> QED BY <1>2, ListOf

\* What the cache shows of the Secrets of a call is one of the reads that the tables know.
LEMMA CachedRead ==
    ASSUME StoreOK, NEW x, x.spec \in DOMAIN Table
    PROVE  CachedSecrets(x) \in SecretReads(Table[x.spec])
<1> DEFINE s == Table[x.spec]
           U == UNION {0 .. Len(ContentsOf[n]) : n \in SecretNames}
           r == CachedSecrets(x)
<1>1. NamedSecrets(s) \subseteq SecretNames /\ SecretsNamed[x.spec] = NamedSecrets(s)
  <2>1. TRUE \in BOOLEAN
    OBVIOUS
  <2> QED BY <2>1, TableFacts
<1>2. r = [n \in NamedSecrets(s) |-> cache[n]]
  BY <1>1 DEF CachedSecrets
<1>3. \A n \in NamedSecrets(s) : cache[n] \in 0 .. Len(ContentsOf[n])
  BY <1>1 DEF StoreOK, ObjectsOK, ValueOK, Objects
<1>4. \A n \in NamedSecrets(s) : cache[n] \in U /\ cache[n] <= Len(ContentsOf[n])
  BY <1>1, <1>3
<1> HIDE DEF U, r
<1>5. r \in [NamedSecrets(s) -> U] /\ \A n \in DOMAIN r : r[n] <= Len(ContentsOf[n])
  BY <1>2, <1>4
<1> QED BY <1>5 DEF SecretReads, U, r

\* A step of a call keeps the API server well and does not undo another step.
LEMMA AdvanceStore ==
    ASSUME StoreOK, GeneratedOK, NEW x, IsCall(x), \A k \in 1 .. Len(x.reads) : Backed(x, k, store, generated),
           ~Done(x), ~StepFails(x), Writes(x), UNCHANGED cache
    PROVE  /\ StoreOK' /\ GeneratedOK' /\ Kept(store, generated, store', generated')
           /\ Current(x).op = "apply" =>
                (CredentialsRead[x.spec][x.reads[Len(x.reads)]].generates => generated' # <<>>)
           /\ Current(x).op = "keyCreate" => store'["key"] # 0
           /\ Current(x).op # "keyCreate" => store' = store
<1> DEFINE n == Len(x.reads)
           op == Current(x).op
<1>1. n \in Nat /\ n + 1 \in 1 .. Len(ProgramOf(x)) /\ op = ProgramOf(x)[n + 1].op
  BY ProgramOfCall, ListFacts DEF IsCall, Done, Current
<1>2. InOrder(ProgramOf(x))
  BY ProgramOfCall DEF IsProgram
<1>3. CASE op = "apply"
  <2>1. n \in 1 .. n /\ ProgramOf(x)[n].op = "credentials"
    <3>1. n + 1 > 1 /\ ProgramOf(x)[(n + 1) - 1].op = "credentials"
      BY <1>1, <1>2, <1>3 DEF InOrder
    <3> QED BY <1>1, <3>1
  <2>2. x.reads[n] \in CompleteReads(Table[x.spec])
    BY <2>1 DEF Backed
  <2> DEFINE result == CredentialsRead[x.spec][x.reads[n]]
  <2>3. CredentialsAt(x) = result
    BY DEF CredentialsAt, Last
  <2>4. /\ IsList(result.contents) /\ \A k \in DOMAIN result.contents : result.contents[k].user \in Nat
        /\ result.generates => result.contents # <<>> /\ ~result.nothing
    BY <2>2, CredentialsReadFacts DEF CompleteReads, IsCall
  <2> HIDE DEF result
  <2>5. CASE result.nothing
    <3>1. UNCHANGED <<store, owned, generated>>
      BY <1>3, <2>3, <2>5 DEF Writes
    <3>2. StoreOK' /\ GeneratedOK' /\ Kept(store, generated, store', generated')
      BY <3>1 DEF StoreOK, GeneratedOK, Kept, ObjectsOK
    <3> QED BY <1>3, <2>4, <2>5, <3>1, <3>2 DEF result
  <2>6. CASE ~result.nothing
    <3>1. /\ owned' = owned \cup SecretsNamed[x.spec] /\ UNCHANGED store
          /\ generated' = IF result.generates THEN result.contents ELSE generated
      BY <1>3, <2>3, <2>6 DEF Writes, CreateSecretIfNeeded
    <3>2. \A m \in SecretsNamed[x.spec] : store[m] # 0
      BY <1>3, <2>3, <2>6 DEF StepFails, OwnerReferenceFails
    <3>3. SecretsNamed[x.spec] \subseteq SecretNames
      BY TableFacts DEF IsCall
    <3>4. GeneratedOK'
      BY <2>4, <3>1 DEF GeneratedOK
    <3>5. StoreOK'
      BY <3>1, <3>2, <3>3 DEF StoreOK, ObjectsOK
    <3>6. Kept(store, generated, store', generated')
      BY <2>4, <3>1 DEF Kept
    <3> QED BY <1>3, <2>4, <3>1, <3>4, <3>5, <3>6 DEF result
  <2> QED BY <2>5, <2>6
<1>4. CASE op = "keyCreate"
  <2>1. n \in 1 .. n /\ ProgramOf(x)[n].op = "keyExists"
    <3>1. n + 1 > 1 /\ ProgramOf(x)[(n + 1) - 1].op = "keyExists"
      BY <1>1, <1>2, <1>4 DEF InOrder
    <3> QED BY <1>1, <3>1
  <2>2. x.reads[n] # 0 => store["key"] # 0
    BY <2>1 DEF Backed
  <2>3. CASE KeyFound(x)
    <3>1. UNCHANGED <<store, owned, generated>>
      BY <1>4, <2>3 DEF Writes
    <3>2. store["key"] # 0
      BY <2>2, <2>3 DEF KeyFound, Last
    <3>3. StoreOK' /\ GeneratedOK' /\ Kept(store, generated, store', generated')
      BY <3>1 DEF StoreOK, GeneratedOK, Kept, ObjectsOK
    <3> QED BY <1>4, <3>1, <3>2, <3>3
  <2>4. CASE ~KeyFound(x)
    <3>1. store' = [store EXCEPT !["key"] = store["key"] + 1] /\ UNCHANGED <<owned, generated>>
      BY <1>4, <2>4 DEF Writes, CreateEncryptionKey
    <3>2. "key" \in Objects /\ "key" \notin SecretNames /\ store["key"] \in Nat /\ DOMAIN store = Objects
      BY SecretsAssumption DEF StoreOK, ObjectsOK, ValueOK, Objects
    <3>3. /\ DOMAIN store' = Objects /\ store'["key"] = store["key"] + 1
          /\ \A o \in Objects \ {"key"} : store'[o] = store[o]
      BY <3>1, <3>2
    <3>4. ObjectsOK(store') /\ store'["key"] # 0
      BY <3>2, <3>3 DEF StoreOK, ObjectsOK, ValueOK
    <3>5. StoreOK'
      BY <3>1, <3>2, <3>3, <3>4 DEF StoreOK, Objects
    <3>6. GeneratedOK' /\ Kept(store, generated, store', generated')
      BY <3>1, <3>3, <3>4 DEF GeneratedOK, Kept, Objects
    <3> QED BY <1>4, <3>4, <3>5, <3>6
  <2> QED BY <2>3, <2>4
<1>5. CASE op \notin {"apply", "keyCreate"}
  <2>1. UNCHANGED <<store, owned, generated>>
    BY <1>5 DEF Writes
  <2>2. StoreOK' /\ GeneratedOK' /\ Kept(store, generated, store', generated')
    BY <2>1 DEF StoreOK, GeneratedOK, Kept, ObjectsOK
  <2> QED BY <1>5, <2>1, <2>2
<1> QED BY <1>3, <1>4, <1>5

\* A step of a call, by CAPI's call or an abandoned one, keeps it backed.
LEMMA CallAdvances ==
    ASSUME StoreOK, GeneratedOK, NEW x, x # NoCall, CallOK(x, store, generated), ~Done(x), NEW x2, Advance(x, x2)
    PROVE  /\ StoreOK' /\ GeneratedOK' /\ Kept(store, generated, store', generated')
           /\ CallOK(x2, store', generated')
<1>1. IsCall(x) /\ \A k \in 1 .. Len(x.reads) : Backed(x, k, store, generated)
  BY DEF CallOK
<1>2. UNCHANGED cache
  BY DEF Advance
<1>3. CASE StepFails(x)
  <2>1. x2 = NoCall /\ UNCHANGED <<store, owned, generated>>
    BY <1>3 DEF Advance
  <2> QED BY <1>2, <2>1 DEF StoreOK, GeneratedOK, Kept, ObjectsOK, CallOK
<1>4. CASE ~StepFails(x)
  <2> DEFINE n == Len(x.reads)
             i == x.spec
             p == ProgramOf(x)
             op == Current(x).op
             r == Read(x)
  <2>1. x2 = [x EXCEPT !.reads = Append(x.reads, r)] /\ Writes(x)
    BY <1>4 DEF Advance
  <2>2. /\ StoreOK' /\ GeneratedOK' /\ Kept(store, generated, store', generated')
        /\ op = "apply" => (CredentialsRead[i][x.reads[n]].generates => generated' # <<>>)
        /\ op = "keyCreate" => store'["key"] # 0
        /\ op # "keyCreate" => store' = store
    BY <1>1, <1>2, <1>4, <2>1, AdvanceStore
  <2>3. /\ n \in Nat /\ n + 1 \in 1 .. Len(p) /\ op = p[n + 1].op /\ op \in Ops
        /\ (n + 1) - 1 = n
    BY <1>1, ProgramOfCall, ListFacts DEF IsCall, Done, Current
  <2>4. /\ IsList(x2.reads) /\ Len(x2.reads) = n + 1 /\ x2.reads[n + 1] = r
        /\ \A k \in 1 .. n : x2.reads[k] = x.reads[k]
        /\ DOMAIN x2 = DOMAIN x /\ x2.spec = i /\ x2.registry = x.registry /\ x2.cp = x.cp
    <3>1. /\ DOMAIN x2 = DOMAIN x /\ x2.spec = i /\ x2.registry = x.registry /\ x2.cp = x.cp
          /\ x2.reads = Append(x.reads, r)
      BY <1>1, <2>1 DEF IsCall
    <3> HIDE DEF r
    <3>2. /\ IsList(Append(x.reads, r)) /\ Len(Append(x.reads, r)) = n + 1
          /\ Append(x.reads, r)[n + 1] = r /\ \A k \in 1 .. n : Append(x.reads, r)[k] = x.reads[k]
      BY <1>1, AppendList DEF IsCall
    <3> QED BY <3>1, <3>2
  <2>5. ProgramOf(x2) = p /\ SpecOf(x2) = SpecOf(x)
    BY <2>4 DEF ProgramOf, SpecOf
  <2>6. IsCall(x2)
    BY <1>1, <2>3, <2>4, <2>5 DEF IsCall
  <2>7. InOrder(p)
    BY <1>1, ProgramOfCall DEF IsProgram
  <2>8. ASSUME NEW k \in 1 .. n PROVE Backed(x2, k, store', generated')
    <3>1. Backed(x, k, store, generated) /\ x2.reads[k] = x.reads[k] /\ k \in 1 .. Len(p)
      BY <1>1, <2>3, <2>4
    <3>2. p[k].op = "apply" => k - 1 \in 1 .. n
      BY <2>3, <2>7, <3>1 DEF InOrder
    <3>3. Backed(x2, k, store, generated)
      BY <2>4, <2>5, <3>1, <3>2 DEF Backed
    <3> QED BY <2>2, <3>3 DEF Backed, Kept
  <2>9. Backed(x2, n + 1, store', generated')
    <3>1. op \in {"virtualip", "coredns"} => r \in Versions
      <4>1. "version" \in Objects
        BY DEF Objects
      <4>2. cache["version"] \in Versions
        BY <4>1 DEF StoreOK, ObjectsOK, ValueOK
      <4> QED BY <4>2 DEF Read
    <3>2. op \in {"credentials", "mirrors"} => r \in CompleteReads(Table[i])
      <4>1. i \in DOMAIN Table /\ x.registry \in BOOLEAN
        BY <1>1 DEF IsCall
      <4>2. CachedSecrets(x) \in SecretReads(Table[i])
        BY <4>1, CachedRead
      <4>3. op = "credentials" => ~CredentialsRead[i][CachedSecrets(x)].fails
        BY <1>4 DEF StepFails
      <4>4. op = "mirrors" => ~MirrorsReadFails[i][x.registry][CachedSecrets(x)]
        BY <1>4 DEF StepFails
      <4>5. op \in {"credentials", "mirrors"} => r = CachedSecrets(x)
        BY DEF Read
      <4> QED BY <4>1, <4>2, <4>3, <4>4, <4>5, CredentialsReadFacts, MirrorsReadFacts
    <3>3. op = "mirrors" => (Has(SpecOf(x).cfg, "addons.registry") => store'["ca"] # 0)
      <4>1. op = "mirrors" => ~AddonCAMissing(x)
        BY <1>4 DEF StepFails
      <4> QED BY <2>2, <4>1 DEF AddonCAMissing, StoreOK
    <3>4. op = "keyExists" => (r # 0 => store'["key"] # 0)
      BY <2>2 DEF Read, StoreOK
    <3>5. op = "apply" => n \in 1 .. n
      <4>1. p[n + 1].op = "apply" => n + 1 > 1
        BY <2>3, <2>7 DEF InOrder
      <4> QED BY <2>3, <4>1
    <3> HIDE DEF r
    <3> QED BY <2>2, <2>3, <2>4, <2>5, <3>1, <3>2, <3>3, <3>4, <3>5 DEF Backed
  <2>10. \A k \in 1 .. n + 1 : k = n + 1 \/ k \in 1 .. n
    BY <2>3
  <2> QED BY <2>2, <2>4, <2>6, <2>8, <2>9, <2>10 DEF CallOK
<1> QED BY <1>3, <1>4

\* There is a lowest version.
LEMMA LowestIs == Lowest \in Versions
<1>1. Versions \subseteq Nat /\ Versions # {}
  BY RequestsAssumption
<1>2. PICK v \in Versions : \A w \in Versions : ~ (<<w, v>> \in OpToRel(<, Nat))
  BY <1>1, NatLessThanWellFounded, WFMin
<1>3. ASSUME NEW w \in Versions PROVE v <= w
  <2>1. w \in Nat /\ v \in Nat
    BY <1>1
  <2>2. ~(w < v)
    BY <1>2, <2>1 DEF OpToRel
  <2> QED BY <2>1, <2>2
<1> QED BY <1>3 DEF Lowest

\* No call relies on nothing.
LEMMA NoCallOK == ASSUME NEW st, NEW gen PROVE CallOK(NoCall, st, gen)
  BY DEF CallOK

\* A new Cluster, or one older than the webhooks, satisfies the invariant.
LEMMA TopologyInit == Init => TopologyInv
<1> SUFFICES ASSUME Init PROVE TopologyInv
  OBVIOUS
<1>1. PICK i \in {0} \cup Legacy : cluster = [spec |-> i, registry |-> FALSE, uuid |-> 0] /\ created = (i # 0)
  BY DEF Init
<1>2. ClusterOK
  <2>1. i \in 0 .. Len(Table)
    BY <1>1, TableList, RequestsAssumption DEF Table
  <2>2. cluster \in [spec : 0 .. Len(Table), registry : BOOLEAN, uuid : Nat]
    BY <1>1, <2>1
  <2>3. created \in BOOLEAN /\ management \in BOOLEAN /\ builtin \in Versions
    BY <1>1, LowestIs DEF Init
  <2>4. events \in 0 .. MaxEvents
    BY RequestsAssumption DEF Init
  <2>5. created => cluster.spec # 0
    BY <1>1
  <2> QED BY <2>2, <2>3, <2>4, <2>5 DEF ClusterOK
<1>3. StoreOK
  <2> DEFINE ca == IF created /\ Has(SpecOf(cluster).cfg, "addons.registry") THEN 1 ELSE 0
  <2>1. /\ DOMAIN store = Objects /\ cache = store /\ owned = {}
        /\ store["version"] = Lowest
        /\ \A o \in SecretNames : store[o] = 1
        /\ store["key"] = 0 /\ store["ca"] \in {0, 1}
    <3>1. store = [o \in Objects |-> CASE o = "version" -> Lowest [] o \in SecretNames -> 1 [] o = "key" -> 0
                                     [] o = "ca" -> ca]
      BY DEF Init
    <3>2. ca \in {0, 1}
      OBVIOUS
    <3> HIDE DEF ca
    <3> QED BY <3>1, <3>2, SecretsAssumption DEF Objects, Init
  <2>2. \A o \in SecretNames : 1 \in 0 .. Len(ContentsOf[o])
    <3> SUFFICES ASSUME NEW o \in SecretNames PROVE 1 \in 0 .. Len(ContentsOf[o])
      OBVIOUS
    <3>1. IsList(Contents[o]) /\ Contents[o] # <<>>
      BY SecretsAssumption
    <3>2. Len(Contents[o]) \in Nat /\ Len(Contents[o]) # 0
      BY <3>1, ListFacts, EmptySeq DEF IsList
    <3> QED BY <3>2 DEF ContentsOf
  <2>3. ObjectsOK(store)
    BY <2>1, <2>2, LowestIs DEF ObjectsOK, ValueOK
  <2> QED BY <2>1, <2>3 DEF StoreOK
<1>4. GeneratedOK
  BY Literals DEF Init, GeneratedOK
<1>5. CallsOK
  BY NoCallOK DEF Init, CallsOK
<1> QED BY <1>2, <1>3, <1>4, <1>5 DEF TopologyInv

\* What does not change is kept.
LEMMA SameKept == UNCHANGED <<store, generated>> => Kept(store, generated, store', generated')
  BY DEF Kept

\* The answer that CAPI uses stays backed while calls go on.
LEMMA CallsKept ==
    ASSUME CallsOK, Kept(store, generated, store', generated'), UNCHANGED answer,
           CallOK(call', store', generated'), CallOK(zombie', store', generated')
    PROVE  CallsOK'
<1>1. CallOK(answer, store', generated')
  BY CallKept DEF CallsOK
<1> QED BY <1>1 DEF CallsOK

\* Every step of the user, the cache, CAPI and its calls and every fault keeps the invariant.
LEMMA TopologyStep == TopologyInv /\ [Next]_vars => TopologyInv'
<1> SUFFICES ASSUME TopologyInv, [Next]_vars PROVE TopologyInv'
  OBVIOUS
<1> USE DEF TopologyInv
<1>1. /\ CallOK(call, store, generated) /\ CallOK(zombie, store, generated) /\ CallOK(answer, store, generated)
      /\ \A x : CallOK(x, store, generated) /\ Kept(store, generated, store', generated') => CallOK(x, store', generated')
  BY CallKept DEF CallsOK
<1>2. ASSUME Kept(store, generated, store', generated'), UNCHANGED <<call, zombie, answer>> PROVE CallsOK'
  BY <1>1, <1>2, CallsKept
<1>3. ASSUME UNCHANGED <<store, cache, owned, generated>> PROVE StoreOK' /\ GeneratedOK'
  BY <1>3 DEF StoreOK, GeneratedOK, ObjectsOK
<1>4. ASSUME UNCHANGED <<cluster, created, management, builtin, events>> PROVE ClusterOK'
  BY <1>4 DEF ClusterOK
<1>5. ASSUME Event PROVE events' \in 0 .. MaxEvents
  BY <1>5, RequestsAssumption DEF Event, ClusterOK
<1>6. ASSUME UNCHANGED <<store, generated, answer>>, call' \in {call, NoCall}, zombie' \in {zombie, call, NoCall}
      PROVE  CallsOK'
  BY <1>1, <1>6, SameKept, NoCallOK, CallsKept
<1>7. CASE UNCHANGED vars
  <2>1. UNCHANGED <<cluster, store, cache, owned, generated, management, created, builtin, call, zombie, answer, events>>
    BY <1>7 DEF vars
  <2> QED BY <1>2, <1>3, <1>4, <2>1, SameKept
<1>8. ASSUME NEW i \in DOMAIN Table, NEW uuid \in {0, cluster.uuid, 9}, NEW keep \in BOOLEAN, Submit(i, uuid, keep)
      PROVE  TopologyInv'
  <2>1. UNCHANGED <<store, cache, owned, generated, management, created, builtin, call, zombie, answer>>
    BY <1>8 DEF Submit
  <2>2. cluster' \in [spec : 0 .. Len(Table), registry : BOOLEAN, uuid : Nat] /\ cluster'.spec # 0
    <3> DEFINE registry == keep \/ AutoEnables(Table[i], management)
               uuidOf == UUIDDefaulter(cluster.uuid, uuid, cluster.uuid + 1)
    <3>1. cluster' = [spec |-> i, registry |-> registry, uuid |-> uuidOf]
      BY <1>8 DEF Submit
    <3>2. registry \in BOOLEAN
      OBVIOUS
    <3>3. uuidOf \in Nat
      <4>1. cluster.uuid \in Nat
        BY DEF ClusterOK
      <4> QED BY <4>1 DEF UUIDDefaulter
    <3>4. i \in 0 .. Len(Table) /\ i # 0
      BY TableList
    <3> HIDE DEF registry, uuidOf
    <3> QED BY <3>1, <3>2, <3>3, <3>4
  <2>3. events' \in 0 .. MaxEvents
    <3>1. UNCHANGED events \/ Event
      BY <1>8 DEF Submit
    <3> QED BY <1>5, <3>1 DEF ClusterOK
  <2>4. ClusterOK'
    BY <2>1, <2>2, <2>3 DEF ClusterOK
  <2> QED BY <1>2, <1>3, <2>1, <2>4, SameKept
<1>9. ASSUME NEW o \in Objects, NEW v, ValueOK(o, v), o \in {"key", "ca"} => v # 0, store' = [store EXCEPT ![o] = v],
             owned' \subseteq {s \in SecretNames : store'[s] # 0}, UNCHANGED <<cache, generated, call, zombie, answer>>
      PROVE  StoreOK' /\ GeneratedOK' /\ CallsOK'
  <2>1. /\ DOMAIN store = Objects /\ DOMAIN store' = Objects /\ store'[o] = v
        /\ \A p \in Objects \ {o} : store'[p] = store[p]
    BY <1>9 DEF StoreOK, ObjectsOK
  <2>2. ObjectsOK(store') /\ ObjectsOK(cache')
    BY <1>9, <2>1 DEF StoreOK, ObjectsOK
  <2>3. {"key", "ca"} \subseteq Objects
    BY DEF Objects
  <2>4. Kept(store, generated, store', generated')
    BY <1>9, <2>1, <2>3 DEF Kept
  <2>5. \A p \in {"key", "ca"} : cache'[p] # 0 => store'[p] # 0
    BY <1>9, <2>4 DEF StoreOK, Kept
  <2>6. StoreOK'
    BY <1>9, <2>2, <2>5 DEF StoreOK
  <2> QED BY <1>2, <1>9, <2>4, <2>6 DEF GeneratedOK
<1>10. ASSUME NEW v \in Versions, Upgrade(v) PROVE TopologyInv'
  <2>1. /\ store' = [store EXCEPT !["version"] = v]
        /\ UNCHANGED <<cluster, cache, owned, generated, management, created, builtin, call, zombie, answer>>
    BY <1>10 DEF Upgrade
  <2>2. "version" \in Objects /\ "version" \notin SecretNames
    BY SecretsAssumption DEF Objects
  <2>3. owned' \subseteq {s \in SecretNames : store'[s] # 0} /\ ValueOK("version", v)
    BY <2>1, <2>2 DEF StoreOK, ObjectsOK, ValueOK, Objects
  <2>4. StoreOK' /\ GeneratedOK' /\ CallsOK'
    BY <1>9, <2>1, <2>2, <2>3
  <2>5. ClusterOK'
    BY <1>5, <1>10, <2>1 DEF ClusterOK, Upgrade
  <2> QED BY <2>4, <2>5
<1>11. ASSUME NEW s \in SecretNames, NEW content \in 0 .. Len(Contents[s]), Rotate(s, content) PROVE TopologyInv'
  <2>1. /\ store' = [store EXCEPT ![s] = content]
        /\ owned' = IF content = 0 THEN owned \ {s} ELSE owned
        /\ UNCHANGED <<cluster, cache, generated, management, created, builtin, call, zombie, answer>>
    BY <1>11 DEF Rotate
  <2>2. s \in Objects /\ s \notin {"key", "ca", "version"}
    BY SecretsAssumption DEF Objects
  <2>3. ValueOK(s, content)
    BY <2>2 DEF ValueOK, ContentsOf
  <2>4. owned' \subseteq {n \in SecretNames : store'[n] # 0}
    BY <2>1, <2>2 DEF StoreOK, ObjectsOK, Objects
  <2>5. StoreOK' /\ GeneratedOK' /\ CallsOK'
    BY <1>9, <2>1, <2>2, <2>3, <2>4
  <2>6. ClusterOK'
    BY <1>5, <1>11, <2>1 DEF ClusterOK, Rotate
  <2> QED BY <2>5, <2>6
<1>12. CASE EnableManagementRegistry
  <2>1. /\ management' = TRUE /\ Event
        /\ UNCHANGED <<cluster, store, cache, owned, generated, created, builtin, call, zombie, answer>>
    BY <1>12 DEF EnableManagementRegistry
  <2>2. ClusterOK'
    BY <1>5, <2>1 DEF ClusterOK
  <2> QED BY <1>2, <1>3, <2>1, <2>2, SameKept
<1>13. ASSUME NEW o \in Objects, Sync(o) PROVE TopologyInv'
  <2>1. /\ cache' = [cache EXCEPT ![o] = store[o]]
        /\ UNCHANGED <<cluster, store, owned, generated, management, created, builtin, call, zombie, answer, events>>
    BY <1>13 DEF Sync
  <2>2. /\ DOMAIN cache' = Objects /\ cache'[o] = store[o]
        /\ \A p \in Objects \ {o} : cache'[p] = cache[p]
    BY <2>1 DEF StoreOK, ObjectsOK
  <2>3. ObjectsOK(cache')
    BY <2>2 DEF StoreOK, ObjectsOK
  <2>4. \A p \in {"key", "ca"} : cache'[p] # 0 => store'[p] # 0
    BY <2>1, <2>2 DEF StoreOK, Objects
  <2>5. StoreOK'
    BY <2>1, <2>3, <2>4 DEF StoreOK
  <2> QED BY <1>2, <1>4, <2>1, <2>5, SameKept DEF GeneratedOK
<1>14. CASE BeforeClusterCreate
  <2>1. /\ created' = TRUE /\ cluster.spec # 0
        /\ UNCHANGED <<cluster, cache, owned, generated, management, builtin, call, zombie, answer, events>>
    BY <1>14 DEF BeforeClusterCreate
  <2>2. ClusterOK'
    BY <2>1 DEF ClusterOK
  <2>3. CASE UNCHANGED store
    BY <1>2, <1>3, <2>1, <2>2, <2>3, SameKept
  <2>4. CASE store' = [store EXCEPT !["ca"] = 1]
    <3>0. PICK v : v = 1
      OBVIOUS
    <3>1. "ca" \in Objects /\ "ca" \notin SecretNames
      BY SecretsAssumption DEF Objects
    <3>2. owned' \subseteq {s \in SecretNames : store'[s] # 0} /\ ValueOK("ca", v) /\ v # 0
      BY <2>1, <2>4, <3>0, <3>1 DEF StoreOK, ObjectsOK, ValueOK, Objects
    <3>3. StoreOK' /\ GeneratedOK' /\ CallsOK'
      BY <1>9, <2>1, <2>4, <3>0, <3>1, <3>2
    <3> QED BY <2>2, <3>3
  <2> QED BY <1>14, <2>3, <2>4 DEF BeforeClusterCreate
<1>15. ASSUME NEW cp \in {builtin, store["version"]}, Begin(cp) PROVE TopologyInv'
  <2>1. /\ created /\ builtin' = cp
        /\ call' \in {NoCall, [spec |-> cluster.spec, registry |-> cluster.registry, cp |-> cp, reads |-> <<>>]}
        /\ UNCHANGED <<cluster, store, cache, owned, generated, management, created, zombie, answer, events>>
    BY <1>15 DEF Begin
  <2>2. cp \in Versions
    <3>1. "version" \in Objects
      BY DEF Objects
    <3> QED BY <3>1 DEF StoreOK, ObjectsOK, ValueOK, ClusterOK
  <2>3. ClusterOK'
    BY <2>1, <2>2 DEF ClusterOK
  <2> DEFINE new == [spec |-> cluster.spec, registry |-> cluster.registry, cp |-> cp, reads |-> <<>>]
  <2>4. CallOK(new, store, generated)
    <3>1. cluster.spec \in DOMAIN Table /\ cluster.registry \in BOOLEAN
      BY <2>1, TableList DEF ClusterOK
    <3>2. /\ DOMAIN new = {"spec", "registry", "cp", "reads"}
          /\ new.spec \in DOMAIN Table /\ new.registry \in BOOLEAN /\ new.cp \in Versions
          /\ new.reads = <<>>
      BY <2>2, <3>1
    <3>3. IsList(new.reads) /\ Len(new.reads) = 0
      BY <3>2, Literals
    <3>4. Len(ProgramOf(new)) \in Nat
      <4>1. IsProgram(ProgramOf(new))
        BY <3>2, TableFacts DEF ProgramOf
      <4> QED BY <4>1, ListFacts DEF IsProgram
    <3> HIDE DEF new
    <3> QED BY <3>2, <3>3, <3>4 DEF CallOK, IsCall
  <2>5. CallsOK'
    BY <1>1, <2>1, <2>4, NoCallOK, SameKept, CallsKept
  <2> QED BY <1>3, <2>1, <2>3, <2>5
<1>16. CASE Finish
  <2>1. /\ call # NoCall /\ Done(call) /\ answer' \in {answer, call} /\ call' = NoCall
        /\ UNCHANGED <<cluster, store, cache, owned, generated, management, created, builtin, zombie, events>>
    BY <1>16 DEF Finish
  <2>2. CallOK(answer', store, generated) /\ (answer' # NoCall => Done(answer'))
    BY <1>1, <2>1 DEF CallsOK
  <2>3. CallsOK'
    BY <1>1, <2>1, <2>2, NoCallOK DEF CallsOK
  <2> QED BY <1>3, <1>4, <2>1, <2>3
<1>17. ASSUME NEW x, x # NoCall, CallOK(x, store, generated), ~Done(x), NEW x2, Advance(x, x2)
       PROVE  /\ ClusterOK' /\ StoreOK' /\ GeneratedOK' /\ Kept(store, generated, store', generated')
              /\ CallOK(x2, store', generated') /\ UNCHANGED answer
  <2>1. UNCHANGED <<cluster, created, management, builtin, events, answer>>
    BY <1>17 DEF Advance
  <2> QED BY <1>4, <1>17, <2>1, CallAdvances
<1>18. CASE Step
  <2>1. call # NoCall /\ ~Done(call) /\ Advance(call, call') /\ UNCHANGED zombie
    BY <1>18 DEF Step
  <2>2. /\ ClusterOK' /\ StoreOK' /\ GeneratedOK' /\ Kept(store, generated, store', generated')
        /\ CallOK(call', store', generated') /\ UNCHANGED answer
    BY <1>1, <1>17, <2>1
  <2> QED BY <1>1, <2>1, <2>2, CallsKept
<1>19. CASE ZombieStep
  <2>1. zombie # NoCall /\ ~Done(zombie) /\ Advance(zombie, zombie') /\ UNCHANGED call
    BY <1>19 DEF ZombieStep
  <2>2. /\ ClusterOK' /\ StoreOK' /\ GeneratedOK' /\ Kept(store, generated, store', generated')
        /\ CallOK(zombie', store', generated') /\ UNCHANGED answer
    BY <1>1, <1>17, <2>1
  <2> QED BY <1>1, <2>1, <2>2, CallsKept
<1>20. CASE ZombieEnds
  <2>1. /\ zombie' = NoCall
        /\ UNCHANGED <<cluster, store, cache, owned, generated, management, created, builtin, call, answer, events>>
    BY <1>20 DEF ZombieEnds
  <2> QED BY <1>3, <1>4, <1>6, <2>1
<1>21. CASE APIError
  <2>1. /\ Event /\ call' = NoCall
        /\ UNCHANGED <<cluster, store, cache, owned, generated, management, created, builtin, zombie, answer>>
    BY <1>21 DEF APIError
  <2>2. ClusterOK'
    BY <1>5, <2>1 DEF ClusterOK
  <2> QED BY <1>3, <1>6, <2>1, <2>2
<1>22. CASE Timeout
  <2>1. /\ Event /\ zombie' = call /\ call' = NoCall
        /\ UNCHANGED <<cluster, store, cache, owned, generated, management, created, builtin, answer>>
    BY <1>22 DEF Timeout
  <2>2. ClusterOK'
    BY <1>5, <2>1 DEF ClusterOK
  <2> QED BY <1>3, <1>6, <2>1, <2>2
<1>23. CASE Crash
  <2>1. /\ Event /\ call' = NoCall /\ zombie' = NoCall /\ cache' = store
        /\ UNCHANGED <<cluster, store, owned, generated, management, created, builtin, answer>>
    BY <1>23 DEF Crash
  <2>2. ClusterOK'
    BY <1>5, <2>1 DEF ClusterOK
  <2>3. StoreOK' /\ GeneratedOK'
    BY <2>1 DEF StoreOK, GeneratedOK, ObjectsOK
  <2> QED BY <1>6, <2>1, <2>2, <2>3
<1> QED
  BY <1>7, <1>8, <1>10, <1>11, <1>12, <1>13, <1>14, <1>15, <1>16, <1>18, <1>19, <1>20, <1>21, <1>22, <1>23
  DEF Next, Reconcile

\* Type.
LEMMA TypesOK == TopologyInv => TypeOK
<1> SUFFICES ASSUME TopologyInv PROVE TypeOK
  OBVIOUS
<1> USE DEF TopologyInv
<1>1. ASSUME NEW o \in Objects, NEW f \in {store, cache}
      PROVE  f[o] \in CASE o = "version" -> Versions [] o \in SecretNames -> 0 .. Len(ContentsOf[o])
                        [] o = "ca" -> {0, 1} [] OTHER -> Nat
  <2>1. ValueOK(o, f[o])
    BY DEF StoreOK, ObjectsOK
  <2> QED BY <2>1, SecretsAssumption DEF ValueOK, Objects
<1>2. ASSUME NEW x, CallOK(x, store, generated), x # NoCall
      PROVE  x.spec \in DOMAIN Table /\ x.cp \in Versions /\ Len(x.reads) <= Len(ProgramOf(x))
  BY <1>2 DEF CallOK, IsCall
<1> QED BY <1>1, <1>2 DEF TypeOK, ClusterOK, StoreOK, GeneratedOK, CallsOK

------------------------------------------------------------------------------

(* What the mutators make of a template *)

\* Which Secrets the mutators may refer to in the files of a template like t.
Sources(c, t) ==
    {"none"} \cup SecretNames
    \cup {name \in {GeneratedCredentials} : Kubeadm(t) /\ GeneratesSecret(c) /\ ~CredentialsFail(c)}
    \cup {name \in {EncryptionKey} : Kubeadm(t) /\ Has(c.cfg, "encryptionAtRest")}
    \cup {name \in {RegistryAddonCA} : Kubeadm(t) /\ Has(c.cfg, "addons.registry")}
\* The kubelet's configuration that a template like t is for.
KubeletOf(c, t) ==
    IF ControlPlane(t) THEN OrElse(c.cfg, "controlPlane.kubeletConfiguration", NoVariables)
    ELSE OrElse(c.wc, "kubeletConfiguration", NoVariables)
\* A file comes from one of these Secrets, and those that are known by their paths hold
\* what the variables say: kube-vip's Pod the address of the control plane, or that of
\* the class, a kubelet's patch what is set, and the script is there for automatic
\* reservations only.
FileOK(c, t, f) ==
    /\ f.from \in Sources(c, t)
    /\ f.path = KubeVIP =>
         f.body[2] = 0 \/ (/\ Has(c.cfg, "nutanix.controlPlaneEndpoint")
                           /\ f.body[2] = VirtualIPAddress(c.cfg["nutanix.controlPlaneEndpoint"]))
    /\ f.path = KubeletPatch => DOMAIN f.body[1] \subseteq DOMAIN KubeletOf(c, t) \cup {"maxParallelImagePulls"}
    /\ f.path = ComputeReservations => Has(KubeletOf(c, t), "automaticReservations")
FilesOK(c, t, files) == IsList(files) /\ \A f \in Range(files) : FileOK(c, t, f)
\* So do the fields that the webhooks have rules for.
Guarded == {"skipPhases", "prismCentral"}
FieldsOK(c, t, fields) ==
    /\ Has(fields, "skipPhases") => Has(c.cfg, "kubeProxy.mode") /\ c.cfg["kubeProxy.mode"] = "disabled"
    /\ Has(fields, "prismCentral") =>
         /\ NutanixCluster(t) /\ Has(c.cfg, "nutanix.prismCentralEndpoint")
         /\ fields["prismCentral"] = c.cfg["nutanix.prismCentralEndpoint"]
\* The admission configuration is the class's.
AdmissionArg == "admission-control-config-file"
ArgsOK(args) ==
    /\ "apiServer" \in DOMAIN args /\ IsList(args["apiServer"])
    /\ \A x \in Range(args["apiServer"]) : x[1] = AdmissionArg => x[2] = Admission
Fields == {"kind", "holder", "pool", "files", "pre", "post", "args", "volumes", "fields", "err"}
\* What the mutators make of the template t0 so far; early is whether its arguments
\* still have the order in which they were added.
Made(early, c, t0, t) ==
    /\ DOMAIN t = Fields /\ t.kind = t0.kind /\ t.holder = t0.holder
    /\ FilesOK(c, t0, t.files) /\ FieldsOK(c, t0, t.fields)
    /\ early => ArgsOK(t.args)
ContextOK(c) ==
    /\ IsList(ImageRegistries(c)) /\ DOMAIN c.cas \subseteq SecretNames
    /\ \A r \in Range(ImageRegistries(c)) \cup Range(GlobalMirror(c)) : CAFilePath(r.url.host) \notin NodeFiles

\* Mutators do not change which selectors match the template.
LEMMA SelectorsKept ==
    ASSUME NEW early, NEW c, NEW t0, NEW t, Made(early, c, t0, t)
    PROVE  /\ (Kubeadm(t) <=> Kubeadm(t0)) /\ (ControlPlane(t) <=> ControlPlane(t0)) /\ (ControlPlane(t) => Kubeadm(t))
           /\ NutanixCluster(t) <=> NutanixCluster(t0)
           /\ WorkersKubeadmConfigTemplate(t) => ~ControlPlane(t0)
  BY DEF Made, Kubeadm, ControlPlane, MatchesControlPlane, WorkersKubeadmConfigTemplate, WorkersConfigTemplate,
         MatchesMachineDeploymentClass, NutanixCluster, InfrastructureCluster, MatchesInfrastructure

\* Files after files.
LEMMA FilesConcat ==
    ASSUME NEW c, NEW t0, NEW f, NEW g, FilesOK(c, t0, f), FilesOK(c, t0, g)
    PROVE  FilesOK(c, t0, f \o g)
  BY ConcatList DEF FilesOK

\* Files with some left out.
LEMMA FilesKeep ==
    ASSUME NEW c, NEW t0, NEW f, FilesOK(c, t0, f), NEW I
    PROVE  FilesOK(c, t0, Keep(f, I))
<1>1. IsList(Keep(f, I)) /\ Range(Keep(f, I)) = {f[i] : i \in I \cap DOMAIN f}
  BY KeepList DEF FilesOK
<1> QED BY <1>1 DEF FilesOK, Range

\* Files that are rewritten one by one.
LEMMA FilesMap ==
    ASSUME NEW c, NEW t0, NEW f, FilesOK(c, t0, f), NEW g, g = [i \in DOMAIN f |-> g[i]],
           \A i \in DOMAIN f : FileOK(c, t0, g[i])
    PROVE  FilesOK(c, t0, g)
<1>1. IsList(g) /\ DOMAIN g = DOMAIN f
  BY MapList DEF FilesOK
<1> QED BY <1>1 DEF FilesOK, Range

\* Up to three files.
LEMMA FilesLiteral ==
    ASSUME NEW c, NEW t0
    PROVE  /\ FilesOK(c, t0, <<>>)
           /\ \A x : FileOK(c, t0, x) => FilesOK(c, t0, <<x>>)
           /\ \A x, y : FileOK(c, t0, x) /\ FileOK(c, t0, y) => FilesOK(c, t0, <<x, y>>)
           /\ \A x, y, z : FileOK(c, t0, x) /\ FileOK(c, t0, y) /\ FileOK(c, t0, z) => FilesOK(c, t0, <<x, y, z>>)
<1>1. ASSUME NEW x, NEW y, NEW z, FileOK(c, t0, x), FileOK(c, t0, y), FileOK(c, t0, z)
      PROVE FilesOK(c, t0, <<x, y, z>>)
  <2>1. <<x, y, z>> \in Seq({x, y, z}) /\ Range(<<x, y, z>>) = {x, y, z}
    BY DEF Range
  <2> QED BY <1>1, <2>1 DEF FilesOK, IsList
<1> QED BY <1>1, Literals DEF FilesOK

\* A file with a text of its own, or from a Secret that may be referred to.
LEMMA FileSources ==
    ASSUME NEW c, NEW t0
    PROVE  \A path : path \notin NodeFiles =>
             /\ \A body : FileOK(c, t0, File(path, body))
             /\ \A name \in Sources(c, t0) : FileOK(c, t0, FromSecret(path, name))
  BY DEF File, FromSecret, FileOK, Sources, NodeFiles

\* The other files of the nodes.
LEMMA OtherPaths ==
    /\ AuditPolicyPath \notin NodeFiles /\ "containerd.service.d/http-proxy.conf" \notin NodeFiles
    /\ "kubelet.service.d/http-proxy.conf" \notin NodeFiles /\ "patches/metrics-config.toml" \notin NodeFiles
    /\ "patches/unprivileged-ports-config.toml" \notin NodeFiles /\ ApplyPatches \notin NodeFiles
    /\ Restart \notin NodeFiles /\ KubeProxyConfig \notin NodeFiles
    /\ "/etc/kubernetes/pod-security-admission.yaml" \notin NodeFiles /\ InstallProviders \notin NodeFiles
    /\ ImageCredentialProviderConfig \notin NodeFiles /\ DynamicProviderConfig \notin NodeFiles
    /\ StaticCredentials \notin NodeFiles /\ HostsFile \notin NodeFiles
    /\ "patches/registry-config.toml" \notin NodeFiles /\ EncryptionConfig \notin NodeFiles
    /\ ConfigureForKubeVIP \notin NodeFiles /\ PlacementGroupDiscovery \notin NodeFiles
    /\ Admission \notin NodeFiles /\ EventRateLimit \notin NodeFiles
    /\ "/etc/kubernetes/patches/kubeletconfiguration0+strategic.json" \notin NodeFiles
    /\ "/etc/kubernetes/patches/kubeletconfiguration1+strategic.json" \notin NodeFiles
  BY DEF NodeFiles, KubeVIP, KubeletPatch, ComputeReservations, AuditPolicyPath, ApplyPatches, Restart, KubeProxyConfig,
         InstallProviders, ImageCredentialProviderConfig, DynamicProviderConfig, StaticCredentials, HostsFile,
         EncryptionConfig, ConfigureForKubeVIP, PlacementGroupDiscovery, Admission, EventRateLimit

\* Arguments other than the admission configuration.
Free(nvs) == IsList(nvs) /\ \A x \in Range(nvs) : x[1] # AdmissionArg
LEMMA FreeLiteral ==
    /\ \A a, b : a[1] # AdmissionArg /\ b[1] # AdmissionArg => Free(<<a, b>>)
    /\ \A a, b, c, d : /\ a[1] # AdmissionArg /\ b[1] # AdmissionArg /\ c[1] # AdmissionArg /\ d[1] # AdmissionArg
                       => Free(<<a, b, c, d>>)
<1>1. ASSUME NEW a, NEW b, NEW c, NEW d PROVE IsList(<<a, b, c, d>>) /\ Range(<<a, b, c, d>>) = {a, b, c, d}
  <2>1. <<a, b, c, d>> \in Seq({a, b, c, d}) /\ Range(<<a, b, c, d>>) = {a, b, c, d}
    BY DEF Range
  <2> QED BY <2>1 DEF IsList
<1> QED BY <1>1, Literals DEF Free
LEMMA FreeSix ==
    ASSUME NEW a, NEW b, NEW c, NEW d, NEW e, NEW f,
           a[1] # AdmissionArg, b[1] # AdmissionArg, c[1] # AdmissionArg,
           d[1] # AdmissionArg, e[1] # AdmissionArg, f[1] # AdmissionArg
    PROVE  Free(<<a, b, c, d, e, f>>)
<1>1. <<a, b, c, d, e, f>> \in Seq({a, b, c, d, e, f}) /\ Range(<<a, b, c, d, e, f>>) = {a, b, c, d, e, f}
  BY DEF Range
<1> QED BY <1>1 DEF Free, IsList

\* Arguments after the arguments of a component.
LEMMA ArgsAdded ==
    ASSUME NEW args, ArgsOK(args), NEW l
    PROVE  /\ \A nvs, I : Free(nvs) => ArgsOK([args EXCEPT ![l] = @ \o Keep(nvs, I)])
           /\ \A name, v : (name = AdmissionArg => v = Admission) => ArgsOK([args EXCEPT ![l] = Append(@, <<name, v>>)])
<1>1. ASSUME NEW w, l = "apiServer" => IsList(w) /\ \A x \in Range(w) : x[1] = AdmissionArg => x[2] = Admission
      PROVE  ArgsOK([args EXCEPT ![l] = w])
  BY <1>1 DEF ArgsOK
<1>2. ASSUME NEW nvs, NEW I, Free(nvs) PROVE ArgsOK([args EXCEPT ![l] = @ \o Keep(nvs, I)])
  <2>1. IsList(Keep(nvs, I)) /\ Range(Keep(nvs, I)) \subseteq Range(nvs)
    BY <1>2, KeepList DEF Free, Range
  <2> DEFINE w == args[l] \o Keep(nvs, I)
  <2>2. ASSUME l = "apiServer" PROVE IsList(w) /\ Range(w) = Range(args[l]) \cup Range(Keep(nvs, I))
    BY <2>1, <2>2, ConcatList DEF ArgsOK
  <2>3. l = "apiServer" => IsList(w) /\ \A x \in Range(w) : x[1] = AdmissionArg => x[2] = Admission
    BY <1>2, <2>1, <2>2 DEF ArgsOK, Free
  <2> HIDE DEF w
  <2>4. ArgsOK([args EXCEPT ![l] = w])
    BY <1>1, <2>3
  <2> QED BY <2>4 DEF w
<1>3. ASSUME NEW name, NEW v, name = AdmissionArg => v = Admission PROVE ArgsOK([args EXCEPT ![l] = Append(@, <<name, v>>)])
  <2> DEFINE e == <<name, v>>
             w == Append(args[l], e)
  <2>1. e[1] = AdmissionArg => e[2] = Admission
    BY <1>3
  <2> HIDE DEF e
  <2>2. l = "apiServer" => IsList(w) /\ \A x \in Range(w) : x[1] = AdmissionArg => x[2] = Admission
    <3> SUFFICES ASSUME l = "apiServer" PROVE IsList(w) /\ \A x \in Range(w) : x[1] = AdmissionArg => x[2] = Admission
      OBVIOUS
    <3>1. IsList(args[l]) /\ \A x \in Range(args[l]) : x[1] = AdmissionArg => x[2] = Admission
      BY DEF ArgsOK
    <3>2. IsList(w) /\ Len(w) = Len(args[l]) + 1 /\ w[Len(args[l]) + 1] = e
          /\ \A i \in 1 .. Len(args[l]) : w[i] = args[l][i]
      BY <3>1, AppendList
    <3> HIDE DEF w
    <3>3. Range(w) \subseteq Range(args[l]) \cup {e}
      BY <3>1, <3>2, ListFacts
    <3> QED BY <2>1, <3>1, <3>2, <3>3
  <2> HIDE DEF w
  <2>3. ArgsOK([args EXCEPT ![l] = w])
    BY <1>1, <2>2
  <2> QED BY <2>3 DEF w, e
<1> QED BY <1>2, <1>3

\* Fields that no webhook has a rule for.
LEMMA FieldsWritten ==
    ASSUME NEW c, NEW t0, NEW fields, FieldsOK(c, t0, fields)
    PROVE  /\ \A f, v : f \notin Guarded => FieldsOK(c, t0, With(fields, f, v))
           /\ \A g : DOMAIN g \cap Guarded = {} => FieldsOK(c, t0, Over(g, fields))
           /\ \A names : FieldsOK(c, t0, [n \in DOMAIN fields \ names |-> fields[n]])
<1>1. ASSUME NEW f, NEW v, f \notin Guarded PROVE FieldsOK(c, t0, With(fields, f, v))
  BY <1>1 DEF FieldsOK, With, Guarded, Has
<1>2. ASSUME NEW g, DOMAIN g \cap Guarded = {} PROVE FieldsOK(c, t0, Over(g, fields))
  BY <1>2 DEF FieldsOK, Over, Guarded, Has
<1>3. ASSUME NEW names PROVE FieldsOK(c, t0, [n \in DOMAIN fields \ names |-> fields[n]])
  BY DEF FieldsOK, Has
<1> QED BY <1>1, <1>2, <1>3

\* A step that writes one part of the template.
LEMMA OtherFields ==
    ASSUME NEW early, NEW c, NEW t0, NEW t, Made(early, c, t0, t)
    PROVE  /\ \A v : /\ Made(early, c, t0, [t EXCEPT !.pre = v]) /\ Made(early, c, t0, [t EXCEPT !.post = v])
                     /\ Made(early, c, t0, [t EXCEPT !.volumes = v]) /\ Made(early, c, t0, [t EXCEPT !.err = v])
           /\ \A v : (early => ArgsOK(v)) => Made(early, c, t0, [t EXCEPT !.args = v])
           /\ \A v : FieldsOK(c, t0, v) => Made(early, c, t0, [t EXCEPT !.fields = v])
           /\ \A files : FilesOK(c, t0, files) => Made(early, c, t0, [t EXCEPT !.files = files])
<1>1. \A v : /\ Made(early, c, t0, [t EXCEPT !.pre = v]) /\ Made(early, c, t0, [t EXCEPT !.post = v])
             /\ Made(early, c, t0, [t EXCEPT !.volumes = v]) /\ Made(early, c, t0, [t EXCEPT !.err = v])
  BY DEF Made, Fields
<1>2. \A v : (early => ArgsOK(v)) => Made(early, c, t0, [t EXCEPT !.args = v])
  BY DEF Made, Fields
<1>3. \A v : FieldsOK(c, t0, v) => Made(early, c, t0, [t EXCEPT !.fields = v])
  BY DEF Made, Fields
<1>4. \A files : FilesOK(c, t0, files) => Made(early, c, t0, [t EXCEPT !.files = files])
  BY DEF Made, Fields
<1> QED BY <1>1, <1>2, <1>3, <1>4

\* The writers that the mutators share.
LEMMA Writers ==
    ASSUME NEW early, NEW c, NEW t0
    PROVE  \A t : Made(early, c, t0, t) =>
             /\ Made(early, c, t0, Fail(t))
             /\ \A f, v : f \notin Guarded => Made(early, c, t0, Put(t, f, v))
             /\ \A cmds : Made(early, c, t0, AddPre(t, cmds))
             /\ \A l, name, v : (name = AdmissionArg => v = Admission) => Made(early, c, t0, AddArg(t, l, name, v))
             /\ \A l, nvs : Free(nvs) => Made(early, c, t0, AddArgs(t, l, nvs))
             /\ \A name, path : Made(early, c, t0, AddVolume(t, name, path))
             /\ \A taints, lists : lists \cap Guarded = {} => Made(early, c, t0, Taints(t, taints, lists))
             /\ \A fs : FilesOK(c, t0, fs) => Made(early, c, t0, AddFiles(t, fs))
             /\ \A path : Made(early, c, t0, DeleteFiles(t, path))
<1> SUFFICES ASSUME NEW t, Made(early, c, t0, t)
             PROVE  /\ Made(early, c, t0, Fail(t))
                    /\ \A f, v : f \notin Guarded => Made(early, c, t0, Put(t, f, v))
                    /\ \A cmds : Made(early, c, t0, AddPre(t, cmds))
                    /\ \A l, name, v : (name = AdmissionArg => v = Admission) => Made(early, c, t0, AddArg(t, l, name, v))
                    /\ \A l, nvs : Free(nvs) => Made(early, c, t0, AddArgs(t, l, nvs))
                    /\ \A name, path : Made(early, c, t0, AddVolume(t, name, path))
                    /\ \A taints, lists : lists \cap Guarded = {} => Made(early, c, t0, Taints(t, taints, lists))
                    /\ \A fs : FilesOK(c, t0, fs) => Made(early, c, t0, AddFiles(t, fs))
                    /\ \A path : Made(early, c, t0, DeleteFiles(t, path))
  OBVIOUS
<1>0. FieldsOK(c, t0, t.fields) /\ (early => ArgsOK(t.args))
  BY DEF Made
<1>1. Made(early, c, t0, Fail(t))
  BY OtherFields DEF Fail
<1>2. ASSUME NEW f, NEW v, f \notin Guarded PROVE Made(early, c, t0, Put(t, f, v))
  <2>1. FieldsOK(c, t0, With(t.fields, f, v))
    BY <1>0, <1>2, FieldsWritten
  <2> QED BY <2>1, OtherFields DEF Put
<1>3. ASSUME NEW cmds PROVE Made(early, c, t0, AddPre(t, cmds))
  BY OtherFields DEF AddPre
<1>4. ASSUME NEW l, NEW name, NEW v, name = AdmissionArg => v = Admission PROVE Made(early, c, t0, AddArg(t, l, name, v))
  <2> DEFINE args == [t.args EXCEPT ![l] = Append(@, <<name, v>>)]
  <2>1. early => ArgsOK(args)
    BY <1>0, <1>4, ArgsAdded
  <2> HIDE DEF args
  <2>2. Made(early, c, t0, [t EXCEPT !.args = args])
    BY <2>1, OtherFields
  <2> QED BY <2>2 DEF args, AddArg
<1>5. ASSUME NEW l, NEW nvs, Free(nvs) PROVE Made(early, c, t0, AddArgs(t, l, nvs))
  <2> DEFINE I == {i \in DOMAIN nvs : ~HasArg(t, l, nvs[i][1])}
  <2> HIDE DEF I
  <2> DEFINE args == [t.args EXCEPT ![l] = @ \o Keep(nvs, I)]
  <2>1. early => ArgsOK(args)
    BY <1>0, <1>5, ArgsAdded
  <2> HIDE DEF args
  <2>2. Made(early, c, t0, [t EXCEPT !.args = args])
    BY <2>1, OtherFields
  <2> QED BY <2>2 DEF args, AddArgs, I
<1>6. ASSUME NEW name, NEW path PROVE Made(early, c, t0, AddVolume(t, name, path))
  BY OtherFields DEF AddVolume
<1>7. ASSUME NEW taints, NEW lists, lists \cap Guarded = {} PROVE Made(early, c, t0, Taints(t, taints, lists))
  <2> DEFINE g == [l \in lists |-> OrElse(t.fields, l, <<>>) \o taints]
  <2>1. DOMAIN g \cap Guarded = {}
    BY <1>7
  <2> HIDE DEF g
  <2>2. FieldsOK(c, t0, Over(g, t.fields))
    BY <1>0, <2>1, FieldsWritten
  <2>3. Made(early, c, t0, [t EXCEPT !.fields = Over(g, t.fields)])
    BY <2>2, OtherFields
  <2> QED BY <2>3 DEF Taints, g
<1>8. ASSUME NEW fs, FilesOK(c, t0, fs) PROVE Made(early, c, t0, AddFiles(t, fs))
  <2>1. FilesOK(c, t0, t.files \o fs)
    BY <1>8, FilesConcat DEF Made
  <2> QED BY <2>1, OtherFields DEF AddFiles
<1>9. ASSUME NEW path PROVE Made(early, c, t0, DeleteFiles(t, path))
  <2>1. \A I : FilesOK(c, t0, Keep(t.files, I))
    BY FilesKeep DEF Made
  <2> QED BY <2>1, OtherFields DEF DeleteFiles
<1> QED BY <1>1, <1>2, <1>3, <1>4, <1>5, <1>6, <1>7, <1>8, <1>9

\* An admission plugin brings files with texts of their own.
LEMMA Plugin ==
    ASSUME NEW c, NEW t0, NEW t, Made(TRUE, c, t0, t), NEW name, NEW path, path \notin NodeFiles, NEW content
    PROVE  Made(TRUE, c, t0, AddPlugin(t, name, path, content))
<1> DEFINE config == AdmissionConfig(t)
           patched == [t EXCEPT !.files = [i \in DOMAIN t.files |->
                         IF t.files[i].path = config /\ ~Contains(t.files[i].body, name)
                         THEN File(config, Append(t.files[i].body, name)) ELSE t.files[i]]]
           withConfig == IF ~HasFile(t, config) THEN AddFiles(t, <<File(config, <<name>>)>>) ELSE patched
           withFile == IF HasFile(t, path) THEN withConfig ELSE AddFiles(withConfig, <<File(path, content)>>)
           withVolumes == AddVolume(AddVolume(withFile, "admission-config", config), name, path)
           withArg == AddArg(withVolumes, "apiServer", "admission-control-config-file", config)
<1>0. config = Admission
  <2>1. ArgsOK(t.args)
    BY DEF Made
  <2>2. CASE HasArg(t, "apiServer", AdmissionArg)
    <3> DEFINE k == CHOOSE i \in DOMAIN t.args["apiServer"] : t.args["apiServer"][i][1] = AdmissionArg
    <3>1. k \in DOMAIN t.args["apiServer"] /\ t.args["apiServer"][k][1] = AdmissionArg
      BY <2>2 DEF HasArg
    <3> HIDE DEF k
    <3>2. t.args["apiServer"][k][2] = Admission
      BY <2>1, <3>1 DEF ArgsOK, Range
    <3>3. config = t.args["apiServer"][k][2]
      BY <2>2 DEF AdmissionConfig, ArgValue, AdmissionArg, k
    <3> QED BY <3>2, <3>3
  <2>3. CASE ~HasArg(t, "apiServer", AdmissionArg)
    BY <2>3 DEF AdmissionConfig, AdmissionArg, Admission
  <2> QED BY <2>2, <2>3
<1>1. \A b1 : FilesOK(c, t0, <<File(config, b1)>>) /\ FilesOK(c, t0, <<File(path, b1)>>) /\ FileOK(c, t0, File(config, b1))
  <2> HIDE DEF config
  <2> QED BY <1>0, FilesLiteral, FileSources, OtherPaths
<1>2. Made(TRUE, c, t0, patched)
  <2> DEFINE g == [i \in DOMAIN t.files |->
                         IF t.files[i].path = config /\ ~Contains(t.files[i].body, name)
                         THEN File(config, Append(t.files[i].body, name)) ELSE t.files[i]]
  <2>1. FilesOK(c, t0, t.files)
    BY DEF Made
  <2>2. \A i \in DOMAIN t.files : FileOK(c, t0, g[i])
    <3> HIDE DEF config
    <3> QED BY <1>1, <2>1 DEF FilesOK, Range
  <2>3. g = [i \in DOMAIN t.files |-> g[i]]
    OBVIOUS
  <2> HIDE DEF g
  <2>4. FilesOK(c, t0, g)
    BY <2>1, <2>2, <2>3, FilesMap
  <2>5. Made(TRUE, c, t0, [t EXCEPT !.files = g])
    BY <2>4, OtherFields
  <2> QED BY <2>5 DEF g
<1> HIDE DEF patched, config
<1>3. Made(TRUE, c, t0, withConfig)
  BY <1>1, <1>2, Writers
<1> HIDE DEF withConfig
<1>4. Made(TRUE, c, t0, withFile)
  BY <1>1, <1>3, Writers
<1> HIDE DEF withFile
<1>5. Made(TRUE, c, t0, withVolumes)
  BY <1>4, Writers
<1> HIDE DEF withVolumes
<1>6. Made(TRUE, c, t0, withArg)
  BY <1>0, <1>5, Writers
<1> HIDE DEF withArg
<1>7. Made(TRUE, c, t0, AddArg(withArg, "apiServer", "enable-admission-plugins", <<name>>))
  BY <1>6, Writers DEF AdmissionArg
<1> DEFINE args == withArg.args["apiServer"]
           last == [i \in DOMAIN args |-> IF args[i][1] = "enable-admission-plugins" /\ ~Contains(args[i][2], name)
                                          THEN <<args[i][1], Append(args[i][2], name)>> ELSE args[i]]
<1>8. AddPlugin(t, name, path, content) =
        IF ~HasArg(t, "apiServer", "enable-admission-plugins")
        THEN AddArg(withArg, "apiServer", "enable-admission-plugins", <<name>>)
        ELSE [withArg EXCEPT !.args["apiServer"] = last]
  BY Zenon DEF AddPlugin, withArg, withVolumes, withFile, withConfig, patched, config
<1>9. Made(TRUE, c, t0, [withArg EXCEPT !.args["apiServer"] = last])
  <2>1. ArgsOK(withArg.args)
    BY <1>6 DEF Made
  <2>2. \A i \in DOMAIN args : last[i][1] = AdmissionArg => last[i][2] = Admission
    BY <2>1 DEF ArgsOK, Range, AdmissionArg
  <2>3. last = [i \in DOMAIN args |-> last[i]]
    OBVIOUS
  <2> HIDE DEF last
  <2>4. IsList(last) /\ DOMAIN last = DOMAIN args
    BY <2>1, <2>3, MapList DEF ArgsOK
  <2>5. ArgsOK([withArg.args EXCEPT !["apiServer"] = last])
    BY <2>1, <2>2, <2>4 DEF ArgsOK, Range
  <2>6. Made(TRUE, c, t0, [withArg EXCEPT !.args = [withArg.args EXCEPT !["apiServer"] = last]])
    BY <1>6, <2>5, OtherFields
  <2> QED BY <2>6
<1> HIDE DEF last
<1> QED BY <1>7, <1>8, <1>9, Zenon

\* Files that replace those of the same path.
LEMMA Merged ==
    ASSUME NEW early, NEW c, NEW t0, NEW t, Made(early, c, t0, t), NEW fs, FilesOK(c, t0, fs)
    PROVE  Made(early, c, t0, MergeFiles(t, fs))
<1> DEFINE same(path) == CHOOSE i \in DOMAIN fs : fs[i].path = path
           merged == [i \in DOMAIN t.files |-> IF \E j \in DOMAIN fs : fs[j].path = t.files[i].path
                                               THEN fs[same(t.files[i].path)] ELSE t.files[i]]
           rest == Keep(fs, {i \in DOMAIN fs : ~HasFile(t, fs[i].path)})
<1>1. FilesOK(c, t0, t.files)
  BY DEF Made
<1>2. \A i \in DOMAIN t.files : FileOK(c, t0, merged[i])
  <2> SUFFICES ASSUME NEW i \in DOMAIN t.files PROVE FileOK(c, t0, merged[i])
    OBVIOUS
  <2>1. ASSUME NEW j \in DOMAIN fs, fs[j].path = t.files[i].path
        PROVE  same(t.files[i].path) \in DOMAIN fs
    BY <2>1
  <2>2. \A j \in DOMAIN fs : FileOK(c, t0, fs[j])
    BY DEF FilesOK, Range
  <2>3. FileOK(c, t0, t.files[i])
    BY <1>1 DEF FilesOK, Range
  <2> HIDE DEF same
  <2> QED BY <2>1, <2>2, <2>3
<1>3. merged = [i \in DOMAIN t.files |-> merged[i]]
  OBVIOUS
<1> HIDE DEF merged
<1>4. FilesOK(c, t0, merged)
  BY <1>1, <1>2, <1>3, FilesMap
<1>5. FilesOK(c, t0, rest)
  BY FilesKeep
<1> HIDE DEF rest
<1> DEFINE all == merged \o rest
<1>6. FilesOK(c, t0, all)
  BY <1>4, <1>5, FilesConcat
<1>7. MergeFiles(t, fs) = [t EXCEPT !.files = all]
  BY DEF MergeFiles, merged, rest
<1> HIDE DEF all
<1>8. Made(early, c, t0, [t EXCEPT !.files = all])
  BY <1>6, OtherFields
<1> QED BY <1>7, <1>8

\* kube-vip's Pod has the address of the control plane.
LEMMA VirtualIP ==
    ASSUME NEW early, NEW c, NEW t0, NEW t, Made(early, c, t0, t)
    PROVE  Made(early, c, t0, ControlPlaneVirtualIP(c, t))
<1>1. ASSUME NEW endpoint, Has(c.cfg, "nutanix.controlPlaneEndpoint"), endpoint = c.cfg["nutanix.controlPlaneEndpoint"],
             Has(endpoint, "virtualIP")
      PROVE  Made(early, c, t0, KubeVIPFromTemplate(c, t, endpoint))
  <2> DEFINE pod == File(KubeVIP, <<"kube-vip", OrElse(endpoint.virtualIP, "address", endpoint.host),
                               OrElse(endpoint.virtualIP, "port", endpoint.port)>>)
             hack == c.seen.virtualip >= 29
             fs == IF hack THEN <<pod, File(ConfigureForKubeVIP, <<"configure">>)>> ELSE <<pod>>
             merged == MergeFiles(t, fs)
             final == [AddPre(merged, <<ConfigureForKubeVIP>>) EXCEPT !.post = Append(@, ConfigureForKubeVIP)]
  <2>1. FilesOK(c, t0, fs)
    <3>1. FileOK(c, t0, File(ConfigureForKubeVIP, <<"configure">>))
      BY FileSources, OtherPaths
    <3>2. FileOK(c, t0, pod)
      <4>1. pod.from \in Sources(c, t0)
        BY DEF File, Sources
      <4>2. pod.path = KubeVIP /\ KubeVIP # KubeletPatch /\ KubeVIP # ComputeReservations
        BY DEF File, KubeVIP, KubeletPatch, ComputeReservations
      <4>3. pod.body[2] = VirtualIPAddress(endpoint)
        BY <1>1 DEF File, VirtualIPAddress
      <4> HIDE DEF pod
      <4> QED BY <1>1, <4>1, <4>2, <4>3 DEF FileOK
    <3> HIDE DEF pod
    <3> QED BY <3>1, <3>2, FilesLiteral
  <2> HIDE DEF fs
  <2>2. Made(early, c, t0, merged)
    BY <2>1, Merged
  <2> HIDE DEF merged
  <2>3. Made(early, c, t0, final)
    <3>1. Made(early, c, t0, AddPre(merged, <<ConfigureForKubeVIP>>))
      BY <2>2, Writers
    <3> QED BY <3>1, OtherFields
  <2>4. Made(early, c, t0, Fail(t))
    BY Writers
  <2>5. KubeVIPFromTemplate(c, t, endpoint) =
          CASE ~HasFile(t, KubeVIP) -> Fail(t)
            [] HasFile(t, KubeVIP) /\ ~hack -> merged
            [] OTHER -> final
    BY Zenon DEF KubeVIPFromTemplate, merged, fs
  <2> HIDE DEF final
  <2> QED BY <2>2, <2>3, <2>4, <2>5
<1>2. Made(early, c, t0, DeleteFiles(t, KubeVIP))
  BY Writers
<1> QED BY <1>1, <1>2 DEF ControlPlaneVirtualIP, MutateIfApplicable, Get, Has

\* A kubelet's patch and script are made of its configuration.
LEMMA Kubelet ==
    ASSUME NEW early, NEW c, NEW t0, NEW t, Made(early, c, t0, t), NEW set, NEW selected, selected => set = KubeletOf(c, t0)
    PROVE  Made(early, c, t0, KubeletConfiguration(c, t, set, selected))
<1> DEFINE kubelet == ApplyDeprecatedMaxParallelImagePulls(c, set)
           patch == RenderKubeletConfigPatch(kubelet)
           patched == IF DOMAIN kubelet \ {"automaticReservations"} = {} THEN t ELSE AddFiles(t, <<patch>>)
           script == File(ComputeReservations, <<"reservations">>)
           final == IF Has(kubelet, "automaticReservations")
                    THEN AddPre(AddFiles(patched, <<script>>), <<ComputeReservations>>) ELSE patched
<1>1. KubeletConfiguration(c, t, set, selected) = IF selected THEN final ELSE t
  BY Zenon DEF KubeletConfiguration, MutateIfApplicable
<1> SUFFICES ASSUME selected PROVE Made(early, c, t0, final)
  BY <1>1
<1>2. /\ DOMAIN kubelet \subseteq DOMAIN KubeletOf(c, t0) \cup {"maxParallelImagePulls"}
      /\ Has(kubelet, "automaticReservations") => Has(KubeletOf(c, t0), "automaticReservations")
  BY DEF ApplyDeprecatedMaxParallelImagePulls, Over, Has
<1> HIDE DEF kubelet
<1>3. FileOK(c, t0, patch)
  <2>1. patch.from \in Sources(c, t0)
    BY DEF RenderKubeletConfigPatch, File, Sources
  <2>2. patch.path = KubeletPatch /\ KubeletPatch # KubeVIP /\ KubeletPatch # ComputeReservations
    BY DEF RenderKubeletConfigPatch, File, KubeVIP, KubeletPatch, ComputeReservations
  <2>3. patch.body[1] = [f \in DOMAIN kubelet \ {"automaticReservations"} |-> kubelet[f]]
    BY DEF RenderKubeletConfigPatch, File
  <2> HIDE DEF patch
  <2>4. DOMAIN patch.body[1] \subseteq DOMAIN KubeletOf(c, t0) \cup {"maxParallelImagePulls"}
    BY <1>2, <2>3
  <2> QED BY <2>1, <2>2, <2>4 DEF FileOK
<1> HIDE DEF patch
<1>4. Made(early, c, t0, patched)
  BY <1>3, FilesLiteral, Writers
<1> HIDE DEF patched
<1>5. ASSUME Has(kubelet, "automaticReservations") PROVE FileOK(c, t0, script)
  BY <1>2, <1>5 DEF FileOK, File, Sources, KubeVIP, KubeletPatch, ComputeReservations
<1> HIDE DEF script
<1>6. ASSUME Has(kubelet, "automaticReservations")
      PROVE  Made(early, c, t0, AddPre(AddFiles(patched, <<script>>), <<ComputeReservations>>))
  BY <1>4, <1>5, <1>6, FilesLiteral, Writers
<1> QED BY <1>4, <1>6

\* The credentials mutator refers to the generated Secret only where it has one generated.
LEMMA CredentialsMade ==
    ASSUME NEW early, NEW c, NEW t0, NEW t, Made(early, c, t0, t)
    PROVE  Made(early, c, t0, IF c.v6 THEN V6Credentials(c, t) ELSE Credentials(c, t))
<1> DEFINE configs == Configs(c)
           common == << File(InstallProviders, <<"install">>),
                        File(ImageCredentialProviderConfig, [i \in DOMAIN configs |-> RegistryHostWithPath(configs[i].url)]),
                        File(DynamicProviderConfig, <<TemplateDynamicCredentialProviderConfig(configs)>>) >>
           static == IF ConfigsRequireStaticCredentials(configs)
                     THEN <<FromSecret(StaticCredentials, GeneratedCredentials)>> ELSE <<>>
           files == CredentialFiles(configs)
<1>1. ASSUME ~CredentialsFail(c), Kubeadm(t) PROVE FilesOK(c, t0, files)
  <2>1. FilesOK(c, t0, common)
    BY FileSources, FilesLiteral, OtherPaths
  <2>2. FilesOK(c, t0, static)
    <3>1. CASE ConfigsRequireStaticCredentials(configs)
      <4>1. GeneratedCredentials \in Sources(c, t0)
        BY <1>1, <3>1, SelectorsKept DEF Sources, GeneratesSecret
      <4>2. FilesOK(c, t0, <<FromSecret(StaticCredentials, GeneratedCredentials)>>)
        BY <4>1, FilesLiteral, FileSources, OtherPaths
      <4> QED BY <3>1, <4>2
    <3>2. CASE ~ConfigsRequireStaticCredentials(configs)
      BY <3>2, FilesLiteral
    <3> QED BY <3>1, <3>2
  <2>3. files = common \o static
    BY Zenon DEF CredentialFiles
  <2> HIDE DEF common, static, files
  <2> QED BY <2>1, <2>2, <2>3, FilesConcat
<1>2. Made(early, c, t0, ConfigureCredentials(c, t, configs))
  <2> HIDE DEF configs
  <2>1. CASE CredentialsFail(c)
    BY <2>1, Writers DEF ConfigureCredentials
  <2>2. CASE ~CredentialsFail(c) /\ ~Kubeadm(t)
    BY <2>2 DEF ConfigureCredentials
  <2>3. CASE ~CredentialsFail(c) /\ Kubeadm(t)
    <3> DEFINE prepared == AddPre(AddFiles(t, files), <<InstallProviders>>)
               joined == AddImageCredentialProviderArgs(prepared, "kubeletJoin")
    <3> HIDE DEF files
    <3>1. Made(early, c, t0, prepared)
      BY <1>1, <2>3, Writers
    <3> HIDE DEF prepared
    <3>0. \A u, l : Made(early, c, t0, u) => Made(early, c, t0, AddImageCredentialProviderArgs(u, l))
      <4>1. Free(<< <<"image-credential-provider-bin-dir", "image-credential-provider">>,
                    <<"image-credential-provider-config", ImageCredentialProviderConfig>> >>)
        BY FreeLiteral DEF AdmissionArg
      <4> QED BY <4>1, Writers DEF AddImageCredentialProviderArgs
    <3>2. Made(early, c, t0, joined)
      BY <3>0, <3>1
    <3> HIDE DEF joined
    <3>3. Made(early, c, t0, AddImageCredentialProviderArgs(joined, "kubeletInit"))
      BY <3>0, <3>2
    <3>4. ConfigureCredentials(c, t, configs) =
            IF ControlPlane(t) THEN AddImageCredentialProviderArgs(joined, "kubeletInit") ELSE joined
      BY <2>3 DEF ConfigureCredentials, joined, prepared, files
    <3> QED BY <3>2, <3>3, <3>4
  <2> QED BY <2>1, <2>2, <2>3
<1> HIDE DEF configs
<1>3. CASE c.v6
  <2>1. configs = V6RegistriesThatNeedConfiguration(c)
    BY <1>3 DEF Configs, configs
  <2> QED BY <1>2, <1>3, <2>1 DEF V6Credentials
<1>4. CASE ~c.v6
  <2>1. configs = RegistriesThatNeedConfiguration(c)
    BY <1>4 DEF Configs, configs
  <2> QED BY <1>2, <1>4, <2>1 DEF Credentials
<1> QED BY <1>3, <1>4

\* The Secrets of containerd's configurations.
SecretsOf(c) == {"none"} \cup SecretNames \cup {name \in {RegistryAddonCA} : Has(c.cfg, "addons.registry")}
\* containerd's CAs come from Secrets that were there, or from the registry add-on.
LEMMA ContainerdSecrets ==
    ASSUME NEW c, ContextOK(c), ~MirrorsFail(c)
    PROVE  /\ IsList(ContainerdConfigs(c))
           /\ \A x \in Range(ContainerdConfigs(c)) : x.secret \in SecretsOf(c) /\ CAFilePath(x.url.host) \notin NodeFiles
<1> DEFINE I == ImageRegistries(c)
           G == GlobalMirror(c)
           P == [i \in DOMAIN G |-> ContainerdConfig(c.cas, G[i], TRUE)]
           Q == [i \in DOMAIN I |-> ContainerdConfig(c.cas, I[i], FALSE)]
           R == IF Has(c.cfg, "addons.registry") THEN <<RegistryAddonConfig>> ELSE <<>>
           OK(s) == IsList(s) /\ \A x \in Range(s) : x.secret \in SecretsOf(c) /\ CAFilePath(x.url.host) \notin NodeFiles
<1>1. ASSUME NEW r, ~SecretMissing(c.cas, r), NEW m
      PROVE  ContainerdConfig(c.cas, r, m).secret \in SecretsOf(c) /\ ContainerdConfig(c.cas, r, m).url = r.url
  <2>1. CASE Has(r, "secret")
    <3>1. r.secret \in SecretNames
      BY <1>1, <2>1 DEF SecretMissing, ContextOK
    <3> QED BY <3>1 DEF ContainerdConfig, SecretsOf
  <2>2. CASE ~Has(r, "secret")
    BY <2>2 DEF ContainerdConfig, SecretForImageRegistryCredentials, NoSecret, SecretsOf
  <2> QED BY <2>1, <2>2
<1>2. OK(P)
  <2>1. IsList(P) /\ DOMAIN P = DOMAIN G
    BY MapList, GlobalMirrorList
  <2>2. \A i \in DOMAIN G : P[i].secret \in SecretsOf(c) /\ CAFilePath(P[i].url.host) \notin NodeFiles
    BY <1>1 DEF MirrorsFail, ContextOK, Range
  <2> HIDE DEF P
  <2> QED BY <2>1, <2>2 DEF Range
<1>3. OK(Q)
  <2>1. IsList(Q) /\ DOMAIN Q = DOMAIN I
    BY MapList DEF ContextOK
  <2>2. \A i \in DOMAIN I : Q[i].secret \in SecretsOf(c) /\ CAFilePath(Q[i].url.host) \notin NodeFiles
    BY <1>1 DEF MirrorsFail, ContextOK, Range
  <2> HIDE DEF Q
  <2> QED BY <2>1, <2>2 DEF Range
<1>4. OK(R)
  <2>1. Has(c.cfg, "addons.registry") => RegistryAddonConfig.secret \in SecretsOf(c)
    BY DEF RegistryAddonConfig, SecretsOf
  <2> QED BY <2>1, Literals, AddonCAAssumption
<1>5. ContainerdConfigs(c) = P \o Q \o R
  BY Zenon DEF ContainerdConfigs
<1> HIDE DEF P, Q, R
<1>6. OK(P \o Q)
  BY <1>2, <1>3, ConcatList
<1>7. OK(P \o Q \o R)
  BY <1>4, <1>6, ConcatList
<1> QED BY <1>5, <1>7

\* The mirrors mutator delivers those CAs and nothing else.
LEMMA MirrorsMade ==
    ASSUME NEW early, NEW c, ContextOK(c), NEW t0, NEW t, Made(early, c, t0, t)
    PROVE  Made(early, c, t0, Mirrors(c, t))
<1> DEFINE configs == ContainerdConfigs(c)
           mirrors == Keep(configs, {i \in DOMAIN configs : configs[i].mirror})
           cas == WithCA(configs)
           firstOfHost(i) == \A j \in DOMAIN cas : j < i => cas[j].url.host # cas[i].url.host
           files == [i \in DOMAIN cas |-> IF firstOfHost(i)
                       THEN <<FromSecret(CAFilePath(cas[i].url.host), cas[i].secret)>> ELSE <<>>]
           first == IF mirrors = <<>> THEN <<>>
                    ELSE <<File(HostsFile, [i \in DOMAIN mirrors |->
                                  <<mirrors[i].url.host, Clean(mirrors[i].url.path), mirrors[i].ca # 0>>])>>
           last == <<File("patches/registry-config.toml", <<"registry config">>)>>
<1>1. ASSUME ~MirrorsFail(c), Kubeadm(t) PROVE FilesOK(c, t0, ContainerdFiles(configs))
  <2>1. IsList(configs) /\ \A x \in Range(configs) : x.secret \in Sources(c, t0) /\ CAFilePath(x.url.host) \notin NodeFiles
    <3>1. SecretsOf(c) \subseteq Sources(c, t0)
      BY <1>1, SelectorsKept DEF SecretsOf, Sources
    <3> QED BY <1>1, <3>1, ContainerdSecrets
  <2>2. FilesOK(c, t0, first) /\ FilesOK(c, t0, last)
    BY FileSources, FilesLiteral, OtherPaths
  <2>3. ContainerdFiles(configs) = first \o FlattenSeq(files) \o last
    BY Zenon DEF ContainerdFiles
  <2> HIDE DEF first, last, configs
  <2>4. IsList(cas) /\ \A x \in Range(cas) : x.secret \in Sources(c, t0) /\ CAFilePath(x.url.host) \notin NodeFiles
    <3> DEFINE K == {i \in DOMAIN configs : configs[i].secret # "none"}
    <3>1. cas = Keep(configs, K)
      BY DEF WithCA
    <3> HIDE DEF K
    <3>2. IsList(Keep(configs, K)) /\ Range(Keep(configs, K)) = {configs[i] : i \in K \cap DOMAIN configs}
      BY <2>1, KeepList
    <3> QED BY <2>1, <3>1, <3>2 DEF Range
  <2> HIDE DEF cas
  <2>5. /\ Len(cas) \in Nat /\ DOMAIN cas = 1 .. Len(cas)
        /\ \A i \in DOMAIN cas : cas[i].secret \in Sources(c, t0) /\ CAFilePath(cas[i].url.host) \notin NodeFiles
    BY <2>4, ListFacts DEF Range
  <2>6. IsList(files) /\ Len(files) = Len(cas)
    <3>1. files = [i \in DOMAIN cas |-> files[i]]
      OBVIOUS
    <3> HIDE DEF files
    <3> QED BY <2>4, <3>1, MapList
  <2>7. \A i \in 1 .. Len(files) : FilesOK(c, t0, files[i])
    <3> SUFFICES ASSUME NEW i \in 1 .. Len(files) PROVE FilesOK(c, t0, files[i])
      OBVIOUS
    <3>1. files[i] = IF firstOfHost(i) THEN <<FromSecret(CAFilePath(cas[i].url.host), cas[i].secret)>> ELSE <<>>
      BY <2>5, <2>6
    <3>2. cas[i].secret \in Sources(c, t0) /\ CAFilePath(cas[i].url.host) \notin NodeFiles
      BY <2>5, <2>6
    <3>3. FilesOK(c, t0, <<FromSecret(CAFilePath(cas[i].url.host), cas[i].secret)>>)
      BY <3>2, FilesLiteral, FileSources
    <3> HIDE DEF files, firstOfHost
    <3> QED BY <3>1, <3>3, FilesLiteral
  <2> HIDE DEF files
  <2>8. IsList(FlattenSeq(files)) /\ Range(FlattenSeq(files)) = UNION {Range(files[i]) : i \in 1 .. Len(files)}
    BY <2>6, <2>7, FlattenList DEF FilesOK
  <2>9. FilesOK(c, t0, FlattenSeq(files))
    BY <2>7, <2>8 DEF FilesOK
  <2>10. FilesOK(c, t0, first \o FlattenSeq(files))
    BY <2>2, <2>9, FilesConcat
  <2>11. FilesOK(c, t0, first \o FlattenSeq(files) \o last)
    BY <2>2, <2>10, FilesConcat
  <2> QED BY <2>3, <2>11
<1> HIDE DEF configs
<1>2. CASE MirrorsFail(c)
  BY <1>2, Writers DEF Mirrors
<1>3. CASE ~MirrorsFail(c) /\ Kubeadm(t)
  <2>1. Made(early, c, t0, AddFiles(t, ContainerdFiles(configs)))
    BY <1>1, <1>3, Writers
  <2> QED BY <1>3, <2>1 DEF Mirrors, MutateIfApplicable, configs
<1>4. CASE ~MirrorsFail(c) /\ ~Kubeadm(t)
  BY <1>4 DEF Mirrors, MutateIfApplicable
<1> QED BY <1>2, <1>3, <1>4

AWSNames ==
    {"aws tags", "aws region", "aws network", "aws lb", "aws identityref", "aws cp tags",
        "aws cp iam", "aws cp instancetype", "aws cp ami", "aws cp securitygroups",
        "aws cp volumes", "aws cp placementgroup", "aws cp placementgroupnfd", "aws w tags",
        "aws w iam", "aws w instancetype", "aws w ami", "aws w securitygroups", "aws w volumes",
        "aws w placementgroup", "aws w placementgroupnfd", "eks region", "eks network",
        "eks identityref", "eks tags", "eks w iam", "eks w instancetype", "eks w ami",
        "eks w securitygroups", "eks w volumes", "eks w placementgroup", "eks w placementgroupnfd",
        "eks w tags"}
KubeadmNames ==
    {"auditpolicy", "etcd", "coredns", "extraapiservercertsans", "httpproxy",
        "kubernetesimagerepository", "credentials", "mirrors", "calico", "users",
        "containerdmetrics", "containerdunprivilegedports", "encryptionatrest", "autorenewcerts",
        "kubeproxymode", "podsecurityadmission", "ntp", "containerdapplypatchesandrestart",
        "cp taints", "taints", "cp noderegistration", "noderegistration", "externalcloudprovider",
        "cp kubeletconfiguration", "kubeletconfiguration", "sortextraargs", "controlplaneendpoint",
        "controlplanevirtualip", "prismcentralendpoint", "cp machinedetails", "machinedetails",
        "controlplanefailuredomains", "cp customimage", "customimage"}
MutatorNames == KubeadmNames \cup AWSNames

\* Every mutator keeps to what its context calls for.
LEMMA AWSMutators ==
    ASSUME NEW early, NEW c, NEW t0, NEW t, Made(early, c, t0, t)
    PROVE  \A name \in AWSNames : Made(early, c, t0, MutateAWS(name, c, t))
<1> DEFINE S(u) == Made(early, c, t0, u)
           F(fs) == FilesOK(c, t0, fs)
<1>1. /\ \A u : S(u) => /\ S(Fail(u))
                        /\ \A f, v : f \notin Guarded => S(Put(u, f, v))
                        /\ \A cmds : S(AddPre(u, cmds))
                        /\ \A l, name, v : name # AdmissionArg => S(AddArg(u, l, name, v))
                        /\ \A l, nvs : Free(nvs) => S(AddArgs(u, l, nvs))
                        /\ \A taints, lists : lists \cap Guarded = {} => S(Taints(u, taints, lists))
                        /\ \A fs : F(fs) => S(AddFiles(u, fs))
                        /\ \A v : S([u EXCEPT !.volumes = v])
      /\ \A p1, b1 : p1 \notin NodeFiles => F(<<File(p1, b1)>>)
      /\ \A p1, b1, p2, b2 : p1 \notin NodeFiles /\ p2 \notin NodeFiles => F(<<File(p1, b1), File(p2, b2)>>)
  BY Writers, OtherFields, FilesLiteral, FileSources
<1>2. S(t)
  OBVIOUS
<1> HIDE DEF S, F
<1>3. ASSUME NEW v, NEW path, NEW selected, NEW field, field \notin Guarded PROVE S(Copies(t, v, path, selected, field))
  BY <1>1, <1>2, <1>3 DEF Copies, MutateIfApplicable
<1>4. ASSUME NEW v, NEW path, NEW selected PROVE S(Network(t, v, path, selected))
  BY <1>1, <1>2 DEF Network, MutateIfApplicable, Guarded
<1>5. ASSUME NEW v, NEW path, NEW selected PROVE S(AMI(t, v, path, selected))
  BY <1>1, <1>2 DEF AMI, MutateIfApplicable, Guarded
<1>6. ASSUME NEW v, NEW path, NEW selected PROVE S(Volumes(t, v, path, selected))
  BY <1>1, <1>2 DEF Volumes, MutateIfApplicable, Guarded
<1>7. ASSUME NEW v, NEW path, NEW selected PROVE S(DiscoversPlacementGroup(t, v, path, selected))
  BY <1>1, <1>2, OtherPaths DEF DiscoversPlacementGroup, MutateIfApplicable
<1>8. S(AWSClusterTags(c, t))
  BY <1>3 DEF AWSClusterTags, Guarded
<1>9. S(AWSRegion(c, t))
  BY <1>3 DEF AWSRegion, Guarded
<1>10. S(AWSNetwork(c, t))
  BY <1>4 DEF AWSNetwork
<1>11. S(AWSControlPlaneLoadBalancer(c, t))
  BY <1>3 DEF AWSControlPlaneLoadBalancer, Guarded
<1>12. S(AWSIdentityRef(c, t))
  BY <1>3 DEF AWSIdentityRef, Guarded
<1>13. S(AWSControlPlaneTags(c, t))
  BY <1>3 DEF AWSControlPlaneTags, MachineTags, Guarded
<1>14. S(AWSControlPlaneIAMInstanceProfile(c, t))
  BY <1>3 DEF AWSControlPlaneIAMInstanceProfile, Guarded
<1>15. S(AWSControlPlaneInstanceType(c, t))
  BY <1>3 DEF AWSControlPlaneInstanceType, Guarded
<1>16. S(AWSControlPlaneAMI(c, t))
  BY <1>5 DEF AWSControlPlaneAMI
<1>17. S(AWSControlPlaneSecurityGroups(c, t))
  BY <1>3 DEF AWSControlPlaneSecurityGroups, SecurityGroups, Guarded
<1>18. S(AWSControlPlaneVolumes(c, t))
  BY <1>6 DEF AWSControlPlaneVolumes
<1>19. S(AWSControlPlanePlacementGroup(c, t))
  BY <1>3 DEF AWSControlPlanePlacementGroup, Guarded
<1>20. S(AWSControlPlanePlacementGroupNFD(c, t))
  BY <1>7 DEF AWSControlPlanePlacementGroupNFD
<1>21. S(AWSWorkerTags(c, t))
  BY <1>3 DEF AWSWorkerTags, MachineTags, Guarded
<1>22. S(AWSWorkerAMI(c, t))
  BY <1>5 DEF AWSWorkerAMI
<1>23. S(AWSWorkerSecurityGroups(c, t))
  BY <1>3 DEF AWSWorkerSecurityGroups, SecurityGroups, Guarded
<1>24. S(AWSWorkerVolumes(c, t))
  BY <1>6 DEF AWSWorkerVolumes
<1>25. S(AWSWorkerPlacementGroupNFD(c, t))
  BY <1>7 DEF AWSWorkerPlacementGroupNFD
<1>26. S(EKSRegion(c, t))
  BY <1>3 DEF EKSRegion, Guarded
<1>27. S(EKSNetwork(c, t))
  BY <1>4 DEF EKSNetwork
<1>28. S(EKSIdentityRef(c, t))
  BY <1>3 DEF EKSIdentityRef, Guarded
<1>29. S(EKSClusterTags(c, t))
  BY <1>3 DEF EKSClusterTags, Guarded
<1>30. S(EKSWorkerIAMInstanceProfile(c, t))
  BY <1>3 DEF EKSWorkerIAMInstanceProfile, WorkerIAMInstanceProfile, Guarded
<1>31. S(EKSWorkerInstanceType(c, t))
  BY <1>3 DEF EKSWorkerInstanceType, WorkerInstanceType, Guarded
<1>32. S(EKSWorkerAMI(c, t))
  BY <1>5 DEF EKSWorkerAMI
<1>33. S(EKSWorkerSecurityGroups(c, t))
  BY <1>3 DEF EKSWorkerSecurityGroups, SecurityGroups, Guarded
<1>34. S(EKSWorkerVolumes(c, t))
  BY <1>6 DEF EKSWorkerVolumes
<1>35. S(EKSWorkerPlacementGroup(c, t))
  BY <1>3 DEF EKSWorkerPlacementGroup, WorkerPlacementGroup, Guarded
<1>36. S(EKSWorkerPlacementGroupNFD(c, t))
  BY <1>7 DEF EKSWorkerPlacementGroupNFD
<1>37. S(EKSWorkerTags(c, t))
  BY <1>3 DEF EKSWorkerTags, MachineTags, Guarded
<1>38. S(WorkerIAMInstanceProfile(t, c.wc, "aws.iamInstanceProfile"))
  BY <1>3 DEF WorkerIAMInstanceProfile, Guarded
<1>39. S(WorkerInstanceType(t, c.wc, "aws.instanceType"))
  BY <1>3 DEF WorkerInstanceType, Guarded
<1>40. S(WorkerPlacementGroup(t, c.wc, "aws.placementGroup"))
  BY <1>3 DEF WorkerPlacementGroup, Guarded
<1>41. ASSUME NEW name \in AWSNames PROVE S(MutateAWS(name, c, t))
  BY <1>8, <1>9, <1>10, <1>11, <1>12, <1>13, <1>14, <1>15, <1>16, <1>17, <1>18, <1>19, <1>20,
        <1>21, <1>22, <1>23, <1>24, <1>25, <1>26, <1>27, <1>28, <1>29, <1>30, <1>31, <1>32, <1>33,
        <1>34, <1>35, <1>36, <1>37, <1>38, <1>39, <1>40
  DEF AWSNames, MutateAWS
<1> QED BY <1>41 DEF S

LEMMA Mutators ==
    ASSUME NEW early \in BOOLEAN, NEW c, NEW t0, NEW t, Made(early, c, t0, t), ContextOK(c)
    PROVE  \A name \in MutatorNames :
             name # (IF early THEN "sortextraargs" ELSE "podsecurityadmission") => Made(early, c, t0, Mutate(name, c, t))
<1> DEFINE S(u) == Made(early, c, t0, u)
           F(fs) == FilesOK(c, t0, fs)
<1>1. /\ \A u : S(u) => /\ S(Fail(u))
                        /\ \A f, v : f \notin Guarded => S(Put(u, f, v))
                        /\ \A cmds : S(AddPre(u, cmds))
                        /\ \A l, name, v : name # AdmissionArg => S(AddArg(u, l, name, v))
                        /\ \A l, nvs : Free(nvs) => S(AddArgs(u, l, nvs))
                        /\ \A taints, lists : lists \cap Guarded = {} => S(Taints(u, taints, lists))
                        /\ \A fs : F(fs) => S(AddFiles(u, fs))
                        /\ \A v : S([u EXCEPT !.volumes = v])
      /\ \A p1, b1 : p1 \notin NodeFiles => F(<<File(p1, b1)>>)
      /\ \A p1, b1, p2, b2 : p1 \notin NodeFiles /\ p2 \notin NodeFiles => F(<<File(p1, b1), File(p2, b2)>>)
  BY Writers, OtherFields, FilesLiteral, FileSources
<1>2. S(t)
  OBVIOUS
<1> HIDE DEF S, F
<1>3. ASSUME NEW v, NEW path, NEW selected, NEW field, field \notin Guarded PROVE S(Copies(t, v, path, selected, field))
  BY <1>1, <1>2, <1>3 DEF Copies, MutateIfApplicable
<1>4. ASSUME NEW v, NEW selected PROVE S(NutanixMachineDetails(t, v, selected))
  <2> DEFINE names == {n \in {"cluster", "subnets"} : Has(v, n) /\ (n = "subnets" => v[n] # <<>>)}
             placed == [n \in names |-> v[n]]
             image == IF Has(v, "image") THEN "image" ELSE "imageLookup"
             kept == [n \in DOMAIN t.fields \ {"image", "imageLookup"} |-> t.fields[n]]
             fields == With(With(Over(placed, kept), "size", v.size), image, v[image])
  <2>1. NutanixMachineDetails(t, v, selected) =
          IF selected THEN IF ~Has(v, image) THEN Fail(t) ELSE [t EXCEPT !.fields = fields] ELSE t
    BY Zenon DEF NutanixMachineDetails, MutateIfApplicable, fields, kept, image, placed, names
  <2>2. FieldsOK(c, t0, t.fields)
    BY <1>2 DEF S, Made
  <2>3. DOMAIN placed \cap Guarded = {} /\ "size" \notin Guarded /\ image \notin Guarded
    BY DEF Guarded
  <2>4. FieldsOK(c, t0, kept)
    BY <2>2, FieldsWritten
  <2> HIDE DEF placed, kept, image
  <2>5. FieldsOK(c, t0, Over(placed, kept))
    BY <2>3, <2>4, FieldsWritten
  <2>6. FieldsOK(c, t0, fields)
    BY <2>3, <2>5, FieldsWritten
  <2> HIDE DEF fields
  <2>7. S([t EXCEPT !.fields = fields])
    BY <1>2, <2>6, OtherFields DEF S
  <2> QED BY <1>1, <1>2, <2>1, <2>7
<1>6. S(AuditPolicy(c, t))
  <2> DEFINE nvs == << <<"audit-log-path", "audit.log">>, <<"audit-log-maxage", "30">>,
                       <<"audit-log-maxbackup", "90">>, <<"audit-log-maxsize", "100">>,
                       <<"audit-log-compress", "true">>, <<"audit-policy-file", AuditPolicyPath>> >>
             a == AddArgs(AddFiles(t, <<File(AuditPolicyPath, <<"auditPolicy">>)>>), "apiServer", nvs)
             mounted == [a EXCEPT !.volumes = @ \o << <<"audit-policy", AuditPolicyPath>>, <<"audit-logs", "/var/log/audit/">> >>]
  <2>1. Free(nvs)
    BY FreeSix DEF AdmissionArg
  <2> HIDE DEF nvs
  <2>2. S(a)
    BY <1>1, <1>2, <2>1, OtherPaths
  <2> HIDE DEF a
  <2>3. S(mounted)
    BY <1>1, <2>2
  <2>4. AuditPolicy(c, t) = IF ControlPlane(t) THEN mounted ELSE t
    BY Zenon DEF AuditPolicy, MutateIfApplicable, mounted, a, nvs
  <2> QED BY <1>2, <2>3, <2>4
<1>7. S(Etcd(c, t))
  <2>1. Free(<< <<"auto-tls", "false">>, <<"cipher-suites", "secure">>,
                <<"peer-auto-tls", "false">>, <<"tls-min-version", "TLS1.2">> >>)
    BY FreeLiteral DEF AdmissionArg
  <2> QED BY <1>1, <1>2, <2>1 DEF Etcd, MutateIfApplicable, Guarded
<1>8. S(CoreDNS(c, t))
  BY <1>1, <1>2 DEF CoreDNS, MutateIfApplicable, Guarded
<1>9. S(ExtraAPIServerCertSANs(c, t))
  BY <1>1, <1>2 DEF ExtraAPIServerCertSANs, MutateIfApplicable, Guarded
<1>10. S(HTTPProxy(c, t))
  BY <1>1, <1>2, OtherPaths DEF HTTPProxy, MutateIfApplicable
<1>11. S(KubernetesImageRepository(c, t))
  BY <1>3 DEF KubernetesImageRepository, Guarded
<1>12. S(Calico(c, t))
  BY <1>1, <1>2 DEF Calico, MutateIfApplicable, Guarded
<1>13. S(Users(c, t))
  BY <1>1, <1>2 DEF Users, MutateIfApplicable, Guarded
<1>14. S(ContainerdMetrics(c, t))
  BY <1>1, <1>2, OtherPaths DEF ContainerdMetrics, MutateIfApplicable
<1>15. S(ContainerdUnprivilegedPorts(c, t))
  BY <1>1, <1>2, OtherPaths DEF ContainerdUnprivilegedPorts, MutateIfApplicable
<1>16. S(EncryptionAtRest(c, t))
  <2>1. CASE Has(c.cfg, "encryptionAtRest") /\ ControlPlane(t)
    <3>1. EncryptionKey \in Sources(c, t0)
      BY <2>1, SelectorsKept DEF Sources
    <3>2. F(<<FromSecret(EncryptionConfig, EncryptionKey)>>)
      BY <3>1, FilesLiteral, FileSources, OtherPaths DEF F
    <3> QED BY <1>1, <1>2, <3>2 DEF EncryptionAtRest, MutateIfApplicable, AdmissionArg
  <2>2. CASE ~(Has(c.cfg, "encryptionAtRest") /\ ControlPlane(t))
    BY <1>2, <2>2 DEF EncryptionAtRest, MutateIfApplicable
  <2> QED BY <2>1, <2>2
<1>17. S(AutoRenewCerts(c, t))
  <2> DEFINE kept == [n \in DOMAIN t.fields \ {"rolloutBefore"} |-> t.fields[n]]
  <2>0. FieldsOK(c, t0, t.fields)
    BY <1>2 DEF S, Made
  <2>2. FieldsOK(c, t0, kept)
    BY <2>0, FieldsWritten
  <2> HIDE DEF kept
  <2>3. S([t EXCEPT !.fields = kept])
    BY <1>2, <2>2, OtherFields DEF S
  <2>1. S([t EXCEPT !.fields = [n \in DOMAIN t.fields \ {"rolloutBefore"} |-> t.fields[n]]])
    BY <2>3 DEF kept
  <2> QED BY <1>1, <1>2, <2>1 DEF AutoRenewCerts, MutateIfApplicable, Guarded
<1>18. S(KubeProxyMode(c, t))
  <2>1. ASSUME Has(c.cfg, "kubeProxy.mode"), c.cfg["kubeProxy.mode"] = "disabled"
        PROVE  S(Put(t, "skipPhases", {"addon/kube-proxy"}))
    <3>1. FieldsOK(c, t0, With(t.fields, "skipPhases", {"addon/kube-proxy"}))
      BY <1>2, <2>1 DEF S, Made, FieldsOK, With, Has
    <3> QED BY <1>2, <3>1, OtherFields DEF S, Put
  <2>2. S(Put(t, "kubeProxy.disable", TRUE))
    BY <1>1, <1>2 DEF Guarded
  <2>3. \A mode : S(AddPre(AddFiles(t, <<File(KubeProxyConfig, <<mode>>)>>), <<KubeProxyConfig>>))
    BY <1>1, <1>2, OtherPaths
  <2> QED BY <1>1, <1>2, <2>1, <2>2, <2>3 DEF KubeProxyMode, MutateIfApplicable, Get, Has
<1>19. S(NTP(c, t))
  BY <1>1, <1>2 DEF NTP, MutateIfApplicable, Guarded
<1>20. S(ContainerdApplyPatchesAndRestart(c, t))
  BY <1>1, <1>2, OtherPaths DEF ContainerdApplyPatchesAndRestart, MutateIfApplicable
<1>21. S(ControlPlaneTaints(c, t))
  BY <1>1, <1>2 DEF ControlPlaneTaints, MutateIfApplicable, Guarded
<1>22. S(WorkerTaints(c, t))
  BY <1>1, <1>2 DEF WorkerTaints, MutateIfApplicable, Guarded
<1>23. S(ControlPlaneNodeRegistration(c, t))
  BY <1>1, <1>2 DEF ControlPlaneNodeRegistration, MutateIfApplicable, Guarded
<1>24. S(WorkerNodeRegistration(c, t))
  BY <1>1, <1>2 DEF WorkerNodeRegistration, MutateIfApplicable, Guarded
<1>25. S(ExternalCloudProvider(c, t))
  BY <1>1, <1>2 DEF ExternalCloudProvider, MutateIfApplicable, AdmissionArg
<1>26. S(ControlPlaneKubeletConfiguration(c, t))
  <2>1. ControlPlane(t) => OrElse(c.cfg, "controlPlane.kubeletConfiguration", NoVariables) = KubeletOf(c, t0)
    BY SelectorsKept DEF KubeletOf
  <2> QED BY <2>1, Kubelet DEF ControlPlaneKubeletConfiguration, S
<1>27. S(WorkerKubeletConfiguration(c, t))
  <2>1. WorkersKubeadmConfigTemplate(t) => OrElse(c.wc, "kubeletConfiguration", NoVariables) = KubeletOf(c, t0)
    BY SelectorsKept DEF KubeletOf
  <2> QED BY <2>1, Kubelet DEF WorkerKubeletConfiguration, S
<1>28. ~early => S(SortExtraArgs(c, t))
  <2>1. ~early => \A v : S([t EXCEPT !.args = v])
    BY <1>2, OtherFields DEF S
  <2> QED BY <2>1 DEF SortExtraArgs
<1>29. S(NutanixControlPlaneEndpoint(c, t))
  BY <1>1, <1>2 DEF NutanixControlPlaneEndpoint, MutateIfApplicable, Guarded
<1>30. S(NutanixPrismCentralEndpoint(c, t))
  <2>1. ASSUME Has(c.cfg, "nutanix.prismCentralEndpoint"), NutanixCluster(t)
        PROVE  S(Put(t, "prismCentral", c.cfg["nutanix.prismCentralEndpoint"]))
    <3>1. NutanixCluster(t0)
      BY <2>1, SelectorsKept
    <3>2. FieldsOK(c, t0, With(t.fields, "prismCentral", c.cfg["nutanix.prismCentralEndpoint"]))
      BY <1>2, <2>1, <3>1 DEF S, Made, FieldsOK, With, Has
    <3> QED BY <1>2, <3>2, OtherFields DEF S, Put
  <2> QED BY <1>1, <1>2, <2>1 DEF NutanixPrismCentralEndpoint, MutateIfApplicable, Get, Has
<1>31. S(NutanixControlPlaneMachineDetails(c, t))
  BY <1>2, <1>4 DEF NutanixControlPlaneMachineDetails, Get
<1>32. S(NutanixWorkerMachineDetails(c, t))
  BY <1>2, <1>4 DEF NutanixWorkerMachineDetails, Get
<1>33. S(NutanixControlPlaneFailureDomains(c, t))
  BY <1>2, <1>3 DEF NutanixControlPlaneFailureDomains, Guarded
<1>34. S(DockerControlPlaneCustomImage(c, t))
  BY <1>1, <1>2 DEF DockerControlPlaneCustomImage, MutateIfApplicable, CustomImage, Guarded
<1>35. S(DockerWorkerCustomImage(c, t))
  BY <1>1, <1>2 DEF DockerWorkerCustomImage, MutateIfApplicable, CustomImage, Guarded
<1>36. early => S(PodSecurityAdmission(c, t))
  <2>1. ASSUME early PROVE \A v : S(AddPlugin(t, "PodSecurity", "/etc/kubernetes/pod-security-admission.yaml", v))
    <3>1. Made(TRUE, c, t0, t)
      BY <2>1, <1>2 DEF S, Made
    <3>2. \A v : Made(TRUE, c, t0, AddPlugin(t, "PodSecurity", "/etc/kubernetes/pod-security-admission.yaml", v))
      BY <3>1, Plugin, OtherPaths
    <3> QED BY <2>1, <3>2 DEF S, Made
  <2> QED BY <1>2, <2>1 DEF PodSecurityAdmission, MutateIfApplicable, Get
<1>37. S(ControlPlaneVirtualIP(c, t))
  BY VirtualIP DEF S
<1>38. S(IF c.v6 THEN V6Credentials(c, t) ELSE Credentials(c, t))
  BY CredentialsMade DEF S
<1>39. S(Mirrors(c, t))
  BY MirrorsMade DEF S
<1>40. \A name \in AWSNames : S(MutateAWS(name, c, t))
  BY AWSMutators DEF S
<1>41. ASSUME NEW name \in MutatorNames, name # (IF early THEN "sortextraargs" ELSE "podsecurityadmission")
       PROVE  S(Mutate(name, c, t))
  BY <1>41, <1>6, <1>7, <1>8, <1>9, <1>10, <1>11, <1>12, <1>13, <1>14, <1>15, <1>16, <1>17, <1>18, <1>19,
        <1>20, <1>21, <1>22, <1>23, <1>24, <1>25, <1>26, <1>27, <1>28, <1>29, <1>30, <1>31, <1>32,
        <1>33, <1>34, <1>35, <1>36, <1>37, <1>38, <1>39, <1>40
  DEF MutatorNames, KubeadmNames, Mutate
<1> QED BY <1>41 DEF S

(* The mutators one after another *)

\* The templates after the first m mutators.
Runs(names, c, t, m, f) ==
    f = [n \in 0 .. m |-> IF n = 0 THEN t ELSE IF f[n - 1].err THEN f[n - 1] ELSE Mutate(names[n], c, f[n - 1])]

\* The recursive function in RunMutators exists.
LEMMA RunsExist ==
    ASSUME NEW names, NEW c, NEW t PROVE \A m \in Nat : \E f : Runs(names, c, t, m, f)
<1> DEFINE S == {m \in Nat : \E f : Runs(names, c, t, m, f)}
           next(n, u) == IF u.err THEN u ELSE Mutate(names[n], c, u)
<1>0. ASSUME NEW m, NEW f
      PROVE  Runs(names, c, t, m, f) <=> f = [n \in 0 .. m |-> IF n = 0 THEN t ELSE next(n, f[n - 1])]
  BY DEF Runs
<1> HIDE DEF next
<1>1. 0 \in S
  <2> DEFINE f == [n \in 0 .. 0 |-> t]
  <2>1. f = [n \in 0 .. 0 |-> IF n = 0 THEN t ELSE next(n, f[n - 1])]
    OBVIOUS
  <2> HIDE DEF f
  <2> QED BY <1>0, <2>1
<1>2. ASSUME NEW m \in Nat, m \in S PROVE m + 1 \in S
  <2>1. PICK f : Runs(names, c, t, m, f)
    BY <1>2
  <2>2. f = [n \in 0 .. m |-> IF n = 0 THEN t ELSE next(n, f[n - 1])]
    BY <1>0, <2>1
  <2>3. \A n \in 0 .. m : f[n] = IF n = 0 THEN t ELSE next(n, f[n - 1])
    BY <2>2
  <2> DEFINE g == [n \in 0 .. m + 1 |-> IF n <= m THEN f[n] ELSE next(n, f[m])]
  <2>4. ASSUME NEW n \in 0 .. m + 1 PROVE g[n] = IF n = 0 THEN t ELSE next(n, g[n - 1])
    <3>1. CASE n = 0
      BY <2>3, <3>1
    <3>2. CASE n # 0 /\ n <= m
      <4>1. n \in 0 .. m /\ n - 1 \in 0 .. m /\ n - 1 \in 0 .. m + 1 /\ n - 1 <= m
        BY <3>2
      <4>2. g[n] = f[n] /\ g[n - 1] = f[n - 1]
        BY <3>2, <4>1
      <4> HIDE DEF g
      <4> QED BY <2>3, <3>2, <4>1, <4>2
    <3>3. CASE n = m + 1
      <4>1. m \in 0 .. m + 1 /\ m <= m /\ n - 1 = m /\ ~(n <= m) /\ n # 0
        BY <3>3
      <4>2. g[n] = next(n, f[m]) /\ g[m] = f[m]
        BY <4>1
      <4> HIDE DEF g
      <4>3. g[n] = next(n, g[n - 1])
        BY ONLY <4>1, <4>2, Zenon
      <4> QED BY <4>1, <4>3
    <3> QED BY <3>1, <3>2, <3>3
  <2>5. g = [n \in 0 .. m + 1 |-> IF n = 0 THEN t ELSE next(n, g[n - 1])]
    <3>1. g = [n \in 0 .. m + 1 |-> g[n]]
      OBVIOUS
    <3> HIDE DEF g
    <3> QED BY <2>4, <3>1
  <2> HIDE DEF g
  <2>6. Runs(names, c, t, m + 1, g)
    BY <1>0, <2>5
  <2> QED BY <2>6
<1> HIDE DEF S
<1>3. Nat \subseteq S
  BY <1>1, <1>2, Induct
<1> QED BY <1>3 DEF S

\* The templates after each of the mutators, up to one that fails.
Follows(run, names, c, t) ==
    /\ run[0] = t
    /\ \A n \in 1 .. Len(names) : run[n] = IF run[n - 1].err THEN run[n - 1] ELSE Mutate(names[n], c, run[n - 1])
LEMMA RunIs ==
    ASSUME NEW names, NEW c, NEW t, IsList(names)
    PROVE  \E run : Follows(run, names, c, t) /\ RunMutators(names, c, t) = run[Len(names)]
<1> DEFINE N == Len(names)
           run == CHOOSE f : Runs(names, c, t, N, f)
<1>1. N \in Nat
  BY ListFacts
<1>2. Runs(names, c, t, N, run)
  BY <1>1, RunsExist
<1>3. RunMutators(names, c, t) = run[N]
  BY DEF RunMutators, Runs
<1> HIDE DEF run
<1>4. \A n \in 0 .. N :
        run[n] = IF n = 0 THEN t ELSE IF run[n - 1].err THEN run[n - 1] ELSE Mutate(names[n], c, run[n - 1])
  BY <1>2 DEF Runs
<1>5. Follows(run, names, c, t)
  <2>1. /\ run[0] = t
        /\ \A n \in 1 .. N : run[n] = IF run[n - 1].err THEN run[n - 1] ELSE Mutate(names[n], c, run[n - 1])
    BY <1>1, <1>4
  <2> QED BY <2>1 DEF Follows
<1> QED BY <1>3, <1>5

\* So do sequences of mutators, also when one of them fails: first those that need the
\* arguments in the order of the class, then those that do not.
LEMMA RunsMade ==
    ASSUME NEW c, NEW t0, NEW t, NEW names, NEW k, NEW run, Follows(run, names, c, t),
           ContextOK(c), Made(TRUE, c, t0, t), IsList(names), Range(names) \subseteq MutatorNames, k \in Nat,
           \A n \in 1 .. Len(names) : names[n] # (IF n <= k THEN "sortextraargs" ELSE "podsecurityadmission")
    PROVE  \A n \in 0 .. Len(names) : Made(FALSE, c, t0, run[n])
<1> DEFINE N == Len(names)
<1>1. N \in Nat /\ \A n \in 1 .. N : names[n] \in MutatorNames
  BY ListFacts
<1>2. /\ run[0] = t
      /\ \A n \in 1 .. N : run[n] = IF run[n - 1].err THEN run[n - 1] ELSE Mutate(names[n], c, run[n - 1])
  BY DEF Follows
<1>3. \A u : Made(TRUE, c, t0, u) => Made(FALSE, c, t0, u)
  BY DEF Made
<1> DEFINE S == {n \in Nat : n <= N => Made(FALSE, c, t0, run[n]) /\ (n <= k => Made(TRUE, c, t0, run[n]))}
<1>4. 0 \in S
  BY <1>2, <1>3
<1>5. ASSUME NEW n \in Nat, n \in S PROVE n + 1 \in S
  <2> SUFFICES ASSUME n + 1 <= N
               PROVE Made(FALSE, c, t0, run[n + 1]) /\ (n + 1 <= k => Made(TRUE, c, t0, run[n + 1]))
    <3>1. n + 1 \in Nat
      OBVIOUS
    <3> QED BY <3>1
  <2>1. n + 1 \in 1 .. N /\ (n + 1) - 1 = n /\ n <= N /\ (n + 1 <= k => n <= k)
    BY <1>1
  <2>2. Made(FALSE, c, t0, run[n]) /\ (n <= k => Made(TRUE, c, t0, run[n])) /\ names[n + 1] \in MutatorNames
    BY <1>1, <1>5, <2>1
  <2>3. run[n + 1] = IF run[n].err THEN run[n] ELSE Mutate(names[n + 1], c, run[n])
    BY <1>2, <2>1
  <2>4. names[n + 1] # (IF n + 1 <= k THEN "sortextraargs" ELSE "podsecurityadmission")
    BY <2>1
  <2>5. CASE n + 1 <= k
    <3>1. Made(TRUE, c, t0, run[n]) /\ names[n + 1] # "sortextraargs"
      BY <2>1, <2>2, <2>4, <2>5
    <3>2. Made(TRUE, c, t0, Mutate(names[n + 1], c, run[n]))
      BY <2>2, <3>1, Mutators
    <3> QED BY <1>3, <2>3, <3>1, <3>2
  <2>6. CASE ~(n + 1 <= k)
    <3>1. Made(FALSE, c, t0, Mutate(names[n + 1], c, run[n]))
      BY <2>2, <2>4, <2>6, Mutators
    <3> QED BY <2>2, <2>3, <2>6, <3>1
  <2> QED BY <2>5, <2>6
<1> HIDE DEF S
<1>6. Nat \subseteq S
  BY <1>4, <1>5, Induct
<1>7. \A n \in 0 .. N : n \in S /\ n <= N
  BY <1>1, <1>6
<1> QED BY <1>7 DEF S

\* So is what all of them make.
LEMMA RunMade ==
    ASSUME NEW c, NEW t0, NEW t, NEW names, NEW k,
           ContextOK(c), Made(TRUE, c, t0, t), IsList(names), Range(names) \subseteq MutatorNames, k \in Nat,
           \A n \in 1 .. Len(names) : names[n] # (IF n <= k THEN "sortextraargs" ELSE "podsecurityadmission")
    PROVE  Made(FALSE, c, t0, RunMutators(names, c, t))
<1>1. PICK run : Follows(run, names, c, t) /\ RunMutators(names, c, t) = run[Len(names)]
  BY RunIs
<1>2. Len(names) \in 0 .. Len(names)
  BY ListFacts
<1> QED BY <1>1, <1>2, RunsMade

Providers == {"nutanix", "aws", "eks", "docker"}
\* The meta patch handlers of the four providers run no other mutators, and none adds an
\* admission plugin once the arguments have been sorted.
LEMMA HandlerNames ==
    ASSUME NEW provider \in Providers
    PROVE  \E a, b : /\ MetaPatchHandler(provider) \o MetaWorkerPatchHandler(provider) = a \o b
                     /\ IsList(a) /\ Range(a) \subseteq MutatorNames \ {"sortextraargs"}
                     /\ IsList(b) /\ Range(b) \subseteq MutatorNames \ {"podsecurityadmission"}
<1> DEFINE M == MutatorNames
           A == MutatorNames \ {"sortextraargs"}
           B == MutatorNames \ {"podsecurityadmission"}
           nutanix == <<"controlplaneendpoint", "controlplanevirtualip", "prismcentralendpoint",
               "cp machinedetails", "controlplanefailuredomains">>
           aws == <<"calico", "aws tags", "aws region", "aws network", "aws lb", "aws cp tags",
               "aws identityref", "aws cp iam", "aws cp instancetype", "aws cp ami", "aws cp securitygroups",
               "aws cp volumes", "aws cp placementgroup", "aws cp placementgroupnfd">>
           awsWorker == <<"aws w tags", "aws w iam", "aws w instancetype", "aws w ami",
               "aws w securitygroups", "aws w volumes", "aws w placementgroup", "aws w placementgroupnfd">>
           docker == <<"cp customimage">>
           nutanixWorker == <<"machinedetails">>
           dockerWorker == <<"customimage">>
<1>1. MetaMutators \in Seq(A)
  BY DEF MetaMutators, MutatorNames, KubeadmNames
<1>2. ControlPlaneMetaMutators \in Seq(B) /\ WorkerMetaMutators \in Seq(B)
  BY DEF ControlPlaneMetaMutators, WorkerMetaMutators, MutatorNames, KubeadmNames
<1>3. nutanix \in Seq(A) /\ docker \in Seq(A)
  BY DEF MutatorNames, KubeadmNames
<1>4. nutanixWorker \in Seq(B) /\ dockerWorker \in Seq(B)
  BY DEF MutatorNames, KubeadmNames
<1>5. aws \in Seq(A)
  BY DEF MutatorNames, KubeadmNames, AWSNames
<1>6. awsWorker \in Seq(B)
  BY DEF MutatorNames, KubeadmNames, AWSNames
<1>7. EKSMetaPatchHandler \in Seq(A)
  BY DEF MutatorNames, KubeadmNames, AWSNames, EKSMetaPatchHandler
<1>8. MetaWorkerPatchHandler("eks") \in Seq(B)
  BY DEF MutatorNames, KubeadmNames, AWSNames, MetaWorkerPatchHandler
<1>9. /\ NutanixMetaPatchHandler = nutanix \o MetaMutators \o ControlPlaneMetaMutators
      /\ AWSMetaPatchHandler = aws \o MetaMutators \o ControlPlaneMetaMutators
      /\ DockerMetaPatchHandler = docker \o MetaMutators \o ControlPlaneMetaMutators
      /\ MetaWorkerPatchHandler("nutanix") = nutanixWorker \o WorkerMetaMutators
      /\ MetaWorkerPatchHandler("aws") = awsWorker \o WorkerMetaMutators
      /\ MetaWorkerPatchHandler("docker") = dockerWorker \o WorkerMetaMutators
  BY DEF NutanixMetaPatchHandler, AWSMetaPatchHandler, DockerMetaPatchHandler, MetaWorkerPatchHandler
<1>10. /\ MetaPatchHandler("nutanix") = NutanixMetaPatchHandler /\ MetaPatchHandler("aws") = AWSMetaPatchHandler
       /\ MetaPatchHandler("docker") = DockerMetaPatchHandler /\ MetaPatchHandler("eks") = EKSMetaPatchHandler
  BY DEF MetaPatchHandler
<1> HIDE DEF nutanix, aws, awsWorker, docker, nutanixWorker, dockerWorker, A, B
<1>11. A \subseteq M /\ B \subseteq M
  BY DEF A, B
<1>12. ASSUME NEW x, NEW y, x \in Seq(A), y \in Seq(B),
              MetaPatchHandler(provider) = x \o MetaMutators \o ControlPlaneMetaMutators,
              MetaWorkerPatchHandler(provider) = y \o WorkerMetaMutators
       PROVE  \E a, b : /\ MetaPatchHandler(provider) \o MetaWorkerPatchHandler(provider) = a \o b
                        /\ a \in Seq(A) /\ b \in Seq(B)
  <2> DEFINE a == x \o MetaMutators
             w == y \o WorkerMetaMutators
             b == ControlPlaneMetaMutators \o w
  <2>1. a \in Seq(A)
    BY <1>1, <1>12, ConcatProperties
  <2>2. w \in Seq(B)
    BY <1>2, <1>12, ConcatProperties
  <2>3. b \in Seq(B)
    BY <1>2, <2>2, ConcatProperties
  <2> HIDE DEF a, w
  <2>4. a \in Seq(M) /\ ControlPlaneMetaMutators \in Seq(M) /\ w \in Seq(M)
    BY <1>2, <1>11, <2>1, <2>2, SeqMonotonic
  <2>5. (a \o ControlPlaneMetaMutators) \o w = a \o b
    BY <2>4, ConcatAssociative
  <2>6. MetaPatchHandler(provider) \o MetaWorkerPatchHandler(provider) = a \o b
    BY <1>12, <2>5 DEF a, w
  <2> HIDE DEF b
  <2> QED BY <2>1, <2>3, <2>6
<1>13. \E a, b : /\ MetaPatchHandler(provider) \o MetaWorkerPatchHandler(provider) = a \o b
                 /\ a \in Seq(A) /\ b \in Seq(B)
  <2>1. CASE provider = "nutanix"
    BY <1>3, <1>4, <1>9, <1>10, <1>12, <2>1
  <2>2. CASE provider = "aws"
    BY <1>5, <1>6, <1>9, <1>10, <1>12, <2>2
  <2>3. CASE provider = "docker"
    BY <1>3, <1>4, <1>9, <1>10, <1>12, <2>3
  <2>4. CASE provider = "eks"
    BY <1>7, <1>8, <1>10, <2>4
  <2> QED BY <2>1, <2>2, <2>3, <2>4 DEF Providers
<1> QED BY <1>13, ListOf DEF A, B

\* The elements of a concatenation.
LEMMA ConcatIs ==
    ASSUME NEW s, NEW t, IsList(s), IsList(t)
    PROVE  /\ Len(s) \in Nat /\ Len(t) \in Nat /\ Len(s \o t) = Len(s) + Len(t)
           /\ \A i \in 1 .. Len(s \o t) : (s \o t)[i] = IF i <= Len(s) THEN s[i] ELSE t[i - Len(s)]
<1> DEFINE A == Range(s) \cup Range(t)
<1>1. s \in Seq(A) /\ t \in Seq(A)
  BY SeqMonotonic DEF IsList
<1> HIDE DEF A
<1> QED BY <1>1, ConcatProperties, ListFacts

\* The two handlers, one after the other.
Handlers(provider) == MetaPatchHandler(provider) \o MetaWorkerPatchHandler(provider)
LEMMA HandlersSorted ==
    ASSUME NEW provider \in Providers
    PROVE  /\ IsList(Handlers(provider)) /\ Range(Handlers(provider)) \subseteq MutatorNames
           /\ \E k \in Nat : \A n \in 1 .. Len(Handlers(provider)) :
                Handlers(provider)[n] # (IF n <= k THEN "sortextraargs" ELSE "podsecurityadmission")
<1>1. PICK a, b : /\ Handlers(provider) = a \o b
                  /\ IsList(a) /\ Range(a) \subseteq MutatorNames \ {"sortextraargs"}
                  /\ IsList(b) /\ Range(b) \subseteq MutatorNames \ {"podsecurityadmission"}
  BY HandlerNames DEF Handlers
<1> DEFINE names == a \o b
           k == Len(a)
<1>2. IsList(names) /\ Range(names) \subseteq MutatorNames /\ k \in Nat
  BY <1>1, ConcatList, ListFacts
<1>3. ASSUME NEW n \in 1 .. Len(names)
      PROVE  names[n] # (IF n <= k THEN "sortextraargs" ELSE "podsecurityadmission")
  <2>1. Len(a) \in Nat /\ Len(b) \in Nat /\ Len(names) = Len(a) + Len(b) /\ names[n] = IF n <= k THEN a[n] ELSE b[n - k]
    BY <1>1, <1>3, ConcatIs
  <2>2. CASE n <= k
    <3>1. a[n] \in Range(a)
      BY <1>1, <2>1, <2>2, ListFacts
    <3> QED BY <1>1, <2>1, <2>2, <3>1
  <2>3. CASE ~(n <= k)
    <3>1. b[n - k] \in Range(b)
      BY <1>1, <2>1, <2>3, ListFacts
    <3> QED BY <1>1, <2>1, <2>3, <3>1
  <2> QED BY <2>2, <2>3
<1> HIDE DEF names, k
<1> QED BY <1>1, <1>2, <1>3 DEF names

\* So is what the handlers of a provider make.
LEMMA GeneratedMade ==
    ASSUME NEW c, NEW t0, NEW t, ContextOK(c), c.provider \in Providers, Made(TRUE, c, t0, t)
    PROVE  Made(FALSE, c, t0, GeneratePatches(c, t))
<1>1. IsList(Handlers(c.provider)) /\ Range(Handlers(c.provider)) \subseteq MutatorNames
  BY HandlersSorted
<1>2. PICK k \in Nat : \A n \in 1 .. Len(Handlers(c.provider)) :
        Handlers(c.provider)[n] # (IF n <= k THEN "sortextraargs" ELSE "podsecurityadmission")
  BY HandlersSorted
<1>3. Made(FALSE, c, t0, RunMutators(Handlers(c.provider), c, t))
  BY <1>1, <1>2, RunMade
<1> QED BY <1>3 DEF GeneratePatches, Handlers

\* The templates of the classes are where the mutators start; those of EKS are not kubeadm's.
LEMMA ClassTemplates ==
    ASSUME NEW c, NEW provider, NEW pool
    PROVE  /\ Made(TRUE, c, ControlPlaneTemplate(provider), ControlPlaneTemplate(provider))
           /\ Made(TRUE, c, BootstrapTemplate(provider, pool), BootstrapTemplate(provider, pool))
           /\ Made(TRUE, c, InfrastructureTemplate(provider), InfrastructureTemplate(provider))
           /\ provider = "eks" => ~Kubeadm(ControlPlaneTemplate(provider)) /\ ~Kubeadm(BootstrapTemplate(provider, pool))
<1> DEFINE Class(t) == Made(TRUE, c, t, t)
<1>1. ASSUME NEW kind, NEW holder, NEW p PROVE Class(Template(kind, holder, p))
  <2> DEFINE t == Template(kind, holder, p)
  <2>1. /\ DOMAIN t = Fields /\ t.files = <<>> /\ DOMAIN t.fields = {} /\ t.args = [l \in ArgLists |-> <<>>]
    BY DEF Template, Fields, NoVariables
  <2> HIDE DEF t
  <2>2. FilesOK(c, t, t.files) /\ FieldsOK(c, t, t.fields)
    BY <2>1, FilesLiteral DEF FieldsOK, Has
  <2>3. ArgsOK(t.args)
    BY <2>1, Literals DEF ArgsOK, ArgLists
  <2> QED BY <2>1, <2>2, <2>3 DEF Made, t
<1>2. ASSUME NEW t, NEW u, Class(t), DOMAIN u = Fields, u.kind = t.kind, u.holder = t.holder, u.fields = t.fields,
             FilesOK(c, t, u.files), ArgsOK(u.args)
      PROVE  Class(u)
  <2>1. /\ (Kubeadm(u) <=> Kubeadm(t)) /\ (ControlPlane(u) <=> ControlPlane(t)) /\ (NutanixCluster(u) <=> NutanixCluster(t))
    BY <1>2 DEF Kubeadm, ControlPlane, MatchesControlPlane, WorkersKubeadmConfigTemplate, WorkersConfigTemplate,
                MatchesMachineDeploymentClass, NutanixCluster, InfrastructureCluster, MatchesInfrastructure
  <2>2. Sources(c, u) = Sources(c, t) /\ KubeletOf(c, u) = KubeletOf(c, t)
    BY <2>1 DEF Sources, KubeletOf
  <2>3. FilesOK(c, u, u.files)
    BY <1>2, <2>2 DEF FilesOK, FileOK
  <2>4. FieldsOK(c, u, u.fields)
    BY <1>2, <2>1 DEF Made, FieldsOK
  <2> QED BY <1>2, <2>3, <2>4 DEF Made
<1>3. \A t, p1, b1, p2, b2 : p1 \notin NodeFiles /\ p2 \notin NodeFiles => FilesOK(c, t, <<File(p1, b1), File(p2, b2)>>)
  BY FileSources, FilesLiteral
<1>4. \A t : FilesOK(c, t, KubeletDefaults)
  BY <1>3, OtherPaths DEF KubeletDefaults
<1>5. Class(KubeadmConfigTemplate(provider, pool))
  <2> DEFINE t == Template("KubeadmConfigTemplate", "mdBootstrapRef", pool)
             u == KubeadmConfigTemplate(provider, pool)
             args == [t.args EXCEPT !["kubeletJoin"] = External(provider)]
  <2>1. Class(t)
    BY <1>1
  <2>2. ArgsOK(args)
    <3>1. args["apiServer"] = t.args["apiServer"] /\ DOMAIN args = DOMAIN t.args
      BY DEF Template, ArgLists
    <3> HIDE DEF args, t
    <3> QED BY <2>1, <3>1 DEF Made, ArgsOK
  <2> HIDE DEF args
  <2>3. /\ DOMAIN u = Fields /\ u.kind = t.kind /\ u.holder = t.holder /\ u.fields = t.fields
        /\ u.files = KubeletDefaults /\ u.args = args
    BY DEF KubeadmConfigTemplate, Template, Fields, args
  <2> HIDE DEF t, u
  <2>4. Class(u)
    BY <1>2, <1>4, <2>1, <2>2, <2>3
  <2> QED BY <2>4 DEF u
<1>6. Class(KubeadmControlPlaneTemplate(provider))
  <2> DEFINE t == Template("KubeadmControlPlaneTemplate", "controlPlaneRef", "none")
             u == KubeadmControlPlaneTemplate(provider)
             vip == IF provider = "nutanix" THEN <<File(KubeVIP, <<"kube-vip", 0, 0>>)>> ELSE <<>>
             last == <<File(Admission, <<"EventRateLimit">>), File(EventRateLimit, <<"limits">>)>>
             files == vip \o KubeletDefaults \o last
             plugins == <<"DenyServiceExternalIPs", "EventRateLimit", "NodeRestriction">>
             api == << <<"profiling", "false">>, <<"service-account-lookup", "true">>,
                       <<"enable-admission-plugins", plugins>>,
                       <<"admission-control-config-file", Admission>>, <<"tls-cipher-suites", "secure">> >>
             args == [apiServer |-> api,
                 controllerManager |-> External(provider) \o << <<"terminated-pod-gc-threshold", "10000">>,
                      <<"profiling", "false">>, <<"tls-min-version", "TLS1.2">> >>,
                 scheduler |-> << <<"profiling", "false">>, <<"tls-min-version", "TLS1.2">> >>,
                 etcd |-> <<>>, kubeletInit |-> External(provider), kubeletJoin |-> External(provider)]
             volumes == << <<"admission-config", Admission>>, <<"eventratelimit-config", EventRateLimit>> >>
  <2>1. Class(t)
    BY <1>1
  <2>2. FileOK(c, t, File(KubeVIP, <<"kube-vip", 0, 0>>))
    <3>1. KubeVIP # KubeletPatch /\ KubeVIP # ComputeReservations
      BY DEF KubeVIP, KubeletPatch, ComputeReservations
    <3> QED BY <3>1 DEF FileOK, File, Sources
  <2>3. FilesOK(c, t, vip) /\ FilesOK(c, t, last)
    BY <1>3, <2>2, FilesLiteral, OtherPaths
  <2> HIDE DEF vip, last
  <2>4. FilesOK(c, t, files)
    BY <1>4, <2>3, FilesConcat
  <2>5. IsList(api) /\ \A x \in Range(api) : x[1] = AdmissionArg => x[2] = Admission
    <3> DEFINE a1 == <<"profiling", "false">>
               a2 == <<"service-account-lookup", "true">>
               a3 == <<"enable-admission-plugins", plugins>>
               a4 == <<"admission-control-config-file", Admission>>
               a5 == <<"tls-cipher-suites", "secure">>
    <3>1. /\ a1[1] # AdmissionArg /\ a2[1] # AdmissionArg /\ a3[1] # AdmissionArg /\ a5[1] # AdmissionArg
          /\ a4[2] = Admission
      BY DEF AdmissionArg
    <3> HIDE DEF a1, a2, a3, a4, a5
    <3>2. <<a1, a2, a3, a4, a5>> \in Seq({a1, a2, a3, a4, a5}) /\ Range(<<a1, a2, a3, a4, a5>>) = {a1, a2, a3, a4, a5}
      BY DEF Range
    <3>3. /\ IsList(<<a1, a2, a3, a4, a5>>)
          /\ \A x \in Range(<<a1, a2, a3, a4, a5>>) : x[1] = AdmissionArg => x[2] = Admission
      BY <3>1, <3>2 DEF IsList
    <3> QED BY <3>3, Zenon DEF a1, a2, a3, a4, a5
  <2> HIDE DEF api, files, volumes
  <2>6. args["apiServer"] = api /\ "apiServer" \in DOMAIN args
    OBVIOUS
  <2> HIDE DEF args
  <2>7. ArgsOK(args)
    BY <2>5, <2>6 DEF ArgsOK
  <2>8. u = [t EXCEPT !.args = args, !.volumes = volumes, !.files = files]
    BY Zenon DEF KubeadmControlPlaneTemplate, vip, last, api, files, volumes, args, u, t, plugins
  <2>9. DOMAIN t = Fields
    BY <2>1 DEF Made
  <2> HIDE DEF u, t
  <2>10. /\ DOMAIN u = Fields /\ u.kind = t.kind /\ u.holder = t.holder /\ u.fields = t.fields
         /\ u.files = files /\ u.args = args
    BY <2>8, <2>9 DEF Fields
  <2>11. Class(u)
    BY <1>2, <2>1, <2>4, <2>7, <2>10
  <2> QED BY <2>11 DEF u
<1>7. Class(ManagedControlPlaneTemplate)
  <2> DEFINE t == Template("AWSManagedControlPlaneTemplate", "controlPlaneRef", "none")
             fields == With(t.fields, "kubeProxy.disable", TRUE)
  <2>1. Class(t)
    BY <1>1
  <2>2. FieldsOK(c, t, fields)
    BY <2>1, FieldsWritten DEF Made, Guarded
  <2> HIDE DEF fields, t
  <2> DEFINE u == [t EXCEPT !.fields = fields]
  <2>3. /\ DOMAIN u = Fields /\ u.kind = t.kind /\ u.holder = t.holder /\ u.fields = fields
        /\ u.files = t.files /\ u.args = t.args
    BY <2>1 DEF Made, Fields
  <2>4. u = ManagedControlPlaneTemplate
    BY DEF ManagedControlPlaneTemplate, Put, fields, t
  <2> HIDE DEF u
  <2>5. /\ (Kubeadm(u) <=> Kubeadm(t)) /\ (ControlPlane(u) <=> ControlPlane(t)) /\ (NutanixCluster(u) <=> NutanixCluster(t))
    BY <2>3 DEF Kubeadm, ControlPlane, MatchesControlPlane, WorkersKubeadmConfigTemplate, WorkersConfigTemplate,
                MatchesMachineDeploymentClass, NutanixCluster, InfrastructureCluster, MatchesInfrastructure
  <2>6. Sources(c, u) = Sources(c, t) /\ KubeletOf(c, u) = KubeletOf(c, t)
    BY <2>5 DEF Sources, KubeletOf
  <2>7. FilesOK(c, u, u.files) /\ FieldsOK(c, u, u.fields)
    BY <2>1, <2>2, <2>3, <2>5, <2>6 DEF Made, FilesOK, FileOK, FieldsOK
  <2> QED BY <2>1, <2>3, <2>4, <2>7 DEF Made
<1>8. provider = "eks" => ~Kubeadm(ControlPlaneTemplate(provider)) /\ ~Kubeadm(BootstrapTemplate(provider, pool))
  BY DEF ControlPlaneTemplate, BootstrapTemplate, ManagedControlPlaneTemplate, Put, Template, Kubeadm, ControlPlane,
         WorkersKubeadmConfigTemplate, WorkersConfigTemplate
<1>9. /\ Class(Template("NodeadmConfigTemplate", "mdBootstrapRef", pool))
      /\ Class(InfrastructureTemplate(provider))
  BY <1>1 DEF InfrastructureTemplate
<1> QED BY <1>5, <1>6, <1>7, <1>8, <1>9 DEF ControlPlaneTemplate, BootstrapTemplate

------------------------------------------------------------------------------
(* The answer to a call *)

\* A set of natural numbers has a least one.
LEMMA LeastOf == ASSUME NEW I, I \subseteq Nat, I # {} PROVE Min(I) \in I
<1>1. PICK x \in I : \A y \in I : ~ (<<y, x>> \in OpToRel(<, Nat))
  BY NatLessThanWellFounded, WFMin
<1>2. ASSUME NEW y \in I PROVE x <= y
  <2>1. x \in Nat /\ y \in Nat
    OBVIOUS
  <2>2. ~(y < x)
    BY <1>1, <2>1 DEF OpToRel
  <2> QED BY <2>1, <2>2
<1>3. \E x0 \in I : \A y \in I : x0 <= y
  BY <1>2
<1> QED BY <1>3 DEF Min

\* Where a program has a step.
LEMMA Places ==
    ASSUME NEW x, IsCall(x), NEW op, NEW t
    PROVE  LET k == Place(x, op, t) IN
           \/ k = 0 /\ [op |-> op, t |-> t] \notin Range(ProgramOf(x))
           \/ k \in 1 .. Len(ProgramOf(x)) /\ ProgramOf(x)[k] = [op |-> op, t |-> t]
<1> DEFINE p == ProgramOf(x)
           I == {k \in 1 .. Len(p) : p[k] = [op |-> op, t |-> t]}
<1>1. Len(p) \in Nat /\ DOMAIN p = 1 .. Len(p)
  BY ProgramOfCall
<1>2. Place(x, op, t) = IF I # {} THEN Min(I) ELSE 0
  BY DEF Place, SelectInSeq
<1>3. I \subseteq Nat
  BY <1>1
<1>4. I = {} => [op |-> op, t |-> t] \notin Range(p)
  BY <1>1 DEF Range
<1>5. CASE I = {}
  BY <1>2, <1>4, <1>5
<1>6. CASE I # {}
  <2>1. Min(I) \in I
    <3> HIDE DEF I
    <3> QED BY <1>3, <1>6, LeastOf
  <2>2. Place(x, op, t) \in I
    BY <1>2, <1>6, <2>1
  <2> QED BY <2>2
<1> QED BY <1>5, <1>6

\* What a call that is done has read is one of the possibilities.
LEMMA ReadsPossible ==
    ASSUME NEW x, IsCall(x), Done(x), NEW st, NEW gen, \A k \in 1 .. Len(x.reads) : Backed(x, k, st, gen), NEW t
    PROVE  ReadsOf(x, t) \in PossibleReads(Table[x.spec], ProgramOf(x), t)
<1> DEFINE p == ProgramOf(x)
           R == Relevant(p, t)
           V == {k \in R : p[k].op \in {"virtualip", "coredns"}}
           s == Table[x.spec]
           v == [k \in V |-> x.reads[k]]
           r == [k \in R \ V |-> x.reads[k]]
<1>1. R \subseteq 1 .. Len(x.reads)
  BY ProgramOfCall DEF Relevant, Done
<1>2. \A k \in R : p[k].op \in {"virtualip", "coredns", "credentials", "mirrors"}
  BY DEF Relevant
<1>3. \A k \in V : x.reads[k] \in Versions
  BY <1>1 DEF Backed
<1>4. \A k \in R \ V : x.reads[k] \in CompleteReads(s)
  BY <1>1, <1>2 DEF Backed
<1>5. v \in [V -> Versions] /\ r \in [R \ V -> CompleteReads(s)]
  BY <1>3, <1>4
<1>6. ReadsOf(x, t) = [k \in R |-> IF k \in V THEN v[k] ELSE r[k]]
  BY DEF ReadsOf
<1>7. PossibleReads(s, p, t) =
        {[k \in R |-> IF k \in V THEN a[k] ELSE b[k]] : a \in [V -> Versions], b \in [R \ V -> CompleteReads(s)]}
  BY DEF PossibleReads
<1> HIDE DEF v, r, V, R, p, s
<1> QED BY <1>5, <1>6, <1>7 DEF p, s

\* The call that stands for all those that read the same for the templates t.
Standing(x, t) == CallWith(x.spec, x.registry, x.cp, ReadsOf(x, t))
\* What the table of templates holds for an answer.
LEMMA TemplateIs ==
    ASSUME NEW x, IsCall(x), Done(x), NEW st, NEW gen, \A k \in 1 .. Len(x.reads) : Backed(x, k, st, gen),
           NEW t \in 0 .. Len(Table[x.spec].pools)
    PROVE  NodeTemplateOf(x, t) = NodeTemplate(Standing(x, t), t)
<1> DEFINE P(i, b, u) == Versions \X PossibleReads(Table[i], Programs[i][b], u)
           last(i, b, u) == [k \in P(i, b, u) |-> NodeTemplate(CallWith(i, b, k[1], k[2]), u)]
           key == <<x.cp, ReadsOf(x, t)>>
           i == x.spec
           b == x.registry
<1>1. NodeTemplates = [j \in DOMAIN Table |-> Tabulated([a \in BOOLEAN |->
                         Tabulated([u \in 0 .. Len(Table[j].pools) |-> Tabulated(last(j, a, u))])])]
  BY Tables, Zenon DEF NodeTemplates
<1>2. i \in DOMAIN Table /\ b \in BOOLEAN /\ key \in P(i, b, t)
  BY ReadsPossible DEF IsCall, ProgramOf
<1>3. key[1] = x.cp /\ key[2] = ReadsOf(x, t)
  OBVIOUS
<1> HIDE DEF last, P, key
<1>4. NodeTemplates[i] = [a \in BOOLEAN |-> Tabulated([u \in 0 .. Len(Table[i].pools) |-> Tabulated(last(i, a, u))])]
  BY ONLY <1>1, <1>2, Tables, Zenon
<1>5. NodeTemplates[i][b] = [u \in 0 .. Len(Table[i].pools) |-> Tabulated(last(i, b, u))]
  BY ONLY <1>2, <1>4, Tables, Zenon
<1>6. NodeTemplates[i][b][t] = last(i, b, t)
  BY ONLY <1>5, t \in 0 .. Len(Table[i].pools), Tables, Zenon
<1>7. last(i, b, t)[key] = NodeTemplate(CallWith(i, b, key[1], key[2]), t)
  BY <1>2, Zenon DEF last
<1>8. NodeTemplateOf(x, t) = last(i, b, t)[key]
  BY <1>6, Zenon DEF NodeTemplateOf, key
<1> QED BY <1>3, <1>7, <1>8 DEF Standing

\* The credentials mutator looks at these parts of its context only.
LEMMA CredentialsAlike ==
    ASSUME NEW c, NEW d, c.v6 = d.v6, c.secrets = d.secrets,
           ImageRegistries(c) = ImageRegistries(d), GlobalMirror(c) = GlobalMirror(d)
    PROVE  CredentialsFail(c) = CredentialsFail(d) /\ GeneratesSecret(c) = GeneratesSecret(d)
<1>1. ProviderConfigs(c) = ProviderConfigs(d)
  BY Zenon DEF ProviderConfigs
<1>2. DeclaredRegistries(c) = DeclaredRegistries(d)
  BY <1>1, Zenon DEF DeclaredRegistries
<1>3. Configs(c) = Configs(d)
  BY <1>2, Zenon DEF Configs, RegistriesThatNeedConfiguration, V6RegistriesThatNeedConfiguration
<1>4. CredentialsFail(c) = CredentialsFail(d)
  BY <1>1, Zenon DEF CredentialsFail
<1> QED BY <1>3, <1>4, Zenon DEF GeneratesSecret

\* The previous version generates nothing for a Cluster that declares no registry.
LEMMA NothingDeclared ==
    ASSUME NEW c, c.v6, ImageRegistries(c) = <<>>, GlobalMirror(c) = <<>>
    PROVE  ~GeneratesSecret(c)
<1> DEFINE I == ImageRegistries(c)
           G == GlobalMirror(c)
           P == [i \in DOMAIN I |-> ProviderConfig(c.secrets, I[i], FALSE)]
           Q == [i \in DOMAIN G |-> ProviderConfig(c.secrets, G[i], TRUE)]
<1>1. IsList(I) /\ IsList(G) /\ DOMAIN I = {} /\ DOMAIN G = {}
  BY Literals
<1>2. IsList(P) /\ IsList(Q) /\ DOMAIN P = {} /\ DOMAIN Q = {}
  BY <1>1, MapList
<1>3. ProviderConfigs(c) = P \o Q
  BY DEF ProviderConfigs
<1> HIDE DEF P, Q
<1>4. Range(ProviderConfigs(c)) = {} /\ IsList(ProviderConfigs(c))
  BY <1>2, <1>3, ConcatList DEF Range
<1> DEFINE K == {i \in DOMAIN ProviderConfigs(c) : NeedsConfiguration(ProviderConfigs(c)[i])}
<1>5. DeclaredRegistries(c) = Keep(ProviderConfigs(c), K)
  BY DEF DeclaredRegistries
<1>6. DOMAIN ProviderConfigs(c) = {}
  BY <1>4 DEF Range
<1> HIDE DEF K
<1>7. Range(DeclaredRegistries(c)) = {}
  BY <1>4, <1>5, <1>6, KeepList
<1>8. DOMAIN Configs(c) = {}
  BY <1>7 DEF Configs, V6RegistriesThatNeedConfiguration, Range
<1> QED BY <1>8 DEF GeneratesSecret, ConfigsRequireStaticCredentials

\* The context of a request is what the mutators expect, whatever the Secrets hold.
LEMMA RequestContext ==
    ASSUME NEW i \in DOMAIN Table, NEW registry \in BOOLEAN, NEW c,
           c.cfg = Defaults[i][registry].cfg, DOMAIN c.cas \subseteq SecretNames
    PROVE  ContextOK(c) /\ Defaults[i][registry].provider \in Providers
<1> DEFINE s == Table[i]
           d == Defaults[i][registry]
           declared == OrElse(s.cfg, "imageRegistries", <<>>)
           mirror == IF Has(s.cfg, "globalImageRegistryMirror") THEN <<s.cfg["globalImageRegistryMirror"]>> ELSE <<>>
<1>1. WellFormed(s) /\ Keeps(s, d)
  BY TableFacts
<1>2. d.provider \in Providers
  BY <1>1 DEF WellFormed, Keeps, Providers
<1>3. ImageRegistries(c) = declared /\ GlobalMirror(c) = mirror
  <2>1. \A n \in {"imageRegistries", "globalImageRegistryMirror"} :
          (Has(d.cfg, n) <=> Has(s.cfg, n)) /\ (Has(s.cfg, n) => d.cfg[n] = s.cfg[n])
    BY <1>1 DEF Keeps, Rewritten, Has
  <2> HIDE DEF s, d
  <2> QED BY <2>1 DEF ImageRegistries, GlobalMirror, OrElse, d
<1>4. IsList(declared) /\ IsList(mirror)
  BY <1>1, Literals DEF WellFormed
<1>5. DeclaredIn(s) = declared \o mirror
  BY DEF DeclaredIn
<1>6. \A k \in DOMAIN DeclaredIn(s) : CAFilePath(DeclaredIn(s)[k].url.host) \notin NodeFiles
  BY <1>1 DEF WellFormed
<1> HIDE DEF declared, mirror, s
<1>7. IsList(DeclaredIn(s)) /\ Range(DeclaredIn(s)) = Range(declared) \cup Range(mirror)
  BY <1>4, <1>5, ConcatList
<1>8. \A r \in Range(declared) \cup Range(mirror) : CAFilePath(r.url.host) \notin NodeFiles
  BY <1>6, <1>7 DEF Range
<1> QED BY <1>2, <1>3, <1>4, <1>8 DEF ContextOK

\* What the call that stands for x has read, as far as the templates t depend on it.
LEMMA StandingReads ==
    ASSUME NEW x, IsCall(x), Done(x), NEW st, NEW gen, \A k \in 1 .. Len(x.reads) : Backed(x, k, st, gen), NEW t
    PROVE  LET y == Standing(x, t) IN
           /\ SpecOf(y) = SpecOf(x) /\ y.cp = x.cp /\ Len(x.reads) = Len(ProgramOf(x))
           /\ \A op \in {"virtualip", "coredns"} :
                LET k == Place(x, op, 0) IN
                VersionSeen(y, op) = IF k \notin 1 .. Len(x.reads) THEN 0
                                     ELSE IF t = 0 THEN x.reads[k] ELSE FirstRead(x.spec, x.registry, k)
           /\ \A op \in {"credentials", "mirrors"} :
                LET k == Place(x, op, t) IN
                /\ k \in 1 .. Len(x.reads) =>
                     SecretsRead(y, op, t) = Present(x.reads[k]) /\ x.reads[k] \in CompleteReads(Table[x.spec])
                /\ k \notin 1 .. Len(x.reads) => SecretsRead(y, op, t) = NoVariables
<1> DEFINE y == Standing(x, t)
           p == ProgramOf(x)
           r == ReadsOf(x, t)
           q == Programs[x.spec][x.registry]
<1>1. /\ y.spec = x.spec /\ y.registry = x.registry /\ y.cp = x.cp
      /\ y.reads = [k \in DOMAIN q |-> IF k \in DOMAIN r THEN r[k] ELSE FirstRead(x.spec, x.registry, k)]
  BY DEF Standing, CallWith
<1>2. q = p /\ DOMAIN p = 1 .. Len(p) /\ Len(x.reads) = Len(p)
  BY ProgramOfCall DEF ProgramOf, Done
<1>3. DOMAIN r = Relevant(p, t) /\ \A k \in Relevant(p, t) : r[k] = x.reads[k]
  BY DEF ReadsOf
<1> HIDE DEF y, r, q
<1>4. SpecOf(y) = SpecOf(x) /\ ProgramOf(y) = p
  BY <1>1 DEF SpecOf, ProgramOf
<1>5. DOMAIN y.reads = 1 .. Len(p)
      /\ \A k \in 1 .. Len(p) : y.reads[k] = IF k \in Relevant(p, t) THEN x.reads[k] ELSE FirstRead(x.spec, x.registry, k)
  BY <1>1, <1>2, <1>3
<1>6. \A op, u : Place(y, op, u) = Place(x, op, u)
  BY <1>4 DEF Place
<1>7. ASSUME NEW op \in {"virtualip", "coredns"}
      PROVE  LET k == Place(x, op, 0) IN
             VersionSeen(y, op) = IF k \notin 1 .. Len(p) THEN 0
                                  ELSE IF t = 0 THEN x.reads[k] ELSE FirstRead(x.spec, x.registry, k)
  <2> DEFINE k == Place(x, op, 0)
  <2>1. k = 0 \/ (k \in 1 .. Len(p) /\ p[k] = [op |-> op, t |-> 0])
    BY Places
  <2>2. VersionSeen(y, op) = IF k \in 1 .. Len(p) THEN y.reads[k] ELSE 0
    BY <1>5, <1>6 DEF VersionSeen, HasRead
  <2>3. ASSUME k \in 1 .. Len(p) PROVE k \in Relevant(p, t) <=> t = 0
    <3>1. p[k].op = op /\ p[k].t = 0
      BY <2>1, <2>3
    <3> QED BY <1>2, <2>3, <3>1 DEF Relevant
  <2> HIDE DEF k
  <2>4. VersionSeen(y, op) = IF k \notin 1 .. Len(p) THEN 0
                             ELSE IF t = 0 THEN x.reads[k] ELSE FirstRead(x.spec, x.registry, k)
    BY <1>5, <2>2, <2>3
  <2> QED BY <2>4 DEF k
<1>8. ASSUME NEW op \in {"credentials", "mirrors"}
      PROVE  LET k == Place(x, op, t) IN
             /\ k \in 1 .. Len(p) =>
                  SecretsRead(y, op, t) = Present(x.reads[k]) /\ x.reads[k] \in CompleteReads(Table[x.spec])
             /\ k \notin 1 .. Len(p) => SecretsRead(y, op, t) = NoVariables
  <2> DEFINE k == Place(x, op, t)
  <2>1. k = 0 \/ (k \in 1 .. Len(p) /\ p[k] = [op |-> op, t |-> t])
    BY Places
  <2>2. ASSUME k \in 1 .. Len(p)
        PROVE  SecretsRead(y, op, t) = Present(x.reads[k]) /\ x.reads[k] \in CompleteReads(Table[x.spec])
    <3>1. p[k].op = op /\ p[k].t = t
      BY <2>1, <2>2
    <3>2. k \in Relevant(p, t) /\ k \in DOMAIN y.reads
      BY <1>2, <1>5, <2>2, <3>1 DEF Relevant
    <3>3. x.reads[k] \in CompleteReads(Table[x.spec])
      BY <1>2, <2>2, <3>1 DEF Backed
    <3>4. SecretsRead(y, op, t) = Present(y.reads[k])
      BY <1>6, <3>2 DEF SecretsRead, HasRead
    <3> QED BY <1>5, <2>2, <3>2, <3>3, <3>4
  <2>3. ASSUME k \notin 1 .. Len(p) PROVE SecretsRead(y, op, t) = NoVariables
    BY <1>5, <1>6, <2>3 DEF SecretsRead, HasRead
  <2> QED BY <2>2, <2>3
<1> QED BY <1>1, <1>2, <1>4, <1>7, <1>8 DEF y

\* The context of the templates t, as far as the files depend on it.
LEMMA ContextIs ==
    ASSUME NEW x, IsCall(x), Done(x), NEW st, NEW gen, \A k \in 1 .. Len(x.reads) : Backed(x, k, st, gen),
           NEW t \in 0 .. Len(Table[x.spec].pools)
    PROVE  LET c == Context(Standing(x, t), t)
               s == SpecOf(x)
               k == Place(x, "credentials", t)
           IN /\ c.provider = s.provider /\ c.provider \in Providers /\ c.v6 = s.v6 /\ c.cfg = s.cfg
              /\ ContextOK(c)
              /\ k \in 1 .. Len(x.reads) => c.secrets = Present(x.reads[k])
<1> DEFINE y == Standing(x, t)
           p == ProgramOf(x)
           c == Context(y, t)
<1>1. SpecOf(y) = SpecOf(x) /\ Len(x.reads) = Len(p)
  BY StandingReads
<1>2. /\ c.provider = SpecOf(y).provider /\ c.v6 = SpecOf(y).v6 /\ c.cfg = SpecOf(y).cfg
      /\ c.secrets = SecretsRead(y, "credentials", t) /\ c.cas = SecretsRead(y, "mirrors", t)
  BY DEF Context, ContextOf
<1>3. ASSUME NEW op \in {"credentials", "mirrors"}
      PROVE  LET k == Place(x, op, t) IN
             /\ k \in 1 .. Len(p) =>
                  SecretsRead(y, op, t) = Present(x.reads[k]) /\ x.reads[k] \in CompleteReads(Table[x.spec])
             /\ k \notin 1 .. Len(p) => SecretsRead(y, op, t) = NoVariables
  BY <1>1, StandingReads
<1> HIDE DEF y, c
<1>4. WellFormed(Table[x.spec]) /\ Keeps(Table[x.spec], SpecOf(x))
  BY TableFacts DEF IsCall, SpecOf
<1>5. DOMAIN c.cas \subseteq SecretNames
  <2> DEFINE k == Place(x, "mirrors", t)
  <2>1. CASE k \in 1 .. Len(p)
    <3>1. c.cas = Present(x.reads[k]) /\ x.reads[k] \in SecretReads(Table[x.spec])
      BY <1>2, <1>3, <2>1 DEF CompleteReads
    <3>2. DOMAIN Present(x.reads[k]) \subseteq NamedSecrets(Table[x.spec])
      BY <1>4, <3>1, PresentUsers
    <3> QED BY <1>4, <3>1, <3>2 DEF WellFormed
  <2>2. CASE k \notin 1 .. Len(p)
    BY <1>2, <1>3, <2>2 DEF NoVariables
  <2> QED BY <2>1, <2>2
<1>6. Place(x, "credentials", t) \in 1 .. Len(x.reads) => c.secrets = Present(x.reads[Place(x, "credentials", t)])
  BY <1>1, <1>2, <1>3
<1>7. ContextOK(c) /\ SpecOf(x).provider \in Providers
  BY <1>1, <1>2, <1>5, RequestContext DEF IsCall, SpecOf
<1> QED BY <1>1, <1>2, <1>6, <1>7 DEF c, y

\* The files of an answer's templates come from Secrets that its steps have made.
LEMMA AnswerBacked ==
    ASSUME NEW x, IsCall(x), Done(x), NEW st, NEW gen, \A k \in 1 .. Len(x.reads) : Backed(x, k, st, gen)
    PROVE  /\ NodesNeed(x, GeneratedCredentials) => gen # <<>>
           /\ NodesNeed(x, EncryptionKey) => st["key"] # 0
           /\ NodesNeed(x, RegistryAddonCA) => st["ca"] # 0
<1> DEFINE i == x.spec
           p == ProgramOf(x)
           s == SpecOf(x)
<1>1. /\ WellFormed(Table[i]) /\ Keeps(Table[i], s) /\ (Declares(s) <=> Declares(Table[i]))
      /\ p = Program(s) /\ IsProgram(p) /\ Len(p) \in Nat /\ Len(x.reads) = Len(p) /\ i \in DOMAIN Table
  BY TableFacts, ProgramOfCall DEF IsCall, SpecOf, Done
<1>2. s.pools = Table[i].pools /\ IsList(s.pools)
  BY <1>1 DEF WellFormed, Keeps
<1> SUFFICES ASSUME NEW name \in {GeneratedCredentials, EncryptionKey, RegistryAddonCA},
                    NEW t \in 0 .. Len(s.pools), RefersTo(NodeTemplateOf(x, t), name)
             PROVE  /\ name = GeneratedCredentials => gen # <<>>
                    /\ name = EncryptionKey => st["key"] # 0
                    /\ name = RegistryAddonCA => st["ca"] # 0
  BY DEF NodesNeed
<1> DEFINE y == Standing(x, t)
           c == Context(y, t)
           t0 == IF t = 0 THEN ControlPlaneTemplate(s.provider) ELSE BootstrapTemplate(s.provider, s.pools[t].name)
           k == Place(x, "credentials", t)
<1>3. /\ c.provider = s.provider /\ c.provider \in Providers /\ c.v6 = s.v6 /\ c.cfg = s.cfg
      /\ ContextOK(c) /\ (k \in 1 .. Len(x.reads) => c.secrets = Present(x.reads[k]))
  BY <1>2, ContextIs
<1>4. NodeTemplateOf(x, t) = GeneratePatches(c, t0)
  <2>1. SpecOf(y) = s
    BY DEF Standing, CallWith, SpecOf
  <2>2. NodeTemplateOf(x, t) = NodeTemplate(y, t)
    BY <1>2, TemplateIs
  <2> HIDE DEF y
  <2> QED BY <2>1, <2>2 DEF NodeTemplate
<1>5. Made(TRUE, c, t0, t0) /\ (s.provider = "eks" => ~Kubeadm(t0))
  BY ClassTemplates
<1> HIDE DEF c, t0
<1>6. Made(FALSE, c, t0, GeneratePatches(c, t0))
  BY <1>3, <1>5, GeneratedMade
<1>7. name \in Sources(c, t0)
  BY <1>4, <1>6 DEF RefersTo, Made, FilesOK, FileOK, Range
<1>8. /\ name # "none" /\ name \notin SecretNames
      /\ GeneratedCredentials # EncryptionKey /\ GeneratedCredentials # RegistryAddonCA /\ EncryptionKey # RegistryAddonCA
  BY SecretsAssumption DEF GeneratedCredentials, EncryptionKey, RegistryAddonCA
<1>9. ASSUME NEW op, [op |-> op, t |-> t] \in Range(p)
      PROVE  \E l \in 1 .. Len(p) : p[l].op = op /\ l = Place(x, op, t)
  <2>1. Place(x, op, t) \in 1 .. Len(p) /\ p[Place(x, op, t)] = [op |-> op, t |-> t]
    BY <1>9, Places
  <2> QED BY <2>1
<1>10. CASE name = GeneratedCredentials
  <2>1. Kubeadm(t0) /\ GeneratesSecret(c) /\ ~CredentialsFail(c)
    BY <1>7, <1>8, <1>10 DEF Sources
  <2>2. ~s.v6 \/ Declares(s)
    <3> SUFFICES ASSUME s.v6, ~Declares(s) PROVE FALSE
      OBVIOUS
    <3>1. c.v6 /\ ImageRegistries(c) = <<>> /\ GlobalMirror(c) = <<>>
      BY <1>3 DEF Declares, ImageRegistries, GlobalMirror, OrElse
    <3> QED BY <2>1, <3>1, NothingDeclared
  <2>3. [op |-> "credentials", t |-> t] \in Range(p)
    BY <1>1, <1>2, <1>5, <2>1, <2>2, ProgramOK
  <2>4. k \in 1 .. Len(p) /\ p[k].op = "credentials"
    BY <1>9, <2>3
  <2>5. k + 1 \in 1 .. Len(p) /\ p[k + 1].op = "apply" /\ (k + 1) - 1 = k
    BY <1>1, <2>4 DEF IsProgram, InOrder
  <2>6. x.reads[k] \in SecretReads(Table[i])
    BY <1>1, <2>4 DEF Backed, CompleteReads
  <2>7. CredentialsRead[i][x.reads[k]].generates => gen # <<>>
    <3>1. Backed(x, k + 1, st, gen) /\ ProgramOf(x)[k + 1].op = "apply"
      BY <1>1, <2>5
    <3> HIDE DEF k
    <3> QED BY <2>5, <3>1 DEF Backed
  <2> DEFINE d == CredentialsContext(Table[i], x.reads[k])
  <2>8. CredentialsRead[i][x.reads[k]].generates <=> ~CredentialsFail(d) /\ GeneratesSecret(d)
    <3> DEFINE read == x.reads[k]
               result == CredentialsRead[i][read]
               fails == CredentialsFail(d)
    <3>1. result =
            [fails |-> fails, nothing |-> ~fails /\ d.v6 /\ Configs(d) = <<>>, generates |-> ~fails /\ GeneratesSecret(d),
             contents |-> IF fails THEN <<>> ELSE KubeletStaticCredentialProviderSecretContents(d)]
      BY <1>1, <2>6, CredentialsReadIs
    <3> HIDE DEF d, read, result
    <3>2. result.generates <=> ~CredentialsFail(d) /\ GeneratesSecret(d)
      BY <3>1, Zenon
    <3> QED BY <3>2 DEF read, result
  <2>9. /\ d.v6 = Table[i].v6 /\ d.cfg = Table[i].cfg /\ d.secrets = Present(x.reads[k])
    BY DEF CredentialsContext, ContextOf
  <2> HIDE DEF d, k
  <2>10. d.v6 = c.v6 /\ d.secrets = c.secrets
    BY <1>1, <1>3, <2>4, <2>9 DEF Keeps
  <2>11. ImageRegistries(d) = ImageRegistries(c) /\ GlobalMirror(d) = GlobalMirror(c)
    <3>1. \A n \in {"imageRegistries", "globalImageRegistryMirror"} :
            (Has(s.cfg, n) <=> Has(Table[i].cfg, n)) /\ (Has(Table[i].cfg, n) => s.cfg[n] = Table[i].cfg[n])
      BY <1>1 DEF Keeps, Rewritten, Has
    <3> HIDE DEF s, i
    <3> QED BY <1>3, <2>9, <3>1 DEF ImageRegistries, GlobalMirror, OrElse
  <2>12. CredentialsFail(d) = CredentialsFail(c) /\ GeneratesSecret(d) = GeneratesSecret(c)
    BY <2>10, <2>11, CredentialsAlike
  <2> QED BY <1>8, <1>10, <2>1, <2>7, <2>8, <2>12
<1>11. CASE name = EncryptionKey
  <2>1. Kubeadm(t0) /\ Has(c.cfg, "encryptionAtRest")
    BY <1>7, <1>8, <1>11 DEF Sources
  <2>2. [op |-> "keyCreate", t |-> 0] \in Range(p)
    BY <1>1, <1>2, <1>3, <1>5, <2>1, ProgramOK
  <2>3. PICK l \in 1 .. Len(p) : p[l].op = "keyCreate"
    BY <1>1, <2>2, ListFacts DEF IsProgram
  <2> QED BY <1>1, <1>8, <1>11, <2>3 DEF Backed
<1>12. CASE name = RegistryAddonCA
  <2>1. Kubeadm(t0) /\ Has(c.cfg, "addons.registry")
    BY <1>7, <1>8, <1>12 DEF Sources
  <2>2. [op |-> "mirrors", t |-> 0] \in Range(p)
    BY <1>1, <1>2, <1>3, <1>5, <2>1, ProgramOK
  <2>3. PICK l \in 1 .. Len(p) : p[l].op = "mirrors"
    BY <1>1, <2>2, ListFacts DEF IsProgram
  <2> QED BY <1>1, <1>3, <1>8, <1>12, <2>1, <2>3 DEF Backed
<1> QED BY <1>10, <1>11, <1>12

\* The invariant is strong enough.
LEMMA TemplatesBacked == TopologyInv => SecretsBehindTemplates
<1> SUFFICES ASSUME TopologyInv, answer # NoCall PROVE
        /\ NodesNeed(answer, GeneratedCredentials) => generated # <<>>
        /\ NodesNeed(answer, EncryptionKey) => store["key"] # 0
        /\ NodesNeed(answer, RegistryAddonCA) => store["ca"] # 0
  <2>1. /\ GeneratedCredentials # EncryptionKey /\ GeneratedCredentials # RegistryAddonCA
        /\ EncryptionKey # RegistryAddonCA
    BY Zenon DEF GeneratedCredentials, EncryptionKey, RegistryAddonCA
  <2> QED BY <2>1 DEF SecretsBehindTemplates, IsThere
<1>1. /\ IsCall(answer) /\ Done(answer)
      /\ \A k \in 1 .. Len(answer.reads) : Backed(answer, k, store, generated)
  BY DEF TopologyInv, CallsOK, CallOK
<1> QED BY <1>1, AnswerBacked

------------------------------------------------------------------------------
(* What the webhooks must have refused *)

\* The call that stands for a request as the webhooks leave it.
Sample(i, registry) == CallWith(i, registry, Lowest, <<>>)
\* Its context.
LEMMA SampleContext ==
    ASSUME NEW i \in DOMAIN Table, NEW registry \in BOOLEAN, NEW t
    PROVE  LET x == Sample(i, registry)
               c == Context(x, t)
               s == Defaults[i][registry]
           IN /\ SpecOf(x) = s /\ s.provider \in Providers
              /\ c.provider = s.provider /\ c.cfg = s.cfg /\ c.wc = IF t = 0 THEN s.wc ELSE WorkerConfig(s, t)
              /\ ContextOK(c) /\ ContextOK(WithoutRegistries(c))
<1> DEFINE x == Sample(i, registry)
           c == Context(x, t)
           s == Defaults[i][registry]
           p == Programs[i][registry]
           f == [k \in DOMAIN p |-> FirstRead(i, registry, k)]
<1>1. /\ DOMAIN x = {"spec", "registry", "cp", "reads"} /\ x.spec = i /\ x.registry = registry /\ x.cp = Lowest
      /\ x.reads = [k \in DOMAIN p |-> IF k \in DOMAIN <<>> THEN <<>>[k] ELSE FirstRead(i, registry, k)]
  BY Zenon DEF Sample, CallWith
<1>2. x.reads = f
  BY <1>1
<1>3. SpecOf(x) = s /\ ProgramOf(x) = p
  BY <1>1 DEF SpecOf, ProgramOf
<1>4. IsProgram(p)
  BY TableFacts
<1>5. IsList(f) /\ Len(f) = Len(p) /\ Len(p) \in Nat
  BY <1>4, MapList, ListFacts DEF IsProgram
<1>6. IsCall(x)
  <2>1. Len(x.reads) <= Len(ProgramOf(x))
    BY <1>2, <1>3, <1>5
  <2> QED BY <1>1, <1>2, <1>5, <2>1, LowestIs DEF IsCall
<1>7. /\ c.provider = s.provider /\ c.cfg = s.cfg /\ c.wc = (IF t = 0 THEN s.wc ELSE WorkerConfig(s, t))
      /\ c.cas = SecretsRead(x, "mirrors", t) /\ DOMAIN c = {"provider", "v6", "cfg", "wc", "builtin", "seen", "secrets", "cas"}
  BY <1>3 DEF Context, ContextOf
<1> HIDE DEF x, c
<1>8. DOMAIN c.cas \subseteq SecretNames
  <2> DEFINE k == Place(x, "mirrors", t)
  <2>0. k = 0 \/ (k \in 1 .. Len(ProgramOf(x)) /\ ProgramOf(x)[k] = [op |-> "mirrors", t |-> t])
    BY <1>6, Places
  <2>1. k \in 1 .. Len(p) => p[k].op = "mirrors"
    <3> HIDE DEF k, p
    <3> QED BY <1>3, <1>5, <2>0
  <2>2. CASE k \in DOMAIN x.reads
    <3>1. k \in DOMAIN p /\ DOMAIN p = 1 .. Len(p)
      BY <1>2, <1>4, <2>2, ListFacts DEF IsProgram
    <3>2. x.reads[k] = FirstRead(i, registry, k)
      BY <1>2, <3>1
    <3>3. x.reads[k] = [n \in NamedSecrets(Table[i]) |-> 1]
      BY <2>1, <3>1, <3>2 DEF FirstRead
    <3>4. c.cas = Present(x.reads[k])
      BY <1>7, <2>2 DEF SecretsRead, HasRead
    <3> HIDE DEF k
    <3>5. DOMAIN c.cas \subseteq NamedSecrets(Table[i])
      BY <3>3, <3>4 DEF Present
    <3> QED BY <3>5, TableFacts
  <2>3. CASE k \notin DOMAIN x.reads
    BY <1>7, <2>3 DEF SecretsRead, HasRead, NoVariables
  <2> QED BY <2>2, <2>3
<1>9. ContextOK(c) /\ s.provider \in Providers
  BY <1>7, <1>8, RequestContext
<1>10. ContextOK(WithoutRegistries(c))
  <2> DEFINE w == WithoutRegistries(c)
  <2>1. /\ w.cas = c.cas
        /\ w.cfg = [n \in DOMAIN c.cfg \ {"imageRegistries", "globalImageRegistryMirror"} |-> c.cfg[n]]
    BY <1>7 DEF WithoutRegistries
  <2> HIDE DEF w
  <2>2. ImageRegistries(w) = <<>> /\ GlobalMirror(w) = <<>>
    BY <2>1 DEF ImageRegistries, GlobalMirror, OrElse, Has
  <2> QED BY <1>8, <2>1, <2>2, Literals DEF ContextOK, w
<1> QED BY <1>3, <1>7, <1>9, <1>10 DEF x, c

\* The templates of the nodes, and of the cluster's infrastructure.
NodeStart(s, t) == IF t = 0 THEN ControlPlaneTemplate(s.provider) ELSE BootstrapTemplate(s.provider, s.pools[t].name)
LEMMA SampleTemplates ==
    ASSUME NEW i \in DOMAIN Table, NEW registry \in BOOLEAN
    PROVE  LET x == Sample(i, registry)
               s == Defaults[i][registry]
           IN /\ \A t : Made(FALSE, Context(x, t), NodeStart(s, t), NodeTemplate(x, t))
              /\ Made(FALSE, WithoutRegistries(Context(x, 0)), InfrastructureTemplate(s.provider), ClusterTemplate(x))
<1> DEFINE x == Sample(i, registry)
           s == Defaults[i][registry]
<1>1. ASSUME NEW t PROVE Made(FALSE, Context(x, t), NodeStart(s, t), NodeTemplate(x, t))
  <2> DEFINE c == Context(x, t)
  <2>1. SpecOf(x) = s /\ c.provider \in Providers /\ ContextOK(c)
    BY SampleContext
  <2> HIDE DEF x, s, c
  <2>2. Made(TRUE, c, NodeStart(s, t), NodeStart(s, t))
    BY ClassTemplates DEF NodeStart
  <2>3. Made(FALSE, c, NodeStart(s, t), GeneratePatches(c, NodeStart(s, t)))
    BY <2>1, <2>2, GeneratedMade
  <2>4. NodeTemplate(x, t) = GeneratePatches(c, NodeStart(s, t))
    BY <2>1 DEF NodeTemplate, NodeStart, c
  <2> QED BY <2>3, <2>4 DEF c
<1>2. Made(FALSE, WithoutRegistries(Context(x, 0)), InfrastructureTemplate(s.provider), ClusterTemplate(x))
  <2> DEFINE c == WithoutRegistries(Context(x, 0))
             d == Context(x, 0)
             t == InfrastructureTemplate(s.provider)
  <2>1. SpecOf(x) = s /\ d.provider \in Providers /\ ContextOK(c)
    BY SampleContext
  <2>2. c.provider = d.provider
    BY DEF WithoutRegistries, Context, ContextOf
  <2> HIDE DEF x, s, c, d, t
  <2>3. Made(TRUE, c, t, t)
    BY ClassTemplates DEF t
  <2>4. Made(FALSE, c, t, GeneratePatches(c, t))
    BY <2>1, <2>2, <2>3, GeneratedMade
  <2>5. ClusterTemplate(x) = GeneratePatches(c, t)
    BY <2>1 DEF ClusterTemplate, c, t
  <2> QED BY <2>4, <2>5 DEF c, t
<1> QED BY <1>1, <1>2

\* A kubelet that reserves automatically has nothing reserved by hand.
LEMMA Reserved ==
    ASSUME NEW i \in DOMAIN Table, NEW registry \in BOOLEAN, KubeletAllows(Defaults[i][registry]),
           NEW t \in 0 .. Len(Defaults[i][registry].pools)
    PROVE  ReservedOneWay(NodeTemplate(Sample(i, registry), t))
<1> DEFINE x == Sample(i, registry)
           s == Defaults[i][registry]
           c == Context(x, t)
           t0 == NodeStart(s, t)
           u == NodeTemplate(x, t)
           kubelet == KubeletOf(c, t0)
<1>1. Made(FALSE, c, t0, u)
  BY SampleTemplates
<1>2. c.cfg = s.cfg /\ c.wc = IF t = 0 THEN s.wc ELSE WorkerConfig(s, t)
  BY SampleContext
<1>3. DOMAIN s.pools = 1 .. Len(s.pools)
  <2>1. IsList(s.pools)
    BY TableFacts DEF Keeps
  <2> QED BY <2>1, ListFacts
<1> HIDE DEF x, s, c, t0, u
<1>4. ValidateKubeletConfig(kubelet)
  <2>1. c.wc \in {s.wc} \cup {WorkerConfig(s, k) : k \in DOMAIN s.pools}
    BY <1>2, <1>3 DEF s
  <2>2. OrElse(c.wc, "kubeletConfiguration", NoVariables) \in WorkerKubelets(s)
    BY <2>1 DEF WorkerKubelets
  <2> QED BY <1>2, <2>2 DEF KubeletAllows, KubeletOf, s
<1> HIDE DEF kubelet
<1>5. ASSUME NEW k \in DOMAIN u.files, u.files[k].path = KubeletPatch, HasFile(u, ComputeReservations)
      PROVE  DOMAIN u.files[k].body[1] \cap SetByHand = {}
  <2>1. \A l \in DOMAIN u.files : FileOK(c, t0, u.files[l])
    BY <1>1 DEF Made, FilesOK, Range
  <2>2. Has(kubelet, "automaticReservations")
    BY <1>5, <2>1 DEF HasFile, FileOK, kubelet
  <2>3. SetByHand \cap DOMAIN kubelet = {}
    BY <1>4, <2>2 DEF ValidateKubeletConfig, SetByHand
  <2>4. DOMAIN u.files[k].body[1] \subseteq DOMAIN kubelet \cup {"maxParallelImagePulls"}
    BY <1>5, <2>1 DEF FileOK, kubelet
  <2> QED BY <2>3, <2>4 DEF SetByHand
<1> QED BY <1>5 DEF ReservedOneWay, u, x

\* Neither the control plane nor the Services take Prism Central's address.
LEMMA Reachable ==
    ASSUME NEW i \in DOMAIN Table, NEW registry \in BOOLEAN, NutanixAllows(Defaults[i][registry])
    PROVE  PrismCentralReachable(Defaults[i][registry].cfg, NodeTemplate(Sample(i, registry), 0),
                                 ClusterTemplate(Sample(i, registry)))
<1> DEFINE x == Sample(i, registry)
           s == Defaults[i][registry]
           infra == ClusterTemplate(x)
           cp == NodeTemplate(x, 0)
           pc == infra.fields["prismCentral"].host
           lb == OrElse(s.cfg, "addons.serviceLoadBalancer", [provider |-> "none"])
           c == Context(x, 0)
           w == WithoutRegistries(c)
<1>1. /\ Made(FALSE, c, NodeStart(s, 0), cp) /\ Made(FALSE, w, InfrastructureTemplate(s.provider), infra)
      /\ c.cfg = s.cfg /\ c.provider = s.provider /\ s.provider \in Providers
  BY SampleTemplates, SampleContext
<1>2. w.cfg = [n \in DOMAIN c.cfg \ {"imageRegistries", "globalImageRegistryMirror"} |-> c.cfg[n]]
  BY DEF WithoutRegistries, Context, ContextOf
<1> HIDE DEF x, s, infra, cp, c, w
<1> SUFFICES ASSUME Has(infra.fields, "prismCentral"), IsIP(pc)
             PROVE  /\ \A k \in DOMAIN cp.files : cp.files[k].path = KubeVIP => cp.files[k].body[2] # pc
                    /\ lb.provider = "MetalLB" /\ Has(lb, "ranges") => \A k \in DOMAIN lb.ranges : ~IsIPInRange(lb.ranges[k], pc)
  BY DEF PrismCentralReachable, x, s, infra, cp
<1>3. /\ NutanixCluster(InfrastructureTemplate(s.provider)) /\ Has(s.cfg, "nutanix.prismCentralEndpoint")
      /\ pc = s.cfg["nutanix.prismCentralEndpoint"].host
  BY <1>1, <1>2 DEF Made, FieldsOK, Has
<1>4. s.provider = "nutanix"
  BY <1>1, <1>3 DEF Providers, NutanixCluster, InfrastructureCluster, InfrastructureTemplate, Template, Kinds
<1> HIDE DEF pc
<1>5. ~PrismCentralIsControlPlane(s.cfg) /\ ~PrismCentralInLoadBalancerRange(s.cfg)
  BY <1>3, <1>4 DEF NutanixAllows, s
<1>6. ASSUME NEW k \in DOMAIN cp.files, cp.files[k].path = KubeVIP PROVE cp.files[k].body[2] # pc
  <2> DEFINE f == cp.files[k]
  <2>1. FileOK(c, NodeStart(s, 0), f)
    BY <1>1, <1>6 DEF Made, FilesOK, Range
  <2>2. pc # 0
    BY DEF IsIP
  <2> HIDE DEF f
  <2>3. f.body[2] = 0 \/ f.body[2] = VirtualIPAddress(s.cfg["nutanix.controlPlaneEndpoint"])
    BY <1>1, <1>6, <2>1 DEF FileOK, f
  <2>4. VirtualIPAddress(s.cfg["nutanix.controlPlaneEndpoint"]) # pc
    BY <1>3, <1>5 DEF PrismCentralIsControlPlane
  <2> QED BY <2>2, <2>3, <2>4 DEF f
<1>7. lb.provider = "MetalLB" /\ Has(lb, "ranges") => \A k \in DOMAIN lb.ranges : ~IsIPInRange(lb.ranges[k], pc)
  BY <1>3, <1>5 DEF PrismCentralInLoadBalancerRange
<1> QED BY <1>6, <1>7

\* Where kube-proxy is left out, Cilium's values are known to replace it.
LEMMA Routed ==
    ASSUME NEW i \in DOMAIN Table, NEW registry \in BOOLEAN, CiliumAllows(Defaults[i][registry])
    PROVE  ServicesRouted(Defaults[i][registry], NodeTemplate(Sample(i, registry), 0))
<1> DEFINE x == Sample(i, registry)
           s == Defaults[i][registry]
           cp == NodeTemplate(x, 0)
           c == Context(x, 0)
<1>1. Made(FALSE, c, NodeStart(s, 0), cp) /\ c.cfg = s.cfg
  BY SampleTemplates, SampleContext
<1> HIDE DEF x, s, cp, c
<1>2. "addon/kube-proxy" \in OrElse(cp.fields, "skipPhases", {}) => OrElse(s.cfg, "kubeProxy.mode", "") = "disabled"
  BY <1>1 DEF Made, FieldsOK, OrElse
<1> QED BY <1>2 DEF ServicesRouted, CiliumAllows, x, s, cp

\* What the table of defaulted requests holds.
LEMMA DefaultsAre ==
    ASSUME NEW i \in DOMAIN Table, NEW registry \in BOOLEAN
    PROVE  Defaults[i][registry] = Defaulted(Table[i], registry)
<1>1. Defaults = [j \in DOMAIN Table |-> Tabulated([r \in BOOLEAN |-> Defaulted(Table[j], r)])]
  BY Tables DEF Defaults
<1>2. Defaults[i] = [r \in BOOLEAN |-> Defaulted(Table[i], r)]
  BY <1>1, Tables
<1> QED BY <1>2

\* A storage class of a metro cluster that names no site is unbound by the defaulter, and
\* one that is bound is refused.
LEMMA Unbound ==
    ASSUME NEW i \in DOMAIN Table, NEW registry \in BOOLEAN, MetroAllows(Defaults[i][registry]),
           IsMetroCluster(Defaults[i][registry])
    PROVE  LET cfg == Defaults[i][registry].cfg IN \A k \in DOMAIN Affinities(cfg) : Affinities(cfg)[k] = "DISABLED"
<1> DEFINE s == Table[i]
           d == Defaults[i][registry]
           m == MetroDefaulter(s)
           name == "addons.csi.nutanix.storageClasses"
           a == Affinities(s.cfg)
           unbound == [k \in DOMAIN a |-> IF a[k] = "" THEN "DISABLED" ELSE a[k]]
<1>1. WellFormed(s) /\ Keeps(s, d) /\ d = AutoEnabler(m, registry)
  BY TableFacts, DefaultsAre DEF Defaulted
<1> HIDE DEF d, m
<1>2. IsMetroCluster(s)
  <2>1. OrElse(d.cfg, "controlPlane.nutanix.failureDomains", <<>>)
          = OrElse(s.cfg, "controlPlane.nutanix.failureDomains", <<>>)
    BY <1>1 DEF Keeps, Rewritten, OrElse, Has
  <2>2. ASSUME NEW k \in DOMAIN OrElse(s.cfg, "controlPlane.nutanix.failureDomains", <<>>)
        PROVE  d.cfg["controlPlane.nutanix.failureDomains"][k] = s.cfg["controlPlane.nutanix.failureDomains"][k]
    <3>1. DOMAIN <<>> = {}
      OBVIOUS
    <3>2. Has(s.cfg, "controlPlane.nutanix.failureDomains")
      BY <2>2, <3>1 DEF OrElse
    <3> QED BY <1>1, <3>2 DEF Keeps, Rewritten, Has
  <2>3. d.pools = s.pools /\ IsMetroCluster(d)
    BY <1>1 DEF Keeps, d
  <2> HIDE DEF s
  <2> QED BY <2>1, <2>2, <2>3 DEF IsMetroCluster
<1>3. /\ Has(m.cfg, name) <=> Has(s.cfg, name)
      /\ Has(s.cfg, name) => m.cfg[name] = unbound
  <2>1. CASE Has(s.cfg, name)
    <3>1. m = [s EXCEPT !.cfg = With(s.cfg, name, unbound)]
      BY <1>2, <2>1 DEF m, MetroDefaulter, DefaultCSIComputeAffinity
    <3> HIDE DEF unbound
    <3>2. m.cfg = With(s.cfg, name, unbound)
      BY <1>1, <3>1 DEF WellFormed
    <3> QED BY <2>1, <3>2 DEF With, Has
  <2>2. CASE ~Has(s.cfg, name)
    BY <2>2 DEF m, MetroDefaulter
  <2> QED BY <2>1, <2>2
<1>4. DOMAIN m = {"provider", "v6", "cfg", "wc", "pools", "skip"}
  BY <1>1 DEF m, MetroDefaulter, WellFormed
<1> HIDE DEF unbound, s
<1>5. (Has(d.cfg, name) <=> Has(m.cfg, name)) /\ (Has(m.cfg, name) => d.cfg[name] = m.cfg[name])
  <2>1. CASE AutoEnables(m, registry)
    <3>1. d.cfg = With(m.cfg, "addons.registry", "CNCF Distribution")
      BY <1>1, <1>4, <2>1 DEF AutoEnabler
    <3> QED BY <3>1 DEF With, Has
  <2>2. CASE ~AutoEnables(m, registry)
    BY <1>1, <2>2 DEF AutoEnabler
  <2> QED BY <2>1, <2>2
<1>6. ASSUME NEW k \in DOMAIN Affinities(d.cfg) PROVE Affinities(d.cfg)[k] = "DISABLED"
  <2>1. Has(d.cfg, name)
    BY <1>6 DEF Affinities, OrElse, NoVariables
  <2>2. Affinities(d.cfg) = unbound
    BY <1>3, <1>5, <2>1 DEF Affinities, OrElse
  <2>3. unbound[k] # ""
    BY <1>6, <2>2 DEF unbound
  <2>4. unbound[k] \in {"", "DISABLED"}
    BY <1>6, <2>2 DEF MetroAllows, d
  <2> QED BY <2>2, <2>3, <2>4
<1> QED BY <1>6 DEF d

------------------------------------------------------------------------------
(* Where the machines of Nutanix are placed *)

\* The templates of the infrastructure: of the cluster, of the control plane's machines and
\* of the workers'.
ClusterKind == "NutanixClusterTemplate"
MachineKind == "NutanixMachineTemplate"
OnNutanix(t) ==
    /\ DOMAIN t = Fields
    /\ \/ t.kind = ClusterKind /\ t.holder = "infrastructureRef"
       \/ t.kind = MachineKind /\ t.holder \in {"machineInfrastructureRef", "mdInfrastructureRef"}
NoRegistries(c) == ImageRegistries(c) = <<>> /\ GlobalMirror(c) = <<>>

\* Without registries the mutators of the registries do not fail.
LEMMA NoRegistryFails ==
    ASSUME NEW c, NoRegistries(c)
    PROVE  ~CredentialsFail(c) /\ ~MirrorsFail(c)
<1> DEFINE none == <<>>
           P == [i \in DOMAIN none |-> ProviderConfig(c.secrets, none[i], FALSE)]
           Q == [i \in DOMAIN none |-> ProviderConfig(c.secrets, none[i], TRUE)]
           G == [i \in DOMAIN none |-> ContainerdConfig(c.cas, none[i], TRUE)]
           I == [i \in DOMAIN none |-> ContainerdConfig(c.cas, none[i], FALSE)]
           addon == IF Has(c.cfg, "addons.registry") THEN <<RegistryAddonConfig>> ELSE <<>>
<1>1. IsList(none) /\ DOMAIN none = {} /\ IsList(addon) /\ Range(addon) \subseteq {RegistryAddonConfig}
  BY Literals
<1>2. /\ ProviderConfigs(c) = P \o Q /\ ContainerdConfigs(c) = G \o I \o addon
  BY Zenon DEF NoRegistries, ProviderConfigs, ContainerdConfigs
<1>3. DOMAIN ImageRegistries(c) = {} /\ DOMAIN GlobalMirror(c) = {}
  BY <1>1 DEF NoRegistries
<1> HIDE DEF none, addon
<1>4. IsList(P) /\ IsList(Q) /\ IsList(G) /\ IsList(I) /\ DOMAIN P = {} /\ DOMAIN Q = {} /\ DOMAIN G = {} /\ DOMAIN
  I = {}
  BY <1>1, MapList
<1>5. Range(P) = {} /\ Range(Q) = {} /\ Range(G) = {} /\ Range(I) = {}
  BY <1>4 DEF Range
<1> HIDE DEF P, Q, G, I
<1>6. IsList(P \o Q) /\ Range(P \o Q) = {}
  BY <1>4, <1>5, ConcatList
<1>7. IsList(G \o I) /\ Range(G \o I) = {}
  BY <1>4, <1>5, ConcatList
<1>8. IsList(G \o I \o addon) /\ Range(G \o I \o addon) \subseteq {RegistryAddonConfig}
  BY <1>1, <1>7, ConcatList
<1>9. DOMAIN ProviderConfigs(c) = {}
  BY <1>2, <1>6 DEF Range
<1>10. \A i \in DOMAIN ContainerdConfigs(c) : ContainerdConfigs(c)[i] = RegistryAddonConfig
  BY <1>2, <1>8 DEF Range
<1>11. ~CredentialsFail(c)
  BY <1>3, <1>9 DEF CredentialsFail
<1>12. ~ConflictingCAs(ContainerdConfigs(c))
  BY <1>10 DEF ConflictingCAs
<1> QED BY <1>3, <1>11, <1>12 DEF MirrorsFail

\* The mutators that write these templates.
NutanixNames ==
    {"controlplaneendpoint", "prismcentralendpoint", "cp machinedetails", "machinedetails",
      "controlplanefailuredomains"}
\* What they have in common of two templates.
Alike(t, u) == DOMAIN u = Fields /\ u.kind = t.kind /\ u.holder = t.holder /\ u.fields = t.fields /\ u.err = t.err
\* The others leave them as they are.
LEMMA OthersQuiet ==
    ASSUME NEW c, NEW t, OnNutanix(t), NoRegistries(c)
    PROVE  \A name \in MutatorNames \ NutanixNames : Alike(t, Mutate(name, c, t))
<1> DEFINE S(u) == Alike(t, u)
<1>1. S(t)
  BY DEF Alike, OnNutanix
<1>2. /\ ~ControlPlane(t) /\ ~WorkersKubeadmConfigTemplate(t) /\ ~Kubeadm(t) /\ ~Nodeadm(t) /\ ~ManagedControlPlane(t)
      /\ ~AWSCluster(t) /\ ~AWSControlPlaneMachines(t) /\ ~AWSWorkerMachines(t)
      /\ t.kind # "DockerMachineTemplate"
  BY DEF OnNutanix, ClusterKind, MachineKind, ControlPlane, WorkersKubeadmConfigTemplate, WorkersConfigTemplate,
    Kubeadm,
         Nodeadm, ManagedControlPlane, AWSCluster, InfrastructureCluster, AWSControlPlaneMachines, AWSWorkerMachines,
         InfrastructureControlPlaneMachines, InfrastructureWorkerMachineTemplates
<1>3. ~CredentialsFail(c) /\ ~MirrorsFail(c)
  BY NoRegistryFails
<1> HIDE DEF S
<1>4. S(AuditPolicy(c, t))
  BY <1>1, <1>2 DEF AuditPolicy, MutateIfApplicable
<1>5. S(Etcd(c, t))
  BY <1>1, <1>2 DEF Etcd, MutateIfApplicable
<1>6. S(CoreDNS(c, t))
  BY <1>1, <1>2 DEF CoreDNS, MutateIfApplicable
<1>7. S(ExtraAPIServerCertSANs(c, t))
  BY <1>1, <1>2 DEF ExtraAPIServerCertSANs, MutateIfApplicable
<1>8. S(HTTPProxy(c, t))
  BY <1>1, <1>2 DEF HTTPProxy, MutateIfApplicable
<1>9. S(KubernetesImageRepository(c, t))
  BY <1>1, <1>2 DEF KubernetesImageRepository, Copies, MutateIfApplicable
<1>10. S(Calico(c, t))
  BY <1>1, <1>2 DEF Calico, MutateIfApplicable
<1>11. S(Users(c, t))
  BY <1>1, <1>2 DEF Users, MutateIfApplicable
<1>12. S(ContainerdMetrics(c, t))
  BY <1>1, <1>2 DEF ContainerdMetrics, MutateIfApplicable
<1>13. S(ContainerdUnprivilegedPorts(c, t))
  BY <1>1, <1>2 DEF ContainerdUnprivilegedPorts, MutateIfApplicable
<1>14. S(EncryptionAtRest(c, t))
  BY <1>1, <1>2 DEF EncryptionAtRest, MutateIfApplicable
<1>15. S(AutoRenewCerts(c, t))
  BY <1>1, <1>2 DEF AutoRenewCerts, MutateIfApplicable
<1>16. S(KubeProxyMode(c, t))
  BY <1>1, <1>2 DEF KubeProxyMode, MutateIfApplicable
<1>17. S(PodSecurityAdmission(c, t))
  BY <1>1, <1>2 DEF PodSecurityAdmission, MutateIfApplicable
<1>18. S(NTP(c, t))
  BY <1>1, <1>2 DEF NTP, MutateIfApplicable
<1>19. S(ContainerdApplyPatchesAndRestart(c, t))
  BY <1>1, <1>2 DEF ContainerdApplyPatchesAndRestart, MutateIfApplicable
<1>20. S(ControlPlaneTaints(c, t))
  BY <1>1, <1>2 DEF ControlPlaneTaints, MutateIfApplicable
<1>21. S(WorkerTaints(c, t))
  BY <1>1, <1>2 DEF WorkerTaints, MutateIfApplicable
<1>22. S(ControlPlaneNodeRegistration(c, t))
  BY <1>1, <1>2 DEF ControlPlaneNodeRegistration, MutateIfApplicable
<1>23. S(WorkerNodeRegistration(c, t))
  BY <1>1, <1>2 DEF WorkerNodeRegistration, MutateIfApplicable
<1>24. S(ExternalCloudProvider(c, t))
  BY <1>1, <1>2 DEF ExternalCloudProvider, MutateIfApplicable
<1>25. S(ControlPlaneKubeletConfiguration(c, t))
  BY <1>1, <1>2 DEF ControlPlaneKubeletConfiguration, KubeletConfiguration, MutateIfApplicable
<1>26. S(WorkerKubeletConfiguration(c, t))
  BY <1>1, <1>2 DEF WorkerKubeletConfiguration, KubeletConfiguration, MutateIfApplicable
<1>27. S(ControlPlaneVirtualIP(c, t))
  BY <1>1, <1>2 DEF ControlPlaneVirtualIP, MutateIfApplicable
<1>28. S(DockerControlPlaneCustomImage(c, t))
  BY <1>1, <1>2 DEF DockerControlPlaneCustomImage, CustomImage, InfrastructureControlPlaneMachines, MutateIfApplicable
<1>29. S(DockerWorkerCustomImage(c, t))
  BY <1>1, <1>2 DEF DockerWorkerCustomImage, CustomImage, InfrastructureWorkerMachineTemplates, MutateIfApplicable
<1>30. S(IF c.v6 THEN V6Credentials(c, t) ELSE Credentials(c, t))
  BY <1>1, <1>2, <1>3 DEF V6Credentials, Credentials, ConfigureCredentials
<1>31. S(Mirrors(c, t))
  BY <1>1, <1>2, <1>3 DEF Mirrors, MutateIfApplicable
<1>32. S(SortExtraArgs(c, t))
  <2>1. \A v : Alike(t, [t EXCEPT !.args = v])
    BY DEF OnNutanix, Alike, Fields
  <2> QED BY <2>1 DEF SortExtraArgs, S
<1>33. \A name \in AWSNames : S(MutateAWS(name, c, t))
  <2>1. S(AWSClusterTags(c, t))
    BY <1>1, <1>2 DEF AWSClusterTags, Copies, MutateIfApplicable
  <2>2. S(AWSRegion(c, t))
    BY <1>1, <1>2 DEF AWSRegion, Copies, MutateIfApplicable
  <2>3. S(AWSNetwork(c, t))
    BY <1>1, <1>2 DEF AWSNetwork, Network, MutateIfApplicable
  <2>4. S(AWSControlPlaneLoadBalancer(c, t))
    BY <1>1, <1>2 DEF AWSControlPlaneLoadBalancer, Copies, MutateIfApplicable
  <2>5. S(AWSIdentityRef(c, t))
    BY <1>1, <1>2 DEF AWSIdentityRef, Copies, MutateIfApplicable
  <2>6. S(AWSControlPlaneTags(c, t))
    BY <1>1, <1>2 DEF AWSControlPlaneTags, MachineTags, Copies, MutateIfApplicable
  <2>7. S(AWSControlPlaneIAMInstanceProfile(c, t))
    BY <1>1, <1>2 DEF AWSControlPlaneIAMInstanceProfile, Copies, MutateIfApplicable
  <2>8. S(AWSControlPlaneInstanceType(c, t))
    BY <1>1, <1>2 DEF AWSControlPlaneInstanceType, Copies, MutateIfApplicable
  <2>9. S(AWSControlPlaneAMI(c, t))
    BY <1>1, <1>2 DEF AWSControlPlaneAMI, AMI, MutateIfApplicable
  <2>10. S(AWSControlPlaneSecurityGroups(c, t))
    BY <1>1, <1>2 DEF AWSControlPlaneSecurityGroups, SecurityGroups, Copies, MutateIfApplicable
  <2>11. S(AWSControlPlaneVolumes(c, t))
    BY <1>1, <1>2 DEF AWSControlPlaneVolumes, Volumes, MutateIfApplicable
  <2>12. S(AWSControlPlanePlacementGroup(c, t))
    BY <1>1, <1>2 DEF AWSControlPlanePlacementGroup, Copies, MutateIfApplicable
  <2>13. S(AWSControlPlanePlacementGroupNFD(c, t))
    BY <1>1, <1>2 DEF AWSControlPlanePlacementGroupNFD, DiscoversPlacementGroup, MutateIfApplicable
  <2>14. S(AWSWorkerTags(c, t))
    BY <1>1, <1>2 DEF AWSWorkerTags, MachineTags, Copies, MutateIfApplicable
  <2>15. S(WorkerIAMInstanceProfile(t, c.wc, "aws.iamInstanceProfile"))
    BY <1>1, <1>2 DEF WorkerIAMInstanceProfile, Copies, MutateIfApplicable
  <2>16. S(WorkerInstanceType(t, c.wc, "aws.instanceType"))
    BY <1>1, <1>2 DEF WorkerInstanceType, Copies, MutateIfApplicable
  <2>17. S(AWSWorkerAMI(c, t))
    BY <1>1, <1>2 DEF AWSWorkerAMI, AMI, MutateIfApplicable
  <2>18. S(AWSWorkerSecurityGroups(c, t))
    BY <1>1, <1>2 DEF AWSWorkerSecurityGroups, SecurityGroups, Copies, MutateIfApplicable
  <2>19. S(AWSWorkerVolumes(c, t))
    BY <1>1, <1>2 DEF AWSWorkerVolumes, Volumes, MutateIfApplicable
  <2>20. S(WorkerPlacementGroup(t, c.wc, "aws.placementGroup"))
    BY <1>1, <1>2 DEF WorkerPlacementGroup, Copies, MutateIfApplicable
  <2>21. S(AWSWorkerPlacementGroupNFD(c, t))
    BY <1>1, <1>2 DEF AWSWorkerPlacementGroupNFD, DiscoversPlacementGroup, MutateIfApplicable
  <2>22. S(EKSRegion(c, t))
    BY <1>1, <1>2 DEF EKSRegion, Copies, MutateIfApplicable
  <2>23. S(EKSNetwork(c, t))
    BY <1>1, <1>2 DEF EKSNetwork, Network, MutateIfApplicable
  <2>24. S(EKSIdentityRef(c, t))
    BY <1>1, <1>2 DEF EKSIdentityRef, Copies, MutateIfApplicable
  <2>25. S(EKSClusterTags(c, t))
    BY <1>1, <1>2 DEF EKSClusterTags, Copies, MutateIfApplicable
  <2>26. S(EKSWorkerIAMInstanceProfile(c, t))
    BY <1>1, <1>2 DEF EKSWorkerIAMInstanceProfile, WorkerIAMInstanceProfile, Copies, MutateIfApplicable
  <2>27. S(EKSWorkerInstanceType(c, t))
    BY <1>1, <1>2 DEF EKSWorkerInstanceType, WorkerInstanceType, Copies, MutateIfApplicable
  <2>28. S(EKSWorkerAMI(c, t))
    BY <1>1, <1>2 DEF EKSWorkerAMI, AMI, MutateIfApplicable
  <2>29. S(EKSWorkerSecurityGroups(c, t))
    BY <1>1, <1>2 DEF EKSWorkerSecurityGroups, SecurityGroups, Copies, MutateIfApplicable
  <2>30. S(EKSWorkerVolumes(c, t))
    BY <1>1, <1>2 DEF EKSWorkerVolumes, Volumes, MutateIfApplicable
  <2>31. S(EKSWorkerPlacementGroup(c, t))
    BY <1>1, <1>2 DEF EKSWorkerPlacementGroup, WorkerPlacementGroup, Copies, MutateIfApplicable
  <2>32. S(EKSWorkerPlacementGroupNFD(c, t))
    BY <1>1, <1>2 DEF EKSWorkerPlacementGroupNFD, DiscoversPlacementGroup, MutateIfApplicable
  <2>33. S(EKSWorkerTags(c, t))
    BY <1>1, <1>2 DEF EKSWorkerTags, MachineTags, Copies, MutateIfApplicable
  <2>34. ASSUME NEW name \in AWSNames PROVE S(MutateAWS(name, c, t))
    BY <2>34, <2>1, <2>2, <2>3, <2>4, <2>5, <2>6, <2>7, <2>8, <2>9, <2>10, <2>11, <2>12, <2>13, <2>14, <2>15, <2>16,
      <2>17, <2>18, <2>19, <2>20, <2>21, <2>22, <2>23, <2>24, <2>25, <2>26, <2>27, <2>28, <2>29, <2>30, <2>31,
      <2>32, <2>33 DEF AWSNames, MutateAWS
  <2> QED BY <2>34
<1>34. ASSUME NEW name \in MutatorNames \ NutanixNames PROVE S(Mutate(name, c, t))
  BY <1>34, <1>4, <1>5, <1>6, <1>7, <1>8, <1>9, <1>10, <1>11, <1>12, <1>13, <1>14, <1>15, <1>16, <1>17, <1>18,
    <1>19, <1>20, <1>21, <1>22, <1>23, <1>24, <1>25, <1>26, <1>27, <1>28, <1>29, <1>30, <1>31, <1>32, <1>33 DEF
    MutatorNames, KubeadmNames, NutanixNames, Mutate
<1> QED BY <1>34 DEF S

\* What makes a mutator of these templates fail.
BadPrismCentral(cfg) ==
    LET pc == Get(cfg, "nutanix.prismCentralEndpoint")
    IN pc.found /\ (pc.v.host = 0 \/ OrElse(pc.v, "additionalTrustBundle", "") = "not base64")
NoImage(details) == ~Has(details, "image") /\ ~Has(details, "imageLookup")
FailureDomainsOf(cfg) == OrElse(cfg, "controlPlane.nutanix.failureDomains", <<>>)

\* A mutator and the template of the cluster.
LEMMA ClusterStep ==
    ASSUME NEW c, NEW t, NEW name \in MutatorNames, OnNutanix(t), NoRegistries(c), t.kind = ClusterKind, ~t.err
    PROVE  LET u == Mutate(name, c, t)
               field == "controlPlaneFailureDomains"
           IN /\ OnNutanix(u) /\ u.kind = t.kind
              /\ u.err <=> name = "prismcentralendpoint" /\ BadPrismCentral(c.cfg)
              /\ Has(u.fields, field)
                   <=> Has(t.fields, field) \/ (name = "controlplanefailuredomains" /\ FailureDomainsOf(c.cfg) # <<>>)
<1> DEFINE field == "controlPlaneFailureDomains"
           G(u, bad, written) == /\ OnNutanix(u) /\ u.kind = t.kind /\ (u.err <=> bad)
                                 /\ (Has(u.fields, field) <=> Has(t.fields, field) \/ written)
<1>1. NutanixCluster(t) /\ DOMAIN t = Fields
  BY DEF NutanixCluster, InfrastructureCluster, MatchesInfrastructure, OnNutanix, ClusterKind, MachineKind
<1>2. G(t, FALSE, FALSE)
  OBVIOUS
<1>3. \A f, v : f # field => G(Put(t, f, v), FALSE, FALSE)
  <2> SUFFICES ASSUME NEW f, NEW v, f # field PROVE G(Put(t, f, v), FALSE, FALSE)
    OBVIOUS
  <2> DEFINE w == With(t.fields, f, v)
             u == [t EXCEPT !.fields = w]
  <2>1. Has(w, field) <=> Has(t.fields, field)
    BY DEF With, Has
  <2> HIDE DEF w
  <2>2. DOMAIN u = Fields /\ u.kind = t.kind /\ u.holder = t.holder /\ u.err = t.err /\ u.fields = w
    BY <1>1 DEF Fields
  <2>3. u = Put(t, f, v)
    BY DEF Put, w
  <2> HIDE DEF u
  <2> QED BY <2>1, <2>2, <2>3 DEF OnNutanix
<1>4. \A v : G(Put(t, field, v), FALSE, TRUE)
  <2> SUFFICES ASSUME NEW v PROVE G(Put(t, field, v), FALSE, TRUE)
    OBVIOUS
  <2> DEFINE w == With(t.fields, field, v)
             u == [t EXCEPT !.fields = w]
  <2>1. Has(w, field)
    BY DEF With, Has
  <2> HIDE DEF w
  <2>2. DOMAIN u = Fields /\ u.kind = t.kind /\ u.holder = t.holder /\ u.err = t.err /\ u.fields = w
    BY <1>1 DEF Fields
  <2>3. u = Put(t, field, v)
    BY DEF Put, w
  <2> HIDE DEF u
  <2> QED BY <2>1, <2>2, <2>3 DEF OnNutanix
<1>5. G(Fail(t), TRUE, FALSE)
  <2>1. /\ DOMAIN Fail(t) = Fields /\ Fail(t).kind = t.kind /\ Fail(t).holder = t.holder /\ Fail(t).err = TRUE
        /\ Fail(t).fields = t.fields
    BY <1>1 DEF Fail, Fields
  <2> QED BY <2>1 DEF OnNutanix
<1> HIDE DEF G
<1>6. G(NutanixControlPlaneEndpoint(c, t), FALSE, FALSE)
  BY <1>2, <1>3 DEF NutanixControlPlaneEndpoint, MutateIfApplicable
<1>7. G(NutanixPrismCentralEndpoint(c, t), BadPrismCentral(c.cfg), FALSE)
  BY <1>1, <1>2, <1>3, <1>5 DEF NutanixPrismCentralEndpoint, MutateIfApplicable, BadPrismCentral
<1>8. G(NutanixControlPlaneFailureDomains(c, t), FALSE, FailureDomainsOf(c.cfg) # <<>>)
  <2>1. FailureDomainsOf(c.cfg) # <<>> => Get(c.cfg, "controlPlane.nutanix.failureDomains").found
    BY DEF FailureDomainsOf, OrElse, Get, Has
  <2>2. CASE FailureDomainsOf(c.cfg) = <<>>
    BY <1>2, <2>2 DEF NutanixControlPlaneFailureDomains, FailureDomainsOf
  <2>3. CASE FailureDomainsOf(c.cfg) # <<>>
    BY <1>1, <1>4, <2>1, <2>3 DEF NutanixControlPlaneFailureDomains, FailureDomainsOf, Copies, MutateIfApplicable
  <2> QED BY <2>2, <2>3
<1>9. G(NutanixControlPlaneMachineDetails(c, t), FALSE, FALSE) /\ G(NutanixWorkerMachineDetails(c, t), FALSE, FALSE)
  <2>1. /\ ~InfrastructureControlPlaneMachines(t, "NutanixMachineTemplate")
        /\ ~InfrastructureWorkerMachineTemplates(t, "NutanixMachineTemplate")
    BY DEF InfrastructureControlPlaneMachines, InfrastructureWorkerMachineTemplates, ClusterKind
  <2>2. \A d, selected : ~selected => NutanixMachineDetails(t, d, selected) = t
    BY Zenon DEF NutanixMachineDetails, MutateIfApplicable
  <2> QED BY <1>2, <2>1, <2>2 DEF NutanixControlPlaneMachineDetails, NutanixWorkerMachineDetails
<1>10. ASSUME NEW u, Alike(t, u) PROVE G(u, FALSE, FALSE)
  BY <1>10 DEF G, Alike, OnNutanix
<1>11. G(Mutate(name, c, t), name = "prismcentralendpoint" /\ BadPrismCentral(c.cfg),
         name = "controlplanefailuredomains" /\ FailureDomainsOf(c.cfg) # <<>>)
  <2>1. CASE name \notin NutanixNames
    BY <1>10, <2>1, OthersQuiet DEF NutanixNames
  <2>2. CASE name = "controlplaneendpoint"
    BY <1>6, <2>2 DEF Mutate
  <2>3. CASE name = "prismcentralendpoint"
    BY <1>7, <2>3 DEF Mutate, G
  <2>4. CASE name = "controlplanefailuredomains"
    BY <1>8, <2>4 DEF Mutate, G
  <2>5. CASE name \in {"cp machinedetails", "machinedetails"}
    BY <1>9, <2>5 DEF Mutate
  <2> QED BY <2>1, <2>2, <2>3, <2>4, <2>5 DEF NutanixNames
<1> QED BY <1>11 DEF G

\* The details of machines, and the mutator that writes them.
DetailsOf(c, t) ==
    IF t.holder = "machineInfrastructureRef" THEN Get(c.cfg, "controlPlane.nutanix.machineDetails")
    ELSE Get(c.wc, "nutanix.machineDetails")
DetailsMutator(t) == IF t.holder = "machineInfrastructureRef" THEN "cp machinedetails" ELSE "machinedetails"
\* Whether the fields say where the machines go: what the details say, or what they said before.
PlacedBy(fields, old, details) ==
    /\ Has(fields, "cluster") <=> Has(old, "cluster") \/ Has(details, "cluster")
    /\ Has(fields, "subnets") <=> Has(old, "subnets") \/ OrElse(details, "subnets", <<>>) # <<>>

\* A mutator and a template of machines.
LEMMA MachineStep ==
    ASSUME NEW c, NEW t, NEW name \in MutatorNames, OnNutanix(t), NoRegistries(c), t.kind = MachineKind, ~t.err
    PROVE  LET u == Mutate(name, c, t)
               details == DetailsOf(c, t)
           IN /\ OnNutanix(u) /\ u.kind = t.kind /\ u.holder = t.holder
              /\ u.err <=> name = DetailsMutator(t) /\ details.found /\ NoImage(details.v)
              /\ ~(name = DetailsMutator(t) /\ details.found) => u.fields = t.fields
              /\ name = DetailsMutator(t) /\ details.found /\ ~NoImage(details.v) => PlacedBy(u.fields, t.fields, details.v)
<1> DEFINE details == DetailsOf(c, t)
           Same(u) == OnNutanix(u) /\ u.kind = t.kind /\ u.holder = t.holder /\ ~u.err /\ u.fields = t.fields
           Failed(u) == OnNutanix(u) /\ u.kind = t.kind /\ u.holder = t.holder /\ u.err
           Written(u, d) == OnNutanix(u) /\ u.kind = t.kind /\ u.holder = t.holder /\ ~u.err /\ PlacedBy(u.fields, t.fields, d)
           cp == InfrastructureControlPlaneMachines(t, "NutanixMachineTemplate")
           worker == InfrastructureWorkerMachineTemplates(t, "NutanixMachineTemplate")
<1>1. /\ cp <=> t.holder = "machineInfrastructureRef"
      /\ worker <=> t.holder # "machineInfrastructureRef"
      /\ ~NutanixCluster(t) /\ DOMAIN t = Fields
  BY DEF InfrastructureControlPlaneMachines, InfrastructureWorkerMachineTemplates, MatchesControlPlane,
         MatchesMachineDeploymentClass, OnNutanix, ClusterKind, MachineKind, NutanixCluster, InfrastructureCluster
<1>2. Same(t)
  OBVIOUS
<1>3. ASSUME NEW d, NEW selected
      PROVE  /\ ~selected => NutanixMachineDetails(t, d, selected) = t
             /\ selected /\ NoImage(d) => Failed(NutanixMachineDetails(t, d, selected))
             /\ selected /\ ~NoImage(d) => Written(NutanixMachineDetails(t, d, selected), d)
  <2> DEFINE names == {n \in {"cluster", "subnets"} : Has(d, n) /\ (n = "subnets" => d[n] # <<>>)}
             placed == [n \in names |-> d[n]]
             image == IF Has(d, "image") THEN "image" ELSE "imageLookup"
             kept == [n \in DOMAIN t.fields \ {"image", "imageLookup"} |-> t.fields[n]]
             over == Over(placed, kept)
             sized == With(over, "size", d.size)
             fields == With(sized, image, d[image])
             u == [t EXCEPT !.fields = fields]
  <2>1. NutanixMachineDetails(t, d, selected) = IF selected THEN IF ~Has(d, image) THEN Fail(t) ELSE u ELSE t
    BY Zenon DEF NutanixMachineDetails, MutateIfApplicable, fields, kept, image, placed, names
  <2>2. Has(d, image) <=> ~NoImage(d)
    BY DEF NoImage
  <2>3. Failed(Fail(t))
    <3>1. DOMAIN Fail(t) = Fields /\ Fail(t).kind = t.kind /\ Fail(t).holder = t.holder /\ Fail(t).err = TRUE
      BY <1>1 DEF Fail, Fields
    <3> QED BY <3>1 DEF OnNutanix
  <2>4. /\ (Has(over, "cluster") <=> Has(t.fields, "cluster") \/ Has(d, "cluster"))
        /\ (Has(over, "subnets") <=> Has(t.fields, "subnets") \/ (Has(d, "subnets") /\ d["subnets"] # <<>>))
    BY DEF Over, Has
  <2>5. image # "cluster" /\ image # "subnets"
    OBVIOUS
  <2> HIDE DEF over, image
  <2>6. \A n \in {"cluster", "subnets"} : Has(fields, n) <=> Has(over, n)
    BY <2>5 DEF With, Has
  <2> HIDE DEF fields
  <2>7. PlacedBy(fields, t.fields, d)
    BY <2>4, <2>6 DEF PlacedBy, OrElse
  <2>8. DOMAIN u = Fields /\ u.kind = t.kind /\ u.holder = t.holder /\ u.err = t.err /\ u.fields = fields
    BY <1>1 DEF Fields
  <2> HIDE DEF u
  <2>9. Written(u, d)
    BY <2>7, <2>8 DEF OnNutanix
  <2> QED BY <2>1, <2>2, <2>3, <2>9
<1>4. CASE name \notin NutanixNames
  <2>1. Alike(t, Mutate(name, c, t))
    BY <1>4, OthersQuiet DEF NutanixNames
  <2>2. Same(Mutate(name, c, t))
    BY <2>1 DEF Alike, OnNutanix
  <2>3. name # DetailsMutator(t)
    BY <1>4 DEF NutanixNames, DetailsMutator
  <2> QED BY <2>2, <2>3
<1>5. CASE name \in {"controlplaneendpoint", "prismcentralendpoint", "controlplanefailuredomains"}
  <2>1. /\ NutanixControlPlaneEndpoint(c, t) = t /\ NutanixPrismCentralEndpoint(c, t) = t
        /\ NutanixControlPlaneFailureDomains(c, t) = t
    BY <1>1, Zenon DEF NutanixControlPlaneEndpoint, NutanixPrismCentralEndpoint, NutanixControlPlaneFailureDomains, Copies,
                MutateIfApplicable
  <2>2. Mutate(name, c, t) = t
    BY <1>5, <2>1 DEF Mutate
  <2>3. name # DetailsMutator(t)
    BY <1>5 DEF DetailsMutator
  <2> QED BY <1>2, <2>2, <2>3
<1>6. CASE name = "cp machinedetails"
  <2>1. Mutate(name, c, t) = NutanixControlPlaneMachineDetails(c, t)
    BY <1>6 DEF Mutate
  <2>2. CASE ~cp
    <3>1. Mutate(name, c, t) = t
      BY <1>3, <2>1, <2>2 DEF NutanixControlPlaneMachineDetails
    <3>2. name # DetailsMutator(t)
      BY <1>1, <1>6, <2>2 DEF DetailsMutator
    <3> QED BY <1>2, <3>1, <3>2
  <2>3. CASE cp
    <3>1. name = DetailsMutator(t) /\ details = Get(c.cfg, "controlPlane.nutanix.machineDetails")
      BY <1>1, <1>6, <2>3 DEF DetailsMutator, DetailsOf
    <3>2. Mutate(name, c, t) = IF ~details.found THEN t ELSE NutanixMachineDetails(t, details.v, cp)
      BY <2>1, <3>1 DEF NutanixControlPlaneMachineDetails
    <3> HIDE DEF details, cp
    <3> QED BY <1>2, <1>3, <2>3, <3>1, <3>2 DEF details
  <2> QED BY <2>2, <2>3
<1>7. CASE name = "machinedetails"
  <2>1. Mutate(name, c, t) = NutanixWorkerMachineDetails(c, t)
    BY <1>7 DEF Mutate
  <2>2. CASE ~worker
    <3>1. Mutate(name, c, t) = t
      BY <1>3, <2>1, <2>2 DEF NutanixWorkerMachineDetails
    <3>2. name # DetailsMutator(t)
      BY <1>1, <1>7, <2>2 DEF DetailsMutator
    <3> QED BY <1>2, <3>1, <3>2
  <2>3. CASE worker
    <3>1. name = DetailsMutator(t) /\ details = Get(c.wc, "nutanix.machineDetails")
      BY <1>1, <1>7, <2>3 DEF DetailsMutator, DetailsOf
    <3>2. Mutate(name, c, t) = IF ~details.found THEN t ELSE NutanixMachineDetails(t, details.v, worker)
      BY <2>1, <3>1 DEF NutanixWorkerMachineDetails
    <3> HIDE DEF details, worker
    <3> QED BY <1>2, <1>3, <2>3, <3>1, <3>2 DEF details
  <2> QED BY <2>2, <2>3
<1> QED BY <1>4, <1>5, <1>6, <1>7 DEF NutanixNames


\* The handlers of Nutanix run these mutators, among others.
LEMMA NutanixHandlers ==
    LET names == MetaPatchHandler("nutanix") \o MetaWorkerPatchHandler("nutanix")
    IN IsList(names) /\ Range(names) \subseteq MutatorNames /\ NutanixNames \subseteq Range(names)
<1> DEFINE M == MetaPatchHandler("nutanix")
           W == MetaWorkerPatchHandler("nutanix")
           x == <<"controlplaneendpoint", "controlplanevirtualip", "prismcentralendpoint",
                  "cp machinedetails", "controlplanefailuredomains">>
           y == <<"machinedetails">>
<1>1. M = (x \o MetaMutators) \o ControlPlaneMetaMutators /\ W = y \o WorkerMetaMutators
  BY DEF MetaPatchHandler, MetaWorkerPatchHandler, NutanixMetaPatchHandler
<1>2. x \in Seq(MutatorNames) /\ y \in Seq(MutatorNames)
  BY DEF MutatorNames, KubeadmNames
<1>3. MetaMutators \in Seq(MutatorNames)
  BY DEF MetaMutators, MutatorNames, KubeadmNames
<1>4. ControlPlaneMetaMutators \in Seq(MutatorNames) /\ WorkerMetaMutators \in Seq(MutatorNames)
  BY DEF ControlPlaneMetaMutators, WorkerMetaMutators, MutatorNames, KubeadmNames
<1>5. NutanixNames \subseteq Range(x) \cup Range(y)
  <2>1. /\ x[1] = "controlplaneendpoint" /\ x[3] = "prismcentralendpoint" /\ x[4] = "cp machinedetails"
        /\ x[5] = "controlplanefailuredomains" /\ y[1] = "machinedetails"
        /\ 1 \in DOMAIN x /\ 3 \in DOMAIN x /\ 4 \in DOMAIN x /\ 5 \in DOMAIN x /\ 1 \in DOMAIN y
    OBVIOUS
  <2> HIDE DEF x, y
  <2> QED BY <2>1 DEF Range, NutanixNames
<1> HIDE DEF M, W, x, y
<1>6. IsList(x \o MetaMutators) /\ Range(x \o MetaMutators) = Range(x) \cup Range(MetaMutators)
  BY <1>2, <1>3, ListOf, ConcatList
<1>7. IsList(M) /\ Range(M) = Range(x) \cup Range(MetaMutators) \cup Range(ControlPlaneMetaMutators)
  BY <1>1, <1>4, <1>6, ListOf, ConcatList
<1>8. IsList(W) /\ Range(W) = Range(y) \cup Range(WorkerMetaMutators)
  BY <1>1, <1>2, <1>4, ListOf, ConcatList
<1>9. IsList(M \o W) /\ Range(M \o W) = Range(M) \cup Range(W)
  BY <1>7, <1>8, ConcatList
<1>10. /\ Range(x) \subseteq MutatorNames /\ Range(y) \subseteq MutatorNames /\ Range(MetaMutators) \subseteq MutatorNames
       /\ Range(ControlPlaneMetaMutators) \subseteq MutatorNames /\ Range(WorkerMetaMutators) \subseteq MutatorNames
  BY <1>2, <1>3, <1>4, ListOf
<1> QED BY <1>5, <1>7, <1>8, <1>9, <1>10 DEF M, W

\* Which mutators have run after n of them.
Ran(names, n, name) == \E k \in 1 .. n : names[k] = name
LEMMA RanFacts ==
    ASSUME NEW names, IsList(names), NEW name
    PROVE  /\ ~Ran(names, 0, name)
           /\ \A n \in Nat : Ran(names, n + 1, name) <=> Ran(names, n, name) \/ names[n + 1] = name
           /\ Ran(names, Len(names), name) <=> name \in Range(names)
<1>1. ASSUME NEW n \in Nat PROVE Ran(names, n + 1, name) <=> Ran(names, n, name) \/ names[n + 1] = name
  <2>1. 1 .. n + 1 = 1 .. n \cup {n + 1}
    OBVIOUS
  <2> QED BY <2>1 DEF Ran
<1>2. Ran(names, Len(names), name) <=> name \in Range(names)
  <2>1. Range(names) = {names[k] : k \in 1 .. Len(names)}
    BY ListFacts
  <2> QED BY <2>1 DEF Ran
<1>3. ~Ran(names, 0, name)
  BY DEF Ran
<1> QED BY <1>1, <1>2, <1>3

\* The template of the cluster in the end: a bundle or a URL that does not parse is an error, and the
\* failure domains are there if there are any.
LEMMA ClusterRun ==
    ASSUME NEW c, NoRegistries(c), c.provider = "nutanix"
    PROVE  LET u == GeneratePatches(c, InfrastructureTemplate("nutanix")) IN
           /\ u.err <=> BadPrismCentral(c.cfg)
           /\ ~u.err => (Has(u.fields, "controlPlaneFailureDomains") <=> FailureDomainsOf(c.cfg) # <<>>)
<1> DEFINE t == InfrastructureTemplate("nutanix")
           names == MetaPatchHandler("nutanix") \o MetaWorkerPatchHandler("nutanix")
           N == Len(names)
           field == "controlPlaneFailureDomains"
           bad == BadPrismCentral(c.cfg)
           some == FailureDomainsOf(c.cfg) # <<>>
<1>1. IsList(names) /\ Range(names) \subseteq MutatorNames /\ NutanixNames \subseteq Range(names)
  BY NutanixHandlers
<1>2. GeneratePatches(c, t) = RunMutators(names, c, t)
  BY DEF GeneratePatches
<1>3. OnNutanix(t) /\ t.kind = ClusterKind /\ ~t.err /\ ~Has(t.fields, field)
  <2>1. /\ DOMAIN t = Fields /\ t.kind = ClusterKind /\ t.holder = "infrastructureRef" /\ t.err = FALSE
        /\ DOMAIN t.fields = {}
    BY DEF InfrastructureTemplate, Template, Kinds, ClusterKind, Fields, NoVariables
  <2> QED BY <2>1 DEF OnNutanix, Has
<1> HIDE DEF t, names
<1>4. PICK run : Follows(run, names, c, t) /\ RunMutators(names, c, t) = run[N]
  BY <1>1, RunIs
<1>5. /\ run[0] = t
      /\ \A n \in 1 .. N : run[n] = IF run[n - 1].err THEN run[n - 1] ELSE Mutate(names[n], c, run[n - 1])
  BY <1>4 DEF Follows
<1>6. N \in Nat /\ \A n \in 1 .. N : names[n] \in MutatorNames
  BY <1>1, ListFacts
<1> DEFINE R(n, name) == Ran(names, n, name)
           Holds(n) == /\ OnNutanix(run[n]) /\ run[n].kind = ClusterKind
                       /\ run[n].err <=> bad /\ R(n, "prismcentralendpoint")
                       /\ ~run[n].err => (Has(run[n].fields, field) <=> some /\ R(n, "controlplanefailuredomains"))
           S == {n \in Nat : n <= N => Holds(n)}
<1>7. 0 \in S
  BY <1>1, <1>3, <1>5, RanFacts
<1>8. ASSUME NEW n \in Nat, n \in S PROVE n + 1 \in S
  <2> SUFFICES ASSUME n + 1 <= N PROVE Holds(n + 1)
    <3>1. n + 1 \in Nat
      OBVIOUS
    <3> QED BY <3>1
  <2>1. n + 1 \in 1 .. N /\ (n + 1) - 1 = n /\ n <= N
    BY <1>6
  <2>2. Holds(n) /\ names[n + 1] \in MutatorNames
    BY <1>6, <1>8, <2>1
  <2>3. run[n + 1] = IF run[n].err THEN run[n] ELSE Mutate(names[n + 1], c, run[n])
    BY <1>5, <2>1
  <2>4. \A name : R(n + 1, name) <=> R(n, name) \/ names[n + 1] = name
    BY <1>1, RanFacts
  <2> HIDE DEF R, bad, some
  <2>5. CASE run[n].err
    BY <2>2, <2>3, <2>4, <2>5
  <2>6. CASE ~run[n].err
    <3> DEFINE u == Mutate(names[n + 1], c, run[n])
    <3>1. /\ OnNutanix(u) /\ u.kind = run[n].kind
          /\ u.err <=> names[n + 1] = "prismcentralendpoint" /\ bad
          /\ Has(u.fields, field)
               <=> Has(run[n].fields, field) \/ (names[n + 1] = "controlplanefailuredomains" /\ some)
      BY <2>2, <2>6, ClusterStep DEF bad, some
    <3>2. run[n + 1] = u
      BY <2>3, <2>6
    <3> HIDE DEF u
    <3> QED BY <2>2, <2>4, <2>6, <3>1, <3>2
  <2> QED BY <2>5, <2>6
<1> HIDE DEF S
<1>9. Nat \subseteq S
  BY <1>7, <1>8, Induct
<1>10. Holds(N)
  BY <1>6, <1>9 DEF S
<1>11. R(N, "prismcentralendpoint") /\ R(N, "controlplanefailuredomains")
  BY <1>1, RanFacts DEF NutanixNames
<1> QED BY <1>2, <1>4, <1>10, <1>11 DEF t

\* A template of machines in the end: details without an image are an error, and otherwise
\* they say where the machines go.
LEMMA MachineRun ==
    ASSUME NEW c, NoRegistries(c), c.provider = "nutanix",
           NEW holder \in {"machineInfrastructureRef", "mdInfrastructureRef"}, NEW pool
    PROVE  LET t == MachineTemplate("nutanix", holder, pool)
               u == GeneratePatches(c, t)
               details == DetailsOf(c, t)
           IN /\ u.err <=> details.found /\ NoImage(details.v)
              /\ ~u.err /\ details.found =>
                   /\ Has(u.fields, "cluster") <=> Has(details.v, "cluster")
                   /\ Has(u.fields, "subnets") <=> OrElse(details.v, "subnets", <<>>) # <<>>
<1> DEFINE t == MachineTemplate("nutanix", holder, pool)
           names == MetaPatchHandler("nutanix") \o MetaWorkerPatchHandler("nutanix")
           N == Len(names)
           details == DetailsOf(c, t)
           mutator == DetailsMutator(t)
<1>1. /\ IsList(names) /\ Range(names) \subseteq MutatorNames /\ NutanixNames \subseteq Range(names)
      /\ mutator \in NutanixNames
  BY NutanixHandlers DEF DetailsMutator, NutanixNames
<1>2. GeneratePatches(c, t) = RunMutators(names, c, t)
  BY DEF GeneratePatches
<1>3. OnNutanix(t) /\ t.kind = MachineKind /\ ~t.err /\ ~Has(t.fields, "cluster") /\ ~Has(t.fields, "subnets")
  <2> DEFINE b == Template("NutanixMachineTemplate", holder, pool)
             w == With(b.fields, "image", "placeholder")
  <2>1. /\ DOMAIN b = Fields /\ b.kind = MachineKind /\ b.holder = holder /\ b.err = FALSE /\ DOMAIN b.fields = {}
    BY DEF Template, MachineKind, Fields, NoVariables
  <2>2. t = [b EXCEPT !.fields = w]
    BY DEF MachineTemplate, Kinds, Put
  <2>3. DOMAIN w = {"image"}
    BY <2>1 DEF With
  <2> HIDE DEF b, w, t
  <2>4. DOMAIN t = Fields /\ t.kind = MachineKind /\ t.holder = holder /\ t.err = FALSE /\ t.fields = w
    BY <2>1, <2>2 DEF Fields
  <2> QED BY <2>3, <2>4 DEF OnNutanix, Has
<1> HIDE DEF t, names
<1>4. PICK run : Follows(run, names, c, t) /\ RunMutators(names, c, t) = run[N]
  BY <1>1, RunIs
<1>5. /\ run[0] = t
      /\ \A n \in 1 .. N : run[n] = IF run[n - 1].err THEN run[n - 1] ELSE Mutate(names[n], c, run[n - 1])
  BY <1>4 DEF Follows
<1>6. N \in Nat /\ \A n \in 1 .. N : names[n] \in MutatorNames
  BY <1>1, ListFacts
<1> DEFINE R(n) == Ran(names, n, mutator)
           Holds(n) == /\ OnNutanix(run[n]) /\ run[n].kind = MachineKind /\ run[n].holder = t.holder
                       /\ run[n].err <=> details.found /\ NoImage(details.v) /\ R(n)
                       /\ ~run[n].err /\ details.found /\ R(n) => PlacedBy(run[n].fields, t.fields, details.v)
                       /\ ~(details.found /\ R(n)) => run[n].fields = t.fields
           S == {n \in Nat : n <= N => Holds(n)}
<1>7. 0 \in S
  BY <1>1, <1>3, <1>5, RanFacts
<1>8. ASSUME NEW n \in Nat, n \in S PROVE n + 1 \in S
  <2> SUFFICES ASSUME n + 1 <= N PROVE Holds(n + 1)
    <3>1. n + 1 \in Nat
      OBVIOUS
    <3> QED BY <3>1
  <2>1. n + 1 \in 1 .. N /\ (n + 1) - 1 = n /\ n <= N
    BY <1>6
  <2>2. Holds(n) /\ names[n + 1] \in MutatorNames
    BY <1>6, <1>8, <2>1
  <2>3. run[n + 1] = IF run[n].err THEN run[n] ELSE Mutate(names[n + 1], c, run[n])
    BY <1>5, <2>1
  <2>4. R(n + 1) <=> R(n) \/ names[n + 1] = mutator
    BY <1>1, RanFacts
  <2>5. DetailsOf(c, run[n]) = details /\ DetailsMutator(run[n]) = mutator
    BY <2>2 DEF DetailsOf, DetailsMutator
  <2> HIDE DEF R, details, mutator
  <2>6. CASE run[n].err
    BY <2>2, <2>3, <2>4, <2>6
  <2>7. CASE ~run[n].err
    <3> DEFINE u == Mutate(names[n + 1], c, run[n])
               now == names[n + 1] = mutator
    <3>1. /\ OnNutanix(u) /\ u.kind = run[n].kind /\ u.holder = run[n].holder
          /\ u.err <=> now /\ details.found /\ NoImage(details.v)
          /\ ~(now /\ details.found) => u.fields = run[n].fields
          /\ now /\ details.found /\ ~NoImage(details.v) => PlacedBy(u.fields, run[n].fields, details.v)
      BY <2>2, <2>5, <2>7, MachineStep
    <3>2. run[n + 1] = u
      BY <2>3, <2>7
    <3> HIDE DEF u
    <3>3. ASSUME PlacedBy(u.fields, run[n].fields, details.v), details.found PROVE PlacedBy(u.fields, t.fields, details.v)
      <4>1. PlacedBy(run[n].fields, t.fields, details.v) \/ run[n].fields = t.fields
        BY <2>2, <2>7, <3>3
      <4> QED BY <3>3, <4>1 DEF PlacedBy
    <3> HIDE DEF now
    <3>4. now <=> names[n + 1] = mutator
      BY DEF now
    <3>5. OnNutanix(run[n + 1]) /\ run[n + 1].kind = MachineKind /\ run[n + 1].holder = t.holder
      BY <2>2, <3>1, <3>2
    <3>6. run[n + 1].err <=> details.found /\ NoImage(details.v) /\ R(n + 1)
      BY <2>2, <2>4, <2>7, <3>1, <3>2, <3>4
    <3>7. ~(details.found /\ R(n + 1)) => run[n + 1].fields = t.fields
      BY <2>2, <2>4, <2>7, <3>1, <3>2, <3>4
    <3>8. ~run[n + 1].err /\ details.found /\ R(n + 1) => PlacedBy(run[n + 1].fields, t.fields, details.v)
      BY <2>2, <2>4, <2>7, <3>1, <3>2, <3>3, <3>4
    <3> QED BY <3>5, <3>6, <3>7, <3>8
  <2> QED BY <2>6, <2>7
<1> HIDE DEF S
<1>9. Nat \subseteq S
  BY <1>7, <1>8, Induct
<1>10. Holds(N)
  BY <1>6, <1>9 DEF S
<1>11. R(N)
  BY <1>1, RanFacts
<1> QED BY <1>2, <1>3, <1>4, <1>10, <1>11 DEF t, PlacedBy


\* The context of a request on the templates of the infrastructure.
LEMMA InfrastructureContext ==
    ASSUME NEW i \in DOMAIN Table, NEW registry \in BOOLEAN, NEW cp, NEW t
    PROVE  LET x == CallWith(i, registry, cp, <<>>)
               s == Defaults[i][registry]
               c == WithoutRegistries(Context(x, t))
           IN /\ SpecOf(x) = s /\ c.provider = s.provider /\ NoRegistries(c)
              /\ c.wc = IF t = 0 THEN s.wc ELSE WorkerConfig(s, t)
              /\ \A n : n \notin {"imageRegistries", "globalImageRegistryMirror"} => Get(c.cfg, n) = Get(s.cfg, n)
<1> DEFINE x == CallWith(i, registry, cp, <<>>)
           s == Defaults[i][registry]
           d == Context(x, t)
           c == WithoutRegistries(d)
<1>1. x.spec = i /\ x.registry = registry
  BY Zenon DEF CallWith
<1>2. SpecOf(x) = s
  BY <1>1 DEF SpecOf
<1>3. /\ d.provider = s.provider /\ d.cfg = s.cfg /\ d.wc = (IF t = 0 THEN s.wc ELSE WorkerConfig(s, t))
      /\ DOMAIN d = {"provider", "v6", "cfg", "wc", "builtin", "seen", "secrets", "cas"}
  BY <1>2 DEF Context, ContextOf
<1> HIDE DEF x, s, d
<1>4. /\ c.provider = d.provider /\ c.wc = d.wc
      /\ c.cfg = [n \in DOMAIN d.cfg \ {"imageRegistries", "globalImageRegistryMirror"} |-> d.cfg[n]]
  BY <1>3 DEF WithoutRegistries
<1> HIDE DEF c
<1>5. NoRegistries(c)
  BY <1>4 DEF NoRegistries, ImageRegistries, GlobalMirror, OrElse, Has
<1>6. ASSUME NEW n, n \notin {"imageRegistries", "globalImageRegistryMirror"} PROVE Get(c.cfg, n) = Get(s.cfg, n)
  <2>1. (n \in DOMAIN c.cfg <=> n \in DOMAIN s.cfg) /\ (n \in DOMAIN c.cfg => c.cfg[n] = s.cfg[n])
    BY <1>3, <1>4, <1>6
  <2> QED BY <2>1 DEF Get
<1> QED BY <1>2, <1>3, <1>4, <1>5, <1>6 DEF x, s, d, c

\* The template of a request's cluster.
LEMMA ClusterIs ==
    ASSUME NEW i \in DOMAIN Table, NEW registry \in BOOLEAN, NEW cp, Defaults[i][registry].provider = "nutanix"
    PROVE  LET u == ClusterTemplate(CallWith(i, registry, cp, <<>>))
               cfg == Defaults[i][registry].cfg
           IN /\ u.err <=> BadPrismCentral(cfg)
              /\ ~u.err => (Has(u.fields, "controlPlaneFailureDomains") <=> FailureDomainsOf(cfg) # <<>>)
<1> DEFINE x == CallWith(i, registry, cp, <<>>)
           s == Defaults[i][registry]
           c == WithoutRegistries(Context(x, 0))
           u == ClusterTemplate(x)
<1>1. /\ SpecOf(x) = s /\ c.provider = "nutanix" /\ NoRegistries(c)
      /\ \A n : n \notin {"imageRegistries", "globalImageRegistryMirror"} => Get(c.cfg, n) = Get(s.cfg, n)
  BY InfrastructureContext
<1> HIDE DEF x, s, c
<1>2. u = GeneratePatches(c, InfrastructureTemplate("nutanix"))
  BY <1>1 DEF ClusterTemplate, c, s
<1> HIDE DEF u
<1>3. BadPrismCentral(c.cfg) <=> BadPrismCentral(s.cfg)
  BY <1>1 DEF BadPrismCentral
<1>4. FailureDomainsOf(c.cfg) = FailureDomainsOf(s.cfg)
  <2>1. Get(c.cfg, "controlPlane.nutanix.failureDomains") = Get(s.cfg, "controlPlane.nutanix.failureDomains")
    BY <1>1
  <2> QED BY <2>1 DEF FailureDomainsOf, OrElse, Has, Get
<1>5. /\ u.err <=> BadPrismCentral(c.cfg)
      /\ ~u.err => (Has(u.fields, "controlPlaneFailureDomains") <=> FailureDomainsOf(c.cfg) # <<>>)
  BY <1>1, <1>2, ClusterRun
<1> QED BY <1>3, <1>4, <1>5 DEF u, x, s

\* The details of a request's machines: the control plane's, or those of a pool.
RequestDetails(s, t) ==
    IF t = 0 THEN Get(s.cfg, "controlPlane.nutanix.machineDetails") ELSE Get(WorkerConfig(s, t), "nutanix.machineDetails")
\* The templates of these machines.
LEMMA MachinesAre ==
    ASSUME NEW i \in DOMAIN Table, NEW registry \in BOOLEAN, NEW cp, NEW t, Defaults[i][registry].provider = "nutanix"
    PROVE  LET u == Machines(CallWith(i, registry, cp, <<>>), t)
               details == RequestDetails(Defaults[i][registry], t)
           IN /\ u.err <=> details.found /\ NoImage(details.v)
              /\ ~u.err /\ details.found =>
                   /\ Has(u.fields, "cluster") <=> Has(details.v, "cluster")
                   /\ Has(u.fields, "subnets") <=> OrElse(details.v, "subnets", <<>>) # <<>>
<1> DEFINE x == CallWith(i, registry, cp, <<>>)
           s == Defaults[i][registry]
           c == WithoutRegistries(Context(x, t))
           u == Machines(x, t)
           details == RequestDetails(s, t)
           holder == IF t = 0 THEN "machineInfrastructureRef" ELSE "mdInfrastructureRef"
           pool == IF t = 0 THEN "" ELSE s.pools[t].name
           t0 == MachineTemplate("nutanix", holder, pool)
<1>1. /\ SpecOf(x) = s /\ c.provider = "nutanix" /\ NoRegistries(c)
      /\ c.wc = IF t = 0 THEN s.wc ELSE WorkerConfig(s, t)
      /\ \A n : n \notin {"imageRegistries", "globalImageRegistryMirror"} => Get(c.cfg, n) = Get(s.cfg, n)
  BY InfrastructureContext
<1>2. t0.holder = holder
  BY DEF MachineTemplate, Kinds, Put, Template
<1>3. s.provider = "nutanix"
  OBVIOUS
<1> HIDE DEF x, s, c
<1>4. u = GeneratePatches(c, t0)
  BY <1>1, <1>3, Zenon DEF Machines, c, t0, holder, pool
<1>5. holder \in {"machineInfrastructureRef", "mdInfrastructureRef"}
  OBVIOUS
<1>6. DetailsOf(c, t0) = details
  BY <1>1, <1>2 DEF DetailsOf, RequestDetails
<1> HIDE DEF u, details, holder, pool
<1>7. LET d == DetailsOf(c, t0) IN
      /\ u.err <=> d.found /\ NoImage(d.v)
      /\ ~u.err /\ d.found =>
           /\ Has(u.fields, "cluster") <=> Has(d.v, "cluster")
           /\ Has(u.fields, "subnets") <=> OrElse(d.v, "subnets", <<>>) # <<>>
  BY <1>1, <1>4, <1>5, MachineRun
<1> QED BY <1>6, <1>7 DEF u, x, s, details

\* Where no mutator fails, the machines are placed once: by failure domains, or by their
\* details.
LEMMA Placed ==
    ASSUME NEW i \in DOMAIN Table, NEW registry \in BOOLEAN, NutanixAllows(Defaults[i][registry]),
           Defaults[i][registry].provider = "nutanix", ~ClusterTemplateFails[i], ~MachinesFail[i]
    PROVE  LET x == Sample(i, registry)
               s == Defaults[i][registry]
           IN /\ PlacedOnce(Machines(x, 0), Has(ClusterTemplate(x).fields, "controlPlaneFailureDomains"),
                            Has(s.cfg, "controlPlane.nutanix.machineDetails"))
              /\ \A t \in DOMAIN s.pools : PlacedOnce(Machines(x, t), s.pools[t].failureDomain # "",
                                                      Has(WorkerConfig(s, t), "nutanix.machineDetails"))
<1> DEFINE x == Sample(i, registry)
           z == CallWith(i, FALSE, 0, <<>>)
           s == Defaults[i][registry]
           d == Defaults[i][FALSE]
<1>1. /\ s.provider = "nutanix" /\ d.provider = "nutanix" /\ s.pools = d.pools /\ s.wc = d.wc /\ IsList(s.pools)
      /\ \A n : n \notin Rewritten => Get(s.cfg, n) = Get(d.cfg, n)
      /\ s.pools = Table[i].pools
  <2>1. Keeps(Table[i], s) /\ Keeps(Table[i], d) /\ WellFormed(Table[i])
    BY TableFacts
  <2> HIDE DEF s, d
  <2>2. ASSUME NEW n, n \notin Rewritten PROVE Get(s.cfg, n) = Get(d.cfg, n)
    <3>1. n \in DOMAIN s.cfg <=> n \in DOMAIN d.cfg
      BY <2>1, <2>2 DEF Keeps
    <3>2. n \in DOMAIN s.cfg => s.cfg[n] = d.cfg[n]
      BY <2>1, <2>2 DEF Keeps
    <3> QED BY <3>1, <3>2 DEF Get
  <2> QED BY <2>1, <2>2 DEF Keeps, WellFormed, s
<1>2. ~ClusterTemplate(z).err /\ \A t \in 0 .. Len(s.pools) : ~Machines(z, t).err
  <2> DEFINE cluster0(j) == ClusterTemplate(CallWith(j, FALSE, 0, <<>>)).err
             machines0(j) == \E t \in 0 .. Len(Table[j].pools) : Machines(CallWith(j, FALSE, 0, <<>>), t).err
  <2>0. /\ ClusterTemplateFails = [j \in DOMAIN Table |-> cluster0(j)]
        /\ MachinesFail = [j \in DOMAIN Table |-> machines0(j)]
    BY Tables, Zenon DEF ClusterTemplateFails, MachinesFail
  <2> HIDE DEF cluster0, machines0
  <2>1. ClusterTemplateFails[i] = ClusterTemplate(z).err
    BY <2>0, Zenon DEF cluster0
  <2>2. MachinesFail[i] = \E t \in 0 .. Len(Table[i].pools) : Machines(z, t).err
    BY <2>0, Zenon DEF machines0
  <2> HIDE DEF z, s
  <2> QED BY <1>1, <2>1, <2>2
<1>3. /\ ClusterTemplate(z).err <=> BadPrismCentral(d.cfg)
      /\ ClusterTemplate(x).err <=> BadPrismCentral(s.cfg)
      /\ ~ClusterTemplate(x).err =>
           (Has(ClusterTemplate(x).fields, "controlPlaneFailureDomains") <=> FailureDomainsOf(s.cfg) # <<>>)
  BY <1>1, ClusterIs DEF Sample
<1>4. \A t : LET u == Machines(z, t)
                 details == RequestDetails(d, t)
             IN u.err <=> details.found /\ NoImage(details.v)
  BY <1>1, MachinesAre
<1>5. \A t : LET u == Machines(x, t)
                 details == RequestDetails(s, t)
             IN /\ u.err <=> details.found /\ NoImage(details.v)
                /\ ~u.err /\ details.found =>
                     /\ Has(u.fields, "cluster") <=> Has(details.v, "cluster")
                     /\ Has(u.fields, "subnets") <=> OrElse(details.v, "subnets", <<>>) # <<>>
  BY <1>1, MachinesAre DEF Sample
<1>6. NutanixAllows(s)
  OBVIOUS
<1> HIDE DEF x, z, s, d
<1>7. \A t : RequestDetails(s, t) = RequestDetails(d, t)
  <2>1. "controlPlane.nutanix.machineDetails" \notin Rewritten
    BY DEF Rewritten
  <2> QED BY <1>1, <2>1 DEF RequestDetails, WorkerConfig
<1>8. BadPrismCentral(s.cfg) <=> BadPrismCentral(d.cfg)
  <2>1. "nutanix.prismCentralEndpoint" \notin Rewritten
    BY DEF Rewritten
  <2> QED BY <1>1, <2>1 DEF BadPrismCentral
<1>9. Has(ClusterTemplate(x).fields, "controlPlaneFailureDomains") <=> FailureDomainsOf(s.cfg) # <<>>
  BY <1>2, <1>3, <1>8
<1>10. ASSUME NEW t \in 0 .. Len(s.pools), RequestDetails(s, t).found
       PROVE  /\ Has(Machines(x, t).fields, "cluster") <=> Has(RequestDetails(s, t).v, "cluster")
              /\ Has(Machines(x, t).fields, "subnets") <=> OrElse(RequestDetails(s, t).v, "subnets", <<>>) # <<>>
  BY <1>2, <1>4, <1>5, <1>7, <1>10
<1>11. ControlPlanePlaced(s.cfg) /\ WorkersPlaced(s)
  BY <1>1, <1>6 DEF NutanixAllows
<1>12. DOMAIN s.pools = 1 .. Len(s.pools) /\ Len(s.pools) \in Nat
  BY <1>1, ListFacts
<1>13. PlacedOnce(Machines(x, 0), Has(ClusterTemplate(x).fields, "controlPlaneFailureDomains"),
                  Has(s.cfg, "controlPlane.nutanix.machineDetails"))
  <2> DEFINE details == s.cfg["controlPlane.nutanix.machineDetails"]
             failureDomains == FailureDomainsOf(s.cfg) # <<>>
  <2> SUFFICES ASSUME Has(s.cfg, "controlPlane.nutanix.machineDetails")
               PROVE  PlacedOnce(Machines(x, 0), Has(ClusterTemplate(x).fields, "controlPlaneFailureDomains"), TRUE)
    BY DEF PlacedOnce
  <2>1. RequestDetails(s, 0).found /\ RequestDetails(s, 0).v = details
    BY DEF RequestDetails, Get, Has
  <2>2. FailureDomainXORMachineDetails(failureDomains, details)
    BY <1>11 DEF ControlPlanePlaced, FailureDomainsOf
  <2>3. 0 \in 0 .. Len(s.pools)
    BY <1>12
  <2> HIDE DEF details, failureDomains
  <2>4. /\ Has(details, "cluster") <=> ~failureDomains
        /\ OrElse(details, "subnets", <<>>) # <<>> <=> ~failureDomains
    BY <2>2 DEF FailureDomainXORMachineDetails, Has
  <2>5. /\ Has(Machines(x, 0).fields, "cluster") <=> ~failureDomains
        /\ Has(Machines(x, 0).fields, "subnets") <=> ~failureDomains
    BY <1>10, <2>1, <2>3, <2>4
  <2> QED BY <1>9, <2>5 DEF PlacedOnce, Has, failureDomains
<1>14. ASSUME NEW t \in DOMAIN s.pools, Has(WorkerConfig(s, t), "nutanix.machineDetails")
       PROVE  PlacedOnce(Machines(x, t), s.pools[t].failureDomain # "", Has(WorkerConfig(s, t), "nutanix.machineDetails"))
  <2> DEFINE details == WorkerConfig(s, t)["nutanix.machineDetails"]
             failureDomain == s.pools[t].failureDomain # ""
  <2>1. t # 0 /\ t \in 0 .. Len(s.pools)
    BY <1>12
  <2>2. RequestDetails(s, t).found /\ RequestDetails(s, t).v = details
    BY <1>14, <2>1 DEF RequestDetails, Get, Has
  <2>3. FailureDomainXORMachineDetails(failureDomain, details)
    BY <1>11, <1>14 DEF WorkersPlaced
  <2> HIDE DEF details, failureDomain
  <2>4. /\ Has(details, "cluster") <=> ~failureDomain
        /\ OrElse(details, "subnets", <<>>) # <<>> <=> ~failureDomain
    BY <2>3 DEF FailureDomainXORMachineDetails, Has
  <2>5. /\ Has(Machines(x, t).fields, "cluster") <=> ~failureDomain
        /\ Has(Machines(x, t).fields, "subnets") <=> ~failureDomain
    BY <1>10, <2>1, <2>2, <2>4
  <2>6. /\ Has(Machines(x, t).fields, "cluster") = ~failureDomain
        /\ Has(Machines(x, t).fields, "subnets") = ~failureDomain
    <3>1. failureDomain \in BOOLEAN
      BY DEF failureDomain
    <3>2. \A v, n : Has(v, n) \in BOOLEAN
      BY DEF Has
    <3> QED BY <2>5, <3>1, <3>2
  <2> QED BY <2>6, Zenon DEF PlacedOnce, failureDomain
<1>15. \A t \in DOMAIN s.pools : PlacedOnce(Machines(x, t), s.pools[t].failureDomain # "",
                                            Has(WorkerConfig(s, t), "nutanix.machineDetails"))
  BY <1>14 DEF PlacedOnce
<1> QED BY <1>13, <1>15 DEF x, s

\* A request that the webhooks admit and no mutator refuses is sound.
LEMMA SoundSample ==
    ASSUME NEW i \in DOMAIN Table, NEW registry \in BOOLEAN, Admitted[i][registry],
           ~ClusterTemplateFails[i], ~MachinesFail[i]
    PROVE  SoundClusters[i][registry]
<1> DEFINE x == Sample(i, registry)
           s == Defaults[i][registry]
           infra == ClusterTemplate(x)
           nodes == [t \in 0 .. Len(Table[i].pools) |-> NodeTemplate(x, t)]
           machines == [t \in 0 .. Len(Table[i].pools) |-> Machines(x, t)]
<1>1. Allowed(s)
  <2>1. Admitted = [j \in DOMAIN Table |-> Tabulated([r \in BOOLEAN |-> Allowed(Defaults[j][r])])]
    BY Tables DEF Admitted
  <2>2. Admitted[i] = [r \in BOOLEAN |-> Allowed(Defaults[i][r])]
    BY <2>1, Tables
  <2> QED BY <2>2
<1>2. NutanixAllows(s) /\ CiliumAllows(s) /\ KubeletAllows(s) /\ MetroAllows(s)
  BY <1>1 DEF Allowed
<1>3. s.pools = Table[i].pools /\ IsList(s.pools)
  BY TableFacts DEF Keeps
<1>4. Len(s.pools) \in Nat /\ DOMAIN s.pools = 1 .. Len(s.pools)
  BY <1>3, ListFacts
<1>5. \A t \in 0 .. Len(s.pools) : ReservedOneWay(NodeTemplate(x, t))
  BY <1>2, Reserved
<1>6. PrismCentralReachable(s.cfg, NodeTemplate(x, 0), infra)
  BY <1>2, Reachable
<1>7. ServicesRouted(s, NodeTemplate(x, 0))
  BY <1>2, Routed
<1>8. s.provider = "nutanix" =>
        /\ PlacedOnce(Machines(x, 0), Has(infra.fields, "controlPlaneFailureDomains"),
                      Has(s.cfg, "controlPlane.nutanix.machineDetails"))
        /\ \A t \in DOMAIN s.pools : PlacedOnce(Machines(x, t), s.pools[t].failureDomain # "",
                                                Has(WorkerConfig(s, t), "nutanix.machineDetails"))
  BY <1>2, Placed
<1>9. IsMetroCluster(s) => \A k \in DOMAIN Affinities(s.cfg) : Affinities(s.cfg)[k] = "DISABLED"
  BY <1>2, Unbound
<1>10. SoundClusters[i][registry] = Sound(s, infra, nodes, machines)
  <2> DEFINE row(j, r) == LET y == CallWith(j, r, Lowest, <<>>)
                          IN Sound(Defaults[j][r], ClusterTemplate(y),
                                   [t \in 0 .. Len(Table[j].pools) |-> NodeTemplate(y, t)],
                                   [t \in 0 .. Len(Table[j].pools) |-> Machines(y, t)])
  <2>1. SoundClusters = [j \in DOMAIN Table |-> Tabulated([r \in BOOLEAN |-> row(j, r)])]
    BY Tables, Zenon DEF SoundClusters
  <2>2. row(i, registry) = Sound(s, infra, nodes, machines)
    BY Zenon DEF Sample
  <2> HIDE DEF row, x, s, infra, nodes, machines
  <2>3. SoundClusters[i] = [r \in BOOLEAN |-> row(i, r)]
    BY <2>1, Tables
  <2> QED BY <2>2, <2>3
<1> HIDE DEF x, s, infra
<1>11. /\ DOMAIN nodes = 0 .. Len(s.pools) /\ nodes[0] = NodeTemplate(x, 0) /\ machines[0] = Machines(x, 0)
       /\ \A t \in 0 .. Len(s.pools) : nodes[t] = NodeTemplate(x, t)
       /\ \A t \in DOMAIN s.pools : machines[t] = Machines(x, t)
  BY <1>3, <1>4
<1> HIDE DEF nodes, machines
<1>12. Sound(s, infra, nodes, machines)
  <2>1. /\ \A t \in DOMAIN nodes : ReservedOneWay(nodes[t])
        /\ PrismCentralReachable(s.cfg, nodes[0], infra) /\ ServicesRouted(s, nodes[0])
    BY <1>5, <1>6, <1>7, <1>11
  <2>2. s.provider = "nutanix" =>
          /\ PlacedOnce(machines[0], Has(infra.fields, "controlPlaneFailureDomains"),
                        Has(s.cfg, "controlPlane.nutanix.machineDetails"))
          /\ \A t \in DOMAIN s.pools : PlacedOnce(machines[t], s.pools[t].failureDomain # "",
                                                  Has(WorkerConfig(s, t), "nutanix.machineDetails"))
    <3> SUFFICES ASSUME s.provider = "nutanix"
                 PROVE  /\ PlacedOnce(machines[0], Has(infra.fields, "controlPlaneFailureDomains"),
                                      Has(s.cfg, "controlPlane.nutanix.machineDetails"))
                        /\ \A t \in DOMAIN s.pools : PlacedOnce(machines[t], s.pools[t].failureDomain # "",
                                                                Has(WorkerConfig(s, t), "nutanix.machineDetails"))
      OBVIOUS
    <3>1. PlacedOnce(machines[0], Has(infra.fields, "controlPlaneFailureDomains"),
                     Has(s.cfg, "controlPlane.nutanix.machineDetails"))
      BY <1>8, <1>11, Zenon
    <3>2. ASSUME NEW t \in DOMAIN s.pools
          PROVE  PlacedOnce(machines[t], s.pools[t].failureDomain # "", Has(WorkerConfig(s, t), "nutanix.machineDetails"))
      BY <1>8, <1>11, Zenon
    <3> QED BY <3>1, <3>2
  <2> QED BY <1>9, <2>1, <2>2, Zenon DEF Sound
<1> QED BY <1>10, <1>12


\* What the Cluster, the call and the answer come from was admitted, or is older than the
\* webhooks, and the mutators that read nothing have not failed.
RequestOK(x) ==
    x.spec # 0 => /\ x.spec \in DOMAIN Table /\ x.registry \in BOOLEAN
                  /\ x.spec \in Legacy \/ Admitted[x.spec][x.registry]
AdmissionOK(now, asked, used) ==
    /\ RequestOK(now) /\ RequestOK(asked) /\ RequestOK(used)
    /\ asked # NoCall => ~ClusterTemplateFails[asked.spec]
    /\ used # NoCall => ~ClusterTemplateFails[used.spec] /\ ~MachinesFail[used.spec]
AdmissionInv == AdmissionOK(cluster, call, answer)

\* It is so in the beginning.
LEMMA AdmissionInit == Init => AdmissionInv
<1> SUFFICES ASSUME Init PROVE AdmissionOK(cluster, call, answer)
  BY DEF AdmissionInv
<1>1. PICK i \in {0} \cup Legacy : cluster = [spec |-> i, registry |-> FALSE, uuid |-> 0]
  BY DEF Init
<1>2. cluster.spec = i /\ cluster.registry = FALSE /\ call = NoCall /\ answer = NoCall
  BY <1>1 DEF Init
<1>3. Legacy \subseteq DOMAIN Table
  BY RequestsAssumption DEF Table
<1>4. RequestOK(cluster)
  BY <1>2, <1>3 DEF RequestOK
<1>5. RequestOK(NoCall)
  BY DEF RequestOK, NoCall
<1> QED BY <1>2, <1>4, <1>5 DEF AdmissionOK

\* Every step keeps it so: only the webhooks' door leads in.
LEMMA AdmissionStep == TopologyInv /\ AdmissionInv /\ [Next]_vars => AdmissionInv'
<1> SUFFICES ASSUME TopologyInv, AdmissionOK(cluster, call, answer), [Next]_vars
             PROVE  AdmissionOK(cluster', call', answer')
  BY DEF AdmissionInv
<1>1. RequestOK(NoCall)
  BY DEF RequestOK, NoCall
<1>2. ASSUME cluster' = cluster, answer' = answer, call' \in {call, NoCall}
      PROVE  AdmissionOK(cluster', call', answer')
  BY <1>1, <1>2 DEF AdmissionOK
<1>3. CASE UNCHANGED vars
  BY <1>2, <1>3 DEF vars
<1>4. ASSUME NEW i \in DOMAIN Table, NEW uuid, NEW keep \in BOOLEAN, Submit(i, uuid, keep)
      PROVE  AdmissionOK(cluster', call', answer')
  <2> DEFINE registry == keep \/ AutoEnables(Table[i], management)
             uuidOf == UUIDDefaulter(cluster.uuid, uuid, cluster.uuid + 1)
  <2>1. /\ Admitted[i][registry] /\ cluster' = [spec |-> i, registry |-> registry, uuid |-> uuidOf]
        /\ call' = call /\ answer' = answer
    BY <1>4 DEF Submit
  <2>2. registry \in BOOLEAN
    OBVIOUS
  <2> HIDE DEF registry, uuidOf
  <2>3. cluster'.spec = i /\ cluster'.registry = registry
    BY <2>1
  <2>4. RequestOK(cluster')
    BY <2>1, <2>2, <2>3 DEF RequestOK
  <2> QED BY <2>1, <2>4 DEF AdmissionOK
<1>5. ASSUME NEW cp, Begin(cp) PROVE AdmissionOK(cluster', call', answer')
  <2> DEFINE x == [spec |-> cluster.spec, registry |-> cluster.registry, cp |-> cp, reads |-> <<>>]
  <2>1. /\ call' = IF ClusterTemplateFails[cluster.spec] THEN NoCall ELSE x
        /\ cluster' = cluster /\ answer' = answer
    BY <1>5 DEF Begin
  <2>2. x.spec = cluster.spec /\ x.registry = cluster.registry
    OBVIOUS
  <2> HIDE DEF x
  <2>3. RequestOK(x)
    BY <2>2 DEF RequestOK, AdmissionOK
  <2> QED BY <1>1, <2>1, <2>2, <2>3 DEF AdmissionOK
<1>6. CASE Finish
  <2>1. /\ call # NoCall /\ call' = NoCall /\ cluster' = cluster
        /\ answer' = IF Fails(call) THEN answer ELSE call
    BY <1>6 DEF Finish
  <2>2. ~Fails(call) => ~MachinesFail[call.spec]
    BY DEF Fails
  <2> QED BY <1>1, <2>1, <2>2 DEF AdmissionOK
<1>7. CASE Step
  <2>1. /\ call # NoCall /\ cluster' = cluster /\ answer' = answer
        /\ call' \in {NoCall, [call EXCEPT !.reads = Append(@, Read(call))]}
    BY <1>7 DEF Step, Advance
  <2> DEFINE x == [call EXCEPT !.reads = Append(@, Read(call))]
  <2>2. IsCall(call)
    BY <2>1 DEF TopologyInv, CallsOK, CallOK
  <2>3. x.spec = call.spec /\ x.registry = call.registry
    BY <2>2 DEF IsCall
  <2> HIDE DEF x
  <2>4. RequestOK(x)
    BY <2>3 DEF RequestOK, AdmissionOK
  <2>5. call' = NoCall \/ call' = x
    BY <2>1 DEF x
  <2> QED BY <1>1, <2>1, <2>3, <2>4, <2>5 DEF AdmissionOK
<1>8. CASE ZombieStep
  BY <1>2, <1>8 DEF ZombieStep, Advance
<1>9. CASE BeforeClusterCreate \/ EnableManagementRegistry \/ ZombieEnds \/ APIError \/ Timeout \/ Crash
  BY <1>2, <1>9 DEF BeforeClusterCreate, EnableManagementRegistry, ZombieEnds, APIError, Timeout, Crash
<1>10. CASE (\E v \in Versions : Upgrade(v)) \/ (\E o \in Objects : Sync(o))
            \/ (\E s \in SecretNames : \E content \in 0 .. Len(Contents[s]) : Rotate(s, content))
  BY <1>2, <1>10 DEF Upgrade, Sync, Rotate
<1> QED BY <1>3, <1>4, <1>5, <1>6, <1>7, <1>8, <1>9, <1>10 DEF Next, Reconcile

\* Where it is so, the answer that CAPI uses is sound.
LEMMA AnswerSound == TopologyInv /\ AdmissionInv => AdmittedClustersSound
<1> SUFFICES ASSUME TopologyInv, AdmissionOK(cluster, call, answer), answer # NoCall,
                    answer.spec \in Legacy => Admitted[answer.spec][answer.registry]
             PROVE  SoundClusters[answer.spec][answer.registry]
  BY DEF AdmissionInv, AdmittedClustersSound
<1>1. IsCall(answer)
  BY DEF TopologyInv, CallsOK, CallOK
<1>2. answer.spec \in DOMAIN Table /\ answer.registry \in BOOLEAN
  BY <1>1 DEF IsCall
<1>3. answer.spec # 0
  BY <1>2, TableList
<1>4. Admitted[answer.spec][answer.registry]
  BY <1>3 DEF AdmissionOK, RequestOK
<1>5. ~ClusterTemplateFails[answer.spec] /\ ~MachinesFail[answer.spec]
  BY DEF AdmissionOK
<1> QED BY <1>2, <1>4, <1>5, SoundSample

------------------------------------------------------------------------------
(* Rotations *)

\* Contexts that differ in the Secrets and CAs that were read and in nothing else.
SameButSecrets(c, d) ==
    /\ c.provider = d.provider /\ c.v6 = d.v6 /\ c.cfg = d.cfg /\ c.wc = d.wc
    /\ c.builtin = d.builtin /\ c.seen = d.seen
\* No mutator but those of the registries looks at them.
LEMMA AWSSame ==
    ASSUME NEW c, NEW d, SameButSecrets(c, d), NEW t, NEW name
    PROVE  MutateAWS(name, c, t) = MutateAWS(name, d, t)
  BY Zenon DEF SameButSecrets, MutateAWS, AWSClusterTags, AWSRegion, AWSNetwork, AWSControlPlaneLoadBalancer,
     AWSIdentityRef, AWSControlPlaneTags, AWSControlPlaneIAMInstanceProfile, AWSControlPlaneInstanceType,
     AWSControlPlaneAMI, AWSControlPlaneSecurityGroups, AWSControlPlaneVolumes, AWSControlPlanePlacementGroup,
     AWSControlPlanePlacementGroupNFD, AWSWorkerTags, AWSWorkerAMI, AWSWorkerSecurityGroups, AWSWorkerVolumes,
     AWSWorkerPlacementGroupNFD, EKSRegion, EKSNetwork, EKSIdentityRef, EKSClusterTags, EKSWorkerIAMInstanceProfile,
     EKSWorkerInstanceType, EKSWorkerAMI, EKSWorkerSecurityGroups, EKSWorkerVolumes, EKSWorkerPlacementGroup,
     EKSWorkerPlacementGroupNFD, EKSWorkerTags

\* The mutators of all providers together.
LEMMA MutatorsSame ==
    ASSUME NEW c, NEW d, SameButSecrets(c, d), NEW t, NEW name, name \notin {"credentials", "mirrors"}
    PROVE  Mutate(name, c, t) = Mutate(name, d, t)
<1>1. MutateAWS(name, c, t) = MutateAWS(name, d, t)
  BY AWSSame
<1>2. \A kubelet : ApplyDeprecatedMaxParallelImagePulls(c, kubelet) = ApplyDeprecatedMaxParallelImagePulls(d, kubelet)
  BY Zenon DEF SameButSecrets, ApplyDeprecatedMaxParallelImagePulls
<1>3. \A endpoint : KubeVIPFromTemplate(c, t, endpoint) = KubeVIPFromTemplate(d, t, endpoint)
  BY Zenon DEF SameButSecrets, KubeVIPFromTemplate
<1>4. ASSUME NEW set, NEW selected PROVE KubeletConfiguration(c, t, set, selected) = KubeletConfiguration(d, t, set, selected)
  <2> DEFINE patched(kubelet) == IF DOMAIN kubelet \ {"automaticReservations"} = {} THEN t
                                 ELSE AddFiles(t, <<RenderKubeletConfigPatch(kubelet)>>)
             made(kubelet) ==
               MutateIfApplicable(t, selected,
                 IF Has(kubelet, "automaticReservations")
                 THEN AddPre(AddFiles(patched(kubelet), <<File(ComputeReservations, <<"reservations">>)>>),
                             <<ComputeReservations>>)
                 ELSE patched(kubelet))
  <2>1. \A e : KubeletConfiguration(e, t, set, selected) = made(ApplyDeprecatedMaxParallelImagePulls(e, set))
    BY Zenon DEF KubeletConfiguration
  <2> HIDE DEF made
  <2> QED BY <1>2, <2>1, Zenon
<1>5. AuditPolicy(c, t) = AuditPolicy(d, t)
  BY Zenon DEF SameButSecrets, AuditPolicy
<1>6. Etcd(c, t) = Etcd(d, t)
  BY Zenon DEF SameButSecrets, Etcd
<1>7. CoreDNS(c, t) = CoreDNS(d, t)
  BY Zenon DEF SameButSecrets, CoreDNS
<1>8. ExtraAPIServerCertSANs(c, t) = ExtraAPIServerCertSANs(d, t)
  BY Zenon DEF SameButSecrets, ExtraAPIServerCertSANs
<1>9. HTTPProxy(c, t) = HTTPProxy(d, t)
  BY Zenon DEF SameButSecrets, HTTPProxy
<1>10. KubernetesImageRepository(c, t) = KubernetesImageRepository(d, t)
  BY Zenon DEF SameButSecrets, KubernetesImageRepository
<1>11. Calico(c, t) = Calico(d, t)
  BY Zenon DEF SameButSecrets, Calico
<1>12. Users(c, t) = Users(d, t)
  BY Zenon DEF SameButSecrets, Users
<1>13. ContainerdMetrics(c, t) = ContainerdMetrics(d, t)
  BY Zenon DEF SameButSecrets, ContainerdMetrics
<1>14. ContainerdUnprivilegedPorts(c, t) = ContainerdUnprivilegedPorts(d, t)
  BY Zenon DEF SameButSecrets, ContainerdUnprivilegedPorts
<1>15. EncryptionAtRest(c, t) = EncryptionAtRest(d, t)
  BY Zenon DEF SameButSecrets, EncryptionAtRest
<1>16. AutoRenewCerts(c, t) = AutoRenewCerts(d, t)
  BY Zenon DEF SameButSecrets, AutoRenewCerts
<1>17. KubeProxyMode(c, t) = KubeProxyMode(d, t)
  BY Zenon DEF SameButSecrets, KubeProxyMode
<1>18. PodSecurityAdmission(c, t) = PodSecurityAdmission(d, t)
  BY Zenon DEF SameButSecrets, PodSecurityAdmission
<1>19. NTP(c, t) = NTP(d, t)
  BY Zenon DEF SameButSecrets, NTP
<1>20. ContainerdApplyPatchesAndRestart(c, t) = ContainerdApplyPatchesAndRestart(d, t)
  BY Zenon DEF SameButSecrets, ContainerdApplyPatchesAndRestart
<1>21. ControlPlaneTaints(c, t) = ControlPlaneTaints(d, t)
  BY Zenon DEF SameButSecrets, ControlPlaneTaints
<1>22. WorkerTaints(c, t) = WorkerTaints(d, t)
  BY Zenon DEF SameButSecrets, WorkerTaints
<1>23. ControlPlaneNodeRegistration(c, t) = ControlPlaneNodeRegistration(d, t)
  BY Zenon DEF SameButSecrets, ControlPlaneNodeRegistration
<1>24. WorkerNodeRegistration(c, t) = WorkerNodeRegistration(d, t)
  BY Zenon DEF SameButSecrets, WorkerNodeRegistration
<1>25. ExternalCloudProvider(c, t) = ExternalCloudProvider(d, t)
  BY Zenon DEF SameButSecrets, ExternalCloudProvider
<1>26. ControlPlaneKubeletConfiguration(c, t) = ControlPlaneKubeletConfiguration(d, t)
  BY <1>4, Zenon DEF SameButSecrets, ControlPlaneKubeletConfiguration
<1>27. WorkerKubeletConfiguration(c, t) = WorkerKubeletConfiguration(d, t)
  BY <1>4, Zenon DEF SameButSecrets, WorkerKubeletConfiguration
<1>28. SortExtraArgs(c, t) = SortExtraArgs(d, t)
  BY Zenon DEF SameButSecrets, SortExtraArgs
<1>29. NutanixControlPlaneEndpoint(c, t) = NutanixControlPlaneEndpoint(d, t)
  BY Zenon DEF SameButSecrets, NutanixControlPlaneEndpoint
<1>30. ControlPlaneVirtualIP(c, t) = ControlPlaneVirtualIP(d, t)
  BY <1>3, Zenon DEF SameButSecrets, ControlPlaneVirtualIP
<1>31. NutanixPrismCentralEndpoint(c, t) = NutanixPrismCentralEndpoint(d, t)
  BY Zenon DEF SameButSecrets, NutanixPrismCentralEndpoint
<1>32. NutanixControlPlaneMachineDetails(c, t) = NutanixControlPlaneMachineDetails(d, t)
  BY Zenon DEF SameButSecrets, NutanixControlPlaneMachineDetails
<1>33. NutanixWorkerMachineDetails(c, t) = NutanixWorkerMachineDetails(d, t)
  BY Zenon DEF SameButSecrets, NutanixWorkerMachineDetails
<1>34. NutanixControlPlaneFailureDomains(c, t) = NutanixControlPlaneFailureDomains(d, t)
  BY Zenon DEF SameButSecrets, NutanixControlPlaneFailureDomains
<1>35. DockerControlPlaneCustomImage(c, t) = DockerControlPlaneCustomImage(d, t)
  BY Zenon DEF SameButSecrets, DockerControlPlaneCustomImage
<1>36. DockerWorkerCustomImage(c, t) = DockerWorkerCustomImage(d, t)
  BY Zenon DEF SameButSecrets, DockerWorkerCustomImage
<1> QED BY <1>1, <1>5, <1>6, <1>7, <1>8, <1>9, <1>10, <1>11, <1>12, <1>13, <1>14, <1>15, <1>16, <1>17, <1>18, <1>19, <1>20, <1>21, <1>22, <1>23, <1>24, <1>25, <1>26, <1>27, <1>28, <1>29, <1>30, <1>31, <1>32, <1>33, <1>34, <1>35, <1>36, Zenon DEF Mutate

\* FlattenSeq of two lists at once.
LEMMA FlattenPairs ==
    ASSUME NEW C, << <<>>, <<>> >> \in C, \A a, b : a \in C /\ b \in C => << a[1] \o b[1], a[2] \o b[2] >> \in C,
           NEW ss, NEW tt, IsList(ss), IsList(tt), Len(ss) = Len(tt),
           \A i \in 1 .. Len(ss) : <<ss[i], tt[i]>> \in C
    PROVE  <<FlattenSeq(ss), FlattenSeq(tt)>> \in C
<1> DEFINE n == Len(ss)
<1>1. n \in Nat
  BY ListFacts
<1>2. CASE n = 0
  <2>1. ss = <<>> /\ tt = <<>>
    BY <1>2, EmptySeq DEF IsList
  <2> QED BY <1>2, <2>1 DEF FlattenSeq
<1>3. CASE n > 0
  <2>1. PICK f : /\ FlattenSeq(ss) = f[n] /\ f[1] = ss[1]
                 /\ \A k \in Nat \ {0} : k + 1 <= n => f[k + 1] = f[k] \o ss[k + 1]
    BY <1>3, FlattenSteps
  <2>2. PICK g : /\ FlattenSeq(tt) = g[n] /\ g[1] = tt[1]
                 /\ \A k \in Nat \ {0} : k + 1 <= n => g[k + 1] = g[k] \o tt[k + 1]
    BY <1>3, FlattenSteps
  <2> DEFINE S == {k \in Nat : k + 1 <= n => <<f[k + 1], g[k + 1]>> \in C}
  <2>3. 0 \in S
    BY <1>1, <1>3, <2>1, <2>2
  <2>4. ASSUME NEW k \in Nat, k \in S PROVE k + 1 \in S
    <3> SUFFICES ASSUME (k + 1) + 1 <= n PROVE <<f[(k + 1) + 1], g[(k + 1) + 1]>> \in C
      OBVIOUS
    <3>1. k + 1 \in Nat \ {0} /\ k + 1 <= n /\ (k + 1) + 1 \in 1 .. n
      BY <1>1
    <3>2. <<f[k + 1], g[k + 1]>> \in C /\ <<ss[(k + 1) + 1], tt[(k + 1) + 1]>> \in C
      BY <2>4, <3>1
    <3>3. f[(k + 1) + 1] = f[k + 1] \o ss[(k + 1) + 1] /\ g[(k + 1) + 1] = g[k + 1] \o tt[(k + 1) + 1]
      BY <2>1, <2>2, <3>1
    <3>4. \A a, b, a2, b2 : <<a, b>> \in C /\ <<a2, b2>> \in C => <<a \o a2, b \o b2>> \in C
      <4> SUFFICES ASSUME NEW a, NEW b, NEW a2, NEW b2, <<a, b>> \in C, <<a2, b2>> \in C PROVE <<a \o a2, b \o b2>> \in C
        OBVIOUS
      <4>1. << <<a, b>>[1] \o <<a2, b2>>[1], <<a, b>>[2] \o <<a2, b2>>[2] >> \in C
        OBVIOUS
      <4> QED BY <4>1
    <3> QED BY <3>2, <3>3, <3>4
  <2> HIDE DEF S
  <2>5. Nat \subseteq S
    BY <2>3, <2>4, Induct
  <2>6. n - 1 \in S /\ (n - 1) + 1 = n /\ n <= n
    BY <1>1, <1>3, <2>5
  <2> QED BY <2>1, <2>2, <2>6 DEF S
<1> QED BY <1>1, <1>2, <1>3

\* Which elements Keep takes depends on the indices only.
Picked(s, I) == Keep([i \in DOMAIN s |-> i], I)
LEMMA KeepPicks ==
    ASSUME NEW s, IsList(s), NEW I
    PROVE  /\ IsList(Picked(s, I)) /\ \A k \in DOMAIN Picked(s, I) : Picked(s, I)[k] \in I \cap DOMAIN s
           /\ Keep(s, I) = [k \in DOMAIN Picked(s, I) |-> s[Picked(s, I)[k]]]
<1> DEFINE D == DOMAIN s
           of(g) == [k \in DOMAIN g |-> s[g[k]]]
           C == {<<of(g), g>> : g \in Seq(D)}
           id == [i \in D |-> i]
           ss == [i \in D |-> IF i \in I THEN <<s[i]>> ELSE <<>>]
           tt == [i \in D |-> IF i \in I THEN <<i>> ELSE <<>>]
<1>1. D = 1 .. Len(s) /\ Len(s) \in Nat /\ s \in Seq(Range(s)) /\ \A i \in D : s[i] \in Range(s)
  BY ListFacts DEF IsList, Range
<1>2. \A g \in Seq(D) : of(g) \in Seq(Range(s)) /\ Len(of(g)) = Len(g) /\ \A k \in 1 .. Len(g) : of(g)[k] = s[g[k]]
  <2> SUFFICES ASSUME NEW g \in Seq(D)
               PROVE of(g) \in Seq(Range(s)) /\ Len(of(g)) = Len(g) /\ \A k \in 1 .. Len(g) : of(g)[k] = s[g[k]]
    OBVIOUS
  <2>1. DOMAIN g = 1 .. Len(g) /\ Len(g) \in Nat /\ \A k \in 1 .. Len(g) : g[k] \in D
    BY LenProperties, ElementOfSeq
  <2> QED BY <1>1, <2>1
<1>3. << <<>>, <<>> >> \in C
  <2>1. <<>> \in Seq(D) /\ of(<<>>) = <<>>
    OBVIOUS
  <2> HIDE DEF of
  <2> QED BY <2>1
<1>4. ASSUME NEW i \in D PROVE << <<s[i]>>, <<i>> >> \in C
  <2>1. <<i>> \in Seq(D) /\ of(<<i>>) = <<s[i]>>
    OBVIOUS
  <2> HIDE DEF of
  <2> QED BY <2>1
<1>5. ASSUME NEW a, NEW b, a \in C, b \in C PROVE <<a[1] \o b[1], a[2] \o b[2]>> \in C
  <2>1. PICK g \in Seq(D) : a = <<of(g), g>>
    BY <1>5
  <2>2. PICK h \in Seq(D) : b = <<of(h), h>>
    BY <1>5
  <2>3. g \o h \in Seq(D) /\ Len(g \o h) = Len(g) + Len(h) /\ Len(g) \in Nat /\ Len(h) \in Nat
    BY ConcatProperties, LenProperties
  <2>4. of(g) \o of(h) = of(g \o h)
    <3>1. /\ of(g) \o of(h) \in Seq(Range(s)) /\ Len(of(g) \o of(h)) = Len(g \o h)
          /\ of(g \o h) \in Seq(Range(s)) /\ Len(of(g \o h)) = Len(g \o h)
      <4>1. \A x \in {g, h, g \o h} : of(x) \in Seq(Range(s)) /\ Len(of(x)) = Len(x)
        BY <1>2, <2>3
      <4> HIDE DEF of
      <4>2. /\ of(g) \in Seq(Range(s)) /\ of(h) \in Seq(Range(s)) /\ of(g \o h) \in Seq(Range(s))
            /\ Len(of(g)) = Len(g) /\ Len(of(h)) = Len(h) /\ Len(of(g \o h)) = Len(g \o h)
        BY <4>1
      <4>3. \A p, q \in Seq(Range(s)) : p \o q \in Seq(Range(s)) /\ Len(p \o q) = Len(p) + Len(q)
        BY ConcatProperties
      <4>4. of(g) \o of(h) \in Seq(Range(s)) /\ Len(of(g) \o of(h)) = Len(of(g)) + Len(of(h))
        BY <4>2, <4>3, Zenon
      <4> QED BY <2>3, <4>2, <4>4
    <3>2. ASSUME NEW k \in 1 .. Len(g \o h) PROVE (of(g) \o of(h))[k] = of(g \o h)[k]
      <4>1. of(g \o h)[k] = s[(g \o h)[k]]
        BY <1>2, <2>3
      <4>2. (g \o h)[k] = IF k <= Len(g) THEN g[k] ELSE h[k - Len(g)]
        BY <2>3, ConcatProperties
      <4>3. (of(g) \o of(h))[k] = IF k <= Len(g) THEN of(g)[k] ELSE of(h)[k - Len(g)]
        <5>1. of(g) \in Seq(Range(s)) /\ of(h) \in Seq(Range(s)) /\ Len(of(g)) = Len(g) /\ Len(of(h)) = Len(h)
          BY <1>2
        <5> HIDE DEF of
        <5> QED BY <2>3, <5>1, ConcatProperties
      <4>4. k <= Len(g) => of(g)[k] = s[g[k]]
        BY <1>2, <2>3
      <4>5. ~(k <= Len(g)) => of(h)[k - Len(g)] = s[h[k - Len(g)]]
        <5>1. ~(k <= Len(g)) => k - Len(g) \in 1 .. Len(h)
          BY <2>3
        <5> HIDE DEF of
        <5> QED BY <1>2, <5>1
      <4> HIDE DEF of
      <4> QED BY <4>1, <4>2, <4>3, <4>4, <4>5
    <3> HIDE DEF of
    <3> QED BY <3>1, <3>2, SeqEqual
  <2> HIDE DEF of
  <2>5. a[1] = of(g) /\ a[2] = g /\ b[1] = of(h) /\ b[2] = h
    BY <2>1, <2>2
  <2>6. <<of(g \o h), g \o h>> \in C
    BY <2>3
  <2> HIDE DEF C
  <2> QED BY <2>4, <2>5, <2>6
<1>6. /\ IsList(ss) /\ IsList(tt) /\ Len(ss) = Len(s) /\ Len(tt) = Len(s)
      /\ \A i \in 1 .. Len(s) : ss[i] = (IF i \in I THEN <<s[i]>> ELSE <<>>) /\ tt[i] = (IF i \in I THEN <<i>> ELSE <<>>)
  BY <1>1, MapList
<1>7. Keep(s, I) = FlattenSeq(ss)
  BY DEF Keep
<1>8. Picked(s, I) = FlattenSeq(tt)
  <2>1. DOMAIN id = D /\ \A i \in D : id[i] = i
    OBVIOUS
  <2>2. tt = [i \in DOMAIN id |-> IF i \in I THEN <<id[i]>> ELSE <<>>]
    BY <2>1
  <2> HIDE DEF tt
  <2> QED BY <2>2 DEF Keep, Picked
<1> HIDE DEF ss, tt, C
<1>9. <<FlattenSeq(ss), FlattenSeq(tt)>> \in C
  <2>1. \A i \in 1 .. Len(ss) : <<ss[i], tt[i]>> \in C
    BY <1>1, <1>3, <1>4, <1>6
  <2> QED BY <1>3, <1>5, <1>6, <2>1, FlattenPairs
<1>10. PICK g \in Seq(D) : <<FlattenSeq(ss), FlattenSeq(tt)>> = <<of(g), g>>
  BY <1>9 DEF C
<1>11. FlattenSeq(ss) = of(g) /\ FlattenSeq(tt) = g /\ IsList(g)
  BY <1>10, ListOf
<1>12. \A k \in DOMAIN Picked(s, I) : Picked(s, I)[k] \in I \cap D
  <2>1. IsList(id) /\ DOMAIN id = D
    BY <1>1, MapList
  <2>2. Range(Picked(s, I)) = {id[i] : i \in I \cap D}
    BY <2>1, KeepList DEF Picked
  <2> QED BY <2>2 DEF Range
<1> QED BY <1>7, <1>8, <1>11, <1>12

\* Secrets that hold credentials and CAs where the others do.
SecretsAlike(a, b) ==
    /\ DOMAIN a = DOMAIN b
    /\ \A n \in DOMAIN a : (a[n].user = 0 <=> b[n].user = 0) /\ (a[n].ca = 0 <=> b[n].ca = 0)
\* Registries that differ in no more than the users.
ProvidersAlike(a, b) ==
    /\ IsList(a) /\ IsList(b) /\ DOMAIN a = DOMAIN b
    /\ \A i \in DOMAIN a : /\ a[i].url = b[i].url /\ a[i].mirror = b[i].mirror /\ a[i].ca = b[i].ca
                           /\ a[i].user = 0 <=> b[i].user = 0

\* The same elements of two lists.
Takes(g, I, a, b) ==
    /\ IsList(g) /\ \A k \in DOMAIN g : g[k] \in I \cap DOMAIN a
    /\ Keep(a, I) = [k \in DOMAIN g |-> a[g[k]]] /\ Keep(b, I) = [k \in DOMAIN g |-> b[g[k]]]
LEMMA KeepSame ==
    ASSUME NEW a, NEW b, NEW I, IsList(a), IsList(b), DOMAIN a = DOMAIN b
    PROVE  \E g : Takes(g, I, a, b)
<1>1. Picked(a, I) = Picked(b, I)
  BY Zenon DEF Picked
<1>2. Takes(Picked(a, I), I, a, b)
  BY <1>1, KeepPicks DEF Takes
<1> QED BY <1>2

\* Intervals from 1 are the same if their ends are.
LEMMA SameLengths == \A m, n \in Nat : 1 .. m = 1 .. n => m = n
<1> SUFFICES ASSUME NEW m \in Nat, NEW n \in Nat, 1 .. m = 1 .. n, m < n PROVE FALSE
  OBVIOUS
<1>1. n \in 1 .. n /\ n \notin 1 .. m
  OBVIOUS
<1> QED BY <1>1

\* Concatenations of lists of the same lengths.
Joined(p, q, p2, q2) ==
    /\ IsList(p \o q) /\ IsList(p2 \o q2) /\ DOMAIN (p \o q) = DOMAIN (p2 \o q2)
    /\ \A i \in DOMAIN (p \o q) :
         \/ i \in DOMAIN p /\ (p \o q)[i] = p[i] /\ (p2 \o q2)[i] = p2[i]
         \/ i - Len(p) \in DOMAIN q /\ (p \o q)[i] = q[i - Len(p)] /\ (p2 \o q2)[i] = q2[i - Len(p)]
LEMMA ConcatSame ==
    ASSUME NEW p, NEW q, NEW p2, NEW q2, IsList(p), IsList(q), IsList(p2), IsList(q2),
           DOMAIN p = DOMAIN p2, DOMAIN q = DOMAIN q2
    PROVE  Joined(p, q, p2, q2)
<1>1. /\ Len(p) \in Nat /\ Len(q) \in Nat /\ Len(p2) \in Nat /\ Len(q2) \in Nat
      /\ DOMAIN p = 1 .. Len(p) /\ DOMAIN q = 1 .. Len(q) /\ DOMAIN p2 = 1 .. Len(p2) /\ DOMAIN q2 = 1 .. Len(q2)
  BY ListFacts
<1>2. Len(p) = Len(p2) /\ Len(q) = Len(q2)
  BY <1>1, SameLengths
<1>3. IsList(p \o q) /\ IsList(p2 \o q2)
  BY ConcatList
<1>4. DOMAIN (p \o q) = 1 .. Len(p \o q) /\ DOMAIN (p2 \o q2) = 1 .. Len(p2 \o q2)
  BY <1>3, ListFacts
<1>5. /\ Len(p \o q) = Len(p) + Len(q) /\ Len(p2 \o q2) = Len(p2) + Len(q2)
      /\ \A i \in 1 .. Len(p \o q) : (p \o q)[i] = IF i <= Len(p) THEN p[i] ELSE q[i - Len(p)]
      /\ \A i \in 1 .. Len(p2 \o q2) : (p2 \o q2)[i] = IF i <= Len(p2) THEN p2[i] ELSE q2[i - Len(p2)]
  BY ConcatIs
<1> QED BY <1>1, <1>2, <1>3, <1>4, <1>5 DEF Joined

\* So are the concatenations of registries that are alike, and what is kept of them.
LEMMA ProvidersConcat ==
    ASSUME NEW p, NEW q, NEW p2, NEW q2, ProvidersAlike(p, p2), ProvidersAlike(q, q2)
    PROVE  ProvidersAlike(p \o q, p2 \o q2)
<1>1. IsList(p) /\ IsList(q) /\ IsList(p2) /\ IsList(q2) /\ DOMAIN p = DOMAIN p2 /\ DOMAIN q = DOMAIN q2
  BY DEF ProvidersAlike
<1>2. Joined(p, q, p2, q2)
  BY <1>1, ConcatSame
<1> DEFINE s == p \o q
           s2 == p2 \o q2
<1> HIDE DEF s, s2
<1>3. ASSUME NEW i \in DOMAIN s
      PROVE  s[i].url = s2[i].url /\ s[i].mirror = s2[i].mirror /\ s[i].ca = s2[i].ca /\ (s[i].user = 0 <=> s2[i].user = 0)
  <2>1. CASE i \in DOMAIN p /\ s[i] = p[i] /\ s2[i] = p2[i]
    BY <2>1 DEF ProvidersAlike
  <2>2. CASE i - Len(p) \in DOMAIN q /\ s[i] = q[i - Len(p)] /\ s2[i] = q2[i - Len(p)]
    BY <2>2 DEF ProvidersAlike
  <2> QED BY <1>2, <1>3, <2>1, <2>2 DEF Joined, s, s2
<1>4. IsList(s) /\ IsList(s2) /\ DOMAIN s = DOMAIN s2
  BY <1>2 DEF Joined, s, s2
<1>5. ProvidersAlike(s, s2)
  BY <1>3, <1>4 DEF ProvidersAlike
<1> QED BY <1>5 DEF s, s2
\* So do those of them that are kept.
LEMMA ProvidersKeep ==
    ASSUME NEW a, NEW b, ProvidersAlike(a, b), NEW I PROVE ProvidersAlike(Keep(a, I), Keep(b, I))
<1>1. PICK g : Takes(g, I, a, b)
  <2>1. IsList(a) /\ IsList(b) /\ DOMAIN a = DOMAIN b
    BY DEF ProvidersAlike
  <2> QED BY <2>1, KeepSame
<1>2. IsList(Keep(a, I)) /\ IsList(Keep(b, I))
  BY KeepList DEF ProvidersAlike
<1> QED BY <1>1, <1>2 DEF Takes, ProvidersAlike

\* The credentials mutator fails for both contents of the Secrets, or for none, and
\* configures the same registries.
LEMMA CredentialsSame ==
    ASSUME NEW c, NEW d, SameButSecrets(c, d), SecretsAlike(c.secrets, d.secrets), IsList(ImageRegistries(c))
    PROVE  /\ CredentialsFail(c) <=> CredentialsFail(d)
           /\ ~CredentialsFail(c) => /\ ProvidersAlike(RegistriesThatNeedConfiguration(c), RegistriesThatNeedConfiguration(d))
                                     /\ ProvidersAlike(V6RegistriesThatNeedConfiguration(c), V6RegistriesThatNeedConfiguration(d))
<1> DEFINE I == ImageRegistries(c)
           G == GlobalMirror(c)
           P(e) == [i \in DOMAIN I |-> ProviderConfig(e.secrets, I[i], FALSE)]
           Q(e) == [i \in DOMAIN G |-> ProviderConfig(e.secrets, G[i], TRUE)]
           Missing(e) == \/ \E i \in DOMAIN I : SecretMissing(e.secrets, I[i])
                         \/ \E i \in DOMAIN G : SecretMissing(e.secrets, G[i])
<1>1. ImageRegistries(d) = I /\ GlobalMirror(d) = G
  BY Zenon DEF SameButSecrets, ImageRegistries, GlobalMirror
<1>2. ProviderConfigs(c) = P(c) \o Q(c) /\ ProviderConfigs(d) = P(d) \o Q(d)
  BY <1>1, Zenon DEF ProviderConfigs
<1>3. \A r : SecretMissing(c.secrets, r) <=> SecretMissing(d.secrets, r)
  BY DEF SecretMissing, SecretsAlike
<1>4. Missing(c) <=> Missing(d)
  BY <1>3
<1>5. /\ CredentialsFail(c) <=> Missing(c) \/ \E i \in DOMAIN ProviderConfigs(c) : InvalidRegistry(ProviderConfigs(c)[i])
      /\ CredentialsFail(d) <=> Missing(d) \/ \E i \in DOMAIN ProviderConfigs(d) : InvalidRegistry(ProviderConfigs(d)[i])
  BY <1>1, Zenon DEF CredentialsFail
<1>6. IsList(I) /\ IsList(G)
  BY GlobalMirrorList
<1>7. ASSUME NEW r, NEW m, ~SecretMissing(c.secrets, r)
      PROVE  /\ ProviderConfig(c.secrets, r, m).url = ProviderConfig(d.secrets, r, m).url
             /\ ProviderConfig(c.secrets, r, m).mirror = ProviderConfig(d.secrets, r, m).mirror
             /\ ProviderConfig(c.secrets, r, m).ca = ProviderConfig(d.secrets, r, m).ca
             /\ ProviderConfig(c.secrets, r, m).user = 0 <=> ProviderConfig(d.secrets, r, m).user = 0
  BY <1>7 DEF SecretMissing, ProviderConfig, SecretForImageRegistryCredentials, SecretsAlike
<1>8. ASSUME ~Missing(c) PROVE ProvidersAlike(ProviderConfigs(c), ProviderConfigs(d))
  <2>1. ProvidersAlike(P(c), P(d))
    <3>1. /\ IsList(P(c)) /\ IsList(P(d)) /\ DOMAIN P(c) = DOMAIN I /\ DOMAIN P(d) = DOMAIN I
          /\ \A i \in DOMAIN I : P(c)[i] = ProviderConfig(c.secrets, I[i], FALSE) /\ P(d)[i] = ProviderConfig(d.secrets, I[i], FALSE)
      BY <1>6, MapList
    <3> DEFINE x == P(c)
               y == P(d)
    <3> HIDE DEF P
    <3>2. ASSUME NEW i \in DOMAIN I
          PROVE  x[i].url = y[i].url /\ x[i].mirror = y[i].mirror /\ x[i].ca = y[i].ca /\ (x[i].user = 0 <=> y[i].user = 0)
      <4>1. ~SecretMissing(c.secrets, I[i]) /\ x[i] = ProviderConfig(c.secrets, I[i], FALSE)
            /\ y[i] = ProviderConfig(d.secrets, I[i], FALSE)
        BY <1>8, <3>1
      <4>2. /\ ProviderConfig(c.secrets, I[i], FALSE).url = ProviderConfig(d.secrets, I[i], FALSE).url
            /\ ProviderConfig(c.secrets, I[i], FALSE).mirror = ProviderConfig(d.secrets, I[i], FALSE).mirror
            /\ ProviderConfig(c.secrets, I[i], FALSE).ca = ProviderConfig(d.secrets, I[i], FALSE).ca
            /\ ProviderConfig(c.secrets, I[i], FALSE).user = 0 <=> ProviderConfig(d.secrets, I[i], FALSE).user = 0
        BY ONLY <1>7, <4>1
      <4> HIDE DEF x, y, Missing, I
      <4> QED BY <4>1, <4>2
    <3> HIDE DEF x, y
    <3>3. ProvidersAlike(x, y)
      BY <3>1, <3>2 DEF ProvidersAlike, x, y
    <3> QED BY <3>3 DEF x, y
  <2>2. ProvidersAlike(Q(c), Q(d))
    <3>1. /\ IsList(Q(c)) /\ IsList(Q(d)) /\ DOMAIN Q(c) = DOMAIN G /\ DOMAIN Q(d) = DOMAIN G
          /\ \A i \in DOMAIN G : Q(c)[i] = ProviderConfig(c.secrets, G[i], TRUE) /\ Q(d)[i] = ProviderConfig(d.secrets, G[i], TRUE)
      BY <1>6, MapList
    <3> DEFINE x == Q(c)
               y == Q(d)
    <3> HIDE DEF Q
    <3>2. ASSUME NEW i \in DOMAIN G
          PROVE  x[i].url = y[i].url /\ x[i].mirror = y[i].mirror /\ x[i].ca = y[i].ca /\ (x[i].user = 0 <=> y[i].user = 0)
      <4>1. ~SecretMissing(c.secrets, G[i]) /\ x[i] = ProviderConfig(c.secrets, G[i], TRUE)
            /\ y[i] = ProviderConfig(d.secrets, G[i], TRUE)
        BY <1>8, <3>1
      <4>2. /\ ProviderConfig(c.secrets, G[i], TRUE).url = ProviderConfig(d.secrets, G[i], TRUE).url
            /\ ProviderConfig(c.secrets, G[i], TRUE).mirror = ProviderConfig(d.secrets, G[i], TRUE).mirror
            /\ ProviderConfig(c.secrets, G[i], TRUE).ca = ProviderConfig(d.secrets, G[i], TRUE).ca
            /\ ProviderConfig(c.secrets, G[i], TRUE).user = 0 <=> ProviderConfig(d.secrets, G[i], TRUE).user = 0
        BY ONLY <1>7, <4>1
      <4> HIDE DEF x, y, Missing, G
      <4> QED BY <4>1, <4>2
    <3> HIDE DEF x, y
    <3>3. ProvidersAlike(x, y)
      BY <3>1, <3>2 DEF ProvidersAlike, x, y
    <3> QED BY <3>3 DEF x, y
  <2> HIDE DEF P, Q
  <2> QED BY <1>2, <2>1, <2>2, ProvidersConcat
<1> HIDE DEF P, Q, Missing
<1>9. ASSUME NEW x, NEW y, x.url = y.url, x.mirror = y.mirror, x.ca = y.ca, x.user = 0 <=> y.user = 0
      PROVE  (InvalidRegistry(x) <=> InvalidRegistry(y)) /\ (NeedsConfiguration(x) <=> NeedsConfiguration(y))
  BY <1>9 DEF InvalidRegistry, NeedsConfiguration, LacksCredentials, RequiresStaticCredentials
<1>10. CredentialsFail(c) <=> CredentialsFail(d)
  BY <1>4, <1>5, <1>8, <1>9 DEF ProvidersAlike
<1>11. ASSUME ~CredentialsFail(c) PROVE ProvidersAlike(DeclaredRegistries(c), DeclaredRegistries(d))
  <2> DEFINE K(e) == {i \in DOMAIN ProviderConfigs(e) : NeedsConfiguration(ProviderConfigs(e)[i])}
  <2>1. ProvidersAlike(ProviderConfigs(c), ProviderConfigs(d))
    BY <1>5, <1>8, <1>11
  <2>2. K(c) = K(d)
    BY <1>9, <2>1 DEF ProvidersAlike
  <2>3. DeclaredRegistries(c) = Keep(ProviderConfigs(c), K(c)) /\ DeclaredRegistries(d) = Keep(ProviderConfigs(d), K(d))
    BY DEF DeclaredRegistries
  <2> HIDE DEF K
  <2> QED BY <2>1, <2>2, <2>3, ProvidersKeep
<1>12. ASSUME ~CredentialsFail(c)
       PROVE  ProvidersAlike(RegistriesThatNeedConfiguration(c), RegistriesThatNeedConfiguration(d))
  <2> DEFINE last == IF HasDockerHubRegistry(I) THEN <<>>
                     ELSE <<[url |-> DockerHub, user |-> 0, ca |-> FALSE, mirror |-> FALSE]>>
  <2>1. ProvidersAlike(last, last)
    <3>1. IsList(last)
      BY Literals
    <3> HIDE DEF last
    <3> QED BY <3>1 DEF ProvidersAlike
  <2>2. /\ RegistriesThatNeedConfiguration(c) = DeclaredRegistries(c) \o last
        /\ RegistriesThatNeedConfiguration(d) = DeclaredRegistries(d) \o last
    BY <1>1, Zenon DEF RegistriesThatNeedConfiguration
  <2> HIDE DEF last
  <2> QED BY <1>11, <1>12, <2>1, <2>2, ProvidersConcat
<1> QED BY <1>10, <1>11, <1>12 DEF V6RegistriesThatNeedConfiguration

\* The files name URLs, CAs and mirrors, never users.
LEMMA CredentialFilesSame ==
    ASSUME NEW a, NEW b, ProvidersAlike(a, b)
    PROVE  CredentialFiles(a) = CredentialFiles(b)
<1> DEFINE D == DOMAIN a
           urls(e) == [i \in DOMAIN e |-> RegistryHostWithPath(e[i].url)]
           M(e) == {i \in DOMAIN e : e[i].mirror}
           mirrors(e) == Keep(e, M(e))
           mirror(e) == IF mirrors(e) = <<>> THEN <<>> ELSE RegistryHostWithPath(Last(mirrors(e)).url)
           config(e) == TemplateDynamicCredentialProviderConfig(e)
           static(e) == ConfigsRequireStaticCredentials(e)
<1>1. D = DOMAIN b /\ IsList(a) /\ IsList(b) /\ \A i \in D : a[i].url = b[i].url /\ a[i].mirror = b[i].mirror
  BY DEF ProvidersAlike
<1>2. urls(a) = urls(b)
  BY <1>1
<1>3. M(a) = M(b)
  BY <1>1
<1>4. static(a) <=> static(b)
  BY <1>1 DEF ConfigsRequireStaticCredentials, RequiresStaticCredentials
<1>5. mirror(a) = mirror(b)
  <2> HIDE DEF M
  <2>1. PICK g : Takes(g, M(a), a, b)
    BY <1>1, KeepSame
  <2>2. mirrors(a) = [k \in DOMAIN g |-> a[g[k]]] /\ mirrors(b) = [k \in DOMAIN g |-> b[g[k]]]
    BY <1>3, <2>1 DEF Takes
  <2>3. /\ DOMAIN mirrors(a) = DOMAIN mirrors(b)
        /\ \A k \in DOMAIN mirrors(a) : mirrors(a)[k].url = mirrors(b)[k].url
    BY <1>1, <2>1, <2>2 DEF Takes
  <2>4. IsList(mirrors(a)) /\ IsList(mirrors(b))
    BY <1>1, KeepList
  <2> HIDE DEF mirrors
  <2>5. /\ DOMAIN mirrors(a) = 1 .. Len(mirrors(a)) /\ Len(mirrors(a)) \in Nat
        /\ DOMAIN mirrors(b) = 1 .. Len(mirrors(b)) /\ Len(mirrors(b)) \in Nat
    BY <2>4, ListFacts
  <2>6. Len(mirrors(a)) = Len(mirrors(b))
    BY <2>3, <2>5, SameLengths
  <2>7. (mirrors(a) = <<>> <=> Len(mirrors(a)) = 0) /\ (mirrors(b) = <<>> <=> Len(mirrors(b)) = 0)
    BY <2>4, EmptySeq DEF IsList
  <2>8. Len(mirrors(a)) # 0 => Last(mirrors(a)).url = Last(mirrors(b)).url
    BY <2>3, <2>5, <2>6 DEF Last
  <2> QED BY <2>6, <2>7, <2>8
<1>6. config(a) = config(b)
  <2> DEFINE of(hosts, m) ==
        [mirror |-> m,
         providers |-> [p \in {DynamicCredentialProvider(hosts[i]) : i \in DOMAIN hosts} |->
                          [h \in {hosts[i] : i \in {j \in DOMAIN hosts : DynamicCredentialProvider(hosts[j]) = p}} |->
                             Cardinality({i \in DOMAIN hosts : hosts[i] = h})]]]
  <2>1. \A e : config(e) = of(urls(e), mirror(e))
    BY Zenon DEF TemplateDynamicCredentialProviderConfig
  <2> HIDE DEF of, config, urls, mirror
  <2> QED BY <1>2, <1>5, <2>1, Zenon
<1> DEFINE of(list, dynamic, needed) ==
      << File(InstallProviders, <<"install">>), File(ImageCredentialProviderConfig, list), File(DynamicProviderConfig, <<dynamic>>) >>
      \o IF needed THEN <<FromSecret(StaticCredentials, GeneratedCredentials)>> ELSE <<>>
<1>7. \A e : CredentialFiles(e) = of(urls(e), config(e), static(e))
  BY Zenon DEF CredentialFiles
<1>8. static(a) = static(b)
  BY <1>4 DEF ConfigsRequireStaticCredentials
<1> HIDE DEF of, urls, config, static
<1> QED BY <1>2, <1>6, <1>7, <1>8, Zenon

\* Neither do new credentials change what the credentials mutator makes of a template.
LEMMA CredentialsTemplate ==
    ASSUME NEW c, NEW d, NEW t, SameButSecrets(c, d), SecretsAlike(c.secrets, d.secrets), IsList(ImageRegistries(c))
    PROVE  Mutate("credentials", c, t) = Mutate("credentials", d, t)
<1> DEFINE R(e) == RegistriesThatNeedConfiguration(e)
           V(e) == V6RegistriesThatNeedConfiguration(e)
           prepared(files) == AddPre(AddFiles(t, files), <<InstallProviders>>)
           joined(files) == AddImageCredentialProviderArgs(prepared(files), "kubeletJoin")
           made(files) == IF ~Kubeadm(t) THEN t
                          ELSE IF ControlPlane(t) THEN AddImageCredentialProviderArgs(joined(files), "kubeletInit")
                          ELSE joined(files)
<1>0. \A e : Mutate("credentials", e, t) = IF e.v6 THEN V6Credentials(e, t) ELSE Credentials(e, t)
  BY DEF Mutate
<1>1. \A e, configs : ConfigureCredentials(e, t, configs) = IF CredentialsFail(e) THEN Fail(t) ELSE made(CredentialFiles(configs))
  BY Zenon DEF ConfigureCredentials
<1> HIDE DEF made
<1>2. c.v6 = d.v6
  BY DEF SameButSecrets
<1>3. CASE CredentialsFail(c)
  <2>1. CredentialsFail(d)
    BY <1>3, CredentialsSame
  <2>2. \A e : CredentialsFail(e) => V6Credentials(e, t) = Fail(t) /\ Credentials(e, t) = Fail(t)
    BY <1>1 DEF V6Credentials, Credentials
  <2> QED BY <1>0, <1>2, <1>3, <2>1, <2>2
<1>4. CASE ~CredentialsFail(c)
  <2>1. ~CredentialsFail(d) /\ ProvidersAlike(R(c), R(d)) /\ ProvidersAlike(V(c), V(d))
    BY <1>4, CredentialsSame
  <2>2. CredentialFiles(R(c)) = CredentialFiles(R(d)) /\ CredentialFiles(V(c)) = CredentialFiles(V(d))
    BY <2>1, CredentialFilesSame
  <2>3. V(c) = <<>> <=> V(d) = <<>>
    BY <2>1, EmptySeq DEF ProvidersAlike, IsList
  <2>4. \A e : ~CredentialsFail(e) => /\ Credentials(e, t) = made(CredentialFiles(R(e)))
                                      /\ V6Credentials(e, t) = IF V(e) = <<>> THEN t ELSE made(CredentialFiles(V(e)))
    BY <1>1 DEF V6Credentials, Credentials
  <2> HIDE DEF R, V
  <2> QED BY <1>0, <1>2, <1>4, <2>1, <2>2, <2>3, <2>4
<1> QED BY <1>3, <1>4

\* What containerd is told differs in no more than the contents of the CAs.
MirrorsAlike(a, b) ==
    /\ IsList(a) /\ IsList(b) /\ DOMAIN a = DOMAIN b
    /\ \A i \in DOMAIN a : /\ a[i].url = b[i].url /\ a[i].mirror = b[i].mirror /\ a[i].secret = b[i].secret
                           /\ a[i].ca = 0 <=> b[i].ca = 0
\* Concatenations of such lists are again such lists.
LEMMA MirrorsConcat ==
    ASSUME NEW p, NEW q, NEW p2, NEW q2, MirrorsAlike(p, p2), MirrorsAlike(q, q2)
    PROVE  MirrorsAlike(p \o q, p2 \o q2)
<1>1. IsList(p) /\ IsList(q) /\ IsList(p2) /\ IsList(q2) /\ DOMAIN p = DOMAIN p2 /\ DOMAIN q = DOMAIN q2
  BY DEF MirrorsAlike
<1>2. Joined(p, q, p2, q2)
  BY <1>1, ConcatSame
<1> DEFINE s == p \o q
           s2 == p2 \o q2
<1> HIDE DEF s, s2
<1>3. ASSUME NEW i \in DOMAIN s
      PROVE  s[i].url = s2[i].url /\ s[i].mirror = s2[i].mirror /\ s[i].secret = s2[i].secret /\ (s[i].ca = 0 <=> s2[i].ca = 0)
  <2>1. CASE i \in DOMAIN p /\ s[i] = p[i] /\ s2[i] = p2[i]
    BY <2>1 DEF MirrorsAlike
  <2>2. CASE i - Len(p) \in DOMAIN q /\ s[i] = q[i - Len(p)] /\ s2[i] = q2[i - Len(p)]
    BY <2>2 DEF MirrorsAlike
  <2> QED BY <1>2, <1>3, <2>1, <2>2 DEF Joined, s, s2
<1>4. IsList(s) /\ IsList(s2) /\ DOMAIN s = DOMAIN s2
  BY <1>2 DEF Joined, s, s2
<1>5. MirrorsAlike(s, s2)
  BY <1>3, <1>4 DEF MirrorsAlike
<1> QED BY <1>5 DEF s, s2

\* The registries of the mirrors mutator, where no Secret is missing.
LEMMA MirrorsConfigs ==
    ASSUME NEW c, NEW d, SameButSecrets(c, d), SecretsAlike(c.cas, d.cas), IsList(ImageRegistries(c)), ~MirrorsFail(c)
    PROVE  MirrorsAlike(ContainerdConfigs(c), ContainerdConfigs(d))
<1> DEFINE I == ImageRegistries(c)
           G == GlobalMirror(c)
           P(e) == [i \in DOMAIN G |-> ContainerdConfig(e.cas, G[i], TRUE)]
           Q(e) == [i \in DOMAIN I |-> ContainerdConfig(e.cas, I[i], FALSE)]
           last == IF Has(c.cfg, "addons.registry") THEN <<RegistryAddonConfig>> ELSE <<>>
<1>1. ImageRegistries(d) = I /\ GlobalMirror(d) = G /\ c.cfg = d.cfg
  BY Zenon DEF SameButSecrets, ImageRegistries, GlobalMirror
<1>2. ContainerdConfigs(c) = P(c) \o Q(c) \o last /\ ContainerdConfigs(d) = P(d) \o Q(d) \o last
  BY <1>1, Zenon DEF ContainerdConfigs
<1>3. IsList(I) /\ IsList(G)
  BY GlobalMirrorList
<1>4. /\ \A i \in DOMAIN I : ~SecretMissing(c.cas, I[i])
      /\ \A i \in DOMAIN G : ~SecretMissing(c.cas, G[i])
  BY DEF MirrorsFail
<1>5. ASSUME NEW r, NEW m, ~SecretMissing(c.cas, r)
      PROVE  /\ ContainerdConfig(c.cas, r, m).url = ContainerdConfig(d.cas, r, m).url
             /\ ContainerdConfig(c.cas, r, m).mirror = ContainerdConfig(d.cas, r, m).mirror
             /\ ContainerdConfig(c.cas, r, m).secret = ContainerdConfig(d.cas, r, m).secret
             /\ ContainerdConfig(c.cas, r, m).ca = 0 <=> ContainerdConfig(d.cas, r, m).ca = 0
  BY <1>5 DEF SecretMissing, ContainerdConfig, SecretForImageRegistryCredentials, SecretsAlike
<1>6. MirrorsAlike(P(c), P(d))
  <2>1. /\ IsList(P(c)) /\ IsList(P(d)) /\ DOMAIN P(c) = DOMAIN G /\ DOMAIN P(d) = DOMAIN G
        /\ \A i \in DOMAIN G : P(c)[i] = ContainerdConfig(c.cas, G[i], TRUE) /\ P(d)[i] = ContainerdConfig(d.cas, G[i], TRUE)
    BY <1>3, MapList
  <2> DEFINE x == P(c)
             y == P(d)
  <2> HIDE DEF P
  <2>2. ASSUME NEW i \in DOMAIN G
        PROVE  x[i].url = y[i].url /\ x[i].mirror = y[i].mirror /\ x[i].secret = y[i].secret /\ (x[i].ca = 0 <=> y[i].ca = 0)
    <3>1. ~SecretMissing(c.cas, G[i]) /\ x[i] = ContainerdConfig(c.cas, G[i], TRUE) /\ y[i] = ContainerdConfig(d.cas, G[i], TRUE)
      BY <1>4, <2>1
    <3>2. /\ ContainerdConfig(c.cas, G[i], TRUE).url = ContainerdConfig(d.cas, G[i], TRUE).url
          /\ ContainerdConfig(c.cas, G[i], TRUE).mirror = ContainerdConfig(d.cas, G[i], TRUE).mirror
          /\ ContainerdConfig(c.cas, G[i], TRUE).secret = ContainerdConfig(d.cas, G[i], TRUE).secret
          /\ ContainerdConfig(c.cas, G[i], TRUE).ca = 0 <=> ContainerdConfig(d.cas, G[i], TRUE).ca = 0
      BY ONLY <1>5, <3>1
    <3> HIDE DEF x, y, G
    <3> QED BY <3>1, <3>2
  <2> HIDE DEF x, y
  <2>3. MirrorsAlike(x, y)
    BY <2>1, <2>2 DEF MirrorsAlike, x, y
  <2> QED BY <2>3 DEF x, y
<1>7. MirrorsAlike(Q(c), Q(d))
  <2>1. /\ IsList(Q(c)) /\ IsList(Q(d)) /\ DOMAIN Q(c) = DOMAIN I /\ DOMAIN Q(d) = DOMAIN I
        /\ \A i \in DOMAIN I : Q(c)[i] = ContainerdConfig(c.cas, I[i], FALSE) /\ Q(d)[i] = ContainerdConfig(d.cas, I[i], FALSE)
    BY <1>3, MapList
  <2> DEFINE x == Q(c)
             y == Q(d)
  <2> HIDE DEF Q
  <2>2. ASSUME NEW i \in DOMAIN I
        PROVE  x[i].url = y[i].url /\ x[i].mirror = y[i].mirror /\ x[i].secret = y[i].secret /\ (x[i].ca = 0 <=> y[i].ca = 0)
    <3>1. ~SecretMissing(c.cas, I[i]) /\ x[i] = ContainerdConfig(c.cas, I[i], FALSE) /\ y[i] = ContainerdConfig(d.cas, I[i], FALSE)
      BY <1>4, <2>1
    <3>2. /\ ContainerdConfig(c.cas, I[i], FALSE).url = ContainerdConfig(d.cas, I[i], FALSE).url
          /\ ContainerdConfig(c.cas, I[i], FALSE).mirror = ContainerdConfig(d.cas, I[i], FALSE).mirror
          /\ ContainerdConfig(c.cas, I[i], FALSE).secret = ContainerdConfig(d.cas, I[i], FALSE).secret
          /\ ContainerdConfig(c.cas, I[i], FALSE).ca = 0 <=> ContainerdConfig(d.cas, I[i], FALSE).ca = 0
      BY ONLY <1>5, <3>1
    <3> HIDE DEF x, y, I
    <3> QED BY <3>1, <3>2
  <2> HIDE DEF x, y
  <2>3. MirrorsAlike(x, y)
    BY <2>1, <2>2 DEF MirrorsAlike, x, y
  <2> QED BY <2>3 DEF x, y
<1>8. MirrorsAlike(last, last)
  <2>1. IsList(last)
    BY Literals
  <2> HIDE DEF last
  <2> QED BY <2>1 DEF MirrorsAlike
<1> HIDE DEF P, Q, last
<1>9. MirrorsAlike(P(c) \o Q(c), P(d) \o Q(d))
  BY <1>6, <1>7, MirrorsConcat
<1> QED BY <1>2, <1>8, <1>9, MirrorsConcat

\* The files name the Secrets that hold the CAs, never the CAs.
LEMMA ContainerdFilesSame ==
    ASSUME NEW a, NEW b, MirrorsAlike(a, b)
    PROVE  /\ ContainerdFiles(a) = ContainerdFiles(b)
           /\ NeedContainerdConfiguration(a) = NeedContainerdConfiguration(b)
<1> DEFINE M(e) == {i \in DOMAIN e : e[i].mirror}
           W(e) == {i \in DOMAIN e : e[i].secret # "none"}
           mirrors(e) == Keep(e, M(e))
           cas(e) == Keep(e, W(e))
           first(s, i) == \A j \in DOMAIN s : j < i => s[j].url.host # s[i].url.host
           file(s, i) == FromSecret(CAFilePath(s[i].url.host), s[i].secret)
           files(s) == [i \in DOMAIN s |-> IF first(s, i) THEN <<file(s, i)>> ELSE <<>>]
           hosts(s) == [i \in DOMAIN s |-> <<s[i].url.host, Clean(s[i].url.path), s[i].ca # 0>>]
           of(s, h, f) == (IF s = <<>> THEN <<>> ELSE <<File(HostsFile, h)>>)
                          \o FlattenSeq(f) \o <<File("patches/registry-config.toml", <<"registry config">>)>>
<1>1. /\ DOMAIN a = DOMAIN b /\ IsList(a) /\ IsList(b)
      /\ \A i \in DOMAIN a : /\ a[i].url = b[i].url /\ a[i].mirror = b[i].mirror /\ a[i].secret = b[i].secret
                             /\ a[i].ca = 0 <=> b[i].ca = 0
  BY DEF MirrorsAlike
<1>2. M(a) = M(b) /\ W(a) = W(b)
  BY <1>1
<1>3. ASSUME NEW J
      PROVE  /\ DOMAIN Keep(a, J) = DOMAIN Keep(b, J) /\ IsList(Keep(a, J)) /\ IsList(Keep(b, J))
             /\ \A k \in DOMAIN Keep(a, J) :
                  /\ Keep(a, J)[k].url = Keep(b, J)[k].url /\ Keep(a, J)[k].secret = Keep(b, J)[k].secret
                  /\ Keep(a, J)[k].ca = 0 <=> Keep(b, J)[k].ca = 0
  <2>1. PICK g : Takes(g, J, a, b)
    BY <1>1, KeepSame
  <2>2. IsList(Keep(a, J)) /\ IsList(Keep(b, J))
    BY <1>1, KeepList
  <2> QED BY <1>1, <2>1, <2>2 DEF Takes
<1>4. /\ DOMAIN mirrors(a) = DOMAIN mirrors(b) /\ IsList(mirrors(a)) /\ IsList(mirrors(b))
      /\ \A k \in DOMAIN mirrors(a) : mirrors(a)[k].url = mirrors(b)[k].url /\ (mirrors(a)[k].ca = 0 <=> mirrors(b)[k].ca = 0)
  <2> HIDE DEF M
  <2> QED BY <1>2, <1>3
<1>5. /\ DOMAIN cas(a) = DOMAIN cas(b)
      /\ \A k \in DOMAIN cas(a) : cas(a)[k].url = cas(b)[k].url /\ cas(a)[k].secret = cas(b)[k].secret
  <2> HIDE DEF W
  <2> QED BY <1>2, <1>3
<1>6. mirrors(a) = <<>> <=> mirrors(b) = <<>>
  <2> HIDE DEF mirrors
  <2> QED BY <1>4, EmptySeq DEF IsList
<1>7. hosts(mirrors(a)) = hosts(mirrors(b))
  <2> HIDE DEF mirrors
  <2>1. \A k \in DOMAIN mirrors(a) : (mirrors(a)[k].ca # 0) = (mirrors(b)[k].ca # 0)
    BY <1>4
  <2> QED BY <1>4, <2>1, Zenon
<1>8. files(cas(a)) = files(cas(b))
  <2> HIDE DEF cas
  <2>1. \A k \in DOMAIN cas(a) : (first(cas(a), k) <=> first(cas(b), k)) /\ file(cas(a), k) = file(cas(b), k)
    BY <1>5
  <2> HIDE DEF first, file
  <2> QED BY <1>5, <2>1
<1>9. \A e : ContainerdFiles(e) = of(mirrors(e), hosts(mirrors(e)), files(cas(e)))
  BY Zenon DEF ContainerdFiles, WithCA
<1>10. ContainerdFiles(a) = ContainerdFiles(b)
  <2> HIDE DEF mirrors, hosts, files, cas
  <2>1. \A h, f : of(mirrors(a), h, f) = of(mirrors(b), h, f)
    BY <1>6
  <2> HIDE DEF of
  <2> QED BY <1>7, <1>8, <1>9, <2>1, Zenon
<1>11. NeedContainerdConfiguration(a) <=> NeedContainerdConfiguration(b)
  BY <1>1 DEF NeedContainerdConfiguration
<1>12. NeedContainerdConfiguration(a) \in BOOLEAN /\ NeedContainerdConfiguration(b) \in BOOLEAN
  BY DEF NeedContainerdConfiguration
<1> QED BY <1>10, <1>11, <1>12

\* New CAs do not change what the mirrors mutator makes of a template, unless it refuses
\* them.
LEMMA MirrorsTemplate ==
    ASSUME NEW c, NEW d, NEW t, SameButSecrets(c, d), SecretsAlike(c.cas, d.cas), IsList(ImageRegistries(c)),
           ~MirrorsFail(c), ~MirrorsFail(d)
    PROVE  Mutate("mirrors", c, t) = Mutate("mirrors", d, t)
<1> DEFINE C(e) == ContainerdConfigs(e)
<1>1. \A e : Mutate("mirrors", e, t) = Mirrors(e, t)
  BY DEF Mutate
<1>2. \A e : ~MirrorsFail(e) =>
        Mirrors(e, t) = IF ~NeedContainerdConfiguration(C(e)) THEN t
                        ELSE MutateIfApplicable(t, Kubeadm(t), AddFiles(t, ContainerdFiles(C(e))))
  BY Zenon DEF Mirrors
<1>3. MirrorsAlike(C(c), C(d))
  BY MirrorsConfigs
<1>4. ContainerdFiles(C(c)) = ContainerdFiles(C(d)) /\ NeedContainerdConfiguration(C(c)) = NeedContainerdConfiguration(C(d))
  BY <1>3, ContainerdFilesSame
<1> HIDE DEF C
<1>5. Mirrors(c, t) = Mirrors(d, t)
  BY <1>2, <1>4
<1> QED BY <1>1, <1>5

\* Two runs that both succeed, for contexts that differ in no more than the contents of
\* Secrets, make the same of a template.
LEMMA RunsAgree ==
    ASSUME NEW c, NEW d, NEW t, NEW names, NEW p, NEW q, Follows(p, names, c, t), Follows(q, names, d, t), IsList(names),
           SameButSecrets(c, d), SecretsAlike(c.secrets, d.secrets), SecretsAlike(c.cas, d.cas), IsList(ImageRegistries(c)),
           \A n \in 0 .. Len(names) : "err" \in DOMAIN p[n] /\ "err" \in DOMAIN q[n],
           ~p[Len(names)].err, ~q[Len(names)].err
    PROVE  p[Len(names)] = q[Len(names)]
<1> DEFINE N == Len(names)
<1>1. N \in Nat
  BY ListFacts
<1>2. ASSUME NEW e, NEW run, Follows(run, names, e, t), ~run[N].err, NEW n \in 0 .. N
      PROVE  ~run[n].err
  <2> DEFINE S == {m \in Nat : m <= N => ~run[N - m].err}
  <2>1. 0 \in S
    BY <1>1, <1>2
  <2>2. ASSUME NEW m \in Nat, m \in S PROVE m + 1 \in S
    <3> SUFFICES ASSUME m + 1 <= N, run[N - (m + 1)].err PROVE FALSE
      <4>1. m + 1 \in Nat
        OBVIOUS
      <4> QED BY <4>1
    <3>1. N - m \in 1 .. N /\ (N - m) - 1 = N - (m + 1) /\ m <= N
      BY <1>1
    <3>2. run[N - m] = run[N - (m + 1)]
      BY <1>2, <3>1 DEF Follows
    <3> QED BY <2>2, <3>1, <3>2
  <2> HIDE DEF S
  <2>3. Nat \subseteq S
    BY <2>1, <2>2, Induct
  <2>4. N - n \in Nat /\ N - n <= N /\ N - (N - n) = n
    BY <1>1
  <2> QED BY <2>3, <2>4 DEF S
<1> DEFINE S == {n \in Nat : n <= N => p[n] = q[n]}
<1>3. 0 \in S
  BY DEF Follows
<1>4. ASSUME NEW n \in Nat, n \in S PROVE n + 1 \in S
  <2> SUFFICES ASSUME n + 1 <= N PROVE p[n + 1] = q[n + 1]
    <3>1. n + 1 \in Nat
      OBVIOUS
    <3> QED BY <3>1
  <2> DEFINE name == names[n + 1]
             u == p[n]
  <2>1. n + 1 \in 1 .. N /\ (n + 1) - 1 = n /\ n \in 0 .. N /\ n + 1 \in 0 .. N /\ n <= N
    BY <1>1
  <2>2. q[n] = u /\ ~u.err
    BY <1>2, <1>4, <2>1
  <2>3. p[n + 1] = Mutate(name, c, u) /\ q[n + 1] = Mutate(name, d, u)
    BY <2>1, <2>2 DEF Follows
  <2>4. ~Mutate(name, c, u).err /\ ~Mutate(name, d, u).err /\ "err" \in DOMAIN u
    BY <1>2, <2>1, <2>3
  <2> HIDE DEF name, u
  <2>5. CASE name = "mirrors"
    <3>1. ASSUME NEW e, MirrorsFail(e) PROVE Mutate("mirrors", e, u).err
      <4>1. Mutate("mirrors", e, u) = Fail(u)
        BY <3>1, Zenon DEF Mutate, Mirrors
      <4> QED BY <2>4, <4>1 DEF Fail
    <3>2. ~MirrorsFail(c) /\ ~MirrorsFail(d)
      BY <2>4, <2>5, <3>1
    <3>3. Mutate("mirrors", c, u) = Mutate("mirrors", d, u)
      BY <3>2, MirrorsTemplate
    <3> QED BY <2>3, <2>5, <3>3
  <2>6. CASE name = "credentials"
    <3>1. Mutate("credentials", c, u) = Mutate("credentials", d, u)
      BY CredentialsTemplate
    <3> QED BY <2>3, <2>6, <3>1
  <2>7. CASE name \notin {"credentials", "mirrors"}
    BY <2>3, <2>7, MutatorsSame
  <2> QED BY <2>5, <2>6, <2>7
<1> HIDE DEF S
<1>5. Nat \subseteq S
  BY <1>3, <1>4, Induct
<1> QED BY <1>1, <1>5 DEF S

\* Reads of other contents, alike for the mutators.
LEMMA PresentAlike ==
    ASSUME NEW s, NEW a \in CompleteReads(s), NEW b \in CompleteReads(s),
           \A n \in DOMAIN a :
             [user |-> ContentsOf[n][a[n]].user # 0, ca |-> ContentsOf[n][a[n]].ca # 0]
             = [user |-> ContentsOf[n][b[n]].user # 0, ca |-> ContentsOf[n][b[n]].ca # 0]
    PROVE  SecretsAlike(Present(a), Present(b))
<1>1. DOMAIN a = NamedSecrets(s) /\ DOMAIN b = NamedSecrets(s)
  BY ReadDomains DEF CompleteReads
<1>2. \A n \in NamedSecrets(s) : a[n] # 0 /\ b[n] # 0
  BY <1>1 DEF CompleteReads
<1>3. /\ DOMAIN Present(a) = NamedSecrets(s) /\ DOMAIN Present(b) = NamedSecrets(s)
      /\ \A n \in NamedSecrets(s) : Present(a)[n] = ContentsOf[n][a[n]] /\ Present(b)[n] = ContentsOf[n][b[n]]
  BY <1>1, <1>2 DEF Present
<1>4. ASSUME NEW n \in NamedSecrets(s)
      PROVE  /\ ContentsOf[n][a[n]].user = 0 <=> ContentsOf[n][b[n]].user = 0
             /\ ContentsOf[n][a[n]].ca = 0 <=> ContentsOf[n][b[n]].ca = 0
  <2> DEFINE first == [user |-> ContentsOf[n][a[n]].user # 0, ca |-> ContentsOf[n][a[n]].ca # 0]
             second == [user |-> ContentsOf[n][b[n]].user # 0, ca |-> ContentsOf[n][b[n]].ca # 0]
  <2>1. first = second
    BY <1>1
  <2>2. first.user = second.user /\ first.ca = second.ca
    <3> HIDE DEF first, second
    <3> QED BY <2>1
  <2>3. (first.user <=> ContentsOf[n][a[n]].user # 0) /\ (first.ca <=> ContentsOf[n][a[n]].ca # 0)
    OBVIOUS
  <2>4. (second.user <=> ContentsOf[n][b[n]].user # 0) /\ (second.ca <=> ContentsOf[n][b[n]].ca # 0)
    OBVIOUS
  <2> HIDE DEF first, second
  <2> QED BY <2>2, <2>3, <2>4
<1> HIDE DEF SecretsAlike
<1> QED BY <1>3, <1>4 DEF SecretsAlike

\* Two calls that are done, for the same request and version.
Twins(x, y) ==
    /\ IsCall(x) /\ Done(x) /\ IsCall(y) /\ Done(y)
    /\ y.spec = x.spec /\ y.registry = x.registry /\ y.cp = x.cp
    /\ SameShape(x, y)

\* The contexts of two such calls differ in the contents of Secrets only.
LEMMA ContextsAlike ==
    ASSUME NEW x, NEW y, Twins(x, y), NEW st, NEW gen, NEW st2, NEW gen2,
           \A k \in 1 .. Len(x.reads) : Backed(x, k, st, gen), \A k \in 1 .. Len(y.reads) : Backed(y, k, st2, gen2),
           NEW t
    PROVE  LET c == Context(Standing(x, t), t)
               d == Context(Standing(y, t), t)
           IN SameButSecrets(c, d) /\ SecretsAlike(c.secrets, d.secrets) /\ SecretsAlike(c.cas, d.cas)
<1> DEFINE p == ProgramOf(x)
           a == Standing(x, t)
           b == Standing(y, t)
           c == Context(a, t)
           d == Context(b, t)
<1>1. /\ IsCall(x) /\ Done(x) /\ IsCall(y) /\ Done(y)
      /\ y.spec = x.spec /\ y.registry = x.registry /\ y.cp = x.cp /\ SameShape(x, y)
  BY DEF Twins
<1>2. /\ ProgramOf(y) = p /\ SpecOf(y) = SpecOf(x) /\ \A op, u : Place(y, op, u) = Place(x, op, u)
      /\ Len(x.reads) = Len(p) /\ Len(y.reads) = Len(p) /\ DOMAIN x.reads = 1 .. Len(p)
  <2>1. ProgramOf(y) = p /\ SpecOf(y) = SpecOf(x)
    BY <1>1 DEF ProgramOf, SpecOf
  <2>2. DOMAIN x.reads = 1 .. Len(x.reads)
    BY <1>1, ListFacts DEF IsCall
  <2> QED BY <1>1, <2>1, <2>2 DEF Place, Done
<1>3. ASSUME NEW op, NEW u, Place(x, op, u) \in 1 .. Len(p) PROVE p[Place(x, op, u)].op = op
  <2>1. LET k == Place(x, op, u) IN k = 0 \/ (k \in 1 .. Len(p) /\ p[k] = [op |-> op, t |-> u])
    BY <1>1, Places
  <2> QED BY <1>3, <2>1
<1>4. /\ SpecOf(a) = SpecOf(x) /\ a.cp = x.cp
      /\ \A op \in {"virtualip", "coredns"} :
           LET k == Place(x, op, 0) IN
           VersionSeen(a, op) = IF k \notin 1 .. Len(p) THEN 0
                                ELSE IF t = 0 THEN x.reads[k] ELSE FirstRead(x.spec, x.registry, k)
      /\ \A op \in {"credentials", "mirrors"} :
           LET k == Place(x, op, t) IN
           /\ k \in 1 .. Len(p) =>
                SecretsRead(a, op, t) = Present(x.reads[k]) /\ x.reads[k] \in CompleteReads(Table[x.spec])
           /\ k \notin 1 .. Len(p) => SecretsRead(a, op, t) = NoVariables
  BY <1>1, <1>2, StandingReads
<1>5. /\ SpecOf(b) = SpecOf(x) /\ b.cp = x.cp
      /\ \A op \in {"virtualip", "coredns"} :
           LET k == Place(x, op, 0) IN
           VersionSeen(b, op) = IF k \notin 1 .. Len(p) THEN 0
                                ELSE IF t = 0 THEN y.reads[k] ELSE FirstRead(x.spec, x.registry, k)
      /\ \A op \in {"credentials", "mirrors"} :
           LET k == Place(x, op, t) IN
           /\ k \in 1 .. Len(p) =>
                SecretsRead(b, op, t) = Present(y.reads[k]) /\ y.reads[k] \in CompleteReads(Table[x.spec])
           /\ k \notin 1 .. Len(p) => SecretsRead(b, op, t) = NoVariables
  <2>1. /\ SpecOf(b) = SpecOf(y) /\ b.cp = y.cp
        /\ \A op \in {"virtualip", "coredns"} :
             LET k == Place(y, op, 0) IN
             VersionSeen(b, op) = IF k \notin 1 .. Len(y.reads) THEN 0
                                  ELSE IF t = 0 THEN y.reads[k] ELSE FirstRead(y.spec, y.registry, k)
        /\ \A op \in {"credentials", "mirrors"} :
             LET k == Place(y, op, t) IN
             /\ k \in 1 .. Len(y.reads) =>
                  SecretsRead(b, op, t) = Present(y.reads[k]) /\ y.reads[k] \in CompleteReads(Table[y.spec])
             /\ k \notin 1 .. Len(y.reads) => SecretsRead(b, op, t) = NoVariables
    BY <1>1, StandingReads
  <2> HIDE DEF b
  <2> QED BY <1>1, <1>2, <2>1
<1>6. ASSUME NEW k \in 1 .. Len(p), p[k].op \in {"virtualip", "coredns"} PROVE x.reads[k] = y.reads[k]
  BY <1>1, <1>2, <1>6 DEF SameShape
<1>7. ASSUME NEW k \in 1 .. Len(p), p[k].op \in {"credentials", "mirrors"}
      PROVE  \A n \in DOMAIN x.reads[k] :
               [user |-> ContentsOf[n][x.reads[k][n]].user # 0, ca |-> ContentsOf[n][x.reads[k][n]].ca # 0]
               = [user |-> ContentsOf[n][y.reads[k][n]].user # 0, ca |-> ContentsOf[n][y.reads[k][n]].ca # 0]
  BY <1>1, <1>2, <1>7, Zenon DEF SameShape
<1>8. ASSUME NEW op \in {"virtualip", "coredns"} PROVE VersionSeen(a, op) = VersionSeen(b, op)
  BY <1>3, <1>4, <1>5, <1>6
<1>9. ASSUME NEW op \in {"credentials", "mirrors"} PROVE SecretsAlike(SecretsRead(a, op, t), SecretsRead(b, op, t))
  <2> DEFINE k == Place(x, op, t)
  <2>1. CASE k \in 1 .. Len(p)
    <3>1. SecretsAlike(Present(x.reads[k]), Present(y.reads[k]))
      <4>1. p[k].op \in {"credentials", "mirrors"}
        BY <1>3, <2>1
      <4>2. x.reads[k] \in CompleteReads(Table[x.spec]) /\ y.reads[k] \in CompleteReads(Table[x.spec])
        BY <1>4, <1>5, <2>1
      <4> HIDE DEF k
      <4>3. \A n \in DOMAIN x.reads[k] :
               [user |-> ContentsOf[n][x.reads[k][n]].user # 0, ca |-> ContentsOf[n][x.reads[k][n]].ca # 0]
               = [user |-> ContentsOf[n][y.reads[k][n]].user # 0, ca |-> ContentsOf[n][y.reads[k][n]].ca # 0]
        BY <1>7, <2>1, <4>1
      <4> QED BY <4>2, <4>3, PresentAlike
    <3> QED BY <1>4, <1>5, <2>1, <3>1
  <2>2. CASE k \notin 1 .. Len(p)
    <3>1. SecretsRead(a, op, t) = NoVariables /\ SecretsRead(b, op, t) = NoVariables
      BY <1>4, <1>5, <2>2
    <3>2. SecretsAlike(NoVariables, NoVariables)
      BY DEF SecretsAlike
    <3> QED BY <3>1, <3>2
  <2> QED BY <2>1, <2>2
<1> HIDE DEF a, b
<1>10. SameButSecrets(c, d)
  <2>1. /\ c.provider = SpecOf(x).provider /\ c.v6 = SpecOf(x).v6 /\ c.cfg = SpecOf(x).cfg
        /\ c.wc = IF t = 0 THEN SpecOf(x).wc ELSE WorkerConfig(SpecOf(x), t)
        /\ c.builtin = [cp |-> x.cp, md |-> x.cp]
        /\ c.seen = [virtualip |-> VersionSeen(a, "virtualip"), coredns |-> VersionSeen(a, "coredns")]
    BY <1>4 DEF Context, ContextOf
  <2>2. /\ d.provider = SpecOf(x).provider /\ d.v6 = SpecOf(x).v6 /\ d.cfg = SpecOf(x).cfg
        /\ d.wc = IF t = 0 THEN SpecOf(x).wc ELSE WorkerConfig(SpecOf(x), t)
        /\ d.builtin = [cp |-> x.cp, md |-> x.cp]
        /\ d.seen = [virtualip |-> VersionSeen(b, "virtualip"), coredns |-> VersionSeen(b, "coredns")]
    BY <1>5 DEF Context, ContextOf
  <2> HIDE DEF c, d
  <2> QED BY <1>8, <2>1, <2>2 DEF SameButSecrets
<1>11. /\ c.secrets = SecretsRead(a, "credentials", t) /\ c.cas = SecretsRead(a, "mirrors", t)
       /\ d.secrets = SecretsRead(b, "credentials", t) /\ d.cas = SecretsRead(b, "mirrors", t)
  BY DEF Context, ContextOf
<1> HIDE DEF c, d
<1>12. SecretsAlike(c.secrets, d.secrets) /\ SecretsAlike(c.cas, d.cas)
  BY <1>9, <1>11
<1> QED BY <1>10, <1>12 DEF a, b, c, d

\* Two such calls, neither of which fails, get the same templates.
LEMMA SameTemplates ==
    ASSUME NEW x, NEW y, Twins(x, y), NEW st, NEW gen, NEW st2, NEW gen2,
           \A k \in 1 .. Len(x.reads) : Backed(x, k, st, gen), \A k \in 1 .. Len(y.reads) : Backed(y, k, st2, gen2),
           NEW t \in 0 .. Len(Table[x.spec].pools), ~NodeTemplateOf(x, t).err, ~NodeTemplateOf(y, t).err
    PROVE  NodeTemplateOf(x, t) = NodeTemplateOf(y, t)
<1> DEFINE a == Standing(x, t)
           b == Standing(y, t)
           c == Context(a, t)
           d == Context(b, t)
           s == SpecOf(x)
           t0 == IF t = 0 THEN ControlPlaneTemplate(s.provider) ELSE BootstrapTemplate(s.provider, s.pools[t].name)
           names == Handlers(s.provider)
<1>1. IsCall(x) /\ Done(x) /\ IsCall(y) /\ Done(y) /\ y.spec = x.spec /\ SpecOf(y) = s
  BY DEF Twins, SpecOf
<1>2. SameButSecrets(c, d) /\ SecretsAlike(c.secrets, d.secrets) /\ SecretsAlike(c.cas, d.cas)
  BY ContextsAlike
<1>3. c.provider = s.provider /\ c.provider \in Providers /\ ContextOK(c)
  BY <1>1, ContextIs
<1>4. d.provider = s.provider /\ ContextOK(d)
  BY <1>1, ContextIs
<1>5. ASSUME NEW z, NEW u, NEW gen3, IsCall(z), Done(z), \A k \in 1 .. Len(z.reads) : Backed(z, k, u, gen3),
             z.spec = x.spec, SpecOf(z) = s, Context(Standing(z, t), t).provider = s.provider
      PROVE  NodeTemplateOf(z, t) = RunMutators(names, Context(Standing(z, t), t), t0)
  <2> DEFINE w == Standing(z, t)
             e == Context(w, t)
  <2>1. NodeTemplateOf(z, t) = NodeTemplate(w, t)
    BY <1>5, TemplateIs
  <2>2. SpecOf(w) = s
    <3>1. SpecOf(w) = SpecOf(z)
      BY DEF Standing, CallWith, SpecOf
    <3> QED BY <1>5, <3>1
  <2> HIDE DEF w
  <2>3. NodeTemplate(w, t) = GeneratePatches(e, t0)
    <3> HIDE DEF s
    <3> QED BY <2>2, Zenon DEF NodeTemplate
  <2>4. e.provider = s.provider
    BY <1>5 DEF w
  <2> HIDE DEF e, t0, s
  <2>5. GeneratePatches(e, t0) = RunMutators(Handlers(e.provider), e, t0)
    BY Zenon DEF GeneratePatches, Handlers
  <2> QED BY <2>1, <2>3, <2>4, <2>5 DEF e, w
<1>6. NodeTemplateOf(x, t) = RunMutators(names, c, t0)
  BY <1>1, <1>3, <1>5
<1>7. NodeTemplateOf(y, t) = RunMutators(names, d, t0)
  BY <1>1, <1>4, <1>5
<1>8. \A e : Made(TRUE, e, t0, t0)
  BY ClassTemplates
<1>9. IsList(names) /\ Range(names) \subseteq MutatorNames
  BY <1>3, HandlersSorted
<1>10. PICK k \in Nat : \A n \in 1 .. Len(names) : names[n] # (IF n <= k THEN "sortextraargs" ELSE "podsecurityadmission")
  BY <1>3, HandlersSorted
<1> HIDE DEF c, d, t0, names
<1>11. PICK p : Follows(p, names, c, t0) /\ RunMutators(names, c, t0) = p[Len(names)]
  BY <1>9, RunIs
<1>12. PICK q : Follows(q, names, d, t0) /\ RunMutators(names, d, t0) = q[Len(names)]
  BY <1>9, RunIs
<1>13. \A n \in 0 .. Len(names) : Made(FALSE, c, t0, p[n])
  BY <1>3, <1>8, <1>9, <1>10, <1>11, RunsMade
<1>14. \A n \in 0 .. Len(names) : Made(FALSE, d, t0, q[n])
  BY <1>4, <1>8, <1>9, <1>10, <1>12, RunsMade
<1>15. \A n \in 0 .. Len(names) : "err" \in DOMAIN p[n] /\ "err" \in DOMAIN q[n]
  BY <1>13, <1>14 DEF Made, Fields
<1>16. ~p[Len(names)].err /\ ~q[Len(names)].err
  BY <1>6, <1>7, <1>11, <1>12
<1>17. p[Len(names)] = q[Len(names)]
  BY <1>2, <1>3, <1>9, <1>11, <1>12, <1>15, <1>16, RunsAgree DEF ContextOK
<1> QED BY <1>6, <1>7, <1>11, <1>12, <1>17

\* CAPI uses no answer that a mutator has failed.
AnswerOK(x) == x # NoCall => ~Fails(x)
AnswerInv == AnswerOK(answer)
LEMMA AnswerStep == AnswerInv /\ [Next]_vars => AnswerInv'
<1> SUFFICES ASSUME AnswerOK(answer), [Next]_vars PROVE AnswerOK(answer')
  BY DEF AnswerInv
<1>1. CASE Finish
  <2>1. answer' = IF Fails(call) THEN answer ELSE call
    BY <1>1 DEF Finish
  <2> QED BY <2>1 DEF AnswerOK
<1>2. CASE UNCHANGED answer
  BY <1>2
<1>3. UNCHANGED vars => UNCHANGED answer
  BY DEF vars
<1>4. ASSUME NEW i, NEW uuid, NEW keep, Submit(i, uuid, keep) PROVE UNCHANGED answer
  BY <1>4 DEF Submit
<1>5. (\E v \in Versions : Upgrade(v)) \/ (\E s \in SecretNames : \E content \in 0 .. Len(Contents[s]) : Rotate(s, content))
      \/ EnableManagementRegistry \/ (\E o \in Objects : Sync(o)) \/ BeforeClusterCreate => UNCHANGED answer
  BY DEF Upgrade, Rotate, EnableManagementRegistry, Sync, BeforeClusterCreate
<1>6. Reconcile \/ Step \/ ZombieStep \/ ZombieEnds \/ APIError \/ Timeout \/ Crash => UNCHANGED answer
  BY DEF Reconcile, Begin, Step, ZombieStep, Advance, ZombieEnds, APIError, Timeout, Crash
<1> QED BY <1>1, <1>2, <1>3, <1>4, <1>5, <1>6 DEF Next

\* From one answer to the next, no template changes without a reason.
RolloutOK(x, y) ==
    (/\ x # NoCall /\ y.spec = x.spec /\ y.registry = x.registry
     /\ y.cp = x.cp /\ SameShape(x, y))
    => \A t \in 0..Len(SpecOf(x).pools) : NodeTemplateOf(x, t) = NodeTemplateOf(y, t)
LEMMA AnswersAgree ==
    ASSUME NEW x, NEW y, NEW st, NEW gen, NEW st2, NEW gen2, CallOK(x, st, gen), CallOK(y, st2, gen2),
           x # NoCall => Done(x), y # NoCall => Done(y), AnswerOK(x), AnswerOK(y)
    PROVE  RolloutOK(x, y)
<1> SUFFICES ASSUME x # NoCall, y.spec = x.spec, y.registry = x.registry, y.cp = x.cp, SameShape(x, y),
                    NEW t \in 0 .. Len(SpecOf(x).pools)
             PROVE  NodeTemplateOf(x, t) = NodeTemplateOf(y, t)
  BY DEF RolloutOK
<1>1. IsCall(x) /\ Done(x) /\ x.spec \in DOMAIN Table /\ ~Fails(x)
  BY DEF CallOK, IsCall, AnswerOK
<1>2. y # NoCall
  <2>1. NoCall.spec = 0
    BY DEF NoCall
  <2>2. x.spec # 0
    BY <1>1, TableList
  <2> QED BY <2>1, <2>2
<1>3. IsCall(y) /\ Done(y) /\ ~Fails(y)
  BY <1>2 DEF CallOK, AnswerOK
<1>4. Twins(x, y)
  BY <1>1, <1>3 DEF Twins
<1>5. SpecOf(y) = SpecOf(x) /\ SpecOf(x).pools = Table[x.spec].pools
  <2>1. Keeps(Table[x.spec], SpecOf(x))
    BY <1>1, TableFacts DEF IsCall, SpecOf
  <2> QED BY <2>1 DEF Keeps, SpecOf
<1>6. ~NodeTemplateOf(x, t).err
  BY <1>1 DEF Fails
<1>7. ~NodeTemplateOf(y, t).err
  BY <1>3, <1>5 DEF Fails
<1>8. /\ \A k \in 1 .. Len(x.reads) : Backed(x, k, st, gen)
      /\ \A k \in 1 .. Len(y.reads) : Backed(y, k, st2, gen2)
  BY <1>2 DEF CallOK
<1> QED BY <1>4, <1>5, <1>6, <1>7, <1>8, SameTemplates

------------------------------------------------------------------------------
(* The encryption key *)

(* The API server holds one value of each object. *)
StoreTyped == store = [o \in Objects |-> store[o]]

(* Every step but the creation of the key leaves the key alone, and that   *)
(* one finds none.                                                         *)
LEMMA KeyStep == StoreTyped /\ [Next]_vars => StoreTyped' /\ (store["key"] # 0 => store'["key"] = store["key"])
<1> SUFFICES ASSUME StoreTyped, [Next]_vars
             PROVE StoreTyped' /\ (store["key"] # 0 => store'["key"] = store["key"])
    OBVIOUS
<1> DEFINE KeyKept == StoreTyped' /\ (store["key"] # 0 => store'["key"] = store["key"])
<1>1. UNCHANGED store => KeyKept
  BY DEF StoreTyped
<1>2. ASSUME NEW o \in Objects, o # "key", NEW v, store' = [store EXCEPT ![o] = v]
      PROVE KeyKept
  BY <1>2 DEF StoreTyped, Objects
<1>3. ASSUME NEW x, NEW x2, Advance(x, x2)
      PROVE KeyKept
  <2>1. CASE StepFails(x)
    BY <1>1, <1>3, <2>1 DEF Advance
  <2>2. CASE ~StepFails(x)
    <3>1. Writes(x)
      BY <1>3, <2>2 DEF Advance
    <3>2. CASE Current(x).op = "keyCreate" /\ ~KeyFound(x)
      <4>1. store["key"] = 0
        BY <2>2, <3>2 DEF StepFails, KeyConflict
      <4>2. store' = [store EXCEPT !["key"] = @ + 1]
        BY <3>1, <3>2 DEF Writes, CreateEncryptionKey
      <4> QED BY <4>1, <4>2 DEF StoreTyped, Objects
    <3>3. CASE ~(Current(x).op = "keyCreate" /\ ~KeyFound(x))
      <4>1. UNCHANGED store
        BY <3>1, <3>3 DEF Writes
      <4> QED BY <4>1, <1>1
    <3> QED BY <3>2, <3>3
  <2> QED BY <2>1, <2>2
<1>4. CASE UNCHANGED vars
  BY <1>1, <1>4 DEF vars
<1>5. ASSUME NEW i \in DOMAIN Table, NEW uuid, NEW keep \in BOOLEAN, Submit(i, uuid, keep)
      PROVE KeyKept
  BY <1>1, <1>5 DEF Submit
<1>6. ASSUME NEW v \in Versions, Upgrade(v)
      PROVE KeyKept
  BY <1>2, <1>6 DEF Upgrade, Objects
<1>7. ASSUME NEW s \in SecretNames, NEW content, Rotate(s, content)
      PROVE KeyKept
  <2>1. s # "key"
    BY SecretsAssumption
  <2> QED BY <1>2, <1>7, <2>1 DEF Rotate, Objects
<1>8. CASE BeforeClusterCreate
  <2>1. UNCHANGED store \/ store' = [store EXCEPT !["ca"] = 1]
    BY <1>8 DEF BeforeClusterCreate
  <2> QED BY <1>1, <1>2, <2>1 DEF Objects
<1>9. CASE Step \/ ZombieStep
  BY <1>3, <1>9 DEF Step, ZombieStep
<1>10. CASE EnableManagementRegistry \/ (\E o \in Objects : Sync(o)) \/ Reconcile \/ Finish \/ ZombieEnds
            \/ APIError \/ Timeout \/ Crash
  BY <1>1, <1>10 DEF EnableManagementRegistry, Sync, Reconcile, Begin, Finish, ZombieEnds, APIError, Timeout, Crash
<1> QED BY <1>4, <1>5, <1>6, <1>7, <1>8, <1>9, <1>10 DEF Next

(* encryptionatrest/inject.go:108, "we do not rotate or override the secret*)
(* keys": however many calls run, by whatever cache they decide, a key that*)
(* is there stays.                                                         *)
THEOREM KeyStays == Spec => KeyNeverReplaced
<1>1. Init => StoreTyped
  BY DEF Init, StoreTyped
<1>2. StoreTyped /\ [Next]_vars => StoreTyped'
  BY KeyStep
<1>3. StoreTyped /\ [Next]_vars => [store["key"] # 0 => store'["key"] = store["key"]]_vars
  BY KeyStep
<1> QED BY <1>1, <1>2, <1>3, PTL DEF Spec, KeyNeverReplaced

------------------------------------------------------------------------------
(* The theorems *)

(* Whatever the order of the user, the API server, the cache, the calls and*)
(* the faults, what a call has done so far stays done.                     *)
THEOREM Invariant == Spec => []TopologyInv
<1>1. Init => TopologyInv
  BY TopologyInit
<1>2. TopologyInv /\ [Next]_vars => TopologyInv'
  BY TopologyStep
<1> QED BY <1>1, <1>2, PTL DEF Spec

(* Every variable has its type; a Secret that the Cluster owns is there,   *)
(* also after the user has deleted others, and no call, abandoned or not,  *)
(* runs past the end of its program.                                       *)
THEOREM TypeCorrect == Spec => []TypeOK
<1>1. TopologyInv => TypeOK
  BY TypesOK
<1> QED BY <1>1, Invariant, PTL

(* The files of the nodes come from Secrets that other steps of the call   *)
(* make: in every template that CAPI uses, for every request, provider and *)
(* pool, the generated credentials, the encryption key and the registry    *)
(* add-on's CA that it names are there.                                    *)
THEOREM SecretsAreThere == Spec => []SecretsBehindTemplates
<1>1. TopologyInv => SecretsBehindTemplates
  BY TemplatesBacked
<1> QED BY <1>1, Invariant, PTL

(* nutanix_validator.go, kubeletconfiguration_validator.go, metro.go,      *)
(* metro_clusters.go and cilium_configuration_validator.go against the     *)
(* mutators, which do not look: whatever the user writes, in any order,    *)
(* no template that CAPI uses for an admitted Cluster reserves resources   *)
(* twice, places machines twice or nowhere, takes Prism Central's address, *)
(* leaves the Services to nobody or binds the volumes of a metro cluster.  *)
THEOREM AdmittedAreSound == Spec => []AdmittedClustersSound
<1>1. Init => TopologyInv /\ AdmissionInv
  BY TopologyInit, AdmissionInit
<1>2. TopologyInv /\ AdmissionInv /\ [Next]_vars => (TopologyInv /\ AdmissionInv)'
  BY TopologyStep, AdmissionStep
<1>3. TopologyInv /\ AdmissionInv => AdmittedClustersSound
  BY AnswerSound
<1> QED BY <1>1, <1>2, <1>3, PTL DEF Spec

(* inject.go:138-141, credentials are delivered "without node rollout":    *)
(* whatever runs between two answers that CAPI uses, from the same request *)
(* and version, no template of a node changes because Secrets hold other   *)
(* credentials or CAs than before, or because a call was repeated.         *)
THEOREM RolloutsHaveAReason == Spec => NoSpuriousRollout
<1>1. Init => TopologyInv /\ AnswerInv
  BY TopologyInit DEF Init, AnswerInv, AnswerOK
<1>2. TopologyInv /\ AnswerInv /\ [Next]_vars => (TopologyInv /\ AnswerInv)'
  BY TopologyStep, AnswerStep
<1>3. TopologyInv /\ AnswerInv /\ TopologyInv' /\ AnswerInv' => RolloutOK(answer, answer')
  <2> SUFFICES ASSUME TopologyInv, AnswerOK(answer), TopologyInv', AnswerOK(answer') PROVE RolloutOK(answer, answer')
    BY DEF AnswerInv
  <2>1. CallOK(answer, store, generated) /\ (answer # NoCall => Done(answer))
    BY DEF TopologyInv, CallsOK
  <2>2. CallOK(answer', store', generated') /\ (answer' # NoCall => Done(answer'))
    BY DEF TopologyInv, CallsOK
  <2> QED BY <2>1, <2>2, AnswersAgree
<1>4. TopologyInv /\ AnswerInv /\ [Next]_vars =>
        [(/\ answer # NoCall /\ answer'.spec = answer.spec /\ answer'.registry = answer.registry
          /\ answer'.cp = answer.cp /\ SameShape(answer, answer'))
         => \A t \in 0..Len(SpecOf(answer).pools) : NodeTemplateOf(answer, t) = NodeTemplateOf(answer', t)]_answer
  BY <1>2, <1>3 DEF RolloutOK
<1> QED BY <1>1, <1>2, <1>4, PTL DEF Spec, NoSpuriousRollout
==============================================================================

