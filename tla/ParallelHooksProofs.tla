------------------------ MODULE ParallelHooksProofs ------------------------
(***************************************************************************)
(* Theorems about ParallelHooks for any finite set of hooks and any set of *)
(* retry delays.                                                           *)
(***************************************************************************)
EXTENDS ParallelHooks, FiniteSetTheorems, TLAPS

\* A hook's response starts as the zero value of its type.
LEMMA NewResponseType == NewResponse \in Responses
BY DelaysAreNat, RetryableIsBoolean DEF NewResponse, Responses, Statuses

\* LowestNonZero picks one of its arguments.
LEMMA LowestNonZeroType ==
    ASSUME NEW i \in Delays, NEW j \in Delays
    PROVE  LowestNonZero(i, j) \in Delays
BY DEF LowestNonZero

\* One iteration of the aggregation loop keeps the accumulator well typed.
LEMMA FoldType ==
    ASSUME NEW a \in Accumulators, NEW h \in Hooks, NEW r \in Responses
    PROVE  Fold(a, h, r) \in Accumulators
<1>1. r.retry \in Delays
  BY DelaysAreNat, RetryableIsBoolean DEF Responses
<1>2. LowestNonZero(a.retry, r.retry) \in Delays
  BY <1>1, LowestNonZeroType DEF Accumulators
<1>3. Append(a.okMessages, h) \in Seq(Hooks) /\ Append(a.failMessages, h) \in Seq(Hooks)
  BY DEF Accumulators
<1> QED
  BY <1>2, <1>3 DEF Fold, Accumulators, StatusAfter

-----------------------------------------------------------------------------
(* Type correctness *)

LEMMA InitType == Init => TypeOK
<1> SUFFICES ASSUME Init PROVE TypeOK
  OBVIOUS
<1>1. wg \in Int
  BY HooksFinite, FS_CardinalityType DEF Init, WaitGroupDelta
<1>2. resp \in [Hooks -> Responses]
  BY NewResponseType DEF Init
<1>3. acc \in Accumulators /\ response \in AggregatedResponses
  BY DelaysAreNat DEF Init, NoRetryYet, Accumulators, AggregatedResponses, Statuses
<1>4. chan \in Seq(Hooks) /\ received \in Seq(Hooks)
  BY DEF Init
<1>5. pc \in [Hooks -> PCs] /\ main \in MainPCs
  BY DEF Init, PCs, MainPCs
<1>6. closed \in BOOLEAN /\ alive \in BOOLEAN
  BY DEF Init
<1> QED
  BY <1>1, <1>2, <1>3, <1>4, <1>5, <1>6 DEF TypeOK

LEMMA NextType == TypeOK /\ [Next]_vars => TypeOK'
<1> SUFFICES ASSUME TypeOK, [Next]_vars PROVE TypeOK'
  OBVIOUS
<1> USE DEF TypeOK, PCs, MainPCs
<1>1. ASSUME NEW h \in Hooks, Spawn(h) PROVE TypeOK'
  BY <1>1 DEF Spawn
<1>2. ASSUME NEW h \in Hooks, NEW r \in Responses, HookReturns(h, r) PROVE TypeOK'
  BY <1>2 DEF HookReturns
<1>3. ASSUME NEW h \in Hooks, HookPanics(h) PROVE TypeOK'
  BY <1>3 DEF HookPanics
<1>4. ASSUME NEW h \in Hooks, Send(h) PROVE TypeOK'
  BY <1>4 DEF Send
<1>5. ASSUME NEW h \in Hooks, Done(h) PROVE TypeOK'
  BY <1>5 DEF Done
<1>6. CASE StartReceiving
  BY <1>6 DEF StartReceiving
<1>7. CASE Close
  BY <1>7 DEF Close
<1>8. CASE Receive
  BY <1>8 DEF Receive
<1>9. CASE EndRange
  BY <1>9 DEF EndRange
<1>10. CASE AggregateNext
  <2> DEFINE h == received[acc.index]
  <2>1. h \in Hooks /\ resp[h] \in Responses
    BY <1>10 DEF AggregateNext
  <2>2. acc' \in Accumulators
    BY <1>10, <2>1, FoldType DEF AggregateNext
  <2> QED
    BY <1>10, <2>2 DEF AggregateNext
<1>11. CASE Return
  <2>1. response' \in AggregatedResponses
    BY <1>11 DEF Return, Accumulators, AggregatedResponses, Statuses
  <2> QED
    BY <1>11, <2>1 DEF Return
<1>12. CASE UNCHANGED vars
  BY <1>12 DEF vars
<1> QED
  BY <1>1, <1>2, <1>3, <1>4, <1>5, <1>6, <1>7, <1>8, <1>9, <1>10, <1>11, <1>12
     DEF Next, HookStep

\* Type correctness of every reachable state of runHooksInParallel.
THEOREM TypeCorrect == Spec => []TypeOK
BY InitType, NextType, PTL DEF Spec

-----------------------------------------------------------------------------
(* Every response is aggregated, and no sender blocks or panics *)

Sent(h) == pc[h] \in {"done", "exited"}
Pending == {h \in Hooks : pc[h] # "exited"}

\* The wait group counts the goroutines that have not called Done.
WaitGroupCounts == wg = Cardinality(Pending)

\* A hook's response is in the channel or collected, once, exactly from its
\* send on.
ResponsesAccounted ==
    /\ \A h \in Hooks : Sent(h) <=> h \in Elems(chan) \/ h \in Elems(received)
    /\ Elems(chan) \cap Elems(received) = {}
    /\ OnceEach(chan)
    /\ OnceEach(received)

\* Where the caller is says where the goroutines and the channel are.
PhasesOrdered ==
    /\ closed => \A h \in Hooks : pc[h] = "exited"
    /\ main \in {"aggregate", "returned"} => closed /\ chan = <<>>

DeliveryInv == TypeOK /\ WaitGroupCounts /\ ResponsesAccounted /\ PhasesOrdered

\* The elements of a sequence after Append and after Tail.
LEMMA ElemsAppend ==
    ASSUME NEW S, NEW s \in Seq(S), NEW e \in S
    PROVE  /\ Elems(Append(s, e)) = Elems(s) \cup {e}
           /\ OnceEach(s) /\ e \notin Elems(s) => OnceEach(Append(s, e))
<1>1. /\ Append(s, e) \in Seq(S)
      /\ Len(Append(s, e)) = Len(s) + 1
      /\ DOMAIN Append(s, e) = 1 .. (Len(s) + 1)
      /\ DOMAIN s = 1 .. Len(s)
      /\ Len(s) \in Nat
  OBVIOUS
<1>2. /\ \A i \in 1 .. Len(s) : Append(s, e)[i] = s[i]
      /\ Append(s, e)[Len(s) + 1] = e
  OBVIOUS
<1>3. \A i \in 1 .. (Len(s) + 1) : i \in 1 .. Len(s) \/ i = Len(s) + 1
  BY <1>1
<1>4. Elems(Append(s, e)) = Elems(s) \cup {e}
  BY <1>1, <1>2, <1>3 DEF Elems
<1>5. ASSUME OnceEach(s), e \notin Elems(s) PROVE OnceEach(Append(s, e))
  BY <1>1, <1>2, <1>3, <1>5 DEF OnceEach, Elems
<1> QED
  BY <1>4, <1>5

LEMMA ElemsTail ==
    ASSUME NEW S, NEW s \in Seq(S), s # <<>>
    PROVE  /\ Head(s) \in Elems(s)
           /\ Elems(s) = Elems(Tail(s)) \cup {Head(s)}
           /\ OnceEach(s) => OnceEach(Tail(s)) /\ Head(s) \notin Elems(Tail(s))
<1>1. /\ Len(s) \in Nat /\ Len(s) > 0
      /\ DOMAIN s = 1 .. Len(s)
      /\ Tail(s) \in Seq(S)
      /\ Len(Tail(s)) = Len(s) - 1
      /\ DOMAIN Tail(s) = 1 .. (Len(s) - 1)
      /\ Head(s) = s[1]
  OBVIOUS
<1>2. \A i \in 1 .. (Len(s) - 1) : Tail(s)[i] = s[i + 1]
  OBVIOUS
<1>3. \A i \in 1 .. Len(s) : i = 1 \/ (i - 1 \in 1 .. (Len(s) - 1) /\ s[i] = Tail(s)[i - 1])
  BY <1>1, <1>2
<1>4. Head(s) \in Elems(s)
  BY <1>1 DEF Elems
<1>5. Elems(s) \subseteq Elems(Tail(s)) \cup {Head(s)}
  <2> SUFFICES ASSUME NEW i \in 1 .. Len(s)
               PROVE  s[i] \in Elems(Tail(s)) \/ s[i] = Head(s)
    BY <1>1 DEF Elems
  <2>1. CASE i = 1
    BY <1>1, <2>1
  <2>2. CASE i - 1 \in 1 .. (Len(s) - 1) /\ s[i] = Tail(s)[i - 1]
    BY <1>1, <2>2 DEF Elems
  <2> QED
    BY <1>3, <2>1, <2>2
<1>6. Elems(Tail(s)) \subseteq Elems(s)
  BY <1>1, <1>2 DEF Elems
<1>7. ASSUME OnceEach(s) PROVE OnceEach(Tail(s)) /\ Head(s) \notin Elems(Tail(s))
  <2>1. \A i \in 1 .. (Len(s) - 1) : i + 1 \in 1 .. Len(s) /\ i + 1 # 1
    BY <1>1
  <2>2. Head(s) \notin Elems(Tail(s))
    BY <1>1, <1>2, <1>7, <2>1 DEF Elems, OnceEach
  <2>3. OnceEach(Tail(s))
    <3> SUFFICES ASSUME NEW i \in 1 .. (Len(s) - 1), NEW j \in 1 .. (Len(s) - 1),
                        Tail(s)[i] = Tail(s)[j]
                 PROVE  i = j
      BY <1>1 DEF OnceEach
    <3>1. s[i + 1] = s[j + 1]
      BY <1>2
    <3>2. i + 1 = j + 1
      BY <1>1, <1>7, <2>1, <3>1 DEF OnceEach
    <3> QED
      BY <3>2
  <2> QED
    BY <2>2, <2>3
<1> QED
  BY <1>4, <1>5, <1>6, <1>7

\* A sequence without repetitions is no longer than any finite set it is over.
LEMMA OnceEachBounded ==
    ASSUME NEW S, IsFiniteSet(S), NEW s \in Seq(S), OnceEach(s)
    PROVE  Len(s) <= Cardinality(S)
<1>1. s \in [1 .. Len(s) -> S] /\ Len(s) \in Nat /\ DOMAIN s = 1 .. Len(s)
  OBVIOUS
<1>2. s \in Injection(1 .. Len(s), S)
  BY <1>1 DEF Injection, IsInjective, OnceEach
<1>3. Cardinality(1 .. Len(s)) <= Cardinality(S)
  BY <1>2, FS_Injection
<1>4. Cardinality(1 .. Len(s)) = IF 1 > Len(s) THEN 0 ELSE Len(s) - 1 + 1
  BY <1>1, FS_Interval
<1> QED
  BY <1>1, <1>3, <1>4

LEMMA InitDelivery == Init => DeliveryInv
<1> SUFFICES ASSUME Init PROVE DeliveryInv
  OBVIOUS
<1>1. TypeOK
  BY InitType
<1>2. Pending = Hooks
  BY DEF Init, Pending
<1>3. WaitGroupCounts
  BY <1>2 DEF Init, WaitGroupDelta, WaitGroupCounts
<1>4. Elems(chan) = {} /\ Elems(received) = {} /\ OnceEach(chan) /\ OnceEach(received)
  BY DEF Init, Elems, OnceEach
<1>5. \A h \in Hooks : ~Sent(h)
  BY DEF Init, Sent
<1>6. ResponsesAccounted
  BY <1>4, <1>5 DEF ResponsesAccounted
<1>7. PhasesOrdered
  BY DEF Init, PhasesOrdered
<1> QED
  BY <1>1, <1>3, <1>6, <1>7 DEF DeliveryInv

\* A goroutine that moves without sending or finishing disturbs nothing.
LEMMA QuietMove ==
    ASSUME DeliveryInv, TypeOK', NEW h \in Hooks, NEW to \in {"running", "send"},
           pc[h] \in {"unspawned", "running"},
           pc' = [pc EXCEPT ![h] = to],
           UNCHANGED <<wg, chan, closed, main, received>>
    PROVE  DeliveryInv'
<1>1. Pending' = Pending
  BY DEF DeliveryInv, TypeOK, Pending
<1>2. WaitGroupCounts'
  BY <1>1 DEF DeliveryInv, WaitGroupCounts
<1>3. \A g \in Hooks : Sent(g)' <=> Sent(g)
  BY DEF DeliveryInv, TypeOK, Sent
<1>4. ResponsesAccounted'
  BY <1>3 DEF DeliveryInv, ResponsesAccounted
<1>5. ~closed
  BY DEF DeliveryInv, PhasesOrdered
<1>6. PhasesOrdered'
  BY <1>5 DEF DeliveryInv, PhasesOrdered
<1> QED
  BY <1>2, <1>4, <1>6 DEF DeliveryInv

LEMMA NextDelivery == DeliveryInv /\ [Next]_vars => DeliveryInv'
<1> SUFFICES ASSUME DeliveryInv, [Next]_vars PROVE DeliveryInv'
  OBVIOUS
<1>0. TypeOK /\ TypeOK'
  BY NextType DEF DeliveryInv
<1>1. ASSUME NEW h \in Hooks, Spawn(h) PROVE DeliveryInv'
  BY <1>0, <1>1, QuietMove DEF Spawn
<1>2. ASSUME NEW h \in Hooks, NEW r \in Responses, HookReturns(h, r) PROVE DeliveryInv'
  BY <1>0, <1>2, QuietMove DEF HookReturns
<1>4. ASSUME NEW h \in Hooks, Send(h) PROVE DeliveryInv'
  <2>1. ~Sent(h) /\ h \notin Elems(chan) /\ h \notin Elems(received)
    BY <1>4 DEF Send, Sent, DeliveryInv, ResponsesAccounted
  <2>2. Elems(chan') = Elems(chan) \cup {h} /\ OnceEach(chan')
    BY <1>0, <1>4, <2>1, ElemsAppend DEF Send, TypeOK, DeliveryInv, ResponsesAccounted
  <2>3. \A g \in Hooks : Sent(g)' <=> (Sent(g) \/ g = h)
    BY <1>0, <1>4 DEF Send, Sent, TypeOK
  <2>4. received' = received
    BY <1>4 DEF Send
  <2>5. ResponsesAccounted'
    BY <2>1, <2>2, <2>3, <2>4 DEF DeliveryInv, ResponsesAccounted
  <2>6. Pending' = Pending
    BY <1>0, <1>4 DEF Send, Pending, TypeOK
  <2>7. WaitGroupCounts'
    BY <1>4, <2>6 DEF Send, DeliveryInv, WaitGroupCounts
  <2>8. ~closed
    BY <1>4 DEF Send, DeliveryInv, PhasesOrdered
  <2>9. PhasesOrdered'
    BY <1>4, <2>8 DEF Send, DeliveryInv, PhasesOrdered
  <2> QED
    BY <1>0, <2>5, <2>7, <2>9 DEF DeliveryInv
<1>5. ASSUME NEW h \in Hooks, Done(h) PROVE DeliveryInv'
  <2>1. Pending' = Pending \ {h} /\ h \in Pending
    BY <1>0, <1>5 DEF Done, Pending, TypeOK
  <2>2. IsFiniteSet(Pending)
    BY HooksFinite, FS_Subset DEF Pending
  <2>3. WaitGroupCounts'
    BY <1>5, <2>1, <2>2, FS_RemoveElement DEF Done, DeliveryInv, WaitGroupCounts
  <2>4. \A g \in Hooks : Sent(g)' <=> Sent(g)
    BY <1>0, <1>5 DEF Done, Sent, TypeOK
  <2>5. ResponsesAccounted'
    BY <1>5, <2>4 DEF Done, DeliveryInv, ResponsesAccounted
  <2>6. ~closed
    BY <1>5 DEF Done, DeliveryInv, PhasesOrdered
  <2>7. PhasesOrdered'
    BY <1>5, <2>6 DEF Done, DeliveryInv, PhasesOrdered
  <2> QED
    BY <1>0, <2>3, <2>5, <2>7 DEF DeliveryInv
<1>6. CASE StartReceiving
  BY <1>0, <1>6 DEF StartReceiving, DeliveryInv, WaitGroupCounts, Pending,
     ResponsesAccounted, Sent, PhasesOrdered
<1>7. CASE Close
  <2>1. IsFiniteSet(Pending)
    BY HooksFinite, FS_Subset DEF Pending
  <2>2. Cardinality(Pending) = 0
    BY <1>7 DEF Close, WaitReturns, DeliveryInv, WaitGroupCounts
  <2>3. Pending = {}
    BY <2>1, <2>2, FS_EmptySet
  <2>4. \A h \in Hooks : pc[h] = "exited"
    BY <2>3 DEF Pending
  <2>5. PhasesOrdered'
    BY <1>7, <2>4 DEF Close, DeliveryInv, PhasesOrdered
  <2> QED
    BY <1>0, <1>7, <2>5 DEF Close, DeliveryInv, WaitGroupCounts, Pending,
       ResponsesAccounted, Sent
<1>8. CASE Receive
  <2>1. /\ Head(chan) \in Elems(chan)
        /\ Elems(chan) = Elems(chan') \cup {Head(chan)}
        /\ OnceEach(chan')
        /\ Head(chan) \notin Elems(chan')
    BY <1>0, <1>8, ElemsTail DEF Receive, TypeOK, DeliveryInv, ResponsesAccounted
  <2>2. Head(chan) \in Hooks /\ Head(chan) \notin Elems(received)
    BY <1>0, <1>8, <2>1 DEF Receive, TypeOK, DeliveryInv, ResponsesAccounted
  <2>3. Elems(received') = Elems(received) \cup {Head(chan)} /\ OnceEach(received')
    BY <1>0, <1>8, <2>2, ElemsAppend DEF Receive, TypeOK, DeliveryInv, ResponsesAccounted
  <2>4. \A g \in Hooks : Sent(g)' <=> Sent(g)
    BY <1>8 DEF Receive, Sent
  <2>5. ResponsesAccounted'
    BY <2>1, <2>2, <2>3, <2>4 DEF DeliveryInv, ResponsesAccounted
  <2>6. PhasesOrdered'
    BY <1>8 DEF Receive, DeliveryInv, PhasesOrdered
  <2> QED
    BY <1>0, <1>8, <2>5, <2>6 DEF Receive, DeliveryInv, WaitGroupCounts, Pending
<1>9. CASE EndRange
  BY <1>0, <1>9 DEF EndRange, RangeEnds, DeliveryInv, WaitGroupCounts, Pending,
     ResponsesAccounted, Sent, PhasesOrdered
<1>10. CASE AggregateNext \/ Return
  BY <1>0, <1>10 DEF AggregateNext, Return, DeliveryInv, WaitGroupCounts, Pending,
     ResponsesAccounted, Sent, PhasesOrdered
<1>11. ASSUME UNCHANGED <<pc, wg, chan, closed, main, received>> PROVE DeliveryInv'
  BY <1>0, <1>11 DEF DeliveryInv, WaitGroupCounts, Pending, ResponsesAccounted, Sent,
     PhasesOrdered
<1>12. ASSUME NEW h \in Hooks, HookPanics(h) PROVE DeliveryInv'
  BY <1>11, <1>12 DEF HookPanics
<1>13. CASE UNCHANGED vars
  BY <1>11, <1>13 DEF vars
<1> QED
  BY <1>1, <1>2, <1>4, <1>5, <1>6, <1>7, <1>8, <1>9, <1>10, <1>12, <1>13
     DEF Next, HookStep

LEMMA DeliveryImplies ==
    DeliveryInv => EveryResponseAggregated /\ SendersNeverBlockOrPanic
<1> SUFFICES ASSUME DeliveryInv PROVE EveryResponseAggregated /\ SendersNeverBlockOrPanic
  OBVIOUS
<1>1. EveryResponseAggregated
  <2> SUFFICES ASSUME main \in {"aggregate", "returned"}
               PROVE  /\ \A h \in Hooks : pc[h] = "exited"
                      /\ Elems(received) = Hooks
                      /\ OnceEach(received)
    BY DEF EveryResponseAggregated
  <2>1. chan = <<>> /\ \A h \in Hooks : pc[h] = "exited"
    BY DEF DeliveryInv, PhasesOrdered
  <2>2. Elems(chan) = {}
    BY <2>1 DEF Elems
  <2>3. Elems(received) \subseteq Hooks
    BY DEF DeliveryInv, TypeOK, Elems
  <2>4. Hooks \subseteq Elems(received)
    BY <2>1, <2>2 DEF DeliveryInv, ResponsesAccounted, Sent
  <2> QED
    BY <2>1, <2>3, <2>4 DEF DeliveryInv, ResponsesAccounted
<1>2. SendersNeverBlockOrPanic
  <2> SUFFICES ASSUME NEW h \in Hooks, pc[h] \in {"unspawned", "running", "send"}
               PROVE  ~closed /\ Len(chan) < Cardinality(Hooks)
    BY DEF SendersNeverBlockOrPanic
  <2>1. ~closed
    BY DEF DeliveryInv, PhasesOrdered
  <2>2. h \notin Elems(chan)
    BY DEF DeliveryInv, ResponsesAccounted, Sent
  <2> DEFINE Others == Hooks \ {h}
  <2>3. chan \in Seq(Others)
    <3>1. chan \in [1 .. Len(chan) -> Hooks] /\ Len(chan) \in Nat /\ DOMAIN chan = 1 .. Len(chan)
      BY DEF DeliveryInv, TypeOK
    <3>2. \A i \in 1 .. Len(chan) : chan[i] \in Others
      BY <2>2, <3>1 DEF Elems
    <3> QED
      BY <3>1, <3>2
  <2>4. IsFiniteSet(Others) /\ Cardinality(Others) = Cardinality(Hooks) - 1
    BY HooksFinite, FS_RemoveElement
  <2>5. Len(chan) <= Cardinality(Others)
    <3>1. OnceEach(chan)
      BY DEF DeliveryInv, ResponsesAccounted
    <3> HIDE DEF Others
    <3> QED
      BY <2>3, <2>4, <3>1, OnceEachBounded
  <2>6. Cardinality(Hooks) \in Nat /\ Len(chan) \in Nat
    BY HooksFinite, FS_CardinalityType DEF DeliveryInv, TypeOK
  <2> QED
    BY <2>1, <2>4, <2>5, <2>6
<1> QED
  BY <1>1, <1>2

\* "with results aggregated only after every hook has returned"
\* (parallel.go:18-19), for any number of hooks: aggregateResponses sees the
\* response of each hook exactly once.
THEOREM NoResponseLost == Spec => []EveryResponseAggregated
BY InitDelivery, NextDelivery, DeliveryImplies, PTL DEF Spec

\* The buffer of len(hookFuncs) never fills before the last send and the
\* channel is never closed before it, for any number of hooks.
THEOREM SendsAlwaysSafe == Spec => []SendersNeverBlockOrPanic
BY InitDelivery, NextDelivery, DeliveryImplies, PTL DEF Spec

-----------------------------------------------------------------------------
(* The answer depends on the set of responses alone *)

\* The failing hooks among the first acc.index - 1 collected responses, and
\* the delays they ask for.
FoldedFailing == {received[i] : i \in {j \in 1 .. acc.index - 1 :
                                         resp[received[j]].status = "Failure"}}
FoldedAsked == {resp[h].retry : h \in FoldedFailing} \ {0}

ShortestOf(asked, d) ==
    IF asked = {} THEN d = 0 ELSE d \in asked /\ \A e \in asked : d <= e

\* The loop variables of aggregateResponses summarise the responses folded so
\* far; nothing is folded before the range has ended.
FoldInv ==
    /\ acc.index \in 1 .. Len(received) + 1
    /\ main \in {"spawn", "receive"} => acc.index = 1
    /\ acc.status = "Failure" <=> FoldedFailing # {}
    /\ ShortestOf(FoldedAsked, acc.retry)
    /\ main # "returned" => response.retry = 0
    /\ main = "returned" =>
        /\ acc.index = Len(received) + 1
        /\ response.status = acc.status
        /\ response.retry = acc.retry

AnswerInv == DeliveryInv /\ FoldInv

LEMMA InitAnswer == Init => AnswerInv
<1> SUFFICES ASSUME Init PROVE AnswerInv
  OBVIOUS
<1>1. acc.index = 1 /\ acc.status = "Success" /\ acc.retry = 0 /\ received = <<>>
      /\ main = "spawn" /\ response.retry = 0
  BY DEF Init, NoRetryYet
<1>2. FoldedFailing = {}
  BY <1>1 DEF FoldedFailing
<1>3. FoldedAsked = {}
  BY <1>2 DEF FoldedAsked
<1> QED
  BY <1>1, <1>2, <1>3, InitDelivery DEF AnswerInv, FoldInv, ShortestOf

\* Before the aggregation nothing has been folded, so steps of the goroutines
\* and of the range loop leave the summary alone.
LEMMA NothingFolded ==
    ASSUME AnswerInv, acc' = acc, response' = response,
           main \in {"spawn", "receive"}, main' # "returned",
           TypeOK', Len(received') >= Len(received)
    PROVE  FoldInv'
<1>1. acc.index = 1 /\ acc'.index = 1
  BY DEF AnswerInv, FoldInv
<1>2. FoldedFailing = {} /\ FoldedFailing' = {}
  BY <1>1 DEF FoldedFailing
<1>3. FoldedAsked = {} /\ FoldedAsked' = {}
  BY <1>2 DEF FoldedAsked
<1>4. Len(received') \in Nat
  BY DEF TypeOK
<1> QED
  BY <1>1, <1>2, <1>3, <1>4 DEF AnswerInv, FoldInv, ShortestOf

\* One more failing response: the shortest delay of all.
LEMMA ShortestExtends ==
    ASSUME NEW asked \in SUBSET (Nat \ {0}), NEW d \in Nat, NEW r \in Nat,
           ShortestOf(asked, d)
    PROVE  ShortestOf((asked \cup {r}) \ {0}, LowestNonZero(d, r))
<1>1. CASE r = 0
  <2>1. (asked \cup {r}) \ {0} = asked
    BY <1>1
  <2>2. LowestNonZero(d, r) = d
    BY <1>1 DEF LowestNonZero
  <2> QED
    BY <2>1, <2>2
<1>2. CASE r # 0 /\ asked = {}
  BY <1>2 DEF ShortestOf, LowestNonZero
<1>3. CASE r # 0 /\ asked # {}
  <2>1. d \in asked /\ d # 0 /\ \A e \in asked : d <= e
    BY <1>3 DEF ShortestOf
  <2>2. (asked \cup {r}) \ {0} = asked \cup {r}
    BY <1>3
  <2>3. CASE d < r
    BY <1>3, <2>1, <2>2, <2>3 DEF ShortestOf, LowestNonZero
  <2>4. CASE ~(d < r)
    <3>1. LowestNonZero(d, r) = r
      BY <1>3, <2>1, <2>4 DEF LowestNonZero
    <3>2. \A e \in asked : r <= e
      BY <2>1, <2>4
    <3> QED
      BY <2>2, <3>1, <3>2 DEF ShortestOf
  <2> QED
    BY <2>3, <2>4
<1> QED
  BY <1>1, <1>2, <1>3

LEMMA AggregateKeepsFold == AnswerInv /\ AggregateNext /\ TypeOK' => FoldInv'
<1> SUFFICES ASSUME AnswerInv, AggregateNext, TypeOK' PROVE FoldInv'
  OBVIOUS
<1> DEFINE h == received[acc.index]
           r == resp[h]
<1>1. /\ main = "aggregate" /\ main' = main /\ received' = received /\ resp' = resp
      /\ response' = response
      /\ acc.index \in DOMAIN received
      /\ acc' = Fold(acc, h, r)
  BY DEF AggregateNext
<1>2. TypeOK
  BY DEF AnswerInv, DeliveryInv
<1>3. /\ acc.index \in 1 .. Len(received) /\ Len(received) \in Nat
      /\ h \in Hooks /\ r \in Responses
  BY <1>1, <1>2 DEF TypeOK
<1>4. acc'.index = acc.index + 1
  BY <1>1 DEF Fold
<1>5. \A j : j \in 1 .. acc'.index - 1 <=> (j \in 1 .. acc.index - 1 \/ j = acc.index)
  BY <1>3, <1>4
<1>6. CASE r.status = "Failure"
  <2>1. FoldedFailing' = FoldedFailing \cup {h}
    BY <1>1, <1>5, <1>6 DEF FoldedFailing
  <2>2. FoldedAsked' = (FoldedAsked \cup {r.retry}) \ {0}
    BY <1>1, <2>1 DEF FoldedAsked
  <2>3. acc'.status = "Failure"
    BY <1>1, <1>6 DEF Fold, StatusAfter
  <2>4. r.retry \in Nat /\ (~Retryable => r.retry = 0)
    BY <1>3, DelaysAreNat, RetryableIsBoolean DEF Responses
  <2>5. acc.retry \in Nat
    BY <1>2, DelaysAreNat DEF TypeOK, Accumulators
  <2>6. acc'.retry = LowestNonZero(acc.retry, r.retry)
    BY <1>1, <1>6, <2>4, <2>5 DEF Fold, LowestNonZero
  <2>7. FoldedAsked \in SUBSET (Nat \ {0})
    <3>1. FoldedFailing \subseteq Hooks
      <4>1. \A j \in 1 .. acc.index - 1 : received[j] \in Hooks
        BY <1>2, <1>3 DEF TypeOK
      <4> QED
        BY <4>1 DEF FoldedFailing
    <3>2. \A g \in Hooks : resp[g].retry \in Nat
      BY <1>2, DelaysAreNat, RetryableIsBoolean DEF TypeOK, Responses
    <3> QED
      BY <3>1, <3>2 DEF FoldedAsked
  <2>8. ShortestOf(FoldedAsked, acc.retry)
    BY DEF AnswerInv, FoldInv
  <2>9. ShortestOf((FoldedAsked \cup {r.retry}) \ {0}, LowestNonZero(acc.retry, r.retry))
    <3> HIDE DEF r
    <3> QED
      BY <2>4, <2>5, <2>7, <2>8, ShortestExtends
  <2>10. ShortestOf(FoldedAsked', acc'.retry)
    BY <2>2, <2>6, <2>9
  <2>11. ShortestOf(FoldedAsked, acc.retry)'
    BY <2>10 DEF ShortestOf
  <2>12. FoldedFailing' # {}
    BY <2>1
  <2> QED
    BY <1>1, <1>3, <1>4, <2>3, <2>11, <2>12 DEF AnswerInv, FoldInv
<1>7. CASE r.status # "Failure"
  <2>1. FoldedFailing' = FoldedFailing
    BY <1>1, <1>5, <1>7 DEF FoldedFailing
  <2>2. FoldedAsked' = FoldedAsked
    BY <1>1, <2>1 DEF FoldedAsked
  <2>3. acc'.status = acc.status /\ acc'.retry = acc.retry
    BY <1>1, <1>7 DEF Fold, StatusAfter
  <2>4. ShortestOf(FoldedAsked, acc.retry)'
    BY <2>2, <2>3 DEF AnswerInv, FoldInv, ShortestOf
  <2> QED
    BY <1>1, <1>3, <1>4, <2>1, <2>3, <2>4 DEF AnswerInv, FoldInv
<1> QED
  BY <1>6, <1>7

LEMMA NextAnswer == AnswerInv /\ [Next]_vars => AnswerInv'
<1> SUFFICES ASSUME AnswerInv, [Next]_vars PROVE AnswerInv'
  OBVIOUS
<1>0. DeliveryInv /\ DeliveryInv' /\ TypeOK /\ TypeOK'
  BY NextDelivery DEF AnswerInv, DeliveryInv
<1>1. SUFFICES FoldInv'
  BY <1>0 DEF AnswerInv
<1>a. \A h \in Hooks : pc[h] # "exited" => main \in {"spawn", "receive"}
  BY <1>0 DEF DeliveryInv, PhasesOrdered, TypeOK, MainPCs
<1>b. Len(received) \in Nat
  BY <1>0 DEF TypeOK
<1>2. ASSUME NEW h \in Hooks,
             Spawn(h) \/ Send(h) \/ (\E r \in Responses : HookReturns(h, r)) \/ Done(h)
      PROVE  FoldInv'
  <2>1. /\ acc' = acc /\ response' = response /\ received' = received
        /\ pc[h] # "exited" /\ main' = main
    BY <1>2 DEF Spawn, Send, HookReturns, Done
  <2>2. main \in {"spawn", "receive"}
    BY <1>a, <2>1
  <2> QED
    BY <1>0, <1>b, <2>1, <2>2, NothingFolded
<1>3. CASE StartReceiving \/ EndRange
  <2>1. /\ acc' = acc /\ response' = response /\ received' = received
        /\ main \in {"spawn", "receive"} /\ main' # "returned"
    BY <1>3 DEF StartReceiving, EndRange
  <2> QED
    BY <1>0, <1>b, <2>1, NothingFolded
<1>4. CASE Receive
  <2>1. /\ acc' = acc /\ response' = response
        /\ main \in {"spawn", "receive"} /\ main' # "returned"
    BY <1>4 DEF Receive
  <2>2. Len(received') >= Len(received)
    BY <1>0, <1>4 DEF Receive, TypeOK
  <2> QED
    BY <1>0, <2>1, <2>2, NothingFolded
<1>5. CASE AggregateNext
  BY <1>0, <1>5, AggregateKeepsFold
<1>6. CASE Return
  <2>1. /\ main = "aggregate" /\ main' = "returned"
        /\ acc' = acc /\ received' = received /\ resp' = resp
        /\ acc.index = Len(received) + 1
        /\ response'.status = acc.status
        /\ response'.retry = IF acc.status = "Failure" /\ acc.retry > 0
                             THEN acc.retry ELSE response.retry
    BY <1>6 DEF Return
  <2>2. FoldedFailing' = FoldedFailing /\ FoldedAsked' = FoldedAsked
    BY <2>1 DEF FoldedFailing, FoldedAsked
  <2>3. response.retry = 0
    BY <2>1 DEF AnswerInv, FoldInv
  <2>4. acc.retry \in Nat
    BY <1>0, DelaysAreNat DEF TypeOK, Accumulators
  <2>5. acc.status # "Failure" => acc.retry = 0
    <3>1. acc.status # "Failure" => FoldedFailing = {}
      BY DEF AnswerInv, FoldInv
    <3>2. acc.status # "Failure" => FoldedAsked = {}
      BY <3>1 DEF FoldedAsked
    <3> QED
      BY <3>2 DEF AnswerInv, FoldInv, ShortestOf
  <2>6. response'.retry = acc.retry
    BY <2>1, <2>3, <2>4, <2>5
  <2> QED
    BY <2>1, <2>2, <2>6 DEF AnswerInv, FoldInv, ShortestOf
<1>7. ASSUME UNCHANGED <<acc, received, resp, main, response>> PROVE FoldInv'
  <2>1. FoldedFailing' = FoldedFailing /\ FoldedAsked' = FoldedAsked
    BY <1>7 DEF FoldedFailing, FoldedAsked
  <2> QED
    BY <1>7, <2>1 DEF AnswerInv, FoldInv, ShortestOf
<1>8. CASE Close
  BY <1>7, <1>8 DEF Close
<1>9. ASSUME NEW h \in Hooks, HookPanics(h) PROVE FoldInv'
  BY <1>7, <1>9 DEF HookPanics
<1>10. CASE UNCHANGED vars
  BY <1>7, <1>10 DEF vars
<1> QED
  BY <1>2, <1>3, <1>4, <1>5, <1>6, <1>8, <1>9, <1>10 DEF Next, HookStep

LEMMA AnswerImplies == AnswerInv => FailureNeverMasked /\ RetryIsShortestRequested
<1> SUFFICES ASSUME AnswerInv, main = "returned"
             PROVE  FailureNeverMasked /\ RetryIsShortestRequested
  BY DEF FailureNeverMasked, RetryIsShortestRequested
<1>1. acc.index = Len(received) + 1 /\ response.status = acc.status
      /\ response.retry = acc.retry
  BY DEF AnswerInv, FoldInv
<1>2. Elems(received) = Hooks
  BY DeliveryImplies DEF AnswerInv, EveryResponseAggregated
<1>3. DOMAIN received = 1 .. Len(received) /\ Len(received) \in Nat
  BY DEF AnswerInv, DeliveryInv, TypeOK
<1>4. 1 .. acc.index - 1 = DOMAIN received
  BY <1>1, <1>3
<1>5. FoldedFailing = Failing
  <2>1. FoldedFailing \subseteq Failing
    BY <1>2, <1>4 DEF FoldedFailing, Failing, Elems
  <2>2. Failing \subseteq FoldedFailing
    BY <1>2, <1>4 DEF FoldedFailing, Failing, Elems
  <2> QED
    BY <2>1, <2>2
<1>6. FailureNeverMasked
  BY <1>1, <1>5 DEF AnswerInv, FoldInv, FailureNeverMasked
<1>7. RetryIsShortestRequested
  BY <1>1, <1>5 DEF AnswerInv, FoldInv, ShortestOf, FoldedAsked, RetryIsShortestRequested
<1> QED
  BY <1>6, <1>7

\* Whatever the order in which any number of hooks finish, the call reports
\* Failure exactly when some hook failed.
THEOREM FailureReported == Spec => []FailureNeverMasked
BY InitAnswer, NextAnswer, AnswerImplies, PTL DEF Spec

\* Whatever the order of arrival, the retry delay is the least non-zero delay
\* that a failing hook asked for.
THEOREM ShortestRetryWins == Spec => []RetryIsShortestRequested
BY InitAnswer, NextAnswer, AnswerImplies, PTL DEF Spec

-----------------------------------------------------------------------------
(* Refinement: runHooksInParallel implements HookContract *)

\* The hooks among the first acc.index - 1 collected responses whose message is
\* told in an answer with this status.
FoldedTellers(status) ==
    {received[i] : i \in {j \in 1 .. acc.index - 1 : Tells(resp[received[j]], status)}}

\* The message slices of aggregateResponses hold the messages folded so far.
MessagesInv ==
    /\ Elems(acc.okMessages) = FoldedTellers("Success")
    /\ Elems(acc.failMessages) = FoldedTellers("Failure")

ContractInv == AnswerInv /\ MessagesInv

LEMMA InitContract == Init => ContractInv
<1> SUFFICES ASSUME Init PROVE ContractInv
  OBVIOUS
<1>1. acc.index = 1 /\ acc.okMessages = <<>> /\ acc.failMessages = <<>>
  BY DEF Init
<1>2. FoldedTellers("Success") = {} /\ FoldedTellers("Failure") = {}
  BY <1>1 DEF FoldedTellers
<1>3. Elems(<<>>) = {}
  BY DEF Elems
<1> QED
  BY <1>1, <1>2, <1>3, InitAnswer DEF ContractInv, MessagesInv

\* One more response is folded: its message joins the slice of its status.
LEMMA AggregateKeepsMessages == ContractInv /\ AggregateNext => MessagesInv'
<1> SUFFICES ASSUME ContractInv, AggregateNext PROVE MessagesInv'
  OBVIOUS
<1> DEFINE h == received[acc.index]
           r == resp[h]
<1>1. /\ received' = received /\ resp' = resp
      /\ acc.index \in DOMAIN received
      /\ acc' = Fold(acc, h, r)
  BY DEF AggregateNext
<1>2. TypeOK
  BY DEF ContractInv, AnswerInv, DeliveryInv
<1>3. acc.index \in Nat \ {0} /\ h \in Hooks
  BY <1>1, <1>2 DEF TypeOK
<1>4. /\ acc'.index = acc.index + 1
      /\ acc'.okMessages = IF Tells(r, "Success") THEN Append(acc.okMessages, h) ELSE acc.okMessages
      /\ acc'.failMessages = IF Tells(r, "Failure") THEN Append(acc.failMessages, h) ELSE acc.failMessages
  BY <1>1 DEF Fold
<1>5. acc.okMessages \in Seq(Hooks) /\ acc.failMessages \in Seq(Hooks)
  BY <1>2 DEF TypeOK, Accumulators
<1>6. \A j : j \in 1 .. acc'.index - 1 <=> (j \in 1 .. acc.index - 1 \/ j = acc.index)
  BY <1>3, <1>4
<1>7. ASSUME NEW status
      PROVE  FoldedTellers(status)' =
                 IF Tells(r, status) THEN FoldedTellers(status) \cup {h} ELSE FoldedTellers(status)
  BY <1>1, <1>6 DEF FoldedTellers, Tells
<1>8. Elems(acc'.okMessages) = FoldedTellers("Success")'
  <2>1. Elems(acc.okMessages) = FoldedTellers("Success")
    BY DEF ContractInv, MessagesInv
  <2>2. Elems(Append(acc.okMessages, h)) = Elems(acc.okMessages) \cup {h}
    BY <1>3, <1>5, ElemsAppend
  <2> HIDE DEF h, r
  <2> QED
    BY <1>4, <1>7, <2>1, <2>2
<1>9. Elems(acc'.failMessages) = FoldedTellers("Failure")'
  <2>1. Elems(acc.failMessages) = FoldedTellers("Failure")
    BY DEF ContractInv, MessagesInv
  <2>2. Elems(Append(acc.failMessages, h)) = Elems(acc.failMessages) \cup {h}
    BY <1>3, <1>5, ElemsAppend
  <2> HIDE DEF h, r
  <2> QED
    BY <1>4, <1>7, <2>1, <2>2
<1> QED
  BY <1>8, <1>9 DEF MessagesInv, Elems

LEMMA NextContract == ContractInv /\ [Next]_vars => ContractInv'
<1> SUFFICES ASSUME ContractInv, [Next]_vars PROVE MessagesInv'
  BY NextAnswer DEF ContractInv
<1>1. ASSUME UNCHANGED <<acc, received, resp>> PROVE MessagesInv'
  <2>1. FoldedTellers("Success")' = FoldedTellers("Success")
    BY <1>1 DEF FoldedTellers
  <2>2. FoldedTellers("Failure")' = FoldedTellers("Failure")
    BY <1>1 DEF FoldedTellers
  <2> QED
    BY <1>1, <2>1, <2>2 DEF ContractInv, MessagesInv, Elems
<1>2. ASSUME UNCHANGED acc, acc.index = 1 PROVE MessagesInv'
  <2>1. FoldedTellers("Success") = {} /\ FoldedTellers("Failure") = {}
    BY <1>2 DEF FoldedTellers
  <2>2. FoldedTellers("Success")' = {} /\ FoldedTellers("Failure")' = {}
    BY <1>2 DEF FoldedTellers
  <2> QED
    BY <1>2, <2>1, <2>2 DEF ContractInv, MessagesInv, Elems
<1>3. ASSUME NEW h \in Hooks, NEW r \in Responses, HookReturns(h, r) PROVE MessagesInv'
  <2>1. ~(main \in {"aggregate", "returned"})
    BY <1>3, DeliveryImplies DEF HookReturns, ContractInv, AnswerInv, EveryResponseAggregated
  <2>2. acc.index = 1
    BY <2>1 DEF ContractInv, AnswerInv, FoldInv, DeliveryInv, TypeOK, MainPCs
  <2> QED
    BY <1>2, <1>3, <2>2 DEF HookReturns
<1>4. CASE Receive
  BY <1>2, <1>4 DEF Receive, ContractInv, AnswerInv, FoldInv
<1>5. CASE AggregateNext
  BY <1>5, AggregateKeepsMessages
<1>6. ASSUME NEW h \in Hooks, Spawn(h) \/ Send(h) \/ Done(h) \/ HookPanics(h) PROVE MessagesInv'
  BY <1>1, <1>6 DEF Spawn, Send, Done, HookPanics
<1>7. CASE StartReceiving \/ Close \/ EndRange \/ Return \/ UNCHANGED vars
  BY <1>1, <1>7 DEF StartReceiving, Close, EndRange, Return, vars
<1> QED
  BY <1>3, <1>4, <1>5, <1>6, <1>7 DEF Next, HookStep

\* When the call returns, all hooks have results, and the answer is the one
\* they call for.
LEMMA ReturnAnswers == ContractInv /\ ContractInv' /\ Return => Contract!Answer
<1> SUFFICES ASSUME ContractInv, ContractInv', Return PROVE Contract!Answer
  OBVIOUS
<1>1. /\ main = "aggregate" /\ main' = "returned" /\ UNCHANGED <<pc, resp, acc, received>>
      /\ response' = [ status |-> acc.status,
                       messages |-> IF acc.status = "Failure"
                                    THEN acc.failMessages ELSE acc.okMessages,
                       retry |-> IF acc.status = "Failure" /\ acc.retry > 0
                                 THEN acc.retry ELSE response.retry ]
  BY DEF Return
<1>2. TypeOK /\ TypeOK'
  BY DEF ContractInv, AnswerInv, DeliveryInv
<1>3. /\ \A h \in Hooks : pc[h] = "exited"
      /\ Elems(received) = Hooks
  BY <1>1, DeliveryImplies DEF ContractInv, AnswerInv, EveryResponseAggregated
<1>4. \A h \in Hooks : ResultsSoFar[h] = resp[h] /\ resp[h] \in Responses
  BY <1>2, <1>3 DEF ResultsSoFar, TypeOK
<1>5. \A h \in Hooks : ResultsSoFar[h] # NoResult
  BY <1>4, NoResultIsNone
<1>6. UNCHANGED ResultsSoFar
  BY <1>1 DEF ResultsSoFar
<1> DEFINE a == AnswerSoFar'
<1>7. a = [ status |-> response'.status, tellers |-> Elems(response'.messages),
            retry |-> response'.retry ]
  BY <1>1 DEF AnswerSoFar, Elems
<1>8. AnswerSoFar = NoAnswer
  BY <1>1 DEF AnswerSoFar
<1>9. acc.status \in {"Success", "Failure"} /\ response'.status = acc.status /\ response'.retry \in Delays
  BY <1>1, <1>2 DEF TypeOK, Accumulators, AggregatedResponses
<1>10. a # NoAnswer
  <2>1. Elems(response'.messages) \subseteq Hooks
    BY <1>2 DEF TypeOK, AggregatedResponses, Elems
  <2>2. a \in Answers
    BY <1>7, <1>9, <2>1 DEF Answers
  <2> QED
    BY <2>2, NoAnswerIsNone
<1>11. Contract!Failing = Failing /\ Failing' = Failing
  BY <1>1, <1>4 DEF Contract!Failing, Failing
<1>a. FailureNeverMasked' /\ RetryIsShortestRequested'
  BY AnswerImplies, PTL DEF ContractInv
<1>12. a.status = IF Failing # {} THEN "Failure" ELSE "Success"
  <2>1. response'.status = "Failure" <=> Failing # {}
    BY <1>1, <1>11, <1>a DEF FailureNeverMasked
  <2> QED
    BY <1>7, <1>9, <2>1
<1>13. acc.index = Len(received) + 1
  BY DEF Return
<1>14. ASSUME NEW status
       PROVE  FoldedTellers(status) = {h \in Hooks : Tells(resp[h], status)}
  <2>1. 1 .. acc.index - 1 = DOMAIN received
    BY <1>2, <1>13 DEF TypeOK
  <2>2. FoldedTellers(status) = {h \in Elems(received) : Tells(resp[h], status)}
    BY <2>1 DEF FoldedTellers, Elems
  <2> QED
    BY <1>3, <2>2
<1>15. a.tellers = {h \in Hooks : Tells(resp[h], a.status)}
  <2>1. CASE acc.status = "Failure"
    BY <1>1, <1>7, <1>9, <1>14, <2>1 DEF ContractInv, MessagesInv
  <2>2. CASE acc.status = "Success"
    BY <1>1, <1>7, <1>9, <1>14, <2>2 DEF ContractInv, MessagesInv
  <2> QED
    BY <1>9, <2>1, <2>2
<1>16. a.tellers = {h \in Hooks : ResultsSoFar[h].status = a.status /\ ResultsSoFar[h].hasMessage}
  BY <1>4, <1>15 DEF Tells
<1>17. Contract!Asked = {resp[h].retry : h \in Failing} \ {0}
  <2>1. Failing \subseteq Hooks
    BY DEF Failing
  <2> QED
    BY <1>4, <1>11, <2>1 DEF Contract!Asked
<1>18. IF Contract!Asked = {} THEN a.retry = 0
       ELSE a.retry \in Contract!Asked /\ \A d \in Contract!Asked : a.retry <= d
  <2>2. ({resp[h].retry : h \in Failing} \ {0})' = Contract!Asked
    BY <1>1, <1>11, <1>17
  <2> QED
    BY <1>1, <1>7, <1>a, <2>2 DEF RetryIsShortestRequested
<1>19. Contract!Promised(a)
  BY <1>11, <1>12, <1>16, <1>18 DEF Contract!Promised
<1> QED
  BY <1>5, <1>6, <1>8, <1>10, <1>19 DEF Contract!Answer

\* Every step is a hook that finishes, the answer, or nothing the caller sees.
LEMMA StepImplements ==
    ContractInv /\ ContractInv' /\ [Next]_vars
        => [Contract!Next]_<<ResultsSoFar, AnswerSoFar>>
<1> SUFFICES ASSUME ContractInv, ContractInv', [Next]_vars
             PROVE  Contract!Next \/ UNCHANGED <<ResultsSoFar, AnswerSoFar>>
  BY Zenon
<1>0. TypeOK /\ TypeOK'
  BY DEF ContractInv, AnswerInv, DeliveryInv
<1>1. ASSUME NEW h \in Hooks, NEW r \in Responses, HookReturns(h, r) PROVE Contract!Next
  <2>1. ResultsSoFar[h] = NoResult
    BY <1>1 DEF HookReturns, ResultsSoFar
  <2>2. ResultsSoFar' = [ResultsSoFar EXCEPT ![h] = r]
    BY <1>0, <1>1 DEF HookReturns, ResultsSoFar, TypeOK
  <2>3. UNCHANGED AnswerSoFar
    BY <1>1 DEF HookReturns, AnswerSoFar
  <2> QED
    BY <2>1, <2>2, <2>3 DEF Contract!Next, Contract!Finish
<1>2. ASSUME NEW h \in Hooks, Spawn(h) \/ Send(h) \/ Done(h) \/ HookPanics(h)
      PROVE  UNCHANGED <<ResultsSoFar, AnswerSoFar>>
  <2>1. UNCHANGED <<resp, main, response>>
    BY <1>2 DEF Spawn, Send, Done, HookPanics
  <2>2. \A g \in Hooks : pc'[g] \in {"send", "done", "exited"} <=> pc[g] \in {"send", "done", "exited"}
    BY <1>0, <1>2 DEF Spawn, Send, Done, HookPanics, TypeOK
  <2> QED
    BY <2>1, <2>2 DEF ResultsSoFar, AnswerSoFar, Elems
<1>3. CASE StartReceiving \/ Receive \/ EndRange \/ Close \/ AggregateNext \/ UNCHANGED vars
  <2>1. UNCHANGED <<pc, resp, response>> /\ (main' = "returned" <=> main = "returned")
    BY <1>3 DEF StartReceiving, Receive, EndRange, Close, AggregateNext, vars
  <2> QED
    BY <2>1 DEF ResultsSoFar, AnswerSoFar, Elems
<1>4. CASE Return
  BY <1>4, ReturnAnswers DEF Contract!Next
<1> QED
  BY <1>1, <1>2, <1>3, <1>4 DEF Next, HookStep

\* runHooksInParallel (parallel.go) keeps the promise of its doc comment for any
\* number of hooks: however their goroutines interleave, the caller sees one
\* answer, given once all have finished, that depends on the set of results alone.
THEOREM ContractKept == Spec => ImplementsContract
<1>1. Init => Contract!Init
  BY DEF Init, Contract!Init, ResultsSoFar, AnswerSoFar
<1> QED
  BY <1>1, InitContract, NextContract, StepImplements, PTL
     DEF Spec, ImplementsContract, Contract!Spec
=============================================================================
