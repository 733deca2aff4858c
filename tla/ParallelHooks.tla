--------------------------- MODULE ParallelHooks ---------------------------
(***************************************************************************)
(* runHooksInParallel and aggregateResponses of                            *)
(* common/pkg/capi/clustertopology/handlers/lifecycle/parallel.go.         *)
(*                                                                         *)
(* One call of the function: the caller spawns a goroutine per hook, each  *)
(* goroutine runs its hook, sends the response on a buffered channel and   *)
(* calls wg.Done(); a closer goroutine waits for the wait group and closes *)
(* the channel; the caller ranges over the channel, then folds the         *)
(* collected responses into one.                                           *)
(*                                                                         *)
(* A response is abstracted to what the aggregation tells apart: its       *)
(* status (Unset is the zero value ""), whether its message is empty, and  *)
(* retryAfterSeconds.  A message is identified with the hook that wrote    *)
(* it, so the joined message is a sequence of hooks.                       *)
(***************************************************************************)
EXTENDS Integers, Sequences, FiniteSets

CONSTANTS
    Hooks,      \* the hooks wrapped by one Parallel...Hook
    Delays,     \* the retryAfterSeconds values the hooks set (0: not set)
    Retryable   \* is the response a RetryResponseObject? (ACPI's is not)

ASSUME HooksFinite == IsFiniteSet(Hooks)
ASSUME DelaysAreNat == Delays \subseteq Nat /\ 0 \in Delays
ASSUME RetryableIsBoolean == Retryable \in BOOLEAN

Statuses == {"Success", "Failure", "Unset"}

\* What one hook may leave in the response object it was given.
Responses ==
    [ status : Statuses,
      hasMessage : BOOLEAN,
      retry : IF Retryable THEN Delays ELSE {0} ]

VARIABLES
    pc,         \* where each hook's goroutine is
    resp,       \* hookResponse of each goroutine
    wg,         \* the wait group's counter
    chan,       \* responseChan: the buffered responses, as the hooks they are of
    closed,     \* has responseChan been closed?
    main,       \* where runHooksInParallel itself is
    received,   \* individualResponses
    acc,        \* the local variables of aggregateResponses and its loop index
    response,   \* the aggregated response handed to the caller
    alive       \* FALSE once a hook's panic has taken the process down

vars == <<pc, resp, wg, chan, closed, main, received, acc, response, alive>>

PCs == {"unspawned", "running", "send", "done", "exited"}
MainPCs == {"spawn", "receive", "aggregate", "returned"}

NewResponse == [status |-> "Unset", hasMessage |-> FALSE, retry |-> 0]

Accumulators ==
    [ index : Nat, status : {"Success", "Failure"}, retry : Delays,
      okMessages : Seq(Hooks), failMessages : Seq(Hooks) ]

AggregatedResponses ==
    [ status : Statuses, messages : Seq(Hooks), retry : Delays ]

\* The elements of a sequence, and a sequence that has each of them once.
Elems(s) == {s[i] : i \in DOMAIN s}
OnceEach(s) == \A i, j \in DOMAIN s : s[i] = s[j] => i = j

-----------------------------------------------------------------------------
(* The pieces of the code that the actions below are built from; a Slip is *)
(* a plausible mistake in the piece that follows it, used to show that the *)
(* properties would notice.                                                *)

SlipPlainMinimum(i, j) == IF i < j THEN i ELSE j

\* sigs.k8s.io/cluster-api/util.LowestNonZeroInt32
LowestNonZero(i, j) ==
    IF i = 0 THEN j
    ELSE IF j = 0 \/ i < j THEN i ELSE j

SlipSentinel == 2147483647

\* var retryAfterSeconds int32
NoRetryYet == 0

SlipOneTooMany == Cardinality(Hooks) + 1

\* wg.Add(len(hookFuncs))
WaitGroupDelta == Cardinality(Hooks)

SlipNoWait == TRUE

\* wg.Wait() returns
WaitReturns == wg = 0

SlipDrained == chan = <<>>

\* "for r := range responseChan" ends: the channel is closed and drained
RangeEnds == closed /\ chan = <<>>

SlipLastWins(a, r) == IF r.status = "Unset" THEN a.status ELSE r.status

\* aggregatedResponseStatus after response r
StatusAfter(a, r) == IF r.status = "Failure" THEN "Failure" ELSE a.status

\* Is r's message appended to the slice of messages for this status?
Tells(r, status) == r.status = status /\ r.hasMessage

Init ==
    /\ pc = [h \in Hooks |-> "unspawned"]
    /\ resp = [h \in Hooks |-> NewResponse]
    /\ wg = WaitGroupDelta
    /\ chan = <<>>
    /\ closed = FALSE
    /\ main = "spawn"
    /\ received = <<>>
    /\ acc = [ index |-> 1, status |-> "Success", retry |-> NoRetryYet,
               okMessages |-> <<>>, failMessages |-> <<>> ]
    /\ response = [status |-> "Unset", messages |-> <<>>, retry |-> 0]
    /\ alive = TRUE

\* go func() { ... }() for hook h; the loop's order carries no information,
\* the hooks are a list in handlers.go but start concurrently.
Spawn(h) ==
    /\ alive
    /\ main = "spawn"
    /\ pc[h] = "unspawned"
    /\ pc' = [pc EXCEPT ![h] = "running"]
    /\ UNCHANGED <<resp, wg, chan, closed, main, received, acc, response, alive>>

\* The loop ends; the closer goroutine now exists and the caller ranges.
StartReceiving ==
    /\ alive
    /\ main = "spawn"
    /\ \A h \in Hooks : pc[h] # "unspawned"
    /\ main' = "receive"
    /\ UNCHANGED <<pc, resp, wg, chan, closed, received, acc, response, alive>>

\* One response object, made outside the loop, that every goroutine shares.
SlipSharedResponse(h, r) ==
    /\ alive
    /\ pc[h] = "running"
    /\ resp' = [g \in Hooks |-> r]
    /\ pc' = [pc EXCEPT ![h] = "send"]
    /\ UNCHANGED <<wg, chan, closed, main, received, acc, response, alive>>

\* f(ctx, request, hookResponse) returns.
HookReturns(h, r) ==
    /\ alive
    /\ pc[h] = "running"
    /\ resp' = [resp EXCEPT ![h] = r]
    /\ pc' = [pc EXCEPT ![h] = "send"]
    /\ UNCHANGED <<wg, chan, closed, main, received, acc, response, alive>>

\* f panics: nothing recovers in the goroutine, so the process dies.
HookPanics(h) ==
    /\ alive
    /\ pc[h] = "running"
    /\ alive' = FALSE
    /\ UNCHANGED <<pc, resp, wg, chan, closed, main, received, acc, response>>

\* responseChan <- hookResponse; blocks while the buffer is full.
Send(h) ==
    /\ alive
    /\ pc[h] = "send"
    /\ Len(chan) < Cardinality(Hooks)
    /\ chan' = Append(chan, h)
    /\ pc' = [pc EXCEPT ![h] = "done"]
    /\ UNCHANGED <<resp, wg, closed, main, received, acc, response, alive>>

\* wg.Done()
Done(h) ==
    /\ alive
    /\ pc[h] = "done"
    /\ wg' = wg - 1
    /\ pc' = [pc EXCEPT ![h] = "exited"]
    /\ UNCHANGED <<resp, chan, closed, main, received, acc, response, alive>>

\* The closer: wg.Wait(); close(responseChan)
Close ==
    /\ alive
    /\ main # "spawn"
    /\ ~closed
    /\ WaitReturns
    /\ closed' = TRUE
    /\ UNCHANGED <<pc, resp, wg, chan, main, received, acc, response, alive>>

\* One iteration of "for r := range responseChan".
Receive ==
    /\ alive
    /\ main = "receive"
    /\ chan # <<>>
    /\ received' = Append(received, Head(chan))
    /\ chan' = Tail(chan)
    /\ UNCHANGED <<pc, resp, wg, closed, main, acc, response, alive>>

EndRange ==
    /\ alive
    /\ main = "receive"
    /\ RangeEnds
    /\ main' = "aggregate"
    /\ UNCHANGED <<pc, resp, wg, chan, closed, received, acc, response, alive>>

\* The switch on resp.GetStatus() for one response r, of hook h.
Fold(a, h, r) ==
    [ index |-> a.index + 1,
      status |-> StatusAfter(a, r),
      retry |-> IF r.status = "Failure" /\ Retryable
                THEN LowestNonZero(a.retry, r.retry) ELSE a.retry,
      okMessages |-> IF Tells(r, "Success")
                     THEN Append(a.okMessages, h) ELSE a.okMessages,
      failMessages |-> IF Tells(r, "Failure")
                       THEN Append(a.failMessages, h) ELSE a.failMessages ]

\* One iteration of the loop of aggregateResponses.
AggregateNext ==
    /\ alive
    /\ main = "aggregate"
    /\ acc.index \in DOMAIN received
    /\ LET h == received[acc.index] IN acc' = Fold(acc, h, resp[h])
    /\ UNCHANGED <<pc, resp, wg, chan, closed, main, received, response, alive>>

\* After the loop: the response of the caller is written and the call returns.
Return ==
    /\ alive
    /\ main = "aggregate"
    /\ acc.index = Len(received) + 1
    /\ response' = [ status |-> acc.status,
                     messages |-> IF acc.status = "Failure"
                                  THEN acc.failMessages ELSE acc.okMessages,
                     retry |-> IF acc.status = "Failure" /\ acc.retry > 0
                               THEN acc.retry ELSE response.retry ]
    /\ main' = "returned"
    /\ UNCHANGED <<pc, resp, wg, chan, closed, received, acc, alive>>

HookStep(h) == Spawn(h) \/ Send(h) \/ Done(h)
               \/ (\E r \in Responses : HookReturns(h, r))

Next ==
    \/ \E h \in Hooks : HookStep(h)
    \/ \E h \in Hooks : HookPanics(h)
    \/ StartReceiving
    \/ Close
    \/ Receive
    \/ EndRange
    \/ AggregateNext
    \/ Return

(***************************************************************************)
(* The Go scheduler runs every runnable goroutine; a hook is assumed to    *)
(* return (its calls take the request's context).                          *)
(***************************************************************************)
Fairness ==
    /\ \A h \in Hooks : WF_vars(HookStep(h))
    /\ WF_vars(StartReceiving \/ Close)
    /\ WF_vars(Receive \/ EndRange \/ AggregateNext \/ Return)

Spec == Init /\ [][Next]_vars
FairSpec == Spec /\ Fairness

-----------------------------------------------------------------------------
(* Properties *)

\* The states have the shapes the code's types give them.
TypeOK ==
    /\ pc \in [Hooks -> PCs]
    /\ resp \in [Hooks -> Responses]
    /\ wg \in Int
    /\ chan \in Seq(Hooks)
    /\ closed \in BOOLEAN
    /\ main \in MainPCs
    /\ received \in Seq(Hooks)
    /\ acc \in Accumulators
    /\ response \in AggregatedResponses
    /\ alive \in BOOLEAN

\* "with results aggregated only after every hook has returned"
\* (parallel.go:18-19): when the range over the channel has ended, every
\* hook's response has been collected exactly once.
EveryResponseAggregated ==
    main \in {"aggregate", "returned"} =>
        /\ \A h \in Hooks : pc[h] = "exited"
        /\ Elems(received) = Hooks
        /\ OnceEach(received)

\* The closer never closes the channel under a goroutine that still has to
\* send on it (a send on a closed channel panics), and the buffer always has
\* room, so that no sender ever waits for the receiver.
SendersNeverBlockOrPanic ==
    \A h \in Hooks :
        pc[h] \in {"unspawned", "running", "send"} =>
            ~closed /\ Len(chan) < Cardinality(Hooks)

Failing == {h \in Hooks : resp[h].status = "Failure"}

\* A failing hook is never masked by the order in which responses arrive:
\* the caller sees Failure exactly when some hook failed.
FailureNeverMasked ==
    main = "returned" =>
        (response.status = "Failure" <=> Failing # {})

\* The caller is asked to retry after the shortest delay some failing hook
\* asked for, whatever the order of arrival; delays of succeeding hooks and
\* zero delays count for nothing.
RetryIsShortestRequested ==
    main = "returned" =>
        LET asked == {resp[h].retry : h \in Failing} \ {0}
        IN  IF asked = {} THEN response.retry = 0
            ELSE response.retry \in asked /\ \A d \in asked : response.retry <= d

\* Every call ends: with an aggregated response, unless a hook panicked.
CallEnds == <>(main = "returned" \/ ~alive)

-----------------------------------------------------------------------------
(* Refinement *)

\* What the caller can see of the call: the results of the hooks that have
\* returned, and the answer once it is written.
CONSTANTS NoResult, NoAnswer

ASSUME NoResultIsNone == NoResult \notin Responses

\* What the caller may be answered.
Answers == [ status : {"Success", "Failure"}, tellers : SUBSET Hooks, retry : Delays ]

ASSUME NoAnswerIsNone == NoAnswer \notin Answers

ResultsSoFar ==
    [h \in Hooks |-> IF pc[h] \in {"send", "done", "exited"} THEN resp[h] ELSE NoResult]

AnswerSoFar ==
    IF main = "returned"
    THEN [ status |-> response.status, tellers |-> Elems(response.messages),
           retry |-> response.retry ]
    ELSE NoAnswer

Contract == INSTANCE HookContract
    WITH Results <- Responses, results <- ResultsSoFar, answer <- AnswerSoFar

\* runHooksInParallel implements the contract: whatever the interleaving, the
\* caller sees one answer, given after every hook has finished, that depends
\* on the set of results alone.
ImplementsContract == Contract!Spec
=============================================================================
