---------------------------- MODULE HookContract ----------------------------
(***************************************************************************)
(* What a caller of a Parallel...Hook may rely on, with no goroutine, no   *)
(* channel and no order of arrival: each hook produces one result, and one *)
(* answer is given once all results exist, computed from the set of them.  *)
(***************************************************************************)
EXTENDS Integers

CONSTANTS
    Hooks,      \* the hooks of one call
    Results,    \* what a hook may answer
    NoResult,   \* the hook has not finished
    NoAnswer    \* the call has not returned

VARIABLES
    results,    \* the result of each hook
    answer      \* the aggregated answer

Failing == {h \in Hooks : results[h].status = "Failure"}
Asked == {results[h].retry : h \in Failing} \ {0}

\* The answer a set of results calls for.
Promised(a) ==
    /\ a.status = IF Failing # {} THEN "Failure" ELSE "Success"
    /\ a.tellers = {h \in Hooks : results[h].status = a.status /\ results[h].hasMessage}
    /\ IF Asked = {} THEN a.retry = 0
       ELSE a.retry \in Asked /\ \A d \in Asked : a.retry <= d

Init ==
    /\ results = [h \in Hooks |-> NoResult]
    /\ answer = NoAnswer

\* A hook finishes, once.
Finish(h) ==
    /\ results[h] = NoResult
    /\ \E r \in Results : results' = [results EXCEPT ![h] = r]
    /\ UNCHANGED answer

\* The call returns, once, after every hook has finished.
Answer ==
    /\ answer = NoAnswer
    /\ \A h \in Hooks : results[h] # NoResult
    /\ answer' # NoAnswer
    /\ Promised(answer')
    /\ UNCHANGED results

Next == (\E h \in Hooks : Finish(h)) \/ Answer

Spec == Init /\ [][Next]_<<results, answer>>
=============================================================================
