----------------------------- MODULE Preflight -----------------------------
(***************************************************************************)
(* The preflight webhook (pkg/webhook/preflight/preflight.go and           *)
(* pkg/webhook/preflight/skip/skip.go): Handle, for one admission request, *)
(* from the early returns through the concurrent run of all checkers and   *)
(* their checks to the summarised response.                                *)
(*                                                                         *)
(* Every checker has a goroutine that initialises its checks, starts one   *)
(* goroutine per check that is not skipped, waits for them and stores its  *)
(* results; every check writes its own slot.  The context given to all of  *)
(* them expires after the webhook's timeout less two seconds; a call to a  *)
(* service that hangs ends only then.                                      *)
(***************************************************************************)
EXTENDS Integers, PreflightChecks

CONSTANTS
    Request,        \* the requests of the instance: a function from names to requests
    MaxFaults,      \* bound on API errors per request
    MaxInFlight,    \* bound on the check goroutines of a checker running at once
    LateFailures    \* bound on which calls of Given fail together after the deadline

IsList(s) == s \in Seq(Range(s))

\* A pool lists its subnets and its references to failure domains, metros and
\* sites; only a Nutanix pool has machineDetails.
WellFormedPool(p) ==
    /\ p.nutanix \in BOOLEAN
    /\ IsList(p.fds) /\ \A ref \in Range(p.fds) : ref.kind \in {"fd", "metro", "site"}
    /\ IsList(p.subnets) /\ (~p.nutanix => p.subnets = <<>>)

\* The outside world: the API lists finitely many objects, a metro has some
\* failure domains and a version is a list of numbers.
WellFormedWorld(r) ==
    /\ \A S \in {r.pes, r.subnets, r.images, r.containers} : IsFiniteSet(S)
    /\ \A m \in DOMAIN r.metros :
           IsFiniteSet(r.metros[m]) /\ r.metros[m] # {} /\ r.metroLen[m] \in Nat
    /\ IsList(r.pcVersion) /\ Range(r.pcVersion) \subseteq Nat /\ r.rtt \in Int

\* A request lists its registries and its worker pools, which are visited in
\* some order; its control plane, if it is Nutanix, is one pool.
WellFormed(r) ==
    /\ r.config \in {"ok", "bad"} /\ r.nutanix \in BOOLEAN
    /\ r.csi \in {"none", "classes", "noClasses"} /\ r.nameLen \in Nat
    /\ IsList(r.registries)
    /\ \A x \in Range(r.registries) : x.url \in {"empty", "unparsable", "scheme", "ok"}
    /\ IsList(r.workers) /\ IsList(r.order) /\ Range(r.order) = DOMAIN r.workers
    /\ \A p, q \in r.cp : p = q /\ p.nutanix
    /\ \A p \in r.cp \cup Range(r.workers) : WellFormedPool(p)
    /\ \A b \in r.pods \cup r.services : b.bits \in Nat
    /\ WellFormedWorld(r)

ASSUME RequestsAreWellFormed == \A n \in DOMAIN Request : WellFormed(Request[n])
ASSUME BoundsAreNat == MaxFaults \in Nat /\ MaxInFlight \in Nat \ {0}

VARIABLES
    request,    \* the name of the request
    phase,      \* handle, running or done
    cutoff,     \* checker -> next when the context of the checks expired, 0 until then
    checks,     \* checker -> the checks its Init returned
    inited,     \* the checkers whose Init returned
    next,       \* checker -> the next check its loop starts
    running,    \* checker -> the checks whose goroutine runs
    results,    \* checker -> check -> result
    stored,     \* the checkers that stored their results
    resp,       \* the admission response
    faults      \* API errors so far

vars == <<request, phase, cutoff, checks, inited, next, running, results, stored, resp, faults>>

\* The request; Table is Request, evaluated once.
Table == Request
req == Table[request]

Checkers == {"generic", "nutanix"}

-----------------------------------------------------------------------------
(* Skips (skip.New, For and ForAll) *)

\* The names in the annotation, trimmed and in lower case; an empty element is
\* ignored, one of blanks is not: it counts as the empty name.
SkipNames(r) == {IF t = " " THEN "" ELSE t : t \in r.skip \ {""}}
ForAll(r) == SkipNames(r) = {"all"}
For(r, name) == ForAll(r) \/ name \in SkipNames(r)

-----------------------------------------------------------------------------
(* Responses *)

NoResponse == [allowed |-> FALSE, code |-> 0, causes |-> {}, warnings |-> {}]
Allowed == [NoResponse EXCEPT !.allowed = TRUE, !.code = 200]
Errored(code) == [NoResponse EXCEPT !.code = code]

Skipped(name) == Warn(<<"skipped", name>>)
Recovered(res) == IF res.panic THEN FailInternal("panic") ELSE res

SlipNoPrecedence(all) ==
    LET t == Together({x.result : x \in all}) IN
    [allowed |-> t.allowed, code |-> IF t.allowed THEN 200 ELSE 422,
     causes |-> UNION {{<<x.name, c>> : c \in x.result.causes} : x \in all},
     warnings |-> t.warnings]

\* The end of Handle: denied if any check was, a 500 before a 422.
Summary(all) ==
    LET t == Together({x.result : x \in all}) IN
    [allowed  |-> t.allowed,
     code     |-> IF t.internal THEN 500 ELSE IF t.allowed THEN 200 ELSE 422,
     causes   |-> UNION {{<<x.name, c>> : c \in x.result.causes} : x \in all},
     warnings |-> t.warnings]

-----------------------------------------------------------------------------

Init ==
    /\ request \in DOMAIN Request
    /\ phase = "handle"
    /\ cutoff = [i \in Checkers |-> 0]
    /\ checks = [i \in Checkers |-> <<>>]
    /\ inited = {}
    /\ next = [i \in Checkers |-> 1]
    /\ running = [i \in Checkers |-> {}]
    /\ results = [i \in Checkers |-> <<>>]
    /\ stored = {}
    /\ resp = NoResponse
    /\ faults = 0

Answer(response) ==
    /\ phase' = "done" /\ resp' = response
    /\ UNCHANGED <<request, cutoff, checks, inited, next, running, results, stored, faults>>

\* Has the spec changed, the paused field left aside?
SpecChanged(r) == r.op = "create" \/ r.specChanged

\* The early returns of Handle.
Handle ==
    /\ phase = "handle"
    /\ IF req.op = "delete" THEN Answer(Allowed)
       ELSE IF ~req.decodes THEN Answer(Errored(400))
       ELSE IF req.deleting \/ ~req.topology \/ req.paused THEN Answer(Allowed)
       ELSE IF ~SpecChanged(req) THEN Answer(Allowed)
       ELSE IF ForAll(req) THEN Answer([Allowed EXCEPT !.warnings = {"skippedAll"}])
       ELSE /\ phase' = "running"
            /\ UNCHANGED <<request, cutoff, checks, inited, next, running, results, stored,
                           resp, faults>>

\* The calls that fail once the context has expired: callWithContext abandons those
\* to Prism Central, and a ping or a dial needs its context.
Abandoned == {"clusters", "subnets", "images", "containers", "hosting", "ping", "dial"}

\* Those that are given the context too, by a client that may answer all the same:
\* the cache of the management cluster, or a Prism Central client that is called
\* without callWithContext.
Given == {"secret", "users", "version", "rtt", "fd", "getMetro", "listSites"}

ASSUME LateFailuresAreGiven == LateFailures \subseteq SUBSET Given

\* The reads of metros and sites while the checks are built, and newClient, do
\* without the context.
ApiCalls == Abandoned \cup Given \cup {"client", "metro", "site"}

Expired == \E i \in Checkers : cutoff[i] > 0

Late == {req.hung \cup Abandoned \cup may : may \in LateFailures}

\* The calls that fail for the goroutine that runs now: at most as
\* many as the bound allows.  Once the context has expired the calls that need
\* it fail and any of the others may; of a goroutine that had been started, perhaps
\* only those it hung in.
Bad(bad, started) ==
    IF Expired
    THEN /\ bad \in Late \cup (IF started THEN {req.hung} ELSE {})
         /\ faults' = faults
    ELSE /\ bad \subseteq ApiCalls /\ Cardinality(bad) <= 1
         /\ faults + Cardinality(bad) <= (IF req.faulty THEN MaxFaults ELSE 0)
         /\ faults' = faults + Cardinality(bad)

BadSets == Late \cup {{}, req.hung} \cup {{c} : c \in ApiCalls}

\* What a goroutine computes does not wait for a call that hangs.
Ready(value, whenHung) == Expired \/ req.hung = {} \/ value = whenHung

ChecksOf(i, bad) ==
    IF i = "generic" THEN GenericInit(req)
    ELSE NutanixInit(req, For(req, "NutanixPrismCentralVersion"), bad)

\* The zero value of a result slot.
Zero == [Pass EXCEPT !.allowed = FALSE]

\* A checker's goroutine calls Init.
InitChecker(i) ==
    /\ phase = "running" /\ i \notin inited
    /\ \E bad \in BadSets :
        /\ Bad(bad, TRUE)
        /\ Ready(ChecksOf(i, bad), ChecksOf(i, bad \cup req.hung))
        /\ checks' = [checks EXCEPT ![i] = ChecksOf(i, bad)]
        /\ results' = [results EXCEPT ![i] = [j \in DOMAIN ChecksOf(i, bad) |-> Zero]]
    /\ inited' = inited \cup {i}
    /\ UNCHANGED <<request, phase, cutoff, next, running, stored, resp>>

\* The loop of the checker's goroutine starts, or skips, the next check.
StartCheck(i) ==
    /\ phase = "running" /\ i \in inited /\ next[i] <= Len(checks[i])
    /\ Cardinality(running[i]) < MaxInFlight
    /\ LET j == next[i]
           name == Name(checks[i][j])
       IN IF For(req, name)
          THEN /\ results' = [results EXCEPT ![i][j] = Skipped(name)]
               /\ UNCHANGED running
          ELSE /\ running' = [running EXCEPT ![i] = @ \cup {j}]
               /\ UNCHANGED results
    /\ next' = [next EXCEPT ![i] = @ + 1]
    /\ UNCHANGED <<request, phase, cutoff, checks, inited, stored, resp, faults>>

\* A check's goroutine runs it and writes its slot; a panic is recovered.
RunCheck(i, j) ==
    /\ phase = "running" /\ j \in running[i]
    /\ \E bad \in BadSets :
        /\ Bad(bad, j < cutoff[i])
        /\ Ready(Run(req, checks[i][j], bad), Run(req, checks[i][j], bad \cup req.hung))
        /\ results' = [results EXCEPT ![i][j] = Recovered(Run(req, checks[i][j], bad))]
    /\ running' = [running EXCEPT ![i] = @ \ {j}]
    /\ UNCHANGED <<request, phase, cutoff, checks, inited, next, stored, resp>>

SlipAddedLate(i) == next[i] > Len(checks[i]) /\ running[i] = {}
SlipStoredEarly(i) == i \in inited /\ next[i] > Len(checks[i])

\* checksWG.Wait: every check has been started and is done.
ChecksDone(i) == i \in inited /\ next[i] > Len(checks[i]) /\ running[i] = {}

StoreResults(i) ==
    /\ phase = "running" /\ i \notin stored /\ ChecksDone(i)
    /\ stored' = stored \cup {i}
    /\ UNCHANGED <<request, phase, cutoff, checks, inited, next, running, results, resp, faults>>

NamedResults ==
    UNION {{[name |-> Name(checks[i][j]), slot |-> <<i, j>>, result |-> results[i][j]]
                : j \in DOMAIN checks[i]} : i \in Checkers}

\* checkersWG.Wait, and the summary.
Respond ==
    /\ phase = "running" /\ stored = Checkers
    /\ Answer(Summary(NamedResults))

\* The deadline of the context, which is met unless some call hangs.
Expire ==
    /\ phase = "running" /\ ~Expired /\ req.hung # {}
    /\ cutoff' = next
    /\ UNCHANGED <<request, phase, checks, inited, next, running, results, stored, resp, faults>>

Done == phase = "done" /\ UNCHANGED vars

Checker(i) ==
    InitChecker(i) \/ StartCheck(i) \/ (\E j \in running[i] : RunCheck(i, j)) \/ StoreResults(i)

Next == Handle \/ (\E i \in Checkers : Checker(i)) \/ Respond \/ Expire \/ Done

Spec == Init /\ [][Next]_vars
-----------------------------------------------------------------------------
(* Properties *)

\* The range of every variable.
TypeOK ==
    /\ request \in DOMAIN Request
    /\ phase \in {"handle", "running", "done"}
    /\ inited \subseteq Checkers /\ stored \subseteq inited
    /\ \A i \in Checkers :
        /\ DOMAIN results[i] = DOMAIN checks[i]
        /\ next[i] \in 1 .. Len(checks[i]) + 1
        /\ running[i] \subseteq 1 .. next[i] - 1
        /\ cutoff[i] \in 0 .. next[i]
    /\ faults \in 0 .. MaxFaults
    /\ resp.code \in {0, 200, 400, 422, 500}

\* What the checks say when they run one after the other and nothing fails.
Sequential ==
    Summary(UNION {{[name |-> Name(c), slot |-> 0,
                     result |-> IF For(req, Name(c)) THEN Skipped(Name(c))
                                ELSE Recovered(Run(req, c, {}))]
                    : c \in Range(ChecksOf(i, {}))} : i \in Checkers})

\* The interleaving of checkers and checks does not show: with no API error and
\* in time, the response of preflight.run is that of a sequential evaluation.
OrderDoesNotMatter ==
    phase = "done" /\ inited = Checkers /\ faults = 0 /\ ~Expired /\ req.hung = {}
        => resp = Sequential

\* The pools whose machines name neither an image nor an image lookup.
Imageless(r) == {p \in r.cp \cup Range(r.workers) : p.nutanix /\ p.image.by = "none"}

\* A request some check could not judge, because of an API error, an expired
\* context or a panic, is refused, with a cause and as an internal error: Handle
\* takes the verdict from Allowed alone, so every check must clear it.  Any other
\* refusal names a cause too, unless a pool names neither an image nor a lookup,
\* for which imageCheck.Run denies in silence.
InternalErrorsRefuse ==
    phase = "done" =>
        /\ resp.code = 500 => ~resp.allowed /\ resp.causes # {}
        /\ resp.code = 422 => resp.causes # {} \/ Imageless(req) # {}
        /\ (\E i \in Checkers : \E j \in DOMAIN results[i] : results[i][j].internal)
               => resp.code = 500
=============================================================================
