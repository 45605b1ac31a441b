----------------------------- MODULE PolicyRules -----------------------------
(***************************************************************************)
(* The policy of one run from request to last attempt: build_policy_-      *)
(* snapshot merges the request with the server's limits, routing ranks the *)
(* providers, and every claim and every failed attempt reads the stored    *)
(* snapshot again, perhaps after the server was configured anew.  Seconds  *)
(* are integers, rates are in thousandths.                                 *)
(***************************************************************************)
EXTENDS RunStates, Integers, Sequences, FiniteSets, SequencesExt

CONSTANTS
    Requests,     \* RunPolicyRequest: absent fields are None
    Servers,      \* Settings and provider catalogue the processes may run with
    None,
    MaxDeploys    \* bound: changes of the settings while the run lives

\* What the catalogue records of a provider; name is its place in the alphabet.
ProviderHistoricalMetrics ==
    [latency : Nat, cost : Nat, passRate : Nat, availability : Nat, name : Nat]

\* Every provider a request may name has an entry, under its own name.
ValidCatalog(catalog) ==
    /\ {"deterministic", "openai"} \subseteq DOMAIN catalog
    /\ \A p \in DOMAIN catalog : catalog[p] \in ProviderHistoricalMetrics
    /\ \A p, q \in DOMAIN catalog : p # q => catalog[p].name # catalog[q].name

TenMinutes == 600
Hour == 3600
Day == 86400

\* settings.py bounds its fields and rejects a cap below the base delay.
ValidSettings(s) ==
    /\ s.max_attempts \in 1..20
    /\ s.attempt_timeout \in 1..TenMinutes
    /\ s.base_delay \in 1..Hour
    /\ s.max_backoff \in s.base_delay..Day
    /\ s.lease \in 5..Hour
    /\ "deterministic" \in s.available /\ s.available \subseteq DOMAIN s.catalog
    /\ ValidCatalog(s.catalog)

Strategies == {"balanced", "lowest_latency", "lowest_cost", "quality_first"}

\* policy.py: what a request may contain.
ValidRequest(q) ==
    /\ q.max_attempts = None \/ q.max_attempts \in 1..20
    /\ q.attempt_timeout = None \/ q.attempt_timeout \in 1..TenMinutes
    /\ q.initial_backoff = None \/ q.initial_backoff \in 1..Hour
    /\ q.max_backoff = None \/ q.max_backoff \in 1..Day
    /\ q.strategy \in Strategies \cup {None}
    /\ \A list \in {q.candidates, q.provider_order} \ {None} :
          list \in Seq({"deterministic", "openai"}) /\ Len(list) \in 1..2

ASSUME InputsAssumption ==
    (\A s \in Servers : ValidSettings(s)) /\ (\A q \in Requests : ValidRequest(q))

ASSUME BoundsAssumption == MaxDeploys \in Nat

VARIABLES
    phase,     \* of the run
    request,   \* what the client asked for
    server,    \* the settings now
    admitted,  \* the settings at submission
    deploys,   \* how often they have changed
    policy,    \* policy_snapshot
    tried,     \* provider of each attempt
    lease,     \* lease and
    timeout,   \*   time limit of the current attempt
    delay,     \* delay_seconds of the last RUN_RETRY_SCHEDULED
    error      \* error_code of the run

vars == <<phase, request, server, admitted, deploys, policy, tried, lease, timeout,
          delay, error>>

AtMost(a, b) == IF a < b THEN a ELSE b
AtLeast(a, b) == IF a > b THEN a ELSE b
Default(value, default) == IF value = None THEN default ELSE value

-----------------------------------------------------------------------------
(* routing.py *)

\* Score of the balanced strategy, in millionths; lower is better.
BalancedScore(m) ==
    m.cost * 175 + m.latency * 300 + (1000 - m.passRate) * 250
    + (1000 - m.availability) * 100

\* Mutant: rates are sorted like costs.
AscendingKey(m, strategy) ==
    CASE strategy = "lowest_latency" -> <<m.latency, m.cost, m.passRate, m.availability, m.name>>
      [] strategy = "lowest_cost" -> <<m.cost, m.latency, m.passRate, m.availability, m.name>>
      [] strategy = "quality_first" -> <<m.passRate, m.availability, m.latency, m.cost, m.name>>
      [] strategy = "balanced" -> <<BalancedScore(m), m.name>>

\* _ranked_candidate
SortKey(m, strategy) ==
    CASE strategy = "lowest_latency" -> <<m.latency, m.cost, -m.passRate, -m.availability, m.name>>
      [] strategy = "lowest_cost" -> <<m.cost, m.latency, -m.passRate, -m.availability, m.name>>
      [] strategy = "quality_first" -> <<-m.passRate, -m.availability, m.latency, m.cost, m.name>>
      [] strategy = "balanced" -> <<BalancedScore(m), m.name>>

KeyLess(a, b) ==
    \E i \in DOMAIN a : a[i] < b[i] /\ \A j \in 1..(i - 1) : a[j] = b[j]

Candidates(q) == Default(q.candidates, Default(q.provider_order, <<"deterministic">>))

Available(q, s) == ToSet(Candidates(q)) \cap s.available

RoutingRejects(q, s) ==
    \/ ~IsInjective(Candidates(q))
    \/ ~(ToSet(Candidates(q)) \subseteq DOMAIN s.catalog)
    \/ Available(q, s) = {}

\* resolve_routing_decision
ProviderOrder(q, s) ==
    LET key(p) == SortKey(s.catalog[p], Default(q.strategy, "balanced")) IN
    CHOOSE order \in SetToSeqs(Available(q, s)) :
        \A i, j \in DOMAIN order : i < j => KeyLess(key(order[i]), key(order[j]))

-----------------------------------------------------------------------------
(* retry.py *)

\* create_run caps the attempt timeout below the lease.
TimeoutLimit(s) == AtMost(s.attempt_timeout, s.lease - 1)

Contradictory(q, s) ==
    Default(q.max_backoff, s.max_backoff) < Default(q.initial_backoff, s.base_delay)

\* Mutant: the cap is not raised to the clamped initial delay.
UnraisedCap(q, s, initial) == AtMost(Default(q.max_backoff, s.max_backoff), s.max_backoff)

BackoffCap(q, s, initial) ==
    AtLeast(initial, AtMost(Default(q.max_backoff, s.max_backoff), s.max_backoff))

\* Mutant: the server's base delay is a default and not a floor.
RequestedInitial(q, s) == AtMost(s.max_backoff, Default(q.initial_backoff, s.base_delay))

InitialBackoff(q, s) ==
    AtMost(s.max_backoff,
           AtLeast(AtLeast(1, s.base_delay), Default(q.initial_backoff, s.base_delay)))

\* Mutant: the number of attempts is taken from the request.
RequestedAttempts(q, s) == Default(q.max_attempts, s.max_attempts)

AttemptLimit(q, s) == AtMost(Default(q.max_attempts, s.max_attempts), s.max_attempts)

BuildPolicySnapshot(q, s) ==
    [max_attempts    |-> AttemptLimit(q, s),
     attempt_timeout |-> AtMost(Default(q.attempt_timeout, TimeoutLimit(s)), TimeoutLimit(s)),
     initial_backoff |-> InitialBackoff(q, s),
     max_backoff     |-> BackoffCap(q, s, InitialBackoff(q, s)),
     provider_order  |-> ProviderOrder(q, s)]

\* RetryPolicy.from_snapshot and __post_init__ do not raise.
ValidPolicy(p) ==
    /\ p.max_attempts >= 1
    /\ p.attempt_timeout > 0
    /\ p.initial_backoff > 0
    /\ p.max_backoff >= p.initial_backoff
    /\ p.provider_order # <<>>

\* Mutant: the delays start over when the providers do.
DelayPerRound(p, n) ==
    AtLeast(1, AtMost(p.max_backoff, p.initial_backoff * 2 ^ ((n - 1) % Len(p.provider_order))))

DelayAfterAttempt(p, n) ==
    AtLeast(1, AtMost(p.max_backoff, p.initial_backoff * 2 ^ AtMost(n - 1, 20)))

\* Exceptions an attempt ends with; status 0 is an exception without one.
Exceptions ==
    [kind : {"quota", "timeout"}, status : {0}]
    \cup [kind : {"other"}, status : {0, 399, 400, 401, 403, 404, 429, 499, 500, 599, 600}]

ClassifyException(e) ==
    CASE e.kind = "quota" -> "RESOURCE_QUOTA_EXCEEDED"
      [] e.kind = "timeout" -> "PROVIDER_TIMEOUT"
      [] e.status = 429 -> "PROVIDER_RATE_LIMITED"
      [] e.status \in {401, 403} -> "PROVIDER_AUTH_FAILED"
      [] e.status \in 500..599 -> "PROVIDER_SERVER_ERROR"
      [] e.status \in 400..499 /\ e.status \notin {401, 403, 429} -> "PROVIDER_BAD_REQUEST"
      [] OTHER -> "EXECUTION_ERROR"

-----------------------------------------------------------------------------
(* The life of the run *)

Rejected(q, s) ==
    \/ Contradictory(q, s)
    \/ RoutingRejects(q, s)
    \/ ~ValidPolicy(BuildPolicySnapshot(q, s))

\* create_run; ValueError becomes a 422.
Submit(q) ==
    /\ phase = "new"
    /\ request' = q
    /\ admitted' = server
    /\ \/ /\ Rejected(q, server)
          /\ phase' = "rejected"
          /\ UNCHANGED policy
       \/ /\ ~Rejected(q, server)
          /\ phase' = "queued"
          /\ policy' = BuildPolicySnapshot(q, server)
    /\ UNCHANGED <<server, deploys, tried, lease, timeout, delay, error>>

\* Mutant: off by one, the second attempt repeats the first provider.
ProviderBefore(p, n) == p.provider_order[AtMost(AtLeast(n - 1, 1), Len(p.provider_order))]

ProviderOfAttempt(p, n) == p.provider_order[AtMost(n, Len(p.provider_order))]

\* Mutant: the worker trusts the timeout that was stored.
StoredTimeout(p, s) == p.attempt_timeout

ClaimTimeout(p, s) == AtMost(p.attempt_timeout, s.lease - 1)

Claim ==
    LET n == Len(tried) + 1 IN
    /\ phase = "queued"
    /\ \/ /\ ~ValidPolicy(policy) \/ n > AtMost(policy.max_attempts, server.max_attempts)
          /\ phase' = "failed"
          /\ error' = "INVALID_STORED_POLICY"
          /\ UNCHANGED <<tried, lease, timeout>>
       \/ /\ ValidPolicy(policy) /\ n <= AtMost(policy.max_attempts, server.max_attempts)
          /\ phase' = "running"
          /\ tried' = Append(tried, ProviderOfAttempt(policy, n))
          /\ lease' = server.lease
          /\ timeout' = ClaimTimeout(policy, server)
          /\ UNCHANGED error
    /\ UNCHANGED <<request, server, admitted, deploys, policy, delay>>

\* _schedule_retry_or_finalize
FinishFailed(code) ==
    /\ phase = "running"
    /\ error' = code
    /\ \/ /\ IsRetryableError(code) /\ Len(tried) < policy.max_attempts
          /\ phase' = "waiting"
          /\ delay' = DelayAfterAttempt(policy, Len(tried))
       \/ /\ IsRetryableError(code) /\ Len(tried) >= policy.max_attempts
          /\ phase' = "dead-lettered"
          /\ UNCHANGED delay
       \/ /\ ~IsRetryableError(code)
          /\ phase' = "failed"
          /\ UNCHANGED delay
    /\ UNCHANGED <<request, server, admitted, deploys, policy, tried, lease, timeout>>

AttemptFails(e) == FinishFailed(ClassifyException(e))

LeaseRecovered == FinishFailed("EXECUTION_LEASE_EXPIRED")

AttemptSucceeds ==
    /\ phase = "running"
    /\ phase' = "succeeded"
    /\ error' = "NONE"
    /\ UNCHANGED <<request, server, admitted, deploys, policy, tried, lease, timeout, delay>>

RetryDue ==
    /\ phase = "waiting"
    /\ phase' = "queued"
    /\ UNCHANGED <<request, server, admitted, deploys, policy, tried, lease, timeout, delay,
                   error>>

Redeploy(s) ==
    /\ phase \in {"queued", "running", "waiting"}
    /\ deploys < MaxDeploys
    /\ s # server
    /\ server' = s
    /\ deploys' = deploys + 1
    /\ UNCHANGED <<phase, request, admitted, policy, tried, lease, timeout, delay, error>>

Init ==
    /\ phase = "new" /\ request = None
    /\ server \in Servers /\ admitted = server /\ deploys = 0
    /\ policy = None /\ tried = <<>>
    /\ lease = 0 /\ timeout = 0 /\ delay = 0
    /\ error = "NONE"

Next ==
    \/ \E q \in Requests : Submit(q)
    \/ Claim
    \/ \E e \in Exceptions : AttemptFails(e)
    \/ LeaseRecovered
    \/ AttemptSucceeds
    \/ RetryDue
    \/ \E s \in Servers : Redeploy(s)

Spec == Init /\ [][Next]_vars

-----------------------------------------------------------------------------
(* Properties *)

\* A request whose own delays do not contradict each other, once the server's
\* fill the gaps, and whose candidates are distinct and not all unavailable, is
\* accepted: clamping never turns a good policy into one RetryPolicy rejects.
ConsistentRequestsAccepted ==
    phase = "rejected" =>
        \/ Default(request.max_backoff, admitted.max_backoff)
              < Default(request.initial_backoff, admitted.base_delay)
        \/ Cardinality(ToSet(Candidates(request))) < Len(Candidates(request))
        \/ ToSet(Candidates(request)) \cap admitted.available = {}

\* While the settings stay as they were at submission no claim finds the stored
\* policy invalid or its attempts used up.
AcceptedPolicyRunnable == error = "INVALID_STORED_POLICY" => deploys > 0

\* Every retry waits at least the server's base delay and at most its cap, those
\* of the submission, whatever the request asked for; delays never shrink from
\* one retry to the next and at most double.
BackoffSchedule ==
    [][delay' # 0 =>
          /\ admitted.base_delay <= delay' /\ delay' <= admitted.max_backoff
          /\ delay # 0 => delay <= delay' /\ delay' <= 2 * delay]_vars

\* The time limit of an attempt ends before the lease of the same claim, also
\* for policies stored when leases were longer.
AttemptEndsBeforeLease == phase = "running" => 0 < timeout /\ timeout < lease

\* The errors after which another provider should be tried
\* (docs/architecture/v0-contract.md, error taxonomy).
FallbackErrors ==
    {"PROVIDER_TIMEOUT", "PROVIDER_RATE_LIMITED", "PROVIDER_UNAVAILABLE", "PROVIDER_SERVER_ERROR"}

\* After an error that has provider fallback the next attempt goes to a usable
\* candidate that was not tried before, as long as there is one.
FallbackCoversCandidates ==
    [][tried' # tried /\ error \in FallbackErrors =>
          LET usable == ToSet(Candidates(request)) \cap admitted.available
              next == tried'[Len(tried')]
          IN next \in usable /\ (next \in ToSet(tried) => ToSet(tried) = usable)]_vars

\* No attempt goes to a provider while an untried candidate is at least as good
\* in cost, latency, pass rate and availability, and better in one of them.
NoDominatedChoice ==
    \A i \in DOMAIN tried : \A p \in Available(request, admitted) :
        LET a == admitted.catalog[tried[i]]
            b == admitted.catalog[p]
        IN  /\ b.cost <= a.cost /\ b.latency <= a.latency
            /\ b.passRate >= a.passRate /\ b.availability >= a.availability
            /\ \/ b.cost < a.cost \/ b.latency < a.latency
               \/ b.passRate > a.passRate \/ b.availability > a.availability
            => \E j \in 1..(i - 1) : tried[j] = p
=============================================================================
