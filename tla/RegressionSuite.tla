--------------------------- MODULE RegressionSuite ---------------------------
(***************************************************************************)
(* A regression job: accepted by run_evaluation_regression, executed by    *)
(* ResourceExecutor and EvaluationRegressionRunner one provider call per   *)
(* case and target, charged call by call to the tenant under the lease of  *)
(* the attempt, and persisted by complete_success if the lease still holds.*)
(***************************************************************************)
EXTENDS EvaluationRules

CONSTANTS
    Jobs,          \* requests: cases (rules of each), costs of the targets, gates
    Servers,       \* server settings: maxCases and budget (calls of one job)
    Payloads,      \* what a provider may answer
    Latencies,     \* milliseconds
    TenantCalls,   \* provider calls of a tenant in one window
    MaxAttempts,   \* bound: attempts a trace looks at
    TieDown(_, _)  \* whether round takes the tie a / b down

\* A gate is any number that is not negative, here num / den thousandths of a
\* point or of a percent.
Gates == [num : Nat, den : Nat \ {0}]

\* The cases of a request are a list; ProviderModelTarget and RegressionGates
\* refuse negative numbers; the limits of a server are numbers.
ASSUME RequestAssumption ==
    \A j \in Jobs : Len(j.cases) \in Nat /\ DOMAIN j.cases = 1..Len(j.cases)
ASSUME GatesAssumption ==
    \A j \in Jobs : /\ j.cost.baseline \in Nat /\ j.cost.candidate \in Nat
                    /\ j.gates.quality \in Gates
                    /\ j.gates.latency \in Gates \cup {None} /\ j.gates.cost \in Gates \cup {None}
ASSUME ServerAssumption ==
    \A s \in Servers : s.maxCases \in Nat /\ s.budget \in Nat

VARIABLES
    job,       \* the request
    server,    \* settings of the API, later of the worker
    status,    \* of the job: new, rejected, QUEUED, RUNNING, SUCCEEDED, FAILED
    attempts,  \* attempts begun
    lease,     \* the lease of the newest attempt has not expired
    worker,    \* of the newest attempt: idle, next (case), calling, done
    results,   \* of the cases so far, baseline first
    calls,     \* ChargedExecutor.calls
    used,      \* the tenant's calls in the window
    spent,     \* calls charged to this job, over all attempts
    report     \* passed of the persisted report

vars == <<job, server, status, attempts, lease, worker, results, calls, used, spent, report>>

N == Len(job.cases)
-----------------------------------------------------------------------------
(* The report.                                                             *)

Half(target) == SubSeq(results, IF target = "baseline" THEN 1 ELSE N + 1,
                                IF target = "baseline" THEN N ELSE 2 * N)

PassedCases(target) ==
    Cardinality({i \in DOMAIN Half(target) : Half(target)[i].outcome = "passed"})

SumOfLatencies(cases) == FoldSeq(LAMBDA c, sum : sum + c.latency, 0, cases)

TotalLatency(target) == SumOfLatencies(Half(target))

EstimatedCost(target) == N * job.cost[target]

\* round(a / b, digits) in units of the last digit, for a >= 0.  Which way a tie
\* goes depends on the binary fraction that holds a / b.
Rounded(a, b, unit) ==
    LET up == (2 * a * unit + b) \div (2 * b)
        tie == (2 * a * unit + b) % (2 * b) = 0
    IN IF tie /\ TieDown(a * unit, b) THEN up - 1 ELSE up

PassRate(target) == Rounded(PassedCases(target), N, 1000000)
AverageLatency(target) == Rounded(TotalLatency(target), N, 1000)

\* Thousandths; a negative change rounds like its absolute value.
PercentDelta(baseline, candidate) ==
    IF candidate >= baseline THEN Rounded((candidate - baseline) * 100, baseline, 1000)
    ELSE -Rounded((baseline - candidate) * 100, baseline, 1000)

MetricRegressedRelative(baseline, candidate, allowed) ==
    /\ allowed # None
    /\ baseline # 0
    /\ PercentDelta(baseline, candidate) * allowed.den > allowed.num

MetricRegressed(baseline, candidate, allowed) ==
    /\ allowed # None
    /\ IF baseline = 0 THEN candidate > 0
       ELSE PercentDelta(baseline, candidate) * allowed.den > allowed.num

QualityRegressed ==
    LET lost == PassRate("baseline") - PassRate("candidate")
    IN lost > 0 /\ Rounded(lost, 10000, 1000) * job.gates.quality.den > job.gates.quality.num

Comparison ==
    /\ ~QualityRegressed
    /\ ~MetricRegressed(AverageLatency("baseline"), AverageLatency("candidate"), job.gates.latency)
    /\ ~MetricRegressed(EstimatedCost("baseline"), EstimatedCost("candidate"), job.gates.cost)

Errors == {"configuration", "index", "provider", "inactive", "database"}
HasError == \E i \in DOMAIN results : results[i].outcome \in Errors

Passed == ~HasError /\ Comparison
-----------------------------------------------------------------------------
(* The job's life.                                                         *)

JobAttemptsRetried == 2

\* max_attempts of job_policy.
JobAttempts == 1

WithinBudget(settings) == N <= settings.maxCases /\ 2 * N <= settings.budget

\* RegressionDataset.from_mapping: there is a case, of the expected shape.
DatasetValid == N > 0

\* EvaluationRegressionRequest: the rules of every case are accepted.
RequestValid == \A i \in DOMAIN job.cases : ValidateRules(job.cases[i])

\* run_evaluation_regression, then submit with job_policy.
Submit ==
    /\ status = "new"
    /\ status' = IF RequestValid /\ WithinBudget(server) /\ DatasetValid THEN "QUEUED" ELSE "rejected"
    /\ UNCHANGED <<job, server, attempts, lease, worker, results, calls, used, spent, report>>

\* The worker was deployed with other settings than the API.
Reconfigure ==
    /\ status = "QUEUED" /\ attempts = 0
    /\ server' \in Servers
    /\ UNCHANGED <<job, status, attempts, lease, worker, results, calls, used, spent, report>>

\* claim; execute refuses a job above the settings before it calls anyone.
Claim ==
    /\ status = "QUEUED" /\ attempts < MaxAttempts
    /\ status' = "RUNNING" /\ attempts' = attempts + 1 /\ lease' = TRUE
    /\ worker' = IF WithinBudget(server) THEN "next" ELSE "refused"
    /\ results' = <<>> /\ calls' = 0
    /\ UNCHANGED <<job, server, used, spent, report>>

\* The fence of ChargedExecutor: the attempt is open and its lease holds.
Active == status = "RUNNING" /\ lease

AddCase(outcome, latency, fits) ==
    results' = Append(results, [outcome |-> outcome, latency |-> latency, fits |-> fits])

AfterCase == IF Len(results) + 1 = 2 * N THEN "done" ELSE "next"

\* ChargedExecutor.execute up to the provider: charged in a transaction of its
\* own.  A fenced worker records an error, and so does one whose transaction
\* fails, be it that only the answer to its commit was lost; an exhausted quota
\* ends the job.
Charge ==
    /\ worker = "next"
    /\ \/ /\ ~Active /\ calls < server.budget
          /\ \E latency \in Latencies : AddCase("inactive", latency, TRUE)
          /\ worker' = AfterCase
          /\ UNCHANGED <<calls, used, spent>>
       \/ /\ Active /\ calls < server.budget /\ used < TenantCalls
          /\ worker' = "calling"
          /\ calls' = calls + 1 /\ used' = used + 1 /\ spent' = spent + 1
          /\ UNCHANGED results
       \/ /\ calls < server.budget
          /\ \E latency \in Latencies : AddCase("database", latency, TRUE)
          /\ worker' = AfterCase
          /\ \/ UNCHANGED <<used, spent>>
             \/ Active /\ used < TenantCalls /\ used' = used + 1 /\ spent' = spent + 1
          /\ UNCHANGED calls
       \/ /\ calls >= server.budget \/ (Active /\ used >= TenantCalls)
          /\ worker' = "refused"
          /\ UNCHANGED <<results, calls, used, spent>>
    /\ UNCHANGED <<job, server, status, attempts, lease, report>>

CaseRules == job.cases[(Len(results) % N) + 1]

\* The provider answers, or fails or times out; the rules are evaluated.
Answer ==
    /\ worker = "calling"
    /\ \E latency \in Latencies :
          \/ \E p \in Payloads :
                AddCase(EvaluateRules(CaseRules, p, latency), latency, WithinBounds(p))
          \/ AddCase("provider", latency, TRUE)
    /\ worker' = AfterCase
    /\ UNCHANGED <<job, server, status, attempts, lease, calls, used, spent, report>>

OwnsRun == status = "RUNNING"

OwnsActiveLease == status = "RUNNING" /\ lease

\* complete_success: the report is persisted if the lease still holds.
Complete ==
    /\ worker = "done"
    /\ worker' = "idle"
    /\ IF OwnsActiveLease THEN status' = "SUCCEEDED" /\ report' = Passed ELSE UNCHANGED <<status, report>>
    /\ UNCHANGED <<job, server, attempts, lease, results, calls, used, spent>>

\* FAILED stands for DEAD_LETTERED too, how a retryable error of the last
\* attempt ends.
RetryOrFail == status' = IF attempts < JobAttempts THEN "QUEUED" ELSE "FAILED"

\* complete_failure: a refused job, or an attempt that ran out of time.
Fail ==
    /\ worker \notin {"idle", "done"}
    /\ worker' = "idle"
    /\ IF OwnsActiveLease THEN RetryOrFail ELSE UNCHANGED status
    /\ UNCHANGED <<job, server, attempts, lease, results, calls, used, spent, report>>

Expire ==
    /\ status = "RUNNING" /\ lease
    /\ lease' = FALSE
    /\ UNCHANGED <<job, server, status, attempts, worker, results, calls, used, spent, report>>

\* recover_expired_leases, while the worker may still be at it.
Recover ==
    /\ status = "RUNNING" /\ ~lease
    /\ RetryOrFail
    /\ UNCHANGED <<job, server, attempts, lease, worker, results, calls, used, spent, report>>

\* Other work of the tenant, and the end of its window.
OtherWork ==
    /\ worker = "next" /\ used < TenantCalls
    /\ used' = TenantCalls
    /\ UNCHANGED <<job, server, status, attempts, lease, worker, results, calls, spent, report>>

WindowEnds ==
    /\ worker = "next" /\ used > 0
    /\ used' = 0
    /\ UNCHANGED <<job, server, status, attempts, lease, worker, results, calls, spent, report>>
-----------------------------------------------------------------------------
Init ==
    /\ job \in Jobs /\ server \in Servers
    /\ status = "new" /\ attempts = 0 /\ lease = FALSE /\ worker = "idle"
    /\ results = <<>> /\ calls = 0 /\ used = 0 /\ spent = 0 /\ report = FALSE

Next ==
    \/ Submit \/ Reconfigure \/ Claim
    \/ Charge \/ Answer \/ Complete \/ Fail
    \/ Expire \/ Recover
    \/ OtherWork \/ WindowEnds

Spec == Init /\ [][Next]_vars
-----------------------------------------------------------------------------
(* Properties.                                                             *)

\* Evaluating rules that the API accepted raises EvaluationConfigurationError
\* exactly for a result above the bounds on nodes, depth and text, counted here
\* level by level, or with a text or number that cannot be read.  One other error
\* is left, of a rule whose path has digits that int cannot read.
RuleErrorsAreOfResults ==
    \A i \in DOMAIN results :
        /\ (results[i].outcome = "configuration") <=> ~results[i].fits
        /\ results[i].outcome = "index" =>
              \E rule \in ToSet(job.cases[((i - 1) % N) + 1]) :
                  ToSet(PathOf(rule)) \cap (Digits \ DOMAIN IndexOf) # {}

\* Cases whose provider was called.
Called == {i \in DOMAIN results : results[i].outcome # "database"}

\* A persisted report holds every case of both targets under the attempt's lease:
\* a worker that lost its lease cannot leave a report with cases it was refused.
\* Every provider that was called was charged for, a failed transaction costs at
\* most the call that it kept from being made, and a report that passes is the
\* work of exactly one charged call for each case and target.
ReportsAreWhole ==
    status = "SUCCEEDED" =>
        /\ Len(results) = 2 * N
        /\ \A i \in DOMAIN results : results[i].outcome # "inactive"
        /\ calls = Cardinality(Called)
        /\ calls <= spent /\ spent <= 2 * N
        /\ report => calls = 2 * N /\ spent = 2 * N

\* Whatever is lost, recovered or redelivered, a job never costs its tenant more
\* than one call for each case and target, nor more than the budget of a job.
SpendsOnce == spent <= 2 * N /\ (spent > 0 => 2 * N <= server.budget)

\* A share of the baseline is above a gate that was moved by some thousandths.
Above(share, baseline, gate, moved) ==
    share * 100000 * gate.den > (gate.num + moved * gate.den) * baseline

LostMore(moved) ==
    Above(PassedCases("baseline") - PassedCases("candidate"), N, job.gates.quality, moved)

GrewMore(baseline, candidate, gate, moved) ==
    gate # None /\ Above(candidate - baseline, baseline, gate, moved)

Regressed(moved) ==
    \/ LostMore(moved)
    \/ GrewMore(AverageLatency("baseline"), AverageLatency("candidate"), job.gates.latency, moved)
    \/ GrewMore(EstimatedCost("baseline"), EstimatedCost("candidate"), job.gates.cost, moved)

\* The roundings on the way to a verdict move it by less than a thousandth of a
\* point of passed cases, or of a percent of cost or of reported latency: a report
\* that passes has no error and keeps gates that are loosened by so much, and one
\* that has no error and keeps gates that are tightened by so much passes.
VerdictIsTight ==
    status = "SUCCEEDED" =>
        /\ report => ~HasError /\ ~Regressed(1)
        /\ ~HasError /\ ~Regressed(-1) => report
=============================================================================
