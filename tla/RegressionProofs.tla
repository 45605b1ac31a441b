-------------------------- MODULE RegressionProofs --------------------------
(***************************************************************************)
(* Proofs about regression jobs: what a persisted report holds, what a job *)
(* costs its tenant whatever is lost or recovered on the way, that         *)
(* accepted rules raise no error of their own, and how far rounding moves  *)
(* a verdict.                                                              *)
(***************************************************************************)
EXTENDS RegressionSuite, FiniteSetTheorems, TLAPS

Outcomes == {"passed", "failed"} \cup Errors
CaseResults == [outcome : Outcomes, latency : Latencies, fits : BOOLEAN]

\* What the variables hold.
Typed ==
    /\ job \in Jobs /\ server \in Servers
    /\ status \in {"new", "rejected", "QUEUED", "RUNNING", "SUCCEEDED", "FAILED"}
    /\ worker \in {"idle", "next", "calling", "done", "refused"}
    /\ results \in Seq(CaseResults)
    /\ attempts \in Nat /\ calls \in Nat /\ spent \in Nat /\ lease \in BOOLEAN

\* A job is claimed at most once, and one that is not claimed has cost nothing.
ClaimedOnce ==
    /\ attempts = IF status \in {"new", "rejected", "QUEUED"} THEN 0 ELSE 1
    /\ attempts = 0 => worker = "idle" /\ results = <<>> /\ spent = 0
    /\ calls <= spent

\* A job past the request has cases with accepted rules.
Accepted == status \notin {"new", "rejected"} => RequestValid /\ N > 0

\* The worker is somewhere in the loop over the cases.
AtCases == worker \in {"next", "calling", "done"}

\* Calls that were charged and have no result yet.
Open == IF worker = "calling" THEN 1 ELSE 0

\* How far the worker is, and what it has paid for.
Progress ==
    /\ AtCases => WithinBudget(server) /\ status # "SUCCEEDED" /\ spent <= Len(results) + Open
    /\ worker \in {"next", "calling"} => Len(results) < 2 * N
    /\ worker = "done" => Len(results) = 2 * N
    /\ spent <= 2 * N /\ (spent > 0 => WithinBudget(server))

\* While its lease holds, every case so far was charged and called, but for those
\* whose transaction failed.
LeasePays ==
    Active /\ AtCases =>
        /\ calls = Cardinality(Called) + Open
        /\ \A i \in DOMAIN results : results[i].outcome # "inactive"

JobInv == Typed /\ ClaimedOnce /\ Accepted /\ Progress /\ LeasePays /\ ReportsAreWhole
-----------------------------------------------------------------------------
(* What an action reads and writes.                                        *)

\* A request has a number of cases.
LEMMA CountsCases == ASSUME Typed PROVE N \in Nat
BY RequestAssumption DEF Typed, N

\* An action that keeps the request keeps what is said of it.
LEMMA RequestKept ==
    ASSUME job' = job
    PROVE  N' = N /\ RequestValid' = RequestValid
BY DEF N, RequestValid

\* Keeping the settings too keeps the verdict on the job's size.
LEMMA BudgetKept ==
    ASSUME job' = job, server' = server
    PROVE  WithinBudget(server)' = WithinBudget(server)
BY DEF WithinBudget, N

\* A case is added at the end of the results.
LEMMA CaseAdded ==
    ASSUME Typed, NEW outcome \in Outcomes, NEW latency \in Latencies, NEW fits \in BOOLEAN,
           AddCase(outcome, latency, fits)
    PROVE  /\ results' \in Seq(CaseResults)
           /\ Len(results') = Len(results) + 1
           /\ DOMAIN results' = DOMAIN results \cup {Len(results) + 1}
           /\ \A i \in DOMAIN results : results'[i] = results[i]
           /\ results'[Len(results) + 1] = [outcome |-> outcome, latency |-> latency, fits |-> fits]
<1> DEFINE case == [outcome |-> outcome, latency |-> latency, fits |-> fits]
<1>1. case \in CaseResults
  BY DEF CaseResults
<1>2. results' = Append(results, case) /\ results \in Seq(CaseResults)
  BY DEF AddCase, Typed
<1> HIDE DEF case
<1>3. Len(results) \in Nat /\ DOMAIN results = 1..Len(results)
  BY <1>2
<1>4. results' \in Seq(CaseResults) /\ Len(results') = Len(results) + 1
  BY <1>1, <1>2
<1>5. DOMAIN results' = 1..(Len(results) + 1)
  BY <1>4
<1>6. DOMAIN results' = DOMAIN results \cup {Len(results) + 1}
  BY <1>3, <1>5
<1>7. \A i \in DOMAIN results : results'[i] = results[i]
  BY <1>1, <1>2, <1>3
<1>8. results'[Len(results) + 1] = case
  BY <1>1, <1>2, <1>3
<1> QED BY <1>4, <1>6, <1>7, <1>8 DEF case

\* The cases whose provider was called are counted.
LEMMA CalledCounted ==
    ASSUME Typed
    PROVE  /\ IsFiniteSet(Called) /\ Cardinality(Called) \in Nat
           /\ Len(results) \in Nat /\ DOMAIN results = 1..Len(results)
           /\ IsFiniteSet(DOMAIN results) /\ Cardinality(DOMAIN results) = Len(results)
<1>1. Len(results) \in Nat /\ DOMAIN results = 1..Len(results)
  BY DEF Typed
<1>2. /\ IsFiniteSet(1..Len(results))
      /\ Cardinality(1..Len(results)) = IF 1 > Len(results) THEN 0 ELSE Len(results) - 1 + 1
  BY <1>1, FS_Interval
<1>3. Cardinality(1..Len(results)) = Len(results)
  BY <1>1, <1>2
<1>4. Called \subseteq 1..Len(results)
  BY <1>1 DEF Called
<1>5. IsFiniteSet(Called) /\ Cardinality(Called) \in Nat
  BY ZenonT(30), <1>2, <1>4, FS_Subset, FS_CardinalityType
<1> QED BY ZenonT(30), <1>1, <1>2, <1>3, <1>5

\* A case is counted unless its transaction failed.
LEMMA CalledGrows ==
    ASSUME Typed, NEW outcome \in Outcomes, NEW latency \in Latencies, NEW fits \in BOOLEAN,
           AddCase(outcome, latency, fits)
    PROVE  Cardinality(Called)' = Cardinality(Called) + IF outcome = "database" THEN 0 ELSE 1
<1>1. /\ DOMAIN results' = DOMAIN results \cup {Len(results) + 1}
      /\ \A i \in DOMAIN results : results'[i] = results[i]
      /\ results'[Len(results) + 1] = [outcome |-> outcome, latency |-> latency, fits |-> fits]
  BY ZenonT(30), CaseAdded
<1>2. IsFiniteSet(Called) /\ Cardinality(Called) \in Nat
      /\ Len(results) \in Nat /\ DOMAIN results = 1..Len(results)
  BY ZenonT(30), CalledCounted
<1>3. results'[Len(results) + 1].outcome = outcome
  BY <1>1
<1>4. Len(results) + 1 \notin DOMAIN results
  BY <1>2
<1>5. CASE outcome = "database"
  <2>1. Called' = Called
    BY <1>1, <1>3, <1>4, <1>5 DEF Called
  <2> QED BY <1>2, <1>5, <2>1
<1>6. CASE outcome # "database"
  <2>1. Called' = Called \cup {Len(results) + 1}
    BY <1>1, <1>3, <1>4, <1>6 DEF Called
  <2>2. Len(results) + 1 \notin Called
    BY <1>4 DEF Called
  <2>3. Cardinality(Called \cup {Len(results) + 1}) = Cardinality(Called) + 1
    BY <1>2, <2>2, FS_AddElement
  <2> QED BY <1>6, <2>1, <2>3
<1> QED BY <1>5, <1>6

\* Without an error every case was called.
LEMMA AllCalled == ASSUME Typed, ~HasError PROVE Cardinality(Called) = Len(results)
<1>1. Called = DOMAIN results
  BY DEF HasError, Errors, Called
<1> QED BY ZenonT(30), <1>1, CalledCounted

\* Where the results stay, what is said of them does.
LEMMA ResultsKept ==
    ASSUME job' = job, results' = results
    PROVE  Cardinality(Called)' = Cardinality(Called) /\ Len(results)' = Len(results)
BY DEF Called

\* A persisted report stays what it is.
LEMMA ReportKept ==
    ASSUME ReportsAreWhole, UNCHANGED <<job, results, calls, spent, report>>,
           status' = "SUCCEEDED" => status = "SUCCEEDED"
    PROVE  ReportsAreWhole'
<1>1. N' = N /\ Cardinality(Called)' = Cardinality(Called)
  BY RequestKept, ResultsKept
<1> QED BY ZenonT(30), <1>1 DEF ReportsAreWhole

\* Evaluating the rules of a case ends in one of four ways.
LEMMA EvaluationOutcome ==
    ASSUME NEW rules, NEW payload, NEW latency
    PROVE  EvaluateRules(rules, payload, latency) \in {"configuration", "index", "passed", "failed"}
BY DEF EvaluateRules

\* Whether a result is within the bounds is a Boolean.
LEMMA BoundsBoolean == ASSUME NEW v PROVE WithinBounds(v) \in BOOLEAN
BY Zenon DEF WithinBounds
-----------------------------------------------------------------------------
(* Every step keeps the invariant.                                         *)

LEMMA JobInit == Init => JobInv
<1> SUFFICES ASSUME Init PROVE JobInv
  OBVIOUS
<1>1. results \in Seq(CaseResults) /\ Len(results) = 0 /\ DOMAIN results = {}
  BY DEF Init
<1>2. Typed
  BY ZenonT(30), <1>1 DEF Init, Typed
<1>3. ClaimedOnce /\ Accepted
  BY DEF Init, ClaimedOnce, Accepted
<1>4. N \in Nat
  BY <1>2, CountsCases
<1>5. Progress /\ LeasePays /\ ReportsAreWhole
  BY <1>1, <1>4 DEF Init, Progress, LeasePays, ReportsAreWhole, AtCases, Active
<1> QED BY <1>2, <1>3, <1>5 DEF JobInv

\* The request, the settings and the tenant's other work touch no attempt.
LEMMA OutsideKeeps ==
    ASSUME JobInv, Submit \/ Reconfigure \/ OtherWork \/ WindowEnds
    PROVE  JobInv'
<1> USE DEF JobInv
<1>1. N \in Nat /\ job' = job /\ N' = N /\ RequestValid' = RequestValid
  BY CountsCases, RequestKept DEF Submit, Reconfigure, OtherWork, WindowEnds
<1>2. CASE Submit
  <2>1. WithinBudget(server)' = WithinBudget(server)
    BY <1>2, BudgetKept DEF Submit
  <2>2. Typed' /\ ClaimedOnce'
    BY <1>2 DEF Submit, Typed, ClaimedOnce
  <2>3. Accepted'
    BY <1>1, <1>2 DEF Submit, Accepted, DatasetValid
  <2>4. Progress' /\ LeasePays'
    BY <1>1, <1>2, <2>1 DEF Submit, Typed, ClaimedOnce, Progress, LeasePays, AtCases, Active, Open
  <2>5. ReportsAreWhole'
    BY <1>2 DEF Submit, ReportsAreWhole
  <2> QED BY <2>2, <2>3, <2>4, <2>5
<1>3. CASE Reconfigure
  <2>1. Typed' /\ ClaimedOnce' /\ Accepted'
    BY <1>1, <1>3 DEF Reconfigure, Typed, ClaimedOnce, Accepted
  <2>2. Progress' /\ LeasePays'
    BY <1>1, <1>3 DEF Reconfigure, Typed, ClaimedOnce, Progress, LeasePays, AtCases, Active
  <2>3. ReportsAreWhole'
    BY <1>3 DEF Reconfigure, ReportsAreWhole
  <2> QED BY <2>1, <2>2, <2>3
<1>4. CASE OtherWork \/ WindowEnds
  <2>1. UNCHANGED <<job, server, status, attempts, lease, worker, results, calls, spent, report>>
    BY <1>4 DEF OtherWork, WindowEnds
  <2>2. WithinBudget(server)' = WithinBudget(server)
    BY <2>1, BudgetKept
  <2>3. Typed' /\ ClaimedOnce' /\ Accepted'
    BY <1>1, <2>1 DEF Typed, ClaimedOnce, Accepted
  <2>4. Progress' /\ LeasePays'
    BY <1>1, <2>1, <2>2, ResultsKept DEF Progress, LeasePays, AtCases, Active, Open
  <2>5. ReportsAreWhole'
    BY <2>1, ReportKept
  <2> QED BY <2>3, <2>4, <2>5
<1> QED BY <1>2, <1>3, <1>4

\* claim begins an attempt that owes nothing and has no results.
LEMMA ClaimKeeps == ASSUME JobInv, Claim PROVE JobInv'
<1> USE DEF JobInv
<1>1. N \in Nat /\ N' = N /\ RequestValid' = RequestValid
  BY CountsCases, RequestKept DEF Claim
<1>2. WithinBudget(server)' = WithinBudget(server)
  BY BudgetKept DEF Claim
<1>3. Len(results') = 0 /\ DOMAIN results' = {} /\ results' \in Seq(CaseResults)
  BY DEF Claim
<1>4. spent = 0 /\ attempts = 0
  BY DEF Claim, ClaimedOnce
<1>5. Typed' /\ ClaimedOnce' /\ Accepted'
  BY <1>1, <1>3, <1>4 DEF Claim, Typed, ClaimedOnce, Accepted
<1>6. Cardinality(Called)' = 0
  <2>1. Called' = {}
    BY <1>3 DEF Called
  <2> QED BY <2>1, FS_EmptySet
<1>7. Progress' /\ LeasePays'
  BY <1>1, <1>2, <1>3, <1>4, <1>6 DEF Claim, Typed, Accepted, Progress, LeasePays, AtCases, Active, Open
<1>8. ReportsAreWhole'
  BY DEF Claim, ReportsAreWhole
<1> QED BY <1>5, <1>7, <1>8

\* Losing the lease, and the ends of an attempt.
LEMMA EndKeeps ==
    ASSUME JobInv, Complete \/ Fail \/ Expire \/ Recover
    PROVE  JobInv'
<1> USE DEF JobInv
<1>1. UNCHANGED <<job, server, attempts, results, calls, spent>>
  BY DEF Complete, Fail, Expire, Recover
<1>2. N \in Nat /\ N' = N /\ RequestValid' = RequestValid
  BY <1>1, CountsCases, RequestKept
<1>3. /\ WithinBudget(server)' = WithinBudget(server)
      /\ Cardinality(Called)' = Cardinality(Called) /\ Len(results)' = Len(results)
  BY <1>1, BudgetKept, ResultsKept
<1>4. CASE Complete
  <2>1. Typed' /\ ClaimedOnce' /\ Accepted'
    BY <1>1, <1>2, <1>4 DEF Complete, OwnsActiveLease, Typed, ClaimedOnce, Accepted
  <2>2. Progress' /\ LeasePays'
    BY <1>1, <1>2, <1>3, <1>4 DEF Complete, Progress, LeasePays, AtCases
  <2>3. ReportsAreWhole'
    <3>1. CASE OwnsActiveLease
      <4>1. /\ Len(results) = 2 * N /\ calls = Cardinality(Called) /\ spent <= 2 * N
            /\ \A i \in DOMAIN results : results[i].outcome # "inactive"
        BY <1>4, <3>1, CalledCounted
           DEF Complete, OwnsActiveLease, Active, AtCases, Open, Typed, Progress, LeasePays
      <4>2. calls <= spent /\ (Passed => calls = 2 * N /\ spent = 2 * N)
        <5>1. Passed => Cardinality(Called) = Len(results)
          BY AllCalled DEF Passed
        <5> QED BY <1>2, <4>1, <5>1 DEF Typed, ClaimedOnce
      <4>3. report' = Passed
        BY <1>4, <3>1 DEF Complete
      <4>4. report' => calls' = 2 * N' /\ spent' = 2 * N'
        BY Zenon, <1>1, <1>2, <4>2, <4>3
      <4>5. /\ Len(results)' = 2 * N' /\ calls' = Cardinality(Called)'
            /\ calls' <= spent' /\ spent' <= 2 * N'
            /\ \A i \in DOMAIN results' : results'[i].outcome # "inactive"
        BY <1>1, <1>2, <1>3, <4>1, <4>2
      <4> QED BY Zenon, <4>4, <4>5 DEF ReportsAreWhole
    <3>2. CASE ~OwnsActiveLease
      <4>1. status' = status /\ report' = report
        BY <1>4, <3>2 DEF Complete
      <4>2. /\ UNCHANGED <<job, results, calls, spent, report>>
            /\ status' = "SUCCEEDED" => status = "SUCCEEDED"
        BY <1>1, <4>1
      <4> QED BY Zenon, <4>2, ReportKept
    <3> QED BY <3>1, <3>2
  <2> QED BY <2>1, <2>2, <2>3
<1>5. CASE Fail
  <2>1. Typed' /\ ClaimedOnce' /\ Accepted'
    BY <1>1, <1>2, <1>5 DEF Fail, RetryOrFail, JobAttempts, OwnsActiveLease, Typed, ClaimedOnce, Accepted
  <2>2. Progress' /\ LeasePays'
    BY <1>1, <1>2, <1>3, <1>5 DEF Fail, Progress, LeasePays, AtCases
  <2>3. ReportsAreWhole'
    BY <1>1, <1>5, ReportKept DEF Fail, RetryOrFail
  <2> QED BY <2>1, <2>2, <2>3
<1>6. CASE Expire
  <2>1. Typed' /\ ClaimedOnce' /\ Accepted'
    BY ZenonT(30), <1>1, <1>2, <1>6 DEF Expire, Typed, ClaimedOnce, Accepted
  <2>2. Progress' /\ LeasePays'
    BY <1>1, <1>2, <1>3, <1>6 DEF Expire, Progress, LeasePays, AtCases, Active, Open
  <2>3. ReportsAreWhole'
    BY <1>6, ReportKept DEF Expire
  <2> QED BY <2>1, <2>2, <2>3
<1>7. CASE Recover
  <2>1. Typed' /\ ClaimedOnce' /\ Accepted'
    BY <1>1, <1>2, <1>7 DEF Recover, RetryOrFail, JobAttempts, Typed, ClaimedOnce, Accepted
  <2>2. Progress' /\ LeasePays'
    BY <1>1, <1>2, <1>3, <1>7 DEF Recover, RetryOrFail, Progress, LeasePays, AtCases, Active, Open
  <2>3. ReportsAreWhole'
    BY <1>7, ReportKept DEF Recover, RetryOrFail
  <2> QED BY <2>1, <2>2, <2>3
<1> QED BY <1>4, <1>5, <1>6, <1>7

\* A case that ends, called, refused or lost to the database.
LEMMA CaseEnds ==
    ASSUME JobInv, NEW outcome \in Outcomes, NEW latency \in Latencies, NEW fits \in BOOLEAN,
           AddCase(outcome, latency, fits),
           worker \in {"next", "calling"}, worker' = AfterCase,
           worker = "calling" => outcome \notin {"inactive", "database"} /\ spent' = spent,
           worker = "next" => ~Active \/ outcome = "database",
           spent' \in {spent, spent + 1},
           UNCHANGED <<job, server, status, attempts, lease, calls>>
    PROVE  JobInv'
<1> USE DEF JobInv
<1>1. N \in Nat /\ N' = N /\ RequestValid' = RequestValid /\ Len(results) \in Nat
  BY CountsCases, RequestKept DEF Typed
<1>2. WithinBudget(server)' = WithinBudget(server)
  BY BudgetKept
<1>3. /\ results' \in Seq(CaseResults)
      /\ Len(results') = Len(results) + 1
      /\ DOMAIN results' = DOMAIN results \cup {Len(results) + 1}
      /\ \A i \in DOMAIN results : results'[i] = results[i]
      /\ results'[Len(results) + 1] = [outcome |-> outcome, latency |-> latency, fits |-> fits]
  BY ZenonT(30), CaseAdded
<1>4. worker' = IF Len(results) + 1 = 2 * N THEN "done" ELSE "next"
  BY DEF AfterCase
<1>5. Typed' /\ ClaimedOnce' /\ Accepted'
  <2>1. Typed'
    BY <1>3, <1>4 DEF Typed
  <2>2. attempts # 0
    BY DEF ClaimedOnce
  <2>3. calls' <= spent'
    BY DEF Typed, ClaimedOnce
  <2> QED BY <1>1, <2>1, <2>2, <2>3 DEF ClaimedOnce, Accepted
<1>6. Progress'
  <2>1. /\ WithinBudget(server) /\ status # "SUCCEEDED" /\ Len(results) < 2 * N
        /\ spent \in Nat /\ spent' \in Nat /\ spent <= Len(results) + Open
    BY DEF Progress, Typed, AtCases
  <2>2. spent' <= Len(results) + 1 /\ Open' = 0
    BY <1>1, <1>4, <2>1 DEF Open
  <2> QED BY <1>1, <1>2, <1>3, <1>4, <2>1, <2>2 DEF Progress, AtCases
<1>7. LeasePays'
  <2> SUFFICES ASSUME Active PROVE LeasePays'
    BY DEF LeasePays, Active
  <2>1. /\ calls = Cardinality(Called) + Open /\ Open' = 0
        /\ \A i \in DOMAIN results : results[i].outcome # "inactive"
    BY <1>4 DEF LeasePays, AtCases, Open
  <2>2. Cardinality(Called)' = Cardinality(Called) + IF outcome = "database" THEN 0 ELSE 1
    BY ZenonT(30), CalledGrows
  <2>3. outcome # "inactive" /\ Open = IF outcome = "database" THEN 0 ELSE 1
    BY DEF Open
  <2>4. Cardinality(Called) \in Nat
    BY ZenonT(30), CalledCounted
  <2>5. \A i \in DOMAIN results' : results'[i].outcome # "inactive"
    BY <1>3, <2>1, <2>3
  <2>6. calls' = Cardinality(Called)' + Open'
    BY <2>1, <2>2, <2>3, <2>4
  <2> QED BY ZenonT(30), <2>5, <2>6 DEF LeasePays
<1>8. ReportsAreWhole'
  BY DEF Progress, AtCases, ReportsAreWhole
<1> QED BY <1>5, <1>6, <1>7, <1>8

\* A call is charged while the lease holds, or refused.
LEMMA ChargeKeeps == ASSUME JobInv, Charge PROVE JobInv'
<1> USE DEF JobInv
<1>1. N \in Nat /\ N' = N /\ RequestValid' = RequestValid /\ Len(results) \in Nat
  BY CountsCases, RequestKept DEF Charge, Typed
<1>2. WithinBudget(server)' = WithinBudget(server)
  BY BudgetKept DEF Charge
<1>3. worker = "next" /\ UNCHANGED <<job, server, status, attempts, lease, report>>
  BY DEF Charge
<1>4. ASSUME ~Active, NEW latency \in Latencies, AddCase("inactive", latency, TRUE),
             worker' = AfterCase, UNCHANGED <<calls, used, spent>>
      PROVE  JobInv'
  <2> HIDE DEF JobInv
  <2>1. "inactive" \in Outcomes /\ TRUE \in BOOLEAN /\ worker # "calling"
    BY <1>3 DEF Outcomes, Errors
  <2> QED BY ZenonT(30), <1>3, <1>4, <2>1, CaseEnds
<1>5. ASSUME worker' = "calling", calls' = calls + 1, spent' = spent + 1, results' = results, Active
      PROVE  JobInv'
  <2>1. Typed' /\ ClaimedOnce' /\ Accepted'
    BY <1>1, <1>3, <1>5 DEF Typed, ClaimedOnce, Accepted
  <2>2. /\ calls = Cardinality(Called) + 0 /\ Cardinality(Called)' = Cardinality(Called)
        /\ \A i \in DOMAIN results : results[i].outcome # "inactive"
    BY <1>3, <1>5, ResultsKept DEF LeasePays, AtCases, Open
  <2>3. Progress' /\ LeasePays'
    BY <1>1, <1>2, <1>3, <1>5, <2>2, CalledCounted DEF Typed, Progress, LeasePays, AtCases, Open
  <2>4. ReportsAreWhole'
    BY <1>3 DEF Progress, AtCases, ReportsAreWhole
  <2> QED BY <2>1, <2>3, <2>4
<1>6. ASSUME NEW latency \in Latencies, AddCase("database", latency, TRUE), worker' = AfterCase,
             calls' = calls, spent' \in {spent, spent + 1}
      PROVE  JobInv'
  <2> HIDE DEF JobInv
  <2>1. "database" \in Outcomes /\ TRUE \in BOOLEAN /\ worker # "calling"
    BY <1>3 DEF Outcomes, Errors
  <2> QED BY ZenonT(30), <1>3, <1>6, <2>1, CaseEnds
<1>7. ASSUME worker' = "refused", UNCHANGED <<results, calls, used, spent>>
      PROVE  JobInv'
  <2>1. Typed' /\ ClaimedOnce' /\ Accepted'
    BY <1>1, <1>3, <1>7 DEF Typed, ClaimedOnce, Accepted
  <2>2. Progress' /\ LeasePays'
    BY <1>1, <1>2, <1>3, <1>7 DEF Progress, LeasePays, AtCases
  <2>3. ReportsAreWhole'
    BY <1>3 DEF Progress, AtCases, ReportsAreWhole
  <2> QED BY <2>1, <2>2, <2>3
<1> QED BY ZenonT(30), <1>4, <1>5, <1>6, <1>7 DEF Charge
-----------------------------------------------------------------------------
(* Rules.                                                                  *)

\* A rule that validate_rules accepts gives _evaluate_rule nothing to raise.
LEMMA ValidRulesNeverRaise == ASSUME NEW rule, ValidRule(rule) PROVE ~Raises(rule)
<1>1. rule.type \in DOMAIN Allowed /\ PathOf(rule) # Wrong
  BY DEF ValidRule
<1>2. rule.type = "json_schema" => rule.schema \notin {None, Wrong}
  BY DEF ValidRule
<1>3. rule.type = "rule" => rule.operator \in Operators
  BY DEF ValidRule
<1>4. rule.type = "latency_budget" => rule.max_ms \in 0..MaxBudget
  BY DEF ValidRule
<1>5. rule.type = "latency_budget" => rule.max_ms \notin {None, Wrong} /\ ~(rule.max_ms < 0)
  BY <1>4, AbsentAssumption
<1> QED BY ZenonT(30), <1>1, <1>2, <1>3, <1>5 DEF Raises

\* Evaluating accepted rules raises for the result and for nothing else.
LEMMA AcceptedRulesEvaluate ==
    ASSUME NEW rules, ValidateRules(rules), NEW payload, NEW latency
    PROVE  (EvaluateRules(rules, payload, latency) = "configuration") <=> ~Bounded(payload)
<1>1. \A i \in DOMAIN rules : ~Raises(rules[i])
  BY ValidRulesNeverRaise DEF ValidateRules
<1> QED BY <1>1 DEF EvaluateRules

\* The case that is called is one of the request.
LEMMA CalledCase ==
    ASSUME JobInv, worker = "calling"
    PROVE  ValidateRules(CaseRules)
<1>1. RequestValid /\ N \in Nat /\ N > 0 /\ Len(results) \in Nat
  BY CountsCases DEF JobInv, Typed, ClaimedOnce, Accepted
<1>2. (Len(results) % N) + 1 \in 1..N
  BY <1>1
<1>3. DOMAIN job.cases = 1..N
  BY RequestAssumption DEF JobInv, Typed, N
<1> QED BY <1>1, <1>2, <1>3 DEF RequestValid, CaseRules

\* A provider answers or fails, and its case ends.
LEMMA AnswerKeeps == ASSUME JobInv, Answer PROVE JobInv'
<1>1. worker = "calling" /\ worker' = AfterCase
  BY DEF Answer
<1>2. UNCHANGED <<job, server, status, attempts, lease, calls, spent>>
  BY DEF Answer
<1>3. PICK latency \in Latencies :
         \/ \E p \in Payloads :
               AddCase(EvaluateRules(CaseRules, p, latency), latency, WithinBounds(p))
         \/ AddCase("provider", latency, TRUE)
  BY ZenonT(30) DEF Answer
<1>4. ASSUME NEW p \in Payloads,
             AddCase(EvaluateRules(CaseRules, p, latency), latency, WithinBounds(p))
      PROVE  JobInv'
  <2>1. PICK outcome \in {"configuration", "index", "passed", "failed"} :
           outcome = EvaluateRules(CaseRules, p, latency)
    BY EvaluationOutcome
  <2>2. PICK fits \in BOOLEAN : fits = WithinBounds(p)
    BY BoundsBoolean
  <2>3. outcome \in Outcomes /\ outcome \notin {"inactive", "database"} /\ worker # "next"
    BY <1>1 DEF Outcomes, Errors
  <2>4. AddCase(outcome, latency, fits)
    BY <1>4, <2>1, <2>2
  <2> QED BY <1>1, <1>2, <2>3, <2>4, CaseEnds
<1>5. ASSUME AddCase("provider", latency, TRUE) PROVE JobInv'
  <2>1. "provider" \in Outcomes /\ "provider" \notin {"inactive", "database"} /\ worker # "next"
    BY <1>1 DEF Outcomes, Errors
  <2> QED BY ZenonT(30), <1>1, <1>2, <1>5, <2>1, CaseEnds
<1> QED BY ZenonT(30), <1>3, <1>4, <1>5

LEMMA JobStep == JobInv /\ [Next]_vars => JobInv'
<1> SUFFICES ASSUME JobInv, [Next]_vars PROVE JobInv'
  OBVIOUS
<1>1. CASE UNCHANGED vars
  <2>1. N' = N /\ RequestValid' = RequestValid /\ WithinBudget(server)' = WithinBudget(server)
    BY <1>1, RequestKept, BudgetKept DEF vars
  <2>2. Typed' /\ ClaimedOnce' /\ Accepted'
    BY <1>1, <2>1 DEF vars, JobInv, Typed, ClaimedOnce, Accepted
  <2>3. Progress' /\ LeasePays'
    BY <1>1, <2>1, ResultsKept DEF vars, JobInv, Progress, LeasePays, AtCases, Active, Open
  <2>4. ReportsAreWhole'
    BY <1>1, ReportKept DEF vars, JobInv
  <2> QED BY <2>2, <2>3, <2>4 DEF JobInv
<1> QED BY <1>1, OutsideKeeps, ClaimKeeps, EndKeeps, ChargeKeeps, AnswerKeeps DEF Next

THEOREM JobInvariant == Spec => []JobInv
BY JobInit, JobStep, PTL DEF Spec
-----------------------------------------------------------------------------
(* Theorems.                                                               *)

\* A report that complete_success persisted has every case of both targets; every
\* provider it called was charged for under the lease of the attempt, a failed
\* transaction costs at most the call it prevented, and a report that passes cost
\* exactly one call for each case and target.
THEOREM PersistedReportsWhole == Spec => []ReportsAreWhole
<1>1. JobInv => ReportsAreWhole
  BY DEF JobInv
<1> QED BY <1>1, JobInvariant, PTL

\* A job costs its tenant at most one call for each case and target, and never
\* more than the budget the worker was configured with, whatever happens to the
\* leases and to the settings before it is claimed.
THEOREM JobSpendsOnce == Spec => []SpendsOnce
<1>1. JobInv => SpendsOnce
  BY CountsCases, ServerAssumption DEF JobInv, Typed, Progress, WithinBudget, SpendsOnce
<1> QED BY <1>1, JobInvariant, PTL

\* Evaluating the rules of the case that is called raises
\* EvaluationConfigurationError for the results that bounded_value refuses, and
\* for no other.
AcceptedRulesRun ==
    worker = "calling" =>
        \A p \in Payloads, latency \in Latencies :
            (EvaluateRules(CaseRules, p, latency) = "configuration") <=> ~Bounded(p)

\* Rules that the API accepted raise no configuration error of their own in the
\* worker, for any request, result and limits and however the settings changed in
\* between: validate_rules passes them again and leaves _evaluate_rule nothing to
\* raise.
THEOREM RuleErrorsOfResults == Spec => []AcceptedRulesRun
<1>1. JobInv => AcceptedRulesRun
  BY CalledCase, AcceptedRulesEvaluate DEF AcceptedRulesRun
<1> QED BY <1>1, JobInvariant, PTL
-----------------------------------------------------------------------------
(* The verdict of a report.                                                *)

\* The persisted verdict is the one on the persisted cases.
VerdictOfCases == status = "SUCCEEDED" => (report <=> Passed)

LEMMA DivBounds ==
    ASSUME NEW x \in Int, NEW y \in Int, y > 0
    PROVE  x \div y \in Int /\ y * (x \div y) <= x /\ x < y * (x \div y) + y
<1>1. x \div y \in Int
  OBVIOUS
<1>2. x % y \in 0..(y - 1)
  OBVIOUS
<1>3. x = y * (x \div y) + (x % y)
  OBVIOUS
<1> HIDE <1>1, <1>2, <1>3
<1>4. PICK q \in Int, r \in Int : q = x \div y /\ r = x % y
  BY <1>1, <1>2
<1>5. r >= 0 /\ r < y /\ x = y * q + r
  BY <1>2, <1>3, <1>4
<1>6. y * q <= x /\ x < y * q + y
  BY <1>5
<1> QED BY <1>1, <1>4, <1>6

\* round is half a unit off at most, whichever way it takes a tie.
LEMMA RoundedBounds ==
    ASSUME NEW a \in Nat, NEW b \in Nat, b > 0, NEW unit \in Nat
    PROVE  /\ Rounded(a, b, unit) \in Nat
           /\ 2 * b * Rounded(a, b, unit) <= 2 * a * unit + b
           /\ 2 * a * unit <= 2 * b * Rounded(a, b, unit) + b
<1> DEFINE x == 2 * a * unit + b
           y == 2 * b
           tie == x % y = 0 /\ TieDown(a * unit, b)
<1>1. PICK w \in Nat : w = 2 * a * unit
  OBVIOUS
<1>2. x \in Int /\ y \in Int /\ y > 0 /\ x = w + b
  BY <1>1
<1>3. Rounded(a, b, unit) = IF tie THEN x \div y - 1 ELSE x \div y
  BY Zenon DEF Rounded
<1> HIDE DEF x, y, tie
<1>4. x \div y \in Int /\ y * (x \div y) <= x /\ x < y * (x \div y) + y
  BY <1>2, DivBounds
<1>5. tie => x = y * (x \div y)
  <2>1. x = y * (x \div y) + (x % y)
    BY <1>2
  <2>2. x % y \in Int /\ y * (x \div y) \in Int
    BY <1>2, <1>4
  <2> QED BY <2>1, <2>2 DEF tie
<1>6. PICK up \in Int : up = x \div y
  BY <1>4
<1>7. PICK m \in Int : m = b * up
  OBVIOUS
<1>8. y * up = 2 * m /\ 2 * b * up = 2 * m /\ 2 * b * (up - 1) = 2 * m - 2 * b
  BY <1>7 DEF y
<1>9. 2 * m <= w + b /\ w + b < 2 * m + 2 * b /\ (tie => w + b = 2 * m)
  BY <1>1, <1>2, <1>4, <1>5, <1>6, <1>8 DEF y
<1>10. PICK q \in Int : q = Rounded(a, b, unit) /\ q = IF tie THEN up - 1 ELSE up
  BY <1>3, <1>6
<1>11. 2 * b * q <= w + b /\ w <= 2 * b * q + b
  BY <1>8, <1>9, <1>10
<1>12. q >= 0
  <2> SUFFICES ASSUME q <= -1 PROVE FALSE
    OBVIOUS
  <2>1. b * q <= -b
    OBVIOUS
  <2>2. 2 * b * q = 2 * (b * q) /\ b * q \in Int
    OBVIOUS
  <2> QED BY <1>1, <1>11, <2>1, <2>2
<1> QED BY <1>1, <1>10, <1>11, <1>12

\* A rounded share q of b that is less than a unit off decides a gate num / den
\* as the exact share t / b does, up to one unit.
LEMMA GateBounds ==
    ASSUME NEW b \in Nat, b > 0, NEW t \in Int, NEW q \in Int, b * q < t + b, t < b * q + b,
           NEW num \in Nat, NEW den \in Nat, den > 0
    PROVE  /\ q * den > num => t * den > (num - den) * b
           /\ q * den <= num => t * den <= (num + den) * b
<1>1. PICK m \in Int, e \in Int, g \in Int, f \in Int :
         m = b * q /\ e = b * den /\ g = num * b /\ f = (b * q) * den
  OBVIOUS
<1>2. f = b * (q * den) /\ (num - den) * b = g - e /\ (num + den) * b = g + e
  BY <1>1
<1>3. (t - m + b) * den > 0 /\ (m + b - t) * den > 0
  <2>1. t - m + b \in Int /\ t - m + b > 0 /\ m + b - t \in Int /\ m + b - t > 0
    BY <1>1
  <2> QED BY <2>1
<1>4. (t - m + b) * den = t * den - f + e /\ (m + b - t) * den = f + e - t * den
  BY <1>1
<1>5. q * den > num => f > g
  <2> SUFFICES ASSUME q * den > num PROVE f > g
    OBVIOUS
  <2>1. (q * den - num) * b > 0
    <3>1. q * den - num \in Int /\ q * den - num > 0
      OBVIOUS
    <3> QED BY <3>1
  <2>2. (q * den - num) * b = f - g
    BY <1>1, <1>2
  <2> QED BY <2>1, <2>2, <1>1
<1>6. q * den <= num => f <= g
  <2> SUFFICES ASSUME q * den <= num PROVE f <= g
    OBVIOUS
  <2>1. (num - q * den) * b >= 0
    <3>1. num - q * den \in Int /\ num - q * den >= 0
      OBVIOUS
    <3> QED BY <3>1
  <2>2. (num - q * den) * b = g - f
    BY <1>1, <1>2
  <2> QED BY <2>1, <2>2, <1>1
<1>7. PICK s \in Int : s = t * den
  OBVIOUS
<1> QED BY <1>1, <1>2, <1>3, <1>4, <1>5, <1>6, <1>7

\* percent_delta is less than a thousandth off.
LEMMA DeltaBounds ==
    ASSUME NEW b \in Nat, b > 0, NEW c \in Nat
    PROVE  \E q \in Int : /\ q = PercentDelta(b, c)
                          /\ b * q < (c - b) * 100000 + b /\ (c - b) * 100000 < b * q + b
<1>1. PICK unit \in Nat : unit = 1000
  BY SMT
<1>2. ASSUME NEW d \in Nat
      PROVE  \E r \in Nat : /\ r = Rounded(d, b, 1000)
                            /\ 2 * (b * r) <= 2 * d * 1000 + b /\ 2 * d * 1000 <= 2 * (b * r) + b
  <2>1. /\ Rounded(d, b, unit) \in Nat
        /\ 2 * b * Rounded(d, b, unit) <= 2 * d * unit + b
        /\ 2 * d * unit <= 2 * b * Rounded(d, b, unit) + b
    BY ZenonT(30), RoundedBounds
  <2>2. PICK r \in Nat : r = Rounded(d, b, unit)
    BY <2>1
  <2>3. 2 * b * r = 2 * (b * r)
    BY SMT
  <2> QED BY SMT, <1>1, <2>1, <2>2, <2>3
<1>3. CASE c >= b
  <2>1. PICK d \in Nat : d = (c - b) * 100
    BY SMT, <1>3
  <2>2. PICK r \in Nat : /\ r = Rounded(d, b, 1000)
                         /\ 2 * (b * r) <= 2 * d * 1000 + b /\ 2 * d * 1000 <= 2 * (b * r) + b
    BY SMT, <1>2
  <2>3. PercentDelta(b, c) = r
    BY SMT, <1>3, <2>1, <2>2 DEF PercentDelta
  <2>4. PICK m \in Int : m = b * r
    BY SMT
  <2>5. b * r < (c - b) * 100000 + b /\ (c - b) * 100000 < b * r + b
    BY SMT, <2>1, <2>2, <2>4
  <2> QED BY SMT, <2>3, <2>5
<1>4. CASE c < b
  <2>1. PICK d \in Nat : d = (b - c) * 100
    BY SMT, <1>4
  <2>2. PICK r \in Nat : /\ r = Rounded(d, b, 1000)
                         /\ 2 * (b * r) <= 2 * d * 1000 + b /\ 2 * d * 1000 <= 2 * (b * r) + b
    BY SMT, <1>2
  <2>3. PercentDelta(b, c) = -r
    BY SMT, <1>4, <2>1, <2>2 DEF PercentDelta
  <2>4. PICK m \in Int : m = b * r
    BY SMT
  <2>5. b * (-r) = -m
    BY SMT, <2>4
  <2>6. b * (-r) < (c - b) * 100000 + b /\ (c - b) * 100000 < b * (-r) + b
    BY SMT, <2>1, <2>2, <2>4, <2>5
  <2>7. -r \in Int
    BY SMT
  <2> QED BY SMT, <2>3, <2>6, <2>7
<1> QED BY SMT, <1>3, <1>4

\* _metric_comparison blames no metric that grew by a thousandth less than is
\* allowed, and every one that grew by a thousandth more.
LEMMA MetricBounds ==
    ASSUME NEW b \in Nat, NEW c \in Nat, NEW gate \in Gates \cup {None}
    PROVE  /\ MetricRegressed(b, c, gate) => GrewMore(b, c, gate, -1)
           /\ ~MetricRegressed(b, c, gate) => ~GrewMore(b, c, gate, 1)
<1>1. CASE gate = None
  BY SMT, <1>1 DEF MetricRegressed, GrewMore
<1>2. CASE gate # None
  <2>1. PICK num \in Nat, den \in Nat : num = gate.num /\ den = gate.den /\ den > 0
    BY SMT, <1>2 DEF Gates
  <2>2. PICK t \in Int : t = (c - b) * 100000
    BY SMT
  <2>3. /\ GrewMore(b, c, gate, -1) <=> t * den > (num - den) * b
        /\ GrewMore(b, c, gate, 1) <=> t * den > (num + den) * b
    <3>1. num + (-1) * den = num - den /\ num + 1 * den = num + den
      BY SMT
    <3> QED BY SMT, <1>2, <2>1, <2>2, <3>1 DEF GrewMore, Above
  <2>4. CASE b = 0
    <3>1. MetricRegressed(b, c, gate) <=> c > 0
      BY SMT, <1>2, <2>4 DEF MetricRegressed
    <3>2. (num - den) * b = 0 /\ (num + den) * b = 0
      BY SMT, <2>4
    <3>3. c > 0 => t > 0
      BY SMT, <2>2, <2>4
    <3>4. t > 0 => t * den > 0
      BY SMT, <2>1
    <3>5. c = 0 => t * den = 0
      BY SMT, <2>2, <2>4
    <3> QED BY SMT, <2>3, <3>1, <3>2, <3>3, <3>4, <3>5
  <2>5. CASE b > 0
    <3>1. PICK q \in Int : q = PercentDelta(b, c) /\ b * q < t + b /\ t < b * q + b
      BY SMT, <2>2, <2>5, DeltaBounds
    <3>2. MetricRegressed(b, c, gate) <=> q * den > num
      BY SMT, <1>2, <2>1, <2>5, <3>1 DEF MetricRegressed
    <3>3. /\ q * den > num => t * den > (num - den) * b
          /\ q * den <= num => t * den <= (num + den) * b
      BY <2>1, <2>5, <3>1, GateBounds
    <3>4. PICK x \in Int, y \in Int, z \in Int : x = q * den /\ y = t * den /\ z = (num + den) * b
      BY SMT
    <3> QED BY SMT, <2>3, <3>2, <3>3, <3>4
  <2> QED BY SMT, <2>4, <2>5
<1> QED BY SMT, <1>1, <1>2

\* The difference of two rounded rates is a unit off at most.
LEMMA RatesBound ==
    ASSUME NEW a \in Nat, NEW b \in Nat, NEW n \in Nat, n > 0, NEW unit \in Nat
    PROVE  \E lost \in Int : /\ lost = Rounded(a, n, unit) - Rounded(b, n, unit)
                             /\ n * lost <= (a - b) * unit + n
                             /\ n * lost >= (a - b) * unit - n
<1>1. PICK p \in Nat : /\ p = Rounded(a, n, unit)
                       /\ 2 * n * p <= 2 * a * unit + n /\ 2 * a * unit <= 2 * n * p + n
  <2>1. /\ Rounded(a, n, unit) \in Nat
        /\ 2 * n * Rounded(a, n, unit) <= 2 * a * unit + n
        /\ 2 * a * unit <= 2 * n * Rounded(a, n, unit) + n
    BY ZenonT(30), RoundedBounds
  <2> QED BY <2>1
<1>2. PICK q \in Nat : /\ q = Rounded(b, n, unit)
                       /\ 2 * n * q <= 2 * b * unit + n /\ 2 * b * unit <= 2 * n * q + n
  <2>1. /\ Rounded(b, n, unit) \in Nat
        /\ 2 * n * Rounded(b, n, unit) <= 2 * b * unit + n
        /\ 2 * b * unit <= 2 * n * Rounded(b, n, unit) + n
    BY ZenonT(30), RoundedBounds
  <2> QED BY <2>1
<1>3. PICK m \in Int, k \in Int : m = n * p /\ k = n * q
  OBVIOUS
<1>4. PICK x \in Int, y \in Int : x = a * unit /\ y = b * unit
  OBVIOUS
<1>5. /\ 2 * n * p = 2 * m /\ 2 * n * q = 2 * k /\ n * (p - q) = m - k
      /\ 2 * a * unit = 2 * x /\ 2 * b * unit = 2 * y /\ (a - b) * unit = x - y
  BY <1>3, <1>4
<1>6. /\ 2 * m <= 2 * x + n /\ 2 * x <= 2 * m + n
      /\ 2 * k <= 2 * y + n /\ 2 * y <= 2 * k + n
  BY <1>1, <1>2, <1>5
<1>7. m - k <= x - y + n /\ m - k >= x - y - n
  BY <1>6
<1>8. p - q \in Int /\ p - q = Rounded(a, n, unit) - Rounded(b, n, unit)
  BY <1>1, <1>2
<1> QED BY <1>5, <1>7, <1>8

\* quality_regressed blames no candidate that lost a thousandth of a point less
\* than is allowed, and every one that lost a thousandth more.
LEMMA QualityBounds ==
    ASSUME JobInv, N > 0, PassedCases("baseline") \in Nat, PassedCases("candidate") \in Nat
    PROVE  /\ QualityRegressed => LostMore(-1)
           /\ ~QualityRegressed => ~LostMore(1)
<1>1. N \in Nat
  BY SMT, CountsCases DEF JobInv
<1>2. PICK num \in Nat, den \in Nat :
         num = job.gates.quality.num /\ den = job.gates.quality.den /\ den > 0
  BY SMT, GatesAssumption DEF JobInv, Typed, Gates
<1>3. PICK a \in Nat, b \in Nat : a = PassedCases("baseline") /\ b = PassedCases("candidate")
  BY SMT
<1>4. PICK lost \in Int : /\ lost = Rounded(a, N, 1000000) - Rounded(b, N, 1000000)
                          /\ N * lost <= (a - b) * 1000000 + N
                          /\ N * lost >= (a - b) * 1000000 - N
  <2>1. PICK unit \in Nat : unit = 1000000
    BY SMT
  <2>2. PICK lost \in Int : /\ lost = Rounded(a, N, unit) - Rounded(b, N, unit)
                            /\ N * lost <= (a - b) * unit + N
                            /\ N * lost >= (a - b) * unit - N
    BY ZenonT(30), <1>1, RatesBound
  <2> QED BY SMT, <2>1, <2>2
<1>5. PICK t \in Int : t = (a - b) * 100000
  BY SMT
<1>6. /\ LostMore(-1) <=> t * den > (num - den) * N
      /\ LostMore(1) <=> t * den > (num + den) * N
  <2>1. num + (-1) * den = num - den /\ num + 1 * den = num + den
    BY SMT
  <2> QED BY SMT, <1>2, <1>3, <1>5, <2>1 DEF LostMore, Above
<1>7. PICK m \in Int : m = N * lost /\ m <= 10 * t + N /\ m >= 10 * t - N
  BY SMT, <1>1, <1>4, <1>5
<1>8. CASE lost > 0
  <2>1. PICK r \in Nat : /\ r = Rounded(lost, 10000, 1000)
                         /\ 10 * r <= lost + 5 /\ lost <= 10 * r + 5
    <3>1. PICK unit \in Nat, tens \in Nat : unit = 1000 /\ tens = 10000
      BY SMT
    <3>2. lost \in Nat /\ tens > 0
      BY SMT, <1>8, <3>1
    <3>3. /\ Rounded(lost, tens, unit) \in Nat
          /\ 2 * tens * Rounded(lost, tens, unit) <= 2 * lost * unit + tens
          /\ 2 * lost * unit <= 2 * tens * Rounded(lost, tens, unit) + tens
      BY ZenonT(30), <3>2, RoundedBounds
    <3>4. PICK r \in Nat : r = Rounded(lost, tens, unit)
      BY Zenon, <3>3
    <3> QED BY SMT, <3>1, <3>3, <3>4
  <2>2. QualityRegressed <=> r * den > num
    BY SMT, <1>2, <1>3, <1>4, <1>8, <2>1 DEF QualityRegressed, PassRate
  <2>3. PICK k \in Int : k = N * r /\ 10 * k <= m + 5 * N /\ m <= 10 * k + 5 * N
    <3>1. N * (lost + 5 - 10 * r) >= 0 /\ N * (10 * r + 5 - lost) >= 0
      BY SMT, <1>1, <2>1
    <3>2. /\ N * (lost + 5 - 10 * r) = N * lost + 5 * N - 10 * (N * r)
          /\ N * (10 * r + 5 - lost) = 10 * (N * r) + 5 * N - N * lost
      BY SMT, <1>1
    <3>3. PICK k \in Int : k = N * r
      BY SMT, <1>1
    <3> QED BY SMT, <1>1, <1>7, <3>1, <3>2, <3>3
  <2>4. N * r < t + N /\ t < N * r + N
    BY SMT, <1>1, <1>7, <2>3
  <2>5. /\ r * den > num => t * den > (num - den) * N
        /\ r * den <= num => t * den <= (num + den) * N
    <3>1. N \in Nat /\ N > 0 /\ r \in Int /\ den > 0
      BY SMT, <1>1, <1>2
    <3> QED BY ZenonT(30), <2>4, <3>1, GateBounds
  <2>6. PICK x \in Int, y \in Int, z \in Int : x = r * den /\ y = t * den /\ z = (num + den) * N
    BY SMT, <1>1
  <2> QED BY SMT, <1>6, <2>2, <2>5, <2>6
<1>9. CASE lost <= 0
  <2>1. ~QualityRegressed
    BY SMT, <1>3, <1>4, <1>9 DEF QualityRegressed, PassRate
  <2>2. m <= 0
    BY SMT, <1>1, <1>7, <1>9
  <2>3. t <= N
    BY SMT, <1>1, <1>7, <2>2
  <2>4. t * den <= N * den
    BY SMT, <1>1, <2>3
  <2>5. (num + den) * N = num * N + N * den /\ num * N \in Nat
    BY SMT, <1>1
  <2>6. PICK y \in Int, z \in Int, w \in Nat : y = t * den /\ z = N * den /\ w = num * N
    BY SMT, <1>1, <2>5
  <2> QED BY SMT, <1>6, <2>1, <2>4, <2>5, <2>6
<1> QED BY SMT, <1>8, <1>9

\* What a target costs is a number.
LEMMA CostCounted ==
    ASSUME JobInv, NEW target \in {"baseline", "candidate"}
    PROVE  EstimatedCost(target) \in Nat
<1>1. N \in Nat
  BY SMT, CountsCases DEF JobInv
<1>2. job.cost[target] \in Nat
  BY SMT, GatesAssumption DEF JobInv, Typed
<1>3. N * job.cost[target] \in Nat
  BY <1>1, <1>2
<1> QED BY Zenon, <1>3 DEF EstimatedCost

\* The latencies of the cases add up to a number.
LatenciesAddUp == \A target \in {"baseline", "candidate"} : TotalLatency(target) \in Nat

LEMMA AverageCounted ==
    ASSUME JobInv, N > 0, LatenciesAddUp, NEW target \in {"baseline", "candidate"}
    PROVE  AverageLatency(target) \in Nat
<1>1. N \in Nat
  BY SMT, CountsCases DEF JobInv
<1>2. PICK total \in Nat, unit \in Nat : total = TotalLatency(target) /\ unit = 1000
  BY SMT DEF LatenciesAddUp
<1>3. Rounded(total, N, unit) \in Nat
  BY ZenonT(30), <1>1, RoundedBounds
<1> QED BY SMT, <1>2, <1>3 DEF AverageLatency

\* Passed cases are counted.
LEMMA PassedCounted ==
    ASSUME JobInv, Len(results) = 2 * N, NEW target \in {"baseline", "candidate"}
    PROVE  PassedCases(target) \in Nat
<1>1. N \in Nat /\ results \in Seq(CaseResults)
  BY CountsCases DEF JobInv, Typed
<1>2. DOMAIN Half(target) = 1..N
  BY <1>1 DEF Half
<1>3. IsFiniteSet(1..N)
  BY <1>1, FS_Interval
<1> DEFINE passed == {i \in DOMAIN Half(target) : Half(target)[i].outcome = "passed"}
<1>4. passed \subseteq 1..N
  BY <1>2
<1> HIDE DEF passed
<1>5. Cardinality(passed) \in Nat
  BY ZenonT(30), <1>3, <1>4, FS_Subset, FS_CardinalityType
<1> QED BY <1>5 DEF passed, PassedCases

\* The verdict is a function of the request and of the cases.
LEMMA VerdictKept ==
    ASSUME job' = job, results' = results
    PROVE  Passed' = Passed
<1>1. N' = N
  BY SMT DEF N
<1>2. \A t \in {"baseline", "candidate"} : Half(t)' = Half(t)
  BY SMT, <1>1 DEF Half
<1>3. \A t \in {"baseline", "candidate"} : PassRate(t)' = PassRate(t)
  BY SMT, <1>1, <1>2 DEF PassRate, PassedCases
<1>4. \A t \in {"baseline", "candidate"} : AverageLatency(t)' = AverageLatency(t)
  <2>1. \A t \in {"baseline", "candidate"} : TotalLatency(t)' = TotalLatency(t)
    BY Zenon, <1>2 DEF TotalLatency
  <2> QED BY SMT, <1>1, <2>1 DEF AverageLatency
<1>5. \A t \in {"baseline", "candidate"} : EstimatedCost(t)' = EstimatedCost(t)
  BY SMT, <1>1 DEF EstimatedCost
<1>6. QualityRegressed' = QualityRegressed
  BY SMT, <1>3 DEF QualityRegressed
<1>7. Comparison' = Comparison
  BY SMT, <1>4, <1>5, <1>6 DEF Comparison
<1>8. HasError' = HasError
  BY SMT DEF HasError
<1> QED BY SMT, <1>7, <1>8 DEF Passed

LEMMA VerdictStep ==
    ASSUME JobInv, VerdictOfCases, [Next]_vars
    PROVE  VerdictOfCases'
<1> SUFFICES ASSUME status' = "SUCCEEDED" PROVE report' <=> Passed'
  BY DEF VerdictOfCases
<1>1. CASE status = "SUCCEEDED"
  <2>1. UNCHANGED <<job, results, report>>
    BY ZenonT(30), <1>1 DEF JobInv, Progress, AtCases, Next, vars, Submit, Reconfigure, Claim, Charge, Answer,
       Complete, Fail, Expire, Recover, OtherWork, WindowEnds, OwnsActiveLease
  <2>2. Passed' = Passed
    BY <2>1, VerdictKept
  <2> QED BY ZenonT(30), <1>1, <2>1, <2>2 DEF VerdictOfCases
<1>2. CASE status # "SUCCEEDED"
  <2>1. Complete /\ OwnsActiveLease
    BY ZenonT(30), <1>2 DEF Next, vars, Submit, Reconfigure, Claim, Charge, Answer,
       Complete, Fail, RetryOrFail, Expire, Recover, OtherWork, WindowEnds
  <2>2. job' = job /\ results' = results /\ report' = Passed
    BY <2>1 DEF Complete
  <2>3. Passed' = Passed
    BY <2>2, VerdictKept
  <2> QED BY ZenonT(30), <2>2, <2>3
<1> QED BY <1>1, <1>2

\* A whole report with the verdict on its cases has a tight verdict.
LEMMA VerdictTight ==
    ASSUME JobInv, VerdictOfCases, LatenciesAddUp
    PROVE  VerdictIsTight
<1> SUFFICES ASSUME status = "SUCCEEDED"
             PROVE  /\ report => ~HasError /\ ~Regressed(1)
                    /\ ~HasError /\ ~Regressed(-1) => report
  BY Zenon DEF VerdictIsTight
<1> DEFINE Slower == MetricRegressed(AverageLatency("baseline"), AverageLatency("candidate"), job.gates.latency)
           Dearer == MetricRegressed(EstimatedCost("baseline"), EstimatedCost("candidate"), job.gates.cost)
           SlowerBy(moved) == GrewMore(AverageLatency("baseline"), AverageLatency("candidate"), job.gates.latency, moved)
           DearerBy(moved) == GrewMore(EstimatedCost("baseline"), EstimatedCost("candidate"), job.gates.cost, moved)
<1>1. report <=> ~HasError /\ ~QualityRegressed /\ ~Slower /\ ~Dearer
  BY Zenon DEF VerdictOfCases, Passed, Comparison
<1>2. N > 0 /\ Len(results) = 2 * N
  BY DEF JobInv, Accepted, ReportsAreWhole
<1>3. PassedCases("baseline") \in Nat /\ PassedCases("candidate") \in Nat
  BY <1>2, PassedCounted
<1>4. (QualityRegressed => LostMore(-1)) /\ (~QualityRegressed => ~LostMore(1))
  BY <1>2, <1>3, QualityBounds
<1>5. job.gates.latency \in Gates \cup {None} /\ job.gates.cost \in Gates \cup {None}
  BY GatesAssumption DEF JobInv, Typed
<1>6. (Slower => SlowerBy(-1)) /\ (~Slower => ~SlowerBy(1))
  <2>1. AverageLatency("baseline") \in Nat /\ AverageLatency("candidate") \in Nat
    BY <1>2, AverageCounted
  <2> QED BY Zenon, <1>5, <2>1, MetricBounds
<1>7. (Dearer => DearerBy(-1)) /\ (~Dearer => ~DearerBy(1))
  <2>1. EstimatedCost("baseline") \in Nat /\ EstimatedCost("candidate") \in Nat
    BY CostCounted
  <2> QED BY Zenon, <1>5, <2>1, MetricBounds
<1>8. /\ Regressed(1) <=> LostMore(1) \/ SlowerBy(1) \/ DearerBy(1)
      /\ Regressed(-1) <=> LostMore(-1) \/ SlowerBy(-1) \/ DearerBy(-1)
  BY Zenon DEF Regressed
<1> HIDE DEF Slower, Dearer, SlowerBy, DearerBy
<1> QED BY Zenon, <1>1, <1>4, <1>6, <1>7, <1>8

\* A persisted verdict is right up to a thousandth of a point of quality, and of a
\* percent of cost and of reported latency, for any cases, costs and gates and
\* whichever way ties are rounded: the roundings of _run_target, _comparison and
\* _metric_comparison never pass a candidate that regressed by more and never fail
\* one that stays so much below the gates.
THEOREM VerdictsAreTight == Spec => [](LatenciesAddUp => VerdictIsTight)
<1>1. Init => VerdictOfCases
  BY DEF Init, VerdictOfCases
<1>2. JobInv /\ VerdictOfCases /\ [Next]_vars => VerdictOfCases'
  BY VerdictStep
<1>3. JobInv /\ VerdictOfCases => (LatenciesAddUp => VerdictIsTight)
  BY VerdictTight
<1> QED BY <1>1, <1>2, <1>3, JobInvariant, PTL DEF Spec
=============================================================================
