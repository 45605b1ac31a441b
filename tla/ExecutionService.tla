-------------------------- MODULE ExecutionService --------------------------
(***************************************************************************)
(* infrastructure/database/execution_service.py: the transactions that own *)
(* claims, attempts, terminal writes and stale-lease recovery.  Each       *)
(* operator is one committed transaction on the database variables; the    *)
(* row lock on the run (SELECT ... FOR UPDATE) and, for claim, the         *)
(* advisory identity locks are what make it atomic.  What the caller does  *)
(* with the answer is in Worker and Runtime.                               *)
(***************************************************************************)
EXTENDS RuntimeState

-----------------------------------------------------------------------------
(* _finalize_evaluation_job *)

EvaluationEvent ==
    [PASSED |-> "EVALUATION_PASSED",
     FAILED |-> "EVALUATION_FAILED",
     ERROR  |-> "EVALUATION_ERROR"]

\* Mutant: the latest-evaluation check is dropped.
AnyEvaluationIsLatest(job) == SourceOf[job] # NoRun

IsLatestEvaluation(job) ==
    \A j \in Runs :
        SourceOf[j] = SourceOf[job] /\ evaluation[j] # "NOT_RUN"
            => created[j] <= created[job]

\* The evaluation row and its source's summary when job r ends with verdict.
\* A job without a row raises RuntimeError, which rolls the transaction back.
\* own is what the same transaction records in the run's own history.
FinalizeEvaluationJob(r, own, verdict) ==
    \/ /\ WorkKind(r) # "evaluation"
       /\ events' = [events EXCEPT ![r] = @ \cup own]
       /\ UNCHANGED evalVars
    \/ /\ WorkKind(r) = "evaluation"
       /\ evaluation[r] # "NOT_RUN"
       /\ evaluation' = [evaluation EXCEPT ![r] = verdict]
       /\ summary' = IF IsLatestEvaluation(r)
                     THEN [summary EXCEPT ![SourceOf[r]] = verdict]
                     ELSE summary
       /\ events' = [events EXCEPT ![r] = @ \cup own,
                                   ![SourceOf[r]] = @ \cup {EvaluationEvent[verdict]}]
       /\ UNCHANGED created

-----------------------------------------------------------------------------
(* claim: four outcomes *)

\* Mutant: only leased and delayed runs are refused.
ClaimableUnlessBusy(r) == status[r] \notin {"ABSENT", "RUNNING", "RETRY_SCHEDULED"}

Claimable(r) == status[r] = "QUEUED"

Running(S) == Cardinality({r \in S : status[r] = "RUNNING"})

RunsOfPrincipal(p) == {r \in Runs : PrincipalOf[r] = p}
RunsOfTenant(t) == {r \in Runs : TenantOf[r] = t}

\* Mutant: count > limit.
RunningQuotaOverfull(r) ==
    \/ Running(RunsOfPrincipal(PrincipalOf[r])) > PrincipalRunning
    \/ Running(RunsOfTenant(TenantOf[r])) > TenantRunning

RunningQuotaFull(r) ==
    \/ Running(RunsOfPrincipal(PrincipalOf[r])) >= PrincipalRunning
    \/ Running(RunsOfTenant(TenantOf[r])) >= TenantRunning

NextAttemptNumber(r) == Len(attempts[r]) + 1

\* Mutant: the stored policy alone is the budget.
StoredBudgetExhausted(r) == NextAttemptNumber(r) > MaxAttempts[r]

AttemptBudgetExhausted(r) ==
    \/ NextAttemptNumber(r) > MaxAttempts[r]
    \/ NextAttemptNumber(r) > ServerMaxAttempts

\* MISSING, TERMINAL, ACTIVE_LEASE and NOT_READY: nothing is written.
ClaimRefused(r) ==
    /\ ~Claimable(r)
    /\ UNCHANGED dbVars

\* No running slot: the run is put back for one second, without an event.
ClaimDeferred(r) ==
    /\ Claimable(r)
    /\ RunningQuotaFull(r)
    /\ status' = [status EXCEPT ![r] = "RETRY_SCHEDULED"]
    /\ retryAt' = [retryAt EXCEPT ![r] = "waiting"]
    /\ UNCHANGED <<leaseVars, error, result, attempts, evalVars, events, outbox>>

\* The stored policy is malformed or leaves no attempt: FAILED, without an event.
ClaimExhausted(r) ==
    /\ Claimable(r)
    /\ ~RunningQuotaFull(r)
    /\ AttemptBudgetExhausted(r)
    /\ status' = [status EXCEPT ![r] = "FAILED"]
    /\ error' = [error EXCEPT ![r] = "INVALID_STORED_POLICY"]
    /\ FinalizeEvaluationJob(r, {}, "ERROR")
    /\ UNCHANGED <<leaseVars, retryAt, result, attempts, outbox>>

ClaimGranted(r, w) ==
    /\ Claimable(r)
    /\ ~RunningQuotaFull(r)
    /\ ~AttemptBudgetExhausted(r)
    /\ attempts' = [attempts EXCEPT ![r] = Append(@, "OPEN")]
    /\ status' = [status EXCEPT ![r] = "RUNNING"]
    /\ leaseOwner' = [leaseOwner EXCEPT ![r] = w]
    /\ lease' = [lease EXCEPT ![r] = "active"]
    /\ events' = [events EXCEPT ![r] = @ \cup {"RUN_CLAIMED"}]
    /\ UNCHANGED <<retryAt, error, result, evalVars, outbox>>

-----------------------------------------------------------------------------
(* complete_success, complete_failure *)

\* sawExpired: expires_at <= now for the now that was read before the row lock.
OwnsActiveLease(r, w, sawExpired) ==
    /\ status[r] = "RUNNING"
    /\ leaseOwner[r] = w
    /\ lease[r] # "none"
    /\ ~sawExpired

\* Mutant: finished_at is not looked at.
AttemptExists(r, n) == n \in DOMAIN attempts[r]

AttemptIsOpen(r, n) == n \in DOMAIN attempts[r] /\ attempts[r][n] = "OPEN"

MayComplete(r, n, w, sawExpired) ==
    OwnsActiveLease(r, w, sawExpired) /\ AttemptIsOpen(r, n)

\* Mutant: execution_lease_expires_at is left behind.
ClearLeaseOwner(r) ==
    /\ leaseOwner' = [leaseOwner EXCEPT ![r] = NoWorker]
    /\ UNCHANGED lease

ClearLease(r) ==
    /\ leaseOwner' = [leaseOwner EXCEPT ![r] = NoWorker]
    /\ lease' = [lease EXCEPT ![r] = "none"]

CompleteRefused(r, n, w, sawExpired) ==
    /\ ~MayComplete(r, n, w, sawExpired)
    /\ UNCHANGED dbVars

CompleteSuccess(r, n, w, sawExpired, passed) ==
    /\ MayComplete(r, n, w, sawExpired)
    /\ attempts' = [attempts EXCEPT ![r][n] = "SUCCEEDED"]
    /\ status' = [status EXCEPT ![r] = "SUCCEEDED"]
    /\ result' = [result EXCEPT ![r] = n]
    /\ error' = [error EXCEPT ![r] = "NONE"]
    /\ retryAt' = [retryAt EXCEPT ![r] = "none"]
    /\ ClearLease(r)
    /\ FinalizeEvaluationJob(r, {"RUN_SUCCEEDED"}, IF passed THEN "PASSED" ELSE "FAILED")
    /\ UNCHANGED outbox

\* _finish_failed_attempt and _schedule_retry_or_finalize.
RetryBudgetLeft(r, n) == n < MaxAttempts[r]

\* Mutant: the retry gets no next_attempt_at.
ScheduleRetryUndated(r) ==
    /\ status' = [status EXCEPT ![r] = "RETRY_SCHEDULED"]
    /\ events' = [events EXCEPT ![r] = @ \cup {"RUN_RETRY_SCHEDULED"}]
    /\ UNCHANGED <<retryAt, evalVars, outbox>>

ScheduleRetry(r) ==
    /\ status' = [status EXCEPT ![r] = "RETRY_SCHEDULED"]
    /\ retryAt' = [retryAt EXCEPT ![r] = "waiting"]
    /\ events' = [events EXCEPT ![r] = @ \cup {"RUN_RETRY_SCHEDULED"}]
    /\ UNCHANGED <<evalVars, outbox>>

\* Mutant: no outbox row announces the dead letter.
DeadLetterUnannounced(r) ==
    /\ status' = [status EXCEPT ![r] = "DEAD_LETTERED"]
    /\ retryAt' = [retryAt EXCEPT ![r] = "none"]
    /\ FinalizeEvaluationJob(r, {"RUN_DEAD_LETTERED"}, "ERROR")
    /\ UNCHANGED outbox

\* Mutant: a dead-lettered job leaves its evaluation pending.
DeadLetterUnfinalized(r) ==
    /\ status' = [status EXCEPT ![r] = "DEAD_LETTERED"]
    /\ retryAt' = [retryAt EXCEPT ![r] = "none"]
    /\ outbox' = [outbox EXCEPT ![r]["RUN_DEAD_LETTERED"] = @ + 1]
    /\ events' = [events EXCEPT ![r] = @ \cup {"RUN_DEAD_LETTERED"}]
    /\ UNCHANGED evalVars

DeadLetter(r) ==
    /\ status' = [status EXCEPT ![r] = "DEAD_LETTERED"]
    /\ retryAt' = [retryAt EXCEPT ![r] = "none"]
    /\ outbox' = [outbox EXCEPT ![r]["RUN_DEAD_LETTERED"] = @ + 1]
    /\ FinalizeEvaluationJob(r, {"RUN_DEAD_LETTERED"}, "ERROR")

FailRun(r) ==
    /\ status' = [status EXCEPT ![r] = "FAILED"]
    /\ retryAt' = [retryAt EXCEPT ![r] = "none"]
    /\ FinalizeEvaluationJob(r, {"RUN_FAILED"}, "ERROR")
    /\ UNCHANGED outbox

FailAttempt(r, n, code) ==
    /\ attempts' = [attempts EXCEPT ![r][n] = "FAILED"]
    /\ error' = [error EXCEPT ![r] = code]
    /\ ClearLease(r)
    /\ \/ IsRetryableError(code) /\ RetryBudgetLeft(r, n) /\ ScheduleRetry(r)
       \/ IsRetryableError(code) /\ ~RetryBudgetLeft(r, n) /\ DeadLetter(r)
       \/ ~IsRetryableError(code) /\ FailRun(r)
    /\ UNCHANGED result

CompleteFailure(r, n, w, sawExpired, code) ==
    /\ MayComplete(r, n, w, sawExpired)
    /\ FailAttempt(r, n, code)

-----------------------------------------------------------------------------
(* The scheduler process: one row of a batch per step.  The rows of a batch *)
(* are disjoint, locked, and skipped when somebody else holds them.         *)

\* A RUNNING row without an open attempt is skipped (`continue`).
RecoverExpiredLease(r) ==
    /\ status[r] = "RUNNING"
    /\ lease[r] = "expired"
    /\ \E n \in DOMAIN attempts[r] :
          /\ attempts[r][n] = "OPEN"
          /\ \A m \in DOMAIN attempts[r] : m > n => attempts[r][m] # "OPEN"
          /\ FailAttempt(r, n, "EXECUTION_LEASE_EXPIRED")

ScheduleDueRetry(r) ==
    /\ status[r] = "RETRY_SCHEDULED"
    /\ retryAt[r] = "due"
    /\ outbox[r]["RUN_QUEUED"] < MaxBacklog
    /\ status' = [status EXCEPT ![r] = "QUEUED"]
    /\ retryAt' = [retryAt EXCEPT ![r] = "none"]
    /\ outbox' = [outbox EXCEPT ![r]["RUN_QUEUED"] = @ + 1]
    /\ events' = [events EXCEPT ![r] = @ \cup {"RUN_RETRY_QUEUED"}]
    /\ UNCHANGED <<leaseVars, error, result, attempts, evalVars>>
=============================================================================
