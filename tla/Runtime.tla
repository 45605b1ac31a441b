------------------------------ MODULE Runtime -------------------------------
(***************************************************************************)
(* The runtime: API, outbox dispatchers, broker, workers, scheduler and    *)
(* the passage of time, interleaved.                                       *)
(***************************************************************************)
EXTENDS RunService, OutboxDispatcher, Worker

Init ==
    /\ status = [r \in Runs |-> "ABSENT"]
    /\ leaseOwner = [r \in Runs |-> NoWorker]
    /\ lease = [r \in Runs |-> "none"]
    /\ retryAt = [r \in Runs |-> "none"]
    /\ error = [r \in Runs |-> "NONE"]
    /\ result = [r \in Runs |-> 0]
    /\ summary = [r \in Runs |-> "NOT_RUN"]
    /\ attempts = [r \in Runs |-> <<>>]
    /\ evaluation = [r \in Runs |-> "NOT_RUN"]
    /\ created = [r \in Runs |-> 0]
    /\ events = [r \in Runs |-> {}]
    /\ outbox = [r \in Runs |-> [type \in OutboxEventTypes |-> 0]]
    /\ queue = [r \in Runs |-> 0]
    /\ deadLetters = {}
    /\ dpc = [d \in Dispatchers |-> "idle"]
    /\ devent = [d \in Dispatchers |-> <<>>]
    /\ pc = [h \in Handlers |-> "idle"]
    /\ msg = [h \in Handlers |-> NoRun]
    /\ held = [h \in Handlers |-> FALSE]
    /\ att = [h \in Handlers |-> 0]
    /\ out = [h \in Handlers |-> "NONE"]
    /\ late = [h \in Handlers |-> FALSE]

processVars == <<brokerVars, dispatcherVars, handlerVars>>

\* processes._run_recovery: recover_expired_leases, then schedule_due_retries.
RecoverLease(r) == RecoverExpiredLease(r) /\ UNCHANGED processVars

ScheduleRetryDue(r) == ScheduleDueRetry(r) /\ UNCHANGED processVars

\* Time reaches execution_lease_expires_at, or next_attempt_at.
LeaseExpires(r) ==
    /\ lease[r] = "active"
    /\ lease' = [lease EXCEPT ![r] = "expired"]
    /\ UNCHANGED <<status, leaseOwner, retryAt, error, result, attempts,
                   evalVars, events, outbox, processVars>>

RetryFallsDue(r) ==
    /\ retryAt[r] = "waiting"
    /\ retryAt' = [retryAt EXCEPT ![r] = "due"]
    /\ UNCHANGED <<status, leaseVars, error, result, attempts, evalVars,
                   events, outbox, processVars>>

Api == \E r \in Runs : Submit(r) \/ BeginEvaluate(r) \/ Evaluate(r)

Dispatcher(d) ==
    \/ \E r \in Runs, type \in OutboxEventTypes : LockEvent(d, r, type)
    \/ Publish(d)
    \/ PublishFails(d)
    \/ MarkPublished(d)
    \/ DispatcherCrash(d)

Handler(h) ==
    \/ \E r \in Runs : Deliver(h, r)
    \/ ClaimNotGranted(h)
    \/ Claim(h)
    \/ Charge(h)
    \/ ChargeFenced(h)
    \/ ChargeDenied(h)
    \/ ProviderReturns(h)
    \/ EvaluateRules(h)
    \/ AttemptTimesOut(h)
    \/ CompletePersisted(h)
    \/ CompleteLost(h)
    \/ Ack(h)
    \/ Nack(h)
    \/ HandlerLost(h)
    \/ ConnectionLost(h)

Scheduler == \E r \in Runs : RecoverLease(r) \/ ScheduleRetryDue(r)

Time == \E r \in Runs : LeaseExpires(r) \/ RetryFallsDue(r)

Next ==
    \/ Api
    \/ \E d \in Dispatchers : Dispatcher(d)
    \/ \E h \in Handlers : Handler(h)
    \/ Scheduler
    \/ Time

Spec == Init /\ [][Next]_vars

-----------------------------------------------------------------------------
(* Safety *)

\* A run is RUNNING exactly while it has a lease and an open attempt, and the
\* open attempt is its last one.  Otherwise claim would answer ACTIVE_LEASE
\* for ever, or recover_expired_leases would skip the run at `continue`.
LeaseMatchesAttempts ==
    \A r \in Runs :
        /\ status[r] = "RUNNING" <=> lease[r] # "none"
        /\ status[r] = "RUNNING" <=> leaseOwner[r] # NoWorker
        /\ {n \in DOMAIN attempts[r] : attempts[r][n] = "OPEN"} =
              IF status[r] = "RUNNING" THEN {Len(attempts[r])} ELSE {}

Executing(h) == pc[h] \in {"executing", "calling", "reporting"}

\* No two handlers ever execute the same attempt, whatever is redelivered, and
\* a handler whose attempt is still open belongs to the worker that holds the
\* lease: worker_id alone does not identify the execution, the attempt does.
AttemptHasOneHandler ==
    \A h \in Handlers : Executing(h) =>
        /\ att[h] \in DOMAIN attempts[msg[h]]
        /\ AttemptIsOpen(msg[h], att[h]) => leaseOwner[msg[h]] = WorkerOf[h]
        /\ \A g \in Handlers \ {h} :
              Executing(g) /\ msg[g] = msg[h] => att[g] # att[h]

\* A run is SUCCEEDED exactly when it has a result; the result is the one of
\* its last attempt, the only attempt that succeeded.  A worker that lost its
\* lease never decides the run.
ResultFromLastAttempt ==
    \A r \in Runs :
        /\ status[r] = "SUCCEEDED" <=> result[r] # 0
        /\ {n \in DOMAIN attempts[r] : attempts[r][n] = "SUCCEEDED"} =
              IF status[r] = "SUCCEEDED" THEN {result[r]} ELSE {}
        /\ result[r] \in {0, Len(attempts[r])}

\* Where the intent to deliver r is while no claim has answered it.  A delivery
\* the broker has taken back does not count: it dies with its handler.
DeliveryIntent(r) ==
    \/ outbox[r]["RUN_QUEUED"] > 0
    \/ \E d \in Dispatchers : dpc[d] = "locked" /\ devent[d] = <<r, "RUN_QUEUED">>
    \/ queue[r] > 0
    \/ \E h \in Handlers : pc[h] = "claiming" /\ msg[h] = r /\ held[h]

\* No accepted run is ever stranded: a QUEUED run always has an unpublished
\* outbox row, a message or a delivery about to claim it; a RETRY_SCHEDULED
\* run is one schedule_due_retries will find.
NoStrandedRun ==
    \A r \in Runs :
        /\ status[r] = "QUEUED" => DeliveryIntent(r)
        /\ status[r] = "RETRY_SCHEDULED" <=> retryAt[r] # "none"

\* A run is DEAD_LETTERED exactly when its dead-letter notice is in the
\* outbox, with a dispatcher, or in the dead-letter queue.
DeadLetterNoticeKept ==
    \A r \in Runs :
        status[r] = "DEAD_LETTERED" <=>
            \/ outbox[r]["RUN_DEAD_LETTERED"] > 0
            \/ \E d \in Dispatchers : devent[d] = <<r, "RUN_DEAD_LETTERED">>
            \/ r \in deadLetters

\* claim never starts an attempt beyond the stored or the server's budget.
AttemptBudgetHeld ==
    \A r \in Runs :
        Len(attempts[r]) <= MaxAttempts[r] /\ Len(attempts[r]) <= ServerMaxAttempts

\* The running quotas hold in every state, for every principal and tenant.
RunningQuotaHeld ==
    /\ \A p \in Principals : Running(RunsOfPrincipal(p)) <= PrincipalRunning
    /\ \A t \in Tenants : Running(RunsOfTenant(t)) <= TenantRunning

\* The admission quotas hold in every state: retries and recovery never
\* re-activate a run that stopped counting.
ActiveQuotaHeld ==
    /\ \A p \in Principals : Active(RunsOfPrincipal(p)) <= PrincipalActive
    /\ \A t \in Tenants : Active(RunsOfTenant(t)) <= TenantActive

\* An evaluation row follows its job through every way a job can end:
\* completion, exhausted budget, dead-lettering by recovery.
EvaluationFollowsJob ==
    \A j \in Runs : WorkKind(j) = "evaluation" =>
        /\ evaluation[j] = "NOT_RUN" <=> status[j] = "ABSENT"
        /\ evaluation[j] = "PENDING" <=> status[j] \in ActiveStatuses
        /\ evaluation[j] \in {"PASSED", "FAILED"} <=> status[j] = "SUCCEEDED"

EvaluationsOf(r) == {j \in Runs : SourceOf[j] = r /\ evaluation[j] # "NOT_RUN"}

\* A settled evaluation_status of a run is the verdict of its newest evaluation.
SettledSummaryIsNewest ==
    \A r \in Runs : \A j \in EvaluationsOf(r) :
        (\A i \in EvaluationsOf(r) : created[i] <= created[j])
            => summary[r] \in {"PENDING", evaluation[j]}

-----------------------------------------------------------------------------
(* Action properties *)

\* Attempt rows are appended and finished once, never removed or rewritten.
AttemptHistoryIsFinal ==
    [][\A r \in Runs :
          /\ Len(attempts'[r]) >= Len(attempts[r])
          /\ \A n \in DOMAIN attempts[r] :
                attempts[r][n] # "OPEN" => attempts'[r][n] = attempts[r][n]]_vars

\* Terminal runs are immutable: no late completion, duplicate delivery, retry
\* or recovery changes how a decided run ended.
TerminalRunsImmutable ==
    [][\A r \in Runs :
          status[r] \in TerminalExecutionStatuses =>
              UNCHANGED <<status[r], result[r], error[r], retryAt[r], attempts[r],
                          leaseOwner[r], lease[r]>>]_vars

-----------------------------------------------------------------------------
(* What the documents and tests say and the code does not do *)

\* Once every evaluation of a run is settled, so is its evaluation_status.  An
\* evaluation stamped before another one but committed after it had finished
\* sets PENDING, and is not the latest when it finishes itself.
SummarySettles ==
    \A r \in Runs :
        /\ EvaluationsOf(r) # {}
        /\ \A j \in EvaluationsOf(r) : evaluation[j] # "PENDING"
        => summary[r] # "PENDING"

-----------------------------------------------------------------------------
(* Refinement *)

Contract ==
    INSTANCE RunContract WITH
        Budget  <- [r \in Runs |-> IF MaxAttempts[r] < ServerMaxAttempts
                                   THEN MaxAttempts[r] ELSE ServerMaxAttempts],
        outcome <- [r \in Runs |-> IF status[r] \in ActiveStatuses
                                   THEN "PENDING" ELSE status[r]],
        tries   <- [r \in Runs |-> Len(attempts[r])],
        winner  <- result

\* The whole runtime implements the contract of RunContract.
ImplementsContract == Contract!ContractSpec

-----------------------------------------------------------------------------
(* Liveness *)

ExecutionEnds(h) ==
    Charge(h) \/ ChargeFenced(h) \/ ChargeDenied(h) \/ ProviderReturns(h)
        \/ EvaluateRules(h) \/ AttemptTimesOut(h)

Answer(h) == CompletePersisted(h) \/ CompleteLost(h) \/ Ack(h) \/ Nack(h)

ClaimOf(h, r) == msg[h] = r /\ (Claim(h) \/ ClaimNotGranted(h))

PublishOf(d, r, type) == devent[d] = <<r, type>> /\ Publish(d)

\* Time passes and every process keeps looping (weak fairness).  The steps an
\* environment failure can undo over and over, taking a row, publishing it,
\* delivering a message, claiming the run, are strongly fair: broker and
\* database do not fail for ever.  Faults and client requests are never fair.
Fairness ==
    /\ \A r \in Runs :
          /\ WF_vars(LeaseExpires(r)) /\ WF_vars(RetryFallsDue(r))
          /\ WF_vars(RecoverLease(r)) /\ WF_vars(ScheduleRetryDue(r))
          /\ SF_vars(\E h \in Handlers : Deliver(h, r))
          /\ SF_vars(\E h \in Handlers : ClaimOf(h, r))
          /\ \A type \in OutboxEventTypes :
                /\ SF_vars(\E d \in Dispatchers : LockEvent(d, r, type))
                /\ SF_vars(\E d \in Dispatchers : PublishOf(d, r, type))
    /\ \A d \in Dispatchers : SF_vars(MarkPublished(d))
    /\ \A h \in Handlers : WF_vars(ExecutionEnds(h)) /\ WF_vars(Answer(h))

FairSpec == Spec /\ Fairness

\* Every accepted run is eventually decided, and stays so.
AcceptedRunsSettle ==
    \A r \in Runs :
        status[r] # "ABSENT" ~> [](status[r] \in TerminalExecutionStatuses)

\* The notice of a dead-lettered run eventually reaches the dead-letter queue.
DeadLetterNoticeArrives ==
    \A r \in Runs : status[r] = "DEAD_LETTERED" ~> r \in deadLetters
=============================================================================
