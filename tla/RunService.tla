----------------------------- MODULE RunService -----------------------------
(***************************************************************************)
(* infrastructure/database/run_service.py, the transactions that create    *)
(* work: submit and evaluate.  Row, outbox row and history are inserted by *)
(* one commit, under the advisory locks of the principal and the tenant.   *)
(***************************************************************************)
EXTENDS RuntimeState

Active(S) == Cardinality({r \in S : status[r] \in ActiveStatuses})

\* Mutant: a run is admitted at the limit.
AdmittedAtLimit(r) ==
    /\ Active({q \in Runs : PrincipalOf[q] = PrincipalOf[r]}) <= PrincipalActive
    /\ Active({q \in Runs : TenantOf[q] = TenantOf[r]}) <= TenantActive

\* quotas.check_admission
Admitted(r) ==
    /\ Active({q \in Runs : PrincipalOf[q] = PrincipalOf[r]}) < PrincipalActive
    /\ Active({q \in Runs : TenantOf[q] = TenantOf[r]}) < TenantActive

\* The QUEUED row of r, with its delivery intent in the outbox.
InsertQueuedRun(r) ==
    /\ status' = [status EXCEPT ![r] = "QUEUED"]
    /\ outbox' = [outbox EXCEPT ![r]["RUN_QUEUED"] = @ + 1]

Submit(r) ==
    /\ WorkKind(r) = "execution"
    /\ status[r] = "ABSENT"
    /\ Admitted(r)
    /\ InsertQueuedRun(r)
    /\ events' = [events EXCEPT ![r] = @ \cup {"RUN_QUEUED"}]
    /\ UNCHANGED <<leaseVars, retryAt, error, result, attempts, evalVars,
                   brokerVars, dispatcherVars, handlerVars>>

\* Evaluation.created_at is PostgreSQL's now(): the start of the transaction,
\* which comes before the transaction waits for the identity locks.
BeginEvaluate(job) ==
    /\ WorkKind(job) = "evaluation"
    /\ created[job] = 0
    /\ created' = [created EXCEPT
                     ![job] = 1 + Cardinality({j \in Runs : created[j] # 0})]
    /\ UNCHANGED <<status, leaseVars, retryAt, error, result, attempts,
                   evaluation, summary, events, outbox, brokerVars,
                   dispatcherVars, handlerVars>>

\* The rest of the transaction.  A source that is not a successful execution
\* run raises RunNotSucceededError and nothing is written.
Evaluate(job) ==
    LET source == SourceOf[job] IN
    /\ WorkKind(job) = "evaluation"
    /\ created[job] # 0
    /\ status[job] = "ABSENT"
    /\ WorkKind(source) = "execution"
    /\ status[source] = "SUCCEEDED"
    /\ result[source] # 0
    /\ Admitted(job)
    /\ InsertQueuedRun(job)
    /\ evaluation' = [evaluation EXCEPT ![job] = "PENDING"]
    /\ summary' = [summary EXCEPT ![source] = "PENDING"]
    /\ events' = [events EXCEPT ![job] = @ \cup {"RUN_QUEUED"},
                                ![source] = @ \cup {"EVALUATION_PENDING"}]
    /\ UNCHANGED <<leaseVars, retryAt, error, result, attempts, created,
                   brokerVars, dispatcherVars, handlerVars>>
=============================================================================
